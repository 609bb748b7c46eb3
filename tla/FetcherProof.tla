---------------------------- MODULE FetcherProof ----------------------------
(***************************************************************************)
(* The theorems about the calls of cached methods, for any calls, keys,    *)
(* size of the cache and number of faults.                                 *)
(***************************************************************************)
EXTENDS FetcherProperties, SequenceTheorems, TLAPS

(***************************************************************************)
(* Calls for one key share one fetch, and nobody is left to wait for a     *)
(* fetch that is over: for any calls, keys and number of faults.           *)
(***************************************************************************)

\* The variables the invariant speaks of are functions of the right kind.
Shape ==
  /\ pc \in [Call -> {"idle", "waiting", "value"} \cup Leading \cup Broken]
  /\ key \in [Call -> Key]
  /\ leads \in [Call -> Call]
  /\ inflight \in [Key -> SUBSET Call]
  /\ future \in [Call -> {"none", "pending", "set", "cancelled"}]

\* A call leads exactly while inflight has it under its key.
LeadInv ==
  /\ \A c \in Call : pc[c] \in Leading => inflight[key[c]] = {c}
  /\ \A k \in Key : \A c \in inflight[k] : pc[c] \in Leading /\ key[c] = k

\* A call has no future before it is made, and none that is set while it leads.
FutureInv ==
  \A c \in Call : /\ pc[c] = "idle" => future[c] = "none"
                  /\ pc[c] \in Leading => future[c] \in {"pending", "cancelled"}

\* A follower follows a call for its own key, which leads still, or has
\* settled the future, or was cancelled.
FollowInv ==
  \A c \in Call : pc[c] = "waiting" =>
    /\ key[leads[c]] = key[c]
    /\ \/ pc[leads[c]] \in Leading \cup {"cancelled"}
       \/ future[leads[c]] \in {"set", "cancelled"}

FetchInv == Shape /\ LeadInv /\ FutureInv /\ FollowInv
-----------------------------------------------------------------------------
\* The invariant holds before the first call.
LEMMA FetchInit == Init => FetchInv
<1> SUFFICES ASSUME Init PROVE FetchInv OBVIOUS
<1>1. Shape BY FetcherAssumption DEF Init, Shape
<1>2. LeadInv /\ FutureInv /\ FollowInv
  BY DEF Init, LeadInv, FutureInv, FollowInv, Leading
<1> QED BY <1>1, <1>2 DEF FetchInv

\* A call enters: from the cache, as a follower or as the one that leads.
LEMMA EnterStep ==
  ASSUME FetchInv, NEW c \in Call, NEW k \in Key, Enter(c, k)
  PROVE  FetchInv'
<1> USE DEF Goto, Leading, Broken
<1>1. CASE Hits(k) # {}
  BY <1>1 DEF FetchInv, Shape, LeadInv, FutureInv, FollowInv, Enter
<1>2. CASE Hits(k) = {} /\ Underway(k) # {}
  <2>1. PICK l \in inflight[k] :
          /\ leads' = [leads EXCEPT ![c] = l]
          /\ Goto(c, IF future[l] = "cancelled" THEN "dropped" ELSE "waiting")
          /\ UNCHANGED <<inflight, future>>
    BY <1>2 DEF Enter, Underway
  <2>2. pc[c] = "idle" /\ key' = [key EXCEPT ![c] = k] BY DEF Enter
  <2>3. l \in Call /\ pc[l] \in Leading /\ key[l] = k /\ l # c
    BY <2>1, <2>2 DEF FetchInv, Shape, LeadInv
  <2>4. Shape' BY <2>1, <2>2, <2>3 DEF FetchInv, Shape
  <2>5. LeadInv' BY <2>1, <2>2 DEF FetchInv, Shape, LeadInv
  <2>6. FutureInv' BY <2>1, <2>2 DEF FetchInv, Shape, FutureInv
  <2>7. FollowInv'
    <3> SUFFICES ASSUME NEW d \in Call, pc'[d] = "waiting"
                 PROVE  /\ key'[leads'[d]] = key'[d]
                        /\ \/ pc'[leads'[d]] \in Leading \cup {"cancelled"}
                           \/ future'[leads'[d]] \in {"set", "cancelled"}
      BY DEF FollowInv
    <3>1. CASE d = c BY <2>1, <2>2, <2>3, <3>1 DEF FetchInv, Shape
    <3>2. CASE d # c
      <4>1. /\ pc[d] = "waiting" /\ leads'[d] = leads[d] /\ leads[d] \in Call
            /\ key'[d] = key[d]
        BY <2>1, <2>2, <3>2 DEF FetchInv, Shape
      <4>2. leads[d] # c
        BY <2>2, <4>1 DEF FetchInv, FutureInv, FollowInv
      <4> QED BY <2>1, <2>2, <4>1, <4>2 DEF FetchInv, Shape, FollowInv
    <3> QED BY <3>1, <3>2
  <2> QED BY <2>4, <2>5, <2>6, <2>7 DEF FetchInv
<1>3. CASE Hits(k) = {} /\ Underway(k) = {}
  <2>1. PICK place \in Leading :
          /\ inflight' = [inflight EXCEPT ![k] = {c}]
          /\ future' = [future EXCEPT ![c] = "pending"]
          /\ pc' = [pc EXCEPT ![c] = place]
          /\ UNCHANGED leads
    BY <1>3 DEF Enter
  <2>2. pc[c] = "idle" /\ key' = [key EXCEPT ![c] = k] /\ inflight[k] = {}
    BY <1>3 DEF Enter, Underway
  <2>3. Shape' BY <2>1, <2>2 DEF FetchInv, Shape
  <2>4. LeadInv' BY <2>1, <2>2 DEF FetchInv, Shape, LeadInv
  <2>5. FutureInv' BY <2>1, <2>2 DEF FetchInv, Shape, FutureInv
  <2>6. FollowInv'
    <3> SUFFICES ASSUME NEW d \in Call, pc'[d] = "waiting"
                 PROVE  /\ key'[leads'[d]] = key'[d]
                        /\ \/ pc'[leads'[d]] \in Leading \cup {"cancelled"}
                           \/ future'[leads'[d]] \in {"set", "cancelled"}
      BY DEF FollowInv
    <3>1. d # c /\ pc[d] = "waiting" /\ leads[d] \in Call
      BY <2>1, <2>2 DEF FetchInv, Shape
    <3>2. leads[d] # c BY <2>2, <3>1 DEF FetchInv, FutureInv, FollowInv
    <3> QED BY <2>1, <2>2, <3>1, <3>2 DEF FetchInv, Shape, FollowInv
  <2> QED BY <2>3, <2>4, <2>5, <2>6 DEF FetchInv
<1> QED BY <1>1, <1>2, <1>3

\* The finally of __call__: a call that leads is over, for its followers too.
LEMMA OverStep ==
  ASSUME FetchInv, NEW c \in Call, pc[c] \in Leading,
         NEW place \in {"value"} \cup Broken, Goto(c, place),
         NEW f \in {"pending", "set", "cancelled"},
         f = "pending" => place = "cancelled",
         future' = [future EXCEPT ![c] = f],
         StepDown(c), UNCHANGED <<key, leads>>
  PROVE  FetchInv'
<1>1. /\ pc' = [pc EXCEPT ![c] = place]
      /\ inflight' = [inflight EXCEPT ![key[c]] = {}]
  BY DEF Goto, StepDown
<1>2. Shape' BY <1>1 DEF FetchInv, Shape
<1>3. place \notin Leading \cup {"idle", "waiting"} BY DEF Leading, Broken
<1>4. inflight[key[c]] = {c} BY DEF FetchInv, LeadInv
<1>5. LeadInv'
  <2>1. ASSUME NEW d \in Call, pc'[d] \in Leading
        PROVE  inflight'[key'[d]] = {d}
    <3>1. d # c /\ pc[d] \in Leading BY <1>1, <1>3, <2>1 DEF FetchInv, Shape
    <3>2. inflight[key[d]] = {d} BY <3>1 DEF FetchInv, LeadInv
    <3>3. key[d] # key[c] BY <1>4, <3>1, <3>2
    <3> QED BY <1>1, <3>2, <3>3 DEF FetchInv, Shape
  <2>2. ASSUME NEW k \in Key, NEW d \in inflight'[k]
        PROVE  pc'[d] \in Leading /\ key'[d] = k
    <3>1. k # key[c] /\ d \in inflight[k] BY <1>1, <2>2 DEF FetchInv, Shape
    <3>2. d # c /\ d \in Call /\ pc[d] \in Leading /\ key[d] = k
      BY <3>1 DEF FetchInv, Shape, LeadInv
    <3> QED BY <1>1, <3>2 DEF FetchInv, Shape
  <2> QED BY <2>1, <2>2 DEF LeadInv
<1>6. FutureInv' BY <1>1, <1>3 DEF FetchInv, Shape, FutureInv
<1>7. FollowInv' BY <1>1, <1>3 DEF FetchInv, Shape, FollowInv
<1> QED BY <1>2, <1>5, <1>6, <1>7 DEF FetchInv

\* A fetch lands: the future is set, unless a follower has cancelled it.
LEMMA LandStep ==
  ASSUME FetchInv, NEW c \in Call, NEW l, pc[c] \in Leading, Land(c, l)
  PROVE  FetchInv'
<1>1. StepDown(c) /\ UNCHANGED <<key, leads>> BY DEF Land
<1>2. CASE future[c] = "cancelled"
  <2>1. Goto(c, "invalid") /\ future' = [future EXCEPT ![c] = "cancelled"]
    BY <1>2 DEF Land, FetchInv, Shape
  <2> QED BY <1>1, <2>1, OverStep DEF Broken
<1>3. CASE future[c] # "cancelled"
  <2>1. Goto(c, "value") /\ future' = [future EXCEPT ![c] = "set"]
    BY <1>3 DEF Land
  <2> QED BY <1>1, <2>1, OverStep
<1> QED BY <1>2, <1>3

\* A call that leads goes on to the node or to the database.
LEMMA LeadStep ==
  ASSUME FetchInv, NEW c \in Call, pc[c] \in Leading,
         NEW place \in Leading, Goto(c, place),
         UNCHANGED <<key, leads, inflight, future>>
  PROVE  FetchInv'
BY DEF FetchInv, Shape, LeadInv, FutureInv, FollowInv, Goto, Leading, Broken

\* The method raises: followers find the future cancelled.
LEMMA RaiseStep ==
  ASSUME FetchInv, NEW c \in Call, Raise(c)
  PROVE  FetchInv'
<1>1. pc[c] \in Leading /\ StepDown(c) /\ Goto(c, "raised") /\ UNCHANGED <<key, leads>>
  BY DEF Raise
<1>2. future[c] \in {"pending", "cancelled"} BY <1>1 DEF FetchInv, FutureInv
<1>3. future' = [future EXCEPT ![c] = "cancelled"]
  BY <1>2 DEF Raise, Fail, FetchInv, Shape
<1> QED BY <1>1, <1>3, OverStep DEF Broken

\* A follower takes its answer or the cancellation.
LEMMA WakeStep ==
  ASSUME FetchInv, NEW c \in Call, Wake(c)
  PROVE  FetchInv'
BY DEF FetchInv, Shape, LeadInv, FutureInv, FollowInv, Wake, Goto, Leading, Broken

\* A call is cancelled: a leader leaves its future as it is, a follower
\* cancels the one it awaits.
LEMMA CancelStep ==
  ASSUME FetchInv, NEW c \in Call, Cancel(c)
  PROVE  FetchInv'
<1>1. Goto(c, "cancelled") /\ UNCHANGED <<key, leads>> BY DEF Cancel
<1>2. CASE pc[c] \in Leading /\ StepDown(c) /\ UNCHANGED future
  <2>1. /\ future[c] \in {"pending", "cancelled"}
        /\ future' = [future EXCEPT ![c] = future[c]]
    BY <1>2 DEF FetchInv, Shape, FutureInv
  <2> QED BY <1>1, <1>2, <2>1, OverStep DEF Broken
<1>3. CASE /\ pc[c] = "waiting" /\ UNCHANGED inflight
           /\ future' = [future EXCEPT ![leads[c]] =
                           IF @ = "pending" THEN "cancelled" ELSE @]
  BY <1>1, <1>3 DEF FetchInv, Shape, LeadInv, FutureInv, FollowInv, Goto,
                    Leading, Broken
<1> QED BY <1>2, <1>3 DEF Cancel

\* A restart ends every call that is under way.
LEMMA RestartStep ==
  ASSUME FetchInv, Restart
  PROVE  FetchInv'
BY DEF FetchInv, Shape, LeadInv, FutureInv, FollowInv, Restart, Leading, Broken

LEMMA FetchStep == FetchInv /\ [Next]_vars => FetchInv'
<1> SUFFICES ASSUME FetchInv, [Next]_vars PROVE FetchInv' OBVIOUS
<1>1. ASSUME NEW c \in Call, NEW k \in Key, Enter(c, k) PROVE FetchInv'
  BY <1>1, EnterStep
<1>2. ASSUME NEW c \in Call, LookUp(c) PROVE FetchInv'
  <2>0. pc[c] \in Leading BY <1>2 DEF LookUp, Leading
  <2>1. ASSUME NEW l, Land(c, l) PROVE FetchInv' BY <2>0, <2>1, LandStep
  <2>2. CASE Goto(c, "asking") /\ UNCHANGED <<key, leads, inflight, future>>
    BY <2>0, <2>2, LeadStep DEF Leading
  <2> QED BY <1>2, <2>1, <2>2 DEF LookUp
<1>3. ASSUME NEW c \in Call, Answer(c) PROVE FetchInv'
  <2>0. pc[c] \in Leading BY <1>3 DEF Answer, Leading
  <2>1. CASE Land(c, c) BY <2>0, <2>1, LandStep
  <2>2. CASE Goto(c, "storing") /\ UNCHANGED <<key, leads, inflight, future>>
    BY <2>0, <2>2, LeadStep DEF Leading
  <2> QED BY <1>3, <2>1, <2>2 DEF Answer
<1>4. ASSUME NEW c \in Call, Store(c) PROVE FetchInv'
  BY <1>4, LandStep DEF Store, Leading
<1>5. ASSUME NEW c \in Call, Raise(c) PROVE FetchInv' BY <1>5, RaiseStep
<1>6. ASSUME NEW c \in Call, Wake(c) PROVE FetchInv' BY <1>6, WakeStep
<1>7. ASSUME NEW c \in Call, Cancel(c) PROVE FetchInv' BY <1>7, CancelStep
<1>8. ASSUME NEW k \in Key, Produce(k) PROVE FetchInv'
  BY <1>8 DEF Produce, clientVars, FetchInv, Shape, LeadInv, FutureInv, FollowInv
<1>9. CASE Restart BY <1>9, RestartStep
<1>10. CASE UNCHANGED vars
  BY <1>10 DEF vars, clientVars, FetchInv, Shape, LeadInv, FutureInv, FollowInv
<1> QED BY <1>1, <1>2, <1>3, <1>4, <1>5, <1>6, <1>7, <1>8, <1>9, <1>10 DEF Next

\* The invariant of the calls that share a fetch.
LEMMA FetchInvariant == Spec => []FetchInv
BY FetchInit, FetchStep, PTL DEF Spec

\* Two calls never run the method for the same key at the same time, whatever
\* is evicted, raised, cancelled or restarted (CachedFetcher._inflight).
THEOREM OneFetchPerKey == Spec => []SingleFlight
<1>1. FetchInv => SingleFlight BY DEF FetchInv, LeadInv, SingleFlight
<1> QED BY <1>1, FetchInvariant, PTL

\* A follower of a fetch that is over has a future to return or to fail with,
\* unless the task of the call that made the fetch was cancelled.
THEOREM FollowersSettle == Spec => []NoOrphan
<1>1. FetchInv => NoOrphan
  BY DEF FetchInv, Shape, LeadInv, FollowInv, NoOrphan, Leading
<1> QED BY <1>1, FetchInvariant, PTL

-----------------------------------------------------------------------------
(***************************************************************************)
(* What the calls of cached methods return, and what the cache holds: for  *)
(* any calls, keys, size of the cache and number of faults.                *)
(***************************************************************************)

(***************************************************************************)
(* The order of the cache.                                                 *)
(***************************************************************************)

\* No key is twice in the order of use.
OnceEach == \A i, j \in DOMAIN recent : recent[i] = recent[j] => i = j

OrderInv ==
  /\ cache \in Seq(Entry) /\ recent \in Seq(Key)
  /\ OnceEach
  /\ LeastRecentlyUsed

\* Only the entry at the place goes, if there is one.
LEMMA WithoutOf ==
  ASSUME NEW S, NEW s \in Seq(S), NEW p \in 1..Len(s)
  PROVE  LET w == Without(s, {p})
         IN /\ w \in Seq(S) /\ Len(w) = Len(s) - 1
            /\ \A i \in 1..Len(w) : w[i] = IF i < p THEN s[i] ELSE s[i + 1]
<1>1. Len(s) \in Nat BY LenProperties
<1>2. \A i \in 1..Len(s) : s[i] \in S BY ElementOfSeq
<1> DEFINE a == SubSeq(s, 1, p - 1)  b == SubSeq(s, p + 1, Len(s))
<1>3. /\ a \in Seq(S) /\ Len(a) = p - 1
      /\ \A i \in 1..(p - 1) - 1 + 1 : a[i] = s[1 + i - 1]
  BY <1>1, <1>2, SubSeqProperties
<1>4. /\ b \in Seq(S) /\ Len(b) = Len(s) - p
      /\ \A i \in 1..Len(s) - (p + 1) + 1 : b[i] = s[(p + 1) + i - 1]
  BY <1>1, <1>2, SubSeqProperties
<1>5. (CHOOSE m \in {p} : TRUE) = p OBVIOUS
<1>6. Without(s, {p}) = a \o b BY <1>5 DEF Without, RemoveAt
<1> HIDE DEF a, b
<1>7. /\ a \o b \in Seq(S) /\ Len(a \o b) = Len(a) + Len(b)
      /\ \A i \in 1..Len(a) + Len(b) :
           (a \o b)[i] = IF i <= Len(a) THEN a[i] ELSE b[i - Len(a)]
  BY <1>3, <1>4, ConcatProperties
<1>8. ASSUME NEW i \in 1..Len(s) - 1
      PROVE  (a \o b)[i] = IF i < p THEN s[i] ELSE s[i + 1]
  <2>1. CASE i < p BY <1>1, <1>3, <1>4, <1>7, <2>1
  <2>2. CASE ~(i < p)
    <3>1. (a \o b)[i] = b[i - (p - 1)] BY <1>1, <1>3, <1>4, <1>7, <2>2
    <3>2. i - (p - 1) \in 1..Len(s) - (p + 1) + 1 BY <1>1, <2>2
    <3>3. (p + 1) + (i - (p - 1)) - 1 = i + 1 BY <1>1
    <3>4. (a \o b)[i] = s[i + 1] BY <1>4, <3>1, <3>2, <3>3
    <3> QED BY <2>2, <3>4
  <2> QED BY <2>1, <2>2
<1>9. Len(a \o b) = Len(s) - 1 BY <1>1, <1>3, <1>4, <1>7
<1> QED BY <1>6, <1>7, <1>8, <1>9

LEMMA WithoutIn ==
  ASSUME NEW S, NEW s \in Seq(S), NEW places \in SUBSET (1..Len(s))
  PROVE  Without(s, places) \in Seq(S)
<1>1. CASE places = {} BY <1>1 DEF Without
<1>2. CASE places # {}
  <2> DEFINE p == CHOOSE m \in places : TRUE
  <2>1. p \in 1..Len(s) BY <1>2
  <2> HIDE DEF p
  <2>2. Without(s, {p}) \in Seq(S) BY <2>1, WithoutOf
  <2>3. (CHOOSE m \in {p} : TRUE) = p OBVIOUS
  <2>4. Without(s, places) = Without(s, {p}) BY <1>2, <2>3 DEF Without, p
  <2> QED BY <2>2, <2>4
<1> QED BY <1>1, <1>2

\* A key that is used moves to the end of the order, or comes there.
LEMMA UsedOf ==
  ASSUME OrderInv, NEW k \in Key, Used(k)
  PROVE  /\ recent' \in Seq(Key) /\ OnceEach'
         /\ \/ \E q \in 1..Len(recent) :
                 /\ recent[q] = k /\ Len(recent') = Len(recent)
                 /\ \A i \in 1..Len(recent) - 1 :
                      recent'[i] = IF i < q THEN recent[i] ELSE recent[i + 1]
                 /\ recent'[Len(recent)] = k
            \/ /\ \A i \in 1..Len(recent) : recent[i] # k
               /\ Len(recent') = Len(recent) + 1
               /\ \A i \in 1..Len(recent) : recent'[i] = recent[i]
               /\ recent'[Len(recent) + 1] = k
<1> DEFINE at == {m \in DOMAIN recent : recent[m] = k}
           w == Without(recent, at)
<1>1. /\ recent \in Seq(Key) /\ OnceEach /\ Len(recent) \in Nat
      /\ DOMAIN recent = 1..Len(recent)
  BY LenProperties DEF OrderInv
<1>2. recent' = Append(w, k) BY DEF Used
<1>3. CASE at = {}
  <2>1. w = recent BY <1>3 DEF Without
  <2>2. \A i \in 1..Len(recent) : recent[i] # k BY <1>1, <1>3
  <2>3. /\ recent' \in Seq(Key) /\ Len(recent') = Len(recent) + 1
        /\ \A i \in 1..Len(recent) : recent'[i] = recent[i]
        /\ recent'[Len(recent) + 1] = k
    <3>1. recent' = Append(recent, k) BY <1>2, <2>1
    <3> HIDE DEF w, at
    <3> QED BY <1>1, <3>1, AppendProperties
  <2>4. DOMAIN recent' = 1..Len(recent) + 1 BY <2>3, LenProperties
  <2>5. OnceEach' BY <1>1, <2>2, <2>3, <2>4 DEF OnceEach
  <2> QED BY <2>2, <2>3, <2>5
<1>4. CASE at # {}
  <2>1. PICK q \in 1..Len(recent) : recent[q] = k BY <1>1, <1>4
  <2>2. at = {q} BY <1>1, <2>1 DEF OnceEach
  <2>3. /\ w \in Seq(Key) /\ Len(w) = Len(recent) - 1
        /\ \A i \in 1..Len(w) : w[i] = IF i < q THEN recent[i] ELSE recent[i + 1]
    BY <1>1, <2>2, WithoutOf
  <2> HIDE DEF w, at
  <2>4. /\ recent' \in Seq(Key) /\ Len(recent') = Len(w) + 1
        /\ \A i \in 1..Len(w) : recent'[i] = w[i]
        /\ recent'[Len(w) + 1] = k
    BY <1>2, <2>3, AppendProperties
  <2>5. /\ Len(recent') = Len(recent)
        /\ \A i \in 1..Len(recent) - 1 :
             recent'[i] = IF i < q THEN recent[i] ELSE recent[i + 1]
        /\ recent'[Len(recent)] = k
    BY <1>1, <2>3, <2>4
  <2>6. DOMAIN recent' = 1..Len(recent) BY <2>4, <2>5, LenProperties
  <2>7. \A i \in 1..Len(recent) - 1 : recent'[i] # k
    BY <1>1, <2>1, <2>5 DEF OnceEach
  <2>8. OnceEach'
    <3> SUFFICES ASSUME NEW i \in 1..Len(recent), NEW j \in 1..Len(recent),
                        recent'[i] = recent'[j]
                 PROVE  i = j
      BY <2>6 DEF OnceEach
    <3> DEFINE n == Len(recent)  r == recent'  from(m) == IF m < q THEN m ELSE m + 1
    <3>0. n \in Nat /\ r[i] = r[j] /\ r[n] = k BY <1>1, <2>5
    <3>3. \A m \in 1..n - 1 : r[m] = recent[from(m)] /\ r[m] # k BY <2>5, <2>7
    <3> HIDE DEF n, r
    <3>1. CASE i = n \/ j = n
      <4>1. CASE i = n
        <5>1. j \notin 1..n - 1 BY <3>0, <3>3, <4>1
        <5> QED BY <3>0, <4>1, <5>1 DEF n
      <4>2. CASE j = n
        <5>1. i \notin 1..n - 1 BY <3>0, <3>3, <4>2
        <5> QED BY <3>0, <4>2, <5>1 DEF n
      <4> QED BY <3>1, <4>1, <4>2
    <3>2. CASE i # n /\ j # n
      <4>1. i \in 1..n - 1 /\ j \in 1..n - 1 BY <3>0, <3>2 DEF n
      <4>2. from(i) \in 1..n /\ from(j) \in 1..n BY <3>0, <4>1
      <4>3. from(i) = from(j)
        <5> HIDE DEF from
        <5>1. recent[from(i)] = recent[from(j)] BY <3>0, <3>3, <4>1
        <5> QED BY <1>1, <4>2, <5>1 DEF OnceEach, n
      <4> QED BY <3>0, <4>1, <4>3
    <3> QED BY <3>1, <3>2
  <2> QED BY <2>1, <2>4, <2>5, <2>8
<1> QED BY <1>3, <1>4

\* set and get keep the cache the end of the order of use.
LEMMA InsertOrder ==
  ASSUME OrderInv, NEW k \in Key, NEW b \in Call, Used(k),
         Insert([key |-> k, by |-> b])
  PROVE  OrderInv'
<1> DEFINE e == [key |-> k, by |-> b]
           w == Without(cache, Places(cache, k))
           all == Append(w, e)
           C == Len(cache)
           R == Len(recent)
           n == R - C
<1>1. /\ cache \in Seq(Entry) /\ recent \in Seq(Key) /\ C \in Nat /\ R \in Nat
      /\ DOMAIN cache = 1..C /\ DOMAIN recent = 1..R /\ OnceEach /\ e \in Entry
  BY LenProperties DEF OrderInv, Entry
<1>2. /\ MaxSize \in Nat \ {0} /\ C = (IF R < MaxSize THEN R ELSE MaxSize)
      /\ \A m \in 1..C : cache[m].key = recent[n + m]
  BY <1>1, FetcherAssumption DEF OrderInv, LeastRecentlyUsed
<1>3. cache' = IF Len(all) > MaxSize THEN Tail(all) ELSE all BY DEF Insert
<1>4. recent' \in Seq(Key) /\ OnceEach' BY UsedOf
<1> HIDE DEF e, C, R
<1>7. n \in Nat /\ C <= R /\ C <= MaxSize BY <1>1, <1>2
<1>5. CASE \E p \in 1..C : cache[p].key = k
  <2>1. PICK p \in 1..C : cache[p].key = k BY <1>5
  <2>2. n + p \in 1..R /\ recent[n + p] = k BY <1>1, <1>2, <2>1
  <2>3. \A m \in 1..C : cache[m].key = k => m = p
    <3> SUFFICES ASSUME NEW m \in 1..C, cache[m].key = k PROVE m = p OBVIOUS
    <3>1. n + m \in 1..R /\ recent[n + m] = k BY <1>1, <1>2, <1>7
    <3>2. n + m = n + p BY <1>1, <2>2, <3>1 DEF OnceEach
    <3> QED BY <1>1, <1>7, <3>2
  <2>4. Places(cache, k) = {p} BY <1>1, <2>1, <2>3 DEF Places
  <2>5. /\ w \in Seq(Entry) /\ Len(w) = C - 1
        /\ \A i \in 1..Len(w) : w[i] = IF i < p THEN cache[i] ELSE cache[i + 1]
    BY <1>1, <2>4, WithoutOf DEF C
  <2> HIDE DEF w
  <2>6. /\ all \in Seq(Entry) /\ Len(all) = C /\ all[C] = e
        /\ \A i \in 1..C - 1 : all[i] = IF i < p THEN cache[i] ELSE cache[i + 1]
    BY <1>1, <2>5, AppendProperties
  <2>7. cache' = all BY <1>1, <1>2, <1>3, <2>6
  <2>8. /\ Len(recent') = R /\ recent'[R] = k
        /\ \A i \in 1..R - 1 :
             recent'[i] = IF i < n + p THEN recent[i] ELSE recent[i + 1]
    <3>1. ~ \A i \in 1..R : recent[i] # k BY <2>2
    <3>2. PICK q \in 1..R :
            /\ recent[q] = k /\ Len(recent') = R /\ recent'[R] = k
            /\ \A i \in 1..R - 1 :
                 recent'[i] = IF i < q THEN recent[i] ELSE recent[i + 1]
      BY <3>1, UsedOf DEF R
    <3>3. q = n + p BY <1>1, <2>2, <3>2 DEF OnceEach
    <3> QED BY <3>2, <3>3
  <2> HIDE DEF all
  <2>9. ASSUME NEW m \in 1..C PROVE cache'[m].key = recent'[n + m]
    <3>1. CASE m = C BY <1>1, <2>6, <2>7, <2>8, <3>1 DEF e
    <3>2. CASE m # C
      <4>1. m \in 1..C - 1 /\ n + m \in 1..R - 1 BY <1>1, <1>2, <3>2
      <4>2. cache'[m] = IF m < p THEN cache[m] ELSE cache[m + 1]
        BY <2>6, <2>7, <4>1
      <4>3. recent'[n + m] = IF m < p THEN recent[n + m] ELSE recent[n + (m + 1)]
        <5>1. /\ recent'[n + m] = IF n + m < n + p THEN recent[n + m] ELSE recent[(n + m) + 1]
              /\ (n + m) + 1 = n + (m + 1) /\ (n + m < n + p <=> m < p)
          BY <1>7, <2>8, <4>1
        <5> QED BY <5>1
      <4> QED BY <1>1, <1>2, <4>1, <4>2, <4>3
    <3> QED BY <3>1, <3>2
  <2>10. DOMAIN cache' = 1..C BY <2>6, <2>7, LenProperties
  <2>11. LeastRecentlyUsed'
    BY <1>2, <2>6, <2>7, <2>8, <2>9, <2>10 DEF LeastRecentlyUsed
  <2> QED BY <1>4, <2>6, <2>7, <2>11 DEF OrderInv
<1>6. CASE ~ \E p \in 1..C : cache[p].key = k
  <2>1. Places(cache, k) = {} BY <1>1, <1>6 DEF Places
  <2>2. w = cache BY <2>1 DEF Without
  <2>3. /\ all \in Seq(Entry) /\ Len(all) = C + 1 /\ all[C + 1] = e /\ all # <<>>
        /\ \A i \in 1..C : all[i] = cache[i]
    <3>1. all = Append(cache, e) BY <2>2
    <3> HIDE DEF all
    <3> QED BY <1>1, <3>1, AppendProperties DEF C
  <2> HIDE DEF w, all
  <2>4. CASE C = MaxSize
    <3>1. cache' = Tail(all) BY <1>1, <1>2, <1>3, <2>3, <2>4
    <3>2. /\ cache' \in Seq(Entry) /\ Len(cache') = C
          /\ \A i \in 1..C : cache'[i] = all[i + 1]
      BY <1>1, <2>3, <3>1, HeadTailProperties
    <3>3. \A i \in 1..C : cache'[i] = IF i = C THEN e ELSE cache[i + 1]
      BY <1>1, <2>3, <3>2
    <3>4. /\ Len(recent') \in {R, R + 1} /\ recent'[Len(recent')] = k
          /\ \A m \in 1..C - 1 :
               recent'[(Len(recent') - C) + m] = recent[n + (m + 1)]
      <4>1. CASE \A i \in 1..R : recent[i] # k
        <5>1. /\ Len(recent') = R + 1 /\ recent'[R + 1] = k
              /\ \A i \in 1..R : recent'[i] = recent[i]
          BY <4>1, UsedOf DEF R
        <5>2. \A m \in 1..C - 1 : (R + 1 - C) + m \in 1..R /\ (R + 1 - C) + m = n + (m + 1)
          BY <1>1, <1>2
        <5> DEFINE r == recent'
        <5>3. Len(r) = R + 1 /\ r[Len(r)] = k BY <5>1
        <5>4. ASSUME NEW m \in 1..C - 1
              PROVE  r[(Len(r) - C) + m] = recent[n + (m + 1)]
          <6> DEFINE i == n + (m + 1)
          <6>3. i \in 1..R /\ (R + 1 - C) + m = i BY <5>2
          <6>1. i \in 1..R /\ (Len(r) - C) + m = i
            <7> HIDE DEF r, n, i
            <7> QED BY <1>1, <5>3, <6>3
          <6> HIDE DEF i
          <6>2. r[i] = recent[i] BY <5>1, <6>1
          <6> QED BY <6>1, <6>2 DEF i
        <5> QED BY <5>3, <5>4
      <4>2. CASE ~ \A i \in 1..R : recent[i] # k
        <5>1. PICK q \in 1..R :
                /\ recent[q] = k /\ Len(recent') = R /\ recent'[R] = k
                /\ \A i \in 1..R - 1 :
                     recent'[i] = IF i < q THEN recent[i] ELSE recent[i + 1]
          BY <4>2, UsedOf DEF R
        <5>2. q <= n
          <6> SUFFICES ASSUME q > n PROVE FALSE BY <1>1
          <6>1. q - n \in 1..C /\ n + (q - n) = q BY <1>1, <1>2
          <6> QED BY <1>2, <1>6, <5>1, <6>1
        <5>3. \A m \in 1..C - 1 : /\ n + m \in 1..R - 1 /\ ~(n + m < q)
                                  /\ (n + m) + 1 = n + (m + 1)
          BY <1>1, <1>2, <5>2
        <5> QED BY <5>1, <5>3
      <4> QED BY <4>1, <4>2
    <3>5. ASSUME NEW m \in 1..C
          PROVE  cache'[m].key = recent'[(Len(recent') - C) + m]
      <4>1. CASE m = C
        <5>1. (Len(recent') - C) + m = Len(recent') BY <1>1, <3>4, <4>1
        <5> QED BY <3>3, <3>4, <4>1, <5>1 DEF e
      <4>2. CASE m # C
        <5>1. m \in 1..C - 1 /\ m + 1 \in 1..C BY <1>1, <4>2
        <5> QED BY <1>2, <3>3, <3>4, <4>2, <5>1
      <4> QED BY <4>1, <4>2
    <3>6. DOMAIN cache' = 1..C BY <3>2, LenProperties
    <3>7. Len(cache') = IF Len(recent') < MaxSize THEN Len(recent') ELSE MaxSize
      BY <1>1, <1>2, <2>4, <3>2, <3>4
    <3>8. LeastRecentlyUsed' BY <3>2, <3>5, <3>6, <3>7 DEF LeastRecentlyUsed
    <3> QED BY <1>4, <3>2, <3>8 DEF OrderInv
  <2>5. CASE C # MaxSize
    <3>1. C = R /\ n = 0 /\ R < MaxSize BY <1>1, <1>2, <2>5
    <3>2. cache' = all BY <1>1, <1>2, <1>3, <2>3, <3>1
    <3>3. \A i \in 1..R : recent[i] # k
      <4>1. \A i \in 1..R : n + i = i BY <3>1
      <4> QED BY <1>2, <1>6, <3>1, <4>1
    <3>4. /\ Len(recent') = R + 1 /\ recent'[R + 1] = k
          /\ \A i \in 1..R : recent'[i] = recent[i]
      BY <3>3, UsedOf DEF R
    <3>5. ASSUME NEW m \in 1..C + 1 PROVE cache'[m].key = recent'[m]
      <4>1. CASE m = C + 1 BY <2>3, <3>1, <3>2, <3>4, <4>1 DEF e
      <4>2. CASE m # C + 1
        <5>1. m \in 1..C /\ n + m = m BY <1>1, <3>1, <4>2
        <5> QED BY <1>2, <2>3, <3>1, <3>2, <3>4, <5>1
      <4> QED BY <4>1, <4>2
    <3>6. DOMAIN cache' = 1..C + 1 BY <2>3, <3>2, LenProperties
    <3>7. \A m \in 1..C + 1 : (Len(recent') - Len(cache')) + m = m
      BY <1>1, <2>3, <3>1, <3>2, <3>4
    <3>8. Len(cache') = IF Len(recent') < MaxSize THEN Len(recent') ELSE MaxSize
      BY <1>1, <1>2, <2>3, <3>1, <3>2, <3>4
    <3>9. LeastRecentlyUsed' BY <3>5, <3>6, <3>7, <3>8 DEF LeastRecentlyUsed
    <3> QED BY <1>4, <2>3, <3>2, <3>9 DEF OrderInv
  <2> QED BY <2>4, <2>5
<1> QED BY <1>5, <1>6

\* What set leaves in the cache was there, or is what it puts in.
LEMMA InsertIn ==
  ASSUME NEW S, cache \in Seq(S), NEW e \in S, Insert(e)
  PROVE  cache' \in Seq(S)
<1> DEFINE w == Without(cache, Places(cache, e.key))
           all == Append(w, e)
<1>1. Places(cache, e.key) \subseteq 1..Len(cache) BY LenProperties DEF Places
<1>2. w \in Seq(S) BY <1>1, WithoutIn
<1>3. cache' = IF Len(all) > MaxSize THEN Tail(all) ELSE all BY DEF Insert
<1> HIDE DEF w
<1>4. all \in Seq(S) /\ all # <<>> BY <1>2, AppendProperties
<1> HIDE DEF all
<1>5. Tail(all) \in Seq(S) BY <1>4, HeadTailProperties
<1> QED BY <1>3, <1>4, <1>5

\* get is set of what is there: nothing is evicted.
LEMMA MoveIsInsert ==
  ASSUME OrderInv, NEW m \in DOMAIN cache, cache' = MoveToEnd(cache, cache[m])
  PROVE  Insert(cache[m])
<1> DEFINE k == cache[m].key
           w == Without(cache, Places(cache, k))
           p == CHOOSE i \in Places(cache, k) : TRUE
<1>1. /\ cache \in Seq(Entry) /\ Len(cache) \in Nat /\ DOMAIN cache = 1..Len(cache)
      /\ Len(recent) \in Nat
  BY LenProperties DEF OrderInv
<1>2. p \in 1..Len(cache) /\ Places(cache, k) # {} BY <1>1 DEF Places
<1>3. w = Without(cache, {p})
  <2> HIDE DEF p
  <2>1. (CHOOSE i \in {p} : TRUE) = p OBVIOUS
  <2> QED BY <1>2, <2>1 DEF Without, p
<1> HIDE DEF p
<1>4. w \in Seq(Entry) /\ Len(w) = Len(cache) - 1 BY <1>1, <1>2, <1>3, WithoutOf
<1>5. Len(cache) <= MaxSize
  BY <1>1, FetcherAssumption DEF OrderInv, LeastRecentlyUsed
<1>6. cache' = Append(w, cache[m]) BY DEF MoveToEnd
<1> HIDE DEF w
<1>7. Len(Append(w, cache[m])) = Len(cache)
  <2>1. cache[m] \in Entry BY <1>1, ElementOfSeq
  <2>2. Len(Append(w, cache[m])) = Len(w) + 1 BY <1>4, <2>1, AppendProperties
  <2> QED BY <1>1, <1>4, <2>2
<1>8. ~(Len(Append(w, cache[m])) > MaxSize) BY <1>1, <1>5, <1>7, FetcherAssumption
<1> QED BY <1>6, <1>8 DEF Insert, w

(***************************************************************************)
(* The answers.                                                            *)
(***************************************************************************)

\* Call l fetched an answer for k, a real one or an empty one.
Fetched(l, k) ==
  /\ l \in Call /\ key[l] = k
  /\ pc[l] \notin {"idle", "lookup", "asking"}
  /\ l \in empty \/ k \in produced

Kept == {e \in Entry : Fetched(e.by, e.key)}

AnswerInv ==
  /\ source \in [Call -> Call] /\ disk \in [Key -> SUBSET Call]
  /\ produced \subseteq Key /\ empty \subseteq Call /\ faults \in Nat
  /\ cache \in Seq(Kept)
  /\ \A k \in Key : \A l \in disk[k] : Fetched(l, k)
  /\ \A c \in Call : pc[c] = "storing" => Fetched(c, key[c])
  /\ \A c \in Call : pc[c] = "value" => Fetched(source[c], key[c])
  /\ \A c \in Call : future[c] = "set" => pc[c] = "value"

\* A call that is fresh shares no fetch, and its own fetch is not empty.
FreshInv ==
  /\ fresh \subseteq Call /\ fresh \cap empty = {}
  /\ \A c \in fresh : pc[c] \notin {"idle", "waiting"}
  /\ \A c \in empty : pc[c] \notin {"idle", "lookup", "asking"}
  /\ \A c \in Call : pc[c] \in {"lookup", "storing"} => key[c] \in Disk
  /\ NoStaleMiss

CacheInv == FetchInv /\ OrderInv /\ AnswerInv /\ FreshInv
-----------------------------------------------------------------------------
\* What is fetched stays fetched.
Lasts ==
  /\ \A l \in Call : pc[l] \notin {"idle", "lookup", "asking"} =>
       pc'[l] \notin {"idle", "lookup", "asking"} /\ key'[l] = key[l]
  /\ empty \subseteq empty' /\ produced \subseteq produced'

LEMMA FetchedLasts ==
  ASSUME Lasts, cache \in Seq(Kept)
  PROVE  /\ \A l, k : Fetched(l, k) => Fetched(l, k)'
         /\ cache \in Seq(Kept')
<1>1. \A l, k : Fetched(l, k) => Fetched(l, k)' BY DEF Lasts, Fetched
<1>2. Kept \subseteq Kept' BY <1>1 DEF Kept
<1>3. cache \in Seq(Kept')
  <2>1. Len(cache) \in Nat /\ \A i \in 1..Len(cache) : cache[i] \in Kept'
    BY <1>2, LenProperties, ElementOfSeq
  <2>2. cache = [i \in 1..Len(cache) |-> cache[i]] BY LenProperties
  <2> HIDE DEF Kept
  <2> QED BY <2>1, <2>2, IsASeq
<1> QED BY <1>1, <1>3

LEMMA CacheInit == Init => CacheInv
<1> SUFFICES ASSUME Init PROVE CacheInv OBVIOUS
<1>1. FetchInv BY FetchInit
<1>2. <<>> \in Seq(Entry) /\ <<>> \in Seq(Kept) /\ <<>> \in Seq(Key)
      /\ Len(<<>>) = 0 /\ DOMAIN <<>> = {}
  BY EmptySeq
<1>3. OrderInv
  BY <1>2, FetcherAssumption DEF Init, OrderInv, OnceEach, LeastRecentlyUsed
<1>4. AnswerInv BY <1>2, FetcherAssumption DEF Init, AnswerInv
<1>5. FreshInv BY FetcherAssumption DEF Init, FreshInv, NoStaleMiss
<1> QED BY <1>1, <1>3, <1>4, <1>5 DEF CacheInv

\* An answer of fetch l lands in a call that leads: its own, unless the key is
\* of a method that is cached on disk.
LEMMA LandCache ==
  ASSUME CacheInv, NEW c \in Call, pc[c] \in Leading, NEW l, Land(c, l),
         \/ UNCHANGED empty
         \/ pc[c] = "asking" /\ c \notin fresh /\ empty' = empty \cup {c},
         Fetched(l, key[c])', l = c \/ key[c] \in Disk,
         UNCHANGED <<disk, produced, fresh, faults>>
  PROVE  OrderInv' /\ AnswerInv' /\ FreshInv'
<1> DEFINE e == [key |-> key[c], by |-> l]
<1>1. /\ Shape /\ OrderInv /\ AnswerInv /\ FreshInv /\ key[c] \in Key /\ l \in Call
  BY DEF CacheInv, FetchInv, Shape, Fetched
<1>2. /\ Used(key[c]) /\ Insert(e)
      /\ source' = [source EXCEPT ![c] = l] /\ UNCHANGED <<key, leads>>
      /\ \/ Goto(c, "invalid") /\ UNCHANGED future
         \/ Goto(c, "value") /\ future' = [future EXCEPT ![c] = "set"]
  BY DEF Land
<1>3. /\ pc'[c] \in {"value", "invalid"} /\ source'[c] = l
      /\ \A d \in Call \ {c} : pc'[d] = pc[d] /\ source'[d] = source[d]
                             /\ future'[d] = future[d]
  BY <1>1, <1>2 DEF Goto, Shape, AnswerInv
<1>4. OrderInv' BY <1>1, <1>2, InsertOrder
<1>5. Lasts BY <1>1, <1>2, <1>3 DEF Lasts
<1>6. /\ \A d, k : Fetched(d, k) => Fetched(d, k)'
      /\ cache \in Seq(Kept')
  BY <1>1, <1>5, FetchedLasts DEF AnswerInv
<1>7. cache' \in Seq(Kept')
  <2>1. e \in Kept' BY <1>1, <1>2 DEF Kept, Entry
  <2> QED BY <1>2, <1>6, <2>1, InsertIn
<1>8. AnswerInv'
  <2>1. /\ source' \in [Call -> Call] /\ empty' \subseteq Call
        /\ \A k \in Key : \A d \in disk'[k] : Fetched(d, k)'
    BY <1>1, <1>2, <1>6 DEF AnswerInv
  <2>2. ASSUME NEW d \in Call PROVE pc'[d] = "storing" => Fetched(d, key[d])'
    BY <1>1, <1>2, <1>3, <1>6 DEF AnswerInv
  <2>3. ASSUME NEW d \in Call PROVE pc'[d] = "value" => Fetched(source[d], key[d])'
    <3>1. CASE d = c BY <1>2, <1>3, <3>1
    <3>2. CASE d # c BY <1>1, <1>2, <1>3, <1>6, <3>2 DEF AnswerInv
    <3> QED BY <3>1, <3>2
  <2>4. ASSUME NEW d \in Call PROVE future'[d] = "set" => pc'[d] = "value"
    <3>1. CASE d = c
      <4>1. future[c] # "set" BY <1>1 DEF AnswerInv, Leading
      <4> QED BY <1>1, <1>2, <3>1, <4>1 DEF Goto, Shape
    <3>2. CASE d # c BY <1>1, <1>3, <3>2 DEF AnswerInv
    <3> QED BY <3>1, <3>2
  <2> QED BY <1>1, <1>2, <1>7, <2>1, <2>2, <2>3, <2>4 DEF AnswerInv
<1>9. FreshInv'
  <2>1. /\ fresh' \subseteq Call /\ fresh' \cap empty' = {}
        /\ \A d \in fresh' : pc'[d] \notin {"idle", "waiting"}
        /\ \A d \in empty' : pc'[d] \notin {"idle", "lookup", "asking"}
        /\ \A d \in Call : pc'[d] \in {"lookup", "storing"} => key'[d] \in Disk
    BY <1>1, <1>2, <1>3 DEF FreshInv, AnswerInv
  <2>2. ASSUME NEW d \in fresh, pc'[d] = "value", key[d] \notin Disk
        PROVE  source'[d] \notin empty'
    <3>1. CASE d = c BY <1>3, <2>1, <2>2, <3>1
    <3>2. CASE d # c
      <4>1. d \in Call /\ pc[d] = "value" /\ source'[d] = source[d]
        BY <1>1, <1>3, <2>2, <3>2 DEF FreshInv
      <4>2. source[d] \notin empty /\ pc[source[d]] # "asking"
        BY <1>1, <2>2, <4>1 DEF FreshInv, NoStaleMiss, AnswerInv, Fetched
      <4> QED BY <4>1, <4>2
    <3> QED BY <3>1, <3>2
  <2> QED BY <1>2, <2>1, <2>2 DEF FreshInv, NoStaleMiss
<1> QED BY <1>4, <1>8, <1>9

\* A step that leaves the cache alone, and hands out answers that were fetched.
LEMMA QuietCache ==
  ASSUME CacheInv, UNCHANGED <<cache, recent>>, Lasts,
         source' \in [Call -> Call], disk' \in [Key -> SUBSET Call],
         produced' \subseteq Key, empty' \subseteq Call, faults' \in Nat,
         \A k \in Key : \A l \in disk'[k] : l \in disk[k] \/ Fetched(l, k)',
         \A c \in Call : pc'[c] = "storing" => pc[c] = "storing" \/ Fetched(c, key[c])',
         \A c \in Call : pc'[c] = "value" =>
           \/ pc[c] = "value" /\ source'[c] = source[c]
           \/ Fetched(source[c], key[c])',
         \A c \in Call : future'[c] = "set" => pc'[c] = "value"
  PROVE  OrderInv' /\ AnswerInv'
<1>1. OrderInv' BY DEF CacheInv, OrderInv, OnceEach, LeastRecentlyUsed
<1>2. /\ \A d, k : Fetched(d, k) => Fetched(d, k)'
      /\ cache' \in Seq(Kept')
  BY FetchedLasts DEF CacheInv, AnswerInv
<1>3. \A c \in Call : pc[c] \in {"storing", "value"} => key'[c] = key[c]
  BY DEF Lasts
<1>4. AnswerInv' BY <1>2, <1>3 DEF CacheInv, AnswerInv
<1> QED BY <1>1, <1>4

\* A call enters.
LEMMA EnterCache ==
  ASSUME CacheInv, NEW c \in Call, NEW k \in Key, Enter(c, k)
  PROVE  OrderInv' /\ AnswerInv' /\ FreshInv'
<1>1. /\ Shape /\ OrderInv /\ AnswerInv /\ FreshInv /\ FutureInv
      /\ cache \in Seq(Entry) /\ DOMAIN cache = 1..Len(cache)
  BY LenProperties DEF CacheInv, FetchInv, OrderInv
<1>2. /\ pc[c] = "idle" /\ key' = [key EXCEPT ![c] = k]
      /\ UNCHANGED <<disk, produced, empty, faults>>
      /\ fresh' = IF k \in produced /\ Underway(k) = {} THEN fresh \cup {c} ELSE fresh
  BY DEF Enter
<1>3. \E w \in {"value", "dropped", "waiting", "lookup", "asking"} : Goto(c, w)
  BY DEF Enter
<1>4. /\ \A d \in Call \ {c} : pc'[d] = pc[d] /\ key'[d] = key[d]
      /\ pc'[c] \in {"value", "dropped", "waiting", "lookup", "asking"} /\ key'[c] = k
  BY <1>1, <1>2, <1>3 DEF Goto, Shape
<1>5. Lasts BY <1>2, <1>4 DEF Lasts
<1>6. /\ \A d, x : Fetched(d, x) => Fetched(d, x)'
      /\ cache \in Seq(Kept')
  BY <1>1, <1>5, FetchedLasts DEF AnswerInv
<1>7. ASSUME NEW e \in Cached(k) PROVE Fetched(e.by, k) /\ e.by \in Call
  <2>1. PICK m \in DOMAIN cache : cache[m] = e /\ e.key = k BY <1>7 DEF Cached
  <2>2. cache[m] \in Kept
    <3> HIDE DEF Kept
    <3> QED BY <1>1, <2>1, ElementOfSeq DEF AnswerInv
  <2> QED BY <2>1, <2>2 DEF Kept, Fetched
<1>8. OrderInv' /\ cache' \in Seq(Kept')
  <2>1. CASE Cached(k) = {}
    <3>1. UNCHANGED <<cache, recent>> BY <2>1 DEF Enter
    <3> QED BY <1>1, <1>6, <3>1 DEF OrderInv, OnceEach, LeastRecentlyUsed
  <2>2. CASE Cached(k) # {}
    <3>1. Used(k) /\ \E e \in Cached(k) : cache' = MoveToEnd(cache, e)
      BY <2>2 DEF Enter
    <3>2. PICK m \in DOMAIN cache :
            cache[m].key = k /\ cache[m] \in Cached(k) /\ cache' = MoveToEnd(cache, cache[m])
      BY <3>1 DEF Cached
    <3>3. Insert(cache[m]) BY <1>1, <3>2, MoveIsInsert
    <3>4. cache[m] = [key |-> k, by |-> cache[m].by] /\ cache[m].by \in Call
      <4>1. cache[m] \in Entry BY <1>1, <3>2, ElementOfSeq
      <4> QED BY <3>2, <4>1 DEF Entry
    <3>5. OrderInv'
      <4>1. Insert([key |-> k, by |-> cache[m].by]) BY <3>3, <3>4
      <4> QED BY <1>1, <3>1, <3>4, <4>1, InsertOrder
    <3>6. cache[m] \in Kept'
      <4> HIDE DEF Kept
      <4> QED BY <1>1, <1>6, <3>2, ElementOfSeq
    <3>7. cache' \in Seq(Kept') BY <1>6, <3>3, <3>6, InsertIn
    <3> QED BY <3>5, <3>7
  <2> QED BY <2>1, <2>2
<1>9. /\ source' \in [Call -> Call]
      /\ \A d \in Call \ {c} : source'[d] = source[d] /\ future'[d] = future[d]
      /\ pc'[c] = "value" => source'[c] \in Hits(k)
      /\ future'[c] # "set"
  <2>0. future[c] = "none" BY <1>1, <1>2 DEF FutureInv
  <2>1. CASE Hits(k) # {}
    <3>1. UNCHANGED future /\ \E l \in Hits(k) : source' = [source EXCEPT ![c] = l]
      BY <2>1 DEF Enter
    <3>2. Hits(k) \subseteq Call BY <1>7 DEF Hits
    <3> QED BY <1>1, <2>0, <3>1, <3>2 DEF AnswerInv
  <2>2. CASE Hits(k) = {}
    <3>1. /\ UNCHANGED source /\ \E w \in {"dropped", "waiting", "lookup", "asking"} : Goto(c, w)
          /\ \/ UNCHANGED future
             \/ future' = [future EXCEPT ![c] = "pending"]
      BY <2>2 DEF Enter
    <3>2. pc'[c] # "value" BY <1>1, <3>1 DEF Goto, Shape
    <3> QED BY <1>1, <2>0, <3>1, <3>2 DEF AnswerInv, Shape
  <2> QED BY <2>1, <2>2
<1>10. \A l \in Hits(k) : Fetched(l, k) /\ l \notin empty BY <1>7 DEF Hits
<1>11. AnswerInv'
  <2>1. ASSUME NEW d \in Call PROVE pc'[d] = "value" => Fetched(source[d], key[d])'
    <3>1. CASE d = c BY <1>4, <1>6, <1>9, <1>10, <3>1
    <3>2. CASE d # c BY <1>1, <1>4, <1>6, <1>9, <3>2 DEF AnswerInv
    <3> QED BY <3>1, <3>2
  <2>2. ASSUME NEW d \in Call PROVE pc'[d] = "storing" => Fetched(d, key[d])'
    BY <1>1, <1>4, <1>6 DEF AnswerInv
  <2>3. ASSUME NEW d \in Call PROVE future'[d] = "set" => pc'[d] = "value"
    BY <1>1, <1>4, <1>9 DEF AnswerInv
  <2>4. \A x \in Key : \A l \in disk'[x] : Fetched(l, x)' BY <1>1, <1>2, <1>6 DEF AnswerInv
  <2> QED BY <1>1, <1>2, <1>8, <1>9, <2>1, <2>2, <2>3, <2>4 DEF AnswerInv
<1>12. FreshInv'
  <2>1. c \notin empty /\ empty' = empty BY <1>1, <1>2 DEF FreshInv
  <2>2. c \in fresh' => pc'[c] # "waiting"
    <3> SUFFICES ASSUME c \in fresh' PROVE pc'[c] # "waiting" OBVIOUS
    <3>1. Underway(k) = {} BY <1>1, <1>2 DEF FreshInv
    <3>2. \E w \in {"value", "lookup", "asking"} : Goto(c, w) BY <3>1 DEF Enter
    <3> QED BY <1>1, <3>2 DEF Goto, Shape
  <2>3. pc'[c] = "lookup" => k \in Disk
    <3> SUFFICES ASSUME pc'[c] = "lookup" PROVE k \in Disk OBVIOUS
    <3>1. \/ \E w \in {"value", "dropped", "waiting"} : Goto(c, w)
          \/ Goto(c, IF k \in Disk THEN "lookup" ELSE "asking")
      BY DEF Enter
    <3> QED BY <1>1, <3>1 DEF Goto, Shape
  <2>4. ASSUME NEW d \in fresh', pc'[d] = "value", key'[d] \notin Disk
        PROVE  source'[d] \notin empty'
    <3>1. CASE d = c BY <1>9, <1>10, <2>1, <2>4, <3>1
    <3>2. CASE d # c
      <4>1. d \in fresh /\ d \in Call BY <1>1, <1>2, <3>2 DEF FreshInv
      <4> QED BY <1>1, <1>4, <1>9, <2>1, <2>4, <3>2, <4>1 DEF FreshInv, NoStaleMiss
    <3> QED BY <3>1, <3>2
  <2>5. /\ fresh' \subseteq Call /\ fresh' \cap empty' = {}
        /\ \A d \in fresh' : pc'[d] \notin {"idle", "waiting"}
    BY <1>1, <1>2, <1>4, <2>1, <2>2 DEF FreshInv
  <2>6. \A d \in empty' : pc'[d] \notin {"idle", "lookup", "asking"}
    BY <1>1, <1>4, <2>1 DEF FreshInv, AnswerInv
  <2>7. \A d \in Call : pc'[d] \in {"lookup", "storing"} => key'[d] \in Disk
    BY <1>1, <1>4, <2>3 DEF FreshInv
  <2> QED BY <2>4, <2>5, <2>6, <2>7 DEF FreshInv, NoStaleMiss
<1> QED BY <1>8, <1>11, <1>12

\* A call that leads goes on: to the node, or to write what the node answered.
LEMMA AskCache ==
  ASSUME CacheInv, NEW c \in Call, LookUp(c), Goto(c, "asking"),
         UNCHANGED <<key, source, future, cache, recent>>
  PROVE  OrderInv' /\ AnswerInv' /\ FreshInv'
<1>1. /\ Shape /\ AnswerInv /\ FreshInv /\ pc[c] = "lookup"
      /\ UNCHANGED <<disk, produced, empty, fresh, faults>>
  BY DEF CacheInv, FetchInv, LookUp
<1>2. pc' = [pc EXCEPT ![c] = "asking"] BY DEF Goto
<1>3. Lasts BY <1>1, <1>2 DEF Lasts, Shape
<1>4. OrderInv' /\ AnswerInv'
  BY <1>1, <1>2, <1>3, QuietCache DEF AnswerInv, Shape
<1>5. FreshInv' BY <1>1, <1>2 DEF FreshInv, NoStaleMiss, Shape
<1> QED BY <1>4, <1>5

LEMMA AnswerCache ==
  ASSUME CacheInv, NEW c \in Call, Answer(c)
  PROVE  OrderInv' /\ AnswerInv' /\ FreshInv'
<1>1. /\ Shape /\ AnswerInv /\ FreshInv /\ pc[c] = "asking" /\ key[c] \in Key
      /\ UNCHANGED <<produced, fresh, faults>>
      /\ \/ key[c] \in produced /\ UNCHANGED empty
         \/ c \notin fresh /\ empty' = empty \cup {c}
  BY DEF CacheInv, FetchInv, Answer, Shape
<1>2. CASE key[c] \in Disk
  <2>1. /\ disk' = [disk EXCEPT ![key[c]] = {c}] /\ pc' = [pc EXCEPT ![c] = "storing"]
        /\ UNCHANGED <<key, source, future, cache, recent>>
    BY <1>2 DEF Answer, Goto
  <2>2. Lasts BY <1>1, <2>1 DEF Lasts, Shape
  <2>3. Fetched(c, key[c])' BY <1>1, <2>1 DEF Fetched, Shape
  <2>4. \A k \in Key : \A l \in disk'[k] : l \in disk[k] \/ Fetched(l, k)'
    BY <1>1, <2>1, <2>3 DEF AnswerInv
  <2>5. OrderInv' /\ AnswerInv'
    <3>1. disk' \in [Key -> SUBSET Call] BY <1>1, <2>1 DEF AnswerInv
    <3>2. /\ \A d \in Call : pc'[d] = "storing" => pc[d] = "storing" \/ Fetched(d, key[d])'
          /\ \A d \in Call : pc'[d] = "value" => pc[d] = "value" /\ source'[d] = source[d]
          /\ \A d \in Call : future'[d] = "set" => pc'[d] = "value"
      BY <1>1, <2>1, <2>3 DEF AnswerInv, Shape
    <3> QED BY <1>1, <2>1, <2>2, <2>4, <3>1, <3>2, QuietCache DEF AnswerInv
  <2>6. FreshInv'
    <3>1. ASSUME NEW d \in fresh, pc'[d] = "value", key[d] \notin Disk
          PROVE  source[d] \notin empty'
      <4>1. d \in Call /\ pc[d] = "value" BY <1>1, <2>1, <3>1 DEF FreshInv, Shape
      <4>2. source[d] \notin empty /\ pc[source[d]] # "asking"
        BY <1>1, <3>1, <4>1 DEF FreshInv, NoStaleMiss, AnswerInv, Fetched
      <4> QED BY <1>1, <4>2
    <3>2. /\ fresh' \subseteq Call /\ fresh' \cap empty' = {}
          /\ \A d \in fresh' : pc'[d] \notin {"idle", "waiting"}
          /\ \A d \in empty' : pc'[d] \notin {"idle", "lookup", "asking"}
      BY <1>1, <2>1 DEF FreshInv, AnswerInv, Shape
    <3>3. \A d \in Call : pc'[d] \in {"lookup", "storing"} => key'[d] \in Disk
      BY <1>1, <1>2, <2>1 DEF FreshInv, Shape
    <3> QED BY <1>1, <2>1, <3>1, <3>2, <3>3 DEF FreshInv, NoStaleMiss
  <2> QED BY <2>5, <2>6
<1>3. CASE key[c] \notin Disk
  <2>1. Land(c, c) /\ UNCHANGED disk BY <1>3 DEF Answer
  <2>2. key' = key /\ \E w \in {"value", "invalid"} : Goto(c, w) BY <2>1 DEF Land
  <2>3. Fetched(c, key[c])' BY <1>1, <2>2 DEF Fetched, Goto, Shape
  <2> QED BY <1>1, <2>1, <2>3, LandCache DEF Leading
<1> QED BY <1>2, <1>3

\* Steps that leave the answers alone: who ends without one, and who takes
\* that of the call it follows.
LEMMA EndCache ==
  ASSUME CacheInv, UNCHANGED <<key, disk, empty, fresh>>,
         produced \subseteq produced', produced' \subseteq Key, faults' \in Nat,
         OrderInv => OrderInv', cache' \in {cache, <<>>}, source' \in [Call -> Call],
         \A d \in Call : pc'[d] \in {pc[d], "value"} \cup Broken,
         \A d \in Call : pc[d] = "value" => pc'[d] = "value" /\ source'[d] = source[d],
         \A d \in Call : pc[d] # "value" /\ pc'[d] = "value" =>
            d \notin fresh /\ Fetched(source'[d], key[d]),
         \A d \in Call : pc[d] = "idle" => pc'[d] = "idle",
         \A d \in Call : future'[d] = "set" => future[d] = "set"
  PROVE  OrderInv' /\ AnswerInv' /\ FreshInv'
<1>1. OrderInv' /\ AnswerInv /\ FreshInv BY DEF CacheInv
<1>2. Lasts BY <1>1 DEF Lasts, Broken, AnswerInv
<1>3. /\ \A d, k : Fetched(d, k) => Fetched(d, k)'
      /\ cache \in Seq(Kept')
  BY <1>1, <1>2, FetchedLasts DEF AnswerInv
<1>4. cache' \in Seq(Kept') BY <1>3, EmptySeq
<1>5. ASSUME NEW d \in Call PROVE pc'[d] = "value" => Fetched(source[d], key[d])'
  <2>1. CASE pc[d] = "value"
    <3>1. Fetched(source[d], key[d]) /\ source'[d] = source[d] BY <1>1, <2>1 DEF AnswerInv
    <3> QED BY <1>3, <3>1
  <2>2. CASE pc[d] # "value" BY <1>3, <2>2
  <2> QED BY <2>1, <2>2
<1>6. AnswerInv'
  <2>1. \A d \in Call : pc'[d] = "storing" => Fetched(d, key[d])'
    BY <1>1, <1>3 DEF AnswerInv, Broken
  <2>2. \A k \in Key : \A l \in disk'[k] : Fetched(l, k)' BY <1>1, <1>3 DEF AnswerInv
  <2>3. \A d \in Call : future'[d] = "set" => pc'[d] = "value" BY <1>1 DEF AnswerInv
  <2> QED BY <1>1, <1>4, <1>5, <2>1, <2>2, <2>3 DEF AnswerInv
<1>7. FreshInv' BY <1>1 DEF FreshInv, NoStaleMiss, Broken, AnswerInv
<1> QED BY <1>1, <1>6, <1>7

LEMMA WakeCache ==
  ASSUME CacheInv, NEW c \in Call, Wake(c)
  PROVE  OrderInv' /\ AnswerInv' /\ FreshInv'
<1>1. /\ Shape /\ AnswerInv /\ FreshInv /\ FollowInv /\ pc[c] = "waiting"
      /\ UNCHANGED <<key, future, cache, recent, disk, produced, empty, fresh, faults>>
      /\ OrderInv => OrderInv'
  BY DEF CacheInv, FetchInv, Wake, OrderInv, OnceEach, LeastRecentlyUsed
<1>2. CASE /\ future[leads[c]] = "set" /\ Goto(c, "value")
           /\ source' = [source EXCEPT ![c] = source[leads[c]]]
  <2>1. leads[c] \in Call /\ key[leads[c]] = key[c] BY <1>1 DEF Shape, FollowInv
  <2>2. Fetched(source[leads[c]], key[c]) BY <1>1, <1>2, <2>1 DEF AnswerInv
  <2>3. /\ source' \in [Call -> Call] /\ source'[c] = source[leads[c]] /\ pc'[c] = "value"
        /\ \A d \in Call \ {c} : pc'[d] = pc[d] /\ source'[d] = source[d]
    BY <1>1, <1>2, <2>1 DEF AnswerInv, Shape, Goto
  <2>4. c \notin fresh BY <1>1 DEF FreshInv
  <2>5. \A d \in Call : pc[d] # "value" /\ pc'[d] = "value" =>
          d \notin fresh /\ Fetched(source'[d], key[d])
    BY <2>2, <2>3, <2>4
  <2> QED BY <1>1, <2>3, <2>5, EndCache DEF AnswerInv
<1>3. CASE Goto(c, "dropped") /\ UNCHANGED source
  <2>1. \A d \in Call : pc'[d] = IF d = c THEN "dropped" ELSE pc[d]
    BY <1>1, <1>3 DEF Goto, Shape
  <2> QED BY <1>1, <1>3, <2>1, EndCache DEF AnswerInv, Broken
<1> QED BY <1>2, <1>3 DEF Wake

\* A call that raises or is cancelled.
LEMMA BreakCache ==
  ASSUME CacheInv, NEW c \in Call, Raise(c) \/ Cancel(c)
  PROVE  OrderInv' /\ AnswerInv' /\ FreshInv'
<1>1. /\ Shape /\ AnswerInv /\ pc[c] \in Leading \cup {"waiting"}
      /\ UNCHANGED <<key, source, cache, recent, disk, produced, empty, fresh>>
      /\ OrderInv => OrderInv'
  BY DEF CacheInv, FetchInv, Raise, Cancel, OrderInv, OnceEach, LeastRecentlyUsed
<1>2. faults' \in Nat BY <1>1 DEF AnswerInv, Raise, Cancel, Spend
<1>3. \A d \in Call : pc'[d] = pc[d] \/ (d = c /\ pc'[d] \in {"raised", "cancelled"})
  BY <1>1 DEF Raise, Cancel, Goto, Shape
<1>4. \A d \in Call : future'[d] \in {future[d], "cancelled"}
  BY <1>1 DEF Raise, Cancel, Fail, Shape
<1>5. \A d \in Call : pc[d] \in {"idle", "value"} => pc'[d] = pc[d]
  BY <1>1, <1>3 DEF Leading
<1> QED BY <1>1, <1>2, <1>3, <1>4, <1>5, EndCache DEF AnswerInv, Broken

\* A restart empties the cache.
LEMMA RestartCache ==
  ASSUME CacheInv, Restart
  PROVE  OrderInv' /\ AnswerInv' /\ FreshInv'
<1>1. /\ Shape /\ AnswerInv /\ faults' \in Nat
      /\ UNCHANGED <<key, source, future, disk, produced, empty, fresh>>
      /\ cache' = <<>> /\ recent' = <<>>
  BY DEF CacheInv, FetchInv, AnswerInv, Restart, Spend
<1>2. OrderInv'
  BY <1>1, EmptySeq, FetcherAssumption DEF OrderInv, OnceEach, LeastRecentlyUsed
<1>3. \A d \in Call : pc'[d] = IF pc[d] \in Leading \cup {"waiting"} THEN "killed"
                                                                  ELSE pc[d]
  BY DEF Restart
<1> QED BY <1>1, <1>2, <1>3, EndCache DEF AnswerInv, Broken, Leading

LEMMA ProduceCache ==
  ASSUME CacheInv, NEW k \in Key, Produce(k)
  PROVE  OrderInv' /\ AnswerInv' /\ FreshInv'
<1>1. /\ AnswerInv /\ produced' = produced \cup {k}
      /\ UNCHANGED <<pc, key, source, future, cache, recent, disk, empty, fresh, faults>>
      /\ OrderInv => OrderInv'
  BY DEF CacheInv, Produce, clientVars, OrderInv, OnceEach, LeastRecentlyUsed
<1> QED BY <1>1, EndCache DEF AnswerInv

LEMMA CacheStep == CacheInv /\ [Next]_vars => CacheInv'
<1> SUFFICES ASSUME CacheInv, [Next]_vars PROVE CacheInv' OBVIOUS
<1>1. FetchInv' BY FetchStep DEF CacheInv
<1> DEFINE Rest == OrderInv' /\ AnswerInv' /\ FreshInv'
<1>2. ASSUME NEW c \in Call, NEW k \in Key, Enter(c, k) PROVE Rest
  BY <1>2, EnterCache
<1>3. ASSUME NEW c \in Call, LookUp(c) PROVE Rest
  <2>1. /\ pc[c] = "lookup" /\ UNCHANGED <<disk, produced, empty, fresh, faults>>
        /\ AnswerInv /\ FreshInv /\ Shape /\ key[c] \in Key
    BY <1>3 DEF LookUp, CacheInv, FetchInv, Shape
  <2>2. ASSUME NEW l \in disk[key[c]], Land(c, l) PROVE Rest
    <3>1. key' = key /\ \E w \in {"value", "invalid"} : Goto(c, w) BY <2>2 DEF Land
    <3>2. Fetched(l, key[c]) BY <2>1 DEF AnswerInv
    <3>3. l # c BY <2>1, <3>2 DEF Fetched
    <3>4. Fetched(l, key[c])' BY <2>1, <3>1, <3>2, <3>3 DEF Fetched, Goto, Shape
    <3>5. key[c] \in Disk BY <2>1 DEF FreshInv
    <3> QED BY <2>1, <2>2, <3>4, <3>5, LandCache DEF Leading
  <2>3. CASE Goto(c, "asking") /\ UNCHANGED <<key, source, future, cache, recent>>
    BY <1>3, <2>3, AskCache
  <2> QED BY <1>3, <2>2, <2>3 DEF LookUp
<1>4. ASSUME NEW c \in Call, Answer(c) PROVE Rest BY <1>4, AnswerCache
<1>5. ASSUME NEW c \in Call, Store(c) PROVE Rest
  <2>1. /\ pc[c] = "storing" /\ Land(c, c) /\ AnswerInv /\ Shape
        /\ UNCHANGED <<disk, produced, empty, fresh, faults>>
    BY <1>5 DEF Store, CacheInv, FetchInv
  <2>2. key' = key /\ \E w \in {"value", "invalid"} : Goto(c, w) BY <2>1 DEF Land
  <2>3. Fetched(c, key[c])' BY <2>1, <2>2 DEF AnswerInv, Fetched, Goto, Shape
  <2> QED BY <2>1, <2>3, LandCache DEF Leading
<1>6. ASSUME NEW c \in Call, Raise(c) \/ Cancel(c) PROVE Rest BY <1>6, BreakCache
<1>7. ASSUME NEW c \in Call, Wake(c) PROVE Rest BY <1>7, WakeCache
<1>8. ASSUME NEW k \in Key, Produce(k) PROVE Rest BY <1>8, ProduceCache
<1>9. CASE Restart BY <1>1, <1>9, RestartCache DEF CacheInv
<1>10. CASE UNCHANGED vars
  <2>1. /\ AnswerInv /\ (OrderInv => OrderInv')
        /\ UNCHANGED <<pc, key, source, future, cache, disk, produced, empty, fresh, faults>>
    BY <1>10 DEF vars, clientVars, CacheInv, OrderInv, OnceEach, LeastRecentlyUsed
  <2> QED BY <1>1, <2>1, EndCache DEF AnswerInv, CacheInv
<1> QED BY <1>1, <1>2, <1>3, <1>4, <1>5, <1>6, <1>7, <1>8, <1>9, <1>10 DEF Next, CacheInv

LEMMA CacheInvariant == Spec => []CacheInv
BY CacheInit, CacheStep, PTL DEF Spec
-----------------------------------------------------------------------------
\* Every variable of the calls and of their cache keeps its type; the cache
\* never outgrows its size (utils/cache.py:379-400).
THEOREM FetcherTypes == Spec => []TypeOK
<1>1. CacheInv => TypeOK
  <2> SUFFICES ASSUME CacheInv PROVE TypeOK OBVIOUS
  <2>1. Len(cache) <= MaxSize
    <3>1. Len(cache) \in Nat /\ Len(recent) \in Nat BY LenProperties DEF CacheInv, OrderInv
    <3> QED BY <3>1, FetcherAssumption DEF CacheInv, OrderInv, LeastRecentlyUsed
  <2> QED BY <2>1 DEF CacheInv, FetchInv, Shape, OrderInv, AnswerInv, FreshInv, TypeOK
<1> QED BY <1>1, CacheInvariant, PTL

\* Whatever is shared, evicted, read from disk, cancelled or restarted, a value
\* that a call returns was fetched for the key it asked for
\* (utils/cache.py:403-488).
THEOREM AnswersAreOfKey == Spec => []AnswerIsOfKey
<1>1. CacheInv => AnswerIsOfKey
  BY DEF CacheInv, FetchInv, Shape, AnswerInv, Fetched, AnswerIsOfKey
<1> QED BY <1>1, CacheInvariant, PTL

\* The cache is the end of the order of use, for every size of it: the key that
\* is evicted is the one that has not been used for longest.
THEOREM EvictsOldest == Spec => []LeastRecentlyUsed
<1>1. CacheInv => LeastRecentlyUsed BY DEF CacheInv, OrderInv
<1> QED BY <1>1, CacheInvariant, PTL

\* A block that does not exist yet is asked for again: the empty answer of an
\* earlier call is never given to one that begins once the node has a real one.
THEOREM MissesAreForgotten == Spec => []NoStaleMiss
<1>1. CacheInv => NoStaleMiss BY DEF CacheInv, FreshInv
<1> QED BY <1>1, CacheInvariant, PTL
=============================================================================
