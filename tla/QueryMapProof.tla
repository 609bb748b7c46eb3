--------------------------- MODULE QueryMapProof ---------------------------
(***************************************************************************)
(* What an iteration over query_map hands out, for maps of any size, every *)
(* kind of query, and any number of changes of the map and failing calls.  *)
(***************************************************************************)
EXTENDS QueryMapProperties, Induction, FiniteSetTheorems, SequenceTheorems, TLAPS

(***************************************************************************)
(* The order of the keys.                                                  *)
(***************************************************************************)
Place == Nat \X Nat

LEMMA Order ==
  /\ Key \subseteq Place /\ Nowhere \in Place
  /\ \A k \in Key : Before(Nowhere, k)
  /\ \A i \in Place : ~Before(i, i)
  /\ \A i, j, k \in Place : Before(i, j) /\ Before(j, k) => Before(i, k)
  /\ \A i, j \in Place : i = j \/ Before(i, j) \/ Before(j, i)
BY QueryMapAssumption DEF Place, Key, Nowhere, Before

LEMMA KeysFinite == ASSUME NEW S \in SUBSET Key PROVE IsFiniteSet(S) /\ Cardinality(S) \in Nat
<1>1. IsFiniteSet(1..Width) BY QueryMapAssumption, FS_Interval
<1>2. IsFiniteSet(Key) BY <1>1, FS_Product DEF Key
<1> QED BY <1>2, FS_Subset, FS_CardinalityType

\* The ranks of n keys are 0, ..., n - 1.
LEMMA Ranks ==
  ASSUME NEW S \in SUBSET Key
  PROVE  /\ \A k \in S : Rank(S, k) \in 0..Cardinality(S) - 1
         /\ \A j, k \in S : Before(j, k) <=> Rank(S, j) < Rank(S, k)
         /\ \A j, k \in S : Rank(S, j) = Rank(S, k) => j = k
         /\ \A n \in 0..Cardinality(S) - 1 : \E k \in S : Rank(S, k) = n
<1> DEFINE below(k) == {j \in S : Before(j, k)}  N == Cardinality(S)
<1>1. \A T \in SUBSET S : IsFiniteSet(T) /\ Cardinality(T) \in Nat BY KeysFinite
<1>2. ASSUME NEW k \in S PROVE Rank(S, k) \in 0..N - 1
  <2>1. below(k) \in SUBSET S /\ below(k) # S BY Order
  <2>2. Cardinality(below(k)) <= N /\ Cardinality(below(k)) # N BY <1>1, <2>1, FS_Subset
  <2> QED BY <1>1, <2>1, <2>2 DEF Rank
<1>3. ASSUME NEW j \in S, NEW k \in S, Before(j, k) PROVE Rank(S, j) < Rank(S, k)
  <2>1. below(j) \in SUBSET below(k) BY <1>3, Order
  <2>2. j \in below(k) /\ j \notin below(j) BY <1>3, Order
  <2>3. below(j) # below(k) BY <2>2
  <2> HIDE DEF below
  <2>4. below(k) \in SUBSET S /\ below(j) \in SUBSET S BY DEF below
  <2>5. /\ Cardinality(below(j)) <= Cardinality(below(k))
        /\ Cardinality(below(j)) # Cardinality(below(k))
    BY <1>1, <2>1, <2>3, <2>4, FS_Subset
  <2> QED BY <1>1, <2>4, <2>5 DEF Rank, below
<1>4. \A j, k \in S : Rank(S, j) \in Int BY <1>2
<1>5. \A j, k \in S : Before(j, k) <=> Rank(S, j) < Rank(S, k)
  BY <1>3, <1>4, Order
<1>6. \A j, k \in S : Rank(S, j) = Rank(S, k) => j = k
  BY <1>3, <1>4, Order
<1>7. \A n \in 0..N - 1 : \E k \in S : Rank(S, k) = n
  <2> DEFINE f == [k \in S |-> Rank(S, k)]
  <2>1. f \in Injection(S, 0..N - 1) BY <1>2, <1>6 DEF Injection, IsInjective
  <2>2. N \in Nat BY <1>1
  <2>3. IsFiniteSet(0..N - 1) /\ Cardinality(0..N - 1) = N BY <2>2, FS_Interval
  <2>4. f \in Surjection(S, 0..N - 1) BY <2>1, <2>3, FS_Injection
  <2> QED BY <2>4 DEF Surjection
<1> QED BY <1>2, <1>5, <1>6, <1>7

(***************************************************************************)
(* Sequences of keys in their order.                                       *)
(***************************************************************************)
Rising(s) == \A m, n \in 1..Len(s) : m < n => Before(s[m], s[n])

LEMMA SortedIs ==
  ASSUME NEW S \in SUBSET Key
  PROVE  /\ Sorted(S) \in Seq(S) /\ Len(Sorted(S)) = Cardinality(S)
         /\ Rising(Sorted(S)) /\ Range(Sorted(S)) = S
         /\ \A n \in 1..Cardinality(S) : Rank(S, Sorted(S)[n]) = n - 1
<1> DEFINE s == Sorted(S)  N == Cardinality(S)
<1>1. N \in Nat BY KeysFinite
<1>2. \A n \in 1..N : s[n] \in S /\ Rank(S, s[n]) = n - 1
  <2> SUFFICES ASSUME NEW n \in 1..N PROVE s[n] \in S /\ Rank(S, s[n]) = n - 1 OBVIOUS
  <2>1. \E k \in S : Rank(S, k) = n - 1 BY <1>1, Ranks
  <2> QED BY <2>1 DEF Sorted
<1>3. s = [n \in 1..N |-> s[n]] BY DEF Sorted
<1> HIDE DEF s
<1>4. s \in Seq(S) /\ Len(s) = N BY <1>1, <1>2, <1>3, IsASeq
<1>5. Rising(s) BY <1>1, <1>2, <1>4, Ranks DEF Rising
<1>6. Range(s) = S
  <2>1. DOMAIN s = 1..N BY <1>3
  <2>2. ASSUME NEW k \in S PROVE \E n \in 1..N : s[n] = k
    <3>1. Rank(S, k) \in 0..N - 1 BY Ranks
    <3>2. Rank(S, k) + 1 \in 1..N BY <1>1, <3>1
    <3>3. Rank(S, s[Rank(S, k) + 1]) = Rank(S, k) BY <1>2, <3>1, <3>2
    <3> QED BY <1>2, <3>2, <3>3, Ranks
  <2> QED BY <1>2, <2>1, <2>2 DEF Range
<1> QED BY <1>2, <1>4, <1>5, <1>6 DEF s

\* A rising sequence that leaves out no key of W before one it has is the
\* beginning of W in its order.
LEMMA Beginning ==
  ASSUME NEW W \in SUBSET Key, NEW s \in Seq(W), Rising(s),
         \A k \in W, n \in 1..Len(s) : Before(k, s[n]) => k \in Range(s)
  PROVE  IsPrefix(s, Sorted(W)) /\ (W \subseteq Range(s) => s = Sorted(W))
<1> DEFINE t == Sorted(W)  N == Cardinality(W)
<1>1. /\ t \in Seq(W) /\ Len(t) = N /\ N \in Nat /\ Range(t) = W
      /\ \A n \in 1..N : Rank(W, t[n]) = n - 1 /\ t[n] \in W
  BY SortedIs, KeysFinite, ElementOfSeq
<1>2. Len(s) \in Nat /\ \A n \in 1..Len(s) : s[n] \in W BY LenProperties, ElementOfSeq
<1>3. \A m, n \in 1..Len(s) : Before(s[m], s[n]) <=> m < n
  <2>1. \A k \in W : k \in Place BY Order
  <2>2. \A n \in 1..Len(s) : s[n] \in Place BY <1>2, <2>1
  <2> SUFFICES ASSUME NEW m \in 1..Len(s), NEW n \in 1..Len(s)
               PROVE  Before(s[m], s[n]) <=> m < n
    OBVIOUS
  <2>3. CASE m < n BY <2>3 DEF Rising
  <2>4. CASE m = n BY <2>2, <2>4, Order
  <2>5. CASE n < m
    <3>1. Before(s[n], s[m]) BY <2>5 DEF Rising
    <3> QED BY <2>2, <2>5, <3>1, Order
  <2> QED BY <1>2, <2>3, <2>4, <2>5
<1>4. ASSUME NEW n \in 1..Len(s) PROVE Rank(W, s[n]) = n - 1
  <2> DEFINE below == {j \in W : Before(j, s[n])}  f == [m \in 1..n - 1 |-> s[m]]
  <2>1. ASSUME NEW j \in below PROVE \E m \in 1..n - 1 : s[m] = j
    <3>1. PICK m \in 1..Len(s) : s[m] = j BY RangeEquality
    <3>2. m < n BY <1>3, <3>1
    <3> QED BY <1>2, <3>1, <3>2
  <2>2. ASSUME NEW m \in 1..n - 1 PROVE s[m] \in below
    <3>1. m \in 1..Len(s) /\ m < n BY <1>2
    <3> QED BY <1>2, <1>3, <3>1
  <2>3. ASSUME NEW l \in 1..n - 1, NEW m \in 1..n - 1, s[l] = s[m] PROVE l = m
    <3>1. l \in 1..Len(s) /\ m \in 1..Len(s) BY <1>2
    <3>2. ~Before(s[m], s[m]) BY <1>3, <3>1
    <3>3. ~(l < m) /\ ~(m < l) BY <1>3, <2>3, <3>1, <3>2
    <3> QED BY <3>1, <3>3
  <2> HIDE DEF below
  <2>4. f \in Bijection(1..n - 1, below)
    BY <2>1, <2>2, <2>3 DEF Bijection, Injection, Surjection, IsInjective
  <2>5. ExistsBijection(1..n - 1, below) BY <2>4 DEF ExistsBijection
  <2>6. n - 1 \in Nat BY <1>2
  <2>7. Cardinality(below) = n - 1 BY <2>5, <2>6, FS_CountingElements
  <2> QED BY <2>7 DEF Rank, below
<1>5. \A n \in 1..Len(s) : n \in 1..N /\ s[n] = t[n]
  <2> SUFFICES ASSUME NEW n \in 1..Len(s) PROVE n \in 1..N /\ s[n] = t[n] OBVIOUS
  <2>1. Rank(W, s[n]) = n - 1 /\ s[n] \in W /\ Rank(W, s[n]) \in 0..N - 1
    BY <1>2, <1>4, Ranks
  <2>2. n \in 1..N BY <1>1, <1>2, <2>1
  <2> QED BY <1>1, <2>1, <2>2, Ranks
<1>6. Len(s) <= N
  <2>1. CASE Len(s) = 0 BY <1>1, <2>1
  <2>2. CASE Len(s) # 0
    <3>1. Len(s) \in 1..Len(s) BY <1>2, <2>2
    <3> QED BY <1>1, <1>5, <3>1
  <2> QED BY <2>1, <2>2
<1>7. \A n \in 1..Len(s) : t[n] \in W BY <1>2, <1>5
<1> HIDE DEF t
<1>8. /\ SubSeq(t, 1, Len(s)) \in Seq(W) /\ Len(SubSeq(t, 1, Len(s))) = Len(s)
      /\ \A n \in 1..Len(s) : SubSeq(t, 1, Len(s))[n] = t[n]
  BY <1>2, <1>7, SubSeqProperties
<1>9. SubSeq(t, 1, Len(s)) = s BY <1>5, <1>8, SeqEqual
<1>10. SubSeq(s, 1, Len(s)) = s BY SubSeqFull
<1>11. ASSUME W \subseteq Range(s) PROVE s = t
  <2>1. Len(s) = N
    <3> SUFFICES ASSUME Len(s) # N PROVE FALSE OBVIOUS
    <3>1. N \in 1..N BY <1>1, <1>2, <1>6
    <3>2. PICK m \in 1..Len(s) : s[m] = t[N]
      <4>1. t[N] \in Range(s) BY <1>1, <1>11, <3>1
      <4>2. Range(s) = {s[m] : m \in 1..Len(s)} BY RangeEquality
      <4> QED BY <4>1, <4>2
    <3>3. Rank(W, s[m]) = m - 1 /\ Rank(W, t[N]) = N - 1 BY <1>1, <1>4, <3>1
    <3> QED BY <1>1, <1>2, <1>6, <3>2, <3>3
  <2> QED BY <1>1, <1>5, <2>1, SeqEqual
<1> QED BY <1>1, <1>6, <1>9, <1>10, <1>11 DEF IsPrefix, t

\* What state_getKeysPaged answers.
LEMMA Paged ==
  ASSUME NEW view \in SUBSET Key, NEW params, NEW count \in Nat, NEW from
  PROVE  LET page == PagedKeys(view, params, count, from)
             after == {k \in AllKeys(view, params) : Before(from, k)}
         IN /\ page \in Seq(after) /\ Rising(page) /\ Len(page) <= count
            /\ \A k \in after :
                 \/ k \in Range(page)
                 \/ Len(page) = count /\ (page # <<>> => Before(Last(page), k))
<1> DEFINE A == {k \in AllKeys(view, params) : Before(from, k)}
           s == Sorted(A)  N == Cardinality(A)
           c == IF count < N THEN count ELSE N
           page == SubSeq(s, 1, c)
<1>1. A \in SUBSET Key BY DEF AllKeys
<1> HIDE DEF A
<1>2. s \in Seq(A) /\ Len(s) = N /\ N \in Nat /\ Rising(s) /\ Range(s) = A
  BY <1>1, SortedIs, KeysFinite
<1>3. PagedKeys(view, params, count, from) = page
  BY <1>2 DEF PagedKeys, A
<1> HIDE DEF s
<1>4. c \in 0..N /\ c <= count /\ (c # count => c = N) BY <1>2
<1>5. \A n \in 1..c : n \in 1..Len(s) /\ s[n] \in A
  <2>1. \A n \in 1..c : n \in 1..Len(s) BY <1>2, <1>4
  <2> QED BY <1>2, <2>1, ElementOfSeq
<1> HIDE DEF N
<1> DEFINE cc == c
<1> HIDE DEF cc
<1>6. cc \in Int /\ page = SubSeq(s, 1, cc) /\ (1 <= cc \/ cc = 0) BY <1>2, <1>4 DEF cc
<1>7. \A n \in 1..cc : s[n] \in A BY <1>5 DEF cc
<1> HIDE DEF page
<1>8. /\ page \in Seq(A) /\ Len(page) = cc
      /\ \A n \in 1..cc : page[n] = s[n]
  <2>1. /\ SubSeq(s, 1, cc) \in Seq(A)
        /\ Len(SubSeq(s, 1, cc)) = IF 1 <= cc THEN cc - 1 + 1 ELSE 0
        /\ \A n \in 1..cc - 1 + 1 : SubSeq(s, 1, cc)[n] = s[1 + n - 1]
    BY <1>6, <1>7, SubSeqProperties
  <2>2. cc - 1 + 1 = cc /\ \A n \in 1..cc : 1 + n - 1 = n BY <1>6
  <2> QED BY <1>6, <2>1, <2>2
<1>9. Rising(page) BY <1>2, <1>5, <1>8 DEF Rising, cc
<1>10. ASSUME NEW k \in A, k \notin Range(page)
       PROVE  Len(page) = count /\ (page # <<>> => Before(Last(page), k))
  <2>1. PICK n \in 1..Len(s) : s[n] = k BY <1>2, RangeEquality
  <2>2. ~(n <= cc)
    <3> SUFFICES ASSUME n <= cc PROVE FALSE OBVIOUS
    <3>1. n \in 1..Len(page) /\ page[n] = k BY <1>2, <1>6, <1>8, <2>1
    <3> QED BY <1>8, <1>10, <3>1, RangeEquality
  <2>3. cc = count BY <1>2, <1>4, <2>1, <2>2 DEF cc
  <2>4. ASSUME page # <<>> PROVE Before(Last(page), k)
    <3>1. Len(page) \in 1..cc BY <1>8, <2>4, EmptySeq
    <3>2. Last(page) = s[cc] /\ cc \in 1..Len(s) /\ cc < n
      BY <1>2, <1>4, <1>5, <1>8, <2>1, <2>2, <3>1 DEF Last, cc
    <3> QED BY <1>2, <2>1, <3>2 DEF Rising
  <2> QED BY <1>8, <2>3, <2>4
<1> QED BY <1>3, <1>4, <1>8, <1>9, <1>10 DEF A, cc
-----------------------------------------------------------------------------
(***************************************************************************)
(* The invariant.  A page that is under way carries on where the records   *)
(* end that the iteration has been given, whether it has been asked for    *)
(* once or again.                                                          *)
(***************************************************************************)

\* The records handed out and those still in the buffer.
Records == yielded \o result.buffer

\* The keys of the block that is queried that are asked for, and those that
\* any page may count on.
Wished ==
  {k \in AllKeys(held, q.params) :
     q.exhaust \/ Before(q.start, k) \/ (Pinned /\ Forgotten)}
Due ==
  IF Pinned THEN Wished
  ELSE {k \in AllKeys(stable, q.params) : q.exhaust \/ Before(q.start, k)}

Results ==
  [made : BOOLEAN, size : Nat, records : Seq({ItemKey(k, q.params) : k \in Key}),
   buffer : Seq(Key), last : Key \cup {Nowhere}, complete : BOOLEAN]

Typed ==
  /\ q \in Query
  /\ map \in SUBSET Key /\ held \in SUBSET Key
  /\ stable \subseteq map /\ stable \subseteq held
  /\ pc \in {"called", "keys", "values", "ready", "over", "raised"}
  /\ start \in Place /\ keys \in Seq(Key) /\ yielded \in Seq(Key)
  /\ result \in Results

Asking ==
  /\ result.made => result.size = PageSize
  /\ ~result.made => /\ result = NoResult /\ yielded = <<>>
                     /\ pc \in {"called", "keys", "values", "raised"}
  /\ pc = "called" => ~result.made
  /\ pc \in {"keys", "values"} =>
       /\ result.buffer = <<>> /\ ~result.complete
       /\ start = IF result.made THEN result.last ELSE q.start
  /\ pc = "over" => result.buffer = <<>>

Ordered ==
  /\ Rising(Records)
  /\ pc # "over" /\ Records # <<>> => result.last = Last(Records)

Covered ==
  PageSize > 0 /\ result.made =>
    \A k \in Due :
      \/ k \in Range(Records)
      \/ pc # "over" /\ ~result.complete /\ Before(result.last, k)

Drawn ==
  /\ Pinned =>
       /\ Range(Records) \subseteq Wished
       /\ result.made /\ pc # "over" =>
            \A k \in AllKeys(held, q.params) : Before(result.last, k) => k \in Wished
  /\ PageSize = 0 /\ ~q.exhaust => Records = <<>>

\* What is known of the page under way when its keys have arrived.
Fits(page) ==
  /\ page \in Seq(Key) /\ Rising(page)
  /\ \A n \in 1..Len(page) : Exhausts \/ Before(start, page[n])
  /\ PageSize > 0 =>
       \A k \in Due :
         \/ k \in Range(Records) \cup Range(page)
         \/ page # <<>> /\ Len(page) >= PageSize /\ Before(Last(page), k)
         \/ page = <<>> /\ ~result.made
  /\ Pinned =>
       /\ Range(page) \subseteq Wished
       /\ page = <<>> /\ ~result.made => AllKeys(held, q.params) \subseteq Wished
  /\ PageSize = 0 /\ ~q.exhaust => page = <<>>

Carried == pc = "values" => keys # <<>> /\ Fits(keys)

IInv == Typed /\ Asking /\ Ordered /\ Covered /\ Drawn /\ Carried

\* The fields of a result, one at a time.
LEMMA ResultFields ==
  ASSUME NEW r \in Results
  PROVE  /\ r.made \in BOOLEAN /\ r.size \in Nat /\ r.buffer \in Seq(Key)
         /\ r.last \in Key \cup {Nowhere} /\ r.complete \in BOOLEAN
         /\ \A b \in Seq(Key) : LET d == [r EXCEPT !.buffer = b]
                                IN /\ d \in Results /\ d.buffer = b /\ d.made = r.made
                                   /\ d.last = r.last /\ d.complete = r.complete
                                   /\ d.size = r.size
BY DEF Results

LEMMA SizeOfPage == ASSUME q \in Query PROVE PageSize \in Nat
BY QueryMapAssumption DEF PageSize

\* A page that is found fits.
LEMMA FoundFits ==
  ASSUME Typed, Asking, Covered, Drawn, pc = "keys"
  PROVE  Fits(IF Exhausts THEN Sorted(AllKeys(View, q.params))
              ELSE PagedKeys(View, q.params, PageSize, start))
<1>1. /\ View \in SUBSET Key /\ PageSize \in Nat
      /\ \A k \in Due : /\ k \in AllKeys(View, q.params)
                        /\ q.exhaust \/ Before(q.start, k) \/ (Pinned /\ Forgotten)
      /\ Pinned => View = held
  BY SizeOfPage DEF Typed, View, Pinned, Due, Wished, AllKeys
<1>2. CASE Exhausts
  <2> DEFINE all == AllKeys(View, q.params)  page == Sorted(all)
  <2>1. all \in SUBSET Key BY <1>1 DEF AllKeys
  <2> HIDE DEF all
  <2>2. page \in Seq(all) /\ Rising(page) /\ Range(page) = all BY <2>1, SortedIs
  <2> HIDE DEF page
  <2>3. page \in Seq(Key) BY <2>1, <2>2, SeqMonotonic
  <2>4. Pinned => Range(page) \subseteq Wished /\ AllKeys(held, q.params) \subseteq Wished
    BY <1>1, <1>2, <2>2 DEF all, Wished, Exhausts
  <2>5. \A k \in Due : k \in Range(page) BY <1>1, <2>2 DEF all
  <2>6. q.exhaust BY <1>2 DEF Exhausts
  <2>7. Fits(page) BY <1>2, <2>2, <2>3, <2>4, <2>5, <2>6 DEF Fits
  <2> QED BY <1>2, <2>7 DEF page, all
<1>3. CASE ~Exhausts
  <2> DEFINE page == PagedKeys(View, q.params, PageSize, start)
             after == {k \in AllKeys(View, q.params) : Before(start, k)}
  <2>1. /\ page \in Seq(after) /\ Rising(page) /\ Len(page) <= PageSize
        /\ \A k \in after :
             \/ k \in Range(page)
             \/ Len(page) = PageSize /\ (page # <<>> => Before(Last(page), k))
    BY <1>1, Paged
  <2>2. after \in SUBSET Key BY <1>1 DEF AllKeys
  <2>3. page \in Seq(Key) /\ Range(page) \subseteq after
    BY <2>1, <2>2, SeqMonotonic, RangeOfSeq
  <2>4. \A n \in 1..Len(page) : Before(start, page[n]) BY <2>1, ElementOfSeq
  <2>5. ~result.made => start = q.start /\ ~q.exhaust
    BY <1>3 DEF Asking, Exhausts
  <2>6. Pinned /\ ~result.made => (Forgotten <=> q.start # Nowhere /\ page = <<>>)
    BY <1>1, <2>5 DEF Forgotten
  <2>7. ASSUME PageSize > 0, NEW k \in Due
        PROVE  \/ k \in Range(Records) \cup Range(page)
               \/ page # <<>> /\ Len(page) >= PageSize /\ Before(Last(page), k)
               \/ page = <<>> /\ ~result.made
    <3>1. k \in Range(Records) \/ k \in after \/ (page = <<>> /\ ~result.made)
      <4>1. CASE result.made BY <1>1, <2>7, <4>1 DEF Covered, Asking
      <4>2. CASE ~result.made
        <5> HIDE DEF page
        <5> QED BY <1>1, <2>5, <2>6, <2>7, <4>2
      <4> QED BY <4>1, <4>2
    <3>2. Len(page) = PageSize => page # <<>> BY <2>3, <2>7, EmptySeq
    <3> HIDE DEF page, after
    <3> QED BY <1>1, <2>1, <3>1, <3>2
  <2>8. ASSUME Pinned
        PROVE  /\ Range(page) \subseteq Wished
               /\ page = <<>> /\ ~result.made => AllKeys(held, q.params) \subseteq Wished
    <3>1. View = held BY <1>1, <2>8
    <3>2. ASSUME NEW k \in after PROVE k \in Wished
      <4>1. k \in AllKeys(held, q.params) /\ Before(start, k) BY <3>1
      <4>2. CASE result.made BY <2>8, <4>1, <4>2 DEF Drawn, Asking
      <4>3. CASE ~result.made BY <2>5, <4>1, <4>3 DEF Wished
      <4> QED BY <4>2, <4>3
    <3>3. ASSUME page = <<>>, ~result.made, NEW k \in AllKeys(held, q.params)
          PROVE  k \in Wished
      <4>1. k \in Key BY <1>1, <3>1, <3>3 DEF AllKeys
      <4>2. Forgotten \/ Before(q.start, k) BY <2>6, <2>8, <3>3, <4>1, Order
      <4> QED BY <2>8, <3>3, <4>2 DEF Wished
    <3> QED BY <2>3, <3>2, <3>3
  <2>9. PageSize = 0 => page = <<>> BY <2>1, <2>3, EmptySeq, LenProperties
  <2> HIDE DEF page
  <2>10. Fits(page) BY <2>1, <2>3, <2>4, <2>7, <2>8, <2>9 DEF Fits
  <2> QED BY <1>3, <2>10 DEF page
<1> QED BY <1>2, <1>3
-----------------------------------------------------------------------------
(***************************************************************************)
(* The steps.                                                              *)
(***************************************************************************)
LEMMA Same ==
  ASSUME UNCHANGED <<q, held, stable>>
  PROVE  /\ PageSize' = PageSize /\ Due' = Due /\ Wished' = Wished /\ Pinned' = Pinned
<1>1. PageSize' = PageSize /\ Pinned' = Pinned /\ Forgotten' = Forgotten
  BY DEF PageSize, Pinned, CurrentBlock, Forgotten
<1> QED BY <1>1 DEF Due, Wished

\* A page is delivered: its records follow those there are.
LEMMA Delivered ==
  ASSUME Typed, Asking, pc \in {"keys", "values"}, NEW page \in Seq(Key), Deliver(page)
  PROVE  /\ result' \in Results /\ yielded' \in Seq(Key)
         /\ Records' = Records \o page
         /\ result'.made /\ result'.size = PageSize /\ result'.last = Advance(page)
         /\ result'.complete <=> (result.made /\ (Len(page) < PageSize \/ page = <<>>))
         /\ pc' = IF result.made /\ page = <<>> THEN "over" ELSE "ready"
         /\ page = <<>> => result'.buffer = <<>>
<1> DEFINE Item == {ItemKey(k, q.params) : k \in Key}
           records == DecodePage(page, q.params)
<1>1. records \in Seq(Item)
  <2>1. DOMAIN page = 1..Len(page) /\ Len(page) \in Nat BY LenProperties
  <2>2. \A n \in 1..Len(page) : ItemKey(page[n], q.params) \in Item BY ElementOfSeq
  <2>3. records = [n \in 1..Len(page) |-> ItemKey(page[n], q.params)]
    BY <2>1 DEF DecodePage
  <2> HIDE DEF Item
  <2> QED BY <2>1, <2>2, <2>3, IsASeq
<1>2. Advance(page) \in Key \cup {Nowhere}
  <2>1. CASE page = <<>> BY <2>1 DEF Advance
  <2>2. CASE page # <<>>
    <3>1. Len(page) \in 1..Len(page) BY <2>2, EmptySeq
    <3> QED BY <2>2, <3>1, ElementOfSeq DEF Advance, Last
  <2> QED BY <2>1, <2>2
<1>3. result \in Results /\ result.buffer = <<>> /\ ~result.complete
  BY DEF Typed, Asking
<1> HIDE DEF records, Item
<1>4. CASE ~result.made
  <2>1. yielded = <<>> /\ result' = NewResult(page) /\ pc' = "ready" /\ yielded' = yielded
    BY <1>4 DEF Deliver, Asking
  <2>2. NewResult(page) = [made |-> TRUE, size |-> PageSize, records |-> records,
                           buffer |-> page, last |-> Advance(page), complete |-> FALSE]
    BY DEF NewResult, records
  <2>3. PageSize \in Nat BY SizeOfPage DEF Typed
  <2>4. result' \in Results BY <1>1, <1>2, <2>1, <2>2, <2>3 DEF Results, Item
  <2>5. Records' = Records \o page
    <3>1. <<>> \in Seq(Key) BY EmptySeq
    <3>2. Records = <<>> BY <1>3, <2>1, <3>1, ConcatEmptySeq DEF Records
    <3>3. Records' = <<>> \o page BY <2>1, <2>2 DEF Records
    <3> QED BY <3>2, <3>3
  <2>6. /\ result'.made /\ result'.size = PageSize /\ result'.last = Advance(page)
        /\ result'.complete = FALSE /\ result'.buffer = page
    BY <2>1, <2>2
  <2>7. yielded' \in Seq(Key) BY <2>1 DEF Typed
  <2> QED BY <1>4, <2>1, <2>4, <2>5, <2>6, <2>7
<1>5. CASE result.made
  <2> DEFINE rest == IF page = <<>> THEN <<>> ELSE Tail(page)
             taken == SubSeq(page, 1, IF page = <<>> THEN 0 ELSE 1)
             all == result.records \o records
  <2>1. /\ result' = NextPage(page) /\ yielded' = yielded \o taken
        /\ pc' = IF page = <<>> THEN "over" ELSE "ready"
    BY <1>5 DEF Deliver
  <2>2. result.records \in Seq(Item) BY <1>3 DEF Results, Item
  <2>3. all \in Seq(Item) BY <1>1, <2>2, ConcatProperties
  <2>4. rest \in Seq(Key) BY HeadTailProperties, EmptySeq
  <2>5. taken \in Seq(Key) /\ taken \o rest = page
    <3>1. CASE page = <<>>
      <4>1. taken = <<>> BY <3>1, SubSeqEmpty
      <4> QED BY <3>1, <4>1, ConcatEmptySeq
    <3>2. CASE page # <<>>
      <4>1. Len(page) \in Nat \ {0} BY <3>2, EmptySeq
      <4>2. taken = SubSeq(page, 1, 1) /\ rest = SubSeq(page, 1 + 1, Len(page))
        BY <3>2, TailIsSubSeq
      <4>3. taken \o rest = SubSeq(page, 1, Len(page))
        BY <4>1, <4>2, ConcatAdjacentSubSeq
      <4>4. page[1] \in Key BY <4>1, ElementOfSeq
      <4>5. taken \in Seq(Key) BY <4>2, <4>4, SubSeqProperties
      <4> QED BY <4>3, <4>5, SubSeqFull
    <3> QED BY <3>1, <3>2
  <2>6. result.size = PageSize /\ Short(page) = (Len(page) < PageSize)
    BY <1>5 DEF Asking, Short
  <2>7. NextPage(page) = [result EXCEPT !.complete = @ \/ Short(page) \/ page = <<>>,
                            !.last = Advance(page), !.records = all, !.buffer = rest]
    BY DEF NextPage, records
  <2> HIDE DEF rest, all, taken
  <2>8. result' \in Results BY <1>2, <1>3, <2>1, <2>3, <2>4, <2>6, <2>7 DEF Results, Item
  <2>9. /\ result'.made /\ result'.size = PageSize /\ result'.last = Advance(page)
        /\ result'.complete <=> (Len(page) < PageSize \/ page = <<>>)
        /\ result'.buffer = rest
    BY <1>3, <1>5, <2>1, <2>6, <2>7 DEF Results
  <2>10. Records' = Records \o page
    <3>1. yielded \in Seq(Key) BY DEF Typed
    <3>2. Records = yielded BY <1>3, <3>1, ConcatEmptySeq DEF Records
    <3>3. Records' = (yielded \o taken) \o rest BY <2>1, <2>9 DEF Records
    <3>4. (yielded \o taken) \o rest = yielded \o (taken \o rest)
      <4>1. \A s, t, u \in Seq(Key) : (s \o t) \o u = s \o (t \o u) BY ConcatAssociative
      <4> QED BY <2>4, <2>5, <3>1, <4>1, Zenon
    <3> QED BY <2>5, <3>2, <3>3, <3>4
  <2>11. yielded' \in Seq(Key) BY <2>1, <2>5, ConcatProperties DEF Typed
  <2> QED BY <1>5, <2>1, <2>8, <2>9, <2>10, <2>11 DEF rest
<1> QED BY <1>4, <1>5

LEMMA RisingOn ==
  ASSUME NEW s \in Seq(Key), NEW t \in Seq(Key), Rising(s), Rising(t),
         s # <<>> => \A n \in 1..Len(t) : Before(Last(s), t[n])
  PROVE  Rising(s \o t)
<1>1. /\ Len(s) \in Nat /\ Len(t) \in Nat /\ Len(s \o t) = Len(s) + Len(t)
      /\ \A n \in 1..Len(s) + Len(t) : (s \o t)[n] = IF n <= Len(s) THEN s[n] ELSE t[n - Len(s)]
  BY ConcatProperties, LenProperties
<1>2. \A k \in Key : k \in Place BY Order
<1>3. /\ \A n \in 1..Len(s) : s[n] \in Place
      /\ \A n \in 1..Len(t) : t[n] \in Place
  BY <1>2, ElementOfSeq
<1>4. ASSUME NEW m \in 1..Len(s), NEW n \in 1..Len(t) PROVE Before(s[m], t[n])
  <2>1. s # <<>> /\ Len(s) \in 1..Len(s) BY <1>1, <1>4, EmptySeq
  <2>2. Before(s[Len(s)], t[n]) BY <2>1 DEF Last
  <2>3. m = Len(s) \/ Before(s[m], s[Len(s)]) BY <1>1, <2>1 DEF Rising
  <2> QED BY <1>3, <2>1, <2>2, <2>3, Order
<1> SUFFICES ASSUME NEW m \in 1..Len(s) + Len(t), NEW n \in 1..Len(s) + Len(t), m < n
             PROVE  Before((s \o t)[m], (s \o t)[n])
  BY <1>1 DEF Rising
<1>5. CASE n <= Len(s)
  <2>1. m \in 1..Len(s) /\ n \in 1..Len(s) BY <1>1, <1>5
  <2>2. (s \o t)[m] = s[m] /\ (s \o t)[n] = s[n] BY <1>1, <2>1
  <2> QED BY <2>1, <2>2 DEF Rising
<1>6. CASE m <= Len(s) /\ ~(n <= Len(s))
  <2>1. m \in 1..Len(s) /\ n - Len(s) \in 1..Len(t) BY <1>1, <1>6
  <2>2. (s \o t)[m] = s[m] /\ (s \o t)[n] = t[n - Len(s)] BY <1>1, <1>6
  <2> QED BY <1>4, <2>1, <2>2
<1>7. CASE ~(m <= Len(s))
  <2>1. m - Len(s) \in 1..Len(t) /\ n - Len(s) \in 1..Len(t) /\ m - Len(s) < n - Len(s)
    BY <1>1, <1>7
  <2>2. (s \o t)[m] = t[m - Len(s)] /\ (s \o t)[n] = t[n - Len(s)] BY <1>1, <1>7
  <2> QED BY <2>1, <2>2 DEF Rising
<1> QED BY <1>5, <1>6, <1>7

LEMMA LastOfConcat ==
  ASSUME NEW s \in Seq(Key), NEW t \in Seq(Key)
  PROVE  Last(s \o t) = IF t = <<>> THEN Last(s) ELSE Last(t)
<1>1. CASE t = <<>> BY <1>1, ConcatEmptySeq
<1>2. CASE t # <<>>
  <2>1. Len(t) \in Nat \ {0} /\ Len(s) \in Nat BY <1>2, EmptySeq, LenProperties
  <2>2. /\ Len(s \o t) = Len(s) + Len(t)
        /\ (s \o t)[Len(s) + Len(t)] = t[Len(s) + Len(t) - Len(s)]
    <3>1. Len(s) + Len(t) \in 1..Len(s) + Len(t) /\ ~(Len(s) + Len(t) <= Len(s)) BY <2>1
    <3> QED BY <3>1, ConcatProperties
  <2> QED BY <1>2, <2>1, <2>2 DEF Last
<1> QED BY <1>1, <1>2

\* Delivering a page that fits keeps the invariant.
LEMMA DeliverKeeps ==
  ASSUME IInv, pc \in {"keys", "values"}, NEW page, Fits(page), Deliver(page),
         keys' \in Seq(Key), UNCHANGED <<q, map, held, start, stable>>
  PROVE  IInv'
<1>1. page \in Seq(Key) BY DEF Fits
<1>2. /\ result' \in Results /\ yielded' \in Seq(Key)
      /\ Records' = Records \o page
      /\ result'.made /\ result'.size = PageSize /\ result'.last = Advance(page)
      /\ result'.complete <=> (result.made /\ (Len(page) < PageSize \/ page = <<>>))
      /\ pc' = IF result.made /\ page = <<>> THEN "over" ELSE "ready"
      /\ page = <<>> => result'.buffer = <<>>
  BY <1>1, Delivered DEF IInv
<1>3. PageSize' = PageSize /\ Due' = Due /\ Wished' = Wished /\ Pinned' = Pinned BY Same
<1>4. Records \in Seq(Key)
  <2>1. yielded \in Seq(Key) /\ result.buffer \in Seq(Key)
    BY ResultFields DEF IInv, Typed
  <2> QED BY <2>1, ConcatProperties DEF Records
<1>5. Range(Records') = Range(Records) \cup Range(page)
  BY <1>1, <1>2, <1>4, RangeConcatenation
<1>6. PageSize \in Nat /\ Len(page) \in Nat BY <1>1, SizeOfPage, LenProperties DEF IInv, Typed
<1>7. Advance(page) = IF page = <<>> THEN Nowhere ELSE Last(page) BY DEF Advance
<1>8. Typed'
  <2>1. pc' \in {"called", "keys", "values", "ready", "over", "raised"} BY <1>2
  <2>2. Results' = Results BY DEF Results
  <2> QED BY <1>2, <2>1, <2>2 DEF IInv, Typed
<1>9. Asking' BY <1>2, <1>3 DEF Asking
<1>10. Ordered'
  <2>1. Rising(Records \o page)
    <3>1. ASSUME Records # <<>>, NEW n \in 1..Len(page) PROVE Before(Last(Records), page[n])
      <4>1. result.made
        <5> SUFFICES ASSUME ~result.made PROVE FALSE OBVIOUS
        <5>1. yielded = <<>> /\ result.buffer = <<>> BY DEF IInv, Asking, NoResult
        <5>2. Records = <<>> \o <<>> BY <5>1 DEF Records
        <5> QED BY <3>1, <5>2, EmptySeq, ConcatEmptySeq
      <4>2. start = Last(Records) BY <3>1, <4>1 DEF IInv, Asking, Ordered
      <4> QED BY <3>1, <4>1, <4>2 DEF Fits, Exhausts
    <3> QED BY <1>1, <1>4, <3>1, RisingOn DEF IInv, Ordered, Fits
  <2>2. ASSUME pc' # "over", Records' # <<>> PROVE result'.last = Last(Records')
    <3>1. page # <<>>
      <4> SUFFICES ASSUME page = <<>> PROVE FALSE OBVIOUS
      <4>1. ~result.made BY <1>2, <2>2
      <4>2. yielded = <<>> /\ result.buffer = <<>> BY <4>1 DEF IInv, Asking, NoResult
      <4>3. Records = <<>> \o <<>> BY <4>2 DEF Records
      <4>4. Records = <<>> BY <4>3, EmptySeq, ConcatEmptySeq
      <4>5. Records' = <<>> \o <<>> BY <1>2, <4>4
      <4> QED BY <2>2, <4>3, <4>4, <4>5
    <3> QED BY <1>1, <1>2, <1>4, <1>7, <3>1, LastOfConcat
  <2>3. Rising(Records)' <=> Rising(Records \o page) BY <1>2 DEF Rising
  <2> QED BY <2>1, <2>2, <2>3 DEF Ordered
<1>11. Covered'
  <2> SUFFICES ASSUME PageSize > 0, NEW k \in Due, k \notin Range(Records')
               PROVE  pc' # "over" /\ ~result'.complete /\ Before(result'.last, k)
    BY <1>3 DEF Covered
  <2>1. \/ page # <<>> /\ Len(page) >= PageSize /\ Before(Last(page), k)
        \/ page = <<>> /\ ~result.made
    BY <1>5 DEF Fits
  <2>2. k \in Key BY DEF IInv, Typed, Due, Wished, AllKeys
  <2> QED BY <1>2, <1>6, <1>7, <2>1, <2>2, Order
<1>12. Drawn'
  <2>1. ASSUME Pinned
        PROVE  /\ Range(Records') \subseteq Wished
               /\ pc' # "over" => \A k \in AllKeys(held, q.params) :
                                    Before(result'.last, k) => k \in Wished
    <3>1. Range(Records') \subseteq Wished BY <1>5, <2>1 DEF IInv, Drawn, Fits
    <3>2. CASE page = <<>> BY <1>2, <2>1, <3>1, <3>2 DEF Fits
    <3>3. CASE page # <<>>
      <4>1. Len(page) \in 1..Len(page) BY <1>1, <3>3, EmptySeq
      <4>2. page[Len(page)] \in Range(page) BY <1>1, <4>1, RangeEquality
      <4>3. Last(page) \in Wished BY <1>5, <3>1, <4>2 DEF Last
      <4>4. ASSUME NEW k \in AllKeys(held, q.params), Before(Last(page), k)
            PROVE  k \in Wished
        <5>1. k \in Place /\ Last(page) \in Place /\ q.start \in Place
          BY <4>3, Order, QueryMapAssumption DEF IInv, Typed, Wished, AllKeys, Place
        <5>2. Before(q.start, Last(page)) => Before(q.start, k) BY <4>4, <5>1, Order
        <5> QED BY <4>3, <5>2 DEF Wished
      <4> QED BY <1>2, <1>7, <3>1, <3>3, <4>4
    <3> QED BY <3>2, <3>3
  <2>2. PageSize = 0 /\ ~q.exhaust => Records' = <<>>
    BY <1>2, EmptySeq, ConcatEmptySeq DEF IInv, Drawn, Fits
  <2> QED BY <1>2, <1>3, <2>1, <2>2 DEF Drawn
<1>13. Carried' BY <1>2 DEF Carried
<1> QED BY <1>8, <1>9, <1>10, <1>11, <1>12, <1>13 DEF IInv

\* What the steps that hand out nothing leave alone.
LEMMA Stays ==
  ASSUME IInv, UNCHANGED <<q, map, held, result, yielded, stable>>,
         pc' \in {"keys", "values", "ready", "raised"},
         pc' = "ready" => result.made,
         pc = "over" => pc' = "over",
         start' \in Place, keys' \in Seq(Key),
         pc' \in {"keys", "values"} =>
           /\ result.buffer = <<>> /\ ~result.complete
           /\ start' = IF result.made THEN result.last ELSE q.start,
         Carried'
  PROVE  IInv'
<1>1. PageSize' = PageSize /\ Due' = Due /\ Wished' = Wished /\ Pinned' = Pinned BY Same
<1>2. Records' = Records /\ Results' = Results BY DEF Records, Results
<1>3. Typed' BY <1>2 DEF IInv, Typed
<1>4. Asking' BY <1>1 DEF IInv, Asking
<1>5. Ordered' BY <1>2 DEF IInv, Ordered, Rising
<1>6. Covered' BY <1>1, <1>2 DEF IInv, Covered
<1>7. Drawn' BY <1>1, <1>2 DEF IInv, Drawn
<1> QED BY <1>3, <1>4, <1>5, <1>6, <1>7 DEF IInv

LEMMA CallStep == ASSUME IInv, Call PROVE IInv'
<1>1. /\ UNCHANGED <<q, map, held, result, yielded, stable, keys>>
      /\ pc = "called"
      /\ \/ pc' = "raised" /\ start' = start
         \/ pc' = "keys" /\ start' = q.start
  BY DEF Call
<1>2. ~result.made /\ result.buffer = <<>> /\ ~result.complete
  BY <1>1 DEF IInv, Asking, NoResult
<1>3. start \in Place /\ q.start \in Place /\ keys \in Seq(Key)
  BY QueryMapAssumption DEF IInv, Typed, Place
<1>4. Carried' BY <1>1 DEF Carried
<1> QED BY <1>1, <1>2, <1>3, <1>4, Stays

LEMMA KeysArriveStep == ASSUME IInv, KeysArrive PROVE IInv'
<1> DEFINE found == IF Exhausts THEN Sorted(AllKeys(View, q.params))
                    ELSE PagedKeys(View, q.params, PageSize, start)
<1>1. /\ pc = "keys" /\ UNCHANGED <<q, map, held, start, stable>>
      /\ \/ found = <<>> /\ Deliver(<<>>) /\ keys' = keys
         \/ /\ found # <<>> /\ pc' = "values" /\ keys' = found
            /\ UNCHANGED <<result, yielded>>
         \/ pc' = "raised" /\ UNCHANGED <<keys, result, yielded>>
  BY DEF KeysArrive
<1>2. Fits(found) BY <1>1, FoundFits DEF IInv
<1> HIDE DEF found
<1>3. start \in Place /\ keys \in Seq(Key) /\ found \in Seq(Key)
  BY <1>2 DEF IInv, Typed, Fits
<1>4. CASE found = <<>> /\ Deliver(<<>>) /\ keys' = keys
  BY <1>1, <1>2, <1>3, <1>4, DeliverKeeps
<1>5. CASE found # <<>> /\ pc' = "values" /\ keys' = found /\ UNCHANGED <<result, yielded>>
  <2>1. PageSize' = PageSize /\ Due' = Due /\ Wished' = Wished /\ Pinned' = Pinned
        /\ Records' = Records /\ Exhausts' = Exhausts
    BY <1>1, <1>5, Same DEF Records, Exhausts
  <2>2. Carried' BY <1>1, <1>2, <1>5, <2>1 DEF Carried, Fits, Rising
  <2>3. /\ result.buffer = <<>> /\ ~result.complete
        /\ start = IF result.made THEN result.last ELSE q.start
    BY <1>1 DEF IInv, Asking
  <2> QED BY <1>1, <1>3, <1>5, <2>2, <2>3, Stays
<1>6. CASE pc' = "raised" /\ UNCHANGED <<keys, result, yielded>>
  <2>1. Carried' BY <1>6 DEF Carried
  <2> QED BY <1>1, <1>3, <1>6, <2>1, Stays
<1> QED BY <1>1, <1>4, <1>5, <1>6

LEMMA ValuesArriveStep == ASSUME IInv, ValuesArrive PROVE IInv'
<1>1. /\ pc = "values" /\ keys' = <<>> /\ UNCHANGED <<q, map, held, start, stable>>
      /\ Deliver(keys) \/ (pc' = "raised" /\ UNCHANGED <<result, yielded>>)
  BY DEF ValuesArrive
<1>2. Fits(keys) /\ start \in Place /\ keys' \in Seq(Key)
  BY <1>1, EmptySeq DEF IInv, Carried, Typed
<1>3. CASE Deliver(keys) BY <1>1, <1>2, <1>3, DeliverKeeps
<1>4. CASE pc' = "raised" /\ UNCHANGED <<result, yielded>>
  <2>1. Carried' BY <1>4 DEF Carried
  <2> QED BY <1>1, <1>2, <1>4, <2>1, Stays
<1> QED BY <1>1, <1>3, <1>4

LEMMA CallFailsStep == ASSUME IInv, CallFails PROVE IInv'
<1>1. /\ pc \in {"keys", "values"} /\ keys' = <<>>
      /\ pc' = IF result.made THEN "ready" ELSE "raised"
      /\ UNCHANGED <<q, map, held, start, result, yielded, stable>>
  BY DEF CallFails
<1>2. start \in Place /\ keys' \in Seq(Key) BY <1>1, EmptySeq DEF IInv, Typed
<1>3. Carried' BY <1>1 DEF Carried
<1> QED BY <1>1, <1>2, <1>3, Stays

LEMMA RefillStep == ASSUME IInv, Refill PROVE IInv'
<1>1. /\ pc = "ready" /\ result.buffer = <<>>
      /\ UNCHANGED <<q, map, held, keys, result, yielded, stable>>
      /\ \/ result.complete /\ pc' = "over" /\ start' = start
         \/ ~result.complete /\ pc' = "keys" /\ start' = result.last
  BY DEF Refill
<1>2. result.made /\ result \in Results /\ start \in Place /\ keys \in Seq(Key)
  BY <1>1 DEF IInv, Asking, Typed
<1>3. Carried' BY <1>1 DEF Carried
<1>4. CASE ~result.complete /\ pc' = "keys" /\ start' = result.last
  <2>1. result.last \in Place BY <1>2, ResultFields, Order
  <2> QED BY <1>1, <1>2, <1>3, <1>4, <2>1, Stays
<1>5. CASE result.complete /\ pc' = "over" /\ start' = start
  <2>1. PageSize' = PageSize /\ Due' = Due /\ Wished' = Wished /\ Pinned' = Pinned
        /\ Records' = Records /\ Results' = Results
    BY <1>1, Same DEF Records, Results
  <2>2. Typed' BY <1>1, <1>5, <2>1 DEF IInv, Typed
  <2>3. Asking' BY <1>1, <1>2, <1>5, <2>1 DEF IInv, Asking
  <2>4. Ordered' BY <1>1, <1>5, <2>1 DEF IInv, Ordered, Rising
  <2>5. Covered' BY <1>1, <1>2, <1>5, <2>1 DEF IInv, Covered
  <2>6. Drawn' BY <1>1, <1>5, <2>1 DEF IInv, Drawn
  <2> QED BY <1>3, <2>2, <2>3, <2>4, <2>5, <2>6 DEF IInv
<1> QED BY <1>1, <1>4, <1>5

LEMMA TakeStep == ASSUME IInv, Take PROVE IInv'
<1> DEFINE b == result.buffer
<1>1. /\ pc = "ready" /\ b # <<>> /\ UNCHANGED <<q, map, held, pc, start, keys, stable>>
      /\ yielded' = Append(yielded, Head(b)) /\ result' = [result EXCEPT !.buffer = Tail(b)]
  BY DEF Take
<1>2. yielded \in Seq(Key) /\ b \in Seq(Key) /\ result \in Results
  BY ResultFields DEF IInv, Typed
<1>3. Head(b) \in Key /\ Tail(b) \in Seq(Key) BY <1>1, <1>2, HeadTailProperties
<1>4. /\ result' \in Results /\ result'.buffer = Tail(b) /\ result'.made = result.made
      /\ result'.last = result.last /\ result'.complete = result.complete
      /\ result'.size = result.size
  BY <1>1, <1>2, <1>3, ResultFields
<1>5. yielded' \in Seq(Key) BY <1>1, <1>2, <1>3, AppendProperties
<1>6. Records' = Records
  <2>1. Len(b) \in Nat \ {0} BY <1>1, <1>2, EmptySeq
  <2>2. b = <<b[1]>> \o Tail(b)
    <3>1. Tail(b) = SubSeq(b, 1 + 1, Len(b)) BY <1>1, <1>2, TailIsSubSeq
    <3>2. SubSeq(b, 1, Len(b)) = <<b[1]>> \o SubSeq(b, 1 + 1, Len(b))
      BY <1>2, <2>1, SubSeqRecursiveFirst
    <3> QED BY <1>2, <3>1, <3>2, SubSeqFull
  <2>3. Head(b) = b[1] BY <1>2, <2>1
  <2>4. <<b[1]>> \in Seq(Key) BY <1>3, <2>3
  <2>5. yielded' = yielded \o <<b[1]>> BY <1>1, <1>2, <1>3, <2>3, AppendIsConcat
  <2>6. \A s, t, u \in Seq(Key) : (s \o t) \o u = s \o (t \o u) BY ConcatAssociative
  <2>7. (yielded \o <<b[1]>>) \o Tail(b) = yielded \o (<<b[1]>> \o Tail(b))
    BY <1>2, <1>3, <2>4, <2>6, Zenon
  <2> QED BY <1>4, <2>2, <2>5, <2>7 DEF Records
<1>7. PageSize' = PageSize /\ Due' = Due /\ Wished' = Wished /\ Pinned' = Pinned
      /\ Results' = Results
  BY <1>1, Same DEF Results
<1>8. Typed' BY <1>1, <1>4, <1>5, <1>7 DEF IInv, Typed
<1>9. Asking' BY <1>1, <1>4, <1>7 DEF IInv, Asking
<1>10. Ordered' BY <1>1, <1>4, <1>6 DEF IInv, Ordered, Rising
<1>11. Covered' BY <1>1, <1>4, <1>6, <1>7 DEF IInv, Covered
<1>12. Drawn' BY <1>1, <1>4, <1>6, <1>7 DEF IInv, Drawn
<1>13. Carried' BY <1>1 DEF Carried
<1> QED BY <1>8, <1>9, <1>10, <1>11, <1>12, <1>13 DEF IInv

\* What must still be seen can only become less.
LEMMA WriteStep == ASSUME IInv, Write PROVE IInv'
<1>1. /\ UNCHANGED <<q, held, pc, start, keys, result, yielded>>
      /\ map' \in SUBSET Key /\ stable' = stable \cap map'
  BY DEF Write, IInv, Typed
<1>2. /\ PageSize' = PageSize /\ Wished' = Wished /\ Pinned' = Pinned
      /\ Records' = Records /\ Results' = Results /\ Exhausts' = Exhausts
  <2>1. /\ PageSize' = PageSize /\ Pinned' = Pinned /\ Forgotten' = Forgotten
        /\ Records' = Records /\ Results' = Results /\ Exhausts' = Exhausts
    BY <1>1 DEF PageSize, Pinned, CurrentBlock, Forgotten, Records, Results, Exhausts
  <2> QED BY <1>1, <2>1 DEF Wished
<1>3. \A k : k \in Due' => k \in Due BY <1>1, <1>2 DEF Due, AllKeys
<1>4. Typed' BY <1>1, <1>2 DEF IInv, Typed
<1>5. Asking' BY <1>1, <1>2 DEF IInv, Asking
<1>6. Ordered' BY <1>1, <1>2 DEF IInv, Ordered, Rising
<1>7. Covered' BY <1>1, <1>2, <1>3 DEF IInv, Covered
<1>8. Drawn' BY <1>1, <1>2 DEF IInv, Drawn
<1>9. Carried'
  <2> SUFFICES ASSUME pc = "values" PROVE keys # <<>> /\ Fits(keys)'
    BY <1>1 DEF Carried
  <2>1. keys # <<>> /\ Fits(keys) BY DEF IInv, Carried
  <2> QED BY <1>1, <1>2, <1>3, <2>1 DEF Fits, Rising
<1> QED BY <1>4, <1>5, <1>6, <1>7, <1>8, <1>9 DEF IInv

LEMMA InitInv == Init => IInv
<1> SUFFICES ASSUME Init PROVE IInv OBVIOUS
<1>1. /\ q \in Query /\ map \in SUBSET Key /\ held = map /\ stable = map
      /\ pc = "called" /\ start = Nowhere /\ keys = <<>> /\ yielded = <<>>
      /\ result = NoResult
  BY DEF Init
<1>2. \A S : <<>> \in Seq(S) BY EmptySeq
<1>3. /\ result.made = FALSE /\ result.buffer = <<>> /\ ~result.complete
      /\ result \in Results
  BY <1>1, <1>2 DEF NoResult, Results
<1>4. Typed BY <1>1, <1>2, <1>3, Order DEF Typed
<1>5. Asking BY <1>1, <1>3 DEF Asking
<1>6. Records = <<>> BY <1>1, <1>2, <1>3, ConcatEmptySeq DEF Records
<1>7. Ordered BY <1>6, EmptySeq DEF Ordered, Rising
<1>8. Covered BY <1>3 DEF Covered
<1>9. Drawn
  <2>1. Range(Records) = {} BY <1>6 DEF Range
  <2> QED BY <1>3, <1>6, <2>1 DEF Drawn
<1>10. Carried BY <1>1 DEF Carried
<1> QED BY <1>4, <1>5, <1>7, <1>8, <1>9, <1>10 DEF IInv

LEMMA NextStep == IInv /\ [Next]_vars => IInv'
<1> SUFFICES ASSUME IInv, [Next]_vars PROVE IInv' OBVIOUS
<1>1. CASE Next
  BY <1>1, CallStep, KeysArriveStep, ValuesArriveStep, TakeStep, RefillStep,
     CallFailsStep, WriteStep DEF Next, Iterate
<1>2. CASE UNCHANGED vars
  <2>1. UNCHANGED <<q, map, held, pc, start, keys, result, yielded, stable>>
    BY <1>2 DEF vars
  <2>2. /\ PageSize' = PageSize /\ Due' = Due /\ Wished' = Wished /\ Pinned' = Pinned
        /\ Records' = Records /\ Results' = Results /\ Exhausts' = Exhausts
    BY <2>1, Same DEF Records, Results, Exhausts
  <2>3. Typed' /\ Asking' BY <2>1, <2>2 DEF IInv, Typed, Asking
  <2>4. Ordered' /\ Covered' /\ Drawn' BY <2>1, <2>2 DEF IInv, Ordered, Covered, Drawn, Rising
  <2>5. Carried' BY <2>1, <2>2 DEF IInv, Carried, Fits, Rising
  <2> QED BY <2>3, <2>4, <2>5 DEF IInv
<1> QED BY <1>1, <1>2

LEMMA Inductive == Spec => []IInv
BY InitInv, NextStep, PTL DEF Spec
-----------------------------------------------------------------------------
(***************************************************************************)
(* The properties.                                                         *)
(***************************************************************************)

\* What has been handed out is the beginning of the records.
LEMMA HandedOut ==
  ASSUME IInv
  PROVE  /\ yielded \in Seq(Key) /\ Records \in Seq(Key) /\ Len(yielded) <= Len(Records)
         /\ \A n \in 1..Len(yielded) : n \in 1..Len(Records) /\ yielded[n] = Records[n]
         /\ Rising(yielded)
         /\ pc = "over" => Records = yielded
<1>1. yielded \in Seq(Key) /\ result.buffer \in Seq(Key)
  BY ResultFields DEF IInv, Typed
<1>2. /\ Records \in Seq(Key) /\ Len(Records) = Len(yielded) + Len(result.buffer)
      /\ \A n \in 1..Len(yielded) + Len(result.buffer) :
           Records[n] = IF n <= Len(yielded) THEN yielded[n]
                        ELSE result.buffer[n - Len(yielded)]
  BY <1>1, ConcatProperties DEF Records
<1>3. Len(yielded) \in Nat /\ Len(result.buffer) \in Nat BY <1>1, LenProperties
<1>4. \A n \in 1..Len(yielded) : n \in 1..Len(Records) /\ yielded[n] = Records[n]
  BY <1>2, <1>3
<1>5. Rising(yielded) BY <1>4 DEF IInv, Ordered, Rising
<1>6. pc = "over" => Records = yielded
  BY <1>1, ConcatEmptySeq DEF IInv, Asking, Records
<1> QED BY <1>1, <1>2, <1>3, <1>4, <1>5, <1>6

\* The keys are handed out in their order, each once, though the map changes
\* between the pages (async_substrate.py:450-514).
THEOREM OrderIsKept == Spec => []Increasing
<1>1. IInv => Increasing
  <2> SUFFICES ASSUME IInv PROVE Increasing OBVIOUS
  <2>1. yielded \in Seq(Key) /\ Rising(yielded) BY HandedOut
  <2>2. DOMAIN yielded = 1..Len(yielded) BY <2>1, LenProperties
  <2> QED BY <2>1, <2>2 DEF Increasing, Rising
<1> QED BY <1>1, Inductive, PTL

\* Without max_results no key is missed that the map has from the first call to
\* the end (async_substrate.py:450-514, 3948-3969).
THEOREM NoneIsSkipped == Spec => []NothingSkipped
<1>1. IInv => NothingSkipped
  <2> SUFFICES ASSUME IInv, pc = "over", PageSize > 0,
                      NEW k \in AllKeys(stable, q.params),
                      q.exhaust \/ Before(q.start, k)
               PROVE  k \in Range(yielded)
    BY DEF NothingSkipped
  <2>1. k \in Due BY DEF IInv, Typed, Due, Wished, AllKeys
  <2>2. result.made BY DEF IInv, Asking
  <2> QED BY <2>1, <2>2, HandedOut DEF IInv, Covered
<1> QED BY <1>1, Inductive, PTL

\* Of a block, the iteration yields the beginning of what is asked for.
LEMMA PinnedExact ==
  ASSUME IInv, Pinned, PageSize > 0
  PROVE  IsPrefix(yielded, Sorted(Wished)) /\ (pc = "over" => yielded = Sorted(Wished))
<1>1. /\ yielded \in Seq(Key) /\ Records \in Seq(Key) /\ Len(yielded) <= Len(Records)
      /\ \A n \in 1..Len(yielded) : n \in 1..Len(Records) /\ yielded[n] = Records[n]
      /\ Rising(yielded) /\ (pc = "over" => Records = yielded)
  BY HandedOut
<1>2. Wished \in SUBSET Key /\ Due = Wished BY DEF IInv, Typed, Wished, Due, AllKeys
<1>3. Range(yielded) = {yielded[n] : n \in 1..Len(yielded)}
      /\ Range(Records) = {Records[n] : n \in 1..Len(Records)}
  BY <1>1, RangeEquality
<1>4. yielded \in Seq(Wished)
  <2>1. Range(yielded) \subseteq Wished BY <1>1, <1>3 DEF IInv, Drawn
  <2>2. yielded \in Seq(Range(yielded)) BY <1>1, SeqOfRange
  <2> QED BY <2>1, <2>2, SeqMonotonic
<1>5. ASSUME NEW k \in Wished, NEW n \in 1..Len(yielded), Before(k, yielded[n])
      PROVE  k \in Range(yielded)
  <2>1. /\ k \in Place /\ n \in 1..Len(Records) /\ Records[n] = yielded[n]
        /\ \A m \in 1..Len(Records) : Records[m] \in Place
    BY <1>1, <1>2, Order, ElementOfSeq
  <2>2. Len(Records) \in Nat /\ Len(yielded) \in Nat BY <1>1, LenProperties
  <2>3. Records # <<>> /\ Len(Records) \in 1..Len(Records) BY <1>1, <2>1, <2>2, EmptySeq
  <2>4. result.made
    <3> SUFFICES ASSUME ~result.made PROVE FALSE OBVIOUS
    <3>1. yielded = <<>> BY DEF IInv, Asking
    <3> QED BY <3>1, <2>2, EmptySeq
  <2>5. k \in Range(Records)
    <3> SUFFICES ASSUME pc # "over", Before(result.last, k) PROVE FALSE
      BY <1>2, <2>4 DEF IInv, Covered
    <3>1. result.last = Records[Len(Records)] BY <2>3 DEF IInv, Ordered, Last
    <3>2. n = Len(Records) \/ Before(Records[n], Records[Len(Records)])
      BY <2>1, <2>2, <2>3 DEF IInv, Ordered, Rising
    <3>3. Before(k, Records[Len(Records)])
      BY <1>5, <2>1, <2>3, <3>2, Order
    <3>4. Before(k, k) BY <2>1, <2>3, <3>1, <3>3, Order
    <3> QED BY <2>1, <3>4, Order
  <2>6. PICK m \in 1..Len(Records) : Records[m] = k BY <1>3, <2>5
  <2>7. m < n
    <3> SUFFICES ASSUME ~(m < n) PROVE FALSE OBVIOUS
    <3>1. m = n \/ Before(Records[n], Records[m]) BY <2>1, <2>6 DEF IInv, Ordered, Rising
    <3>2. Before(k, k) BY <1>5, <2>1, <2>6, <3>1, Order
    <3> QED BY <2>1, <3>2, Order
  <2>8. m \in 1..Len(yielded) BY <2>2, <2>6, <2>7
  <2> QED BY <1>1, <1>3, <2>6, <2>8
<1>6. pc = "over" => Wished \subseteq Range(yielded)
  <2>1. pc = "over" => result.made BY DEF IInv, Asking
  <2> QED BY <1>1, <1>2, <2>1 DEF IInv, Covered
<1> QED BY <1>1, <1>2, <1>4, <1>5, <1>6, Beginning

\* At a given block nothing but the keys after the offset, in their order, and
\* without max_results all of them (async_substrate.py:450-514, 3905-4050).
THEOREM PinnedStaysExact == Spec => []PinnedIsExact
<1>1. IInv => PinnedIsExact
  <2> SUFFICES ASSUME IInv, Pinned, ~Forgotten, PageSize > 0
               PROVE  IsPrefix(yielded, Wanted) /\ (pc = "over" => yielded = Wanted)
    BY DEF PinnedIsExact
  <2>1. Wanted = Sorted(Wished) BY DEF Wanted, Wished
  <2> QED BY <2>1, PinnedExact
<1> QED BY <1>1, Inductive, PTL
-----------------------------------------------------------------------------
(***************************************************************************)
(* The synchronous iteration, page by page.                                *)
(***************************************************************************)
Pages == [records : Seq(Key), size : Nat, last : Key \cup {Nowhere}]
Runs == [res : Pages, out : Seq(Key), over : BOOLEAN]

SyncStep(r) ==
  LET next == SyncRetrieveNextPage(held, r.res)
  IN IF r.over THEN r
     ELSE [res |-> next, out |-> r.out \o next.records,
           over |-> next.records = <<>> \/ Len(next.records) < next.size]

SyncFirst == SyncQueryMap(held, q.start)
SyncBase == [res |-> SyncFirst, out |-> SyncFirst.records, over |-> FALSE]

LEMMA SyncPage ==
  ASSUME Typed, NEW from
  PROVE  LET r == SyncQueryMap(held, from)
             after == {k \in AllKeys(held, q.params) : Before(from, k)}
         IN /\ r \in Pages /\ r.size = PageSize /\ r.last = Advance(r.records)
            /\ r.records \in Seq(after) /\ r.records \in Seq(Key) /\ Rising(r.records)
            /\ Len(r.records) <= PageSize
            /\ \A k \in after :
                 \/ k \in Range(r.records)
                 \/ /\ Len(r.records) = PageSize
                    /\ r.records # <<>> => Before(Last(r.records), k)
<1> DEFINE page == PagedKeys(held, q.params, PageSize, from)
           after == {k \in AllKeys(held, q.params) : Before(from, k)}
<1>1. PageSize \in Nat /\ held \in SUBSET Key BY SizeOfPage DEF Typed
<1>2. /\ page \in Seq(after) /\ Rising(page) /\ Len(page) <= PageSize
      /\ \A k \in after :
           \/ k \in Range(page)
           \/ Len(page) = PageSize /\ (page # <<>> => Before(Last(page), k))
  BY <1>1, Paged
<1>3. after \in SUBSET Key BY <1>1 DEF AllKeys
<1>4. page \in Seq(Key) BY <1>2, <1>3, SeqMonotonic
<1>5. Advance(page) \in Key \cup {Nowhere}
  <2>1. CASE page = <<>> BY <2>1 DEF Advance
  <2>2. CASE page # <<>>
    <3>1. Len(page) \in 1..Len(page) BY <1>4, <2>2, EmptySeq
    <3> QED BY <1>4, <2>2, <3>1, ElementOfSeq DEF Advance, Last
  <2> QED BY <2>1, <2>2
<1>6. SyncQueryMap(held, from) = [records |-> page, size |-> PageSize, last |-> Advance(page)]
  BY DEF SyncQueryMap
<1> HIDE DEF page, after
<1> DEFINE r == SyncQueryMap(held, from)
<1>7. /\ r.records = page /\ r.size = PageSize /\ r.last = Advance(page) /\ r \in Pages
  BY <1>1, <1>4, <1>5, <1>6 DEF Pages
<1> QED BY <1>2, <1>4, <1>7 DEF after

LEMMA SyncRunTypes ==
  ASSUME Typed
  PROVE  SyncBase \in Runs /\ \A r \in Runs : SyncStep(r) \in Runs
<1>1. SyncFirst \in Pages /\ SyncFirst.records \in Seq(Key)
  BY SyncPage DEF SyncFirst
<1>2. ASSUME NEW r \in Runs PROVE SyncStep(r) \in Runs
  <2> DEFINE next == SyncRetrieveNextPage(held, r.res)
  <2>1. next \in Pages /\ next.records \in Seq(Key)
    BY SyncPage DEF SyncRetrieveNextPage
  <2>2. r.out \in Seq(Key) BY DEF Runs
  <2> HIDE DEF next
  <2>3. r.out \o next.records \in Seq(Key) BY <2>1, <2>2, ConcatProperties
  <2>4. SyncStep(r) = IF r.over THEN r
                      ELSE [res |-> next, out |-> r.out \o next.records,
                            over |-> next.records = <<>> \/ Len(next.records) < next.size]
    BY DEF SyncStep, next
  <2> QED BY <2>1, <2>3, <2>4 DEF Runs
<1> QED BY <1>1, <1>2 DEF SyncBase, Runs

LEMMA SyncIterates ==
  ASSUME Typed
  PROVE  /\ SyncIterate(held) \in [Nat -> Runs] /\ SyncIterate(held)[0] = SyncBase
         /\ \A n \in Nat : SyncIterate(held)[n + 1] = SyncStep(SyncIterate(held)[n])
<1> DEFINE body(f, n) == IF n = 0 THEN SyncBase ELSE SyncStep(f[n - 1])
           P(f) == f = [n \in Nat |-> body(f, n)]
<1>1. PICK step \in [Runs -> Runs] : \A r \in Runs : step[r] = SyncStep(r)
  <2>1. [r \in Runs |-> SyncStep(r)] \in [Runs -> Runs] BY SyncRunTypes
  <2> QED BY <2>1
<1>2. PICK f : /\ f \in [Nat -> Runs] /\ f[0] = SyncBase
               /\ \A n \in Nat : f[n + 1] = step[f[n]]
  <2>1. PICK f : Iterates(f, Runs, step, SyncBase) BY SyncRunTypes, Iteration
  <2> QED BY <2>1 DEF Iterates
<1>3. P(f)
  <2>1. ASSUME NEW n \in Nat PROVE f[n] = body(f, n)
    <3>1. CASE n = 0 BY <1>2, <3>1
    <3>2. CASE n # 0
      <4>1. n - 1 \in Nat /\ (n - 1) + 1 = n BY <3>2
      <4>2. f[n] = step[f[n - 1]] /\ f[n - 1] \in Runs BY <1>2, <4>1
      <4> QED BY <1>1, <3>2, <4>2
    <3> QED BY <3>1, <3>2
  <2> QED BY <1>2, <2>1
<1>4. SyncIterate(held) = CHOOSE g : P(g)
  BY DEF SyncIterate, SyncBase, SyncFirst, SyncStep
<1>5. P(SyncIterate(held)) BY <1>3, <1>4
<1> DEFINE g == SyncIterate(held)
<1>6. ASSUME NEW h, P(h)
      PROVE  /\ h \in [Nat -> Runs] /\ h[0] = SyncBase
             /\ \A n \in Nat : h[n + 1] = SyncStep(h[n])
  <2>1. h[0] = SyncBase /\ \A n \in Nat : h[n + 1] = SyncStep(h[n])
    <3>1. \A n \in Nat : h[n] = body(h, n) BY <1>6
    <3>2. \A n \in Nat : n + 1 \in Nat /\ n + 1 # 0 /\ (n + 1) - 1 = n OBVIOUS
    <3> QED BY <3>1, <3>2
  <2> DEFINE S == {n \in Nat : h[n] \in Runs}
  <2>2. 0 \in S /\ \A n \in Nat : n \in S => n + 1 \in S BY <2>1, SyncRunTypes
  <2>3. \A n \in Nat : n \in S
    <3> HIDE DEF S
    <3> QED BY <2>2, NatSet
  <2>4. h = [n \in Nat |-> h[n]] BY <1>6
  <2> QED BY <2>1, <2>3, <2>4
<1> HIDE DEF P
<1> QED BY <1>5, <1>6

\* The records after n more pages: the beginning of what is asked for, one at
\* least a page, all of it once the iteration is over.
SyncSound(r, n) ==
  /\ r \in Runs /\ Rising(r.out) /\ Range(r.out) \subseteq Wished
  /\ r.over => Wished \subseteq Range(r.out)
  /\ ~r.over =>
       /\ r.out = <<>> => n = 0
       /\ r.out # <<>> => r.res.last = Last(r.out)
       /\ \A k \in AllKeys(held, q.params) : Before(r.res.last, k) => k \in Wished
       /\ \A k \in Wished : k \in Range(r.out) \/ Before(r.res.last, k)
       /\ Len(r.out) >= n

LEMMA SyncBegins ==
  ASSUME Typed, Pinned, ~q.exhaust, PageSize > 0
  PROVE  SyncSound(SyncBase, 0)
<1> DEFINE r == SyncFirst  page == r.records
           after == {k \in AllKeys(held, q.params) : Before(q.start, k)}
<1>1. /\ r \in Pages /\ r.size = PageSize /\ r.last = Advance(page)
      /\ page \in Seq(after) /\ page \in Seq(Key) /\ Rising(page)
      /\ \A k \in after :
           \/ k \in Range(page)
           \/ Len(page) = PageSize /\ (page # <<>> => Before(Last(page), k))
  BY SyncPage DEF SyncFirst
<1>2. PageSize \in Nat /\ Len(page) \in Nat
  BY <1>1, SizeOfPage, LenProperties DEF Typed
<1>3. page = PagedKeys(held, q.params, PageSize, q.start)
  BY DEF SyncFirst, SyncQueryMap
<1>4. Forgotten <=> q.start # Nowhere /\ page = <<>> BY <1>3 DEF Forgotten
<1> HIDE DEF r, page
<1>5. \A k \in AllKeys(held, q.params) : k \in Key /\ k \in Place
  BY Order DEF Typed, AllKeys
<1>6. after \subseteq Wished BY DEF Wished
<1>7. CASE page = <<>>
  <2>1. r.last = Nowhere /\ Range(page) = {} BY <1>1, <1>7 DEF Advance, Range
  <2>2. \A k \in AllKeys(held, q.params) : k \in Wished /\ Before(Nowhere, k)
    BY <1>4, <1>5, <1>7, Order DEF Wished
  <2>3. \A k \in Wished : Before(Nowhere, k) BY <1>5, Order DEF Wished
  <2> QED BY <1>1, <1>2, <1>7, <2>1, <2>2, <2>3, SyncRunTypes DEF SyncSound, SyncBase, r, page
<1>8. CASE page # <<>>
  <2>1. r.last = Last(page) BY <1>1, <1>8 DEF Advance
  <2>2. Wished = after BY <1>4, <1>8 DEF Wished
  <2>3. Range(page) \subseteq Wished BY <1>1, <1>6, RangeOfSeq
  <2>4. Last(page) \in after
    <3>1. Len(page) \in 1..Len(page) BY <1>1, <1>8, EmptySeq
    <3> QED BY <1>1, <3>1, ElementOfSeq DEF Last
  <2>5. \A k \in AllKeys(held, q.params) : Before(Last(page), k) => k \in Wished
    <3>1. q.start \in Place BY QueryMapAssumption DEF Typed, Place
    <3> QED BY <1>5, <2>2, <2>4, <3>1, Order
  <2>6. \A k \in Wished : k \in Range(page) \/ Before(Last(page), k) BY <1>1, <1>8, <2>2
  <2> HIDE DEF after
  <2> QED BY <1>1, <1>2, <1>8, <2>1, <2>3, <2>5, <2>6, SyncRunTypes
          DEF SyncSound, SyncBase, r, page
<1> QED BY <1>7, <1>8

LEMMA SyncGoesOn ==
  ASSUME Typed, Pinned, ~q.exhaust, PageSize > 0, NEW n \in Nat, NEW r, SyncSound(r, n)
  PROVE  SyncSound(SyncStep(r), n + 1)
<1>1. CASE r.over BY <1>1 DEF SyncSound, SyncStep
<1>2. CASE ~r.over
  <2> DEFINE next == SyncRetrieveNextPage(held, r.res)  page == next.records
             s == SyncStep(r)  all == r.out \o page
             after == {k \in AllKeys(held, q.params) : Before(r.res.last, k)}
  <2>1. /\ next \in Pages /\ next.size = PageSize /\ next.last = Advance(page)
        /\ page \in Seq(after) /\ page \in Seq(Key) /\ Rising(page)
        /\ Len(page) <= PageSize
        /\ \A k \in after :
             \/ k \in Range(page)
             \/ Len(page) = PageSize /\ (page # <<>> => Before(Last(page), k))
    BY SyncPage DEF SyncRetrieveNextPage
  <2>2. r.out \in Seq(Key) /\ Len(r.out) \in Nat BY LenProperties DEF SyncSound, Runs
  <2>3. PageSize \in Nat /\ Len(page) \in Nat
    BY <2>1, SizeOfPage, LenProperties DEF Typed
  <2>4. s = [res |-> next, out |-> all,
             over |-> page = <<>> \/ Len(page) < next.size]
    BY <1>2 DEF SyncStep
  <2>5. s \in Runs BY SyncRunTypes DEF SyncSound
  <2>6. \A k \in AllKeys(held, q.params) : k \in Key /\ k \in Place
    BY Order DEF Typed, AllKeys
  <2> HIDE DEF next, page, s
  <2>7. s.res = next /\ s.out = all /\ (s.over <=> page = <<>> \/ Len(page) < PageSize)
    BY <2>1, <2>4
  <2>8. \A m \in 1..Len(page) : page[m] \in after BY <2>1, ElementOfSeq
  <2>9. Rising(all)
    <3>1. r.out # <<>> => \A m \in 1..Len(page) : Before(Last(r.out), page[m])
      BY <1>2, <2>8 DEF SyncSound
    <3> QED BY <2>1, <2>2, <3>1, RisingOn DEF SyncSound
  <2>10. after \subseteq Wished /\ Range(page) \subseteq after
    BY <1>2, <2>1, RangeOfSeq DEF SyncSound
  <2>11. Range(all) = Range(r.out) \cup Range(page) BY <2>1, <2>2, RangeConcatenation
  <2>12. Len(all) = Len(r.out) + Len(page) BY <2>1, <2>2, ConcatProperties
  <2>13. \A k \in Wished :
           \/ k \in Range(all)
           \/ Len(page) = PageSize /\ (page # <<>> => Before(Last(page), k))
    <3> SUFFICES ASSUME NEW k \in Wished, k \notin Range(all)
                 PROVE  Len(page) = PageSize /\ (page # <<>> => Before(Last(page), k))
      OBVIOUS
    <3>1. Before(r.res.last, k) BY <1>2, <2>11 DEF SyncSound
    <3>2. k \in after BY <3>1 DEF Wished
    <3> QED BY <2>1, <2>11, <3>2
  <2>14. Range(all) \subseteq Wished BY <2>10, <2>11 DEF SyncSound
  <2>15. s.over => Wished \subseteq Range(all)
    <3> SUFFICES ASSUME s.over, NEW k \in Wished, k \notin Range(all) PROVE FALSE OBVIOUS
    <3>1. Len(page) = PageSize BY <2>13
    <3>2. page = <<>> BY <2>3, <2>7, <3>1
    <3> QED BY <3>1, <3>2, EmptySeq
  <2>16. ASSUME ~s.over
         PROVE  /\ all # <<>> /\ next.last = Last(all) /\ Len(all) >= n + 1
                /\ \A k \in AllKeys(held, q.params) : Before(next.last, k) => k \in Wished
                /\ \A k \in Wished : k \in Range(all) \/ Before(next.last, k)
    <3>1. page # <<>> /\ Len(page) \in 1..Len(page) /\ Len(page) = PageSize
      BY <2>1, <2>3, <2>7, <2>16, EmptySeq
    <3>2. Len(all) >= n + 1 BY <1>2, <2>2, <2>3, <2>12, <3>1 DEF SyncSound
    <3>3. all # <<>> BY <3>2, EmptySeq
    <3>4. next.last = Last(page) /\ Last(page) = Last(all)
      BY <2>1, <2>2, <3>1, LastOfConcat DEF Advance
    <3>5. Last(page) \in after BY <2>8, <3>1 DEF Last
    <3>6. ASSUME NEW k \in AllKeys(held, q.params), Before(Last(page), k) PROVE k \in Wished
      <4>1. r.res.last \in Place
        <5>1. r.res.last \in Key \cup {Nowhere} BY DEF SyncSound, Runs, Pages
        <5> QED BY <5>1, Order
      <4>2. Before(r.res.last, k) BY <2>6, <3>5, <3>6, <4>1, Order
      <4> QED BY <1>2, <3>6, <4>2 DEF SyncSound
    <3> QED BY <2>13, <3>1, <3>2, <3>3, <3>4, <3>6
  <2> HIDE DEF all, after
  <2> QED BY <2>5, <2>7, <2>9, <2>14, <2>15, <2>16 DEF SyncSound, s
<1> QED BY <1>1, <1>2

\* Every page has a record, so that the records are as many as the keys at most.
LEMMA SyncExact ==
  ASSUME Typed, Pinned, ~q.exhaust, PageSize > 0
  PROVE  SyncAllRecords(held) = Sorted(Wished)
<1> DEFINE S == {n \in Nat : SyncSound(SyncIterate(held)[n], n)}
           N == Cardinality(held)
           r == SyncIterate(held)[N + 1]
<1>1. 0 \in S /\ \A n \in Nat : n \in S => n + 1 \in S
  BY SyncIterates, SyncBegins, SyncGoesOn
<1>2. \A n \in Nat : n \in S
  <2> HIDE DEF S
  <2> QED BY <1>1, NatSet
<1>3. held \in SUBSET Key /\ IsFiniteSet(held) /\ N \in Nat BY KeysFinite DEF Typed
<1>4. SyncSound(r, N + 1) BY <1>2, <1>3
<1> HIDE DEF r
<1>5. r.out \in Seq(Key) /\ Len(r.out) \in Nat /\ Rising(r.out)
  BY <1>4, LenProperties DEF SyncSound, Runs
<1>6. Wished \in SUBSET Key /\ Wished \subseteq held BY <1>3 DEF Wished, AllKeys
<1>7. r.out \in Seq(Wished)
  <2>1. r.out \in Seq(Range(r.out)) BY <1>5, SeqOfRange
  <2> QED BY <1>4, <2>1, SeqMonotonic DEF SyncSound
<1>8. Len(r.out) <= N
  <2>1. \A m, n \in 1..Len(r.out) : r.out[m] = r.out[n] => m = n
    <3>1. \A m \in 1..Len(r.out) : r.out[m] \in Place BY <1>5, Order, ElementOfSeq
    <3>2. \A m, n \in 1..Len(r.out) : m < n => r.out[m] # r.out[n]
      BY <1>5, <3>1, Order DEF Rising
    <3> QED BY <1>5, <3>2
  <2>2. r.out \in [1..Len(r.out) -> held] BY <1>6, <1>7, LenProperties
  <2>3. r.out \in Injection(1..Len(r.out), held)
    BY <2>1, <2>2 DEF Injection, IsInjective
  <2>4. Cardinality(1..Len(r.out)) = Len(r.out) BY <1>5, FS_Interval
  <2> QED BY <1>3, <2>3, <2>4, FS_Injection
<1>9. r.over BY <1>3, <1>4, <1>5, <1>8 DEF SyncSound
<1>10. Wished \subseteq Range(r.out) BY <1>4, <1>9 DEF SyncSound
<1>11. r.out = Sorted(Wished) BY <1>5, <1>6, <1>7, <1>10, Beginning
<1> QED BY <1>11 DEF SyncAllRecords, r

\* Pages without a record give none.
LEMMA SyncNothing ==
  ASSUME Typed, PageSize = 0
  PROVE  SyncAllRecords(held) = <<>>
<1> DEFINE S == {n \in Nat : SyncIterate(held)[n].out = <<>> /\ SyncIterate(held)[n] \in Runs}
<1>1. \A from : SyncQueryMap(held, from).records = <<>>
  <2> SUFFICES ASSUME NEW from PROVE SyncQueryMap(held, from).records = <<>> OBVIOUS
  <2> DEFINE page == SyncQueryMap(held, from).records
  <2>1. page \in Seq(Key) /\ Len(page) <= 0 BY SyncPage
  <2> HIDE DEF page
  <2>2. page = <<>> BY <2>1, EmptySeq
  <2> QED BY <2>2 DEF page
<1>2. 0 \in S BY <1>1, SyncIterates, SyncRunTypes DEF SyncBase, SyncFirst
<1>3. ASSUME NEW n \in Nat, n \in S PROVE n + 1 \in S
  <2> DEFINE r == SyncIterate(held)[n]
  <2>1. r \in Runs /\ r.out = <<>> BY <1>3
  <2>2. SyncIterate(held)[n + 1] = SyncStep(r) BY SyncIterates
  <2> HIDE DEF r
  <2>3. SyncStep(r) \in Runs BY <2>1, SyncRunTypes
  <2>4. SyncRetrieveNextPage(held, r.res).records = <<>> BY <1>1 DEF SyncRetrieveNextPage
  <2>5. <<>> \o <<>> = <<>>
    <3>1. <<>> \in Seq(Key) BY EmptySeq
    <3> QED BY <3>1, ConcatEmptySeq
  <2>6. SyncStep(r).out = <<>> BY <2>1, <2>4, <2>5 DEF SyncStep
  <2> QED BY <2>2, <2>3, <2>6
<1>4. \A n \in Nat : n \in S
  <2> HIDE DEF S
  <2> QED BY <1>2, <1>3, NatSet
<1>5. Cardinality(held) + 1 \in Nat
  <2>1. Cardinality(held) \in Nat BY KeysFinite DEF Typed
  <2> QED BY <2>1
<1> QED BY <1>4, <1>5 DEF SyncAllRecords

\* The asynchronous iteration over a block yields what the synchronous one does
\* (sync_substrate.py:402-464, 2893-3026).
THEOREM IterationsAgree == Spec => []AgreesWithSync
<1>1. IInv => AgreesWithSync
  <2> SUFFICES ASSUME IInv, Pinned, ~q.exhaust, pc = "over"
               PROVE  yielded = SyncAllRecords(held)
    BY DEF AgreesWithSync
  <2>1. PageSize \in Nat BY SizeOfPage DEF IInv, Typed
  <2>2. CASE PageSize = 0
    <3>1. yielded = <<>> BY <2>2, HandedOut DEF IInv, Drawn
    <3> QED BY <2>2, <3>1, SyncNothing DEF IInv
  <2>3. CASE PageSize > 0 BY <2>3, PinnedExact, SyncExact DEF IInv
  <2> QED BY <2>1, <2>2, <2>3
<1> QED BY <1>1, Inductive, PTL
=============================================================================
