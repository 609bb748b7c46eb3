---------------------------- MODULE ReceiptProof ----------------------------
(***************************************************************************)
(* The theorems about a receipt: for any block, events, tasks that read    *)
(* it, number of reads and node calls that fail.                           *)
(***************************************************************************)
EXTENDS Receipt, Induction, SequenceTheorems, TLAPS

Rec == [async : BOOLEAN, hashed : BOOLEAN, numbered : BOOLEAN,
        idx : Nat \cup {-1}, events : SUBSET Reader,
        success : {"none", "yes", "no"},
        message : {"none", "MevShield", "System", "block", "other"},
        weight : {"none", "success", "failure"}, fee : Nat \cup {-1}]
Loc == [of : Reader, pos : Nat \cup {-1}, possible : BOOLEAN, paid : BOOLEAN,
        last : BOOLEAN]
State == [rec : Rec, loc : Loc]
Name == {"block", "other"}

\* What process_events leaves alone.
SameRec(r, s) ==
  /\ r.async = s.async /\ r.hashed = s.hashed /\ r.numbered = s.numbered
  /\ r.idx = s.idx /\ r.events = s.events
SameLoc(r, s) ==
  r.of = s.of /\ r.pos = s.pos /\ r.paid = s.paid /\ r.last = s.last

(***************************************************************************)
(* One event.                                                              *)
(***************************************************************************)

LEMMA FailsShape ==
  ASSUME NEW s \in State, NEW e \in Event
  PROVE  LET r == Fails(s, e)
         IN /\ r \in State /\ SameRec(r.rec, s.rec) /\ SameLoc(r.loc, s.loc)
            /\ r.rec.success = "no" /\ ~r.loc.possible
            /\ r.rec.message = s.rec.message /\ r.rec.fee = s.rec.fee
<1>1. PICK a \in Rec, b \in Loc : s = [rec |-> a, loc |-> b] BY DEF State
<1>0. PICK no : no = FALSE OBVIOUS
<1> DEFINE b2 == [b EXCEPT !.possible = no]
           a2 == [a EXCEPT !.success = "no"]
           w == FailureWeight(e, a2.weight)
           a3 == [a2 EXCEPT !.weight = w]
           s1 == [s EXCEPT !.loc.possible = no]
           s2 == [s1 EXCEPT !.rec.success = "no"]
           s3 == [s2 EXCEPT !.rec.weight = FailureWeight(e, @)]
<1>2. b2 \in Loc /\ SameLoc(b2, b) /\ b2.possible = FALSE BY <1>0 DEF Loc, SameLoc
<1>3. a2 \in Rec /\ SameRec(a2, a) /\ a2.success = "no" /\ a2.message = a.message
      /\ a2.weight = a.weight /\ a2.fee = a.fee
  BY DEF Rec, SameRec
<1>4. w \in {"none", "success", "failure"} BY <1>3 DEF FailureWeight, Rec
<1>5. a3 \in Rec /\ SameRec(a3, a2) /\ a3.success = "no" /\ a3.message = a.message
      /\ a3.fee = a.fee
  <2> HIDE DEF a2, w
  <2> QED BY <1>3, <1>4 DEF Rec, SameRec
<1>6. s1 = [rec |-> a, loc |-> b2] BY <1>1
<1>7. s2 = [rec |-> a2, loc |-> b2]
  <2> HIDE DEF s1, b2
  <2> QED BY <1>6
<1>8. s3 = [rec |-> a3, loc |-> b2]
  <2> HIDE DEF s2, b2, a2
  <2> QED BY <1>7
<1>9. Fails(s, e) = s3 BY <1>0 DEF Fails
<1> HIDE DEF s3, b2, a3, a2
<1> QED BY <1>1, <1>2, <1>3, <1>5, <1>8, <1>9 DEF State, SameRec

LEMMA MessageType ==
  ASSUME NEW e \in Event, NEW m
  PROVE  /\ FailureMessage(e, m) \in {m, "none", "MevShield", "System"}
         /\ FailureMessage(e, "none") # "none" => FailureMessage(e, m) # "none"
         /\ FailureMessage(e, "block") # "none" /\ m # "none"
              => FailureMessage(e, m) # "none"
BY DEF FailureMessage, SystemMessage

\* The record with another message.
MessageTo(r, s, m) ==
  /\ r \in State /\ SameRec(r.rec, s.rec) /\ r.loc = s.loc
  /\ r.rec.message = m /\ r.rec.success = s.rec.success
  /\ r.rec.fee = s.rec.fee

LEMMA MessageSet ==
  ASSUME NEW s \in State, NEW m \in {"none", "MevShield", "System", "block", "other"}
  PROVE  MessageTo([s EXCEPT !.rec.message = m], s, m)
<1>1. PICK a \in Rec, b \in Loc : s = [rec |-> a, loc |-> b] BY DEF State
<1> DEFINE c == [a EXCEPT !.message = m]
<1>2. c \in Rec /\ SameRec(c, a) /\ c.message = m /\ c.success = a.success
      /\ c.fee = a.fee
  BY DEF Rec, SameRec
<1>3. [s EXCEPT !.rec.message = m] = [rec |-> c, loc |-> b] BY <1>1
<1> HIDE DEF c
<1>4. MessageTo([rec |-> c, loc |-> b], s, m) BY <1>1, <1>2 DEF MessageTo, State
<1> QED BY <1>3, <1>4

\* What the handling of one event does to the verdict, the message and the fee.
Handled(r, s, e) ==
  /\ r \in State /\ SameRec(r.rec, s.rec) /\ SameLoc(r.loc, s.loc)
  /\ r.rec.success = IF IsFailure(e) THEN "no" ELSE s.rec.success
  /\ r.loc.possible <=> IsSuccess(e) \/ (s.loc.possible /\ ~IsFailure(e))
  /\ HasMessage(e) => r.rec.message # "none"
  /\ ~IsFailure(e) => r.rec.message = s.rec.message
  /\ ~LosesMessage(e) /\ s.rec.message # "none" => r.rec.message # "none"
  /\ r.rec.fee = IF s.loc.paid THEN s.rec.fee ELSE s.rec.fee + Deposited(e)

LEMMA HandleShape ==
  ASSUME NEW s \in State, NEW e \in Event, NEW name \in Name
  PROVE  Handled(Handle(s, e, name), s, e)
<1>0. s.rec \in Rec /\ s.loc \in Loc /\ s = [rec |-> s.rec, loc |-> s.loc]
      /\ s.rec.fee \in Int /\ s.loc.possible \in BOOLEAN
  BY DEF State, Rec, Loc
<1>1. CASE IsModuleError(e)
  <2>1. IsFailure(e) /\ ~IsSuccess(e) /\ HasMessage(e) /\ Deposited(e) = 0
    BY <1>1 DEF IsModuleError, IsFailure, IsSuccess, HasMessage, Deposited
  <2>2. PICK f : f = Fails(s, e) OBVIOUS
  <2>3. Handle(s, e, name) = [f EXCEPT !.rec.message = name]
    BY <1>1, <2>2 DEF Handle
  <2>4. /\ f \in State /\ SameRec(f.rec, s.rec) /\ SameLoc(f.loc, s.loc)
        /\ f.rec.success = "no" /\ ~f.loc.possible /\ f.rec.fee = s.rec.fee
    BY <2>2, FailsShape
  <2>5. name \in {"none", "MevShield", "System", "block", "other"} /\ name # "none"
    BY DEF Name
  <2>6. PICK r : r = [f EXCEPT !.rec.message = name] OBVIOUS
  <2>7. /\ r \in State /\ SameRec(r.rec, f.rec) /\ r.loc = f.loc
        /\ r.rec.message = name /\ r.rec.success = "no" /\ r.rec.fee = s.rec.fee
    <3>1. MessageTo(r, f, name) BY <2>4, <2>5, <2>6, MessageSet
    <3> QED BY <2>4, <3>1 DEF MessageTo
  <2>8. SameRec(r.rec, s.rec) BY <2>4, <2>7 DEF SameRec
  <2>9. r.rec.fee = s.rec.fee + Deposited(e) BY <1>0, <2>1, <2>7
  <2> QED BY <2>1, <2>3, <2>4, <2>5, <2>6, <2>7, <2>8, <2>9 DEF Handled
<1>2. CASE ~IsModuleError(e) /\ IsFailure(e)
  <2>1. ~IsSuccess(e) /\ Deposited(e) = 0 BY <1>2 DEF IsFailure, IsSuccess, Deposited
  <2>2. PICK f : f = Fails(s, e) OBVIOUS
  <2>3. PICK m : m = FailureMessage(e, s.rec.message) OBVIOUS
  <2>4. /\ f \in State /\ SameRec(f.rec, s.rec) /\ SameLoc(f.loc, s.loc)
        /\ f.rec.success = "no" /\ ~f.loc.possible /\ f.rec.fee = s.rec.fee
        /\ f.rec.message = s.rec.message
    BY <2>2, FailsShape
  <2>5. Handle(s, e, name) = [f EXCEPT !.rec.message = m]
    BY <1>2, <2>1, <2>2, <2>3, <2>4 DEF Handle, HandleEvent
  <2>6. /\ m \in {"none", "MevShield", "System", "block", "other"}
        /\ HasMessage(e) => m # "none"
        /\ ~LosesMessage(e) /\ s.rec.message # "none" => m # "none"
    <3>1. s.rec.message \in {"none", "MevShield", "System", "block", "other"}
      BY <1>0 DEF Rec
    <3> QED BY <1>2, <2>3, <3>1, MessageType DEF HasMessage, LosesMessage
  <2>7. PICK r : r = [f EXCEPT !.rec.message = m] OBVIOUS
  <2>8. /\ r \in State /\ SameRec(r.rec, f.rec) /\ r.loc = f.loc
        /\ r.rec.message = m /\ r.rec.success = "no" /\ r.rec.fee = s.rec.fee
    <3>1. MessageTo(r, f, m) BY <2>4, <2>6, <2>7, MessageSet
    <3> QED BY <2>4, <3>1 DEF MessageTo
  <2>9. SameRec(r.rec, s.rec) BY <2>4, <2>8 DEF SameRec
  <2>10. r.rec.fee = s.rec.fee + Deposited(e) BY <1>0, <2>1, <2>8
  <2> QED BY <1>2, <2>1, <2>4, <2>5, <2>6, <2>7, <2>8, <2>9, <2>10 DEF Handled
<1>3. CASE IsSuccess(e)
  <2>1. ~IsFailure(e) /\ ~IsModuleError(e) /\ ~HasMessage(e) /\ Deposited(e) = 0
    BY <1>3 DEF IsFailure, IsSuccess, IsModuleError, HasMessage, Deposited
  <2>2. Handle(s, e, name)
          = [s EXCEPT !.loc.possible = TRUE, !.rec.weight = SuccessWeight(e)]
    BY <1>3, <2>1 DEF Handle, HandleEvent
  <2>3. PICK a \in Rec, b \in Loc : s = [rec |-> a, loc |-> b] BY DEF State
  <2>10. PICK yes : yes = TRUE OBVIOUS
  <2> DEFINE b2 == [b EXCEPT !.possible = yes]
             a2 == [a EXCEPT !.weight = "success"]
             s1 == [s EXCEPT !.loc.possible = yes]
             s2 == [s1 EXCEPT !.rec.weight = "success"]
  <2>4. b2 \in Loc /\ SameLoc(b2, b) /\ b2.possible = TRUE BY <2>10 DEF Loc, SameLoc
  <2>5. a2 \in Rec /\ SameRec(a2, a) /\ a2.success = a.success
        /\ a2.message = a.message /\ a2.fee = a.fee
    BY DEF Rec, SameRec
  <2>6. s1 = [rec |-> a, loc |-> b2] BY <2>3
  <2>7. s2 = [rec |-> a2, loc |-> b2]
    <3> HIDE DEF s1, b2
    <3> QED BY <2>6
  <2>8. Handle(s, e, name) = s2 BY <2>2, <2>10 DEF SuccessWeight
  <2>9. a2.fee = a.fee + Deposited(e) BY <1>0, <2>1, <2>3, <2>5
  <2> HIDE DEF a2, b2, s2
  <2>11. PICK r : r = Handle(s, e, name) OBVIOUS
  <2>12. r \in State /\ r.rec = a2 /\ r.loc = b2 /\ s.rec = a /\ s.loc = b
    BY <2>3, <2>4, <2>5, <2>7, <2>8, <2>11 DEF State
  <2>13. Handled(r, s, e) BY <1>3, <2>1, <2>4, <2>5, <2>9, <2>12 DEF Handled
  <2> QED BY <2>11, <2>13
<1>4. CASE ~IsSuccess(e) /\ ~IsFailure(e)
  <2>1. ~IsModuleError(e) /\ ~HasMessage(e) /\ Deposited(e) \in Nat
    BY <1>4 DEF IsFailure, IsModuleError, HasMessage, Deposited, Event
  <2>2. CASE s.loc.paid
    <3>1. Handle(s, e, name) = s BY <1>4, <2>1, <2>2 DEF Handle, HandleEvent
    <3> QED BY <1>4, <2>1, <2>2, <3>1 DEF Handled, SameRec, SameLoc
  <2>3. CASE ~s.loc.paid
    <3> DEFINE r == [s EXCEPT !.rec.fee = @ + Deposited(e)]
               d == s.rec.fee + Deposited(e)
    <3>1. Handle(s, e, name) = r BY <1>4, <2>1, <2>3 DEF Handle, HandleEvent
    <3>2. r = [rec |-> [s.rec EXCEPT !.fee = d], loc |-> s.loc] BY <1>0
    <3>3. d \in Nat \cup {-1} BY <1>0, <2>1 DEF Rec
    <3> HIDE DEF d, r
    <3>4. [s.rec EXCEPT !.fee = d] \in Rec BY <1>0, <3>3 DEF Rec
    <3>5. r \in State BY <1>0, <3>2, <3>4 DEF State
    <3>6. /\ SameRec(r.rec, s.rec) /\ r.loc = s.loc /\ r.rec.fee = d
          /\ r.rec.message = s.rec.message /\ r.rec.success = s.rec.success
      BY <1>0, <3>2 DEF SameRec, Rec
    <3> QED BY <1>4, <2>1, <2>3, <3>1, <3>5, <3>6 DEF Handled, SameLoc, d
  <2> QED BY <2>2, <2>3
<1> QED BY <1>1, <1>2, <1>3, <1>4

LEMMA NatLeast ==
  ASSUME NEW T, T \subseteq Nat, T # {}
  PROVE  \E n \in T : \A m \in T : n <= m
<1> DEFINE R == OpToRel(<, Nat)
<1>1. IsWellFoundedOn(R, Nat) BY NatLessThanWellFounded
<1>2. \A x, y \in Nat : y < x => <<y, x>> \in R BY DEF OpToRel
<1> HIDE DEF R
<1>3. PICK n \in T : \A m \in T : <<m, n>> \notin R BY <1>1, WFMin
<1>4. \A m \in T : ~(m < n) BY <1>2, <1>3
<1>5. \A m \in T : n <= m BY <1>4
<1> QED BY <1>5

(***************************************************************************)
(* The loops, event by event.                                              *)
(***************************************************************************)

LEMMA AfterUnfolds ==
  ASSUME NEW s \in State, NEW events \in Seq(Event), NEW name \in Name,
         s.loc.pos \in 0..Len(events)
  PROVE  /\ \A n \in 0..s.loc.pos : After(s, events, name)[n] = s
         /\ \A n \in s.loc.pos + 1..Len(events) :
              After(s, events, name)[n]
                = Handle(After(s, events, name)[n - 1], events[n], name)
<1> DEFINE len == Len(events)
           body(f, n) == IF n <= s.loc.pos THEN s ELSE Handle(f[n - 1], events[n], name)
           P(f) == f = [n \in 0..len |-> body(f, n)]
           stepOf(r, n) == IF n <= s.loc.pos THEN s ELSE Handle(r, events[n], name)
           step == [p \in State \X (1..len) |-> stepOf(p[1], p[2])]
<1>1. len \in Nat /\ \A n \in 1..len : events[n] \in Event BY LenProperties, ElementOfSeq
<1>2. \A r \in State, n \in 1..len : stepOf(r, n) \in State
  BY <1>1, HandleShape DEF Handled
<1>3. step \in [State \X (1..len) -> State]
      /\ \A r \in State, n \in 1..len : step[<<r, n>>] = stepOf(r, n)
  <2>1. \A p \in State \X (1..len) : p[1] \in State /\ p[2] \in 1..len OBVIOUS
  <2> HIDE DEF stepOf
  <2> QED BY <1>2, <2>1
<1>4. PICK f : Unfolds(f, State, len, step, s)
  <2> HIDE DEF step, len
  <2> QED BY <1>1, <1>3, Unfolding
<1>5. f \in [0..len -> State] /\ f[0] = s
      /\ \A n \in 1..len : f[n] = step[<<f[n - 1], n>>]
  BY <1>4 DEF Unfolds
<1>6. P(f)
  <2>1. ASSUME NEW n \in 0..len PROVE f[n] = body(f, n)
    <3>1. CASE n = 0 BY <1>5, <3>1
    <3>2. CASE n # 0
      <4>1. n \in 1..len /\ n - 1 \in 0..len BY <1>1, <3>2
      <4>2. f[n] = step[<<f[n - 1], n>>] /\ f[n - 1] \in State BY <1>5, <4>1
      <4>3. f[n] = stepOf(f[n - 1], n) BY <1>3, <4>1, <4>2
      <4> QED BY <4>3
    <3> QED BY <3>1, <3>2
  <2>2. f = [n \in 0..len |-> f[n]] BY <1>5
  <2> HIDE DEF body
  <2> QED BY <2>1, <2>2
<1>7. After(s, events, name) = CHOOSE g : P(g) BY DEF After
<1>8. P(After(s, events, name)) BY <1>6, <1>7
<1>9. ASSUME NEW g, P(g)
      PROVE  /\ \A n \in 0..s.loc.pos : g[n] = s
             /\ \A n \in s.loc.pos + 1..len : g[n] = Handle(g[n - 1], events[n], name)
  <2>1. \A n \in 0..len : g[n] = body(g, n)
    <3> HIDE DEF body
    <3> QED BY <1>9
  <2>2. s.loc.pos \in 0..len OBVIOUS
  <2>3. \A n \in 0..s.loc.pos : n \in 0..len /\ n <= s.loc.pos BY <1>1, <2>2
  <2>4. \A n \in s.loc.pos + 1..len : n \in 0..len /\ ~(n <= s.loc.pos)
    BY <1>1, <2>2
  <2> QED BY <2>1, <2>3, <2>4
<1> HIDE DEF P
<1> QED BY <1>8, <1>9

LEMMA DepositsUnfolds ==
  ASSUME NEW events \in Seq(Event)
  PROVE  /\ Deposits(events)[0] = 0
         /\ \A n \in 0..Len(events) : Deposits(events)[n] \in Nat
         /\ \A n \in 1..Len(events) :
              Deposits(events)[n] = Deposits(events)[n - 1] + Deposited(events[n])
<1> DEFINE len == Len(events)
           pays(n) == IF events[n].kind = "deposit" THEN events[n].pay ELSE 0
           body(f, n) == IF n = 0 THEN 0 ELSE f[n - 1] + pays(n)
           P(f) == f = [n \in 0..len |-> body(f, n)]
           step == [p \in Nat \X (1..len) |-> p[1] + pays(p[2])]
<1>1. len \in Nat /\ \A n \in 1..len : events[n] \in Event BY LenProperties, ElementOfSeq
<1>2. \A n \in 1..len : pays(n) \in Nat /\ pays(n) = Deposited(events[n])
  BY <1>1 DEF Event, Deposited
<1>3. step \in [Nat \X (1..len) -> Nat]
      /\ \A r \in Nat, n \in 1..len : step[<<r, n>>] = r + pays(n)
  <2>1. \A p \in Nat \X (1..len) : p[1] \in Nat /\ p[2] \in 1..len OBVIOUS
  <2> HIDE DEF pays
  <2> QED BY <1>2, <2>1
<1>4. PICK f : Unfolds(f, Nat, len, step, 0)
  <2> HIDE DEF step, len
  <2> QED BY <1>1, <1>3, Unfolding
<1>5. f \in [0..len -> Nat] /\ f[0] = 0
      /\ \A n \in 1..len : f[n] = step[<<f[n - 1], n>>]
  BY <1>4 DEF Unfolds
<1>6. P(f)
  <2>1. ASSUME NEW n \in 0..len PROVE f[n] = body(f, n)
    <3>1. CASE n = 0 BY <1>5, <3>1
    <3>2. CASE n # 0
      <4>1. n \in 1..len /\ n - 1 \in 0..len BY <1>1, <3>2
      <4>2. f[n] = step[<<f[n - 1], n>>] /\ f[n - 1] \in Nat BY <1>5, <4>1
      <4>3. f[n] = f[n - 1] + pays(n) BY <1>3, <4>1, <4>2
      <4> QED BY <3>2, <4>3
    <3> QED BY <3>1, <3>2
  <2>2. f = [n \in 0..len |-> f[n]] BY <1>5
  <2> HIDE DEF body
  <2> QED BY <2>1, <2>2
<1>7. Deposits(events) = CHOOSE g : P(g) BY DEF Deposits
<1>8. P(Deposits(events)) BY <1>6, <1>7
<1>9. ASSUME NEW g, P(g)
      PROVE  /\ g[0] = 0
             /\ \A n \in 0..len : g[n] \in Nat
             /\ \A n \in 1..len : g[n] = g[n - 1] + Deposited(events[n])
  <2>1. \A n \in 0..len : g[n] = body(g, n)
    <3> HIDE DEF body
    <3> QED BY <1>9
  <2>2. \A n \in 1..len : n \in 0..len /\ n # 0 BY <1>1
  <2>3. \A n \in 1..len : g[n] = g[n - 1] + Deposited(events[n]) BY <1>2, <2>1, <2>2
  <2>4. g[0] = 0 BY <1>1, <2>1
  <2> DEFINE S == {n \in Nat : g[n] \in Nat}
  <2>5. ASSUME NEW n \in 0..len - 1, n \in S PROVE n + 1 \in S
    <3>1. n + 1 \in 1..len /\ (n + 1) - 1 = n /\ n + 1 \in Nat BY <1>1
    <3>2. g[n + 1] = g[n] + pays(n + 1) BY <1>2, <2>3, <3>1
    <3> QED BY <1>2, <2>5, <3>1, <3>2
  <2>6. \A n \in 0..len : n \in S
    <3> 0 \in S BY <2>4
    <3> HIDE DEF S, len
    <3> QED BY <1>1, <2>5, IntervalSet
  <2> QED BY <2>3, <2>4, <2>6
<1> HIDE DEF P
<1> QED BY <1>8, <1>9

\* The events that are appended to the list are events of the block.
LEMMA EventsOfType ==
  ASSUME NEW idx, NEW all \in Seq(Event)
  PROVE  EventsOf(all, idx) \in Seq(Event)
<1> DEFINE len == Len(all)
           R == Seq(Event)
           more(r, n) == IF all[n].idx = idx THEN Append(r, all[n]) ELSE r
           body(f, n) == IF n = 0 THEN <<>> ELSE more(f[n - 1], n)
           P(f) == f = [n \in 0..len |-> body(f, n)]
           step == [p \in R \X (1..len) |-> more(p[1], p[2])]
<1>1. len \in Nat /\ \A n \in 1..len : all[n] \in Event BY LenProperties, ElementOfSeq
<1>2. \A r \in R, n \in 1..len : more(r, n) \in R BY <1>1, AppendProperties
<1>3. step \in [R \X (1..len) -> R]
      /\ \A r \in R, n \in 1..len : step[<<r, n>>] = more(r, n)
  <2>1. \A p \in R \X (1..len) : p[1] \in R /\ p[2] \in 1..len OBVIOUS
  <2> HIDE DEF more, R
  <2> QED BY <1>2, <2>1
<1>4. PICK f : Unfolds(f, R, len, step, <<>>)
  <2>1. <<>> \in R BY EmptySeq
  <2> HIDE DEF step, len, R
  <2> QED BY <1>1, <1>3, <2>1, Unfolding
<1>5. f \in [0..len -> R] /\ f[0] = <<>>
      /\ \A n \in 1..len : f[n] = step[<<f[n - 1], n>>]
  BY <1>4 DEF Unfolds
<1>6. P(f)
  <2>1. ASSUME NEW n \in 0..len PROVE f[n] = body(f, n)
    <3>1. CASE n = 0 BY <1>5, <3>1
    <3>2. CASE n # 0
      <4>1. n \in 1..len /\ n - 1 \in 0..len BY <1>1, <3>2
      <4>2. f[n] = step[<<f[n - 1], n>>] /\ f[n - 1] \in R BY <1>5, <4>1
      <4>3. f[n] = more(f[n - 1], n)
        <5> HIDE DEF more, step, R
        <5> QED BY <1>3, <4>1, <4>2
      <4> QED BY <3>2, <4>3
    <3> QED BY <3>1, <3>2
  <2>2. f = [n \in 0..len |-> f[n]] BY <1>5
  <2> HIDE DEF body
  <2> QED BY <2>1, <2>2
<1>7. EventsOf(all, idx) = (CHOOSE g : P(g))[len] BY DEF EventsOf
<1>8. PICK g : g = CHOOSE h : P(h) OBVIOUS
<1>9. P(g) BY <1>6, <1>8
<1>10. \A n \in 0..len : g[n] = body(g, n)
  <2> HIDE DEF body
  <2> QED BY <1>9
<1> DEFINE S == {n \in Nat : g[n] \in R}
<1>11. ASSUME NEW n \in 0..len - 1, n \in S PROVE n + 1 \in S
  <2>1. n + 1 \in 1..len /\ (n + 1) - 1 = n /\ n + 1 \in Nat /\ n + 1 \in 0..len
        /\ n + 1 # 0
    BY <1>1
  <2>2. g[n + 1] = more(g[n], n + 1)
    <3> HIDE DEF more
    <3> QED BY <1>10, <2>1
  <2> HIDE DEF more, R
  <2> QED BY <1>2, <1>11, <2>1, <2>2
<1>12. \A n \in 0..len : n \in S
  <2>1. 0 \in S
    <3>1. 0 \in 0..len BY <1>1
    <3>2. g[0] = body(g, 0) BY <1>10, <3>1
    <3>3. body(g, 0) = <<>> OBVIOUS
    <3>4. <<>> \in R BY EmptySeq
    <3> QED BY <3>2, <3>3, <3>4
  <2> HIDE DEF S, len
  <2> QED BY <1>1, <1>11, <2>1, IntervalSet
<1>13. len \in 0..len BY <1>1
<1> QED BY <1>7, <1>8, <1>12, <1>13

\* What the loop has made of the events up to n.
Passed(r, s, events, n) ==
  LET run == s.loc.pos + 1..n
  IN /\ r \in State /\ SameRec(r.rec, s.rec) /\ SameLoc(r.loc, s.loc)
     /\ r.rec.success = IF \E k \in run : IsFailure(events[k]) THEN "no"
                        ELSE s.rec.success
     /\ r.loc.possible => \E k \in run : IsSuccess(events[k])
     /\ (\E k \in run : IsSuccess(events[k])) /\ (\A k \in run : ~IsFailure(events[k]))
          => r.loc.possible
     /\ r.rec.message # "none"
          => s.rec.message # "none" \/ \E k \in run : IsFailure(events[k])
     /\ r.rec.fee = IF s.loc.paid THEN s.rec.fee
                    ELSE s.rec.fee + Deposits(events)[n] - Deposits(events)[s.loc.pos]

\* A message stays until a failure loses it.
Kept(r, s, events, n) ==
  /\ \A k \in s.loc.pos + 1..n :
       HasMessage(events[k]) /\ (\A j \in k + 1..n : ~LosesMessage(events[j]))
         => r.rec.message # "none"
  /\ s.rec.message # "none" /\ (\A j \in s.loc.pos + 1..n : ~LosesMessage(events[j]))
       => r.rec.message # "none"

LEMMA KeptStep ==
  ASSUME NEW s \in State, NEW events \in Seq(Event), s.loc.pos \in 0..Len(events),
         NEW n \in s.loc.pos + 1..Len(events), NEW r, NEW r2,
         Kept(r, s, events, n - 1), Handled(r2, r, events[n])
  PROVE  Kept(r2, s, events, n)
<1>0. s.loc.pos \in Nat /\ n \in Nat /\ Len(events) \in Nat BY LenProperties
<1>1. ASSUME NEW k \in s.loc.pos + 1..n, HasMessage(events[k]),
             \A j \in k + 1..n : ~LosesMessage(events[j])
      PROVE  r2.rec.message # "none"
  <2>1. CASE k = n BY <1>1, <2>1 DEF Handled
  <2>2. CASE k # n
    <3>1. k \in s.loc.pos + 1..n - 1 /\ n \in k + 1..n
          /\ \A j \in k + 1..n - 1 : j \in k + 1..n
      BY <1>0, <2>2
    <3>2. r.rec.message # "none" BY <1>1, <3>1 DEF Kept
    <3> QED BY <1>1, <3>1, <3>2 DEF Handled
  <2> QED BY <2>1, <2>2
<1>2. ASSUME s.rec.message # "none", \A j \in s.loc.pos + 1..n : ~LosesMessage(events[j])
      PROVE  r2.rec.message # "none"
  <2>1. n \in s.loc.pos + 1..n /\ \A j \in s.loc.pos + 1..n - 1 : j \in s.loc.pos + 1..n
    BY <1>0
  <2>2. r.rec.message # "none" BY <1>2, <2>1 DEF Kept
  <2> QED BY <1>2, <2>1, <2>2 DEF Handled
<1> QED BY <1>1, <1>2 DEF Kept

LEMMA PassedStep ==
  ASSUME NEW s \in State, NEW events \in Seq(Event), s.loc.pos \in 0..Len(events),
         NEW n \in s.loc.pos + 1..Len(events), NEW r, NEW r2,
         Passed(r, s, events, n - 1), Handled(r2, r, events[n])
  PROVE  Passed(r2, s, events, n)
<1>0. s.loc.pos \in Nat /\ n \in Nat /\ Len(events) \in Nat /\ n \in 1..Len(events)
  BY LenProperties
<1> DEFINE old == s.loc.pos + 1..n - 1
           run == s.loc.pos + 1..n
<1>1. \A k \in run : k \in old \/ k = n BY <1>0
<1>2. n \in run /\ \A k \in old : k \in run BY <1>0
<1>3. /\ r \in State /\ SameRec(r.rec, s.rec) /\ SameLoc(r.loc, s.loc)
      /\ r.rec.success = IF \E k \in old : IsFailure(events[k]) THEN "no"
                         ELSE s.rec.success
      /\ r.loc.possible => \E k \in old : IsSuccess(events[k])
      /\ (\E k \in old : IsSuccess(events[k])) /\ (\A k \in old : ~IsFailure(events[k]))
           => r.loc.possible
      /\ r.rec.message # "none"
           => s.rec.message # "none" \/ \E k \in old : IsFailure(events[k])
      /\ r.rec.fee = IF s.loc.paid THEN s.rec.fee
                     ELSE s.rec.fee + Deposits(events)[n - 1] - Deposits(events)[s.loc.pos]
  BY DEF Passed
<1>4. /\ r2 \in State /\ SameRec(r2.rec, r.rec) /\ SameLoc(r2.loc, r.loc)
      /\ r2.rec.success = IF IsFailure(events[n]) THEN "no" ELSE r.rec.success
      /\ r2.loc.possible <=> IsSuccess(events[n]) \/ (r.loc.possible /\ ~IsFailure(events[n]))
      /\ ~IsFailure(events[n]) => r2.rec.message = r.rec.message
      /\ r2.rec.fee = IF r.loc.paid THEN r.rec.fee ELSE r.rec.fee + Deposited(events[n])
  BY DEF Handled
<1> HIDE DEF old, run
<1>5. SameRec(r2.rec, s.rec) /\ SameLoc(r2.loc, s.loc)
  BY <1>3, <1>4 DEF SameRec, SameLoc
<1>6. r2.rec.success = IF \E k \in run : IsFailure(events[k]) THEN "no"
                       ELSE s.rec.success
  <2>1. CASE IsFailure(events[n]) BY <1>2, <1>4, <2>1
  <2>2. CASE ~IsFailure(events[n])
    <3>1. (\E k \in run : IsFailure(events[k])) <=> \E k \in old : IsFailure(events[k])
      BY <1>1, <1>2, <2>2
    <3> QED BY <1>3, <1>4, <2>2, <3>1
  <2> QED BY <2>1, <2>2
<1>7. r2.loc.possible => \E k \in run : IsSuccess(events[k])
  BY <1>2, <1>3, <1>4
<1>8. (\E k \in run : IsSuccess(events[k])) /\ (\A k \in run : ~IsFailure(events[k]))
        => r2.loc.possible
  BY <1>1, <1>2, <1>3, <1>4
<1>9. r2.rec.message # "none"
        => s.rec.message # "none" \/ \E k \in run : IsFailure(events[k])
  BY <1>2, <1>3, <1>4
<1>10. r2.rec.fee = IF s.loc.paid THEN s.rec.fee
                    ELSE s.rec.fee + Deposits(events)[n] - Deposits(events)[s.loc.pos]
  <2>1. r.loc.paid = s.loc.paid BY <1>3 DEF SameLoc
  <2>2. CASE s.loc.paid BY <1>3, <1>4, <2>1, <2>2
  <2>3. CASE ~s.loc.paid
    <3>1. /\ Deposits(events)[n] = Deposits(events)[n - 1] + Deposited(events[n])
          /\ Deposits(events)[n - 1] \in Nat /\ Deposits(events)[s.loc.pos] \in Nat
      BY <1>0, DepositsUnfolds
    <3>2. events[n] \in Event BY <1>0, ElementOfSeq
    <3>3. s.rec.fee \in Int /\ Deposited(events[n]) \in Nat
      BY <3>2 DEF State, Rec, Deposited, Event
    <3>4. /\ r.rec.fee = s.rec.fee + Deposits(events)[n - 1] - Deposits(events)[s.loc.pos]
          /\ r2.rec.fee = r.rec.fee + Deposited(events[n])
      BY <1>3, <1>4, <2>1, <2>3
    <3>5. \A a, b, c, d \in Int : (a + b - c) + d = a + (b + d) - c OBVIOUS
    <3>6. r2.rec.fee = s.rec.fee + Deposits(events)[n] - Deposits(events)[s.loc.pos]
      BY <3>1, <3>3, <3>4, <3>5
    <3> QED BY <2>3, <3>6
  <2> QED BY <2>2, <2>3
<1> QED BY <1>4, <1>5, <1>6, <1>7, <1>8, <1>9, <1>10 DEF Passed, run

LEMMA AfterPassed ==
  ASSUME NEW s \in State, NEW events \in Seq(Event), NEW name \in Name,
         s.loc.pos \in 0..Len(events), ~s.loc.possible
  PROVE  \A n \in s.loc.pos..Len(events) :
           /\ Passed(After(s, events, name)[n], s, events, n)
           /\ Kept(After(s, events, name)[n], s, events, n)
<1> DEFINE f == After(s, events, name)
           a == s.loc.pos
           len == Len(events)
           S == {n \in Nat : Passed(f[n], s, events, n) /\ Kept(f[n], s, events, n)}
<1>0. a \in Nat /\ len \in Nat /\ a <= len BY LenProperties
<1>1. f[a] = s /\ \A n \in a + 1..len : f[n] = Handle(f[n - 1], events[n], name)
  <2>1. a \in 0..a BY <1>0
  <2> QED BY <2>1, AfterUnfolds
<1>2. a \in S
  <2>1. a + 1..a = {} BY <1>0
  <2>2. Deposits(events)[a] \in Nat BY DepositsUnfolds
  <2>3. s.rec.fee \in Int BY DEF State, Rec
  <2>4. s.rec.fee = s.rec.fee + Deposits(events)[a] - Deposits(events)[a] BY <2>2, <2>3
  <2>5. Passed(s, s, events, a) BY <2>1, <2>4 DEF Passed, SameRec, SameLoc
  <2>6. Kept(s, s, events, a) BY <2>1 DEF Kept
  <2> QED BY <1>0, <1>1, <2>5, <2>6
<1>3. ASSUME NEW n \in a..len - 1, n \in S PROVE n + 1 \in S
  <2>1. n + 1 \in a + 1..len /\ (n + 1) - 1 = n /\ n + 1 \in Nat /\ n + 1 \in 1..len
    BY <1>0
  <2>2. PICK r : r = f[n] OBVIOUS
  <2>3. PICK r2 : r2 = f[n + 1] OBVIOUS
  <2>4. r2 = Handle(r, events[n + 1], name) BY <1>1, <2>1, <2>2, <2>3
  <2>5. Passed(r, s, events, n) /\ Kept(r, s, events, n) BY <1>3, <2>2
  <2>6. r \in State /\ events[n + 1] \in Event BY <2>1, <2>5, ElementOfSeq DEF Passed
  <2>7. Handled(r2, r, events[n + 1]) BY <2>4, <2>6, HandleShape
  <2>8. PICK m \in a + 1..len : m = n + 1 BY <2>1
  <2>9. m - 1 = n BY <1>0, <2>8
  <2>10. Passed(r2, s, events, m) /\ Kept(r2, s, events, m)
    <3> HIDE DEF f
    <3> QED BY <2>5, <2>7, <2>8, <2>9, PassedStep, KeptStep
  <2> QED BY <2>1, <2>3, <2>8, <2>10
<1> HIDE DEF S
<1>4. \A n \in a..len : n \in S
  <2> HIDE DEF a, len
  <2> QED BY <1>0, <1>2, <1>3, IntervalSet
<1> QED BY <1>4 DEF S

(***************************************************************************)
(* The events of the extrinsic, and a list that has them once or more.     *)
(***************************************************************************)

SuccessIn(mine) == \E n \in DOMAIN mine : IsSuccess(mine[n])
FailureIn(mine) == \E n \in DOMAIN mine : IsFailure(mine[n])
NamedIn(mine) ==
  \E n \in DOMAIN mine :
    HasMessage(mine[n]) /\ \A m \in DOMAIN mine : n < m => ~LosesMessage(mine[m])

Fits(events, mine) ==
  events # <<>> =>
    /\ Len(mine) <= Len(events)
    /\ \A n \in 1..Len(mine) : events[Len(events) - Len(mine) + n] = mine[n]
    /\ \A n \in 1..Len(events) : \E m \in 1..Len(mine) : events[n] = mine[m]

LEMMA FitsIn ==
  ASSUME NEW events \in Seq(Event), NEW mine \in Seq(Event), Fits(events, mine)
  PROVE  /\ SuccessIn(events) => SuccessIn(mine)
         /\ FailureIn(events) => FailureIn(mine)
         /\ events # <<>> /\ FailureIn(mine) => FailureIn(events)
         /\ events # <<>> /\ SuccessIn(mine) => SuccessIn(events)
         /\ events # <<>> /\ NamedIn(mine) => NamedIn(events)
<1>1. /\ DOMAIN events = 1..Len(events) /\ Len(events) \in Nat
      /\ DOMAIN mine = 1..Len(mine) /\ Len(mine) \in Nat
  BY LenProperties
<1>2. events = <<>> => DOMAIN events = {} BY <1>1, EmptySeq
<1>3. SuccessIn(events) => SuccessIn(mine)
  BY <1>1, <1>2 DEF Fits, SuccessIn
<1>4. FailureIn(events) => FailureIn(mine)
  BY <1>1, <1>2 DEF Fits, FailureIn
<1> DEFINE at(n) == Len(events) - Len(mine) + n
<1>5. ASSUME events # <<>>
      PROVE  \A n \in DOMAIN mine : at(n) \in DOMAIN events /\ events[at(n)] = mine[n]
  BY <1>1, <1>5 DEF Fits
<1>6. ASSUME events # <<>>, FailureIn(mine) PROVE FailureIn(events)
  BY <1>5, <1>6 DEF FailureIn
<1>7. ASSUME events # <<>>, SuccessIn(mine) PROVE SuccessIn(events)
  BY <1>5, <1>7 DEF SuccessIn
<1>8. ASSUME events # <<>>, NamedIn(mine) PROVE NamedIn(events)
  <2>1. PICK n \in DOMAIN mine : /\ HasMessage(mine[n])
                                 /\ \A m \in DOMAIN mine : n < m => ~LosesMessage(mine[m])
    BY <1>8 DEF NamedIn
  <2>2. at(n) \in DOMAIN events /\ HasMessage(events[at(n)]) BY <1>5, <1>8, <2>1
  <2>3. ASSUME NEW k \in DOMAIN events, at(n) < k PROVE ~LosesMessage(events[k])
    <3>1. PICK m \in Int : m = k - (Len(events) - Len(mine)) BY <1>1
    <3>2. m \in DOMAIN mine /\ n < m /\ at(m) = k BY <1>1, <2>3, <3>1
    <3> QED BY <1>5, <1>8, <2>1, <3>2
  <2> QED BY <2>2, <2>3 DEF NamedIn
<1> QED BY <1>3, <1>4, <1>6, <1>7, <1>8

\* The list is the events once more.
LEMMA FitsMore ==
  ASSUME NEW events \in Seq(Event), NEW mine \in Seq(Event), Fits(events, mine)
  PROVE  events \o mine \in Seq(Event) /\ Fits(events \o mine, mine)
<1>1. /\ Len(events) \in Nat /\ Len(mine) \in Nat /\ events \o mine \in Seq(Event)
      /\ Len(events \o mine) = Len(events) + Len(mine)
      /\ \A n \in 1..Len(events) + Len(mine) :
           (events \o mine)[n] = IF n <= Len(events) THEN events[n] ELSE mine[n - Len(events)]
  BY LenProperties, ConcatProperties
<1> DEFINE more == events \o mine
<1>2. ASSUME NEW n \in 1..Len(mine) PROVE more[Len(more) - Len(mine) + n] = mine[n]
  <2>1. /\ Len(events) + n \in 1..Len(events) + Len(mine) /\ ~(Len(events) + n <= Len(events))
        /\ (Len(events) + n) - Len(events) = n /\ Len(more) - Len(mine) + n = Len(events) + n
    BY <1>1
  <2> QED BY <1>1, <2>1
<1>3. ASSUME NEW n \in 1..Len(more) PROVE \E m \in 1..Len(mine) : more[n] = mine[m]
  <2>1. CASE n <= Len(events)
    <3>1. n \in 1..Len(events) /\ more[n] = events[n] BY <1>1, <2>1
    <3>2. events # <<>> BY <3>1, EmptySeq
    <3> QED BY <3>1, <3>2 DEF Fits
  <2>2. CASE ~(n <= Len(events))
    <3>1. n - Len(events) \in 1..Len(mine) /\ more[n] = mine[n - Len(events)]
      BY <1>1, <2>2
    <3> QED BY <3>1
  <2> QED BY <2>1, <2>2
<1> QED BY <1>1, <1>2, <1>3 DEF Fits

\* The verdict and the message are those of the extrinsic.
Facts(rec, mine) ==
  /\ rec.success = "yes" => SuccessIn(mine) /\ ~NamedIn(mine)
  /\ rec.success = "no" => FailureIn(mine)
  /\ rec.message # "none" => FailureIn(mine)

(***************************************************************************)
(* process_events: its beginning, its end, and a run between suspensions.  *)
(***************************************************************************)

LEMMA LastPaid ==
  ASSUME NEW events \in Seq(Event), PaidAt(events) # {}
  PROVE  /\ Max(PaidAt(events)) \in PaidAt(events)
         /\ \A n \in PaidAt(events) : n <= Max(PaidAt(events))
<1> DEFINE S == PaidAt(events)
           len == Len(events)
           low == {n \in Nat : (\E k \in S : k <= n)
                     => \E k \in S : k <= n /\ \A m \in S : m <= n => m <= k}
<1>1. len \in Nat /\ S \subseteq 1..len BY LenProperties DEF PaidAt
<1> HIDE DEF S
<1>2. 0 \in low BY <1>1
<1>3. ASSUME NEW n \in Nat, n \in low PROVE n + 1 \in low
  <2>1. CASE n + 1 \in S BY <1>1, <2>1
  <2>2. CASE n + 1 \notin S
    <3>1. \A k \in S : k <= n + 1 <=> k <= n BY <1>1, <2>2
    <3> QED BY <1>3, <3>1
  <2> QED BY <2>1, <2>2
<1>4. len \in low
  <2>1. \A n \in Nat : n \in low
    <3> HIDE DEF low
    <3> QED BY <1>2, <1>3, NatSet
  <2> QED BY <1>1, <2>1
<1>5. PICK k \in S : \A m \in S : m <= k
  <2>1. \A m \in S : m <= len BY <1>1
  <2>2. S # {} BY DEF S
  <2> QED BY <1>1, <1>4, <2>1, <2>2
<1>6. \A m \in S : k >= m BY <1>1, <1>5
<1>7. Max(S) \in S /\ \A m \in S : Max(S) >= m BY <1>5, <1>6 DEF Max
<1>8. \A m \in S : m <= Max(S) BY <1>1, <1>7
<1> QED BY <1>7, <1>8 DEF S

LEMMA FeePaidType ==
  ASSUME NEW events \in Seq(Event)
  PROVE  /\ FeePaid(events)[1] \in Nat /\ FeePaid(events)[2] \in BOOLEAN
         /\ FeePaid(events)[2] <=> PaidAt(events) # {}
         /\ ~FeePaid(events)[2] => FeePaid(events)[1] = 0
<1>1. CASE PaidAt(events) = {} BY <1>1 DEF FeePaid
<1>2. CASE PaidAt(events) # {}
  <2>1. Max(PaidAt(events)) \in 1..Len(events)
    BY <1>2, LastPaid, LenProperties DEF PaidAt
  <2>2. events[Max(PaidAt(events))] \in Event BY <2>1, ElementOfSeq
  <2> QED BY <1>2, <2>2 DEF FeePaid, Event
<1> QED BY <1>1, <1>2

\* The fee so far, of a pass over the events of the extrinsic.
FeeAt(rec, loc, mine, n) ==
  /\ loc.paid = FeePaid(mine)[2]
  /\ rec.fee = IF loc.paid THEN FeePaid(mine)[1] ELSE Deposits(mine)[n]

Entered(s, rec, events, last) ==
  /\ s \in State /\ SameRec(s.rec, rec)
  /\ s.rec.success = rec.success /\ s.rec.message = rec.message
  /\ s.loc.pos = 0 /\ ~s.loc.possible /\ s.loc.last = last
  /\ events = <<>> => s.rec.fee = rec.fee
  /\ events # <<>> => FeeAt(s.rec, s.loc, events, 0)

LEMMA EnterShape ==
  ASSUME NEW rec \in Rec, rec.events # {}, NEW lists \in [Reader -> Seq(Event)],
         NEW last \in BOOLEAN
  PROVE  LET s == Enter(rec, lists, last)
         IN s.loc.of \in rec.events /\ Entered(s, rec, lists[s.loc.of], last)
<1>1. PICK of : of = CHOOSE t \in rec.events : TRUE OBVIOUS
<1>2. of \in rec.events /\ of \in Reader BY <1>1 DEF Rec
<1>3. PICK events \in Seq(Event) : events = lists[of] BY <1>2
<1>4. PICK fee : fee = FeePaid(events) OBVIOUS
<1>5. fee[1] \in Nat /\ fee[2] \in BOOLEAN /\ (~fee[2] => fee[1] = 0)
  BY <1>4, FeePaidType
<1> DEFINE a == IF events = <<>> THEN rec ELSE [rec EXCEPT !.fee = fee[1]]
           b == [of |-> of, pos |-> 0, possible |-> FALSE, paid |-> fee[2], last |-> last]
<1>6. /\ a \in Rec /\ SameRec(a, rec) /\ a.success = rec.success
      /\ a.message = rec.message /\ a.fee = IF events = <<>> THEN rec.fee ELSE fee[1]
  BY <1>5 DEF Rec, SameRec
<1>7. b \in Loc BY <1>2, <1>5 DEF Loc
<1>8. Enter(rec, lists, last) = [rec |-> a, loc |-> b] BY <1>1, <1>3, <1>4 DEF Enter
<1>9. PICK s : s = [rec |-> a, loc |-> b] OBVIOUS
<1>10. s \in State /\ s.rec = a /\ s.loc = b BY <1>6, <1>7, <1>9 DEF State
<1>11. Deposits(events)[0] = 0 BY DepositsUnfolds
<1> HIDE DEF a
<1>12. events # <<>> => FeeAt(s.rec, s.loc, events, 0)
  BY <1>4, <1>5, <1>6, <1>10, <1>11 DEF FeeAt
<1>13. s.loc.of = of BY <1>10
<1>14. Entered(s, rec, events, last) BY <1>6, <1>10, <1>12 DEF Entered
<1> QED BY <1>2, <1>3, <1>8, <1>9, <1>13, <1>14

LEMMA ConcludeShape ==
  ASSUME NEW s \in State
  PROVE  LET r == Conclude(s)
         IN /\ r \in State /\ SameRec(r.rec, s.rec) /\ r.loc = s.loc
            /\ r.rec.message = s.rec.message /\ r.rec.fee = s.rec.fee
            /\ r.rec.success = IF s.loc.possible /\ s.rec.message = "none" THEN "yes"
                               ELSE s.rec.success
<1>1. CASE s.loc.possible /\ s.rec.message = "none"
  <2>1. PICK a \in Rec, b \in Loc : s = [rec |-> a, loc |-> b] BY DEF State
  <2> DEFINE a2 == [a EXCEPT !.success = "yes"]
  <2>2. a2 \in Rec /\ SameRec(a2, a) /\ a2.success = "yes"
        /\ a2.message = a.message /\ a2.fee = a.fee
    BY DEF Rec, SameRec
  <2>3. Conclude(s) = [s EXCEPT !.rec.success = "yes"] BY <1>1 DEF Conclude
  <2>4. [s EXCEPT !.rec.success = "yes"] = [rec |-> a2, loc |-> b] BY <2>1
  <2>5. PICK r : r = [rec |-> a2, loc |-> b] OBVIOUS
  <2> HIDE DEF a2
  <2>6. r \in State /\ r.rec = a2 /\ r.loc = b /\ s.rec = a /\ s.loc = b
    BY <2>1, <2>2, <2>5 DEF State
  <2>7. Conclude(s) = r BY <2>3, <2>4, <2>5
  <2> QED BY <1>1, <2>2, <2>6, <2>7
<1>2. CASE ~(s.loc.possible /\ s.rec.message = "none")
  BY <1>2 DEF Conclude, SameRec
<1> QED BY <1>1, <1>2

LEMMA PosSet ==
  ASSUME NEW s \in State, NEW p \in Nat \cup {-1}
  PROVE  LET r == [s EXCEPT !.loc.pos = p]
         IN /\ r \in State /\ r.rec = s.rec /\ r.loc.pos = p
            /\ r.loc.possible = s.loc.possible
            /\ r.loc.of = s.loc.of /\ r.loc.paid = s.loc.paid /\ r.loc.last = s.loc.last
<1>1. PICK a \in Rec, b \in Loc : s = [rec |-> a, loc |-> b] BY DEF State
<1> DEFINE b2 == [b EXCEPT !.pos = p]
<1>2. b2 \in Loc /\ b2.pos = p /\ b2.possible = b.possible
      /\ b2.of = b.of /\ b2.paid = b.paid /\ b2.last = b.last
  BY DEF Loc
<1>3. [s EXCEPT !.loc.pos = p] = [rec |-> a, loc |-> b2] BY <1>1
<1>4. PICK r : r = [rec |-> a, loc |-> b2] OBVIOUS
<1> HIDE DEF b2
<1>5. r \in State /\ r.rec = a /\ r.loc = b2 /\ s.rec = a /\ s.loc = b
  BY <1>1, <1>2, <1>4 DEF State
<1> QED BY <1>2, <1>3, <1>4, <1>5

\* The fee after the events up to n, from the fee before.
FeeFrom(fee, s, events, n) ==
  fee = IF s.loc.paid THEN s.rec.fee
        ELSE s.rec.fee + Deposits(events)[n] - Deposits(events)[s.loc.pos]

\* A pass over the list has come to its end.
Finished(r, s, events, mine) ==
  /\ r \in State /\ SameRec(r.rec, s.rec)
  /\ r.loc.of = s.loc.of /\ r.loc.paid = s.loc.paid /\ r.loc.last = s.loc.last
  /\ Facts(r.rec, mine)
  /\ s.rec.success # "none" => r.rec.success # "none"
  /\ s.loc.pos = 0 /\ (SuccessIn(events) \/ FailureIn(events))
       => r.rec.success # "none"
  /\ FeeFrom(r.rec.fee, s, events, Len(events))

\* It can go on: it is at its beginning, or has the message of a module error.
Ready(s, events, mine) ==
  /\ s \in State /\ s.loc.pos \in 0..Len(events) /\ ~s.loc.possible
  /\ s.loc.pos > 0 => s.rec.message # "none"
  /\ Facts(s.rec, mine)

LEMMA FinishedAfter ==
  ASSUME NEW events \in Seq(Event), NEW mine \in Seq(Event), Fits(events, mine),
         NEW s, Ready(s, events, mine), NEW x,
         Passed(x, s, events, Len(events)), Kept(x, s, events, Len(events))
  PROVE  Finished(Conclude(x), s, events, mine) /\ Conclude(x).loc = x.loc
<1> DEFINE len == Len(events)
           run == s.loc.pos + 1..len
<1>0. len \in Nat /\ s.loc.pos \in Nat /\ DOMAIN events = 1..len
      /\ run \subseteq DOMAIN events /\ s \in State /\ Facts(s.rec, mine)
  BY LenProperties DEF Ready
<1>1. /\ x \in State /\ SameRec(x.rec, s.rec) /\ SameLoc(x.loc, s.loc)
      /\ x.rec.success = IF \E k \in run : IsFailure(events[k]) THEN "no"
                         ELSE s.rec.success
      /\ x.loc.possible => \E k \in run : IsSuccess(events[k])
      /\ (\E k \in run : IsSuccess(events[k])) /\ (\A k \in run : ~IsFailure(events[k]))
           => x.loc.possible
      /\ x.rec.message # "none"
           => s.rec.message # "none" \/ \E k \in run : IsFailure(events[k])
      /\ FeeFrom(x.rec.fee, s, events, len)
  BY DEF Passed, FeeFrom
<1> HIDE DEF run
<1>2. PICK r : r = Conclude(x) OBVIOUS
<1>3. /\ r \in State /\ SameRec(r.rec, x.rec) /\ r.loc = x.loc
      /\ r.rec.message = x.rec.message /\ r.rec.fee = x.rec.fee
      /\ r.rec.success = IF x.loc.possible /\ x.rec.message = "none" THEN "yes"
                         ELSE x.rec.success
  BY <1>1, <1>2, ConcludeShape
<1>4. (\E k \in run : IsFailure(events[k])) => FailureIn(mine)
  <2>1. (\E k \in run : IsFailure(events[k])) => FailureIn(events)
    BY <1>0 DEF FailureIn
  <2> QED BY <2>1, FitsIn
<1>5. (\E k \in run : IsSuccess(events[k])) => SuccessIn(mine) /\ events # <<>>
  <2>1. (\E k \in run : IsSuccess(events[k])) => SuccessIn(events) /\ DOMAIN events # {}
    BY <1>0 DEF SuccessIn
  <2>2. DOMAIN events # {} => events # <<>> BY <1>0, EmptySeq
  <2> QED BY <2>1, <2>2, FitsIn
<1>6. NamedIn(events) => x.rec.message # "none"
  <2> SUFFICES ASSUME NEW n \in DOMAIN events, HasMessage(events[n]),
                      \A m \in DOMAIN events : n < m => ~LosesMessage(events[m])
               PROVE  x.rec.message # "none"
    BY DEF NamedIn
  <2>1. CASE n \in run
    <3>1. \A j \in n + 1..len : j \in DOMAIN events /\ n < j BY <1>0
    <3>2. n \in s.loc.pos + 1..len BY <2>1 DEF run
    <3> QED BY <3>1, <3>2 DEF Kept
  <2>2. CASE n \notin run
    <3>1. s.loc.pos > 0 /\ \A j \in s.loc.pos + 1..len : j \in DOMAIN events /\ n < j
      BY <1>0, <2>2 DEF run
    <3>2. s.rec.message # "none" BY <3>1 DEF Ready
    <3> QED BY <3>1, <3>2 DEF Kept
  <2> QED BY <2>1, <2>2
<1>7. Facts(r.rec, mine)
  <2>1. ASSUME r.rec.success = "yes" PROVE SuccessIn(mine) /\ ~NamedIn(mine)
    <3>1. CASE x.loc.possible /\ x.rec.message = "none"
      <4>1. SuccessIn(mine) /\ events # <<>> /\ ~NamedIn(events)
        BY <1>1, <1>5, <1>6, <3>1
      <4> QED BY <4>1, FitsIn
    <3>2. CASE ~(x.loc.possible /\ x.rec.message = "none")
      <4>1. s.rec.success = "yes" BY <1>1, <1>3, <2>1, <3>2
      <4> QED BY <1>0, <4>1 DEF Facts
    <3> QED BY <3>1, <3>2
  <2>2. r.rec.success = "no" => FailureIn(mine) BY <1>0, <1>1, <1>3, <1>4 DEF Facts
  <2>3. r.rec.message # "none" => FailureIn(mine) BY <1>0, <1>1, <1>3, <1>4 DEF Facts
  <2> QED BY <2>1, <2>2, <2>3 DEF Facts
<1>8. s.rec.success # "none" => r.rec.success # "none" BY <1>1, <1>3
<1>9. ASSUME s.loc.pos = 0, SuccessIn(events) \/ FailureIn(events)
      PROVE  r.rec.success # "none"
  <2>1. DOMAIN events = run BY <1>0, <1>9 DEF run
  <2>2. CASE FailureIn(events) BY <1>1, <1>3, <2>1, <2>2 DEF FailureIn
  <2>3. CASE ~FailureIn(events)
    <3>1. SuccessIn(events) /\ events # <<>>
      <4>1. SuccessIn(events) /\ DOMAIN events # {} BY <1>9, <2>3 DEF SuccessIn
      <4> QED BY <1>0, <4>1, EmptySeq
    <3>2. ~FailureIn(mine) BY <2>3, <3>1, FitsIn
    <3>3. x.rec.message = "none" BY <1>0, <1>1, <1>4, <3>2 DEF Facts
    <3>4. x.loc.possible BY <1>1, <2>1, <2>3, <3>1 DEF FailureIn, SuccessIn
    <3> QED BY <1>3, <3>3, <3>4
  <2> QED BY <2>2, <2>3
<1>10. SameRec(r.rec, s.rec) BY <1>1, <1>3 DEF SameRec
<1>11. r.loc.of = s.loc.of /\ r.loc.paid = s.loc.paid /\ r.loc.last = s.loc.last
  BY <1>1, <1>3 DEF SameLoc
<1>12. Finished(r, s, events, mine)
  BY <1>1, <1>3, <1>7, <1>8, <1>9, <1>10, <1>11 DEF Finished
<1> QED BY <1>2, <1>3, <1>12

\* A pass has stopped at a module error, whose message is awaited.
Halted(r, s, events, mine) ==
  /\ r \in State /\ SameRec(r.rec, s.rec)
  /\ r.loc.of = s.loc.of /\ r.loc.paid = s.loc.paid /\ r.loc.last = s.loc.last
  /\ Facts(r.rec, mine) /\ r.rec.success # "none"
  /\ r.loc.pos \in s.loc.pos + 1..Len(events) /\ IsModuleError(events[r.loc.pos])
  /\ ~r.loc.possible
  /\ FeeFrom(r.rec.fee, s, events, r.loc.pos)

Ran(r, s, events, mine) ==
  IF Suspended(r) THEN Halted(r, s, events, mine) ELSE Finished(r, s, events, mine)

LEMMA LoopShape ==
  ASSUME NEW lists, NEW mine \in Seq(Event), NEW s, NEW events \in Seq(Event),
         events = lists[s.loc.of], Fits(events, mine), Ready(s, events, mine)
  PROVE  Ran(Loop(s, lists), s, events, mine)
<1> DEFINE len == Len(events)
           next == {n \in s.loc.pos + 1..len : IsModuleError(events[n])}
           stop == CHOOSE n \in next : \A m \in next : n <= m
           after == After(s, events, "block")
<1>0. len \in Nat /\ s.loc.pos \in Nat /\ s.loc.pos <= len /\ s \in State
      /\ Facts(s.rec, mine)
  BY LenProperties DEF Ready
<1>1. \A n \in s.loc.pos..len : Passed(after[n], s, events, n) /\ Kept(after[n], s, events, n)
  BY AfterPassed DEF Ready, Name
<1>2. Loop(s, lists) = IF next = {}
                       THEN [Conclude(after[len]) EXCEPT !.loc.pos = -1]
                       ELSE [Fails(after[stop - 1], events[stop]) EXCEPT !.loc.pos = stop]
  BY DEF Loop
<1> HIDE DEF after
<1>3. CASE next = {}
  <2>1. PICK x : x = after[len] OBVIOUS
  <2>2. Passed(x, s, events, len) /\ Kept(x, s, events, len) BY <1>0, <1>1, <2>1
  <2>3. PICK y : y = Conclude(x) OBVIOUS
  <2>4. Finished(y, s, events, mine) BY <2>2, <2>3, FinishedAfter
  <2>5. PICK r : r = [y EXCEPT !.loc.pos = -1] OBVIOUS
  <2>6. y \in State BY <2>4 DEF Finished
  <2>7. /\ r \in State /\ r.rec = y.rec /\ r.loc.pos = -1
        /\ r.loc.of = y.loc.of /\ r.loc.paid = y.loc.paid /\ r.loc.last = y.loc.last
    BY <2>5, <2>6, PosSet
  <2>8. Finished(r, s, events, mine) BY <2>4, <2>7 DEF Finished
  <2> QED BY <1>2, <1>3, <2>1, <2>3, <2>5, <2>7, <2>8 DEF Ran, Suspended
<1>4. CASE next # {}
  <2>1. stop \in next
    <3> DEFINE T == next
    <3>1. T \subseteq Nat /\ T # {} BY <1>0, <1>4
    <3>2. \E n \in T : \A m \in T : n <= m
      <4> HIDE DEF T
      <4> QED BY <3>1, NatLeast
    <3> QED BY <3>2
  <2>2. PICK n \in Int : n = stop /\ n \in s.loc.pos + 1..len /\ IsModuleError(events[n])
    <3> HIDE DEF stop
    <3>1. stop \in s.loc.pos + 1..len /\ IsModuleError(events[stop]) BY <2>1
    <3> HIDE DEF next
    <3>2. stop \in Int BY <1>0, <3>1
    <3> QED BY <3>1, <3>2
  <2> HIDE DEF stop
  <2>3. n - 1 \in s.loc.pos..len /\ n \in 1..len /\ n \in Nat BY <1>0, <2>2
  <2>4. PICK e \in Event : e = events[n] BY <2>3, ElementOfSeq
  <2>5. PICK x : x = after[n - 1] OBVIOUS
  <2>6. Passed(x, s, events, n - 1) BY <1>1, <2>3, <2>5
  <2>7. PICK y : y = Fails(x, e) OBVIOUS
  <2>8. x \in State /\ SameRec(x.rec, s.rec) /\ SameLoc(x.loc, s.loc)
    BY <2>6 DEF Passed
  <2>9. /\ y \in State /\ SameRec(y.rec, x.rec) /\ SameLoc(y.loc, x.loc)
        /\ y.rec.success = "no" /\ ~y.loc.possible
        /\ y.rec.message = x.rec.message /\ y.rec.fee = x.rec.fee
    BY <2>7, <2>8, FailsShape
  <2>10. PICK r : r = [y EXCEPT !.loc.pos = n] OBVIOUS
  <2>11. /\ r \in State /\ r.rec = y.rec /\ r.loc.pos = n
         /\ r.loc.possible = y.loc.possible
         /\ r.loc.of = y.loc.of /\ r.loc.paid = y.loc.paid /\ r.loc.last = y.loc.last
    BY <2>3, <2>9, <2>10, PosSet
  <2>12. SameRec(r.rec, s.rec) BY <2>8, <2>9, <2>11 DEF SameRec
  <2>13. r.loc.of = s.loc.of /\ r.loc.paid = s.loc.paid /\ r.loc.last = s.loc.last
    BY <2>8, <2>9, <2>11 DEF SameLoc
  <2>14. FailureIn(mine)
    <3>1. n \in DOMAIN events BY <2>3, LenProperties
    <3>2. IsFailure(events[n]) BY <2>2 DEF IsModuleError, IsFailure
    <3>3. FailureIn(events) BY <3>1, <3>2 DEF FailureIn
    <3> QED BY <3>3, FitsIn
  <2>15. Facts(r.rec, mine) BY <2>9, <2>11, <2>14 DEF Facts
  <2>16. FeeFrom(r.rec.fee, s, events, n)
    <3>1. FeeFrom(x.rec.fee, s, events, n - 1) BY <2>6 DEF Passed, FeeFrom
    <3>2. /\ Deposits(events)[n] = Deposits(events)[n - 1] + Deposited(events[n])
          /\ Deposits(events)[n - 1] \in Nat
      BY <1>0, <2>3, DepositsUnfolds
    <3>3. Deposited(events[n]) = 0 BY <2>2 DEF IsModuleError, Deposited
    <3>4. Deposits(events)[n] = Deposits(events)[n - 1] BY <3>2, <3>3
    <3> QED BY <2>9, <2>11, <3>1, <3>4 DEF FeeFrom
  <2>17. Halted(r, s, events, mine)
    BY <2>2, <2>9, <2>11, <2>12, <2>13, <2>15, <2>16 DEF Halted
  <2>18. r.loc.pos # -1 BY <2>3, <2>11
  <2> QED BY <1>2, <1>4, <2>2, <2>4, <2>5, <2>7, <2>10, <2>17, <2>18 DEF Ran, Suspended
<1> QED BY <1>3, <1>4

\* What the caller of process_events finds when it returns or suspends.
Done(r, s, lists, mine) ==
  /\ r \in State /\ SameRec(r.rec, s.rec) /\ Facts(r.rec, mine)
  /\ s.rec.success # "none" => r.rec.success # "none"
  /\ Suspended(r) =>
       /\ r.loc.of \in s.rec.events \cup {s.loc.of}
       /\ r.loc.pos \in 1..Len(lists[r.loc.of])
       /\ IsModuleError(lists[r.loc.of][r.loc.pos])
       /\ ~r.loc.possible /\ r.rec.success # "none"
  /\ /\ ~Suspended(r) /\ s.loc.pos = 0
     /\ SuccessIn(lists[s.loc.of]) \/ FailureIn(lists[s.loc.of])
     => r.rec.success # "none"
  /\ (\A u \in s.rec.events \cup {s.loc.of} : lists[u] = mine) =>
       /\ mine = <<>> => r.rec.fee = s.rec.fee
       /\ FeeAt(s.rec, s.loc, mine, s.loc.pos) /\ mine # <<>> =>
            FeeAt(r.rec, r.loc, mine, IF Suspended(r) THEN r.loc.pos ELSE Len(mine))

LEMMA FeeGoesOn ==
  ASSUME NEW mine \in Seq(Event), NEW s \in State, s.loc.pos \in 0..Len(mine),
         FeeAt(s.rec, s.loc, mine, s.loc.pos), NEW r, r.loc.paid = s.loc.paid,
         NEW n \in 0..Len(mine), FeeFrom(r.rec.fee, s, mine, n)
  PROVE  FeeAt(r.rec, r.loc, mine, n)
<1>1. Deposits(mine)[n] \in Nat /\ Deposits(mine)[s.loc.pos] \in Nat
  BY DepositsUnfolds
<1>2. \A a, b \in Nat : a + b - a = b OBVIOUS
<1>3. CASE s.loc.paid BY <1>3 DEF FeeAt, FeeFrom
<1>4. CASE ~s.loc.paid BY <1>1, <1>2, <1>4 DEF FeeAt, FeeFrom
<1> QED BY <1>3, <1>4

LEMMA RanDone ==
  ASSUME NEW lists \in [Reader -> Seq(Event)], NEW mine \in Seq(Event), NEW s,
         Ready(s, lists[s.loc.of], mine), NEW r, Ran(r, s, lists[s.loc.of], mine)
  PROVE  Done(r, s, lists, mine)
<1>0. s \in State /\ s.loc.of \in Reader /\ s.rec.fee \in Int
      /\ s.loc.pos \in 0..Len(lists[s.loc.of])
  BY DEF Ready, State, Loc, Rec
<1>1. PICK events \in Seq(Event) : events = lists[s.loc.of] BY <1>0
<1>2. Len(events) \in Nat BY LenProperties
<1>3. CASE Suspended(r)
  <2>1. Halted(r, s, events, mine) BY <1>1, <1>3 DEF Ran
  <2>2. r.loc.pos \in 1..Len(events) BY <1>0, <1>1, <1>2, <2>1 DEF Halted
  <2>3. ASSUME events = mine
        PROVE  /\ mine = <<>> => r.rec.fee = s.rec.fee
               /\ FeeAt(s.rec, s.loc, mine, s.loc.pos) => FeeAt(r.rec, r.loc, mine, r.loc.pos)
    <3>1. mine # <<>> BY <1>2, <2>2, <2>3, EmptySeq
    <3>2. r.loc.pos \in 0..Len(mine) BY <1>2, <2>2, <2>3
    <3> QED BY <1>0, <1>1, <2>1, <2>3, <3>1, <3>2, FeeGoesOn DEF Halted
  <2> QED BY <1>1, <1>3, <2>1, <2>2, <2>3 DEF Done, Halted
<1>4. CASE ~Suspended(r)
  <2>1. Finished(r, s, events, mine) BY <1>1, <1>4 DEF Ran
  <2>2. ASSUME events = mine
        PROVE  /\ mine = <<>> => r.rec.fee = s.rec.fee
               /\ FeeAt(s.rec, s.loc, mine, s.loc.pos) => FeeAt(r.rec, r.loc, mine, Len(mine))
    <3>1. Len(mine) \in 0..Len(mine) BY <1>2, <2>2
    <3>2. ASSUME mine = <<>> PROVE r.rec.fee = s.rec.fee
      <4>1. Len(events) = 0 /\ s.loc.pos = 0 BY <1>0, <1>1, <2>2, <3>2, EmptySeq
      <4>2. Deposits(events)[0] = 0 BY DepositsUnfolds
      <4> QED BY <1>0, <2>1, <4>1, <4>2 DEF Finished, FeeFrom
    <3> QED BY <1>0, <1>1, <2>1, <2>2, <3>1, <3>2, FeeGoesOn DEF Finished
  <2> QED BY <1>1, <1>4, <2>1, <2>2 DEF Done, Finished
<1> QED BY <1>3, <1>4

LEMMA ProcessDone ==
  ASSUME NEW o, NEW lists \in [Reader -> Seq(Event)], NEW mine \in Seq(Event),
         \A u \in Reader : Fits(lists[u], mine),
         NEW s, Ready(s, lists[s.loc.of], mine), s.rec.events # {}
  PROVE  Done(Process(o, s, lists), s, lists, mine)
<1>0. s \in State /\ s.loc.of \in Reader /\ s.rec \in Rec BY DEF Ready, State, Loc
<1>1. PICK one : one = Loop(s, lists) OBVIOUS
<1>2. Ran(one, s, lists[s.loc.of], mine) BY <1>0, <1>1, LoopShape
<1>3. Done(one, s, lists, mine) BY <1>2, RanDone
<1>4. CASE ~Again(o, one) BY <1>1, <1>3, <1>4 DEF Process
<1>5. CASE Again(o, one)
  <2>1. ~Suspended(one) BY <1>5 DEF Again
  <2>2. Finished(one, s, lists[s.loc.of], mine) BY <1>2, <2>1 DEF Ran
  <2>3. /\ one \in State /\ SameRec(one.rec, s.rec) /\ Facts(one.rec, mine)
        /\ one.rec \in Rec /\ one.rec.events = s.rec.events
    BY <2>2 DEF Finished, State, SameRec
  <2>4. PICK b : b = Enter(one.rec, lists, TRUE) OBVIOUS
  <2>5. b.loc.of \in s.rec.events /\ Entered(b, one.rec, lists[b.loc.of], TRUE)
    BY <2>3, <2>4, EnterShape
  <2>6. b \in State /\ b.loc.of \in Reader /\ b.loc.pos = 0 /\ b.rec.events = s.rec.events
        /\ SameRec(b.rec, one.rec) /\ b.rec.success = one.rec.success
        /\ b.rec.message = one.rec.message /\ ~b.loc.possible
    BY <1>0, <2>3, <2>5 DEF Entered, SameRec, Rec
  <2>7. Ready(b, lists[b.loc.of], mine)
    <3>1. Len(lists[b.loc.of]) \in Nat BY <2>6, LenProperties
    <3>2. Facts(b.rec, mine) BY <2>3, <2>6 DEF Facts
    <3> QED BY <2>6, <3>1, <3>2 DEF Ready
  <2>8. PICK r : r = Loop(b, lists) OBVIOUS
  <2>9. Done(r, b, lists, mine) BY <2>6, <2>7, <2>8, LoopShape, RanDone
  <2>10. Process(o, s, lists) = r BY <1>1, <1>5, <2>4, <2>8 DEF Process
  <2>11. SameRec(r.rec, s.rec) BY <2>3, <2>6, <2>9 DEF Done, SameRec
  <2>12. s.rec.success # "none" => r.rec.success # "none"
    BY <1>3, <2>6, <2>9 DEF Done
  <2>13. Suspended(r) =>
           /\ r.loc.of \in s.rec.events \cup {s.loc.of}
           /\ r.loc.pos \in 1..Len(lists[r.loc.of])
           /\ IsModuleError(lists[r.loc.of][r.loc.pos])
           /\ ~r.loc.possible /\ r.rec.success # "none"
    BY <2>5, <2>6, <2>9 DEF Done
  <2>14. /\ ~Suspended(r) /\ s.loc.pos = 0
         /\ SuccessIn(lists[s.loc.of]) \/ FailureIn(lists[s.loc.of])
         => r.rec.success # "none"
    BY <1>3, <2>1, <2>6, <2>9 DEF Done
  <2>15. ASSUME \A u \in s.rec.events \cup {s.loc.of} : lists[u] = mine
         PROVE  /\ mine = <<>> => r.rec.fee = s.rec.fee
                /\ mine # <<>> =>
                     FeeAt(r.rec, r.loc, mine, IF Suspended(r) THEN r.loc.pos ELSE Len(mine))
    <3>1. lists[b.loc.of] = mine /\ \A u \in b.rec.events \cup {b.loc.of} : lists[u] = mine
      BY <2>5, <2>6, <2>15
    <3>2. mine = <<>> => b.rec.fee = one.rec.fee BY <2>5, <3>1 DEF Entered
    <3>3. mine = <<>> => one.rec.fee = s.rec.fee BY <1>3, <2>15 DEF Done
    <3>4. mine # <<>> => FeeAt(b.rec, b.loc, mine, 0) BY <2>5, <3>1 DEF Entered
    <3> QED BY <2>6, <2>9, <3>1, <3>2, <3>3, <3>4 DEF Done
  <2> QED BY <2>9, <2>10, <2>11, <2>12, <2>13, <2>14, <2>15 DEF Done
<1> QED BY <1>4, <1>5

(***************************************************************************)
(* The inductive invariant.                                                *)
(***************************************************************************)

Typed ==
  /\ block \in Block /\ receipt \in Rec /\ list \in [Reader -> Seq(Event)]
  /\ pc \in [Reader -> Away \cup {"idle"}] /\ op \in [Reader -> Op]
  /\ local \in [Reader -> Loc] /\ answer \in [Reader -> {"none", "returned", "raised"}]
  /\ mixed \in BOOLEAN

Idle == \A t \in Reader : pc[t] = "idle"

\* Every list is empty or ends in all the events of the extrinsic, and has no
\* others; what is read from them is blank before there is one.
Listing ==
  /\ receipt.events # {} => receipt.idx # -1
  /\ \A u \in Reader : Fits(list[u], Mine)
  /\ receipt.events = {} =>
       /\ \A u \in Reader : list[u] = <<>>
       /\ receipt.success = "none" /\ receipt.message = "none" /\ receipt.fee = -1

\* What the place of a reader says of the receipt and of its list.
Placed ==
  /\ pc[Caller] = "idle"
  /\ ~receipt.async => Idle /\ receipt.events \subseteq {Caller}
  /\ \A t \in Reader :
       /\ pc[t] \in {"fetching", "resolving"} => receipt.events # {}
       /\ pc[t] = "numbering" => op[t] = "identifier"
       /\ pc[t] = "locating" /\ op[t] # "identifier"
            => list[t] = <<>> /\ t \notin receipt.events
       /\ pc[t] = "resolving" =>
            /\ local[t].pos \in 1..Len(list[local[t].of])
            /\ IsModuleError(list[local[t].of][local[t].pos])
            /\ ~local[t].possible /\ receipt.success # "none"

\* The fee by the chain's events, as the code adds it up.
FeeOf(mine) == IF FeePaid(mine)[2] THEN FeePaid(mine)[1] ELSE Deposits(mine)[Len(mine)]

\* While the reads do not overlap, each list is the events, once.
Alone ==
  /\ \A t, u \in Reader : pc[t] \in Away /\ pc[u] \in Away => t = u
  /\ \A t \in Reader :
       /\ pc[t] = "locating" /\ op[t] # "identifier" => receipt.events = {}
       /\ pc[t] = "fetching" => receipt.events = {t} /\ list[t] = <<>>
       /\ pc[t] = "resolving" =>
            /\ local[t].of \in receipt.events
            /\ FeeAt(receipt, local[t], Mine, local[t].pos)
  /\ (\A t \in Reader : pc[t] # "fetching") => \A u \in receipt.events : list[u] = Mine
  /\ (\A t \in Reader : pc[t] # "resolving") /\ receipt.fee # -1
       => Mine # <<>> /\ receipt.fee = FeeOf(Mine)

\* A read that has returned found what the chain says, if it says anything.
Answered ==
  \A t \in Reader : answer[t] = "returned" =>
    /\ op[t] \in {"success", "fee"} => receipt.events # {}
    /\ op[t] = "success" /\ (SuccessIn(Mine) \/ FailureIn(Mine))
         => receipt.success # "none"
    /\ op[t] = "fee" /\ Mine # <<>> => receipt.fee # -1

IInv ==
  /\ Typed /\ Listing /\ Placed
  /\ Facts(receipt, Mine)
  /\ ~mixed => Alone /\ Answered

\* What a step never takes back.
Keeps ==
  /\ receipt.events # {} => Mine' = Mine
  /\ receipt.success # "none" => receipt'.success # "none"

LEMMA MineType == ASSUME Typed PROVE Mine \in Seq(Event)
BY EventsOfType, ReceiptAssumption DEF Mine, Typed

LEMMA MineKept ==
  ASSUME block' = block, receipt'.idx = receipt.idx
  PROVE  Mine' = Mine
BY DEF Mine

LEMMA InitIInv == Init => IInv
<1> SUFFICES ASSUME Init PROVE IInv OBVIOUS
<1>1. PICK yes \in BOOLEAN, async \in BOOLEAN :
        receipt \in {Submitted(async, yes),
                     IF async THEN FromIdentifier(block.asked, yes)
                              ELSE SyncFromIdentifier(block.asked, yes)}
  BY DEF Init
<1>2. block \in Block /\ block.asked \in Nat BY ReceiptAssumption DEF Init
<1>3. \E a, n \in BOOLEAN, i \in Nat \cup {-1} : receipt = NewReceipt(a, yes, n, i)
  <2>1. CASE receipt = Submitted(async, yes) BY <2>1 DEF Submitted
  <2>2. CASE async /\ receipt = FromIdentifier(block.asked, yes)
    BY <1>2, <2>2 DEF FromIdentifier
  <2>3. CASE ~async /\ receipt = SyncFromIdentifier(block.asked, yes)
    BY <1>2, <2>3 DEF SyncFromIdentifier
  <2> QED BY <1>1, <2>1, <2>2, <2>3
<1>4. /\ receipt \in Rec /\ receipt.events = {} /\ receipt.success = "none"
      /\ receipt.message = "none" /\ receipt.fee = -1
  BY <1>3 DEF NewReceipt, Rec
<1>5. /\ list = [t \in Reader |-> <<>>] /\ pc = [t \in Reader |-> "idle"]
      /\ op = [t \in Reader |-> "success"] /\ answer = [t \in Reader |-> "none"]
      /\ local = [t \in Reader |-> [of |-> t, pos |-> 0, possible |-> FALSE,
                                    paid |-> FALSE, last |-> FALSE]]
      /\ mixed = FALSE
  BY DEF Init
<1>6. Typed
  <2>1. \A t \in Reader : [of |-> t, pos |-> 0, possible |-> FALSE,
                           paid |-> FALSE, last |-> FALSE] \in Loc
    BY DEF Loc
  <2>2. local \in [Reader -> Loc] BY <1>5, <2>1
  <2>3. <<>> \in Seq(Event) BY EmptySeq
  <2> QED BY <1>2, <1>4, <1>5, <2>2, <2>3 DEF Typed, Op, Away
<1>7. Listing
  <2>1. \A u \in Reader : list[u] = <<>> BY <1>5
  <2> QED BY <1>4, <2>1 DEF Listing, Fits
<1>8. Placed BY <1>4, <1>5 DEF Placed, Idle, Reader
<1>9. Facts(receipt, Mine) BY <1>4 DEF Facts
<1>10. Alone BY <1>4, <1>5 DEF Alone, Away
<1>11. Answered BY <1>5 DEF Answered
<1> QED BY <1>6, <1>7, <1>8, <1>9, <1>10, <1>11 DEF IInv

\* The receipt when the events have not been touched.
Same(rec) ==
  /\ rec \in Rec /\ rec.async = receipt.async /\ rec.events = receipt.events
  /\ rec.success = receipt.success /\ rec.message = receipt.message
  /\ rec.fee = receipt.fee
  /\ rec.idx = receipt.idx \/ receipt.events = {}
  /\ rec.idx = -1 => receipt.idx = -1

\* One reader moves on.
Moves(t, place, how, o) ==
  /\ pc' = [pc EXCEPT ![t] = place] /\ answer' = [answer EXCEPT ![t] = how]
  /\ op' = [op EXCEPT ![t] = o]

LEMMA Moved ==
  ASSUME Typed, NEW t \in Reader, NEW place \in Away \cup {"idle"},
         NEW how \in {"none", "returned", "raised"}, NEW o \in Op,
         Moves(t, place, how, o)
  PROVE  /\ pc' \in [Reader -> Away \cup {"idle"}] /\ op' \in [Reader -> Op]
         /\ answer' \in [Reader -> {"none", "returned", "raised"}]
         /\ pc'[t] = place /\ op'[t] = o /\ answer'[t] = how
         /\ \A u \in Reader \ {t} : pc'[u] = pc[u] /\ op'[u] = op[u] /\ answer'[u] = answer[u]
BY DEF Typed, Moves

\* Without the events, which extrinsic it is may become known: there is nothing
\* that rests on it yet.
LEMMA SameListing ==
  ASSUME Typed, Listing, Facts(receipt, Mine), block' = block, Same(receipt'), list' = list
  PROVE  /\ Listing' /\ Facts(receipt', Mine') /\ Keeps
         /\ receipt.events # {} => Mine' = Mine
<1>1. CASE receipt.events # {}
  <2>1. Mine' = Mine BY <1>1, MineKept DEF Same
  <2> QED BY <1>1, <2>1 DEF Listing, Facts, Keeps, Same
<1>2. CASE receipt.events = {}
  BY <1>2 DEF Listing, Facts, Keeps, Same, Fits
<1> QED BY <1>1, <1>2

LEMMA PlainStep ==
  ASSUME IInv, block' = block, list' = list, local' = local, Same(receipt'),
         NEW t \in Reader, NEW place \in {"idle", "locating", "numbering"},
         NEW how \in {"none", "returned", "raised"}, NEW o \in Op,
         Moves(t, place, how, o),
         place # "idle" => t \in Task /\ receipt.async,
         place = "numbering" => o = "identifier",
         place = "locating" /\ o # "identifier" => receipt.events = {},
         mixed' \in BOOLEAN,
         ~mixed' => /\ ~mixed /\ \A u \in Reader \ {t} : pc[u] \notin Away
                    /\ pc[t] \notin {"fetching", "resolving"},
         ~mixed' /\ how = "returned" =>
           /\ o = "success" => receipt.success # "none"
           /\ o = "fee" => receipt.fee # -1
  PROVE  IInv' /\ Keeps
<1>1. Typed /\ Listing /\ Placed /\ Facts(receipt, Mine) BY DEF IInv
<1>2. Listing' /\ Facts(receipt', Mine') /\ Keeps /\ (receipt.events # {} => Mine' = Mine)
  BY <1>1, SameListing
<1>3. /\ pc' \in [Reader -> Away \cup {"idle"}] /\ op' \in [Reader -> Op]
      /\ answer' \in [Reader -> {"none", "returned", "raised"}]
      /\ pc'[t] = place /\ op'[t] = o /\ answer'[t] = how
      /\ \A u \in Reader \ {t} : pc'[u] = pc[u] /\ op'[u] = op[u] /\ answer'[u] = answer[u]
  BY <1>1, Moved DEF Away
<1>4. Typed' BY <1>1, <1>3 DEF Typed, Same
<1>5. Placed'
  <2>1. pc'[Caller] = "idle"
    BY <1>1, <1>3, ReceiptAssumption DEF Placed, Reader
  <2>2. ~receipt'.async => Idle' /\ receipt'.events \subseteq {Caller}
    BY <1>1, <1>3 DEF Placed, Same, Idle
  <2>3. ASSUME NEW u \in Reader
        PROVE  /\ pc'[u] \in {"fetching", "resolving"} => receipt'.events # {}
               /\ pc'[u] = "numbering" => op'[u] = "identifier"
               /\ pc'[u] = "locating" /\ op'[u] # "identifier"
                    => list'[u] = <<>> /\ u \notin receipt'.events
               /\ pc'[u] = "resolving" =>
                    /\ local'[u].pos \in 1..Len(list'[local'[u].of])
                    /\ IsModuleError(list'[local'[u].of][local'[u].pos])
                    /\ ~local'[u].possible /\ receipt'.success # "none"
    <3>1. CASE u = t BY <1>1, <1>3, <3>1 DEF Same, Listing
    <3>2. CASE u # t BY <1>1, <1>3, <3>2 DEF Placed, Same
    <3> QED BY <3>1, <3>2
  <2> QED BY <2>1, <2>2, <2>3 DEF Placed
<1>6. ASSUME ~mixed' PROVE Alone'
  <2>1. Alone /\ \A u \in Reader \ {t} : pc[u] \notin Away BY <1>6 DEF IInv
  <2>2. \A u \in Reader : pc'[u] \in Away => u = t BY <1>3, <2>1
  <2>3. \A u \in Reader : pc[u] \notin {"fetching", "resolving"} BY <1>6, <2>1 DEF Away
  <2>4. \A u \in Reader : pc'[u] \notin {"fetching", "resolving"} BY <1>3, <2>2 DEF Away
  <2>5. \A u \in receipt'.events : list'[u] = Mine'
    BY <1>2, <2>1, <2>3 DEF Alone, Same
  <2>6. receipt'.fee # -1 => Mine' # <<>> /\ receipt'.fee = FeeOf(Mine')
    <3>1. receipt.fee # -1 => receipt.events # {} BY <1>1 DEF Listing
    <3>2. receipt.fee # -1 => Mine # <<>> /\ receipt.fee = FeeOf(Mine)
      BY <2>1, <2>3 DEF Alone
    <3>3. receipt'.fee = receipt.fee BY DEF Same
    <3> QED BY <1>2, <3>1, <3>2, <3>3
  <2>7. \A u \in Reader : pc'[u] = "locating" /\ op'[u] # "identifier" => receipt'.events = {}
    BY <1>3, <2>2 DEF Same, Away
  <2> QED BY <2>2, <2>4, <2>5, <2>6, <2>7 DEF Alone
<1>7. ASSUME ~mixed' PROVE Answered'
  <2>1. Answered BY <1>7 DEF IInv
  <2> SUFFICES ASSUME NEW u \in Reader, answer'[u] = "returned"
               PROVE  /\ op'[u] \in {"success", "fee"} => receipt'.events # {}
                      /\ op'[u] = "success" /\ (SuccessIn(Mine') \/ FailureIn(Mine'))
                           => receipt'.success # "none"
                      /\ op'[u] = "fee" /\ Mine' # <<>> => receipt'.fee # -1
    BY DEF Answered
  <2>2. CASE u = t BY <1>1, <1>3, <1>7, <2>2 DEF Same, Listing
  <2>3. CASE u # t BY <1>2, <1>3, <2>1, <2>3 DEF Answered, Same
  <2> QED BY <2>2, <2>3
<1> QED BY <1>2, <1>4, <1>5, <1>6, <1>7 DEF IInv

\* A reader makes a list, and the receipt refers to it.
LEMMA StartStep ==
  ASSUME IInv, block' = block, local' = local, NEW rec, Same(rec), rec.idx # -1,
         NEW t \in Task, receipt.async, receipt' = [rec EXCEPT !.events = {t}],
         list' = [list EXCEPT ![t] = <<>>], list[t] = <<>>,
         NEW o \in Op, Moves(t, "fetching", "none", o),
         mixed' \in BOOLEAN,
         ~mixed' => /\ ~mixed /\ \A u \in Reader \ {t} : pc[u] \notin Away
                    /\ receipt.events = {}
  PROVE  IInv' /\ Keeps
<1>0. t \in Reader BY DEF Reader
<1>1. Typed /\ Listing /\ Placed /\ Facts(receipt, Mine) BY DEF IInv
<1>2. /\ receipt' \in Rec /\ receipt'.async = receipt.async /\ receipt'.events = {t}
      /\ receipt'.success = receipt.success /\ receipt'.message = receipt.message
      /\ receipt'.fee = receipt.fee /\ receipt'.idx = rec.idx
  BY <1>0 DEF Same, Rec
<1>3. list' = list BY <1>1 DEF Typed
<1>4. receipt.events # {} => Mine' = Mine BY <1>2, MineKept DEF Same
<1>5. /\ pc' \in [Reader -> Away \cup {"idle"}] /\ op' \in [Reader -> Op]
      /\ answer' \in [Reader -> {"none", "returned", "raised"}]
      /\ pc'[t] = "fetching" /\ op'[t] = o /\ answer'[t] = "none"
      /\ \A u \in Reader \ {t} : pc'[u] = pc[u] /\ op'[u] = op[u] /\ answer'[u] = answer[u]
  BY <1>0, <1>1, Moved DEF Away
<1>6. Typed' BY <1>1, <1>2, <1>3, <1>5 DEF Typed
<1>7. Listing'
  <2>1. ASSUME NEW u \in Reader PROVE Fits(list'[u], Mine')
    BY <1>1, <1>3, <1>4 DEF Listing, Fits
  <2> QED BY <1>2, <2>1 DEF Listing
<1>8. Facts(receipt', Mine')
  BY <1>1, <1>2, <1>4 DEF Facts, Listing
<1>9. Placed'
  <2>1. pc'[Caller] = "idle" BY <1>1, <1>5, ReceiptAssumption DEF Placed, Reader
  <2>2. ~receipt'.async => Idle' /\ receipt'.events \subseteq {Caller} BY <1>2
  <2>3. ASSUME NEW u \in Reader
        PROVE  /\ pc'[u] \in {"fetching", "resolving"} => receipt'.events # {}
               /\ pc'[u] = "numbering" => op'[u] = "identifier"
               /\ pc'[u] = "locating" /\ op'[u] # "identifier"
                    => list'[u] = <<>> /\ u \notin receipt'.events
               /\ pc'[u] = "resolving" =>
                    /\ local'[u].pos \in 1..Len(list'[local'[u].of])
                    /\ IsModuleError(list'[local'[u].of][local'[u].pos])
                    /\ ~local'[u].possible /\ receipt'.success # "none"
    <3>1. CASE u = t BY <1>2, <1>5, <3>1
    <3>2. CASE u # t BY <1>1, <1>2, <1>3, <1>5, <3>2 DEF Placed
    <3> QED BY <3>1, <3>2
  <2> QED BY <2>1, <2>2, <2>3 DEF Placed
<1>10. ASSUME ~mixed' PROVE Alone'
  <2>1. \A u \in Reader : pc'[u] \in Away => u = t BY <1>5, <1>10
  <2>2. \A u \in Reader : pc'[u] \in {"fetching", "resolving", "locating"} => u = t
    BY <2>1 DEF Away
  <2>3. receipt'.fee = -1 BY <1>1, <1>2, <1>10 DEF Listing
  <2>4. list'[t] = <<>> BY <1>3
  <2> QED BY <1>0, <1>2, <1>5, <2>1, <2>2, <2>3, <2>4 DEF Alone
<1>11. ASSUME ~mixed' PROVE Answered'
  <2>1. Answered /\ receipt.events = {} BY <1>11 DEF IInv
  <2>2. \A u \in Reader : answer'[u] = "returned" => op'[u] \notin {"success", "fee"}
    BY <1>5, <2>1 DEF Answered
  <2> QED BY <2>2 DEF Answered
<1>12. Keeps BY <1>2, <1>4 DEF Keeps
<1> QED BY <1>6, <1>7, <1>8, <1>9, <1>10, <1>11, <1>12 DEF IInv

LEMMA FeeOfType ==
  ASSUME NEW mine \in Seq(Event)
  PROVE  /\ FeeOf(mine) \in Nat
         /\ \A rec, loc : FeeAt(rec, loc, mine, Len(mine)) => rec.fee = FeeOf(mine)
<1>1. Len(mine) \in 0..Len(mine) BY LenProperties
<1>2. Deposits(mine)[Len(mine)] \in Nat BY <1>1, DepositsUnfolds
<1> QED BY <1>2, FeePaidType DEF FeeOf, FeeAt

\* The lists that grow do so at their ends.
Grown(lists) ==
  \A u \in Reader :
    /\ Len(list[u]) <= Len(lists[u])
    /\ \A n \in 1..Len(list[u]) : lists[u][n] = list[u][n]
    /\ u \notin receipt.events => lists[u] = list[u]

LEMMA ContinueStep ==
  ASSUME IInv, block' = block, NEW t \in Task, receipt.async, receipt.events # {},
         NEW lists \in [Reader -> Seq(Event)], list' = lists,
         \A u \in Reader : Fits(lists[u], Mine), Grown(lists),
         NEW s, Ready(s, lists[s.loc.of], Mine), SameRec(s.rec, receipt),
         receipt.success # "none" => s.rec.success # "none",
         s.loc.pos > 0 => s.rec.success # "none",
         NEW o \in Op, op' = [op EXCEPT ![t] = o], Continue(t, o, s, lists),
         mixed' \in BOOLEAN,
         ~mixed' => /\ ~mixed /\ \A u \in Reader \ {t} : pc[u] \notin Away
                    /\ s.loc.of \in receipt.events
                    /\ \A u \in receipt.events : lists[u] = Mine
                    /\ Mine = <<>> => s.rec.fee = -1
                    /\ Mine # <<>> => FeeAt(s.rec, s.loc, Mine, s.loc.pos)
  PROVE  IInv' /\ Keeps
<1>0. t \in Reader BY DEF Reader
<1>1. Typed /\ Listing /\ Placed /\ Facts(receipt, Mine) BY DEF IInv
<1>2. Mine \in Seq(Event) BY <1>1, MineType
<1>3. PICK r : r = Process(o, s, lists) OBVIOUS
<1>4. Done(r, s, lists, Mine)
  <2>1. s.rec.events # {} BY DEF SameRec
  <2> HIDE DEF Mine
  <2> QED BY <1>2, <1>3, <2>1, ProcessDone
<1>5. /\ r \in State /\ r.rec \in Rec /\ r.loc \in Loc /\ SameRec(r.rec, receipt)
      /\ Facts(r.rec, Mine)
      /\ receipt.success # "none" => r.rec.success # "none"
  BY <1>4 DEF Done, SameRec, State
<1>6. receipt' = r.rec /\ local' = [local EXCEPT ![t] = r.loc]
      /\ local' \in [Reader -> Loc] /\ local'[t] = r.loc
      /\ \A u \in Reader \ {t} : local'[u] = local[u]
  BY <1>0, <1>1, <1>3, <1>5 DEF Continue, Typed
<1>7. PICK place \in {"idle", "resolving"}, how \in {"none", "returned"} :
        /\ Moves(t, place, how, o)
        /\ Suspended(r) => place = "resolving" /\ how = "none"
        /\ ~Suspended(r) => place = "idle" /\ how = "returned"
  <2>1. CASE Suspended(r) BY <1>3, <2>1 DEF Continue, Await, Goto, Moves
  <2>2. CASE ~Suspended(r) BY <1>3, <2>2 DEF Continue, End, Goto, Moves
  <2> QED BY <2>1, <2>2
<1>8. /\ pc' \in [Reader -> Away \cup {"idle"}] /\ op' \in [Reader -> Op]
      /\ answer' \in [Reader -> {"none", "returned", "raised"}]
      /\ pc'[t] = place /\ op'[t] = o /\ answer'[t] = how
      /\ \A u \in Reader \ {t} : pc'[u] = pc[u] /\ op'[u] = op[u] /\ answer'[u] = answer[u]
  BY <1>0, <1>1, <1>7, Moved DEF Away
<1>9. Mine' = Mine BY <1>5, <1>6, MineKept DEF SameRec
<1>10. Typed' BY <1>1, <1>5, <1>6, <1>8 DEF Typed
<1>11. receipt'.events = receipt.events /\ receipt'.idx = receipt.idx
       /\ receipt'.async = receipt.async
  BY <1>5, <1>6 DEF SameRec
<1>12. Listing' BY <1>1, <1>9, <1>11 DEF Listing
<1>13. Placed'
  <2>1. pc'[Caller] = "idle" BY <1>1, <1>8, ReceiptAssumption DEF Placed, Reader
  <2>2. ~receipt'.async => Idle' /\ receipt'.events \subseteq {Caller} BY <1>11
  <2>3. ASSUME NEW u \in Reader
        PROVE  /\ pc'[u] \in {"fetching", "resolving"} => receipt'.events # {}
               /\ pc'[u] = "numbering" => op'[u] = "identifier"
               /\ pc'[u] = "locating" /\ op'[u] # "identifier"
                    => list'[u] = <<>> /\ u \notin receipt'.events
               /\ pc'[u] = "resolving" =>
                    /\ local'[u].pos \in 1..Len(list'[local'[u].of])
                    /\ IsModuleError(list'[local'[u].of][local'[u].pos])
                    /\ ~local'[u].possible /\ receipt'.success # "none"
    <3>1. CASE u = t BY <1>4, <1>6, <1>7, <1>8, <1>11, <3>1 DEF Done
    <3>2. CASE u # t
      <4>1. pc[u] = "resolving" =>
              /\ local[u].pos \in 1..Len(list[local[u].of])
              /\ IsModuleError(list[local[u].of][local[u].pos])
              /\ ~local[u].possible /\ receipt.success # "none"
        BY <1>1 DEF Placed
      <4>2. local[u].of \in Reader BY <1>1 DEF Typed, Loc
      <4>3. /\ Len(list[local[u].of]) <= Len(lists[local[u].of])
            /\ Len(list[local[u].of]) \in Nat /\ Len(lists[local[u].of]) \in Nat
            /\ \A n \in 1..Len(list[local[u].of]) :
                 lists[local[u].of][n] = list[local[u].of][n]
        BY <1>1, <4>2, LenProperties DEF Grown, Typed
      <4>4. pc[u] = "resolving" => local[u].pos \in 1..Len(lists[local[u].of])
        BY <4>1, <4>3
      <4>5. pc'[u] = pc[u] /\ op'[u] = op[u] /\ local'[u] = local[u]
        BY <1>6, <1>8, <3>2
      <4>6. pc[u] = "locating" /\ op[u] # "identifier"
              => lists[u] = <<>> /\ u \notin receipt.events
        BY <1>1 DEF Placed, Grown
      <4> QED BY <1>1, <1>5, <1>6, <1>11, <4>1, <4>3, <4>4, <4>5, <4>6 DEF Placed
    <3> QED BY <3>1, <3>2
  <2> QED BY <2>1, <2>2, <2>3 DEF Placed
<1>14. \A u \in Reader \ {t} : ~mixed' => pc'[u] \notin Away BY <1>8
<1>15. ASSUME ~mixed'
       PROVE  /\ Suspended(r) => r.loc.of \in receipt.events /\ FeeAt(r.rec, r.loc, Mine, r.loc.pos)
              /\ ~Suspended(r) /\ Mine = <<>> => r.rec.fee = -1
              /\ ~Suspended(r) /\ Mine # <<>> => r.rec.fee = FeeOf(Mine)
              /\ ~Suspended(r) /\ (SuccessIn(Mine) \/ FailureIn(Mine))
                   => r.rec.success # "none"
  <2>1. s.rec.events = receipt.events /\ lists[s.loc.of] = Mine
    BY <1>15 DEF SameRec
  <2>2. \A u \in s.rec.events \cup {s.loc.of} : lists[u] = Mine BY <1>15, <2>1
  <2>3. Suspended(r) => Mine # <<>> /\ r.loc.of \in receipt.events
    <3>1. ASSUME Suspended(r)
          PROVE  r.loc.pos \in 1..Len(Mine) /\ r.loc.of \in receipt.events
      BY <1>4, <1>15, <2>1, <2>2, <3>1 DEF Done
    <3>2. Len(<<>>) = 0 BY EmptySeq
    <3> QED BY <3>1, <3>2
  <2>4. /\ Mine = <<>> => r.rec.fee = -1
        /\ Mine # <<>> => FeeAt(r.rec, r.loc, Mine, IF Suspended(r) THEN r.loc.pos ELSE Len(Mine))
    BY <1>4, <1>15, <2>2 DEF Done
  <2>5. ~Suspended(r) /\ (SuccessIn(Mine) \/ FailureIn(Mine)) => r.rec.success # "none"
    <3>1. CASE s.loc.pos = 0 BY <1>4, <2>1, <3>1 DEF Done
    <3>2. CASE s.loc.pos > 0 BY <1>4, <3>2 DEF Done
    <3>3. s.loc.pos \in Nat BY LenProperties DEF Ready
    <3> QED BY <3>1, <3>2, <3>3
  <2>6. ~Suspended(r) /\ Mine # <<>> => r.rec.fee = FeeOf(Mine)
    <3>1. ~Suspended(r) /\ Mine # <<>> => FeeAt(r.rec, r.loc, Mine, Len(Mine)) BY <2>4
    <3> HIDE DEF Mine
    <3> QED BY <1>2, <3>1, FeeOfType
  <2> QED BY <2>3, <2>4, <2>5, <2>6
<1>16. ASSUME ~mixed' PROVE Alone'
  <2>1. \A u \in Reader : pc'[u] \in Away => u = t BY <1>14, <1>16
  <2>2. \A u \in Reader : pc'[u] \notin {"fetching", "locating"}
    BY <1>7, <1>8, <2>1 DEF Away
  <2>3. \A u \in Reader : pc'[u] = "resolving" =>
          local'[u].of \in receipt'.events /\ FeeAt(receipt', local'[u], Mine', local'[u].pos)
    BY <1>6, <1>7, <1>8, <1>9, <1>11, <1>15, <1>16, <2>1 DEF Away
  <2>4. (\A u \in Reader : pc'[u] # "resolving") /\ receipt'.fee # -1
          => Mine' # <<>> /\ receipt'.fee = FeeOf(Mine')
    BY <1>0, <1>6, <1>7, <1>8, <1>9, <1>15, <1>16
  <2>5. \A u \in receipt'.events : list'[u] = Mine' BY <1>9, <1>11, <1>16
  <2> QED BY <2>1, <2>2, <2>3, <2>4, <2>5 DEF Alone
<1>17. ASSUME ~mixed' PROVE Answered'
  <2>1. Answered /\ Alone BY <1>17 DEF IInv
  <2> SUFFICES ASSUME NEW u \in Reader, answer'[u] = "returned"
               PROVE  /\ op'[u] \in {"success", "fee"} => receipt'.events # {}
                      /\ op'[u] = "success" /\ (SuccessIn(Mine') \/ FailureIn(Mine'))
                           => receipt'.success # "none"
                      /\ op'[u] = "fee" /\ Mine' # <<>> => receipt'.fee # -1
    BY DEF Answered
  <2>2. Mine # <<>> => receipt'.fee # -1
    <3>1. FeeOf(Mine) \in Nat BY <1>2, FeeOfType
    <3>2. ASSUME Mine # <<>>, Suspended(r) PROVE r.rec.fee # -1
      <4>1. FeeAt(r.rec, r.loc, Mine, r.loc.pos) BY <1>15, <1>17, <3>2
      <4>2. r.loc.pos \in 0..Len(Mine)
        <5>1. r.loc.pos \in 1..Len(lists[r.loc.of]) BY <1>4, <3>2 DEF Done
        <5>2. lists[r.loc.of] = Mine BY <1>15, <1>17, <3>2
        <5> QED BY <5>1, <5>2
      <4>3. Deposits(Mine)[r.loc.pos] \in Nat BY <1>2, <4>2, DepositsUnfolds
      <4> QED BY <1>2, <4>1, <4>3, FeePaidType DEF FeeAt
    <3> QED BY <1>6, <1>15, <1>17, <3>1, <3>2
  <2>3. CASE u = t BY <1>5, <1>6, <1>7, <1>8, <1>9, <1>11, <1>15, <1>17, <2>2, <2>3
  <2>4. CASE u # t
    <3>1. answer[u] = "returned" /\ op'[u] = op[u] BY <1>8, <2>4
    <3> QED BY <1>5, <1>6, <1>9, <1>11, <2>1, <2>2, <3>1 DEF Answered
  <2> QED BY <2>3, <2>4
<1>18. Keeps BY <1>5, <1>6, <1>9 DEF Keeps
<1>19. Facts(receipt', Mine') BY <1>5, <1>6, <1>9
<1> QED BY <1>10, <1>12, <1>13, <1>16, <1>17, <1>18, <1>19 DEF IInv

\* process_events at its beginning.
LEMMA EnterReady ==
  ASSUME Typed, receipt.events # {}, Facts(receipt, Mine), NEW last \in BOOLEAN,
         NEW lists \in [Reader -> Seq(Event)], \A u \in Reader : Fits(lists[u], Mine),
         NEW s, s = Enter(receipt, lists, last)
  PROVE  /\ Ready(s, lists[s.loc.of], Mine) /\ SameRec(s.rec, receipt)
         /\ s.rec.success = receipt.success /\ s.loc.pos = 0
         /\ s.loc.of \in receipt.events
         /\ lists[s.loc.of] = Mine =>
              /\ Mine = <<>> => s.rec.fee = receipt.fee
              /\ Mine # <<>> => FeeAt(s.rec, s.loc, Mine, s.loc.pos)
<1>1. receipt \in Rec BY DEF Typed
<1>2. s.loc.of \in receipt.events /\ Entered(s, receipt, lists[s.loc.of], last)
  BY <1>1, EnterShape
<1>3. lists[s.loc.of] \in Seq(Event) BY <1>1, <1>2 DEF Rec
<1>4. 0 \in 0..Len(lists[s.loc.of]) BY <1>3, LenProperties
<1>5. Ready(s, lists[s.loc.of], Mine)
  <2>1. Facts(s.rec, Mine) BY <1>2 DEF Entered, Facts
  <2> QED BY <1>2, <1>4, <2>1 DEF Ready, Entered
<1> QED BY <1>2, <1>5 DEF Entered

LEMMA LastPassType == ASSUME NEW o PROVE LastPass(o) \in BOOLEAN
BY DEF LastPass

LEMMA FitsSelf ==
  ASSUME NEW mine \in Seq(Event)
  PROVE  /\ Fits(<<>>, mine) /\ <<>> \in Seq(Event) /\ <<>> \o mine = mine
         /\ Fits(mine, mine)
<1>1. Fits(<<>>, mine) /\ <<>> \in Seq(Event) BY EmptySeq DEF Fits
<1>2. <<>> \o mine = mine BY ConcatEmptySeq
<1>3. Fits(<<>> \o mine, mine)
  <2> HIDE DEF Fits
  <2> QED BY <1>1, FitsMore
<1> QED BY <1>1, <1>2, <1>3

LEMMA ReadStep ==
  ASSUME IInv, NEW t \in Task, NEW o \in Op, Read(t, o)
  PROVE  IInv' /\ Keeps
<1>0. t \in Reader /\ t # Caller BY ReceiptAssumption DEF Reader
<1>1. Typed /\ Listing /\ Placed /\ Facts(receipt, Mine) BY DEF IInv
<1>2. /\ block' = block /\ receipt.async /\ pc[t] = "idle" /\ op' = [op EXCEPT ![t] = o]
      /\ mixed' = Overlap(t)
  BY DEF Read
<1>3. mixed' \in BOOLEAN BY <1>1, <1>2 DEF Overlap, Typed
<1>4. ~mixed' => ~mixed /\ \A u \in Reader \ {t} : pc[u] \notin Away
  BY <1>1, <1>2 DEF Overlap, Placed, Reader, Away
<1>5. pc[t] \notin {"fetching", "resolving"} BY <1>2
<1>6. Same(receipt) BY <1>1 DEF Typed, Same
<1>7. CASE Known(o) /\ End(t, "returned") /\ UNCHANGED <<receipt, list, local>>
  <2>1. Moves(t, "idle", "returned", o) BY <1>2, <1>7 DEF End, Goto, Moves
  <2>2. (o = "success" => receipt.success # "none") /\ (o = "fee" => receipt.fee # -1)
    BY <1>7 DEF Known
  <2>3. receipt' = receipt /\ list' = list /\ local' = local BY <1>7
  <2> QED BY <1>0, <1>2, <1>3, <1>4, <1>5, <1>6, <2>1, <2>2, <2>3, PlainStep
<1>8. CASE ~Known(o) /\ o = "identifier" /\ Identifier(t)
  <2>1. receipt' = receipt /\ list' = list /\ local' = local BY <1>8 DEF Identifier
  <2>2. PICK place \in {"idle", "locating", "numbering"}, how \in {"none", "raised"} :
          Moves(t, place, how, o)
    <3>1. \/ End(t, "raised") \/ Await(t, "numbering") \/ Await(t, "locating")
      BY <1>8 DEF Identifier
    <3> QED BY <1>2, <3>1 DEF End, Await, Goto, Moves
  <2> QED BY <1>0, <1>2, <1>3, <1>4, <1>5, <1>6, <1>8, <2>1, <2>2, PlainStep
<1>9. CASE ~Known(o) /\ o # "identifier" /\ TriggeredEvents(t, o)
  <2>1. CASE /\ receipt.events # {}
             /\ Continue(t, o, Enter(receipt, list, LastPass(o)), list)
             /\ list' = list
    <3>1. PICK s : s = Enter(receipt, list, LastPass(o)) OBVIOUS
    <3>2. list \in [Reader -> Seq(Event)] /\ \A u \in Reader : Fits(list[u], Mine)
      BY <1>1 DEF Typed, Listing
    <3>3. /\ Ready(s, list[s.loc.of], Mine) /\ SameRec(s.rec, receipt)
          /\ s.rec.success = receipt.success /\ s.loc.pos = 0
          /\ s.loc.of \in receipt.events
          /\ list[s.loc.of] = Mine =>
               /\ Mine = <<>> => s.rec.fee = receipt.fee
               /\ Mine # <<>> => FeeAt(s.rec, s.loc, Mine, s.loc.pos)
      BY <1>1, <2>1, <3>1, <3>2, LastPassType, EnterReady
    <3>4. Grown(list) BY <1>1, LenProperties DEF Grown, Typed
    <3>5. Continue(t, o, s, list) BY <2>1, <3>1
    <3>6. ASSUME ~mixed'
          PROVE  /\ \A u \in receipt.events : list[u] = Mine
                 /\ Mine = <<>> => s.rec.fee = -1
                 /\ Mine # <<>> => FeeAt(s.rec, s.loc, Mine, s.loc.pos)
      <4>1. Alone /\ \A u \in Reader : pc[u] \notin {"fetching", "resolving"}
        BY <1>4, <1>5, <3>6 DEF IInv, Away
      <4>2. \A u \in receipt.events : list[u] = Mine BY <4>1 DEF Alone
      <4>3. Mine = <<>> => receipt.fee = -1 BY <4>1 DEF Alone
      <4> QED BY <3>3, <4>2, <4>3
    <3>7. ~(s.loc.pos > 0) BY <3>3
    <3> QED BY <1>2, <1>3, <1>4, <2>1, <3>2, <3>3, <3>4, <3>5, <3>6, <3>7, ContinueStep
  <2>2. CASE /\ receipt.events = {} /\ Await(t, "locating")
             /\ UNCHANGED <<receipt, list, local>>
    <3>1. Moves(t, "locating", "none", o) BY <1>2, <2>2 DEF Await, Goto, Moves
    <3>2. receipt' = receipt /\ list' = list /\ local' = local BY <2>2
    <3> QED BY <1>0, <1>2, <1>3, <1>4, <1>5, <1>6, <2>2, <3>1, <3>2, PlainStep
  <2>3. CASE /\ receipt.events = {} /\ receipt.idx # -1 /\ StartList(t, receipt)
             /\ UNCHANGED local
    <3>1. /\ Moves(t, "fetching", "none", o) /\ receipt' = [receipt EXCEPT !.events = {t}]
          /\ list' = [list EXCEPT ![t] = <<>>] /\ local' = local
      BY <1>2, <2>3 DEF StartList, Await, Goto, Moves
    <3>2. list[t] = <<>> BY <1>0, <1>1, <2>3 DEF Listing
    <3> QED BY <1>2, <1>3, <1>4, <1>6, <2>3, <3>1, <3>2, StartStep
  <2>4. CASE End(t, "raised") /\ UNCHANGED <<receipt, list, local>>
    <3>1. Moves(t, "idle", "raised", o) BY <1>2, <2>4 DEF End, Goto, Moves
    <3>2. receipt' = receipt /\ list' = list /\ local' = local BY <2>4
    <3> QED BY <1>0, <1>2, <1>3, <1>4, <1>5, <1>6, <3>1, <3>2, PlainStep
  <2> QED BY <1>9, <2>1, <2>2, <2>3, <2>4 DEF TriggeredEvents
<1> QED BY <1>7, <1>8, <1>9 DEF Read

\* A reader that is away is the only one, unless reads overlap.
LEMMA OnlyAway ==
  ASSUME IInv, NEW t \in Task, pc[t] \in Away
  PROVE  /\ t \in Reader /\ receipt.async
         /\ ~mixed => Alone /\ \A u \in Reader \ {t} : pc[u] \notin Away
<1>1. t \in Reader BY DEF Reader
<1>2. receipt.async BY <1>1 DEF IInv, Placed, Idle, Typed, Rec, Away
<1>3. ~mixed => Alone BY DEF IInv
<1> QED BY <1>1, <1>2, <1>3 DEF Alone

LEMMA NumberedStep ==
  ASSUME IInv, NEW t \in Task, Numbered(t)
  PROVE  IInv' /\ Keeps
<1>1. Typed /\ Placed /\ mixed \in BOOLEAN BY DEF IInv, Typed
<1>2. /\ block' = block /\ list' = list /\ local' = local /\ op' = op /\ mixed' = mixed
      /\ pc[t] = "numbering" /\ pc[t] \in Away
      /\ receipt' = [receipt EXCEPT !.numbered = TRUE]
  BY DEF Numbered, Away
<1>3. /\ t \in Reader /\ receipt.async
      /\ ~mixed => Alone /\ \A u \in Reader \ {t} : pc[u] \notin Away
  BY <1>2, OnlyAway
<1>4. Same(receipt')
  <2>1. PICK yes \in BOOLEAN : receipt' = [receipt EXCEPT !.numbered = yes] BY <1>2
  <2> QED BY <1>1, <2>1 DEF Typed, Same, Rec
<1>5. op[t] = "identifier" /\ op' = [op EXCEPT ![t] = "identifier"]
  BY <1>1, <1>2, <1>3 DEF Placed, Typed
<1>6. PICK place \in {"idle", "locating"}, how \in {"none", "returned"} :
        Moves(t, place, how, "identifier")
  <2>1. Await(t, "locating") \/ End(t, "returned") BY DEF Numbered
  <2> QED BY <1>5, <2>1 DEF Await, End, Goto, Moves
<1>7. "identifier" \in Op BY DEF Op
<1> QED BY <1>1, <1>2, <1>3, <1>4, <1>6, <1>7, PlainStep

LEMMA RetrieveStep ==
  ASSUME IInv, NEW t \in Task, RetrieveExtrinsic(t)
  PROVE  IInv' /\ Keeps
<1>1. Typed /\ Listing /\ Placed /\ mixed \in BOOLEAN BY DEF IInv, Typed
<1>2. /\ block' = block /\ local' = local /\ op' = op /\ mixed' = mixed
      /\ pc[t] = "locating" /\ pc[t] \in Away
  BY DEF RetrieveExtrinsic, Away
<1>3. /\ t \in Reader /\ receipt.async
      /\ ~mixed => Alone /\ \A u \in Reader \ {t} : pc[u] \notin Away
  BY <1>2, OnlyAway
<1>4. PICK o \in Op : o = op[t] BY <1>1, <1>3 DEF Typed
<1>5. op' = [op EXCEPT ![t] = o] BY <1>1, <1>2, <1>4 DEF Typed
<1> DEFINE found == {i \in IndexFound : i < block.size}
           known == IF IndexFound = {} THEN receipt
                    ELSE [receipt EXCEPT !.idx = CHOOSE i \in IndexFound : TRUE]
<1>6. block.at \in Nat \cup {-1} /\ receipt \in Rec BY <1>1, ReceiptAssumption DEF Typed
<1>7. Same(known) /\ (IndexFound # {} => known.idx # -1)
  <2>1. CASE IndexFound = {} BY <1>6, <2>1 DEF Same
  <2>2. CASE IndexFound # {}
    <3>1. PICK i : i = CHOOSE j \in IndexFound : TRUE OBVIOUS
    <3>2. i \in IndexFound BY <2>2, <3>1
    <3>3. /\ i \in Nat \cup {-1} /\ i # -1
          /\ receipt.idx # -1 => i = receipt.idx
      BY <1>6, <3>2 DEF IndexFound, GetExtrinsicIndex, Rec
    <3>4. known = [receipt EXCEPT !.idx = i] BY <2>2, <3>1
    <3>5. receipt.idx = -1 => receipt.events = {} BY <1>1 DEF Listing
    <3> HIDE DEF known
    <3> QED BY <1>6, <3>3, <3>4, <3>5 DEF Same, Rec
  <2> QED BY <2>1, <2>2
<1>8. \/ receipt' = known /\ End(t, "raised") /\ list' = list
      \/ /\ o = "identifier"
         /\ receipt' = known /\ End(t, "returned") /\ list' = list
      \/ found # {} /\ o # "identifier" /\ StartList(t, known)
  BY <1>4 DEF RetrieveExtrinsic
<1>9. found # {} => IndexFound # {} OBVIOUS
<1> HIDE DEF known, found
<1>10. CASE receipt' = known /\ End(t, "raised") /\ list' = list
  <2>1. Moves(t, "idle", "raised", o) BY <1>5, <1>10 DEF End, Goto, Moves
  <2> QED BY <1>1, <1>2, <1>3, <1>7, <1>10, <2>1, PlainStep
<1>11. CASE o = "identifier" /\ receipt' = known /\ End(t, "returned") /\ list' = list
  <2>1. Moves(t, "idle", "returned", o) BY <1>5, <1>11 DEF End, Goto, Moves
  <2> QED BY <1>1, <1>2, <1>3, <1>7, <1>11, <2>1, PlainStep
<1>12. CASE found # {} /\ o # "identifier" /\ StartList(t, known)
  <2>1. /\ Moves(t, "fetching", "none", o) /\ receipt' = [known EXCEPT !.events = {t}]
        /\ list' = [list EXCEPT ![t] = <<>>]
    BY <1>5, <1>12 DEF StartList, Await, Goto, Moves
  <2>2. list[t] = <<>> BY <1>1, <1>2, <1>3, <1>4, <1>12 DEF Placed
  <2>3. ~mixed => receipt.events = {} BY <1>2, <1>3, <1>4, <1>12 DEF Alone
  <2>4. known.idx # -1 BY <1>7, <1>9, <1>12
  <2> QED BY <1>1, <1>2, <1>3, <1>7, <2>1, <2>2, <2>3, <2>4, StartStep
<1> QED BY <1>8, <1>10, <1>11, <1>12

\* The lists when get_events lands.
LEMMA ListsGrow ==
  ASSUME Typed, Listing, NEW of \in receipt.events, NEW lists,
         lists = [list EXCEPT ![of] = list[of] \o Mine]
  PROVE  /\ lists \in [Reader -> Seq(Event)] /\ of \in Reader
         /\ \A u \in Reader : Fits(lists[u], Mine)
         /\ Grown(lists)
         /\ lists[of] = list[of] \o Mine
<1>1. of \in Reader /\ list \in [Reader -> Seq(Event)] BY DEF Typed, Rec
<1>2. Mine \in Seq(Event) /\ \A u \in Reader : Fits(list[u], Mine)
  BY MineType DEF Listing
<1>3. list[of] \o Mine \in Seq(Event) /\ Fits(list[of] \o Mine, Mine)
  <2> HIDE DEF Mine, Fits
  <2> QED BY <1>1, <1>2, FitsMore
<1>4. /\ lists \in [Reader -> Seq(Event)] /\ lists[of] = list[of] \o Mine
      /\ \A u \in Reader \ {of} : lists[u] = list[u]
  BY <1>1, <1>3
<1>5. Grown(lists)
  <2> SUFFICES ASSUME NEW u \in Reader
               PROVE  /\ Len(list[u]) <= Len(lists[u])
                      /\ \A n \in 1..Len(list[u]) : lists[u][n] = list[u][n]
                      /\ u \notin receipt.events => lists[u] = list[u]
    BY DEF Grown
  <2>1. CASE u # of BY <1>1, <1>4, <2>1, LenProperties
  <2>2. CASE u = of
    <3>1. /\ Len(list[of]) \in Nat /\ Len(Mine) \in Nat
          /\ Len(list[of] \o Mine) = Len(list[of]) + Len(Mine)
          /\ \A n \in 1..Len(list[of]) + Len(Mine) :
               (list[of] \o Mine)[n]
                 = IF n <= Len(list[of]) THEN list[of][n] ELSE Mine[n - Len(list[of])]
      BY <1>1, <1>2, LenProperties, ConcatProperties
    <3>2. \A n \in 1..Len(list[of]) :
            n \in 1..Len(list[of]) + Len(Mine) /\ n <= Len(list[of])
      BY <3>1
    <3> QED BY <1>4, <2>2, <3>1, <3>2
  <2> QED BY <2>1, <2>2
<1>6. \A u \in Reader : Fits(lists[u], Mine) BY <1>2, <1>3, <1>4
<1> QED BY <1>1, <1>4, <1>5, <1>6

\* triggered_events itself: the list is there, and nothing is read from it.
LEMMA ArriveStep ==
  ASSUME IInv, block' = block, receipt' = receipt, local' = local, mixed' = mixed,
         NEW t \in Reader, pc[t] = "fetching", Moves(t, "idle", "returned", "events"),
         list' \in [Reader -> Seq(Event)], \A u \in Reader : Fits(list'[u], Mine),
         Grown(list'), ~mixed => \A u \in receipt.events : list'[u] = Mine
  PROVE  IInv' /\ Keeps
<1>1. Typed /\ Listing /\ Placed /\ Facts(receipt, Mine) BY DEF IInv
<1>2. Mine' = Mine BY MineKept
<1>3. /\ pc' \in [Reader -> Away \cup {"idle"}] /\ op' \in [Reader -> Op]
      /\ answer' \in [Reader -> {"none", "returned", "raised"}]
      /\ pc'[t] = "idle" /\ op'[t] = "events"
      /\ \A u \in Reader \ {t} : pc'[u] = pc[u] /\ op'[u] = op[u] /\ answer'[u] = answer[u]
  BY <1>1, Moved DEF Op
<1>4. Typed' BY <1>1, <1>3 DEF Typed
<1>5. receipt.events # {} BY <1>1 DEF Placed
<1>6. Listing' BY <1>1, <1>2, <1>5 DEF Listing
<1>7. Placed'
  <2>1. pc'[Caller] = "idle" BY <1>1, <1>3 DEF Placed, Reader
  <2>2. ~receipt'.async => Idle' /\ receipt'.events \subseteq {Caller}
    BY <1>1, <1>3 DEF Placed, Idle
  <2>3. ASSUME NEW u \in Reader
        PROVE  /\ pc'[u] \in {"fetching", "resolving"} => receipt'.events # {}
               /\ pc'[u] = "numbering" => op'[u] = "identifier"
               /\ pc'[u] = "locating" /\ op'[u] # "identifier"
                    => list'[u] = <<>> /\ u \notin receipt'.events
               /\ pc'[u] = "resolving" =>
                    /\ local'[u].pos \in 1..Len(list'[local'[u].of])
                    /\ IsModuleError(list'[local'[u].of][local'[u].pos])
                    /\ ~local'[u].possible /\ receipt'.success # "none"
    <3>1. CASE u = t BY <1>3, <3>1
    <3>2. CASE u # t
      <4>1. local[u].of \in Reader BY <1>1 DEF Typed, Loc
      <4>2. /\ Len(list[local[u].of]) <= Len(list'[local[u].of])
            /\ Len(list[local[u].of]) \in Nat /\ Len(list'[local[u].of]) \in Nat
            /\ \A n \in 1..Len(list[local[u].of]) :
                 list'[local[u].of][n] = list[local[u].of][n]
        BY <1>1, <4>1, LenProperties DEF Grown, Typed
      <4>3. pc[u] = "resolving" =>
              /\ local[u].pos \in 1..Len(list[local[u].of])
              /\ IsModuleError(list[local[u].of][local[u].pos])
              /\ ~local[u].possible /\ receipt.success # "none"
        BY <1>1 DEF Placed
      <4>4. pc[u] = "resolving" => local[u].pos \in 1..Len(list'[local[u].of])
        BY <4>2, <4>3
      <4>5. pc[u] = "locating" /\ op[u] # "identifier"
              => list'[u] = <<>> /\ u \notin receipt.events
        BY <1>1 DEF Placed, Grown
      <4>6. pc[u] = "numbering" => op[u] = "identifier" BY <1>1 DEF Placed
      <4>7. pc'[u] = pc[u] /\ op'[u] = op[u] BY <1>3, <3>2
      <4> QED BY <1>5, <4>2, <4>3, <4>4, <4>5, <4>6, <4>7
    <3> QED BY <3>1, <3>2
  <2> QED BY <2>1, <2>2, <2>3 DEF Placed
<1>8. ASSUME ~mixed' PROVE Alone' /\ Answered'
  <2>1. Alone /\ Answered BY <1>8 DEF IInv
  <2>2. \A u \in Reader : pc'[u] \notin Away BY <1>3, <2>1 DEF Alone, Away
  <2>3. \A u \in Reader : pc[u] # "resolving" BY <2>1 DEF Alone, Away
  <2>4. receipt'.fee # -1 => Mine' # <<>> /\ receipt'.fee = FeeOf(Mine')
    BY <1>2, <2>1, <2>3 DEF Alone
  <2>5. \A u \in Reader : pc'[u] \notin {"fetching", "resolving", "locating"}
    BY <2>2 DEF Away
  <2>6. Alone' BY <1>2, <1>8, <2>2, <2>4, <2>5 DEF Alone
  <2>7. Answered' BY <1>2, <1>3, <2>1 DEF Answered
  <2> QED BY <2>6, <2>7
<1>9. Keeps BY <1>2 DEF Keeps
<1>10. Facts(receipt', Mine') BY <1>1, <1>2
<1> QED BY <1>4, <1>6, <1>7, <1>8, <1>9, <1>10 DEF IInv

LEMMA EventsArriveStep ==
  ASSUME IInv, NEW t \in Task, EventsArrive(t)
  PROVE  IInv' /\ Keeps
<1>1. Typed /\ Listing /\ Placed /\ Facts(receipt, Mine) /\ mixed \in BOOLEAN
  BY DEF IInv, Typed
<1>2. /\ block' = block /\ op' = op /\ mixed' = mixed
      /\ pc[t] = "fetching" /\ pc[t] \in Away
  BY DEF EventsArrive, Away
<1>3. /\ t \in Reader /\ receipt.async
      /\ ~mixed => Alone /\ \A u \in Reader \ {t} : pc[u] \notin Away
  BY <1>2, OnlyAway
<1>4. PICK o \in Op : o = op[t] BY <1>1, <1>3 DEF Typed
<1>5. op' = [op EXCEPT ![t] = o] BY <1>1, <1>2, <1>4 DEF Typed
<1>6. receipt.events # {} BY <1>1, <1>2, <1>3 DEF Placed
<1>7. PICK of \in receipt.events : of = CHOOSE u \in receipt.events : TRUE BY <1>6
<1>8. PICK lists : lists = [list EXCEPT ![of] = list[of] \o Mine] OBVIOUS
<1>9. /\ lists \in [Reader -> Seq(Event)] /\ of \in Reader
      /\ \A u \in Reader : Fits(lists[u], Mine)
      /\ Grown(lists) /\ lists[of] = list[of] \o Mine
  <2> HIDE DEF Mine, Fits, Grown
  <2> QED BY <1>1, <1>8, ListsGrow
<1>10. /\ list' = lists
       /\ IF o = "events"
          THEN End(t, "returned") /\ UNCHANGED <<receipt, local>>
          ELSE Continue(t, o, Enter(receipt, lists, LastPass(o)), lists)
  BY <1>4, <1>7, <1>8 DEF EventsArrive, Mine
<1>11. ~mixed => \A u \in receipt.events : lists[u] = Mine
  <2> SUFFICES ASSUME ~mixed PROVE \A u \in receipt.events : lists[u] = Mine OBVIOUS
  <2>1. receipt.events = {t} /\ list[t] = <<>> BY <1>2, <1>3 DEF Alone
  <2>2. <<>> \o Mine = Mine
    <3>1. Mine \in Seq(Event) BY <1>1, MineType
    <3> QED BY <3>1, FitsSelf
  <2> QED BY <1>9, <2>1, <2>2
<1>12. CASE o = "events"
  <2>1. Moves(t, "idle", "returned", "events")
    BY <1>5, <1>10, <1>12 DEF End, Goto, Moves
  <2>2. receipt' = receipt /\ local' = local BY <1>10, <1>12
  <2>3. /\ list' \in [Reader -> Seq(Event)] /\ \A u \in Reader : Fits(list'[u], Mine)
        /\ Grown(list') /\ (~mixed => \A u \in receipt.events : list'[u] = Mine)
    BY <1>9, <1>10, <1>11
  <2> QED BY <1>2, <1>3, <2>1, <2>2, <2>3, ArriveStep
<1>13. CASE o # "events"
  <2>1. PICK s : s = Enter(receipt, lists, LastPass(o)) OBVIOUS
  <2>2. /\ Ready(s, lists[s.loc.of], Mine) /\ SameRec(s.rec, receipt)
        /\ s.rec.success = receipt.success /\ s.loc.pos = 0
        /\ s.loc.of \in receipt.events
        /\ lists[s.loc.of] = Mine =>
             /\ Mine = <<>> => s.rec.fee = receipt.fee
             /\ Mine # <<>> => FeeAt(s.rec, s.loc, Mine, s.loc.pos)
    BY <1>1, <1>6, <1>9, <2>1, LastPassType, EnterReady
  <2>3. Continue(t, o, s, lists) BY <1>10, <1>13, <2>1
  <2>4. ~(s.loc.pos > 0) BY <2>2
  <2>5. ASSUME ~mixed
        PROVE  /\ Mine = <<>> => s.rec.fee = -1
               /\ Mine # <<>> => FeeAt(s.rec, s.loc, Mine, s.loc.pos)
    <3>1. \A u \in Reader : pc[u] # "resolving" BY <1>2, <1>3, <2>5 DEF Away
    <3>2. Mine = <<>> => receipt.fee = -1 BY <1>3, <2>5, <3>1 DEF Alone
    <3> QED BY <1>11, <2>2, <2>5, <3>2
  <2> QED BY <1>1, <1>2, <1>3, <1>5, <1>6, <1>9, <1>10, <1>11, <2>2, <2>3, <2>4, <2>5,
             ContinueStep
<1> QED BY <1>12, <1>13

LEMMA ResolveStep ==
  ASSUME IInv, NEW t \in Task, ResolveModuleError(t)
  PROVE  IInv' /\ Keeps
<1>1. Typed /\ Listing /\ Placed /\ Facts(receipt, Mine) /\ mixed \in BOOLEAN
  BY DEF IInv, Typed
<1>2. /\ block' = block /\ list' = list /\ op' = op /\ mixed' = mixed
      /\ pc[t] = "resolving" /\ pc[t] \in Away
  BY DEF ResolveModuleError, Away
<1>3. /\ t \in Reader /\ receipt.async
      /\ ~mixed => Alone /\ \A u \in Reader \ {t} : pc[u] \notin Away
  BY <1>2, OnlyAway
<1>4. PICK o \in Op : o = op[t] BY <1>1, <1>3 DEF Typed
<1>5. op' = [op EXCEPT ![t] = o] BY <1>1, <1>2, <1>4 DEF Typed
<1>6. PICK a \in Rec, b \in Loc : a = [receipt EXCEPT !.message = "block"] /\ b = local[t]
  <2>1. [receipt EXCEPT !.message = "block"] \in Rec BY <1>1 DEF Typed, Rec
  <2>2. local[t] \in Loc BY <1>1, <1>3 DEF Typed
  <2> QED BY <2>1, <2>2
<1>7. /\ SameRec(a, receipt) /\ a.success = receipt.success /\ a.message = "block"
      /\ a.fee = receipt.fee
  BY <1>1, <1>6 DEF Typed, Rec, SameRec
<1>8. PICK s : s = [rec |-> a, loc |-> b] OBVIOUS
<1>9. s \in State /\ s.rec = a /\ s.loc = local[t] /\ Continue(t, o, s, list)
  BY <1>4, <1>6, <1>8 DEF State, ResolveModuleError
<1>10. /\ receipt.events # {} /\ receipt.success # "none" /\ ~local[t].possible
       /\ local[t].pos \in 1..Len(list[local[t].of])
       /\ IsModuleError(list[local[t].of][local[t].pos])
  BY <1>1, <1>2, <1>3 DEF Placed
<1>11. PICK events \in Seq(Event) : events = list[s.loc.of] /\ Fits(events, Mine)
  BY <1>1, <1>6, <1>9 DEF Typed, Loc, Listing
<1>12. Ready(s, events, Mine)
  <2>1. FailureIn(Mine)
    <3>1. local[t].pos \in DOMAIN events /\ IsModuleError(events[local[t].pos])
      BY <1>9, <1>10, <1>11, LenProperties
    <3>2. FailureIn(events) BY <3>1 DEF FailureIn, IsModuleError, IsFailure
    <3>3. Mine \in Seq(Event) BY <1>1, MineType
    <3> HIDE DEF Mine, Fits
    <3> QED BY <1>11, <3>2, <3>3, FitsIn
  <2>2. Facts(s.rec, Mine) BY <1>1, <1>7, <1>9, <2>1 DEF Facts
  <2>3. s.loc.pos \in 0..Len(events) BY <1>9, <1>10, <1>11, LenProperties
  <2> QED BY <1>7, <1>9, <1>10, <2>2, <2>3 DEF Ready
<1>13. list \in [Reader -> Seq(Event)] /\ (\A u \in Reader : Fits(list[u], Mine))
       /\ Grown(list)
  BY <1>1, LenProperties DEF Typed, Listing, Grown
<1>14. ASSUME ~mixed
       PROVE  /\ s.loc.of \in receipt.events
              /\ \A u \in receipt.events : list[u] = Mine
              /\ Mine # <<>>
              /\ FeeAt(s.rec, s.loc, Mine, s.loc.pos)
  <2>1. local[t].of \in receipt.events /\ FeeAt(receipt, local[t], Mine, local[t].pos)
    BY <1>2, <1>3, <1>14 DEF Alone
  <2>2. \A u \in Reader : pc[u] # "fetching" BY <1>2, <1>3, <1>14 DEF Away
  <2>3. \A u \in receipt.events : list[u] = Mine BY <1>3, <1>14, <2>2 DEF Alone
  <2>4. FeeAt(s.rec, s.loc, Mine, s.loc.pos) BY <1>7, <1>9, <2>1 DEF FeeAt
  <2>5. Mine # <<>>
    <3>1. local[t].pos \in 1..Len(Mine) BY <1>10, <2>1, <2>3
    <3>2. Len(<<>>) = 0 BY EmptySeq
    <3> QED BY <3>1, <3>2
  <2> QED BY <1>9, <2>1, <2>3, <2>4, <2>5
<1>15. s.rec.success # "none" /\ SameRec(s.rec, receipt) BY <1>7, <1>9, <1>10
<1> QED BY <1>1, <1>2, <1>3, <1>5, <1>9, <1>10, <1>11, <1>12, <1>13, <1>14, <1>15,
           ContinueStep

LEMMA CallFailsStep ==
  ASSUME IInv, NEW t \in Task, CallFails(t)
  PROVE  IInv' /\ Keeps
<1>1. Typed BY DEF IInv
<1>2. /\ block' = block /\ receipt' = receipt /\ list' = list /\ local' = local
      /\ op' = op /\ mixed' = TRUE /\ t \in Reader
  BY DEF CallFails, Reader
<1>3. PICK o \in Op : o = op[t] BY <1>1, <1>2 DEF Typed
<1>4. Moves(t, "idle", "raised", o)
  BY <1>1, <1>2, <1>3 DEF CallFails, End, Goto, Moves, Typed
<1>5. Same(receipt') BY <1>1, <1>2 DEF Typed, Same
<1> QED BY <1>2, <1>4, <1>5, PlainStep

(***************************************************************************)
(* The synchronous receipt.                                                *)
(***************************************************************************)

SyncRan(r, rec, events, mine) ==
  /\ r \in Rec /\ SameRec(r, rec) /\ Facts(r, mine)
  /\ rec.success # "none" => r.success # "none"
  /\ SuccessIn(events) \/ FailureIn(events) => r.success # "none"
  /\ r.fee = IF events = <<>> THEN rec.fee ELSE FeeOf(events)

LEMMA SyncProcessed ==
  ASSUME NEW rec \in Rec, NEW events \in Seq(Event), NEW mine \in Seq(Event),
         Fits(events, mine), Facts(rec, mine), NEW now
  PROVE  SyncRan(SyncProcessEvents(rec, events, now), rec, events, mine)
<1>1. CASE events = <<>>
  <2>1. SyncProcessEvents(rec, events, now) = rec BY <1>1 DEF SyncProcessEvents
  <2>2. DOMAIN events = {} BY <1>1, EmptySeq
  <2> QED BY <1>1, <2>1, <2>2 DEF SyncRan, SameRec, SuccessIn, FailureIn
<1>2. CASE events # <<>>
  <2>1. PICK fee : fee = FeePaid(events) OBVIOUS
  <2>2. fee[1] \in Nat /\ fee[2] \in BOOLEAN /\ (~fee[2] => fee[1] = 0)
    BY <2>1, FeePaidType
  <2> DEFINE a == [rec EXCEPT !.fee = fee[1]]
             b == [of |-> Caller, pos |-> 0, possible |-> FALSE, paid |-> fee[2],
                   last |-> FALSE]
  <2>3. /\ a \in Rec /\ SameRec(a, rec) /\ a.success = rec.success
        /\ a.message = rec.message /\ a.fee = fee[1]
    BY <2>2 DEF Rec, SameRec
  <2>4. b \in Loc BY <2>2 DEF Loc, Reader
  <2>5. PICK s : s = [rec |-> a, loc |-> b] OBVIOUS
  <2>6. PICK name \in Name : name = SyncResolveModuleError(now)
    BY DEF SyncResolveModuleError, Name
  <2>7. SyncProcessEvents(rec, events, now)
          = Conclude(After(s, events, name)[Len(events)]).rec
    BY <1>2, <2>1, <2>5, <2>6 DEF SyncProcessEvents
  <2>8. /\ s \in State /\ s.rec = a /\ s.loc.pos = 0 /\ ~s.loc.possible
        /\ s.loc.paid = fee[2]
    BY <2>3, <2>4, <2>5 DEF State
  <2> HIDE DEF a, b
  <2>9. Len(events) \in Nat /\ s.loc.pos \in 0..Len(events)
        /\ Len(events) \in s.loc.pos..Len(events)
    BY <2>8, LenProperties
  <2>10. PICK x : x = After(s, events, name)[Len(events)] OBVIOUS
  <2>11. Passed(x, s, events, Len(events)) /\ Kept(x, s, events, Len(events))
    BY <2>8, <2>9, <2>10, AfterPassed
  <2>12. Ready(s, events, mine)
    <3>1. Facts(s.rec, mine) BY <2>3, <2>8 DEF Facts
    <3> QED BY <2>8, <2>9, <3>1 DEF Ready
  <2>13. PICK y : y = Conclude(x) OBVIOUS
  <2>14. Finished(y, s, events, mine) BY <2>11, <2>12, <2>13, FinishedAfter
  <2>15. PICK r : r = y.rec OBVIOUS
  <2>16. r \in Rec /\ SameRec(r, rec) BY <2>3, <2>8, <2>14, <2>15 DEF Finished, State, SameRec
  <2>17. r.fee = FeeOf(events)
    <3>1. Deposits(events)[0] = 0 /\ Deposits(events)[Len(events)] \in Nat
      BY <2>9, DepositsUnfolds
    <3>2. r.fee = IF fee[2] THEN fee[1] ELSE fee[1] + Deposits(events)[Len(events)] - Deposits(events)[0]
      BY <2>3, <2>8, <2>14, <2>15 DEF Finished, FeeFrom
    <3>3. CASE fee[2] BY <2>1, <3>2, <3>3 DEF FeeOf
    <3>4. CASE ~fee[2]
      <4>1. fee[1] = 0 BY <2>2, <3>4
      <4>2. r.fee = Deposits(events)[Len(events)] BY <3>1, <3>2, <3>4, <4>1
      <4> QED BY <2>1, <3>4, <4>2 DEF FeeOf
    <3> QED BY <3>3, <3>4
  <2>18. SyncRan(r, rec, events, mine)
    BY <1>2, <2>3, <2>8, <2>14, <2>15, <2>16, <2>17 DEF SyncRan, Finished
  <2>19. SyncProcessEvents(rec, events, now) = r BY <2>7, <2>10, <2>13, <2>15
  <2> QED BY <2>18, <2>19
<1> QED BY <1>1, <1>2

LEMMA SyncPropertyRan ==
  ASSUME NEW rec \in Rec, NEW events \in Seq(Event), NEW mine \in Seq(Event),
         Fits(events, mine), Facts(rec, mine), NEW now, NEW o
  PROVE  IF o = "events" THEN SyncProperty(o, rec, events, now) = rec
         ELSE SyncRan(SyncProperty(o, rec, events, now), rec, events, mine)
<1>1. CASE o = "events" BY <1>1 DEF SyncProperty
<1>2. CASE o # "events"
  <2>1. PICK one : one = SyncProcessEvents(rec, events, now) OBVIOUS
  <2>2. SyncRan(one, rec, events, mine) BY <2>1, SyncProcessed
  <2>3. PICK two : two = SyncProcessEvents(one, events, now) OBVIOUS
  <2>4. one \in Rec /\ Facts(one, mine) BY <2>2 DEF SyncRan
  <2>5. SyncRan(two, one, events, mine) BY <2>3, <2>4, SyncProcessed
  <2>6. SyncRan(two, rec, events, mine) BY <2>2, <2>5 DEF SyncRan, SameRec
  <2>7. SyncProperty(o, rec, events, now) \in {one, two}
    BY <1>2, <2>1, <2>3 DEF SyncProperty
  <2> QED BY <1>2, <2>2, <2>6, <2>7
<1> QED BY <1>1, <1>2

\* A property of the synchronous receipt, once the events have been fetched.
LEMMA SyncStep ==
  ASSUME IInv, ~receipt.async, block' = block, local' = local,
         NEW o \in Op, NEW how \in {"returned", "raised"},
         Moves(Caller, "idle", how, o),
         NEW rec \in Rec, ~rec.async, rec.events = {Caller}, rec.idx # -1,
         rec.success = receipt.success, rec.message = receipt.message,
         rec.fee = receipt.fee, receipt.events # {} => rec.idx = receipt.idx,
         NEW events \in Seq(Event), list' = [list EXCEPT ![Caller] = events],
         NEW mine, mine = EventsOf(block.events, rec.idx), Fits(events, mine),
         NEW now, receipt' = SyncProperty(o, rec, events, now),
         mixed' \in BOOLEAN, ~mixed' => ~mixed /\ events = mine
  PROVE  IInv' /\ Keeps
<1>0. Caller \in Reader BY DEF Reader
<1>1. Typed /\ Listing /\ Placed /\ Facts(receipt, Mine) BY DEF IInv
<1>2. mine \in Seq(Event) BY <1>1, EventsOfType, ReceiptAssumption DEF Typed
<1>3. receipt.events # {} => mine = Mine BY DEF Mine
<1>4. Facts(rec, mine) BY <1>1, <1>3 DEF Facts, Listing
<1>5. IF o = "events" THEN receipt' = rec ELSE SyncRan(receipt', rec, events, mine)
  <2> HIDE DEF Fits, Facts
  <2> QED BY <1>2, <1>4, SyncPropertyRan
<1>6. /\ receipt' \in Rec /\ ~receipt'.async /\ receipt'.events = {Caller}
      /\ receipt'.idx = rec.idx /\ Facts(receipt', mine)
      /\ receipt.success # "none" => receipt'.success # "none"
  BY <1>4, <1>5 DEF SyncRan, SameRec
<1>7. Mine' = mine BY <1>6 DEF Mine
<1>8. /\ pc' \in [Reader -> Away \cup {"idle"}] /\ op' \in [Reader -> Op]
      /\ answer' \in [Reader -> {"none", "returned", "raised"}]
      /\ pc'[Caller] = "idle" /\ op'[Caller] = o /\ answer'[Caller] = how
      /\ \A u \in Reader \ {Caller} :
           pc'[u] = pc[u] /\ op'[u] = op[u] /\ answer'[u] = answer[u]
  <2>1. how \in {"none", "returned", "raised"} /\ "idle" \in Away \cup {"idle"} OBVIOUS
  <2> QED BY <1>0, <1>1, <2>1 DEF Moves, Typed
<1>9. /\ list' \in [Reader -> Seq(Event)] /\ list'[Caller] = events
      /\ \A u \in Reader \ {Caller} : list'[u] = list[u]
  BY <1>0, <1>1 DEF Typed
<1>10. Typed' BY <1>1, <1>6, <1>8, <1>9 DEF Typed
<1>11. Listing'
  <2>1. ASSUME NEW u \in Reader PROVE Fits(list'[u], mine)
    <3>1. CASE u = Caller BY <1>9, <3>1
    <3>2. CASE u # Caller /\ receipt.events # {} BY <1>1, <1>3, <1>9, <3>2 DEF Listing
    <3>3. CASE u # Caller /\ receipt.events = {} BY <1>1, <1>9, <3>3 DEF Listing, Fits
    <3> QED BY <3>1, <3>2, <3>3
  <2> QED BY <1>6, <1>7, <2>1 DEF Listing
<1>12. Idle' BY <1>1, <1>8 DEF Placed, Idle
<1>13. Placed' BY <1>6, <1>8, <1>12 DEF Placed, Idle
<1>14. ASSUME ~mixed'
       PROVE  /\ receipt'.fee # -1 => mine # <<>> /\ receipt'.fee = FeeOf(mine)
              /\ mine # <<>> /\ o # "events" => receipt'.fee # -1
              /\ mine # <<>> /\ receipt.fee # -1 => receipt'.fee # -1
              /\ o # "events" /\ (SuccessIn(mine) \/ FailureIn(mine))
                   => receipt'.success # "none"
  <2>1. Alone /\ \A u \in Reader : pc[u] # "resolving"
    BY <1>1, <1>14 DEF IInv, Placed, Idle
  <2>2. rec.fee # -1 => mine # <<>> /\ rec.fee = FeeOf(mine)
    <3>1. receipt.fee # -1 => Mine # <<>> /\ receipt.fee = FeeOf(Mine) BY <2>1 DEF Alone
    <3>2. receipt.fee # -1 => Mine = mine BY <1>1, <1>3 DEF Listing
    <3> QED BY <3>1, <3>2
  <2>3. o # "events" => receipt'.fee = IF mine = <<>> THEN rec.fee ELSE FeeOf(mine)
    BY <1>5, <1>14 DEF SyncRan
  <2>4. FeeOf(mine) \in Nat BY <1>2, FeeOfType
  <2>5. o = "events" => receipt' = rec BY <1>5
  <2>6. o # "events" /\ (SuccessIn(mine) \/ FailureIn(mine)) => receipt'.success # "none"
    BY <1>5, <1>14 DEF SyncRan
  <2> QED BY <2>2, <2>3, <2>4, <2>5, <2>6
<1>15. ASSUME ~mixed' PROVE Alone'
  <2>1. \A u \in Reader : pc'[u] = "idle" BY <1>12 DEF Idle
  <2>2. \A u \in receipt'.events : list'[u] = Mine' BY <1>6, <1>7, <1>9, <1>15
  <2> QED BY <1>7, <1>14, <1>15, <2>1, <2>2 DEF Alone, Away
<1>16. ASSUME ~mixed' PROVE Answered'
  <2>1. Answered BY <1>16 DEF IInv
  <2> SUFFICES ASSUME NEW u \in Reader, answer'[u] = "returned"
               PROVE  /\ op'[u] \in {"success", "fee"} => receipt'.events # {}
                      /\ op'[u] = "success" /\ (SuccessIn(Mine') \/ FailureIn(Mine'))
                           => receipt'.success # "none"
                      /\ op'[u] = "fee" /\ Mine' # <<>> => receipt'.fee # -1
    BY DEF Answered
  <2>2. CASE u = Caller BY <1>6, <1>7, <1>8, <1>14, <1>16, <2>2
  <2>3. CASE u # Caller
    <3>1. answer[u] = "returned" /\ op'[u] = op[u] BY <1>8, <2>3
    <3>2. op[u] \in {"success", "fee"} => mine = Mine BY <1>3, <2>1, <3>1 DEF Answered
    <3> QED BY <1>6, <1>7, <1>14, <1>16, <2>1, <3>1, <3>2 DEF Answered
  <2> QED BY <2>2, <2>3
<1>17. Keeps BY <1>3, <1>6, <1>7 DEF Keeps
<1>18. Facts(receipt', Mine') BY <1>6, <1>7
<1> QED BY <1>10, <1>11, <1>13, <1>15, <1>16, <1>17, <1>18 DEF IInv

LEMMA SyncFound ==
  ASSUME Typed, Listing, NEW i \in SyncRetrieveExtrinsic
  PROVE  i \in Nat /\ (receipt.events # {} => i = receipt.idx)
         /\ (receipt.idx # -1 => i = receipt.idx)
BY ReceiptAssumption DEF SyncRetrieveExtrinsic, GetExtrinsicIndex, Typed, Rec, Listing

LEMMA SyncReadStep ==
  ASSUME IInv, NEW o \in Op, SyncRead(o)
  PROVE  IInv' /\ Keeps
<1>1. Typed /\ Listing /\ Placed /\ Facts(receipt, Mine) /\ mixed \in BOOLEAN
      /\ receipt \in Rec
  BY DEF IInv, Typed
<1>2. /\ ~receipt.async /\ block' = block /\ local' = local
      /\ op' = [op EXCEPT ![Caller] = o] /\ Caller \in Reader
  BY DEF SyncRead, Reader
<1>3. \A u \in Reader : pc[u] = "idle" BY <1>1, <1>2 DEF Placed, Idle
<1>4. \A u \in Reader : pc[u] \notin Away BY <1>3 DEF Away
<1>5. ASSUME list' = list, Same(receipt'), mixed' \in BOOLEAN, mixed => mixed',
             NEW how \in {"returned", "raised"}, End(Caller, how),
             how = "returned" => /\ o = "success" => receipt.success # "none"
                                 /\ o = "fee" => receipt.fee # -1
      PROVE  IInv' /\ Keeps
  <2>1. Moves(Caller, "idle", how, o) BY <1>2, <1>5 DEF End, Goto, Moves
  <2>2. pc[Caller] \notin {"fetching", "resolving"} BY <1>2, <1>3
  <2> QED BY <1>1, <1>2, <1>4, <1>5, <2>1, <2>2, PlainStep
<1>6. CASE /\ Known(o) /\ End(Caller, "returned")
           /\ UNCHANGED <<receipt, list, current, mixed, faults>>
  <2>1. Same(receipt') /\ mixed' = mixed /\ list' = list BY <1>1, <1>6 DEF Same
  <2>2. (o = "success" => receipt.success # "none") /\ (o = "fee" => receipt.fee # -1)
    BY <1>6 DEF Known
  <2> QED BY <1>1, <1>5, <1>6, <2>1, <2>2
<1>7. CASE o = "identifier" /\ SyncIdentifier /\ UNCHANGED <<mixed, faults>>
  <2> DEFINE numbered == receipt.numbered \/ receipt.hashed
             found == numbered /\ SyncRetrieveExtrinsic # {}
             idx == IF found THEN CHOOSE i \in SyncRetrieveExtrinsic : TRUE
                    ELSE receipt.idx
  <2>1. receipt' = [receipt EXCEPT !.numbered = numbered, !.idx = idx]
    BY <1>7 DEF SyncIdentifier
  <2>2. numbered \in BOOLEAN BY <1>1 DEF Rec
  <2>3. /\ idx \in Nat \cup {-1} /\ (receipt.idx # -1 => idx = receipt.idx)
        /\ (idx = receipt.idx \/ receipt.events = {})
    <3>1. CASE found
      <4>1. idx \in SyncRetrieveExtrinsic BY <3>1
      <4> HIDE DEF idx
      <4> QED BY <1>1, <4>1, SyncFound
    <3>2. CASE ~found BY <1>1, <3>2 DEF Rec
    <3> QED BY <3>1, <3>2
  <2> HIDE DEF numbered, idx
  <2>4. Same(receipt') BY <1>1, <2>1, <2>2, <2>3 DEF Same, Rec
  <2>5. PICK how \in {"returned", "raised"} : End(Caller, how)
    BY <1>7 DEF SyncIdentifier
  <2>6. mixed' = mixed /\ list' = list BY <1>7 DEF SyncIdentifier
  <2> QED BY <1>1, <1>5, <1>7, <2>4, <2>5, <2>6
<1>8. ASSUME NEW fails \in BOOLEAN, SyncTriggeredEvents(o, fails),
             mixed' = (mixed \/ fails)
      PROVE  IInv' /\ Keeps
  <2>1. CASE receipt.events # {}
    <3>1. /\ ~fails /\ list' = list /\ End(Caller, "returned")
          /\ receipt' = SyncProperty(o, receipt, list[Caller], current)
      BY <1>8, <2>1 DEF SyncTriggeredEvents
    <3>2. Moves(Caller, "idle", "returned", o) BY <1>2, <3>1 DEF End, Goto, Moves
    <3>3. receipt.events = {Caller} /\ receipt.idx # -1
      BY <1>1, <1>2, <2>1 DEF Placed, Listing
    <3>4. PICK events \in Seq(Event) : events = list[Caller] BY <1>1, <1>2 DEF Typed
    <3>5. Fits(events, Mine) BY <1>1, <1>2, <3>4 DEF Listing
    <3>6. list' = [list EXCEPT ![Caller] = events] BY <1>1, <3>1, <3>4 DEF Typed
    <3>7. ~mixed' => ~mixed /\ events = Mine
      <4> SUFFICES ASSUME ~mixed' PROVE ~mixed /\ events = Mine OBVIOUS
      <4>1. ~mixed /\ Alone BY <1>8 DEF IInv
      <4>2. \A u \in receipt.events : list[u] = Mine BY <1>3, <4>1 DEF Alone
      <4> QED BY <3>3, <3>4, <4>1, <4>2
    <3>8. mixed' \in BOOLEAN BY <1>1, <1>8
    <3>9. PICK mine : mine = Mine OBVIOUS
    <3>10. mine = EventsOf(block.events, receipt.idx) BY <3>9 DEF Mine
    <3> HIDE DEF Mine, Fits
    <3> QED BY <1>1, <1>2, <3>1, <3>2, <3>3, <3>4, <3>5, <3>6, <3>7, <3>8, <3>9, <3>10,
               SyncStep
  <2>2. CASE /\ receipt.events = {} /\ ~fails /\ End(Caller, "raised")
             /\ UNCHANGED <<receipt, list, current>>
    <3>1. Same(receipt') /\ list' = list /\ mixed' = mixed
      BY <1>1, <1>8, <2>2 DEF Same
    <3> QED BY <1>1, <1>5, <2>2, <3>1
  <2>3. ASSUME receipt.events = {}, NEW i \in SyncRetrieveExtrinsic, NEW events, NEW rec,
               events = IF fails THEN <<>> ELSE EventsOf(block.events, i),
               rec = [receipt EXCEPT !.idx = i, !.events = {Caller}],
               list' = [list EXCEPT ![Caller] = events],
               receipt' = SyncProperty(o, rec, events, TRUE),
               End(Caller, IF fails THEN "raised" ELSE "returned")
        PROVE  IInv' /\ Keeps
    <3>1. i \in Nat BY <1>1, <2>3, SyncFound
    <3>2. PICK mine : mine = EventsOf(block.events, i) OBVIOUS
    <3>3. mine \in Seq(Event) BY <1>1, <3>2, EventsOfType, ReceiptAssumption DEF Typed
    <3>4. events \in Seq(Event) /\ Fits(events, mine) /\ (~fails => events = mine)
      BY <2>3, <3>2, <3>3, FitsSelf
    <3>5. /\ rec \in Rec /\ ~rec.async /\ rec.events = {Caller} /\ rec.idx = i
          /\ rec.success = receipt.success /\ rec.message = receipt.message
          /\ rec.fee = receipt.fee
      BY <1>1, <1>2, <2>3, <3>1 DEF Rec
    <3>6. PICK how \in {"returned", "raised"} : Moves(Caller, "idle", how, o)
      <4>1. PICK how \in {"returned", "raised"} :
              how = IF fails THEN "raised" ELSE "returned"
        OBVIOUS
      <4>2. Moves(Caller, "idle", how, o) BY <1>2, <2>3, <4>1 DEF End, Goto, Moves
      <4> QED BY <4>2
    <3>7. mixed' \in BOOLEAN /\ (~mixed' => ~mixed /\ events = mine)
      BY <1>1, <1>8, <3>4
    <3>8. mine = EventsOf(block.events, rec.idx) /\ rec.idx # -1 BY <3>1, <3>2, <3>5
    <3> HIDE DEF Fits
    <3> QED BY <1>2, <2>3, <3>4, <3>5, <3>6, <3>7, <3>8, SyncStep
  <2>4. receipt.events = {} =>
          \/ /\ ~fails /\ End(Caller, "raised") /\ UNCHANGED <<receipt, list, current>>
          \/ \E i \in SyncRetrieveExtrinsic :
               LET events == IF fails THEN <<>> ELSE EventsOf(block.events, i)
                   rec    == [receipt EXCEPT !.idx = i, !.events = {Caller}]
               IN /\ list' = [list EXCEPT ![Caller] = events]
                  /\ receipt' = SyncProperty(o, rec, events, TRUE)
                  /\ End(Caller, IF fails THEN "raised" ELSE "returned")
    BY <1>8 DEF SyncTriggeredEvents
  <2> QED BY <2>1, <2>2, <2>3, <2>4
<1>9. \/ SyncTriggeredEvents(o, FALSE) /\ mixed' = mixed
      \/ SyncTriggeredEvents(o, TRUE) /\ mixed' = TRUE
      => IInv' /\ Keeps
  BY <1>1, <1>8
<1> QED BY <1>6, <1>7, <1>9 DEF SyncRead

LEMMA ElsewhereStep ==
  ASSUME IInv, block' = block, receipt' = receipt, list' = list, pc' = pc, op' = op,
         local' = local, answer' = answer, mixed' = mixed
  PROVE  IInv' /\ Keeps
<1>1. Mine' = Mine BY MineKept
<1>2. Typed' /\ Listing' /\ Placed' /\ Facts(receipt', Mine')
  BY <1>1 DEF IInv, Typed, Listing, Placed, Idle
<1>3. ~mixed' => Alone' /\ Answered' BY <1>1 DEF IInv, Alone, Answered
<1>4. Keeps BY <1>1 DEF Keeps
<1> QED BY <1>2, <1>3, <1>4 DEF IInv

LEMMA NextStep == IInv /\ [Next]_vars => IInv' /\ Keeps
<1> SUFFICES ASSUME IInv, [Next]_vars PROVE IInv' /\ Keeps OBVIOUS
<1>1. ASSUME NEW t \in Task, NEW o \in Op, Read(t, o) PROVE IInv' /\ Keeps
  BY <1>1, ReadStep
<1>2. ASSUME NEW t \in Task, Numbered(t) PROVE IInv' /\ Keeps BY <1>2, NumberedStep
<1>3. ASSUME NEW t \in Task, RetrieveExtrinsic(t) PROVE IInv' /\ Keeps
  BY <1>3, RetrieveStep
<1>4. ASSUME NEW t \in Task, EventsArrive(t) PROVE IInv' /\ Keeps
  BY <1>4, EventsArriveStep
<1>5. ASSUME NEW t \in Task, ResolveModuleError(t) PROVE IInv' /\ Keeps
  BY <1>5, ResolveStep
<1>6. ASSUME NEW t \in Task, CallFails(t) PROVE IInv' /\ Keeps BY <1>6, CallFailsStep
<1>7. ASSUME NEW o \in Op, SyncRead(o) PROVE IInv' /\ Keeps BY <1>7, SyncReadStep
<1>8. CASE Elsewhere BY <1>8, ElsewhereStep DEF Elsewhere
<1>9. CASE UNCHANGED vars BY <1>9, ElsewhereStep DEF vars
<1> QED BY <1>1, <1>2, <1>3, <1>4, <1>5, <1>6, <1>7, <1>8, <1>9 DEF Next

\* Every reader is at a place of the loop that its list has, the receipt says
\* nothing but what the events before that place say, and, as long as no two
\* readers overlap and no node call fails, what a read returned is what all of
\* them say (async_substrate.py:213-239, 270-395).
THEOREM ReceiptInvariant == Spec => []IInv
<1>1. IInv /\ [Next]_vars => IInv' BY NextStep
<1> QED BY <1>1, InitIInv, PTL DEF Spec

(***************************************************************************)
(* What the receipt promises, for every block and every order of its       *)
(* readers.                                                                *)
(***************************************************************************)

\* The events of the extrinsic, as the properties and as the loops see them.
LEMMA MineIn ==
  ASSUME Typed
  PROVE  /\ Succeeded <=> SuccessIn(Mine)
         /\ Failed <=> FailureIn(Mine)
         /\ Named <=> NamedIn(Mine)
<1>1. PICK mine : mine = Mine OBVIOUS
<1>2. Range(mine) = {mine[n] : n \in DOMAIN mine} BY DEF Range
<1> QED BY <1>1, <1>2 DEF Succeeded, Failed, Named, SuccessIn, FailureIn, NamedIn

LEMMA VerdictFacts ==
  ASSUME Typed, Facts(receipt, Mine)
  PROVE  /\ receipt.success \in {"none", "yes", "no"}
         /\ receipt.success = "yes" => Succeeded /\ ~Named
         /\ receipt.success = "no" => Failed
BY MineIn DEF Facts, Typed, Rec

\* is_success is True only for an extrinsic that succeeded and whose failure
\* events leave no message, also when reads overlap and node calls fail.
THEOREM TrueIsSuccessHolds == Spec => []TrueIsSuccess
<1>1. IInv => TrueIsSuccess BY VerdictFacts DEF IInv, TrueIsSuccess
<1> QED BY <1>1, ReceiptInvariant, PTL

\* Once one reader has been given a verdict, no other is given its opposite.
THEOREM VerdictStandsHolds == Spec => VerdictStands
<1>1. ASSUME IInv, IInv', [Next]_vars, NEW v \in {"yes", "no"},
             receipt.success = v, ~Overlooked
      PROVE  receipt'.success = v
  <2>1. Keeps BY <1>1, NextStep
  <2>2. Mine' = Mine BY <1>1, <2>1 DEF Keeps, IInv, Listing
  <2>3. receipt'.success \in {"yes", "no"}
    BY <1>1, <2>1 DEF Keeps, IInv, Typed, Rec
  <2>4. /\ receipt.success = "yes" => SuccessIn(Mine) /\ ~NamedIn(Mine)
        /\ receipt.success = "no" => FailureIn(Mine)
        /\ receipt'.success = "yes" => SuccessIn(Mine) /\ ~NamedIn(Mine)
        /\ receipt'.success = "no" => FailureIn(Mine)
    BY <1>1, <2>2 DEF IInv, Facts
  <2>5. ~(FailureIn(Mine) /\ SuccessIn(Mine) /\ ~NamedIn(Mine))
    BY <1>1, MineIn DEF Overlooked, IInv
  <2> QED BY <1>1, <2>3, <2>4, <2>5
<1>2. IInv /\ IInv' /\ [Next]_vars
        => [\A v \in {"yes", "no"} :
              receipt.success = v /\ ~Overlooked => receipt'.success = v]_vars
  BY <1>1
<1> QED BY <1>2, ReceiptInvariant, PTL DEF Spec, VerdictStands

LEMMA TotalFeeIs == ASSUME Typed PROVE TotalFee = FeeOf(Mine)
<1>1. PICK mine \in Seq(Event) : mine = Mine BY MineType
<1>2. CASE PaidAt(mine) = {} BY <1>1, <1>2 DEF TotalFee, FeeOf, FeePaid
<1>3. CASE PaidAt(mine) # {}
  <2>1. /\ Max(PaidAt(mine)) \in PaidAt(mine)
        /\ \A n \in PaidAt(mine) : n <= Max(PaidAt(mine))
    BY <1>3, LastPaid
  <2>2. PICK n : n = CHOOSE k \in PaidAt(mine) : \A m \in PaidAt(mine) : m <= k OBVIOUS
  <2>3. n \in PaidAt(mine) /\ \A m \in PaidAt(mine) : m <= n BY <2>1, <2>2
  <2>4. PaidAt(mine) \subseteq Int BY LenProperties DEF PaidAt
  <2>5. n = Max(PaidAt(mine))
    <3>1. PICK x : x = Max(PaidAt(mine)) OBVIOUS
    <3>2. x \in Int /\ n \in Int /\ x <= n /\ n <= x BY <2>1, <2>3, <2>4, <3>1
    <3> QED BY <3>1, <3>2
  <2>6. FeeOf(mine) = mine[Max(PaidAt(mine))].pay BY <1>3 DEF FeeOf, FeePaid
  <2>7. TotalFee = mine[n].pay BY <1>1, <1>3, <2>2 DEF TotalFee
  <2> QED BY <1>1, <2>5, <2>6, <2>7
<1> QED BY <1>2, <1>3

\* Reads that do not overlap return the verdict and the fee of the chain.
THEOREM SequentialReadsAgreeHolds == Spec => []SequentialReadsAgree
<1>1. ASSUME IInv PROVE SequentialReadsAgree
  <2> SUFFICES ASSUME ~mixed, \A t \in Reader : pc[t] = "idle",
                      NEW t \in Reader, answer[t] = "returned"
               PROVE  /\ op[t] = "success" /\ ~Overlooked => receipt.success = Verdict
                      /\ op[t] = "fee" /\ Mine # <<>> => receipt.fee = TotalFee
    BY DEF SequentialReadsAgree
  <2>1. Typed /\ Alone /\ Answered /\ Facts(receipt, Mine) BY <1>1 DEF IInv
  <2>2. /\ Succeeded <=> SuccessIn(Mine)
        /\ Failed <=> FailureIn(Mine)
    BY <2>1, MineIn
  <2>3. ASSUME op[t] = "success", ~Overlooked PROVE receipt.success = Verdict
    <3>1. Succeeded \/ Failed => receipt.success # "none"
      BY <2>1, <2>2, <2>3 DEF Answered
    <3>2. /\ receipt.success \in {"none", "yes", "no"}
          /\ receipt.success = "yes" => Succeeded /\ ~Named
          /\ receipt.success = "no" => Failed
      BY <2>1, VerdictFacts
    <3> QED BY <2>3, <3>1, <3>2 DEF Verdict, Overlooked
  <2>4. ASSUME op[t] = "fee", Mine # <<>> PROVE receipt.fee = TotalFee
    <3>1. receipt.fee # -1 BY <2>1, <2>4 DEF Answered
    <3>2. receipt.fee = FeeOf(Mine) BY <2>1, <3>1 DEF Alone
    <3> QED BY <2>1, <3>2, TotalFeeIs
  <2> QED BY <2>3, <2>4
<1> QED BY <1>1, ReceiptInvariant, PTL
=============================================================================
