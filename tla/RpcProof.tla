------------------------------ MODULE RpcProof ------------------------------
(***************************************************************************)
(* The theorems about the calls and their Websocket: type correctness, the *)
(* safety properties, the refinement of RpcService and the shared counters.*)
(***************************************************************************)
EXTENDS RpcInvariant, FiniteSetTheorems, SequenceTheorems, TLAPS

(***************************************************************************)
(* Type correctness of the calls and their Websocket, for every set of     *)
(* calls, every batch size, permit count and fault budget.                 *)
(***************************************************************************)

\* A call that waits in send() still has a payload to send.
AcquireShort ==
  \A c \in Call : /\ sent[c] <= Size(c)
                  /\ pc[c] \in {"acquire", "send"} => sent[c] < Size(c)

\* Only a subscription ends by unsubscribing.
EndingWatched == \A c \in Call : ending[c] # "none" => c \in Watch

TypeInv == TypeOK /\ AcquireShort /\ EndingWatched

LEMMA SizeType == \A c \in Call : Size(c) \in 1..Batch
  BY ConstantsAssumption DEF Size

LEMMA IdFinite == IsFiniteSet(Id)
<1>1. IsFiniteSet(0..Batch) BY ConstantsAssumption, FS_Interval
<1> QED BY <1>1, ConstantsAssumption, FS_Product DEF Id

LEMMA OrderType ==
  ASSUME NEW S \in SUBSET Id, NEW s \in SetToSeqs(S)
  PROVE  s \in Seq(Id)
<1>1. Cardinality(S) \in Nat BY IdFinite, FS_Subset, FS_CardinalityType
<1>2. s \in [1..Cardinality(S) -> S] BY DEF SetToSeqs
<1>3. s \in [1..Cardinality(S) -> Id] BY <1>2
<1> QED BY <1>1, <1>3, IsASeq

LEMMA PayloadSeqType ==
  ASSUME NEW c \in Call, NEW k \in Nat, NEW n \in Nat, k + n <= Batch
  PROVE  [j \in 1..n |-> <<c, k + j>>] \in Seq(Id)
<1>1. \A j \in 1..n : <<c, k + j>> \in Id BY ConstantsAssumption DEF Id
<1>2. [j \in 1..n |-> <<c, k + j>>] \in [1..n -> Id] BY <1>1
<1> QED BY <1>2, IsASeq

LEMMA BudgetType ==
  ASSUME left \in [Fault -> Nat], NEW f \in Fault, Spend(f)
  PROVE  left' \in [Fault -> Nat]
  BY DEF Spend

LEMMA InitType == Init => TypeInv
<1> SUFFICES ASSUME Init PROVE TypeInv OBVIOUS
<1> USE ConstantsAssumption DEF Init, WsInit
<1>1. WsTypeOK BY DEF WsTypeOK, Down, Closing
<1>2. pc \in [Call -> Where] BY DEF Where
<1>3. AcquireShort /\ EndingWatched BY SizeType DEF AcquireShort, EndingWatched
<1> QED BY <1>1, <1>2, <1>3 DEF TypeInv, TypeOK

LEMMA NetworkType ==
  ASSUME WsTypeOK, \/ \E kind \in Down : Drop(kind)
                   \/ \E i \in Id : Serve(i)
                   \/ \E c \in Watch, n \in Note : Notify(c, n)
  PROVE  WsTypeOK'
<1> USE ConstantsAssumption
<1>1. ASSUME NEW kind \in Down, Drop(kind) PROVE WsTypeOK'
  <2>1. left' \in [Fault -> Nat] BY <1>1, BudgetType DEF WsTypeOK, Drop, Fault
  <2> QED BY <1>1, <2>1 DEF WsTypeOK, Drop, serverVars
<1>2. ASSUME NEW i \in Id, Serve(i) PROVE WsTypeOK'
  <2>1. left' \in [Fault -> Nat]
    BY <1>2, BudgetType DEF WsTypeOK, Serve, Fault
  <2>2. live' \in SUBSET Watch /\ rejected' \in SUBSET Watch
    BY <1>2 DEF WsTypeOK, Serve
  <2> QED BY <1>2, <2>1, <2>2 DEF WsTypeOK, Serve, clientVars
<1>3. ASSUME NEW c \in Watch, NEW n \in Note, Notify(c, n) PROVE WsTypeOK'
  <2>1. left' \in [Fault -> Nat] BY <1>3, BudgetType DEF WsTypeOK, Notify, Fault
  <2>2. notes' \in [Watch -> Seq(Note)]
    BY <1>3, AppendProperties DEF WsTypeOK, Notify
  <2> QED BY <1>3, <2>1, <2>2 DEF WsTypeOK, Notify, serverVars
<1> QED BY <1>1, <1>2, <1>3

LEMMA ReceiverType ==
  ASSUME WsTypeOK, RecvMalformed \/ \E i \in Id : Recv(i)
  PROVE  WsTypeOK'
<1>1. ASSUME ReceiverFails
      PROVE  /\ received' \in [Id -> {"none", "pending", "done", "exc"}]
             /\ handler' = "failed"
  BY <1>1 DEF ReceiverFails, WsTypeOK
<1>2. CASE RecvMalformed
  <2>1. left' \in [Fault -> Nat]
    BY <1>2, BudgetType DEF WsTypeOK, RecvMalformed, Fault
  <2> QED BY <1>1, <1>2, <2>1 DEF WsTypeOK, RecvMalformed, serverVars
<1>3. ASSUME NEW i \in Id, Recv(i) PROVE WsTypeOK'
  <2>1. /\ received' \in [Id -> {"none", "pending", "done", "exc"}]
        /\ handler' \in {"none", "run", "stopped", "redial", "failed"}
    <3>1. CASE received[i] = "pending" BY <1>3, <3>1 DEF Recv, WsTypeOK
    <3>2. CASE received[i] = "none" BY <1>3, <3>2 DEF Recv, WsTypeOK
    <3>3. CASE received[i] \notin {"pending", "none"}
      <4>1. ReceiverFails BY <1>3, <3>3 DEF Recv
      <4> QED BY <4>1, <1>1
    <3> QED BY <3>1, <3>2, <3>3
  <2> QED BY <1>3, <2>1 DEF WsTypeOK, Recv
<1> QED BY <1>2, <1>3

LEMMA SenderType ==
  ASSUME WsTypeOK, Send \/ SendBadPayload
  PROVE  WsTypeOK'
<1>1. ASSUME sending # <<>>
      PROVE  Head(sending) \in Id /\ Tail(sending) \in Seq(Id)
  BY <1>1, HeadTailProperties DEF WsTypeOK
<1>2. CASE Send BY <1>1, <1>2 DEF WsTypeOK, Send
<1>3. CASE SendBadPayload
  <2>1. left' \in [Fault -> Nat]
    BY <1>3, BudgetType DEF WsTypeOK, SendBadPayload, Fault
  <2>2. /\ received' \in [Id -> {"none", "pending", "done", "exc"}]
        /\ handler' \in {"none", "failed"}
    BY <1>3 DEF WsTypeOK, SendBadPayload
  <2> QED BY <1>1, <1>3, <2>1, <2>2 DEF WsTypeOK, SendBadPayload, serverVars
<1> QED BY <1>2, <1>3

LEMMA HandlerType ==
  ASSUME WsTypeOK, HandlerEnds \/ Resubmit \/ Redial
  PROVE  WsTypeOK'
<1>1. CASE HandlerEnds BY <1>1 DEF WsTypeOK, HandlerEnds, serverVars
<1>2. CASE Resubmit
  <2>1. PICK order \in SetToSeqs(inflight) : sending' = sending \o order
    BY <1>2 DEF Resubmit, Requeue
  <2>2. sending' \in Seq(Id)
    BY <2>1, OrderType, ConcatProperties DEF WsTypeOK
  <2>3. /\ received' \in [Id -> {"none", "pending", "done", "exc"}]
        /\ exit' \in {"none", "armed"} \cup Closing
    BY <1>2 DEF WsTypeOK, Resubmit, Renew
  <2> QED BY <1>2, <2>2, <2>3 DEF WsTypeOK, Resubmit, Requeue, serverVars
<1>3. CASE Redial
  <2>1. left' \in [Fault -> Nat]
    BY <1>3, BudgetType DEF WsTypeOK, Redial, NewConnection, Fault
  <2> QED BY <1>3, <2>1 DEF WsTypeOK, Redial, NewConnection
<1> QED BY <1>1, <1>2, <1>3

LEMMA ExitType ==
  ASSUME WsTypeOK, ExitFires \/ ExitStops \/ ExitDone
  PROVE  WsTypeOK'
  BY DEF WsTypeOK, ExitFires, ExitStops, ExitDone, serverVars, Closing, Down

LEMMA WsStepType == TypeInv /\ WsStep => TypeInv'
<1> SUFFICES ASSUME TypeInv, WsStep PROVE TypeInv' OBVIOUS
<1>1. WsTypeOK' BY NetworkType, ReceiverType, SenderType, HandlerType, ExitType
                   DEF TypeInv, TypeOK, WsStep
<1>2. UNCHANGED callVars BY DEF WsStep
<1> QED BY <1>1, <1>2
        DEF TypeInv, TypeOK, AcquireShort, EndingWatched, callVars, Size
-----------------------------------------------------------------------------
(***************************************************************************)
(* The steps of a call.  Submit, Leave and ArmExit are shared, so what     *)
(* they do to the types is stated once.                                    *)
(***************************************************************************)

LEMMA PlaceType ==
  ASSUME pc \in [Call -> Where], NEW c \in Call, NEW w \in Where, Goto(c, w)
  PROVE  pc' \in [Call -> Where]
  BY DEF Goto

LEMMA ArmType ==
  ASSUME WsTypeOK, NEW w, NEW q, NEW k, ArmExit(w, q, k)
  PROVE  exit' \in {"none", "armed"} \cup Closing
  BY DEF WsTypeOK, ArmExit

\* The parts of the state that Submit, Leave and Proceed determine.
BodyType ==
  /\ waiting' \in Int
  /\ permits' \in Nat
  /\ sending' \in Seq(Id)
  /\ received' \in [Id -> {"none", "pending", "done", "exc"}]
  /\ subs' \in SUBSET Watch
  /\ notes' \in [Watch -> Seq(Note)]
  /\ exit' \in {"none", "armed"} \cup Closing
  /\ sent' \in [Call -> 0..Batch]
  /\ pc' \in [Call -> Where]
  /\ AcquireShort'

\* What a run of send() comes to: n payloads more are enqueued, and the call goes
\* to w.  `own` permits were in its hands before.
SendsSome(c, own, n, w) ==
  /\ sent[c] + n <= Size(c)
  /\ w # "polling" => sent[c] + n < Size(c)
  /\ permits' \in Nat
  /\ permits' = (permits + own) - (n + IF w = "send" THEN 1 ELSE 0)
  /\ sent' = [sent EXCEPT ![c] = sent[c] + n]
  /\ sending' = sending \o [j \in 1..n |-> <<c, sent[c] + j>>]
  /\ received' = [i \in Id |-> IF i[1] = c /\ i[2] \in sent[c] + 1 .. sent[c] + n
                                THEN "pending" ELSE received[i]]
  /\ Goto(c, w)
  /\ UNCHANGED <<subs, notes, exit>>

AfterSends == {"polling", "send", "acquire"}

LEMMA SendsEffect ==
  ASSUME TypeInv, NEW c \in Call, NEW own \in {0, 1}, sent[c] + own <= Size(c),
         NEW free \in Nat, free <= permits, Sends(c, own, free)
  PROVE  \E n \in 0..Batch, w \in AfterSends : SendsSome(c, own, n, w)
<1> DEFINE rest == Size(c) - sent[c]
           n == IF LockedOut(c) THEN own
                ELSE IF own + free < rest THEN own + free ELSE rest
           w == IF n = rest THEN "polling"
                ELSE IF LockedOut(c) /\ free > 0 THEN "send" ELSE "acquire"
           taken == (n - own) + (IF w = "send" THEN 1 ELSE 0)
<1>1. /\ sent[c] \in 0..Batch /\ Size(c) \in 1..Batch /\ Batch \in Nat
      /\ own <= rest /\ rest \in 0..Batch
      /\ permits \in Nat
  BY SizeType, ConstantsAssumption DEF TypeInv, TypeOK, WsTypeOK, AcquireShort
<1>2. n \in 0..rest /\ own <= n /\ n - own <= free BY <1>1
<1>3. w # "polling" => n < rest BY <1>1, <1>2
<1>4. w = "send" => n = own /\ 0 < free OBVIOUS
<1>5. permits' = permits - taken
      /\ sent' = [sent EXCEPT ![c] = sent[c] + n]
      /\ sending' = sending \o [j \in 1..n |-> <<c, sent[c] + j>>]
      /\ received' = [i \in Id |-> IF i[1] = c /\ i[2] \in sent[c] + 1 .. sent[c] + n
                                    THEN "pending" ELSE received[i]]
      /\ Goto(c, w)
      /\ UNCHANGED <<subs, notes, exit>>
  BY DEF Sends
<1>6. w \in AfterSends BY DEF AfterSends
<1> HIDE DEF n, w
<1>7. n \in 0..Batch /\ sent[c] + n <= Size(c) /\ (w # "polling" => sent[c] + n < Size(c))
  BY <1>1, <1>2, <1>3
<1>8. permits' \in Nat /\ permits' = (permits + own) - (n + IF w = "send" THEN 1 ELSE 0)
  BY <1>1, <1>2, <1>4, <1>5
<1>9. SendsSome(c, own, n, w) BY <1>5, <1>7, <1>8 DEF SendsSome
<1> QED BY <1>6, <1>7, <1>9

LEMMA CallSends ==
  ASSUME TypeInv, NEW c \in Call
  PROVE  /\ Submit(c) =>
              \E n \in 0..Batch, w \in AfterSends : SendsSome(c, 0, n, w)
         /\ Acquire(c) =>
              \E n \in 0..Batch, w \in AfterSends : SendsSome(c, 0, n, w)
         /\ Enqueue(c) =>
              \E n \in 0..Batch, w \in AfterSends : SendsSome(c, 1, n, w)
<1>1. /\ permits \in Nat /\ sent[c] \in Nat
      /\ sent[c] + 0 <= Size(c) /\ Size(c) \in Nat
      /\ pc[c] = "send" => sent[c] + 1 <= Size(c)
  BY SizeType, ConstantsAssumption DEF TypeInv, TypeOK, WsTypeOK, AcquireShort
<1>2. Spare(c) \in Nat /\ Spare(c) <= permits BY <1>1 DEF Spare
<1>3. ASSUME Submit(c)
      PROVE  \E n \in 0..Batch, w \in AfterSends : SendsSome(c, 0, n, w)
  BY <1>1, <1>2, <1>3, SendsEffect DEF Submit
<1>4. ASSUME Acquire(c)
      PROVE  \E n \in 0..Batch, w \in AfterSends : SendsSome(c, 0, n, w)
  <2> DEFINE free == IF Spare(c) = 0 THEN 1 ELSE permits
  <2>1. Sends(c, 0, free) /\ free \in Nat /\ free <= permits
    BY <1>1, <1>4 DEF Acquire
  <2> HIDE DEF free
  <2> QED BY <1>1, <2>1, SendsEffect
<1>5. ASSUME Enqueue(c)
      PROVE  \E n \in 0..Batch, w \in AfterSends : SendsSome(c, 1, n, w)
  <2>1. Sends(c, 1, Spare(c)) /\ pc[c] = "send" BY <1>5 DEF Enqueue
  <2> QED BY <1>1, <1>2, <2>1, SendsEffect
<1> QED BY <1>3, <1>4, <1>5

LEMMA SendsType ==
  ASSUME TypeInv, NEW c \in Call, NEW own, NEW n \in 0..Batch, NEW w \in AfterSends,
         SendsSome(c, own, n, w), waiting' \in Int
  PROVE  BodyType
<1>1. sent[c] \in Nat /\ Size(c) \in 1..Batch /\ Batch \in Nat /\ n \in Nat
  BY SizeType, ConstantsAssumption DEF TypeInv, TypeOK
<1>2. sent[c] + n <= Size(c) /\ (w # "polling" => sent[c] + n < Size(c))
  BY DEF SendsSome
<1>3. sending' \in Seq(Id)
  <2>1. sent[c] + n <= Batch BY <1>1, <1>2
  <2>2. [j \in 1..n |-> <<c, sent[c] + j>>] \in Seq(Id) BY <1>1, <2>1, PayloadSeqType
  <2>3. sending' = sending \o [j \in 1..n |-> <<c, sent[c] + j>>] BY DEF SendsSome
  <2>4. sending \in Seq(Id) BY DEF TypeInv, TypeOK, WsTypeOK
  <2> QED BY <2>2, <2>3, <2>4, ConcatProperties
<1>4. received' \in [Id -> {"none", "pending", "done", "exc"}]
  BY DEF SendsSome, TypeInv, TypeOK, WsTypeOK
<1>5. sent' = [sent EXCEPT ![c] = sent[c] + n] /\ pc' = [pc EXCEPT ![c] = w]
  BY DEF SendsSome, Goto
<1>6. sent' \in [Call -> 0..Batch] BY <1>1, <1>2, <1>5 DEF TypeInv, TypeOK
<1>7. pc' \in [Call -> Where] BY <1>5 DEF TypeInv, TypeOK, Where, Marked, AfterSends
<1>8. AcquireShort'
  BY <1>1, <1>2, <1>5 DEF TypeInv, TypeOK, AcquireShort, Size
<1>9. permits' \in Nat /\ UNCHANGED <<subs, notes, exit>> BY DEF SendsSome
<1> QED BY <1>3, <1>4, <1>6, <1>7, <1>8, <1>9 DEF BodyType, TypeInv, TypeOK, WsTypeOK

LEMMA SubmitType ==
  ASSUME TypeInv, NEW c \in Call, Submit(c)
  PROVE  BodyType
<1>1. PICK n \in 0..Batch, w \in AfterSends : SendsSome(c, 0, n, w) BY CallSends
<1>2. waiting' \in Int BY DEF Submit, TypeInv, TypeOK, WsTypeOK
<1> QED BY <1>1, <1>2, SendsType

LEMMA LeaveType ==
  ASSUME TypeInv, NEW c \in Call, NEW e, c \in Watch, Leave(c, e)
  PROVE  BodyType
<1>1. Unsubscribe(c) \in Id BY ConstantsAssumption DEF Unsubscribe, Id
<1>2. sending' \in Seq(Id)
  BY <1>1, AppendProperties DEF Leave, TypeInv, TypeOK, WsTypeOK
<1>3. exit' \in {"none", "armed"} \cup Closing
  BY ArmType DEF Leave, TypeInv, TypeOK, WsTypeOK
<1>4. /\ pc' \in [Call -> Where]
      /\ AcquireShort'
  BY DEF Leave, Goto, TypeInv, TypeOK, AcquireShort, Size, Where, Settled, Marked
<1>5. notes' \in [Watch -> Seq(Note)] BY DEF Leave, TypeInv, TypeOK, WsTypeOK
<1>6. waiting' \in Int BY DEF Leave, TypeInv, TypeOK, WsTypeOK
<1> QED BY <1>2, <1>3, <1>4, <1>5, <1>6
        DEF BodyType, Leave, TypeInv, TypeOK, WsTypeOK

LEMMA ProceedType ==
  ASSUME TypeInv, NEW c \in Call, NEW e, e # "none" => c \in Watch,
         Proceed(c, e)
  PROVE  BodyType
<1>1. CASE LockedOut(c)
  BY <1>1 DEF Proceed, BodyType, Goto, TypeInv, TypeOK, WsTypeOK, AcquireShort,
              Size, Where
<1>2. CASE ~LockedOut(c) BY <1>2, SubmitType, LeaveType DEF Proceed
<1> QED BY <1>1, <1>2
\* Every connecting step leaves the rest of a call's record alone.
LEMMA EnterType ==
  ASSUME TypeInv, NEW c \in Call, Enter(c) \/ GrabLock(c) \/ Mark(c)
  PROVE  TypeInv'
<1>1. CASE Enter(c)
  <2>1. BodyType
    <3>1. CASE ws = "open" BY <1>1, <3>1, ProceedType DEF Enter
    <3>2. CASE ws # "open"
      BY <1>1, <3>2 DEF Enter, BodyType, Goto, TypeInv, TypeOK, WsTypeOK,
                        AcquireShort, Size, Where
    <3> QED BY <3>1, <3>2
  <2> QED BY <1>1, <2>1 DEF Enter, BodyType, TypeInv, TypeOK, WsTypeOK,
                            EndingWatched, serverVars
<1>2. CASE GrabLock(c)
  <2>1. CASE ws = "open"
    <3>1. BodyType BY <1>2, <2>1, ProceedType DEF GrabLock, TypeInv, EndingWatched
    <3> QED BY <1>2, <2>1, <3>1 DEF GrabLock, BodyType, TypeInv, TypeOK, WsTypeOK,
                                    EndingWatched, serverVars
  <2>2. CASE ws # "open"
    <3>1. /\ sending' \in Seq(Id)
          /\ handler' \in {"none", "run", "stopped", "redial", "failed"}
      BY <1>2, <2>2, HeadTailProperties
         DEF GrabLock, CancelHandler, TypeInv, TypeOK, WsTypeOK
    <3>2. /\ exit' \in {"none", "armed"} \cup Closing
          /\ lock' \in SUBSET Call
      BY <1>2, <2>2 DEF GrabLock, TypeInv, TypeOK, WsTypeOK
    <3>3. pc' = [pc EXCEPT ![c] = "dial"] BY <1>2, <2>2 DEF GrabLock, Goto
    <3> QED BY <1>2, <2>2, <3>1, <3>2, <3>3
            DEF GrabLock, TypeInv, TypeOK, WsTypeOK, AcquireShort, EndingWatched,
                Size, Where, serverVars
  <2> QED BY <2>1, <2>2
<1>3. CASE Mark(c)
  <2>1. BodyType BY <1>3, SubmitType, LeaveType DEF Mark, TypeInv, EndingWatched
  <2> QED BY <1>3, <2>1 DEF Mark, BodyType, TypeInv, TypeOK, WsTypeOK,
                            EndingWatched, serverVars
<1> QED BY <1>1, <1>2, <1>3

LEMMA DialType == ASSUME TypeInv, NEW c \in Call, Dial(c) PROVE TypeInv'
<1>1. CASE DialOk(c)
  <2>1. BodyType BY <1>1, ProceedType DEF DialOk, TypeInv, EndingWatched
  <2> QED BY <1>1, <2>1 DEF DialOk, NewConnection, BodyType, TypeInv, TypeOK,
                            WsTypeOK, EndingWatched
<1>2. CASE DialFail(c)
  <2>1. left' \in [Fault -> Nat]
    BY <1>2, BudgetType DEF DialFail, TypeInv, TypeOK, WsTypeOK, Fault
  <2>2. exit' \in {"none", "armed"} \cup Closing
    BY <1>2, ArmType DEF DialFail, Raise, TypeInv, TypeOK, WsTypeOK
  <2>3. pc' = [pc EXCEPT ![c] = "failed"] BY <1>2 DEF DialFail, Raise, Goto
  <2> QED BY <1>2, <2>1, <2>2, <2>3
          DEF DialFail, TypeInv, TypeOK, WsTypeOK, AcquireShort, EndingWatched,
              Size, Where, Settled, serverVars
<1>3. CASE DialNoName(c)
  <2>1. left' \in [Fault -> Nat]
    BY <1>3, BudgetType DEF DialNoName, TypeInv, TypeOK, WsTypeOK, Fault
  <2> QED BY <1>3, <2>1
          DEF DialNoName, Goto, TypeInv, TypeOK, WsTypeOK, AcquireShort,
              EndingWatched, Size, Where, clientVars, serverVars
<1> QED BY <1>1, <1>2, <1>3 DEF Dial

LEMMA AcquireType ==
  ASSUME TypeInv, NEW c \in Call, Acquire(c) \/ Enqueue(c)
  PROVE  TypeInv'
<1>1. PICK own \in {0, 1}, n \in 0..Batch, w \in AfterSends : SendsSome(c, own, n, w)
  BY CallSends
<1>2. /\ UNCHANGED <<ws, lock, inflight, waiting, handler, last, left, got, ending>>
      /\ UNCHANGED serverVars
  BY DEF Acquire, Enqueue
<1>3. BodyType
  <2>1. waiting' \in Int BY <1>2 DEF TypeInv, TypeOK, WsTypeOK
  <2> QED BY <1>1, <2>1, SendsType
<1> QED BY <1>2, <1>3
        DEF BodyType, TypeInv, TypeOK, WsTypeOK, EndingWatched, serverVars

LEMMA CompleteType ==
  ASSUME TypeInv, NEW c \in Call, Complete(c)
  PROVE  /\ waiting' \in Int
         /\ exit' \in {"none", "armed"} \cup Closing
         /\ \E w \in {"unmark", "done"} : Goto(c, w)
  BY ArmType DEF Complete, TypeInv, TypeOK, WsTypeOK

LEMMA PollType == ASSUME TypeInv, NEW c \in Call, Poll(c) PROVE TypeInv'
<1> DEFINE open  == Payload(c) \ got[c]
           bad   == {j \in open : Hopeless(c, j)}
           taken == {j \in open : received[<<c, j>>] = "done"
                                    /\ \A k \in bad : j < k}
           spoilt == {j \in bad : received[<<c, j>>] = "exc"
                                    /\ \A k \in bad : j <= k}
<1>1. Payload(c) \subseteq 1..Batch
  BY SizeType, ConstantsAssumption DEF Payload
<1>2. IsFiniteSet(1..Batch) BY FS_Interval, ConstantsAssumption
<1>3. /\ taken \in SUBSET (1..Batch)
      /\ spoilt \in SUBSET (1..Batch)
  BY <1>1
<1>4. Cardinality(taken) \in Nat /\ Cardinality(spoilt) \in Nat
  BY <1>2, <1>3, FS_Subset, FS_CardinalityType
<1>5. permits' = permits + Freed(taken, spoilt) BY DEF Poll
<1> HIDE DEF taken, spoilt
<1>6. permits' \in Nat BY <1>4, <1>5 DEF Freed, TypeInv, TypeOK, WsTypeOK
<1> USE DEF taken, spoilt
<1>7. received' \in [Id -> {"none", "pending", "done", "exc"}]
  BY DEF Poll, TypeInv, TypeOK, WsTypeOK
<1>8. got' = [got EXCEPT ![c] = got[c] \cup taken] BY DEF Poll
<1>9. got' \in [Call -> SUBSET (1..Batch)] BY <1>3, <1>8 DEF TypeInv, TypeOK
<1>10. \/ Raise(c) /\ UNCHANGED waiting
       \/ UNCHANGED <<pc, waiting, exit>>
       \/ Goto(c, "watching") /\ UNCHANGED <<waiting, exit>>
       \/ Complete(c)
  BY DEF Poll
<1>11. /\ waiting' \in Int
       /\ exit' \in {"none", "armed"} \cup Closing
       /\ UNCHANGED pc \/ \E w \in Where \ {"acquire", "send"} : Goto(c, w)
  BY <1>10, CompleteType, ArmType
     DEF Raise, TypeInv, TypeOK, WsTypeOK, Where, Marked, Settled
<1>12. UNCHANGED <<ws, lock, sending, inflight, subs, notes, handler, last,
                   serverVars, left, sent, ending>>
  BY DEF Poll
<1>13. pc' \in [Call -> Where] /\ AcquireShort'
  BY <1>11, <1>12 DEF Goto, TypeInv, TypeOK, AcquireShort, Size
<1> QED BY <1>6, <1>7, <1>9, <1>11, <1>12, <1>13
        DEF TypeInv, TypeOK, WsTypeOK, EndingWatched, serverVars

LEMMA TakeNoteType == ASSUME TypeInv, NEW c \in Call, TakeNote(c) PROVE TypeInv'
<1>1. c \in Watch BY DEF TakeNote, TypeInv, TypeOK, WsTypeOK
<1>2. Tail(notes[c]) \in Seq(Note)
  BY <1>1, HeadTailProperties DEF TakeNote, TypeInv, TypeOK, WsTypeOK
<1>3. BodyType
  <2>1. ASSUME NEW e, Leave(c, e) PROVE BodyType BY <1>1, <2>1, LeaveType
  <2>2. CASE /\ notes' = [notes EXCEPT ![c] = Tail(@)]
             /\ UNCHANGED <<waiting, permits, sending, received, subs, exit, sent>>
             /\ UNCHANGED pc \/ Goto(c, IF ws = "open" THEN "mark" ELSE "lockwait")
    <3>1. notes' \in [Watch -> Seq(Note)]
      BY <1>1, <1>2, <2>2 DEF TypeInv, TypeOK, WsTypeOK
    <3>2. pc' \in [Call -> Where] /\ AcquireShort'
      BY <2>2 DEF Goto, TypeInv, TypeOK, AcquireShort, Size, Where
    <3> QED BY <2>2, <3>1, <3>2 DEF BodyType, TypeInv, TypeOK, WsTypeOK
  <2> QED BY <2>1, <2>2 DEF TakeNote
<1>4. ending' \in [Call -> {"none", "finish", "abort"}] /\ EndingWatched'
  BY <1>1 DEF TakeNote, TypeInv, TypeOK, EndingWatched
<1> QED BY <1>3, <1>4
        DEF TakeNote, BodyType, TypeInv, TypeOK, WsTypeOK, serverVars

LEMMA EndType ==
  ASSUME TypeInv, NEW c \in Call, WatchFails(c) \/ Unmark(c) \/ Cancel(c)
  PROVE  TypeInv'
<1>1. /\ exit' \in {"none", "armed"} \cup Closing
      /\ waiting' \in Int
      /\ lock' \in SUBSET Call
  BY ArmType DEF WatchFails, Unmark, Cancel, Raise, TypeInv, TypeOK, WsTypeOK
<1>2. left' \in [Fault -> Nat]
  BY BudgetType DEF WatchFails, Unmark, Cancel, TypeInv, TypeOK, WsTypeOK, Fault
<1>3. \E w \in Settled : Goto(c, w)
  BY DEF WatchFails, Unmark, Cancel, Raise, Settled
<1>4. pc' \in [Call -> Where] /\ (sent' = sent => AcquireShort')
  BY <1>3 DEF Goto, TypeInv, TypeOK, AcquireShort, Size, Where, Settled
<1>5. CASE WatchFails(c)
  BY <1>1, <1>2, <1>4, <1>5
     DEF WatchFails, TypeInv, TypeOK, WsTypeOK, EndingWatched, serverVars
<1>6. CASE Unmark(c)
  BY <1>1, <1>2, <1>4, <1>6
     DEF Unmark, TypeInv, TypeOK, WsTypeOK, EndingWatched, serverVars
<1>7. CASE Cancel(c)
  BY <1>1, <1>2, <1>4, <1>7
     DEF Cancel, TypeInv, TypeOK, WsTypeOK, EndingWatched, serverVars
<1> QED BY <1>5, <1>6, <1>7

LEMMA TypeStep == TypeInv /\ [Next]_vars => TypeInv'
<1> SUFFICES ASSUME TypeInv, [Next]_vars PROVE TypeInv' OBVIOUS
<1>1. CASE WsStep BY <1>1, WsStepType
<1>2. ASSUME NEW c \in Call, CallStep(c) PROVE TypeInv'
  BY <1>2, EnterType, DialType, AcquireType, PollType, TakeNoteType, EndType
     DEF CallStep
<1>3. CASE UNCHANGED vars
  BY <1>3 DEF TypeInv, TypeOK, WsTypeOK, AcquireShort, EndingWatched, Size, vars,
              wsVars, clientVars, serverVars, callVars
<1> QED BY <1>1, <1>2, <1>3 DEF Next

\* The inductive invariant, for the proofs that build on it.
THEOREM TypeInvariant == Spec => []TypeInv
<1> QED BY InitType, TypeStep, PTL DEF Spec

\* Every variable of Websocket and of the calls keeps its type whatever the
\* network, the node and the callers do.
THEOREM TypeCorrect == Spec => []TypeOK
<1>1. TypeInv => TypeOK BY DEF TypeInv
<1> QED BY <1>1, TypeInvariant, PTL

-----------------------------------------------------------------------------
(***************************************************************************)
(* The safety properties of the calls and their Websocket, and that they   *)
(* implement RpcService, from the invariant of RpcInvariant.               *)
(***************************************************************************)

(***************************************************************************)
(* The send queue: which ids it holds after each operation on it.          *)
(***************************************************************************)

LEMMA TailHolds ==
  ASSUME NEW S, NEW s \in Seq(S), s # <<>>
  PROVE  /\ Head(s) \in Range(s)
         /\ Range(Tail(s)) \subseteq Range(s)
         /\ IsInjective(s) => IsInjective(Tail(s)) /\ Head(s) \notin Range(Tail(s))
<1>1. /\ Tail(s) \in Seq(S)
      /\ Len(s) \in Nat \ {0}
      /\ Len(Tail(s)) = Len(s) - 1
      /\ \A n \in 1..Len(Tail(s)) : Tail(s)[n] = s[n + 1]
      /\ Head(s) = s[1]
  BY HeadTailProperties, LenProperties, EmptySeq
<1>2. DOMAIN s = 1..Len(s) /\ DOMAIN Tail(s) = 1..Len(Tail(s))
  BY <1>1, LenProperties
<1>3. \A n \in DOMAIN Tail(s) : n + 1 \in DOMAIN s /\ n + 1 # 1
                                /\ Tail(s)[n] = s[n + 1]
  BY <1>1, <1>2
<1>4. 1 \in DOMAIN s BY <1>1, <1>2
<1>5. Range(Tail(s)) \subseteq Range(s) BY <1>3 DEF Range
<1>6. ASSUME IsInjective(s)
      PROVE  IsInjective(Tail(s)) /\ Head(s) \notin Range(Tail(s))
  <2>1. IsInjective(Tail(s)) BY <1>1, <1>2, <1>3, <1>6 DEF IsInjective
  <2>2. Head(s) \notin Range(Tail(s))
    BY <1>1, <1>3, <1>4, <1>6 DEF IsInjective, Range
  <2> QED BY <2>1, <2>2
<1> QED BY <1>1, <1>4, <1>5, <1>6 DEF Range

LEMMA HeadOrTail ==
  ASSUME NEW S, NEW s \in Seq(S), s # <<>>
  PROVE  Range(s) \subseteq Range(Tail(s)) \cup {Head(s)}
<1>1. /\ Len(s) \in Nat \ {0} /\ Len(Tail(s)) = Len(s) - 1 /\ Tail(s) \in Seq(S)
      /\ \A n \in 1..Len(Tail(s)) : Tail(s)[n] = s[n + 1]
      /\ Head(s) = s[1]
  BY HeadTailProperties, LenProperties, EmptySeq
<1>2. DOMAIN s = 1..Len(s) /\ DOMAIN Tail(s) = 1..Len(Tail(s))
  BY <1>1, LenProperties
<1>3. ASSUME NEW n \in 1..Len(s), n # 1 PROVE s[n] \in Range(Tail(s))
  <2>1. n - 1 \in DOMAIN Tail(s) /\ (n - 1) + 1 = n BY <1>1, <1>2, <1>3
  <2> QED BY <1>1, <1>2, <2>1 DEF Range
<1> QED BY <1>1, <1>2, <1>3 DEF Range

LEMMA AppendHolds ==
  ASSUME NEW S, NEW s \in Seq(S), NEW x \in S
  PROVE  /\ Range(Append(s, x)) = Range(s) \cup {x}
         /\ IsInjective(s) /\ x \notin Range(s) => IsInjective(Append(s, x))
<1> DEFINE t == Append(s, x)
<1>1. /\ t \in Seq(S) /\ Len(t) = Len(s) + 1 /\ Len(s) \in Nat
      /\ \A n \in 1..Len(s) : t[n] = s[n]
      /\ t[Len(s) + 1] = x
  BY AppendProperties, LenProperties
<1>2. DOMAIN t = 1..(Len(s) + 1) /\ DOMAIN s = 1..Len(s)
  BY <1>1, LenProperties
<1> HIDE DEF t
<1>3. \A n \in DOMAIN t : n \in DOMAIN s \/ n = Len(s) + 1 BY <1>1, <1>2
<1>4. Len(s) + 1 \in DOMAIN t /\ DOMAIN s \subseteq DOMAIN t BY <1>1, <1>2
<1>5. Range(t) = Range(s) \cup {x} BY <1>1, <1>2, <1>3, <1>4 DEF Range
<1>6. ASSUME IsInjective(s), x \notin Range(s) PROVE IsInjective(t)
  BY <1>1, <1>2, <1>3, <1>6 DEF IsInjective, Range
<1> QED BY <1>5, <1>6 DEF t

LEMMA ConcatHolds ==
  ASSUME NEW S, NEW s \in Seq(S), NEW t \in Seq(S)
  PROVE  /\ Range(s \o t) = Range(s) \cup Range(t)
         /\ IsInjective(s) /\ IsInjective(t) /\ Range(s) \cap Range(t) = {}
              => IsInjective(s \o t)
<1> DEFINE u == s \o t
<1>1. /\ u \in Seq(S) /\ Len(u) = Len(s) + Len(t)
      /\ Len(s) \in Nat /\ Len(t) \in Nat
      /\ \A n \in 1..(Len(s) + Len(t)) :
           u[n] = IF n <= Len(s) THEN s[n] ELSE t[n - Len(s)]
  BY ConcatProperties, LenProperties
<1>2. /\ DOMAIN u = 1..(Len(s) + Len(t))
      /\ DOMAIN s = 1..Len(s) /\ DOMAIN t = 1..Len(t)
  BY <1>1, LenProperties
<1> HIDE DEF u
<1>3. \A n \in DOMAIN u : \/ n \in DOMAIN s /\ u[n] = s[n]
                          \/ n - Len(s) \in DOMAIN t /\ u[n] = t[n - Len(s)]
  BY <1>1, <1>2
<1>4. ASSUME IsInjective(s), IsInjective(t), Range(s) \cap Range(t) = {}
      PROVE  IsInjective(u)
  <2> SUFFICES ASSUME NEW a \in DOMAIN u, NEW b \in DOMAIN u, u[a] = u[b]
               PROVE  a = b
    BY DEF IsInjective
  <2>1. a \in Nat /\ b \in Nat BY <1>1, <1>2
  <2>2. CASE a \in DOMAIN s /\ b \in DOMAIN s
    BY <1>1, <1>2, <1>4, <2>2 DEF IsInjective
  <2>3. CASE a \notin DOMAIN s /\ b \notin DOMAIN s
    <3>1. a - Len(s) = b - Len(s) BY <1>3, <1>4, <2>3 DEF IsInjective
    <3> QED BY <1>1, <2>1, <3>1
  <2>4. CASE (a \in DOMAIN s) # (b \in DOMAIN s)
    <3>1. /\ a \in DOMAIN s => u[a] \in Range(s)
          /\ a \notin DOMAIN s => u[a] \in Range(t)
      BY <1>1, <1>2, <1>3 DEF Range
    <3>2. /\ b \in DOMAIN s => u[b] \in Range(s)
          /\ b \notin DOMAIN s => u[b] \in Range(t)
      BY <1>1, <1>2, <1>3 DEF Range
    <3> QED BY <1>4, <2>4, <3>1, <3>2
  <2> QED BY <2>2, <2>3, <2>4
<1>5. Range(u) = Range(s) \cup Range(t) BY RangeConcatenation DEF u
<1> QED BY <1>4, <1>5 DEF u

LEMMA OrderHolds ==
  ASSUME NEW S \in SUBSET Id, NEW s \in SetToSeqs(S)
  PROVE  s \in Seq(Id) /\ IsInjective(s) /\ Range(s) \subseteq S
<1>1. s \in [1..Cardinality(S) -> S] BY DEF SetToSeqs
<1>2. IsInjective(s) BY <1>1 DEF SetToSeqs, IsInjective
<1> QED BY <1>1, <1>2, OrderType DEF Range

\* All of them are in the order.
LEMMA OrderFills ==
  ASSUME NEW S \in SUBSET Id, NEW s \in SetToSeqs(S)
  PROVE  S \subseteq Range(s)
<1> DEFINE D == 1..Cardinality(S)
<1>1. IsFiniteSet(S) /\ Cardinality(S) \in Nat BY IdFinite, FS_Subset, FS_CardinalityType
<1>2. s \in [D -> S] /\ \A i, j \in D : i # j => s[i] # s[j] BY DEF SetToSeqs
<1>3. IsFiniteSet(D) /\ Cardinality(D) = Cardinality(S)
  <2>1. 0 + Cardinality(S) = Cardinality(S) BY <1>1
  <2> QED BY <1>1, FS_Interval
<1> HIDE DEF D
<1>4. s \in Injection(D, S) BY <1>2 DEF Injection, IsInjective
<1>5. s \in Surjection(D, S) BY <1>1, <1>3, <1>4, FS_Injection
<1> QED BY <1>2, <1>5 DEF Surjection, Range

LEMMA PayloadHolds ==
  ASSUME NEW c \in Call, NEW k \in Nat, NEW n \in Nat, k + n <= Batch
  PROVE  LET s == [j \in 1..n |-> <<c, k + j>>]
         IN  /\ s \in Seq(Id) /\ IsInjective(s)
             /\ Range(s) = {<<c, k + j>> : j \in 1..n}
<1> DEFINE s == [j \in 1..n |-> <<c, k + j>>]
<1>1. IsInjective(s) BY DEF IsInjective
<1>2. Range(s) = {<<c, k + j>> : j \in 1..n} BY DEF Range
<1> QED BY <1>1, <1>2, PayloadSeqType
-----------------------------------------------------------------------------
(***************************************************************************)
(* The lock.                                                               *)
(***************************************************************************)

\* Submit and Leave take a call to a place where it does not hold the lock.
LEMMA BodyPlace ==
  ASSUME NEW c \in Call, NEW e, Submit(c) \/ Leave(c, e) \/ Proceed(c, e)
  PROVE  \E w \in {"mark", "unmark", "done", "failed"} \cup AfterSends : Goto(c, w)
  BY DEF Submit, Sends, Leave, Proceed, AfterSends

LEMMA LockWsStep == TypeInv /\ LockInv /\ WsStep => LockInv'
<1> SUFFICES ASSUME TypeInv, LockInv, WsStep PROVE LockInv' OBVIOUS
<1>1. UNCHANGED <<lock, pc>>
  BY DEF WsStep, callVars, Drop, Serve, Recv, Notify, RecvMalformed, Send,
         SendBadPayload, HandlerEnds, Resubmit, Redial, ExitFires, ExitStops,
         ExitDone, clientVars
<1>2. ASSUME lock # {} PROVE handler' \in {"none", "failed"} /\ ws' # "open"
  <2>1. handler \in {"none", "failed"} /\ ws # "open" BY <1>2 DEF LockInv
  <2>2. \/ UNCHANGED <<handler, ws>>
        \/ ExitStops \/ ExitDone
    BY <2>1 DEF WsStep, Drop, Serve, Recv, Notify, RecvMalformed, Send,
            SendBadPayload, HandlerEnds, Resubmit, Redial, ExitFires, Attached,
            clientVars
  <2> QED BY <2>1, <2>2 DEF ExitStops, ExitDone
<1> QED BY <1>1, <1>2 DEF LockInv

LEMMA LockCallStep ==
  ASSUME TypeInv, LockInv, NEW c \in Call, CallStep(c)
  PROVE  LockInv'
<1> USE DEF TypeInv, TypeOK, WsTypeOK
<1>1. ASSUME UNCHANGED <<lock, handler, ws>>, pc[c] \notin {"dial", "stuck"},
             UNCHANGED pc \/ \E w \in Where \ {"dial", "stuck"} : Goto(c, w)
      PROVE  LockInv'
  BY <1>1 DEF LockInv, Goto
<1>2. CASE Enter(c)
  BY <1>1, <1>2, BodyPlace DEF Enter, Where, Marked, Settled, serverVars, AfterSends
<1>3. CASE GrabLock(c)
  <2>1. CASE ws = "open"
    BY <1>1, <1>3, <2>1, BodyPlace DEF GrabLock, Where, Marked, Settled, AfterSends
  <2>2. CASE ws # "open"
    BY <1>3, <2>2 DEF GrabLock, CancelHandler, LockFree, LockInv, Goto
  <2> QED BY <2>1, <2>2
<1>4. CASE Dial(c)
  <2>1. lock = {c} BY <1>4 DEF Dial, DialOk, DialFail, DialNoName, LockInv
  <2>2. \A d \in Call \ {c} : pc[d] \notin {"dial", "stuck"}
    BY <2>1 DEF LockInv
  <2>3. CASE DialOk(c) BY <2>2, <2>3, BodyPlace DEF DialOk, LockInv, Goto, AfterSends
  <2>4. CASE DialFail(c) BY <2>2, <2>4 DEF DialFail, Raise, LockInv, Goto
  <2>5. CASE DialNoName(c)
    BY <2>1, <2>2, <2>5 DEF DialNoName, LockInv, Goto, clientVars
  <2> QED BY <1>4, <2>3, <2>4, <2>5 DEF Dial
<1>5. CASE Mark(c)
  BY <1>1, <1>5, BodyPlace DEF Mark, Where, Marked, Settled, AfterSends
<1>6. CASE Acquire(c) \/ Enqueue(c)
  <2>1. \E w \in AfterSends : Goto(c, w)
    BY <1>6 DEF Acquire, Enqueue, Sends, AfterSends
  <2> QED BY <1>1, <1>6, <2>1 DEF Acquire, Enqueue, Where, Marked, AfterSends
<1>7. CASE Poll(c)
  <2>1. UNCHANGED pc \/ \E w \in {"failed", "watching", "unmark", "done"} : Goto(c, w)
    BY <1>7 DEF Poll, Raise, Complete
  <2> QED BY <1>1, <1>7, <2>1 DEF Poll, Where, Marked, Settled
<1>8. CASE TakeNote(c)
  <2>1. UNCHANGED pc
        \/ \E w \in {"done", "failed", "unmark", "mark", "lockwait"} : Goto(c, w)
    BY <1>8 DEF TakeNote, Leave
  <2> QED BY <1>1, <1>8, <2>1 DEF TakeNote, Where, Settled, Marked
<1>9. CASE WatchFails(c) \/ Unmark(c)
  BY <1>1, <1>9 DEF WatchFails, Unmark, Raise, Where, Settled
<1>10. CASE Cancel(c) BY <1>10 DEF Cancel, LockInv, Goto
<1> QED BY <1>2, <1>3, <1>4, <1>5, <1>6, <1>7, <1>8, <1>9, <1>10 DEF CallStep

LEMMA LockStep == TypeInv /\ LockInv /\ [Next]_vars => LockInv'
<1>1. CASE UNCHANGED vars
  BY <1>1 DEF LockInv, vars, wsVars, clientVars, callVars
<1> QED BY <1>1, LockWsStep, LockCallStep DEF Next

LEMMA LockInit == Init => LockInv
  BY DEF Init, WsInit, LockInv

LEMMA LockInvariant == Spec => []LockInv
<1> QED BY LockInit, LockStep, TypeInvariant, PTL DEF Spec

\* Only the call that holds the lock dials, and never beside a handler that
\* could dial as well or a connection that is already open.
THEOREM SingleDialer == Spec => []OneDialer
<1>1. TypeInv /\ LockInv => OneDialer BY DEF TypeInv, TypeOK, LockInv, OneDialer
<1> QED BY <1>1, TypeInvariant, LockInvariant, PTL
-----------------------------------------------------------------------------
(***************************************************************************)
(* Where request ids come from: what a step of a call may put in the queue *)
(* and do to the futures.                                                  *)
(***************************************************************************)

\* The ids of a call that it has not issued yet.
Unissued(c) == {i \in Id : i[1] = c /\ ~Issued(i)}

\* A step puts unissued ids of the call in the queue, if any, and otherwise
\* only takes ids out and answers away.
Queues(c, N) ==
  /\ N \subseteq Unissued(c)
  /\ Range(sending') \subseteq Range(sending) \cup N
  /\ IsInjective(sending) => IsInjective(sending')
  /\ \A i \in Id :
       \/ received'[i] = received[i]
       \/ i \in N /\ received'[i] = "pending"
       \/ received[i] = "done" /\ received'[i] = "none"

LEMMA SendsQueues ==
  ASSUME TypeInv, OriginInv, NEW c \in Call, NEW own, NEW n \in 0..Batch,
         NEW w \in AfterSends, SendsSome(c, own, n, w)
  PROVE  \E N : Queues(c, N) /\ \A i \in N : Issued(i)'
<1> DEFINE k == sent[c]
           N == {<<c, k + j>> : j \in 1..n}
           s == [j \in 1..n |-> <<c, k + j>>]
<1>1. k \in Nat /\ n \in Nat /\ k + n <= Batch
  BY ConstantsAssumption, SizeType DEF TypeInv, TypeOK, SendsSome
<1>2. /\ sending' = sending \o s
      /\ received' = [i \in Id |-> IF i[1] = c /\ i[2] \in k + 1 .. k + n
                                    THEN "pending" ELSE received[i]]
      /\ sent'[c] = k + n
  BY DEF SendsSome, TypeInv, TypeOK
<1>3. s \in Seq(Id) /\ IsInjective(s) /\ Range(s) = N BY <1>1, PayloadHolds
<1> HIDE DEF s
<1>4. N \subseteq Unissued(c)
  <2> SUFFICES ASSUME NEW j \in 1..n PROVE <<c, k + j>> \in Unissued(c) OBVIOUS
  <2>1. ~Issued(<<c, k + j>>) BY <1>1 DEF Issued
  <2> QED BY <1>1, <2>1, ConstantsAssumption DEF Unissued, Id
<1>5. N \cap Range(sending) = {}
  BY <1>4 DEF Unissued, OriginInv, Circulating
<1>6. /\ Range(sending') = Range(sending) \cup N
      /\ IsInjective(sending) => IsInjective(sending')
  BY <1>2, <1>3, <1>5, ConcatHolds DEF TypeInv, TypeOK, WsTypeOK
<1>7. ASSUME NEW i \in Id
      PROVE  received'[i] = received[i] \/ (i \in N /\ received'[i] = "pending")
  <2>1. CASE i[1] = c /\ i[2] \in k + 1 .. k + n
    <3>1. i = <<c, k + (i[2] - k)>> /\ i[2] - k \in 1..n BY <1>1, <2>1 DEF Id
    <3> QED BY <1>2, <2>1, <3>1
  <2>2. CASE ~(i[1] = c /\ i[2] \in k + 1 .. k + n) BY <1>2, <2>2
  <2> QED BY <2>1, <2>2
<1>8. \A i \in N : Issued(i)'
  <2> SUFFICES ASSUME NEW i \in N PROVE Issued(i)' OBVIOUS
  <2>1. PICK j \in 1..n : i = <<c, k + j>> OBVIOUS
  <2>2. k + j \in 1..sent'[c] BY <1>1, <1>2
  <2>3. i[1] = c /\ i[2] = k + j BY <2>1
  <2>4. i[2] # 0 /\ i[2] \in 1..sent'[i[1]] BY <1>1, <2>2, <2>3
  <2> QED BY <2>4 DEF Issued
<1>9. Queues(c, N) BY <1>4, <1>6, <1>7 DEF Queues
<1> QED BY <1>8, <1>9

LEMMA LeaveQueues ==
  ASSUME TypeInv, OriginInv, NEW c \in Call, pc[c] \notin Settled \cup {"unmark"},
         NEW e, Leave(c, e)
  PROVE  \E N : Queues(c, N) /\ \A i \in N : i[2] = 0
<1> DEFINE u == <<c, 0>>
<1>1. u \in Unissued(c)
  <2>1. ~Issued(u) BY DEF Issued, Settled
  <2> QED BY <2>1, ConstantsAssumption DEF Unissued, Id
<1>2. u \in Id /\ u \notin Range(sending)
  BY <1>1 DEF Unissued, OriginInv, Circulating
<1>3. sending' = Append(sending, u) /\ UNCHANGED received
  BY DEF Leave, Unsubscribe
<1>4. /\ Range(sending') = Range(sending) \cup {u}
      /\ IsInjective(sending) => IsInjective(sending')
  <2>1. sending \in Seq(Id) BY DEF TypeInv, TypeOK, WsTypeOK
  <2> HIDE DEF u
  <2> QED BY <1>2, <1>3, <2>1, AppendHolds
<1>5. Queues(c, {u}) BY <1>1, <1>3, <1>4 DEF Queues
<1>6. \A i \in {u} : i[2] = 0 OBVIOUS
<1> QED BY <1>5, <1>6

LEMMA NothingQueued ==
  ASSUME TypeInv, NEW c \in Call, UNCHANGED <<sending, received>>
  PROVE  Queues(c, {})
BY DEF Queues, TypeInv, TypeOK, WsTypeOK

\* What Submit and Leave put in the queue is issued by the step that does it.
LEMMA BodyQueues ==
  ASSUME TypeInv, OriginInv, NEW c \in Call, pc[c] \notin Settled \cup {"unmark"}, NEW e,
         Submit(c) \/ (Leave(c, e) /\ ending'[c] # "none")
  PROVE  \E N : Queues(c, N) /\ \A i \in N : Issued(i)'
<1>1. CASE Submit(c) BY <1>1, CallSends, SendsQueues
<1>2. CASE Leave(c, e) /\ ending'[c] # "none"
  <2>1. PICK N : Queues(c, N) /\ \A i \in N : i[2] = 0 BY <1>2, LeaveQueues
  <2>2. \A i \in N : i[1] = c BY <2>1 DEF Queues, Unissued
  <2>3. pc'[c] \in {"unmark", "done", "failed"}
    BY <1>2 DEF Leave, Goto, TypeInv, TypeOK
  <2>4. \A i \in N : Issued(i)' BY <1>2, <2>1, <2>2, <2>3 DEF Issued, Settled
  <2> QED BY <2>1, <2>4
<1> QED BY <1>1, <1>2

LEMMA ProceedQueues ==
  ASSUME TypeInv, OriginInv, NEW c \in Call,
         pc[c] \notin Settled \cup {"unmark"},
         Proceed(c, ending[c]), UNCHANGED ending
  PROVE  \E N : Queues(c, N) /\ \A i \in N : Issued(i)'
<1>1. CASE LockedOut(c)
  <2>1. Queues(c, {}) BY <1>1, NothingQueued DEF Proceed
  <2> QED BY <2>1
<1>2. CASE ~LockedOut(c) /\ ending[c] = "none"
  BY <1>2, BodyQueues DEF Proceed
<1>3. CASE ~LockedOut(c) /\ ending[c] # "none"
  BY <1>3, BodyQueues DEF Proceed
<1> QED BY <1>1, <1>2, <1>3

LEMMA CallQueues ==
  ASSUME TypeInv, OriginInv, NEW c \in Call, CallStep(c)
  PROVE  \E N : Queues(c, N) /\ \A i \in N : Issued(i)'
<1>1. ASSUME UNCHANGED <<sending, received>>
      PROVE  \E N : Queues(c, N) /\ \A i \in N : Issued(i)'
  BY <1>1, NothingQueued
<1>2. CASE Enter(c)
  <2>1. CASE ws = "open"
    <3>1. pc[c] = "idle" /\ ending[c] = "none" BY <1>2 DEF Enter, OriginInv
    <3> QED BY <1>2, <2>1, <3>1, ProceedQueues DEF Enter, Settled
  <2> QED BY <1>1, <1>2, <2>1 DEF Enter
<1>3. CASE GrabLock(c)
  <2>1. CASE ws = "open" BY <1>3, <2>1, ProceedQueues DEF GrabLock, Settled
  <2>2. CASE ws # "open" /\ sending' = Tail(sending) /\ sending # <<>>
    <3>1. /\ Range(sending') \subseteq Range(sending)
          /\ IsInjective(sending) => IsInjective(sending')
      BY <2>2, TailHolds DEF TypeInv, TypeOK, WsTypeOK
    <3>2. Queues(c, {})
      BY <1>3, <2>2, <3>1 DEF Queues, GrabLock, TypeInv, TypeOK, WsTypeOK
    <3> QED BY <3>2
  <2>3. CASE ws # "open" /\ UNCHANGED sending
    BY <1>1, <1>3, <2>3 DEF GrabLock
  <2> QED BY <1>3, <2>1, <2>2, <2>3 DEF GrabLock, CancelHandler
<1>4. CASE Dial(c)
  <2>1. CASE DialOk(c) BY <2>1, ProceedQueues DEF DialOk, Settled
  <2>2. CASE DialFail(c) \/ DialNoName(c)
    BY <1>1, <2>2 DEF DialFail, DialNoName, clientVars
  <2> QED BY <1>4, <2>1, <2>2 DEF Dial
<1>5. CASE Mark(c)
  BY <1>5, BodyQueues DEF Mark, Settled
<1>6. CASE Acquire(c) \/ Enqueue(c) BY <1>6, CallSends, SendsQueues
<1>7. CASE Poll(c)
  <2>1. \A i \in Id : \/ received'[i] = received[i]
                      \/ received[i] = "done" /\ received'[i] = "none"
    BY <1>7 DEF Poll, Id
  <2>2. UNCHANGED sending BY <1>7 DEF Poll
  <2>3. Queues(c, {}) BY <2>1, <2>2 DEF Queues
  <2> QED BY <2>3
<1>8. CASE TakeNote(c)
  <2>1. ASSUME NEW e, e # "none", ending' = [ending EXCEPT ![c] = e], Leave(c, e)
        PROVE  \E N : Queues(c, N) /\ \A i \in N : Issued(i)'
    <3>1. pc[c] \notin Settled \cup {"unmark"} BY <1>8 DEF TakeNote, Settled
    <3>2. ending'[c] # "none" BY <2>1 DEF TypeInv, TypeOK
    <3> QED BY <2>1, <3>1, <3>2, BodyQueues
  <2>2. UNCHANGED <<sending, received>>
        \/ \E e \in {"finish", "abort"} :
              ending' = [ending EXCEPT ![c] = e] /\ Leave(c, e)
    BY <1>8 DEF TakeNote
  <2> QED BY <1>1, <2>1, <2>2
<1>9. CASE WatchFails(c) \/ Unmark(c) \/ Cancel(c)
  BY <1>1, <1>9 DEF WatchFails, Unmark, Cancel
<1> QED BY <1>2, <1>3, <1>4, <1>5, <1>6, <1>7, <1>8, <1>9 DEF CallStep

\* The sets of ids outside the queue only shrink when a call takes a step, and
\* a handler that starts finds the other end empty.
LEMMA CallSets ==
  ASSUME NEW c \in Call, CallStep(c)
  PROVE  /\ UNCHANGED <<inflight, served>>
         /\ \/ UNCHANGED <<atServer, answers>>
            \/ atServer' = {} /\ answers' = {}
         /\ handler' = "run" =>
              handler = "run" \/ (atServer' = {} /\ answers' = {})
<1>1. CASE Enter(c) BY <1>1 DEF Enter, serverVars
<1>2. CASE GrabLock(c)
  BY <1>2 DEF GrabLock, CancelHandler, serverVars
<1>3. CASE Dial(c)
  BY <1>3 DEF Dial, DialOk, DialFail, DialNoName, NewConnection, clientVars,
              serverVars
<1>4. CASE Mark(c) \/ Acquire(c) \/ Enqueue(c) \/ Poll(c) \/ TakeNote(c)
  BY <1>4 DEF Mark, Acquire, Enqueue, Poll, TakeNote, serverVars
<1>5. CASE WatchFails(c) \/ Unmark(c) \/ Cancel(c)
  BY <1>5 DEF WatchFails, Unmark, Cancel, serverVars
<1> QED BY <1>1, <1>2, <1>3, <1>4, <1>5 DEF CallStep


\* Where a step takes its call, as far as issuing goes: only send()
\* counts payloads, and never more than there are.
Records(c) ==
  /\ \A d \in Call \ {c} : /\ pc'[d] = pc[d]
                           /\ sent'[d] = sent[d]
                           /\ ending'[d] = ending[d]
  /\ sent[c] <= sent'[c]
  /\ sent'[c] <= Size(c)
  /\ NotSentYet(c)' => NotSentYet(c) /\ sent'[c] = sent[c]
  /\ pc'[c] # "idle"

LEMMA StayRecords ==
  ASSUME TypeInv, OriginInv, NEW c \in Call, pc[c] # "idle",
         UNCHANGED <<pc, sent, ending>>
  PROVE  Records(c)
<1>1. sent[c] \in Nat BY DEF TypeInv, TypeOK
<1> QED BY <1>1 DEF Records, NotSentYet, OriginInv

LEMMA MoveRecords ==
  ASSUME TypeInv, OriginInv, NEW c \in Call, UNCHANGED sent,
         NEW w \in Where \ {"idle"}, Goto(c, w),
         \/ UNCHANGED ending
         \/ \E e : e # "none" /\ ending' = [ending EXCEPT ![c] = e],
         \/ w \notin {"lockwait", "dial", "stuck", "mark"}
         \/ pc[c] \in {"idle", "lockwait", "dial", "stuck", "mark"}
         \/ ending'[c] # "none"
  PROVE  Records(c)
<1>1. sent[c] \in Nat /\ sent[c] <= Size(c) BY DEF TypeInv, TypeOK, OriginInv
<1>2. /\ pc'[c] = w
      /\ \A d \in Call \ {c} : pc'[d] = pc[d] /\ ending'[d] = ending[d]
      /\ ending'[c] = "none" => ending[c] = "none"
  BY DEF TypeInv, TypeOK, Goto
<1>3. NotSentYet(c)' => NotSentYet(c) BY <1>2 DEF NotSentYet
<1> QED BY <1>1, <1>2, <1>3 DEF Records

LEMMA SendsRecords ==
  ASSUME TypeInv, OriginInv, NEW c \in Call, NEW own, NEW n \in 0..Batch,
         NEW w \in AfterSends, SendsSome(c, own, n, w), UNCHANGED ending
  PROVE  Records(c)
<1>1. /\ sent'[c] = sent[c] + n /\ sent[c] \in Nat /\ n \in Nat
      /\ sent'[c] <= Size(c)
      /\ pc'[c] \in AfterSends
      /\ \A d \in Call \ {c} : pc'[d] = pc[d] /\ sent'[d] = sent[d]
  BY ConstantsAssumption DEF SendsSome, Goto, TypeInv, TypeOK
<1> QED BY <1>1 DEF Records, NotSentYet, AfterSends

LEMMA ProceedRecords ==
  ASSUME TypeInv, OriginInv, NEW c \in Call,
         pc[c] \in {"idle", "lockwait", "dial", "mark"},
         Proceed(c, ending[c]), UNCHANGED ending
  PROVE  Records(c)
<1>1. CASE LockedOut(c)
  BY <1>1, MoveRecords DEF Proceed, Where
<1>2. CASE ~LockedOut(c) /\ ending[c] = "none"
  <2>1. Submit(c) BY <1>2 DEF Proceed
  <2> QED BY <2>1, CallSends, SendsRecords
<1>3. CASE ~LockedOut(c) /\ ending[c] # "none"
  <2>1. Leave(c, ending[c]) BY <1>3 DEF Proceed
  <2>2. pc[c] \in {"idle", "lockwait", "dial", "stuck", "mark"} OBVIOUS
  <2> QED BY <2>1, <2>2, MoveRecords DEF Leave, Where, Settled, Marked
<1> QED BY <1>1, <1>2, <1>3

LEMMA CallActive ==
  ASSUME NEW c \in Call, CallStep(c)
  PROVE  pc[c] \notin Settled
  BY DEF CallStep, Enter, GrabLock, Dial, DialOk, DialFail, DialNoName, Mark,
         Acquire, Enqueue, Poll, TakeNote, WatchFails, Unmark, Cancel, Settled

LEMMA CallRecords ==
  ASSUME TypeInv, OriginInv, NEW c \in Call, CallStep(c)
  PROVE  Records(c)
<1>2. CASE Enter(c)
  <2>1. pc[c] = "idle" /\ ending[c] = "none" BY <1>2 DEF Enter, OriginInv
  <2>2. CASE ws = "open" BY <1>2, <2>1, <2>2, ProceedRecords DEF Enter
  <2>3. CASE ws # "open" BY <1>2, <2>1, <2>3, MoveRecords DEF Enter, Where
  <2> QED BY <2>2, <2>3
<1>3. CASE GrabLock(c)
  <2>1. CASE ws = "open" BY <1>3, <2>1, ProceedRecords DEF GrabLock
  <2>2. CASE ws # "open" BY <1>3, <2>2, MoveRecords DEF GrabLock, Where
  <2> QED BY <2>1, <2>2
<1>4. CASE Dial(c)
  <2>1. CASE DialOk(c) BY <2>1, ProceedRecords DEF DialOk
  <2>2. CASE DialFail(c)
    BY <2>2, MoveRecords DEF DialFail, Raise, Where, Settled
  <2>3. CASE DialNoName(c) BY <2>3, MoveRecords DEF DialNoName, Where
  <2> QED BY <1>4, <2>1, <2>2, <2>3 DEF Dial
<1>5. CASE Mark(c)
  <2>1. CASE ending[c] = "none"
    <3>1. Submit(c) /\ UNCHANGED ending BY <1>5, <2>1 DEF Mark
    <3> QED BY <3>1, CallSends, SendsRecords
  <2>2. CASE ending[c] # "none"
    <3>1. Leave(c, ending[c]) BY <1>5, <2>2 DEF Mark
    <3> QED BY <1>5, <3>1, MoveRecords DEF Mark, Leave, Where, Settled, Marked
  <2> QED BY <2>1, <2>2
<1>6. CASE Acquire(c) \/ Enqueue(c)
  <2>1. UNCHANGED ending BY <1>6 DEF Acquire, Enqueue
  <2> QED BY <1>6, <2>1, CallSends, SendsRecords
<1>7. CASE Poll(c)
  <2>1. UNCHANGED pc \/ \E w \in {"failed", "watching", "unmark", "done"} : Goto(c, w)
    BY <1>7 DEF Poll, Raise, Complete
  <2> QED BY <1>7, <2>1, MoveRecords, StayRecords
          DEF Poll, Where, Marked, Settled
<1>8. CASE TakeNote(c)
  <2>1. CASE UNCHANGED <<pc, sent, ending>>
    BY <1>8, <2>1, StayRecords DEF TakeNote
  <2>2. ASSUME NEW e \in {"finish", "abort"},
               ending' = [ending EXCEPT ![c] = e], UNCHANGED sent,
               NEW w \in {"done", "failed", "unmark", "mark", "lockwait"}, Goto(c, w)
        PROVE  Records(c)
    <3>1. ending'[c] # "none" BY <2>2 DEF TypeInv, TypeOK
    <3> QED BY <2>2, <3>1, MoveRecords DEF Where, Settled, Marked
  <2>3. \/ UNCHANGED <<pc, sent, ending>>
        \/ /\ UNCHANGED sent
           /\ \E e \in {"finish", "abort"} : ending' = [ending EXCEPT ![c] = e]
           /\ \E w \in {"done", "failed", "unmark", "mark", "lockwait"} : Goto(c, w)
    BY <1>8 DEF TakeNote, Leave
  <2> QED BY <2>1, <2>2, <2>3
<1>9. CASE WatchFails(c) \/ Unmark(c)
  BY <1>9, MoveRecords DEF WatchFails, Unmark, Raise, Where, Settled
<1>10. CASE Cancel(c)
  BY <1>10, MoveRecords DEF Cancel, Where, Settled
<1> QED BY <1>2, <1>3, <1>4, <1>5, <1>6, <1>7, <1>8, <1>9, <1>10
        DEF CallStep
-----------------------------------------------------------------------------
(***************************************************************************)
(* Whatever circulates was issued by a call.                               *)
(***************************************************************************)

LEMMA IssuedKept ==
  ASSUME TypeInv, OriginInv, [Next]_vars, NEW i \in Id, Issued(i)
  PROVE  Issued(i)'
<1>1. i[1] \in Call /\ i[2] \in Nat
  BY ConstantsAssumption DEF Id
<1>2. CASE UNCHANGED callVars BY <1>2 DEF callVars, Issued
<1>3. ASSUME NEW c \in Call, CallStep(c) PROVE Issued(i)'
  <2>1. CASE i[1] # c
    <3>1. /\ pc'[i[1]] = pc[i[1]] /\ sent'[i[1]] = sent[i[1]]
          /\ ending'[i[1]] = ending[i[1]]
      BY <1>1, <1>3, <2>1, CallRecords DEF Records
    <3> QED BY <3>1 DEF Issued
  <2>2. CASE i[1] = c
    <3>1. CASE i[2] \in 1..sent[c]
      <4>1. sent[c] \in Nat /\ sent'[c] \in Nat /\ sent[c] <= sent'[c]
        BY <1>3, CallRecords, TypeStep DEF Records, TypeInv, TypeOK
      <4> QED BY <2>2, <3>1, <4>1 DEF Issued
    <3>2. CASE i[2] \notin 1..sent[c]
      <4>1. i[2] = 0 /\ ending[c] # "none" /\ pc[c] = "unmark"
        BY <1>3, <2>2, <3>2, CallActive DEF Issued, Settled
      <4>2. UNCHANGED ending /\ \E w \in Settled : Goto(c, w)
        BY <1>3, <4>1 DEF CallStep, Enter, GrabLock, Dial, DialOk, DialFail, DialNoName,
           Mark, Acquire, Enqueue, Poll, TakeNote, WatchFails, Unmark, Cancel, Settled
      <4>3. pc'[c] \in Settled /\ ending'[c] # "none"
        BY <4>1, <4>2 DEF Goto, TypeInv, TypeOK
      <4> QED BY <2>2, <4>1, <4>3 DEF Issued
    <3> QED BY <3>1, <3>2
  <2> QED BY <2>1, <2>2
<1> QED BY <1>2, <1>3 DEF Next, WsStep, vars

\* Nothing but a call brings an id into circulation or makes a future.
LEMMA WsOrigin ==
  ASSUME TypeInv, WsStep
  PROVE  /\ Circulating' \subseteq Circulating
         /\ \A i \in Id : received'[i] # "none" =>
              received[i] # "none" \/ i \in inflight
<1> USE DEF TypeInv, TypeOK, WsTypeOK, Circulating
<1>1. CASE (\E kind \in Down : Drop(kind)) \/ HandlerEnds
           \/ (\E c \in Watch, n \in Note : Notify(c, n))
           \/ ExitFires \/ ExitStops \/ ExitDone
  BY <1>1 DEF Drop, HandlerEnds, Notify, ExitFires, ExitStops, ExitDone,
              serverVars
<1>2. CASE \E i \in Id : Serve(i) BY <1>2 DEF Serve, clientVars
<1>3. CASE \E i \in Id : Recv(i) BY <1>3 DEF Recv, ReceiverFails
<1>4. CASE RecvMalformed
  BY <1>4 DEF RecvMalformed, ReceiverFails, serverVars
<1>5. CASE Send BY <1>5, TailHolds DEF Send
<1>6. CASE SendBadPayload
  <2>1. Circulating' \subseteq Circulating
    BY <1>6, TailHolds DEF SendBadPayload, serverVars
  <2>2. \A i \in Id : received'[i] # "none" => received[i] # "none"
    BY <1>6 DEF SendBadPayload
  <2> QED BY <2>1, <2>2
<1>7. CASE Resubmit
  <2>1. PICK order \in SetToSeqs(inflight) : sending' = sending \o order
    BY <1>7 DEF Resubmit, Requeue
  <2>2. order \in Seq(Id) /\ Range(order) \subseteq inflight BY OrderHolds
  <2>3. Range(sending') \subseteq Range(sending) \cup inflight
    BY <2>1, <2>2, ConcatHolds
  <2> QED BY <1>7, <2>3 DEF Resubmit, Requeue, Renew, serverVars
<1>8. CASE Redial BY <1>8 DEF Redial, NewConnection
<1> QED BY <1>1, <1>2, <1>3, <1>4, <1>5, <1>6, <1>7, <1>8 DEF WsStep

LEMMA OriginStep == TypeInv /\ OriginInv /\ [Next]_vars => OriginInv'
<1> SUFFICES ASSUME TypeInv, OriginInv, [Next]_vars PROVE OriginInv' OBVIOUS
<1>0. Circulating \subseteq Id /\ Circulating' \subseteq Id
  <2>1. TypeInv' BY TypeStep
  <2> QED BY <2>1 DEF Circulating, TypeInv, TypeOK, WsTypeOK, Range
<1>1. \A i \in Id : Issued(i) => Issued(i)' BY IssuedKept
<1>2. CASE UNCHANGED vars
  BY <1>2 DEF OriginInv, Circulating, Issued, NotSentYet, vars, wsVars,
              clientVars, serverVars, callVars
<1>3. CASE WsStep
  <2>1. \A i \in Circulating' : Issued(i)'
    BY <1>0, <1>1, <1>3, WsOrigin DEF OriginInv
  <2>2. \A i \in Id : received'[i] # "none" => Issued(i)'
    BY <1>1, <1>3, WsOrigin DEF OriginInv, Circulating
  <2>3. UNCHANGED callVars BY <1>3 DEF WsStep
  <2> QED BY <2>1, <2>2, <2>3 DEF OriginInv, callVars, NotSentYet
<1>4. ASSUME NEW c \in Call, CallStep(c) PROVE OriginInv'
  <2>1. PICK N : Queues(c, N) /\ \A i \in N : Issued(i)' BY <1>4, CallQueues
  <2>2. Circulating' \subseteq Circulating \cup N
    BY <1>4, <2>1, CallSets DEF Queues, Circulating
  <2>3. \A i \in Circulating' : Issued(i)'
    BY <1>0, <1>1, <2>1, <2>2 DEF OriginInv
  <2>4. \A i \in Id : received'[i] # "none" => Issued(i)'
    BY <1>1, <2>1 DEF OriginInv, Queues
  <2>5. Records(c) BY <1>4, CallRecords
  <2>6. \A d \in Call : /\ sent'[d] <= Size(d)
                        /\ NotSentYet(d)' => sent'[d] = 0
                        /\ pc'[d] = "idle" => ending'[d] = "none"
    BY <2>5 DEF Records, OriginInv, NotSentYet
  <2> QED BY <2>3, <2>4, <2>6 DEF OriginInv
<1> QED BY <1>2, <1>3, <1>4 DEF Next

LEMMA OriginInit == Init => OriginInv
<1> SUFFICES ASSUME Init PROVE OriginInv OBVIOUS
<1>1. Circulating = {}
  BY DEF Init, WsInit, Circulating, Range
<1>2. \A c \in Call : Size(c) \in Nat /\ 0 <= Size(c)
  BY SizeType, ConstantsAssumption
<1> QED BY <1>1, <1>2 DEF Init, WsInit, OriginInv, Id

LEMMA OriginInvariant == Spec => []OriginInv
<1> QED BY OriginInit, OriginStep, TypeInvariant, PTL DEF Spec
-----------------------------------------------------------------------------
(***************************************************************************)
(* Queued, in flight, with the node, answered: no request is at two ends.  *)
(***************************************************************************)

LEMMA FutureWsStep == TypeInv /\ FutureInv /\ WsStep => FutureInv'
<1> SUFFICES ASSUME TypeInv, FutureInv, WsStep PROVE FutureInv' OBVIOUS
<1> USE DEF TypeInv, TypeOK, WsTypeOK, FutureInv, OneCopy
<1>1. CASE (\E kind \in Down : Drop(kind)) \/ HandlerEnds
           \/ (\E c \in Watch, n \in Note : Notify(c, n))
           \/ ExitFires \/ ExitStops \/ ExitDone
  BY <1>1 DEF Drop, HandlerEnds, Notify, ExitFires, ExitStops, ExitDone,
              serverVars
<1>2. CASE \E i \in Id : Serve(i) BY <1>2 DEF Serve, clientVars
<1>3. ASSUME NEW i \in Id, Recv(i) PROVE FutureInv'
  <2>1. /\ i \notin Range(sending) /\ i \notin atServer
        /\ i \notin inflight' /\ i \notin answers'
        /\ inflight' \subseteq inflight /\ answers' \subseteq answers
        /\ UNCHANGED <<sending, atServer>>
        /\ handler' = "run" => handler = "run"
    BY <1>3 DEF Recv
  <2>2. \A k \in Id \ {i} : received'[k] = "done" => received[k] = "done"
    BY <1>3 DEF Recv, ReceiverFails
  <2>3. Range(sending) \subseteq Id BY DEF Range
  <2> QED BY <2>1, <2>2, <2>3
<1>4. CASE RecvMalformed
  <2>1. \A i \in Id : received'[i] = "done" => received[i] = "done"
    BY <1>4 DEF RecvMalformed, ReceiverFails
  <2>2. handler' # "run" /\ UNCHANGED <<sending, inflight>>
    BY <1>4 DEF RecvMalformed, ReceiverFails
  <2>3. Range(sending) \subseteq Id BY DEF Range
  <2> QED BY <2>1, <2>2, <2>3
<1>5. CASE Send
  <2>1. /\ Head(sending) \in Range(sending)
        /\ Range(sending') \subseteq Range(sending)
        /\ IsInjective(sending') /\ Head(sending) \notin Range(sending')
    BY <1>5, TailHolds DEF Send
  <2> QED BY <1>5, <2>1 DEF Send
<1>6. CASE SendBadPayload
  <2>1. /\ Range(sending') \subseteq Range(sending)
        /\ IsInjective(sending')
    BY <1>6, TailHolds DEF SendBadPayload
  <2>2. \A i \in Id : received'[i] = "done" => received[i] = "done"
    BY <1>6 DEF SendBadPayload
  <2>3. handler' # "run" /\ UNCHANGED inflight BY <1>6 DEF SendBadPayload
  <2>4. Range(sending) \subseteq Id BY DEF Range
  <2> QED BY <2>1, <2>2, <2>3, <2>4
<1>7. CASE Resubmit
  <2>1. PICK order \in SetToSeqs(inflight) : sending' = sending \o order
    BY <1>7 DEF Resubmit, Requeue
  <2>2. /\ order \in Seq(Id) /\ IsInjective(order)
        /\ Range(order) \subseteq inflight
    BY OrderHolds
  <2>3. /\ Range(sending') \subseteq Range(sending) \cup inflight
        /\ IsInjective(sending')
    BY <2>1, <2>2, ConcatHolds
  <2>4. inflight' = {} /\ handler' = "redial"
        /\ \A i \in Id : received'[i] = IF i \in inflight THEN "pending"
                                                          ELSE received[i]
    BY <1>7 DEF Resubmit, Requeue, Renew
  <2>5. Range(sending) \subseteq Id BY DEF Range
  <2> QED BY <2>3, <2>4, <2>5
<1>8. CASE Redial BY <1>8 DEF Redial, NewConnection
<1> QED BY <1>1, <1>2, <1>3, <1>4, <1>5, <1>6, <1>7, <1>8 DEF WsStep

LEMMA FutureCallStep ==
  ASSUME TypeInv, OriginInv, FutureInv, NEW c \in Call, CallStep(c)
  PROVE  FutureInv'
<1>1. PICK N : Queues(c, N) BY CallQueues
<1>2. /\ N \subseteq Id
      /\ N \cap Circulating = {}
      /\ \A i \in N : received[i] = "none"
  BY <1>1 DEF Queues, Unissued, OriginInv
<1>3. Range(sending) \subseteq Id BY DEF TypeInv, TypeOK, WsTypeOK, Range
<1>4. \A i \in Id : received'[i] = "done" => received[i] = "done" /\ i \notin N
  BY <1>1, <1>2 DEF Queues
<1>5. OneCopy'
  BY <1>1, <1>2, CallSets DEF Queues, Circulating, FutureInv, OneCopy
<1>6. \A i \in Range(sending') \cup inflight' : received'[i] # "done"
  <2>1. Range(sending') \cup inflight' \subseteq Range(sending) \cup N \cup inflight
    BY <1>1, CallSets DEF Queues
  <2>2. inflight \subseteq Id BY DEF TypeInv, TypeOK, WsTypeOK
  <2> QED BY <1>2, <1>3, <1>4, <2>1, <2>2 DEF FutureInv
<1>7. ASSUME handler' = "run"
      PROVE  /\ atServer' \cap answers' = {}
             /\ (atServer' \cup answers') \cap Range(sending') = {}
             /\ \A i \in atServer' \cup answers' : received'[i] # "done"
  <2>1. CASE atServer' = {} /\ answers' = {} BY <2>1
  <2>2. CASE UNCHANGED <<atServer, answers>> /\ handler = "run"
    <3>1. atServer \cup answers \subseteq Id BY DEF TypeInv, TypeOK, WsTypeOK
    <3> QED BY <1>1, <1>2, <1>4, <2>2, <3>1 DEF Queues, Circulating, FutureInv
  <2> QED BY <1>7, <2>1, <2>2, CallSets
<1> QED BY <1>5, <1>6, <1>7 DEF FutureInv

LEMMA FutureStep ==
  TypeInv /\ OriginInv /\ FutureInv /\ [Next]_vars => FutureInv'
<1>1. CASE UNCHANGED vars
  BY <1>1 DEF FutureInv, OneCopy, vars, wsVars, clientVars, serverVars
<1> QED BY <1>1, FutureWsStep, FutureCallStep DEF Next

LEMMA FutureInit == Init => FutureInv
  BY DEF Init, WsInit, FutureInv, OneCopy, IsInjective, Range

LEMMA FutureInvariant == Spec => []FutureInv
<1> QED BY FutureInit, FutureStep, TypeInvariant, OriginInvariant, PTL DEF Spec

\* No request is twice in the queue, or queued while it is in flight.
THEOREM NoDuplicate == Spec => []OneCopy
<1>1. FutureInv => OneCopy BY DEF FutureInv
<1> QED BY <1>1, FutureInvariant, PTL

\* No answer meets a future that has its result already.
THEOREM AnswersOnce == Spec => []NoSecondAnswer
<1>1. FutureInv => NoSecondAnswer BY DEF FutureInv, NoSecondAnswer
<1> QED BY <1>1, FutureInvariant, PTL

LEMMA AnswerStep ==
  ASSUME TypeInv, OriginInv, FutureInv, [Next]_vars, NEW i \in Id,
         received[i] = "done"
  PROVE  received'[i] \in {"done", "none"}
<1>1. i \notin inflight BY DEF FutureInv
<1>2. CASE WsStep
  BY <1>1, <1>2 DEF WsStep, Drop, Serve, Recv, Notify, RecvMalformed, Send,
     SendBadPayload, HandlerEnds, Resubmit, Redial, ExitFires, ExitStops,
     ExitDone, clientVars, ReceiverFails, Renew, TypeInv, TypeOK, WsTypeOK
<1>3. ASSUME NEW c \in Call, CallStep(c) PROVE received'[i] \in {"done", "none"}
  <2>1. PICK N : Queues(c, N) BY <1>3, CallQueues
  <2>2. i \notin N BY <2>1 DEF Queues, Unissued, OriginInv
  <2> QED BY <2>1, <2>2 DEF Queues
<1> QED BY <1>2, <1>3 DEF Next, vars, wsVars, clientVars

\* An answer that has landed stays until its call takes it.
THEOREM AnswersKept == Spec => AnswerKept
<1>1. TypeInv /\ OriginInv /\ FutureInv /\ [Next]_vars
        => [\A i \in Id : received[i] = "done" =>
              received'[i] \in {"done", "none"}]_vars
  BY AnswerStep
<1> QED BY <1>1, TypeInvariant, OriginInvariant, FutureInvariant, PTL
        DEF Spec, AnswerKept
-----------------------------------------------------------------------------
(***************************************************************************)
(* What a call has collected the node has served.                          *)
(***************************************************************************)

\* A call collects only answers that have landed, and keeps them; it is past
\* its poll loop once it has all of them.
Collects(c) ==
  /\ \A d \in Call : got[d] \subseteq got'[d]
  /\ \A d \in Call : \A j \in got'[d] :
       j \in got[d] \/ (j \in Payload(d) /\ received[<<d, j>>] = "done")
  /\ \A d \in Call : Collected(d)' =>
       Collected(d) \/ (d = c /\ Payload(d) \subseteq got'[d])

\* Enough for the steps that collect nothing.
LEMMA NothingCollected ==
  ASSUME TypeInv, NEW c \in Call, UNCHANGED got, Collected(c)' => Collected(c),
         \A d \in Call \ {c} : pc'[d] = pc[d] /\ ending'[d] = ending[d]
  PROVE  Collects(c)
  BY DEF Collects, Collected

LEMMA CallCollects ==
  ASSUME TypeInv, OriginInv, NEW c \in Call, CallStep(c)
  PROVE  Collects(c)
<1>1. \A d \in Call \ {c} : pc'[d] = pc[d] /\ ending'[d] = ending[d]
  BY CallRecords DEF Records
<1>2. CASE pc[c] \in {"idle", "lockwait", "dial", "mark"} /\ UNCHANGED got
           /\ UNCHANGED ending /\ Proceed(c, ending[c])
  <2>1. ending[c] = "none" => pc'[c] \in {"mark", "polling", "send", "acquire"}
    BY <1>2 DEF Proceed, Submit, Sends, Goto, TypeInv, TypeOK
  <2> QED BY <1>1, <1>2, <2>1, NothingCollected DEF Collected
<1>3. CASE UNCHANGED <<got, ending>> /\ pc'[c] \notin {"watching", "unmark", "done"}
  BY <1>1, <1>3, NothingCollected DEF Collected
<1>4. CASE UNCHANGED got /\ Collected(c)
  BY <1>1, <1>4, NothingCollected
<1>5. CASE Enter(c)
  <2>1. ending[c] = "none" BY <1>5 DEF Enter, OriginInv
  <2>2. CASE ws = "open" BY <1>2, <1>5, <2>1, <2>2 DEF Enter
  <2>3. CASE ws # "open"
    BY <1>3, <1>5, <2>3 DEF Enter, Goto, TypeInv, TypeOK
  <2> QED BY <2>2, <2>3
<1>6. CASE GrabLock(c)
  <2>1. CASE ws = "open" BY <1>2, <1>6, <2>1 DEF GrabLock
  <2>2. CASE ws # "open"
    BY <1>3, <1>6, <2>2 DEF GrabLock, Goto, TypeInv, TypeOK
  <2> QED BY <2>1, <2>2
<1>7. CASE Dial(c)
  <2>1. CASE DialOk(c) BY <1>2, <2>1 DEF DialOk
  <2>2. CASE DialFail(c) \/ DialNoName(c)
    BY <1>3, <2>2 DEF DialFail, DialNoName, Raise, Goto, TypeInv, TypeOK
  <2> QED BY <1>7, <2>1, <2>2 DEF Dial
<1>8. CASE Mark(c)
  <2>1. CASE ending[c] = "none"
    BY <1>3, <1>8, <2>1 DEF Mark, Submit, Sends, Goto, TypeInv, TypeOK
  <2>2. CASE ending[c] # "none" BY <1>4, <1>8, <2>2 DEF Mark, Collected
  <2> QED BY <2>1, <2>2
<1>9. CASE Acquire(c) \/ Enqueue(c)
  BY <1>3, <1>9 DEF Acquire, Enqueue, Sends, Goto, TypeInv, TypeOK
<1>10. CASE Poll(c)
  <2>1. /\ \A d \in Call : got[d] \subseteq got'[d]
        /\ \A d \in Call : \A j \in got'[d] :
             j \in got[d] \/ (j \in Payload(d) /\ received[<<d, j>>] = "done")
    BY <1>10 DEF Poll, TypeInv, TypeOK
  <2>2. got'[c] = Payload(c) \/ pc'[c] \in {"polling", "failed"}
    BY <1>10 DEF Poll, Raise, Goto, TypeInv, TypeOK
  <2>3. UNCHANGED ending BY <1>10 DEF Poll
  <2>4. Collected(c)' => Collected(c) \/ Payload(c) \subseteq got'[c]
    BY <2>2, <2>3 DEF Collected
  <2> QED BY <1>1, <2>1, <2>4 DEF Collects, Collected
<1>11. CASE TakeNote(c) BY <1>4, <1>11 DEF TakeNote, Collected
<1>12. CASE WatchFails(c) \/ Unmark(c)
  BY <1>4, <1>12 DEF WatchFails, Unmark, Collected
<1>13. CASE Cancel(c)
  BY <1>3, <1>13 DEF Cancel, Goto, TypeInv, TypeOK
<1> QED BY <1>5, <1>6, <1>7, <1>8, <1>9, <1>10, <1>11, <1>12, <1>13
        DEF CallStep

LEMMA ServedWsStep == TypeInv /\ ServedInv /\ WsStep => ServedInv'
<1> SUFFICES ASSUME TypeInv, ServedInv, WsStep PROVE ServedInv' OBVIOUS
<1>1. UNCHANGED callVars BY DEF WsStep
<1>2. served \subseteq served' /\ answers' \subseteq served'
  BY DEF ServedInv, WsStep, Drop, Serve, Recv, Notify, RecvMalformed, Send,
     SendBadPayload, HandlerEnds, Resubmit, Redial, NewConnection, ExitFires,
     ExitStops, ExitDone, serverVars
<1>3. \A i \in Id : received'[i] = "done" => received[i] = "done" \/ i \in answers
  BY DEF WsStep, Drop, Serve, Recv, Notify, RecvMalformed, Send,
     SendBadPayload, HandlerEnds, Resubmit, Redial, ExitFires, ExitStops,
     ExitDone, clientVars, ReceiverFails, Renew, TypeInv, TypeOK, WsTypeOK
<1> QED BY <1>1, <1>2, <1>3 DEF ServedInv, callVars, Collected

LEMMA ServedCallStep ==
  ASSUME TypeInv, OriginInv, ServedInv, NEW c \in Call, CallStep(c)
  PROVE  ServedInv'
<1>1. UNCHANGED served /\ answers' \subseteq answers BY CallSets
<1>2. \A i \in Id : received'[i] = "done" => received[i] = "done"
  <2>1. PICK N : Queues(c, N) BY CallQueues
  <2> QED BY <2>1 DEF Queues
<1>3. Collects(c) BY CallCollects
<1>4. \A d \in Call : \A j \in Payload(d) : <<d, j>> \in Id
  BY SizeType, ConstantsAssumption DEF Payload, Id
<1>5. \A d \in Call : \A j \in got'[d] : <<d, j>> \in served
  BY <1>3, <1>4 DEF Collects, ServedInv
<1>6. \A d \in Call : Collected(d)' => Payload(d) \subseteq got'[d]
  BY <1>3 DEF Collects, ServedInv
<1> QED BY <1>1, <1>2, <1>5, <1>6 DEF ServedInv

LEMMA ServedStep ==
  TypeInv /\ OriginInv /\ ServedInv /\ [Next]_vars => ServedInv'
<1>1. CASE UNCHANGED vars
  BY <1>1 DEF ServedInv, Collected, vars, wsVars, clientVars, serverVars,
              callVars
<1> QED BY <1>1, ServedWsStep, ServedCallStep DEF Next

LEMMA ServedInit == Init => ServedInv
  BY DEF Init, WsInit, ServedInv, Collected

LEMMA ServedInvariant == Spec => []ServedInv
<1> QED BY ServedInit, ServedStep, TypeInvariant, OriginInvariant, PTL DEF Spec
-----------------------------------------------------------------------------
(***************************************************************************)
(* The calls and their Websocket implement RpcService.                     *)
(***************************************************************************)

LEMMA NeedsPayload ==
  \A c \in Call : Service!Needs(c) = {<<c, j>> : j \in Payload(c)}
  BY DEF Service!Needs, Payload, Size

LEMMA StatusIs ==
  ASSUME NEW c \in Call
  PROVE  /\ pc[c] = "idle" <=> Status[c] = "idle"
         /\ pc[c] = "done" <=> Status[c] = "answered"
         /\ pc[c] \in {"failed", "cancelled"} <=> Status[c] = "failed"
         /\ pc[c] \notin Settled \cup {"idle"} <=> Status[c] = "asked"
  BY DEF Status, Settled

\* What the node executes is a payload of a call that has been made, or the end
\* of a subscription it has executed.
LEMMA ServeRefines ==
  ASSUME TypeInv, OriginInv, ServedInv, NEW i \in Id, Serve(i),
         UNCHANGED callVars
  PROVE  Service!SvcNext
<1>1. UNCHANGED Status BY DEF callVars, Status
<1>2. served' = served \cup {i} /\ Issued(i)
  BY DEF Serve, OriginInv, Circulating
<1>3. PICK c \in Call, j \in 0..Batch : i = <<c, j>> BY DEF Id
<1>4. CASE j \in 1..sent[c]
  <2>1. sent[c] \in Nat /\ sent[c] <= Size(c) /\ Size(c) \in Nat
    BY SizeType, ConstantsAssumption DEF TypeInv, TypeOK, OriginInv
  <2>2. i \in Service!Needs(c)
    BY <1>3, <1>4, <2>1, NeedsPayload DEF Payload
  <2>3. sent[c] # 0 BY <1>4, <2>1
  <2>4. pc[c] # "idle" BY <2>3 DEF OriginInv, NotSentYet
  <2>5. Status[c] # "idle" BY <2>4, StatusIs
  <2>6. Service!Execute(c)
    BY <1>1, <1>2, <2>2, <2>5 DEF Service!Execute
  <2> QED BY <2>6 DEF Service!SvcNext
<1>5. CASE j = 0 /\ ending[c] # "none"
  <2>1. c \in Watch BY <1>5 DEF TypeInv, EndingWatched
  <2>2. Service!Needs(c) \subseteq served
    BY <1>5, NeedsPayload DEF ServedInv, Collected
  <2>3. Service!Forget(c)
    BY <1>1, <1>2, <1>3, <1>5, <2>1, <2>2 DEF Service!Forget
  <2> QED BY <2>3 DEF Service!SvcNext
<1> QED BY <1>2, <1>3, <1>4, <1>5 DEF Issued

LEMMA WsStepRefines ==
  ASSUME TypeInv, OriginInv, ServedInv, WsStep
  PROVE  [Service!SvcNext]_Service!svcVars
<1>1. CASE \E i \in Id : Serve(i) BY <1>1, ServeRefines DEF WsStep
<1>2. CASE UNCHANGED served
  BY <1>2 DEF WsStep, Service!svcVars, Status, callVars
<1> QED
  BY <1>1, <1>2 DEF WsStep, Drop, Recv, Notify, RecvMalformed, Send,
     SendBadPayload, HandlerEnds, Resubmit, Redial, ExitFires, ExitStops,
     ExitDone, serverVars

\* A step of a call asks, answers or gives up; or the caller does not see it.
LEMMA CallStepRefines ==
  ASSUME TypeInv, TypeInv', OriginInv, ServedInv, ServedInv', NEW c \in Call,
         CallStep(c)
  PROVE  [Service!SvcNext]_Service!svcVars
<1>1. UNCHANGED served BY CallSets
<1>2. /\ pc'[c] # "idle" /\ pc[c] \notin Settled
      /\ \A d \in Call \ {c} : pc'[d] = pc[d]
  BY CallRecords, CallActive DEF Records
<1>3. ASSUME NEW s, Status'[c] = s PROVE Status' = [Status EXCEPT ![c] = s]
  BY <1>2, <1>3 DEF Status
<1>4. CASE pc[c] = "idle"
  <2>1. pc'[c] \notin Settled
    BY <1>4 DEF CallStep, Enter, GrabLock, Dial, DialOk, DialFail, DialNoName,
       Mark, Acquire, Enqueue, Poll, TakeNote, WatchFails, Unmark, Cancel, Proceed,
       Submit, Sends, Goto, Settled, TypeInv, TypeOK
  <2>2. Status[c] = "idle" /\ Status'[c] = "asked"
    BY <1>2, <1>4, <2>1, StatusIs DEF Status, Settled
  <2>3. Service!Ask(c) BY <1>1, <1>3, <2>2 DEF Service!Ask
  <2> QED BY <2>3 DEF Service!SvcNext
<1>5. CASE pc[c] # "idle"
  <2>1. Status[c] = "asked" BY <1>2, <1>5, StatusIs
  <2>2. CASE pc'[c] = "done"
    <3>1. Service!Needs(c) \subseteq served
      BY <1>1, <2>2, NeedsPayload DEF ServedInv, Collected
    <3>2. Status'[c] = "answered" BY <2>2 DEF Status
    <3>3. Service!Answer(c)
      BY <1>1, <1>3, <2>1, <3>1, <3>2 DEF Service!Answer
    <3> QED BY <3>3 DEF Service!SvcNext
  <2>3. CASE pc'[c] \in {"failed", "cancelled"}
    <3>1. Status'[c] = "failed" BY <2>3 DEF Status
    <3>2. Service!GiveUp(c) BY <1>1, <1>3, <2>1, <3>1 DEF Service!GiveUp
    <3> QED BY <3>2 DEF Service!SvcNext
  <2>4. CASE pc'[c] \notin Settled
    <3>1. Status'[c] = "asked" BY <1>2, <2>4 DEF Status, Settled
    <3>2. Status' = [Status EXCEPT ![c] = "asked"] BY <1>3, <3>1
    <3>3. UNCHANGED Status BY <2>1, <3>2 DEF Status
    <3> QED BY <1>1, <3>3 DEF Service!svcVars
  <2> QED BY <2>2, <2>3, <2>4 DEF Settled
<1> QED BY <1>4, <1>5

LEMMA RefineStep ==
  TypeInv /\ TypeInv' /\ OriginInv /\ ServedInv /\ ServedInv' /\ [Next]_vars
    => [Service!SvcNext]_Service!svcVars
<1>1. CASE UNCHANGED vars
  BY <1>1 DEF Service!svcVars, Status, vars, wsVars, serverVars, callVars
<1> QED BY <1>1, WsStepRefines, CallStepRefines DEF Next

LEMMA RefineInit == Init => Service!SvcInit
  BY DEF Init, WsInit, Service!SvcInit, Status

\* A call is answered only with what the node produced for it, at most once,
\* and the node hears of the end only of subscriptions it was asked for.
THEOREM ServiceImplemented == Spec => ImplementsService
<1> QED BY RefineInit, RefineStep, TypeInvariant, OriginInvariant,
           ServedInvariant, PTL
        DEF Spec, ImplementsService, Service!SvcSpec

-----------------------------------------------------------------------------
(***************************************************************************)
(* The two counters that calls share, the permits and the calls waiting    *)
(* for a response: for every set of calls, batch size and fault budget.    *)
(***************************************************************************)

(***************************************************************************)
(* The calls waiting for a response.                                       *)
(***************************************************************************)

\* A step of a call counts it when it begins to expect a response, and stops
\* counting it only as it ceases to.
Counts(c) ==
  \/ waiting' = waiting /\ (c \in Expecting' => c \in Expecting)
  \/ waiting' = waiting + 1
  \/ waiting' = waiting - 1 /\ c \in Expecting /\ c \notin Expecting'

LEMMA LeaveCounts ==
  ASSUME TypeInv, NEW c \in Call, c \in Expecting, NEW e, Leave(c, e)
  PROVE  Counts(c)
<1>1. CASE waiting' = waiting BY <1>1 DEF Counts
<1>2. CASE waiting' = waiting - 1 /\ Goto(c, "done")
  <2>1. pc'[c] = "done" BY <1>2 DEF Goto, TypeInv, TypeOK
  <2>2. c \notin Expecting' BY <2>1 DEF Expecting, Marked, Settled
  <2> QED BY <1>2, <2>2 DEF Counts
<1> QED BY <1>1, <1>2 DEF Leave

LEMMA ProceedCounts ==
  ASSUME TypeInv, NEW c \in Call, pc[c] \in {"idle", "lockwait", "dial", "mark"},
         Proceed(c, ending[c]), UNCHANGED ending
  PROVE  Counts(c)
<1>1. CASE LockedOut(c)
  <2>1. waiting' = waiting /\ pc'[c] = "mark"
    BY <1>1 DEF Proceed, Goto, TypeInv, TypeOK
  <2> QED BY <2>1 DEF Counts, Expecting, Marked, Settled
<1>2. CASE ~LockedOut(c) /\ ending[c] = "none"
  BY <1>2 DEF Proceed, Submit, Counts
<1>3. CASE ~LockedOut(c) /\ ending[c] # "none"
  <2>1. Leave(c, ending[c]) /\ c \in Expecting
    BY <1>3 DEF Proceed, Expecting, Settled
  <2> QED BY <2>1, LeaveCounts
<1> QED BY <1>1, <1>2, <1>3

\* A call that goes on expecting, or stops.
LEMMA MoveCounts ==
  ASSUME TypeInv, NEW c \in Call, UNCHANGED waiting, NEW w \in Where, Goto(c, w),
         \/ w \in Settled \/ c \in Expecting
         \/ w \notin Marked /\ ending'[c] = "none"
  PROVE  Counts(c)
<1>1. pc'[c] = w BY DEF Goto, TypeInv, TypeOK
<1> QED BY <1>1 DEF Counts, Expecting, Marked, Settled

LEMMA CallCounts ==
  ASSUME TypeInv, OriginInv, NEW c \in Call, CallStep(c)
  PROVE  Counts(c)
<1>1. CASE Enter(c)
  <2>1. pc[c] = "idle" /\ ending[c] = "none" /\ UNCHANGED ending
    BY <1>1 DEF Enter, OriginInv
  <2>2. CASE ws = "open" BY <1>1, <2>1, <2>2, ProceedCounts DEF Enter
  <2>3. CASE ws # "open"
    BY <1>1, <2>1, <2>3, MoveCounts DEF Enter, Where, Marked
  <2> QED BY <2>2, <2>3
<1>2. CASE GrabLock(c)
  <2>1. CASE ws = "open" BY <1>2, <2>1, ProceedCounts DEF GrabLock
  <2>2. CASE ws # "open"
    <3>1. Goto(c, "dial") /\ UNCHANGED <<waiting, ending>> /\ pc[c] = "lockwait"
      BY <1>2, <2>2 DEF GrabLock
    <3>2. c \in Expecting \/ ending'[c] = "none" BY <3>1 DEF Expecting, Settled
    <3> QED BY <3>1, <3>2, MoveCounts DEF Where, Marked
  <2> QED BY <2>1, <2>2
<1>3. CASE Dial(c)
  <2>1. CASE DialOk(c) BY <2>1, ProceedCounts DEF DialOk
  <2>2. CASE DialFail(c)
    BY <2>2, MoveCounts DEF DialFail, Raise, Where, Settled
  <2>3. CASE DialNoName(c)
    <3>1. Goto(c, "stuck") /\ UNCHANGED <<waiting, ending>> /\ pc[c] = "dial"
      BY <2>3 DEF DialNoName, clientVars
    <3>2. c \in Expecting \/ ending'[c] = "none" BY <3>1 DEF Expecting, Settled
    <3> QED BY <3>1, <3>2, MoveCounts DEF Where, Marked
  <2> QED BY <1>3, <2>1, <2>2, <2>3 DEF Dial
<1>4. CASE Mark(c)
  <2>1. CASE ending[c] = "none" BY <1>4, <2>1 DEF Mark, Submit, Counts
  <2>2. CASE ending[c] # "none"
    <3>1. Leave(c, ending[c]) /\ c \in Expecting
      BY <1>4, <2>2 DEF Mark, Expecting, Settled
    <3> QED BY <3>1, LeaveCounts
  <2> QED BY <2>1, <2>2
<1>5. CASE Acquire(c) \/ Enqueue(c)
  <2>1. c \in Expecting /\ waiting' = waiting
    BY <1>5 DEF Acquire, Enqueue, Expecting, Marked
  <2> QED BY <2>1 DEF Counts
<1>6. CASE Poll(c)
  <2>1. c \in Expecting BY <1>6 DEF Poll, Expecting, Marked
  <2>2. waiting' = waiting \/ (waiting' = waiting - 1 /\ Goto(c, "done"))
    BY <1>6 DEF Poll, Complete
  <2>3. Goto(c, "done") => c \notin Expecting'
    BY DEF Goto, TypeInv, TypeOK, Expecting, Marked, Settled
  <2> QED BY <2>1, <2>2, <2>3 DEF Counts
<1>7. CASE TakeNote(c)
  <2>1. c \in Expecting BY <1>7 DEF TakeNote, Expecting, Marked
  <2>2. \/ waiting' = waiting
        \/ waiting' = waiting - 1 /\ Goto(c, "done")
    BY <1>7 DEF TakeNote, Leave
  <2>3. Goto(c, "done") => c \notin Expecting'
    BY DEF Goto, TypeInv, TypeOK, Expecting, Marked, Settled
  <2> QED BY <2>1, <2>2, <2>3 DEF Counts
<1>8. CASE WatchFails(c)
  BY <1>8, MoveCounts DEF WatchFails, Raise, Where, Settled
<1>9. CASE Unmark(c)
  <2>1. c \in Expecting /\ waiting' = waiting - 1 /\ Goto(c, "done")
    BY <1>9 DEF Unmark, Expecting, Marked
  <2>2. c \notin Expecting'
    BY <2>1 DEF Goto, TypeInv, TypeOK, Expecting, Marked, Settled
  <2> QED BY <2>1, <2>2 DEF Counts
<1>10. CASE Cancel(c)
  BY <1>10, MoveCounts DEF Cancel, Where, Settled
<1> QED BY <1>1, <1>2, <1>3, <1>4, <1>5, <1>6, <1>7, <1>8, <1>9, <1>10 DEF CallStep

LEMMA CoversStep ==
  TypeInv /\ OriginInv /\ WaitingCovers /\ [Next]_vars => WaitingCovers'
<1> SUFFICES ASSUME TypeInv, OriginInv, WaitingCovers, [Next]_vars
             PROVE  WaitingCovers'
  OBVIOUS
<1>1. CASE UNCHANGED <<waiting, pc, ending>>
  <2>1. Expecting' = Expecting BY <1>1 DEF Expecting
  <2> QED BY <1>1, <2>1 DEF WaitingCovers
<1>2. ASSUME NEW c \in Call, CallStep(c) PROVE WaitingCovers'
  <2>1. Counts(c) BY <1>2, CallCounts
  <2>2. \A d \in Call \ {c} : pc'[d] = pc[d] /\ ending'[d] = ending[d]
    BY <1>2, CallRecords DEF Records
  <2>3. PICK E : E = Expecting /\ E \subseteq Call BY DEF Expecting
  <2>4. PICK G : G = Expecting' /\ G \subseteq Call BY DEF Expecting
  <2>5. E \ {c} = G \ {c} BY <2>2, <2>3, <2>4 DEF Expecting
  <2>6. IsFiniteSet(E) /\ IsFiniteSet(G)
    BY <2>3, <2>4, FS_Subset, ConstantsAssumption
  <2>7. PICK R : R = E \ {c} /\ IsFiniteSet(R) BY <2>6, FS_Subset
  <2>8. /\ Cardinality(E) = IF c \in E THEN Cardinality(R) + 1 ELSE Cardinality(R)
        /\ Cardinality(G) = IF c \in G THEN Cardinality(R) + 1 ELSE Cardinality(R)
    <3>1. c \notin R BY <2>7
    <3>2. Cardinality(R \cup {c}) = Cardinality(R) + 1
      BY <2>7, <3>1, FS_AddElement
    <3>3. E = IF c \in E THEN R \cup {c} ELSE R BY <2>7
    <3>4. G = IF c \in G THEN R \cup {c} ELSE R BY <2>5, <2>7
    <3> QED BY <3>2, <3>3, <3>4
  <2>9. Cardinality(R) \in Nat BY <2>7, FS_CardinalityType
  <2>10. waiting >= Cardinality(E) /\ waiting \in Int
    BY <2>3 DEF WaitingCovers, TypeInv, TypeOK, WsTypeOK
  <2>11. waiting' >= Cardinality(G) BY <2>1, <2>3, <2>4, <2>8, <2>9, <2>10 DEF Counts
  <2> QED BY <2>4, <2>11 DEF WaitingCovers
<1>3. CASE WsStep
  <2>1. UNCHANGED <<pc, ending>> BY <1>3 DEF WsStep, callVars
  <2>2. UNCHANGED waiting
    BY <1>3 DEF WsStep, Drop, Serve, Recv, Notify, RecvMalformed, Send, SendBadPayload,
       HandlerEnds, Resubmit, Redial, ExitFires, ExitStops, ExitDone, clientVars
  <2> QED BY <1>1, <2>1, <2>2
<1>4. CASE UNCHANGED vars BY <1>1, <1>4 DEF vars, wsVars, clientVars, callVars
<1> QED BY <1>2, <1>3, <1>4 DEF Next

\* Whatever fails or is cancelled, _waiting_for_response covers the calls that
\* expect a response (async_substrate.py:643-659, 2694-2766).
THEOREM WaitingIsCovered == Spec => []WaitingCovers
<1>1. Init => WaitingCovers
  <2> SUFFICES ASSUME Init PROVE WaitingCovers OBVIOUS
  <2>1. Expecting = {} BY DEF Init, Expecting, Marked
  <2> QED BY <2>1, FS_EmptySet DEF WaitingCovers, Init, WsInit
<1> QED BY <1>1, CoversStep, TypeInvariant, OriginInvariant, PTL DEF Spec

\* Only the timer itself decides to close.
LEMMA DecidesAlone ==
  ASSUME [Next]_vars, exit' = "deciding", exit # "deciding"
  PROVE  ExitFires
<1>1. ASSUME NEW c \in Call, CallStep(c) PROVE FALSE
  <2>1. \A w, queue, keys : ArmExit(w, queue, keys) => exit' \in {"armed", exit}
    BY DEF ArmExit
  <2> USE <1>1, <2>1
  <2>2. exit' \in {exit, "armed", "none"}
    BY DEF CallStep, Enter, GrabLock, Dial, DialOk, DialFail, DialNoName, Mark, Acquire,
       Enqueue, Poll, TakeNote, WatchFails, Unmark, Cancel, Proceed, Submit, Sends, Leave,
       Raise, Complete, clientVars
  <2> QED BY <2>2
<1>2. CASE WsStep
  BY <1>2 DEF WsStep, Drop, Serve, Recv, Notify, RecvMalformed, Send, SendBadPayload,
     HandlerEnds, Resubmit, Redial, ExitStops, ExitDone, clientVars
<1>3. CASE UNCHANGED vars BY <1>3 DEF vars, wsVars, clientVars
<1> QED BY <1>1, <1>2, <1>3 DEF Next

\* The exit timer decides to close the connection only while no call expects a
\* response, also when calls have failed and left their count behind
\* (async_substrate.py:934-968).
THEOREM TimerWaits == Spec => TimerRespectsCalls
<1>1. TypeInv /\ WaitingCovers /\ [Next]_vars
        => [exit' = "deciding" /\ exit # "deciding" => Expecting = {}]_vars
  <2> SUFFICES ASSUME TypeInv, WaitingCovers, [Next]_vars,
                      exit' = "deciding", exit # "deciding"
               PROVE  Expecting = {}
    OBVIOUS
  <2>1. waiting <= 0 BY DecidesAlone DEF ExitFires, Idle
  <2>2. IsFiniteSet(Expecting) /\ waiting \in Int
    BY ConstantsAssumption, FS_Subset DEF Expecting, TypeInv, TypeOK, WsTypeOK
  <2>3. Cardinality(Expecting) \in Nat BY <2>2, FS_CardinalityType
  <2>4. Cardinality(Expecting) = 0 BY <2>1, <2>2, <2>3 DEF WaitingCovers
  <2> QED BY <2>2, <2>4, FS_EmptySet
<1> QED BY <1>1, WaitingIsCovered, TypeInvariant, PTL DEF Spec, TimerRespectsCalls
-----------------------------------------------------------------------------
(***************************************************************************)
(* The permits.                                                            *)
(***************************************************************************)

\* What permits are out for: the outstanding requests, and for each call with a
\* permit in its hand a place of its own, which is no request id.
InHand == AboutToSend \X {Batch + 1}
Debts == Outstanding \cup InHand

\* As permits are taken for A and given back for B, the count follows.
Trades(A, B) ==
  /\ IsFiniteSet(A) /\ B \subseteq Debts
  /\ Debts' \subseteq (Debts \ B) \cup A
  /\ permits' = permits + Cardinality(B) - Cardinality(A)

DebtLimit == permits + Cardinality(Debts) <= MaxSubs

\* A call's requests, as pairs; of another call's none is touched.
LEMMA PairsOf ==
  ASSUME NEW c, NEW S, IsFiniteSet(S)
  PROVE  /\ IsFiniteSet({c} \X S) /\ Cardinality({c} \X S) = Cardinality(S)
         /\ IsFiniteSet({}) /\ Cardinality({}) = 0
<1>1. IsFiniteSet({c}) /\ Cardinality({c}) = 1 BY FS_Singleton
<1>2. IsFiniteSet({c} \X S) /\ Cardinality({c} \X S) = 1 * Cardinality(S)
  BY <1>1, FS_Product
<1>3. Cardinality(S) \in Nat BY FS_CardinalityType
<1> QED BY <1>2, <1>3, FS_EmptySet

LEMMA DisjointSum ==
  ASSUME NEW S, NEW T, IsFiniteSet(S), IsFiniteSet(T), S \cap T = {}
  PROVE  Cardinality(S \cup T) = Cardinality(S) + Cardinality(T)
<1>1. Cardinality(S \cap T) = 0 BY FS_EmptySet
<1>2. Cardinality(S) \in Nat /\ Cardinality(T) \in Nat BY FS_CardinalityType
<1>3. Cardinality(S \cup T) = Cardinality(S) + Cardinality(T) - Cardinality(S \cap T)
  BY FS_Union
<1> QED BY <1>1, <1>2, <1>3

LEMMA DebtsCount ==
  /\ IsFiniteSet(Outstanding) /\ IsFiniteSet(Debts)
  /\ Cardinality(Debts) = Cardinality(AboutToSend) + Cardinality(Outstanding)
<1>1. IsFiniteSet(Outstanding) BY IdFinite, FS_Subset DEF Outstanding
<1>2. IsFiniteSet(AboutToSend) BY ConstantsAssumption, FS_Subset DEF AboutToSend
<1>3. IsFiniteSet({Batch + 1}) /\ Cardinality({Batch + 1}) = 1 BY FS_Singleton
<1>4. IsFiniteSet(InHand) /\ Cardinality(InHand) = Cardinality(AboutToSend) * 1
  BY <1>2, <1>3, FS_Product DEF InHand
<1>5. Outstanding \cap InHand = {}
  BY ConstantsAssumption DEF Outstanding, InHand, Id
<1>6. Cardinality(AboutToSend) \in Nat /\ Cardinality(Outstanding) \in Nat
  BY <1>1, <1>2, FS_CardinalityType
<1>7. Cardinality(Debts) = Cardinality(Outstanding) + Cardinality(InHand)
  BY <1>1, <1>4, <1>5, DisjointSum DEF Debts
<1>8. IsFiniteSet(Debts) BY <1>1, <1>4, FS_Union DEF Debts
<1> QED BY <1>1, <1>4, <1>6, <1>7, <1>8

LEMMA DebtsFinite == IsFiniteSet(Debts) BY DebtsCount

\* The bound on the debts is the bound of PermitLimit.
LEMMA LimitIsDebtLimit ==
  ASSUME permits \in Nat
  PROVE  PermitLimit <=> DebtLimit
<1>1. Cardinality(AboutToSend) \in Nat /\ Cardinality(Outstanding) \in Nat
  <2>1. IsFiniteSet(AboutToSend) BY ConstantsAssumption, FS_Subset DEF AboutToSend
  <2> QED BY <2>1, DebtsCount, FS_CardinalityType
<1>2. Cardinality(Debts) = Cardinality(AboutToSend) + Cardinality(Outstanding)
  BY DebtsCount
<1>3. /\ PermitLimit
           <=> (permits + Cardinality(AboutToSend)) + Cardinality(Outstanding) <= MaxSubs
      /\ DebtLimit <=> permits + Cardinality(Debts) <= MaxSubs
  BY DEF PermitLimit, DebtLimit
<1> HIDE DEF PermitLimit, DebtLimit
<1> QED BY <1>1, <1>2, <1>3

LEMMA TradeKeeps ==
  ASSUME TypeInv, DebtLimit, NEW A, NEW B, Trades(A, B)
  PROVE  DebtLimit'
<1>1. IsFiniteSet(Debts) BY DebtsFinite
<1>2. IsFiniteSet(B) /\ IsFiniteSet(Debts \ B) /\ IsFiniteSet(A)
  BY <1>1, FS_Subset DEF Trades
<1>3. Cardinality(Debts \ B) = Cardinality(Debts) - Cardinality(B)
  <2>1. Debts \cap B = B BY DEF Trades
  <2> QED BY <1>1, <2>1, FS_Difference
<1>4. /\ IsFiniteSet((Debts \ B) \cup A)
      /\ Cardinality((Debts \ B) \cup A)
           = Cardinality(Debts \ B) + Cardinality(A)
               - Cardinality((Debts \ B) \cap A)
  BY <1>2, FS_Union
<1>5. Cardinality((Debts \ B) \cap A) \in Nat
  <2>1. IsFiniteSet((Debts \ B) \cap A) BY <1>2, FS_Subset
  <2> QED BY <2>1, FS_CardinalityType
<1>6. Cardinality(Debts') <= Cardinality((Debts \ B) \cup A)
  BY <1>4, FS_Subset DEF Trades
<1>7. /\ Cardinality(Debts') \in Nat /\ Cardinality(Debts) \in Nat
      /\ Cardinality(A) \in Nat /\ Cardinality(B) \in Nat
      /\ Cardinality(Debts \ B) \in Nat
      /\ Cardinality((Debts \ B) \cup A) \in Nat
  <2>1. IsFiniteSet(Debts') BY <1>4, FS_Subset DEF Trades
  <2> QED BY <1>1, <1>2, <1>4, <2>1, FS_CardinalityType
<1>8. permits \in Nat /\ MaxSubs \in Nat /\ permits' = permits + Cardinality(B) - Cardinality(A)
  BY ConstantsAssumption DEF TypeInv, TypeOK, WsTypeOK, Trades
<1> QED BY <1>3, <1>4, <1>5, <1>6, <1>7, <1>8 DEF DebtLimit

\* What the debts of a call depend on.
LEMMA DebtOf ==
  ASSUME NEW i
  PROVE  /\ i \in Debts <=>
              \/ /\ i \in Id /\ pc[i[1]] \in {"acquire", "send", "polling"}
                 /\ i[2] \in 1..sent[i[1]] /\ i[2] \notin got[i[1]]
              \/ \E d \in Call : pc[d] = "send" /\ i = <<d, Batch + 1>>
         /\ i \in Debts' <=>
              \/ /\ i \in Id /\ pc'[i[1]] \in {"acquire", "send", "polling"}
                 /\ i[2] \in 1..sent'[i[1]] /\ i[2] \notin got'[i[1]]
              \/ \E d \in Call : pc'[d] = "send" /\ i = <<d, Batch + 1>>
BY DEF Debts, Outstanding, InHand, AboutToSend

LEMMA LimitLater ==
  ASSUME permits' \in Nat, DebtLimit'
  PROVE  PermitLimit'
<1>1. (permits \in Nat => (PermitLimit <=> DebtLimit))' BY LimitIsDebtLimit, PTL
<1> QED BY <1>1

\* No permit moves.
LEMMA NoneOut ==
  ASSUME TypeInv, UNCHANGED permits, Debts' \subseteq Debts
  PROVE  Trades({}, {})
<1>1. permits \in Nat BY DEF TypeInv, TypeOK, WsTypeOK
<1> QED BY <1>1, FS_EmptySet DEF Trades

LEMMA SendsTrades ==
  ASSUME TypeInv, NEW c \in Call, NEW own \in {0, 1}, NEW n \in 0..Batch,
         NEW w \in AfterSends, SendsSome(c, own, n, w), UNCHANGED got,
         pc[c] \in {"acquire", "send"} \/ sent[c] = 0,
         own = 1 <=> pc[c] = "send"
  PROVE  \E A, B : Trades(A, B)
<1> DEFINE k == sent[c]
           hand == <<c, Batch + 1>>
           out == {c} \X (k + 1 .. k + n)
           A == out \cup (IF w = "send" THEN {hand} ELSE {})
           B == IF own = 1 THEN {hand} ELSE {}
<1>1. /\ permits' = (permits + own) - (n + IF w = "send" THEN 1 ELSE 0)
      /\ permits \in Nat /\ k \in Nat /\ n \in Nat /\ Batch \in Nat /\ k + n <= Batch
      /\ sent'[c] = k + n /\ pc'[c] = w
      /\ \A d \in Call \ {c} : pc'[d] = pc[d] /\ sent'[d] = sent[d]
  BY SizeType, ConstantsAssumption DEF SendsSome, Goto, TypeInv, TypeOK, WsTypeOK
<1>2. IsFiniteSet(out) /\ Cardinality(out) = n
  <2>1. k + 1 \in Int /\ k + n \in Int BY <1>1
  <2>2. /\ IsFiniteSet(k + 1 .. k + n)
        /\ Cardinality(k + 1 .. k + n)
             = IF k + 1 > k + n THEN 0 ELSE (k + n) - (k + 1) + 1
    BY <2>1, FS_Interval
  <2>3. Cardinality(k + 1 .. k + n) = n BY <1>1, <2>2
  <2> QED BY <2>2, <2>3, PairsOf
<1>3. hand \notin out BY <1>1
<1>4. IsFiniteSet(A) /\ Cardinality(A) = n + IF w = "send" THEN 1 ELSE 0
  <2> HIDE DEF out
  <2>1. CASE w = "send"
    <3>1. A = out \cup {hand} BY <2>1
    <3>2. IsFiniteSet(out \cup {hand}) /\ Cardinality(out \cup {hand}) = Cardinality(out) + 1
      BY <1>2, <1>3, FS_AddElement
    <3> QED BY <1>2, <2>1, <3>1, <3>2
  <2>2. CASE w # "send"
    <3>1. A = out BY <2>2
    <3> QED BY <1>1, <1>2, <2>2, <3>1
  <2> QED BY <2>1, <2>2
<1>5. Cardinality(B) = own /\ IsFiniteSet(B) BY FS_Singleton, FS_EmptySet
<1>6. B \subseteq Debts
  <2>1. own = 1 => hand \in Debts BY DebtOf
  <2> QED BY <2>1
<1>7. ASSUME NEW i \in Debts' PROVE i \in (Debts \ B) \cup A
  <2>1. CASE /\ i \in Id /\ pc'[i[1]] \in {"acquire", "send", "polling"}
             /\ i[2] \in 1..sent'[i[1]] /\ i[2] \notin got'[i[1]]
    <3>1. PICK d \in Call, j \in 0..Batch : i = <<d, j>> BY <2>1 DEF Id
    <3>2. i # hand BY <1>1, <3>1
    <3>3. CASE d # c
      <4>1. i \in Debts BY <1>1, <2>1, <3>1, <3>3, DebtOf
      <4> QED BY <3>2, <4>1
    <3>4. CASE d = c /\ j \in 1..k
      <4>1. k # 0 BY <1>1, <3>4
      <4>2. i \in Debts BY <1>1, <2>1, <3>1, <3>4, <4>1, DebtOf
      <4> QED BY <3>2, <4>2
    <3>5. CASE d = c /\ j \notin 1..k
      <4>1. j \in 1 .. k + n BY <1>1, <2>1, <3>1, <3>5
      <4>2. j \in k + 1 .. k + n BY <1>1, <3>5, <4>1
      <4> QED BY <3>1, <3>5, <4>2
    <3> QED BY <3>3, <3>4, <3>5
  <2>2. ASSUME NEW d \in Call, pc'[d] = "send", i = <<d, Batch + 1>>
        PROVE  i \in (Debts \ B) \cup A
    <3>1. CASE d = c BY <1>1, <2>2, <3>1
    <3>2. CASE d # c
      <4>1. i \in Debts BY <1>1, <2>2, <3>2, DebtOf
      <4>2. i # hand BY <2>2, <3>2
      <4> QED BY <4>1, <4>2
    <3> QED BY <3>1, <3>2
  <2> QED BY <2>1, <2>2, DebtOf
<1> HIDE DEF A, B
<1>8. Trades(A, B)
  <2>1. permits' = permits + Cardinality(B) - Cardinality(A)
    <3>1. PICK q \in {0, 1} : q = IF w = "send" THEN 1 ELSE 0 OBVIOUS
    <3> QED BY <1>1, <1>4, <1>5, <3>1
  <2> QED BY <1>4, <1>6, <1>7, <2>1 DEF Trades
<1> QED BY <1>8

LEMMA SubmitTrades ==
  ASSUME TypeInv, NEW c \in Call, pc[c] # "send", sent[c] = 0, Submit(c), UNCHANGED got
  PROVE  \E A, B : Trades(A, B)
<1>1. PICK n \in 0..Batch, w \in AfterSends : SendsSome(c, 0, n, w) BY CallSends
<1> QED BY <1>1, SendsTrades

LEMMA ProceedTrades ==
  ASSUME TypeInv, OriginInv, NEW c \in Call, pc[c] \in {"idle", "lockwait", "dial"},
         NEW e, e = ending[c], Proceed(c, e), UNCHANGED got
  PROVE  \E A, B : Trades(A, B)
<1>1. ASSUME NEW w, w \notin {"acquire", "send", "polling"}, Goto(c, w),
             UNCHANGED <<permits, sent>>
      PROVE  \E A, B : Trades(A, B)
  <2>1. Debts' \subseteq Debts
    BY <1>1 DEF Goto, Debts, Outstanding, InHand, AboutToSend, Id, TypeInv, TypeOK
  <2> QED BY <1>1, <2>1, NoneOut
<1>2. CASE LockedOut(c) BY <1>1, <1>2 DEF Proceed
<1>3. CASE ~LockedOut(c) /\ e = "none"
  <2>1. sent[c] = 0 BY <1>3 DEF OriginInv, NotSentYet
  <2> QED BY <1>3, <2>1, SubmitTrades DEF Proceed
<1>4. CASE ~LockedOut(c) /\ e # "none"
  <2>1. Leave(c, e) BY <1>4 DEF Proceed
  <2>2. UNCHANGED <<permits, sent>> /\ \E w \in {"unmark", "done", "failed"} : Goto(c, w)
    BY <2>1 DEF Leave
  <2> QED BY <1>1, <2>2
<1> QED BY <1>2, <1>3, <1>4

\* A call that moves without sending.
LEMMA MoveTrades ==
  ASSUME TypeInv, NEW c \in Call, UNCHANGED <<permits, sent, got>>, NEW w, Goto(c, w),
         w \notin {"acquire", "send", "polling"}
  PROVE  \E A, B : Trades(A, B)
<1>1. Debts' \subseteq Debts
  BY DEF Goto, Debts, Outstanding, InHand, AboutToSend, Id, TypeInv, TypeOK
<1> QED BY <1>1, NoneOut

LEMMA AcquireTrades ==
  ASSUME TypeInv, NEW c \in Call, Acquire(c) \/ Enqueue(c)
  PROVE  \E A, B : Trades(A, B)
<1>1. CASE Acquire(c)
  <2>1. PICK n \in 0..Batch, w \in AfterSends : SendsSome(c, 0, n, w)
    BY <1>1, CallSends
  <2>2. pc[c] = "acquire" /\ UNCHANGED got BY <1>1 DEF Acquire
  <2> QED BY <2>1, <2>2, SendsTrades
<1>2. CASE Enqueue(c)
  <2>1. PICK n \in 0..Batch, w \in AfterSends : SendsSome(c, 1, n, w)
    BY <1>2, CallSends
  <2>2. pc[c] = "send" /\ UNCHANGED got BY <1>2 DEF Enqueue
  <2> QED BY <2>1, <2>2, SendsTrades
<1> QED BY <1>1, <1>2

\* Each answer or exception taken gives its permit back, once.
LEMMA PollTrades ==
  ASSUME TypeInv, OriginInv, NEW c \in Call, Poll(c)
  PROVE  \E A, B : Trades(A, B)
<1> DEFINE open == Payload(c) \ got[c]
           bad == {j \in open : Hopeless(c, j)}
           taken == {j \in open : received[<<c, j>>] = "done"
                                    /\ \A k \in bad : j < k}
           spoilt == {j \in bad : received[<<c, j>>] = "exc"
                                    /\ \A k \in bad : j <= k}
           B == {c} \X (taken \cup spoilt)
<1>1. /\ pc[c] = "polling" /\ permits' = permits + Freed(taken, spoilt)
      /\ got' = [got EXCEPT ![c] = @ \cup taken] /\ UNCHANGED sent
      /\ bad # {} => Goto(c, "failed")
      /\ UNCHANGED pc \/ \E w \in {"failed", "watching", "unmark", "done"} : Goto(c, w)
  BY DEF Poll, Raise, Complete
<1>2. Payload(c) = 1..Size(c) /\ Size(c) \in 1..Batch BY SizeType DEF Payload
<1>3. IsFiniteSet(taken \cup spoilt) /\ IsFiniteSet(taken) /\ IsFiniteSet(spoilt)
  <2>1. IsFiniteSet(Payload(c)) BY <1>2, FS_Interval, ConstantsAssumption
  <2> QED BY <2>1, FS_Subset
<1>4. taken \cap spoilt = {} OBVIOUS
<1>5. Cardinality(taken \cup spoilt) = Cardinality(taken) + Cardinality(spoilt)
  <2> HIDE DEF open, bad, taken, spoilt
  <2> QED BY <1>3, <1>4, DisjointSum
<1>6. /\ IsFiniteSet(B) /\ Cardinality(B) = Cardinality(taken \cup spoilt)
      /\ Cardinality(B) \in Nat
  BY <1>3, PairsOf, FS_CardinalityType
<1>7. permits' = permits + Cardinality(B) BY <1>1, <1>5, <1>6 DEF Freed
<1>8. B \subseteq Outstanding /\ B \subseteq Debts
  <2>1. ASSUME NEW j \in taken \cup spoilt PROVE <<c, j>> \in Outstanding
    <3>1. j \in 1..Size(c) /\ j \notin got[c] /\ received[<<c, j>>] # "none"
      BY <1>2, <2>1
    <3>2. <<c, j>> \in Id BY <1>2, <3>1, ConstantsAssumption DEF Id
    <3>3. j \in 1..sent[c] BY <1>2, <3>1, <3>2, ConstantsAssumption DEF OriginInv, Issued
    <3> QED BY <1>1, <3>1, <3>2, <3>3 DEF Outstanding
  <2>2. B \subseteq Outstanding BY <2>1
  <2> QED BY <2>2 DEF Debts
<1>9. Outstanding' \subseteq Outstanding \ B
  <2> SUFFICES ASSUME NEW i \in Outstanding' PROVE i \in Outstanding \ B OBVIOUS
  <2>1. /\ i \in Id /\ pc'[i[1]] \in {"acquire", "send", "polling"}
        /\ i[2] \in 1..sent'[i[1]] /\ i[2] \notin got'[i[1]]
    BY DEF Outstanding
  <2>2. i[1] \in Call BY <2>1 DEF Id
  <2>3. CASE i[1] # c
    <3>1. pc'[i[1]] = pc[i[1]] /\ got'[i[1]] = got[i[1]]
      BY <1>1, <2>2, <2>3 DEF Goto, TypeInv, TypeOK
    <3>2. i \in Outstanding BY <1>1, <2>1, <3>1 DEF Outstanding
    <3> QED BY <2>3, <3>2
  <2>4. CASE i[1] = c
    <3>1. bad = {} /\ UNCHANGED pc
      BY <1>1, <2>1, <2>4 DEF Goto, TypeInv, TypeOK
    <3>2. got'[c] = got[c] \cup taken /\ spoilt = {}
      BY <1>1, <3>1 DEF TypeInv, TypeOK
    <3>3. i \in Outstanding BY <1>1, <2>1, <2>4, <3>1, <3>2 DEF Outstanding
    <3>4. i[2] \notin taken \cup spoilt BY <2>1, <2>4, <3>2
    <3> QED BY <3>3, <3>4
  <2> QED BY <2>3, <2>4
<1>12. InHand' \subseteq InHand /\ InHand \cap B = {}
  <2>1. AboutToSend' \subseteq AboutToSend
    BY <1>1 DEF Goto, AboutToSend, TypeInv, TypeOK
  <2>2. c \notin AboutToSend BY <1>1 DEF AboutToSend
  <2> QED BY <2>1, <2>2 DEF InHand
<1>13. Debts' \subseteq Debts \ B BY <1>9, <1>12 DEF Debts
<1>10. permits \in Nat BY DEF TypeInv, TypeOK, WsTypeOK
<1> HIDE DEF B
<1>11. Trades({}, B) BY <1>6, <1>7, <1>8, <1>10, <1>13, FS_EmptySet DEF Trades
<1> QED BY <1>11

LEMMA CallTrades ==
  ASSUME TypeInv, OriginInv, NEW c \in Call, CallStep(c)
  PROVE  \E A, B : Trades(A, B)
<1>1. CASE Enter(c)
  <2>1. CASE ws = "open"
    <3>1. pc[c] = "idle" /\ ending[c] = "none" BY <1>1 DEF Enter, OriginInv
    <3> QED BY <1>1, <2>1, <3>1, ProceedTrades DEF Enter
  <2>2. CASE ws # "open" BY <1>1, <2>2, MoveTrades DEF Enter
  <2> QED BY <2>1, <2>2
<1>2. CASE GrabLock(c)
  <2>1. CASE ws = "open" BY <1>2, <2>1, ProceedTrades DEF GrabLock
  <2>2. CASE ws # "open" BY <1>2, <2>2, MoveTrades DEF GrabLock
  <2> QED BY <2>1, <2>2
<1>3. CASE Dial(c)
  <2>1. CASE DialOk(c) BY <2>1, ProceedTrades DEF DialOk
  <2>2. CASE DialFail(c) BY <2>2, MoveTrades DEF DialFail, Raise
  <2>3. CASE DialNoName(c) BY <2>3, MoveTrades DEF DialNoName, clientVars
  <2> QED BY <1>3, <2>1, <2>2, <2>3 DEF Dial
<1>4. CASE Mark(c)
  <2>1. CASE ending[c] = "none"
    <3>1. sent[c] = 0 BY <1>4, <2>1 DEF Mark, OriginInv, NotSentYet
    <3> QED BY <1>4, <2>1, <3>1, SubmitTrades DEF Mark
  <2>2. CASE ending[c] # "none" BY <1>4, <2>2, MoveTrades DEF Mark, Leave
  <2> QED BY <2>1, <2>2
<1>5. CASE Acquire(c) \/ Enqueue(c) BY <1>5, AcquireTrades
<1>6. CASE Poll(c) BY <1>6, PollTrades
<1>7. CASE TakeNote(c)
  <2>1. CASE UNCHANGED <<permits, sent, got, pc>>
    <3>1. Debts' = Debts BY <2>1 DEF Debts, Outstanding, InHand, AboutToSend
    <3> QED BY <2>1, <3>1, NoneOut
  <2>2. \/ UNCHANGED <<permits, sent, got, pc>>
        \/ /\ UNCHANGED <<permits, sent, got>>
           /\ \E w \in {"done", "failed", "unmark", "mark", "lockwait"} : Goto(c, w)
    BY <1>7 DEF TakeNote, Leave
  <2> QED BY <2>1, <2>2, MoveTrades
<1>8. CASE WatchFails(c) BY <1>8, MoveTrades DEF WatchFails, Raise
<1>9. CASE Unmark(c) BY <1>9, MoveTrades DEF Unmark
<1>10. CASE Cancel(c) BY <1>10, MoveTrades DEF Cancel
<1> QED BY <1>1, <1>2, <1>3, <1>4, <1>5, <1>6, <1>7, <1>8, <1>9, <1>10 DEF CallStep

LEMMA PermitStep ==
  TypeInv /\ OriginInv /\ PermitLimit /\ [Next]_vars => PermitLimit'
<1> SUFFICES ASSUME TypeInv, OriginInv, PermitLimit, [Next]_vars PROVE PermitLimit'
  OBVIOUS
<1>1. ASSUME NEW c \in Call, CallStep(c) PROVE PermitLimit'
  <2>1. permits \in Nat BY DEF TypeInv, TypeOK, WsTypeOK
  <2>2. permits' \in Nat BY TypeStep DEF TypeInv, TypeOK, WsTypeOK
  <2>3. DebtLimit' BY <1>1, <2>1, LimitIsDebtLimit, CallTrades, TradeKeeps
  <2> QED BY <2>2, <2>3, LimitLater
<1>2. CASE UNCHANGED <<permits, sent, got, pc>>
  <2>1. Outstanding' = Outstanding BY <1>2 DEF Outstanding
  <2>2. AboutToSend' = AboutToSend BY <1>2 DEF AboutToSend
  <2> QED BY <1>2, <2>1, <2>2 DEF PermitLimit
<1>3. CASE WsStep
  <2>1. UNCHANGED permits
    BY <1>3 DEF WsStep, Drop, Serve, Recv, Notify, RecvMalformed, Send, SendBadPayload,
       HandlerEnds, Resubmit, Redial, ExitFires, ExitStops, ExitDone, clientVars
  <2> QED BY <1>2, <1>3, <2>1 DEF WsStep, callVars
<1>4. CASE UNCHANGED vars BY <1>2, <1>4 DEF vars, wsVars, clientVars, callVars
<1> QED BY <1>1, <1>3, <1>4 DEF Next

\* max_subscriptions bounds the requests that live calls wait for, however
\* answers, failures, cancellations and resubmissions fall
\* (async_substrate.py:1097-1107, 1145-1160).
THEOREM PermitsBound == Spec => []PermitLimit
<1>1. Init => PermitLimit
  <2> SUFFICES ASSUME Init PROVE PermitLimit OBVIOUS
  <2>1. Outstanding = {} BY DEF Init, Outstanding, Id
  <2>2. AboutToSend = {} BY DEF Init, AboutToSend
  <2> QED BY <2>1, <2>2, FS_EmptySet, ConstantsAssumption DEF PermitLimit, Init, WsInit
<1> QED BY <1>1, PermitStep, TypeInvariant, OriginInvariant, PTL DEF Spec
-----------------------------------------------------------------------------
(***************************************************************************)
(* What is awaited is on its way.                                          *)
(***************************************************************************)

Awaited == {i \in Outstanding : received[i] = "pending"}

\* A handler that lives can bring every answer that is awaited: the request is
\* queued or in flight, and while the connection is open the node has it.
OnItsWay ==
  /\ handler \in {"run", "stopped"} => Awaited \subseteq Range(sending) \cup inflight
  /\ handler = "redial" => Awaited \subseteq Range(sending)
  /\ handler = "run" /\ ws = "open"
       => Awaited \subseteq Range(sending) \cup atServer \cup answers

\* No call dials while another still waits for an answer.
DialsAlone == lock # {} => Awaited = {}

\* What a step begins to wait for it puts in the queue.
Hands ==
  /\ Awaited' \subseteq Awaited \cup Range(sending')
  /\ Range(sending) \subseteq Range(sending')

LEMMA SendsHands ==
  ASSUME TypeInv, NEW c \in Call, NEW own, NEW n \in 0..Batch, NEW w \in AfterSends,
         SendsSome(c, own, n, w), UNCHANGED got,
         pc[c] \in {"acquire", "send"} \/ sent[c] = 0
  PROVE  Hands
<1> DEFINE k == sent[c]
           s == [j \in 1..n |-> <<c, k + j>>]
<1>1. /\ sending' = sending \o s /\ sent'[c] = k + n
      /\ k \in Nat /\ n \in Nat /\ k + n <= Batch
      /\ \A d \in Call \ {c} : pc'[d] = pc[d] /\ sent'[d] = sent[d]
      /\ \A i \in Id : ~(i[1] = c /\ i[2] \in k + 1 .. k + n) => received'[i] = received[i]
  BY SizeType, ConstantsAssumption DEF SendsSome, Goto, TypeInv, TypeOK, WsTypeOK
<1>2. s \in Seq(Id) /\ Range(s) = {<<c, k + j>> : j \in 1..n} BY <1>1, PayloadHolds
<1> HIDE DEF s
<1>3. Range(sending') = Range(sending) \cup Range(s)
  BY <1>1, <1>2, ConcatHolds DEF TypeInv, TypeOK, WsTypeOK
<1>4. ASSUME NEW i \in Awaited' PROVE i \in Awaited \cup Range(sending')
  <2>1. /\ i \in Id /\ pc'[i[1]] \in {"acquire", "send", "polling"}
        /\ i[2] \in 1..sent'[i[1]]
        /\ i[2] \notin got'[i[1]] /\ received'[i] = "pending"
    BY <1>4 DEF Awaited, Outstanding
  <2>2. PICK d \in Call, j \in 0..Batch : i = <<d, j>> BY <2>1 DEF Id
  <2>3. CASE d = c /\ j \in k + 1 .. k + n
    <3>1. j = k + (j - k) /\ j - k \in 1..n BY <1>1, <2>3
    <3> QED BY <1>2, <1>3, <2>2, <2>3, <3>1
  <2>4. CASE d = c /\ j \notin k + 1 .. k + n
    <3>1. j \in 1..k BY <1>1, <2>1, <2>2, <2>4
    <3>2. k # 0 BY <1>1, <3>1
    <3> QED BY <1>1, <2>1, <2>2, <2>4, <3>1, <3>2 DEF Awaited, Outstanding
  <2>5. CASE d # c BY <1>1, <2>1, <2>2, <2>5 DEF Awaited, Outstanding
  <2> QED BY <2>3, <2>4, <2>5
<1> QED BY <1>3, <1>4 DEF Hands

LEMMA SubmitHands ==
  ASSUME TypeInv, NEW c \in Call, sent[c] = 0, Submit(c), UNCHANGED got
  PROVE  Hands
  BY CallSends, SendsHands

LEMMA MoveHands ==
  ASSUME TypeInv, NEW c \in Call, UNCHANGED <<received, sent, got>>,
         \/ UNCHANGED pc
         \/ \E w : w \notin {"acquire", "send", "polling"} /\ Goto(c, w),
         Range(sending) \subseteq Range(sending')
  PROVE  Hands
<1>1. Awaited' \subseteq Awaited
  BY DEF Goto, Awaited, Outstanding, Id, TypeInv, TypeOK
<1> QED BY <1>1 DEF Hands

LEMMA LeaveHands ==
  ASSUME TypeInv, NEW c \in Call, NEW e, Leave(c, e), UNCHANGED got
  PROVE  Hands
<1>1. <<c, 0>> \in Id /\ sending' = Append(sending, <<c, 0>>)
  BY ConstantsAssumption DEF Leave, Unsubscribe, Id
<1>2. Range(sending) \subseteq Range(sending')
  BY <1>1, AppendHolds DEF TypeInv, TypeOK, WsTypeOK
<1> QED BY <1>2, MoveHands DEF Leave

LEMMA ProceedHands ==
  ASSUME TypeInv, OriginInv, NEW c \in Call, pc[c] \in {"idle", "lockwait", "dial"},
         NEW e, e = ending[c], Proceed(c, e), UNCHANGED got
  PROVE  Hands
<1>1. CASE LockedOut(c) BY <1>1, MoveHands DEF Proceed
<1>2. CASE ~LockedOut(c) /\ e = "none"
  <2>1. sent[c] = 0 BY <1>2 DEF OriginInv, NotSentYet
  <2> QED BY <1>2, <2>1, SubmitHands DEF Proceed
<1>3. CASE ~LockedOut(c) /\ e # "none" BY <1>3, LeaveHands DEF Proceed
<1> QED BY <1>1, <1>2, <1>3

LEMMA AcquireHands ==
  ASSUME TypeInv, NEW c \in Call, Acquire(c) \/ Enqueue(c)
  PROVE  Hands
<1>1. PICK own \in {0, 1}, n \in 0..Batch, w \in AfterSends : SendsSome(c, own, n, w)
  BY CallSends
<1>2. pc[c] \in {"acquire", "send"} /\ UNCHANGED got BY DEF Acquire, Enqueue
<1> QED BY <1>1, <1>2, SendsHands

LEMMA PollHands ==
  ASSUME TypeInv, NEW c \in Call, Poll(c)
  PROVE  Hands
<1>1. /\ \A i \in Id : received'[i] \in {received[i], "none"}
      /\ UNCHANGED <<sending, sent>> /\ \A d \in Call : got[d] \subseteq got'[d]
      /\ UNCHANGED pc \/ \E w \in {"failed", "watching", "unmark", "done"} : Goto(c, w)
  BY DEF Poll, Raise, Complete, TypeInv, TypeOK
<1>2. Awaited' \subseteq Awaited
  BY <1>1 DEF Goto, Awaited, Outstanding, Id, TypeInv, TypeOK
<1> QED BY <1>1, <1>2 DEF Hands

\* The connection and its handler are left as they are.
Still == UNCHANGED <<ws, handler, inflight, atServer, answers>>

LEMMA HandsKeep == ASSUME OnItsWay, Hands, Still PROVE OnItsWay'
BY DEF OnItsWay, Hands, Still

LEMMA OnItsWayCall ==
  ASSUME TypeInv, OriginInv, LockInv, OnItsWay, DialsAlone, NEW c \in Call, CallStep(c)
  PROVE  OnItsWay'
<1>1. CASE Enter(c)
  <2>1. CASE ws = "open"
    <3>1. pc[c] = "idle" /\ ending[c] = "none" BY <1>1 DEF Enter, OriginInv
    <3> QED BY <1>1, <2>1, <3>1, ProceedHands, HandsKeep DEF Enter, serverVars, Still
  <2>2. CASE ws # "open"
    <3>1. UNCHANGED <<sending, received, sent, got>> /\ Goto(c, "lockwait") /\ Still
      BY <1>1, <2>2 DEF Enter, serverVars, Still
    <3> QED BY <3>1, MoveHands, HandsKeep
  <2> QED BY <2>1, <2>2
<1>2. CASE GrabLock(c)
  <2>1. CASE ws = "open"
    BY <1>2, <2>1, ProceedHands, HandsKeep DEF GrabLock, serverVars, Still
  <2>2. CASE ws # "open"
    BY <1>2, <2>2 DEF GrabLock, CancelHandler, OnItsWay
  <2> QED BY <2>1, <2>2
<1>3. CASE DialOk(c)
  <2>1. Awaited = {} BY <1>3 DEF DialOk, LockInv, DialsAlone
  <2>2. Hands BY <1>3, ProceedHands DEF DialOk
  <2> QED BY <2>1, <2>2 DEF OnItsWay, Hands
<1>4. CASE DialFail(c)
  <2>1. UNCHANGED <<sending, received, sent, got>> /\ Goto(c, "failed") /\ Still
    BY <1>4 DEF DialFail, Raise, serverVars, Still
  <2> QED BY <2>1, MoveHands, HandsKeep
<1>5. CASE DialNoName(c)
  <2>1. UNCHANGED <<sending, received, sent, got>> /\ Goto(c, "stuck") /\ Still
    BY <1>5 DEF DialNoName, clientVars, serverVars, Still
  <2> QED BY <2>1, MoveHands, HandsKeep
<1>6. CASE Mark(c)
  <2>1. ending[c] = "none" => sent[c] = 0 BY <1>6 DEF Mark, OriginInv, NotSentYet
  <2>2. Hands BY <1>6, <2>1, SubmitHands, LeaveHands DEF Mark
  <2> QED BY <1>6, <2>2, HandsKeep DEF Mark, serverVars, Still
<1>7. CASE Acquire(c) \/ Enqueue(c)
  <2>1. Still BY <1>7 DEF Acquire, Enqueue, serverVars, Still
  <2> QED BY <1>7, <2>1, AcquireHands, HandsKeep
<1>8. CASE Poll(c) BY <1>8, PollHands, HandsKeep DEF Poll, serverVars, Still
<1>9. CASE TakeNote(c)
  <2>1. Still /\ UNCHANGED got BY <1>9 DEF TakeNote, serverVars, Still
  <2>2. \/ \E e : Leave(c, e)
        \/ /\ UNCHANGED <<sending, received, sent>>
           /\ UNCHANGED pc \/ \E w \in {"mark", "lockwait"} : Goto(c, w)
    BY <1>9 DEF TakeNote
  <2> QED BY <2>1, <2>2, LeaveHands, MoveHands, HandsKeep
<1>10. CASE WatchFails(c) \/ Unmark(c) \/ Cancel(c)
  <2>1. UNCHANGED <<sending, received, sent, got>> /\ Still
        /\ \E w \in {"failed", "done", "cancelled"} : Goto(c, w)
    BY <1>10 DEF WatchFails, Unmark, Cancel, Raise, serverVars, Still
  <2> QED BY <2>1, MoveHands, HandsKeep
<1> QED BY <1>1, <1>2, <1>3, <1>4, <1>5, <1>6, <1>7, <1>8, <1>9, <1>10 DEF CallStep, Dial

LEMMA OnItsWayWs ==
  ASSUME TypeInv, OnItsWay, WsStep
  PROVE  OnItsWay'
<1>0. UNCHANGED <<pc, sent, got>> BY DEF WsStep, callVars
<1>1. Outstanding' = Outstanding BY <1>0 DEF Outstanding
<1>2. ASSUME UNCHANGED received PROVE Awaited' = Awaited BY <1>1, <1>2 DEF Awaited
<1>3. ASSUME ReceiverFails PROVE OnItsWay'
  BY <1>3 DEF ReceiverFails, OnItsWay
<1>4. ASSUME NEW kind \in Down, Drop(kind) PROVE OnItsWay'
  <2>1. Awaited' = Awaited BY <1>2, <1>4 DEF Drop
  <2> QED BY <1>4, <2>1 DEF Drop, serverVars, OnItsWay, Down
<1>5. ASSUME NEW i \in Id, Serve(i) PROVE OnItsWay'
  <2>1. Awaited' = Awaited BY <1>2, <1>5 DEF Serve, clientVars
  <2> QED BY <1>5, <2>1 DEF Serve, clientVars, OnItsWay
<1>6. ASSUME NEW i \in Id, Recv(i) PROVE OnItsWay'
  <2>1. CASE ReceiverFails BY <1>3, <2>1
  <2>2. CASE /\ UNCHANGED handler
             /\ \A k \in Id : k # i => received'[k] = received[k]
             /\ received'[i] # "pending"
    <3>1. Awaited' \subseteq Awaited \ {i} BY <1>1, <2>2 DEF Awaited, Outstanding
    <3> QED BY <1>6, <2>2, <3>1 DEF Recv, OnItsWay
  <2> QED BY <1>6, <2>1, <2>2 DEF Recv, TypeInv, TypeOK, WsTypeOK
<1>7. ASSUME NEW c \in Watch, NEW n \in Note, Notify(c, n) PROVE OnItsWay'
  <2>1. Awaited' = Awaited BY <1>2, <1>7 DEF Notify
  <2> QED BY <1>7, <2>1 DEF Notify, serverVars, OnItsWay
<1>8. CASE RecvMalformed BY <1>3, <1>8 DEF RecvMalformed
<1>9. CASE Send
  <2>1. Awaited' = Awaited BY <1>2, <1>9 DEF Send
  <2>2. sending \in Seq(Id) /\ sending # <<>> BY <1>9 DEF Send, TypeInv, TypeOK, WsTypeOK
  <2>3. Range(sending) \subseteq Range(sending') \cup {Head(sending)}
    BY <1>9, <2>2, HeadOrTail DEF Send
  <2>4. UNCHANGED <<ws, answers>> /\ inflight' = inflight \cup {Head(sending)}
        /\ \/ ws = "open" /\ atServer' = atServer \cup {Head(sending)} /\ handler' = "run"
           \/ ws # "open" /\ handler' = "stopped"
    BY <1>9 DEF Send
  <2>5. handler = "run" BY <1>9 DEF Send
  <2> QED BY <2>1, <2>3, <2>4, <2>5 DEF OnItsWay
<1>10. CASE SendBadPayload BY <1>10 DEF SendBadPayload, OnItsWay
<1>11. CASE HandlerEnds BY <1>11 DEF HandlerEnds, OnItsWay
<1>12. CASE Resubmit
  <2>1. PICK order \in SetToSeqs(inflight) : sending' = sending \o order
    BY <1>12 DEF Resubmit, Requeue
  <2>2. inflight \in SUBSET Id /\ sending \in Seq(Id) BY DEF TypeInv, TypeOK, WsTypeOK
  <2>3. order \in Seq(Id) BY <2>1, <2>2, OrderType
  <2>8. inflight \subseteq Range(order) BY <2>1, <2>2, OrderFills
  <2>4. Range(sending) \cup inflight \subseteq Range(sending') BY <2>1, <2>2, <2>3, <2>8, ConcatHolds
  <2>5. \A i \in Id \ inflight : received'[i] = received[i]
    BY <1>12 DEF Resubmit, Renew
  <2>6. Awaited' \subseteq Awaited \cup inflight
    BY <1>1, <2>5 DEF Awaited, Outstanding
  <2>7. handler' = "redial" /\ handler \in {"run", "stopped"}
    BY <1>12 DEF Resubmit, Attached
  <2> QED BY <2>4, <2>6, <2>7 DEF OnItsWay
<1>13. CASE Redial
  <2>1. Awaited' = Awaited BY <1>2, <1>13 DEF Redial
  <2> QED BY <1>13, <2>1 DEF Redial, NewConnection, OnItsWay
<1>14. CASE ExitFires
  <2>1. Awaited' = Awaited BY <1>2, <1>14 DEF ExitFires
  <2> QED BY <1>14, <2>1 DEF ExitFires, serverVars, OnItsWay
<1>15. CASE ExitStops \/ ExitDone BY <1>15 DEF ExitStops, ExitDone, OnItsWay
<1> QED BY <1>4, <1>5, <1>6, <1>7, <1>8, <1>9, <1>10, <1>11, <1>12, <1>13, <1>14, <1>15
        DEF WsStep

LEMMA OnItsWayStep ==
  TypeInv /\ OriginInv /\ LockInv /\ OnItsWay /\ DialsAlone /\ [Next]_vars => OnItsWay'
<1> SUFFICES ASSUME TypeInv, OriginInv, LockInv, OnItsWay, DialsAlone, [Next]_vars PROVE OnItsWay'
  OBVIOUS
<1>1. CASE UNCHANGED vars
  BY <1>1 DEF vars, wsVars, clientVars, serverVars, callVars, OnItsWay, Awaited,
     Outstanding
<1> QED BY <1>1, OnItsWayWs, OnItsWayCall DEF Next

LEMMA OnItsWayInit == Init => OnItsWay
BY DEF Init, WsInit, OnItsWay

LEMMA OnItsWayNothingLost == OnItsWay => NothingLost
BY DEF OnItsWay, NothingLost, Awaited

\* Of any number of calls, none waits for an answer that can no longer come, as
\* long as no call dials while another waits: with a handler on an open
\* connection every request that is awaited is queued, at the node, or answered
\* (async_substrate.py:778-932, 1012-1095).  A call that does is what it takes to
\* lose a request.
THEOREM OnlyDialsLose == Spec /\ []DialsAlone => []NothingLost
<1> QED BY OnItsWayInit, OnItsWayStep, OnItsWayNothingLost, TypeInvariant,
           OriginInvariant, LockInvariant, PTL DEF Spec

\* A call that has the Websocket to itself loses nothing, however often the
\* connection is lost and whatever is resubmitted.
THEOREM LoneCallLosesNothing ==
  ASSUME \A c, d \in Call : c = d
  PROVE  Spec => []NothingLost
<1>1. LockInv /\ TypeInv => DialsAlone
  <2> SUFFICES ASSUME LockInv, TypeInv, NEW c \in lock, NEW i \in Awaited PROVE FALSE
    BY DEF DialsAlone
  <2>1. c \in Call /\ pc[c] \in {"dial", "stuck"}
    BY DEF LockInv, TypeInv, TypeOK, WsTypeOK
  <2>2. i[1] \in Call /\ pc[i[1]] \in {"acquire", "send", "polling"}
    BY DEF Awaited, Outstanding, Id
  <2> QED BY <2>1, <2>2
<1> QED BY <1>1, OnlyDialsLose, LockInvariant, TypeInvariant, PTL
=============================================================================
