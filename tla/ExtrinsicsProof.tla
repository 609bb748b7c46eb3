--------------------------- MODULE ExtrinsicsProof ---------------------------
(***************************************************************************)
(* The cache gives its nonces without gap or repetition, signatures stay   *)
(* valid, and receipts tell the truth: for any tasks, period, number of    *)
(* extrinsics, blocks and troubles.                                        *)
(***************************************************************************)
EXTENDS ExtrinsicsProperties, FiniteSetTheorems, SequenceTheorems, TLAPS

USE DEF memo

BlockId == [number : Nat, tag : Nat]
Kind == Failure \cup {"inblock", "finalized"}
Pc == Ended \cup OnConnection \cup {"lock", "signed", "unwatch", "unwatch to raise"}
Msg == [kind : Kind, block : BlockId]
CallType ==
  [pc : Pc, source : Source, wait : Wait, mortal : BOOLEAN, nonce : Nat,
   runtime : Nat, current : Nat, xt : Nat, msgs : Seq(Msg), heard : BOOLEAN,
   block : BlockId]
XtType == [nonce : Nat, runtime : Nat, block : BlockId]

\* Every variable keeps its type.
Shape ==
  /\ async \in BOOLEAN
  /\ nonces \in Nat \cup {NoNonce}
  /\ lock \in Task \cup {NoTask}
  /\ given \in Seq(Nat)
  /\ xts \in Seq(XtType)
  /\ call \in [Task -> CallType]
  /\ chain \in Seq([tag : Nat, xt : Nat])
  /\ Len(chain) <= Height + 1
  /\ final \in Nat /\ final < Len(chain)
  /\ hashes \in [0..Height -> Nat \cup {Unasked, NoHash}]
  /\ early \subseteq 0..Height
  /\ pool \subseteq Nat
  /\ spec \in Nat
  /\ made \subseteq [block : BlockId, xt : Nat]
  /\ left \in [calls : Nat, troubles : Nat]
-----------------------------------------------------------------------------
\* A message reaches a call as it is, or leaves it as it was.
LEMMA ToldType ==
  ASSUME NEW c \in CallType, NEW ids, NEW m \in Msg
  PROVE  /\ Told(c, ids, m) \in CallType
         /\ Told(c, ids, m) =
              [c EXCEPT !.msgs = Told(c, ids, m).msgs, !.heard = Told(c, ids, m).heard]
<1>1. CASE c.xt \in ids /\ c.wait # "nothing" /\ c.pc \in {"answered", "watching"}
  <2>1. Told(c, ids, m) = [c EXCEPT !.msgs = Append(@, m), !.heard = TRUE]
    BY <1>1 DEF Told
  <2>2. Append(c.msgs, m) \in Seq(Msg) BY DEF CallType
  <2> QED BY <2>1, <2>2 DEF CallType
<1>2. CASE ~(c.xt \in ids /\ c.wait # "nothing" /\ c.pc \in {"answered", "watching"})
  BY <1>2 DEF Told, CallType
<1> QED BY <1>1, <1>2

\* What the account has on the chain is a number.
LEMMA AccountType == Shape => Account \in Nat
<1> SUFFICES ASSUME Shape PROVE Account \in Nat OBVIOUS
<1> DEFINE mine == {i \in DOMAIN chain : chain[i].xt # 0}
<1>1. IsFiniteSet(1..Len(chain)) BY FS_Interval DEF Shape
<1>2. IsFiniteSet(mine) BY <1>1, FS_Subset DEF Shape
<1> QED BY <1>2, FS_CardinalityType DEF Account

\* A period divides into a number that is not larger.
LEMMA PeriodStart ==
  ASSUME NEW n \in Nat, NEW p \in Nat \ {0}
  PROVE  (n \div p) * p \in Nat /\ (n \div p) * p <= n
OBVIOUS

LEMMA FunctionIsSeq ==
  ASSUME NEW S, NEW n \in Nat, NEW f \in [1..n -> S]
  PROVE  f \in Seq(S)
OBVIOUS

LEMMA ShapeInit == Init => Shape
BY ExtrinsicsAssumption DEF Init, Shape, NoCall, NoBlock, NoNonce, CallType, Pc, Ended,
   OnConnection, Source, Wait, BlockId, Msg, XtType

\* A call that only goes somewhere else keeps its type.
LEMMA GoType ==
  ASSUME Shape, NEW t \in Task, NEW pc \in Pc, Go(t, pc)
  PROVE  call' \in [Task -> CallType]
<1>1. [call[t] EXCEPT !.pc = pc] \in CallType BY DEF Shape, CallType
<1> QED BY <1>1 DEF Shape, Go, Put

LEMMA PutType ==
  ASSUME Shape, NEW t \in Task, NEW c \in CallType, Put(t, c)
  PROVE  call' \in [Task -> CallType]
BY DEF Shape, Put

LEMMA TellType ==
  ASSUME Shape, NEW ids, NEW kind \in Kind, NEW b \in BlockId, Tell(ids, kind, b)
  PROVE  call' \in [Task -> CallType]
<1>1. Message(kind, b) \in Msg BY DEF Message, Msg
<1>2. \A t \in Task : call[t] \in CallType BY DEF Shape
<1> QED BY <1>1, <1>2, ToldType DEF Tell

LEMMA TroubleType ==
  ASSUME Shape, left.troubles > 0, left' = [left EXCEPT !.troubles = @ - 1]
  PROVE  left' \in [calls : Nat, troubles : Nat]
<1>1. left \in [calls : Nat, troubles : Nat] BY DEF Shape
<1>2. left.troubles - 1 \in Nat BY <1>1
<1> QED BY <1>1, <1>2

\* The nonce.
LEMMA ShapeNonce ==
  ASSUME Shape, NEW t \in Task,
         CacheMiss(t) \/ CacheHit(t) \/ Fetched(t) \/ Asked(t)
  PROVE  Shape'
<1> USE DEF Pc, Ended, OnConnection
<1>0. call[t] \in CallType BY DEF Shape
<1>1. CASE CacheMiss(t)
  <2>1. call' \in [Task -> CallType] BY <1>1, GoType DEF CacheMiss
  <2> QED BY <1>1, <2>1 DEF Shape, CacheMiss, node
<1>2. CASE CacheHit(t)
  <2>1. nonces + 1 \in Nat BY <1>2 DEF Shape, CacheHit, NoNonce
  <2>2. [call[t] EXCEPT !.pc = "create", !.nonce = nonces + 1] \in CallType
    BY <1>0, <2>1 DEF CallType
  <2>3. call' \in [Task -> CallType] BY <1>2, <2>2, PutType DEF CacheHit
  <2> QED BY <1>2, <2>1, <2>3 DEF Shape, CacheHit, node
<1>3. ASSUME NEW n \in Account..(Account + Calls)
      PROVE  n \in Nat /\ [call[t] EXCEPT !.pc = "create", !.nonce = n] \in CallType
  <2>1. n \in Nat BY AccountType, ExtrinsicsAssumption
  <2> QED BY <1>0, <2>1 DEF CallType
<1>4. CASE Fetched(t)
  <2>1. CASE Raises(t) /\ UNCHANGED <<nonces, given>>
    <3>1. call' \in [Task -> CallType] BY <2>1, GoType DEF Raises
    <3>2. left' \in [calls : Nat, troubles : Nat] BY <2>1, TroubleType DEF Raises
    <3>3. UNCHANGED <<async, memo, nonces, given, xts, node>> /\ lock' = NoTask
      BY <1>4, <2>1 DEF Fetched
    <3> QED BY <3>1, <3>2, <3>3 DEF Shape, node
  <2>2. ASSUME NEW n \in Account..(Account + Calls),
               nonces' = n, given' = Append(given, n), UNCHANGED left,
               Put(t, [call[t] EXCEPT !.pc = "create", !.nonce = n])
        PROVE  Shape'
    <3>1. call' \in [Task -> CallType] BY <1>3, <2>2, PutType
    <3>2. n \in Nat /\ given \in Seq(Nat) BY <1>3 DEF Shape
    <3>4. given' \in Seq(Nat) BY <2>2, <3>2
    <3>3. UNCHANGED <<async, memo, left, xts, node>> /\ lock' = NoTask
      BY <1>4, <2>2 DEF Fetched
    <3> QED BY <2>2, <3>1, <3>2, <3>4, <3>3 DEF Shape, node
  <2> QED BY <1>4, <2>1, <2>2 DEF Fetched
<1>5. CASE Asked(t)
  <2>1. call' \in [Task -> CallType] BY <1>3, <1>5, PutType DEF Asked
  <2> QED BY <1>5, <2>1 DEF Shape, Asked, node
<1> QED BY <1>1, <1>2, <1>4, <1>5

\* Runtime, account and era.
LEMMA ShapeCreate ==
  ASSUME Shape, NEW t \in Task,
         Create(t) \/ AccountNonce(t) \/ SyncAccountNonce(t) \/ Era(t)
  PROVE  Shape'
<1> USE DEF Pc, Ended, OnConnection
<1>0. call[t] \in CallType /\ spec \in Nat /\ final \in Nat BY DEF Shape
<1>1. CASE Create(t)
  <2>1. PICK pc \in {"account", "era"} :
          Put(t, [call[t] EXCEPT !.runtime = spec, !.pc = pc])
    BY <1>1 DEF Create
  <2>2. [call[t] EXCEPT !.runtime = spec, !.pc = pc] \in CallType
    BY <1>0 DEF CallType
  <2>3. call' \in [Task -> CallType] BY <2>1, <2>2, PutType
  <2> QED BY <1>1, <2>3 DEF Shape, Create, node
<1>2. CASE AccountNonce(t)
  <2>1. [call[t] EXCEPT !.nonce = Account, !.pc = "era"] \in CallType
    BY <1>0, AccountType DEF CallType
  <2>2. call' \in [Task -> CallType] BY <1>2, <2>1, PutType DEF AccountNonce
  <2> QED BY <1>2, <2>2 DEF Shape, AccountNonce, node
<1>3. CASE SyncAccountNonce(t)
  <2>1. [call[t] EXCEPT !.nonce = Account, !.runtime = spec, !.pc = "era"] \in CallType
    BY <1>0, AccountType DEF CallType
  <2>2. call' \in [Task -> CallType] BY <1>3, <2>1, PutType DEF SyncAccountNonce
  <2> QED BY <1>3, <2>2 DEF Shape, SyncAccountNonce, node
<1>4. CASE Era(t)
  <2>1. [call[t] EXCEPT !.current = final, !.pc = "payload"] \in CallType
    BY <1>0 DEF CallType
  <2>2. call' \in [Task -> CallType] BY <1>4, <2>1, PutType DEF Era
  <2> QED BY <1>4, <2>2 DEF Shape, Era, node
<1> QED BY <1>1, <1>2, <1>3, <1>4

\* A new call.
LEMMA ShapeBegin ==
  ASSUME Shape, NEW t \in Task, NEW plan \in Plans, Begin(t, plan)
  PROVE  Shape'
<1>1. left' \in [calls : Nat, troubles : Nat]
  <2>1. left \in [calls : Nat, troubles : Nat] BY DEF Shape
  <2>2. left.calls - 1 \in Nat BY <2>1 DEF Begin
  <2> QED BY <2>1, <2>2 DEF Begin
<1>2. plan \in [source : Source, wait : Wait, mortal : BOOLEAN]
  BY ExtrinsicsAssumption
<1>3. PICK pc \in {"lock", "ask", "create"} :
        Put(t, [NoCall EXCEPT !.source = plan.source, !.wait = plan.wait,
                              !.mortal = plan.mortal, !.pc = pc])
  BY <1>2 DEF Begin, Source
<1>4. NoCall \in CallType
  BY DEF NoCall, NoBlock, CallType, Pc, Ended, Source, Wait, BlockId
<1>5. [NoCall EXCEPT !.source = plan.source, !.wait = plan.wait,
                     !.mortal = plan.mortal, !.pc = pc] \in CallType
  BY <1>2, <1>4 DEF CallType, Pc, OnConnection
<1>6. call' \in [Task -> CallType] BY <1>3, <1>5, PutType
<1> QED BY <1>1, <1>6 DEF Shape, Begin, node

\* What a number is looked up for is a tag, or that there is none.
LEMMA HashType ==
  ASSUME Shape, NEW n \in 0..Height
  PROVE  /\ HashOf(n) \in Nat \cup {NoHash}
         /\ n <= Best => HashOf(n) = chain[n + 1].tag /\ HashOf(n) \in Nat
         /\ HashOf(n) # Unasked
<1>1. chain \in Seq([tag : Nat, xt : Nat]) /\ Len(chain) \in Nat
  BY LenProperties DEF Shape
<1>2. CASE n <= Best
  <2>1. n + 1 \in 1..Len(chain) BY <1>1, <1>2 DEF Best
  <2>2. chain[n + 1] \in [tag : Nat, xt : Nat] BY <1>1, <2>1, ElementOfSeq
  <2> QED BY <1>2, <2>2 DEF HashOf, Unasked
<1>3. CASE ~(n <= Best) BY <1>3 DEF HashOf, NoHash, Unasked
<1> QED BY <1>2, <1>3

\* Rows that have one more number looked up.
LEMMA RememberType ==
  ASSUME Shape, NEW n \in 0..Height,
         NEW rows \in [0..Height -> Nat \cup {Unasked, NoHash}]
  PROVE  /\ Remember(rows, n) \in [0..Height -> Nat \cup {Unasked, NoHash}]
         /\ \A m \in 0..Height :
              \/ Remember(rows, n)[m] = rows[m]
              \/ m = n /\ Remember(rows, n)[m] = HashOf(n)
<1>1. HashOf(n) \in Nat \cup {NoHash} BY HashType
<1>2. CASE Remember(rows, n) = rows BY <1>2
<1>3. CASE Remember(rows, n) = [rows EXCEPT ![n] = HashOf(n)] BY <1>1, <1>3
<1> QED BY <1>2, <1>3 DEF Remember

\* The block that an era begins in is final.
LEMMA BirthType ==
  ASSUME Shape, NEW c \in CallType, c.current <= final
  PROVE  Birth(c) \in 0..Height /\ Birth(c) <= final /\ Birth(c) <= Best
<1>0. Height \in Nat BY ExtrinsicsAssumption
<1>1. Period \in Nat \ {0} BY ExtrinsicsAssumption
<1>2. c.current \in Nat BY DEF CallType
<1>3. final \in Nat /\ Len(chain) \in Nat /\ final < Len(chain) /\ Len(chain) <= Height + 1
  BY LenProperties DEF Shape
<1>4. Birth(c) = 0 \/ Birth(c) = (c.current \div Period) * Period BY DEF Birth
<1>5. PICK start : start = (c.current \div Period) * Period OBVIOUS
<1>6. start \in Nat /\ start <= c.current BY <1>1, <1>2, <1>5, PeriodStart
<1>7. Birth(c) \in Nat /\ Birth(c) <= final BY <1>2, <1>3, <1>4, <1>5, <1>6
<1> QED BY <1>0, <1>3, <1>7 DEF Best

\* The answer for the block that an era begins in, and the rows afterwards.
LEMMA SignType ==
  ASSUME Shape, NEW t \in Task, call[t].current <= final, Sign(t)
  PROVE  /\ hashes' \in [0..Height -> Nat \cup {Unasked, NoHash}]
         /\ GetBlockHash(Birth(call[t])) \in Nat \cup {NoHash}
         /\ \A m \in 0..Height :
              hashes'[m] = hashes[m] \/ (m <= final /\ hashes'[m] = HashOf(m))
<1>1. call[t] \in CallType /\ final \in Nat /\ hashes \in [0..Height -> Nat \cup {Unasked, NoHash}]
  BY DEF Shape
<1>2. PICK n \in 0..Height : n = Birth(call[t]) /\ n <= final BY <1>1, BirthType
<1>3. 0 \in 0..Height /\ 0 <= final BY <1>1, ExtrinsicsAssumption
<1>4. PICK rows : rows = Remember(hashes, 0) OBVIOUS
<1>5. /\ rows \in [0..Height -> Nat \cup {Unasked, NoHash}]
      /\ \A m \in 0..Height : rows[m] = hashes[m] \/ (m = 0 /\ rows[m] = HashOf(0))
  BY <1>1, <1>3, <1>4, RememberType
<1>6. PICK all : all = Remember(rows, n) OBVIOUS
<1>7. hashes' = all BY <1>2, <1>4, <1>6 DEF Sign
<1>8. all \in [0..Height -> Nat \cup {Unasked, NoHash}]
  BY <1>5, <1>6, RememberType
<1>9. \A m \in 0..Height : all[m] = rows[m] \/ (m = n /\ all[m] = HashOf(n))
  BY <1>5, <1>6, RememberType
<1>10. /\ hashes' \in [0..Height -> Nat \cup {Unasked, NoHash}]
      /\ \A m \in 0..Height : hashes'[m] = rows[m] \/ (m = n /\ hashes'[m] = HashOf(n))
  BY <1>7, <1>8, <1>9
<1>11. GetBlockHash(n) \in Nat \cup {NoHash} BY <1>1, HashType DEF GetBlockHash
<1> QED BY <1>2, <1>3, <1>5, <1>10, <1>11

\* The signature.
LEMMA ShapePayload ==
  ASSUME Shape, NEW t \in Task, call[t].current <= final, Payload(t) \/ SyncPayload(t)
  PROVE  Shape'
<1>0. call[t] \in CallType /\ xts \in Seq(XtType) BY DEF Shape
<1>1. Sign(t) /\ UNCHANGED <<async, early, nonces, lock, given, node, left>>
  BY DEF Payload, SyncPayload
<1>2. /\ hashes' \in [0..Height -> Nat \cup {Unasked, NoHash}]
      /\ GetBlockHash(Birth(call[t])) \in Nat \cup {NoHash}
  BY <1>1, SignType
<1>3. CASE GetBlockHash(Birth(call[t])) = NoHash
  <2>1. Go(t, "raised") /\ UNCHANGED xts BY <1>1, <1>3 DEF Sign
  <2>2. call' \in [Task -> CallType] BY <2>1, GoType DEF Pc, Ended
  <2> QED BY <1>1, <1>2, <2>1, <2>2 DEF Shape, node
<1>4. CASE GetBlockHash(Birth(call[t])) # NoHash
  <2> DEFINE xt == [nonce |-> call[t].nonce, runtime |-> call[t].runtime,
                    block |-> [number |-> Birth(call[t]),
                               tag |-> GetBlockHash(Birth(call[t]))]]
  <2>1. xt \in XtType BY <1>0, <1>2, <1>4, BirthType DEF XtType, CallType, BlockId
  <2>2. /\ xts' = Append(xts, xt)
        /\ Put(t, [call[t] EXCEPT !.pc = "signed", !.xt = Len(xts) + 1])
    BY <1>1, <1>4 DEF Sign
  <2>3. xts' \in Seq(XtType) BY <1>0, <2>1, <2>2
  <2>4. [call[t] EXCEPT !.pc = "signed", !.xt = Len(xts) + 1] \in CallType
    <3>1. Len(xts) + 1 \in Nat BY <1>0
    <3> QED BY <1>0, <3>1 DEF CallType, Pc
  <2>5. call' \in [Task -> CallType] BY <2>2, <2>4, PutType
  <2> QED BY <1>1, <1>2, <2>3, <2>5 DEF Shape, node
<1> QED BY <1>3, <1>4

\* A number is looked up by somebody else.
LEMMA ShapeLookUp ==
  ASSUME Shape, NEW n \in LookedUp, LookUp(n)
  PROVE  Shape'
<1>1. n \in 0..Height BY ExtrinsicsAssumption
<1>2. hashes' \in [0..Height -> Nat \cup {Unasked, NoHash}]
  BY <1>1, RememberType DEF LookUp, Shape
<1>3. early' \subseteq 0..Height BY <1>1 DEF LookUp, Shape
<1> QED BY <1>2, <1>3 DEF LookUp, Shape, node

LEMMA ShapeAnswer ==
  ASSUME Shape, NEW t \in Task, Submit(t) \/ Answer(t) \/ Unwatched(t)
  PROVE  Shape'
<1> USE DEF Pc, Ended, OnConnection
<1>1. PICK pc \in Pc : Go(t, pc) BY DEF Submit, Answer, Unwatched
<1>2. call' \in [Task -> CallType] BY <1>1, GoType
<1>3. UNCHANGED <<async, memo, nonces, lock, given, xts, node, left>>
  BY DEF Submit, Answer, Unwatched
<1> QED BY <1>2, <1>3 DEF Shape, node

\* A message is taken from the queue of a call.
LEMMA ShapeHear ==
  ASSUME Shape, NEW t \in Task, Hear(t) \/ SyncHear(t)
  PROVE  Shape'
<1>0. call[t] \in CallType BY DEF Shape
<1>1. call[t].msgs # <<>> /\ call[t].msgs \in Seq(Msg) BY <1>0 DEF Hear, SyncHear, CallType
<1>2. Head(call[t].msgs) \in Msg /\ Tail(call[t].msgs) \in Seq(Msg) BY <1>1
<1>3. PICK pc \in Pc :
        Put(t, [call[t] EXCEPT !.msgs = Tail(@), !.block = Head(call[t].msgs).block,
                               !.pc = pc])
  <2>1. \A m, w : Handle(m, w) \in {"raised", "receipt", "watching"} BY DEF Handle
  <2>2. CASE Hear(t) BY <2>1, <2>2 DEF Hear, Pc, Ended, OnConnection
  <2>3. CASE SyncHear(t) BY <2>1, <2>3 DEF SyncHear, Pc, Ended, OnConnection
  <2> QED BY <2>2, <2>3
<1>4. [call[t] EXCEPT !.msgs = Tail(@), !.block = Head(call[t].msgs).block,
                      !.pc = pc] \in CallType
  BY <1>0, <1>2 DEF CallType, Msg
<1>5. call' \in [Task -> CallType] BY <1>3, <1>4, PutType
<1>6. UNCHANGED <<async, memo, nonces, lock, given, xts, node, left>> BY DEF Hear, SyncHear
<1> QED BY <1>5, <1>6 DEF Shape, node

LEMMA NoBlockType == NoBlock \in BlockId
BY DEF NoBlock, BlockId

\* The node takes an extrinsic, or refuses it.
LEMMA ShapeReceived ==
  ASSUME Shape, NEW t \in Task, Received(t)
  PROVE  Shape'
<1> USE DEF Pc, Ended, OnConnection
<1>0. call[t] \in CallType /\ call[t].xt \in Nat BY DEF Shape, CallType
<1>1. UNCHANGED <<async, memo, nonces, lock, given, xts, chain, final, spec, made>>
  BY DEF Received
<1> DEFINE x == call[t].xt
           same == {y \in pool : xts[y].nonce = xts[x].nonce}
           answered == [call[t] EXCEPT !.pc = "answered"]
<1>2. CASE UNCHANGED <<pool, left>> /\ Go(t, "refused")
  <2>1. call' \in [Task -> CallType] BY <1>2, GoType
  <2> QED BY <1>1, <1>2, <2>1 DEF Shape
<1>3. CASE UNCHANGED left /\ pool' = pool \cup {x} /\ Go(t, "answered")
  <2>1. call' \in [Task -> CallType] BY <1>3, GoType
  <2>2. pool' \subseteq Nat BY <1>0, <1>3 DEF Shape
  <2> QED BY <1>1, <1>3, <2>1, <2>2 DEF Shape
<1>4. CASE /\ left.troubles > 0 /\ left' = [left EXCEPT !.troubles = @ - 1]
           /\ pool' = (pool \ same) \cup {x}
           /\ call' = [u \in Task |-> IF u = t THEN answered
                         ELSE Told(call[u], same, Message("usurped", NoBlock))]
  <2>1. answered \in CallType BY <1>0 DEF CallType
  <2>2. Message("usurped", NoBlock) \in Msg
    BY NoBlockType DEF Message, Msg, Kind, Failure
  <2>3. \A u \in Task : Told(call[u], same, Message("usurped", NoBlock)) \in CallType
    BY <2>2, ToldType DEF Shape
  <2>4. call' \in [Task -> CallType] BY <1>4, <2>1, <2>3
  <2>5. pool' \subseteq Nat BY <1>0, <1>4 DEF Shape
  <2>6. left' \in [calls : Nat, troubles : Nat] BY <1>4, TroubleType
  <2> QED BY <1>1, <2>4, <2>5, <2>6 DEF Shape
<1> QED BY <1>2, <1>3, <1>4 DEF Received

\* A lost connection.
LEMMA ShapeLose ==
  ASSUME Shape, Lose \/ (\E t \in Task : SyncLose(t))
  PROVE  Shape'
<1> USE DEF Pc, Ended, OnConnection
<1>1. CASE Lose
  <2>1. left' \in [calls : Nat, troubles : Nat] BY <1>1, TroubleType DEF Lose
  <2>2. \A t \in Task : call[t] \in CallType BY DEF Shape
  <2>3. PICK go \in [Task -> Pc] :
          call' = [t \in Task |->
             [call[t] EXCEPT !.msgs = <<>>, !.heard = FALSE, !.pc = go[t]]]
    <3> DEFINE open == \E t \in Task : call[t].pc \in {"answered", "watching"} /\ call[t].heard
               to(pc) == CASE open /\ pc \in OnConnection -> "raised"
                           [] ~open /\ pc = "watching" -> "forgotten"
                           [] ~open /\ pc \in {"refused", "answered"} -> "sent"
                           [] OTHER -> pc
    <3>1. \A pc \in Pc : to(pc) \in Pc OBVIOUS
    <3>2. call' = [t \in Task |->
             [call[t] EXCEPT !.msgs = <<>>, !.heard = FALSE, !.pc = to(@)]]
      BY <1>1 DEF Lose
    <3>3. \A t \in Task : call[t].pc \in Pc BY <2>2 DEF CallType
    <3>4. [t \in Task |-> to(call[t].pc)] \in [Task -> Pc] BY <3>1, <3>3
    <3>5. call' = [t \in Task |->
             [call[t] EXCEPT !.msgs = <<>>, !.heard = FALSE,
                             !.pc = [u \in Task |-> to(call[u].pc)][t]]]
      BY <3>2
    <3> QED BY <3>4, <3>5
  <2>4. <<>> \in Seq(Msg) BY EmptySeq
  <2>5. \A t \in Task :
          [call[t] EXCEPT !.msgs = <<>>, !.heard = FALSE, !.pc = go[t]] \in CallType
    BY <2>2, <2>4 DEF CallType
  <2>6. call' \in [Task -> CallType] BY <2>3, <2>5
  <2>7. UNCHANGED <<async, memo, nonces, given, xts, node>> /\ lock' \in {lock, NoTask}
    BY <1>1 DEF Lose
  <2> QED BY <2>1, <2>6, <2>7 DEF Shape, node
<1>2. ASSUME NEW t \in Task, SyncLose(t) PROVE Shape'
  <2>1. left' \in [calls : Nat, troubles : Nat] BY <1>2, TroubleType DEF SyncLose
  <2>2. call[t] \in CallType BY DEF Shape
  <2>3. [call[t] EXCEPT !.pc = "sent", !.msgs = <<>>, !.heard = FALSE] \in CallType
    BY <2>2, EmptySeq DEF CallType
  <2>4. call' \in [Task -> CallType] BY <1>2, <2>3, PutType DEF SyncLose
  <2> QED BY <1>2, <2>1, <2>4 DEF Shape, SyncLose, node
<1> QED BY <1>1, <1>2

\* The node makes a block, finalises one, changes its best chain, upgrades its
\* runtime, drops an extrinsic.
LEMMA ShapeNode ==
  ASSUME Shape,
         \/ Author \/ Finalise \/ Upgrade
         \/ \E cut \in final..(Best - 1) : Fork(cut)
         \/ \E x \in pool : Discard(x)
  PROVE  Shape'
<1> DEFINE Cell == [tag : Nat, xt : Nat]
<1>0. /\ chain \in Seq(Cell) /\ Len(chain) \in Nat /\ final \in Nat
      /\ final < Len(chain) /\ Len(chain) <= Height + 1
      /\ \A i \in 1..Len(chain) : chain[i] \in Cell
  BY ElementOfSeq, LenProperties DEF Shape
<1>k. {"usurped", "retracted", "invalid", "dropped", "inblock", "finalized"} \subseteq Kind
  BY DEF Kind, Failure
<1>1. CASE Author
  <2>1. PICK x \in pool :
          /\ chain' = Append(chain, [tag |-> Last(chain).tag, xt |-> x])
          /\ pool' = pool \ {x}
          /\ LET block == [number |-> Len(chain), tag |-> chain'[Len(chain')].tag]
             IN /\ made' = made \cup {[block |-> block, xt |-> x]}
                /\ Tell({x}, "inblock", block)
    BY <1>1 DEF Author
  <2>2. chain[Len(chain)] \in Cell BY <1>0
  <2>3. Last(chain).tag \in Nat BY <2>2 DEF Last
  <2>4. x \in Nat BY DEF Shape
  <2>5. [tag |-> Last(chain).tag, xt |-> x] \in Cell BY <2>3, <2>4
  <2>6. chain' \in Seq(Cell) /\ Len(chain') = Len(chain) + 1
        /\ chain'[Len(chain) + 1] = [tag |-> Last(chain).tag, xt |-> x]
    BY <1>0, <2>1, <2>5, AppendProperties
  <2>7. [number |-> Len(chain), tag |-> chain'[Len(chain')].tag] \in BlockId
    BY <1>0, <2>3, <2>6 DEF BlockId
  <2>8. call' \in [Task -> CallType] BY <1>k, <2>1, <2>7, TellType
  <2>9. made' \subseteq [block : BlockId, xt : Nat]
    BY <2>1, <2>4, <2>7 DEF Shape
  <2>10. pool' \subseteq Nat /\ final < Len(chain') BY <1>0, <2>1, <2>6 DEF Shape
  <2>12. Len(chain') <= Height + 1
    BY <1>0, <1>1, <2>6, ExtrinsicsAssumption DEF Author, Best
  <2>11. UNCHANGED <<async, memo, nonces, lock, given, xts, final, spec, left>>
    BY <1>1 DEF Author
  <2> QED BY <2>6, <2>8, <2>9, <2>10, <2>11, <2>12 DEF Shape
<1>2. CASE Finalise
  <2>1. final + 2 \in 1..Len(chain) /\ final' = final + 1 /\ final' < Len(chain)
    BY <1>0, <1>2 DEF Finalise, Best
  <2>2. chain[final + 2] \in Cell BY <1>0, <2>1
  <2>3. Block(final + 1) \in BlockId
    <3>1. final + 1 \in Nat /\ (final + 1) + 1 = final + 2 BY <1>0
    <3> QED BY <2>2, <3>1 DEF Block, BlockId
  <2>4. call' \in [Task -> CallType] BY <1>2, <1>k, <2>3, TellType DEF Finalise
  <2>5. UNCHANGED <<async, memo, nonces, lock, given, xts, chain, pool, spec, made, left>>
    BY <1>2 DEF Finalise
  <2>6. final' \in Nat BY <1>0, <2>1
  <2> QED BY <2>1, <2>4, <2>5, <2>6 DEF Shape
<1>3. ASSUME NEW cut \in final..(Best - 1), Fork(cut) PROVE Shape'
  <2> DEFINE lost == {chain[i].xt : i \in (cut + 2)..Len(chain)} \ {0}
  <2>1. call' \in [Task -> CallType] BY <1>3, <1>k, NoBlockType, TellType DEF Fork
  <2>2. left' \in [calls : Nat, troubles : Nat] BY <1>3, TroubleType DEF Fork
  <2>3. \A i \in (cut + 2)..Len(chain) : i \in 1..Len(chain) BY <1>0
  <2>4. lost \subseteq Nat BY <1>0, <2>3
  <2>5. pool' \subseteq Nat BY <1>3, <2>4 DEF Fork, Shape
  <2>6. \A i \in 1..Len(chain) : [tag |-> chain[i].tag + 1, xt |-> 0] \in Cell BY <1>0
  <2>7. DOMAIN chain = 1..Len(chain) BY <1>0
  <2>8. chain' \in [1..Len(chain) -> Cell] BY <1>0, <1>3, <2>6, <2>7 DEF Fork
  <2>9. chain' \in Seq(Cell) /\ Len(chain') = Len(chain)
    <3>1. chain' \in Seq(Cell) BY <1>0, <2>8, FunctionIsSeq
    <3>2. DOMAIN chain' = 1..Len(chain) /\ DOMAIN chain' = 1..Len(chain')
          /\ Len(chain') \in Nat
      BY <2>8, <3>1, LenProperties
    <3> QED BY <1>0, <3>1, <3>2
  <2>10. UNCHANGED <<async, memo, nonces, lock, given, xts, final, spec, made>>
    BY <1>3 DEF Fork
  <2> QED BY <1>0, <2>1, <2>2, <2>5, <2>9, <2>10 DEF Shape
<1>4. CASE Upgrade
  <2>1. call' \in [Task -> CallType] BY <1>4, <1>k, NoBlockType, TellType DEF Upgrade
  <2>2. left' \in [calls : Nat, troubles : Nat] BY <1>4, TroubleType DEF Upgrade
  <2>3. spec' \in Nat /\ pool' \subseteq Nat BY <1>4 DEF Upgrade, Shape
  <2>4. UNCHANGED <<async, memo, nonces, lock, given, xts, chain, final, made>>
    BY <1>4 DEF Upgrade
  <2> QED BY <2>1, <2>2, <2>3, <2>4 DEF Shape
<1>5. ASSUME NEW x \in pool, Discard(x) PROVE Shape'
  <2>1. call' \in [Task -> CallType] BY <1>5, <1>k, NoBlockType, TellType DEF Discard
  <2>2. left' \in [calls : Nat, troubles : Nat] BY <1>5, TroubleType DEF Discard
  <2>3. pool' \subseteq Nat BY <1>5 DEF Discard, Shape
  <2>4. UNCHANGED <<async, memo, nonces, lock, given, xts, chain, final, spec, made>>
    BY <1>5 DEF Discard
  <2> QED BY <2>1, <2>2, <2>3, <2>4 DEF Shape
<1> QED BY <1>1, <1>2, <1>3, <1>4, <1>5
-----------------------------------------------------------------------------
(***************************************************************************)
(* The nonces of the cache: the one task that asks the node holds the lock *)
(* and finds nothing cached, and what is cached was given out last.        *)
(***************************************************************************)
NonceInv ==
  /\ \A t \in Task : At(t, "fetch") => lock = t /\ nonces = NoNonce
  /\ (nonces = NoNonce) <=> (given = <<>>)
  /\ given # <<>> => nonces = given[Len(given)]
  /\ CachedNoncesFollow

NoNewFetch == \A u \in Task : call'[u].pc = "fetch" => call[u].pc = "fetch"

LEMMA NonceInit == Init => NonceInv
BY DEF Init, NonceInv, NoCall, At, CachedNoncesFollow

\* One more nonce, that follows the last.
LEMMA NonceFollows ==
  ASSUME Shape, NonceInv, NEW n \in Nat, given' = Append(given, n), nonces' = n,
         given = <<>> \/ n = nonces + 1,
         \A t \in Task : call'[t].pc # "fetch"
  PROVE  NonceInv'
<1>1. given \in Seq(Nat) BY DEF Shape
<1>2. /\ given' \in Seq(Nat) /\ given' # <<>> /\ Len(given') = Len(given) + 1
      /\ Len(given) \in Nat
      /\ \A i \in 1..Len(given) : given'[i] = given[i]
      /\ given'[Len(given) + 1] = n
  BY <1>1, AppendProperties, LenProperties
<1>3. DOMAIN given = 1..Len(given) /\ DOMAIN given' = 1..(Len(given) + 1)
  BY <1>1, <1>2, LenProperties
<1>4. \A i \in 1..Len(given) : given[i] \in Nat BY <1>1, ElementOfSeq
<1>5. ASSUME NEW i \in DOMAIN given', NEW j \in DOMAIN given', i < j
      PROVE  given'[j] = given'[i] + (j - i)
  <2>1. i \in 1..Len(given) BY <1>2, <1>3, <1>5
  <2>2. CASE j \in 1..Len(given)
    <3>1. given[j] = given[i] + (j - i)
      BY <1>3, <1>5, <2>1, <2>2 DEF NonceInv, CachedNoncesFollow
    <3> QED BY <1>2, <2>1, <2>2, <3>1
  <2>3. CASE j = Len(given) + 1
    <3>1. given # <<>> BY <1>1, <2>1, EmptySeq
    <3>2. n = given[Len(given)] + 1 BY <3>1 DEF NonceInv
    <3>3. given[Len(given)] = given[i] + (Len(given) - i)
      <4>1. CASE i = Len(given) BY <1>2, <1>4, <2>1, <4>1
      <4>2. CASE i < Len(given)
        <5>1. Len(given) \in DOMAIN given BY <1>2, <1>3, <2>1
        <5> QED BY <1>3, <2>1, <4>2, <5>1 DEF NonceInv, CachedNoncesFollow
      <4> QED BY <1>2, <2>1, <4>1, <4>2
    <3>4. given'[j] = n /\ given'[i] = given[i] BY <1>2, <2>1, <2>3
    <3>5. given[i] \in Nat /\ i \in Nat /\ Len(given) \in Nat BY <1>2, <1>4, <2>1
    <3>6. n = given[i] + (Len(given) - i) + 1 BY <3>2, <3>3
    <3>7. n = given[i] + (j - i) BY <2>3, <3>5, <3>6
    <3> QED BY <3>4, <3>7
  <2> QED BY <1>2, <1>3, <2>2, <2>3
<1>6. CachedNoncesFollow' BY <1>5 DEF CachedNoncesFollow
<1>7. nonces' # NoNonce BY DEF NoNonce
<1> QED BY <1>2, <1>6, <1>7 DEF NonceInv, At

\* A step that touches neither the cache nor the lock, or gives the lock back
\* and leaves nobody who asks.
LEMMA NonceQuiet ==
  ASSUME NonceInv, NoNewFetch, UNCHANGED <<nonces, given>>,
         lock' = lock \/ (\A t \in Task : call'[t].pc # "fetch")
  PROVE  NonceInv'
BY DEF NonceInv, NoNewFetch, At, CachedNoncesFollow

LEMMA NonceCached ==
  ASSUME Shape, NonceInv, NEW t \in Task, CacheMiss(t) \/ CacheHit(t) \/ Fetched(t)
  PROVE  NonceInv'
<1>0. call[t] \in CallType /\ call \in [Task -> CallType] BY DEF Shape
<1>1. CASE CacheMiss(t)
  <2>1. \A u \in Task : call[u].pc # "fetch"
    BY <1>1, ExtrinsicsAssumption DEF CacheMiss, NonceInv, At
  <2>2. \A u \in Task : call'[u].pc = "fetch" => u = t
    BY <1>0, <1>1, <2>1 DEF CacheMiss, Go, Put
  <2>3. lock' = t /\ nonces = NoNonce /\ UNCHANGED <<nonces, given>> BY <1>1 DEF CacheMiss
  <2> QED BY <2>2, <2>3 DEF NonceInv, At, CachedNoncesFollow
<1>2. CASE CacheHit(t)
  <2>1. \A u \in Task : call[u].pc # "fetch"
    BY <1>2 DEF CacheHit, NonceInv, At
  <2>2. \A u \in Task : call'[u].pc # "fetch"
    BY <1>0, <1>2, <2>1 DEF CacheHit, Put, CallType
  <2>3. nonces + 1 \in Nat BY <1>2 DEF Shape, CacheHit, NoNonce
  <2> QED BY <1>2, <2>2, <2>3, NonceFollows DEF CacheHit
<1>3. CASE Fetched(t)
  <2>1. \A u \in Task : call[u].pc = "fetch" => u = t
    BY <1>3, ExtrinsicsAssumption DEF Fetched, NonceInv, At
  <2>2. nonces = NoNonce /\ given = <<>> BY <1>3 DEF Fetched, NonceInv, At
  <2>3. CASE Raises(t) /\ UNCHANGED <<nonces, given>>
    <3>1. \A u \in Task : call'[u].pc # "fetch"
      BY <1>0, <2>1, <2>3 DEF Raises, Go, Put, CallType
    <3> QED BY <2>3, <3>1, NonceQuiet DEF NoNewFetch
  <2>4. ASSUME NEW n \in Account..(Account + Calls),
               nonces' = n, given' = Append(given, n),
               Put(t, [call[t] EXCEPT !.pc = "create", !.nonce = n])
        PROVE  NonceInv'
    <3>1. \A u \in Task : call'[u].pc # "fetch"
      BY <1>0, <2>1, <2>4 DEF Put, CallType
    <3>2. n \in Nat BY AccountType, ExtrinsicsAssumption
    <3> QED BY <2>2, <2>4, <3>1, <3>2, NonceFollows
  <2> QED BY <1>3, <2>3, <2>4 DEF Fetched
<1> QED BY <1>1, <1>2, <1>3

\* The steps of a task that are none of the cache's.
LEMMA NonceTask ==
  ASSUME Shape, NonceInv, NEW t \in Task,
         \/ Asked(t) \/ Create(t) \/ AccountNonce(t) \/ SyncAccountNonce(t) \/ Era(t)
         \/ Payload(t) \/ SyncPayload(t) \/ Submit(t) \/ Answer(t)
         \/ Hear(t) \/ SyncHear(t) \/ Unwatched(t) \/ SyncLose(t)
         \/ \E plan \in Plans : Begin(t, plan)
  PROVE  NonceInv'
<1>0. call[t] \in CallType BY DEF Shape
<1>1. call'[t].pc # "fetch" /\ \A u \in Task \ {t} : call'[u] = call[u]
  <2> USE DEF Put, Go
  <2>0. call \in [Task -> CallType] BY DEF Shape
  <2>1. CASE Asked(t) BY <1>0, <2>0, <2>1 DEF Asked, CallType
  <2>2. CASE \/ Create(t) \/ AccountNonce(t) \/ SyncAccountNonce(t) \/ Era(t)
    BY <1>0, <2>0, <2>2 DEF Create, AccountNonce, SyncAccountNonce, Era, CallType
  <2>3. CASE Payload(t) \/ SyncPayload(t)
    BY <1>0, <2>0, <2>3 DEF Payload, SyncPayload, Sign, CallType
  <2>4. CASE Submit(t) \/ Answer(t) \/ Unwatched(t) \/ SyncLose(t)
    BY <1>0, <2>0, <2>4 DEF Submit, Answer, Unwatched, SyncLose, CallType
  <2>5. CASE Hear(t) \/ SyncHear(t)
    BY <1>0, <2>0, <2>5 DEF Hear, SyncHear, Handle, CallType
  <2>6. ASSUME NEW plan \in Plans, Begin(t, plan)
        PROVE  call'[t].pc # "fetch" /\ \A u \in Task \ {t} : call'[u] = call[u]
    <3>1. plan \in [source : Source, wait : Wait, mortal : BOOLEAN]
      BY ExtrinsicsAssumption
    <3> QED BY <2>0, <2>6, <3>1 DEF Begin, Source, NoCall
  <2> QED BY <2>1, <2>2, <2>3, <2>4, <2>5, <2>6
<1>2. NoNewFetch BY <1>1 DEF NoNewFetch
<1>3. UNCHANGED <<nonces, given, lock>>
  BY DEF Asked, Create, AccountNonce, SyncAccountNonce, Era, Payload, SyncPayload,
         Submit, Answer, Unwatched, SyncLose, Hear, SyncHear, Begin
<1> QED BY <1>2, <1>3, NonceQuiet

LEMMA NonceReceived ==
  ASSUME Shape, NonceInv, NEW t \in Task, Received(t)
  PROVE  NonceInv'
<1>1. \A u \in Task : \A ids, m : Told(call[u], ids, m).pc = call[u].pc
  BY DEF Told, Shape, CallType
<1>2. call[t] \in CallType /\ call \in [Task -> CallType] BY DEF Shape
<1>3. NoNewFetch
  <2>1. CASE Go(t, "refused") \/ Go(t, "answered")
    BY <1>2, <2>1 DEF Go, Put, NoNewFetch, CallType
  <2>2. ASSUME NEW same,
               call' = [u \in Task |->
                 IF u = t THEN [call[t] EXCEPT !.pc = "answered"]
                 ELSE Told(call[u], same, Message("usurped", NoBlock))]
        PROVE  NoNewFetch
    BY <1>1, <1>2, <2>2 DEF NoNewFetch, CallType
  <2> QED BY <2>1, <2>2 DEF Received
<1>4. UNCHANGED <<nonces, given, lock>> BY DEF Received
<1> QED BY <1>3, <1>4, NonceQuiet

\* With the connection, the task that asks fails and the lock comes free.
LEMMA NonceLose ==
  ASSUME Shape, NonceInv, Lose
  PROVE  NonceInv'
<1>0. \A t \in Task : call[t] \in CallType BY DEF Shape
<1> DEFINE open == \E t \in Task : call[t].pc \in {"answered", "watching"} /\ call[t].heard
<1>1. UNCHANGED <<nonces, given>> /\ (lock' = IF open THEN NoTask ELSE lock)
  BY DEF Lose
<1>2. \A t \in Task : call'[t].pc =
        CASE open /\ call[t].pc \in OnConnection -> "raised"
          [] ~open /\ call[t].pc = "watching" -> "forgotten"
          [] ~open /\ call[t].pc \in {"refused", "answered"} -> "sent"
          [] OTHER -> call[t].pc
  BY <1>0 DEF Lose, CallType
<1>3. NoNewFetch BY <1>2 DEF NoNewFetch
<1>4. CASE open
  <2>1. \A t \in Task : call'[t].pc # "fetch" BY <1>2, <1>4 DEF OnConnection
  <2> QED BY <1>1, <1>3, <2>1, NonceQuiet
<1>5. CASE ~open BY <1>1, <1>3, <1>5, NonceQuiet
<1> QED BY <1>4, <1>5

LEMMA NonceNode ==
  ASSUME Shape, NonceInv,
         \/ Author \/ Finalise \/ Upgrade
         \/ \E cut \in final..(Best - 1) : Fork(cut)
         \/ \E x \in pool : Discard(x)
  PROVE  NonceInv'
<1>1. PICK ids, kind, b : Tell(ids, kind, b)
  BY DEF Author, Finalise, Upgrade, Fork, Discard
<1>2. \A u \in Task : Told(call[u], ids, Message(kind, b)).pc = call[u].pc
  BY DEF Told, Shape, CallType
<1>3. NoNewFetch BY <1>1, <1>2 DEF Tell, NoNewFetch
<1>4. UNCHANGED <<nonces, given, lock>> BY DEF Author, Finalise, Upgrade, Fork, Discard
<1> QED BY <1>3, <1>4, NonceQuiet
-----------------------------------------------------------------------------
(***************************************************************************)
(* Signatures and receipts: what is final stays, so the block of a         *)
(* signature stays on the chain, and what a message said of a block is     *)
(* still true when the call reads it and when it ends.                     *)
(***************************************************************************)

\* What a message says of the extrinsic x.
Good(m, x) ==
  /\ m.kind \in {"inblock", "finalized"} => [block |-> m.block, xt |-> x] \in made
  /\ m.kind = "finalized" => /\ m.block.number <= final
                             /\ chain[m.block.number + 1].xt = x

\* What a call with a receipt has been told.
Concluded(c) ==
  /\ [block |-> c.block, xt |-> c.xt] \in made
  /\ c.wait = "finality" => /\ c.block.number <= final
                            /\ chain[c.block.number + 1].xt = c.xt

Listens == {"answered", "watching", "receipt", "raised", "unwatch", "unwatch to raise"}

CallGood(c) ==
  /\ c.current <= final
  /\ c.pc \notin Listens => c.msgs = <<>>
  /\ \A i \in DOMAIN c.msgs : Good(c.msgs[i], c.xt)
  /\ c.pc \in {"receipt", "unwatch"} /\ c.wait # "nothing" => Concluded(c)

ChainGood ==
  \A i \in 1..Len(chain) :
    chain[i].xt # 0 => [block |-> [number |-> i - 1, tag |-> chain[i].tag],
                        xt |-> chain[i].xt] \in made

\* A block that is on the chain for good.
Stays(number, tag) == number <= final /\ tag = chain[number + 1].tag

SignedGood ==
  \A x \in 1..Len(xts) :
    xts[x].block.number \in early \/ Stays(xts[x].block.number, xts[x].block.tag)

HashGood ==
  \A n \in 0..Height : hashes[n] \in Nat => n \in early \/ Stays(n, hashes[n])

Truth == /\ ChainGood /\ SignedGood /\ HashGood
         /\ \A t \in Task : CallGood(call[t])

\* No step takes back a final block, or what has been a block.
Grows ==
  /\ made \subseteq made' /\ final <= final' /\ Len(chain) <= Len(chain')
  /\ \A i \in 1..(final + 1) : chain'[i] = chain[i]

LEMMA GoodKeeps ==
  ASSUME Shape, Shape', Grows, NEW m \in Msg, NEW x, Good(m, x)
  PROVE  Good(m, x)'
<1>1. m.block.number \in Nat BY DEF Msg, BlockId
<1>2. final \in Nat /\ final' \in Nat /\ final <= final' BY DEF Shape, Grows
<1>3. ASSUME m.block.number <= final
      PROVE  /\ m.block.number <= final'
             /\ chain'[m.block.number + 1] = chain[m.block.number + 1]
  <2>1. m.block.number + 1 \in 1..(final + 1) BY <1>1, <1>2, <1>3
  <2> QED BY <1>1, <1>2, <1>3, <2>1 DEF Grows
<1> QED BY <1>3 DEF Good, Grows

LEMMA CallKeeps ==
  ASSUME Shape, Shape', Grows, NEW c \in CallType, CallGood(c)
  PROVE  CallGood(c)'
<1>1. c.current \in Nat /\ c.block.number \in Nat /\ c.msgs \in Seq(Msg)
  BY DEF CallType, BlockId
<1>2. final \in Nat /\ final' \in Nat /\ final <= final' BY DEF Shape, Grows
<1>3. c.current <= final' BY <1>1, <1>2 DEF CallGood
<1>4. \A i \in DOMAIN c.msgs : c.msgs[i] \in Msg
  BY <1>1, ElementOfSeq, LenProperties
<1>5. \A i \in DOMAIN c.msgs : Good(c.msgs[i], c.xt)'
  <2> TAKE i \in DOMAIN c.msgs
  <2>1. c.msgs[i] \in Msg /\ Good(c.msgs[i], c.xt) BY <1>4 DEF CallGood
  <2> QED BY <2>1, GoodKeeps
<1>6. ASSUME Concluded(c) PROVE Concluded(c)'
  <2>1. ASSUME c.block.number <= final
        PROVE  /\ c.block.number <= final'
               /\ chain'[c.block.number + 1] = chain[c.block.number + 1]
    <3>1. c.block.number + 1 \in 1..(final + 1) BY <1>1, <1>2, <2>1
    <3> QED BY <1>1, <1>2, <2>1, <3>1 DEF Grows
  <2> QED BY <1>6, <2>1 DEF Concluded, Grows
<1> QED BY <1>3, <1>5, <1>6 DEF CallGood

LEMMA StaysKeeps ==
  ASSUME Shape, Shape', Grows, NEW n \in Nat, NEW tag, Stays(n, tag)
  PROVE  Stays(n, tag)'
<1>1. final \in Nat /\ final' \in Nat /\ final <= final' BY DEF Shape, Grows
<1>2. n <= final BY DEF Stays
<1>3. n + 1 \in 1..(final + 1) BY <1>1, <1>2
<1> QED BY <1>1, <1>2, <1>3 DEF Grows, Stays

LEMMA SignedKeeps ==
  ASSUME Shape, Shape', Grows, SignedGood, HashGood, UNCHANGED <<xts, memo>>
  PROVE  SignedGood' /\ HashGood'
<1>1. ASSUME NEW x \in 1..Len(xts), Stays(xts[x].block.number, xts[x].block.tag)
      PROVE  Stays(xts[x].block.number, xts[x].block.tag)'
  <2>1. xts \in Seq(XtType) /\ xts' = xts BY DEF Shape
  <2>2. xts[x] \in XtType BY <2>1, ElementOfSeq
  <2>3. xts[x].block.number \in Nat BY <2>2 DEF XtType, BlockId
  <2>4. PICK n \in Nat : n = xts[x].block.number BY <2>3
  <2>5. PICK tag : tag = xts[x].block.tag OBVIOUS
  <2>6. Stays(n, tag)' BY <1>1, <2>4, <2>5, StaysKeeps
  <2> QED BY <2>1, <2>4, <2>5, <2>6 DEF Stays
<1>2. SignedGood' BY <1>1 DEF SignedGood
<1>3. ASSUME NEW n \in 0..Height, Stays(n, hashes[n]) PROVE Stays(n, hashes[n])'
  <2>1. PICK tag : tag = hashes[n] OBVIOUS
  <2>2. Stays(n, tag)' BY <1>3, <2>1, StaysKeeps
  <2> QED BY <2>1, <2>2 DEF Stays
<1>4. HashGood' BY <1>3 DEF HashGood
<1> QED BY <1>2, <1>4

\* A call without messages and without a conclusion.
LEMMA SilentGood ==
  ASSUME NEW c, c.current <= final, c.msgs = <<>>, c.pc \notin {"receipt", "unwatch"}
  PROVE  CallGood(c)
BY DEF CallGood

LEMMA TruthInit == Init => Truth
<1> SUFFICES ASSUME Init PROVE Truth OBVIOUS
<1>1. \A t \in Task : CallGood(call[t])
  <2> TAKE t \in Task
  <2>1. call[t].current = 0 /\ call[t].msgs = <<>> /\ call[t].pc = "idle" /\ final = 1
    BY DEF Init, NoCall
  <2> QED BY <2>1, SilentGood
<1>2. ChainGood BY DEF Init, ChainGood
<1>3. SignedGood /\ HashGood
  BY DEF Init, SignedGood, HashGood, Unasked
<1> QED BY <1>1, <1>2, <1>3 DEF Truth

\* Steps of a task that leave the node and the extrinsics alone.
LEMMA TruthPut ==
  ASSUME Shape, Truth, NEW t \in Task, CallGood(call'[t]), UNCHANGED <<xts, memo, chain, final, made>>,
         \A u \in Task \ {t} : call'[u] = call[u]
  PROVE  Truth'
<1>1. \A u \in Task : CallGood(call'[u]) BY DEF Truth
<1>2. \A u \in Task : CallGood(call[u])'
  BY <1>1 DEF CallGood, Good, Concluded
<1>3. ChainGood' BY DEF Truth, ChainGood
<1>4. SignedGood' /\ HashGood' BY DEF Truth, SignedGood, HashGood, Stays
<1> QED BY <1>2, <1>3, <1>4 DEF Truth

\* Up to the submission, and when all is lost, a call has heard nothing.
LEMMA TruthSilent ==
  ASSUME Shape, Truth, NEW t \in Task,
         \/ CacheMiss(t) \/ CacheHit(t) \/ Fetched(t)
         \/ Asked(t) \/ Create(t) \/ AccountNonce(t) \/ SyncAccountNonce(t) \/ Era(t)
         \/ Submit(t) \/ SyncLose(t)
         \/ \E plan \in Plans : Begin(t, plan)
  PROVE  Truth'
<1> USE DEF Put, Go
<1>0. call[t] \in CallType /\ call \in [Task -> CallType] BY DEF Shape
<1>1. CallGood(call[t]) BY DEF Truth
<1>2. final \in Nat BY DEF Shape
<1> DEFINE Silent == /\ call'[t].current \in {0, final, call[t].current}
                     /\ call'[t].msgs = <<>>
                     /\ call'[t].pc \notin {"receipt", "unwatch"}
                     /\ \A u \in Task \ {t} : call'[u] = call[u]
<1>3. call[t].pc \notin Listens => call[t].msgs = <<>> BY <1>1 DEF CallGood
<1>4. Silent
  <2>1. CASE \/ CacheMiss(t) \/ CacheHit(t) \/ Fetched(t) \/ Asked(t) \/ Create(t)
             \/ AccountNonce(t) \/ SyncAccountNonce(t) \/ Era(t) \/ Submit(t)
    <3>1. call[t].msgs = <<>>
      BY <1>3, <2>1 DEF CacheMiss, CacheHit, Fetched, Asked, Create, AccountNonce,
         SyncAccountNonce, Era, Submit, At, Listens
    <3>2. CASE CacheMiss(t) \/ CacheHit(t) \/ Submit(t)
      BY <1>0, <3>1, <3>2 DEF CacheMiss, CacheHit, Submit, CallType
    <3>3. CASE Fetched(t) \/ Asked(t)
      BY <1>0, <3>1, <3>3 DEF Fetched, Asked, Raises, CallType
    <3>4. CASE Create(t) \/ AccountNonce(t) \/ SyncAccountNonce(t) \/ Era(t)
      BY <1>0, <3>1, <3>4 DEF Create, AccountNonce, SyncAccountNonce, Era, CallType
    <3> QED BY <2>1, <3>2, <3>3, <3>4
  <2>2. CASE SyncLose(t) BY <1>0, <2>2 DEF SyncLose, CallType
  <2>3. ASSUME NEW plan \in Plans, Begin(t, plan) PROVE Silent
    <3>1. plan \in [source : Source, wait : Wait, mortal : BOOLEAN]
      BY ExtrinsicsAssumption
    <3> QED BY <1>0, <2>3, <3>1 DEF Begin, Source, NoCall
  <2> QED BY <2>1, <2>2, <2>3
<1>5. call'[t].current <= final BY <1>0, <1>1, <1>2, <1>4 DEF CallGood
<1>6. CallGood(call'[t]) BY <1>4, <1>5, SilentGood
<1>7. UNCHANGED <<xts, memo, node>>
  BY DEF CacheMiss, CacheHit, Fetched, Asked, Create, AccountNonce, SyncAccountNonce,
         Era, Submit, SyncLose, Begin
<1> QED BY <1>4, <1>6, <1>7, TruthPut DEF node

\* What the node has answered, and what is heard of the extrinsic.
LEMMA TruthAnswer ==
  ASSUME Shape, Truth, NEW t \in Task,
         Answer(t) \/ Hear(t) \/ SyncHear(t) \/ Unwatched(t)
  PROVE  Truth'
<1> USE DEF Put, Go
<1>0. call[t] \in CallType /\ call \in [Task -> CallType] BY DEF Shape
<1>1. CallGood(call[t]) BY DEF Truth
<1>2. /\ UNCHANGED <<xts, memo, node>>
      /\ \A u \in Task \ {t} : call'[u] = call[u]
  BY <1>0 DEF Answer, Hear, SyncHear, Unwatched
<1>3. CASE Answer(t) \/ Unwatched(t)
  <2>1. call'[t] = [call[t] EXCEPT !.pc = call'[t].pc]
    BY <1>0, <1>3 DEF Answer, Unwatched, CallType
  <2>2. /\ call'[t].current = call[t].current /\ call'[t].msgs = call[t].msgs
        /\ call'[t].wait = call[t].wait /\ call'[t].xt = call[t].xt
        /\ call'[t].block = call[t].block
    BY <1>0, <2>1 DEF CallType
  <2>3. \/ call[t].pc = "refused" /\ call'[t].pc = "raised"
        \/ call'[t].pc = "receipt" /\ call[t].pc = "answered" /\ call[t].wait = "nothing"
        \/ call'[t].pc = "watching" /\ call[t].pc = "answered"
        \/ call'[t].pc = "receipt" /\ call[t].pc = "unwatch"
        \/ call'[t].pc = "raised" /\ call[t].pc = "unwatch to raise"
    BY <1>0, <1>3 DEF Answer, Unwatched, At, CallType
  <2>4. CallGood(call'[t])
    BY <1>1, <2>2, <2>3 DEF CallGood, Concluded, Listens
  <2> QED BY <1>2, <2>4, TruthPut DEF node
<1>4. CASE Hear(t) \/ SyncHear(t)
  <2> DEFINE m == Head(call[t].msgs)
  <2>1. call[t].msgs \in Seq(Msg) /\ call[t].msgs # <<>> /\ call[t].pc = "watching"
    BY <1>0, <1>4 DEF Hear, SyncHear, CallType, At
  <2>2. /\ call'[t].current = call[t].current /\ call'[t].msgs = Tail(call[t].msgs)
        /\ call'[t].wait = call[t].wait /\ call'[t].xt = call[t].xt
        /\ call'[t].block = m.block
    BY <1>0, <1>4 DEF Hear, SyncHear, CallType
  <2>3. /\ call'[t].pc \in Listens
        /\ call'[t].pc \in {"receipt", "unwatch"} => Handle(m, call[t].wait) = "receipt"
    <3>1. Handle(m, call[t].wait) \in {"raised", "receipt", "watching"} BY DEF Handle
    <3>2. CASE Hear(t)
      <4>1. call'[t].pc = Handle(m, call[t].wait) BY <1>0, <3>2 DEF Hear, CallType
      <4> QED BY <3>1, <4>1 DEF Listens
    <3>3. CASE SyncHear(t)
      <4>1. call'[t].pc = CASE Handle(m, call[t].wait) = "receipt" -> "unwatch"
                            [] Handle(m, call[t].wait) = "raised" -> "unwatch to raise"
                            [] OTHER -> "watching"
        BY <1>0, <3>3 DEF SyncHear, CallType
      <4> QED BY <3>1, <4>1 DEF Listens
    <3> QED BY <1>4, <3>2, <3>3
  <2>4. Good(m, call[t].xt)
    <3>1. m = call[t].msgs[1] /\ 1 \in DOMAIN call[t].msgs
      BY <2>1, EmptySeq, LenProperties
    <3> QED BY <1>1, <3>1 DEF CallGood
  <2>5. \A i \in DOMAIN Tail(call[t].msgs) : Good(Tail(call[t].msgs)[i], call[t].xt)
    <3> TAKE i \in DOMAIN Tail(call[t].msgs)
    <3>1. /\ Tail(call[t].msgs) \in Seq(Msg)
          /\ Len(Tail(call[t].msgs)) = Len(call[t].msgs) - 1
          /\ \A j \in 1..Len(Tail(call[t].msgs)) : Tail(call[t].msgs)[j] = call[t].msgs[j + 1]
      BY <2>1, HeadTailProperties
    <3>2. i \in 1..Len(Tail(call[t].msgs)) BY <3>1, LenProperties
    <3>3. DOMAIN call[t].msgs = 1..Len(call[t].msgs) /\ Len(call[t].msgs) \in Nat
      BY <2>1, LenProperties
    <3>4. i + 1 \in DOMAIN call[t].msgs BY <3>1, <3>2, <3>3
    <3> QED BY <1>1, <3>1, <3>2, <3>4 DEF CallGood
  <2>6. Handle(m, call[t].wait) = "receipt" =>
          \/ m.kind = "finalized" /\ call[t].wait = "finality"
          \/ m.kind = "inblock" /\ call[t].wait = "block"
    BY DEF Handle
  <2>7. call'[t].pc \in {"receipt", "unwatch"} => Concluded(call'[t])
    BY <2>2, <2>3, <2>4, <2>6 DEF Concluded, Good
  <2>8. call'[t].current <= final BY <1>1, <2>2 DEF CallGood
  <2>9. CallGood(call'[t]) BY <2>2, <2>3, <2>5, <2>7, <2>8 DEF CallGood
  <2> QED BY <1>2, <2>9, TruthPut DEF node
<1> QED BY <1>3, <1>4

\* The step of a call that signs, or cannot.
LEMMA TruthSigned ==
  ASSUME Truth, NEW t \in Task, UNCHANGED <<chain, final, made>>, SignedGood', HashGood',
         call'[t].current <= final, call'[t].msgs = <<>>,
         call'[t].pc \in {"raised", "signed"},
         \A u \in Task \ {t} : call'[u] = call[u]
  PROVE  Truth'
<1>1. CallGood(call'[t]) BY SilentGood
<1>2. \A u \in Task : CallGood(call'[u]) BY <1>1 DEF Truth
<1>3. \A u \in Task : CallGood(call[u])' BY <1>2 DEF CallGood, Good, Concluded
<1>4. ChainGood' BY DEF Truth, ChainGood
<1> QED BY <1>3, <1>4 DEF Truth

\* Rows that are right stay right when numbers of final blocks are looked up.
LEMMA HashKeeps ==
  ASSUME Shape, Truth, UNCHANGED <<chain, final>>, early \subseteq early',
         \A m \in 0..Height : \/ hashes'[m] = hashes[m]
                              \/ m \in early'
                              \/ m <= final /\ hashes'[m] = HashOf(m)
  PROVE  HashGood'
<1> SUFFICES ASSUME NEW m \in 0..Height, hashes'[m] \in Nat, m \notin early'
             PROVE  Stays(m, hashes'[m])
  BY DEF HashGood, Stays
<1>1. CASE hashes'[m] = hashes[m] BY <1>1 DEF Truth, HashGood
<1>2. CASE m <= final /\ hashes'[m] = HashOf(m)
  <2>1. final \in Nat /\ Len(chain) \in Nat /\ final < Len(chain)
    BY LenProperties DEF Shape
  <2>2. m <= Best BY <1>2, <2>1 DEF Best
  <2> QED BY <1>2, <2>2 DEF HashOf, Stays
<1> QED BY <1>1, <1>2

\* The signature is over a block that is final, unless the row of its number was
\* there too early.
LEMMA TruthPayload ==
  ASSUME Shape, Shape', Truth, NEW t \in Task, Payload(t) \/ SyncPayload(t)
  PROVE  Truth'
<1>0. call[t] \in CallType /\ call \in [Task -> CallType] /\ xts \in Seq(XtType)
      /\ final \in Nat
  BY DEF Shape
<1>1. CallGood(call[t]) BY DEF Truth
<1>2. Sign(t) /\ UNCHANGED <<early, node>> /\ At(t, "payload")
  BY DEF Payload, SyncPayload
<1>3. call[t].msgs = <<>> /\ call[t].current <= final
  BY <1>1, <1>2 DEF CallGood, At, Listens
<1>4. PICK n \in 0..Height : n = Birth(call[t]) /\ n <= final /\ n <= Best
  BY <1>0, <1>3, BirthType
<1>5. UNCHANGED <<chain, final, made, early>> BY <1>2 DEF node
<1>6. HashGood'
  <2>1. \A m \in 0..Height :
          hashes'[m] = hashes[m] \/ (m <= final /\ hashes'[m] = HashOf(m))
    BY <1>2, <1>3, SignType
  <2> QED BY <1>5, <2>1, HashKeeps
<1>7. CASE GetBlockHash(n) = NoHash
  <2>1. Go(t, "raised") /\ UNCHANGED xts BY <1>2, <1>4, <1>7 DEF Sign
  <2>2. SignedGood' BY <1>5, <2>1 DEF Truth, SignedGood, Stays
  <2>3. /\ call'[t].current = call[t].current /\ call'[t].msgs = <<>>
        /\ call'[t].pc = "raised" /\ \A u \in Task \ {t} : call'[u] = call[u]
    BY <1>0, <1>3, <2>1 DEF Go, Put, CallType
  <2> QED BY <1>3, <1>5, <1>6, <2>2, <2>3, TruthSigned
<1>8. CASE GetBlockHash(n) # NoHash
  <2> DEFINE xt == [nonce |-> call[t].nonce, runtime |-> call[t].runtime,
                    block |-> [number |-> n, tag |-> GetBlockHash(n)]]
  <2>1. GetBlockHash(n) \in Nat BY <1>2, <1>3, <1>4, <1>8, SignType
  <2>2. xt \in XtType BY <1>0, <2>1 DEF XtType, CallType, BlockId
  <2>3. n \in early \/ Stays(n, GetBlockHash(n))
    <3>1. CASE hashes[n] # Unasked
      BY <2>1, <3>1 DEF Truth, HashGood, GetBlockHash
    <3>2. CASE hashes[n] = Unasked
      BY <1>4, <3>2 DEF GetBlockHash, HashOf, Stays
    <3> QED BY <3>1, <3>2
  <2>4. /\ Len(xts') = Len(xts) + 1 /\ Len(xts) \in Nat
        /\ \A x \in 1..Len(xts) : xts'[x] = xts[x]
        /\ xts'[Len(xts) + 1] = xt
    BY <1>0, <1>2, <1>4, <1>8, <2>2, AppendProperties, LenProperties DEF Sign
  <2>5. SignedGood'
    <3>1. ASSUME NEW x \in 1..Len(xts')
          PROVE  xts'[x].block.number \in early
                   \/ Stays(xts'[x].block.number, xts'[x].block.tag)
      <4>1. x \in 1..Len(xts) \/ x = Len(xts) + 1 BY <2>4
      <4> QED BY <2>3, <2>4, <4>1 DEF Truth, SignedGood
    <3> QED BY <1>5, <3>1 DEF SignedGood, Stays
  <2>6. /\ call'[t].current = call[t].current /\ call'[t].msgs = <<>>
        /\ call'[t].pc = "signed" /\ \A u \in Task \ {t} : call'[u] = call[u]
    BY <1>0, <1>2, <1>3, <1>4, <1>8 DEF Sign, Put, CallType
  <2> QED BY <1>3, <1>5, <1>6, <2>5, <2>6, TruthSigned
<1> QED BY <1>7, <1>8

LEMMA TruthLookUp ==
  ASSUME Shape, Shape', Truth, NEW n \in LookedUp, LookUp(n)
  PROVE  Truth'
<1>1. n \in 0..Height BY ExtrinsicsAssumption
<1>2. UNCHANGED <<xts, call, chain, final, made>> BY DEF LookUp, node
<1>3. early \subseteq early' /\ (n > final => n \in early') BY DEF LookUp
<1>4. HashGood'
  <2>1. ASSUME NEW m \in 0..Height
        PROVE  \/ hashes'[m] = hashes[m] \/ m \in early'
               \/ m <= final /\ hashes'[m] = HashOf(m)
    <3>1. PICK rows : rows = Remember(hashes, n) OBVIOUS
    <3>2. hashes \in [0..Height -> Nat \cup {Unasked, NoHash}] BY DEF Shape
    <3>3. rows[m] = hashes[m] \/ (m = n /\ rows[m] = HashOf(n))
      BY <1>1, <3>1, <3>2, RememberType
    <3>4. hashes' = rows BY <3>1 DEF LookUp
    <3>5. hashes'[m] = hashes[m] \/ (m = n /\ hashes'[m] = HashOf(m))
      BY <3>3, <3>4
    <3>6. final \in Nat BY DEF Shape
    <3>7. n > final \/ n <= final BY <1>1, <3>6
    <3> QED BY <1>3, <3>5, <3>7
  <2> QED BY <1>2, <1>3, <2>1, HashKeeps
<1>5. SignedGood' BY <1>2, <1>3 DEF Truth, SignedGood, Stays
<1>6. ChainGood' BY <1>2 DEF Truth, ChainGood
<1>7. \A u \in Task : CallGood(call[u])'
  BY <1>2 DEF Truth, CallGood, Good, Concluded
<1> QED BY <1>4, <1>5, <1>6, <1>7 DEF Truth

\* A call is told something true.
LEMMA ToldGood ==
  ASSUME NEW c \in CallType, CallGood(c)', NEW ids, NEW m \in Msg,
         \A x \in ids : Good(m, x)'
  PROVE  CallGood(Told(c, ids, m))'
<1>1. CASE ~(c.xt \in ids /\ c.wait # "nothing" /\ c.pc \in {"answered", "watching"})
  <2>1. Told(c, ids, m) = c BY <1>1 DEF Told
  <2> QED BY <2>1 DEF CallGood
<1>2. CASE c.xt \in ids /\ c.wait # "nothing" /\ c.pc \in {"answered", "watching"}
  <2> DEFINE d == [c EXCEPT !.msgs = Append(@, m), !.heard = TRUE]
  <2>1. Told(c, ids, m) = d BY <1>2 DEF Told
  <2>2. c.msgs \in Seq(Msg) BY DEF CallType
  <2>3. d.current = c.current /\ d.pc = c.pc /\ d.xt = c.xt /\ d.msgs = Append(c.msgs, m)
    BY DEF CallType
  <2>4. \A i \in DOMAIN d.msgs : Good(d.msgs[i], d.xt)'
    <3> TAKE i \in DOMAIN d.msgs
    <3>1. i \in 1..Len(c.msgs) \/ i = Len(c.msgs) + 1
      BY <2>2, <2>3, AppendProperties, LenProperties
    <3>2. CASE i \in 1..Len(c.msgs)
      <4>1. d.msgs[i] = c.msgs[i] /\ i \in DOMAIN c.msgs
        BY <2>2, <2>3, <3>2, AppendProperties, LenProperties
      <4> QED BY <2>3, <4>1 DEF CallGood, Good
    <3>3. CASE i = Len(c.msgs) + 1
      <4>1. d.msgs[i] = m BY <2>2, <2>3, <3>3, AppendProperties
      <4> QED BY <1>2, <2>3, <4>1 DEF Good
    <3> QED BY <3>1, <3>2, <3>3
  <2>5. d.pc \in Listens /\ d.pc \notin {"receipt", "unwatch"}
    BY <1>2, <2>3 DEF Listens
  <2>6. d.current <= final' BY <2>3 DEF CallGood
  <2>7. CallGood(d)' BY <2>4, <2>5, <2>6 DEF CallGood
  <2> QED BY <2>1, <2>7 DEF CallGood
<1> QED BY <1>1, <1>2

\* The watchers are told something that is true after the step.
LEMMA TruthTell ==
  ASSUME Shape, Shape', Truth, Grows, NEW ids, NEW m \in Msg,
         \A x \in ids : Good(m, x)', ChainGood', UNCHANGED <<xts, memo>>,
         \A u \in Task : \/ call'[u] = Told(call[u], ids, m)
                         \/ CallGood(call'[u])
  PROVE  Truth'
<1>1. SignedGood' /\ HashGood' BY SignedKeeps DEF Truth
<1>2. ASSUME NEW u \in Task PROVE CallGood(call[u])'
  <2>1. PICK d \in CallType : d = call'[u] BY DEF Shape
  <2>2. CallGood(d)'
    <3>1. CASE CallGood(call'[u])
      <4>1. CallGood(d) BY <2>1, <3>1
      <4> QED BY <4>1, CallKeeps
    <3>2. CASE call'[u] = Told(call[u], ids, m)
      <4>1. PICK c \in CallType : c = call[u] BY DEF Shape
      <4>2. CallGood(c) BY <4>1 DEF Truth
      <4>3. CallGood(c)' BY <4>2, CallKeeps
      <4>4. CallGood(Told(c, ids, m))' BY <4>3, ToldGood
      <4>5. d = Told(c, ids, m) BY <2>1, <3>2, <4>1 DEF Told
      <4> QED BY <4>4, <4>5 DEF CallGood
    <3> QED BY <3>1, <3>2
  <2> QED BY <2>1, <2>2 DEF CallGood, Good, Concluded
<1> QED BY <1>1, <1>2 DEF Truth

\* A message that speaks of no block is true.
LEMMA NoBlockGood ==
  ASSUME NEW kind \in Failure
  PROVE  /\ Message(kind, NoBlock) \in Msg
         /\ \A x : Good(Message(kind, NoBlock), x)'
BY NoBlockType DEF Message, Msg, Kind, Failure, Good

LEMMA TruthNode ==
  ASSUME Shape, Shape', Truth,
         \/ Author \/ Finalise \/ Upgrade
         \/ \E cut \in final..(Best - 1) : Fork(cut)
         \/ \E x \in pool : Discard(x)
  PROVE  Truth'
<1> DEFINE Cell == [tag : Nat, xt : Nat]
<1>0. /\ chain \in Seq(Cell) /\ Len(chain) \in Nat /\ final \in Nat
      /\ final < Len(chain) /\ DOMAIN chain = 1..Len(chain)
      /\ \A i \in 1..Len(chain) : chain[i] \in Cell
  BY ElementOfSeq, LenProperties DEF Shape
<1>1. CASE Author
  <2>1. PICK x \in pool :
          /\ chain' = Append(chain, [tag |-> Last(chain).tag, xt |-> x])
          /\ LET block == [number |-> Len(chain), tag |-> chain'[Len(chain')].tag]
             IN /\ made' = made \cup {[block |-> block, xt |-> x]}
                /\ Tell({x}, "inblock", block)
    BY <1>1 DEF Author
  <2> DEFINE cell == [tag |-> Last(chain).tag, xt |-> x]
  <2>2. chain[Len(chain)] \in Cell BY <1>0
  <2>3. Last(chain).tag \in Nat BY <2>2 DEF Last
  <2>4. x \in Nat BY DEF Shape
  <2>5. cell \in Cell BY <2>3, <2>4
  <2>6. /\ Len(chain') = Len(chain) + 1 /\ chain'[Len(chain) + 1] = cell
        /\ \A i \in 1..Len(chain) : chain'[i] = chain[i]
    BY <1>0, <2>1, <2>5, AppendProperties
  <2>7. PICK block \in BlockId : block = [number |-> Len(chain), tag |-> cell.tag]
    BY <1>0, <2>3 DEF BlockId
  <2>8. /\ made' = made \cup {[block |-> block, xt |-> x]}
        /\ Tell({x}, "inblock", block)
    BY <2>1, <2>6, <2>7
  <2>9. UNCHANGED <<xts, memo, final>> BY <1>1 DEF Author
  <2>10. Grows BY <1>0, <2>6, <2>8, <2>9 DEF Grows
  <2>11. Message("inblock", block) \in Msg BY DEF Message, Msg, Kind
  <2>12. \A y \in {x} : Good(Message("inblock", block), y)'
    BY <2>8 DEF Good, Message
  <2>13. ChainGood'
    <3>1. ASSUME NEW i \in 1..Len(chain'), chain'[i].xt # 0
          PROVE  [block |-> [number |-> i - 1, tag |-> chain'[i].tag],
                  xt |-> chain'[i].xt] \in made'
      <4>1. CASE i \in 1..Len(chain)
        BY <2>6, <2>8, <3>1, <4>1 DEF Truth, ChainGood
      <4>2. CASE i = Len(chain) + 1
        <5>1. i - 1 = Len(chain) BY <1>0, <4>2
        <5> QED BY <2>6, <2>7, <2>8, <4>2, <5>1
      <4>3. Len(chain') = Len(chain) + 1 /\ Len(chain) \in Nat BY <1>0, <2>6
      <4>4. i \in 1..Len(chain) \/ i = Len(chain) + 1 BY <4>3
      <4> QED BY <4>1, <4>2, <4>4
    <3> QED BY <3>1 DEF ChainGood
  <2> QED BY <2>8, <2>9, <2>10, <2>11, <2>12, <2>13, TruthTell DEF Tell
<1>2. CASE Finalise
  <2>1. final + 2 \in 1..Len(chain) /\ final' = final + 1 /\ final + 1 \in Nat
    BY <1>0, <1>2 DEF Finalise, Best
  <2>2. UNCHANGED <<xts, memo, chain, made>> BY <1>2 DEF Finalise
  <2>3. Grows BY <1>0, <2>1, <2>2 DEF Grows
  <2>4. chain[final + 2] \in Cell BY <1>0, <2>1
  <2>5. PICK block \in BlockId :
          block = [number |-> final + 1, tag |-> chain[final + 2].tag]
    BY <2>1, <2>4 DEF BlockId
  <2>6. PICK ids : ids = {chain[final + 2].xt} \ {0} OBVIOUS
  <2>7. (final + 1) + 1 = final + 2 /\ (final + 2) - 1 = final + 1 BY <1>0
  <2>8. Tell(ids, "finalized", block)
    BY <1>2, <2>5, <2>6, <2>7 DEF Finalise, Block
  <2>9. Message("finalized", block) \in Msg BY DEF Message, Msg, Kind
  <2>10. ASSUME NEW x \in ids PROVE Good(Message("finalized", block), x)'
    <3>1. chain[final + 2].xt = x /\ x # 0 BY <2>6
    <3>2. [block |-> [number |-> (final + 2) - 1, tag |-> chain[final + 2].tag],
           xt |-> chain[final + 2].xt] \in made
      BY <2>1, <3>1 DEF Truth, ChainGood
    <3>3. [block |-> block, xt |-> x] \in made BY <2>5, <2>7, <3>1, <3>2
    <3>4. block.number = final' /\ chain'[block.number + 1].xt = x
      BY <2>1, <2>2, <2>5, <2>7, <3>1
    <3>5. block.number <= final' BY <2>1, <3>4
    <3> QED BY <2>2, <3>3, <3>4, <3>5 DEF Good, Message
  <2>11. ChainGood' BY <2>2 DEF Truth, ChainGood
  <2> QED BY <2>2, <2>3, <2>8, <2>9, <2>10, <2>11, TruthTell DEF Tell
<1>3. ASSUME NEW cut \in final..(Best - 1), Fork(cut) PROVE Truth'
  <2>1. PICK ids : Tell(ids, "retracted", NoBlock) BY <1>3 DEF Fork
  <2>2. UNCHANGED <<xts, memo, final, made>> BY <1>3 DEF Fork
  <2>3. chain' = [i \in 1..Len(chain) |-> IF i <= cut + 1 THEN chain[i]
                     ELSE [tag |-> chain[i].tag + 1, xt |-> 0]]
    BY <1>0, <1>3 DEF Fork
  <2>4. Len(chain') = Len(chain)
    <3>1. DOMAIN chain' = 1..Len(chain) BY <2>3
    <3>2. DOMAIN chain' = 1..Len(chain') /\ Len(chain') \in Nat
      BY LenProperties DEF Shape
    <3> QED BY <1>0, <3>1, <3>2
  <2>5. \A i \in 1..(final + 1) : i \in 1..Len(chain) /\ i <= cut + 1
    BY <1>0 DEF Best
  <2>6. Grows BY <1>0, <2>2, <2>3, <2>4, <2>5 DEF Grows
  <2>7. ChainGood'
    <3>1. ASSUME NEW i \in 1..Len(chain), chain'[i].xt # 0 PROVE chain'[i] = chain[i]
      BY <2>3, <3>1
    <3> QED BY <2>2, <2>4, <3>1 DEF Truth, ChainGood
  <2> QED BY <2>1, <2>2, <2>6, <2>7, NoBlockGood, TruthTell DEF Tell, Failure
<1>4. ASSUME UNCHANGED <<xts, memo, chain, final, made>>, NEW ids, NEW kind \in Failure,
             Tell(ids, kind, NoBlock)
      PROVE  Truth'
  <2>1. Grows BY <1>0, <1>4 DEF Grows
  <2>2. ChainGood' BY <1>4 DEF Truth, ChainGood
  <2> QED BY <1>4, <2>1, <2>2, NoBlockGood, TruthTell DEF Tell
<1>5. CASE Upgrade
  <2>1. Tell(pool, "invalid", NoBlock) /\ UNCHANGED <<xts, memo, chain, final, made>>
    BY <1>5 DEF Upgrade
  <2>2. PICK ids : ids = pool OBVIOUS
  <2>3. Tell(ids, "invalid", NoBlock) BY <2>1, <2>2
  <2> QED BY <1>4, <2>1, <2>3 DEF Failure
<1>6. ASSUME NEW x \in pool, Discard(x) PROVE Truth'
  <2>1. Tell({x}, "dropped", NoBlock) /\ UNCHANGED <<xts, memo, chain, final, made>>
    BY <1>6 DEF Discard
  <2> QED BY <1>4, <2>1 DEF Failure
<1> QED BY <1>1, <1>2, <1>3, <1>5, <1>6

\* The node takes the extrinsic, or refuses it.
LEMMA TruthReceived ==
  ASSUME Shape, Shape', Truth, NEW t \in Task, Received(t)
  PROVE  Truth'
<1>0. call[t] \in CallType /\ call \in [Task -> CallType] BY DEF Shape
<1>1. CallGood(call[t]) /\ \A u \in Task : CallGood(call[u]) BY DEF Truth
<1>2. UNCHANGED <<xts, memo, chain, final, made>> /\ call[t].pc = "sent"
  BY DEF Received, At
<1>3. call[t].msgs = <<>> /\ call[t].current <= final
  BY <1>1, <1>2 DEF CallGood, Listens
<1>4. ASSUME NEW d, d \in {[call[t] EXCEPT !.pc = "refused"],
                           [call[t] EXCEPT !.pc = "answered"]}
      PROVE  CallGood(d)
  <2>1. d.current <= final /\ d.msgs = <<>> /\ d.pc \notin {"receipt", "unwatch"}
    BY <1>0, <1>3, <1>4 DEF CallType
  <2> QED BY <2>1, SilentGood
<1>5. PICK same :
        \A u \in Task : \/ call'[u] = Told(call[u], same, Message("usurped", NoBlock))
                        \/ CallGood(call'[u])
  <2>1. CASE Go(t, "refused") \/ Go(t, "answered")
    <3>1. CallGood(call'[t]) BY <1>0, <1>4, <2>1 DEF Go, Put
    <3>2. \A u \in Task \ {t} : call'[u] = call[u] BY <1>0, <2>1 DEF Go, Put
    <3> QED BY <1>1, <3>1, <3>2
  <2>2. CASE ~(Go(t, "refused") \/ Go(t, "answered"))
    <3>1. PICK same :
            call' = [u \in Task |->
              IF u = t THEN [call[t] EXCEPT !.pc = "answered"]
              ELSE Told(call[u], same, Message("usurped", NoBlock))]
      <4>1. PICK ids : ids = {y \in pool : xts[y].nonce = xts[call[t].xt].nonce}
        OBVIOUS
      <4> QED BY <2>2, <4>1 DEF Received
    <3>2. CallGood(call'[t]) BY <1>4, <3>1
    <3>3. \A u \in Task \ {t} :
            call'[u] = Told(call[u], same, Message("usurped", NoBlock))
      BY <3>1
    <3> QED BY <3>2, <3>3
  <2> QED BY <2>1, <2>2
<1>6. Grows
  <2>1. made' = made /\ final' = final /\ chain' = chain BY <1>2
  <2>2. final \in Nat /\ Len(chain) \in Nat BY LenProperties DEF Shape
  <2> QED BY <2>1, <2>2 DEF Grows
<1>7. ChainGood' BY <1>2 DEF Truth, ChainGood
<1> QED BY <1>2, <1>5, <1>6, <1>7, NoBlockGood, TruthTell DEF Failure

\* With the connection goes what was still to be heard.
LEMMA TruthLose ==
  ASSUME Shape, Truth, Lose
  PROVE  Truth'
<1>0. \A t \in Task : call[t] \in CallType BY DEF Shape
<1>1. UNCHANGED <<xts, memo, chain, final, made>> BY DEF Lose, node
<1>2. ASSUME NEW t \in Task PROVE CallGood(call'[t])
  <2> DEFINE open == \E u \in Task : call[u].pc \in {"answered", "watching"} /\ call[u].heard
  <2>1. /\ call'[t].msgs = <<>> /\ call'[t].current = call[t].current
        /\ call'[t].wait = call[t].wait /\ call'[t].xt = call[t].xt
        /\ call'[t].block = call[t].block
        /\ call'[t].pc = CASE open /\ call[t].pc \in OnConnection -> "raised"
                           [] ~open /\ call[t].pc = "watching" -> "forgotten"
                           [] ~open /\ call[t].pc \in {"refused", "answered"} -> "sent"
                           [] OTHER -> call[t].pc
    BY <1>0 DEF Lose, CallType
  <2>2. call'[t].pc \in {"receipt", "unwatch"} => call'[t].pc = call[t].pc BY <2>1
  <2>3. DOMAIN call'[t].msgs = {} BY <2>1
  <2> QED BY <2>1, <2>2, <2>3 DEF Truth, CallGood, Concluded
<1>3. \A t \in Task : CallGood(call[t])'
  BY <1>1, <1>2 DEF CallGood, Good, Concluded
<1>4. ChainGood' /\ SignedGood' /\ HashGood'
  BY <1>1 DEF Truth, ChainGood, SignedGood, HashGood, Stays
<1> QED BY <1>3, <1>4 DEF Truth
-----------------------------------------------------------------------------
(***************************************************************************)
(* The invariant is inductive.                                             *)
(***************************************************************************)
IInv == Shape /\ NonceInv /\ Truth

NodeStep == \/ Author \/ Finalise \/ Upgrade
            \/ \E cut \in final..(Best - 1) : Fork(cut)
            \/ \E x \in pool : Discard(x)

LEMMA ShapeStep == IInv /\ [Next]_vars => Shape'
<1> SUFFICES ASSUME IInv, [Next]_vars PROVE Shape' OBVIOUS
<1>0. Shape /\ \A t \in Task : call[t].current <= final
  BY DEF IInv, Truth, CallGood
<1>1. ASSUME NEW t \in Task, TaskStep(t) PROVE Shape'
  BY <1>0, <1>1, ShapeNonce, ShapeCreate, ShapePayload, ShapeAnswer, ShapeReceived,
     ShapeHear DEF TaskStep
<1>2. ASSUME NEW t \in Task, SyncLose(t) PROVE Shape' BY <1>0, <1>2, ShapeLose
<1>3. ASSUME NEW t \in Task, NEW plan \in Plans, Begin(t, plan) PROVE Shape'
  BY <1>0, <1>3, ShapeBegin
<1>7. ASSUME NEW n \in LookedUp, LookUp(n) PROVE Shape' BY <1>0, <1>7, ShapeLookUp
<1>4. CASE Lose BY <1>0, <1>4, ShapeLose
<1>5. CASE NodeStep BY <1>0, <1>5, ShapeNode DEF NodeStep
<1>6. CASE UNCHANGED vars BY <1>0, <1>6 DEF Shape, vars, node
<1> QED BY <1>1, <1>2, <1>3, <1>4, <1>5, <1>6, <1>7 DEF Next, NodeStep

LEMMA NonceStep == IInv /\ [Next]_vars => NonceInv'
<1> SUFFICES ASSUME IInv, [Next]_vars PROVE NonceInv' OBVIOUS
<1>0. Shape /\ NonceInv BY DEF IInv
<1>1. ASSUME NEW t \in Task, TaskStep(t) PROVE NonceInv'
  BY <1>0, <1>1, NonceCached, NonceTask, NonceReceived DEF TaskStep
<1>2. ASSUME NEW t \in Task, SyncLose(t) PROVE NonceInv' BY <1>0, <1>2, NonceTask
<1>3. ASSUME NEW t \in Task, NEW plan \in Plans, Begin(t, plan) PROVE NonceInv'
  BY <1>0, <1>3, NonceTask
<1>7. ASSUME NEW n \in LookedUp, LookUp(n) PROVE NonceInv'
  BY <1>0, <1>7, NonceQuiet DEF LookUp, NoNewFetch
<1>4. CASE Lose BY <1>0, <1>4, NonceLose
<1>5. CASE NodeStep BY <1>0, <1>5, NonceNode DEF NodeStep
<1>6. CASE UNCHANGED vars
  BY <1>0, <1>6 DEF NonceInv, At, CachedNoncesFollow, vars
<1> QED BY <1>1, <1>2, <1>3, <1>4, <1>5, <1>6, <1>7 DEF Next, NodeStep

LEMMA TruthStep == IInv /\ [Next]_vars => Truth'
<1> SUFFICES ASSUME IInv, [Next]_vars PROVE Truth' OBVIOUS
<1>0. Shape /\ Truth /\ Shape' BY ShapeStep DEF IInv
<1>1. ASSUME NEW t \in Task, TaskStep(t) PROVE Truth'
  BY <1>0, <1>1, TruthSilent, TruthPayload, TruthAnswer, TruthReceived DEF TaskStep
<1>2. ASSUME NEW t \in Task, SyncLose(t) PROVE Truth' BY <1>0, <1>2, TruthSilent
<1>3. ASSUME NEW t \in Task, NEW plan \in Plans, Begin(t, plan) PROVE Truth'
  BY <1>0, <1>3, TruthSilent
<1>7. ASSUME NEW n \in LookedUp, LookUp(n) PROVE Truth' BY <1>0, <1>7, TruthLookUp
<1>4. CASE Lose BY <1>0, <1>4, TruthLose
<1>5. CASE NodeStep BY <1>0, <1>5, TruthNode DEF NodeStep
<1>6. CASE UNCHANGED vars
  BY <1>0, <1>6 DEF Truth, ChainGood, SignedGood, HashGood, Stays, CallGood, Good,
     Concluded, vars, node
<1> QED BY <1>1, <1>2, <1>3, <1>4, <1>5, <1>6, <1>7 DEF Next, NodeStep

LEMMA Inductive == Spec => []IInv
<1>1. Init => IInv BY ShapeInit, NonceInit, TruthInit DEF IInv
<1>2. IInv /\ [Next]_vars => IInv' BY ShapeStep, NonceStep, TruthStep DEF IInv
<1> QED BY <1>1, <1>2, PTL DEF Spec

\* Whatever tasks ask for nonces, fail, or lose their connection, those that the
\* cache gives out follow one another (async_substrate.py:3556-3600).
THEOREM NoncesFollow == Spec => []CachedNoncesFollow
<1>1. IInv => CachedNoncesFollow BY DEF IInv, NonceInv
<1> QED BY <1>1, Inductive, PTL

\* For every period and chain, a signature stays over a block that is on the
\* chain for good, or over one whose number had been looked up before it was
\* final.
THEOREM SignaturesStand == Spec => []SignatureStands
<1>1. IInv => SignatureStands
  <2> SUFFICES ASSUME IInv, NEW x \in DOMAIN xts, xts[x].block.number \notin early
               PROVE  OnChain(xts[x].block)
    BY DEF SignatureStands
  <2>1. xts \in Seq(XtType) /\ final \in Nat /\ final < Len(chain) /\ Len(chain) \in Nat
    BY LenProperties DEF IInv, Shape
  <2>2. x \in 1..Len(xts) /\ xts[x] \in XtType BY <2>1, ElementOfSeq, LenProperties
  <2>3. xts[x].block \in [number : Nat, tag : Nat] BY <2>2 DEF XtType, BlockId
  <2>4. Stays(xts[x].block.number, xts[x].block.tag)
    BY <2>2 DEF IInv, Truth, SignedGood
  <2>5. xts[x].block.number <= Best BY <2>1, <2>3, <2>4 DEF Best, Stays
  <2>6. xts[x].block = Block(xts[x].block.number) BY <2>3, <2>4 DEF Block, Stays
  <2> QED BY <2>5, <2>6 DEF OnChain
<1> QED BY <1>1, Inductive, PTL

\* Whatever the node's forks, losses, upgrades and usurpers, a call that ends
\* with a receipt was told the truth about its extrinsic.
THEOREM ReceiptsAreTrue == Spec => []ReceiptIsTrue
<1>1. IInv => ReceiptIsTrue
  BY DEF IInv, Truth, CallGood, Concluded, ReceiptIsTrue, At
<1> QED BY <1>1, Inductive, PTL
==============================================================================
