---------------------------- MODULE FailoverProof ----------------------------
(***************************************************************************)
(* A request goes to the chain that self.url names, a call makes it no     *)
(* more than twice per frame, and no chain is passed over: for any chains, *)
(* depth of calls, retries, and size of Python's stack.                    *)
(***************************************************************************)
EXTENDS FailoverProperties, Induction, SequenceTheorems, TLAPS

\* The fields of a call, whatever its frames are.
Fields(c) ==
  c = [pc |-> c.pc, error |-> c.error, frames |-> c.frames, sock |-> c.sock,
       end |-> c.end, open |-> c.open, to |-> c.to, tries |-> c.tries,
       depth |-> c.depth, out |-> c.out]

\* A connection that is open is one to self.url: whoever changes self.url has
\* closed the connection before.
IInv ==
  /\ async \in BOOLEAN
  /\ \E S : socks \in Seq(S)
  /\ ws = [end |-> ws.end, open |-> ws.open] /\ ws.open \in BOOLEAN
  /\ call = [t \in Caller |-> call[t]]
  /\ \A t \in Caller : Fields(call[t])
  /\ async => Last(socks) = url
  /\ ~async => /\ ws.open => ws.end = url
               /\ call[Main].pc = "sent" => call[Main].end = url

\* The Websocket made last.
LEMMA LastSock ==
  ASSUME NEW S, NEW s \in Seq(S), NEW c
  PROVE  Last(Append(s, c)) = c /\ \E T : Append(s, c) \in Seq(T)
<1>1. s \in Seq(S \cup {c}) /\ c \in S \cup {c} BY SeqMonotonic
<1>2. /\ Append(s, c) \in Seq(S \cup {c}) /\ Len(Append(s, c)) = Len(s) + 1
      /\ Append(s, c)[Len(s) + 1] = c
  BY <1>1, AppendProperties
<1> QED BY <1>2 DEF Last

\* One field of the record has another value.
LEMMA FramesSet ==
  ASSUME NEW c, Fields(c), NEW frames
  PROVE  /\ Fields([c EXCEPT !.frames = frames])
         /\ [c EXCEPT !.frames = frames].pc = c.pc
         /\ [c EXCEPT !.frames = frames].out = c.out
BY DEF Fields

LEMMA OpenSet ==
  ASSUME NEW c, Fields(c), NEW open
  PROVE  /\ Fields([c EXCEPT !.open = open])
         /\ [c EXCEPT !.open = open].pc = c.pc /\ [c EXCEPT !.open = open].end = c.end
         /\ [c EXCEPT !.open = open].out = c.out
BY DEF Fields

\* Sending more frames, or running a method again, sends no request yet.
LEMMA PushShape ==
  ASSUME NEW c, Fields(c), NEW frames, NEW pc
  PROVE  /\ Fields(Push(c, frames, pc)) /\ Push(c, frames, pc).to = c.to
         /\ Push(c, frames, pc).out = c.out /\ Push(c, frames, pc).pc \in {pc, "raised"}
BY DEF Push, Leave, Fields

LEMMA RerunShape ==
  ASSUME NEW c, Fields(c)
  PROVE  /\ Fields(Rerun(c)) /\ Rerun(c).to = c.to /\ Rerun(c).out = c.out
         /\ Rerun(c).pc \in {"connect", "dial", "raised"}
<1> DEFINE again == [c EXCEPT !.frames[Len(c.frames)].stage = "again"]
<1>1. Fields(again) /\ again.to = c.to /\ again.out = c.out BY DEF Fields
<1> DEFINE more == [again EXCEPT !.tries = IF Own(again.frames) THEN @ + 1 ELSE @]
           frames == Begin(Last(c.frames).inner)
           pc == IF async THEN "dial" ELSE "connect"
<1>2. Fields(more) /\ more.to = c.to /\ more.out = c.out
  <2> HIDE DEF again
  <2> QED BY <1>1 DEF Fields
<1>3. CASE Last(c.frames).of = "connect"
  <2>1. Rerun(c) = [again EXCEPT !.pc = "connect"] BY <1>3 DEF Rerun
  <2> HIDE DEF again
  <2> QED BY <1>1, <2>1 DEF Fields
<1>4. CASE Last(c.frames).of # "connect"
  <2>1. Rerun(c) = Push(more, frames, pc) BY <1>4 DEF Rerun
  <2>2. pc \in {"connect", "dial"} OBVIOUS
  <2> HIDE DEF more, frames, pc
  <2> QED BY <1>2, <2>1, <2>2, PushShape
<1> QED BY <1>3, <1>4

LEMMA InitInv == Init => IInv
<1> SUFFICES ASSUME Init PROVE IInv OBVIOUS
<1>1. socks \in Seq({url}) /\ Last(socks) = url BY DEF Init, Last
<1>2. /\ async \in BOOLEAN
      /\ ws = [end |-> ws.end, open |-> ws.open] /\ ws.open \in BOOLEAN /\ ws.end = url
  BY DEF Init
<1>3. /\ call = [t \in Caller |-> call[t]]
      /\ \A t \in Caller : Fields(call[t]) /\ call[t].pc # "sent"
  BY DEF Init, NoCall, Fields
<1>4. Main \in Caller BY DEF Caller
<1> QED BY <1>1, <1>2, <1>3, <1>4 DEF IInv

\* A step that gives one call another record.
Steps(t) ==
  /\ call' = [u \in Caller |-> call'[u]]
  /\ Fields(call'[t])
  /\ \A u \in Caller \ {t} : call'[u] = call[u]

LEMMA PutSteps ==
  ASSUME IInv, NEW t \in Caller, NEW c, Fields(c), Put(t, c)
  PROVE  Steps(t) /\ call'[t] = c
BY DEF IInv, Put, Steps

\* It leaves the connections alone and sends no synchronous request.
LEMMA QuietStep ==
  ASSUME IInv, NEW t \in Caller, Steps(t), t = Main /\ ~async => call'[t].pc # "sent",
         UNCHANGED <<async, url, socks, ws>>
  PROVE  IInv'
<1>1. \A u \in Caller : Fields(call'[u]) BY DEF IInv, Steps
<1>2. call'[Main] = call[Main] \/ t = Main BY DEF Steps, Caller
<1> QED BY <1>1, <1>2 DEF IInv, Fields, Steps

\* What the steps make of the record of a call.
LEMMA LeaveShape ==
  ASSUME NEW c, Fields(c), NEW v
  PROVE  Fields(Leave(c, v)) /\ Leave(c, v).pc = v /\ Leave(c, v).out = c.out
<1> DEFINE d == [c EXCEPT !.pc = v]
<1>1. Fields(d) /\ d.pc = v /\ d.out = c.out BY DEF Fields
<1>2. Leave(c, v) = [d EXCEPT !.frames = <<>>] BY DEF Leave
<1> HIDE DEF d
<1> QED BY <1>1, <1>2 DEF Fields

LEMMA RaiseShape ==
  ASSUME NEW c, Fields(c), NEW v
  PROVE  Fields(Raise(c, v)) /\ Raise(c, v).pc = "failing" /\ Raise(c, v).out = c.out
<1> DEFINE d == [c EXCEPT !.pc = "failing"]
<1>1. Fields(d) /\ d.pc = "failing" /\ d.out = c.out BY DEF Fields
<1>2. Raise(c, v) = [d EXCEPT !.error = v] BY DEF Raise
<1> HIDE DEF d
<1> QED BY <1>1, <1>2 DEF Fields

LEMMA SentShape ==
  ASSUME NEW c, Fields(c), NEW end
  PROVE  Fields([c EXCEPT !.pc = "sent", !.end = end])
<1> DEFINE d == [c EXCEPT !.pc = "sent"]
<1>1. Fields(d) BY DEF Fields
<1>2. Fields([d EXCEPT !.end = end])
  <2> HIDE DEF d
  <2> QED BY <1>1 DEF Fields
<1> QED BY <1>2

LEMMA NewCallShape ==
  ASSUME NEW pc, NEW depth, NEW sock, NEW frames
  PROVE  LET d == [NoCall EXCEPT !.pc = pc, !.depth = depth, !.sock = sock,
                                 !.frames = frames, !.tries = 1]
         IN Fields(d) /\ d.pc = pc
<1> DEFINE n2 == [NoCall EXCEPT !.pc = pc]
           n3 == [n2 EXCEPT !.depth = depth]
           n4 == [n3 EXCEPT !.sock = sock]
           n5 == [n4 EXCEPT !.frames = frames]
<1>0. Fields(NoCall) BY DEF Fields, NoCall
<1>1. Fields(n2) /\ n2.pc = pc BY <1>0 DEF Fields
<1>2. Fields(n3) /\ n3.pc = pc
  <2> HIDE DEF n2
  <2> QED BY <1>1 DEF Fields
<1>3. Fields(n4) /\ n4.pc = pc
  <2> HIDE DEF n3
  <2> QED BY <1>2 DEF Fields
<1>4. Fields(n5) /\ n5.pc = pc
  <2> HIDE DEF n4
  <2> QED BY <1>3 DEF Fields
<1>5. Fields([n5 EXCEPT !.tries = 1]) /\ [n5 EXCEPT !.tries = 1].pc = pc
  <2> HIDE DEF n5
  <2> QED BY <1>4 DEF Fields
<1> QED BY <1>5

LEMMA PropagateStep ==
  ASSUME IInv, NEW t \in Caller, Propagate(t)
  PROVE  IInv'
<1>0. PICK c : c = call[t] /\ Fields(c) BY DEF IInv
<1>1. c.pc = "failing" /\ UNCHANGED <<async, url, socks, ws>> BY <1>0 DEF Propagate
<1>2. Put(t, Leave(c, "raised")) \/ Put(t, [c EXCEPT !.frames = Front(c.frames)])
  BY <1>0 DEF Propagate
<1>3. Steps(t) /\ call'[t].pc \in {"raised", "failing"}
  <2>1. Fields(Leave(c, "raised")) /\ Leave(c, "raised").pc = "raised"
    BY <1>0, LeaveShape
  <2> DEFINE d == [c EXCEPT !.frames = Front(c.frames)]
  <2>2. Fields(d) /\ d.pc = "failing" BY <1>0, <1>1 DEF Fields
  <2> HIDE DEF d
  <2> QED BY <1>2, <2>1, <2>2, PutSteps DEF d
<1> QED BY <1>1, <1>3, QuietStep

LEMMA CatchStep ==
  ASSUME IInv, NEW t \in Caller, Catch(t)
  PROVE  IInv'
<1>0. PICK c : c = call[t] /\ Fields(c) BY DEF IInv
<1>1. c.pc = "failing" /\ UNCHANGED <<async, url, socks, ws>> BY <1>0 DEF Catch
<1> DEFINE archive == c.error = "StateDiscardedError"
           to == NextChain(archive)
           sock == Len(socks)
           none == [c EXCEPT !.out = @ \cup {archive}]
           none2 == [none EXCEPT !.error = "RuntimeError"]
           none3 == [none EXCEPT !.error = "MaxRetriesExceeded"]
           c2 == [c EXCEPT !.pc = "switching"]
           c3 == [c2 EXCEPT !.to = to]
           c4 == [c3 EXCEPT !.frames[Len(c.frames)].stage = "join"]
           stopped == Leave(none2, "raised")
           raised == [none3 EXCEPT !.frames = Front(@)]
           switching == [c4 EXCEPT !.sock = sock]
<1>2. Fields(none) /\ none.pc = "failing" BY <1>0, <1>1 DEF Fields
<1>3. Fields(none2) /\ Fields(none3) /\ none3.pc = "failing"
  <2> HIDE DEF none
  <2> QED BY <1>2 DEF Fields
<1>4. Fields(c2) /\ c2.pc = "switching" BY <1>0, <1>1 DEF Fields
<1>5. Fields(c3) /\ c3.pc = "switching"
  <2> HIDE DEF c2
  <2> QED BY <1>4 DEF Fields
<1>6. Fields(c4) /\ c4.pc = "switching"
  <2> HIDE DEF c3
  <2> QED BY <1>5 DEF Fields
<1>7. Fields(stopped) /\ stopped.pc = "raised"
  <2> HIDE DEF none2
  <2> QED BY <1>3, LeaveShape
<1>8. Fields(raised) /\ raised.pc = "failing"
  <2> HIDE DEF none3
  <2> QED BY <1>3 DEF Fields
<1>9. Fields(switching) /\ switching.pc = "switching"
  <2> HIDE DEF c4
  <2> QED BY <1>6 DEF Fields
<1>10. Put(t, stopped) \/ Put(t, raised) \/ Put(t, switching) BY <1>0 DEF Catch
<1> HIDE DEF stopped, raised, switching
<1> QED BY <1>1, <1>7, <1>8, <1>9, <1>10, PutSteps, QuietStep

LEMMA AsyncStep ==
  ASSUME IInv, NEW t \in Caller,
         Dial(t) \/ AsyncAnswer(t) \/ (\E depth \in 1..Depth : AsyncCall(t, depth))
  PROVE  IInv'
<1>0. PICK c : c = call[t] /\ Fields(c) BY DEF IInv
<1>1. async /\ UNCHANGED <<async, url, socks, ws>> BY DEF Dial, AsyncAnswer, AsyncCall
<1>2. Steps(t)
  <2>1. CASE Dial(t)
    <3> DEFINE end == socks[c.sock]
    <3>1. Put(t, [c EXCEPT !.pc = "sent", !.end = end]) \/ Put(t, Raise(c, Refusal(end)))
      BY <1>0, <2>1 DEF Dial
    <3>2. Fields([c EXCEPT !.pc = "sent", !.end = end]) /\ Fields(Raise(c, Refusal(end)))
      BY <1>0, SentShape, RaiseShape
    <3> QED BY <3>1, <3>2, PutSteps
  <2>2. CASE AsyncAnswer(t)
    <3>1. \/ Put(t, Leave(c, "returned")) \/ Put(t, Raise(c, "StateDiscardedError"))
          \/ Put(t, Raise(c, "ConnectionError"))
      BY <1>0, <2>2 DEF AsyncAnswer
    <3>2. /\ Fields(Leave(c, "returned")) /\ Fields(Raise(c, "StateDiscardedError"))
          /\ Fields(Raise(c, "ConnectionError"))
      BY <1>0, LeaveShape, RaiseShape
    <3> QED BY <3>1, <3>2, PutSteps
  <2>3. ASSUME NEW depth \in 1..Depth, AsyncCall(t, depth) PROVE Steps(t)
    <3> DEFINE d == [NoCall EXCEPT !.pc = "dial", !.depth = depth, !.sock = Len(socks),
                                   !.frames = Begin(depth), !.tries = 1]
    <3>1. Fields(d) BY NewCallShape
    <3>2. Put(t, d) BY <2>3 DEF AsyncCall
    <3> HIDE DEF d
    <3> QED BY <3>1, <3>2, PutSteps
  <2> QED BY <2>1, <2>2, <2>3
<1> QED BY <1>1, <1>2, QuietStep

\* The new Websocket is the last, and to the chain that is now self.url.
LEMMA AsyncSwitchStep ==
  ASSUME IInv, NEW t \in Caller, AsyncSwitch(t)
  PROVE  IInv'
<1>1. \A u \in Caller : Fields(call[u]) BY DEF IInv
<1>2. Fields([Rerun(call[t]) EXCEPT !.sock = Len(socks) + 1])
  <2>1. PICK c : c = call[t] /\ Fields(c) BY <1>1
  <2>2. PICK d : d = Rerun(c) /\ Fields(d) BY <2>1, RerunShape
  <2>3. Fields([d EXCEPT !.sock = Len(socks) + 1]) BY <2>2 DEF Fields
  <2> QED BY <2>1, <2>2, <2>3
<1>3. \A u \in Caller : Fields([call[u] EXCEPT !.pc = "stranded"])
  <2> TAKE u \in Caller
  <2>1. PICK c : c = call[u] /\ Fields(c) BY <1>1
  <2> QED BY <2>1 DEF Fields
<1>4. call' = [u \in Caller |-> call'[u]] BY DEF AsyncSwitch
<1>5. ASSUME NEW u \in Caller PROVE Fields(call'[u])
  BY <1>1, <1>2, <1>3 DEF AsyncSwitch
<1>6. socks' = Append(socks, call[t].to) /\ url' = call[t].to BY DEF AsyncSwitch
<1>7. (\E S : socks' \in Seq(S)) /\ Last(socks') = url' BY <1>6, LastSock DEF IInv
<1>8. async /\ UNCHANGED <<async, ws>> BY DEF AsyncSwitch
<1> QED BY <1>4, <1>5, <1>7, <1>8 DEF IInv
-----------------------------------------------------------------------------
(***************************************************************************)
(* The synchronous interface.                                              *)
(***************************************************************************)

\* connect() hands its connection to the request, or goes on to initialize().
LEMMA ConnectedShape ==
  ASSUME NEW c, Fields(c), NEW end
  PROVE  /\ Fields(Connected(c, end)) /\ Connected(c, end).out = c.out
         /\ Connected(c, end).pc = "sent" => Connected(c, end).end = end
<1> DEFINE rest == [c EXCEPT !.frames = Front(@)]
           r2 == [rest EXCEPT !.pc = "sent"]
           r3 == [r2 EXCEPT !.end = end]
           r4 == [r3 EXCEPT !.open = TRUE]
           init == [rest EXCEPT !.frames[Len(rest.frames)].stage = "init"]
           pushed == Push(init, Begin(1), "connect")
<1>1. Fields(rest) /\ rest.out = c.out BY DEF Fields
<1>2. Fields(r2) /\ Fields(init) /\ r2.out = c.out /\ init.out = c.out
  <2> HIDE DEF rest
  <2> QED BY <1>1 DEF Fields
<1>3. Fields(r3) /\ r3.end = end /\ r3.out = c.out
  <2> HIDE DEF r2
  <2> QED BY <1>2 DEF Fields
<1>4. Fields(r4) /\ r4.end = end /\ r4.out = c.out
  <2> HIDE DEF r3
  <2> QED BY <1>3, OpenSet
<1>5. Fields(pushed) /\ pushed.pc \in {"connect", "raised"} /\ pushed.out = c.out
  <2> HIDE DEF init
  <2> QED BY <1>2, PushShape
<1>6. Connected(c, end) = IF Last(rest.frames).of = "request" THEN r4 ELSE pushed
  BY DEF Connected
<1> HIDE DEF r4, pushed, rest
<1> QED BY <1>4, <1>5, <1>6

\* An answer ends the call, or lets the method run again.
LEMMA AnsweredShape ==
  ASSUME NEW c, Fields(c)
  PROVE  /\ Fields(Answered(c)) /\ Answered(c).pc # "sent"
         /\ Answered(c).out = c.out
<1> DEFINE inits == {i \in DOMAIN c.frames :
                       c.frames[i].of # "request" /\ c.frames[i].stage = "init"}
           top == CHOOSE i \in inits : \A j \in inits : j <= i
           frames == SubSeq(c.frames, 1, top)
           d == [c EXCEPT !.frames = frames]
<1>1. Fields(d) /\ d.out = c.out
  <2> HIDE DEF frames
  <2> QED BY FramesSet
<1>2. /\ Fields(Rerun(d)) /\ Rerun(d).pc \in {"connect", "dial", "raised"}
      /\ Rerun(d).out = c.out
  <2> HIDE DEF d
  <2> QED BY <1>1, RerunShape
<1>3. /\ Fields(Leave(c, "returned")) /\ Leave(c, "returned").pc = "returned"
      /\ Leave(c, "returned").out = c.out
  BY LeaveShape
<1>4. Answered(c) = IF inits = {} THEN Leave(c, "returned") ELSE Rerun(d)
  BY DEF Answered
<1> HIDE DEF d, inits
<1> QED BY <1>2, <1>3, <1>4

\* The call steps, and its new record sends no request unless to self.url.
LEMMA MainStep ==
  ASSUME IInv, ~async, NEW c, Fields(c), Put(Main, c), c.pc = "sent" => c.end = url',
         UNCHANGED <<async, socks>>,
         ws' = [end |-> ws'.end, open |-> ws'.open], ws'.open \in BOOLEAN,
         ws'.open => ws'.end = url'
  PROVE  IInv'
<1>1. Main \in Caller BY DEF Caller
<1>2. Steps(Main) /\ call'[Main] = c BY <1>1, PutSteps
<1>3. \A u \in Caller : Fields(call'[u]) BY <1>2 DEF IInv, Steps
<1> QED BY <1>2, <1>3 DEF IInv, Fields, Steps

LEMMA SyncCallStep ==
  ASSUME IInv, NEW depth \in 1..Depth, SyncCall(depth)
  PROVE  IInv'
<1> DEFINE d == [NoCall EXCEPT !.pc = "connect", !.depth = depth,
                               !.frames = Begin(depth), !.tries = 1]
           n2 == [NoCall EXCEPT !.pc = "connect"]
           n3 == [n2 EXCEPT !.depth = depth]
           n4 == [n3 EXCEPT !.frames = Begin(depth)]
<1>0. Fields(NoCall) BY DEF Fields, NoCall
<1>1. Fields(n2) /\ n2.pc = "connect" BY <1>0 DEF Fields
<1>2. Fields(n3) /\ n3.pc = "connect"
  <2> HIDE DEF n2
  <2> QED BY <1>1 DEF Fields
<1>3. Fields(n4) /\ n4.pc = "connect"
  <2> HIDE DEF n3
  <2> QED BY <1>2 DEF Fields
<1>4. Fields(d) /\ d.pc = "connect"
  <2>1. d = [n4 EXCEPT !.tries = 1] OBVIOUS
  <2> HIDE DEF d, n4
  <2> QED BY <1>3, <2>1 DEF Fields
<1>5. ~async /\ Put(Main, d) /\ UNCHANGED <<async, url, socks, ws>> BY DEF SyncCall
<1> HIDE DEF d
<1> QED BY <1>4, <1>5, MainStep DEF IInv

LEMMA SyncSwitchStep ==
  ASSUME IInv, SyncSwitch
  PROVE  IInv'
<1>0. Main \in Caller BY DEF Caller
<1>1. PICK c : c = call[Main] /\ Fields(c) BY <1>0 DEF IInv
<1> DEFINE d == Push(c, <<Connecting(TRUE)>>, "connect")
<1>2. Fields(d) /\ d.pc \in {"connect", "raised"} BY <1>1, PushShape
<1>3. /\ ~async /\ Put(Main, d) /\ ws' = [ws EXCEPT !.open = FALSE]
      /\ UNCHANGED <<async, socks>>
  BY <1>1 DEF SyncSwitch
<1>4. ws' = [end |-> ws'.end, open |-> ws'.open] /\ ws'.open = FALSE BY <1>3 DEF IInv
<1> HIDE DEF d
<1> QED BY <1>2, <1>3, <1>4, MainStep

LEMMA ConnectStep ==
  ASSUME IInv, Connect
  PROVE  IInv'
<1>0. Main \in Caller BY DEF Caller
<1>1. PICK c : c = call[Main] /\ Fields(c) BY <1>0 DEF IInv
<1>2. ~async /\ UNCHANGED <<async, url, socks>> BY DEF Connect
<1>3. CASE ws.open /\ Put(Main, Connected(c, ws.end)) /\ UNCHANGED ws
  <2>1. ws.end = url BY <1>2, <1>3 DEF IInv
  <2>2. /\ Fields(Connected(c, ws.end))
        /\ Connected(c, ws.end).pc = "sent" => Connected(c, ws.end).end = url'
    BY <1>1, <1>2, <2>1, ConnectedShape
  <2> QED BY <1>2, <1>3, <2>1, <2>2, MainStep DEF IInv
<1>4. CASE /\ ws' \in {ws, [end |-> url, open |-> TRUE]}
           /\ Put(Main, Connected(c, url)) \/ Put(Main, Raise(c, Refusal(url)))
  <2>1. /\ Fields(Connected(c, url)) /\ Fields(Raise(c, Refusal(url)))
        /\ Connected(c, url).pc = "sent" => Connected(c, url).end = url'
        /\ Raise(c, Refusal(url)).pc = "failing"
    BY <1>1, <1>2, ConnectedShape, RaiseShape
  <2>2. /\ ws' = [end |-> ws'.end, open |-> ws'.open] /\ ws'.open \in BOOLEAN
        /\ ws'.open => ws'.end = url'
    <3>1. CASE ws' = ws BY <1>2, <3>1 DEF IInv
    <3>2. CASE ws' = [end |-> url, open |-> TRUE] BY <1>2, <3>2
    <3> QED BY <1>4, <3>1, <3>2
  <2> QED BY <1>2, <1>4, <2>1, <2>2, MainStep
<1>5. \/ ws.open /\ Put(Main, Connected(c, ws.end)) /\ UNCHANGED ws
      \/ /\ ws' \in {ws, [end |-> url, open |-> TRUE]}
         /\ Put(Main, Connected(c, url)) \/ Put(Main, Raise(c, Refusal(url)))
  BY <1>1 DEF Connect
<1> QED BY <1>3, <1>4, <1>5

LEMMA RecvStep ==
  ASSUME IInv, Recv
  PROVE  IInv'
<1>0. Main \in Caller BY DEF Caller
<1>1. PICK c : c = call[Main] /\ Fields(c) BY <1>0 DEF IInv
<1>2. ~async /\ UNCHANGED <<async, url, socks, ws>> BY DEF Recv
<1> DEFINE frames == Append(Front(c.frames), Request(Last(c.frames).attempt + 1))
           resent == [c EXCEPT !.frames = frames]
           again == Push(resent, <<Connecting(TRUE)>>, "connect")
<1>3. Fields(resent)
  <2> HIDE DEF frames
  <2> QED BY <1>1, FramesSet
<1>4. Fields(again) /\ again.pc # "sent"
  <2> HIDE DEF resent
  <2> QED BY <1>3, PushShape
<1>5. \/ Put(Main, Answered(c)) \/ Put(Main, again)
      \/ Put(Main, Raise(c, "StateDiscardedError")) \/ Put(Main, Raise(c, "MaxRetriesExceeded"))
  BY <1>1 DEF Recv
<1>6. /\ Fields(Answered(c)) /\ Answered(c).pc # "sent"
      /\ \A e : Fields(Raise(c, e)) /\ Raise(c, e).pc = "failing"
  BY <1>1, AnsweredShape, RaiseShape
<1> HIDE DEF again
<1> QED BY <1>2, <1>4, <1>5, <1>6, MainStep DEF IInv

LEMMA FlipStep ==
  ASSUME IInv, NEW c, NEW state, Flip(c, state)
  PROVE  IInv'
<1>0. Main \in Caller BY DEF Caller
<1>1. PICK m : m = call[Main] /\ Fields(m) BY <1>0 DEF IInv
<1> DEFINE d == [m EXCEPT !.open = FALSE]
<1>2. Fields(d) /\ d.pc = m.pc /\ d.end = m.end BY <1>1, OpenSet
<1>3. /\ call' \in {call, [call EXCEPT ![Main] = d]}
      /\ ws' \in {ws, [ws EXCEPT !.open = FALSE]} /\ UNCHANGED <<async, url, socks>>
  BY <1>1 DEF Flip
<1>4. /\ ws' = [end |-> ws'.end, open |-> ws'.open] /\ ws'.open \in BOOLEAN
      /\ ws'.open => ws.open /\ ws'.end = ws.end
  BY <1>3 DEF IInv
<1>5. call' = [u \in Caller |-> call'[u]] /\ \A u \in Caller : Fields(call'[u])
  <2> HIDE DEF d
  <2> QED BY <1>2, <1>3 DEF IInv
<1>6. call'[Main].pc = m.pc /\ call'[Main].end = m.end
  <2> HIDE DEF d
  <2> QED BY <1>0, <1>1, <1>2, <1>3 DEF IInv
<1> QED BY <1>1, <1>3, <1>4, <1>5, <1>6 DEF IInv

LEMMA NextStep == IInv /\ [Next]_vars => IInv'
<1> SUFFICES ASSUME IInv, [Next]_vars PROVE IInv' OBVIOUS
<1>1. ASSUME NEW t \in Caller, Step(t) PROVE IInv'
  BY <1>1, PropagateStep, CatchStep, AsyncSwitchStep, AsyncStep, SyncSwitchStep,
     ConnectStep, RecvStep DEF Step
<1>2. ASSUME NEW t \in Task, NEW depth \in 1..Depth, AsyncCall(t, depth) PROVE IInv'
  BY <1>2, AsyncStep DEF Caller
<1>3. ASSUME NEW depth \in 1..Depth, SyncCall(depth) PROVE IInv'
  BY <1>3, SyncCallStep
<1>4. ASSUME NEW c \in Chain, NEW state, Flip(c, state) PROVE IInv'
  BY <1>4, FlipStep
<1>5. CASE UNCHANGED vars BY <1>5 DEF IInv, Fields, vars
<1> QED BY <1>1, <1>2, <1>3, <1>4, <1>5 DEF Next

\* After any failovers within failovers, a request is on a connection to the
\* chain that self.url names (substrate_addons.py:193-218, 331-364).
THEOREM RequestsGoToUrl == Spec => []RequestGoesToUrl
<1>1. IInv => RequestGoesToUrl BY DEF IInv, RequestGoesToUrl
<1> QED BY <1>1, InitInv, NextStep, PTL DEF Spec
-----------------------------------------------------------------------------
(***************************************************************************)
(* The frames of a call.  The own frames of a call are the methods at the  *)
(* bottom, up to the first that is joining another chain; of what is above *)
(* that one, nothing is a request of the call itself.                      *)
(***************************************************************************)

Stages == {"first", "join", "init", "again"}
Frame == [of : {"method"}, stage : Stages, inner : Nat]
         \cup [of : {"connect"}, stage : Stages, fresh : BOOLEAN]
         \cup [of : {"request"}, attempt : Nat]

Busy(f) == f.of # "request" /\ f.stage \in {"join", "init"}
Used(f) == f.of # "request" /\ f.stage \in {"join", "init", "again"}

\* The first m frames are the call's own, which has D when it runs.
Own1(f, D, m) ==
  /\ m \in 0..D /\ m <= Len(f) /\ (f # <<>> => m >= 1)
  /\ \A i \in 1..m : f[i].of = "method" /\ f[i].inner = D - i
  /\ \A i \in 1..m - 1 : f[i].stage \in {"first", "again"}
  /\ \A i \in m + 1..Len(f) :
       f[i].of = "method" => f[i].inner = 0 /\ \E j \in 1..i - 1 : Busy(f[j])

\* u[k]: how many requests there may have been when k own frames are left.  A
\* frame that has not begun its second run has room for another.
Budget(f, D, m, u, tries) ==
  /\ u \in [Nat -> Nat] /\ \A k \in 0..D : u[k] <= Runs[D]
  /\ \A k \in 1..m : u[k] + (IF f[k].stage = "again" THEN 0 ELSE Runs[D - k]) <= u[k - 1]
  /\ tries <= u[m]

\* connect() has been called by a request, or by a frame that is joining.
Linked(f) ==
  \A i \in 1..Len(f) - 1 :
    f[i + 1].of = "connect" /\ f[i].of # "request" => f[i].stage = "join"

Good(f, D, tries) ==
  /\ f \in Seq(Frame) /\ D \in Nat \ {0} /\ tries \in Nat /\ Linked(f)
  /\ \E m, u : Own1(f, D, m) /\ Budget(f, D, m, u, tries)

LEMMA RunsUnfolds ==
  /\ Runs[0] = 1
  /\ \A n \in Nat : Runs[n + 1] = 2 * Runs[n] /\ Runs[n] \in Nat /\ Runs[n] >= 1
<1> DEFINE body(f, n) == IF n = 0 THEN 1 ELSE 2 * f[n - 1]
           P(f) == f = [n \in Nat |-> body(f, n)]
           step == [r \in Nat |-> 2 * r]
<1>1. PICK f : Iterates(f, Nat, step, 1)
  <2>1. step \in [Nat -> Nat] /\ 1 \in Nat OBVIOUS
  <2> HIDE DEF step
  <2> QED BY <2>1, Iteration
<1>2. f \in [Nat -> Nat] /\ f[0] = 1 /\ \A n \in Nat : f[n + 1] = step[f[n]]
  BY <1>1 DEF Iterates
<1>3. P(f)
  <2>1. ASSUME NEW n \in Nat PROVE f[n] = body(f, n)
    <3>1. CASE n = 0 BY <1>2, <3>1
    <3>2. CASE n # 0
      <4>1. n - 1 \in Nat /\ (n - 1) + 1 = n BY <3>2
      <4>2. f[n] = step[f[n - 1]] /\ f[n - 1] \in Nat BY <1>2, <4>1
      <4> QED BY <3>2, <4>2
    <3> QED BY <3>1, <3>2
  <2>2. f = [n \in Nat |-> f[n]] BY <1>2
  <2> HIDE DEF body
  <2> QED BY <2>1, <2>2
<1>4. Runs = CHOOSE g : P(g) BY DEF Runs
<1>5. P(Runs) BY <1>3, <1>4
<1>6. ASSUME NEW g, P(g)
      PROVE  /\ g[0] = 1
             /\ \A n \in Nat : g[n + 1] = 2 * g[n] /\ g[n] \in Nat /\ g[n] >= 1
  <2>1. \A n \in Nat : g[n] = body(g, n)
    <3> HIDE DEF body
    <3> QED BY <1>6
  <2>2. g[0] = 1 BY <2>1
  <2>3. \A n \in Nat : g[n + 1] = 2 * g[n]
    <3> TAKE n \in Nat
    <3>1. n + 1 \in Nat /\ n + 1 # 0 /\ (n + 1) - 1 = n OBVIOUS
    <3> QED BY <2>1, <3>1
  <2> DEFINE S == {n \in Nat : g[n] \in Nat /\ g[n] >= 1}
  <2>4. 0 \in S BY <2>2
  <2>5. ASSUME NEW n \in Nat, n \in S PROVE n + 1 \in S BY <2>3, <2>5
  <2>6. \A n \in Nat : n \in S
    <3> HIDE DEF S
    <3> QED BY <2>4, <2>5, NatSet
  <2> QED BY <2>2, <2>3, <2>6
<1> HIDE DEF P
<1> QED BY <1>5, <1>6

LEMMA RunsDown ==
  ASSUME NEW D \in Nat, NEW k \in 1..D
  PROVE  /\ Runs[D - (k - 1)] = 2 * Runs[D - k]
         /\ Runs[D - k] \in Nat /\ Runs[D - k] >= 1
<1>1. D - k \in Nat /\ D - (k - 1) = (D - k) + 1 OBVIOUS
<1> QED BY <1>1, RunsUnfolds

\* What is left of the frames after some have been popped.
LEMMA CutGood ==
  ASSUME NEW f, NEW D, NEW tries, Good(f, D, tries), NEW i \in Nat, i <= Len(f),
         NEW g \in Seq(Frame), Len(g) = i, \A k \in 1..i : g[k] = f[k],
         i = Len(f) - 1 \/ (i >= 1 /\ Busy(f[i]))
  PROVE  Good(g, D, tries)
<1>0. f \in Seq(Frame) /\ D \in Nat \ {0} /\ tries \in Nat /\ Linked(f) /\ Len(f) \in Nat
  BY LenProperties DEF Good
<1>1. PICK m, u : Own1(f, D, m) /\ Budget(f, D, m, u, tries) BY DEF Good
<1>2. m \in Nat /\ m <= D /\ m <= Len(f) BY <1>0, <1>1 DEF Own1
<1>3. m <= i \/ m = i + 1
  <2>1. CASE i = Len(f) - 1 BY <1>0, <1>2, <2>1
  <2>2. CASE i >= 1 /\ Busy(f[i])
    <3>1. ~(i <= m - 1) BY <1>1, <1>2, <2>2 DEF Own1, Busy
    <3> QED BY <1>2, <3>1
  <2> QED BY <2>1, <2>2
<1>4. g = <<>> <=> i = 0 BY EmptySeq
<1>5. Linked(g)
  <2>1. \A k \in 1..Len(g) - 1 : k \in 1..Len(f) - 1 /\ k \in 1..i /\ k + 1 \in 1..i
    BY <1>0
  <2> QED BY <1>0, <2>1 DEF Linked
<1>6. CASE m <= i
  <2>1. Own1(g, D, m)
    <3>1. g # <<>> => m >= 1
      <4>1. i # 0 => f # <<>> BY <1>0, EmptySeq
      <4> QED BY <1>1, <1>4, <4>1 DEF Own1
    <3>2. \A k \in 1..m : k \in 1..i BY <1>6, <1>2
    <3>3. \A k \in m + 1..Len(g) : k \in m + 1..Len(f) /\ k \in 1..i
                                   /\ \A j \in 1..k - 1 : j \in 1..i
      BY <1>0, <1>2
    <3>4. \A k \in 1..m : g[k].of = "method" /\ g[k].inner = D - k
      BY <1>1, <3>2 DEF Own1
    <3>5. \A k \in 1..m - 1 : k \in 1..m BY <1>2
    <3>6. \A k \in 1..m - 1 : g[k].stage \in {"first", "again"}
      BY <1>1, <3>2, <3>5 DEF Own1
    <3>7. ASSUME NEW k \in m + 1..Len(g), g[k].of = "method"
          PROVE  g[k].inner = 0 /\ \E j \in 1..k - 1 : Busy(g[j])
      <4>1. f[k].inner = 0 /\ \E j \in 1..k - 1 : Busy(f[j])
        BY <1>1, <3>3, <3>7 DEF Own1
      <4>2. g[k] = f[k] /\ \A j \in 1..k - 1 : g[j] = f[j] BY <3>3
      <4> QED BY <4>1, <4>2
    <3> QED BY <1>1, <1>2, <1>6, <3>1, <3>4, <3>6, <3>7 DEF Own1
  <2>2. Budget(g, D, m, u, tries)
    <3>1. \A k \in 1..m : g[k] = f[k] BY <1>2, <1>6
    <3> QED BY <1>1, <3>1 DEF Budget
  <2> QED BY <1>0, <1>5, <2>1, <2>2 DEF Good
<1>7. CASE m = i + 1
  <2>0. i \in 0..D /\ m \in 1..m /\ m - 1 = i /\ m <= D BY <1>0, <1>2, <1>7
  <2>1. Own1(g, D, i)
    <3>1. \A k \in 1..i : k \in 1..m /\ k \in 1..m - 1 BY <1>7, <1>2
    <3>2. \A k \in 1..i : g[k].of = "method" /\ g[k].inner = D - k
      BY <1>1, <3>1 DEF Own1
    <3>3. \A k \in 1..i - 1 : k \in 1..i BY <1>2
    <3>4. \A k \in 1..i - 1 : g[k].stage \in {"first", "again"}
      BY <1>1, <3>1, <3>3 DEF Own1
    <3>5. i + 1..Len(g) = {} OBVIOUS
    <3>6. g # <<>> => i >= 1 BY <1>4
    <3> QED BY <2>0, <3>2, <3>4, <3>5, <3>6 DEF Own1
  <2>2. tries <= u[i]
    <3>1. u[m] + (IF f[m].stage = "again" THEN 0 ELSE Runs[D - m]) <= u[i] /\ tries <= u[m]
      BY <1>1, <2>0 DEF Budget
    <3>2. u[m] \in Nat /\ u[i] \in Nat /\ Runs[D - m] \in Nat
      <4>1. u \in [Nat -> Nat] BY <1>1 DEF Budget
      <4>2. m \in 1..D BY <1>2, <1>7, <2>0
      <4> QED BY <1>0, <1>2, <4>1, <4>2, RunsDown
    <3> QED BY <1>0, <3>1, <3>2
  <2>3. Budget(g, D, i, u, tries)
    <3>1. \A k \in 1..i : k \in 1..m /\ g[k] = f[k] BY <1>7, <1>2
    <3> QED BY <1>1, <2>2, <3>1 DEF Budget
  <2> QED BY <1>0, <1>5, <2>1, <2>3 DEF Good
<1> QED BY <1>3, <1>6, <1>7

\* Two runs of the frame that is on top; the rest as it was.
TopSet(g, f, stage) ==
  /\ g \in Seq(Frame) /\ Len(g) = Len(f)
  /\ \A k \in 1..Len(f) - 1 : g[k] = f[k]
  /\ g[Len(f)] = [f[Len(f)] EXCEPT !.stage = stage]

LEMMA StageSet ==
  ASSUME NEW x \in Frame, x.of # "request", NEW stage \in Stages
  PROVE  LET y == [x EXCEPT !.stage = stage]
         IN /\ y \in Frame /\ y.of = x.of /\ y.stage = stage
            /\ x.of = "method" => y.inner = x.inner
            /\ x.of = "connect" => y.fresh = x.fresh
<1>1. CASE x \in [of : {"method"}, stage : Stages, inner : Nat]
  <2>1. [x EXCEPT !.stage = stage] \in [of : {"method"}, stage : Stages, inner : Nat]
    BY <1>1
  <2> QED BY <1>1, <2>1 DEF Frame
<1>2. CASE x \in [of : {"connect"}, stage : Stages, fresh : BOOLEAN]
  <2>1. [x EXCEPT !.stage = stage] \in [of : {"connect"}, stage : Stages, fresh : BOOLEAN]
    BY <1>2
  <2> QED BY <1>2, <2>1 DEF Frame
<1>3. CASE x \in [of : {"request"}, attempt : Nat] BY <1>3
<1> QED BY <1>1, <1>2, <1>3 DEF Frame

LEMMA TopSetShape ==
  ASSUME NEW f \in Seq(Frame), f # <<>>, Last(f).of # "request", NEW stage \in Stages
  PROVE  TopSet([f EXCEPT ![Len(f)].stage = stage], f, stage)
<1>1. Len(f) \in Nat /\ Len(f) >= 1 /\ Len(f) \in 1..Len(f) BY EmptySeq, LenProperties
<1>2. PICK x \in Frame : x = f[Len(f)] BY <1>1, ElementOfSeq
<1>3. [x EXCEPT !.stage = stage] \in Frame BY <1>2, StageSet DEF Last
<1>4. PICK y \in Frame : y = [x EXCEPT !.stage = stage] BY <1>3
<1>5. [f EXCEPT ![Len(f)].stage = stage] = [f EXCEPT ![Len(f)] = y] BY <1>2, <1>4
<1>6. /\ [f EXCEPT ![Len(f)] = y] \in Seq(Frame)
      /\ Len([f EXCEPT ![Len(f)] = y]) = Len(f)
      /\ \A k \in 1..Len(f) :
           [f EXCEPT ![Len(f)] = y][k] = IF k = Len(f) THEN y ELSE f[k]
  BY <1>1, ExceptSeq, LenProperties
<1>7. \A k \in 1..Len(f) - 1 : k \in 1..Len(f) /\ k # Len(f) BY <1>1
<1> QED BY <1>1, <1>2, <1>4, <1>5, <1>6, <1>7 DEF TopSet

\* Another run of the frame on top, that joins another chain or initializes.
LEMMA StageGood ==
  ASSUME NEW f, NEW D, NEW tries, Good(f, D, tries), f # <<>>, NEW stage \in {"join", "init"},
         f[Len(f)].of # "request", f[Len(f)].stage # "again", NEW g, TopSet(g, f, stage)
  PROVE  Good(g, D, tries)
<1>0. /\ f \in Seq(Frame) /\ D \in Nat \ {0} /\ tries \in Nat /\ Linked(f)
      /\ Len(f) \in Nat /\ Len(f) >= 1
  BY EmptySeq DEF Good
<1>1. PICK m, u : Own1(f, D, m) /\ Budget(f, D, m, u, tries) BY DEF Good
<1>2. m \in Nat /\ m >= 1 /\ m <= D /\ m <= Len(f) BY <1>0, <1>1 DEF Own1
<1>3. PICK n : n = Len(f) /\ n \in Nat /\ n >= 1 BY <1>0
<1>4. f[n] \in Frame BY <1>0, <1>3, ElementOfSeq
<1>5. /\ g \in Seq(Frame) /\ Len(g) = n /\ \A k \in 1..n - 1 : g[k] = f[k]
      /\ g[n] = [f[n] EXCEPT !.stage = stage]
  BY <1>3 DEF TopSet
<1>6. /\ g[n].of = f[n].of /\ g[n].stage = stage /\ Busy(g[n])
      /\ f[n].of = "method" => g[n].inner = f[n].inner
  BY <1>3, <1>4, <1>5, StageSet DEF Stages, Busy
<1>7. \A k \in 1..n : /\ g[k].of = f[k].of
                      /\ f[k].of = "method" => g[k].inner = f[k].inner
                      /\ Busy(f[k]) => Busy(g[k])
                      /\ g[k].stage = "again" <=> f[k].stage = "again"
  <2> TAKE k \in 1..n
  <2>1. CASE k = n BY <1>3, <1>6, <2>1
  <2>2. CASE k \in 1..n - 1 BY <1>5, <2>2
  <2> QED BY <1>3, <2>1, <2>2
<1>8. Linked(g)
  <2>1. \A k \in 1..n - 1 : k \in 1..n /\ k + 1 \in 1..n /\ g[k] = f[k] BY <1>3, <1>5
  <2> QED BY <1>0, <1>3, <1>5, <1>7, <2>1 DEF Linked
<1>9. Own1(g, D, m)
  <2>1. g # <<>> => m >= 1 BY <1>2
  <2>2. \A k \in 1..m : k \in 1..n BY <1>2, <1>3
  <2>3. \A k \in 1..m - 1 : k \in 1..n - 1 BY <1>2, <1>3
  <2>4. \A k \in m + 1..n : k \in 1..n /\ \A j \in 1..k - 1 : j \in 1..n BY <1>2, <1>3
  <2>5. \A k \in 1..m : g[k].of = "method" /\ g[k].inner = D - k
    BY <1>1, <1>7, <2>2 DEF Own1
  <2>6. \A k \in 1..m - 1 : g[k].stage \in {"first", "again"}
    BY <1>1, <1>5, <2>3 DEF Own1
  <2>7. ASSUME NEW k \in m + 1..n, g[k].of = "method"
        PROVE  g[k].inner = 0 /\ \E j \in 1..k - 1 : Busy(g[j])
    <3>1. f[k].of = "method" BY <1>7, <2>4, <2>7
    <3>2. f[k].inner = 0 /\ \E j \in 1..k - 1 : Busy(f[j]) BY <1>1, <1>3, <3>1 DEF Own1
    <3> QED BY <1>7, <2>4, <3>1, <3>2
  <2> QED BY <1>1, <1>2, <1>3, <1>5, <2>1, <2>5, <2>6, <2>7 DEF Own1
<1>10. Budget(g, D, m, u, tries)
  <2>1. \A k \in 1..m : k \in 1..n BY <1>2, <1>3
  <2>2. \A k \in 1..m : (g[k].stage = "again") = (f[k].stage = "again") BY <1>7, <2>1
  <2> QED BY <1>1, <2>2 DEF Budget
<1> QED BY <1>0, <1>5, <1>8, <1>9, <1>10 DEF Good

\* Frames on top of the others: requests and connect(), and below them a method
\* without others inside, when there is a busy frame already.
Above(h, f) ==
  /\ h \in Seq(Frame) /\ Linked(h)
  /\ \A i \in 1..Len(h) : h[i].of = "method" =>
       h[i].inner = 0 /\ \E j \in 1..Len(f) : Busy(f[j])
  /\ Len(h) >= 1 /\ h[1].of = "connect" /\ f[Len(f)].of # "request" =>
       f[Len(f)].stage = "join"

LEMMA PushGood ==
  ASSUME NEW f, NEW D, NEW tries, Good(f, D, tries), f # <<>>, NEW h, Above(h, f)
  PROVE  Good(f \o h, D, tries)
<1>0. /\ f \in Seq(Frame) /\ D \in Nat \ {0} /\ tries \in Nat /\ Linked(f)
      /\ Len(f) \in Nat /\ Len(f) >= 1 /\ h \in Seq(Frame) /\ Linked(h) /\ Len(h) \in Nat
  BY EmptySeq, LenProperties DEF Good, Above
<1>1. PICK m, u : Own1(f, D, m) /\ Budget(f, D, m, u, tries) BY DEF Good
<1>2. m \in Nat /\ m >= 1 /\ m <= D /\ m <= Len(f) BY <1>0, <1>1 DEF Own1
<1>3. PICK n : n = Len(f) /\ n \in Nat /\ n >= 1 BY <1>0
<1>4. PICK l : l = Len(h) /\ l \in Nat BY <1>0
<1>5. PICK g : g = f \o h OBVIOUS
<1>6. /\ g \in Seq(Frame) /\ Len(g) = n + l
      /\ \A k \in 1..n + l : g[k] = IF k <= n THEN f[k] ELSE h[k - n]
  BY <1>0, <1>3, <1>4, <1>5, ConcatProperties
<1>7. \A k \in 1..n : g[k] = f[k] BY <1>3, <1>4, <1>6
<1>8. \A k \in 1..l : g[n + k] = h[k]
  <2> TAKE k \in 1..l
  <2>1. n + k \in 1..n + l /\ ~(n + k <= n) /\ (n + k) - n = k BY <1>3, <1>4
  <2> QED BY <1>6, <2>1
<1>9. Linked(g)
  <2> SUFFICES ASSUME NEW k \in 1..Len(g) - 1, g[k + 1].of = "connect", g[k].of # "request"
               PROVE  g[k].stage = "join"
    BY DEF Linked
  <2>1. CASE k < n
    <3>1. k \in 1..n - 1 /\ k \in 1..n /\ k + 1 \in 1..n BY <1>3, <2>1
    <3> QED BY <1>0, <1>3, <1>7, <3>1 DEF Linked
  <2>2. CASE k = n
    <3>1. l >= 1 /\ 1 \in 1..l /\ k \in 1..n BY <1>3, <1>4, <1>6, <2>2
    <3> QED BY <1>3, <1>4, <1>7, <1>8, <2>2, <3>1 DEF Above
  <2>3. CASE k > n
    <3>0. /\ k - n \in 1..l - 1 /\ k - n \in 1..l /\ (k - n) + 1 \in 1..l
          /\ k = n + (k - n) /\ k + 1 = n + ((k - n) + 1)
      BY <1>3, <1>4, <1>6, <2>3
    <3>1. PICK i : /\ i = k - n /\ i \in 1..l - 1 /\ i \in 1..l /\ i + 1 \in 1..l
                   /\ k = n + i /\ k + 1 = n + (i + 1)
      BY <3>0
    <3>2. g[k] = h[i] /\ g[k + 1] = h[i + 1] BY <1>8, <3>1
    <3> QED BY <1>0, <1>4, <3>1, <3>2 DEF Linked
  <2> QED BY <1>3, <1>4, <1>6, <2>1, <2>2, <2>3
<1>10. Own1(g, D, m)
  <2>1. \A k \in 1..m : k \in 1..n BY <1>2, <1>3
  <2>2. \A k \in 1..m - 1 : k \in 1..n BY <1>2, <1>3
  <2>3. \A k \in 1..m : g[k].of = "method" /\ g[k].inner = D - k
    BY <1>1, <1>7, <2>1 DEF Own1
  <2>4. \A k \in 1..m - 1 : g[k].stage \in {"first", "again"}
    BY <1>1, <1>7, <2>2 DEF Own1
  <2>5. ASSUME NEW k \in m + 1..Len(g), g[k].of = "method"
        PROVE  g[k].inner = 0 /\ \E j \in 1..k - 1 : Busy(g[j])
    <3>1. CASE k <= n
      <4>1. k \in m + 1..n /\ k \in 1..n /\ \A j \in 1..k - 1 : j \in 1..n
        BY <1>2, <1>3, <3>1
      <4>2. f[k].inner = 0 /\ \E j \in 1..k - 1 : Busy(f[j])
        BY <1>1, <1>3, <1>7, <2>5, <4>1 DEF Own1
      <4> QED BY <1>7, <4>1, <4>2
    <3>2. CASE k > n
      <4>0. k - n \in 1..l /\ k = n + (k - n) /\ \A j \in 1..n : j \in 1..k - 1
        BY <1>2, <1>3, <1>4, <1>6, <3>2
      <4>1. PICK i : i \in 1..l /\ k = n + i /\ \A j \in 1..n : j \in 1..k - 1 BY <4>0
      <4>2. g[k] = h[i] BY <1>8, <4>1
      <4>3. h[i].inner = 0 /\ \E j \in 1..n : Busy(f[j])
        BY <1>3, <1>4, <2>5, <4>1, <4>2 DEF Above
      <4> QED BY <1>7, <4>1, <4>2, <4>3
    <3> QED BY <1>2, <1>3, <1>4, <1>6, <3>1, <3>2
  <2>6. m <= Len(g) BY <1>2, <1>3, <1>4, <1>6
  <2> QED BY <1>1, <1>2, <2>3, <2>4, <2>5, <2>6 DEF Own1
<1>11. Budget(g, D, m, u, tries)
  <2>1. \A k \in 1..m : k \in 1..n BY <1>2, <1>3
  <2>2. \A k \in 1..m : g[k] = f[k] BY <1>7, <2>1
  <2> QED BY <1>1, <2>2 DEF Budget
<1> QED BY <1>0, <1>5, <1>6, <1>9, <1>10, <1>11 DEF Good

\* connect() runs again, or a method that is not the call's own.
LEMMA AgainAbove ==
  ASSUME NEW f, NEW D, NEW tries, Good(f, D, tries), f # <<>>,
         f[Len(f)].of # "request", NEW g, TopSet(g, f, "again"),
         f[Len(f)].of = "connect" \/ \E j \in 1..Len(f) - 1 : Busy(f[j])
  PROVE  Good(g, D, tries)
<1>0. /\ f \in Seq(Frame) /\ D \in Nat \ {0} /\ tries \in Nat /\ Linked(f)
      /\ Len(f) \in Nat /\ Len(f) >= 1
  BY EmptySeq DEF Good
<1>1. PICK m, u : Own1(f, D, m) /\ Budget(f, D, m, u, tries) BY DEF Good
<1>2. m \in Nat /\ m >= 1 /\ m <= D /\ m <= Len(f) BY <1>0, <1>1 DEF Own1
<1>3. PICK n : n = Len(f) /\ n \in Nat /\ n >= 1 BY <1>0
<1>4. f[n] \in Frame BY <1>0, <1>3, ElementOfSeq
<1>5. /\ g \in Seq(Frame) /\ Len(g) = n /\ \A k \in 1..n - 1 : g[k] = f[k]
      /\ g[n] = [f[n] EXCEPT !.stage = "again"]
  BY <1>3 DEF TopSet
<1>6. g[n].of = f[n].of /\ (f[n].of = "method" => g[n].inner = f[n].inner)
  BY <1>3, <1>4, <1>5, StageSet DEF Stages
<1>7. m <= n - 1
  <2>1. CASE f[n].of = "connect"
    <3>1. ~(n \in 1..m) BY <1>1, <2>1 DEF Own1
    <3> QED BY <1>2, <1>3, <3>1
  <2>2. ASSUME NEW j \in 1..n - 1, Busy(f[j]) PROVE m <= n - 1
    <3>1. ~(j \in 1..m - 1) BY <1>1, <2>2 DEF Own1, Busy
    <3> QED BY <1>2, <1>3, <3>1
  <2> QED BY <1>3, <2>1, <2>2
<1>8. Linked(g)
  <2>1. \A k \in 1..n - 1 : g[k] = f[k] /\ (k + 1 \in 1..n - 1 \/ k + 1 = n)
    BY <1>3, <1>5
  <2>2. \A k \in 1..n - 1 : g[k + 1].of = f[k + 1].of BY <1>5, <1>6, <2>1
  <2> QED BY <1>0, <1>3, <1>5, <2>1, <2>2 DEF Linked
<1>9. Own1(g, D, m)
  <2>1. \A k \in 1..m : k \in 1..n - 1 BY <1>2, <1>3, <1>7
  <2>2. \A k \in 1..m - 1 : k \in 1..n - 1 BY <1>2, <1>3, <1>7
  <2>3. \A k \in m + 1..n : (k \in 1..n - 1 \/ k = n) /\ \A j \in 1..k - 1 : j \in 1..n - 1
    BY <1>2, <1>3
  <2>4. \A k \in 1..m : g[k].of = "method" /\ g[k].inner = D - k
    BY <1>1, <1>5, <2>1 DEF Own1
  <2>5. \A k \in 1..m - 1 : g[k].stage \in {"first", "again"}
    BY <1>1, <1>5, <2>2 DEF Own1
  <2>6. ASSUME NEW k \in m + 1..n, g[k].of = "method"
        PROVE  g[k].inner = 0 /\ \E j \in 1..k - 1 : Busy(g[j])
    <3>1. f[k].of = "method" BY <1>5, <1>6, <2>3, <2>6
    <3>2. f[k].inner = 0 /\ \E j \in 1..k - 1 : Busy(f[j]) BY <1>1, <1>3, <3>1 DEF Own1
    <3>3. g[k].inner = 0 BY <1>5, <1>6, <2>3, <3>1, <3>2
    <3> QED BY <1>5, <2>3, <3>2, <3>3
  <2> QED BY <1>1, <1>2, <1>3, <1>5, <2>4, <2>5, <2>6 DEF Own1
<1>10. Budget(g, D, m, u, tries)
  <2>1. \A k \in 1..m : k \in 1..n - 1 BY <1>2, <1>3, <1>7
  <2>2. \A k \in 1..m : g[k] = f[k] BY <1>5, <2>1
  <2> QED BY <1>1, <2>2 DEF Budget
<1> QED BY <1>0, <1>5, <1>8, <1>9, <1>10 DEF Good

LEMMA RunsGrow == \A n \in Nat : \A k \in 0..n : Runs[k] <= Runs[n]
<1> DEFINE S == {n \in Nat : \A k \in 0..n : Runs[k] <= Runs[n]}
<1>1. \A n \in Nat : Runs[n] \in Nat /\ Runs[n + 1] = 2 * Runs[n] BY RunsUnfolds
<1>2. 0 \in S
  <2>1. \A k \in 0..0 : k = 0 OBVIOUS
  <2> QED BY <1>1, <2>1
<1>3. ASSUME NEW n \in Nat, n \in S PROVE n + 1 \in S
  <2>1. ASSUME NEW k \in 0..n + 1 PROVE Runs[k] <= Runs[n + 1]
    <3>1. CASE k = n + 1 BY <1>1, <3>1
    <3>2. CASE k \in 0..n
      <4>1. Runs[k] <= Runs[n] /\ Runs[k] \in Nat /\ Runs[n] \in Nat BY <1>1, <1>3, <3>2
      <4> QED BY <1>1, <4>1
    <3> QED BY <3>1, <3>2
  <2> QED BY <2>1
<1>4. \A n \in Nat : n \in S
  <2> HIDE DEF S
  <2> QED BY <1>2, <1>3, NatSet
<1> QED BY <1>4

LEMMA BeginShape ==
  ASSUME NEW n \in Nat
  PROVE  /\ Begin(n) \in Seq(Frame)
         /\ \A i \in 1..n : Begin(n)[i] = Method(n - i)
         /\ async => Len(Begin(n)) = n
         /\ ~async => /\ Len(Begin(n)) = n + 2
                      /\ Begin(n)[n + 1] = Request(1)
                      /\ Begin(n)[n + 2] = Connecting(FALSE)
<1>1. /\ Methods(n) \in Seq(Frame) /\ Len(Methods(n)) = n
      /\ \A i \in 1..n : Methods(n)[i] = Method(n - i)
  <2>1. \A i \in 1..n : Method(n - i) \in Frame BY DEF Method, Frame, Stages
  <2> QED BY <2>1 DEF Methods
<1>2. /\ <<Request(1), Connecting(FALSE)>> \in Seq(Frame)
      /\ Len(<<Request(1), Connecting(FALSE)>>) = 2
  <2>1. Request(1) \in Frame /\ Connecting(FALSE) \in Frame
    BY DEF Request, Connecting, Frame, Stages
  <2>2. \A x, y \in Frame : <<x, y>> \in Seq(Frame) /\ Len(<<x, y>>) = 2 OBVIOUS
  <2> QED BY <2>1, <2>2
<1>3. CASE async BY <1>1, <1>3 DEF Begin
<1>4. CASE ~async
  <2> DEFINE h == <<Request(1), Connecting(FALSE)>>
  <2>1. PICK b : b = Methods(n) \o h OBVIOUS
  <2>2. /\ b \in Seq(Frame) /\ Len(b) = n + 2
        /\ \A i \in 1..n + 2 : b[i] = IF i <= n THEN Methods(n)[i] ELSE h[i - n]
    <3>1. PICK x : x = Methods(n) /\ x \in Seq(Frame) /\ Len(x) = n BY <1>1
    <3>2. PICK y : y = h /\ y \in Seq(Frame) /\ Len(y) = 2 BY <1>2
    <3>3. b = x \o y BY <2>1, <3>1, <3>2
    <3>4. /\ b \in Seq(Frame) /\ Len(b) = Len(x) + Len(y)
          /\ \A i \in 1..Len(x) + Len(y) : b[i] = IF i <= Len(x) THEN x[i] ELSE y[i - Len(x)]
      BY <3>1, <3>2, <3>3, ConcatProperties
    <3> HIDE DEF h
    <3> QED BY <3>1, <3>2, <3>4
  <2>3. h[1] = Request(1) /\ h[2] = Connecting(FALSE) OBVIOUS
  <2>4. Begin(n) = b BY <1>4, <2>1 DEF Begin
  <2>5. \A i \in 1..n : i \in 1..n + 2 /\ i <= n OBVIOUS
  <2>6. b[n + 1] = h[1] /\ b[n + 2] = h[2]
    <3>1. n + 1 \in 1..n + 2 /\ ~(n + 1 <= n) /\ (n + 1) - n = 1
          /\ n + 2 \in 1..n + 2 /\ ~(n + 2 <= n) /\ (n + 2) - n = 2
      OBVIOUS
    <3> HIDE DEF h
    <3> QED BY <2>2, <3>1
  <2>7. \A i \in 1..n : b[i] = Method(n - i)
    <3> HIDE DEF h
    <3> QED BY <1>1, <2>2, <2>5
  <2> HIDE DEF h
  <2> QED BY <1>4, <2>2, <2>3, <2>4, <2>6, <2>7
<1> QED BY <1>3, <1>4

\* n frames of the call's own methods, and room for what the next one runs.
Nested(f, D, n) ==
  /\ n = Len(f) /\ n <= D /\ Linked(f)
  /\ \A i \in 1..n : f[i].of = "method" /\ f[i].inner = D - i
                     /\ f[i].stage \in {"first", "again"}

Room(f, D, n, v, tries) ==
  /\ v \in [Nat -> Nat] /\ \A k \in 0..n : v[k] <= Runs[D]
  /\ \A k \in 1..n : v[k] + (IF f[k].stage = "again" THEN 0 ELSE Runs[D - k]) <= v[k - 1]
  /\ tries + Runs[D - n] <= v[n] + 1

\* The frames of the call's own methods, on top of n of them.
LEMMA NestGood ==
  ASSUME NEW f \in Seq(Frame), NEW D \in Nat \ {0}, NEW n \in Nat, n <= D, NEW v,
         NEW tries \in Nat, Nested(f, D, n), Room(f, D, n, v, tries)
  PROVE  Good(f \o Begin(D - n), D, tries)
<1>0. PICK l : l = D - n /\ l \in Nat /\ n + l = D OBVIOUS
<1>1. PICK h : h = Begin(l) OBVIOUS
<1>2. PICK e : e = Len(h) - l /\ e \in {0, 2} /\ Len(h) = l + e
  <2>1. Len(h) \in {l, l + 2} BY <1>0, <1>1, BeginShape
  <2>2. Len(h) - l \in {0, 2} /\ Len(h) = l + (Len(h) - l) BY <1>0, <2>1
  <2> QED BY <2>2
<1>3. /\ h \in Seq(Frame)
      /\ \A i \in 1..l : h[i].of = "method" /\ h[i].inner = l - i /\ h[i].stage = "first"
      /\ \A i \in l + 1..l + e : h[i].of # "method" /\ (i = l + 1 => h[i].of = "request")
  <2>1. \A i \in l + 1..l + e : e = 2 /\ (i = l + 1 \/ i = l + 2) BY <1>0, <1>2
  <2>2. e = 2 => ~async
    <3>1. async => Len(h) = l BY <1>0, <1>1, BeginShape
    <3> QED BY <1>0, <1>2, <3>1
  <2>3. ~async => h[l + 1] = Request(1) /\ h[l + 2] = Connecting(FALSE)
    BY <1>0, <1>1, BeginShape
  <2>4. ASSUME NEW i \in l + 1..l + e
        PROVE  h[i].of # "method" /\ (i = l + 1 => h[i].of = "request")
    <3>1. h[l + 1] = Request(1) /\ h[l + 2] = Connecting(FALSE) BY <2>1, <2>2, <2>3
    <3>2. h[l + 1].of = "request" /\ h[l + 2].of = "connect"
      BY <3>1 DEF Request, Connecting
    <3>3. CASE i = l + 1 BY <3>2, <3>3
    <3>4. CASE i = l + 2
      <4>1. i # l + 1 BY <1>0, <3>4
      <4> QED BY <3>2, <3>4, <4>1
    <3> QED BY <2>1, <3>3, <3>4
  <2>5. \A i \in 1..l : /\ h[i].of = "method" /\ h[i].inner = l - i
                        /\ h[i].stage = "first"
    <3>1. \A i \in 1..l : h[i] = Method(l - i) BY <1>0, <1>1, BeginShape
    <3>2. \A j \in Int : /\ Method(j).of = "method" /\ Method(j).inner = j
                         /\ Method(j).stage = "first"
      BY DEF Method
    <3>3. \A i \in 1..l : l - i \in Int BY <1>0
    <3> QED BY <3>1, <3>2, <3>3
  <2>6. h \in Seq(Frame) BY <1>0, <1>1, BeginShape
  <2> QED BY <2>4, <2>5, <2>6
<1>4. PICK g : g = f \o h OBVIOUS
<1>5. /\ g \in Seq(Frame) /\ Len(g) = D + e
      /\ \A i \in 1..n : g[i] = f[i]
      /\ \A i \in 1..l + e : g[n + i] = h[i]
  <2>1. /\ g \in Seq(Frame) /\ Len(g) = n + (l + e)
        /\ \A i \in 1..n + (l + e) : g[i] = IF i <= n THEN f[i] ELSE h[i - n]
    <3>1. Len(f) = n /\ Len(h) = l + e BY <1>2 DEF Nested
    <3>2. /\ g \in Seq(Frame) /\ Len(g) = Len(f) + Len(h)
          /\ \A i \in 1..Len(f) + Len(h) :
               g[i] = IF i <= Len(f) THEN f[i] ELSE h[i - Len(f)]
      BY <1>3, <1>4, ConcatProperties
    <3> QED BY <3>1, <3>2
  <2>2. \A i \in 1..n : i \in 1..n + (l + e) /\ i <= n BY <1>0, <1>2
  <2>3. \A i \in 1..l + e : /\ n + i \in 1..n + (l + e) /\ ~(n + i <= n)
                            /\ (n + i) - n = i
    BY <1>0, <1>2
  <2>4. n + (l + e) = D + e BY <1>0, <1>2
  <2> QED BY <2>1, <2>2, <2>3, <2>4
<1>6. ASSUME NEW i \in n + 1..D
      PROVE  g[i].of = "method" /\ g[i].inner = D - i /\ g[i].stage = "first"
  <2>1. i - n \in 1..l /\ i - n \in 1..l + e /\ n + (i - n) = i /\ l - (i - n) = D - i
    BY <1>0, <1>2
  <2>2. g[i] = h[i - n] BY <1>5, <2>1
  <2> QED BY <1>3, <2>1, <2>2
<1>7. ASSUME NEW i \in D + 1..D + e
      PROVE  g[i].of # "method" /\ (i = D + 1 => g[i].of = "request")
  <2>1. /\ i - n \in l + 1..l + e /\ i - n \in 1..l + e /\ n + (i - n) = i
        /\ i = D + 1 => i - n = l + 1
    BY <1>0, <1>2
  <2>2. g[i] = h[i - n] BY <1>5, <2>1
  <2> QED BY <1>3, <2>1, <2>2
<1>8. \A i \in 1..D : g[i].of = "method" /\ g[i].inner = D - i /\ g[i].stage \in {"first", "again"}
  <2>1. \A i \in 1..D : i \in 1..n \/ i \in n + 1..D OBVIOUS
  <2> QED BY <1>5, <1>6, <2>1 DEF Nested
<1>9. Linked(g)
  <2> SUFFICES ASSUME NEW k \in 1..Len(g) - 1, g[k + 1].of = "connect", g[k].of # "request"
               PROVE  FALSE
    BY DEF Linked
  <2>1. CASE k + 1 <= D
    <3>1. k + 1 \in 1..D BY <1>2, <1>5, <2>1
    <3> QED BY <1>8, <3>1
  <2>2. CASE k + 1 = D + 1
    <3>1. k \in 1..(D + e) - 1 BY <1>5
    <3>2. k + 1 \in D + 1..D + e BY <1>2, <2>2, <3>1
    <3> QED BY <1>7, <2>2, <3>2
  <2>3. CASE k + 1 > D + 1
    <3>0. k \in 1..(D + e) - 1 BY <1>5
    <3>1. k = D + 1 /\ k \in D + 1..D + e BY <1>2, <2>3, <3>0
    <3> QED BY <1>7, <3>1
  <2> QED BY <1>2, <1>5, <2>1, <2>2, <2>3
<1>10. Own1(g, D, D)
  <2>1. D \in 0..D /\ D <= D + e /\ D >= 1 BY <1>2
  <2>2. \A i \in 1..D - 1 : i \in 1..D OBVIOUS
  <2> QED BY <1>5, <1>7, <1>8, <2>1, <2>2 DEF Own1
<1> DEFINE w == [k \in Nat |-> IF k <= n THEN v[k]
                               ELSE IF k <= D THEN (v[n] + Runs[D - k]) - Runs[D - n] ELSE 0]
<1>11. \A k \in 0..D : Runs[D - k] \in Nat /\ Runs[D - k] >= 1
  <2>1. \A k \in 0..D : D - k \in Nat OBVIOUS
  <2> QED BY <2>1, RunsUnfolds
<1>12. \A k \in n..D : Runs[D - k] <= Runs[D - n]
  <2>1. \A k \in n..D : D - k \in 0..D - n /\ D - n \in Nat OBVIOUS
  <2> QED BY <2>1, RunsGrow
<1>13. /\ v[n] \in Nat /\ Runs[D - n] \in Nat /\ v[n] <= Runs[D] /\ Runs[D] \in Nat
       /\ tries + Runs[D - n] <= v[n] + 1
  <2>1. n \in 0..n /\ n \in 0..D OBVIOUS
  <2>2. Runs[D] \in Nat /\ Runs[D - n] \in Nat BY <1>11, <2>1, RunsUnfolds
  <2> QED BY <2>1, <2>2 DEF Room
<1>14. ASSUME NEW k \in n..D
       PROVE  /\ k \in Nat /\ w[k] = (v[n] + Runs[D - k]) - Runs[D - n]
              /\ w[k] \in Nat /\ w[k] <= Runs[D]
  <2>1. k \in 0..D /\ Runs[D - k] \in Nat /\ Runs[D - k] >= 1 /\ Runs[D - k] <= Runs[D - n]
    BY <1>11, <1>12
  <2>2. (v[n] + Runs[D - k]) - Runs[D - n] \in Nat BY <1>13, <2>1
  <2>3. w[k] = (v[n] + Runs[D - k]) - Runs[D - n]
    <3>1. CASE k = n BY <1>13, <3>1
    <3>2. CASE k # n BY <2>1, <3>2
    <3> QED BY <3>1, <3>2
  <2> HIDE DEF w
  <2> QED BY <1>13, <2>1, <2>2, <2>3
<1>15. \A k \in 0..n : w[k] = v[k] OBVIOUS
<1>16. w \in [Nat -> Nat]
  <2>1. ASSUME NEW k \in Nat PROVE w[k] \in Nat
    <3>1. CASE k <= n BY <3>1 DEF Room
    <3>2. CASE k \in n..D
      <4> HIDE DEF w
      <4> QED BY <1>14, <3>2
    <3>3. CASE k > D BY <3>3
    <3> QED BY <3>1, <3>2, <3>3
  <2>2. w = [k \in Nat |-> w[k]] OBVIOUS
  <2> HIDE DEF w
  <2> QED BY <2>1, <2>2
<1> HIDE DEF w
<1>17. Budget(g, D, D, w, tries)
  <2>1. \A k \in 0..D : w[k] <= Runs[D]
    <3>1. \A k \in 0..D : k \in 0..n \/ k \in n..D OBVIOUS
    <3> QED BY <1>14, <1>15, <3>1 DEF Room
  <2>2. ASSUME NEW k \in 1..D
        PROVE  w[k] + (IF g[k].stage = "again" THEN 0 ELSE Runs[D - k]) <= w[k - 1]
    <3>1. CASE k <= n
      <4>1. k \in 1..n /\ k \in 0..n /\ k - 1 \in 0..n BY <3>1
      <4> QED BY <1>5, <1>15, <4>1 DEF Room
    <3>2. CASE k > n
      <4>1. k \in n + 1..D /\ k \in n..D /\ k - 1 \in n..D BY <3>2
      <4>2. g[k].stage # "again" BY <1>6, <4>1
      <4>3. Runs[D - (k - 1)] = 2 * Runs[D - k] /\ Runs[D - k] \in Nat BY RunsDown
      <4>4. /\ w[k] = (v[n] + Runs[D - k]) - Runs[D - n]
            /\ w[k - 1] = (v[n] + Runs[D - (k - 1)]) - Runs[D - n]
        BY <1>14, <4>1
      <4>5. w[k] + Runs[D - k] <= w[k - 1]
        <5>1. \A x, y, z \in Nat : ((x + y) - z) + y <= (x + 2 * y) - z OBVIOUS
        <5> QED BY <1>13, <4>3, <4>4, <5>1
      <4>6. w[k] \in Nat /\ w[k] + 0 = w[k] BY <1>14, <4>1
      <4> QED BY <4>2, <4>5
    <3> QED BY <3>1, <3>2
  <2>3. tries <= w[D]
    <3>1. D \in n..D /\ D - D = 0 OBVIOUS
    <3>2. w[D] = (v[n] + Runs[D - D]) - Runs[D - n] BY <1>14, <3>1
    <3>3. w[D] = (v[n] + 1) - Runs[D - n] BY <3>1, <3>2, RunsUnfolds
    <3> QED BY <1>13, <3>3
  <2> QED BY <1>16, <2>1, <2>2, <2>3 DEF Budget
<1> QED BY <1>0, <1>1, <1>4, <1>5, <1>9, <1>10, <1>17 DEF Good

\* A method that has joined another chain runs again, and makes one request more
\* when it is one of the call's own.
LEMMA AgainMethod ==
  ASSUME NEW f, NEW D, NEW tries, Good(f, D, tries), f # <<>>,
         f[Len(f)].of = "method", Busy(f[Len(f)]), NEW g, TopSet(g, f, "again")
  PROVE  Good(g \o Begin(f[Len(f)].inner), D, IF Own(g) THEN tries + 1 ELSE tries)
<1>0. /\ f \in Seq(Frame) /\ D \in Nat \ {0} /\ tries \in Nat /\ Linked(f)
      /\ Len(f) \in Nat /\ Len(f) >= 1
  BY EmptySeq DEF Good
<1>1. PICK m, u : Own1(f, D, m) /\ Budget(f, D, m, u, tries) BY DEF Good
<1>2. m \in Nat /\ m >= 1 /\ m <= D /\ m <= Len(f) BY <1>0, <1>1 DEF Own1
<1>3. PICK n : n = Len(f) /\ n \in Nat /\ n >= 1 BY <1>0
<1>4. f[n] \in Frame BY <1>0, <1>3, ElementOfSeq
<1>5. /\ g \in Seq(Frame) /\ Len(g) = n /\ \A k \in 1..n - 1 : g[k] = f[k]
      /\ g[n] = [f[n] EXCEPT !.stage = "again"]
  BY <1>3 DEF TopSet
<1>6. g[n].of = "method" /\ g[n].inner = f[n].inner /\ g[n].stage = "again"
  BY <1>3, <1>4, <1>5, StageSet DEF Stages
<1>7. DOMAIN g = 1..n BY <1>5, LenProperties
<1>8. CASE \E j \in 1..n - 1 : Busy(f[j])
  <2>1. PICK j \in 1..n - 1 : Busy(f[j]) BY <1>8
  <2>2. ~Own(g)
    <3>1. j \in 1..n BY <1>3
    <3> QED BY <1>5, <1>7, <2>1, <3>1 DEF Own, Busy
  <2>3. Good(g, D, tries) BY <1>3, <2>1, AgainAbove DEF Busy
  <2>4. f[n].inner = 0
    <3>1. ~(j \in 1..m - 1) BY <1>1, <2>1 DEF Own1, Busy
    <3>2. n \in m + 1..n BY <1>2, <1>3, <3>1
    <3> QED BY <1>1, <1>3, <3>2 DEF Own1
  <2>5. CASE async
    <3>1. Begin(0) \in Seq(Frame) /\ Len(Begin(0)) = 0 BY <2>5, BeginShape
    <3>2. Begin(0) = <<>> BY <3>1, EmptySeq
    <3>3. g \o <<>> = g BY <1>5, ConcatEmptySeq
    <3> QED BY <1>3, <2>2, <2>3, <2>4, <3>2, <3>3
  <2>6. CASE ~async
    <3>1. PICK h : h = Begin(0) OBVIOUS
    <3>2. /\ h \in Seq(Frame) /\ Len(h) = 2
          /\ h[1] = Request(1) /\ h[2] = Connecting(FALSE)
      <4>1. 0 \in Nat /\ 0 + 1 = 1 /\ 0 + 2 = 2 OBVIOUS
      <4> QED BY <2>6, <3>1, <4>1, BeginShape
    <3>3. h[1].of = "request" /\ h[2].of = "connect" BY <3>2 DEF Request, Connecting
    <3>4. Linked(h)
      <4>1. \A k \in 1..Len(h) - 1 : k = 1 BY <3>2
      <4> QED BY <3>3, <4>1 DEF Linked
    <3>5. Above(h, g)
      <4>1. \A k \in 1..Len(h) : k = 1 \/ k = 2 BY <3>2
      <4>2. \A k \in 1..Len(h) : h[k].of # "method" BY <3>3, <4>1
      <4> QED BY <3>2, <3>3, <3>4, <4>2 DEF Above
    <3>6. g # <<>> BY <1>3, <1>5, EmptySeq
    <3> QED BY <1>3, <2>2, <2>3, <2>4, <3>1, <3>5, <3>6, PushGood
  <2> QED BY <2>5, <2>6
<1>9. CASE ~ \E j \in 1..n - 1 : Busy(f[j])
  <2>1. m = n
    <3>1. ~(n \in m + 1..n) BY <1>1, <1>3, <1>9 DEF Own1
    <3> QED BY <1>2, <1>3, <3>1
  <2>2. f[n].inner = D - n /\ n \in 1..D
    <3>1. n \in 1..m BY <1>3, <2>1
    <3> QED BY <1>0, <1>1, <1>2, <2>1, <3>1 DEF Own1
  <2>3. Nested(g, D, n)
    <3>1. \A k \in 1..n : k = n \/ (k \in 1..n - 1 /\ k \in 1..m - 1 /\ k \in 1..m)
      BY <1>3, <2>1
    <3>2. \A k \in 1..n : /\ g[k].of = "method" /\ g[k].inner = D - k
                          /\ g[k].stage \in {"first", "again"}
      <4>1. \A k \in 1..n - 1 : k \in 1..m /\ k \in 1..m - 1 BY <1>3, <2>1
      <4>2. ASSUME NEW k \in 1..n - 1
            PROVE  /\ g[k].of = "method" /\ g[k].inner = D - k
                   /\ g[k].stage \in {"first", "again"}
        BY <1>1, <1>5, <4>1 DEF Own1
      <4> QED BY <1>6, <2>2, <3>1, <4>2
    <3>3. Linked(g)
      <4>1. \A k \in 1..Len(g) - 1 : k + 1 \in 1..n BY <1>3, <1>5
      <4> QED BY <3>2, <4>1 DEF Linked
    <3> QED BY <1>3, <1>5, <2>2, <3>2, <3>3 DEF Nested
  <2>4. Own(g)
    <3>1. \A k \in 1..n : g[k].stage \in {"first", "again"} BY <2>3 DEF Nested
    <3> QED BY <1>7, <3>1 DEF Own
  <2>5. PICK R : R = Runs[D - n] /\ R \in Nat
    <3>0. D - n \in Nat BY <1>0, <2>2
    <3>1. Runs[D - n] \in Nat BY <3>0, RunsUnfolds
    <3> QED BY <3>1
  <2>6. PICK p : p = n - 1 /\ p \in Nat /\ p \in 0..D
    <3>1. n - 1 \in Nat /\ n - 1 \in 0..D BY <1>0, <1>3, <2>2
    <3> QED BY <3>1
  <2>7. u \in [Nat -> Nat] /\ tries + R <= u[p] /\ u[p] <= Runs[D]
    <3>1. u[n] + (IF f[n].stage = "again" THEN 0 ELSE Runs[D - n]) <= u[n - 1]
      <4>1. n \in 1..m BY <1>3, <2>1
      <4> QED BY <1>1, <4>1 DEF Budget
    <3>2. f[n].stage # "again" BY <1>3 DEF Busy
    <3>3. u[n] + R <= u[p] BY <2>5, <2>6, <3>1, <3>2
    <3>4. u \in [Nat -> Nat] /\ tries <= u[n] /\ u[p] <= Runs[D]
      BY <1>1, <2>1, <2>6 DEF Budget
    <3>5. u[n] \in Nat /\ u[p] \in Nat BY <1>3, <2>6, <3>4
    <3>6. \A x, y, z, w \in Nat : x <= y /\ y + z <= w => x + z <= w OBVIOUS
    <3>7. tries + R <= u[p] BY <1>0, <2>5, <3>3, <3>4, <3>5, <3>6
    <3> QED BY <3>4, <3>7
  <2>8. PICK v : v = [u EXCEPT ![n] = u[p]] OBVIOUS
  <2>9. /\ v \in [Nat -> Nat] /\ v[n] = u[p] /\ \A k \in Nat : k # n => v[k] = u[k]
    BY <1>3, <2>6, <2>7, <2>8
  <2>10. Room(g, D, n, v, tries + 1)
    <3>1. ASSUME NEW k \in 0..n PROVE v[k] <= Runs[D]
      <4>1. k \in Nat /\ k \in 0..D BY <1>0, <1>3, <2>2
      <4>2. u[k] <= Runs[D] BY <1>1, <4>1 DEF Budget
      <4> QED BY <2>7, <2>9, <4>1, <4>2
    <3>2. ASSUME NEW k \in 1..n
          PROVE  v[k] + (IF g[k].stage = "again" THEN 0 ELSE Runs[D - k]) <= v[k - 1]
      <4>1. CASE k = n
        <5>1. v[n - 1] = u[p] BY <1>3, <2>6, <2>9
        <5>2. u[p] \in Nat BY <2>6, <2>7
        <5>3. v[k] + 0 <= v[k - 1] BY <2>9, <4>1, <5>1, <5>2
        <5> QED BY <1>6, <4>1, <5>3
      <4>2. CASE k # n
        <5>1. k \in 1..n - 1 /\ k \in 1..m /\ k \in Nat /\ k - 1 \in Nat /\ k - 1 # n
          BY <1>3, <2>1, <4>2
        <5>2. u[k] + (IF f[k].stage = "again" THEN 0 ELSE Runs[D - k]) <= u[k - 1]
          BY <1>1, <5>1 DEF Budget
        <5> QED BY <1>5, <2>9, <4>2, <5>1, <5>2
      <4> QED BY <4>1, <4>2
    <3>3. (tries + 1) + Runs[D - n] <= v[n] + 1
      <4>1. u[p] \in Nat BY <2>6, <2>7
      <4>2. \A x, y, z \in Nat : x + y <= z => (x + 1) + y <= z + 1 OBVIOUS
      <4>3. (tries + 1) + R <= u[p] + 1 BY <1>0, <2>5, <2>7, <4>1, <4>2
      <4> QED BY <2>5, <2>9, <4>3
    <3> QED BY <2>9, <3>1, <3>2, <3>3 DEF Room
  <2>11. Good(g \o Begin(D - n), D, tries + 1)
    <3>1. tries + 1 \in Nat /\ n <= D BY <1>0, <2>2
    <3> QED BY <1>0, <1>3, <1>5, <2>3, <2>10, <3>1, NestGood
  <2> QED BY <1>3, <2>2, <2>4, <2>11
<1> QED BY <1>8, <1>9

\* A call begins with the request it makes when nothing fails.
LEMMA BeginGood ==
  ASSUME NEW D \in Nat \ {0}
  PROVE  Good(Begin(D), D, 1)
<1>1. <<>> \in Seq(Frame) /\ Len(<<>>) = 0 BY EmptySeq
<1>2. Nested(<<>>, D, 0)
  <2>1. 1..0 = {} /\ 1..0 - 1 = {} OBVIOUS
  <2> QED BY <1>1, <2>1 DEF Nested, Linked
<1>3. PICK v : v = [k \in Nat |-> Runs[D]] OBVIOUS
<1>4. Runs[D] \in Nat BY RunsUnfolds
<1>5. v \in [Nat -> Nat] /\ \A k \in Nat : v[k] = Runs[D] BY <1>3, <1>4
<1>6. Room(<<>>, D, 0, v, 1)
  <2>1. 1..0 = {} /\ 0..0 = {0} /\ D - 0 = D OBVIOUS
  <2>2. v[0] = Runs[D] /\ Runs[D] <= Runs[D] /\ 1 + Runs[D] <= Runs[D] + 1 BY <1>4, <1>5
  <2> QED BY <1>5, <2>1, <2>2 DEF Room
<1>7. Good(<<>> \o Begin(D - 0), D, 1)
  <2>1. 0 \in Nat /\ 1 \in Nat /\ 0 <= D OBVIOUS
  <2> QED BY <1>1, <1>2, <1>6, <2>1, NestGood
<1>8. Begin(D) \in Seq(Frame) /\ D - 0 = D
  <2>1. D \in Nat /\ D - 0 = D OBVIOUS
  <2> QED BY <2>1, BeginShape
<1>9. <<>> \o Begin(D) = Begin(D) BY <1>8, ConcatEmptySeq
<1> QED BY <1>7, <1>8, <1>9
-----------------------------------------------------------------------------
(***************************************************************************)
(* The frames of every call are good, whatever steps it takes.             *)
(***************************************************************************)

\* What the stage of a call says of the frame on top.
Topped(pc, f) ==
  /\ pc = "connect" => Len(f) >= 2 /\ Last(f).of = "connect"
  /\ pc = "switching" => f # <<>> /\ Last(f).of # "request" /\ Last(f).stage = "join"
  /\ pc = "sent" /\ ~async => f # <<>> /\ Last(f).of = "request"

GoodCall(c) ==
  Fields(c) /\ Good(c.frames, c.depth, c.tries) /\ Topped(c.pc, c.frames)

FInv == IInv /\ \A t \in Caller : GoodCall(call[t])

LEMMA WithinBudget ==
  ASSUME NEW f, NEW D, NEW tries, Good(f, D, tries)
  PROVE  tries <= Runs[D] /\ Good(<<>>, D, tries)
<1>1. PICK m, u : Own1(f, D, m) /\ Budget(f, D, m, u, tries) BY DEF Good
<1>2. D \in Nat \ {0} /\ tries \in Nat BY DEF Good
<1>3. tries <= Runs[D]
  <2>1. m \in 0..D /\ m \in Nat BY <1>1, <1>2 DEF Own1
  <2>2. u \in [Nat -> Nat] /\ u[m] <= Runs[D] /\ tries <= u[m] BY <1>1, <2>1 DEF Budget
  <2>3. u[m] \in Nat /\ Runs[D] \in Nat BY <1>2, <2>1, <2>2, RunsUnfolds
  <2> QED BY <1>2, <2>2, <2>3
<1>4. <<>> \in Seq(Frame) /\ Len(<<>>) = 0 BY EmptySeq
<1>5. PICK v : v = [k \in Nat |-> Runs[D]] OBVIOUS
<1>6. Runs[D] \in Nat BY <1>2, RunsUnfolds
<1>7. v \in [Nat -> Nat] /\ \A k \in Nat : v[k] = Runs[D] BY <1>5, <1>6
<1>8. 1..0 = {} /\ 0 \in 0..D /\ (\A k \in 0..D : k \in Nat) BY <1>2
<1>9. 1..0 - 1 = {} /\ 0 + 1..0 = {} OBVIOUS
<1>10. Budget(<<>>, D, 0, v, tries)
  <2>1. \A k \in 0..D : v[k] <= Runs[D] BY <1>6, <1>7, <1>8
  <2> QED BY <1>3, <1>7, <1>8, <2>1 DEF Budget
<1>11. Own1(<<>>, D, 0) BY <1>4, <1>8, <1>9 DEF Own1
<1>12. Linked(<<>>) BY <1>4, <1>9 DEF Linked
<1> QED BY <1>2, <1>3, <1>4, <1>10, <1>11, <1>12 DEF Good

LEMMA FrontShape ==
  ASSUME NEW S, NEW f \in Seq(S), f # <<>>
  PROVE  /\ Front(f) \in Seq(S) /\ Len(Front(f)) = Len(f) - 1
         /\ \A k \in 1..Len(f) - 1 : Front(f)[k] = f[k]
<1>1. Len(f) \in Nat /\ Len(f) >= 1 BY EmptySeq
<1>2. \A k \in 1..Len(f) - 1 : f[k] \in S /\ (1 + k) - 1 = k
  <2>1. \A k \in 1..Len(f) - 1 : k \in 1..Len(f) BY <1>1
  <2> QED BY <2>1, ElementOfSeq
<1>3. PICK l : l = Len(f) - 1 /\ l \in Nat BY <1>1
<1>4. /\ SubSeq(f, 1, l) \in Seq(S) /\ Len(SubSeq(f, 1, l)) = l
      /\ \A k \in 1..l : SubSeq(f, 1, l)[k] = f[k]
  BY <1>2, <1>3, SubSeqProperties
<1> QED BY <1>3, <1>4 DEF Front

LEMMA FrontGood ==
  ASSUME NEW f, NEW D, NEW tries, Good(f, D, tries), f # <<>>
  PROVE  Good(Front(f), D, tries)
<1>1. f \in Seq(Frame) /\ Len(f) \in Nat /\ Len(f) >= 1 BY EmptySeq DEF Good
<1>2. PICK g : g = Front(f) /\ g \in Seq(Frame) /\ Len(g) = Len(f) - 1
               /\ \A k \in 1..Len(f) - 1 : g[k] = f[k]
  BY <1>1, FrontShape
<1>3. PICK i : i = Len(f) - 1 /\ i \in Nat /\ i <= Len(f) BY <1>1
<1> QED BY <1>2, <1>3, CutGood

\* The field of the frames has another value.
LEMMA FramesOf ==
  ASSUME NEW c, Fields(c), NEW x
  PROVE  LET d == [c EXCEPT !.frames = x]
         IN /\ Fields(d) /\ d.frames = x /\ d.pc = c.pc /\ d.depth = c.depth
            /\ d.tries = c.tries
BY DEF Fields

LEMMA StageOf ==
  ASSUME NEW c, Fields(c), NEW k, NEW s
  PROVE  LET d == [c EXCEPT !.frames[k].stage = s]
         IN /\ Fields(d) /\ d.frames = [c.frames EXCEPT ![k].stage = s]
            /\ d.pc = c.pc /\ d.depth = c.depth /\ d.tries = c.tries
BY DEF Fields

LEMMA LeaveGood ==
  ASSUME NEW c, Fields(c), NEW f, Good(f, c.depth, c.tries), NEW pc \in {"raised", "returned"}
  PROVE  GoodCall(Leave(c, pc))
<1>1. PICK d : d = Leave(c, pc) OBVIOUS
<1>2. Fields(d) /\ d.pc = pc /\ d.frames = <<>> /\ d.depth = c.depth /\ d.tries = c.tries
  BY <1>1 DEF Leave, Fields
<1>3. Good(<<>>, c.depth, c.tries) BY WithinBudget
<1> QED BY <1>1, <1>2, <1>3 DEF GoodCall, Topped

LEMMA RaiseGood ==
  ASSUME NEW c, GoodCall(c), NEW error
  PROVE  GoodCall(Raise(c, error))
<1>0. Fields(c) BY DEF GoodCall
<1>1. PICK d : d = Raise(c, error) OBVIOUS
<1>2. /\ Fields(d) /\ d.pc = "failing" /\ d.frames = c.frames /\ d.depth = c.depth
      /\ d.tries = c.tries
  BY <1>0, <1>1 DEF Raise, Fields
<1> QED BY <1>1, <1>2 DEF GoodCall, Topped

\* More frames, the last of them connect() when that is what comes next.
LEMMA PushCall ==
  ASSUME NEW c, Fields(c), c.frames \in Seq(Frame), NEW h,
         Good(c.frames \o h, c.depth, c.tries), NEW pc \in {"dial", "connect"},
         pc = "connect" => c.frames # <<>> /\ h \in Seq(Frame) /\ h # <<>> /\ Last(h).of = "connect"
  PROVE  GoodCall(Push(c, h, pc))
<1>1. CASE Len(c.frames) + Len(h) > Stack
  <2>1. PICK d : d = [c EXCEPT !.error = "RecursionError"] OBVIOUS
  <2>2. Fields(d) /\ d.frames = c.frames /\ d.depth = c.depth /\ d.tries = c.tries
    BY <2>1 DEF Fields
  <2>3. Push(c, h, pc) = Leave(d, "raised") BY <1>1, <2>1 DEF Push
  <2> QED BY <2>2, <2>3, LeaveGood
<1>2. CASE ~(Len(c.frames) + Len(h) > Stack)
  <2>1. PICK x : x = c.frames \o h OBVIOUS
  <2>2. PICK d : d = [c EXCEPT !.frames = x, !.pc = pc, !.error = None] OBVIOUS
  <2>3. Fields(d) /\ d.pc = pc /\ d.frames = x /\ d.depth = c.depth /\ d.tries = c.tries
    BY <2>2 DEF Fields
  <2>4. Push(c, h, pc) = d BY <1>2, <2>1, <2>2 DEF Push
  <2>5. Topped(pc, x)
    <3>1. ASSUME pc = "connect" PROVE Len(x) >= 2 /\ Last(x).of = "connect"
      <4>1. /\ c.frames \in Seq(Frame) /\ h \in Seq(Frame)
            /\ Len(c.frames) \in Nat /\ Len(c.frames) >= 1 /\ Len(h) \in Nat /\ Len(h) >= 1
        BY <3>1, EmptySeq
      <4>2. PICK n : n = Len(c.frames) /\ n \in Nat /\ n >= 1 BY <4>1
      <4>3. PICK l : l = Len(h) /\ l \in Nat /\ l >= 1 BY <4>1
      <4>4. Len(x) = n + l /\ \A i \in 1..n + l : x[i] = IF i <= n THEN c.frames[i] ELSE h[i - n]
        BY <2>1, <4>1, <4>2, <4>3, ConcatProperties
      <4>5. n + l \in 1..n + l /\ ~(n + l <= n) /\ (n + l) - n = l /\ n + l >= 2
        BY <4>2, <4>3
      <4>6. x[Len(x)] = h[Len(h)] BY <4>3, <4>4, <4>5
      <4> QED BY <3>1, <4>4, <4>5, <4>6 DEF Last
    <3> QED BY <3>1 DEF Topped
  <2> QED BY <2>1, <2>3, <2>4, <2>5 DEF GoodCall
<1> QED BY <1>1, <1>2

\* The frames that the frame on top pushes are the last ones to be on top.
LEMMA BeginTop ==
  ASSUME NEW n \in Nat, ~async
  PROVE  Begin(n) \in Seq(Frame) /\ Begin(n) # <<>> /\ Last(Begin(n)).of = "connect"
<1>1. PICK h : h = Begin(n) OBVIOUS
<1>2. h \in Seq(Frame) /\ Len(h) = n + 2 /\ h[n + 2] = Connecting(FALSE)
  BY <1>1, BeginShape
<1>3. h # <<>>
  <2>1. Len(<<>>) = 0 BY EmptySeq
  <2> QED BY <1>2, <2>1
<1>4. Last(h).of = "connect" BY <1>2 DEF Last, Connecting
<1> QED BY <1>1, <1>2, <1>3, <1>4

LEMMA RerunGood ==
  ASSUME NEW c, Fields(c), Good(c.frames, c.depth, c.tries), c.frames # <<>>,
         Busy(Last(c.frames))
  PROVE  GoodCall(Rerun(c))
<1>1. PICK f : f = c.frames OBVIOUS
<1>2. PICK n : n = Len(f) OBVIOUS
<1>3. /\ f \in Seq(Frame) /\ n \in Nat /\ n >= 1 /\ n \in 1..n
      /\ c.depth \in Nat \ {0} /\ c.tries \in Nat
  BY <1>1, <1>2, EmptySeq DEF Good
<1>4. f[n] \in Frame /\ Last(f) = f[n] BY <1>2, <1>3, ElementOfSeq DEF Last
<1>5. Busy(f[n]) /\ f[n].of # "request" BY <1>1, <1>4 DEF Busy
<1>6. PICK g : g = [f EXCEPT ![n].stage = "again"] OBVIOUS
<1>7. TopSet(g, f, "again")
  <2>1. "again" \in Stages BY DEF Stages
  <2> QED BY <1>1, <1>2, <1>3, <1>4, <1>5, <1>6, <2>1, TopSetShape
<1>8. PICK a : a = [c EXCEPT !.frames[n].stage = "again"] OBVIOUS
<1>9. /\ Fields(a) /\ a.frames = g /\ a.pc = c.pc /\ a.depth = c.depth /\ a.tries = c.tries
  BY <1>1, <1>6, <1>8 DEF Fields
<1>10. CASE f[n].of = "connect"
  <2>1. PICK d : d = [a EXCEPT !.pc = "connect"] OBVIOUS
  <2>2. Fields(d) /\ d.pc = "connect" /\ d.frames = g /\ d.depth = c.depth /\ d.tries = c.tries
    BY <1>9, <2>1 DEF Fields
  <2>3. Good(g, c.depth, c.tries) BY <1>1, <1>2, <1>5, <1>7, <1>10, AgainAbove
  <2>4. Topped("connect", g)
    <3>1. Len(g) = n /\ g[n].of = "connect"
      <4>1. Len(g) = n /\ g[n] = [f[n] EXCEPT !.stage = "again"] BY <1>2, <1>7 DEF TopSet
      <4> QED BY <1>4, <1>5, <1>10, <4>1, StageSet DEF Stages
    <3>2. n >= 2
      <4>1. PICK m, u : Own1(f, c.depth, m) BY <1>1 DEF Good
      <4>2. m >= 1 /\ m \in Nat /\ m <= n BY <1>1, <1>2, <1>3, <4>1 DEF Own1
      <4>3. f[m].of = "method" /\ m \in 1..m BY <4>1, <4>2 DEF Own1
      <4>4. m # n BY <1>10, <4>3
      <4> QED BY <1>3, <4>2, <4>4
    <3> QED BY <3>1, <3>2 DEF Topped, Last
  <2>5. Rerun(c) = d BY <1>1, <1>2, <1>4, <1>8, <1>10, <2>1 DEF Rerun
  <2> QED BY <2>2, <2>3, <2>4, <2>5 DEF GoodCall
<1>11. CASE f[n].of = "method"
  <2>1. PICK tries : tries = IF Own(g) THEN c.tries + 1 ELSE c.tries OBVIOUS
  <2>2. PICK d : d = [a EXCEPT !.tries = IF Own(a.frames) THEN @ + 1 ELSE @] OBVIOUS
  <2>3. Fields(d) /\ d.frames = g /\ d.depth = c.depth /\ d.tries = tries
    BY <1>9, <2>1, <2>2 DEF Fields
  <2>4. PICK i : i = f[n].inner /\ i \in Nat BY <1>4, <1>11 DEF Frame
  <2>5. Good(g \o Begin(i), c.depth, tries)
    BY <1>1, <1>2, <1>5, <1>7, <1>11, <2>1, <2>4, AgainMethod
  <2>6. Rerun(c) = Push(d, Begin(i), IF async THEN "dial" ELSE "connect")
    BY <1>1, <1>2, <1>4, <1>8, <1>11, <2>2, <2>4 DEF Rerun
  <2>7. g \in Seq(Frame) /\ Len(g) = n /\ g # <<>>
    <3>1. g \in Seq(Frame) /\ Len(g) = n BY <1>2, <1>7 DEF TopSet
    <3> QED BY <1>3, <3>1, EmptySeq
  <2>8. PICK pc : pc = (IF async THEN "dial" ELSE "connect") /\ pc \in {"dial", "connect"}
    OBVIOUS
  <2>9. pc = "connect" => /\ Begin(i) \in Seq(Frame) /\ Begin(i) # <<>>
                          /\ Last(Begin(i)).of = "connect"
    BY <2>4, <2>8, BeginTop
  <2> QED BY <2>3, <2>5, <2>6, <2>7, <2>8, <2>9, PushCall
<1> QED BY <1>4, <1>5, <1>10, <1>11 DEF Frame

LEMMA FInit == Init => FInv
<1> SUFFICES ASSUME Init PROVE FInv OBVIOUS
<1>1. IInv BY InitInv
<1>2. ASSUME NEW t \in Caller PROVE GoodCall(call[t])
  <2>1. PICK c : c = call[t] /\ c = NoCall BY DEF Init
  <2>2. /\ Fields(c) /\ c.frames = <<>> /\ c.depth = 1 /\ c.tries = 0 /\ c.pc = "idle"
    BY <2>1 DEF NoCall, Fields
  <2>3. Good(<<>>, 1, 0)
    <3>1. Good(Begin(1), 1, 1) BY BeginGood
    <3>2. Runs[1] \in Nat BY RunsUnfolds
    <3>3. <<>> \in Seq(Frame) /\ Len(<<>>) = 0 BY EmptySeq
    <3>4. PICK v : v = [k \in Nat |-> Runs[1]] OBVIOUS
    <3>5. v \in [Nat -> Nat] /\ \A k \in Nat : v[k] = Runs[1] BY <3>2, <3>4
    <3>6. /\ 1..0 = {} /\ 1..0 - 1 = {} /\ 0 + 1..0 = {} /\ 0 \in 0..1
          /\ \A k \in 0..1 : k \in Nat
      OBVIOUS
    <3>7. Own1(<<>>, 1, 0) /\ Linked(<<>>) BY <3>3, <3>6 DEF Own1, Linked
    <3>8. Budget(<<>>, 1, 0, v, 0)
      <4>1. \A k \in 0..1 : v[k] <= Runs[1] BY <3>2, <3>5, <3>6
      <4>2. 0 <= v[0] BY <3>2, <3>5
      <4> QED BY <3>5, <3>6, <4>1, <4>2 DEF Budget
    <3> QED BY <3>3, <3>7, <3>8 DEF Good
  <2> QED BY <2>1, <2>2, <2>3 DEF GoodCall, Topped
<1> QED BY <1>1, <1>2 DEF FInv

\* One call has another record.
LEMMA PutGood ==
  ASSUME FInv, NEW t \in Caller, NEW c, GoodCall(c), Put(t, c), UNCHANGED async
  PROVE  (\A u \in Caller : GoodCall(call[u]))'
<1>1. \A u \in Caller : call'[u] = c \/ call'[u] = call[u] BY DEF FInv, IInv, Put
<1> QED BY <1>1 DEF FInv, GoodCall, Topped, Fields

Kept == \A u \in Caller : GoodCall(call[u])

LEMMA PropagateGood ==
  ASSUME FInv, NEW t \in Caller, Propagate(t)
  PROVE  Kept'
<1>1. PICK c : c = call[t] /\ GoodCall(c) BY DEF FInv
<1>2. c.pc = "failing" /\ UNCHANGED async BY <1>1 DEF Propagate
<1>3. CASE c.frames = <<>> /\ Put(t, Leave(c, "raised"))
  <2>1. GoodCall(Leave(c, "raised")) BY <1>1, LeaveGood DEF GoodCall
  <2> QED BY <1>2, <1>3, <2>1, PutGood DEF Kept
<1>4. CASE c.frames # <<>> /\ Put(t, [c EXCEPT !.frames = Front(c.frames)])
  <2>1. PICK d : d = [c EXCEPT !.frames = Front(c.frames)] OBVIOUS
  <2>2. /\ Fields(d) /\ d.pc = "failing" /\ d.frames = Front(c.frames)
        /\ d.depth = c.depth /\ d.tries = c.tries
    BY <1>1, <1>2, <2>1 DEF Fields, GoodCall
  <2>3. GoodCall(d) BY <1>1, <1>4, <2>2, FrontGood DEF GoodCall, Topped
  <2> QED BY <1>2, <1>4, <2>1, <2>3, PutGood DEF Kept
<1> QED BY <1>1, <1>3, <1>4 DEF Propagate

LEMMA CatchGood ==
  ASSUME FInv, NEW t \in Caller, Catch(t)
  PROVE  Kept'
<1>1. PICK c : c = call[t] /\ GoodCall(c) BY DEF FInv
<1>2. /\ c.pc = "failing" /\ UNCHANGED async /\ c.frames # <<>> /\ Catches(c)
  BY <1>1 DEF Catch
<1>3. Fields(c) /\ Good(c.frames, c.depth, c.tries) BY <1>1 DEF GoodCall
<1>4. PICK archive : archive = (c.error = "StateDiscardedError") OBVIOUS
<1>5. PICK to : to = NextChain(archive) OBVIOUS
<1>6. PICK none : none = [c EXCEPT !.out = @ \cup {archive}] OBVIOUS
<1>7. /\ Fields(none) /\ none.pc = "failing" /\ none.frames = c.frames
      /\ none.depth = c.depth /\ none.tries = c.tries
  BY <1>2, <1>3, <1>6 DEF Fields
<1>8. CASE Put(t, Leave([none EXCEPT !.error = "RuntimeError"], "raised"))
  <2>1. PICK d : d = [none EXCEPT !.error = "RuntimeError"] OBVIOUS
  <2>2. Fields(d) /\ d.depth = c.depth /\ d.tries = c.tries BY <1>7, <2>1 DEF Fields
  <2>3. GoodCall(Leave(d, "raised")) BY <1>3, <2>2, LeaveGood
  <2> QED BY <1>2, <1>8, <2>1, <2>3, PutGood DEF Kept
<1>9. CASE Put(t, [none EXCEPT !.error = "MaxRetriesExceeded", !.frames = Front(@)])
  <2>1. PICK d : d = [none EXCEPT !.error = "MaxRetriesExceeded", !.frames = Front(@)]
    OBVIOUS
  <2>2. /\ Fields(d) /\ d.pc = "failing" /\ d.frames = Front(c.frames)
        /\ d.depth = c.depth /\ d.tries = c.tries
    BY <1>7, <2>1 DEF Fields
  <2>3. GoodCall(d) BY <1>2, <1>3, <2>2, FrontGood DEF GoodCall, Topped
  <2> QED BY <1>2, <1>9, <2>1, <2>3, PutGood DEF Kept
<1>10. CASE Put(t, [c EXCEPT !.pc = "switching", !.to = to,
                             !.frames[Len(c.frames)].stage = "join", !.sock = Len(socks)])
  <2>1. PICK f, n : f = c.frames /\ n = Len(f) OBVIOUS
  <2>2. PICK g : g = [f EXCEPT ![n].stage = "join"] OBVIOUS
  <2>3. PICK d : d = [c EXCEPT !.pc = "switching", !.to = to,
                               !.frames[n].stage = "join", !.sock = Len(socks)]
    OBVIOUS
  <2>4. /\ Fields(d) /\ d.pc = "switching" /\ d.frames = g /\ d.depth = c.depth
        /\ d.tries = c.tries
    <3>1. PICK c1 : c1 = [c EXCEPT !.pc = "switching"] OBVIOUS
    <3>2. PICK c2 : c2 = [c1 EXCEPT !.to = to] OBVIOUS
    <3>3. PICK c3 : c3 = [c2 EXCEPT !.frames[n].stage = "join"] OBVIOUS
    <3>4. /\ Fields(c1) /\ c1.pc = "switching" /\ c1.frames = f /\ c1.depth = c.depth
          /\ c1.tries = c.tries
      BY <1>3, <2>1, <3>1 DEF Fields
    <3>5. /\ Fields(c2) /\ c2.pc = "switching" /\ c2.frames = f /\ c2.depth = c.depth
          /\ c2.tries = c.tries
      BY <3>2, <3>4 DEF Fields
    <3>6. /\ Fields(c3) /\ c3.pc = "switching" /\ c3.frames = g /\ c3.depth = c.depth
          /\ c3.tries = c.tries
      BY <2>2, <3>3, <3>5 DEF Fields
    <3>7. d = [c3 EXCEPT !.sock = Len(socks)] BY <2>3, <3>1, <3>2, <3>3
    <3> QED BY <3>6, <3>7 DEF Fields
  <2>5. f \in Seq(Frame) /\ n \in Nat /\ n >= 1 /\ n \in 1..n
    BY <1>2, <1>3, <2>1, EmptySeq DEF Good
  <2>6. f[n] \in Frame /\ Last(f) = f[n] BY <2>1, <2>5, ElementOfSeq DEF Last
  <2>7. f[n].of # "request" /\ f[n].stage = "first" BY <1>2, <2>1, <2>6 DEF Catches
  <2>8. TopSet(g, f, "join")
    <3>1. "join" \in Stages BY DEF Stages
    <3> QED BY <1>2, <2>1, <2>2, <2>5, <2>6, <2>7, <3>1, TopSetShape
  <2>9. Good(g, c.depth, c.tries) BY <1>2, <1>3, <2>1, <2>7, <2>8, StageGood
  <2>10. Topped("switching", g)
    <3>1. Len(g) = n /\ g[n] = [f[n] EXCEPT !.stage = "join"] /\ g \in Seq(Frame)
      BY <2>1, <2>8 DEF TopSet
    <3>2. g[n].of = f[n].of /\ g[n].stage = "join"
      BY <2>6, <2>7, <3>1, StageSet DEF Stages
    <3>3. g # <<>> BY <2>5, <3>1, EmptySeq
    <3> QED BY <2>7, <3>1, <3>2, <3>3 DEF Topped, Last
  <2>11. GoodCall(d) BY <2>4, <2>9, <2>10 DEF GoodCall
  <2> QED BY <1>2, <1>10, <2>1, <2>3, <2>11, PutGood DEF Kept
<1> QED BY <1>1, <1>4, <1>5, <1>6, <1>8, <1>9, <1>10 DEF Catch

LEMMA DialGood ==
  ASSUME FInv, NEW t \in Caller, Dial(t) \/ AsyncAnswer(t)
  PROVE  Kept'
<1>1. PICK c : c = call[t] /\ GoodCall(c) BY DEF FInv
<1>2. async /\ UNCHANGED async BY DEF Dial, AsyncAnswer
<1>3. ASSUME NEW end, Put(t, [c EXCEPT !.pc = "sent", !.end = end]) PROVE Kept'
  <2>1. PICK d : d = [c EXCEPT !.pc = "sent", !.end = end] OBVIOUS
  <2>2. Fields(d) /\ d.pc = "sent" /\ d.frames = c.frames /\ d.depth = c.depth
        /\ d.tries = c.tries
    BY <1>1, <2>1 DEF Fields, GoodCall
  <2>3. GoodCall(d) BY <1>1, <1>2, <2>2 DEF GoodCall, Topped
  <2> QED BY <1>2, <1>3, <2>1, <2>3, PutGood DEF Kept
<1>4. ASSUME NEW error, Put(t, Raise(c, error)) PROVE Kept'
  BY <1>1, <1>2, <1>4, RaiseGood, PutGood DEF Kept
<1>5. ASSUME Put(t, Leave(c, "returned")) PROVE Kept'
  <2>1. GoodCall(Leave(c, "returned")) BY <1>1, LeaveGood DEF GoodCall
  <2> QED BY <1>2, <1>5, <2>1, PutGood DEF Kept
<1>6. CASE Dial(t)
  <2>1. PICK end : end = socks[c.sock] OBVIOUS
  <2>2. Put(t, IF Accepts(end) THEN [c EXCEPT !.pc = "sent", !.end = end]
               ELSE Raise(c, Refusal(end)))
    BY <1>1, <1>6, <2>1 DEF Dial
  <2> QED BY <1>3, <1>4, <2>2
<1>7. CASE AsyncAnswer(t)
  <2>1. Put(t, CASE node[c.end] \in {"up", "stuck"} -> Leave(c, "returned")
                 [] node[c.end] = "pruned" -> Raise(c, "StateDiscardedError")
                 [] OTHER -> Raise(c, "ConnectionError"))
    BY <1>1, <1>7 DEF AsyncAnswer
  <2>2. \/ Put(t, Leave(c, "returned")) \/ Put(t, Raise(c, "StateDiscardedError"))
        \/ Put(t, Raise(c, "ConnectionError"))
    BY <2>1
  <2> QED BY <1>4, <1>5, <2>2
<1> QED BY <1>6, <1>7

LEMMA CallGood ==
  ASSUME FInv, NEW depth \in 1..Depth, NEW t \in Caller,
         AsyncCall(t, depth) \/ (t = Main /\ SyncCall(depth))
  PROVE  Kept'
<1>1. depth \in Nat \ {0} /\ depth \in Nat BY FailoverAssumption
<1>2. ASSUME NEW d, Fields(d), d.frames = Begin(depth), d.depth = depth, d.tries = 1,
             Topped(d.pc, Begin(depth))
      PROVE  GoodCall(d)
  <2>1. Good(Begin(depth), depth, 1) BY <1>1, BeginGood
  <2> QED BY <1>2, <2>1 DEF GoodCall
<1>3. CASE AsyncCall(t, depth)
  <2>1. PICK d : d = [NoCall EXCEPT !.pc = "dial", !.depth = depth, !.sock = Len(socks),
                                    !.frames = Begin(depth), !.tries = 1]
    OBVIOUS
  <2>2. /\ Fields(d) /\ d.frames = Begin(depth) /\ d.depth = depth /\ d.tries = 1
        /\ d.pc = "dial"
    <3>1. PICK f : f = Begin(depth) OBVIOUS
    <3>2. PICK s : s = Len(socks) OBVIOUS
    <3>3. d = [pc |-> "dial", error |-> None, frames |-> f, sock |-> s, end |-> None,
               open |-> FALSE, to |-> None, tries |-> 1, depth |-> depth, out |-> {}]
      BY <2>1, <3>1, <3>2 DEF NoCall
    <3> QED BY <3>1, <3>3 DEF Fields
  <2>3. GoodCall(d) BY <1>2, <2>2 DEF Topped
  <2>4. Put(t, d) /\ UNCHANGED async BY <1>3, <2>1 DEF AsyncCall
  <2> QED BY <2>3, <2>4, PutGood DEF Kept
<1>4. CASE t = Main /\ SyncCall(depth)
  <2>1. PICK d : d = [NoCall EXCEPT !.pc = "connect", !.depth = depth,
                                    !.frames = Begin(depth), !.tries = 1]
    OBVIOUS
  <2>2. /\ Fields(d) /\ d.frames = Begin(depth) /\ d.depth = depth /\ d.tries = 1
        /\ d.pc = "connect"
    <3>1. PICK f : f = Begin(depth) OBVIOUS
    <3>3. d = [pc |-> "connect", error |-> None, frames |-> f, sock |-> 0, end |-> None,
               open |-> FALSE, to |-> None, tries |-> 1, depth |-> depth, out |-> {}]
      BY <2>1, <3>1 DEF NoCall
    <3> QED BY <3>1, <3>3 DEF Fields
  <2>3. ~async /\ Put(t, d) /\ UNCHANGED async BY <1>4, <2>1 DEF SyncCall
  <2>4. Topped("connect", Begin(depth))
    <3>1. Last(Begin(depth)).of = "connect" BY <1>1, <2>3, BeginTop
    <3>2. Len(Begin(depth)) = depth + 2 BY <1>1, <2>3, BeginShape
    <3> QED BY <1>1, <3>1, <3>2 DEF Topped
  <2>5. GoodCall(d) BY <1>2, <2>2, <2>4
  <2> QED BY <2>3, <2>5, PutGood DEF Kept
<1> QED BY <1>3, <1>4

LEMMA AsyncSwitchGood ==
  ASSUME FInv, NEW t \in Caller, AsyncSwitch(t)
  PROVE  Kept'
<1>1. PICK c : c = call[t] /\ GoodCall(c) BY DEF FInv
<1>2. async /\ c.pc = "switching" /\ UNCHANGED async BY <1>1 DEF AsyncSwitch
<1>3. GoodCall([Rerun(c) EXCEPT !.sock = Len(socks) + 1])
  <2>1. Busy(Last(c.frames)) /\ c.frames # <<>>
    BY <1>1, <1>2 DEF GoodCall, Topped, Busy
  <2>2. PICK d : d = Rerun(c) /\ GoodCall(d) BY <1>1, <2>1, RerunGood DEF GoodCall
  <2>3. PICK e : e = [d EXCEPT !.sock = Len(socks) + 1] OBVIOUS
  <2>4. /\ Fields(e) /\ e.pc = d.pc /\ e.frames = d.frames /\ e.depth = d.depth
        /\ e.tries = d.tries
    BY <2>2, <2>3 DEF Fields, GoodCall
  <2> QED BY <2>2, <2>3, <2>4 DEF GoodCall
<1>4. ASSUME NEW u \in Caller PROVE GoodCall([call[u] EXCEPT !.pc = "stranded"])
  <2>1. PICK d : d = call[u] /\ GoodCall(d) BY DEF FInv
  <2>2. PICK e : e = [d EXCEPT !.pc = "stranded"] OBVIOUS
  <2>3. /\ Fields(e) /\ e.pc = "stranded" /\ e.frames = d.frames /\ e.depth = d.depth
        /\ e.tries = d.tries
    BY <2>1, <2>2 DEF Fields, GoodCall
  <2> QED BY <2>1, <2>2, <2>3 DEF GoodCall, Topped
<1>5. ASSUME NEW u \in Caller PROVE GoodCall(call'[u])
  <2>1. GoodCall(call[u]) BY DEF FInv
  <2>2. call'[u] \in {[Rerun(c) EXCEPT !.sock = Len(socks) + 1],
                      [call[u] EXCEPT !.pc = "stranded"], call[u]}
    BY <1>1 DEF AsyncSwitch
  <2> QED BY <1>3, <1>4, <2>1, <2>2
<1> QED BY <1>2, <1>5 DEF Kept, GoodCall, Topped, Fields

\* connect() on top of what has been there.
LEMMA ConnectGood1 ==
  ASSUME NEW f, NEW D, NEW tries, Good(f, D, tries), f # <<>>, NEW fresh \in BOOLEAN,
         Last(f).of # "request" => Last(f).stage = "join"
  PROVE  /\ Good(f \o <<Connecting(fresh)>>, D, tries)
         /\ <<Connecting(fresh)>> \in Seq(Frame) /\ <<Connecting(fresh)>> # <<>>
         /\ Last(<<Connecting(fresh)>>).of = "connect"
<1>1. PICK x : x = Connecting(fresh) /\ x \in Frame /\ x.of = "connect"
  <2>1. Connecting(fresh) \in Frame /\ Connecting(fresh).of = "connect"
    BY DEF Connecting, Frame, Stages
  <2> QED BY <2>1
<1>2. PICK h : h = <<x>> OBVIOUS
<1>3. h \in Seq(Frame) /\ Len(h) = 1 /\ h[1] = x BY <1>1, <1>2
<1>4. h # <<>> BY <1>2
<1>5. Above(h, f)
  <2>1. \A k \in 1..Len(h) : k = 1 BY <1>3
  <2>2. 1..Len(h) - 1 = {} BY <1>3
  <2>3. \A k \in 1..Len(h) : h[k].of # "method" BY <1>1, <1>3, <2>1
  <2>4. Linked(h) BY <2>2 DEF Linked
  <2> QED BY <1>3, <2>3, <2>4 DEF Above, Last
<1>6. Good(f \o h, D, tries) BY <1>5, PushGood
<1>7. Last(h).of = "connect" BY <1>1, <1>3 DEF Last
<1> QED BY <1>1, <1>2, <1>3, <1>4, <1>6, <1>7

LEMMA SyncSwitchGood ==
  ASSUME FInv, SyncSwitch
  PROVE  Kept'
<1>0. Main \in Caller BY DEF Caller
<1>1. PICK c : c = call[Main] /\ GoodCall(c) BY <1>0 DEF FInv
<1>2. /\ c.pc = "switching" /\ UNCHANGED async
      /\ Put(Main, Push(c, <<Connecting(TRUE)>>, "connect"))
  BY <1>1 DEF SyncSwitch
<1>3. Fields(c) /\ Good(c.frames, c.depth, c.tries) /\ c.frames \in Seq(Frame)
  BY <1>1 DEF GoodCall, Good
<1>4. c.frames # <<>> /\ Last(c.frames).stage = "join" BY <1>1, <1>2 DEF GoodCall, Topped
<1>5. PICK h : h = <<Connecting(TRUE)>> OBVIOUS
<1>6. /\ Good(c.frames \o h, c.depth, c.tries)
      /\ h \in Seq(Frame) /\ h # <<>> /\ Last(h).of = "connect"
  BY <1>3, <1>4, <1>5, ConnectGood1
<1>7. GoodCall(Push(c, h, "connect")) BY <1>3, <1>4, <1>6, PushCall
<1> QED BY <1>0, <1>2, <1>5, <1>7, PutGood DEF Kept

LEMMA ConnectedGood ==
  ASSUME ~async, NEW c, GoodCall(c), c.pc = "connect", NEW end
  PROVE  GoodCall(Connected(c, end))
<1>1. PICK f, n : f = c.frames /\ n = Len(f) OBVIOUS
<1>2. /\ Fields(c) /\ Good(f, c.depth, c.tries) /\ f \in Seq(Frame) /\ Linked(f)
      /\ Last(f).of = "connect" /\ n >= 2 /\ n \in Nat
  BY <1>1, LenProperties DEF GoodCall, Topped, Good
<1>3. f # <<>>
  <2>1. Len(<<>>) = 0 BY EmptySeq
  <2> QED BY <1>1, <1>2, <2>1
<1>4. PICK b, l : b = Front(f) /\ l = n - 1 OBVIOUS
<1>5. /\ l \in Nat /\ l >= 1 /\ b \in Seq(Frame) /\ Len(b) = l
      /\ \A k \in 1..l : b[k] = f[k]
  BY <1>1, <1>2, <1>3, <1>4, FrontShape
<1>6. Good(b, c.depth, c.tries) BY <1>2, <1>3, <1>4, FrontGood
<1>7. b # <<>> /\ Last(b) = f[l] /\ l \in 1..l
  <2>1. Len(<<>>) = 0 BY EmptySeq
  <2> QED BY <1>5, <2>1 DEF Last
<1>8. f[l].of # "request" => f[l].stage = "join"
  <2>1. l \in 1..n - 1 /\ l + 1 = n BY <1>2, <1>4
  <2> QED BY <1>1, <1>2, <2>1 DEF Linked, Last
<1>9. PICK rest : rest = [c EXCEPT !.frames = Front(@)] OBVIOUS
<1>10. /\ Fields(rest) /\ rest.frames = b /\ rest.depth = c.depth /\ rest.tries = c.tries
  BY <1>1, <1>2, <1>4, <1>9 DEF Fields
<1>11. CASE Last(b).of = "request"
  <2>1. PICK d : d = [rest EXCEPT !.pc = "sent", !.end = end, !.open = TRUE] OBVIOUS
  <2>2. Fields(d) /\ d.pc = "sent" /\ d.frames = b /\ d.depth = c.depth /\ d.tries = c.tries
    <3>1. PICK e : e = [rest EXCEPT !.pc = "sent", !.end = end] OBVIOUS
    <3>2. Fields(e) /\ e.pc = "sent" /\ e.frames = b /\ e.depth = c.depth
          /\ e.tries = c.tries
      BY <1>10, <3>1 DEF Fields
    <3>3. PICK yes : yes = TRUE OBVIOUS
    <3>4. d = [e EXCEPT !.open = yes] BY <2>1, <3>1, <3>3
    <3> QED BY <3>2, <3>4 DEF Fields
  <2>3. Connected(c, end) = d BY <1>9, <1>10, <1>11, <2>1 DEF Connected
  <2> QED BY <1>6, <1>7, <1>11, <2>2, <2>3 DEF GoodCall, Topped
<1>12. CASE Last(b).of # "request"
  <2>1. PICK g : g = [b EXCEPT ![l].stage = "init"] OBVIOUS
  <2>2. PICK d : d = [rest EXCEPT !.frames[l].stage = "init"] OBVIOUS
  <2>3. Fields(d) /\ d.frames = g /\ d.depth = c.depth /\ d.tries = c.tries
    BY <1>10, <2>1, <2>2 DEF Fields
  <2>4. b[l].of # "request" /\ b[l].stage = "join" /\ b[l] \in Frame
    <3>1. b[l] = f[l] BY <1>5, <1>7
    <3> QED BY <1>5, <1>7, <1>8, <1>12, <3>1, ElementOfSeq
  <2>5. TopSet(g, b, "init")
    <3>1. "init" \in Stages BY DEF Stages
    <3> QED BY <1>5, <1>7, <1>12, <2>1, <3>1, TopSetShape
  <2>6. Good(g, c.depth, c.tries) BY <1>5, <1>6, <1>7, <2>4, <2>5, StageGood
  <2>7. /\ Len(g) = l /\ g \in Seq(Frame) /\ g # <<>>
        /\ g[l].of = b[l].of /\ g[l].stage = "init" /\ Busy(g[l])
    <3>1. Len(g) = l /\ g[l] = [b[l] EXCEPT !.stage = "init"] /\ g \in Seq(Frame)
      BY <1>5, <2>5 DEF TopSet
    <3>2. g[l].of = b[l].of /\ g[l].stage = "init" BY <2>4, <3>1, StageSet DEF Stages
    <3>3. Len(<<>>) = 0 BY EmptySeq
    <3> QED BY <1>5, <2>4, <3>1, <3>2, <3>3 DEF Busy
  <2>8. PICK h : h = Begin(1) OBVIOUS
  <2>9. /\ h \in Seq(Frame) /\ Len(h) = 3 /\ h[1] = Method(0)
        /\ h[2] = Request(1) /\ h[3] = Connecting(FALSE)
    <3>1. 1 \in Nat /\ 1 + 1 = 2 /\ 1 + 2 = 3 /\ 1 - 1 = 0 /\ 1 \in 1..1 OBVIOUS
    <3> QED BY <2>8, <3>1, BeginShape
  <2>10. /\ h[1].of = "method" /\ h[1].inner = 0 /\ h[2].of = "request"
         /\ h[3].of = "connect"
    BY <2>9 DEF Method, Request, Connecting
  <2>11. Above(h, g)
    <3>1. \A k \in 1..Len(h) : k = 1 \/ k = 2 \/ k = 3 BY <2>9
    <3>2. \A k \in 1..Len(h) - 1 : k = 1 \/ k = 2 BY <2>9
    <3>3. Linked(h)
      <4>1. \A k \in 1..Len(h) - 1 : (k = 1 /\ k + 1 = 2) \/ k = 2 BY <3>2
      <4> QED BY <2>10, <4>1 DEF Linked
    <3>4. \A k \in 1..Len(h) : h[k].of = "method" => h[k].inner = 0 BY <2>10, <3>1
    <3>5. \E j \in 1..Len(g) : Busy(g[j]) BY <1>7, <2>7
    <3> QED BY <2>9, <2>10, <3>3, <3>4, <3>5 DEF Above
  <2>12. Good(g \o h, c.depth, c.tries) BY <2>6, <2>7, <2>11, PushGood
  <2>13. h # <<>> /\ Last(h).of = "connect"
    <3>1. 1 \in Nat OBVIOUS
    <3> QED BY <2>8, <3>1, BeginTop
  <2>14. GoodCall(Push(d, h, "connect"))
    BY <2>3, <2>7, <2>9, <2>12, <2>13, PushCall
  <2>15. Connected(c, end) = Push(d, h, "connect")
    BY <1>5, <1>9, <1>10, <1>12, <2>2, <2>8 DEF Connected
  <2> QED BY <2>14, <2>15
<1> QED BY <1>11, <1>12

LEMMA ConnectGood ==
  ASSUME FInv, Connect
  PROVE  Kept'
<1>0. Main \in Caller BY DEF Caller
<1>1. PICK c : c = call[Main] /\ GoodCall(c) BY <1>0 DEF FInv
<1>2. ~async /\ c.pc = "connect" /\ UNCHANGED async BY <1>1 DEF Connect
<1>3. \/ Put(Main, Connected(c, ws.end)) \/ Put(Main, Connected(c, url))
      \/ Put(Main, Raise(c, Refusal(url)))
  BY <1>1 DEF Connect
<1>4. \A end : GoodCall(Connected(c, end)) BY <1>1, <1>2, ConnectedGood
<1>5. GoodCall(Raise(c, Refusal(url))) BY <1>1, RaiseGood
<1> QED BY <1>0, <1>2, <1>3, <1>4, <1>5, PutGood DEF Kept

LEMMA FlipGood ==
  ASSUME FInv, NEW x, NEW state, Flip(x, state)
  PROVE  Kept'
<1>0. Main \in Caller /\ UNCHANGED async BY DEF Caller, Flip
<1>1. PICK c : c = call[Main] /\ GoodCall(c) BY <1>0 DEF FInv
<1>2. PICK no : no = FALSE OBVIOUS
<1>3. PICK d : d = [c EXCEPT !.open = no] OBVIOUS
<1>4. /\ Fields(d) /\ d.pc = c.pc /\ d.frames = c.frames /\ d.depth = c.depth
      /\ d.tries = c.tries
  BY <1>1, <1>3 DEF Fields, GoodCall
<1>5. GoodCall(d) BY <1>1, <1>4 DEF GoodCall
<1>6. call' \in {call, [call EXCEPT ![Main] = d]} BY <1>1, <1>2, <1>3 DEF Flip
<1>7. CASE call' = call BY <1>0, <1>7 DEF FInv, Kept, GoodCall, Topped, Fields
<1>8. CASE Put(Main, d) BY <1>0, <1>5, <1>8, PutGood DEF Kept
<1> QED BY <1>6, <1>7, <1>8 DEF Put

\* The last of some frames.
LEMMA TopOf ==
  ASSUME NEW n \in Nat, NEW T, T \subseteq 1..n, T # {}
  PROVE  \E i \in T : \A j \in T : j <= i
<1> DEFINE Has(X) == \E i \in X : \A j \in X : j <= i
           S == {k \in Nat : \A X \in SUBSET (1..k) : X # {} => Has(X)}
<1>1. 0 \in S
  <2>1. 1..0 = {} OBVIOUS
  <2> QED BY <2>1
<1>2. ASSUME NEW k \in Nat, k \in S PROVE k + 1 \in S
  <2>1. ASSUME NEW X \in SUBSET (1..k + 1), X # {} PROVE Has(X)
    <3>1. CASE k + 1 \in X
      <4>1. \A j \in X : j <= k + 1 OBVIOUS
      <4> QED BY <3>1, <4>1
    <3>2. CASE k + 1 \notin X
      <4>1. X \in SUBSET (1..k)
        <5>1. \A j \in X : j \in 1..k + 1 /\ j # k + 1 BY <3>2
        <5>2. \A j \in X : j \in 1..k BY <5>1
        <5> QED BY <5>2
      <4> HIDE DEF Has
      <4> QED BY <1>2, <2>1, <4>1
    <3> QED BY <3>1, <3>2
  <2> HIDE DEF Has
  <2> QED BY <2>1
<1>3. \A k \in Nat : k \in S
  <2> HIDE DEF S
  <2> QED BY <1>1, <1>2, NatSet
<1> QED BY <1>3

\* The request at the top is replaced by another.
LEMMA RequestGood ==
  ASSUME NEW f, NEW D, NEW tries, Good(f, D, tries), f # <<>>, Last(f).of = "request",
         NEW x \in Frame, x.of = "request"
  PROVE  Good(Append(Front(f), x), D, tries)
<1>1. PICK n : n = Len(f) OBVIOUS
<1>2. f \in Seq(Frame) /\ n \in Nat /\ n >= 1 /\ n \in 1..n BY <1>1, EmptySeq DEF Good
<1>3. PICK b, l : b = Front(f) /\ l = n - 1 OBVIOUS
<1>4. l \in Nat /\ b \in Seq(Frame) /\ Len(b) = l /\ Good(b, D, tries)
  BY <1>1, <1>2, <1>3, FrontShape, FrontGood
<1>5. b # <<>>
  <2>1. PICK m, u : Own1(f, D, m) BY DEF Good
  <2>2. m >= 1 /\ m \in Nat /\ m <= n
    <3>1. D \in Nat BY DEF Good
    <3> QED BY <1>1, <2>1, <3>1 DEF Own1
  <2>3. f[m].of = "method" /\ m \in 1..m BY <2>1, <2>2 DEF Own1
  <2>4. m # n BY <1>1, <2>3 DEF Last
  <2>5. l # 0 BY <1>2, <1>3, <2>2, <2>4
  <2>6. Len(<<>>) = 0 BY EmptySeq
  <2> QED BY <1>4, <2>5, <2>6
<1>6. PICK h : h = <<x>> OBVIOUS
<1>7. h \in Seq(Frame) /\ Len(h) = 1 /\ h[1] = x BY <1>6
<1>8. Above(h, b)
  <2>1. \A k \in 1..Len(h) : k = 1 BY <1>7
  <2>2. 1..Len(h) - 1 = {} BY <1>7
  <2>3. \A k \in 1..Len(h) : h[k].of = "request" BY <1>7, <2>1
  <2>4. Linked(h) BY <2>2 DEF Linked
  <2>5. 1 \in 1..Len(h) BY <1>7
  <2> QED BY <1>7, <2>3, <2>4, <2>5 DEF Above
<1>9. Good(b \o h, D, tries) BY <1>4, <1>5, <1>8, PushGood
<1>10. Append(b, x) = b \o h BY <1>4, <1>6
<1> QED BY <1>3, <1>9, <1>10

\* An answer ends the call, or lets the frame that initializes run again.
LEMMA AnsweredGood ==
  ASSUME NEW c, GoodCall(c)
  PROVE  GoodCall(Answered(c))
<1>1. PICK f, n : f = c.frames /\ n = Len(f) OBVIOUS
<1>2. /\ Fields(c) /\ Good(f, c.depth, c.tries) /\ f \in Seq(Frame)
      /\ n \in Nat /\ DOMAIN f = 1..n
  BY <1>1, LenProperties DEF GoodCall, Good
<1>3. PICK inits : inits = {i \in DOMAIN f : f[i].of # "request" /\ f[i].stage = "init"}
  OBVIOUS
<1>4. PICK top : top = (CHOOSE i \in inits : \A j \in inits : j <= i) OBVIOUS
<1>5. Answered(c) = IF inits = {} THEN Leave(c, "returned")
                    ELSE Rerun([c EXCEPT !.frames = SubSeq(@, 1, top)])
  BY <1>1, <1>3, <1>4 DEF Answered
<1>6. CASE inits = {} BY <1>1, <1>2, <1>5, <1>6, LeaveGood
<1>7. CASE inits # {}
  <2>1. top \in inits
    <3>1. inits \subseteq 1..n BY <1>2, <1>3
    <3>2. \E i \in inits : \A j \in inits : j <= i BY <1>2, <1>7, <3>1, TopOf
    <3> QED BY <1>4, <3>2
  <2>2. top \in 1..n /\ top \in Nat /\ top >= 1 /\ top <= n /\ Busy(f[top])
    BY <1>2, <1>3, <2>1 DEF Busy
  <2>3. PICK g : g = SubSeq(f, 1, top) OBVIOUS
  <2>4. g \in Seq(Frame) /\ Len(g) = top /\ \A k \in 1..top : g[k] = f[k]
    <3>1. \A k \in 1..top : k \in 1..n /\ (1 + k) - 1 = k BY <1>2, <2>2
    <3>2. \A k \in 1..top : f[k] \in Frame BY <1>1, <1>2, <3>1, ElementOfSeq
    <3>3. 1 <= top /\ (top - 1) + 1 = top BY <2>2
    <3>4. /\ g \in Seq(Frame) /\ Len(g) = IF 1 <= top THEN (top - 1) + 1 ELSE 0
          /\ \A k \in 1..(top - 1) + 1 : g[k] = f[(1 + k) - 1]
      BY <2>2, <2>3, <3>2, SubSeqProperties
    <3> QED BY <3>1, <3>3, <3>4
  <2>5. Good(g, c.depth, c.tries) BY <1>1, <1>2, <2>2, <2>4, CutGood
  <2>6. PICK d : d = [c EXCEPT !.frames = g] OBVIOUS
  <2>7. Fields(d) /\ d.frames = g /\ d.depth = c.depth /\ d.tries = c.tries
    BY <1>2, <2>6 DEF Fields
  <2>8. g # <<>> /\ Busy(Last(g))
    <3>1. Len(<<>>) = 0 BY EmptySeq
    <3>2. top \in 1..top BY <2>2
    <3> QED BY <2>2, <2>4, <3>1, <3>2 DEF Last
  <2>9. GoodCall(Rerun(d)) BY <2>5, <2>7, <2>8, RerunGood
  <2>10. Answered(c) = Rerun(d) BY <1>1, <1>5, <1>7, <2>3, <2>6
  <2> QED BY <2>9, <2>10
<1> QED BY <1>6, <1>7

LEMMA RecvGood ==
  ASSUME FInv, Recv
  PROVE  Kept'
<1>0. Main \in Caller BY DEF Caller
<1>1. PICK c : c = call[Main] /\ GoodCall(c) BY <1>0 DEF FInv
<1>2. ~async /\ c.pc = "sent" /\ UNCHANGED async BY <1>1 DEF Recv
<1>3. PICK f, x : f = c.frames /\ x = Request(Last(c.frames).attempt + 1) OBVIOUS
<1>4. PICK d : d = [c EXCEPT !.frames = Append(Front(f), x)] OBVIOUS
<1>5. /\ Fields(c) /\ Good(f, c.depth, c.tries) /\ f # <<>> /\ Last(f).of = "request"
      /\ f \in Seq(Frame)
  BY <1>1, <1>2, <1>3 DEF GoodCall, Topped, Good
<1>6. Fields(d) /\ d.frames = Append(Front(f), x) /\ d.depth = c.depth /\ d.tries = c.tries
  BY <1>4, <1>5 DEF Fields
<1>7. x \in Frame /\ x.of = "request"
  <2>1. PICK n : n = Len(f) OBVIOUS
  <2>2. n \in Nat /\ n >= 1 /\ n \in 1..n BY <1>5, <2>1, EmptySeq
  <2>3. f[n] \in Frame /\ f[n].of = "request" BY <1>5, <2>1, <2>2, ElementOfSeq DEF Last
  <2>4. f[n].attempt \in Nat BY <2>3 DEF Frame
  <2>5. PICK a : a = f[n].attempt + 1 /\ a \in Nat BY <2>4
  <2>6. x = Request(a) BY <1>3, <2>1, <2>5 DEF Last
  <2> QED BY <2>5, <2>6 DEF Request, Frame
<1>8. Good(d.frames, d.depth, d.tries) BY <1>5, <1>6, <1>7, RequestGood
<1>9. Last(d.frames) = x /\ d.frames # <<>> /\ d.frames \in Seq(Frame)
  <2>1. Front(f) \in Seq(Frame) BY <1>5, FrontShape
  <2>2. PICK b : b = Front(f) /\ b \in Seq(Frame) BY <2>1
  <2>3. /\ Append(b, x) \in Seq(Frame) /\ Len(Append(b, x)) = Len(b) + 1
        /\ Append(b, x)[Len(b) + 1] = x /\ Append(b, x) # <<>>
    BY <1>7, <2>2, AppendProperties
  <2> QED BY <1>6, <2>2, <2>3 DEF Last
<1>10. PICK h : h = <<Connecting(TRUE)>> OBVIOUS
<1>11. /\ Good(d.frames \o h, d.depth, d.tries)
       /\ h \in Seq(Frame) /\ h # <<>> /\ Last(h).of = "connect"
  BY <1>7, <1>8, <1>9, <1>10, ConnectGood1
<1>12. GoodCall(Push(d, h, "connect")) BY <1>6, <1>9, <1>11, PushCall
<1>13. GoodCall(Answered(c)) BY <1>1, AnsweredGood
<1>14. \A e : GoodCall(Raise(c, e)) BY <1>1, RaiseGood
<1>15. \/ Put(Main, Answered(c)) \/ Put(Main, Raise(c, "StateDiscardedError"))
       \/ Put(Main, Push(d, h, "connect")) \/ Put(Main, Raise(c, "MaxRetriesExceeded"))
  BY <1>1, <1>3, <1>4, <1>10 DEF Recv
<1> QED BY <1>0, <1>2, <1>12, <1>13, <1>14, <1>15, PutGood DEF Kept

LEMMA FNext == FInv /\ [Next]_vars => FInv'
<1> SUFFICES ASSUME FInv, [Next]_vars PROVE FInv' OBVIOUS
<1>1. IInv' BY NextStep DEF FInv
<1>2. ASSUME NEW t \in Caller, Step(t) PROVE Kept'
  BY <1>2, PropagateGood, CatchGood, AsyncSwitchGood, DialGood, SyncSwitchGood,
     ConnectGood, RecvGood DEF Step
<1>3. ASSUME NEW t \in Task, NEW depth \in 1..Depth, AsyncCall(t, depth) PROVE Kept'
  BY <1>3, CallGood DEF Caller
<1>4. ASSUME NEW depth \in 1..Depth, SyncCall(depth) PROVE Kept'
  BY <1>4, CallGood DEF Caller
<1>5. ASSUME NEW x \in Chain, NEW state, Flip(x, state) PROVE Kept'
  BY <1>5, FlipGood
<1>6. ASSUME UNCHANGED vars PROVE Kept'
  <2>1. call' = call /\ async' = async BY <1>6 DEF vars
  <2> QED BY <2>1 DEF FInv, Kept, GoodCall, Topped, Fields
<1>7. Kept'
  <2>1. Next \/ UNCHANGED vars OBVIOUS
  <2> QED BY <1>2, <1>3, <1>4, <1>5, <1>6, <2>1 DEF Next
<1> QED BY <1>1, <1>7 DEF FInv, Kept

\* However deep its frames, and although each may fail over, and connecting and
\* initializing fail over too: a call makes its own request at most twice per
\* frame (substrate_addons.py:176-190), with any chains and any failures.
THEOREM RetriesAreBounded == Spec => []BoundedRetries
<1>1. FInv => BoundedRetries BY WithinBudget DEF FInv, GoodCall, BoundedRetries
<1> QED BY <1>1, FInit, FNext, PTL DEF Spec
-----------------------------------------------------------------------------
(***************************************************************************)
(* Every chain that has been handed out has been tried, or is being tried. *)
(***************************************************************************)

\* An asynchronous call: methods, each in its place has room below Depth for
\* those that it runs.
Shallow(f) ==
  \A i \in 1..Len(f) : f[i].of = "method" /\ i + f[i].inner <= Depth

\* Some call is about to try the chain: it has been given it, dials a Websocket to
\* it, or is the first to connect since self.url has become it.  A synchronous call
\* that was given it may have ended of a full stack; then the next one connects.
Going(u, x) ==
  \/ call[u].pc = "switching" /\ call[u].to = x
  \/ async /\ call[u].pc = "dial" /\ socks[call[u].sock] = x
  \/ ~async /\ u = Main /\ call[u].pc \in Ended \cup {"connect"} /\ url = x /\ ~ws.open

Covered(x) == x \in tried \/ \E u \in Caller : Going(u, x)

\* The iterators: never at the end when they cycle.
Iterators ==
  /\ forever \in BOOLEAN /\ taken = [archive \in BOOLEAN |-> taken[archive]]
  /\ \A archive \in BOOLEAN :
       /\ taken[archive] \in Nat
       /\ forever => Chains(archive) = <<>> \/ taken[archive] < Len(Chains(archive))
       /\ ~forever => taken[archive] <= Len(Chains(archive))

\* The lists a call has found at their end are empty or handed out; before a
\* synchronous one goes on, all of theirs has been tried.
Spent(out) ==
  \A archive \in out :
    /\ archive \in BOOLEAN
    /\ Chains(archive) = <<>> \/ (~forever /\ taken[archive] = Len(Chains(archive)))
    /\ ~async => \A i \in 1..Len(Chains(archive)) : Chains(archive)[i] \in tried

HInv ==
  /\ Iterators /\ socks # <<>>
  /\ ~async => \A u \in Caller \ {Main} : call[u].pc = "idle"
  /\ async => \A t \in Caller :
       /\ Shallow(call[t].frames)
       /\ call[t].pc = "dial" => call[t].sock \in 1..Len(socks)
  /\ \A t \in Caller : Spent(call[t].out)
  /\ ~forever =>
       \A archive \in BOOLEAN : \A i \in 1..taken[archive] : Covered(Chains(archive)[i])

\* Python's stack holds the methods of a call that does not fail.
StackFits == Depth <= Stack

LEMMA ShallowNone == Shallow(<<>>)
<1>1. Len(<<>>) = 0 /\ 1..0 = {} BY EmptySeq
<1> QED BY <1>1 DEF Shallow

LEMMA ShallowFront ==
  ASSUME NEW f \in Seq(Frame), f # <<>>, Shallow(f)
  PROVE  Shallow(Front(f))
<1>1. PICK n : n = Len(f) OBVIOUS
<1>2. n \in Nat BY <1>1, LenProperties
<1>3. Len(Front(f)) = n - 1 /\ \A k \in 1..n - 1 : Front(f)[k] = f[k] /\ k \in 1..n
  BY <1>1, <1>2, FrontShape
<1> QED BY <1>1, <1>3 DEF Shallow

\* The frame on top goes on to another stage.
LEMMA ShallowTop ==
  ASSUME NEW f \in Seq(Frame), f # <<>>, Shallow(f), NEW stage \in Stages,
         NEW g, TopSet(g, f, stage)
  PROVE  Shallow(g)
<1>1. PICK n : n = Len(f) OBVIOUS
<1>2. n \in Nat /\ n >= 1 /\ n \in 1..n BY <1>1, EmptySeq, LenProperties
<1>3. f[n] \in Frame /\ f[n].of = "method" BY <1>1, <1>2, ElementOfSeq DEF Shallow
<1>4. Len(g) = n /\ (\A k \in 1..n - 1 : g[k] = f[k]) /\ g[n] = [f[n] EXCEPT !.stage = stage]
  BY <1>1 DEF TopSet
<1>5. g[n].of = f[n].of /\ g[n].inner = f[n].inner BY <1>3, <1>4, StageSet
<1>6. \A k \in 1..n : k \in 1..n - 1 \/ k = n BY <1>2
<1> QED BY <1>1, <1>4, <1>5, <1>6 DEF Shallow

\* The methods in a method go on top of it.
LEMMA ShallowBegin ==
  ASSUME async, NEW f \in Seq(Frame), Shallow(f), NEW d \in Nat, Len(f) + d <= Depth
  PROVE  Shallow(f \o Begin(d))
<1>0. PICK h, l : h = Begin(d) /\ l = Len(f) OBVIOUS
<1>1. PICK g : h = Begin(d) /\ l = Len(f) /\ g = f \o h BY <1>0
<1>2. h \in Seq(Frame) /\ Len(h) = d /\ \A k \in 1..d : h[k] = Method(d - k)
  BY <1>1, BeginShape
<1>3. l \in Nat /\ Depth \in Nat /\ l + d <= Depth BY <1>1, LenProperties, FailoverAssumption
<1>4. /\ Len(g) = l + d
      /\ \A k \in 1..l + d : g[k] = IF k <= l THEN f[k] ELSE h[k - l]
  <2>1. /\ Len(f \o h) = Len(f) + Len(h)
        /\ \A k \in 1..Len(f) + Len(h) :
             (f \o h)[k] = IF k <= Len(f) THEN f[k] ELSE h[k - Len(f)]
    BY <1>2, ConcatProperties
  <2> QED BY <1>1, <1>2, <2>1
<1>5. ASSUME NEW i \in 1..l + d PROVE g[i].of = "method" /\ i + g[i].inner <= Depth
  <2>1. CASE i <= l
    <3>1. i \in 1..l /\ g[i] = f[i] BY <1>3, <1>4, <2>1
    <3> QED BY <1>1, <3>1 DEF Shallow
  <2>2. CASE ~(i <= l)
    <3>1. i - l \in 1..d BY <1>3, <2>2
    <3>2. PICK k : k = i - l /\ k \in 1..d BY <3>1
    <3>3. g[i] = Method(d - k) BY <1>2, <1>4, <2>2, <3>2
    <3>4. g[i].of = "method" /\ g[i].inner = d - k BY <3>3 DEF Method
    <3>5. i + (d - k) <= Depth BY <1>3, <3>2
    <3> QED BY <3>4, <3>5
  <2> QED BY <2>1, <2>2
<1> QED BY <1>1, <1>4, <1>5 DEF Shallow

\* A method that runs again in an asynchronous call finds room on the stack.
LEMMA RerunShallow ==
  ASSUME StackFits, async, NEW c, Fields(c), c.frames \in Seq(Frame), Shallow(c.frames),
         c.frames # <<>>
  PROVE  Shallow(Rerun(c).frames) /\ Rerun(c).pc = "dial"
<1>1. PICK f, l : f = c.frames /\ l = Len(f) OBVIOUS
<1>2. f \in Seq(Frame) /\ l \in Nat /\ l >= 1 /\ l \in 1..l BY <1>1, EmptySeq, LenProperties
<1>3. Depth \in Nat /\ Stack \in Nat /\ Depth <= Stack BY FailoverAssumption DEF StackFits
<1>4. f[l] \in Frame /\ Last(f) = f[l] /\ f[l].of = "method"
  BY <1>1, <1>2, ElementOfSeq DEF Last, Shallow
<1>5. PICK g, a : /\ g = [f EXCEPT ![l].stage = "again"]
                  /\ a = [c EXCEPT !.frames[l].stage = "again"]
  OBVIOUS
<1>6. TopSet(g, f, "again") /\ Shallow(g)
  <2>1. "again" \in Stages BY DEF Stages
  <2>2. TopSet(g, f, "again") BY <1>1, <1>2, <1>4, <1>5, <2>1, TopSetShape
  <2> QED BY <1>1, <2>1, <2>2, ShallowTop
<1>7. g \in Seq(Frame) /\ Len(g) = l BY <1>1, <1>6 DEF TopSet
<1>8. Fields(a) /\ a.frames = g BY <1>1, <1>5 DEF Fields
<1>9. PICK d : d = [a EXCEPT !.tries = IF Own(a.frames) THEN @ + 1 ELSE @] OBVIOUS
<1>10. Fields(d) /\ d.frames = g BY <1>8, <1>9 DEF Fields
<1>11. PICK i : i = f[l].inner /\ i \in Nat /\ l + i <= Depth
  <2>1. f[l].inner \in Nat BY <1>4 DEF Frame
  <2> QED BY <1>1, <1>2, <2>1 DEF Shallow
<1>12. PICK h : h = Begin(i) OBVIOUS
<1>13. Len(h) = i BY <1>11, <1>12, BeginShape
<1>14. Shallow(g \o h) BY <1>6, <1>7, <1>11, <1>12, ShallowBegin
<1>15. ~(Len(d.frames) + Len(h) > Stack) BY <1>2, <1>3, <1>7, <1>10, <1>11, <1>13
<1>16. Rerun(c) = Push(d, h, "dial") BY <1>1, <1>4, <1>5, <1>9, <1>11, <1>12 DEF Rerun
<1>17. PICK x, r : x = d.frames \o h /\ r = Push(d, h, "dial") OBVIOUS
<1>18. r = [d EXCEPT !.frames = x, !.pc = "dial", !.error = None]
  BY <1>15, <1>17 DEF Push
<1>19. r.frames = x /\ r.pc = "dial" BY <1>10, <1>18 DEF Fields
<1> QED BY <1>10, <1>14, <1>16, <1>17, <1>19

LEMMA ChainsType ==
  ASSUME forever \in BOOLEAN, NEW archive \in BOOLEAN
  PROVE  /\ Chains(archive) \in Seq(Chain) /\ Len(Chains(archive)) \in Nat
         /\ \A i \in 1..Len(Chains(archive)) : Chains(archive)[i] # None
         /\ ~forever => Len(Chains(archive)) = IF archive THEN Len(Archives) ELSE Len(Fallbacks)
<1>1. /\ Fallbacks \in Seq(Chain) /\ Archives \in Seq(Chain) /\ Url \in Chain
      /\ None \notin Chain
  BY FailoverAssumption DEF Chain, None
<1>2. Append(Fallbacks, Url) \in Seq(Chain) BY <1>1, AppendProperties
<1>3. PICK s : s = Chains(archive) OBVIOUS
<1>4. s \in Seq(Chain)
  <2>1. CASE archive = TRUE BY <1>1, <1>3, <2>1 DEF Chains
  <2>2. CASE archive = FALSE /\ forever BY <1>2, <1>3, <2>2 DEF Chains
  <2>3. CASE archive = FALSE /\ ~forever BY <1>1, <1>3, <2>3 DEF Chains
  <2> QED BY <2>1, <2>2, <2>3
<1>5. ~forever => Len(s) = IF archive THEN Len(Archives) ELSE Len(Fallbacks)
  BY <1>3 DEF Chains
<1>6. Len(s) \in Nat /\ \A i \in 1..Len(s) : s[i] # None
  <2>1. \A i \in 1..Len(s) : s[i] \in Chain BY <1>4, ElementOfSeq
  <2> QED BY <1>1, <1>4, <2>1, LenProperties
<1> QED BY <1>3, <1>4, <1>5, <1>6

\* A chain that is to be tried still is, or has been, when one call takes a step.
LEMMA CoveredKeeps ==
  ASSUME IInv, NEW t \in Caller, NEW d, Put(t, d), async \/ t = Main,
         UNCHANGED <<async, socks>>, tried \subseteq tried', NEW x, Covered(x),
         Going(t, x) => x \in tried' \/ Going(t, x)'
  PROVE  Covered(x)'
<1>1. \A u \in Caller \ {t} : call'[u] = call[u] BY DEF IInv, Put
<1>2. CASE x \in tried BY <1>2 DEF Covered
<1>3. ASSUME NEW u \in Caller, Going(u, x) PROVE Covered(x)'
  <2>1. CASE u = t BY <1>3, <2>1 DEF Covered
  <2>2. CASE u # t
    <3>1. call'[u] = call[u] /\ (async \/ u # Main) BY <1>1, <2>2
    <3>2. Going(u, x)' BY <1>3, <3>1 DEF Going
    <3> QED BY <3>2 DEF Covered
  <2> QED BY <2>1, <2>2
<1> QED BY <1>2, <1>3 DEF Covered

LEMMA SpentKeeps ==
  ASSUME UNCHANGED <<async, forever, taken>>, tried \subseteq tried', NEW out, Spent(out)
  PROVE  Spent(out)'
BY DEF Spent, Chains

\* A step of one call, that is handed no chain.
LEMMA PutKeeps ==
  ASSUME IInv, HInv, NEW t \in Caller, NEW d, Put(t, d), async \/ t = Main,
         UNCHANGED <<async, forever, taken, socks>>, tried \subseteq tried',
         Spent(d.out), async => Shallow(d.frames),
         async /\ d.pc = "dial" => d.sock \in 1..Len(socks),
         \A x : Going(t, x) => x \in tried' \/ Going(t, x)'
  PROVE  HInv'
<1>1. call'[t] = d /\ \A u \in Caller \ {t} : call'[u] = call[u] BY DEF IInv, Put
<1>2. Iterators' /\ (socks # <<>>)' BY DEF HInv, Iterators, Chains
<1>3. ASSUME ~async, NEW u \in Caller \ {Main} PROVE call'[u].pc = "idle"
  <2>1. call'[u] = call[u] BY <1>1, <1>3
  <2> QED BY <1>3, <2>1 DEF HInv
<1>4. ASSUME NEW u \in Caller PROVE Spent(call[u].out)'
  <2>0. PICK out : out = call'[u].out OBVIOUS
  <2>1. Spent(out)
    <3>1. CASE u = t BY <1>1, <2>0, <3>1
    <3>2. CASE u # t BY <1>1, <2>0, <3>2 DEF HInv
    <3> QED BY <3>1, <3>2
  <2>2. Spent(out)' BY <2>1, SpentKeeps
  <2> QED BY <2>0, <2>2 DEF Spent
<1>5. ASSUME async, NEW u \in Caller
      PROVE  /\ Shallow(call'[u].frames)
             /\ call'[u].pc = "dial" => call'[u].sock \in 1..Len(socks)
  <2>1. CASE u = t BY <1>1, <1>5, <2>1
  <2>2. CASE u # t BY <1>1, <1>5, <2>2 DEF HInv
  <2> QED BY <2>1, <2>2
<1>6. ASSUME ~forever, NEW archive \in BOOLEAN, NEW i \in 1..taken[archive]
      PROVE  Covered(Chains(archive)[i])'
  <2>1. PICK x : x = Chains(archive)[i] OBVIOUS
  <2>2. Covered(x) BY <1>6, <2>1 DEF HInv
  <2>3. Covered(x)' BY <2>2, CoveredKeeps
  <2>4. (Chains(archive)[i])' = x BY <2>1 DEF Chains
  <2> QED BY <2>3, <2>4
<1>7. (async <=> async') /\ (forever <=> forever') /\ taken' = taken /\ socks' = socks OBVIOUS
<1> QED BY <1>2, <1>3, <1>4, <1>5, <1>6, <1>7 DEF HInv, Shallow

LEMMA Acts ==
  ASSUME HInv, NEW t \in Caller, call[t].pc # "idle"
  PROVE  async \/ t = Main
BY DEF HInv

\* A call that has tried its chain is not about to try one.
LEMMA NotGoing ==
  ASSUME NEW t, call[t].pc \in {"failing", "sent"}
  PROVE  \A x : ~Going(t, x)
BY DEF Going, Ended

\* A call that is left has no frames; one that fails keeps them.
LEMMA LeaveShallow ==
  ASSUME NEW c, Fields(c), NEW pc
  PROVE  Shallow(Leave(c, pc).frames)
<1>1. PICK d : d = Leave(c, pc) OBVIOUS
<1>2. d.frames = <<>> BY <1>1 DEF Leave, Fields
<1> QED BY <1>1, <1>2, ShallowNone

LEMMA RaiseFrames ==
  ASSUME NEW c, Fields(c), NEW error
  PROVE  Raise(c, error).frames = c.frames
<1>1. PICK d : d = Raise(c, error) OBVIOUS
<1>2. d.frames = c.frames BY <1>1 DEF Raise, Fields
<1> QED BY <1>1, <1>2

LEMMA PropagateKeeps ==
  ASSUME FInv, HInv, NEW t \in Caller, Propagate(t)
  PROVE  HInv'
<1>1. PICK c : c = call[t] /\ Fields(c) BY DEF FInv, IInv
<1>2. c.pc = "failing" /\ UNCHANGED <<async, forever, taken, socks, tried>>
  BY <1>1 DEF Propagate
<1>3. IInv /\ (async \/ t = Main) BY <1>1, <1>2, Acts DEF FInv
<1>4. Spent(c.out) /\ (async => Shallow(c.frames)) BY <1>1 DEF HInv
<1>5. c.frames \in Seq(Frame) BY <1>1 DEF FInv, GoodCall, Good
<1>6. \A x : ~Going(t, x) BY <1>1, <1>2, NotGoing
<1>7. PICK d : /\ Put(t, d) /\ d.pc \in {"raised", "failing"} /\ d.out = c.out
               /\ async => Shallow(d.frames)
  <2>1. CASE Put(t, Leave(c, "raised"))
    <3>1. Leave(c, "raised").pc = "raised" /\ Leave(c, "raised").out = c.out
      BY <1>1, LeaveShape
    <3>2. Shallow(Leave(c, "raised").frames) BY <1>1, LeaveShallow
    <3> QED BY <2>1, <3>1, <3>2
  <2>2. CASE c.frames # <<>> /\ Put(t, [c EXCEPT !.frames = Front(c.frames)])
    <3>1. PICK f : f = Front(c.frames) OBVIOUS
    <3>2. PICK d : d = [c EXCEPT !.frames = f] OBVIOUS
    <3>3. d.frames = f /\ d.pc = "failing" /\ d.out = c.out
      BY <1>1, <1>2, <3>2 DEF Fields
    <3>4. async => Shallow(f) BY <1>4, <1>5, <2>2, <3>1, ShallowFront
    <3> QED BY <2>2, <3>1, <3>2, <3>3, <3>4
  <2> QED BY <1>1, <2>1, <2>2 DEF Propagate
<1>8. d.pc # "dial" /\ Spent(d.out) BY <1>4, <1>7
<1> QED BY <1>2, <1>3, <1>6, <1>7, <1>8, PutKeeps

\* A synchronous call that finds no chain left has tried them all: it is the only
\* one, and between two attempts.
LEMMA SpentNow ==
  ASSUME HInv, NEW t \in Caller, call[t].pc = "failing", NEW archive \in BOOLEAN,
         NextChain(archive) = None
  PROVE  Spent({archive})
<1>1. forever \in BOOLEAN /\ taken[archive] \in Nat BY DEF HInv, Iterators
<1>2. PICK list, n : list = Chains(archive) /\ n = taken[archive] OBVIOUS
<1>3. list \in Seq(Chain) /\ Len(list) \in Nat /\ \A i \in 1..Len(list) : list[i] # None
  BY <1>1, <1>2, ChainsType
<1>4. ~(n + 1 <= Len(list))
  <2>1. SUFFICES ASSUME n + 1 <= Len(list) PROVE FALSE OBVIOUS
  <2>2. NextChain(archive) = list[n + 1] BY <1>2, <2>1 DEF NextChain
  <2>3. n + 1 \in 1..Len(list) BY <1>1, <1>2, <1>3, <2>1
  <2> QED BY <1>3, <2>2, <2>3
<1>5. forever => list = <<>> BY <1>1, <1>2, <1>3, <1>4 DEF HInv, Iterators
<1>6. ~forever => n = Len(list)
  <2>1. ~forever => n <= Len(list) BY <1>2 DEF HInv, Iterators
  <2> QED BY <1>1, <1>2, <1>3, <1>4, <2>1
<1>7. ASSUME ~async, NEW i \in 1..Len(list) PROVE list[i] \in tried
  <2>1. ~forever /\ i \in 1..n
    <3>1. list # <<>>
      <4>1. Len(<<>>) = 0 BY EmptySeq
      <4> QED BY <1>3, <4>1
    <3> QED BY <1>5, <1>6, <3>1
  <2>2. Covered(list[i]) BY <1>2, <2>1 DEF HInv
  <2>3. ASSUME NEW u \in Caller, Going(u, list[i]) PROVE FALSE
    <3>1. t = Main BY <1>7, Acts
    <3>2. CASE u = Main BY <1>7, <2>3, <3>1, <3>2 DEF Going, Ended
    <3>3. CASE u # Main
      <4>1. call[u].pc = "idle" BY <1>7, <3>3 DEF HInv
      <4> QED BY <1>7, <2>3, <3>3, <4>1 DEF Going
    <3> QED BY <3>2, <3>3
  <2> QED BY <2>2, <2>3 DEF Covered
<1> QED BY <1>2, <1>5, <1>6, <1>7 DEF Spent

LEMMA SpentMore ==
  ASSUME NEW a, NEW b, Spent(a), Spent(b)
  PROVE  Spent(a \cup b)
BY DEF Spent

LEMMA CatchNoneKeeps ==
  ASSUME FInv, HInv, NEW t \in Caller, Catch(t), NEW archive,
         archive = (call[t].error = "StateDiscardedError"), NextChain(archive) = None
  PROVE  HInv'
<1>1. PICK c : c = call[t] /\ Fields(c) BY DEF FInv, IInv
<1>2. /\ c.pc = "failing" /\ archive \in BOOLEAN /\ c.frames # <<>>
      /\ UNCHANGED <<async, forever, socks, tried>>
  BY <1>1 DEF Catch
<1>3. IInv /\ (async \/ t = Main) BY <1>1, <1>2, Acts DEF FInv
<1>4. Spent(c.out) BY <1>1 DEF HInv
<1>6. \A x : ~Going(t, x) BY <1>1, <1>2, NotGoing
<1>7. PICK out : out = c.out \cup {archive} OBVIOUS
<1>8. Spent(out) BY <1>1, <1>2, <1>4, <1>7, SpentNow, SpentMore
<1>9. PICK none : none = [c EXCEPT !.out = out] OBVIOUS
<1>10. Fields(none) /\ none.pc = "failing" /\ none.frames = c.frames /\ none.out = out
  BY <1>1, <1>2, <1>9 DEF Fields
<1>11. /\ UNCHANGED taken
       /\ Put(t, IF async THEN Leave([none EXCEPT !.error = "RuntimeError"], "raised")
                 ELSE [none EXCEPT !.error = "MaxRetriesExceeded", !.frames = Front(@)])
  BY <1>1, <1>7, <1>9 DEF Catch
<1>12. PICK d : /\ Put(t, d) /\ d.pc \in {"raised", "failing"} /\ d.out = out
                /\ async => Shallow(d.frames)
  <2>1. CASE async
    <3>1. PICK e : e = [none EXCEPT !.error = "RuntimeError"] OBVIOUS
    <3>2. Fields(e) /\ e.out = out BY <1>10, <3>1 DEF Fields
    <3>3. Leave(e, "raised").pc = "raised" /\ Leave(e, "raised").out = out
      BY <3>2, LeaveShape
    <3>4. Shallow(Leave(e, "raised").frames) BY <3>2, LeaveShallow
    <3>5. Put(t, Leave(e, "raised")) BY <1>11, <2>1, <3>1
    <3> QED BY <3>3, <3>4, <3>5
  <2>2. CASE ~async
    <3>1. PICK f : f = Front(c.frames) OBVIOUS
    <3>2. PICK d : d = [none EXCEPT !.error = "MaxRetriesExceeded", !.frames = f] OBVIOUS
    <3>3. d.frames = f /\ d.pc = "failing" /\ d.out = out BY <1>10, <3>2 DEF Fields
    <3>4. Put(t, d) BY <1>10, <1>11, <2>2, <3>1, <3>2
    <3> QED BY <2>2, <3>3, <3>4
  <2> QED BY <2>1, <2>2
<1>13. d.pc # "dial" /\ Spent(d.out) BY <1>8, <1>12
<1> QED BY <1>2, <1>3, <1>6, <1>11, <1>12, <1>13, PutKeeps

\* One more chain has been handed out, and nobody has found that list at its end.
LEMMA AdvanceShape ==
  ASSUME HInv, NEW archive \in BOOLEAN, NextChain(archive) # None, Advance(archive),
         UNCHANGED <<async, forever, tried>>
  PROVE  /\ Iterators'
         /\ \A out : Spent(out) => Spent(out)'
         /\ ~forever => /\ taken'[archive] = taken[archive] + 1
                        /\ \A b \in BOOLEAN \ {archive} : taken'[b] = taken[b]
                        /\ Chains(archive)[taken'[archive]] = NextChain(archive)
<1>1. /\ forever \in BOOLEAN /\ taken = [b \in BOOLEAN |-> taken[b]]
      /\ \A b \in BOOLEAN : taken[b] \in Nat
  BY DEF HInv, Iterators
<1>2. PICK list, n : list = Chains(archive) /\ n = taken[archive] OBVIOUS
<1>3. n \in Nat /\ Len(list) \in Nat BY <1>1, <1>2, ChainsType
<1>4. n + 1 <= Len(list) /\ NextChain(archive) = list[n + 1]
  BY <1>2 DEF NextChain
<1>5. PICK m : m = IF forever THEN (n + 1) % Len(list) ELSE n + 1 OBVIOUS
<1>6. taken' = [taken EXCEPT ![archive] = m] BY <1>2, <1>5 DEF Advance
<1>7. /\ taken' = [b \in BOOLEAN |-> taken'[b]] /\ taken'[archive] = m
      /\ \A b \in BOOLEAN \ {archive} : taken'[b] = taken[b]
  BY <1>1, <1>6
<1>8. m \in Nat /\ (forever => m < Len(list)) /\ (~forever => m = n + 1)
  <2>1. CASE forever
    <3>1. n + 1 \in Nat /\ Len(list) \in Nat \ {0} BY <1>3, <1>4
    <3>2. \A x \in Nat : \A y \in Nat \ {0} : x % y \in Nat /\ x % y < y OBVIOUS
    <3>3. m = (n + 1) % Len(list) BY <1>5, <2>1
    <3> QED BY <2>1, <3>1, <3>2, <3>3
  <2>2. CASE ~forever BY <1>3, <1>5, <2>2
  <2> QED BY <2>1, <2>2
<1>9. \A b : Chains(b)' = Chains(b) BY DEF Chains
<1>10. Iterators'
  <2>1. ASSUME NEW b \in BOOLEAN
        PROVE  /\ taken'[b] \in Nat
               /\ forever => Chains(b) = <<>> \/ taken'[b] < Len(Chains(b))
               /\ ~forever => taken'[b] <= Len(Chains(b))
    <3>1. CASE b = archive BY <1>2, <1>3, <1>4, <1>7, <1>8, <3>1
    <3>2. CASE b # archive BY <1>7, <3>2 DEF HInv, Iterators
    <3> QED BY <3>1, <3>2
  <2> QED BY <1>1, <1>7, <1>9, <2>1 DEF Iterators
<1>11. ASSUME NEW out, Spent(out) PROVE Spent(out)'
  <2>1. archive \notin out
    <3>1. list # <<>>
      <4>1. Len(<<>>) = 0 BY EmptySeq
      <4> QED BY <1>3, <1>4, <4>1
    <3>2. n # Len(list) BY <1>3, <1>4
    <3> QED BY <1>2, <1>11, <3>1, <3>2 DEF Spent
  <2>2. ASSUME NEW b \in out
        PROVE  /\ b \in BOOLEAN /\ taken'[b] = taken[b]
    <3>1. b \in BOOLEAN BY <1>11 DEF Spent
    <3> QED BY <1>7, <2>1, <3>1
  <2> QED BY <1>9, <1>11, <2>2 DEF Spent
<1> QED BY <1>2, <1>4, <1>7, <1>8, <1>10, <1>11

LEMMA CatchSwitchKeeps ==
  ASSUME FInv, HInv, NEW t \in Caller, Catch(t), NEW archive,
         archive = (call[t].error = "StateDiscardedError"), NextChain(archive) # None
  PROVE  HInv'
<1>1. PICK c : c = call[t] /\ GoodCall(c) BY DEF FInv
<1>2. /\ c.pc = "failing" /\ archive \in BOOLEAN /\ c.frames # <<>> /\ Catches(c)
      /\ UNCHANGED <<async, forever, socks, tried>>
  BY <1>1 DEF Catch
<1>3. IInv /\ (async \/ t = Main) BY <1>1, <1>2, Acts DEF FInv
<1>4. Spent(c.out) /\ (async => Shallow(c.frames)) BY <1>1 DEF HInv
<1>5. c.frames \in Seq(Frame) BY <1>1 DEF GoodCall, Good
<1>6. \A x : ~Going(t, x) BY <1>1, <1>2, NotGoing
<1>7. PICK to, n, l : to = NextChain(archive) /\ n = Len(c.frames) /\ l = Len(socks) OBVIOUS
<1>8. PICK d : d = [c EXCEPT !.pc = "switching", !.to = to,
                             !.frames[n].stage = "join", !.sock = l]
  OBVIOUS
<1>9. PICK f, g : f = c.frames /\ g = [f EXCEPT ![n].stage = "join"] OBVIOUS
<1>10. d.pc = "switching" /\ d.to = to /\ d.frames = g /\ d.out = c.out
  <2>1. PICK c1 : c1 = [c EXCEPT !.pc = "switching"] OBVIOUS
  <2>2. PICK c2 : c2 = [c1 EXCEPT !.to = to] OBVIOUS
  <2>3. PICK c3 : c3 = [c2 EXCEPT !.frames[n].stage = "join"] OBVIOUS
  <2>4. Fields(c1) /\ c1.pc = "switching" /\ c1.frames = f /\ c1.out = c.out
    BY <1>1, <1>9, <2>1 DEF Fields, GoodCall
  <2>5. Fields(c2) /\ c2.pc = "switching" /\ c2.frames = f /\ c2.to = to /\ c2.out = c.out
    BY <2>2, <2>4 DEF Fields
  <2>6. Fields(c3) /\ c3.pc = "switching" /\ c3.frames = g /\ c3.to = to /\ c3.out = c.out
    BY <1>9, <2>3, <2>5 DEF Fields
  <2>7. d = [c3 EXCEPT !.sock = l] BY <1>8, <2>1, <2>2, <2>3
  <2> QED BY <2>6, <2>7 DEF Fields
<1>11. Put(t, d) /\ Advance(archive) BY <1>1, <1>7, <1>8 DEF Catch
<1>12. /\ Iterators' /\ (\A out : Spent(out) => Spent(out)')
       /\ ~forever => /\ taken'[archive] = taken[archive] + 1
                      /\ \A b \in BOOLEAN \ {archive} : taken'[b] = taken[b]
                      /\ Chains(archive)[taken'[archive]] = to
  BY <1>2, <1>7, <1>11, AdvanceShape
<1>13. ASSUME async PROVE Shallow(g)
  <2>1. Shallow(f) /\ f # <<>> /\ f \in Seq(Frame) BY <1>2, <1>4, <1>5, <1>9, <1>13
  <2>2. Last(f).of # "request" BY <1>2, <1>9 DEF Catches
  <2>3. "join" \in Stages BY DEF Stages
  <2>4. TopSet(g, f, "join") BY <1>7, <1>9, <2>1, <2>2, <2>3, TopSetShape
  <2> QED BY <2>1, <2>3, <2>4, ShallowTop
<1>14. call'[t] = d /\ \A u \in Caller \ {t} : call'[u] = call[u]
  BY <1>3, <1>11 DEF IInv, Put
<1>15. \A b : Chains(b)' = Chains(b) BY <1>2 DEF Chains
<1>16. ASSUME NEW u \in Caller PROVE Spent(call[u].out)'
  <2>1. PICK out : out = call'[u].out OBVIOUS
  <2>2. Spent(out)
    <3>1. CASE u = t BY <1>4, <1>10, <1>14, <2>1, <3>1
    <3>2. CASE u # t BY <1>14, <2>1, <3>2 DEF HInv
    <3> QED BY <3>1, <3>2
  <2>3. Spent(out)' BY <1>12, <2>2
  <2> QED BY <2>1, <2>3 DEF Spent
<1>17. ASSUME async, NEW u \in Caller
       PROVE  /\ Shallow(call'[u].frames)
              /\ call'[u].pc = "dial" => call'[u].sock \in 1..l
  <2>1. CASE u = t BY <1>10, <1>13, <1>14, <1>17, <2>1
  <2>2. CASE u # t BY <1>7, <1>14, <1>17, <2>2 DEF HInv
  <2> QED BY <2>1, <2>2
<1>18. ASSUME ~forever, NEW b \in BOOLEAN, NEW i \in 1..taken'[b]
       PROVE  Covered(Chains(b)[i])'
  <2>1. PICK x : x = Chains(b)[i] OBVIOUS
  <2>2. (Chains(b)[i])' = x BY <1>15, <2>1
  <2>3. CASE b = archive /\ i = taken'[archive]
    <3>1. x = to BY <1>12, <1>18, <2>1, <2>3
    <3>2. Going(t, x)' BY <1>10, <1>14, <3>1 DEF Going
    <3> QED BY <2>2, <3>2 DEF Covered
  <2>4. CASE ~(b = archive /\ i = taken'[archive])
    <3>1. i \in 1..taken[b]
      <4>1. taken[b] \in Nat BY DEF HInv, Iterators
      <4>2. CASE b = archive BY <1>12, <1>18, <2>4, <4>1, <4>2
      <4>3. CASE b # archive BY <1>12, <1>18, <4>3
      <4> QED BY <4>2, <4>3
    <3>2. Covered(x) BY <1>18, <2>1, <3>1 DEF HInv
    <3>3. tried \subseteq tried' /\ ~Going(t, x) BY <1>2, <1>6
    <3>4. UNCHANGED <<async, socks>> BY <1>2
    <3>5. Covered(x)' BY <1>3, <1>11, <3>2, <3>3, <3>4, CoveredKeeps
    <3> QED BY <2>2, <3>5
  <2> QED BY <2>3, <2>4
<1>19. ASSUME ~async, NEW u \in Caller \ {Main} PROVE call'[u].pc = "idle"
  <2>1. call'[u] = call[u] BY <1>3, <1>14, <1>19
  <2> QED BY <1>19, <2>1 DEF HInv
<1>20. (async <=> async') /\ (forever <=> forever') /\ socks' = socks /\ socks # <<>>
  BY <1>2 DEF HInv
<1> QED BY <1>7, <1>12, <1>16, <1>17, <1>18, <1>19, <1>20 DEF HInv, Shallow

\* The call that switches dials the chain next, on the Websocket that is now the
\* last; the others' Websockets are where they were.
LEMMA AsyncSwitchKeeps ==
  ASSUME FInv, HInv, StackFits, NEW t \in Caller, AsyncSwitch(t)
  PROVE  HInv'
<1>1. PICK c : c = call[t] /\ GoodCall(c) BY DEF FInv
<1>2. async /\ c.pc = "switching" BY <1>1 DEF AsyncSwitch
<1>3. UNCHANGED <<async, forever, taken, tried>> /\ socks' = Append(socks, c.to)
  BY <1>1 DEF AsyncSwitch
<1>4. PICK l : l = Len(socks) OBVIOUS
<1>5. PICK S : socks \in Seq(S) BY DEF FInv, IInv
<1>6. /\ l \in Nat /\ Len(socks') = l + 1 /\ socks'[l + 1] = c.to /\ socks' # <<>>
      /\ \A i \in 1..l : socks'[i] = socks[i]
  <2>1. PICK T : T = S \cup {c.to} OBVIOUS
  <2>2. S \subseteq T /\ c.to \in T BY <2>1
  <2>3. socks \in Seq(T) BY <1>5, <2>2, SeqMonotonic
  <2>4. /\ Len(Append(socks, c.to)) = Len(socks) + 1
        /\ Append(socks, c.to)[Len(socks) + 1] = c.to
        /\ \A i \in 1..Len(socks) : Append(socks, c.to)[i] = socks[i]
        /\ Append(socks, c.to) # <<>> /\ Len(socks) \in Nat
    BY <2>2, <2>3, AppendProperties, LenProperties
  <2> QED BY <1>3, <1>4, <2>4
<1>7. Spent(c.out) /\ Shallow(c.frames) BY <1>1, <1>2 DEF HInv
<1>8. c.frames \in Seq(Frame) /\ c.frames # <<>>
  BY <1>1, <1>2 DEF GoodCall, Good, Topped
<1>9. PICK r : r = Rerun(c) OBVIOUS
<1>10. Fields(c) /\ Fields(r) /\ r.out = c.out BY <1>1, <1>9, RerunShape DEF GoodCall
<1>11. Shallow(r.frames) /\ r.pc = "dial" BY <1>2, <1>7, <1>8, <1>9, <1>10, RerunShallow
<1>12. PICK d : d = [r EXCEPT !.sock = l + 1] OBVIOUS
<1>13. d.pc = r.pc /\ d.frames = r.frames /\ d.out = c.out /\ d.sock = l + 1
  BY <1>10, <1>12 DEF Fields
<1>14. /\ call'[t] = d
       /\ \A u \in Caller \ {t} :
            call'[u] = IF call[u].pc = "sent" /\ call[u].sock = c.sock
                       THEN [call[u] EXCEPT !.pc = "stranded"] ELSE call[u]
  BY <1>1, <1>4, <1>9, <1>12 DEF AsyncSwitch
<1>15. \A u \in Caller \ {t} :
         /\ call'[u].frames = call[u].frames /\ call'[u].out = call[u].out
         /\ call'[u] = call[u] \/ (call[u].pc = "sent" /\ call'[u].pc = "stranded")
  <2> TAKE u \in Caller \ {t}
  <2>1. PICK e : e = call[u] /\ Fields(e) BY DEF FInv, IInv
  <2>2. PICK s : s = [e EXCEPT !.pc = "stranded"] OBVIOUS
  <2>3. s.frames = e.frames /\ s.out = e.out /\ s.pc = "stranded" BY <2>1, <2>2 DEF Fields
  <2> QED BY <1>14, <2>1, <2>2, <2>3
<1>16. \A b : Chains(b)' = Chains(b) BY <1>3 DEF Chains
<1>17. ASSUME NEW u \in Caller PROVE Spent(call[u].out)'
  <2>1. PICK out : out = call'[u].out OBVIOUS
  <2>2. Spent(out)
    <3>1. CASE u = t BY <1>7, <1>13, <1>14, <2>1, <3>1
    <3>2. CASE u # t BY <1>15, <2>1, <3>2 DEF HInv
    <3> QED BY <3>1, <3>2
  <2>3. UNCHANGED <<async, forever, taken>> /\ tried \subseteq tried' BY <1>3
  <2>4. Spent(out)' BY <2>2, <2>3, SpentKeeps
  <2> QED BY <2>1, <2>4 DEF Spent
<1>18. ASSUME NEW u \in Caller
       PROVE  /\ Shallow(call'[u].frames)
              /\ call'[u].pc = "dial" => call'[u].sock \in 1..Len(socks')
  <2>1. CASE u = t
    <3>1. l + 1 \in 1..l + 1 BY <1>6
    <3> QED BY <1>6, <1>11, <1>13, <1>14, <2>1, <3>1
  <2>2. CASE u # t
    <3>1. Shallow(call'[u].frames) BY <1>2, <1>15, <2>2 DEF HInv
    <3>2. ASSUME call'[u].pc = "dial" PROVE call'[u].sock \in 1..Len(socks')
      <4>1. call'[u] = call[u] BY <1>15, <2>2, <3>2
      <4>2. call'[u].sock \in 1..l BY <1>2, <1>4, <3>2, <4>1 DEF HInv
      <4>3. \A i \in 1..l : i \in 1..l + 1 BY <1>6
      <4> QED BY <1>6, <4>2, <4>3
    <3> QED BY <3>1, <3>2
  <2> QED BY <2>1, <2>2
<1>19. ASSUME NEW x, Covered(x) PROVE Covered(x)'
  <2>1. CASE x \in tried BY <1>3, <2>1 DEF Covered
  <2>2. ASSUME NEW u \in Caller, Going(u, x) PROVE Covered(x)'
    <3>1. CASE u = t
      <4>1. x = c.to BY <1>1, <1>2, <2>2, <3>1 DEF Going
      <4>2. Going(t, x)' BY <1>2, <1>3, <1>6, <1>11, <1>13, <1>14, <4>1 DEF Going
      <4> QED BY <4>2 DEF Covered
    <3>2. CASE u # t
      <4>1. call'[u] = call[u]
        <5>1. call[u].pc # "sent" BY <1>2, <2>2 DEF Going
        <5> QED BY <1>15, <3>2, <5>1
      <4>2. CASE call[u].pc = "switching" /\ call[u].to = x
        BY <4>1, <4>2 DEF Going, Covered
      <4>3. CASE call[u].pc = "dial" /\ socks[call[u].sock] = x
        <5>1. call[u].sock \in 1..l BY <1>2, <1>4, <4>3 DEF HInv
        <5>2. socks'[call'[u].sock] = x BY <1>6, <4>1, <4>3, <5>1
        <5> QED BY <1>2, <1>3, <4>1, <4>3, <5>2 DEF Going, Covered
      <4> QED BY <1>2, <2>2, <4>2, <4>3 DEF Going
    <3> QED BY <3>1, <3>2
  <2> QED BY <1>19, <2>1, <2>2 DEF Covered
<1>20. ASSUME ~forever, NEW b \in BOOLEAN, NEW i \in 1..taken[b]
       PROVE  Covered(Chains(b)[i])'
  <2>1. PICK x : x = Chains(b)[i] OBVIOUS
  <2>2. Covered(x)' BY <1>19, <1>20, <2>1 DEF HInv
  <2> QED BY <1>16, <2>1, <2>2
<1>21. Iterators' BY <1>3 DEF HInv, Iterators, Chains
<1>22. async' /\ (forever <=> forever') /\ taken' = taken BY <1>2, <1>3
<1> QED BY <1>6, <1>17, <1>18, <1>20, <1>21, <1>22 DEF HInv, Shallow

LEMMA DialKeeps ==
  ASSUME FInv, HInv, NEW t \in Caller, Dial(t)
  PROVE  HInv'
<1>1. PICK c : c = call[t] /\ Fields(c) BY DEF FInv, IInv
<1>2. async /\ c.pc = "dial" BY <1>1 DEF Dial
<1>3. PICK end : end = socks[c.sock] OBVIOUS
<1>4. UNCHANGED <<async, forever, taken, socks>> /\ tried' = tried \cup {end}
  BY <1>1, <1>3 DEF Dial
<1>5. Put(t, IF Accepts(end) THEN [c EXCEPT !.pc = "sent", !.end = end]
             ELSE Raise(c, Refusal(end)))
  BY <1>1, <1>3 DEF Dial
<1>6. Spent(c.out) /\ Shallow(c.frames) BY <1>1, <1>2 DEF HInv
<1>7. PICK d : /\ Put(t, d) /\ d.pc \in {"sent", "failing"} /\ d.out = c.out
               /\ d.frames = c.frames
  <2>1. PICK e : e = [c EXCEPT !.pc = "sent", !.end = end] OBVIOUS
  <2>2. e.pc = "sent" /\ e.out = c.out /\ e.frames = c.frames BY <1>1, <2>1 DEF Fields
  <2>3. PICK x : x = Raise(c, Refusal(end)) OBVIOUS
  <2>4. x.pc = "failing" /\ x.out = c.out /\ x.frames = c.frames
    BY <1>1, <2>3 DEF Raise, Fields
  <2> QED BY <1>5, <2>1, <2>2, <2>3, <2>4
<1>8. ASSUME NEW x, Going(t, x) PROVE x \in tried'
  BY <1>1, <1>2, <1>3, <1>4, <1>8 DEF Going
<1>9. IInv /\ tried \subseteq tried' /\ d.pc # "dial" BY <1>4, <1>7 DEF FInv
<1>10. Spent(d.out) /\ Shallow(d.frames) BY <1>6, <1>7
<1>11. async \/ t = Main BY <1>2
<1> QED BY <1>4, <1>7, <1>8, <1>9, <1>10, <1>11, PutKeeps

LEMMA AnswerKeeps ==
  ASSUME FInv, HInv, NEW t \in Caller, AsyncAnswer(t)
  PROVE  HInv'
<1>1. PICK c : c = call[t] /\ Fields(c) BY DEF FInv, IInv
<1>2. async /\ c.pc = "sent" BY <1>1 DEF AsyncAnswer
<1>3. UNCHANGED <<async, forever, taken, socks, tried>> BY DEF AsyncAnswer
<1>4. Spent(c.out) /\ Shallow(c.frames) BY <1>1, <1>2 DEF HInv
<1>6. PICK d : /\ Put(t, d) /\ d.pc \in {"returned", "failing"} /\ d.out = c.out
               /\ Shallow(d.frames)
  <2>1. Put(t, CASE node[c.end] \in {"up", "stuck"} -> Leave(c, "returned")
                 [] node[c.end] = "pruned" -> Raise(c, "StateDiscardedError")
                 [] OTHER -> Raise(c, "ConnectionError"))
    BY <1>1 DEF AsyncAnswer
  <2>2. \/ Put(t, Leave(c, "returned")) \/ Put(t, Raise(c, "StateDiscardedError"))
        \/ Put(t, Raise(c, "ConnectionError"))
    BY <2>1
  <2>3. PICK x : x = Leave(c, "returned") OBVIOUS
  <2>4. x.pc = "returned" /\ x.out = c.out /\ Shallow(x.frames)
    BY <1>1, <2>3, LeaveShape, LeaveShallow
  <2>5. ASSUME NEW e
        PROVE  /\ Raise(c, e).pc = "failing" /\ Raise(c, e).out = c.out
               /\ Shallow(Raise(c, e).frames)
    BY <1>1, <1>4, RaiseShape, RaiseFrames
  <2> QED BY <2>2, <2>3, <2>4, <2>5
<1>7. \A x : ~Going(t, x) BY <1>1, <1>2, NotGoing
<1>8. IInv /\ d.pc # "dial" /\ Spent(d.out) BY <1>4, <1>6 DEF FInv
<1>9. async \/ t = Main BY <1>2
<1>10. tried \subseteq tried' BY <1>3
<1> QED BY <1>3, <1>6, <1>7, <1>8, <1>9, <1>10, PutKeeps

LEMMA CallKeeps ==
  ASSUME FInv, HInv, NEW depth \in 1..Depth, NEW t \in Caller,
         AsyncCall(t, depth) \/ (t = Main /\ SyncCall(depth))
  PROVE  HInv'
<1>1. call[t].pc \in Ended /\ UNCHANGED <<async, forever, taken, socks, tried>>
  BY DEF AsyncCall, SyncCall
<1>2. \A x : ~Going(t, x) \/ (~async /\ t = Main /\ url = x /\ ~ws.open)
  BY <1>1 DEF Going, Ended
<1>3. UNCHANGED <<url, ws>> BY DEF AsyncCall, SyncCall
<1>4. ASSUME async PROVE Shallow(Begin(depth))
  <2>1. <<>> \in Seq(Frame) /\ Len(<<>>) = 0 BY EmptySeq
  <2>2. depth \in Nat /\ 0 + depth <= Depth BY FailoverAssumption
  <2>3. Shallow(<<>> \o Begin(depth)) BY <1>4, <2>1, <2>2, ShallowNone, ShallowBegin
  <2>4. Begin(depth) \in Seq(Frame) BY <2>2, BeginShape
  <2>5. <<>> \o Begin(depth) = Begin(depth) BY <2>4, ConcatEmptySeq
  <2> QED BY <2>3, <2>5
<1>5. Len(socks) \in 1..Len(socks)
  <2>1. PICK S : socks \in Seq(S) BY DEF FInv, IInv
  <2> QED BY <2>1, EmptySeq, LenProperties DEF HInv
<1>6. PICK f, l : f = Begin(depth) /\ l = Len(socks) OBVIOUS
<1>7. \/ t = Main /\ ~async /\ \E d : /\ Put(t, d) /\ d.out = {} /\ d.pc = "connect"
      \/ async /\ \E d : /\ Put(t, d) /\ d.out = {} /\ d.frames = f /\ d.sock = l
  <2>1. CASE AsyncCall(t, depth)
    <3>1. PICK d : d = [NoCall EXCEPT !.pc = "dial", !.depth = depth, !.sock = l,
                                      !.frames = f, !.tries = 1]
      OBVIOUS
    <3>2. d.out = {} /\ d.frames = f /\ d.sock = l BY <3>1 DEF NoCall
    <3>3. Put(t, d) /\ async BY <1>6, <2>1, <3>1 DEF AsyncCall
    <3> QED BY <3>2, <3>3
  <2>2. CASE t = Main /\ SyncCall(depth)
    <3>1. PICK d : d = [NoCall EXCEPT !.pc = "connect", !.depth = depth,
                                      !.frames = f, !.tries = 1]
      OBVIOUS
    <3>2. d.out = {} /\ d.pc = "connect" BY <3>1 DEF NoCall
    <3>3. Put(t, d) /\ ~async BY <1>6, <2>2, <3>1 DEF SyncCall
    <3> QED BY <2>2, <3>2, <3>3
  <2> QED BY <2>1, <2>2
<1>8. PICK d : /\ Put(t, d) /\ d.out = {} /\ (async => d.frames = f /\ d.sock = l)
               /\ ~async => t = Main /\ d.pc = "connect"
  BY <1>7
<1>9. IInv /\ Spent(d.out) /\ (async => Shallow(d.frames)) BY <1>4, <1>6, <1>8 DEF FInv, Spent
<1>10. async /\ d.pc = "dial" => d.sock \in 1..Len(socks) BY <1>5, <1>6, <1>8
<1>11. tried \subseteq tried' BY <1>1
<1>12. async \/ t = Main BY <1>8
<1>13. ASSUME NEW x, Going(t, x) PROVE Going(t, x)'
  <2>1. ~async /\ t = Main /\ url = x /\ ~ws.open BY <1>2, <1>13
  <2>2. call'[t] = d /\ d.pc = "connect" BY <1>8, <2>1 DEF FInv, IInv, Put
  <2>3. ~async' /\ url' = x /\ ~ws'.open BY <1>1, <1>3, <2>1
  <2> QED BY <2>1, <2>2, <2>3 DEF Going
<1> QED BY <1>1, <1>8, <1>9, <1>10, <1>11, <1>12, <1>13, PutKeeps

\* self.url is the chain that has been handed out, and self.ws is closed: whether
\* or not the stack has room for connect(), it is what the next one goes to.
LEMMA SyncSwitchKeeps ==
  ASSUME FInv, HInv, SyncSwitch
  PROVE  HInv'
<1>0. Main \in Caller BY DEF Caller
<1>1. PICK c : c = call[Main] /\ Fields(c) BY <1>0 DEF FInv, IInv
<1>2. /\ c.pc = "switching" /\ url' = c.to /\ ws' = [ws EXCEPT !.open = FALSE]
      /\ Put(Main, Push(c, <<Connecting(TRUE)>>, "connect"))
  BY <1>1 DEF SyncSwitch
<1>3. ~async BY DEF SyncSwitch
<1>4. Spent(c.out) BY <1>0, <1>1 DEF HInv
<1>5. ~ws'.open BY <1>2 DEF FInv, IInv
<1>6. PICK d : /\ Put(Main, d) /\ d.out = c.out /\ d.pc \in {"connect", "raised"}
  BY <1>1, <1>2, PushShape
<1>7. UNCHANGED <<async, forever, taken, socks>> /\ tried \subseteq tried' BY DEF SyncSwitch
<1>8. ASSUME NEW x, Going(Main, x) PROVE Going(Main, x)'
  <2>1. x = c.to BY <1>1, <1>2, <1>8 DEF Going, Ended
  <2>2. call'[Main] = d BY <1>0, <1>6 DEF Put, FInv, IInv
  <2>3. ~async' BY <1>3, <1>7
  <2> QED BY <1>2, <1>5, <1>6, <2>1, <2>2, <2>3 DEF Going, Ended
<1>9. IInv /\ Spent(d.out) BY <1>4, <1>6 DEF FInv
<1> QED BY <1>0, <1>3, <1>6, <1>7, <1>8, <1>9, PutKeeps

\* A connection is made anew unless self.ws is open.
LEMMA ConnectKeeps ==
  ASSUME FInv, HInv, Connect
  PROVE  HInv'
<1>0. Main \in Caller BY DEF Caller
<1>1. PICK c : c = call[Main] /\ Fields(c) BY <1>0 DEF FInv, IInv
<1>2. c.pc = "connect" BY <1>1 DEF Connect
<1>3. ~async BY DEF Connect
<1>4. Spent(c.out) BY <1>0, <1>1 DEF HInv
<1>5. \/ UNCHANGED tried /\ ws.open /\ Put(Main, Connected(c, ws.end))
      \/ tried' = tried \cup {url}
           /\ (Put(Main, Connected(c, url)) \/ Put(Main, Raise(c, Refusal(url))))
  BY <1>1 DEF Connect
<1>6. tried \subseteq tried' /\ (~ws.open => url \in tried') BY <1>5
<1>7. PICK d : Put(Main, d) /\ d.out = c.out
  <2>1. \A end : Connected(c, end).out = c.out BY <1>1, ConnectedShape
  <2>2. \A e : Raise(c, e).out = c.out BY <1>1, RaiseShape
  <2> QED BY <1>5, <2>1, <2>2
<1>8. ASSUME NEW x, Going(Main, x) PROVE x \in tried'
  BY <1>1, <1>2, <1>3, <1>6, <1>8 DEF Going
<1>9. IInv /\ Spent(d.out) BY <1>4, <1>7 DEF FInv
<1>10. UNCHANGED <<async, forever, taken, socks>> BY DEF Connect
<1> QED BY <1>0, <1>3, <1>6, <1>7, <1>8, <1>9, <1>10, PutKeeps

LEMMA RecvKeeps ==
  ASSUME FInv, HInv, Recv
  PROVE  HInv'
<1>0. Main \in Caller BY DEF Caller
<1>1. PICK c : c = call[Main] /\ Fields(c) BY <1>0 DEF FInv, IInv
<1>2. c.pc = "sent" BY <1>1 DEF Recv
<1>3. ~async BY DEF Recv
<1>4. Spent(c.out) BY <1>0, <1>1 DEF HInv
<1>5. PICK f : f = Append(Front(c.frames), Request(Last(c.frames).attempt + 1)) OBVIOUS
<1>6. PICK s : s = [c EXCEPT !.frames = f] OBVIOUS
<1>7. Fields(s) /\ s.out = c.out BY <1>1, <1>6 DEF Fields
<1>8. PICK h : h = <<Connecting(TRUE)>> OBVIOUS
<1>9. \/ Put(Main, Answered(c)) \/ Put(Main, Raise(c, "StateDiscardedError"))
      \/ Put(Main, Push(s, h, "connect")) \/ Put(Main, Raise(c, "MaxRetriesExceeded"))
  BY <1>1, <1>5, <1>6, <1>8 DEF Recv
<1>10. PICK d : Put(Main, d) /\ d.out = c.out
  <2>1. Answered(c).out = c.out BY <1>1, AnsweredShape
  <2>2. \A e : Raise(c, e).out = c.out BY <1>1, RaiseShape
  <2>3. Push(s, h, "connect").out = c.out BY <1>7, PushShape
  <2> QED BY <1>9, <2>1, <2>2, <2>3
<1>11. \A y : ~Going(Main, y) BY <1>1, <1>2, NotGoing
<1>12. IInv /\ Spent(d.out) BY <1>4, <1>10 DEF FInv
<1>13. UNCHANGED <<async, forever, taken, socks>> /\ tried \subseteq tried' BY DEF Recv
<1> QED BY <1>0, <1>3, <1>10, <1>11, <1>12, <1>13, PutKeeps

\* A chain that changes leaves every call where it is.
LEMMA FlipKeeps ==
  ASSUME FInv, HInv, NEW c, NEW state, Flip(c, state)
  PROVE  HInv'
<1>0. Main \in Caller BY DEF Caller
<1>1. PICK m : m = call[Main] /\ Fields(m) BY <1>0 DEF FInv, IInv
<1>2. UNCHANGED <<async, forever, url, taken, socks, tried>> BY DEF Flip
<1>3. PICK no : no = FALSE OBVIOUS
<1>4. call' = call \/ call' = [call EXCEPT ![Main].open = no] BY <1>3 DEF Flip
<1>5. PICK e : e = [m EXCEPT !.open = no] OBVIOUS
<1>6. /\ e.pc = m.pc /\ e.to = m.to /\ e.frames = m.frames /\ e.sock = m.sock
      /\ e.out = m.out
  BY <1>1, <1>5 DEF Fields
<1>7. \A u \in Caller : /\ call'[u].pc = call[u].pc /\ call'[u].to = call[u].to
                        /\ call'[u].frames = call[u].frames
                        /\ call'[u].sock = call[u].sock /\ call'[u].out = call[u].out
  <2>1. CASE call' = call BY <2>1
  <2>2. CASE call' = [call EXCEPT ![Main].open = no]
    <3>1. call' = [call EXCEPT ![Main] = e] BY <1>1, <1>5, <2>2
    <3>2. call'[Main] = e /\ \A u \in Caller \ {Main} : call'[u] = call[u]
      BY <1>0, <3>1 DEF FInv, IInv
    <3> QED BY <1>1, <1>6, <3>2
  <2> QED BY <1>4, <2>1, <2>2
<1>8. \A b : Chains(b)' = Chains(b) BY <1>2 DEF Chains
<1>9. Iterators' BY <1>2 DEF HInv, Iterators, Chains
<1>10. ASSUME NEW u \in Caller PROVE Spent(call[u].out)'
  <2>1. PICK out : out = call'[u].out OBVIOUS
  <2>2. Spent(out) BY <1>7, <2>1 DEF HInv
  <2>3. UNCHANGED <<async, forever, taken>> /\ tried \subseteq tried' BY <1>2
  <2>4. Spent(out)' BY <2>2, <2>3, SpentKeeps
  <2> QED BY <2>1, <2>4 DEF Spent
<1>11. ~ws.open => ~ws'.open
  <2>1. PICK shut : shut = [ws EXCEPT !.open = no] OBVIOUS
  <2>2. ~shut.open BY <1>3, <2>1 DEF FInv, IInv
  <2>3. ws' = ws \/ ws' = shut BY <1>3, <2>1 DEF Flip
  <2> QED BY <2>2, <2>3
<1>12. ASSUME NEW x, Covered(x) PROVE Covered(x)'
  <2>1. ASSUME NEW u \in Caller, Going(u, x) PROVE Going(u, x)'
    BY <1>2, <1>7, <1>11, <2>1 DEF Going
  <2> QED BY <1>2, <1>12, <2>1 DEF Covered
<1>13. ASSUME ~forever, NEW b \in BOOLEAN, NEW i \in 1..taken[b]
       PROVE  Covered(Chains(b)[i])'
  <2>1. PICK x : x = Chains(b)[i] OBVIOUS
  <2>2. Covered(x)' BY <1>12, <1>13, <2>1 DEF HInv
  <2> QED BY <1>8, <2>1, <2>2
<1>14. /\ (async <=> async') /\ (forever <=> forever') /\ taken' = taken /\ socks' = socks
  BY <1>2
<1>15. async => \A u \in Caller :
         Shallow(call'[u].frames) /\ (call'[u].pc = "dial" => call'[u].sock \in 1..Len(socks))
  BY <1>7 DEF HInv
<1>16. ~async => \A u \in Caller \ {Main} : call'[u].pc = "idle" BY <1>7 DEF HInv
<1> QED BY <1>9, <1>10, <1>13, <1>14, <1>15, <1>16 DEF HInv, Shallow

LEMMA HInit == Init => HInv
<1> SUFFICES ASSUME Init PROVE HInv OBVIOUS
<1>1. /\ forever \in BOOLEAN /\ taken = [archive \in BOOLEAN |-> 0]
      /\ \A archive \in BOOLEAN : taken[archive] = 0
  BY DEF Init
<1>2. \A t \in Caller : call[t] = NoCall BY DEF Init
<1>3. NoCall.pc = "idle" /\ NoCall.frames = <<>> /\ NoCall.out = {} BY DEF NoCall
<1>4. Iterators
  <2>1. ASSUME NEW archive \in BOOLEAN
        PROVE  /\ taken[archive] \in Nat
               /\ forever => Chains(archive) = <<>> \/ taken[archive] < Len(Chains(archive))
               /\ ~forever => taken[archive] <= Len(Chains(archive))
    <3>1. PICK list : list = Chains(archive) /\ list \in Seq(Chain) /\ Len(list) \in Nat
      BY <1>1, ChainsType
    <3>2. list = <<>> \/ 0 < Len(list) BY <3>1, EmptySeq
    <3> QED BY <1>1, <3>1, <3>2
  <2>2. taken = [archive \in BOOLEAN |-> taken[archive]] BY <1>1
  <2> QED BY <1>1, <2>1, <2>2 DEF Iterators
<1>5. socks # <<>>
  <2>1. socks = <<url>> BY DEF Init
  <2>2. Len(<<url>>) = 1 /\ Len(<<>>) = 0 OBVIOUS
  <2> QED BY <2>1, <2>2
<1>6. \A t \in Caller : call[t].pc = "idle" /\ Spent(call[t].out) BY <1>2, <1>3 DEF Spent
<1>7. \A t \in Caller : Shallow(call[t].frames) BY <1>2, <1>3, ShallowNone
<1>8. \A archive \in BOOLEAN : 1..taken[archive] = {} BY <1>1
<1> QED BY <1>4, <1>5, <1>6, <1>7, <1>8 DEF HInv

LEMMA HNext == ASSUME StackFits PROVE FInv /\ HInv /\ [Next]_vars => HInv'
<1> SUFFICES ASSUME FInv, HInv, [Next]_vars PROVE HInv' OBVIOUS
<1>1. ASSUME NEW t \in Caller, Step(t) PROVE HInv'
  <2>1. CASE Propagate(t) BY <2>1, PropagateKeeps
  <2>2. CASE Catch(t)
    <3>1. PICK archive : archive = (call[t].error = "StateDiscardedError") OBVIOUS
    <3> QED BY <2>2, <3>1, CatchNoneKeeps, CatchSwitchKeeps
  <2>3. CASE AsyncSwitch(t) BY <2>3, AsyncSwitchKeeps
  <2>4. CASE Dial(t) BY <2>4, DialKeeps
  <2>5. CASE AsyncAnswer(t) BY <2>5, AnswerKeeps
  <2>6. CASE SyncSwitch BY <2>6, SyncSwitchKeeps
  <2>7. CASE Connect BY <2>7, ConnectKeeps
  <2>8. CASE Recv BY <2>8, RecvKeeps
  <2> QED BY <1>1, <2>1, <2>2, <2>3, <2>4, <2>5, <2>6, <2>7, <2>8 DEF Step
<1>2. ASSUME NEW t \in Task, NEW depth \in 1..Depth, AsyncCall(t, depth) PROVE HInv'
  BY <1>2, CallKeeps DEF Caller
<1>3. ASSUME NEW depth \in 1..Depth, SyncCall(depth) PROVE HInv'
  <2>1. Main \in Caller BY DEF Caller
  <2> QED BY <1>3, <2>1, CallKeeps
<1>4. ASSUME NEW c \in Chain, NEW state, Flip(c, state) PROVE HInv' BY <1>4, FlipKeeps
<1>5. ASSUME UNCHANGED vars PROVE HInv'
  <2>1. UNCHANGED <<async, forever, url, taken, socks, ws, call, tried>> BY <1>5 DEF vars
  <2>2. \A b : Chains(b)' = Chains(b) BY <2>1 DEF Chains
  <2>3. Iterators' BY <2>1, <2>2 DEF HInv, Iterators
  <2>4. \A t \in Caller : Spent(call[t].out)' BY <2>1, <2>2 DEF HInv, Spent
  <2>5. \A x : Covered(x) => Covered(x)' BY <2>1 DEF Covered, Going
  <2>6. ~forever => \A b \in BOOLEAN : \A i \in 1..taken[b] : Covered(Chains(b)[i])'
    <3>1. SUFFICES ASSUME ~forever, NEW b \in BOOLEAN, NEW i \in 1..taken[b]
                   PROVE  Covered(Chains(b)[i])'
      OBVIOUS
    <3>2. PICK x : x = Chains(b)[i] OBVIOUS
    <3>3. Covered(x)' BY <2>5, <3>1, <3>2 DEF HInv
    <3> QED BY <2>2, <3>2, <3>3
  <2>7. taken' = taken /\ socks' = socks /\ call' = call BY <2>1
  <2>8. (async <=> async') /\ (forever <=> forever') BY <2>1
  <2> QED BY <2>3, <2>4, <2>6, <2>7, <2>8 DEF HInv, Shallow
<1>6. Next \/ UNCHANGED vars OBVIOUS
<1> QED BY <1>1, <1>2, <1>3, <1>4, <1>5, <1>6 DEF Next

\* What the invariant says of a list that a call has found at its end.
LEMMA SpentTried == HInv => EveryChainTried
<1> SUFFICES ASSUME HInv, NEW t \in Caller, NEW archive \in call[t].out,
                    NEW c \in Range(Chains(archive))
             PROVE  \/ c \in tried
                    \/ \E u \in Caller : \/ call[u].pc = "switching" /\ call[u].to = c
                                         \/ call[u].pc = "dial" /\ socks[call[u].sock] = c
  BY DEF EveryChainTried
<1>1. /\ archive \in BOOLEAN
      /\ Chains(archive) = <<>> \/ (~forever /\ taken[archive] = Len(Chains(archive)))
      /\ ~async => \A i \in 1..Len(Chains(archive)) : Chains(archive)[i] \in tried
  BY DEF HInv, Spent
<1>2. PICK list : list = Chains(archive) OBVIOUS
<1>3. list \in Seq(Chain) /\ Len(list) \in Nat
  <2>1. forever \in BOOLEAN BY DEF HInv, Iterators
  <2> QED BY <1>1, <1>2, <2>1, ChainsType
<1>4. PICK i \in 1..Len(list) : c = list[i]
  <2>1. DOMAIN list = 1..Len(list) BY <1>3, LenProperties
  <2> QED BY <1>2, <2>1 DEF Range
<1>5. CASE ~async BY <1>1, <1>2, <1>4, <1>5
<1>6. CASE async
  <2>1. list # <<>>
    <3>1. Len(<<>>) = 0 BY EmptySeq
    <3> QED BY <1>3, <1>4, <3>1
  <2>2. Covered(c) BY <1>1, <1>2, <1>4, <2>1 DEF HInv
  <2> QED BY <1>6, <2>2 DEF Covered, Going
<1> QED BY <1>5, <1>6

\* A call that fails because no fallback chain is left has passed none over
\* (substrate_addons.py:191-195, 360-364): with any chains, tasks, methods in
\* methods and failures, each chain of that list has been tried or is being
\* tried by the call that was given it.  Python's stack may be too small for
\* the failovers of a call, only not for the methods of one that does not fail.
THEOREM EveryChainIsTried == ASSUME StackFits PROVE Spec => []EveryChainTried
<1>1. FInv /\ HInv => EveryChainTried BY SpentTried
<1>2. Init => FInv /\ HInv BY FInit, HInit
<1>3. FInv /\ HInv /\ [Next]_vars => (FInv /\ HInv)' BY FNext, HNext
<1> QED BY <1>1, <1>2, <1>3, PTL DEF Spec
=============================================================================
