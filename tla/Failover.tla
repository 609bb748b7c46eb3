------------------------------ MODULE Failover ------------------------------
(***************************************************************************)
(* RetrySyncSubstrate and RetryAsyncSubstrate: methods that fail over to   *)
(* the next chain.  A method of the interface calls others through the     *)
(* same proxy, so a call is a stack of _retry frames; each frame runs its  *)
(* method at most twice, the second time on another chain.                 *)
(*                                                                         *)
(* A chain is up, pruned (up, without the state that is asked for), down   *)
(* (it refuses connections), stuck (attempts to connect to it time out) or *)
(* mute (it never answers; an asynchronous request has no timeout, so that *)
(* the chains of that class are never mute here).                          *)
(***************************************************************************)
EXTENDS Integers, Sequences, FiniteSets, SequencesExt

CONSTANTS
  Task,        \* the tasks that share an asynchronous interface
  Main,        \* the caller of a synchronous one
  Url, Fallbacks, Archives,
               \* the arguments of the constructor
  Depth,       \* the _retry frames a method may be nested in
  MaxRetries,  \* max_retries of the synchronous request
  Stack,       \* bound on the frames of a call: Python's stack
  Flips,       \* bound on the changes of the chains
  Calls        \* bound on the calls

Chain == {Url} \cup Range(Fallbacks) \cup Range(Archives)

ASSUME FailoverAssumption ==
  /\ Main \notin Task
  /\ Fallbacks \in Seq(Chain) /\ Archives \in Seq(Chain) /\ "none" \notin Chain
  /\ Depth \in Nat \ {0} /\ MaxRetries \in Nat \ {0} /\ Stack \in Nat
  /\ Flips \in Nat /\ Calls \in Nat

VARIABLES
  node,      \* the chains
  async,     \* which of the two classes
  forever,   \* retry_forever
  url,       \* self.url
  taken,     \* how far the iterators fallback_chains and archive_nodes are
  socks,     \* asynchronous: the Websocket objects made; the last is self.ws
  ws,        \* synchronous: self.ws
  call,      \* the calls
  tried,     \* history: the chains a connection has been tried to
  left       \* what remains of Flips and Calls

vars == <<node, async, forever, url, taken, socks, ws, call, tried, left>>

Caller == Task \cup {Main}
None == "none"
Accepts(c) == node[c] \in {"up", "pruned", "mute"}
Refusal(c) == IF node[c] = "down" THEN "ConnectionError" ELSE "TimeoutError"

\* iter() of the lists, or cycle() over them, the first chain among them.
Chains(archive) ==
  CASE archive -> Archives
    [] ~archive /\ forever -> Append(Fallbacks, Url)
    [] OTHER -> Fallbacks

MutNextChain(archive) ==
  LET list == Chains(archive)
      at   == taken[archive] + 2
  IN IF at <= Len(list) THEN list[at] ELSE None

\* What next() returns; None is StopIteration.
NextChain(archive) ==
  LET list == Chains(archive)
      at   == taken[archive] + 1
  IN IF at <= Len(list) THEN list[at] ELSE None

Advance(archive) ==
  taken' = [taken EXCEPT ![archive] =
              IF forever THEN (@ + 1) % Len(Chains(archive)) ELSE @ + 1]

\* A frame: a proxied method, with the proxied methods it calls, or connect(),
\* which is one too; and the frame of _make_rpc_request, which is not.
\* stage: the method runs for the "first" time, _reinstantiate_substrate is
\* connecting ("join") or in initialize() ("init"), or it runs "again".
Method(inner) == [of |-> "method", stage |-> "first", inner |-> inner]
Connecting(fresh) == [of |-> "connect", stage |-> "first", fresh |-> fresh]
Request(attempt) == [of |-> "request", attempt |-> attempt]

Methods(n) == [i \in 1..n |-> Method(n - i)]
Begin(n) == IF async THEN Methods(n)
            ELSE Methods(n) \o <<Request(1), Connecting(FALSE)>>

\* out: the lists (of archive nodes or not) that had no chain left, a history.
NoCall == [pc |-> "idle", error |-> None, frames |-> <<>>, sock |-> 0,
           end |-> None, open |-> FALSE, to |-> None, tries |-> 0, depth |-> 1,
           out |-> {}]

Put(t, c) == call' = [call EXCEPT ![t] = c]
Ended == {"idle", "returned", "raised"}

Raise(c, error) == [c EXCEPT !.pc = "failing", !.error = error]
Leave(c, pc) == [c EXCEPT !.pc = pc, !.frames = <<>>]

\* More frames, unless Python's stack is full.
Push(c, frames, pc) ==
  IF Len(c.frames) + Len(frames) > Stack
  THEN Leave([c EXCEPT !.error = "RecursionError"], "raised")
  ELSE [c EXCEPT !.frames = @ \o frames, !.pc = pc, !.error = None]

\* The exceptions _retry catches.  TimeoutError is no ConnectionError, and only
\* the synchronous class names it.
Caught(error) ==
  error \in {"MaxRetriesExceeded", "ConnectionError", "StateDiscardedError"}
    \/ (error = "TimeoutError" /\ ~async)

\* The request of the call itself, not one of initialize().
Own(frames) == ~ \E i \in DOMAIN frames :
                   frames[i].of # "request" /\ frames[i].stage \in {"join", "init"}

MutRerun(c) ==
  LET top == Last(c.frames)
      again == [c EXCEPT !.frames[Len(c.frames)].stage = "first"]
  IN IF top.of = "connect" THEN [again EXCEPT !.pc = "connect"]
     ELSE Push([again EXCEPT !.tries = IF Own(again.frames) THEN @ + 1 ELSE @],
               Begin(top.inner), IF async THEN "dial" ELSE "connect")

\* The method of the frame on top runs for the second time.
Rerun(c) ==
  LET top == Last(c.frames)
      again == [c EXCEPT !.frames[Len(c.frames)].stage = "again"]
  IN IF top.of = "connect" THEN [again EXCEPT !.pc = "connect"]
     ELSE Push([again EXCEPT !.tries = IF Own(again.frames) THEN @ + 1 ELSE @],
               Begin(top.inner), IF async THEN "dial" ELSE "connect")

\* The synchronous constructor goes to the first chain that can be reached, and
\* leaves the iterators where they are.
FirstReachable ==
  LET list == <<Url>> \o Fallbacks
      able == {i \in DOMAIN list : Accepts(list[i])}
  IN list[CHOOSE i \in able : \A j \in able : i <= j]

Init ==
  /\ node \in [Chain -> {"up", "down"}]
  /\ async \in BOOLEAN /\ forever \in BOOLEAN
  /\ \E c \in {Url} \cup Range(Fallbacks) : Accepts(c)
  /\ url = IF async THEN Url ELSE FirstReachable
  /\ taken = [archive \in BOOLEAN |-> 0]
  /\ socks = <<url>>
  /\ ws = [end |-> url, open |-> TRUE]
  /\ call = [t \in Caller |-> NoCall]
  /\ tried = IF async THEN {} ELSE {url}
  /\ left = [flips |-> Flips, calls |-> Calls]
-----------------------------------------------------------------------------
(***************************************************************************)
(* _retry: an exception goes up frame by frame.                            *)
(***************************************************************************)
Catches(c) ==
  /\ Last(c.frames).of # "request"
  /\ Last(c.frames).stage = "first"
  /\ Caught(c.error)

\* A frame that does not catch it, or is not in its first run, is left.
Propagate(t) ==
  /\ call[t].pc = "failing"
  /\ LET c == call[t]
     IN IF c.frames = <<>> THEN Put(t, Leave(c, "raised"))
        ELSE ~Catches(c) /\ Put(t, [c EXCEPT !.frames = Front(@)])
  /\ UNCHANGED <<node, async, forever, url, taken, socks, ws, tried, left>>

\* The frame asks for the next chain.  Without one it raises
\* MaxRetriesExceeded, which the frames above it catch as they do any other;
\* a StopIteration that leaves a coroutine is a RuntimeError instead.
Catch(t) ==
  /\ call[t].pc = "failing" /\ call[t].frames # <<>> /\ Catches(call[t])
  /\ LET c == call[t]
         archive == c.error = "StateDiscardedError"
         to == NextChain(archive)
     IN IF to = None
        THEN LET none == [c EXCEPT !.out = @ \cup {archive}]
             IN /\ Put(t, IF async
                          THEN Leave([none EXCEPT !.error = "RuntimeError"], "raised")
                          ELSE [none EXCEPT !.error = "MaxRetriesExceeded",
                                            !.frames = Front(@)])
                /\ UNCHANGED taken
        ELSE /\ Put(t, [c EXCEPT !.pc = "switching", !.to = to,
                                 !.frames[Len(c.frames)].stage = "join",
                                 !.sock = Len(socks)])
             /\ Advance(archive)
  /\ UNCHANGED <<node, async, forever, url, socks, ws, tried, left>>
-----------------------------------------------------------------------------
(***************************************************************************)
(* The asynchronous class.                                                 *)
(***************************************************************************)

\* A method, nested so deep; its request goes to the Websocket of the moment.
AsyncCall(t, depth) ==
  /\ async /\ t \in Task /\ call[t].pc \in Ended
  /\ left.calls > 0 /\ left' = [left EXCEPT !.calls = @ - 1]
  /\ Put(t, [NoCall EXCEPT !.pc = "dial", !.depth = depth, !.sock = Len(socks),
                           !.frames = Begin(depth), !.tries = 1])
  /\ UNCHANGED <<node, async, forever, url, taken, socks, ws, tried>>

MutAsyncSwitch(t) ==
  /\ async /\ call[t].pc = "switching"
  /\ LET c == call[t]
     IN /\ socks' = Append(socks, c.to) /\ UNCHANGED url
        /\ call' = [u \in Caller |->
              CASE u = t -> [Rerun(c) EXCEPT !.sock = Len(socks) + 1]
                [] u # t /\ call[u].pc = "sent" /\ call[u].sock = c.sock ->
                     [call[u] EXCEPT !.pc = "stranded"]
                [] OTHER -> call[u]]
  /\ UNCHANGED <<node, async, forever, taken, ws, tried, left>>

\* _reinstantiate_substrate has shut down the Websocket that was self.ws when
\* it began: a request in flight on it will get no answer and no error.  The
\* new Websocket is self.ws; initialize() does nothing, initialized is still
\* True; the method runs again.
AsyncSwitch(t) ==
  /\ async /\ call[t].pc = "switching"
  /\ LET c == call[t]
     IN /\ socks' = Append(socks, c.to) /\ url' = c.to
        /\ call' = [u \in Caller |->
              CASE u = t -> [Rerun(c) EXCEPT !.sock = Len(socks) + 1]
                [] u # t /\ call[u].pc = "sent" /\ call[u].sock = c.sock ->
                     [call[u] EXCEPT !.pc = "stranded"]
                [] OTHER -> call[u]]
  /\ UNCHANGED <<node, async, forever, taken, ws, tried, left>>

\* The Websocket connects if it has to, and the request is sent.
Dial(t) ==
  /\ async /\ call[t].pc = "dial"
  /\ LET c == call[t]
         end == socks[c.sock]
     IN /\ tried' = tried \cup {end}
        /\ Put(t, IF Accepts(end) THEN [c EXCEPT !.pc = "sent", !.end = end]
                  ELSE Raise(c, Refusal(end)))
  /\ UNCHANGED <<node, async, forever, url, taken, socks, ws, left>>

\* The answer, or the end of the handler when its redial fails.
AsyncAnswer(t) ==
  /\ async /\ call[t].pc = "sent"
  /\ LET c == call[t]
     IN Put(t, CASE node[c.end] \in {"up", "stuck"} -> Leave(c, "returned")
                 [] node[c.end] = "pruned" -> Raise(c, "StateDiscardedError")
                 [] OTHER -> Raise(c, "ConnectionError"))
  /\ UNCHANGED <<node, async, forever, url, taken, socks, ws, tried, left>>
-----------------------------------------------------------------------------
(***************************************************************************)
(* The synchronous class: one call at a time.                              *)
(***************************************************************************)
SyncCall(depth) ==
  /\ ~async /\ call[Main].pc \in Ended
  /\ left.calls > 0 /\ left' = [left EXCEPT !.calls = @ - 1]
  /\ Put(Main, [NoCall EXCEPT !.pc = "connect", !.depth = depth,
                              !.frames = Begin(depth), !.tries = 1])
  /\ UNCHANGED <<node, async, forever, url, taken, socks, ws, tried>>

\* _reinstantiate_substrate closes self.ws and calls connect(init=True).
SyncSwitch ==
  /\ ~async /\ call[Main].pc = "switching"
  /\ LET c == call[Main]
     IN /\ url' = c.to
        /\ ws' = [ws EXCEPT !.open = FALSE]
        /\ Put(Main, Push(c, <<Connecting(TRUE)>>, "connect"))
  /\ UNCHANGED <<node, async, forever, taken, socks, tried, left>>

\* connect() returns a connection: to the request, or to
\* _reinstantiate_substrate, which goes on to initialize(), a request of its own.
Connected(c, end) ==
  LET rest == [c EXCEPT !.frames = Front(@)]
  IN IF Last(rest.frames).of = "request"
     THEN [rest EXCEPT !.pc = "sent", !.end = end, !.open = TRUE]
     ELSE Push([rest EXCEPT !.frames[Len(rest.frames)].stage = "init"],
               Begin(1), "connect")

\* connect(): self.ws as it is, when it is open and the request is the first of
\* its kind; or a new connection, which only the first keeps as self.ws.
Connect ==
  /\ ~async /\ call[Main].pc = "connect"
  /\ LET c == call[Main]
         joins == c.frames[Len(c.frames) - 1].of # "request"
     IN IF ~Last(c.frames).fresh /\ ws.open
        THEN Put(Main, Connected(c, ws.end)) /\ UNCHANGED <<ws, tried>>
        ELSE /\ tried' = tried \cup {url}
             /\ ws' = IF Accepts(url) /\ (~Last(c.frames).fresh \/ joins)
                      THEN [end |-> url, open |-> TRUE] ELSE ws
             /\ Put(Main, IF Accepts(url) THEN Connected(c, url)
                          ELSE Raise(c, Refusal(url)))
  /\ UNCHANGED <<node, async, forever, url, taken, socks, left>>

\* An answer ends the call, or the initialize() it was made for.
Answered(c) ==
  LET inits == {i \in DOMAIN c.frames :
                  c.frames[i].of # "request" /\ c.frames[i].stage = "init"}
  IN IF inits = {} THEN Leave(c, "returned")
     ELSE Rerun([c EXCEPT !.frames =
                   SubSeq(@, 1, CHOOSE i \in inits : \A j \in inits : j <= i)])

MutRecv ==
  /\ ~async /\ call[Main].pc = "sent"
  /\ LET c == call[Main]
     IN Put(Main,
          CASE c.open /\ node[c.end] \in {"up", "stuck"} -> Answered(c)
            [] c.open /\ node[c.end] = "pruned" -> Raise(c, "StateDiscardedError")
            [] OTHER -> Push(c, <<Connecting(TRUE)>>, "connect"))
  /\ UNCHANGED <<node, async, forever, url, taken, socks, ws, tried, left>>

\* recv(): the answer, or a timeout or a lost connection, after which all is
\* sent again on a new connection, max_retries times in all.
Recv ==
  /\ ~async /\ call[Main].pc = "sent"
  /\ LET c == call[Main]
         attempt == Last(c.frames).attempt
     IN Put(Main,
          CASE c.open /\ node[c.end] \in {"up", "stuck"} -> Answered(c)
            [] c.open /\ node[c.end] = "pruned" -> Raise(c, "StateDiscardedError")
            [] OTHER ->
                 IF attempt < MaxRetries
                 THEN Push([c EXCEPT !.frames = Append(Front(@), Request(attempt + 1))],
                           <<Connecting(TRUE)>>, "connect")
                 ELSE Raise(c, "MaxRetriesExceeded"))
  /\ UNCHANGED <<node, async, forever, url, taken, socks, ws, tried, left>>
-----------------------------------------------------------------------------
\* A chain changes; one that goes down closes its connections.
Flip(c, state) ==
  /\ node[c] # state /\ (state = "mute" => ~async)
  /\ left.flips > 0 /\ left' = [left EXCEPT !.flips = @ - 1]
  /\ node' = [node EXCEPT ![c] = state]
  /\ ws' = IF state = "down" /\ ws.end = c THEN [ws EXCEPT !.open = FALSE] ELSE ws
  /\ call' = IF state = "down" /\ call[Main].end = c
             THEN [call EXCEPT ![Main].open = FALSE] ELSE call
  /\ UNCHANGED <<async, forever, url, taken, socks, tried>>

Step(t) ==
  \/ Propagate(t) \/ Catch(t)
  \/ AsyncSwitch(t) \/ Dial(t) \/ AsyncAnswer(t)
  \/ t = Main /\ (SyncSwitch \/ Connect \/ Recv)

Next ==
  \/ \E t \in Caller : Step(t)
  \/ \E t \in Task, depth \in 1..Depth : AsyncCall(t, depth)
  \/ \E depth \in 1..Depth : SyncCall(depth)
  \/ \E c \in Chain, state \in {"up", "down", "stuck", "mute", "pruned"} : Flip(c, state)

\* Calls go on, and chains answer, refuse or let them time out.
Spec == Init /\ [][Next]_vars /\ \A t \in Caller : WF_vars(Step(t))
=============================================================================
