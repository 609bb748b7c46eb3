--------------------------- MODULE RpcProperties ---------------------------
(***************************************************************************)
(* What the calls and the Websocket they share must do together.           *)
(***************************************************************************)
EXTENDS RpcCalls

\* A request is in one place: never twice in the send queue, and not queued
\* while it is in flight.  Were it violated, the handler would put a request on
\* the same connection twice (_handler resubmits, send() enqueues).
OneCopy == IsInjective(sending) /\ Range(sending) \cap inflight = {}

\* An answer that has landed stays until its call takes it: neither the
\* resubmission after a lost connection, which replaces the future of every
\* request in flight, nor a failure of sender or receiver overwrites it.
AnswerKept ==
  [][\A i \in Id : received[i] = "done" => received'[i] \in {"done", "none"}]_vars

\* A response never meets a future that is already done, which would raise
\* InvalidStateError in the receiver and fail every other call: once a request
\* has its answer no second answer is under way on the connection.
NoSecondAnswer ==
  \A i \in answers : handler = "run" => received[i] # "done"

\* A call and the handler never open connections at the same time, and no two
\* calls do: a call dials only once it has the lock and the handler is gone.
OneDialer ==
  \A c \in Call :
    pc[c] = "dial" => lock = {c} /\ handler \in {"none", "failed"} /\ ws # "open"

\* max_subscriptions bounds what is outstanding: the permits left, those of the
\* calls that hold one and wait for the lock, and the requests live calls still
\* wait for never exceed it, however answers, failures, cancellations and
\* resubmissions fall.
Outstanding ==
  {i \in Id : /\ pc[i[1]] \in {"acquire", "send", "polling"}
              /\ i[2] \in 1..sent[i[1]] /\ i[2] \notin got[i[1]]}
AboutToSend == {c \in Call : pc[c] = "send"}
PermitLimit ==
  permits + Cardinality(AboutToSend) + Cardinality(Outstanding) <= MaxSubs

\* The calls that wait for a response.
Expecting ==
  {c \in Call : pc[c] \in Marked \/ (ending[c] # "none" /\ pc[c] \notin Settled)}

\* _waiting_for_response covers every call that expects a response, across
\* failures, cancellations and the nested context of a subscription.
WaitingCovers == waiting >= Cardinality(Expecting)

\* The exit timer decides to close only while no call expects a response.
TimerRespectsCalls ==
  [][exit' = "deciding" /\ exit # "deciding" => Expecting = {}]_vars

\* What the caller knows of a call.
Status == [c \in Call |-> CASE pc[c] = "idle" -> "idle"
                            [] pc[c] = "done" -> "answered"
                            [] pc[c] \in {"failed", "cancelled"} -> "failed"
                            [] OTHER -> "asked"]

\* The promise to callers is kept under every interleaving and every fault.
Service == INSTANCE RpcService WITH status <- Status, executed <- served
ImplementsService == Service!SvcSpec

\* Every call that is made comes to an end: an answer or an error.
CallsSettle == \A c \in Call : pc[c] # "idle" ~> pc[c] \in Settled

\* What a call still polls for is queued, with the node, or on its way back as
\* long as there is a handler on an open connection to fetch it.  Resubmission
\* makes it so after a connection is lost.
NothingLost ==
  ws = "open" /\ handler = "run" =>
    \A i \in Outstanding : received[i] = "pending" =>
      i \in Range(sending) \cup atServer \cup answers

\* shutdown_timer: "Number of seconds to shut down websocket connection after
\* last use".  Once every call has its answer the connection is closed.
AnsweredCloses == (\A c \in Call : pc[c] = "done") ~> ws \in {"none"} \cup Down
-----------------------------------------------------------------------------
(***************************************************************************)
(* What the documentation says and the code does not do.  CallsSettle is   *)
(* another: it fails where test_improved_reconnection, the retry_timeout   *)
(* of the docs, or an unknown host, come in.                               *)
(***************************************************************************)

\* mark_waiting_for_response: "This will cause the websocket to not
\* automatically close."  The timer checks, then suspends before it closes.
TimerSparesCalls ==
  [][exit' = "closing" /\ exit # "closing" => Expecting = {}]_vars
=============================================================================
