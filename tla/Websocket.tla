----------------------------- MODULE Websocket -----------------------------
(***************************************************************************)
(* The Websocket manager of async_substrate.py: one connection shared by   *)
(* every call, a handler task that owns a sender and a receiver, a send    *)
(* queue, the requests in flight, one future per request, the exit timer   *)
(* that closes an idle connection, and the network and server behind it.   *)
(*                                                                         *)
(* asyncio runs one task at a time and switches only at an await that      *)
(* suspends, so one action is the code between two suspensions.  The lock  *)
(* is held across a suspension only by a call that is connecting; every    *)
(* other `async with self._lock` block is part of the action it sits in,   *)
(* guarded by LockFree.                                                    *)
(***************************************************************************)
EXTENDS Integers, Sequences, FiniteSets, SequencesExt

CONSTANTS
  Call,          \* invocations of _make_rpc_request
  Watch,         \* those that carry a result_handler: subscriptions
  Batch,         \* payloads of a call that is not a subscription
  MaxSubs,       \* max_subscriptions, the permits of the semaphore
  AutoShutdown,  \* shutdown_timer is not None
  Budget         \* how many faults of each kind a behaviour may hold

\* What the environment may do a bounded number of times.
Fault == {"drop", "dialFail", "noName", "cancel", "malformed", "badPayload",
          "note", "reject"}

ASSUME ConstantsAssumption ==
  /\ IsFiniteSet(Call)
  /\ Watch \subseteq Call
  /\ Batch \in Nat \ {0}
  /\ MaxSubs \in Nat \ {0}
  /\ AutoShutdown \in BOOLEAN
  /\ Budget \in [Fault -> Nat]

\* A request id names a call and the position of the payload; position 0 is
\* the unsubscribe message a subscription ends with.
Id == Call \X (0..Batch)
Size(c) == IF c \in Watch THEN 1 ELSE Batch
Unsubscribe(c) == <<c, 0>>

Note == {"update", "end", "fatal"}   \* what a notification tells the handler
Down == {"ok", "err"}                \* the connection ended with, without 1000
Closing == {"deciding", "closing"}   \* the exit timer is past its check

VARIABLES
  ws,        \* self.ws and its state; "none" before it exists
  lock,      \* self._lock: the call that holds it, if any
  sending,   \* self._sending
  inflight,  \* self._inflight: sent and not answered
  received,  \* self._received: the future of each id
  waiting,   \* self._waiting_for_response
  permits,   \* self.max_subscriptions
  subs,      \* keys of self._received_subscriptions
  notes,     \* its queues
  handler,   \* self._send_recv_task; "none": absent, cancelled, or returned None
  last,      \* to_send of this sender: the last payload it serialised
  exit,      \* self._exit_task
  atServer,  \* requests the server holds on this connection
  answers,   \* responses on their way back
  live,      \* subscriptions the server keeps for this connection
  rejected,  \* subscriptions the server answered with an error
  served,    \* history: requests the server has executed
  left       \* what is left of Budget

clientVars == <<ws, lock, sending, inflight, received, waiting, permits, subs,
                notes, handler, last, exit>>
serverVars == <<atServer, answers, live, rejected, served>>
connVars   == <<ws, lock, handler, last, exit, sending, inflight>>
wsVars     == <<clientVars, serverVars, left>>

LockFree == lock = {}
Spend(f) == left[f] > 0 /\ left' = [left EXCEPT ![f] = @ - 1]

WsTypeOK ==
  /\ ws \in {"none", "open"} \cup Down
  /\ lock \in SUBSET Call
  /\ sending \in Seq(Id)
  /\ inflight \in SUBSET Id
  /\ received \in [Id -> {"none", "pending", "done", "exc"}]
  /\ waiting \in Int
  /\ permits \in Nat
  /\ subs \in SUBSET Watch
  /\ notes \in [Watch -> Seq(Note)]
  /\ handler \in {"none", "run", "stopped", "redial", "failed"}
  /\ last \in SUBSET Id
  /\ exit \in {"none", "armed"} \cup Closing
  /\ atServer \in SUBSET Id
  /\ answers \in SUBSET Id
  /\ live \in SUBSET Watch
  /\ rejected \in SUBSET Watch
  /\ served \in SUBSET Id
  /\ left \in [Fault -> Nat]

WsInit ==
  /\ ws = "none"
  /\ lock = {}
  /\ sending = <<>>
  /\ inflight = {}
  /\ received = [i \in Id |-> "none"]
  /\ waiting = 0
  /\ permits = MaxSubs
  /\ subs = {}
  /\ notes = [c \in Watch |-> <<>>]
  /\ handler = "none"
  /\ last = {}
  /\ exit = "none"
  /\ atServer = {}
  /\ answers = {}
  /\ live = {}
  /\ rejected = {}
  /\ served = {}
  /\ left = Budget
-----------------------------------------------------------------------------
(***************************************************************************)
(* The network and the server.                                             *)
(***************************************************************************)

\* The connection is lost, with a close frame of code 1000 or without.
Drop(kind) ==
  /\ ws = "open"
  /\ Spend("drop")
  /\ ws' = kind
  /\ UNCHANGED <<lock, sending, inflight, received, waiting, permits, subs,
                 notes, handler, last, exit, serverVars>>

\* The server executes a request; the answer is lost if the connection is.
Serve(i) ==
  /\ i \in atServer
  /\ atServer' = atServer \ {i}
  /\ served' = served \cup {i}
  /\ answers' = IF ws = "open" THEN answers \cup {i} ELSE answers
  /\ \/ /\ i[2] = 0
        /\ live' = live \ {i[1]}
        /\ UNCHANGED <<rejected, left>>
     \/ /\ i[2] # 0
        /\ live' = IF i[1] \in Watch THEN live \cup {i[1]} ELSE live
        /\ UNCHANGED <<rejected, left>>
     \/ /\ i[2] # 0 /\ i[1] \in Watch
        /\ Spend("reject")
        /\ rejected' = rejected \cup {i[1]}
        /\ UNCHANGED live
  /\ UNCHANGED clientVars

\* The reader of the old connection lives on.
MutNewConnection ==
  ws' = "open" /\ handler' = "run" /\ last' = {}
    /\ atServer' = {} /\ live' = {} /\ UNCHANGED answers

\* What both ends of a new connection start from.
NewConnection ==
  /\ ws' = "open"
  /\ handler' = "run"
  /\ last' = {}
  /\ atServer' = {}
  /\ answers' = {}
  /\ live' = {}
-----------------------------------------------------------------------------
(***************************************************************************)
(* The receiver, _start_receiving and _recv.  Its timeouts are swallowed   *)
(* by the loop whatever they find, so they leave no trace here.            *)
(***************************************************************************)

\* Every future that still waits gets the exception; the handler returns it.
ReceiverFails ==
  /\ received' = [i \in Id |-> IF received[i] = "pending" THEN "exc"
                                                          ELSE received[i]]
  /\ handler' = "failed"

\* A response arrives.  set_result on a future that is done raises.
Recv(i) ==
  /\ i \in answers
  /\ handler = "run"
  /\ LockFree
  /\ answers' = answers \ {i}
  /\ inflight' = inflight \ {i}
  /\ \/ /\ received[i] = "pending"
        /\ received' = [received EXCEPT ![i] = "done"]
        /\ UNCHANGED handler
     \/ received[i] = "none" /\ UNCHANGED <<received, handler>>
     \/ received[i] \in {"done", "exc"} /\ ReceiverFails
  /\ UNCHANGED <<ws, lock, sending, waiting, permits, subs, notes, last, exit,
                 atServer, live, rejected, served, left>>

\* The server notifies a subscriber; the queue is made when it is missing.
Notify(c, n) ==
  /\ c \in live
  /\ received[<<c, 1>>] # "pending"
  /\ handler = "run"
  /\ Spend("note")
  /\ subs' = subs \cup {c}
  /\ notes' = [notes EXCEPT ![c] = Append(@, n)]
  /\ UNCHANGED <<ws, lock, sending, inflight, received, waiting, permits,
                 handler, last, exit, serverVars>>

\* A frame that is not JSON, or has neither "id" nor "params".
RecvMalformed ==
  /\ handler = "run"
  /\ ws = "open"
  /\ Spend("malformed")
  /\ ReceiverFails
  /\ UNCHANGED <<ws, lock, sending, inflight, waiting, permits, subs, notes,
                 last, exit, serverVars>>
-----------------------------------------------------------------------------
(***************************************************************************)
(* The sender, _start_sending.                                             *)
(***************************************************************************)

\* The item is in flight before it is written; on a dead connection the
\* write raises ConnectionClosed and the sender is gone.
Send ==
  /\ handler = "run"
  /\ LockFree
  /\ sending # <<>>
  /\ LET i == Head(sending) IN
       /\ sending' = Tail(sending)
       /\ inflight' = inflight \cup {i}
       /\ last' = {i}
       /\ IF ws = "open"
            THEN atServer' = atServer \cup {i} /\ UNCHANGED handler
            ELSE handler' = "stopped" /\ UNCHANGED atServer
  /\ UNCHANGED <<ws, lock, received, waiting, permits, subs, notes, exit,
                 answers, live, rejected, served, left>>

\* json.dumps refuses the item.  The exception goes to the request serialised
\* before it, or to every future when there was none; where it meets a future
\* that is done the sender raises instead of returning.  Only then does the
\* handler fail: otherwise recv_task.result() raises the CancelledError of the
\* receiver it has just cancelled, and the handler counts as cancelled.
SendBadPayload ==
  /\ handler = "run"
  /\ sending # <<>>
  /\ Spend("badPayload")
  /\ sending' = Tail(sending)
  /\ LET told == {i \in Id : received[i] # "none" /\ (last = {} \/ i \in last)}
     IN IF \E i \in told : received[i] # "pending"
          THEN /\ \E early \in SUBSET {i \in told : received[i] = "pending"} :
                    received' = [i \in Id |-> IF i \in early THEN "exc"
                                                             ELSE received[i]]
               /\ handler' = "failed"
          ELSE /\ received' = [i \in Id |-> IF i \in told THEN "exc"
                                                          ELSE received[i]]
               /\ handler' = "none"
  /\ UNCHANGED <<ws, lock, inflight, waiting, permits, subs, notes, last, exit,
                 serverVars>>
-----------------------------------------------------------------------------
(***************************************************************************)
(* The handler, _handler, once its connection is down.                     *)
(***************************************************************************)

Attached == handler \in {"run", "stopped"}

\* A clean close that no call waits on ends the handler; any other close with
\* notifications queued for a subscription fails it.
HandlerEnds ==
  /\ Attached
  /\ ws \in Down
  /\ \/ ws = "ok" /\ waiting <= 0 /\ handler' = "none"
     \/ ~(ws = "ok" /\ waiting <= 0) /\ subs # {} /\ handler' = "failed"
  /\ UNCHANGED <<ws, lock, sending, inflight, received, waiting, permits, subs,
                 notes, last, exit, serverVars, left>>

\* Nothing is resubmitted; or all of it, but it still counts as in flight.
MutRequeueNone == inflight' = {} /\ UNCHANGED sending
MutRequeueTwice ==
  (\E order \in SetToSeqs(inflight) : sending' = sending \o order)
    /\ UNCHANGED inflight

\* What was in flight goes back to the queue, in any order.
Requeue ==
  /\ \E order \in SetToSeqs(inflight) : sending' = sending \o order
  /\ inflight' = {}

\* Every future is replaced, not only those in flight.
MutRenew ==
  received' = [i \in Id |-> IF received[i] # "none" THEN "pending" ELSE "none"]

\* Each request in flight gets a new future.
Renew ==
  received' = [i \in Id |-> IF i \in inflight THEN "pending" ELSE received[i]]

\* What was in flight goes back to the queue with a new future, an armed exit
\* timer is cancelled, and the handler dials without taking the lock.
Resubmit ==
  /\ Attached
  /\ ws \in Down
  /\ ~(ws = "ok" /\ waiting <= 0)
  /\ subs = {}
  /\ LockFree
  /\ Requeue
  /\ Renew
  /\ exit' = IF exit = "armed" THEN "none" ELSE exit
  /\ handler' = "redial"
  /\ UNCHANGED <<ws, lock, waiting, permits, subs, notes, last, serverVars,
                 left>>

\* An unknown host is retried for ever after a pause, so it is no step.
Redial ==
  /\ handler = "redial"
  /\ \/ NewConnection /\ UNCHANGED left
     \/ /\ Spend("dialFail")
        /\ handler' = "failed"
        /\ UNCHANGED <<ws, last, atServer, answers, live>>
  /\ UNCHANGED <<lock, sending, inflight, received, waiting, permits, subs,
                 notes, exit, rejected, served>>

\* The old handler is left running.
MutCancelHandler == UNCHANGED <<handler, sending>>

\* _cancel: what ends a handler from outside.  A sender that has taken an item
\* and waits for the lock takes the item with it.
CancelHandler ==
  /\ handler' = IF handler = "failed" THEN "failed" ELSE "none"
  /\ \/ UNCHANGED sending
     \/ handler = "run" /\ sending # <<>> /\ sending' = Tail(sending)
-----------------------------------------------------------------------------
(***************************************************************************)
(* The exit timer: __aexit__, _exit_with_timer and shutdown.  __aexit__ is *)
(* the operator ArmExit, in the last step of a call.                       *)
(***************************************************************************)

\* The count of waiting calls is not looked at; or off by one.
MutIdleUncounted(w, queue, keys) == queue = <<>> /\ keys = {}
MutIdleLate(w, queue, keys) == queue = <<>> /\ keys = {} /\ w < 0

Idle(w, queue, keys) == queue = <<>> /\ keys = {} /\ w <= 0

ArmExit(w, queue, keys) ==
  exit' = IF /\ AutoShutdown /\ Idle(w, queue, keys)
             /\ ws # "none" /\ exit \notin Closing
            THEN "armed" ELSE exit

\* The timer fires; shutdown cancels the task it runs in, and gives the loop
\* one turn before it swallows that cancellation.
ExitFires ==
  /\ exit = "armed"
  /\ exit' = IF Idle(waiting, sending, subs) THEN "deciding" ELSE "none"
  /\ UNCHANGED <<ws, lock, sending, inflight, received, waiting, permits, subs,
                 notes, handler, last, serverVars, left>>

\* The handler is cancelled and the closing handshake starts.
ExitStops ==
  /\ exit = "deciding"
  /\ exit' = "closing"
  /\ handler' = IF handler = "failed" THEN "failed" ELSE "none"
  /\ ws' = IF ws = "open" THEN "ok" ELSE ws
  /\ UNCHANGED <<lock, sending, inflight, received, waiting, permits, subs,
                 notes, last, serverVars, left>>

\* The handshake is over: self.ws and self._send_recv_task become None.
ExitDone ==
  /\ exit = "closing"
  /\ exit' = "none"
  /\ ws' = "none"
  /\ handler' = "none"
  /\ UNCHANGED <<lock, sending, inflight, received, waiting, permits, subs,
                 notes, last, serverVars, left>>
=============================================================================
