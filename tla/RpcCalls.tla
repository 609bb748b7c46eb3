------------------------------ MODULE RpcCalls ------------------------------
(***************************************************************************)
(* The calls that share a Websocket: each is one _make_rpc_request, from   *)
(* `async with self.ws` through its send and poll loops to __aexit__, with *)
(* the RequestManager that collects its answers.  A subscription first     *)
(* gets its subscription id, then polls its queue of notifications until   *)
(* the result_handler has seen enough and unsubscribes inside a second     *)
(* `async with self.ws`.  A user who calls in sequence is several calls of *)
(* which each starts after the one before it.                              *)
(***************************************************************************)
EXTENDS Websocket

VARIABLES
  pc,      \* where the coroutine of the call is suspended
  sent,    \* how many of its payloads went through send()
  got,     \* the payloads whose response the RequestManager holds
  ending   \* what a subscription does once it is unsubscribed

callVars == <<pc, sent, got, ending>>
vars == <<wsVars, callVars>>

Marked == {"acquire", "send", "polling", "watching", "unmark"}
Settled == {"done", "failed", "cancelled"}
Where == {"idle", "lockwait", "dial", "stuck", "mark"} \cup Marked \cup Settled

TypeOK ==
  /\ WsTypeOK
  /\ pc \in [Call -> Where]
  /\ sent \in [Call -> 0..Batch]
  /\ got \in [Call -> SUBSET (1..Batch)]
  /\ ending \in [Call -> {"none", "finish", "abort"}]

Init ==
  /\ WsInit
  /\ pc = [c \in Call |-> "idle"]
  /\ sent = [c \in Call |-> 0]
  /\ got = [c \in Call |-> {}]
  /\ ending = [c \in Call |-> "none"]

Goto(c, place) == pc' = [pc EXCEPT ![c] = place]

\* asyncio.Lock is first come first served: a call queues behind the others.
Queued == {"lockwait", "mark", "send", "unmark"}
LockedOut(c) == lock \ {c} # {} \/ \E d \in Call \ {c} : pc[d] \in Queued
-----------------------------------------------------------------------------
(***************************************************************************)
(* What a call does on an open connection once it may take the lock.       *)
(***************************************************************************)

\* Nobody's turn at the semaphore is waited for, nor a permit.
MutSpare(c) == Size(c)

\* asyncio.Semaphore, too: no permit is to be had while another call waits.
Spare(c) == IF \E d \in Call \ {c} : pc[d] = "acquire" THEN 0 ELSE permits

\* send() for one payload after the other until something suspends it: with
\* `own` permits taken before and `free` to take, it queues for the lock with
\* the next permit in hand, or for a permit.
Sends(c, own, free) ==
  LET rest == Size(c) - sent[c]
      n == IF LockedOut(c) THEN own
           ELSE IF own + free < rest THEN own + free ELSE rest
      next == IF n = rest THEN "polling"
              ELSE IF LockedOut(c) /\ free > 0 THEN "send" ELSE "acquire"
      taken == (n - own) + (IF next = "send" THEN 1 ELSE 0)
  IN /\ permits' = permits - taken
     /\ sent' = [sent EXCEPT ![c] = @ + n]
     /\ sending' = sending \o [j \in 1..n |-> <<c, sent[c] + j>>]
     /\ received' = [i \in Id |-> IF i[1] = c /\ i[2] \in sent[c] + 1 .. sent[c] + n
                                   THEN "pending" ELSE received[i]]
     /\ Goto(c, next)
     /\ UNCHANGED <<subs, notes, exit>>

\* mark_waiting_for_response, then the send loop.
Submit(c) == waiting' = waiting + 1 /\ Sends(c, 0, Spare(c))

\* unsubscribe, and the rest of the call: the result_handler returns or raises
\* and both contexts are left.  After the last notification this takes the
\* lock again, for mark_response_received.
Leave(c, e) ==
  /\ subs' = subs \ {c}
  /\ notes' = [notes EXCEPT ![c] = <<>>]
  /\ sending' = Append(sending, Unsubscribe(c))
  /\ IF e = "finish" /\ LockedOut(c)
       THEN Goto(c, "unmark") /\ UNCHANGED <<waiting, exit>>
       ELSE /\ waiting' = IF e = "finish" THEN waiting - 1 ELSE waiting
            /\ Goto(c, IF e = "finish" THEN "done" ELSE "failed")
            /\ ArmExit(waiting', sending', subs')
  /\ UNCHANGED <<permits, received, sent>>

Proceed(c, e) ==
  IF LockedOut(c)
    THEN /\ Goto(c, "mark")
         /\ UNCHANGED <<waiting, permits, sending, received, subs, notes, exit,
                        sent>>
    ELSE IF e = "none" THEN Submit(c) ELSE Leave(c, e)

\* The exception is swallowed.
MutRaise(c) == Goto(c, "done") /\ ArmExit(waiting, sending, subs)

\* The call raises out of `async with self.ws`; it stays counted as waiting.
Raise(c) == Goto(c, "failed") /\ ArmExit(waiting, sending, subs)
-----------------------------------------------------------------------------
(***************************************************************************)
(* Entering: __aenter__ and connect.                                       *)
(***************************************************************************)

Enter(c) ==
  /\ pc[c] = "idle"
  /\ IF ws = "open"
       THEN Proceed(c, "none")
       ELSE /\ Goto(c, "lockwait")
            /\ UNCHANGED <<waiting, permits, sending, received, subs, notes,
                           exit, sent>>
  /\ UNCHANGED <<ws, lock, inflight, handler, last, serverVars, left, got,
                 ending>>

\* Another call may have connected meanwhile.  Otherwise this one cancels the
\* exit timer and the old handler, and keeps the lock while it dials.
GrabLock(c) ==
  /\ pc[c] = "lockwait"
  /\ LockFree
  /\ IF ws = "open"
       THEN Proceed(c, ending[c]) /\ UNCHANGED <<lock, handler>>
       ELSE /\ lock' = {c}
            /\ CancelHandler
            /\ exit' = IF exit = "armed" THEN "none" ELSE exit
            /\ Goto(c, "dial")
            /\ UNCHANGED <<waiting, permits, received, subs, notes, sent>>
  /\ UNCHANGED <<ws, inflight, last, serverVars, left, got, ending>>

\* A shutdown under way ends before the dial can: its wait for the closing
\* connection began first, and the dial has the network still to cross.
DialOk(c) ==
  /\ pc[c] = "dial"
  /\ exit \notin Closing
  /\ NewConnection
  /\ lock' = {}
  /\ Proceed(c, ending[c])
  /\ UNCHANGED <<inflight, rejected, served, left, got, ending>>

DialFail(c) ==
  /\ pc[c] = "dial"
  /\ Spend("dialFail")
  /\ lock' = {}
  /\ IF ending[c] = "none" THEN Goto(c, "failed") /\ UNCHANGED exit
                           ELSE Raise(c)
  /\ UNCHANGED <<ws, sending, inflight, received, waiting, permits, subs, notes,
                 handler, last, serverVars, sent, got, ending>>

\* socket.gaierror: after a pause connect() asks for the lock this call holds.
DialNoName(c) ==
  /\ pc[c] = "dial"
  /\ Spend("noName")
  /\ Goto(c, "stuck")
  /\ UNCHANGED <<clientVars, serverVars, sent, got, ending>>

Dial(c) == DialOk(c) \/ DialFail(c) \/ DialNoName(c)

\* The lock comes free for a call that queued for it on an open connection.
Mark(c) ==
  /\ pc[c] = "mark"
  /\ LockFree
  /\ IF ending[c] = "none" THEN Submit(c) ELSE Leave(c, ending[c])
  /\ UNCHANGED <<ws, lock, inflight, handler, last, serverVars, left, got,
                 ending>>

\* A permit comes free for the next payload: the first in the queue may take
\* it, and more when nobody else waits.
Acquire(c) ==
  /\ pc[c] = "acquire"
  /\ permits > 0
  /\ Sends(c, 0, IF Spare(c) = 0 THEN 1 ELSE permits)
  /\ UNCHANGED <<ws, lock, inflight, waiting, handler, last, serverVars, left,
                 got, ending>>

\* The lock comes free for a payload that has its permit.
Enqueue(c) ==
  /\ pc[c] = "send"
  /\ LockFree
  /\ Sends(c, 1, Spare(c))
  /\ UNCHANGED <<ws, lock, inflight, waiting, handler, last, serverVars, left,
                 got, ending>>
-----------------------------------------------------------------------------
(***************************************************************************)
(* The poll loop and retrieve().                                           *)
(***************************************************************************)

Payload(c) == 1..Size(c)

\* retrieve() raises: the future holds an exception, or is pending and the
\* handler has failed.
Hopeless(c, j) ==
  \/ received[<<c, j>>] = "exc"
  \/ received[<<c, j>>] = "pending" /\ handler = "failed"

\* The count goes down before the lock is to be had.
MutComplete(c) ==
  /\ waiting' = waiting - 1
  /\ IF lock # {} \/ LockedOut(c) THEN Goto(c, "unmark") /\ UNCHANGED exit
     ELSE ArmExit(waiting', sending, subs) /\ Goto(c, "done")

\* mark_response_received and __aexit__, when the lock is to be had at once.
Complete(c) ==
  IF lock # {} \/ LockedOut(c)
    THEN Goto(c, "unmark") /\ UNCHANGED <<waiting, exit>>
    ELSE /\ waiting' = waiting - 1
         /\ ArmExit(waiting', sending, subs)
         /\ Goto(c, "done")

\* Each permit comes back twice; or those of results never do.
MutFreedTwice(taken, spoilt) == 2 * (Cardinality(taken) + Cardinality(spoilt))
MutFreed(taken, spoilt) == Cardinality(spoilt)

\* retrieve() releases a permit with each result or exception it takes.
Freed(taken, spoilt) == Cardinality(taken) + Cardinality(spoilt)

\* One pass over the unanswered payloads, in order, to the first that raises.
\* An exception gives its permit back; a failed handler does not.
Poll(c) ==
  /\ pc[c] = "polling"
  /\ LET open  == Payload(c) \ got[c]
         bad   == {j \in open : Hopeless(c, j)}
         taken == {j \in open : received[<<c, j>>] = "done"
                                  /\ \A k \in bad : j < k}
         spoilt == {j \in bad : received[<<c, j>>] = "exc"
                                  /\ \A k \in bad : j <= k}
     IN /\ bad \cup taken # {}
        /\ permits' = permits + Freed(taken, spoilt)
        /\ received' = [i \in Id |-> IF i[1] = c /\ i[2] \in taken THEN "none"
                                                            ELSE received[i]]
        /\ got' = [got EXCEPT ![c] = @ \cup taken]
        /\ IF bad # {} \/ (c \in rejected /\ taken # {})
             THEN Raise(c) /\ UNCHANGED waiting
             ELSE IF got'[c] # Payload(c) THEN UNCHANGED <<pc, waiting, exit>>
             ELSE IF c \in Watch
                    THEN Goto(c, "watching") /\ UNCHANGED <<waiting, exit>>
                    ELSE Complete(c)
  /\ UNCHANGED <<ws, lock, sending, inflight, subs, notes, handler, last,
                 serverVars, left, sent, ending>>

\* A subscription takes a notification; the last one leads to unsubscribe().
TakeNote(c) ==
  /\ pc[c] = "watching"
  /\ c \in subs
  /\ notes[c] # <<>>
  /\ LET n == Head(notes[c])
         e == IF n = "end" THEN "finish" ELSE "abort"
         popped == [notes EXCEPT ![c] = Tail(@)]
     IN IF n = "update"
          THEN /\ notes' = popped
               /\ UNCHANGED <<waiting, permits, sending, received, subs, exit,
                              pc, sent, ending>>
          ELSE /\ ending' = [ending EXCEPT ![c] = e]
               /\ IF ws = "open" /\ lock = {} /\ ~LockedOut(c)
                    THEN Leave(c, e)
                    ELSE /\ notes' = popped
                         /\ Goto(c, IF ws = "open" THEN "mark" ELSE "lockwait")
                         /\ UNCHANGED <<waiting, permits, sending, received,
                                        subs, exit, sent>>
  /\ UNCHANGED <<ws, lock, inflight, handler, last, serverVars, left, got>>

\* With no notification to take, the subscription learns of a failed handler.
WatchFails(c) ==
  /\ pc[c] = "watching"
  /\ c \in subs => notes[c] = <<>>
  /\ handler = "failed"
  /\ Raise(c)
  /\ UNCHANGED <<ws, lock, sending, inflight, received, waiting, permits, subs,
                 notes, handler, last, serverVars, left, sent, got, ending>>

\* mark_response_received had to queue for the lock.
Unmark(c) ==
  /\ pc[c] = "unmark"
  /\ LockFree
  /\ waiting' = waiting - 1
  /\ ArmExit(waiting', sending, subs)
  /\ Goto(c, "done")
  /\ UNCHANGED <<ws, lock, sending, inflight, received, permits, subs, notes,
                 handler, last, serverVars, left, sent, got, ending>>

\* The task of the call is cancelled at the await it is suspended in: a held
\* lock is released and, once inside the context, __aexit__ runs.
Cancel(c) ==
  /\ pc[c] \notin Settled \cup {"idle"}
  /\ Spend("cancel")
  /\ lock' = lock \ {c}
  /\ Goto(c, "cancelled")
  /\ IF pc[c] \in Marked \cup {"mark"} \/ ending[c] # "none"
       THEN ArmExit(waiting, sending, subs) ELSE UNCHANGED exit
  /\ UNCHANGED <<ws, sending, inflight, received, waiting, permits, subs, notes,
                 handler, last, serverVars, sent, got, ending>>
-----------------------------------------------------------------------------
CallStep(c) ==
  \/ Enter(c) \/ GrabLock(c) \/ Dial(c) \/ Mark(c) \/ Acquire(c)
  \/ Enqueue(c) \/ Poll(c) \/ TakeNote(c) \/ WatchFails(c) \/ Unmark(c) \/ Cancel(c)

WsStep ==
  /\ \/ \E kind \in Down : Drop(kind)
     \/ \E i \in Id : Serve(i) \/ Recv(i)
     \/ \E c \in Watch, n \in Note : Notify(c, n)
     \/ RecvMalformed \/ Send \/ SendBadPayload
     \/ HandlerEnds \/ Resubmit \/ Redial
     \/ ExitFires \/ ExitStops \/ ExitDone
  /\ UNCHANGED callVars

Next == WsStep \/ \E c \in Call : CallStep(c)

\* The event loop runs every task that can run, and a dial comes to an end.
TaskFairness ==
  /\ \A c \in Call :
       /\ WF_vars(GrabLock(c)) /\ WF_vars(Dial(c)) /\ WF_vars(Mark(c))
       /\ WF_vars(Acquire(c)) /\ WF_vars(Enqueue(c)) /\ WF_vars(Poll(c))
       /\ WF_vars(TakeNote(c)) /\ WF_vars(WatchFails(c)) /\ WF_vars(Unmark(c))
  /\ \A i \in Id : WF_vars(Recv(i) /\ UNCHANGED callVars)
  /\ WF_vars((Send \/ HandlerEnds \/ Resubmit \/ Redial) /\ UNCHANGED callVars)
  /\ WF_vars((ExitFires \/ ExitStops \/ ExitDone) /\ UNCHANGED callVars)

\* The node answers what it is asked.
NodeFairness == \A i \in Id : WF_vars(Serve(i) /\ UNCHANGED callVars)

\* Nobody need make a call, no fault need happen, and a node that has accepted
\* a subscription need not notify.
Spec == Init /\ [][Next]_vars
SilentSpec == Spec /\ TaskFairness
FairSpec == SilentSpec /\ NodeFairness
=============================================================================
