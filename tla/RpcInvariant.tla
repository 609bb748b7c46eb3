---------------------------- MODULE RpcInvariant ----------------------------
(***************************************************************************)
(* The inductive invariant behind the safety properties: who holds the     *)
(* lock, where a request id can be, and what is known of its future.       *)
(***************************************************************************)
EXTENDS RpcProperties

\* The lock is held across a suspension by the one call that dials, and then
\* there is neither a handler nor a connection.
LockInv ==
  /\ \A c, d \in lock : c = d
  /\ \A c \in Call : c \in lock <=> pc[c] \in {"dial", "stuck"}
  /\ lock # {} => handler \in {"none", "failed"} /\ ws # "open"

\* An id in circulation is a payload its call has sent, or the unsubscribe
\* message of a subscription that is over.
Issued(i) ==
  \/ i[2] \in 1..sent[i[1]]
  \/ i[2] = 0 /\ ending[i[1]] # "none" /\ pc[i[1]] \in {"unmark"} \cup Settled

NotSentYet(c) ==
  pc[c] \in {"idle", "lockwait", "dial", "stuck", "mark"} /\ ending[c] = "none"

Circulating == Range(sending) \cup inflight \cup atServer \cup answers

OriginInv ==
  /\ \A i \in Circulating : Issued(i)
  /\ \A i \in Id : received[i] # "none" => Issued(i)
  /\ \A c \in Call : /\ sent[c] <= Size(c)
                     /\ NotSentYet(c) => sent[c] = 0
                     /\ pc[c] = "idle" => ending[c] = "none"

\* A request that is still to be sent or answered has no answer yet, and a
\* request the node has is not also on its way to it.
FutureInv ==
  /\ OneCopy
  /\ \A i \in Range(sending) \cup inflight : received[i] # "done"
  /\ handler = "run" =>
       /\ atServer \cap answers = {}
       /\ (atServer \cup answers) \cap Range(sending) = {}
       /\ \A i \in atServer \cup answers : received[i] # "done"

\* What a call has collected, and what awaits collection, the node served; a
\* call past its poll loop has collected everything.
Collected(c) ==
  pc[c] \in {"watching", "unmark", "done"} \/ ending[c] # "none"

ServedInv ==
  /\ answers \subseteq served
  /\ \A i \in Id : received[i] = "done" => i \in served
  /\ \A c \in Call : \A j \in got[c] : <<c, j>> \in served
  /\ \A c \in Call : Collected(c) => Payload(c) \subseteq got[c]

SafetyInv == LockInv /\ OriginInv /\ FutureInv /\ ServedInv
=============================================================================
