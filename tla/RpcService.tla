----------------------------- MODULE RpcService -----------------------------
(***************************************************************************)
(* What a caller of _make_rpc_request is promised, whatever happens to the *)
(* connection: a call is answered at most once, only with answers the node *)
(* produced for requests of that call, and a node never hears of the end   *)
(* of a subscription it was not asked for.  A request may be executed more *)
(* than once: what was in flight when a connection died is sent again.     *)
(***************************************************************************)
EXTENDS Naturals

CONSTANTS Call, Watch, Batch

VARIABLES
  status,    \* what the caller knows of each call
  executed   \* the requests the node has executed

svcVars == <<status, executed>>

Needs(c) == {<<c, j>> : j \in 1..(IF c \in Watch THEN 1 ELSE Batch)}

SvcInit ==
  /\ status = [c \in Call |-> "idle"]
  /\ executed = {}

Ask(c) ==
  /\ status[c] = "idle"
  /\ status' = [status EXCEPT ![c] = "asked"]
  /\ UNCHANGED executed

\* A request may still be executed after its call was given up.
Execute(c) ==
  /\ status[c] # "idle"
  /\ \E i \in Needs(c) : executed' = executed \cup {i}
  /\ UNCHANGED status

\* The node is told that a subscription has ended.
Forget(c) ==
  /\ c \in Watch
  /\ Needs(c) \subseteq executed
  /\ executed' = executed \cup {<<c, 0>>}
  /\ UNCHANGED status

Answer(c) ==
  /\ status[c] = "asked"
  /\ Needs(c) \subseteq executed
  /\ status' = [status EXCEPT ![c] = "answered"]
  /\ UNCHANGED executed

GiveUp(c) ==
  /\ status[c] = "asked"
  /\ status' = [status EXCEPT ![c] = "failed"]
  /\ UNCHANGED executed

SvcNext ==
  \E c \in Call : Ask(c) \/ Execute(c) \/ Forget(c) \/ Answer(c) \/ GiveUp(c)

SvcSpec == SvcInit /\ [][SvcNext]_svcVars
=============================================================================
