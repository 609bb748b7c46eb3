------------------------------- MODULE MCRpc -------------------------------
(***************************************************************************)
(* Small instances of the calls and the Websocket for TLC.                 *)
(***************************************************************************)
EXTENDS RpcInvariant

CONSTANTS c1, c2, c3

Two == {c1, c2}
Three == {c1, c2, c3}

\* One budget per run: the faults it names happen up to so many times.
Quiet == [f \in Fault |-> 0]
With(fs, n) == [f \in Fault |-> IF f \in fs THEN n ELSE 0]
AllFaults == [With(Fault, 1) EXCEPT !["drop"] = 2]
Reconnects == [With({"malformed", "cancel"}, 1)
                 EXCEPT !["drop"] = 3, !["dialFail"] = 3]
DialFails == With({"dialFail"}, 2)

OneDrop == With({"drop"}, 1)
NoHost == With({"noName"}, 1)
=============================================================================
