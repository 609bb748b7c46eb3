------------------------- MODULE FailoverProperties -------------------------
(***************************************************************************)
(* What Failover promises a caller.                                        *)
(***************************************************************************)
EXTENDS Failover

\* A call that fails because "No more fallback chains" are left
\* (substrate_addons.py:191-195, 360-364) has not passed one over: each has
\* been tried, or is being tried by the call that was given it.
EveryChainTried ==
  \A t \in Caller : \A archive \in call[t].out : \A c \in Range(Chains(archive)) :
    \/ c \in tried
    \/ \E u \in Caller : \/ call[u].pc = "switching" /\ call[u].to = c
                         \/ call[u].pc = "dial" /\ socks[call[u].sock] = c

\* A request is on a connection to the chain that self.url names, after any
\* number of failovers within failovers (substrate_addons.py:215-218,
\* 331-339); an asynchronous one may have been overtaken by another call's.
RequestGoesToUrl ==
  /\ async => Last(socks) = url
  /\ ~async /\ call[Main].pc = "sent" => call[Main].end = url

\* How often a request is made in so many frames: each makes it twice.
Runs[n \in Nat] == IF n = 0 THEN 1 ELSE 2 * Runs[n - 1]

\* However deep the frames, a call makes its own request at most twice per
\* frame (substrate_addons.py:176-190): it does not retry for ever, not even
\* with retry_forever.
BoundedRetries == \A t \in Caller : call[t].tries <= Runs[call[t].depth]

\* A call ends (substrate_addons.py:98-104, 237-249), unless another call has
\* shut down the Websocket that its request was sent on.
CallEnds ==
  \A t \in Caller : call[t].pc \notin Ended ~> call[t].pc \in Ended \cup {"stranded"}
=============================================================================
