------------------------- MODULE FetcherProperties -------------------------
(***************************************************************************)
(* What calls that share a cached method must do together.                 *)
(***************************************************************************)
EXTENDS CachedFetcher

\* "It would actually only make one single network call": two calls never run
\* the method for the same key at the same time, however calls fail, are
\* cancelled, or find their entry evicted.
SingleFlight ==
  \A c, d \in Call :
    pc[c] \in Leading /\ pc[d] \in Leading /\ key[c] = key[d] => c = d

\* Whoever returns a value, from the cache, the disk or another call's future,
\* returns an answer that the node gave to a fetch of the same key.
AnswerIsOfKey ==
  \A c \in Call : pc[c] = "value" =>
    /\ key[source[c]] = key[c]
    /\ source[c] \in empty \/ key[c] \in produced

\* The cache holds exactly the MaxSize keys used last, in the order of use.
LeastRecentlyUsed ==
  LET n == Len(recent) - Len(cache)
  IN /\ Len(cache) = IF Len(recent) < MaxSize THEN Len(recent) ELSE MaxSize
     /\ \A m \in DOMAIN cache : cache[m].key = recent[n + m]

\* A follower is never left to wait for a fetch that is over, also when the
\* fetch raises or another follower is cancelled; only the cancellation of the
\* task it follows does that to it.
NoOrphan ==
  \A c \in Call : pc[c] = "waiting" =>
    \/ pc[leads[c]] \in Leading /\ inflight[key[c]] = {leads[c]}
    \/ future[leads[c]] \in {"set", "cancelled"}
    \/ pc[leads[c]] = "cancelled"

\* An empty answer is not remembered: once the node has a key, a call that is
\* not already under way with others gets the real answer.
NoStaleMiss ==
  \A c \in fresh : pc[c] = "value" /\ key[c] \notin Disk => source[c] \notin empty
-----------------------------------------------------------------------------
(***************************************************************************)
(* What the README says and the code does not do.                          *)
(***************************************************************************)

\* README, "return the result to both requests": when the fetch of a call lands
\* no call that shares it is left without the answer, except by its own
\* cancellation.
ResultIsShared ==
  \A c \in Call : pc[c] \notin {"dropped", "invalid"} \/ \E d \in Call : pc[d] = "raised"

\* README, "applied only on methods whose results cannot change": an answer
\* that was empty is not kept on disk once the node has the real one.
NoStaleMissOnDisk ==
  \A c \in fresh : pc[c] = "value" => source[c] \notin empty
=============================================================================
