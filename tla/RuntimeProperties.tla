------------------------- MODULE RuntimeProperties -------------------------
(***************************************************************************)
(* What init_runtime must give its callers, and its synchronous twin as a  *)
(* function.                                                               *)
(***************************************************************************)
EXTENDS RuntimeLoading

(***************************************************************************)
(* The synchronous interface, whose self.runtime is now: what a call finds *)
(* and what it leaves in the cache.                                        *)
(***************************************************************************)

\* _get_block_hash answers m: what the node does, or what lru_cache remembers of
\* an earlier answer, None included.
SyncGetBlockHash(c, n, m) ==
  IF Get(c.blocks, n) # None
  THEN [cache |-> [c EXCEPT !.blocks = Used(@, n)], hash |-> Get(c.blocks, n)]
  ELSE [cache |-> AddItem(c, None, n, m, None), hash |-> m]

SyncGetBlockNumber(c, h) ==
  IF h \in KeysOf(c.reverse) THEN [c EXCEPT !.reverse = Used(@, h)]
  ELSE AddItem(c, None, Number[h], h, None)

SyncGetRuntimeForVersion(c, v, h) ==
  AddItem(SyncGetBlockNumber(c, h), v, Number[h], h, v)

MutSyncFresh(c, now, h) ==
  LET v == VersionFor(h)
      found == Retrieve(c, None, None, v)
  IN IF now # None THEN [cache |-> c, runtime |-> now]
     ELSE IF found.runtime # None THEN found
     ELSE [cache |-> SyncGetRuntimeForVersion(c, v, h), runtime |-> v]

\* The cache has nothing for the block: its version decides.
SyncFresh(c, now, h) ==
  LET v == VersionFor(h)
      found == Retrieve(c, None, None, v)
  IN IF now = v THEN [cache |-> c, runtime |-> now]
     ELSE IF found.runtime # None THEN found
     ELSE [cache |-> SyncGetRuntimeForVersion(c, v, h), runtime |-> v]

SyncWithHash(c, now, h) ==
  LET found == Retrieve(c, None, h, None)
  IN IF found.runtime # None THEN found ELSE SyncFresh(found.cache, now, h)

SyncInitRuntime(c, now, n, h, m) ==
  LET found == Retrieve(c, n, None, None)
      asked == SyncGetBlockHash(found.cache, n, m)
  IN CASE n # None /\ found.runtime # None -> found
       [] n # None /\ found.runtime = None /\ asked.hash # None ->
            SyncWithHash(asked.cache, now, asked.hash)
       [] n = None /\ h # None -> SyncWithHash(c, now, h)
       [] OTHER -> SyncFresh(IF n = None THEN c ELSE asked.cache, now, head)
-----------------------------------------------------------------------------
IsRuntimeOf(runtime, h) == runtime = SpecVersion[Parent[h]]

\* The table is wrong about a block if the last of its boundaries not after the
\* block has another version, as on a fork without the upgrade; and it ends
\* where its last boundary has nothing after it (LastKnownIgnored).
TableWrong(h) ==
  \E a \in Known :
    /\ a[1] <= Number[h]
    /\ \A b \in Known : b[1] <= Number[h] => b[1] <= a[1]
    /\ a[2] # SpecVersion[Parent[h]]
TableEnded(h) ==
  (\E a, b \in Known : a # b) /\ \A a \in Known : a[1] <= Number[h]
Misattributed(h) == TableWrong(h) \/ TableEnded(h)

\* The block a call is about: the one asked for, by its hash or by its number,
\* or the head, if none was or none had that number.  A number whose block may
\* have been replaced, or is remembered to have none, stands for the block the
\* call took it for.
Stands(c) ==
  /\ c.asked # None
  /\ c.n # None => ~strayed /\ <<c.n, None>> \notin answered
BlockOf(c) == IF Stands(c) THEN c.asked ELSE c.h

\* init_runtime returns the runtime that executed the block it is asked about,
\* whatever loads overlap with it, forks, was evicted or came from disk, unless
\* the table of known versions is wrong about it.
RightRuntime ==
  \A t \in Caller :
    call[t].how = "returned" /\ ~Misattributed(BlockOf(call[t]))
      => IsRuntimeOf(call[t].got, BlockOf(call[t]))

\* The caches, in memory and on disk, agree with the chain and each other.
CacheCoherent ==
  /\ \A e \in Range(cache.blocks) \cup disk.blocks : Number[e[2]] = e[1]
  /\ \A e \in Range(cache.reverse) : Number[e[1]] = e[2]
  /\ \A e \in Range(cache.hashes) \cup disk.hashes :
       Misattributed(e[1]) \/ IsRuntimeOf(e[2], e[1])

\* While the chain only grows and is asked for its own blocks, a number that is
\* cached is that of the block the chain has there; a block that does not exist
\* yet is not cached (async_substrate.py:2861-2889, types.py:105-107).
NumbersStand ==
  ~strayed => \A e \in Range(cache.blocks) \cup disk.blocks : e[2] = Canonical(e[1])

\* From any cache the asynchronous interface leaves behind, the synchronous one
\* finds the right runtime for every block, whichever it has loaded before.
\* Asked by number, it gives that of the head if it remembers from earlier that
\* the block does not exist.
SyncIsRight ==
  (\A t \in Caller : call[t].pc = "idle") =>
    \A now \in Version \cup {None}, h \in Block :
      LET ByHashOf    == SyncInitRuntime(cache, now, None, h, None).runtime
          ByNumber(m) == SyncInitRuntime(cache, now, Number[h], None, m).runtime
          OfHead      == SyncInitRuntime(cache, now, None, None, None).runtime
      IN /\ Misattributed(h) \/ IsRuntimeOf(ByHashOf, h)
         /\ ~strayed /\ OnChain(h) /\ ~Misattributed(h) =>
              /\ IsRuntimeOf(ByNumber(h), h)
              /\ IsRuntimeOf(ByNumber(None), h) \/ IsRuntimeOf(ByNumber(None), head)
         /\ IsRuntimeOf(OfHead, head)

\* Every call ends, unless the load it follows is cancelled with the start-up
\* task.
CallsEnd ==
  \A t \in Caller : call[t].pc # "idle" ~> call[t].pc \in {"idle", "orphan"}

\* add_known_versions: "the last runtime in the supplied known versions will be
\* ignored, as otherwise we would have to assume that the final known version
\* never changes": the chain is asked about the blocks from there on.
LastKnownIgnored ==
  \A t \in Caller :
    /\ call[t].how = "returned"
    /\ \A a \in Known : a[1] <= Number[call[t].h]
    => IsRuntimeOf(call[t].got, call[t].h)
=============================================================================
