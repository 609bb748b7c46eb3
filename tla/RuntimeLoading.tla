--------------------------- MODULE RuntimeLoading ---------------------------
(***************************************************************************)
(* init_runtime of the asynchronous interface: the calls that look for the *)
(* Runtime of a block, given its number, its hash or nothing, share the    *)
(* RuntimeCache, the loads under way and the load that was started when    *)
(* the interface was initialised, while the chain grows and reorganises,   *)
(* node calls fail, and the process ends and starts again on its disk      *)
(* cache.                                                                  *)
(***************************************************************************)
EXTENDS RuntimeCache

CONSTANTS
  Task,      \* the tasks that call init_runtime
  Startup,   \* startup_runtime_task
  Block, Genesis, Parent, Number, SpecVersion,
             \* the blocks the chain may ever have, identified by their hash,
             \* and the spec version of the state after each of them
  Chain,     \* the chain up to each of them: its blocks by their number
  Disk,      \* whether the interface is the disk-cached one
  Local,     \* whether the endpoint is local
  Calls,     \* bound on the calls
  Faults,    \* bound on the node calls that fail and the tasks cancelled
  Restarts   \* bound on the restarts

ASSUME ChainAssumption ==
  /\ Startup \notin Task
  /\ Genesis \in Block /\ None \notin Block
  /\ Parent \in [Block -> Block] /\ Parent[Genesis] = Genesis
  /\ Number \in [Block -> Nat] /\ Number[Genesis] = 0
  /\ \A b \in Block : /\ Chain[b] \in [0..Number[b] -> Block]
                      /\ Chain[b][Number[b]] = b
  /\ \A b \in Block : \A n \in 0..Number[b] :
       LET a == Chain[b][n]
       IN /\ Number[a] = n
          /\ Parent[a] = IF n = 0 THEN a ELSE Chain[b][n - 1]
          /\ \A i \in 0..n : Chain[a][i] = Chain[b][i]
  /\ SpecVersion \in [Block -> Nat]
  /\ Disk \in BOOLEAN /\ Local \in BOOLEAN
  /\ Calls \in Nat /\ Faults \in Nat /\ Restarts \in Nat

VARIABLES
  head,      \* the best block
  strayed,   \* history: a block off the chain, left behind or asked for
  cache,     \* runtime_cache
  startup,   \* startup_block_hash, and whether the task is still referred to
  call,      \* the calls of init_runtime
  lead,      \* the future of get_runtime_for_version: who leads, per version
  broken,    \* the versions whose future has been cancelled by a follower
  memo,      \* the runtimes its CachedFetcher remembers
  disk,      \* the rows on disk
  answered,  \* the hashes of numbers that _cached_get_block_hash may remember
  left       \* what remains of Calls, Faults and Restarts

vars == <<head, strayed, cache, startup, call, lead, broken, memo, disk,
          answered, left>>

Caller == Task \cup {Startup}
Version == {SpecVersion[b] : b \in Block}

OnChain(b) == b \in Range(Chain[head])

\* chain_getBlockHash: null for a block that does not exist yet.
Canonical(n) == IF n <= Number[head] THEN Chain[head][n] ELSE None

\* get_block_runtime_version_for: the block was executed by its parent's.
VersionFor(b) == SpecVersion[Parent[b]]

\* asked is the hash a call is given; of one that is given a number, which does
\* not use it, the block of that number when it was made (history).
NoCall == [pc |-> "idle", n |-> None, h |-> None, v |-> None,
           how |-> "none", got |-> None, asked |-> None]
-----------------------------------------------------------------------------
(***************************************************************************)
(* The steps of a call, between its awaits.                                *)
(***************************************************************************)
Goto(t, pc, h, v) ==
  call' = [call EXCEPT ![t].pc = pc, ![t].h = h, ![t].v = v]

Done(c, how, h, runtime) ==
  [c EXCEPT !.pc = "idle", !.v = None, !.how = how, !.h = h, !.got = runtime]
Finish(t, how, h, runtime) ==
  call' = [call EXCEPT ![t] = Done(@, how, h, runtime)]

\* With a hash: the cache.
WithHash(t, c, h) ==
  LET found == Retrieve(c, None, h, None)
  IN /\ cache' = found.cache
     /\ IF found.runtime # None
        THEN Finish(t, "returned", h, found.runtime)
        ELSE Goto(t, "version", h, None)

\* With a number, which get_block_hash may find in the cache.
WithNumber(t, n) ==
  LET found == Retrieve(cache, n, None, None)
      hash  == Get(found.cache.blocks, n)
      after == [found.cache EXCEPT !.blocks = Used(@, n)]
  IN IF found.runtime # None
     THEN /\ Finish(t, "returned", hash, found.runtime)
          /\ cache' = found.cache
     ELSE IF hash # None THEN WithHash(t, after, hash)
     ELSE Goto(t, "hash", None, None) /\ cache' = found.cache

InitRuntime(t) ==
  LET n == call[t].n  h == call[t].asked
  IN IF n # None THEN WithNumber(t, n)
     ELSE IF h # None THEN WithHash(t, cache, h)
     ELSE Goto(t, "head", None, None) /\ UNCHANGED cache

\* A task calls init_runtime, and waits if the block is the start-up one.
Ask(t, n, h) ==
  /\ t \in Task /\ call[t].pc = "idle"
  /\ h \in {b \in Block : Number[b] <= Number[head]} \cup {None}
  /\ strayed' = (strayed \/ (h # None /\ ~OnChain(h)))
  /\ left.calls > 0 /\ left' = [left EXCEPT !.calls = @ - 1]
  /\ call' = [call EXCEPT ![t] = [NoCall EXCEPT
       !.n = n, !.asked = IF n = None THEN h ELSE Canonical(n),
       !.pc = IF startup.waits /\ h = startup.hash THEN "startup" ELSE "begin"]]
  /\ UNCHANGED <<head, cache, startup, lead, broken, memo, disk, answered>>

Begin(t) ==
  /\ call[t].pc = "begin"
  /\ InitRuntime(t)
  /\ UNCHANGED <<head, strayed, startup, lead, broken, memo, disk, answered, left>>

\* startup_runtime_task ends.  What it raises, every call that waits raises,
\* and only its success drops the reference to it.
StartupEnds(t) ==
  /\ call[t].pc = "startup" /\ call[Startup].pc = "idle"
  /\ IF call[Startup].how = "returned"
     THEN InitRuntime(t) /\ startup' = [startup EXCEPT !.waits = FALSE]
     ELSE /\ Finish(t, call[Startup].how, None, None)
          /\ UNCHANGED <<cache, startup>>
  /\ UNCHANGED <<head, strayed, lead, broken, memo, disk, answered, left>>

MutHashArrives(t) ==
  /\ call[t].pc = "hash"
  /\ LET n == call[t].n
         h == IF Canonical(n) = None THEN head ELSE Canonical(n)
     IN WithHash(t, AddItem(cache, None, n, h, None), h)
  /\ UNCHANGED <<head, strayed, startup, lead, broken, memo, disk, answered, left>>

\* get_block_hash: a block that does not exist yet stands for the head.  The
\* caches below answer as before, unless they have forgotten; in memory they do
\* not remember None.
HashArrives(t) ==
  /\ call[t].pc = "hash"
  /\ LET n == call[t].n
     IN \E h \in {Canonical(n)} \cup {a[2] : a \in {b \in answered : b[1] = n}} :
          LET c == AddItem(cache, None, n, h, None)
          IN /\ IF h # None THEN WithHash(t, c, h)
                ELSE Goto(t, "head", None, None) /\ cache' = c
             /\ answered' = IF h # None \/ Disk THEN answered \cup {<<n, h>>}
                            ELSE answered
  /\ UNCHANGED <<head, strayed, startup, lead, broken, memo, disk, left>>

\* get_chain_head; the hash is not looked up in the cache.
HeadArrives(t) ==
  /\ call[t].pc = "head"
  /\ Goto(t, "version", head, None)
  /\ UNCHANGED <<head, strayed, cache, startup, lead, broken, memo, disk, answered, left>>

\* The version of the block arrives, and get_runtime_for_version is called
\* unless the runtime is cached: it remembers, follows, or leads.  What it
\* calls on is itself cached and shared; here each call is answered by itself.
VersionArrives(t) ==
  /\ call[t].pc = "version"
  /\ LET h == call[t].h
         v == VersionFor(h)
         found == Retrieve(cache, None, None, v)
     IN /\ cache' = found.cache
        /\ IF found.runtime # None \/ v \in KeysOf(memo)
           THEN Finish(t, "returned", h, v) /\ UNCHANGED lead
           ELSE IF v \in broken THEN Finish(t, "cancelled", h, None) /\ UNCHANGED lead
           ELSE IF lead[v] # {} THEN Goto(t, "follow", h, v) /\ UNCHANGED lead
           ELSE Goto(t, "number", h, v) /\ lead' = [lead EXCEPT ![v] = {t}]
        /\ memo' = IF found.runtime = None THEN Used(memo, v) ELSE memo
  /\ UNCHANGED <<head, strayed, startup, broken, disk, answered, left>>

\* get_block_number and get_parent_block_hash, gathered.
NumberArrives(t) ==
  /\ call[t].pc = "number"
  /\ LET h == call[t].h
         known == h \in KeysOf(cache.reverse)
     IN cache' = IF known THEN [cache EXCEPT !.reverse = Used(@, h)]
                 ELSE AddItem(cache, None, Number[h], h, None)
  /\ Goto(t, "metadata", call[t].h, call[t].v)
  /\ UNCHANGED <<head, strayed, startup, lead, broken, memo, disk, answered, left>>

\* The others that wait for the future of a version.
Followers(t, v) ==
  {u \in Caller \ {t} : call[u].pc = "follow" /\ call[u].v = v}

\* The leader raises; its followers find their future cancelled.
Refuse(t) ==
  LET v == call[t].v
  IN /\ call' = [u \in Caller |->
                   CASE u = t -> Done(call[t], "raised", call[t].h, None)
                     [] u \in Followers(t, v) ->
                          Done(call[u], "cancelled", call[u].h, None)
                     [] OTHER -> call[u]]
     /\ lead' = [lead EXCEPT ![v] = {}]
     /\ broken' = broken \ {v}

\* The leader and its followers return the runtime.  A future that has been
\* cancelled takes no result: InvalidStateError.
Settle(t, runtime) ==
  LET v == call[t].v
  IN IF v \in broken THEN Refuse(t)
     ELSE /\ call' = [u \in Caller |->
                        IF u \in {t} \cup Followers(t, v)
                        THEN Done(call[u], "returned", call[u].h, runtime)
                        ELSE call[u]]
          /\ lead' = [lead EXCEPT ![v] = {}]
          /\ UNCHANGED broken

MutMetadataArrives(t) ==
  /\ call[t].pc = "metadata"
  /\ LET h == call[t].h  v == call[t].v
     IN /\ cache' = AddItem(cache, v, Number[h] + 1, h, v)
        /\ memo' = Put(memo, v, v, Runtimes)
        /\ Settle(t, v)
  /\ UNCHANGED <<head, strayed, startup, disk, answered, left>>

\* The metadata and the registry arrive: the runtime is made and cached.
MetadataArrives(t) ==
  /\ call[t].pc = "metadata"
  /\ LET h == call[t].h  v == call[t].v
     IN /\ cache' = AddItem(cache, v, Number[h], h, v)
        /\ memo' = Put(memo, v, v, Runtimes)
        /\ Settle(t, v)
  /\ UNCHANGED <<head, strayed, startup, disk, answered, left>>

\* A node call fails.
CallFails(t) ==
  /\ call[t].pc \in {"hash", "head", "version", "number", "metadata"}
  /\ left.faults > 0 /\ left' = [left EXCEPT !.faults = @ - 1]
  /\ IF call[t].pc \in {"number", "metadata"}
     THEN Refuse(t)
     ELSE Finish(t, "raised", call[t].h, None) /\ UNCHANGED <<lead, broken>>
  /\ UNCHANGED <<head, strayed, cache, startup, memo, disk, answered>>

\* The key of a cancelled load stays in flight.
MutPopped(v) == lead

\* The future of a cancelled load is in flight no more, but never settled.
Popped(v) == [lead EXCEPT ![v] = {}]

\* Cancelling a task that waits for the start-up task cancels that one, as
\* close() does.  The followers of a load it leads wait for ever; a future it
\* follows is cancelled for all.
CancelStartup(t) ==
  /\ t \in Task /\ call[t].pc = "startup"
  /\ left.faults > 0 /\ left' = [left EXCEPT !.faults = @ - 1]
  /\ LET s == call[Startup]
         shared == Followers(Startup, s.v)
         leads == s.pc \in {"number", "metadata"}
         follows == s.pc = "follow"
     IN /\ call' = [u \in Caller |->
              CASE \/ u = t
                   \/ u = Startup /\ s.pc # "idle"
                   \/ u \in shared /\ follows ->
                     Done(call[u], "cancelled", call[u].h, None)
                [] u # t /\ u \in shared /\ leads -> [call[u] EXCEPT !.pc = "orphan"]
                [] OTHER -> call[u]]
        /\ lead' = IF leads THEN Popped(s.v) ELSE lead
        /\ broken' = IF follows THEN broken \cup {s.v} ELSE broken
  /\ UNCHANGED <<head, strayed, cache, startup, memo, disk, answered>>
-----------------------------------------------------------------------------
(***************************************************************************)
(* The chain, and the life of the process.                                 *)
(***************************************************************************)

\* A block is added, or a longer fork replaces the end of the chain.
NewHead(b) ==
  /\ Number[b] > Number[head]
  /\ head' = b
  /\ strayed' = (strayed \/ head \notin Range(Chain[b]))
  /\ UNCHANGED <<cache, startup, call, lead, broken, memo, disk, answered, left>>

\* _initialize, after chain_getHead: the runtime of the head is loaded in a
\* task of its own.  What the disk has is there before the first call.
Initialize(at, rows) ==
  [cache |-> IF Disk /\ ~Local THEN LoadFromDisk(rows) ELSE EmptyCache,
   start |-> [hash |-> at, waits |-> TRUE],
   lead  |-> [v \in Version |-> {}],
   memo  |-> <<>>,
   call  |-> [t \in Caller |->
                [NoCall EXCEPT !.pc = IF t = Startup THEN "begin" ELSE "idle",
                               !.asked = at]]]

Init ==
  /\ head = Genesis
  /\ strayed = FALSE
  /\ disk = NoRows /\ answered = {}
  /\ left = [calls |-> Calls, faults |-> Faults, restarts |-> Restarts]
  /\ LET new == Initialize(Genesis, NoRows)
     IN /\ cache = new.cache
        /\ startup = new.start /\ lead = new.lead /\ broken = {}
        /\ memo = new.memo /\ call = new.call

\* The process ends, by close() or a crash, and another one is initialised.
Restart(closed) ==
  /\ left.restarts > 0
  /\ left' = [left EXCEPT !.restarts = @ - 1]
  /\ disk' = IF closed /\ Disk THEN DumpToDisk(disk, cache, Local) ELSE disk
  /\ answered' = IF Disk THEN answered ELSE {}
  /\ LET new == Initialize(head, disk')
     IN /\ cache' = new.cache
        /\ startup' = new.start /\ lead' = new.lead /\ broken' = {}
        /\ memo' = new.memo /\ call' = new.call
  /\ UNCHANGED <<head, strayed>>

Answer(t) ==
  \/ Begin(t) \/ StartupEnds(t) \/ HashArrives(t) \/ HeadArrives(t)
  \/ VersionArrives(t) \/ NumberArrives(t) \/ MetadataArrives(t)

Next ==
  \/ \E t \in Caller : Answer(t) \/ CallFails(t) \/ CancelStartup(t)
  \/ \E t \in Task, h \in Block \cup {None} : Ask(t, None, h)
  \/ \E t \in Task, b \in Block : Ask(t, Number[b], None)
  \/ \E b \in Block : NewHead(b)
  \/ \E closed \in BOOLEAN : Restart(closed)

\* What a call waits for can come: it neither waits for another call nor for a
\* start-up task that is still running.
Answerable(t) ==
  /\ call[t].pc \notin {"idle", "follow", "orphan"}
  /\ call[t].pc = "startup" => call[Startup].pc = "idle"

\* Weak fairness of Answer(t), enabled exactly if Answerable(t): the node
\* answers every call it does not fail.
Fairness ==
  \A t \in Caller : []<>~Answerable(t) \/ []<><<Answer(t)>>_vars

Spec == Init /\ [][Next]_vars /\ Fairness
=============================================================================
