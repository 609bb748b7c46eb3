--------------------------- MODULE CachedFetcher ---------------------------
(***************************************************************************)
(* The caches of utils/cache.py that a method of the interface sits        *)
(* behind: CachedFetcher with its LRUCache, in which calls for the same    *)
(* key share one fetch, and for the methods of the disk-cached interface   *)
(* the sqlite table of AsyncSqliteDB below it.                             *)
(*                                                                         *)
(* A key stands for a method and its arguments, such as a block number.    *)
(* The first call for a key leads: it runs the method; those that come     *)
(* while it does follow: they await its future.  The node has an answer    *)
(* for a key once it is produced; before that its answer is empty (None).  *)
(* The answer of a fetch is named by the call that made the fetch.         *)
(***************************************************************************)
EXTENDS Naturals, Sequences, FiniteSets, SequencesExt

CONSTANTS
  Call,      \* invocations of cached methods
  Key,       \* what they ask for
  Disk,      \* the keys of async_sql_lru_cache methods
  MaxSize,   \* max_size of the LRU cache
  Faults     \* how many cancellations and errors a behaviour may hold

ASSUME FetcherAssumption ==
  /\ Key # {}
  /\ Disk \subseteq Key
  /\ MaxSize \in Nat \ {0}
  /\ Faults \in Nat

VARIABLES
  pc,        \* where each call is
  key,       \* what it asked for
  source,    \* the fetch its answer comes from
  leads,     \* the call whose future it awaits
  inflight,  \* self._inflight: who fetches each key, if anyone
  future,    \* the future of each call that leads
  cache,     \* LRUCache.cache, least recently used first
  disk,      \* the row of each key: the fetch whose answer it holds
  produced,  \* keys the node has a real answer for
  empty,     \* fetches whose answer was empty
  fresh,     \* history: calls made once their key was produced, no fetch on
  recent,    \* history: keys by last use of the cache, latest last
  faults     \* what is left of Faults

clientVars == <<pc, key, source, leads, inflight, future, cache, recent>>
vars == <<clientVars, disk, produced, empty, fresh, faults>>

Leading == {"lookup", "asking", "storing"}
Broken == {"raised", "cancelled", "dropped", "invalid", "killed"}
Entry == [key : Key, by : Call]

TypeOK ==
  /\ pc \in [Call -> {"idle", "waiting", "value"} \cup Leading \cup Broken]
  /\ key \in [Call -> Key]
  /\ source \in [Call -> Call]
  /\ leads \in [Call -> Call]
  /\ inflight \in [Key -> SUBSET Call]
  /\ future \in [Call -> {"none", "pending", "set", "cancelled"}]
  /\ cache \in Seq(Entry) /\ Len(cache) <= MaxSize
  /\ disk \in [Key -> SUBSET Call]
  /\ produced \in SUBSET Key
  /\ empty \in SUBSET Call
  /\ fresh \in SUBSET Call
  /\ recent \in Seq(Key)
  /\ faults \in Nat

Init ==
  /\ pc = [c \in Call |-> "idle"]
  /\ key = [c \in Call |-> CHOOSE k \in Key : TRUE]
  /\ source = [c \in Call |-> c]
  /\ leads = [c \in Call |-> c]
  /\ inflight = [k \in Key |-> {}]
  /\ future = [c \in Call |-> "none"]
  /\ cache = <<>>
  /\ disk = [k \in Key |-> {}]
  /\ produced = {}
  /\ empty = {}
  /\ fresh = {}
  /\ recent = <<>>
  /\ faults = Faults

Goto(c, place) == pc' = [pc EXCEPT ![c] = place]
Spend == faults > 0 /\ faults' = faults - 1
-----------------------------------------------------------------------------
(***************************************************************************)
(* LRUCache.                                                               *)
(***************************************************************************)

Cached(k) == {e \in Entry : \E n \in DOMAIN cache : cache[n] = e /\ e.key = k}

\* A get leaves the order alone.
MutMoveToEnd(entries, e) == entries

Places(entries, k) == {m \in DOMAIN entries : entries[m].key = k}
Without(seq, places) ==
  IF places = {} THEN seq ELSE RemoveAt(seq, CHOOSE m \in places : TRUE)

MoveToEnd(entries, e) == Append(Without(entries, Places(entries, e.key)), e)

\* Eviction comes one entry late.
MutInsert(e) ==
  LET entries == Append(Without(cache, Places(cache, e.key)), e)
  IN cache' = IF Len(entries) > MaxSize + 1 THEN Tail(entries) ELSE entries

\* set, with the eviction of the least recently used.
Insert(e) ==
  LET entries == Append(Without(cache, Places(cache, e.key)), e)
  IN cache' = IF Len(entries) > MaxSize THEN Tail(entries) ELSE entries

Used(k) ==
  recent' = Append(Without(recent, {m \in DOMAIN recent : recent[m] = k}), k)
-----------------------------------------------------------------------------
(***************************************************************************)
(* CachedFetcher.__call__.                                                 *)
(***************************************************************************)

\* An empty answer counts.
MutHits(k) == {e.by : e \in Cached(k)}

\* Answers that are served from the cache: an empty one is not.
Hits(k) == {e.by : e \in Cached(k)} \ empty

\* Nobody follows.
MutUnderway(k) == {}
Underway(k) == inflight[k]

\* Up to the first await.
Enter(c, k) ==
  /\ pc[c] = "idle"
  /\ key' = [key EXCEPT ![c] = k]
  /\ IF Cached(k) = {} THEN UNCHANGED <<cache, recent>>
     ELSE /\ \E e \in Cached(k) : cache' = MoveToEnd(cache, e)
          /\ Used(k)
  /\ \/ /\ Hits(k) # {}
        /\ \E l \in Hits(k) : source' = [source EXCEPT ![c] = l]
        /\ Goto(c, "value")
        /\ UNCHANGED <<leads, inflight, future>>
     \/ /\ Hits(k) = {}
        /\ \E l \in Underway(k) :
             /\ leads' = [leads EXCEPT ![c] = l]
             /\ Goto(c, IF future[l] = "cancelled" THEN "dropped" ELSE "waiting")
        /\ UNCHANGED <<source, inflight, future>>
     \/ /\ Hits(k) = {} /\ Underway(k) = {}
        /\ inflight' = [inflight EXCEPT ![k] = {c}]
        /\ future' = [future EXCEPT ![c] = "pending"]
        /\ Goto(c, IF k \in Disk THEN "lookup" ELSE "asking")
        /\ UNCHANGED <<source, leads>>
  /\ fresh' = IF k \in produced /\ Underway(k) = {} THEN fresh \cup {c} ELSE fresh
  /\ UNCHANGED <<disk, produced, empty, faults>>

\* The finally of a call that leads.
StepDown(c) == inflight' = [inflight EXCEPT ![key[c]] = {}]

\* The method returned the answer of fetch l.  The result is in the cache
\* even when set_result then raises, because a follower's cancellation has
\* cancelled the future.
Land(c, l) ==
  /\ Insert([key |-> key[c], by |-> l])
  /\ Used(key[c])
  /\ source' = [source EXCEPT ![c] = l]
  /\ IF future[c] = "cancelled"
       THEN Goto(c, "invalid") /\ UNCHANGED future
       ELSE Goto(c, "value") /\ future' = [future EXCEPT ![c] = "set"]
  /\ StepDown(c)
  /\ UNCHANGED <<key, leads>>

\* The row of the key, if there is one; sqlite errors count as a miss.
LookUp(c) ==
  /\ pc[c] = "lookup"
  /\ \/ \E l \in disk[key[c]] : Land(c, l)
     \/ Goto(c, "asking")
        /\ UNCHANGED <<key, source, leads, inflight, future, cache, recent>>
  /\ UNCHANGED <<disk, produced, empty, fresh, faults>>

\* The node answers: with what it knew at some moment since the call began.
Answer(c) ==
  LET k == key[c] IN
  /\ pc[c] = "asking"
  /\ \/ k \in produced /\ UNCHANGED empty
     \/ ~(c \in fresh) /\ empty' = empty \cup {c}
  /\ IF k \in Disk
       THEN /\ disk' = [disk EXCEPT ![k] = {c}]
            /\ Goto(c, "storing")
            /\ UNCHANGED <<key, source, leads, inflight, future, cache, recent>>
       ELSE Land(c, c) /\ UNCHANGED disk
  /\ UNCHANGED <<produced, fresh, faults>>

\* The row is written and committed.
Store(c) ==
  /\ pc[c] = "storing"
  /\ Land(c, c)
  /\ UNCHANGED <<disk, produced, empty, fresh, faults>>

\* The followers get an answer there is none of; or are left to wait.
MutFail(c) == future' = [future EXCEPT ![c] = "set"]
MutFailSilently(c) == UNCHANGED future
Fail(c) ==
  future' = [future EXCEPT ![c] = IF @ = "pending" THEN "cancelled" ELSE @]

\* The method, or the database below it, raises.
Raise(c) ==
  /\ pc[c] \in Leading
  /\ Spend
  /\ Fail(c)
  /\ StepDown(c)
  /\ Goto(c, "raised")
  /\ UNCHANGED <<key, source, leads, cache, recent, disk, produced, empty, fresh>>

\* A follower whose future is done.
Wake(c) ==
  /\ pc[c] = "waiting"
  /\ \/ /\ future[leads[c]] = "set"
        /\ source' = [source EXCEPT ![c] = source[leads[c]]]
        /\ Goto(c, "value")
     \/ /\ future[leads[c]] = "cancelled"
        /\ Goto(c, "dropped")
        /\ UNCHANGED source
  /\ UNCHANGED <<key, leads, inflight, future, cache, recent, disk, produced,
                 empty, fresh, faults>>

\* The task of a call is cancelled, or a CancelledError reaches a call that
\* leads from a fetch it follows itself.  CancelledError is no Exception, so
\* the future of a call that leads stays pending; a follower's cancellation
\* cancels the future it awaits.
Cancel(c) ==
  /\ Spend
  /\ \/ pc[c] \in Leading /\ StepDown(c) /\ UNCHANGED future
     \/ pc[c] = "waiting" /\ UNCHANGED inflight
        /\ future' = [future EXCEPT ![leads[c]] =
                        IF @ = "pending" THEN "cancelled" ELSE @]
  /\ Goto(c, "cancelled")
  /\ UNCHANGED <<key, source, leads, cache, recent, disk, produced, empty, fresh>>

Produce(k) ==
  /\ k \notin produced
  /\ produced' = produced \cup {k}
  /\ UNCHANGED <<clientVars, disk, empty, fresh, faults>>

\* The process ends and another begins with what is on disk.
Restart ==
  /\ Spend
  /\ pc' = [c \in Call |-> IF pc[c] \in Leading \cup {"waiting"} THEN "killed"
                                                                ELSE pc[c]]
  /\ inflight' = [k \in Key |-> {}]
  /\ cache' = <<>>
  /\ recent' = <<>>
  /\ UNCHANGED <<key, source, leads, future, disk, produced, empty, fresh>>
-----------------------------------------------------------------------------
Next ==
  \/ \E c \in Call :
       \/ \E k \in Key : Enter(c, k)
       \/ LookUp(c) \/ Answer(c) \/ Store(c) \/ Raise(c) \/ Wake(c) \/ Cancel(c)
  \/ \E k \in Key : Produce(k)
  \/ Restart

Spec == Init /\ [][Next]_vars
=============================================================================
