---------------------------- MODULE RuntimeCache ----------------------------
(***************************************************************************)
(* RuntimeCache: which Runtime belongs to which block, in four LRU caches, *)
(* and the rows DiskCachedAsyncSubstrateInterface keeps of them.           *)
(*                                                                         *)
(* An LRU cache is the sequence of its pairs <<key, value>>, least recent  *)
(* first.  A Runtime is the spec version it has been loaded for.           *)
(***************************************************************************)
EXTENDS Integers, Sequences, FiniteSets, SequencesExt

CONSTANTS
  None,      \* Python's None
  Methods,   \* SUBSTRATE_CACHE_METHOD_SIZE
  Runtimes,  \* SUBSTRATE_RUNTIME_CACHE_SIZE
  Known      \* the table given to add_known_versions: pairs <<block, version>>

ASSUME CacheAssumption ==
  /\ None \notin Nat
  /\ Methods \in Nat \ {0} /\ Runtimes \in Nat \ {0}
  /\ Known \subseteq Nat \X Nat
  /\ \A a, b \in Known : a[1] = b[1] => a = b
-----------------------------------------------------------------------------
KeysOf(lru) == {lru[i][1] : i \in DOMAIN lru}
Place(lru, key) == CHOOSE i \in DOMAIN lru : lru[i][1] = key
Without(lru, key) ==
  IF key \in KeysOf(lru) THEN RemoveAt(lru, Place(lru, key)) ELSE lru

\* What get returns, and the cache it leaves behind.
Get(lru, key) ==
  IF key \in KeysOf(lru) THEN lru[Place(lru, key)][2] ELSE None

Used(lru, key) ==
  IF key \in KeysOf(lru)
  THEN Append(Without(lru, key), <<key, Get(lru, key)>>) ELSE lru

\* A cache that was loaded from disk may be larger than size: one goes.
Put(lru, key, value, size) ==
  LET all == Append(Without(lru, key), <<key, value>>)
  IN IF Len(all) > size THEN Tail(all) ELSE all
-----------------------------------------------------------------------------
EmptyCache == [blocks |-> <<>>, reverse |-> <<>>, hashes |-> <<>>,
               versions |-> <<>>, last |-> None]

\* The boundaries that are searched: all but the last.
KnownBlocks == {a \in Known : \E b \in Known : b[1] > a[1]}

\* bisect_left, which is wrong about the boundary itself.
MutKnownVersion(block) ==
  LET upto == {a \in KnownBlocks : a[1] < block}
  IN IF upto = {} THEN None
     ELSE (CHOOSE a \in upto : \A b \in upto : b[1] <= a[1])[2]

\* bisect_right over them: the version of the last boundary not after block.
KnownVersion(block) ==
  LET upto == {a \in KnownBlocks : a[1] <= block}
  IN IF upto = {} THEN None
     ELSE (CHOOSE a \in upto : \A b \in upto : b[1] <= a[1])[2]

MapBlock(c, block, hash) ==
  IF block = None \/ hash = None THEN c
  ELSE [c EXCEPT !.blocks = Put(@, block, hash, Methods),
                 !.reverse = Put(@, hash, block, Methods)]

MapVersion(c, hash, version) ==
  IF hash = None \/ version = None THEN c
  ELSE [c EXCEPT !.hashes = Put(@, hash, version, Methods)]

AddItem(c, runtime, block, hash, version) ==
  LET d == IF runtime = None THEN c
           ELSE [c EXCEPT !.last = runtime,
                          !.versions = Put(@, version, runtime, Runtimes)]
  IN MapVersion(MapBlock(d, block, hash), hash, version)

\* The version the table gives when none is asked for; a block that is only
\* known by its hash is looked up in blocks_reverse.
TableVersion(c, block, hash) ==
  LET at == IF block # None THEN block ELSE Get(c.reverse, hash)
  IN IF at = None THEN None ELSE KnownVersion(at)

FromVersions(c, version) ==
  [cache |-> [c EXCEPT !.versions = Used(@, version),
                       !.last = Get(c.versions, version)],
   runtime |-> Get(c.versions, version)]

\* retrieve by block or by hash makes what it finds last_used, None included.
ByHash(c, hash) ==
  FromVersions([c EXCEPT !.hashes = Used(@, hash)], Get(c.hashes, hash))

ByBlock(c, block) ==
  ByHash([c EXCEPT !.blocks = Used(@, block)], Get(c.blocks, block))

ByVersion(c, version) ==
  IF Get(c.versions, version) # None THEN FromVersions(c, version)
  ELSE [cache |-> c, runtime |-> None]

Retrieve(c, block, hash, asked) ==
  LET version == IF asked # None \/ KnownBlocks = {} THEN asked
                 ELSE TableVersion(c, block, hash)
      looked  == IF asked # None \/ KnownBlocks = {} \/ block # None THEN c
                 ELSE [c EXCEPT !.reverse = Used(@, hash)]
      mapped  == MapVersion(MapBlock(looked, block, hash), hash, version)
  IN CASE block # None -> ByBlock(mapped, block)
       [] block = None /\ hash # None -> ByHash(mapped, hash)
       [] OTHER -> ByVersion(c, version)
-----------------------------------------------------------------------------
(***************************************************************************)
(* The rows on disk, one set of pairs per table.                           *)
(***************************************************************************)
NoRows == [blocks |-> {}, hashes |-> {}, versions |-> {}]

\* INSERT OR REPLACE: rows of keys that are no longer cached stay.
Replace(rows, lru) ==
  {row \in rows : row[1] \notin KeysOf(lru)} \cup Range(lru)

DumpRuntimeCache(rows, c) ==
  [blocks   |-> Replace(rows.blocks, c.blocks),
   hashes   |-> Replace(rows.hashes, c.hashes),
   versions |-> Replace(rows.versions, c.versions)]

\* dump_to_disk of a cache, unless the endpoint is local.
DumpToDisk(rows, c, local) == IF local THEN rows ELSE DumpRuntimeCache(rows, c)

\* Rows are read back whatever the size of the caches.
LoadRuntimeCache(rows) ==
  [blocks   |-> SetToSeq(rows.blocks),
   hashes   |-> SetToSeq(rows.hashes),
   versions |-> SetToSeq(rows.versions)]

\* blocks_reverse is made from blocks.
LoadFromDisk(rows) ==
  LET read == LoadRuntimeCache(rows)
  IN [EmptyCache EXCEPT
        !.blocks = read.blocks, !.hashes = read.hashes, !.versions = read.versions,
        !.reverse = [i \in DOMAIN read.blocks |->
                       <<read.blocks[i][2], read.blocks[i][1]>>]]
=============================================================================
