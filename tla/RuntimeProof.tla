---------------------------- MODULE RuntimeProof ----------------------------
(***************************************************************************)
(* Which runtime a block is given and what the caches hold of it, for any  *)
(* chain, forks, tables of known versions, cache sizes and restarts.       *)
(***************************************************************************)
EXTENDS RuntimeProperties, Induction, FiniteSetTheorems, SequenceTheorems

(***************************************************************************)
(* An LRU cache is a sequence of pairs; no two have the same key.          *)
(***************************************************************************)
Distinct(lru) == \A i, j \in DOMAIN lru : lru[i][1] = lru[j][1] => i = j

LEMMA PlaceOf ==
  ASSUME NEW S, NEW s \in Seq(S), NEW key \in KeysOf(s)
  PROVE  Place(s, key) \in 1..Len(s) /\ s[Place(s, key)][1] = key
<1>1. \E i \in DOMAIN s : s[i][1] = key BY DEF KeysOf
<1> QED BY <1>1 DEF Place

LEMMA WithoutOf ==
  ASSUME NEW S, NEW s \in Seq(S), NEW key \in KeysOf(s)
  PROVE  LET p == Place(s, key)  w == Without(s, key)
         IN /\ w \in Seq(S) /\ Len(w) = Len(s) - 1
            /\ \A i \in 1..Len(w) : w[i] = IF i < p THEN s[i] ELSE s[i + 1]
<1> DEFINE p == Place(s, key)
<1>1. p \in 1..Len(s) /\ Len(s) \in Nat BY PlaceOf, LenProperties
<1>2. \A i \in 1..Len(s) : s[i] \in S BY ElementOfSeq
<1> HIDE DEF p
<1> DEFINE a == SubSeq(s, 1, p - 1)  b == SubSeq(s, p + 1, Len(s))
<1>3. /\ a \in Seq(S) /\ Len(a) = p - 1
      /\ \A i \in 1..(p - 1) - 1 + 1 : a[i] = s[1 + i - 1]
  BY <1>1, <1>2, SubSeqProperties
<1>4. /\ b \in Seq(S) /\ Len(b) = Len(s) - p
      /\ \A i \in 1..Len(s) - (p + 1) + 1 : b[i] = s[(p + 1) + i - 1]
  BY <1>1, <1>2, SubSeqProperties
<1> HIDE DEF a, b
<1>5. /\ a \o b \in Seq(S) /\ Len(a \o b) = Len(a) + Len(b)
      /\ \A i \in 1..Len(a) + Len(b) :
           (a \o b)[i] = IF i <= Len(a) THEN a[i] ELSE b[i - Len(a)]
  BY <1>3, <1>4, ConcatProperties
<1>6. Without(s, key) = a \o b BY DEF Without, RemoveAt, a, b, p
<1>7. ASSUME NEW i \in 1..Len(s) - 1
      PROVE  (a \o b)[i] = IF i < p THEN s[i] ELSE s[i + 1]
  <2>1. CASE i < p BY <1>1, <1>3, <1>4, <1>5, <2>1
  <2>2. CASE ~(i < p)
    <3>1. (a \o b)[i] = b[i - (p - 1)] BY <1>1, <1>3, <1>4, <1>5, <2>2
    <3>2. i - (p - 1) \in 1..Len(s) - (p + 1) + 1 BY <1>1, <2>2
    <3>3. (p + 1) + (i - (p - 1)) - 1 = i + 1 BY <1>1
    <3>4. (a \o b)[i] = s[i + 1] BY <1>4, <3>1, <3>2, <3>3
    <3> QED BY <2>2, <3>4
  <2> QED BY <2>1, <2>2
<1>8. Len(a \o b) = Len(s) - 1 BY <1>1, <1>3, <1>4, <1>5
<1> QED BY <1>5, <1>6, <1>7, <1>8 DEF p

LEMMA GetPair ==
  ASSUME NEW S, \A e \in S : e = <<e[1], e[2]>>, NEW s \in Seq(S), NEW key
  PROVE  /\ Get(s, key) = None \/ <<key, Get(s, key)>> \in S
         /\ key \in KeysOf(s) => <<key, Get(s, key)>> \in S
<1>1. ASSUME key \in KeysOf(s) PROVE <<key, Get(s, key)>> \in S
  <2>1. s[Place(s, key)] \in S /\ s[Place(s, key)][1] = key
    BY <1>1, PlaceOf, ElementOfSeq
  <2>2. Get(s, key) = s[Place(s, key)][2] BY <1>1 DEF Get
  <2> QED BY <2>1, <2>2
<1>2. key \notin KeysOf(s) => Get(s, key) = None BY DEF Get
<1> QED BY <1>1, <1>2

\* What an LRU cache gives back, and keeps, are pairs that were put into it.
LEMMA Pairs ==
  ASSUME NEW A, NEW B, NEW S \in SUBSET (A \X B), NEW s \in Seq(S), NEW key
  PROVE  /\ key \in KeysOf(s) => <<key, Get(s, key)>> \in S
         /\ Without(s, key) \in Seq(S) /\ Used(s, key) \in Seq(S)
         /\ \A value, size : size \in Nat \ {0} /\ <<key, value>> \in S
                               => Put(s, key, value, size) \in Seq(S)
<1>1. \A e \in S : e = <<e[1], e[2]>> OBVIOUS
<1>2. key \in KeysOf(s) => <<key, Get(s, key)>> \in S BY <1>1, GetPair
<1>3. Without(s, key) \in Seq(S)
  BY WithoutOf DEF Without
<1>4. Used(s, key) \in Seq(S) BY <1>2, <1>3, AppendProperties DEF Used
<1>5. ASSUME NEW value, NEW size, size \in Nat \ {0}, <<key, value>> \in S
      PROVE  Put(s, key, value, size) \in Seq(S)
  <2> DEFINE all == Append(Without(s, key), <<key, value>>)
  <2>1. all \in Seq(S) /\ all # <<>> BY <1>3, <1>5, AppendProperties
  <2>2. Tail(all) \in Seq(S) BY <2>1, HeadTailProperties
  <2> QED BY <2>1, <2>2 DEF Put
<1> QED BY <1>2, <1>3, <1>4, <1>5

LEMMA WithoutKeys ==
  ASSUME NEW S, NEW s \in Seq(S), Distinct(s), NEW key
  PROVE  Distinct(Without(s, key)) /\ key \notin KeysOf(Without(s, key))
<1>1. CASE key \notin KeysOf(s) BY <1>1 DEF Without
<1>2. CASE key \in KeysOf(s)
  <2> DEFINE p == Place(s, key)  w == Without(s, key)
             from(i) == IF i < p THEN i ELSE i + 1
  <2>1. /\ w \in Seq(S) /\ Len(w) = Len(s) - 1
        /\ \A i \in 1..Len(w) : w[i] = IF i < p THEN s[i] ELSE s[i + 1]
    BY <1>2, WithoutOf
  <2>2. p \in 1..Len(s) /\ s[p][1] = key BY <1>2, PlaceOf
  <2>3. DOMAIN s = 1..Len(s) /\ DOMAIN w = 1..Len(w) /\ Len(s) \in Nat
    BY <2>1, LenProperties
  <2> HIDE DEF p, w
  <2>4. \A i \in 1..Len(w) : w[i] = s[from(i)] /\ from(i) \in 1..Len(s) /\ from(i) # p
    BY <2>1, <2>2, <2>3
  <2>5. \A i, j \in 1..Len(w) : from(i) = from(j) => i = j BY <2>1, <2>2, <2>3
  <2> HIDE DEF from
  <2>6. Distinct(w) BY <2>3, <2>4, <2>5 DEF Distinct
  <2>7. key \notin KeysOf(w) BY <2>2, <2>3, <2>4 DEF Distinct, KeysOf
  <2> QED BY <2>6, <2>7 DEF w
<1> QED BY <1>1, <1>2

\* A pair put in is the one its key has from then on.
LEMMA AppendKeys ==
  ASSUME NEW S, NEW s \in Seq(S), Distinct(s), NEW key, key \notin KeysOf(s),
         NEW value, <<key, value>> \in S
  PROVE  LET all == Append(s, <<key, value>>)
         IN Distinct(all) /\ Get(all, key) = value /\ Distinct(Tail(all))
<1> DEFINE all == Append(s, <<key, value>>)
<1>1. /\ all \in Seq(S) /\ Len(all) = Len(s) + 1 /\ all # <<>>
      /\ \A i \in 1..Len(s) : all[i] = s[i] /\ all[Len(s) + 1] = <<key, value>>
      /\ all[Len(s) + 1] = <<key, value>>
  BY AppendProperties
<1>2. DOMAIN s = 1..Len(s) /\ DOMAIN all = 1..Len(s) + 1 /\ Len(s) \in Nat
  BY <1>1, LenProperties
<1> HIDE DEF all
<1>3. \A i \in 1..Len(s) : s[i][1] # key BY <1>2 DEF KeysOf
<1>4. Distinct(all)
  <2> SUFFICES ASSUME NEW i \in 1..Len(s) + 1, NEW j \in 1..Len(s) + 1,
                      all[i][1] = all[j][1]
               PROVE  i = j
    BY <1>2 DEF Distinct
  <2>1. CASE i = Len(s) + 1 BY <1>1, <1>2, <1>3, <2>1
  <2>2. CASE j = Len(s) + 1 BY <1>1, <1>2, <1>3, <2>2
  <2>3. CASE i \in 1..Len(s) /\ j \in 1..Len(s) BY <1>1, <1>2, <2>3 DEF Distinct
  <2> QED BY <1>2, <2>1, <2>2, <2>3
<1>5. Get(all, key) = value
  <2>1. Len(s) + 1 \in DOMAIN all /\ all[Len(s) + 1][1] = key BY <1>1, <1>2
  <2>2. key \in KeysOf(all) BY <2>1 DEF KeysOf
  <2>3. Place(all, key) \in 1..Len(all) /\ all[Place(all, key)][1] = key
    BY <1>1, <2>2, PlaceOf
  <2>4. Place(all, key) = Len(s) + 1 BY <1>1, <1>2, <1>4, <2>1, <2>3 DEF Distinct
  <2> QED BY <1>1, <2>2, <2>4 DEF Get
<1>6. Distinct(Tail(all))
  <2>1. /\ Tail(all) \in Seq(S) /\ Len(Tail(all)) = Len(s)
        /\ \A i \in 1..Len(Tail(all)) : Tail(all)[i] = all[i + 1]
    BY <1>1, <1>2, HeadTailProperties
  <2>2. DOMAIN Tail(all) = 1..Len(s) BY <2>1, LenProperties
  <2>3. ASSUME NEW i \in 1..Len(s), NEW j \in 1..Len(s),
               Tail(all)[i][1] = Tail(all)[j][1]
        PROVE  i = j
    <3>1. i + 1 \in DOMAIN all /\ j + 1 \in DOMAIN all BY <1>2
    <3>2. i + 1 = j + 1 BY <1>4, <2>1, <2>3, <3>1 DEF Distinct
    <3> QED BY <3>2
  <2> QED BY <2>2, <2>3 DEF Distinct
<1> QED BY <1>4, <1>5, <1>6 DEF all

LEMMA Keys ==
  ASSUME NEW A, NEW B, NEW S \in SUBSET (A \X B), NEW s \in Seq(S), Distinct(s), NEW key
  PROVE  /\ Distinct(Used(s, key))
         /\ \A value, size : <<key, value>> \in S => Distinct(Put(s, key, value, size))
<1>1. /\ Without(s, key) \in Seq(S) /\ Distinct(Without(s, key))
      /\ key \notin KeysOf(Without(s, key))
  BY Pairs, WithoutKeys
<1>2. key \in KeysOf(s) => <<key, Get(s, key)>> \in S BY Pairs
<1>3. Distinct(Used(s, key))
  <2>1. CASE key \in KeysOf(s) BY <1>1, <1>2, <2>1, AppendKeys DEF Used
  <2>2. CASE key \notin KeysOf(s) BY <2>2 DEF Used
  <2> QED BY <2>1, <2>2
<1>4. ASSUME NEW value, NEW size, <<key, value>> \in S
      PROVE  Distinct(Put(s, key, value, size))
  BY <1>1, <1>4, AppendKeys DEF Put
<1> QED BY <1>3, <1>4
LEMMA UsedGet ==
  ASSUME NEW S, \A e \in S : e = <<e[1], e[2]>>, NEW s \in Seq(S), Distinct(s), NEW key
  PROVE  Get(Used(s, key), key) = Get(s, key)
<1>1. CASE key \notin KeysOf(s) BY <1>1 DEF Used
<1>2. CASE key \in KeysOf(s)
  <2>1. Without(s, key) \in Seq(S) BY <1>2, WithoutOf
  <2>2. <<key, Get(s, key)>> \in S BY <1>2, GetPair
  <2>3. Distinct(Without(s, key)) /\ key \notin KeysOf(Without(s, key)) BY WithoutKeys
  <2> QED BY <1>2, <2>1, <2>2, <2>3, AppendKeys DEF Used
<1> QED BY <1>1, <1>2
-----------------------------------------------------------------------------
(***************************************************************************)
(* What each table of the cache may hold, when F are the blocks the node   *)
(* may have named.                                                         *)
(***************************************************************************)
AnyVersion == Version \cup {None} \cup {KnownVersion(n) : n \in Nat}

BlockRows(F) == {e \in Nat \X F : Number[e[2]] = e[1]}
HashRows == {e \in Block \X Nat : Number[e[1]] = e[2]}
VersionRows ==
  {e \in Block \X AnyVersion : Misattributed(e[1]) \/ IsRuntimeOf(e[2], e[1])}
RuntimeRows == {e \in Version \X Version : e[1] = e[2]}

Blocks(F) == {s \in Seq(BlockRows(F)) : Distinct(s)}

Caches(F) ==
  [blocks : Blocks(F), reverse : Seq(HashRows), hashes : Seq(VersionRows),
   versions : Seq(RuntimeRows), last : Version \cup {None}]

\* The fields, one at a time.
LEMMA CacheFields ==
  ASSUME NEW F, NEW c \in Caches(F)
  PROVE  /\ c.blocks \in Blocks(F) /\ c.reverse \in Seq(HashRows)
         /\ c.hashes \in Seq(VersionRows) /\ c.versions \in Seq(RuntimeRows)
         /\ \A s \in Blocks(F) : [c EXCEPT !.blocks = s] \in Caches(F)
         /\ \A s \in Seq(HashRows) : [c EXCEPT !.reverse = s] \in Caches(F)
         /\ \A s \in Seq(VersionRows) : [c EXCEPT !.hashes = s] \in Caches(F)
         /\ \A s \in Seq(RuntimeRows) : [c EXCEPT !.versions = s] \in Caches(F)
         /\ \A v \in Version \cup {None} : [c EXCEPT !.last = v] \in Caches(F)
BY DEF Caches

LEMMA Used4 ==
  ASSUME NEW F, NEW c \in Caches(F), NEW key
  PROVE  /\ Used(c.blocks, key) \in Blocks(F) /\ Used(c.reverse, key) \in Seq(HashRows)
         /\ Used(c.hashes, key) \in Seq(VersionRows)
         /\ Used(c.versions, key) \in Seq(RuntimeRows)
<1>1. /\ BlockRows(F) \in SUBSET (Nat \X F) /\ HashRows \in SUBSET (Block \X Nat)
      /\ VersionRows \in SUBSET (Block \X AnyVersion)
      /\ RuntimeRows \in SUBSET (Version \X Version)
  BY DEF BlockRows, HashRows, VersionRows, RuntimeRows
<1>2. c.blocks \in Seq(BlockRows(F)) /\ Distinct(c.blocks)
  BY CacheFields DEF Blocks
<1>3. Used(c.blocks, key) \in Seq(BlockRows(F)) /\ Distinct(Used(c.blocks, key))
  BY <1>1, <1>2, Pairs, Keys
<1>4. Used(c.reverse, key) \in Seq(HashRows) BY <1>1, CacheFields, Pairs
<1>5. Used(c.hashes, key) \in Seq(VersionRows) BY <1>1, CacheFields, Pairs
<1>6. Used(c.versions, key) \in Seq(RuntimeRows) BY <1>1, CacheFields, Pairs
<1> QED BY <1>3, <1>4, <1>5, <1>6 DEF Blocks

LEMMA Get4 ==
  ASSUME NEW F, NEW c \in Caches(F), NEW key
  PROVE  /\ Get(c.blocks, key) = None \/ <<key, Get(c.blocks, key)>> \in BlockRows(F)
         /\ Get(c.reverse, key) = None \/ <<key, Get(c.reverse, key)>> \in HashRows
         /\ Get(c.hashes, key) = None \/ <<key, Get(c.hashes, key)>> \in VersionRows
         /\ Get(c.versions, key) = None \/ <<key, Get(c.versions, key)>> \in RuntimeRows
         /\ key \in KeysOf(c.reverse) => <<key, Get(c.reverse, key)>> \in HashRows
<1>1. /\ \A e \in BlockRows(F) : e = <<e[1], e[2]>>
      /\ \A e \in HashRows : e = <<e[1], e[2]>>
      /\ \A e \in VersionRows : e = <<e[1], e[2]>>
      /\ \A e \in RuntimeRows : e = <<e[1], e[2]>>
  BY DEF BlockRows, HashRows, VersionRows, RuntimeRows
<1>2. c.blocks \in Seq(BlockRows(F)) BY CacheFields DEF Blocks
<1>3. Get(c.blocks, key) = None \/ <<key, Get(c.blocks, key)>> \in BlockRows(F)
  BY <1>1, <1>2, GetPair
<1>4. /\ Get(c.reverse, key) = None \/ <<key, Get(c.reverse, key)>> \in HashRows
      /\ key \in KeysOf(c.reverse) => <<key, Get(c.reverse, key)>> \in HashRows
  BY <1>1, CacheFields, GetPair
<1>5. Get(c.hashes, key) = None \/ <<key, Get(c.hashes, key)>> \in VersionRows
  BY <1>1, CacheFields, GetPair
<1>6. Get(c.versions, key) = None \/ <<key, Get(c.versions, key)>> \in RuntimeRows
  BY <1>1, CacheFields, GetPair
<1> QED BY <1>3, <1>4, <1>5, <1>6

\* add_item with entries that belong in the tables.
LEMMA MapBlockKeeps ==
  ASSUME NEW F, F \subseteq Block, NEW c \in Caches(F), NEW block, NEW hash,
         block = None \/ hash = None \/ <<block, hash>> \in BlockRows(F)
  PROVE  MapBlock(c, block, hash) \in Caches(F)
<1>1. CASE block = None \/ hash = None BY <1>1 DEF MapBlock
<1>2. CASE block # None /\ hash # None
  <2> DEFINE blocks == Put(c.blocks, block, hash, Methods)
             reverse == Put(c.reverse, hash, block, Methods)
             d == [c EXCEPT !.blocks = blocks]
  <2>1. <<block, hash>> \in BlockRows(F) /\ <<hash, block>> \in HashRows
    BY <1>2 DEF BlockRows, HashRows
  <2>2. /\ BlockRows(F) \in SUBSET (Nat \X F) /\ HashRows \in SUBSET (Block \X Nat)
        /\ Methods \in Nat \ {0}
    BY CacheAssumption DEF BlockRows, HashRows
  <2>3. c.blocks \in Seq(BlockRows(F)) /\ Distinct(c.blocks)
    BY CacheFields DEF Blocks
  <2>4. blocks \in Seq(BlockRows(F)) /\ Distinct(blocks)
    BY <2>1, <2>2, <2>3, Pairs, Keys
  <2>5. reverse \in Seq(HashRows) BY <2>1, <2>2, CacheFields, Pairs
  <2>6. MapBlock(c, block, hash) = [c EXCEPT !.blocks = blocks, !.reverse = reverse]
    BY <1>2 DEF MapBlock
  <2> HIDE DEF blocks, reverse
  <2>7. d \in Caches(F) BY <2>4, CacheFields DEF Blocks
  <2>8. [d EXCEPT !.reverse = reverse] \in Caches(F)
    <3> HIDE DEF d
    <3> QED BY <2>5, <2>7, CacheFields
  <2> QED BY <2>6, <2>8
<1> QED BY <1>1, <1>2

LEMMA MapVersionKeeps ==
  ASSUME NEW F, NEW c \in Caches(F), NEW hash, NEW version,
         hash = None \/ version = None \/ <<hash, version>> \in VersionRows
  PROVE  MapVersion(c, hash, version) \in Caches(F)
<1>1. CASE hash = None \/ version = None BY <1>1 DEF MapVersion
<1>2. CASE hash # None /\ version # None
  <2> DEFINE hashes == Put(c.hashes, hash, version, Methods)
  <2>1. VersionRows \in SUBSET (Block \X AnyVersion) /\ Methods \in Nat \ {0}
    BY CacheAssumption DEF VersionRows
  <2>2. hashes \in Seq(VersionRows) BY <1>2, <2>1, CacheFields, Pairs
  <2>3. MapVersion(c, hash, version) = [c EXCEPT !.hashes = hashes]
    BY <1>2 DEF MapVersion
  <2> HIDE DEF hashes
  <2> QED BY <2>2, <2>3, CacheFields
<1> QED BY <1>1, <1>2

LEMMA AddItemKeeps ==
  ASSUME NEW F, F \subseteq Block, NEW c \in Caches(F),
         NEW runtime, NEW block, NEW hash, NEW version,
         runtime = None \/ <<version, runtime>> \in RuntimeRows,
         block = None \/ hash = None \/ <<block, hash>> \in BlockRows(F),
         hash = None \/ version = None \/ <<hash, version>> \in VersionRows
  PROVE  AddItem(c, runtime, block, hash, version) \in Caches(F)
<1> DEFINE versions == Put(c.versions, version, runtime, Runtimes)
           last == [c EXCEPT !.last = runtime]
           d == IF runtime = None THEN c ELSE [last EXCEPT !.versions = versions]
<1>1. d \in Caches(F)
  <2>1. CASE runtime = None BY <2>1
  <2>2. CASE runtime # None
    <3>1. RuntimeRows \in SUBSET (Version \X Version) /\ Runtimes \in Nat \ {0}
      BY CacheAssumption DEF RuntimeRows
    <3>2. runtime \in Version /\ versions \in Seq(RuntimeRows)
      BY <2>2, <3>1, CacheFields, Pairs DEF RuntimeRows
    <3> HIDE DEF versions
    <3>3. last \in Caches(F) BY <3>2, CacheFields
    <3>4. [last EXCEPT !.versions = versions] \in Caches(F)
      <4> HIDE DEF last
      <4> QED BY <3>2, <3>3, CacheFields
    <3> QED BY <2>2, <3>4
  <2> QED BY <2>1, <2>2
<1>2. AddItem(c, runtime, block, hash, version)
        = MapVersion(MapBlock(d, block, hash), hash, version)
  BY DEF AddItem
<1> HIDE DEF d
<1> QED BY <1>1, <1>2, MapBlockKeeps, MapVersionKeeps

\* What is found for a version, and for a hash.
LEMMA VersionFound ==
  ASSUME NEW F, NEW c \in Caches(F), NEW version
  PROVE  LET found == FromVersions(c, version)
         IN /\ found.cache \in Caches(F) /\ found.cache.blocks = c.blocks
            /\ found.runtime \in Version \cup {None}
            /\ found.runtime # None => found.runtime = version
<1> DEFINE versions == Used(c.versions, version)
           runtime == Get(c.versions, version)
           d == [c EXCEPT !.versions = versions]
           e == [d EXCEPT !.last = runtime]
<1>1. /\ runtime \in Version \cup {None} /\ (runtime # None => runtime = version)
      /\ versions \in Seq(RuntimeRows)
  BY Get4, Used4 DEF RuntimeRows
<1> HIDE DEF versions, runtime
<1>2. d \in Caches(F) /\ d.blocks = c.blocks BY <1>1, CacheFields DEF Caches
<1>3. e \in Caches(F) /\ e.blocks = c.blocks
  <2> HIDE DEF d
  <2> QED BY <1>1, <1>2, CacheFields DEF Caches
<1>4. FromVersions(c, version) = [cache |-> e, runtime |-> runtime]
  BY DEF FromVersions, versions, runtime
<1> HIDE DEF e
<1> QED BY <1>1, <1>3, <1>4

LEMMA HashFound ==
  ASSUME NEW F, NEW c \in Caches(F), NEW hash
  PROVE  LET found == ByHash(c, hash)
         IN /\ found.cache \in Caches(F) /\ found.cache.blocks = c.blocks
            /\ found.runtime \in Version \cup {None}
            /\ found.runtime # None => <<hash, found.runtime>> \in VersionRows
<1> DEFINE hashes == Used(c.hashes, hash)
           version == Get(c.hashes, hash)
           d == [c EXCEPT !.hashes = hashes]
<1>1. hashes \in Seq(VersionRows) /\ (version = None \/ <<hash, version>> \in VersionRows)
  BY Get4, Used4
<1> HIDE DEF hashes, version
<1>2. d \in Caches(F) /\ d.blocks = c.blocks BY <1>1, CacheFields DEF Caches
<1>3. ByHash(c, hash) = FromVersions(d, version) BY DEF ByHash, hashes, version
<1> HIDE DEF d
<1> QED BY <1>1, <1>2, <1>3, VersionFound

\* The bisection finds the boundary in force, if the table goes on after it.
LEMMA Bisection ==
  ASSUME NEW h \in Block, ~Misattributed(h), KnownVersion(Number[h]) # None
  PROVE  KnownVersion(Number[h]) = SpecVersion[Parent[h]]
<1> DEFINE n == Number[h]
           upto == {a \in KnownBlocks : a[1] <= n}
           S == {m \in Nat : m <= n => \A a \in upto : a[1] >= n - m
                               => \E c \in upto : \A b \in upto : b[1] <= c[1]}
<1>1. n \in Nat /\ \A a \in Known : a[1] \in Nat
  BY ChainAssumption, CacheAssumption
<1>2. upto # {}
        /\ KnownVersion(n) = (CHOOSE a \in upto : \A b \in upto : b[1] <= a[1])[2]
  BY DEF KnownVersion
<1>3. upto \subseteq Known /\ \A a \in upto : a[1] \in Nat /\ a[1] <= n
  BY <1>1 DEF KnownBlocks
<1> HIDE DEF upto, n
<1>4. 0 \in S BY <1>1, <1>3
<1>5. ASSUME NEW m \in Nat, m \in S PROVE m + 1 \in S
  <2> SUFFICES ASSUME m + 1 <= n, NEW a \in upto, a[1] >= n - (m + 1)
               PROVE  \E c \in upto : \A b \in upto : b[1] <= c[1]
    OBVIOUS
  <2>1. CASE \E b \in upto : b[1] > a[1]
    <3>1. PICK b \in upto : b[1] > a[1] BY <2>1
    <3>2. b[1] >= n - m BY <1>1, <1>3, <3>1
    <3> QED BY <1>1, <1>5, <3>2
  <2>2. CASE ~\E b \in upto : b[1] > a[1] BY <1>3, <2>2
  <2> QED BY <2>1, <2>2
<1> HIDE DEF S
<1>6. n \in S BY <1>1, <1>4, <1>5, NatSet
<1>7. \E c \in upto : \A b \in upto : b[1] <= c[1]
  <2>1. PICK a \in upto : TRUE BY <1>2
  <2>2. a[1] >= n - n BY <1>1, <1>3
  <2> QED BY <1>1, <1>6, <2>1, <2>2 DEF S
<1>8. PICK a \in upto : KnownVersion(n) = a[2] /\ \A b \in upto : b[1] <= a[1]
  BY <1>2, <1>7
<1>9. PICK d \in Known : d[1] > a[1] BY <1>8 DEF upto, KnownBlocks
<1>10. ~\A e \in Known : e[1] <= n
  <2>1. a \in Known /\ a # d BY <1>1, <1>3, <1>9
  <2> QED BY <1>9, <2>1 DEF Misattributed, TableEnded, n
<1>11. ASSUME NEW b \in Known, b[1] <= n PROVE b[1] <= a[1]
  <2>1. PICK e \in Known : ~(e[1] <= n) BY <1>10
  <2>2. e[1] > b[1] BY <1>1, <1>11, <2>1
  <2>3. b \in upto BY <1>11, <2>2 DEF upto, KnownBlocks
  <2> QED BY <1>8, <2>3
<1>12. a \in Known /\ a[1] <= n BY <1>3
<1> QED BY <1>8, <1>11, <1>12 DEF Misattributed, TableWrong, n

\* retrieve, given the hash, the number or the version.
LEMMA RetrieveHash ==
  ASSUME NEW F, F \subseteq Block, NEW c \in Caches(F), NEW hash \in F
  PROVE  LET found == Retrieve(c, None, hash, None)
         IN /\ found.cache \in Caches(F)
            /\ found.runtime \in Version \cup {None}
            /\ found.runtime # None => <<hash, found.runtime>> \in VersionRows
<1> DEFINE asks == KnownBlocks # {}
           version == IF asks THEN TableVersion(c, None, hash) ELSE None
           looked == IF asks THEN [c EXCEPT !.reverse = Used(@, hash)] ELSE c
           mapped == MapVersion(MapBlock(looked, None, hash), hash, version)
<1>1. looked \in Caches(F)
  <2>1. Used(c.reverse, hash) \in Seq(HashRows) BY Used4
  <2> QED BY <2>1, CacheFields
<1>2. version = None \/ <<hash, version>> \in VersionRows
  <2> DEFINE at == Get(c.reverse, hash)
  <2>1. at = None \/ <<hash, at>> \in HashRows BY Get4
  <2>2. TableVersion(c, None, hash) = IF at = None THEN None ELSE KnownVersion(at)
    BY DEF TableVersion
  <2> HIDE DEF at
  <2>3. CASE asks /\ at # None /\ KnownVersion(at) # None
    <3>1. at \in Nat /\ Number[hash] = at /\ hash \in Block BY <2>1, <2>3 DEF HashRows
    <3>2. KnownVersion(at) \in AnyVersion BY <3>1 DEF AnyVersion
    <3>3. Misattributed(hash) \/ IsRuntimeOf(KnownVersion(at), hash)
      BY <2>3, <3>1, Bisection DEF IsRuntimeOf
    <3>4. <<hash, KnownVersion(at)>> \in VersionRows BY <3>1, <3>2, <3>3 DEF VersionRows
    <3> QED BY <2>2, <2>3, <3>4
  <2> QED BY <2>2, <2>3
<1>3. hash # None BY ChainAssumption
<1>4. Retrieve(c, None, hash, None) = ByHash(mapped, hash)
  BY <1>3 DEF Retrieve
<1> HIDE DEF looked, version
<1>5. mapped \in Caches(F) BY <1>1, <1>2, MapBlockKeeps, MapVersionKeeps
<1> HIDE DEF mapped
<1> QED BY <1>4, <1>5, HashFound

LEMMA RetrieveBlock ==
  ASSUME NEW F, NEW c \in Caches(F), NEW n, n # None
  PROVE  LET found == Retrieve(c, n, None, None)  hash == Get(found.cache.blocks, n)
         IN /\ found.cache \in Caches(F)
            /\ hash = None \/ <<n, hash>> \in BlockRows(F)
            /\ found.runtime \in Version \cup {None}
            /\ found.runtime # None => <<hash, found.runtime>> \in VersionRows
<1> DEFINE blocks == Used(c.blocks, n)
           hash == Get(c.blocks, n)
           d == [c EXCEPT !.blocks = blocks]
<1>1. Retrieve(c, n, None, None) = ByHash(d, hash)
  BY DEF Retrieve, MapBlock, MapVersion, ByBlock
<1>2. blocks \in Blocks(F) /\ (hash = None \/ <<n, hash>> \in BlockRows(F))
  BY Used4, Get4
<1>3. Get(blocks, n) = hash
  <2>1. \A e \in BlockRows(F) : e = <<e[1], e[2]>> BY DEF BlockRows
  <2>2. c.blocks \in Seq(BlockRows(F)) /\ Distinct(c.blocks) BY CacheFields DEF Blocks
  <2> QED BY <2>1, <2>2, UsedGet
<1> HIDE DEF blocks, hash
<1>4. d \in Caches(F) /\ d.blocks = blocks BY <1>2, CacheFields DEF Caches
<1> HIDE DEF d
<1>5. /\ ByHash(d, hash).cache \in Caches(F) /\ ByHash(d, hash).cache.blocks = blocks
      /\ ByHash(d, hash).runtime \in Version \cup {None}
      /\ ByHash(d, hash).runtime # None => <<hash, ByHash(d, hash).runtime>> \in VersionRows
  BY <1>4, HashFound
<1> QED BY <1>1, <1>2, <1>3, <1>5

LEMMA RetrieveVersion ==
  ASSUME NEW F, NEW c \in Caches(F), NEW asked
  PROVE  Retrieve(c, None, None, asked).cache \in Caches(F)
<1>1. \A version : ByVersion(c, version).cache \in Caches(F)
  BY VersionFound DEF ByVersion
<1> QED BY <1>1 DEF Retrieve
-----------------------------------------------------------------------------
(***************************************************************************)
(* The calls, and the invariant.                                           *)
(***************************************************************************)
Pc == {"idle", "startup", "begin", "hash", "head", "version", "follow", "number",
       "metadata", "orphan"}
How == {"none", "returned", "raised", "cancelled"}

CallRecord(F) ==
  [pc : Pc, n : Nat \cup {None}, h : F \cup {None}, v : Version \cup {None},
   how : How, got : Version \cup {None}, asked : F \cup {None}]

\* A call that has the block's version will be given the runtime of it.
Sound(c) ==
  /\ c.pc = "hash" => c.n # None
  /\ c.pc \in {"version", "number", "metadata", "follow"} => c.h # None
  /\ c.pc \in {"number", "metadata", "follow"} => c.v = VersionFor(c.h)
  /\ c.pc # "idle" => c.how # "returned"
  /\ c.how = "returned" => Misattributed(c.h) \/ IsRuntimeOf(c.got, c.h)

SoundCall(F) == {c \in CallRecord(F) : Sound(c)}

\* The answers that _cached_get_block_hash may give again.
Answers(F) ==
  {a \in Nat \X (F \cup {None}) : a[2] = None \/ Number[a[2]] = a[1]}

Functional(rows) == \A a, b \in rows : a[1] = b[1] => a = b

Disks(F) ==
  [blocks   : {rows \in SUBSET BlockRows(F) : IsFiniteSet(rows) /\ Functional(rows)},
   hashes   : {rows \in SUBSET VersionRows : IsFiniteSet(rows)},
   versions : {rows \in SUBSET RuntimeRows : IsFiniteSet(rows)}]

\* The blocks the node may have named: those of the chain, until one has
\* strayed from it.
Fit == {b \in Block : strayed \/ OnChain(b)}

IInv ==
  /\ head \in Block /\ strayed \in BOOLEAN
  /\ cache \in Caches(Fit)
  /\ call \in [Caller -> SoundCall(Fit)]
  /\ answered \in SUBSET Answers(Fit)
  /\ disk \in Disks(Fit)

LEMMA Stays ==
  ASSUME IInv, UNCHANGED <<head, strayed>>, cache' \in Caches(Fit),
         call' \in [Caller -> SoundCall(Fit)], answered' \in SUBSET Answers(Fit),
         disk' \in Disks(Fit)
  PROVE  IInv'
<1>1. Fit' = Fit BY DEF Fit, OnChain
<1> QED BY <1>1 DEF IInv

\* The blocks of the chain.
LEMMA OfChain ==
  ASSUME head \in Block
  PROVE  /\ head \in Fit
         /\ \A n \in Nat : Canonical(n) = None
                             \/ (Canonical(n) \in Fit /\ Number[Canonical(n)] = n)
         /\ \A b \in Fit : strayed \/ Canonical(Number[b]) = b
<1>1. /\ Chain[head] \in [0..Number[head] -> Block] /\ Number[head] \in Nat
      /\ Chain[head][Number[head]] = head
      /\ \A n \in 0..Number[head] : Number[Chain[head][n]] = n
  BY ChainAssumption
<1>2. \A n \in 0..Number[head] : Chain[head][n] \in Fit
  BY <1>1 DEF Fit, OnChain, Range
<1>3. head \in Fit BY <1>1, <1>2
<1>4. ASSUME NEW n \in Nat, n <= Number[head]
      PROVE  Canonical(n) \in Fit /\ Number[Canonical(n)] = n
  BY <1>1, <1>2, <1>4 DEF Canonical
<1>5. ASSUME NEW b \in Fit, ~strayed PROVE Canonical(Number[b]) = b
  <2>1. PICK n \in 0..Number[head] : b = Chain[head][n]
    BY <1>1, <1>5 DEF Fit, OnChain, Range
  <2> QED BY <1>1, <2>1 DEF Canonical
<1> QED BY <1>3, <1>4, <1>5 DEF Canonical

\* A call goes on, or ends.
LEMMA GotoKeeps ==
  ASSUME NEW F, call \in [Caller -> SoundCall(F)], NEW t \in Caller,
         call[t].pc # "idle", NEW pc \in Pc, NEW h \in F \cup {None},
         NEW v \in Version \cup {None}, Goto(t, pc, h, v),
         pc \in {"hash", "head", "version", "number", "metadata", "follow"},
         pc = "hash" => call[t].n # None,
         pc \in {"version", "number", "metadata", "follow"} => h # None,
         pc \in {"number", "metadata", "follow"} => v = VersionFor(h)
  PROVE  call' \in [Caller -> SoundCall(F)]
<1>1. PICK c \in SoundCall(F) : c = call[t] OBVIOUS
<1> DEFINE d == [n |-> c.n, asked |-> c.asked, got |-> c.got, how |-> c.how,
                 pc |-> pc, h |-> h, v |-> v]
<1>2. call' = [call EXCEPT ![t] = d]
  <2>1. call' = [call EXCEPT ![t] = [c EXCEPT !.pc = pc, !.h = h, !.v = v]]
    BY <1>1 DEF Goto
  <2> DEFINE c1 == [c EXCEPT !.pc = pc]
             c2 == [c1 EXCEPT !.h = h]
             c3 == [c2 EXCEPT !.v = v]
  <2>2. c1 = [n |-> c.n, asked |-> c.asked, got |-> c.got, how |-> c.how,
              pc |-> pc, h |-> c.h, v |-> c.v]
    BY DEF SoundCall, CallRecord
  <2>3. c2 = [n |-> c.n, asked |-> c.asked, got |-> c.got, how |-> c.how,
              pc |-> pc, h |-> h, v |-> c.v]
    <3> HIDE DEF c1
    <3> QED BY <2>2
  <2>4. c3 = d
    <3> HIDE DEF c2
    <3> QED BY <2>3
  <2> QED BY <2>1, <2>4
<1>3. d \in SoundCall(F)
  <2>1. d \in CallRecord(F) BY DEF SoundCall, CallRecord
  <2>2. Sound(d) BY <1>1 DEF SoundCall, Sound
  <2> QED BY <2>1, <2>2 DEF SoundCall
<1> HIDE DEF d
<1> QED BY <1>2, <1>3

LEMMA DoneRecord ==
  ASSUME NEW F, NEW c \in CallRecord(F), NEW how, NEW h, NEW runtime
  PROVE  Done(c, how, h, runtime)
           = [pc |-> "idle", n |-> c.n, h |-> h, v |-> None, how |-> how,
              got |-> runtime, asked |-> c.asked]
<1> DEFINE d(h1, v, how1, got) ==
             [pc |-> "idle", n |-> c.n, h |-> h1, v |-> v, how |-> how1,
              got |-> got, asked |-> c.asked]
           c1 == [c EXCEPT !.pc = "idle"]
           c2 == [c1 EXCEPT !.v = None]
           c3 == [c2 EXCEPT !.how = how]
           c4 == [c3 EXCEPT !.h = h]
<1>1. c1 = d(c.h, c.v, c.how, c.got) BY DEF CallRecord
<1>2. c2 = d(c.h, None, c.how, c.got)
  <2> HIDE DEF c1
  <2> QED BY <1>1
<1>3. c3 = d(c.h, None, how, c.got)
  <2> HIDE DEF c2
  <2> QED BY <1>2
<1>4. c4 = d(h, None, how, c.got)
  <2> HIDE DEF c3
  <2> QED BY <1>3
<1>5. [c4 EXCEPT !.got = runtime] = d(h, None, how, runtime)
  <2> HIDE DEF c4
  <2> QED BY <1>4
<1> QED BY <1>5 DEF Done

LEMMA DoneSound ==
  ASSUME NEW F, NEW c \in SoundCall(F), NEW how \in How, NEW h \in F \cup {None},
         NEW runtime \in Version \cup {None},
         how = "returned" => Misattributed(h) \/ IsRuntimeOf(runtime, h)
  PROVE  Done(c, how, h, runtime) \in SoundCall(F)
<1>1. PICK d : d = [pc |-> "idle", n |-> c.n, h |-> h, v |-> None, how |-> how,
                    got |-> runtime, asked |-> c.asked]
  OBVIOUS
<1>2. Done(c, how, h, runtime) = d BY <1>1, DoneRecord DEF SoundCall
<1>3. d \in CallRecord(F) BY <1>1 DEF SoundCall, CallRecord, Pc
<1>4. Sound(d) BY <1>1 DEF Sound
<1> QED BY <1>2, <1>3, <1>4 DEF SoundCall

LEMMA FinishKeeps ==
  ASSUME NEW F, call \in [Caller -> SoundCall(F)], NEW t \in Caller,
         NEW how \in How, NEW h \in F \cup {None}, NEW runtime \in Version \cup {None},
         how = "returned" => Misattributed(h) \/ IsRuntimeOf(runtime, h),
         Finish(t, how, h, runtime)
  PROVE  call' \in [Caller -> SoundCall(F)]
<1>1. PICK c \in SoundCall(F) : c = call[t] OBVIOUS
<1>2. call' = [call EXCEPT ![t] = Done(c, how, h, runtime)] BY <1>1 DEF Finish
<1> QED BY <1>2, DoneSound

\* With a hash: the runtime of the cache, or the version is asked for.
LEMMA WithHashKeeps ==
  ASSUME NEW F, F \subseteq Block, call \in [Caller -> SoundCall(F)], NEW t \in Caller,
         call[t].pc # "idle", NEW c \in Caches(F), NEW h \in F, WithHash(t, c, h)
  PROVE  cache' \in Caches(F) /\ call' \in [Caller -> SoundCall(F)]
<1> DEFINE found == Retrieve(c, None, h, None)
<1>1. /\ found.cache \in Caches(F) /\ found.runtime \in Version \cup {None}
      /\ found.runtime # None => <<h, found.runtime>> \in VersionRows
  BY RetrieveHash
<1>2. /\ cache' = found.cache
      /\ IF found.runtime # None THEN Finish(t, "returned", h, found.runtime)
         ELSE Goto(t, "version", h, None)
  BY DEF WithHash
<1> HIDE DEF found
<1>3. CASE found.runtime # None
  <2>1. Misattributed(h) \/ IsRuntimeOf(found.runtime, h) BY <1>1, <1>3 DEF VersionRows
  <2>2. PICK runtime \in Version \cup {None} : runtime = found.runtime BY <1>1
  <2>3. Finish(t, "returned", h, runtime) BY <1>2, <1>3, <2>2
  <2>4. call' \in [Caller -> SoundCall(F)] BY <2>1, <2>2, <2>3, FinishKeeps DEF How
  <2> QED BY <1>1, <1>2, <2>4
<1>4. CASE found.runtime = None
  <2>1. h # None BY ChainAssumption
  <2>2. Goto(t, "version", h, None) BY <1>2, <1>4
  <2>3. call' \in [Caller -> SoundCall(F)] BY <2>1, <2>2, GotoKeeps DEF Pc
  <2> QED BY <1>1, <1>2, <2>3
<1> QED BY <1>3, <1>4

\* With a number: the runtime of the cache, or get_block_hash.
LEMMA WithNumberKeeps ==
  ASSUME NEW F, F \subseteq Block, call \in [Caller -> SoundCall(F)], NEW t \in Caller,
         call[t].pc # "idle", cache \in Caches(F), call[t].n # None,
         WithNumber(t, call[t].n)
  PROVE  cache' \in Caches(F) /\ call' \in [Caller -> SoundCall(F)]
<1> DEFINE n == call[t].n
           found == Retrieve(cache, n, None, None)
           hash == Get(found.cache.blocks, n)
           blocks == Used(found.cache.blocks, n)
           after == [found.cache EXCEPT !.blocks = blocks]
<1>1. PICK c : c = cache /\ c \in Caches(F) OBVIOUS
<1>2. /\ found.cache \in Caches(F) /\ (hash = None \/ <<n, hash>> \in BlockRows(F))
      /\ found.runtime \in Version \cup {None}
      /\ found.runtime # None => <<hash, found.runtime>> \in VersionRows
  <2>1. \A k : k # None =>
          LET f == Retrieve(c, k, None, None)  b == Get(f.cache.blocks, k)
          IN /\ f.cache \in Caches(F)
             /\ b = None \/ <<k, b>> \in BlockRows(F)
             /\ f.runtime \in Version \cup {None}
             /\ f.runtime # None => <<b, f.runtime>> \in VersionRows
    BY <1>1, RetrieveBlock
  <2> QED BY <1>1, <2>1
<1>3. IF found.runtime # None
      THEN Finish(t, "returned", hash, found.runtime) /\ cache' = found.cache
      ELSE IF hash # None THEN WithHash(t, after, hash)
      ELSE Goto(t, "hash", None, None) /\ cache' = found.cache
  BY DEF WithNumber
<1>4. after \in Caches(F)
  <2>1. PICK d \in Caches(F) : d = found.cache BY <1>2
  <2>2. Used(d.blocks, n) \in Blocks(F) BY Used4
  <2> QED BY <2>1, <2>2, CacheFields
<1>5. hash \in F \cup {None} /\ None \notin F BY <1>2, ChainAssumption DEF BlockRows
<1> HIDE DEF after, hash, found
<1>6. CASE found.runtime # None
  <2>1. Misattributed(hash) \/ IsRuntimeOf(found.runtime, hash)
    BY <1>2, <1>6 DEF VersionRows
  <2>2. PICK runtime \in Version \cup {None} : runtime = found.runtime BY <1>2
  <2>3. Finish(t, "returned", hash, runtime) BY <1>3, <1>6, <2>2
  <2>4. call' \in [Caller -> SoundCall(F)]
    BY <1>5, <2>1, <2>2, <2>3, FinishKeeps DEF How
  <2> QED BY <1>2, <1>3, <1>6, <2>4
<1>7. CASE found.runtime = None /\ hash # None
  BY <1>3, <1>4, <1>5, <1>7, WithHashKeeps
<1>8. CASE found.runtime = None /\ hash = None
  <2>1. Goto(t, "hash", None, None) BY <1>3, <1>8
  <2>2. call' \in [Caller -> SoundCall(F)] BY <2>1, GotoKeeps DEF Pc
  <2> QED BY <1>2, <1>3, <1>8, <2>2
<1> QED BY <1>6, <1>7, <1>8

LEMMA InitRuntimeKeeps ==
  ASSUME NEW F, F \subseteq Block, call \in [Caller -> SoundCall(F)], NEW t \in Caller,
         call[t].pc # "idle", cache \in Caches(F), InitRuntime(t)
  PROVE  cache' \in Caches(F) /\ call' \in [Caller -> SoundCall(F)]
<1> DEFINE n == call[t].n  h == call[t].asked
<1>1. h \in F \cup {None}
  <2>1. call[t] \in SoundCall(F) OBVIOUS
  <2> QED BY <2>1 DEF SoundCall, CallRecord
<1>2. CASE n # None
  BY <1>2, WithNumberKeeps DEF InitRuntime
<1>3. CASE n = None /\ h # None
  <2>1. WithHash(t, cache, h) BY <1>3 DEF InitRuntime
  <2>2. PICK c \in Caches(F), b \in F : c = cache /\ b = h BY <1>1, <1>3
  <2> QED BY <2>1, <2>2, WithHashKeeps
<1>4. CASE n = None /\ h = None
  <2>1. Goto(t, "head", None, None) /\ UNCHANGED cache BY <1>4 DEF InitRuntime
  <2>2. call' \in [Caller -> SoundCall(F)] BY <2>1, GotoKeeps DEF Pc
  <2> QED BY <2>1, <2>2
<1> QED BY <1>2, <1>3, <1>4
-----------------------------------------------------------------------------
(***************************************************************************)
(* The steps of a call.                                                    *)
(***************************************************************************)
LEMMA BeginStep ==
  ASSUME IInv, NEW t \in Caller, Begin(t)
  PROVE  IInv'
<1>1. Fit \subseteq Block BY DEF Fit
<1>2. /\ call[t].pc = "begin" /\ InitRuntime(t)
      /\ UNCHANGED <<head, strayed, disk, answered>>
  BY DEF Begin
<1>3. cache' \in Caches(Fit) /\ call' \in [Caller -> SoundCall(Fit)]
  BY <1>1, <1>2, InitRuntimeKeeps DEF IInv
<1> QED BY <1>2, <1>3, Stays DEF IInv

LEMMA StartupEndsStep ==
  ASSUME IInv, NEW t \in Caller, StartupEnds(t)
  PROVE  IInv'
<1>1. Fit \subseteq Block BY DEF Fit
<1>2. call[t].pc = "startup" /\ UNCHANGED <<head, strayed, disk, answered>>
  BY DEF StartupEnds
<1>3. call[Startup] \in SoundCall(Fit) BY DEF IInv, Caller
<1>4. CASE call[Startup].how = "returned"
  <2>1. InitRuntime(t) BY <1>4 DEF StartupEnds
  <2>2. cache' \in Caches(Fit) /\ call' \in [Caller -> SoundCall(Fit)]
    BY <1>1, <1>2, <2>1, InitRuntimeKeeps DEF IInv
  <2> QED BY <1>2, <2>2, Stays DEF IInv
<1>5. CASE call[Startup].how # "returned"
  <2>1. PICK how \in How : how = call[Startup].how /\ how # "returned"
    BY <1>3, <1>5 DEF SoundCall, CallRecord
  <2>2. Finish(t, how, None, None) /\ UNCHANGED cache BY <1>5, <2>1 DEF StartupEnds
  <2>3. call' \in [Caller -> SoundCall(Fit)] BY <2>1, <2>2, FinishKeeps DEF IInv
  <2> QED BY <1>2, <2>2, <2>3, Stays DEF IInv
<1> QED BY <1>4, <1>5

LEMMA HashArrivesStep ==
  ASSUME IInv, NEW t \in Caller, HashArrives(t)
  PROVE  IInv'
<1>1. Fit \subseteq Block /\ None \notin Fit BY ChainAssumption DEF Fit
<1>2. call[t].pc = "hash" /\ UNCHANGED <<head, strayed, disk>> BY DEF HashArrives
<1>3. PICK n \in Nat : n = call[t].n
  <2>1. call[t] \in SoundCall(Fit) BY DEF IInv
  <2>2. call[t].n \in Nat BY <1>2, <2>1 DEF SoundCall, CallRecord, Sound
  <2> QED BY <2>2
<1>4. PICK h \in {Canonical(n)} \cup {a[2] : a \in {b \in answered : b[1] = n}} :
        LET c == AddItem(cache, None, n, h, None)
        IN /\ IF h # None THEN WithHash(t, c, h)
              ELSE Goto(t, "head", None, None) /\ cache' = c
           /\ answered' = IF h # None \/ Disk THEN answered \cup {<<n, h>>}
                          ELSE answered
  BY <1>3 DEF HashArrives
<1>5. h = None \/ (h \in Fit /\ Number[h] = n)
  <2>1. CASE h = Canonical(n) BY <2>1, OfChain DEF IInv
  <2>2. CASE \E a \in answered : a[1] = n /\ h = a[2]
    BY <2>2 DEF IInv, Answers
  <2> QED BY <2>1, <2>2
<1> DEFINE c == AddItem(cache, None, n, h, None)
<1>6. c \in Caches(Fit)
  <2>1. n = None \/ h = None \/ <<n, h>> \in BlockRows(Fit) BY <1>5 DEF BlockRows
  <2>2. PICK d \in Caches(Fit) : d = cache BY DEF IInv
  <2> QED BY <1>1, <2>1, <2>2, AddItemKeeps
<1>7. answered' \in SUBSET Answers(Fit)
  <2>1. <<n, h>> \in Answers(Fit) BY <1>5 DEF Answers
  <2> QED BY <1>4, <2>1 DEF IInv
<1> HIDE DEF c
<1>8. cache' \in Caches(Fit) /\ call' \in [Caller -> SoundCall(Fit)]
  <2>1. CASE h # None
    <3>1. WithHash(t, c, h) BY <1>4, <2>1 DEF c
    <3> QED BY <1>1, <1>2, <1>5, <1>6, <2>1, <3>1, WithHashKeeps DEF IInv
  <2>2. CASE h = None
    <3>1. Goto(t, "head", None, None) /\ cache' = c BY <1>4, <2>2 DEF c
    <3>2. call' \in [Caller -> SoundCall(Fit)] BY <1>2, <3>1, GotoKeeps DEF IInv, Pc
    <3> QED BY <1>6, <3>1, <3>2
  <2> QED BY <2>1, <2>2
<1> QED BY <1>2, <1>7, <1>8, Stays DEF IInv

LEMMA HeadArrivesStep ==
  ASSUME IInv, NEW t \in Caller, HeadArrives(t)
  PROVE  IInv'
<1>1. head \in Fit /\ head # None BY OfChain, ChainAssumption DEF IInv
<1>2. /\ call[t].pc = "head" /\ Goto(t, "version", head, None)
      /\ UNCHANGED <<head, strayed, cache, disk, answered>>
  BY DEF HeadArrives
<1>3. call' \in [Caller -> SoundCall(Fit)] BY <1>1, <1>2, GotoKeeps DEF IInv, Pc
<1> QED BY <1>2, <1>3, Stays DEF IInv

\* What a call that has its block knows.
LEMMA Known2 ==
  ASSUME IInv, NEW t \in Caller,
         call[t].pc \in {"version", "number", "metadata", "follow"}
  PROVE  /\ call[t].h \in Fit /\ call[t].h \in Block /\ call[t].h # None
         /\ VersionFor(call[t].h) \in Version
         /\ IsRuntimeOf(VersionFor(call[t].h), call[t].h)
         /\ call[t].pc # "version" => call[t].v = VersionFor(call[t].h)
<1>1. call[t] \in SoundCall(Fit) BY DEF IInv
<1>2. call[t].h \in Fit /\ call[t].h # None
  BY <1>1 DEF SoundCall, CallRecord, Sound
<1>3. call[t].h \in Block /\ Parent[call[t].h] \in Block
  BY <1>2, ChainAssumption DEF Fit
<1>4. call[t].pc # "version" => call[t].v = VersionFor(call[t].h)
  BY <1>1 DEF SoundCall, Sound
<1> QED BY <1>2, <1>3, <1>4 DEF VersionFor, Version, IsRuntimeOf

LEMMA VersionArrivesStep ==
  ASSUME IInv, NEW t \in Caller, VersionArrives(t)
  PROVE  IInv'
<1>1. call[t].pc = "version" /\ UNCHANGED <<head, strayed, disk, answered>>
  BY DEF VersionArrives
<1>2. PICK h \in Fit, v \in Version : /\ h = call[t].h /\ v = VersionFor(h) /\ h # None
                                      /\ IsRuntimeOf(v, h)
  BY <1>1, Known2
<1>3. cache' = Retrieve(cache, None, None, v).cache BY <1>2 DEF VersionArrives
<1>4. cache' \in Caches(Fit)
  <2>1. PICK d \in Caches(Fit) : d = cache BY DEF IInv
  <2> QED BY <1>3, <2>1, RetrieveVersion
<1>5. \/ Finish(t, "returned", h, v) \/ Finish(t, "cancelled", h, None)
      \/ Goto(t, "follow", h, v) \/ Goto(t, "number", h, v)
  BY <1>2 DEF VersionArrives
<1>6. call' \in [Caller -> SoundCall(Fit)]
  <2>1. CASE Finish(t, "returned", h, v)
    BY <1>2, <2>1, FinishKeeps DEF IInv, How
  <2>2. ASSUME NEW pc \in {"follow", "number"}, Goto(t, pc, h, v)
        PROVE  call' \in [Caller -> SoundCall(Fit)]
    BY <1>1, <1>2, <2>2, GotoKeeps DEF IInv, Pc
  <2>3. CASE Finish(t, "cancelled", h, None)
    BY <1>2, <2>3, FinishKeeps DEF IInv, How
  <2> QED BY <1>5, <2>1, <2>2, <2>3
<1> QED BY <1>1, <1>4, <1>6, Stays DEF IInv

LEMMA NumberArrivesStep ==
  ASSUME IInv, NEW t \in Caller, NumberArrives(t)
  PROVE  IInv'
<1>1. /\ call[t].pc = "number" /\ UNCHANGED <<head, strayed, disk, answered>>
      /\ Goto(t, "metadata", call[t].h, call[t].v)
  BY DEF NumberArrives
<1>2. PICK h \in Fit, v \in Version : /\ h = call[t].h /\ v = call[t].v /\ h # None
                                      /\ v = VersionFor(h) /\ h \in Block
  BY <1>1, Known2
<1>3. Fit \subseteq Block BY DEF Fit
<1>4. PICK c \in Caches(Fit) : c = cache BY DEF IInv
<1>5. \/ cache' = [c EXCEPT !.reverse = Used(c.reverse, h)]
      \/ cache' = AddItem(c, None, Number[h], h, None)
  BY <1>2, <1>4 DEF NumberArrives
<1>6. cache' \in Caches(Fit)
  <2>1. <<Number[h], h>> \in BlockRows(Fit) BY <1>2, ChainAssumption DEF BlockRows
  <2>2. AddItem(c, None, Number[h], h, None) \in Caches(Fit)
    BY <1>3, <2>1, AddItemKeeps
  <2>3. [c EXCEPT !.reverse = Used(c.reverse, h)] \in Caches(Fit)
    BY Used4, CacheFields
  <2> QED BY <1>5, <2>2, <2>3
<1>7. call' \in [Caller -> SoundCall(Fit)]
  BY <1>1, <1>2, GotoKeeps DEF IInv, Pc
<1> QED BY <1>1, <1>6, <1>7, Stays DEF IInv

\* Those whom an exception or a cancellation reaches.
LEMMA StoppedSound ==
  ASSUME IInv, NEW u \in Caller, NEW how \in {"raised", "cancelled"}
  PROVE  Done(call[u], how, call[u].h, None) \in SoundCall(Fit)
<1>1. PICK c \in SoundCall(Fit) : c = call[u] BY DEF IInv
<1>2. c.h \in Fit \cup {None} BY DEF SoundCall, CallRecord
<1> QED BY <1>1, <1>2, DoneSound DEF How

LEMMA RefuseKeeps ==
  ASSUME IInv, NEW t \in Caller, Refuse(t)
  PROVE  call' \in [Caller -> SoundCall(Fit)]
<1> DEFINE F == Followers(t, call[t].v)
           next(u) == CASE u = t -> Done(call[t], "raised", call[t].h, None)
                        [] u \in F -> Done(call[u], "cancelled", call[u].h, None)
                        [] OTHER -> call[u]
<1>1. call' = [u \in Caller |-> next(u)] BY DEF Refuse
<1>2. t \notin F BY DEF Followers
<1>3. ASSUME NEW u \in Caller PROVE next(u) \in SoundCall(Fit)
  <2>1. CASE u = t BY <1>2, <2>1, StoppedSound
  <2>2. CASE u \in F BY <1>2, <2>2, StoppedSound
  <2>3. CASE u # t /\ u \notin F BY <2>3 DEF IInv
  <2> QED BY <2>1, <2>2, <2>3
<1> HIDE DEF next
<1> QED BY <1>1, <1>3

\* A leader's result is that of the version its followers wait for.
LEMMA SettleKeeps ==
  ASSUME IInv, NEW t \in Caller, call[t].pc = "metadata",
         NEW runtime \in Version, runtime = call[t].v, Settle(t, runtime)
  PROVE  call' \in [Caller -> SoundCall(Fit)]
<1> DEFINE settled == {t} \cup Followers(t, call[t].v)
<1>1. CASE Refuse(t) BY <1>1, RefuseKeeps
<1>2. CASE ~Refuse(t)
  <2>1. call' = [u \in Caller |-> IF u \in settled
                                  THEN Done(call[u], "returned", call[u].h, runtime)
                                  ELSE call[u]]
    BY <1>2 DEF Settle
  <2>2. ASSUME NEW u \in settled
        PROVE  Done(call[u], "returned", call[u].h, runtime) \in SoundCall(Fit)
    <3>1. u \in Caller /\ call[u].pc \in {"metadata", "follow"} /\ call[u].v = call[t].v
      BY DEF Followers
    <3>2. PICK c \in SoundCall(Fit) : c = call[u] BY <3>1 DEF IInv
    <3>3. c.h \in Fit \cup {None} /\ IsRuntimeOf(runtime, c.h) BY <3>1, <3>2, Known2
    <3>4. Done(c, "returned", c.h, runtime) \in SoundCall(Fit)
      BY <3>3, DoneSound DEF How
    <3> QED BY <3>2, <3>4
  <2> HIDE DEF settled
  <2> QED BY <2>1, <2>2 DEF IInv
<1> QED BY <1>1, <1>2

LEMMA MetadataArrivesStep ==
  ASSUME IInv, NEW t \in Caller, MetadataArrives(t)
  PROVE  IInv'
<1>1. call[t].pc = "metadata" /\ UNCHANGED <<head, strayed, disk, answered>>
  BY DEF MetadataArrives
<1>2. PICK h \in Fit, v \in Version : /\ h = call[t].h /\ v = call[t].v /\ h # None
                                      /\ v = VersionFor(h) /\ h \in Block
                                      /\ IsRuntimeOf(v, h)
  BY <1>1, Known2
<1>3. Settle(t, v) /\ cache' = AddItem(cache, v, Number[h], h, v)
  BY <1>2 DEF MetadataArrives
<1>4. Fit \subseteq Block BY DEF Fit
<1>5. cache' \in Caches(Fit)
  <2>1. PICK c \in Caches(Fit) : c = cache BY DEF IInv
  <2>2. <<Number[h], h>> \in BlockRows(Fit) BY <1>2, ChainAssumption DEF BlockRows
  <2>3. <<v, v>> \in RuntimeRows /\ <<h, v>> \in VersionRows
    BY <1>2 DEF RuntimeRows, VersionRows, AnyVersion
  <2> QED BY <1>3, <1>4, <2>1, <2>2, <2>3, AddItemKeeps
<1>6. call' \in [Caller -> SoundCall(Fit)]
  BY <1>1, <1>2, <1>3, SettleKeeps
<1> QED BY <1>1, <1>5, <1>6, Stays DEF IInv

LEMMA CallFailsStep ==
  ASSUME IInv, NEW t \in Caller, CallFails(t)
  PROVE  IInv'
<1>1. UNCHANGED <<head, strayed, cache, disk, answered>> BY DEF CallFails
<1>2. call' \in [Caller -> SoundCall(Fit)]
  <2>1. CASE call[t].pc \in {"number", "metadata"}
    <3>1. Refuse(t) BY <2>1 DEF CallFails
    <3> QED BY <3>1, RefuseKeeps
  <2>2. CASE call[t].pc \notin {"number", "metadata"}
    <3>1. Finish(t, "raised", call[t].h, None) BY <2>2 DEF CallFails
    <3>2. call[t].h \in Fit \cup {None} BY DEF IInv, SoundCall, CallRecord
    <3> QED BY <3>1, <3>2, FinishKeeps DEF IInv, How
  <2> QED BY <2>1, <2>2
<1> QED BY <1>1, <1>2, Stays DEF IInv

\* What a cancellation makes of each call.
CancelledCall(u) ==
  \/ call'[u] = call[u]
  \/ call'[u] = Done(call[u], "cancelled", call[u].h, None)
  \/ call[u].pc = "follow" /\ call'[u] = [call[u] EXCEPT !.pc = "orphan"]

LEMMA CancelStartupCalls ==
  ASSUME NEW t, CancelStartup(t)
  PROVE  /\ call' = [u \in Caller |-> call'[u]]
         /\ \A u \in Caller : CancelledCall(u)
BY DEF CancelStartup, CancelledCall, Followers

LEMMA CancelStartupStep ==
  ASSUME IInv, NEW t \in Caller, CancelStartup(t)
  PROVE  IInv'
<1>1. UNCHANGED <<head, strayed, cache, disk, answered>> BY DEF CancelStartup
<1>2. call' = [u \in Caller |-> call'[u]] /\ \A u \in Caller : CancelledCall(u)
  BY CancelStartupCalls
<1>3. ASSUME NEW u \in Caller PROVE call'[u] \in SoundCall(Fit)
  <2>1. PICK c \in SoundCall(Fit) : c = call[u] BY DEF IInv
  <2>2. CASE call'[u] = c BY <2>2
  <2>3. CASE call'[u] = Done(call[u], "cancelled", call[u].h, None)
    BY <2>3, StoppedSound
  <2>4. CASE c.pc = "follow" /\ call'[u] = [c EXCEPT !.pc = "orphan"]
    <3>1. [c EXCEPT !.pc = "orphan"] \in CallRecord(Fit) BY DEF SoundCall, CallRecord, Pc
    <3>2. Sound([c EXCEPT !.pc = "orphan"])
      BY <2>4 DEF SoundCall, Sound, CallRecord
    <3> QED BY <2>4, <3>1, <3>2 DEF SoundCall
  <2> QED BY <1>2, <2>1, <2>2, <2>3, <2>4 DEF CancelledCall
<1>4. call' \in [Caller -> SoundCall(Fit)] BY <1>2, <1>3
<1> QED BY <1>1, <1>4, Stays DEF IInv
-----------------------------------------------------------------------------
(***************************************************************************)
(* The chain grows, forks are left behind, the process restarts.           *)
(***************************************************************************)

\* What belonged in the tables still does when more blocks are fit.
LEMMA Grows ==
  ASSUME NEW F, NEW G, F \subseteq G
  PROVE  /\ Caches(F) \subseteq Caches(G) /\ SoundCall(F) \subseteq SoundCall(G)
         /\ Answers(F) \subseteq Answers(G) /\ Disks(F) \subseteq Disks(G)
<1>1. BlockRows(F) \subseteq BlockRows(G) BY DEF BlockRows
<1>2. Blocks(F) \subseteq Blocks(G) BY <1>1, SeqMonotonic DEF Blocks
<1>3. Caches(F) \subseteq Caches(G) BY <1>2 DEF Caches
<1>4. CallRecord(F) \subseteq CallRecord(G) BY DEF CallRecord
<1>5. SoundCall(F) \subseteq SoundCall(G) BY <1>4 DEF SoundCall
<1>6. Answers(F) \subseteq Answers(G) BY DEF Answers
<1>7. {rows \in SUBSET BlockRows(F) : IsFiniteSet(rows) /\ Functional(rows)}
        \subseteq {rows \in SUBSET BlockRows(G) : IsFiniteSet(rows) /\ Functional(rows)}
  BY <1>1
<1>8. Disks(F) \subseteq Disks(G) BY <1>7 DEF Disks
<1> QED BY <1>3, <1>5, <1>6, <1>8

LEMMA GrowsStep ==
  ASSUME IInv, Fit \subseteq Fit', head' \in Block, strayed' \in BOOLEAN,
         UNCHANGED <<cache, answered, disk>>, call' \in [Caller -> SoundCall(Fit')]
  PROVE  IInv'
<1>1. PICK F : F = Fit /\ cache \in Caches(F) /\ answered \in SUBSET Answers(F)
                       /\ disk \in Disks(F)
  BY DEF IInv
<1>2. PICK G : G = Fit' /\ call' \in [Caller -> SoundCall(G)] OBVIOUS
<1>3. cache' \in Caches(G) /\ answered' \in SUBSET Answers(G) /\ disk' \in Disks(G)
  BY <1>1, <1>2, Grows
<1> QED BY <1>2, <1>3 DEF IInv

LEMMA AskStep ==
  ASSUME IInv, NEW t, NEW n \in Nat \cup {None}, NEW h \in Block \cup {None}, Ask(t, n, h)
  PROVE  IInv'
<1>1. /\ t \in Task /\ UNCHANGED <<head, cache, answered, disk>>
      /\ strayed' = (strayed \/ (h # None /\ ~OnChain(h)))
  BY DEF Ask
<1> DEFINE asked == IF n = None THEN h ELSE Canonical(n)
<1>2. Fit \subseteq Fit' /\ h \in Fit' \cup {None} BY <1>1 DEF Fit, OnChain
<1>9. asked \in Fit' \cup {None}
  <2>1. n # None => Canonical(n) \in Fit \cup {None} BY OfChain DEF IInv
  <2> QED BY <1>2, <2>1
<1> DEFINE pc == IF startup.waits /\ h = startup.hash THEN "startup" ELSE "begin"
           d == [pc |-> pc, n |-> n, h |-> None, v |-> None, how |-> "none",
                 got |-> None, asked |-> asked]
           c1 == [NoCall EXCEPT !.n = n]
           c2 == [c1 EXCEPT !.asked = asked]
<1>3. call' = [call EXCEPT ![t] = [c2 EXCEPT !.pc = pc]] BY DEF Ask
<1> HIDE DEF asked
<1>4. c1 = [pc |-> "idle", n |-> n, h |-> None, v |-> None, how |-> "none",
            got |-> None, asked |-> None]
  BY DEF NoCall
<1>5. c2 = [pc |-> "idle", n |-> n, h |-> None, v |-> None, how |-> "none",
            got |-> None, asked |-> asked]
  <2> HIDE DEF c1
  <2> QED BY <1>4
<1>6. [c2 EXCEPT !.pc = pc] = d
  <2> HIDE DEF c2, pc
  <2> QED BY <1>5
<1>7. d \in SoundCall(Fit')
  <2>1. pc \in {"startup", "begin"} OBVIOUS
  <2> HIDE DEF pc
  <2>2. d \in CallRecord(Fit') BY <1>9, <2>1 DEF CallRecord, Pc, How
  <2>3. Sound(d) BY <2>1 DEF Sound
  <2> QED BY <2>2, <2>3 DEF SoundCall
<1> HIDE DEF d, c2, pc
<1>8. call' \in [Caller -> SoundCall(Fit')]
  <2>1. call \in [Caller -> SoundCall(Fit')] BY <1>2, Grows DEF IInv
  <2> QED BY <1>3, <1>6, <1>7, <2>1
<1> QED BY <1>1, <1>2, <1>8, GrowsStep DEF IInv

LEMMA NewHeadStep ==
  ASSUME IInv, NEW b \in Block, NewHead(b)
  PROVE  IInv'
<1>1. /\ head' = b /\ strayed' = (strayed \/ head \notin Range(Chain[b]))
      /\ UNCHANGED <<cache, call, answered, disk>>
  BY DEF NewHead
<1>2. ASSUME NEW a \in Fit PROVE a \in Fit'
  <2>1. CASE strayed \/ head \notin Range(Chain[b]) BY <1>1, <2>1 DEF Fit
  <2>2. CASE ~strayed /\ head \in Range(Chain[b])
    <3>1. /\ Chain[b] \in [0..Number[b] -> Block] /\ Number[b] \in Nat
          /\ Chain[head] \in [0..Number[head] -> Block] /\ Number[head] \in Nat
      BY ChainAssumption DEF IInv
    <3>2. PICK m \in 0..Number[b] : Chain[b][m] = head BY <2>2, <3>1 DEF Range
    <3>3. Number[head] = m /\ \A i \in 0..m : Chain[head][i] = Chain[b][i]
      BY <3>2, ChainAssumption
    <3>4. PICK i \in 0..Number[head] : a = Chain[head][i]
      BY <2>2, <3>1 DEF Fit, OnChain, Range
    <3>5. i \in 0..Number[b] /\ a = Chain[b][i] BY <3>1, <3>2, <3>3, <3>4
    <3>6. a \in Range(Chain[b]) BY <3>1, <3>5 DEF Range
    <3> QED BY <1>1, <3>6 DEF Fit, OnChain
  <2> QED BY <2>1, <2>2
<1>3. Fit \subseteq Fit' BY <1>2
<1>4. call' \in [Caller -> SoundCall(Fit')]
  BY <1>1, <1>3, Grows DEF IInv
<1> QED BY <1>1, <1>3, <1>4, GrowsStep DEF IInv

\* The rows of a finite set, in some order.
LEMMA RowsAsSeq ==
  ASSUME NEW S, NEW rows \in SUBSET S, IsFiniteSet(rows)
  PROVE  /\ SetToSeq(rows) \in Seq(S) /\ IsInjective(SetToSeq(rows))
         /\ \A i \in DOMAIN SetToSeq(rows) : SetToSeq(rows)[i] \in rows
<1> DEFINE n == Cardinality(rows)
<1>1. n \in Nat /\ ExistsBijection(1..n, rows) BY FS_CardinalityType
<1> HIDE DEF n
<1>2. \E f \in [1..n -> rows] : IsInjective(f)
  BY <1>1 DEF ExistsBijection, Bijection, Injection, IsInjective
<1>3. SetToSeq(rows) \in [1..n -> rows] /\ IsInjective(SetToSeq(rows))
  BY <1>2 DEF SetToSeq, n
<1>4. SetToSeq(rows) \in [1..n -> S] BY <1>3
<1>5. SetToSeq(rows) \in Seq(S) BY <1>1, <1>4, SeqDef
<1> QED BY <1>3, <1>5

LEMMA RangeOf ==
  ASSUME NEW S, NEW s \in Seq(S)
  PROVE  Range(s) \in SUBSET S /\ IsFiniteSet(Range(s))
<1>1. Len(s) \in Nat /\ s \in [1..Len(s) -> S] /\ DOMAIN s = 1..Len(s)
  BY LenProperties
<1>2. Range(s) \in SUBSET S BY <1>1 DEF Range
<1>3. s \in Surjection(1..Len(s), Range(s))
  BY <1>1 DEF Surjection, Range
<1>4. IsFiniteSet(1..Len(s)) BY <1>1, FS_Interval
<1> QED BY <1>2, <1>3, <1>4, FS_Surjection

LEMMA ReplaceKeeps ==
  ASSUME NEW S, NEW rows \in SUBSET S, IsFiniteSet(rows), NEW s \in Seq(S)
  PROVE  /\ Replace(rows, s) \in SUBSET S /\ IsFiniteSet(Replace(rows, s))
         /\ Functional(rows) /\ Distinct(s) => Functional(Replace(rows, s))
<1> DEFINE stay == {row \in rows : row[1] \notin KeysOf(s)}
<1>1. stay \in SUBSET rows /\ IsFiniteSet(stay)
  <2>1. stay \in SUBSET rows OBVIOUS
  <2> QED BY <2>1, FS_Subset
<1>2. Range(s) \in SUBSET S /\ IsFiniteSet(Range(s)) BY RangeOf
<1>3. Replace(rows, s) = stay \cup Range(s) BY DEF Replace
<1>4. Replace(rows, s) \in SUBSET S /\ IsFiniteSet(Replace(rows, s))
  BY <1>1, <1>2, <1>3, FS_Union
<1>5. ASSUME Functional(rows), Distinct(s), NEW a \in Replace(rows, s),
             NEW b \in Replace(rows, s), a[1] = b[1]
      PROVE  a = b
  <2>1. CASE a \in stay /\ b \in stay BY <1>5, <2>1 DEF Functional
  <2>2. CASE a \in Range(s) /\ b \in Range(s) BY <1>5, <2>2 DEF Range, Distinct
  <2>3. ~(a \in stay /\ b \in Range(s)) /\ ~(a \in Range(s) /\ b \in stay)
    BY <1>5 DEF Range, KeysOf
  <2> QED BY <1>3, <1>5, <2>1, <2>2, <2>3
<1> QED BY <1>4, <1>5 DEF Functional

LEMMA DumpKeeps ==
  ASSUME NEW F, NEW c \in Caches(F), NEW rows \in Disks(F), NEW local
  PROVE  DumpToDisk(rows, c, local) \in Disks(F)
<1>1. /\ c.blocks \in Seq(BlockRows(F)) /\ Distinct(c.blocks)
      /\ c.hashes \in Seq(VersionRows) /\ c.versions \in Seq(RuntimeRows)
  BY CacheFields DEF Blocks
<1>2. /\ rows.blocks \in SUBSET BlockRows(F) /\ IsFiniteSet(rows.blocks)
      /\ Functional(rows.blocks)
      /\ rows.hashes \in SUBSET VersionRows /\ IsFiniteSet(rows.hashes)
      /\ rows.versions \in SUBSET RuntimeRows /\ IsFiniteSet(rows.versions)
  BY DEF Disks
<1>3. /\ Replace(rows.blocks, c.blocks) \in SUBSET BlockRows(F)
      /\ IsFiniteSet(Replace(rows.blocks, c.blocks))
      /\ Functional(Replace(rows.blocks, c.blocks))
  BY <1>1, <1>2, ReplaceKeeps
<1>4. /\ Replace(rows.hashes, c.hashes) \in SUBSET VersionRows
      /\ IsFiniteSet(Replace(rows.hashes, c.hashes))
  BY <1>1, <1>2, ReplaceKeeps
<1>5. /\ Replace(rows.versions, c.versions) \in SUBSET RuntimeRows
      /\ IsFiniteSet(Replace(rows.versions, c.versions))
  BY <1>1, <1>2, ReplaceKeeps
<1>6. DumpRuntimeCache(rows, c) \in Disks(F)
  BY <1>3, <1>4, <1>5 DEF DumpRuntimeCache, Disks
<1> QED BY <1>6 DEF DumpToDisk

LEMMA EmptyKeeps ==
  ASSUME NEW F
  PROVE  EmptyCache \in Caches(F) /\ NoRows \in Disks(F)
<1>1. \A S : <<>> \in Seq(S) BY EmptySeq
<1>2. Distinct(<<>>) BY DEF Distinct
<1>3. EmptyCache \in Caches(F) BY <1>1, <1>2 DEF EmptyCache, Caches, Blocks
<1>4. IsFiniteSet({}) BY FS_EmptySet
<1>5. NoRows \in Disks(F) BY <1>4 DEF NoRows, Disks, Functional
<1> QED BY <1>3, <1>5

LEMMA LoadKeeps ==
  ASSUME NEW F, F \subseteq Block, NEW rows \in Disks(F)
  PROVE  LoadFromDisk(rows) \in Caches(F)
<1> DEFINE blocks == SetToSeq(rows.blocks)
           hashes == SetToSeq(rows.hashes)
           versions == SetToSeq(rows.versions)
           reverse == [i \in DOMAIN blocks |-> <<blocks[i][2], blocks[i][1]>>]
<1>1. /\ rows.blocks \in SUBSET BlockRows(F) /\ IsFiniteSet(rows.blocks)
      /\ Functional(rows.blocks)
      /\ rows.hashes \in SUBSET VersionRows /\ IsFiniteSet(rows.hashes)
      /\ rows.versions \in SUBSET RuntimeRows /\ IsFiniteSet(rows.versions)
  BY DEF Disks
<1>2. /\ blocks \in Seq(BlockRows(F)) /\ IsInjective(blocks)
      /\ \A i \in DOMAIN blocks : blocks[i] \in rows.blocks
  BY <1>1, RowsAsSeq
<1>3. hashes \in Seq(VersionRows) /\ versions \in Seq(RuntimeRows)
  BY <1>1, RowsAsSeq
<1>4. LoadFromDisk(rows)
        = [EmptyCache EXCEPT !.blocks = blocks, !.hashes = hashes, !.versions = versions,
                             !.reverse = reverse]
  BY DEF LoadFromDisk, LoadRuntimeCache
<1> HIDE DEF blocks, hashes, versions
<1>5. blocks \in Blocks(F) BY <1>1, <1>2 DEF Blocks, Distinct, Functional, IsInjective
<1>6. reverse \in Seq(HashRows)
  <2>1. Len(blocks) \in Nat /\ DOMAIN blocks = 1..Len(blocks) BY <1>2, LenProperties
  <2>2. \A i \in 1..Len(blocks) : <<blocks[i][2], blocks[i][1]>> \in HashRows
    BY <1>2, ElementOfSeq DEF BlockRows, HashRows
  <2>3. reverse \in [1..Len(blocks) -> HashRows] BY <2>1, <2>2
  <2> HIDE DEF reverse
  <2> QED BY <2>1, <2>3, SeqDef
<1> HIDE DEF reverse
<1> DEFINE c1 == [EmptyCache EXCEPT !.blocks = blocks]
           c2 == [c1 EXCEPT !.hashes = hashes]
           c3 == [c2 EXCEPT !.versions = versions]
<1>7. c1 \in Caches(F) BY <1>5, EmptyKeeps, CacheFields
<1>8. c2 \in Caches(F)
  <2> HIDE DEF c1
  <2> QED BY <1>3, <1>7, CacheFields
<1>9. c3 \in Caches(F)
  <2> HIDE DEF c2
  <2> QED BY <1>3, <1>8, CacheFields
<1>10. [c3 EXCEPT !.reverse = reverse] \in Caches(F)
  <2> HIDE DEF c3
  <2> QED BY <1>6, <1>9, CacheFields
<1> QED BY <1>4, <1>10

LEMMA InitializeKeeps ==
  ASSUME NEW F, F \subseteq Block, NEW at \in F, NEW rows \in Disks(F)
  PROVE  /\ Initialize(at, rows).cache \in Caches(F)
         /\ Initialize(at, rows).call \in [Caller -> SoundCall(F)]
<1>1. Initialize(at, rows).cache \in {LoadFromDisk(rows), EmptyCache} BY DEF Initialize
<1> DEFINE first(t) == IF t = Startup THEN "begin" ELSE "idle"
<1>2. Initialize(at, rows).call
        = [t \in Caller |-> [NoCall EXCEPT !.pc = first(t), !.asked = at]]
  BY DEF Initialize
<1>3. ASSUME NEW pc \in {"begin", "idle"}
      PROVE  [NoCall EXCEPT !.pc = pc, !.asked = at] \in SoundCall(F)
  <2> DEFINE d == [pc |-> pc, n |-> None, h |-> None, v |-> None, how |-> "none",
                   got |-> None, asked |-> at]
             c1 == [NoCall EXCEPT !.pc = pc]
  <2>1. c1 = [pc |-> pc, n |-> None, h |-> None, v |-> None, how |-> "none",
              got |-> None, asked |-> None]
    BY DEF NoCall
  <2>2. [c1 EXCEPT !.asked = at] = d
    <3> HIDE DEF c1
    <3> QED BY <2>1
  <2>3. d \in CallRecord(F) BY DEF CallRecord, Pc, How
  <2>4. Sound(d) BY DEF Sound
  <2> QED BY <2>2, <2>3, <2>4 DEF SoundCall
<1>4. \A t \in Caller : first(t) \in {"begin", "idle"} OBVIOUS
<1> HIDE DEF first
<1> QED BY <1>1, <1>2, <1>3, <1>4, LoadKeeps, EmptyKeeps

LEMMA RestartStep ==
  ASSUME IInv, NEW closed \in BOOLEAN, Restart(closed)
  PROVE  IInv'
<1>1. PICK F : /\ F = Fit /\ F \subseteq Block /\ head \in F /\ cache \in Caches(F)
               /\ disk \in Disks(F) /\ answered \in SUBSET Answers(F)
  BY OfChain DEF IInv, Fit
<1>2. /\ disk' = IF closed /\ Disk THEN DumpToDisk(disk, cache, Local) ELSE disk
      /\ answered' = IF Disk THEN answered ELSE {}
      /\ cache' = Initialize(head, disk').cache /\ call' = Initialize(head, disk').call
      /\ UNCHANGED <<head, strayed>>
  BY DEF Restart
<1>3. disk' \in Disks(F)
  <2>1. PICK c \in Caches(F), rows \in Disks(F) : c = cache /\ rows = disk BY <1>1
  <2> QED BY <1>2, <2>1, DumpKeeps
<1>4. PICK rows \in Disks(F), at \in F : rows = disk' /\ at = head BY <1>1, <1>3
<1>5. cache' \in Caches(F) /\ call' \in [Caller -> SoundCall(F)]
  BY <1>1, <1>2, <1>4, InitializeKeeps
<1> QED BY <1>1, <1>2, <1>3, <1>5, Stays

LEMMA InitInv == Init => IInv
<1> SUFFICES ASSUME Init PROVE IInv OBVIOUS
<1>1. head = Genesis /\ strayed = FALSE /\ disk = NoRows /\ answered = {} BY DEF Init
<1>2. head \in Block BY <1>1, ChainAssumption
<1>3. PICK F : F = Fit /\ F \subseteq Block /\ Genesis \in F
  BY <1>1, <1>2, OfChain DEF Fit
<1>4. cache = Initialize(Genesis, NoRows).cache /\ call = Initialize(Genesis, NoRows).call
  BY DEF Init
<1>5. PICK rows \in Disks(F), at \in F : rows = NoRows /\ at = Genesis
  BY <1>3, EmptyKeeps
<1>6. cache \in Caches(F) /\ call \in [Caller -> SoundCall(F)]
  BY <1>3, <1>4, <1>5, InitializeKeeps
<1> QED BY <1>1, <1>2, <1>3, <1>5, <1>6 DEF IInv

LEMMA NextStep == IInv /\ [Next]_vars => IInv'
<1> SUFFICES ASSUME IInv, [Next]_vars PROVE IInv' OBVIOUS
<1>1. ASSUME NEW t \in Caller, Answer(t) PROVE IInv'
  BY <1>1, BeginStep, StartupEndsStep, HashArrivesStep, HeadArrivesStep,
     VersionArrivesStep, NumberArrivesStep, MetadataArrivesStep DEF Answer
<1>2. ASSUME NEW t \in Caller, CallFails(t) \/ CancelStartup(t) PROVE IInv'
  BY <1>2, CallFailsStep, CancelStartupStep
<1>3. ASSUME NEW t \in Task, NEW h \in Block \cup {None}, Ask(t, None, h) PROVE IInv'
  BY <1>3, AskStep
<1>4. ASSUME NEW t \in Task, NEW b \in Block, Ask(t, Number[b], None) PROVE IInv'
  <2>1. Number[b] \in Nat BY ChainAssumption
  <2> QED BY <1>4, <2>1, AskStep
<1>5. ASSUME NEW b \in Block, NewHead(b) PROVE IInv' BY <1>5, NewHeadStep
<1>6. ASSUME NEW closed \in BOOLEAN, Restart(closed) PROVE IInv' BY <1>6, RestartStep
<1>7. CASE UNCHANGED vars
  <2>1. /\ UNCHANGED <<head, strayed>> /\ cache' = cache /\ call' = call
        /\ answered' = answered /\ disk' = disk
    BY <1>7 DEF vars
  <2> QED BY <2>1, Stays DEF IInv
<1> QED BY <1>1, <1>2, <1>3, <1>4, <1>5, <1>6, <1>7 DEF Next

LEMMA Inductive == Spec => []IInv
BY InitInv, NextStep, PTL DEF Spec
-----------------------------------------------------------------------------
(***************************************************************************)
(* What a call found is what it was asked for.                             *)
(***************************************************************************)
Past == {"version", "number", "metadata", "follow"}

Kept(c) ==
  Stands(c) =>
    /\ c.pc # "head"
    /\ c.pc \in Past \/ c.how = "returned" => c.h = c.asked
    /\ c.n # None => c.n \in Nat /\ c.asked = Canonical(c.n)

Keep == \A t \in Caller : Kept(call[t])

\* A number goes on standing for its block as long as nothing strays.
SameNumbers ==
  \A n \in Nat : ~strayed' /\ Canonical(n) # None => Canonical(n)' = Canonical(n)

LEMMA HeadStays ==
  ASSUME UNCHANGED head
  PROVE  SameNumbers
BY DEF SameNumbers, Canonical

LEMMA HeadGrows ==
  ASSUME IInv, NEW b \in Block, NewHead(b)
  PROVE  SameNumbers
<1> SUFFICES ASSUME NEW n \in Nat, ~strayed', Canonical(n) # None
             PROVE  Canonical(n)' = Canonical(n)
  BY DEF SameNumbers
<1>1. head \in Range(Chain[b]) /\ head' = b BY DEF NewHead
<1>2. Chain[b] \in [0..Number[b] -> Block] /\ Number[b] \in Nat /\ Number[head] \in Nat
  BY ChainAssumption DEF IInv
<1>3. PICK m \in 0..Number[b] : Chain[b][m] = head BY <1>1, <1>2 DEF Range
<1>4. Number[head] = m /\ \A i \in 0..m : Chain[head][i] = Chain[b][i]
  BY <1>3, ChainAssumption
<1>5. n <= m /\ Canonical(n) = Chain[head][n] BY <1>4 DEF Canonical
<1>6. n <= Number[b] /\ Canonical(n) = Chain[b][n] BY <1>2, <1>4, <1>5
<1> QED BY <1>1, <1>6 DEF Canonical

LEMMA KeptStays ==
  ASSUME SameNumbers, strayed => strayed', answered \subseteq answered', NEW c, Kept(c)
  PROVE  Kept(c)'
<1> SUFFICES ASSUME Stands(c)' PROVE Kept(c)' BY DEF Kept
<1>1. Stands(c) BY DEF Stands
<1>2. c.n # None => c.n \in Nat /\ c.asked = Canonical(c.n)'
  BY <1>1 DEF Stands, Kept, SameNumbers
<1> QED BY <1>1, <1>2 DEF Kept

\* From one state of a call to the next: it is about the same block.
Derived(c, d) ==
  \/ d = c
  \/ /\ d.n = c.n /\ d.asked = c.asked /\ d.pc # "head"
     /\ \/ d.pc \notin Past /\ d.how # "returned"
        \/ c.pc \in Past /\ d.h = c.h

LEMMA DerivedKept ==
  ASSUME NEW c, NEW d, Kept(c), Derived(c, d)
  PROVE  Kept(d)
BY DEF Kept, Derived, Stands

LEMMA AllDerived ==
  ASSUME Keep, UNCHANGED <<head, strayed, answered>>,
         \A u \in Caller : Derived(call[u], call'[u])
  PROVE  Keep'
<1> SUFFICES ASSUME NEW u \in Caller PROVE Kept(call[u])' BY DEF Keep
<1>1. PICK d : d = call'[u] OBVIOUS
<1>2. Kept(d) BY <1>1, DerivedKept DEF Keep
<1>3. Kept(d)' BY <1>2, KeptStays, HeadStays
<1> QED BY <1>1, <1>3

LEMMA OneDerived ==
  ASSUME IInv, Keep, SameNumbers, strayed => strayed', answered \subseteq answered',
         NEW t, NEW d, call' = [call EXCEPT ![t] = d], Kept(d)'
  PROVE  Keep'
<1> SUFFICES ASSUME NEW u \in Caller PROVE Kept(call[u])' BY DEF Keep
<1>1. CASE u = t
  <2>1. call'[u] = d BY <1>1 DEF IInv
  <2> QED BY <2>1
<1>2. CASE u # t
  <2>1. PICK c : c = call[u] /\ c = call'[u] BY <1>2 DEF IInv
  <2>2. Kept(c)' BY <2>1, KeptStays DEF Keep
  <2> QED BY <2>1, <2>2
<1> QED BY <1>1, <1>2

\* A call goes on, or ends, in one record.
LEMMA GotoRecord ==
  ASSUME IInv, NEW t \in Caller, NEW pc, NEW h, NEW v, Goto(t, pc, h, v)
  PROVE  \E d : /\ call' = [call EXCEPT ![t] = d] /\ d.pc = pc /\ d.h = h
                /\ d.n = call[t].n /\ d.asked = call[t].asked /\ d.how = call[t].how
<1>1. PICK c \in SoundCall(Fit) : c = call[t] BY DEF IInv
<1> DEFINE c1 == [c EXCEPT !.pc = pc]
           c2 == [c1 EXCEPT !.h = h]
           c3 == [c2 EXCEPT !.v = v]
           d == [n |-> c.n, asked |-> c.asked, got |-> c.got, how |-> c.how,
                 pc |-> pc, h |-> h, v |-> v]
<1>2. call' = [call EXCEPT ![t] = c3] BY <1>1 DEF Goto
<1>3. c1 = [n |-> c.n, asked |-> c.asked, got |-> c.got, how |-> c.how,
            pc |-> pc, h |-> c.h, v |-> c.v]
  BY DEF SoundCall, CallRecord
<1>4. c2 = [n |-> c.n, asked |-> c.asked, got |-> c.got, how |-> c.how,
            pc |-> pc, h |-> h, v |-> c.v]
  <2> HIDE DEF c1
  <2> QED BY <1>3
<1>5. c3 = d
  <2> HIDE DEF c2
  <2> QED BY <1>4
<1>6. d.pc = pc /\ d.h = h /\ d.n = c.n /\ d.asked = c.asked /\ d.how = c.how
  OBVIOUS
<1> HIDE DEF c3, d
<1> QED BY <1>1, <1>2, <1>5, <1>6

LEMMA FinishRecord ==
  ASSUME IInv, NEW t \in Caller, NEW how, NEW h, NEW runtime, Finish(t, how, h, runtime)
  PROVE  \E d : /\ call' = [call EXCEPT ![t] = d] /\ d.pc = "idle" /\ d.h = h
                /\ d.n = call[t].n /\ d.asked = call[t].asked /\ d.how = how
<1>1. PICK c : c = call[t] /\ c \in CallRecord(Fit) BY DEF IInv, SoundCall
<1>2. PICK d : d = [pc |-> "idle", n |-> c.n, h |-> h, v |-> None, how |-> how,
                    got |-> runtime, asked |-> c.asked]
  OBVIOUS
<1>3. call' = [call EXCEPT ![t] = d] BY <1>1, <1>2, DoneRecord DEF Finish
<1>4. /\ d.pc = "idle" /\ d.h = h /\ d.n = call[t].n /\ d.asked = call[t].asked
      /\ d.how = how
  BY <1>1, <1>2
<1> QED BY <1>3, <1>4

\* With the hash of the block it is about, a call goes on with it.
LEMMA WithHashKept ==
  ASSUME IInv, Keep, UNCHANGED <<head, strayed>>, answered \subseteq answered',
         NEW t \in Caller, NEW c, NEW h, WithHash(t, c, h),
         NEW r, r = call[t], Stands(r)' => h = r.asked
  PROVE  Keep'
<1>1. r = call[t] /\ Kept(r) BY DEF Keep
<1>2. \E d : call' = [call EXCEPT ![t] = d] /\ d.pc # "head" /\ d.h = h
              /\ d.n = r.n /\ d.asked = r.asked
  BY <1>1, GotoRecord, FinishRecord DEF WithHash
<1>3. PICK d : call' = [call EXCEPT ![t] = d] /\ d.pc # "head" /\ d.h = h
               /\ d.n = r.n /\ d.asked = r.asked
  BY <1>2
<1>4. Kept(r)' BY <1>1, KeptStays, HeadStays
<1>5. call[t].n = r.n /\ call[t].asked = r.asked BY <1>1
<1>6. Stands(d)' => h = d.asked
  <2>1. Stands(d)' => Stands(r)' BY <1>3 DEF Stands
  <2> QED BY <1>1, <1>3, <2>1
<1>7. Kept(d)' BY <1>3, <1>4, <1>6 DEF Kept, Stands
<1> QED BY <1>3, <1>7, OneDerived, HeadStays

LEMMA InitRuntimeKept ==
  ASSUME IInv, Keep, NEW t \in Caller, call[t].pc # "idle", InitRuntime(t),
         UNCHANGED <<head, strayed, answered>>
  PROVE  Keep'
<1>1. PICK r : r = call[t] /\ Kept(r) /\ r \in SoundCall(Fit) BY DEF Keep, IInv
<1>2. Kept(r)' BY <1>1, KeptStays, HeadStays
<1>3. CASE r.n # None
  <2> DEFINE n == r.n
             found == Retrieve(cache, n, None, None)
             hash == Get(found.cache.blocks, n)
  <2>1. n \in Nat /\ n # None BY <1>1, <1>3 DEF SoundCall, CallRecord
  <2>2. hash = None \/ <<n, hash>> \in BlockRows(Fit)
    <3>1. PICK c \in Caches(Fit) : c = cache BY DEF IInv
    <3> QED BY <2>1, <3>1, RetrieveBlock
  <2>3. found.runtime # None => hash # None
    <3>1. PICK c \in Caches(Fit) : c = cache BY DEF IInv
    <3>2. found.runtime # None => <<hash, found.runtime>> \in VersionRows
      BY <2>1, <3>1, RetrieveBlock
    <3> QED BY <3>2, ChainAssumption DEF VersionRows
  <2>4. Stands(r)' /\ hash # None => hash = r.asked
    <3> SUFFICES ASSUME Stands(r)', hash # None PROVE hash = r.asked OBVIOUS
    <3>1. ~strayed /\ Stands(r) BY <1>3 DEF Stands
    <3>2. hash \in Fit /\ Number[hash] = n BY <2>2 DEF BlockRows
    <3>3. Canonical(n) = hash BY <3>1, <3>2, OfChain DEF IInv
    <3> QED BY <1>1, <1>3, <3>1, <3>3 DEF Kept
  <2>5. IF found.runtime # None THEN Finish(t, "returned", hash, found.runtime)
        ELSE IF hash # None
             THEN \E c : WithHash(t, c, hash)
             ELSE Goto(t, "hash", None, None)
    BY <1>1, <1>3 DEF InitRuntime, WithNumber
  <2> HIDE DEF found, hash
  <2>6. CASE found.runtime # None
    <3>1. PICK d : /\ call' = [call EXCEPT ![t] = d] /\ d.pc = "idle" /\ d.h = hash
                   /\ d.n = call[t].n /\ d.asked = call[t].asked /\ d.how = "returned"
      <4>1. Finish(t, "returned", hash, found.runtime) BY <2>5, <2>6
      <4> QED BY <4>1, FinishRecord
    <3>2. Stands(d)' => Stands(r)' BY <1>1, <3>1 DEF Stands
    <3>3. Kept(d)' BY <1>1, <1>2, <2>3, <2>4, <2>6, <3>1, <3>2 DEF Kept
    <3> QED BY <3>1, <3>3, OneDerived, HeadStays
  <2>7. CASE found.runtime = None /\ hash # None
    BY <1>1, <2>4, <2>5, <2>7, WithHashKept
  <2>8. CASE found.runtime = None /\ hash = None
    <3>1. PICK d : /\ call' = [call EXCEPT ![t] = d] /\ d.pc = "hash"
                   /\ d.n = call[t].n /\ d.asked = call[t].asked /\ d.how = call[t].how
      <4>1. Goto(t, "hash", None, None) BY <2>5, <2>8
      <4> QED BY <4>1, GotoRecord
    <3>2. Stands(d)' => Stands(r)' BY <1>1, <3>1 DEF Stands
    <3>3. Sound(r) /\ d.pc = "hash" /\ d.how = r.how /\ d.n = r.n /\ d.asked = r.asked
      BY <1>1, <3>1 DEF SoundCall
    <3>4. Kept(d)' BY <1>1, <1>2, <3>2, <3>3 DEF Kept, Past, Sound
    <3> QED BY <3>1, <3>4, OneDerived, HeadStays
  <2> QED BY <2>6, <2>7, <2>8
<1>4. CASE r.n = None /\ r.asked # None
  <2>1. WithHash(t, cache, r.asked) BY <1>1, <1>4 DEF InitRuntime
  <2> QED BY <1>1, <2>1, WithHashKept
<1>5. CASE r.n = None /\ r.asked = None
  <2>1. Goto(t, "head", None, None) BY <1>1, <1>5 DEF InitRuntime
  <2>2. PICK d : /\ call' = [call EXCEPT ![t] = d] /\ d.asked = call[t].asked
    BY <2>1, GotoRecord
  <2>3. Kept(d)' BY <1>1, <1>5, <2>2 DEF Kept, Stands
  <2> QED BY <2>2, <2>3, OneDerived, HeadStays
<1> QED BY <1>3, <1>4, <1>5

LEMMA HashArrivesKept ==
  ASSUME IInv, Keep, NEW t \in Caller, HashArrives(t)
  PROVE  Keep'
<1>1. PICK r : r = call[t] /\ Kept(r) /\ r \in SoundCall(Fit) BY DEF Keep, IInv
<1>2. r.pc = "hash" /\ UNCHANGED <<head, strayed>> BY <1>1 DEF HashArrives
<1>3. PICK n \in Nat : n = r.n /\ n # None
  BY <1>1, <1>2, CacheAssumption DEF SoundCall, CallRecord, Sound
<1>4. PICK h \in {Canonical(n)} \cup {a[2] : a \in {b \in answered : b[1] = n}} :
        LET c == AddItem(cache, None, n, h, None)
        IN /\ IF h # None THEN WithHash(t, c, h)
              ELSE Goto(t, "head", None, None) /\ cache' = c
           /\ answered' = IF h # None \/ Disk THEN answered \cup {<<n, h>>}
                          ELSE answered
  BY <1>1, <1>3 DEF HashArrives
<1>5. answered \subseteq answered' BY <1>4
<1>6. Kept(r)' BY <1>1, <1>2, <1>5, KeptStays, HeadStays
<1>7. ASSUME Stands(r)' PROVE h = r.asked /\ h # None
  <2>1. /\ r.asked = Canonical(n) /\ r.asked # None /\ ~strayed
        /\ <<n, None>> \notin answered
    BY <1>1, <1>2, <1>3, <1>5, <1>7 DEF Stands, Kept
  <2>2. CASE h = Canonical(n) BY <2>1, <2>2
  <2>3. CASE \E a \in answered : a[1] = n /\ h = a[2]
    <3>1. PICK a \in answered : a[1] = n /\ h = a[2] /\ a \in Answers(Fit)
      BY <2>3 DEF IInv
    <3>2. a = <<n, h>> BY <3>1 DEF Answers
    <3>3. h # None BY <2>1, <3>2
    <3>4. h \in Fit /\ Number[h] = n BY <3>1, <3>3 DEF Answers
    <3> QED BY <2>1, <3>3, <3>4, OfChain DEF IInv
  <2> QED BY <2>2, <2>3
<1>8. CASE h # None
  <2>1. \E c : WithHash(t, c, h) BY <1>4, <1>8
  <2> QED BY <1>1, <1>2, <1>5, <1>7, <2>1, WithHashKept
<1>9. CASE h = None
  <2>1. Goto(t, "head", None, None) BY <1>4, <1>9
  <2>2. PICK d : /\ call' = [call EXCEPT ![t] = d]
                 /\ d.n = call[t].n /\ d.asked = call[t].asked
    BY <2>1, GotoRecord
  <2>3. ~Stands(d)' BY <1>1, <1>7, <1>9, <2>2 DEF Stands
  <2>4. Kept(d)' BY <2>3 DEF Kept
  <2> QED BY <1>2, <1>5, <2>2, <2>4, OneDerived, HeadStays
<1> QED BY <1>8, <1>9

\* The steps that leave a call about its block, or end it without a runtime.
LEMMA GotoDerived ==
  ASSUME IInv, NEW t \in Caller, NEW pc, NEW v, Goto(t, pc, call[t].h, v),
         call[t].pc \in Past, pc \in Past
  PROVE  \A u \in Caller : Derived(call[u], call'[u])
<1>1. PICK d : /\ call' = [call EXCEPT ![t] = d] /\ d.pc = pc /\ d.h = call[t].h
               /\ d.n = call[t].n /\ d.asked = call[t].asked
  BY GotoRecord
<1>2. Derived(call[t], d) BY <1>1 DEF Derived, Past
<1> QED BY <1>1, <1>2 DEF IInv, Derived

LEMMA FinishDerived ==
  ASSUME IInv, NEW t \in Caller, NEW how, NEW h, NEW runtime, Finish(t, how, h, runtime),
         how # "returned" \/ (call[t].pc \in Past /\ h = call[t].h)
  PROVE  \A u \in Caller : Derived(call[u], call'[u])
<1>1. PICK d : /\ call' = [call EXCEPT ![t] = d] /\ d.pc = "idle" /\ d.h = h
               /\ d.n = call[t].n /\ d.asked = call[t].asked /\ d.how = how
  BY FinishRecord
<1>2. Derived(call[t], d) BY <1>1 DEF Derived, Past
<1> QED BY <1>1, <1>2 DEF IInv, Derived

LEMMA DoneDerived ==
  ASSUME IInv, NEW u \in Caller, NEW how, NEW runtime,
         how # "returned" \/ call[u].pc \in Past
  PROVE  Derived(call[u], Done(call[u], how, call[u].h, runtime))
<1>1. PICK c : c = call[u] /\ c \in CallRecord(Fit) BY DEF IInv, SoundCall
<1>2. PICK d : d = [pc |-> "idle", n |-> c.n, h |-> c.h, v |-> None, how |-> how,
                    got |-> runtime, asked |-> c.asked]
  OBVIOUS
<1>3. Done(c, how, c.h, runtime) = d BY <1>1, <1>2, DoneRecord
<1>4. Derived(c, d) BY <1>1, <1>2 DEF Derived, Past
<1> QED BY <1>1, <1>3, <1>4

LEMMA RefuseDerived ==
  ASSUME IInv, NEW t \in Caller, Refuse(t)
  PROVE  \A u \in Caller : Derived(call[u], call'[u])
<1> SUFFICES ASSUME NEW u \in Caller PROVE Derived(call[u], call'[u]) OBVIOUS
<1>1. \/ call'[u] = call[u]
      \/ \E how \in {"raised", "cancelled"} :
           call'[u] = Done(call[u], how, call[u].h, None)
  BY DEF Refuse, Followers
<1>2. CASE call'[u] = call[u] BY <1>2 DEF Derived
<1>3. ASSUME NEW how \in {"raised", "cancelled"},
             call'[u] = Done(call[u], how, call[u].h, None)
      PROVE  Derived(call[u], call'[u])
  BY <1>3, DoneDerived
<1> QED BY <1>1, <1>2, <1>3

LEMMA SettleDerived ==
  ASSUME IInv, NEW t \in Caller, call[t].pc \in Past, NEW runtime, Settle(t, runtime)
  PROVE  \A u \in Caller : Derived(call[u], call'[u])
<1>1. CASE Refuse(t) BY <1>1, RefuseDerived
<1>2. CASE ~Refuse(t)
  <2> SUFFICES ASSUME NEW u \in Caller PROVE Derived(call[u], call'[u]) OBVIOUS
  <2>1. \/ call'[u] = call[u]
        \/ /\ call'[u] = Done(call[u], "returned", call[u].h, runtime)
           /\ call[u].pc \in Past
    BY <1>2 DEF Settle, Followers, Past
  <2>2. CASE call'[u] = call[u] BY <2>2 DEF Derived
  <2>3. CASE /\ call'[u] = Done(call[u], "returned", call[u].h, runtime)
             /\ call[u].pc \in Past
    BY <2>3, DoneDerived
  <2> QED BY <2>1, <2>2, <2>3
<1> QED BY <1>1, <1>2

LEMMA CancelStartupDerived ==
  ASSUME IInv, NEW t \in Caller, CancelStartup(t)
  PROVE  \A u \in Caller : Derived(call[u], call'[u])
<1> SUFFICES ASSUME NEW u \in Caller PROVE Derived(call[u], call'[u]) OBVIOUS
<1>1. CancelledCall(u) BY CancelStartupCalls
<1>2. PICK c : c = call[u] /\ c \in CallRecord(Fit) /\ Sound(c) BY DEF IInv, SoundCall
<1>3. CASE call'[u] = c BY <1>2, <1>3 DEF Derived
<1>4. CASE call'[u] = Done(call[u], "cancelled", call[u].h, None)
  BY <1>4, DoneDerived
<1>5. CASE c.pc = "follow" /\ call'[u] = [c EXCEPT !.pc = "orphan"]
  <2>1. PICK d : d = [c EXCEPT !.pc = "orphan"] OBVIOUS
  <2>2. d.n = c.n /\ d.asked = c.asked /\ d.pc = "orphan" /\ d.h = c.h
    BY <1>2, <2>1 DEF CallRecord
  <2>3. Derived(c, d) BY <1>5, <2>2 DEF Derived, Past
  <2> QED BY <1>2, <1>5, <2>1, <2>3
<1> QED BY <1>1, <1>2, <1>3, <1>4, <1>5 DEF CancelledCall

LEMMA AnswerKept ==
  ASSUME IInv, Keep, NEW t \in Caller, Answer(t)
  PROVE  Keep'
<1>1. CASE Begin(t)
  <2>1. call[t].pc = "begin" /\ InitRuntime(t) /\ UNCHANGED <<head, strayed, answered>>
    BY <1>1 DEF Begin
  <2> QED BY <2>1, InitRuntimeKept
<1>2. CASE StartupEnds(t)
  <2>1. call[t].pc = "startup" /\ UNCHANGED <<head, strayed, answered>>
    BY <1>2 DEF StartupEnds
  <2>2. CASE call[Startup].how = "returned"
    <3>1. InitRuntime(t) BY <1>2, <2>2 DEF StartupEnds
    <3> QED BY <2>1, <3>1, InitRuntimeKept
  <2>3. CASE call[Startup].how # "returned"
    <3>1. Finish(t, call[Startup].how, None, None) BY <1>2, <2>3 DEF StartupEnds
    <3> QED BY <2>1, <2>3, <3>1, FinishDerived, AllDerived
  <2> QED BY <2>2, <2>3
<1>3. CASE HashArrives(t) BY <1>3, HashArrivesKept
<1>4. CASE HeadArrives(t)
  <2>1. /\ call[t].pc = "head" /\ Goto(t, "version", head, None)
        /\ UNCHANGED <<head, strayed, answered>>
    BY <1>4 DEF HeadArrives
  <2>2. PICK d : /\ call' = [call EXCEPT ![t] = d]
                 /\ d.n = call[t].n /\ d.asked = call[t].asked
    BY <2>1, GotoRecord
  <2>3. PICK r : r = call[t] /\ Kept(r)' BY <2>1, KeptStays, HeadStays DEF Keep
  <2>4. ~Stands(r)' BY <2>1, <2>3 DEF Kept
  <2>5. ~Stands(d)' BY <2>2, <2>3, <2>4 DEF Stands
  <2>6. Kept(d)' BY <2>5 DEF Kept
  <2> QED BY <2>1, <2>2, <2>6, OneDerived, HeadStays
<1>5. CASE VersionArrives(t)
  <2>1. call[t].pc \in Past /\ UNCHANGED <<head, strayed, answered>>
    BY <1>5 DEF VersionArrives, Past
  <2> DEFINE h == call[t].h  v == VersionFor(h)
  <2>2. \/ Finish(t, "returned", h, v) \/ Finish(t, "cancelled", h, None)
        \/ Goto(t, "follow", h, v) \/ Goto(t, "number", h, v)
    BY <1>5 DEF VersionArrives
  <2> HIDE DEF v
  <2>3. \A u \in Caller : Derived(call[u], call'[u])
    <3>1. CASE Finish(t, "returned", h, v) BY <2>1, <3>1, FinishDerived
    <3>2. CASE Finish(t, "cancelled", h, None) BY <3>2, FinishDerived
    <3>3. ASSUME NEW pc \in {"follow", "number"}, Goto(t, pc, h, v)
          PROVE  \A u \in Caller : Derived(call[u], call'[u])
      BY <2>1, <3>3, GotoDerived DEF Past
    <3> QED BY <2>2, <3>1, <3>2, <3>3
  <2> QED BY <2>1, <2>3, AllDerived
<1>6. CASE NumberArrives(t)
  <2>1. /\ call[t].pc \in Past /\ UNCHANGED <<head, strayed, answered>>
        /\ Goto(t, "metadata", call[t].h, call[t].v)
    BY <1>6 DEF NumberArrives, Past
  <2>2. \A u \in Caller : Derived(call[u], call'[u])
    BY <2>1, GotoDerived DEF Past
  <2> QED BY <2>1, <2>2, AllDerived
<1>7. CASE MetadataArrives(t)
  <2>1. /\ call[t].pc \in Past /\ UNCHANGED <<head, strayed, answered>>
        /\ Settle(t, call[t].v)
    BY <1>7 DEF MetadataArrives, Past
  <2>2. \A u \in Caller : Derived(call[u], call'[u]) BY <2>1, SettleDerived
  <2> QED BY <2>1, <2>2, AllDerived
<1> QED BY <1>1, <1>2, <1>3, <1>4, <1>5, <1>6, <1>7 DEF Answer

LEMMA AskKept ==
  ASSUME IInv, Keep, NEW t, NEW n \in Nat \cup {None}, NEW h, Ask(t, n, h)
  PROVE  Keep'
<1>1. UNCHANGED <<head, answered>> /\ (strayed => strayed') BY DEF Ask
<1> DEFINE asked == IF n = None THEN h ELSE Canonical(n)
           pc == IF startup.waits /\ h = startup.hash THEN "startup" ELSE "begin"
           d == [pc |-> pc, n |-> n, h |-> None, v |-> None, how |-> "none",
                 got |-> None, asked |-> asked]
           c1 == [NoCall EXCEPT !.n = n]
           c2 == [c1 EXCEPT !.asked = asked]
<1>2. call' = [call EXCEPT ![t] = [c2 EXCEPT !.pc = pc]] BY DEF Ask
<1>3. n # None => n \in Nat /\ asked = Canonical(n) OBVIOUS
<1> HIDE DEF asked
<1>4. c1 = [pc |-> "idle", n |-> n, h |-> None, v |-> None, how |-> "none",
            got |-> None, asked |-> None]
  BY DEF NoCall
<1>5. c2 = [pc |-> "idle", n |-> n, h |-> None, v |-> None, how |-> "none",
            got |-> None, asked |-> asked]
  <2> HIDE DEF c1
  <2> QED BY <1>4
<1>6. [c2 EXCEPT !.pc = pc] = d
  <2> HIDE DEF c2, pc
  <2> QED BY <1>5
<1>7. PICK e : e = d OBVIOUS
<1>8. Kept(e)
  <2>1. /\ e.pc \in {"startup", "begin"} /\ e.how = "none" /\ e.n = n
        /\ e.asked = asked
    BY <1>7
  <2> QED BY <1>3, <2>1 DEF Kept, Past
<1>9. Kept(e)' BY <1>1, <1>8, KeptStays, HeadStays
<1> HIDE DEF d, c2
<1>10. call' = [call EXCEPT ![t] = e] BY <1>2, <1>6, <1>7
<1> QED BY <1>1, <1>9, <1>10, OneDerived, HeadStays

LEMMA InitializeKept ==
  ASSUME NEW at, NEW rows, NEW t \in Caller
  PROVE  LET c == Initialize(at, rows).call[t]
         IN c.pc \in {"begin", "idle"} /\ c.how = "none" /\ c.n = None
<1> DEFINE pc == IF t = Startup THEN "begin" ELSE "idle"
           c1 == [NoCall EXCEPT !.pc = pc]
           d == [pc |-> pc, n |-> None, h |-> None, v |-> None, how |-> "none",
                 got |-> None, asked |-> at]
<1>1. Initialize(at, rows).call[t] = [c1 EXCEPT !.asked = at] BY DEF Initialize
<1>2. c1 = [pc |-> pc, n |-> None, h |-> None, v |-> None, how |-> "none",
            got |-> None, asked |-> None]
  BY DEF NoCall
<1>3. [c1 EXCEPT !.asked = at] = d
  <2> HIDE DEF c1, pc
  <2> QED BY <1>2
<1>4. PICK e : e = d OBVIOUS
<1>5. e.pc \in {"begin", "idle"} /\ e.how = "none" /\ e.n = None BY <1>4
<1> QED BY <1>1, <1>3, <1>4, <1>5

LEMMA FreshKept ==
  ASSUME NEW c, c.pc \in {"begin", "idle"}, c.how = "none", c.n = None
  PROVE  Kept(c)
BY DEF Kept, Past

LEMMA KeepStep == IInv /\ Keep /\ [Next]_vars => Keep'
<1> SUFFICES ASSUME IInv, Keep, [Next]_vars PROVE Keep' OBVIOUS
<1>1. ASSUME NEW t \in Caller, Answer(t) PROVE Keep' BY <1>1, AnswerKept
<1>2. ASSUME NEW t \in Caller, CallFails(t) PROVE Keep'
  <2>1. UNCHANGED <<head, strayed, answered>> BY <1>2 DEF CallFails
  <2>2. Refuse(t) \/ Finish(t, "raised", call[t].h, None) BY <1>2 DEF CallFails
  <2>3. CASE Refuse(t) BY <2>1, <2>3, RefuseDerived, AllDerived
  <2>4. CASE Finish(t, "raised", call[t].h, None)
    BY <2>1, <2>4, FinishDerived, AllDerived
  <2> QED BY <2>2, <2>3, <2>4
<1>3. ASSUME NEW t \in Caller, CancelStartup(t) PROVE Keep'
  <2>1. UNCHANGED <<head, strayed, answered>> BY <1>3 DEF CancelStartup
  <2> QED BY <1>3, <2>1, CancelStartupDerived, AllDerived
<1>4. ASSUME NEW t \in Task, NEW h \in Block \cup {None}, Ask(t, None, h) PROVE Keep'
  BY <1>4, AskKept
<1>5. ASSUME NEW t \in Task, NEW b \in Block, Ask(t, Number[b], None) PROVE Keep'
  <2>1. Number[b] \in Nat BY ChainAssumption
  <2> QED BY <1>5, <2>1, AskKept
<1>6. ASSUME NEW b \in Block, NewHead(b) PROVE Keep'
  <2>1. call' = call /\ answered' = answered /\ (strayed => strayed')
    BY <1>6 DEF NewHead
  <2>2. SameNumbers BY <1>6, HeadGrows
  <2>3. ASSUME NEW u \in Caller PROVE Kept(call[u])'
    <3>1. PICK c : c = call[u] /\ c = call'[u] BY <2>1
    <3>2. Kept(c)' BY <2>1, <2>2, <3>1, KeptStays DEF Keep
    <3> QED BY <3>1, <3>2
  <2> QED BY <2>3 DEF Keep
<1>7. ASSUME NEW closed \in BOOLEAN, Restart(closed) PROVE Keep'
  <2>1. call' = Initialize(head, disk').call BY <1>7 DEF Restart
  <2>2. ASSUME NEW u \in Caller PROVE Kept(call[u])'
    <3>1. PICK at, rows : at = head /\ rows = disk' OBVIOUS
    <3>2. call'[u] = Initialize(at, rows).call[u] BY <2>1, <3>1
    <3>3. PICK c : c = Initialize(at, rows).call[u]
                   /\ c.pc \in {"begin", "idle"} /\ c.how = "none" /\ c.n = None
      BY InitializeKept
    <3>4. Kept(c)' BY <3>3 DEF Kept, Past
    <3> QED BY <3>2, <3>3, <3>4
  <2> QED BY <2>2 DEF Keep
<1>8. CASE UNCHANGED vars
  <2>1. call' = call /\ UNCHANGED <<head, strayed, answered>> BY <1>8 DEF vars
  <2>2. \A u \in Caller : Derived(call[u], call'[u]) BY <2>1 DEF Derived
  <2> QED BY <2>1, <2>2, AllDerived
<1> QED BY <1>1, <1>2, <1>3, <1>4, <1>5, <1>6, <1>7, <1>8 DEF Next

LEMMA KeepInit == Init => Keep
<1> SUFFICES ASSUME Init, NEW u \in Caller PROVE Kept(call[u]) BY DEF Keep
<1>1. call = Initialize(Genesis, NoRows).call BY DEF Init
<1> QED BY <1>1, InitializeKept, FreshKept

LEMMA Keeping == Spec => []Keep
<1>1. IInv /\ Keep /\ [Next]_vars => Keep' BY KeepStep
<1> QED BY <1>1, KeepInit, Inductive, PTL DEF Spec

\* init_runtime returns the runtime that executed the block it is asked about
\* (async_substrate.py:1510-1565), however the calls overlap.
THEOREM RuntimesAreRight == Spec => []RightRuntime
<1>1. IInv /\ Keep => RightRuntime
  <2> SUFFICES ASSUME IInv, Keep, NEW t \in Caller, call[t].how = "returned",
                      ~Misattributed(BlockOf(call[t]))
               PROVE  IsRuntimeOf(call[t].got, BlockOf(call[t]))
    BY DEF RightRuntime
  <2>1. BlockOf(call[t]) = call[t].h BY DEF BlockOf, Keep, Kept
  <2> QED BY <2>1 DEF IInv, SoundCall, Sound
<1> QED BY <1>1, Inductive, Keeping, PTL

\* The four tables in memory and the three on disk agree with the chain
\* (types.py:105-215, utils/cache.py:174-252).
THEOREM CachesCohere == Spec => []CacheCoherent
<1>1. IInv => CacheCoherent
  <2> SUFFICES ASSUME IInv PROVE CacheCoherent OBVIOUS
  <2>1. PICK F : cache \in Caches(F) /\ disk \in Disks(F) BY DEF IInv
  <2>2. /\ cache.blocks \in Seq(BlockRows(F)) /\ cache.reverse \in Seq(HashRows)
        /\ cache.hashes \in Seq(VersionRows)
    BY <2>1, CacheFields DEF Blocks
  <2>3. /\ Range(cache.blocks) \in SUBSET BlockRows(F)
        /\ Range(cache.reverse) \in SUBSET HashRows
        /\ Range(cache.hashes) \in SUBSET VersionRows
    BY <2>2, RangeOf
  <2>4. disk.blocks \in SUBSET BlockRows(F) /\ disk.hashes \in SUBSET VersionRows
    BY <2>1 DEF Disks
  <2> QED BY <2>3, <2>4 DEF CacheCoherent, BlockRows, HashRows, VersionRows
<1> QED BY <1>1, Inductive, PTL

\* A number that is cached stays the number of its block while the chain only
\* grows (async_substrate.py:2861-2889): a block that does not exist yet is
\* never cached as the head.
THEOREM NumbersStay == Spec => []NumbersStand
<1>1. IInv => NumbersStand
  <2> SUFFICES ASSUME IInv, ~strayed,
                      NEW e \in Range(cache.blocks) \cup disk.blocks
               PROVE  e[2] = Canonical(e[1])
    BY DEF NumbersStand
  <2>1. PICK F : F = Fit /\ cache \in Caches(F) /\ disk \in Disks(F) BY DEF IInv
  <2>2. cache.blocks \in Seq(BlockRows(F)) BY <2>1, CacheFields DEF Blocks
  <2>3. Range(cache.blocks) \in SUBSET BlockRows(F) BY <2>2, RangeOf
  <2>4. disk.blocks \in SUBSET BlockRows(F) BY <2>1 DEF Disks
  <2>5. e[2] \in Fit /\ Number[e[2]] = e[1] BY <2>1, <2>3, <2>4 DEF BlockRows
  <2> QED BY <2>5, OfChain DEF IInv
<1> QED BY <1>1, Inductive, PTL
-----------------------------------------------------------------------------
(***************************************************************************)
(* The synchronous interface, which finds the cache as the asynchronous    *)
(* one leaves it.                                                          *)
(***************************************************************************)
LEMMA SyncFreshRight ==
  ASSUME NEW F, NEW c \in Caches(F), NEW now, NEW h \in Block
  PROVE  IsRuntimeOf(SyncFresh(c, now, h).runtime, h)
<1> DEFINE v == VersionFor(h)  found == Retrieve(c, None, None, v)
<1>1. v # None BY ChainAssumption, CacheAssumption DEF VersionFor
<1> HIDE DEF v
<1>2. found = ByVersion(c, v) BY <1>1 DEF Retrieve
<1>3. found.runtime # None => found.runtime = v
  BY <1>2, VersionFound DEF ByVersion
<1> QED BY <1>3 DEF SyncFresh, IsRuntimeOf, VersionFor, v

LEMMA SyncWithHashRight ==
  ASSUME NEW F, F \subseteq Block, NEW c \in Caches(F), NEW now, NEW h \in F
  PROVE  Misattributed(h) \/ IsRuntimeOf(SyncWithHash(c, now, h).runtime, h)
<1> DEFINE found == Retrieve(c, None, h, None)
<1>1. /\ found.cache \in Caches(F) /\ h \in Block
      /\ found.runtime # None => <<h, found.runtime>> \in VersionRows
  BY RetrieveHash
<1>2. CASE found.runtime # None BY <1>1, <1>2 DEF SyncWithHash, VersionRows
<1>3. CASE found.runtime = None BY <1>1, <1>3, SyncFreshRight DEF SyncWithHash
<1> QED BY <1>2, <1>3

\* A number stands for the block the chain has there, or, when that is
\* remembered not to exist, for the head.
LEMMA SyncNumberRight ==
  ASSUME IInv, ~strayed, NEW h \in Block, OnChain(h), ~Misattributed(h), NEW now,
         NEW m \in {h, None}
  PROVE  LET runtime == SyncInitRuntime(cache, now, Number[h], None, m).runtime
         IN IsRuntimeOf(runtime, h) \/ (m = None /\ IsRuntimeOf(runtime, head))
<1> DEFINE n == Number[h]
           found == Retrieve(cache, n, None, None)
           hash == Get(found.cache.blocks, n)
           asked == SyncGetBlockHash(found.cache, n, m)
<1>1. n \in Nat /\ n # None /\ None \notin Block BY ChainAssumption, CacheAssumption
<1>2. PICK F : F = Fit /\ F \subseteq Block /\ h \in F /\ cache \in Caches(F)
  BY DEF Fit, IInv
<1>3. Canonical(n) = h /\ \A b \in F : Canonical(Number[b]) = b
  BY <1>2, OfChain DEF IInv
<1>4. /\ found.cache \in Caches(F)
      /\ hash = None \/ <<n, hash>> \in BlockRows(F)
      /\ found.runtime # None => <<hash, found.runtime>> \in VersionRows
  BY <1>1, <1>2, RetrieveBlock
<1>5. hash = None \/ hash = h BY <1>3, <1>4 DEF BlockRows
<1> HIDE DEF n, found, hash
<1>6. CASE found.runtime # None
  <2>1. SyncInitRuntime(cache, now, n, None, m) = found
    BY <1>1, <1>6 DEF SyncInitRuntime, found
  <2>2. <<h, found.runtime>> \in VersionRows BY <1>1, <1>4, <1>5, <1>6 DEF VersionRows
  <2> QED BY <2>1, <2>2 DEF VersionRows, n
<1>7. CASE found.runtime = None
  <2>1. asked.hash = h \/ (m = None /\ asked.hash = None)
    BY <1>3, <1>5 DEF SyncGetBlockHash, hash
  <2>2. asked.cache \in Caches(F)
    <3>1. [found.cache EXCEPT !.blocks = Used(found.cache.blocks, n)] \in Caches(F)
      BY <1>4, Used4, CacheFields
    <3>2. <<n, h>> \in BlockRows(F) BY <1>1, <1>2 DEF BlockRows, n
    <3>3. AddItem(found.cache, None, n, m, None) \in Caches(F)
      BY <1>2, <1>4, <3>2, AddItemKeeps
    <3> QED BY <1>3, <3>1, <3>3 DEF SyncGetBlockHash
  <2>3. CASE asked.hash = h
    <3>1. SyncInitRuntime(cache, now, n, None, m) = SyncWithHash(asked.cache, now, h)
      BY <1>1, <1>7, <2>3 DEF SyncInitRuntime, found
    <3> QED BY <1>2, <2>2, <3>1, SyncWithHashRight DEF n
  <2>4. CASE m = None /\ asked.hash = None
    <3>1. SyncInitRuntime(cache, now, n, None, m) = SyncFresh(asked.cache, now, head)
      BY <1>1, <1>7, <2>4 DEF SyncInitRuntime, found
    <3> QED BY <2>2, <2>4, <3>1, SyncFreshRight DEF n, IInv
  <2> QED BY <2>1, <2>3, <2>4
<1> QED BY <1>6, <1>7

\* Whatever the asynchronous interface has left in the cache, the synchronous
\* one finds the right runtime for every block (sync_substrate.py:745-806), or,
\* by number, that of the head if it remembers that there is no such block.
THEOREM SyncStaysRight == Spec => []SyncIsRight
<1>1. IInv => SyncIsRight
  <2> SUFFICES
        ASSUME IInv, NEW now \in Version \cup {None}, NEW h \in Block
        PROVE  LET ByHashOf == SyncInitRuntime(cache, now, None, h, None).runtime
                   ByNumber(m) == SyncInitRuntime(cache, now, Number[h], None, m).runtime
                   OfHead == SyncInitRuntime(cache, now, None, None, None).runtime
               IN /\ Misattributed(h) \/ IsRuntimeOf(ByHashOf, h)
                  /\ ~strayed /\ OnChain(h) /\ ~Misattributed(h) =>
                       /\ IsRuntimeOf(ByNumber(h), h)
                       /\ \/ IsRuntimeOf(ByNumber(None), h)
                          \/ IsRuntimeOf(ByNumber(None), head)
                  /\ IsRuntimeOf(OfHead, head)
    BY DEF SyncIsRight
  <2>1. cache \in Caches(Block)
    <3>1. PICK F \in SUBSET Block : cache \in Caches(F) BY DEF IInv, Fit
    <3>2. BlockRows(F) \subseteq BlockRows(Block) BY DEF BlockRows
    <3>3. Blocks(F) \subseteq Blocks(Block) BY <3>2 DEF Blocks
    <3> QED BY <3>1, <3>3 DEF Caches
  <2>2. Misattributed(h) \/ IsRuntimeOf(SyncWithHash(cache, now, h).runtime, h)
    BY <2>1, SyncWithHashRight
  <2>3. SyncInitRuntime(cache, now, None, h, None) = SyncWithHash(cache, now, h)
    BY ChainAssumption DEF SyncInitRuntime
  <2>4. IsRuntimeOf(SyncInitRuntime(cache, now, None, None, None).runtime, head)
    BY <2>1, SyncFreshRight DEF SyncInitRuntime, IInv
  <2>5. ASSUME ~strayed, OnChain(h), ~Misattributed(h), NEW m \in {h, None}
        PROVE  LET runtime == SyncInitRuntime(cache, now, Number[h], None, m).runtime
               IN IsRuntimeOf(runtime, h) \/ (m = None /\ IsRuntimeOf(runtime, head))
    BY <2>5, SyncNumberRight
  <2>6. h # None BY ChainAssumption
  <2> QED BY <2>2, <2>3, <2>4, <2>5, <2>6
<1> QED BY <1>1, Inductive, PTL
=============================================================================
