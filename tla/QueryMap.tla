----------------------------- MODULE QueryMap -----------------------------
(***************************************************************************)
(* query_map of the asynchronous interface and the result it returns, an   *)
(* iterator that fetches the next page when its buffer runs dry, while the *)
(* map changes on chain.                                                   *)
(*                                                                         *)
(* The map is a double map.  A storage key is the pair of its hashed       *)
(* parameters; pairs are ordered as their keys are in the trie, and those  *)
(* that share a prefix are contiguous.  <<0, 0>> stands for the prefix as  *)
(* an offset and for None as last_key.                                     *)
(***************************************************************************)
EXTENDS Integers, Sequences, FiniteSets, SequencesExt

CONSTANTS
  Width,     \* parameters range over 1..Width
  Query,     \* the queries that are made
  Writes,    \* bound on the changes of the map
  Faults     \* bound on the node calls that fail

ASSUME QueryMapAssumption ==
  /\ Width \in Nat \ {0} /\ Writes \in Nat /\ Faults \in Nat
  /\ \A q \in Query : /\ q.page \in Nat /\ q.max \in Int /\ q.max >= -1
                      /\ q.start \in Nat \X Nat

VARIABLES
  q,         \* the arguments of the query; -1 is None for max
  map,       \* the keys the map has at the tip of the chain
  held,      \* the keys it had at the block that is queried
  pc,        \* the call under way
  start,     \* the offset of the request under way
  keys,      \* the keys of the page whose values are awaited
  result,    \* AsyncQueryMapResult, once it exists
  yielded,   \* history: what the iteration has handed out
  stable,    \* history: keys present ever since the query began
  left       \* what remains of Writes and Faults

vars == <<q, map, held, pc, start, keys, result, yielded, stable, left>>

Key == (1..Width) \X (1..Width)
Nowhere == <<0, 0>>

Before(j, k) == j[1] < k[1] \/ (j[1] = k[1] /\ j[2] < k[2])

\* The keys in the order of the trie: the n-th has n - 1 of them before it.
Rank(set, k) == Cardinality({j \in set : Before(j, k)})
Sorted(set) ==
  [n \in 1..Cardinality(set) |-> CHOOSE k \in set : Rank(set, k) = n - 1]
-----------------------------------------------------------------------------
(***************************************************************************)
(* The storage key of the map with the parameters given, the node's        *)
(* answers, and the decoding of a page.                                    *)
(***************************************************************************)

\* StorageKey.generate: one hash per parameter given, after those of pallet
\* and item; a key of the map has it as prefix exactly if it begins with them.
HasPrefix(k, params) == SubSeq(k, 1, Len(params)) = params

\* state_getKeysPaged and state_getKeys.
AllKeys(view, params) == {k \in view : HasPrefix(k, params)}
PagedKeys(view, params, count, from) ==
  LET after == Sorted({k \in AllKeys(view, params) : Before(from, k)})
  IN SubSeq(after, 1, IF count < Len(after) THEN count ELSE Len(after))

\* Keys of hashers that do not end in the parameter cannot be read back.
HashLength == [Blake2_128Concat |-> 16, Twox64Concat |-> 8, Identity |-> 0]
Readable(query) ==
  \A n \in Len(query.params) + 1 .. 2 : query.hashers[n] \in DOMAIN HashLength

\* The prefix is stripped: what is left of the parameters keys the record.
ItemKey(k, params) == SubSeq(k, Len(params) + 1, 2)
DecodePage(page, params) == [n \in DOMAIN page |-> ItemKey(page[n], params)]

\* The block that is queried: one given, or the last one used; else the tip.
CurrentBlock(query) == query.block \/ (query.reuse /\ query.used)
View == IF CurrentBlock(q) THEN held ELSE map

\* A page is never larger than max_results.
PageSize == IF q.max # -1 /\ q.max < q.page THEN q.max ELSE q.page
-----------------------------------------------------------------------------
NoResult == [made |-> FALSE, size |-> 0, records |-> <<>>, buffer |-> <<>>,
             last |-> Nowhere, complete |-> FALSE]

Init ==
  /\ q \in Query
  /\ map \in SUBSET Key
  /\ held = map
  /\ pc = "called"
  /\ start = Nowhere
  /\ keys = <<>>
  /\ result = NoResult
  /\ yielded = <<>>
  /\ stable = map
  /\ left = [writes |-> Writes, faults |-> Faults]

\* The map changes in a new block; a pinned query does not see it.
Write ==
  /\ left.writes > 0 /\ left' = [left EXCEPT !.writes = @ - 1]
  /\ pc \notin {"over", "raised"}
  /\ \E k \in Key :
       map' = IF k \in map THEN map \ {k} ELSE map \cup {k}
  /\ stable' = stable \cap map'
  /\ UNCHANGED <<q, held, pc, start, keys, result, yielded>>

\* query_map as called by the application: what it checks before it asks.
Call ==
  /\ pc = "called"
  /\ IF Len(q.params) > 1 \/ q.plain
     THEN pc' = "raised" /\ UNCHANGED start
     ELSE pc' = "keys" /\ start' = q.start
  /\ UNCHANGED <<q, map, held, keys, result, yielded, stable, left>>

\* fully_exhaust is not passed on to the pages that follow.
Exhausts == q.exhaust /\ ~result.made

MutAdvance(page) == result.last

\* last_key is the last key of the page, None if it is empty.
Advance(page) == IF page = <<>> THEN Nowhere ELSE Last(page)

\* AsyncQueryMapResult is made from the first page.
NewResult(page) ==
  [made |-> TRUE, size |-> PageSize, records |-> DecodePage(page, q.params),
   buffer |-> page, last |-> Advance(page), complete |-> FALSE]

MutShort(page) == Len(page) <= result.size
Short(page) == Len(page) < result.size

\* retrieve_next_page and the rest of __anext__, which hands out the first
\* record of the page at once, or ends the iteration.
NextPage(page) ==
  [result EXCEPT !.complete = @ \/ Short(page) \/ page = <<>>,
                 !.last = Advance(page),
                 !.records = @ \o DecodePage(page, q.params),
                 !.buffer = IF page = <<>> THEN <<>> ELSE Tail(page)]

Deliver(page) ==
  IF result.made
  THEN /\ result' = NextPage(page)
       /\ yielded' = yielded \o SubSeq(page, 1, IF page = <<>> THEN 0 ELSE 1)
       /\ pc' = IF page = <<>> THEN "over" ELSE "ready"
  ELSE /\ result' = NewResult(page)
       /\ pc' = "ready"
       /\ UNCHANGED yielded

\* The keys of the page arrive.  Batches of size zero are a ValueError.
KeysArrive ==
  /\ pc = "keys"
  /\ LET found == IF Exhausts THEN Sorted(AllKeys(View, q.params))
                  ELSE PagedKeys(View, q.params, PageSize, start)
     IN \/ found = <<>> /\ Deliver(<<>>) /\ UNCHANGED keys
        \/ /\ found # <<>> /\ ~(Exhausts /\ PageSize = 0)
           /\ pc' = "values" /\ keys' = found
           /\ UNCHANGED <<result, yielded>>
        \/ /\ found # <<>> /\ Exhausts /\ PageSize = 0
           /\ pc' = "raised" /\ UNCHANGED <<keys, result, yielded>>
  /\ UNCHANGED <<q, map, held, start, stable, left>>

\* The values of the page arrive.  A value gone since the keys were read
\* decodes from no bytes, which some types allow and others do not.
ValuesArrive ==
  /\ pc = "values"
  /\ \/ /\ Readable(q) /\ Deliver(keys)
     \/ /\ ~Readable(q) \/ ~(Range(keys) \subseteq View)
        /\ pc' = "raised" /\ UNCHANGED <<result, yielded>>
  /\ keys' = <<>>
  /\ UNCHANGED <<q, map, held, start, stable, left>>

\* A node call fails: without a result there is none; an iteration can be
\* resumed, and asks for the same page again.
CallFails ==
  /\ pc \in {"keys", "values"}
  /\ left.faults > 0 /\ left' = [left EXCEPT !.faults = @ - 1]
  /\ pc' = IF result.made THEN "ready" ELSE "raised"
  /\ keys' = <<>>
  /\ UNCHANGED <<q, map, held, start, result, yielded, stable>>

\* get_next_record: the iteration takes a record from the buffer.
Take ==
  /\ pc = "ready" /\ result.buffer # <<>>
  /\ yielded' = Append(yielded, Head(result.buffer))
  /\ result' = [result EXCEPT !.buffer = Tail(@)]
  /\ UNCHANGED <<q, map, held, pc, start, keys, stable, left>>

MutRefill ==
  /\ pc = "ready" /\ result.buffer = <<>> /\ ~result.complete
  /\ pc' = "keys" /\ start' = result.last
  /\ UNCHANGED <<q, map, held, keys, result, yielded, stable, left>>

\* The buffer is empty: __anext__ ends or asks for the page after last_key.
\* A last_key of None is no offset: that page is the first one of the map.
Refill ==
  /\ pc = "ready" /\ result.buffer = <<>>
  /\ IF result.complete
     THEN pc' = "over" /\ UNCHANGED start
     ELSE pc' = "keys" /\ start' = result.last
  /\ UNCHANGED <<q, map, held, keys, result, yielded, stable, left>>

Iterate == Call \/ KeysArrive \/ ValuesArrive \/ Take \/ Refill
Next == Iterate \/ CallFails \/ Write

\* Node calls are answered or fail, and the application goes on iterating.
Spec == Init /\ [][Next]_vars /\ WF_vars(Iterate)
=============================================================================
