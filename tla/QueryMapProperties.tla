------------------------- MODULE QueryMapProperties -------------------------
(***************************************************************************)
(* What an iteration over query_map must hand out.                         *)
(***************************************************************************)
EXTENDS QueryMap

(***************************************************************************)
(* The synchronous interface, as a function of what the map holds: its     *)
(* query_map, the pages that follow and the iteration to its end.          *)
(***************************************************************************)

SyncQueryMap(view, from) ==
  LET page == PagedKeys(view, q.params, PageSize, from)
  IN [records |-> page, size |-> PageSize, last |-> Advance(page)]

SyncRetrieveNextPage(view, res) == SyncQueryMap(view, res.last)

\* The iteration after n more pages; a page that is empty or short is the last.
SyncIterate(view) ==
  LET first == SyncQueryMap(view, q.start)
      iterate[n \in Nat] ==
        IF n = 0 THEN [res |-> first, out |-> first.records, over |-> FALSE]
        ELSE LET before == iterate[n - 1]
                 next == SyncRetrieveNextPage(view, before.res)
             IN IF before.over THEN before
                ELSE [res |-> next, out |-> before.out \o next.records,
                      over |-> next.records = <<>> \/ Len(next.records) < next.size]
  IN iterate

\* Every page but the last has a record.
SyncAllRecords(view) == SyncIterate(view)[Cardinality(view) + 1].out
-----------------------------------------------------------------------------
Pinned == CurrentBlock(q)

\* The first page was empty, so the offset of the query has been forgotten.
Forgotten == q.start # Nowhere /\ PagedKeys(held, q.params, PageSize, q.start) = <<>>

\* The records of the map at the block that is queried, after the offset, which
\* fully_exhaust disregards.
Wanted ==
  Sorted({k \in AllKeys(held, q.params) : q.exhaust \/ Before(q.start, k)})

\* What max_results promises is open (MaxResultsHonoured): only a query that
\* does not set it is expected to go on to the end of the map.
Unlimited == q.max = -1

\* At a given block the iteration yields the keys after the offset, each once
\* and in order, and, if their number is not limited, ends after the last of
\* them, though pages are asked for one by one, calls fail and are repeated,
\* and the chain goes on.  Batches of no key and forgotten offsets are excluded.
PinnedIsExact ==
  Pinned /\ ~Forgotten /\ PageSize > 0 =>
    /\ IsPrefix(yielded, Wanted)
    /\ pc = "over" /\ Unlimited => yielded = Wanted

\* The asynchronous iteration over a block yields what the synchronous one does.
AgreesWithSync ==
  Pinned /\ ~q.exhaust /\ pc = "over" => yielded = SyncAllRecords(held)

\* At the tip, while the map changes between the calls, no record is handed out
\* twice and the order of the keys is kept.
Increasing ==
  \A m, n \in DOMAIN yielded : m < n => Before(yielded[m], yielded[n])

\* At the tip no record is missed that was there from the first call to the
\* end, if the number of records is not limited.
NothingSkipped ==
  pc = "over" /\ Unlimited /\ PageSize > 0 =>
    {k \in AllKeys(stable, q.params) : q.exhaust \/ Before(q.start, k)}
      \subseteq Range(yielded)

\* The iteration ends, also when the last page is full or empty.
IterationEnds == <>(pc \in {"over", "raised"})

\* max_results: "the maximum of results required, if set the query will stop
\* fetching results when number is reached".
MaxResultsHonoured == q.max # -1 => Len(yielded) <= q.max

\* start_key: "The storage key used as offset for the results, for pagination
\* purposes".
OffsetHonoured ==
  ~q.exhaust => \A k \in Range(yielded) : Before(q.start, k)
=============================================================================
