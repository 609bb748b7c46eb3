----------------------------- MODULE MCQueryMap -----------------------------
(***************************************************************************)
(* Small instances of query_map for TLC.                                   *)
(***************************************************************************)
EXTENDS QueryMapProperties

Good == <<"Blake2_128Concat", "Twox64Concat">>
Default == [page |-> 2, max |-> -1, start |-> Nowhere, params |-> <<>>,
            hashers |-> Good, plain |-> FALSE, exhaust |-> FALSE,
            block |-> TRUE, reuse |-> FALSE, used |-> FALSE]

\* Whole maps, one page or several, at a block, at the last block and the tip.
Blocks == {[Default EXCEPT !.block = b, !.reuse = ~b, !.used = u] :
             b \in BOOLEAN, u \in BOOLEAN}
Queries ==
  {[d EXCEPT !.page = p, !.max = m, !.exhaust = x] :
     d \in Blocks, p \in {1, 2}, m \in {-1, 0, 1, 3}, x \in BOOLEAN}
  \cup {[d EXCEPT !.start = s, !.params = p] :
     d \in Blocks, s \in {<<1, 2>>, <<2, 2>>}, p \in {<<>>, <<1>>}}
  \cup {[Default EXCEPT !.params = <<2>>],
        [Default EXCEPT !.params = <<1, 1>>],
        [Default EXCEPT !.plain = TRUE],
        [Default EXCEPT !.hashers[2] = "Twox128"]}
=============================================================================
