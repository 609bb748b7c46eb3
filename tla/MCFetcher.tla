----------------------------- MODULE MCFetcher -----------------------------
(***************************************************************************)
(* A small instance of the calls of cached methods for TLC.                *)
(***************************************************************************)
EXTENDS FetcherProperties, TLC

CONSTANTS a1, a2, a3, a4

Three == {a1, a2, a3}
Four == {a1, a2, a3, a4}
Symmetry == Permutations(Call)
=============================================================================
