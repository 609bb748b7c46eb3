----------------------------- MODULE MCRuntime -----------------------------
(***************************************************************************)
(* A small chain for TLC: an upgrade on one fork and not on the other.     *)
(***************************************************************************)
EXTENDS RuntimeProperties

CONSTANTS t1, t2, g, a1, a2, b1

One == {t1}
Two == {t1, t2}
Blocks == {g, a1, a2, b1}
Parents == (g :> g) @@ (a1 :> g) @@ (a2 :> a1) @@ (b1 :> g)
Numbers == (g :> 0) @@ (a1 :> 1) @@ (a2 :> 2) @@ (b1 :> 1)
ChainTo[b \in Blocks] ==
  (Numbers[b] :> b) @@ (IF b = g THEN <<>> ELSE ChainTo[Parents[b]])
Specs == (g :> 1) @@ (a1 :> 2) @@ (a2 :> 2) @@ (b1 :> 1)

\* The beginning of one fork.
Few == {g, a1}
Short(f) == [b \in Few |-> f[b]]
FewParents == Short(Parents)
FewNumbers == Short(Numbers)
FewSpecs == Short(Specs)
FewChains == Short(ChainTo)

\* Version 1 from the first block on, version 2 from block 2 on, and version 3
\* from block 3 on, which is not there yet.
Table == {<<0, 1>>, <<2, 2>>}
NoTable == {}
LongTable == Table \cup {<<3, 3>>}
=============================================================================
