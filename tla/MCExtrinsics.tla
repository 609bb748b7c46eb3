---------------------------- MODULE MCExtrinsics ----------------------------
(***************************************************************************)
(* Two tasks or one caller, two extrinsics, one trouble, two blocks        *)
(* beside the three there are.  Others may look up block 3, in which the   *)
(* second era begins, at any time.                                         *)
(***************************************************************************)
EXTENDS ExtrinsicsProperties

Plan(source, wait, mortal) == [source |-> source, wait |-> wait, mortal |-> mortal]
FourPlans == {Plan("cache", "finality", TRUE), Plan("account", "finality", FALSE),
              Plan("rpc", "block", TRUE), Plan("rpc", "nothing", FALSE)}
=============================================================================
