----------------------------- MODULE MCFailover -----------------------------
(***************************************************************************)
(* Two fallback chains and an archive node; two tasks, or one caller.      *)
(***************************************************************************)
EXTENDS FailoverProperties

CONSTANTS main, backup, second, pastnode

TwoFallbacks == <<backup, second>>
OneArchive == <<pastnode>>
=============================================================================
