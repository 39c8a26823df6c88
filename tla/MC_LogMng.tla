----------------------------- MODULE MC_LogMng -----------------------------
(***************************************************************************)
(* Instances of LogMng for TLC: two callers, files of two items, sizes in  *)
(* units of 64 bytes rounded so that a header is longer than an item.      *)
(***************************************************************************)
EXTENDS LogMngRefinement, TLC

Symmetry == Permutations(Producers)
=============================================================================
