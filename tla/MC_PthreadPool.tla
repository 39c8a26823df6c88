--------------------------- MODULE MC_PthreadPool ---------------------------
(***************************************************************************)
(* Instances of PthreadPool for TLC.                                       *)
(***************************************************************************)
EXTENDS PthreadPool
=============================================================================
