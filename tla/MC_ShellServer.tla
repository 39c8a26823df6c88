--------------------------- MODULE MC_ShellServer ---------------------------
(***************************************************************************)
(* Instances of ShellServer for TLC.                                       *)
(***************************************************************************)
EXTENDS ShellServer
=============================================================================
