---------------------------- MODULE MC_AsyncLog ----------------------------
(***************************************************************************)
(* Instances of AsyncLog for TLC.                                          *)
(***************************************************************************)
EXTENDS AsyncLog
=============================================================================
