--------------------------- MODULE MC_DaemonTask ---------------------------
(***************************************************************************)
(* Instances of DaemonTask for TLC.                                        *)
(***************************************************************************)
EXTENDS DaemonTask
=============================================================================
