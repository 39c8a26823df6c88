---------------------------- MODULE MC_WebServer ----------------------------
(***************************************************************************)
(* Instances of WebServer for TLC.                                         *)
(***************************************************************************)
EXTENDS WebServer
=============================================================================
