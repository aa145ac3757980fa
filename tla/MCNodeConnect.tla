---------------------------- MODULE MCNodeConnect ----------------------------
(***************************************************************************)
(* Model-checking instance of NodeConnect.                                 *)
(***************************************************************************)
EXTENDS NodeConnect
=============================================================================
