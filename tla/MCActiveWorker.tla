---------------------------- MODULE MCActiveWorker ----------------------------
(***************************************************************************)
(* Model-checking instance of ActiveWorker.                                *)
(***************************************************************************)
EXTENDS ActiveWorker
=============================================================================
