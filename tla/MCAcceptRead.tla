----------------------------- MODULE MCAcceptRead -----------------------------
(***************************************************************************)
(* Model-checking instance of AcceptRead.                                  *)
(***************************************************************************)
EXTENDS AcceptRead
=============================================================================
