-------------------------------- MODULE MCHttp --------------------------------
(***************************************************************************)
(* The http connections for TLC.                                           *)
(***************************************************************************)
EXTENDS HttpProps
=============================================================================
