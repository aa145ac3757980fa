------------------------------ MODULE MCMultiCurl ------------------------------
(***************************************************************************)
(* The http client for TLC.                                                *)
(***************************************************************************)
EXTENDS MultiCurlProps
=============================================================================
