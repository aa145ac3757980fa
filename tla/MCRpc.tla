-------------------------------- MODULE MCRpc --------------------------------
(***************************************************************************)
(* Model-checking instance of Rpc with TimerHandle.                        *)
(***************************************************************************)
EXTENDS RpcProps
=============================================================================
