---------------------------- MODULE MCHandlerQueue ----------------------------
(***************************************************************************)
(* Model-checking instance of HandlerQueue.                                *)
(***************************************************************************)
EXTENDS HandlerQueueProps
=============================================================================
