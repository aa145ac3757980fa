-------------------------- MODULE MCDestinationPool --------------------------
(***************************************************************************)
(* The pools, that of the modules' handlers and the others, for TLC.       *)
(***************************************************************************)
EXTENDS HandlerCreator, TLC

Symmetry == Permutations(Objects)
=============================================================================
