---------------------------- MODULE MCGlobalHandler ----------------------------
(***************************************************************************)
(* Model-checking instance of GlobalHandler.                               *)
(***************************************************************************)
EXTENDS GlobalHandler, TLC

Symmetry == Permutations(Workers) \union Permutations(Handlers)
            \union Permutations(Tasks)
=============================================================================
