-------------------------- MODULE MCIntentRuntime --------------------------
(***************************************************************************)
(* Actors are interchangeable: nothing but equality is asked of them.      *)
(***************************************************************************)
EXTENDS IntentRuntime, TLC

Symmetry == Permutations(Actor)
=============================================================================
