-------------------------- MODULE MCIntentSession --------------------------
(***************************************************************************)
(* Two connections to one served runtime.  Connections are                 *)
(* interchangeable, and so are the documents, all of which are valid.      *)
(***************************************************************************)
EXTENDS IntentSession, TLC

Symmetry == Permutations(Conn) \cup Permutations(Doc)
=============================================================================
