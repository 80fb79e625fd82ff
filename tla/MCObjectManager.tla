-------------------------- MODULE MCObjectManager --------------------------
(* Model-checking instance of ObjectManager. *)
EXTENDS ObjectManager
=============================================================================
