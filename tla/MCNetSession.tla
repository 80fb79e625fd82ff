---------------------------- MODULE MCNetSession ----------------------------
(* Model-checking instance of NetSession. *)
EXTENDS NetSession
=============================================================================
