--------------------------- MODULE MCSessionTimer ---------------------------
(* Small instances of SessionTimer. *)
EXTENDS SessionTimer, TLC
=============================================================================
