--------------------------- MODULE MCSpecialWorld ---------------------------
(* Small instances of SpecialWorld. *)
EXTENDS SpecialWorld, TLC

MCRemain   == [k \in Kind |-> 0]
MCSurvival == [k \in Kind |-> 1]
MCMinCount == [k \in Kind |-> 1]
MCMaxCount == [k \in Kind |-> 1]

Symmetry == Permutations(Player)
=============================================================================
