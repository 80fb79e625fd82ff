------------------------- MODULE MCPlayerLifecycle -------------------------
(* Instance of PlayerLifecycle for TLC. *)
EXTENDS PlayerLifecycle, TLC

\* Roles are interchangeable, and so are slots and workers.
Symmetry == Permutations(Role) \cup Permutations(Slot) \cup Permutations(Worker)
=============================================================================
