---------------------------- MODULE RoleSession -----------------------------
(***************************************************************************)
(* What a game server promises the master and the links about its players: *)
(* a role is on the server once at a time.  It is admitted while there is  *)
(* room, and then either refused, or online, offline and gone, in that     *)
(* order: it never leaves without having been offline, and never comes     *)
(* back before it has left.  An admitted role is decided about, and an     *)
(* offline one leaves, as long as the server runs.  The one exception is a *)
(* role whose redirection fails: it stays, neither refused nor online.     *)
(***************************************************************************)
EXTENDS Naturals, FiniteSets

CONSTANTS Role, Capacity

VARIABLES stage, stopped

vars == <<stage, stopped>>

Present == {r \in Role : stage[r] # "absent"}

Init == stage = [r \in Role |-> "absent"] /\ stopped = FALSE

Move(r, from, to) ==
  /\ ~stopped
  /\ stage[r] = from
  /\ stage' = [stage EXCEPT ![r] = to]
  /\ UNCHANGED stopped

Admit(r)     == Cardinality(Present) < Capacity /\ Move(r, "absent", "entering")
Refuse(r)    == Move(r, "entering", "absent")
Strand(r)    == Move(r, "entering", "stranded")
Arrive(r)    == Move(r, "entering", "online")
GoOffline(r) == Move(r, "online", "offline")
StartLeaving(r) == Move(r, "offline", "leaving")
Leave(r)     == Move(r, "leaving", "absent")

\* The process ends.
Stop == ~stopped /\ stopped' = TRUE /\ UNCHANGED stage

Decide(r) == Refuse(r) \/ Strand(r) \/ Arrive(r)

Next == \/ Stop
        \/ \E r \in Role : \/ Admit(r) \/ Decide(r) \/ GoOffline(r)
                           \/ StartLeaving(r) \/ Leave(r)

Spec == /\ Init /\ [][Next]_vars
        /\ \A r \in Role : /\ WF_vars(Decide(r))
                           /\ WF_vars(StartLeaving(r)) /\ WF_vars(Leave(r))
=============================================================================
