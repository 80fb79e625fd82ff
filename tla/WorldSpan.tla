----------------------------- MODULE WorldSpan ------------------------------
(***************************************************************************)
(* What the instance and battleground clusters promise to the master       *)
(* server and to the players: a world id is used for one world.  It opens, *)
(* closes once, and is gone for good; players are inside only in between,  *)
(* in one world at a time; no more worlds are open at once than there are  *)
(* WorldManagers; and no world stays open for ever while the server runs.  *)
(***************************************************************************)
EXTENDS Integers, FiniteSets

CONSTANTS Wid, Player, Capacity

VARIABLES span, inside, stopped

vars == <<span, inside, stopped>>

Present(w) == span[w] \in {"open", "closing"}

Init == /\ span = [w \in Wid |-> "none"]
        /\ inside = [w \in Wid |-> {}]
        /\ stopped = FALSE

Open(w) ==
  /\ ~stopped
  /\ span[w] = "none"
  /\ Cardinality({v \in Wid : Present(v)}) < Capacity
  /\ span' = [span EXCEPT ![w] = "open"]
  /\ UNCHANGED <<inside, stopped>>

Close(w) ==
  /\ ~stopped
  /\ span[w] = "open"
  /\ span' = [span EXCEPT ![w] = "closing"]
  /\ UNCHANGED <<inside, stopped>>

\* Whoever is still inside loses the world.
Remove(w) ==
  /\ ~stopped
  /\ span[w] = "closing"
  /\ span' = [span EXCEPT ![w] = "gone"]
  /\ inside' = [inside EXCEPT ![w] = {}]
  /\ UNCHANGED stopped

Join(w, p) ==
  /\ ~stopped
  /\ Present(w)
  /\ \A v \in Wid : p \notin inside[v]
  /\ inside' = [inside EXCEPT ![w] = @ \cup {p}]
  /\ UNCHANGED <<span, stopped>>

Leave(w, p) ==
  /\ ~stopped
  /\ p \in inside[w]
  /\ inside' = [inside EXCEPT ![w] = @ \ {p}]
  /\ UNCHANGED <<span, stopped>>

\* The process ends.
Stop == ~stopped /\ stopped' = TRUE /\ UNCHANGED <<span, inside>>

Next == \/ Stop
        \/ \E w \in Wid : \/ Open(w) \/ Close(w) \/ Remove(w)
                          \/ \E p \in Player : Join(w, p) \/ Leave(w, p)

Spec == /\ Init /\ [][Next]_vars
        /\ \A w \in Wid : WF_vars(Close(w)) /\ WF_vars(Remove(w))
=============================================================================
