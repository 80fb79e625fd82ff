------------------------------ MODULE SlotUse -------------------------------
(***************************************************************************)
(* How a slot of an object pool is used, whatever the object: the contract *)
(* between ObjectManager and the threads that create and destroy objects.  *)
(* A slot is free, allocated, a member of the manager, and removed, in     *)
(* that order.  It is removed under its lock, and the lock is kept until   *)
(* the slot is back in the pool, so that no other thread ever has a slot   *)
(* locked that is between the manager and the pool.  It may be handed out  *)
(* again before the thread that freed it has unlocked it.                  *)
(***************************************************************************)
CONSTANT Slot

VARIABLES phase,  \* "free", "fresh" (allocated), "member" or "leaving"
          lock    \* "none", "remover", or "other" for any other holder

vars == <<phase, lock>>

Init == /\ phase = [s \in Slot |-> "free"]
        /\ lock  = [s \in Slot |-> "none"]

Become(s, from, to) ==
  phase[s] \in from /\ phase' = [phase EXCEPT ![s] = to]

Alloc(s)      == Become(s, {"free"}, "fresh") /\ UNCHANGED lock
FreeUnused(s) == Become(s, {"fresh"}, "free") /\ UNCHANGED lock

\* The slot may be allocated in the same step.
Insert(s) == Become(s, {"free", "fresh"}, "member") /\ UNCHANGED lock

\* The remover may take the lock in the same step ...
Remove(s) == /\ Become(s, {"member"}, "leaving")
             /\ lock[s] \in {"none", "remover"}
             /\ lock' = [lock EXCEPT ![s] = "remover"]

\* ... and let it go in the step that frees the slot, or later.
Free(s) == /\ Become(s, {"leaving"}, "free")
           /\ lock[s] = "remover"
           /\ lock' \in {lock, [lock EXCEPT ![s] = "none"]}

Lock(s) == /\ lock[s] = "none"
           /\ \E h \in {"remover", "other"} : lock' = [lock EXCEPT ![s] = h]
           /\ UNCHANGED phase

Unlock(s) == /\ lock[s] # "none" /\ phase[s] # "leaving"
             /\ lock' = [lock EXCEPT ![s] = "none"]
             /\ UNCHANGED phase

Next == \E s \in Slot : \/ Alloc(s) \/ FreeUnused(s) \/ Insert(s)
                        \/ Remove(s) \/ Free(s) \/ Lock(s) \/ Unlock(s)

Spec == Init /\ [][Next]_vars
=============================================================================
