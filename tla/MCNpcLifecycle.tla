--------------------------- MODULE MCNpcLifecycle ---------------------------
(* NpcLifecycle for TLC.  e1 is an element of w1 whose monster is reborn    *)
(* and keeps its model in combat; e2 one of w2 whose monster does neither.  *)
(* A configuration may give w1 and w2 the same value, and says which worlds *)
(* are normal ones and which elements have their npc from the start.        *)
EXTENDS NpcLifecycle
CONSTANTS e1, e2, w1, w2

MCWorldOf    == [e \in Elem |-> IF e = e1 THEN w1 ELSE w2]
MCAutoReborn == {e1}
MCRetain     == {e1}
=============================================================================
