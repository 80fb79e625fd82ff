------------------------ MODULE NpcLifecycle_proofs -------------------------
(***************************************************************************)
(* Theorems about NpcLifecycle.  The properties the runs check are almost  *)
(* inductive together; what they lack is that an npc out of the pool has   *)
(* an element, that the pool's list has no slot twice, that an             *)
(* announcement names a slot, and that a world nobody finds has no entry   *)
(* in its element map.  Most actions change the state machine of one npc   *)
(* only: Machine says how they may.                                        *)
(***************************************************************************)
EXTENDS NpcLifecycle, FiniteSetTheorems, FunctionTheorems, TLAPS

HasElem == \A s \in Slot : life[s] # "free" => elem[s] \in Elem

PoolInv ==
  /\ \A s \in Slot : life[s] = "free" <=> \E i \in 1 .. Len(available) : available[i] = s
  /\ \A i, j \in 1 .. Len(available) : available[i] = available[j] => i = j

QueueObj == \A i \in 1 .. Len(wm_msg) :
              wm_msg[i].type \in {"active", "deactive"} => wm_msg[i].obj \in Slot

\* Normal worlds are found; the others have no entries before they are.  An
\* npc that was not heard of is in use.
WorldInv ==
  /\ Normal \subseteq indexed
  /\ \A e \in Elem : WorldOf[e] \notin indexed => map_elem[e] = {}
  /\ \A s \in unheard : life[s] # "free"

IInv == /\ TypeOK /\ HasElem /\ PoolInv /\ RecycleTaskExact /\ RebornIsQueued
        /\ QueueObj /\ ElemMapMatches /\ CombatHoldsModel /\ WorldInv

Key(kind, s) == [kind |-> kind, obj |-> s, elem |-> elem[s]]

-----------------------------------------------------------------------------
(* Sequences *)

\* Append, position by position.
LEMMA AppendAt ==
  ASSUME NEW S, NEW q \in Seq(S), NEW x \in S
  PROVE  /\ Append(q, x) \in Seq(S) /\ Len(Append(q, x)) = Len(q) + 1
         /\ \A i \in 1 .. Len(q) : Append(q, x)[i] = q[i]
         /\ Append(q, x)[Len(q) + 1] = x
OBVIOUS

\* Tail, position by position.
LEMMA TailAt ==
  ASSUME NEW S, NEW q \in Seq(S), q # <<>>
  PROVE  /\ Tail(q) \in Seq(S) /\ Len(Tail(q)) = Len(q) - 1 /\ Len(q) \in Nat /\ Len(q) >= 1
         /\ \A i \in 1 .. Len(q) - 1 : Tail(q)[i] = q[i + 1]
         /\ Head(q) = q[1] /\ Head(q) \in S
OBVIOUS

-----------------------------------------------------------------------------
(* The pool *)

\* A list that names each member of a set once is as long as the set is large.
LEMMA ListSize ==
  ASSUME NEW S, NEW T, NEW q \in Seq(T),
         \A s : s \in S <=> \E i \in 1 .. Len(q) : q[i] = s,
         \A i, j \in 1 .. Len(q) : q[i] = q[j] => i = j
  PROVE  Len(q) = Cardinality(S)
<1>1. Len(q) \in Nat /\ DOMAIN q = 1 .. Len(q) /\ q \in [1 .. Len(q) -> S]
  OBVIOUS
<1>2. q \in Bijection(1 .. Len(q), S)
  BY <1>1 DEF Bijection, Injection, Surjection, IsInjective
<1>3. ExistsBijection(1 .. Len(q), S)
  BY <1>2 DEF ExistsBijection
<1> QED
  BY <1>1, <1>3, FS_CountingElements

\* PoolInv says what PoolExact says, and that no slot is listed twice.
LEMMA PoolIsExact == TypeOK /\ PoolInv => PoolExact
<1> SUFFICES ASSUME TypeOK, PoolInv PROVE PoolExact
  OBVIOUS
<1> DEFINE F == {s \in Slot : life[s] = "free"}
<1>1. available \in Seq(Slot)
  BY DEF TypeOK
<1>2. \A s : s \in F <=> \E i \in 1 .. Len(available) : available[i] = s
  BY <1>1 DEF PoolInv
<1>3. Len(available) = Cardinality(F)
  <2> HIDE DEF F
  <2> QED BY <1>1, <1>2, ListSize DEF PoolInv
<1> QED
  BY <1>2, <1>3 DEF PoolExact

\* PoolOrder lists every slot once.
LEMMA PoolOrderOK ==
  /\ PoolOrder \in Seq(Slot)
  /\ \A s \in Slot : \E i \in 1 .. Len(PoolOrder) : PoolOrder[i] = s
  /\ \A i, j \in 1 .. Len(PoolOrder) : PoolOrder[i] = PoolOrder[j] => i = j
<1> DEFINE n == Cardinality(Slot)
<1>1. n \in Nat /\ ExistsBijection(1 .. n, Slot)
  BY SlotAssumption, FS_CardinalityType
<1>2. \E q \in [1 .. n -> Slot] : \A i, j \in 1 .. n : q[i] = q[j] => i = j
  BY <1>1 DEF ExistsBijection, Bijection, Injection, IsInjective
<1>3. PoolOrder \in [1 .. n -> Slot] /\ \A i, j \in 1 .. n : PoolOrder[i] = PoolOrder[j] => i = j
  BY <1>2 DEF PoolOrder
<1>4. PoolOrder \in Injection(1 .. n, Slot)
  BY <1>3 DEF Injection, IsInjective
<1>5. IsFiniteSet(1 .. n) /\ Cardinality(1 .. n) = n
  BY <1>1, FS_Interval
<1>6. PoolOrder \in Surjection(1 .. n, Slot)
  BY <1>4, <1>5, SlotAssumption, FS_Injection
<1>7. PoolOrder \in Seq(Slot) /\ Len(PoolOrder) = n
  BY <1>1, <1>3
<1> QED
  BY <1>3, <1>6, <1>7 DEF Surjection

-----------------------------------------------------------------------------
(* The state machine of one npc *)

Aborts == {None, "state_shift", "close_source", "reborn_task",
           "recycle_task", "released_imp"}

\* What a step with the lock of s may do to its state and its tasks.
Machine(s) ==
  /\ state' \in [Slot -> NpcStates] /\ fired' \in [Slot -> BOOLEAN] /\ aborted' \in Aborts
  /\ \A r \in Slot \ {s} : state'[r] = state[r] /\ fired'[r] = fired[r]
  /\ \/ UNCHANGED tasks /\ state'[s] = state[s] /\ (fired'[s] => fired[s])
     \/ /\ UNCHANGED tasks /\ state[s] # "RECYCLE" /\ state'[s] # "RECYCLE"
        /\ state'[s] = "REBORN" => ~fired'[s]
     \/ state[s] # "RECYCLE" /\ state'[s] = "RECYCLE" /\ AddTask("recycle", s)
     \/ state[s] = "REBORN" /\ state'[s] = "REBORN" /\ AddTask("reborn", s)

\* What it may do to the monster's combat.
Fighting(s) ==
  /\ mon' \in [Slot -> MonStates]
  /\ \A r \in Slot \ {s} : mon'[r] = mon[r]
  /\ mon'[s] = "COMBAT" => state'[s] \in {"ZOMBIE", "REBORN", "RECYCLE"}
  /\ state'[s] \in {"ZOMBIE", "REBORN"} => mon'[s] = "COMBAT"

\* The rows of state_shift_table, read by columns.
LEMMA Shifts ==
  ASSUME NEW x \in NpcStates
  PROVE  /\ "RECYCLE" \in state_shift_table[x] <=> x # "RECYCLE"
         /\ "REBORN"  \in state_shift_table[x] <=> x \in {"IDLE", "NORMAL", "ZOMBIE"}
         /\ "ZOMBIE"  \in state_shift_table[x] <=> x \in {"IDLE", "NORMAL", "ZOMBIE"}
         /\ "NORMAL"  \in state_shift_table[x] <=> x \in {"IDLE", "ZOMBIE"}
         /\ "IDLE"    \in state_shift_table[x] <=> x = "NORMAL"
BY DEF state_shift_table, NpcStates

\* A switch happens, or the assertion about it fails and nothing changes.
LEMMA SetStateEffect ==
  ASSUME TypeOK, NEW s \in Slot, NEW new \in NpcStates, SetState(s, new)
  PROVE  /\ state' \in [Slot -> NpcStates] /\ aborted' \in Aborts
         /\ \A r \in Slot \ {s} : state'[r] = state[r]
         /\ state[s] \in NpcStates
         /\ state'[s] = IF new \in state_shift_table[state[s]] THEN new ELSE state[s]
BY DEF TypeOK, SetState, Aborts

\* A RebornTask or RecycleTask of an npc is one of the tasks, and says whose it is.
LEMMA KeyOK ==
  ASSUME HasElem, NEW s \in Slot, life[s] # "free", NEW kind \in {"reborn", "recycle"}
  PROVE  /\ Key(kind, s) \in Task
         /\ \A t \in Task : t = Key(kind, s) <=> t.kind = kind /\ t.obj = s /\ t.elem = elem[s]
BY DEF HasElem, Key, Task

\* AddTask counts one task more.
LEMMA AddTaskEffect ==
  ASSUME TypeOK, HasElem, NEW s \in Slot, life[s] # "free",
         NEW kind \in {"reborn", "recycle"}, AddTask(kind, s)
  PROVE  /\ tasks' \in [Task -> Nat]
         /\ \A t \in Task : tasks'[t] =
              IF t.kind = kind /\ t.obj = s /\ t.elem = elem[s] THEN tasks[t] + 1 ELSE tasks[t]
<1>1. Key(kind, s) \in Task
  BY KeyOK
<1>2. tasks' = [tasks EXCEPT ![Key(kind, s)] = tasks[Key(kind, s)] + 1]
  BY DEF AddTask, Key
<1>3. tasks \in [Task -> Nat]
  BY DEF TypeOK
<1> QED
  BY <1>1, <1>2, <1>3, KeyOK

\* LifeExhaust moves the machine on to REBORN or RECYCLE.
LEMMA LifeExhaustEffect ==
  ASSUME TypeOK, HasElem, NEW s \in Slot, life[s] # "free", LifeExhaust(s)
  PROVE  Machine(s) /\ state'[s] \in {"REBORN", "RECYCLE"}
<1>1. CASE state[s] = "RECYCLE" /\ UNCHANGED <<state, fired, tasks, aborted>>
  BY <1>1 DEF Machine, TypeOK, Aborts
<1>2. CASE /\ state[s] # "RECYCLE" /\ SetState(s, "REBORN")
           /\ fired' = [fired EXCEPT ![s] = FALSE] /\ UNCHANGED tasks
  <2>1. /\ state' \in [Slot -> NpcStates] /\ aborted' \in Aborts
        /\ \A r \in Slot \ {s} : state'[r] = state[r]
        /\ state'[s] = "REBORN"
    BY <1>2, SetStateEffect, Shifts DEF NpcStates
  <2>2. fired' \in [Slot -> BOOLEAN] /\ fired'[s] = FALSE /\ \A r \in Slot \ {s} : fired'[r] = fired[r]
    BY <1>2 DEF TypeOK
  <2> QED
    BY <1>2, <2>1, <2>2 DEF Machine
<1>3. CASE /\ state[s] # "RECYCLE" /\ SetState(s, "RECYCLE")
           /\ AddTask("recycle", s) /\ UNCHANGED fired
  <2>1. /\ state' \in [Slot -> NpcStates] /\ aborted' \in Aborts
        /\ \A r \in Slot \ {s} : state'[r] = state[r]
        /\ state'[s] = "RECYCLE"
    BY <1>3, SetStateEffect, Shifts DEF NpcStates
  <2> QED
    BY <1>3, <2>1 DEF Machine, TypeOK
<1> QED
  BY <1>1, <1>2, <1>3 DEF LifeExhaust

\* RecycleSelf moves it on to RECYCLE.
LEMMA RecycleSelfEffect ==
  ASSUME TypeOK, HasElem, NEW s \in Slot, life[s] # "free", RecycleSelf(s)
  PROVE  Machine(s) /\ state'[s] = "RECYCLE"
<1>1. CASE state[s] = "RECYCLE" /\ UNCHANGED <<state, fired, tasks, aborted>>
  BY <1>1 DEF Machine, TypeOK, Aborts
<1>2. CASE /\ state[s] # "RECYCLE" /\ SetState(s, "RECYCLE")
           /\ AddTask("recycle", s) /\ UNCHANGED fired
  <2>1. /\ state' \in [Slot -> NpcStates] /\ aborted' \in Aborts
        /\ \A r \in Slot \ {s} : state'[r] = state[r]
        /\ state'[s] = "RECYCLE"
    BY <1>2, SetStateEffect, Shifts DEF NpcStates
  <2> QED
    BY <1>2, <2>1 DEF Machine, TypeOK
<1> QED
  BY <1>1, <1>2 DEF RecycleSelf

\* A switch to one of the states of a monster that is not done for.
LEMMA SwitchEffect ==
  ASSUME TypeOK, NEW s \in Slot, NEW new \in {"IDLE", "NORMAL", "ZOMBIE"},
         SetState(s, new), UNCHANGED <<fired, tasks>>
  PROVE  /\ Machine(s)
         /\ state'[s] = IF new \in state_shift_table[state[s]] THEN new ELSE state[s]
         /\ state[s] \in NpcStates
<1>1. /\ state' \in [Slot -> NpcStates] /\ aborted' \in Aborts
      /\ \A r \in Slot \ {s} : state'[r] = state[r]
      /\ state[s] \in NpcStates
      /\ state'[s] = IF new \in state_shift_table[state[s]] THEN new ELSE state[s]
  BY SetStateEffect DEF NpcStates
<1>2. state[s] = "RECYCLE" => state'[s] = state[s]
  BY <1>1, Shifts
<1> QED
  BY <1>1, <1>2 DEF Machine, TypeOK

\* What the machine may do keeps tasks and states together.
LEMMA MachineTasks ==
  ASSUME TypeOK, HasElem, RecycleTaskExact, RebornIsQueued,
         NEW s \in Slot, life[s] = "live", Machine(s), UNCHANGED <<life, elem>>
  PROVE  tasks' \in [Task -> Nat] /\ RecycleTaskExact' /\ RebornIsQueued'
<1>1. /\ tasks \in [Task -> Nat]
      /\ \A r \in Slot \ {s} : state'[r] = state[r] /\ fired'[r] = fired[r]
  BY DEF TypeOK, Machine
<1>2. \A t \in Task : t.obj \in Slot /\ t.kind \in {"reborn", "recycle"}
  BY DEF Task
<1>3. \A r \in Slot : life[r] = "live" => Key("reborn", r) \in Task
                        /\ Key("reborn", r).kind = "reborn" /\ Key("reborn", r).obj = r
                        /\ Key("reborn", r).elem = elem[r]
  BY KeyOK
<1>4. ASSUME /\ UNCHANGED tasks
             /\ state'[s] = "RECYCLE" <=> state[s] = "RECYCLE"
             /\ state'[s] = "REBORN" /\ fired'[s] => state[s] = "REBORN" /\ fired[s]
      PROVE  tasks' \in [Task -> Nat] /\ RecycleTaskExact' /\ RebornIsQueued'
  <2>1. RecycleTaskExact'
    <3> SUFFICES ASSUME NEW t \in Task, t.kind = "recycle"
                 PROVE  tasks[t] = IF /\ life[t.obj] = "live" /\ state'[t.obj] = "RECYCLE"
                                      /\ elem[t.obj] = t.elem
                                   THEN 1 ELSE 0
      BY <1>4 DEF RecycleTaskExact
    <3> QED
      BY <1>1, <1>2, <1>4 DEF RecycleTaskExact
  <2>2. RebornIsQueued'
    BY <1>1, <1>4 DEF RebornIsQueued
  <2> QED
    BY <1>1, <1>4, <2>1, <2>2
<1>5. CASE state[s] # "RECYCLE" /\ state'[s] = "RECYCLE" /\ AddTask("recycle", s)
  <2>1. /\ tasks' \in [Task -> Nat]
        /\ \A t \in Task : tasks'[t] =
             IF t.kind = "recycle" /\ t.obj = s /\ t.elem = elem[s] THEN tasks[t] + 1 ELSE tasks[t]
    BY <1>5, AddTaskEffect
  <2>2. RecycleTaskExact'
    <3> SUFFICES ASSUME NEW t \in Task, t.kind = "recycle"
                 PROVE  tasks'[t] = IF /\ life[t.obj] = "live" /\ state'[t.obj] = "RECYCLE"
                                       /\ elem[t.obj] = t.elem
                                    THEN 1 ELSE 0
      BY DEF RecycleTaskExact
    <3>1. CASE t.obj = s
      BY <1>5, <2>1, <3>1 DEF RecycleTaskExact
    <3>2. CASE t.obj # s
      BY <1>1, <1>2, <2>1, <3>2 DEF RecycleTaskExact
    <3> QED
      BY <3>1, <3>2
  <2>3. RebornIsQueued'
    <3> SUFFICES ASSUME NEW r \in Slot, life[r] = "live", state'[r] = "REBORN", fired'[r]
                 PROVE  tasks'[Key("reborn", r)] > 0
      BY DEF RebornIsQueued, Key
    <3>1. r # s /\ tasks[Key("reborn", r)] > 0
      BY <1>1, <1>5 DEF RebornIsQueued, Key
    <3> QED
      BY <1>3, <2>1, <3>1
  <2> QED
    BY <2>1, <2>2, <2>3
<1>6. CASE state[s] = "REBORN" /\ state'[s] = "REBORN" /\ AddTask("reborn", s)
  <2>1. /\ tasks' \in [Task -> Nat]
        /\ \A t \in Task : tasks'[t] =
             IF t.kind = "reborn" /\ t.obj = s /\ t.elem = elem[s] THEN tasks[t] + 1 ELSE tasks[t]
    BY <1>6, AddTaskEffect
  <2>2. RecycleTaskExact'
    <3> SUFFICES ASSUME NEW t \in Task, t.kind = "recycle"
                 PROVE  tasks'[t] = IF /\ life[t.obj] = "live" /\ state'[t.obj] = "RECYCLE"
                                       /\ elem[t.obj] = t.elem
                                    THEN 1 ELSE 0
      BY DEF RecycleTaskExact
    <3> QED
      BY <1>1, <1>2, <1>6, <2>1 DEF RecycleTaskExact
  <2>3. RebornIsQueued'
    <3> SUFFICES ASSUME NEW r \in Slot, life[r] = "live", state'[r] = "REBORN", fired'[r]
                 PROVE  tasks'[Key("reborn", r)] > 0
      BY DEF RebornIsQueued, Key
    <3>1. CASE r = s
      BY <1>1, <1>3, <2>1, <3>1
    <3>2. CASE r # s
      <4>1. tasks[Key("reborn", r)] > 0
        BY <1>1, <3>2 DEF RebornIsQueued, Key
      <4> QED
        BY <1>3, <2>1, <3>2, <4>1
    <3> QED
      BY <3>1, <3>2
  <2> QED
    BY <2>1, <2>2, <2>3
<1> QED
  BY <1>4, <1>5, <1>6 DEF Machine

InUse(e, s)  == life[s] # "free" /\ elem[s] = e
Announced(s) == (\A a \in Acceptor : accepting[a] # s) /\ s \notin unheard

\* No npc in use goes, and none that is new counts as announced.
SameUse ==
  \A e \in Elem, s \in Slot :
    /\ InUse(e, s) => InUse(e, s)'
    /\ InUse(e, s)' /\ Announced(s)' => InUse(e, s) /\ Announced(s)
    /\ InUse(e, s)' /\ s \in unheard' => InUse(e, s) /\ s \in unheard

\* Steps that leave the npcs where they are.
LEMMA StayUse ==
  ASSUME UNCHANGED <<life, elem, accepting, unheard>>
  PROVE  SameUse
BY DEF SameUse, InUse, Announced

\* ElemMapMatches, by the names used here.
LEMMA Matches ==
  ElemMapMatches <=>
    (Running => \A e \in Elem, s \in Slot :
                  /\ WillHold(e, s) => InUse(e, s)
                  /\ InUse(e, s) /\ Announced(s) => WillHold(e, s)
                  /\ InUse(e, s) /\ s \in unheard => WorldOf[e] \notin Normal)
BY DEF ElemMapMatches, InUse, Announced

\* Steps after which the same will hold of the same npcs.
LEMMA KeepMatch ==
  ASSUME ElemMapMatches, Running, SameUse,
         \A e \in Elem, s \in Slot : WillHold(e, s)' <=> WillHold(e, s)
  PROVE  ElemMapMatches'
<1>1. \A e \in Elem, s \in Slot :
        /\ WillHold(e, s) => InUse(e, s)
        /\ InUse(e, s) /\ Announced(s) => WillHold(e, s)
        /\ InUse(e, s) /\ s \in unheard => WorldOf[e] \notin Normal
  BY Matches
<1>2. \A e \in Elem, s \in Slot :
        /\ WillHold(e, s)' => InUse(e, s)'
        /\ InUse(e, s)' /\ Announced(s)' => WillHold(e, s)'
        /\ InUse(e, s)' /\ s \in unheard' => WorldOf[e] \notin Normal
  BY <1>1 DEF SameUse
<1> QED
  BY <1>2 DEF ElemMapMatches, InUse, Announced

\* Steps that leave the element map and its messages alone.
LEMMA SameHold ==
  ASSUME QueueObj, ElemMapMatches, Running, UNCHANGED <<wm_msg, map_elem>>, SameUse
  PROVE  QueueObj' /\ ElemMapMatches'
<1>1. QueueObj'
  BY DEF QueueObj
<1>2. ASSUME NEW e \in Elem, NEW s \in Slot
      PROVE  WillHold(e, s)' <=> WillHold(e, s)
  BY DEF WillHold, About
<1> QED
  BY <1>1, <1>2, KeepMatch

\* Steps that leave the worlds alone and free no npc.
LEMMA StayWorld ==
  ASSUME TypeOK, WorldInv, UNCHANGED <<map_elem, indexed>>, unheard' \subseteq unheard,
         \A s \in Slot : life[s] # "free" => life'[s] # "free"
  PROVE  WorldInv'
BY DEF WorldInv, TypeOK

\* A step of one npc: nothing else is touched but obj_msg and talk.
LEMMA NpcStep ==
  ASSUME IInv, Running, NEW s \in Slot, life[s] = "live", Machine(s), Fighting(s),
         obj_msg' \in [Close -> Nat], talk' \in [Talk -> SUBSET Slot],
         UNCHANGED <<available, life, elem, accepting, wm_msg, world>>
  PROVE  IInv'
<1>1. /\ TypeOK /\ HasElem /\ PoolInv /\ RecycleTaskExact /\ RebornIsQueued
      /\ QueueObj /\ ElemMapMatches /\ CombatHoldsModel /\ WorldInv
  BY DEF IInv
<1>2. tasks' \in [Task -> Nat] /\ RecycleTaskExact' /\ RebornIsQueued'
  BY <1>1, MachineTasks
<1>3. TypeOK'
  BY <1>1, <1>2 DEF TypeOK, Machine, Fighting, world, cluster, Aborts
<1>4. HasElem' /\ PoolInv'
  BY <1>1 DEF HasElem, PoolInv
<1>5. QueueObj' /\ ElemMapMatches' /\ WorldInv'
  <2>1. UNCHANGED <<life, elem, accepting, wm_msg, map_elem, indexed, unheard>>
    BY DEF world, cluster
  <2> QED
    BY <1>1, <2>1, StayUse, SameHold, StayWorld
<1>6. CombatHoldsModel'
  BY <1>1 DEF CombatHoldsModel, Machine, Fighting
<1> QED
  BY <1>2, <1>3, <1>4, <1>5, <1>6 DEF IInv

\* Steps that leave the npcs and the pool alone.
LEMMA Frame ==
  ASSUME IInv, UNCHANGED <<available, life, elem, state, mon, fired, tasks>>
  PROVE  HasElem' /\ PoolInv' /\ RecycleTaskExact' /\ RebornIsQueued' /\ CombatHoldsModel'
<1>1. HasElem' /\ PoolInv'
  BY DEF IInv, HasElem, PoolInv
<1>2. RecycleTaskExact' /\ RebornIsQueued'
  BY DEF IInv, RecycleTaskExact, RebornIsQueued
<1>3. CombatHoldsModel'
  BY DEF IInv, CombatHoldsModel
<1> QED
  BY <1>1, <1>2, <1>3

-----------------------------------------------------------------------------
(* The actions of one npc *)

\* The dialogues stay sets of slots.
LEMMA TalkType ==
  ASSUME TypeOK, NEW s \in Slot, NEW k \in Talk
  PROVE  /\ [talk EXCEPT ![k] = @ \ {s}] \in [Talk -> SUBSET Slot]
         /\ [talk EXCEPT ![k] = @ \cup {s}] \in [Talk -> SUBSET Slot]
         /\ Fight(k, s) => talk' \in [Talk -> SUBSET Slot]
<1>1. talk \in [Talk -> SUBSET Slot] /\ "fight" \in Talk
  BY DEF TypeOK, Talk
<1>2. /\ [talk EXCEPT ![k] = @ \ {s}] \in [Talk -> SUBSET Slot]
      /\ [talk EXCEPT ![k] = @ \cup {s}] \in [Talk -> SUBSET Slot]
  BY <1>1
<1>3. ASSUME Fight(k, s) PROVE talk' \in [Talk -> SUBSET Slot]
  <2>1. PICK over \in BOOLEAN :
          talk' = [talk EXCEPT ![k] = @ \ {s}, !["fight"] = IF over THEN @ ELSE @ \cup {s}]
    BY <1>3 DEF Fight
  <2>2. CASE over
    BY <1>1, <2>1, <2>2
  <2>3. CASE ~over
    BY <1>1, <2>1, <2>3
  <2> QED
    BY <2>2, <2>3
<1> QED
  BY <1>2, <1>3

\* A heartbeat moves one machine on and may ask for a fight.
LEMMA HeartbeatInv == ASSUME IInv, NEW s \in Slot, Heartbeat(s) PROVE IInv'
<1>1. TypeOK /\ HasElem /\ CombatHoldsModel /\ Running /\ life[s] = "live"
  BY DEF IInv, Heartbeat, Live
<1>2. /\ UNCHANGED <<available, life, elem, accepting, wm_msg, world, obj_msg>>
      /\ obj_msg' \in [Close -> Nat]
  BY <1>1 DEF Heartbeat, Untouched, world, cluster, TypeOK
<1>3. /\ mon' \in [Slot -> MonStates] /\ talk' \in [Talk -> SUBSET Slot]
      /\ \A r \in Slot \ {s} : mon'[r] = mon[r]
      /\ mon'[s] = "COMBAT" <=> mon[s] = "COMBAT"
  <2>1. Ask(s) \in Talk
    BY DEF Ask, Talk
  <2>2. CASE UNCHANGED <<mon, talk>>
    BY <1>1, <2>2 DEF TypeOK
  <2>3. CASE /\ mon[s] = "PEACE" /\ mon' = [mon EXCEPT ![s] = "WAITING_COMBAT"]
             /\ talk' = [talk EXCEPT ![Ask(s)] = @ \cup {s}]
    BY <1>1, <2>1, <2>3, TalkType DEF TypeOK, MonStates
  <2>4. CASE mon[s] = "WAITING_COMBAT" /\ mon' = [mon EXCEPT ![s] = "PEACE"] /\ UNCHANGED talk
    BY <1>1, <2>4 DEF TypeOK, MonStates
  <2> QED
    BY <2>2, <2>3, <2>4 DEF Heartbeat, MonHeartbeat
<1>4. /\ Machine(s)
      /\ state'[s] \in {"ZOMBIE", "REBORN"} => state[s] \in {"ZOMBIE", "REBORN"}
      /\ state[s] \in {"ZOMBIE", "REBORN", "RECYCLE"} =>
           state'[s] \in {"ZOMBIE", "REBORN", "RECYCLE"}
  <2>1. CASE UNCHANGED <<state, fired, tasks, aborted>>
    BY <1>1, <2>1 DEF TypeOK, Machine, Aborts
  <2>2. CASE /\ state[s] \in {"IDLE", "NORMAL"}
             /\ SetState(s, "NORMAL") \/ SetState(s, "IDLE")
             /\ UNCHANGED <<fired, tasks>>
    BY <1>1, <2>2, SwitchEffect
  <2>3. CASE state[s] = "ZOMBIE" /\ LifeExhaust(s)
    BY <1>1, <2>3, LifeExhaustEffect
  <2>4. CASE /\ state[s] = "REBORN" /\ AddTask("reborn", s)
             /\ fired' = [fired EXCEPT ![s] = TRUE] /\ UNCHANGED <<state, aborted>>
    BY <1>1, <2>4 DEF TypeOK, Machine, Aborts
  <2> QED
    BY <2>1, <2>2, <2>3, <2>4 DEF Heartbeat, DriveMachine
<1>5. Fighting(s)
  BY <1>1, <1>3, <1>4 DEF Fighting, CombatHoldsModel
<1> QED
  BY <1>1, <1>2, <1>3, <1>4, <1>5, NpcStep

\* A fight begins, on a monster that may accept one.
LEMMA CombatStartEffect ==
  ASSUME TypeOK, HasElem, CombatHoldsModel, NEW s \in Slot, life[s] = "live",
         mon[s] \in {"PEACE", "WAITING_COMBAT"}, NEW b \in BOOLEAN, HandleCombatStart(s, b)
  PROVE  Machine(s) /\ Fighting(s)
<1>1. state[s] \in {"IDLE", "NORMAL", "RECYCLE"}
  BY DEF TypeOK, CombatHoldsModel, NpcStates
<1>2. CASE mon' = [mon EXCEPT ![s] = "COMBAT"] /\ LifeExhaust(s)
  <2>1. Machine(s) /\ state'[s] \in {"REBORN", "RECYCLE"}
    BY <1>2, LifeExhaustEffect
  <2> QED
    BY <1>2, <2>1 DEF Fighting, TypeOK, MonStates
<1>3. CASE /\ mon' = [mon EXCEPT ![s] = "COMBAT"] /\ SetState(s, "ZOMBIE")
           /\ UNCHANGED <<fired, tasks>>
  <2>1. Machine(s) /\ state'[s] \in {"ZOMBIE", "RECYCLE"}
    BY <1>1, <1>3, SwitchEffect, Shifts
  <2> QED
    BY <1>3, <2>1 DEF Fighting, TypeOK, MonStates
<1>4. CASE /\ mon' = [mon EXCEPT ![s] = "WAITING_COMBAT"]
           /\ UNCHANGED <<state, fired, tasks, aborted>>
  BY <1>1, <1>4 DEF Fighting, Machine, TypeOK, MonStates, Aborts
<1> QED
  BY <1>2, <1>3, <1>4 DEF HandleCombatStart

\* A player's attack is accepted.
LEMMA PlayerTriggerInv ==
  ASSUME IInv, NEW s \in Slot, HandlePlayerTriggerCombat(s) PROVE IInv'
<1>1. TypeOK /\ HasElem /\ CombatHoldsModel /\ Running /\ life[s] = "live" /\ mon[s] = "PEACE"
  BY DEF IInv, HandlePlayerTriggerCombat, Live
<1>2. /\ UNCHANGED <<available, life, elem, accepting, wm_msg, world, obj_msg>>
      /\ obj_msg' \in [Close -> Nat]
  BY <1>1 DEF HandlePlayerTriggerCombat, Untouched, world, cluster, TypeOK
<1>3. Machine(s) /\ Fighting(s)
  BY <1>1, CombatStartEffect DEF HandlePlayerTriggerCombat
<1>4. talk' \in [Talk -> SUBSET Slot]
  <2>1. "grant" \in Talk
    BY DEF Talk
  <2>2. CASE UNCHANGED talk
    BY <1>1, <2>2 DEF TypeOK
  <2>3. CASE talk' = [talk EXCEPT !["grant"] = @ \cup {s}]
    BY <1>1, <2>1, <2>3, TalkType
  <2> QED
    BY <2>2, <2>3 DEF HandlePlayerTriggerCombat
<1> QED
  BY <1>1, <1>2, <1>3, <1>4, NpcStep

\* A player answers the monster's question.
LEMMA ObjTriggerReInv ==
  ASSUME IInv, NEW s \in Slot, NEW k \in {"ask", "ask_notify"}, NEW b \in BOOLEAN,
         ObjTriggerCombatRe(s, k, b)
  PROVE  IInv'
<1>1. /\ TypeOK /\ HasElem /\ CombatHoldsModel /\ Running /\ life[s] = "live"
      /\ mon[s] = "WAITING_COMBAT" /\ k \in Talk
  BY DEF IInv, ObjTriggerCombatRe, Live, Talk
<1>2. /\ UNCHANGED <<available, life, elem, accepting, wm_msg, world, obj_msg>>
      /\ obj_msg' \in [Close -> Nat]
  BY <1>1 DEF ObjTriggerCombatRe, Untouched, world, cluster, TypeOK
<1>3. CASE CombatRefused(s) /\ talk' = [talk EXCEPT ![k] = @ \ {s}]
  <2>1. Machine(s)
    BY <1>1, <1>3 DEF CombatRefused, Machine, TypeOK, Aborts
  <2>2. Fighting(s)
    BY <1>1, <1>3 DEF CombatRefused, Fighting, CombatHoldsModel, TypeOK, MonStates
  <2> QED
    BY <1>1, <1>2, <1>3, <2>1, <2>2, TalkType, NpcStep
<1>4. CASE HandleCombatStart(s, TRUE) /\ Fight(k, s)
  <2>1. Machine(s) /\ Fighting(s)
    BY <1>1, <1>4, CombatStartEffect
  <2> QED
    BY <1>1, <1>2, <1>4, <2>1, TalkType, NpcStep
<1> QED
  BY <1>3, <1>4 DEF ObjTriggerCombatRe

\* A granted combat has begun, whatever state the npc is in by now.
LEMMA TriggerSuccessInv ==
  ASSUME IInv, NEW s \in Slot, HandlePTriggerCombatSuccess(s) PROVE IInv'
<1>1. TypeOK /\ HasElem /\ CombatHoldsModel /\ Running /\ life[s] = "live"
  BY DEF IInv, HandlePTriggerCombatSuccess, Live
<1>2. /\ UNCHANGED <<available, life, elem, accepting, wm_msg, world, obj_msg>>
      /\ obj_msg' \in [Close -> Nat]
  BY <1>1 DEF HandlePTriggerCombatSuccess, Untouched, world, cluster, TypeOK
<1>3. Machine(s) /\ state'[s] \in {"ZOMBIE", "REBORN", "RECYCLE"}
  BY <1>1, SwitchEffect, Shifts DEF HandlePTriggerCombatSuccess, NpcStates
<1>4. Fighting(s)
  BY <1>1, <1>3 DEF HandlePTriggerCombatSuccess, Fighting, TypeOK, MonStates
<1>5. talk' \in [Talk -> SUBSET Slot]
  BY <1>1, TalkType DEF HandlePTriggerCombatSuccess, Talk
<1> QED
  BY <1>1, <1>2, <1>3, <1>4, <1>5, NpcStep

\* A combat ends, won or lost.
LEMMA CombatEndInv ==
  ASSUME IInv, NEW s \in Slot, NEW b \in BOOLEAN, HandleCombatEnd(s, b) PROVE IInv'
<1>1. /\ TypeOK /\ HasElem /\ CombatHoldsModel /\ Running /\ life[s] = "live"
      /\ mon[s] = "COMBAT" /\ state[s] # "REBORN"
  BY DEF IInv, HandleCombatEnd, Live, IsReborn
<1>2. /\ UNCHANGED <<available, life, elem, accepting, wm_msg, world, obj_msg>>
      /\ obj_msg' \in [Close -> Nat]
  BY <1>1 DEF HandleCombatEnd, Untouched, world, cluster, TypeOK
<1>3. talk' \in [Talk -> SUBSET Slot]
  BY <1>1, TalkType DEF HandleCombatEnd, Talk
<1>4. state[s] \in {"ZOMBIE", "RECYCLE"}
  BY <1>1 DEF CombatHoldsModel
<1>5. CASE /\ mon' = [mon EXCEPT ![s] = "PEACE"] /\ SetState(s, "NORMAL")
           /\ UNCHANGED <<fired, tasks>>
  <2>1. Machine(s) /\ state'[s] \in {"NORMAL", "RECYCLE"}
    BY <1>1, <1>4, <1>5, SwitchEffect, Shifts
  <2>2. Fighting(s)
    BY <1>1, <1>5, <2>1 DEF Fighting, TypeOK, MonStates
  <2> QED
    BY <1>1, <1>2, <1>3, <2>1, <2>2, NpcStep
<1>6. CASE LifeExhaust(s) /\ UNCHANGED mon
  <2>1. Machine(s) /\ state'[s] \in {"REBORN", "RECYCLE"}
    BY <1>1, <1>6, LifeExhaustEffect
  <2>2. Fighting(s)
    BY <1>1, <1>6, <2>1 DEF Fighting, TypeOK
  <2> QED
    BY <1>1, <1>2, <1>3, <2>1, <2>2, NpcStep
<1> QED
  BY <1>5, <1>6 DEF HandleCombatEnd

\* A message without effect.
LEMMA TalkEndsInv ==
  ASSUME IInv, NEW s \in Slot, NEW k \in Talk, TalkEnds(k, s) PROVE IInv'
<1>1. /\ TypeOK /\ UNCHANGED <<available, life, npc, accepting, wm_msg, obj_msg, tasks, aborted>>
      /\ UNCHANGED <<map_elem, enabled, forbid, indexed, building, initial, unheard>>
  BY DEF IInv, TalkEnds, Untouched, npc, world, cluster
<1>2. talk' \in [Talk -> SUBSET Slot]
  BY <1>1, TalkType DEF TalkEnds
<1>3. TypeOK'
  BY <1>1, <1>2 DEF TypeOK, npc
<1>4. QueueObj' /\ ElemMapMatches' /\ WorldInv'
  BY <1>1, StayUse, SameHold, StayWorld DEF IInv, TalkEnds, LockFree, npc
<1> QED
  BY <1>1, <1>3, <1>4, Frame DEF IInv, npc

\* A closing message is dropped, fails its assertion, or recycles the npc.
LEMMA HandleCloseInv ==
  ASSUME IInv, NEW c \in Close, HandleClose(c) PROVE IInv'
<1>1. /\ TypeOK /\ HasElem /\ CombatHoldsModel /\ Running /\ c.obj \in Slot
      /\ UNCHANGED <<available, life, elem, mon, accepting, wm_msg, talk, world>>
  BY DEF IInv, HandleClose, LockFree, Close
<1>2. obj_msg' \in [Close -> Nat]
  BY <1>1 DEF HandleClose, TypeOK
<1>3. CASE UNCHANGED <<state, fired, tasks>> /\ aborted' \in Aborts
  <2>1. TypeOK'
    BY <1>1, <1>2, <1>3 DEF TypeOK, world, cluster, Aborts
  <2>2. QueueObj' /\ ElemMapMatches' /\ WorldInv'
    <3>1. UNCHANGED <<map_elem, indexed, unheard>>
      BY <1>1 DEF world, cluster
    <3> QED
      BY <1>1, <3>1, StayUse, SameHold, StayWorld DEF IInv
  <2> QED
    BY <1>1, <1>3, <2>1, <2>2, Frame DEF IInv
<1>4. CASE life[c.obj] = "live" /\ RecycleSelf(c.obj)
  <2>1. Machine(c.obj) /\ state'[c.obj] = "RECYCLE"
    BY <1>1, <1>4, RecycleSelfEffect
  <2>2. Fighting(c.obj)
    BY <1>1, <2>1 DEF Fighting, TypeOK
  <2>3. talk' \in [Talk -> SUBSET Slot]
    BY <1>1 DEF TypeOK
  <2> QED
    BY <1>1, <1>2, <1>4, <2>1, <2>2, <2>3, NpcStep
<1>5. aborted \in Aborts /\ "close_source" \in Aborts
  BY <1>1 DEF TypeOK, Aborts
<1>6. \/ UNCHANGED <<state, fired, tasks>> /\ aborted' \in {aborted, "close_source"}
      \/ life[c.obj] = "live" /\ RecycleSelf(c.obj)
  BY DEF HandleClose
<1> QED
  BY <1>3, <1>4, <1>5, <1>6

-----------------------------------------------------------------------------
(* The queue of world messages and the element map *)

\* A message put last decides about its own object and no other.
LEMMA AppendHold ==
  ASSUME TypeOK, NEW m \in Message, wm_msg' = Append(wm_msg, m), UNCHANGED map_elem,
         NEW e \in Elem, NEW s \in Slot
  PROVE  WillHold(e, s)' <=> IF About(m, e, s) THEN m.type = "active" ELSE WillHold(e, s)
<1> DEFINE n == Len(wm_msg)
<1>1. wm_msg \in Seq(Message)
  BY DEF TypeOK
<1>2. /\ n \in Nat /\ Len(wm_msg') = n + 1 /\ wm_msg'[n + 1] = m
      /\ \A i \in 1 .. n : wm_msg'[i] = wm_msg[i]
  BY <1>1, AppendAt
<1>3. WillHold(e, s)' <=>
        IF \E i \in 1 .. n + 1 : About(wm_msg'[i], e, s)
        THEN \E i \in 1 .. n + 1 :
               /\ About(wm_msg'[i], e, s) /\ wm_msg'[i].type = "active"
               /\ \A j \in i + 1 .. n + 1 : ~About(wm_msg'[j], e, s)
        ELSE s \in map_elem[e]
  BY <1>2 DEF WillHold, About
<1> HIDE DEF n
<1>4. CASE About(m, e, s)
  <2>1. n + 1 \in 1 .. n + 1 /\ About(wm_msg'[n + 1], e, s)
    BY <1>2, <1>4
  <2>2. \A i \in 1 .. n : n + 1 \in i + 1 .. n + 1
    BY <1>2
  <2>3. \A i \in 1 .. n + 1 : i = n + 1 \/ i \in 1 .. n
    BY <1>2
  <2>4. \A j \in n + 1 + 1 .. n + 1 : FALSE
    BY <1>2
  <2> QED
    BY <1>2, <1>3, <1>4, <2>1, <2>2, <2>3, <2>4
<1>5. CASE ~About(m, e, s)
  <2>1. \A i \in 1 .. n + 1 : About(wm_msg'[i], e, s) => i \in 1 .. n
    BY <1>2, <1>5
  <2>2. \A i \in 1 .. n : i \in 1 .. n + 1
    BY <1>2
  <2>3. \A i \in 1 .. n : About(wm_msg'[i], e, s) <=> About(wm_msg[i], e, s)
    BY <1>2
  <2>4. ASSUME NEW i \in 1 .. n
        PROVE  (\A j \in i + 1 .. n + 1 : ~About(wm_msg'[j], e, s))
                 <=> (\A j \in i + 1 .. n : ~About(wm_msg[j], e, s))
    <3>1. \A j \in i + 1 .. n : j \in i + 1 .. n + 1 /\ j \in 1 .. n
      BY <1>2
    <3>2. \A j \in i + 1 .. n + 1 : j \in 1 .. n + 1 /\ (j \in 1 .. n => j \in i + 1 .. n)
      BY <1>2
    <3> QED
      BY <2>1, <2>3, <3>1, <3>2
  <2>5. WillHold(e, s) <=>
          IF \E i \in 1 .. n : About(wm_msg[i], e, s)
          THEN \E i \in 1 .. n :
                 /\ About(wm_msg[i], e, s) /\ wm_msg[i].type = "active"
                 /\ \A j \in i + 1 .. n : ~About(wm_msg[j], e, s)
          ELSE s \in map_elem[e]
    BY DEF WillHold, n
  <2>6. (\E i \in 1 .. n + 1 : About(wm_msg'[i], e, s)) <=> \E i \in 1 .. n : About(wm_msg[i], e, s)
    BY <2>1, <2>2, <2>3
  <2>7. (\E i \in 1 .. n + 1 :
               /\ About(wm_msg'[i], e, s) /\ wm_msg'[i].type = "active"
               /\ \A j \in i + 1 .. n + 1 : ~About(wm_msg'[j], e, s))
        <=> \E i \in 1 .. n :
                 /\ About(wm_msg[i], e, s) /\ wm_msg[i].type = "active"
                 /\ \A j \in i + 1 .. n : ~About(wm_msg[j], e, s)
    BY <1>2, <2>1, <2>2, <2>3, <2>4
  <2> QED
    BY <1>3, <1>5, <2>5, <2>6, <2>7
<1> QED
  BY <1>4, <1>5

\* A message that is taken out and applied, or not the last about its object,
\* changes nothing of what will hold.
LEMMA TailHold ==
  ASSUME TypeOK, wm_msg # <<>>, wm_msg' = Tail(wm_msg), NEW e \in Elem, NEW s \in Slot,
         (\A i \in 2 .. Len(wm_msg) : ~About(wm_msg[i], e, s)) =>
           (s \in map_elem'[e] <=> IF About(Head(wm_msg), e, s) THEN Head(wm_msg).type = "active"
                                                                ELSE s \in map_elem[e])
  PROVE  WillHold(e, s)' <=> WillHold(e, s)
<1> DEFINE n == Len(wm_msg') A(i) == About(wm_msg[i], e, s) B(i) == About(wm_msg'[i], e, s)
<1>1. wm_msg \in Seq(Message)
  BY DEF TypeOK
<1>2. /\ n \in Nat /\ Len(wm_msg) = n + 1 /\ Head(wm_msg) = wm_msg[1]
      /\ \A i \in 1 .. n : wm_msg'[i] = wm_msg[i + 1]
  BY <1>1, TailAt
<1>3. WillHold(e, s)' <=>
        IF \E i \in 1 .. n : B(i)
        THEN \E i \in 1 .. n : B(i) /\ wm_msg'[i].type = "active" /\ \A j \in i + 1 .. n : ~B(j)
        ELSE s \in map_elem'[e]
  BY DEF WillHold, About
<1>4. WillHold(e, s) <=>
        IF \E i \in 1 .. n + 1 : A(i)
        THEN \E i \in 1 .. n + 1 : A(i) /\ wm_msg[i].type = "active" /\ \A j \in i + 1 .. n + 1 : ~A(j)
        ELSE s \in map_elem[e]
  BY <1>2 DEF WillHold
<1>5. \A i \in 1 .. n : B(i) <=> A(i + 1)
  BY <1>2
<1>6. (\A i \in 2 .. n + 1 : ~A(i)) =>
        (s \in map_elem'[e] <=> IF A(1) THEN wm_msg[1].type = "active" ELSE s \in map_elem[e])
  BY <1>2
<1> HIDE DEF n, A, B
<1>7. \A i \in 1 .. n + 1 : i = 1 \/ (i - 1 \in 1 .. n /\ (i - 1) + 1 = i)
  BY <1>2
<1>8. \A i \in 1 .. n : i + 1 \in 1 .. n + 1 /\ i + 1 \in 2 .. n + 1
  BY <1>2
<1>9. 1 \in 1 .. n + 1
  BY <1>2
<1>10. ASSUME NEW i \in 1 .. n
       PROVE  (\A j \in i + 1 .. n : ~B(j)) <=> \A j \in (i + 1) + 1 .. n + 1 : ~A(j)
  <2>1. \A j \in i + 1 .. n : j \in 1 .. n /\ j + 1 \in (i + 1) + 1 .. n + 1
    BY <1>2
  <2>2. \A j \in (i + 1) + 1 .. n + 1 : j - 1 \in i + 1 .. n /\ (j - 1) + 1 = j /\ j - 1 \in 1 .. n
    BY <1>2
  <2> QED
    BY <1>5, <2>1, <2>2
<1>11. CASE \E i \in 1 .. n : B(i)
  <2>1. PICK k \in 1 .. n : B(k)
    BY <1>11
  <2>2. A(k + 1) /\ k + 1 \in 1 + 1 .. n + 1 /\ k + 1 \in 1 .. n + 1
    BY <1>2, <1>5, <2>1
  <2>3. ASSUME NEW i \in 1 .. n + 1, A(i), wm_msg[i].type = "active", \A j \in i + 1 .. n + 1 : ~A(j)
        PROVE  \E l \in 1 .. n : B(l) /\ wm_msg'[l].type = "active" /\ \A j \in l + 1 .. n : ~B(j)
    <3>1. i # 1
      BY <2>2, <2>3
    <3>2. i - 1 \in 1 .. n /\ (i - 1) + 1 = i
      BY <1>7, <3>1
    <3>3. B(i - 1) /\ wm_msg'[i - 1].type = "active"
      BY <1>2, <1>5, <2>3, <3>2
    <3>4. \A j \in (i - 1) + 1 .. n : ~B(j)
      BY <1>10, <2>3, <3>2
    <3> QED
      BY <3>2, <3>3, <3>4
  <2>4. ASSUME NEW l \in 1 .. n, B(l), wm_msg'[l].type = "active", \A j \in l + 1 .. n : ~B(j)
        PROVE  \E i \in 1 .. n + 1 : A(i) /\ wm_msg[i].type = "active" /\ \A j \in i + 1 .. n + 1 : ~A(j)
    <3>1. /\ l + 1 \in 1 .. n + 1 /\ A(l + 1) /\ wm_msg[l + 1].type = "active"
          /\ \A j \in (l + 1) + 1 .. n + 1 : ~A(j)
      BY <1>2, <1>5, <1>8, <1>10, <2>4
    <3> QED
      BY <3>1
  <2> QED
    BY <1>3, <1>4, <1>11, <2>2, <2>3, <2>4
<1>12. CASE ~ \E i \in 1 .. n : B(i)
  <2>1. \A i \in 1 .. n + 1 : A(i) => i = 1
    BY <1>5, <1>7, <1>12
  <2>2. \A j \in 1 + 1 .. n + 1 : j # 1 /\ j \in 1 .. n + 1
    BY <1>2
  <2>3. WillHold(e, s) <=> IF A(1) THEN wm_msg[1].type = "active" ELSE s \in map_elem[e]
    BY <1>4, <1>9, <2>1, <2>2
  <2>4. \A i \in 2 .. n + 1 : ~A(i)
    BY <2>1, <2>2
  <2> QED
    BY <1>3, <1>6, <1>12, <2>3, <2>4
<1> QED
  BY <1>11, <1>12

-----------------------------------------------------------------------------
(* The pool's list *)

\* Alloc: the head becomes an npc.
LEMMA PoolTake ==
  ASSUME TypeOK, PoolInv, available # <<>>, available' = Tail(available),
         life' = [life EXCEPT ![Head(available)] = "live"]
  PROVE  /\ available' \in Seq(Slot) /\ PoolInv'
         /\ Head(available) \in Slot /\ life[Head(available)] = "free"
<1> DEFINE n == Len(available')
<1>1. /\ available' \in Seq(Slot) /\ n \in Nat /\ Len(available) = n + 1
      /\ Head(available) = available[1] /\ Head(available) \in Slot
      /\ \A i \in 1 .. n : available'[i] = available[i + 1]
  BY TailAt DEF TypeOK
<1> HIDE DEF n
<1>2. \A i \in 1 .. n : i + 1 \in 1 .. n + 1 /\ i + 1 # 1
  BY <1>1
<1>3. \A i \in 1 .. n + 1 : i = 1 \/ (i - 1 \in 1 .. n /\ (i - 1) + 1 = i)
  BY <1>1
<1>4. 1 \in 1 .. n + 1
  BY <1>1
<1>5. life[Head(available)] = "free"
  BY <1>1, <1>4 DEF PoolInv
<1>6. ASSUME NEW s \in Slot
      PROVE  life'[s] = "free" <=> \E i \in 1 .. n : available'[i] = s
  <2>1. CASE s = available[1]
    <3>1. life'[s] = "live"
      BY <1>1, <2>1 DEF TypeOK
    <3>2. \A i \in 1 .. n : available[i + 1] # s
      BY <1>1, <1>2, <1>4, <2>1 DEF PoolInv
    <3> QED
      BY <1>1, <3>1, <3>2
  <2>2. CASE s # available[1]
    <3>1. life'[s] = life[s]
      BY <1>1, <2>2 DEF TypeOK
    <3>2. life[s] = "free" <=> \E i \in 1 .. n + 1 : available[i] = s
      BY <1>1 DEF PoolInv
    <3>3. (\E i \in 1 .. n + 1 : available[i] = s) <=> \E i \in 1 .. n : available[i + 1] = s
      BY <1>2, <1>3, <2>2
    <3> QED
      BY <1>1, <3>1, <3>2, <3>3
  <2> QED
    BY <2>1, <2>2
<1>7. ASSUME NEW i \in 1 .. n, NEW j \in 1 .. n, available'[i] = available'[j]
      PROVE  i = j
  <2>1. i + 1 = j + 1
    BY <1>1, <1>2, <1>7 DEF PoolInv
  <2> QED
    BY <1>1, <2>1
<1> QED
  BY <1>1, <1>5, <1>6, <1>7 DEF PoolInv, n

\* Free: a slot that is no npc any more goes to the end.
LEMMA PoolReturn ==
  ASSUME TypeOK, PoolInv, NEW s \in Slot, life[s] # "free", available' = Append(available, s),
         life' = [life EXCEPT ![s] = "free"]
  PROVE  available' \in Seq(Slot) /\ PoolInv'
<1> DEFINE n == Len(available)
<1>1. /\ available' \in Seq(Slot) /\ n \in Nat /\ Len(available') = n + 1
      /\ available'[n + 1] = s /\ \A i \in 1 .. n : available'[i] = available[i]
  BY AppendAt DEF TypeOK
<1>2. /\ \A r \in Slot : life[r] = "free" <=> \E i \in 1 .. n : available[i] = r
      /\ \A i, j \in 1 .. n : available[i] = available[j] => i = j
  BY DEF PoolInv
<1> HIDE DEF n
<1>3. \A i \in 1 .. n + 1 : i = n + 1 \/ i \in 1 .. n
  BY <1>1
<1>4. n + 1 \in 1 .. n + 1 /\ \A i \in 1 .. n : i \in 1 .. n + 1
  BY <1>1
<1>5. ASSUME NEW r \in Slot
      PROVE  life'[r] = "free" <=> \E i \in 1 .. n + 1 : available'[i] = r
  <2>1. CASE r = s
    BY <1>1, <1>4, <2>1 DEF TypeOK
  <2>2. CASE r # s
    <3>1. life'[r] = life[r]
      BY <2>2 DEF TypeOK
    <3>2. (\E i \in 1 .. n + 1 : available'[i] = r) <=> \E i \in 1 .. n : available[i] = r
      BY <1>1, <1>3, <1>4, <2>2
    <3> QED
      BY <1>2, <3>1, <3>2
  <2> QED
    BY <2>1, <2>2
<1>6. ASSUME NEW i \in 1 .. n + 1, NEW j \in 1 .. n + 1, available'[i] = available'[j]
      PROVE  i = j
  <2>1. \A k \in 1 .. n : available[k] # s
    BY <1>2
  <2> QED
    BY <1>1, <1>2, <1>3, <1>6, <2>1
<1> QED
  BY <1>1, <1>5, <1>6 DEF PoolInv

\* Alloc and Free at once: the head goes to the end.
LEMMA PoolRotate ==
  ASSUME TypeOK, PoolInv, available # <<>>, UNCHANGED life,
         available' = Append(Tail(available), Head(available))
  PROVE  available' \in Seq(Slot) /\ PoolInv'
<1> DEFINE n == Len(Tail(available))
<1>1. /\ Tail(available) \in Seq(Slot) /\ n \in Nat /\ Len(available) = n + 1
      /\ Head(available) = available[1] /\ Head(available) \in Slot
      /\ \A i \in 1 .. n : Tail(available)[i] = available[i + 1]
  BY TailAt DEF TypeOK
<1>2. /\ available' \in Seq(Slot) /\ Len(available') = n + 1 /\ available'[n + 1] = available[1]
      /\ \A i \in 1 .. n : available'[i] = available[i + 1]
  BY <1>1, AppendAt
<1>3. /\ \A r \in Slot : life[r] = "free" <=> \E i \in 1 .. n + 1 : available[i] = r
      /\ \A i, j \in 1 .. n + 1 : available[i] = available[j] => i = j
  BY <1>1 DEF PoolInv
<1>4. n \in Nat
  BY <1>1
<1> HIDE DEF n
<1>5. \A i \in 1 .. n + 1 : i = n + 1 \/ (i \in 1 .. n /\ i + 1 \in 1 .. n + 1 /\ i + 1 # 1)
  BY <1>4
<1>6. \A i \in 1 .. n + 1 : i = 1 \/ (i - 1 \in 1 .. n /\ (i - 1) + 1 = i)
  BY <1>4
<1>7. 1 \in 1 .. n + 1 /\ n + 1 \in 1 .. n + 1 /\ \A i \in 1 .. n : i \in 1 .. n + 1
  BY <1>4
<1>8. ASSUME NEW r \in Slot
      PROVE  (\E i \in 1 .. n + 1 : available[i] = r) <=> \E i \in 1 .. n + 1 : available'[i] = r
  <2>1. ASSUME NEW i \in 1 .. n + 1, available[i] = r
        PROVE  \E j \in 1 .. n + 1 : available'[j] = r
    <3>1. CASE i = 1
      BY <1>2, <1>7, <2>1, <3>1
    <3>2. CASE i # 1
      <4>1. i - 1 \in 1 .. n /\ (i - 1) + 1 = i
        BY <1>6, <3>2
      <4> QED
        BY <1>2, <1>7, <2>1, <4>1
    <3> QED
      BY <3>1, <3>2
  <2>2. ASSUME NEW i \in 1 .. n + 1, available'[i] = r
        PROVE  \E j \in 1 .. n + 1 : available[j] = r
    BY <1>2, <1>5, <1>7, <2>2
  <2> QED
    BY <2>1, <2>2
<1>9. ASSUME NEW i \in 1 .. n + 1, NEW j \in 1 .. n + 1, available'[i] = available'[j]
      PROVE  i = j
  <2>1. CASE i = n + 1 /\ j = n + 1
    BY <2>1
  <2>2. CASE i \in 1 .. n /\ j \in 1 .. n
    <3>1. i + 1 = j + 1
      BY <1>2, <1>3, <1>5, <1>9, <2>2, <1>4
    <3> QED
      BY <1>4, <3>1
  <2>3. CASE i = n + 1 /\ j \in 1 .. n
    BY <1>2, <1>3, <1>4, <1>7, <1>9, <2>3
  <2>4. CASE i \in 1 .. n /\ j = n + 1
    BY <1>2, <1>3, <1>4, <1>7, <1>9, <2>4
  <2> QED
    BY <1>5, <2>1, <2>2, <2>3, <2>4
<1>10. \A r \in Slot : life'[r] = "free" <=> \E i \in 1 .. n + 1 : available'[i] = r
  BY <1>3, <1>8
<1>11. PoolInv'
  BY <1>2, <1>9, <1>10 DEF PoolInv
<1> QED
  BY <1>2, <1>11

-----------------------------------------------------------------------------
(* World messages *)

\* A queue without its head is a queue, and the head a message.
LEMMA TakenOK ==
  ASSUME TypeOK, QueueObj, wm_msg # <<>>, wm_msg' = Tail(wm_msg)
  PROVE  /\ wm_msg' \in Seq(Message) /\ QueueObj'
         /\ Head(wm_msg) \in Message /\ Head(wm_msg).elem \in Elem
         /\ Head(wm_msg).type \in {"active", "deactive"} => Head(wm_msg).obj \in Slot
<1> DEFINE n == Len(wm_msg')
<1>1. /\ wm_msg' \in Seq(Message) /\ n \in Nat /\ Len(wm_msg) = n + 1
      /\ Head(wm_msg) = wm_msg[1] /\ Head(wm_msg) \in Message
      /\ \A i \in 1 .. n : wm_msg'[i] = wm_msg[i + 1]
  BY TailAt DEF TypeOK
<1> HIDE DEF n
<1>2. 1 \in 1 .. n + 1 /\ \A i \in 1 .. n : i + 1 \in 1 .. n + 1
  BY <1>1
<1>3. QueueObj'
  <2> SUFFICES ASSUME NEW i \in 1 .. n, wm_msg'[i].type \in {"active", "deactive"}
               PROVE  wm_msg'[i].obj \in Slot
    BY DEF QueueObj, n
  <2> QED
    BY <1>1, <1>2 DEF QueueObj
<1>4. Head(wm_msg).type \in {"active", "deactive"} => Head(wm_msg).obj \in Slot
  BY <1>1, <1>2 DEF QueueObj
<1>5. Head(wm_msg).elem \in Elem
  BY <1>1 DEF Message
<1> QED
  BY <1>1, <1>3, <1>4, <1>5

\* A message that does not concern the element map is taken out.
LEMMA TailSame ==
  ASSUME TypeOK, ElemMapMatches, Running, wm_msg # <<>>, wm_msg' = Tail(wm_msg),
         Head(wm_msg).type \notin {"active", "deactive"}, UNCHANGED map_elem, SameUse
  PROVE  ElemMapMatches'
<1>1. ASSUME NEW e \in Elem, NEW s \in Slot
      PROVE  WillHold(e, s)' <=> WillHold(e, s)
  BY TailHold DEF About
<1> QED
  BY <1>1, KeepMatch

\* Creating an npc, or failing to.
LEMMA CreateNpcEffect ==
  ASSUME IInv, NEW a \in Acceptor, accepting[a] = None, NEW e \in Elem, CreateNpc(a, e),
         UNCHANGED <<tasks, map_elem, indexed, unheard>>
  PROVE  /\ available' \in Seq(Slot) /\ life' \in [Slot -> {"free", "live", "leaving"}]
         /\ elem' \in [Slot -> Elem \cup {None}] /\ state' \in [Slot -> NpcStates]
         /\ mon' \in [Slot -> MonStates] /\ fired' \in [Slot -> BOOLEAN]
         /\ accepting' \in [Acceptor -> Slot \cup {None}]
         /\ HasElem' /\ PoolInv' /\ RecycleTaskExact' /\ RebornIsQueued' /\ CombatHoldsModel'
         /\ SameUse /\ WorldInv'
<1>1. /\ TypeOK /\ HasElem /\ PoolInv /\ RecycleTaskExact /\ RebornIsQueued /\ CombatHoldsModel
      /\ WorldInv /\ None \notin Slot
  BY ElemAssumption DEF IInv
<1>2. CASE UNCHANGED <<available, life, npc, accepting>>
  <2>1. HasElem' /\ PoolInv' /\ RecycleTaskExact' /\ RebornIsQueued' /\ CombatHoldsModel'
    BY <1>2, Frame DEF npc
  <2>2. SameUse /\ WorldInv'
    BY <1>1, <1>2, StayUse, StayWorld DEF npc
  <2> QED
    BY <1>1, <1>2, <2>1, <2>2 DEF TypeOK, npc
<1>3. CASE /\ available # <<>> /\ available' = Append(Tail(available), Head(available))
           /\ UNCHANGED <<life, npc, accepting>>
  <2>1. available' \in Seq(Slot) /\ PoolInv'
    BY <1>1, <1>3, PoolRotate
  <2>2. HasElem' /\ CombatHoldsModel'
    BY <1>1, <1>3 DEF HasElem, CombatHoldsModel, npc
  <2>3. RecycleTaskExact' /\ RebornIsQueued'
    BY <1>1, <1>3 DEF RecycleTaskExact, RebornIsQueued, npc
  <2>4. SameUse /\ WorldInv'
    BY <1>1, <1>3, StayUse, StayWorld DEF npc
  <2> QED
    BY <1>1, <1>3, <2>1, <2>2, <2>3, <2>4 DEF TypeOK, npc
<1>4. CASE available # <<>> /\ Accepted(a, e)
  <2> DEFINE h == Head(available)
  <2>1. available' \in Seq(Slot) /\ PoolInv' /\ h \in Slot /\ life[h] = "free"
    BY <1>1, <1>4, PoolTake DEF Accepted
  <2>2. /\ life'  = [life  EXCEPT ![h] = "live"]
        /\ elem'  = [elem  EXCEPT ![h] = e]
        /\ state' = [state EXCEPT ![h] = "IDLE"]
        /\ mon'   = [mon   EXCEPT ![h] = "PEACE"]
        /\ fired' = [fired EXCEPT ![h] = FALSE]
        /\ accepting' = [accepting EXCEPT ![a] = h]
    BY <1>4 DEF Accepted
  <2> HIDE DEF h
  <2>3. /\ life' \in [Slot -> {"free", "live", "leaving"}] /\ elem' \in [Slot -> Elem \cup {None}]
        /\ state' \in [Slot -> NpcStates] /\ mon' \in [Slot -> MonStates]
        /\ fired' \in [Slot -> BOOLEAN] /\ accepting' \in [Acceptor -> Slot \cup {None}]
    BY <1>1, <2>1, <2>2 DEF TypeOK, NpcStates, MonStates
  <2>4. /\ life'[h] = "live" /\ elem'[h] = e /\ state'[h] = "IDLE" /\ mon'[h] = "PEACE"
        /\ \A s \in Slot \ {h} : /\ life'[s] = life[s] /\ elem'[s] = elem[s] /\ state'[s] = state[s]
                                 /\ mon'[s] = mon[s] /\ fired'[s] = fired[s]
    BY <1>1, <2>1, <2>2 DEF TypeOK
  <2>5. HasElem'
    BY <1>1, <2>4 DEF HasElem
  <2>6. CombatHoldsModel'
    BY <1>1, <2>4 DEF CombatHoldsModel
  <2>7. RecycleTaskExact'
    <3> SUFFICES ASSUME NEW t \in Task, t.kind = "recycle"
                 PROVE  tasks[t] = IF /\ life'[t.obj] = "live" /\ state'[t.obj] = "RECYCLE"
                                      /\ elem'[t.obj] = t.elem
                                   THEN 1 ELSE 0
      BY DEF RecycleTaskExact
    <3>1. t.obj \in Slot
      BY DEF Task
    <3> QED
      BY <1>1, <2>1, <2>4, <3>1 DEF RecycleTaskExact
  <2>8. RebornIsQueued'
    BY <1>1, <2>4 DEF RebornIsQueued
  <2>9. SameUse
    <3>1. accepting'[a] = h /\ \A b \in Acceptor : b # a => accepting'[b] = accepting[b]
      BY <1>1, <2>2 DEF TypeOK
    <3>2. \A s \in Slot : Announced(s)' => s # h /\ Announced(s)
      BY <1>1, <3>1 DEF Announced
    <3>3. h \notin unheard
      BY <1>1, <2>1 DEF WorldInv
    <3> QED
      BY <2>1, <2>4, <3>2, <3>3 DEF SameUse, InUse
  <2>10. WorldInv'
    BY <1>1, <2>1, <2>4, StayWorld
  <2> QED
    BY <2>1, <2>2, <2>3, <2>5, <2>6, <2>7, <2>8, <2>9, <2>10
<1> QED
  BY <1>2, <1>3, <1>4 DEF CreateNpc

\* An npc is created again.
LEMMA RecreateInv == ASSUME IInv, RecreateNpc PROVE IInv'
<1>1. /\ TypeOK /\ QueueObj /\ ElemMapMatches /\ Running /\ wm_msg # <<>>
      /\ "tick" \in Acceptor /\ accepting["tick"] = None
      /\ wm_msg' = Tail(wm_msg) /\ Head(wm_msg).type = "reborn"
      /\ CreateNpc("tick", Head(wm_msg).elem)
      /\ UNCHANGED <<obj_msg, tasks, talk, map_elem, enabled, forbid, indexed, building, initial,
                     unheard, aborted>>
  BY DEF IInv, RecreateNpc, Received, world, cluster, Acceptor
<1>2. wm_msg' \in Seq(Message) /\ QueueObj' /\ Head(wm_msg).elem \in Elem
  BY <1>1, TakenOK
<1>3. TypeOK'
  BY <1>1, <1>2, CreateNpcEffect DEF TypeOK
<1>4. ElemMapMatches'
  BY <1>1, <1>2, CreateNpcEffect, TailSame
<1> QED
  BY <1>1, <1>2, <1>3, <1>4, CreateNpcEffect DEF IInv

\* An element is opened and its npc created, or it was open.
LEMMA EnableInv == ASSUME IInv, EnableMapElement PROVE IInv'
<1> DEFINE e == Head(wm_msg).elem
<1>1. /\ TypeOK /\ QueueObj /\ ElemMapMatches /\ Running /\ wm_msg # <<>> /\ WorldInv
      /\ "tick" \in Acceptor /\ accepting["tick"] = None
      /\ wm_msg' = Tail(wm_msg) /\ Head(wm_msg).type = "enable"
      /\ UNCHANGED <<obj_msg, tasks, talk, map_elem, forbid, indexed, building, initial, unheard,
                     aborted>>
  BY DEF IInv, EnableMapElement, Received, cluster, Acceptor
<1>2. wm_msg' \in Seq(Message) /\ QueueObj' /\ e \in Elem
  BY <1>1, TakenOK
<1>3. CASE UNCHANGED <<available, life, npc, accepting, enabled>>
  <2>1. TypeOK'
    BY <1>1, <1>2, <1>3 DEF TypeOK, npc
  <2>2. ElemMapMatches' /\ WorldInv'
    BY <1>1, <1>3, StayUse, TailSame, StayWorld DEF npc
  <2> QED
    BY <1>1, <1>2, <1>3, <2>1, <2>2, Frame DEF IInv, npc
<1>4. CASE enabled' = enabled \cup {e} /\ CreateNpc("tick", e)
  <2>1. TypeOK'
    BY <1>1, <1>2, <1>4, CreateNpcEffect DEF TypeOK
  <2>2. ElemMapMatches'
    BY <1>1, <1>2, <1>4, CreateNpcEffect, TailSame
  <2> QED
    BY <1>1, <1>2, <1>4, <2>1, <2>2, CreateNpcEffect DEF IInv
<1> QED
  BY <1>3, <1>4 DEF EnableMapElement

\* An element is closed: its npcs are told.
LEMMA DisableInv == ASSUME IInv, DisableMapElement PROVE IInv'
<1>1. /\ TypeOK /\ QueueObj /\ ElemMapMatches /\ Running /\ wm_msg # <<>> /\ WorldInv
      /\ wm_msg' = Tail(wm_msg) /\ Head(wm_msg).type = "disable"
      /\ UNCHANGED <<available, life, elem, state, mon, fired, accepting, tasks, talk, map_elem,
                     enabled, forbid, indexed, building, initial, unheard, aborted>>
  BY DEF IInv, DisableMapElement, Received, npc, world, cluster
<1>2. wm_msg' \in Seq(Message) /\ QueueObj'
  BY <1>1, TakenOK
<1>3. obj_msg' \in [Close -> Nat]
  BY <1>1 DEF DisableMapElement, TypeOK
<1>4. TypeOK'
  BY <1>1, <1>2, <1>3 DEF TypeOK
<1>5. ElemMapMatches' /\ WorldInv'
  BY <1>1, StayUse, TailSame, StayWorld
<1> QED
  BY <1>1, <1>2, <1>4, <1>5, Frame DEF IInv


\* An announcement is entered in the element map.
LEMMA ActiveInv == ASSUME IInv, MapElementActive PROVE IInv'
<1> DEFINE m == Head(wm_msg)
<1>1. /\ TypeOK /\ QueueObj /\ ElemMapMatches /\ Running /\ wm_msg # <<>> /\ WorldInv
      /\ WorldOf[m.elem] \in indexed
      /\ wm_msg' = Tail(wm_msg) /\ m.type = "active"
      /\ map_elem' = [map_elem EXCEPT ![m.elem] = @ \cup {m.obj}]
      /\ enabled' = enabled \cup {m.elem}
      /\ UNCHANGED <<available, life, elem, state, mon, fired, accepting, obj_msg, tasks, talk,
                     forbid, indexed, building, initial, unheard, aborted>>
  BY DEF IInv, MapElementActive, Received, npc, cluster
<1>2. wm_msg' \in Seq(Message) /\ QueueObj' /\ m.elem \in Elem /\ m.obj \in Slot
  BY <1>1, TakenOK
<1>3. map_elem' \in [Elem -> SUBSET Slot] /\ enabled' \subseteq Elem
  BY <1>1, <1>2 DEF TypeOK
<1>4. TypeOK'
  BY <1>1, <1>2, <1>3 DEF TypeOK
<1>5. ASSUME NEW e \in Elem, NEW s \in Slot
      PROVE  WillHold(e, s)' <=> WillHold(e, s)
  <2>1. s \in map_elem'[e] <=> IF About(m, e, s) THEN m.type = "active" ELSE s \in map_elem[e]
    BY <1>1, <1>2 DEF About, TypeOK
  <2> QED
    BY <1>1, <2>1, TailHold
<1>6. ElemMapMatches'
  BY <1>1, <1>5, StayUse, KeepMatch
<1>7. WorldInv'
  BY <1>1, <1>2 DEF WorldInv, TypeOK
<1> QED
  BY <1>1, <1>2, <1>4, <1>6, <1>7, Frame DEF IInv

\* An end is entered in the element map.
LEMMA DeactiveInv == ASSUME IInv, MapElementDeactive PROVE IInv'
<1> DEFINE m == Head(wm_msg)
<1>1. /\ TypeOK /\ QueueObj /\ ElemMapMatches /\ Running /\ wm_msg # <<>> /\ WorldInv
      /\ WorldOf[m.elem] \in indexed
      /\ wm_msg' = Tail(wm_msg) /\ m.type = "deactive"
      /\ map_elem' = [map_elem EXCEPT ![m.elem] = @ \ {m.obj}]
      /\ enabled' \subseteq enabled
      /\ UNCHANGED <<available, life, elem, state, mon, fired, accepting, obj_msg, tasks, talk,
                     forbid, indexed, building, initial, unheard, aborted>>
  BY DEF IInv, MapElementDeactive, Received, npc, cluster
<1>2. wm_msg' \in Seq(Message) /\ QueueObj' /\ m.elem \in Elem /\ m.obj \in Slot
  BY <1>1, TakenOK
<1>3. map_elem' \in [Elem -> SUBSET Slot] /\ enabled' \subseteq Elem
  BY <1>1, <1>2 DEF TypeOK
<1>4. TypeOK'
  BY <1>1, <1>2, <1>3 DEF TypeOK
<1>5. ASSUME NEW e \in Elem, NEW s \in Slot
      PROVE  WillHold(e, s)' <=> WillHold(e, s)
  <2>1. s \in map_elem'[e] <=> IF About(m, e, s) THEN m.type = "active" ELSE s \in map_elem[e]
    BY <1>1, <1>2 DEF About, TypeOK
  <2> QED
    BY <1>1, <2>1, TailHold
<1>6. ElemMapMatches'
  BY <1>1, <1>5, StayUse, KeepMatch
<1>7. WorldInv'
  BY <1>1, <1>2 DEF WorldInv, TypeOK
<1> QED
  BY <1>1, <1>2, <1>4, <1>6, <1>7, Frame DEF IInv

\* A world closes: its npcs are told.
LEMMA CloseWorldInv == ASSUME IInv, NEW w \in World, CloseWorldMan(w) PROVE IInv'
<1>1. /\ TypeOK /\ QueueObj /\ ElemMapMatches /\ Running /\ WorldInv
      /\ forbid' = forbid \cup {w}
      /\ UNCHANGED <<available, life, elem, state, mon, fired, accepting, wm_msg, tasks, talk,
                     map_elem, enabled, indexed, building, initial, unheard, aborted>>
  BY DEF IInv, CloseWorldMan, npc, cluster
<1>2. obj_msg' \in [Close -> Nat]
  BY <1>1 DEF CloseWorldMan, TypeOK
<1>3. TypeOK'
  BY <1>1, <1>2 DEF TypeOK
<1>4. QueueObj' /\ ElemMapMatches' /\ WorldInv'
  BY <1>1, StayUse, SameHold, StayWorld
<1> QED
  BY <1>1, <1>3, <1>4, Frame DEF IInv

\* The master's thread begins a world, generates an npc of it, announces the
\* world.
LEMMA CreateWorldInv == ASSUME IInv, NEW w \in World, CreateWorldMan(w) PROVE IInv'
<1>1. /\ TypeOK /\ QueueObj /\ ElemMapMatches /\ Running /\ WorldInv
      /\ building' = w /\ initial' \subseteq Default
      /\ UNCHANGED <<available, life, elem, state, mon, fired, accepting, wm_msg, obj_msg, tasks,
                     talk, map_elem, enabled, forbid, indexed, unheard, aborted>>
  BY DEF IInv, CreateWorldMan, npc
<1>2. TypeOK'
  BY <1>1, ElemAssumption DEF TypeOK
<1>3. QueueObj' /\ ElemMapMatches' /\ WorldInv'
  BY <1>1, StayUse, SameHold, StayWorld
<1> QED
  BY <1>1, <1>2, <1>3, Frame DEF IInv

LEMMA InitGenInv == ASSUME IInv, NEW e \in initial, InitGenNpc(e) PROVE IInv'
<1>1. /\ TypeOK /\ QueueObj /\ ElemMapMatches /\ Running /\ e \in Elem
      /\ "master" \in Acceptor /\ accepting["master"] = None /\ CreateNpc("master", e)
      /\ initial' \subseteq initial
      /\ UNCHANGED <<wm_msg, obj_msg, tasks, talk, map_elem, enabled, forbid, indexed, building,
                     unheard, aborted>>
  BY DEF IInv, InitGenNpc, TypeOK, Acceptor
<1>2. TypeOK'
  BY <1>1, CreateNpcEffect DEF TypeOK
<1>3. QueueObj' /\ ElemMapMatches'
  BY <1>1, CreateNpcEffect, SameHold
<1> QED
  BY <1>1, <1>2, <1>3, CreateNpcEffect DEF IInv

LEMMA InsertWorldInv == ASSUME IInv, InsertWorldManager PROVE IInv'
<1>1. /\ TypeOK /\ QueueObj /\ ElemMapMatches /\ Running /\ WorldInv
      /\ building # None /\ indexed' = indexed \cup {building} /\ building' = None
      /\ UNCHANGED <<available, life, elem, state, mon, fired, accepting, wm_msg, obj_msg, tasks,
                     talk, map_elem, enabled, forbid, initial, unheard, aborted>>
  BY DEF IInv, InsertWorldManager, npc
<1>2. TypeOK'
  BY <1>1 DEF TypeOK
<1>3. QueueObj' /\ ElemMapMatches'
  BY <1>1, StayUse, SameHold
<1>4. WorldInv'
  BY <1>1 DEF WorldInv
<1> QED
  BY <1>1, <1>2, <1>3, <1>4, Frame DEF IInv

\* A message without a world is lost: what it said of an npc is forgotten, and
\* the npc unheard of if nothing else in the queue speaks of it.
LEMMA DropInv == ASSUME IInv, DispatchToNone PROVE IInv'
<1>0. PICK m : m = Head(wm_msg)
  OBVIOUS
<1> DEFINE n == Len(wm_msg)
<1>a. PICK lost \in BOOLEAN :
        lost <=> /\ m.type = "active"
                 /\ \A i \in 2 .. n : ~About(wm_msg[i], m.elem, m.obj)
  OBVIOUS
<1>1. /\ TypeOK /\ QueueObj /\ ElemMapMatches /\ Running /\ wm_msg # <<>> /\ WorldInv
      /\ WorldOf[m.elem] \notin indexed /\ wm_msg' = Tail(wm_msg)
      /\ unheard' = IF lost THEN unheard \cup {m.obj} ELSE unheard
      /\ UNCHANGED <<available, life, elem, state, mon, fired, accepting, obj_msg, tasks, talk,
                     map_elem, enabled, forbid, indexed, building, initial, aborted>>
  BY <1>0, <1>a DEF IInv, DispatchToNone, npc, cluster
<1>2. /\ wm_msg' \in Seq(Message) /\ QueueObj' /\ m.elem \in Elem
      /\ lost => m.obj \in Slot
  BY <1>0, <1>a, <1>1, TakenOK
<1>3. /\ map_elem[m.elem] = {} /\ n \in Nat /\ n >= 1 /\ Len(wm_msg') = n - 1
      /\ m = wm_msg[1] /\ \A i \in 1 .. n - 1 : wm_msg'[i] = wm_msg[i + 1]
  <2>1. wm_msg \in Seq(Message)
    BY <1>1 DEF TypeOK
  <2> QED
    BY <1>0, <1>1, <1>2, <2>1, TailAt DEF WorldInv
<1>4. ASSUME lost PROVE WillHold(m.elem, m.obj)
  <2>1. 1 \in 1 .. n /\ \A j \in 1 + 1 .. n : j \in 2 .. n
    BY <1>3
  <2>2. About(wm_msg[1], m.elem, m.obj) /\ wm_msg[1].type = "active"
    BY <1>3, <1>4, <1>a DEF About
  <2>3. \A j \in 1 + 1 .. n : ~About(wm_msg[j], m.elem, m.obj)
    BY <1>4, <1>a, <2>1
  <2> QED
    BY <2>1, <2>2, <2>3 DEF WillHold
<1>5. ASSUME NEW e \in Elem, NEW s \in Slot, ~(lost /\ e = m.elem /\ s = m.obj)
      PROVE  WillHold(e, s)' <=> WillHold(e, s)
  <2>1. ASSUME \A i \in 2 .. Len(wm_msg) : ~About(wm_msg[i], e, s)
        PROVE  s \in map_elem'[e] <=>
                 IF About(Head(wm_msg), e, s) THEN Head(wm_msg).type = "active"
                                              ELSE s \in map_elem[e]
    <3>1. CASE About(m, e, s)
      <4>1. e = m.elem /\ s = m.obj
        BY <3>1 DEF About
      <4>2. m.type # "active"
        BY <1>a, <1>5, <2>1, <4>1
      <4> QED
        BY <1>0, <1>1, <1>3, <3>1, <4>1, <4>2
    <3>2. CASE ~About(m, e, s)
      BY <1>0, <1>1, <3>2
    <3> QED
      BY <3>1, <3>2
  <2> QED
    BY <1>1, <2>1, TailHold
<1>6. ASSUME lost PROVE ~WillHold(m.elem, m.obj)'
  <2>1. \A i \in 1 .. n - 1 : i + 1 \in 2 .. n
    BY <1>3
  <2>2. \A i \in 1 .. Len(wm_msg') : ~About(wm_msg'[i], m.elem, m.obj)
    BY <1>a, <1>3, <1>6, <2>1
  <2> QED
    BY <1>1, <1>3, <2>2 DEF WillHold, About
<1>7. \A e \in Elem, s \in Slot :
        /\ WillHold(e, s) => InUse(e, s)
        /\ InUse(e, s) /\ Announced(s) => WillHold(e, s)
        /\ InUse(e, s) /\ s \in unheard => WorldOf[e] \notin Normal
  BY <1>1, Matches
<1>8. lost => life[m.obj] # "free" /\ elem[m.obj] = m.elem
  BY <1>2, <1>4, <1>7 DEF InUse
<1>9. TypeOK'
  BY <1>1, <1>2 DEF TypeOK
<1>10. WorldInv'
  BY <1>1, <1>8 DEF WorldInv
<1>11. ElemMapMatches'
  <2>1. WorldOf[m.elem] \notin Normal
    BY <1>1 DEF WorldInv
  <2>2. \A e \in Elem, s \in Slot :
          /\ InUse(e, s)' <=> InUse(e, s)
          /\ Announced(s)' => Announced(s)
          /\ Announced(s)' => ~(lost /\ s = m.obj)
    BY <1>1 DEF InUse, Announced
  <2>3. \A e \in Elem, s \in Slot : WillHold(e, s)' => WillHold(e, s)
    BY <1>5, <1>6
  <2>4. \A e \in Elem, s \in Slot : s \in unheard' => s \in unheard \/ (lost /\ s = m.obj)
    BY <1>1
  <2>5. \A e \in Elem, s \in Slot :
          /\ WillHold(e, s)' => InUse(e, s)'
          /\ InUse(e, s)' /\ Announced(s)' => WillHold(e, s)'
          /\ InUse(e, s)' /\ s \in unheard' => WorldOf[e] \notin Normal
    <3> SUFFICES ASSUME NEW e \in Elem, NEW s \in Slot
                 PROVE  /\ WillHold(e, s)' => InUse(e, s)'
                        /\ InUse(e, s)' /\ Announced(s)' => WillHold(e, s)'
                        /\ InUse(e, s)' /\ s \in unheard' => WorldOf[e] \notin Normal
      OBVIOUS
    <3>1. WillHold(e, s)' => InUse(e, s)'
      BY <1>7, <2>2, <2>3
    <3>2. InUse(e, s)' /\ Announced(s)' => WillHold(e, s)'
      BY <1>5, <1>7, <2>2
    <3>3. InUse(e, s)' /\ s \in unheard' => WorldOf[e] \notin Normal
      BY <1>7, <1>8, <2>1, <2>2, <2>4 DEF InUse
    <3> QED
      BY <3>1, <3>2, <3>3
  <2> QED
    BY <2>5 DEF ElemMapMatches, InUse, Announced
<1> QED
  BY <1>1, <1>2, <1>9, <1>10, <1>11, Frame DEF IInv

-----------------------------------------------------------------------------
(* Messages that are sent *)

\* Send puts a message last.
LEMMA SendOK ==
  ASSUME TypeOK, QueueObj, NEW e \in Elem, NEW s \in Slot \cup {None},
         NEW type \in {"enable", "disable", "reborn", "active", "deactive"},
         type \in {"active", "deactive"} => s \in Slot, wm_msg' = Send(type, e, s)
  PROVE  /\ wm_msg' \in Seq(Message) /\ QueueObj'
         /\ UNCHANGED map_elem =>
              \A d \in Elem, r \in Slot : WillHold(d, r)' <=>
                IF type \in {"active", "deactive"} /\ d = e /\ r = s THEN type = "active"
                                                                   ELSE WillHold(d, r)
<1> DEFINE m == [type |-> type, elem |-> e, obj |-> s] n == Len(wm_msg)
<1>1. m \in Message /\ m.type = type /\ m.elem = e /\ m.obj = s /\ wm_msg' = Append(wm_msg, m)
  BY DEF Message, Send
<1> HIDE DEF m
<1>2. /\ wm_msg' \in Seq(Message) /\ n \in Nat /\ Len(wm_msg') = n + 1 /\ wm_msg'[n + 1] = m
      /\ \A i \in 1 .. n : wm_msg'[i] = wm_msg[i]
  BY <1>1, AppendAt DEF TypeOK
<1>3. QueueObj'
  <2> SUFFICES ASSUME NEW i \in 1 .. n + 1, wm_msg'[i].type \in {"active", "deactive"}
               PROVE  wm_msg'[i].obj \in Slot
    BY <1>2 DEF QueueObj
  <2>1. CASE i = n + 1
    BY <1>1, <1>2, <2>1
  <2>2. CASE i \in 1 .. n
    BY <1>2, <2>2 DEF QueueObj
  <2> QED
    BY <1>2, <2>1, <2>2
<1>4. ASSUME UNCHANGED map_elem, NEW d \in Elem, NEW r \in Slot
      PROVE  WillHold(d, r)' <=>
               IF type \in {"active", "deactive"} /\ d = e /\ r = s THEN type = "active"
                                                                  ELSE WillHold(d, r)
  <2>1. WillHold(d, r)' <=> IF About(m, d, r) THEN m.type = "active" ELSE WillHold(d, r)
    BY <1>1, <1>4, AppendHold
  <2>2. About(m, d, r) <=> type \in {"active", "deactive"} /\ d = e /\ r = s
    BY <1>1 DEF About
  <2> QED
    BY <1>1, <2>1, <2>2
<1> QED
  BY <1>2, <1>3, <1>4

\* An order is queued.
LEMMA OrderInv ==
  ASSUME IInv, NEW type \in {"enable", "disable"}, NEW e \in Elem, Order(type, e) PROVE IInv'
<1>1. /\ TypeOK /\ QueueObj /\ ElemMapMatches /\ Running /\ WorldInv
      /\ wm_msg' = Send(type, e, None)
      /\ UNCHANGED <<available, life, elem, state, mon, fired, accepting, obj_msg, tasks, talk,
                     map_elem, enabled, forbid, indexed, building, initial, unheard, aborted>>
  BY DEF IInv, Order, npc, world, cluster
<1>2. /\ wm_msg' \in Seq(Message) /\ QueueObj'
      /\ \A d \in Elem, r \in Slot : WillHold(d, r)' <=> WillHold(d, r)
  BY <1>1, SendOK
<1>3. TypeOK'
  BY <1>1, <1>2 DEF TypeOK
<1>4. ElemMapMatches' /\ WorldInv'
  BY <1>1, <1>2, StayUse, KeepMatch, StayWorld
<1> QED
  BY <1>1, <1>2, <1>3, <1>4, Frame DEF IInv

\* An npc is announced, or was released before.
LEMMA HasInsertInv ==
  ASSUME IInv, NEW a \in Acceptor, HasInsertToWorld(a) PROVE IInv'
<1>0. PICK x : x = accepting[a]
  OBVIOUS
<1>1. /\ TypeOK /\ HasElem /\ QueueObj /\ ElemMapMatches /\ Running /\ WorldInv
      /\ x \in Slot /\ None \notin Slot
      /\ accepting' \in [Acceptor -> Slot \cup {None}]
      /\ \A s \in Slot : s # x /\ (\A b \in Acceptor : accepting'[b] # s) =>
                           \A b \in Acceptor : accepting[b] # s
      /\ UNCHANGED <<available, life, elem, state, mon, fired, obj_msg, tasks, talk,
                     map_elem, enabled, forbid, indexed, building, initial>>
  BY <1>0, ElemAssumption DEF IInv, HasInsertToWorld, npc, cluster, TypeOK
<1>2. CASE life[x] = "free" /\ aborted' = "released_imp" /\ UNCHANGED <<wm_msg, unheard>>
  <2>1. TypeOK'
    BY <1>1, <1>2 DEF TypeOK
  <2>2. QueueObj' /\ ElemMapMatches' /\ WorldInv'
    <3>1. SameUse
      BY <1>1, <1>2 DEF SameUse, InUse, Announced
    <3> QED
      BY <1>1, <1>2, <3>1, SameHold, StayWorld
  <2> QED
    BY <1>1, <2>1, <2>2, Frame DEF IInv
<1>3. CASE /\ life[x] # "free" /\ wm_msg' = Send("active", elem[x], x)
           /\ unheard' = unheard \ {x} /\ UNCHANGED aborted
  <2>1. elem[x] \in Elem
    BY <1>1, <1>3 DEF HasElem
  <2>2. /\ wm_msg' \in Seq(Message) /\ QueueObj'
        /\ \A d \in Elem, r \in Slot : WillHold(d, r)' <=>
             IF d = elem[x] /\ r = x THEN TRUE ELSE WillHold(d, r)
    BY <1>1, <1>3, <2>1, SendOK
  <2>3. TypeOK'
    BY <1>1, <1>3, <2>2 DEF TypeOK
  <2>4. ElemMapMatches'
    <3>1. \A d \in Elem, r \in Slot :
            /\ WillHold(d, r) => InUse(d, r)
            /\ InUse(d, r) /\ Announced(r) => WillHold(d, r)
            /\ InUse(d, r) /\ r \in unheard => WorldOf[d] \notin Normal
      BY <1>1, Matches
    <3>2. \A d \in Elem, r \in Slot :
            /\ InUse(d, r)' <=> InUse(d, r)
            /\ r # x /\ Announced(r)' => Announced(r)
      BY <1>1, <1>3 DEF InUse, Announced
    <3>3. \A d \in Elem, r \in Slot :
            /\ WillHold(d, r)' => InUse(d, r)'
            /\ InUse(d, r)' /\ Announced(r)' => WillHold(d, r)'
            /\ InUse(d, r)' /\ r \in unheard' => WorldOf[d] \notin Normal
      BY <1>1, <1>3, <2>2, <3>1, <3>2 DEF InUse
    <3> QED
      BY <3>3 DEF ElemMapMatches, InUse, Announced
  <2>5. WorldInv'
    BY <1>1, <1>3, StayWorld
  <2> QED
    BY <1>1, <2>2, <2>3, <2>4, <2>5, Frame DEF IInv
<1> QED
  BY <1>0, <1>2, <1>3 DEF HasInsertToWorld

-----------------------------------------------------------------------------
(* Tasks *)

\* A task is taken out.  A RecycleTask finds the npc it was made for.
LEMMA TaskTaken ==
  ASSUME TypeOK, RecycleTaskExact, NEW t \in Task, TaskRuns(t)
  PROVE  /\ tasks' \in [Task -> Nat] /\ t.obj \in Slot /\ t.elem \in Elem
         /\ tasks[t] \in Nat /\ tasks[t] > 0 /\ tasks'[t] = tasks[t] - 1
         /\ \A u \in Task : u # t => tasks'[u] = tasks[u]
         /\ t.kind = "recycle" => /\ life[t.obj] = "live" /\ state[t.obj] = "RECYCLE"
                                  /\ elem[t.obj] = t.elem /\ tasks[t] = 1
<1>1. t.obj \in Slot /\ t.elem \in Elem
  BY DEF Task
<1>2. tasks \in [Task -> Nat] /\ tasks[t] > 0 /\ tasks' = [tasks EXCEPT ![t] = tasks[t] - 1]
  BY DEF TypeOK, TaskRuns
<1>3. t.kind = "recycle" => /\ life[t.obj] = "live" /\ state[t.obj] = "RECYCLE"
                            /\ elem[t.obj] = t.elem /\ tasks[t] = 1
  BY <1>2 DEF RecycleTaskExact
<1> QED
  BY <1>1, <1>2, <1>3

\* A task runs and its npc, if it leaves, has been the task's own.
LEMMA TaskInv ==
  ASSUME IInv, NEW t \in Task, RunTask(t) PROVE IInv'
<1>1. /\ TypeOK /\ HasElem /\ PoolInv /\ RecycleTaskExact /\ RebornIsQueued
      /\ QueueObj /\ ElemMapMatches /\ CombatHoldsModel /\ WorldInv /\ TaskRuns(t)
  BY DEF IInv, RunTask, TaskInactive, RebornTask, RecycleTask
<1>2. /\ Running /\ life[t.obj] # "leaving"
      /\ UNCHANGED <<available, elem, state, mon, fired, accepting, obj_msg, talk,
                     map_elem, enabled, forbid, indexed, building, initial, unheard>>
  BY <1>1 DEF TaskRuns, LockFree, npc, world, cluster
<1>3. /\ tasks' \in [Task -> Nat] /\ t.obj \in Slot /\ t.elem \in Elem
      /\ tasks[t] \in Nat /\ tasks[t] > 0 /\ tasks'[t] = tasks[t] - 1
      /\ \A u \in Task : u # t => tasks'[u] = tasks[u]
      /\ t.kind = "recycle" => /\ life[t.obj] = "live" /\ state[t.obj] = "RECYCLE"
                               /\ elem[t.obj] = t.elem /\ tasks[t] = 1
  BY <1>1, TaskTaken
<1>4. /\ \/ UNCHANGED life
         \/ life[t.obj] = "live" /\ life' = [life EXCEPT ![t.obj] = "leaving"]
      /\ t.kind = "recycle" => life' = [life EXCEPT ![t.obj] = "leaving"]
      /\ \/ life' = [life EXCEPT ![t.obj] = "leaving"] /\ life[t.obj] = "live"
            /\ state[t.obj] = IF t.kind = "recycle" THEN "RECYCLE" ELSE "REBORN"
         \/ UNCHANGED life /\ t.kind = "reborn"
            /\ ~(life[t.obj] = "live" /\ state[t.obj] = "REBORN" /\ elem[t.obj] = t.elem)
      /\ UNCHANGED wm_msg \/ wm_msg' = Send("reborn", t.elem, t.obj)
      /\ aborted' \in Aborts
  <2>1. aborted \in Aborts /\ t.kind \in {"reborn", "recycle"}
    BY <1>1 DEF TypeOK, Aborts, Task
  <2>2. CASE TaskInactive(t)
    BY <1>3, <2>1, <2>2 DEF TaskInactive
  <2>3. CASE RebornTask(t)
    BY <1>3, <2>1, <2>3 DEF RebornTask, Leave, Aborts
  <2>4. CASE RecycleTask(t)
    BY <1>3, <2>1, <2>4 DEF RecycleTask, Leave, Aborts
  <2> QED
    BY <2>2, <2>3, <2>4 DEF RunTask
<1>5. /\ life' \in [Slot -> {"free", "live", "leaving"}]
      /\ \A s \in Slot : life'[s] = life[s] \/ (s = t.obj /\ life[s] = "live" /\ life'[s] = "leaving")
  BY <1>1, <1>3, <1>4 DEF TypeOK
<1>6. /\ wm_msg' \in Seq(Message) /\ QueueObj'
      /\ \A d \in Elem, r \in Slot : WillHold(d, r)' <=> WillHold(d, r)
  <2>1. CASE UNCHANGED wm_msg
    BY <1>1, <1>2, <2>1 DEF TypeOK, QueueObj, WillHold, About
  <2>2. CASE wm_msg' = Send("reborn", t.elem, t.obj)
    BY <1>1, <1>2, <1>3, <2>2, SendOK
  <2> QED
    BY <1>4, <2>1, <2>2
<1>7. TypeOK'
  BY <1>1, <1>2, <1>3, <1>4, <1>5, <1>6 DEF TypeOK, Aborts
<1>8. HasElem' /\ PoolInv' /\ CombatHoldsModel'
  BY <1>1, <1>2, <1>5 DEF HasElem, PoolInv, CombatHoldsModel
<1>9. ElemMapMatches' /\ WorldInv'
  <2>1. SameUse
    BY <1>2, <1>5 DEF SameUse, InUse, Announced
  <2> QED
    BY <1>1, <1>2, <1>5, <1>6, <2>1, KeepMatch, StayWorld
<1>10. RecycleTaskExact'
  <2> SUFFICES ASSUME NEW u \in Task, u.kind = "recycle"
               PROVE  tasks'[u] = IF /\ life'[u.obj] = "live" /\ state[u.obj] = "RECYCLE"
                                     /\ elem[u.obj] = u.elem
                                  THEN 1 ELSE 0
    BY <1>2 DEF RecycleTaskExact
  <2>1. u.obj \in Slot /\ (t.kind = u.kind /\ t.obj = u.obj /\ t.elem = u.elem => t = u)
    BY DEF Task
  <2>2. CASE u = t
    BY <1>1, <1>3, <1>4, <2>2 DEF TypeOK
  <2>3. CASE u # t /\ u.obj # t.obj
    BY <1>1, <1>3, <1>5, <2>1, <2>3 DEF RecycleTaskExact
  <2>4. CASE u # t /\ u.obj = t.obj
    BY <1>1, <1>3, <1>4, <1>5, <2>1, <2>4 DEF RecycleTaskExact
  <2> QED
    BY <2>2, <2>3, <2>4
<1>11. RebornIsQueued'
  <2> SUFFICES ASSUME NEW s \in Slot, life'[s] = "live", state[s] = "REBORN", fired[s]
               PROVE  tasks'[Key("reborn", s)] > 0
    BY <1>2 DEF RebornIsQueued, Key
  <2>1. life[s] = "live" /\ tasks[Key("reborn", s)] > 0
    BY <1>1, <1>5 DEF RebornIsQueued, Key
  <2>2. Key("reborn", s) \in Task /\ Key("reborn", s).kind = "reborn"
        /\ Key("reborn", s).obj = s /\ Key("reborn", s).elem = elem[s]
    BY <1>1, <2>1, KeyOK
  <2>3. Key("reborn", s) # t
    BY <1>1, <1>3, <1>4, <2>1, <2>2 DEF TypeOK
  <2> QED
    BY <1>3, <2>1, <2>2, <2>3
<1> QED
  BY <1>6, <1>7, <1>8, <1>9, <1>10, <1>11 DEF IInv

\* An npc is released and its slot goes back to the pool.
LEMMA FreeInv == ASSUME IInv, NEW s \in Slot, FreeNpc(s) PROVE IInv'
<1>1. /\ TypeOK /\ HasElem /\ PoolInv /\ RecycleTaskExact /\ RebornIsQueued
      /\ QueueObj /\ ElemMapMatches /\ CombatHoldsModel /\ WorldInv
      /\ Running /\ life[s] = "leaving"
      /\ wm_msg' = Send("deactive", elem[s], s) /\ unheard' = unheard \ {s}
      /\ UNCHANGED <<accepting, obj_msg, tasks, talk, map_elem, enabled, forbid, indexed,
                     building, initial, aborted>>
  BY DEF IInv, FreeNpc, cluster
<1>2. available' \in Seq(Slot) /\ PoolInv'
  BY <1>1, PoolReturn DEF FreeNpc
<1>3. elem[s] \in Elem
  BY <1>1 DEF HasElem
<1>4. /\ wm_msg' \in Seq(Message) /\ QueueObj'
      /\ \A d \in Elem, r \in Slot : WillHold(d, r)' <=>
           IF d = elem[s] /\ r = s THEN FALSE ELSE WillHold(d, r)
  BY <1>1, <1>3, SendOK
<1>5. /\ life' \in [Slot -> {"free", "live", "leaving"}] /\ elem' \in [Slot -> Elem \cup {None}]
      /\ state' \in [Slot -> NpcStates] /\ mon' \in [Slot -> MonStates]
      /\ fired' \in [Slot -> BOOLEAN]
      /\ life'[s] = "free"
      /\ \A r \in Slot \ {s} : /\ life'[r] = life[r] /\ elem'[r] = elem[r] /\ state'[r] = state[r]
                               /\ mon'[r] = mon[r] /\ fired'[r] = fired[r]
  BY <1>1 DEF FreeNpc, TypeOK, NpcStates, MonStates
<1>6. TypeOK'
  BY <1>1, <1>2, <1>4, <1>5 DEF TypeOK
<1>7. HasElem' /\ CombatHoldsModel'
  BY <1>1, <1>5 DEF HasElem, CombatHoldsModel
<1>8. RecycleTaskExact'
  <2> SUFFICES ASSUME NEW u \in Task, u.kind = "recycle"
               PROVE  tasks[u] = IF /\ life'[u.obj] = "live" /\ state'[u.obj] = "RECYCLE"
                                    /\ elem'[u.obj] = u.elem
                                 THEN 1 ELSE 0
    BY <1>1 DEF RecycleTaskExact
  <2>1. u.obj \in Slot
    BY DEF Task
  <2> QED
    BY <1>1, <1>5, <2>1 DEF RecycleTaskExact
<1>9. RebornIsQueued'
  BY <1>1, <1>5 DEF RebornIsQueued
<1>10. ElemMapMatches'
  <2>1. \A d \in Elem, r \in Slot :
          /\ WillHold(d, r) => InUse(d, r)
          /\ InUse(d, r) /\ Announced(r) => WillHold(d, r)
          /\ InUse(d, r) /\ r \in unheard => WorldOf[d] \notin Normal
    BY <1>1, Matches
  <2>2. \A d \in Elem, r \in Slot :
          IF r = s THEN ~InUse(d, r)'
          ELSE /\ InUse(d, r)' <=> InUse(d, r)
               /\ Announced(r)' <=> Announced(r)
               /\ r \in unheard' <=> r \in unheard
    BY <1>1, <1>5 DEF InUse, Announced
  <2>3. \A d \in Elem : ~WillHold(d, s)'
    BY <1>4, <2>1 DEF InUse
  <2>4. \A d \in Elem, r \in Slot :
          /\ WillHold(d, r)' => InUse(d, r)'
          /\ InUse(d, r)' /\ Announced(r)' => WillHold(d, r)'
          /\ InUse(d, r)' /\ r \in unheard' => WorldOf[d] \notin Normal
    BY <1>4, <2>1, <2>2, <2>3
  <2> QED
    BY <2>4 DEF ElemMapMatches, InUse, Announced
<1>11. WorldInv'
  BY <1>1, <1>5 DEF WorldInv, TypeOK
<1> QED
  BY <1>2, <1>4, <1>6, <1>7, <1>8, <1>9, <1>10, <1>11 DEF IInv

-----------------------------------------------------------------------------
(* The theorems *)

\* The empty server satisfies the invariant.
LEMMA InitInv == Init => IInv
<1> SUFFICES ASSUME Init PROVE IInv
  OBVIOUS
<1>1. available = PoolOrder /\ wm_msg = <<>> /\ \A s \in Slot : life[s] = "free"
  BY DEF Init
<1>2. PoolInv /\ available \in Seq(Slot)
  <2>1. PoolInv
    BY <1>1, PoolOrderOK DEF PoolInv
  <2> QED
    BY <1>1, <2>1, PoolOrderOK
<1>3. wm_msg \in Seq(Message) /\ Len(wm_msg) = 0
  BY <1>1
<1>4. /\ life \in [Slot -> {"free", "live", "leaving"}] /\ elem \in [Slot -> Elem \cup {None}]
      /\ state \in [Slot -> NpcStates] /\ mon \in [Slot -> MonStates]
      /\ fired \in [Slot -> BOOLEAN] /\ accepting \in [Acceptor -> Slot \cup {None}]
  BY DEF Init, NpcStates, MonStates
<1>5. /\ obj_msg \in [Close -> Nat] /\ tasks \in [Task -> Nat] /\ talk \in [Talk -> SUBSET Slot]
      /\ map_elem \in [Elem -> SUBSET Slot] /\ enabled \subseteq Elem /\ forbid \subseteq World
      /\ indexed \subseteq World /\ building \in World \cup {None}
      /\ initial \subseteq Elem /\ unheard \subseteq Slot
  BY ElemAssumption DEF Init
<1>6. TypeOK
  BY <1>2, <1>3, <1>4, <1>5 DEF Init, TypeOK
<1>7. HasElem /\ RebornIsQueued /\ CombatHoldsModel
  BY <1>1 DEF HasElem, RebornIsQueued, CombatHoldsModel
<1>8. RecycleTaskExact
  <2> SUFFICES ASSUME NEW t \in Task
               PROVE  tasks[t] = 0 /\ life[t.obj] = "free"
    BY DEF RecycleTaskExact
  <2>1. t.obj \in Slot
    BY DEF Task
  <2> QED
    BY <1>1, <2>1 DEF Init
<1>9. \A i \in 1 .. Len(wm_msg) : FALSE
  BY <1>3
<1>10. QueueObj
  BY <1>9 DEF QueueObj
<1>11. ElemMapMatches
  <2> SUFFICES ASSUME NEW e \in Elem, NEW s \in Slot
               PROVE  ~WillHold(e, s) /\ life[s] = "free" /\ unheard = {}
    BY DEF ElemMapMatches
  <2>1. map_elem[e] = {}
    BY DEF Init
  <2> QED
    BY <1>1, <1>9, <2>1 DEF WillHold, Init
<1>12. WorldInv
  BY DEF WorldInv, Init
<1> QED
  BY <1>2, <1>6, <1>7, <1>8, <1>10, <1>11, <1>12 DEF IInv

\* A step in which nothing happens.
LEMMA StutterInv == IInv /\ UNCHANGED vars => IInv'
<1> SUFFICES ASSUME IInv, UNCHANGED vars PROVE IInv'
  OBVIOUS
<1>1. UNCHANGED <<available, life, elem, state, mon, fired, accepting, wm_msg, obj_msg, tasks,
                  talk, map_elem, enabled, forbid, indexed, building, initial, unheard, aborted>>
  BY DEF vars, npc, world, cluster
<1>2. TypeOK'
  BY <1>1 DEF IInv, TypeOK
<1>3. QueueObj' /\ ElemMapMatches' /\ WorldInv'
  BY <1>1 DEF IInv, QueueObj, ElemMapMatches, WillHold, About, Running, WorldInv
<1> QED
  BY <1>1, <1>2, <1>3, Frame DEF IInv

\* Every step keeps the invariant.
LEMMA NextInv == IInv /\ [Next]_vars => IInv'
<1> SUFFICES ASSUME IInv, [Next]_vars PROVE IInv'
  OBVIOUS
<1>1. CASE WorldMessage
  BY <1>1, HasInsertInv, RecreateInv, EnableInv, DisableInv, ActiveInv, DeactiveInv, DropInv
     DEF WorldMessage, Acceptor
<1>2. CASE \E w \in World : CreateWorldMan(w) \/ CloseWorldMan(w)
  BY <1>2, CreateWorldInv, CloseWorldInv
<1>2a. CASE BuildWorld
  BY <1>2a, InitGenInv, HasInsertInv, InsertWorldInv DEF BuildWorld, Acceptor
<1>3. CASE \E type \in {"enable", "disable"}, e \in Elem : Order(type, e)
  BY <1>3, OrderInv
<1>4. CASE \E c \in Close : HandleClose(c)
  BY <1>4, HandleCloseInv
<1>5. ASSUME NEW s \in Slot, CombatMessage(s) PROVE IInv'
  BY <1>5, PlayerTriggerInv, TriggerSuccessInv, CombatEndInv, ObjTriggerReInv, TalkEndsInv
     DEF CombatMessage
<1>6. CASE \E s \in Slot : Heartbeat(s) \/ CombatMessage(s) \/ FreeNpc(s)
  BY <1>5, <1>6, HeartbeatInv, FreeInv
<1>7. CASE \E t \in Task : RunTask(t)
  BY <1>7, TaskInv
<1>8. CASE UNCHANGED vars
  BY <1>8, StutterInv
<1> QED
  BY <1>1, <1>2, <1>2a, <1>3, <1>4, <1>6, <1>7, <1>8 DEF Next, Stopped

\* IInv holds in every reachable state of the npcs and their worlds.
THEOREM Inductive == Spec => []IInv
<1>1. QED
  BY InitInv, NextInv, PTL DEF Spec

\* The variables keep their types, however many slots and elements there are.
THEOREM TypeCorrect == Spec => []TypeOK
<1>1. IInv => TypeOK
  BY DEF IInv
<1>2. QED
  BY <1>1, Inductive, PTL

\* Recycling (LifeExhaust, RecycleSelf, RecycleTask): an npc in the RECYCLE
\* state has exactly one RecycleTask, and no RecycleTask meets another npc.
THEOREM RecycleOnce == Spec => []RecycleTaskExact
<1>1. IInv => RecycleTaskExact
  BY DEF IInv
<1>2. QED
  BY <1>1, Inductive, PTL

\* Rebirth (DriveMachine, RebornTask): an npc whose timer has fired has its
\* RebornTask queued.
THEOREM RebornQueued == Spec => []RebornIsQueued
<1>1. IInv => RebornIsQueued
  BY DEF IInv
<1>2. QED
  BY <1>1, Inductive, PTL

\* map_elem_map_ with the queued announcements applied names npcs of the
\* element only, and all that were announced but those whose announcement was
\* handled before their world could be found.
THEOREM ElemMapCorrect == Spec => []ElemMapMatches
<1>1. IInv => ElemMapMatches
  BY DEF IInv
<1>2. QED
  BY <1>1, Inductive, PTL

\* A monster in combat keeps its model or is on its way out.
THEOREM CombatCorrect == Spec => []CombatHoldsModel
<1>1. IInv => CombatHoldsModel
  BY DEF IInv
<1>2. QED
  BY <1>1, Inductive, PTL

\* The npc pool holds each free slot once and nothing else.
THEOREM PoolCorrect == Spec => []PoolExact
<1>1. IInv => PoolExact
  BY PoolIsExact DEF IInv
<1>2. QED
  BY <1>1, Inductive, PTL

-----------------------------------------------------------------------------
(* The use of the slots *)

\* The slots that change, and how: a free one is taken for an npc, a task
\* removes an npc that lives, or frees the one it has removed.
LEMMA SlotsChange ==
  ASSUME IInv, [Next]_vars
  PROVE  \/ UNCHANGED life
         \/ \E s \in Slot, l \in {"free", "live", "leaving"} :
              /\ life' = [life EXCEPT ![s] = l]
              /\ <<life[s], l>> \in {<<"free", "live">>, <<"live", "leaving">>,
                                     <<"leaving", "free">>}
<1>1. ASSUME NEW a, NEW e, CreateNpc(a, e)
      PROVE  \/ UNCHANGED life
             \/ \E s \in Slot : life[s] = "free" /\ life' = [life EXCEPT ![s] = "live"]
  <2>1. CASE available # <<>> /\ Accepted(a, e)
    <3>1. Head(available) \in Slot /\ life[Head(available)] = "free"
      BY <2>1, PoolTake DEF Accepted, IInv
    <3> QED
      BY <2>1, <3>1 DEF Accepted
  <2> QED
    BY <1>1, <2>1 DEF CreateNpc
<1>2. CASE WorldMessage
  <2>1. CASE RecreateNpc \/ EnableMapElement
    <3>1. UNCHANGED life \/ CreateNpc("tick", Head(wm_msg).elem)
      BY <2>1 DEF RecreateNpc, EnableMapElement
    <3> QED
      BY <1>1, <3>1
  <2>2. CASE \/ HasInsertToWorld("tick") \/ DisableMapElement \/ MapElementActive
             \/ MapElementDeactive \/ DispatchToNone
    BY <2>2 DEF HasInsertToWorld, DisableMapElement, MapElementActive, MapElementDeactive,
                DispatchToNone
  <2> QED
    BY <1>2, <2>1, <2>2 DEF WorldMessage
<1>3. ASSUME NEW t \in Task, RunTask(t) PROVE \/ UNCHANGED life
                                              \/ /\ life[t.obj] = "live" /\ t.obj \in Slot
                                                 /\ life' = [life EXCEPT ![t.obj] = "leaving"]
  BY <1>3 DEF RunTask, RebornTask, RecycleTask, TaskInactive, Leave, Task
<1>4. ASSUME NEW s \in Slot, FreeNpc(s)
      PROVE  life[s] = "leaving" /\ life' = [life EXCEPT ![s] = "free"]
  BY <1>4 DEF FreeNpc
<1>5. ASSUME NEW s \in Slot, Heartbeat(s) \/ CombatMessage(s) PROVE UNCHANGED life
  BY <1>5 DEF Heartbeat, CombatMessage, HandlePlayerTriggerCombat, HandlePTriggerCombatSuccess,
     HandleCombatEnd, ObjTriggerCombatRe, TalkEnds, Untouched
<1>5a. CASE BuildWorld
  <2>1. ASSUME NEW e \in initial, InitGenNpc(e) PROVE CreateNpc("master", e)
    BY <2>1 DEF InitGenNpc
  <2>2. CASE HasInsertToWorld("master") \/ InsertWorldManager
    BY <2>2 DEF HasInsertToWorld, InsertWorldManager
  <2> QED
    BY <1>1, <1>5a, <2>1, <2>2 DEF BuildWorld
<1>6. CASE \/ \E w \in World : CreateWorldMan(w) \/ CloseWorldMan(w)
           \/ \E type \in {"enable", "disable"}, e \in Elem : Order(type, e)
           \/ \E c \in Close : HandleClose(c)
  BY <1>6 DEF CreateWorldMan, CloseWorldMan, Order, HandleClose, Untouched
<1>7. CASE UNCHANGED vars
  BY <1>7 DEF vars
<1> QED
  BY <1>1, <1>2, <1>3, <1>4, <1>5, <1>5a, <1>6, <1>7 DEF Next, Stopped

\* Npcs use the slots of their pool as ObjectManager takes its owners to: a
\* slot is given to an npc only when no other has it, leaves the manager once
\* in an npc's life, and goes back to the pool from there, whatever tasks and
\* messages still name it.
THEOREM NpcsUseSlots == Spec => Use!Spec
<1>1. Init => Use!Init
  BY DEF Init, Use!Init, PhaseOf, LockOf
<1>2. ASSUME IInv, [Next]_vars PROVE [Use!Next]_(Use!vars)
  <2>1. CASE UNCHANGED life
    BY <2>1 DEF Use!vars, PhaseOf, LockOf
  <2>2. CASE \E s \in Slot, l \in {"free", "live", "leaving"} :
               /\ life' = [life EXCEPT ![s] = l]
               /\ <<life[s], l>> \in {<<"free", "live">>, <<"live", "leaving">>,
                                      <<"leaving", "free">>}
    <3>1. PICK s \in Slot, l \in {"free", "live", "leaving"} :
                 /\ life' = [life EXCEPT ![s] = l]
                 /\ <<life[s], l>> \in {<<"free", "live">>, <<"live", "leaving">>,
                                        <<"leaving", "free">>}
      BY <2>2
    <3>2. life'[s] = l /\ \A q \in Slot : q # s => life'[q] = life[q]
      BY <1>2, <3>1 DEF IInv, TypeOK
    <3>3. \A q \in Slot : q # s => PhaseOf(q)' = PhaseOf(q) /\ LockOf(q)' = LockOf(q)
      BY <3>2 DEF PhaseOf, LockOf
    <3>4. /\ [q \in Slot |-> PhaseOf(q)]' = [[q \in Slot |-> PhaseOf(q)] EXCEPT ![s] = PhaseOf(s)']
          /\ [q \in Slot |-> LockOf(q)]' = [[q \in Slot |-> LockOf(q)] EXCEPT ![s] = LockOf(s)']
      BY <3>3
    <3>5. CASE life[s] = "free" /\ l = "live"
      <4>1. /\ PhaseOf(s) = "free" /\ PhaseOf(s)' = "member"
            /\ LockOf(s) = "none" /\ LockOf(s)' = "none"
        BY <3>2, <3>5 DEF PhaseOf, LockOf
      <4>2. Use!Insert(s)
        BY <3>4, <4>1 DEF Use!Insert, Use!Become
      <4> QED
        BY <4>2 DEF Use!Next
    <3>6. CASE life[s] = "live" /\ l = "leaving"
      <4>1. /\ PhaseOf(s) = "member" /\ PhaseOf(s)' = "leaving"
            /\ LockOf(s) = "none" /\ LockOf(s)' = "remover"
        BY <3>2, <3>6 DEF PhaseOf, LockOf
      <4>2. Use!Remove(s)
        BY <3>4, <4>1 DEF Use!Remove, Use!Become
      <4> QED
        BY <4>2 DEF Use!Next
    <3>7. CASE life[s] = "leaving" /\ l = "free"
      <4>1. /\ PhaseOf(s) = "leaving" /\ PhaseOf(s)' = "free"
            /\ LockOf(s) = "remover" /\ LockOf(s)' = "none"
        BY <3>2, <3>7 DEF PhaseOf, LockOf
      <4>2. Use!Free(s)
        BY <3>4, <4>1 DEF Use!Free, Use!Become
      <4> QED
        BY <4>2 DEF Use!Next
    <3> QED
      BY <3>1, <3>5, <3>6, <3>7
  <2> QED
    BY <1>2, <2>1, <2>2, SlotsChange
<1>3. IInv /\ [Next]_vars => [Use!Next]_(Use!vars)
  BY <1>2
<1> QED
  BY <1>1, <1>3, Inductive, PTL DEF Spec, Use!Spec
=============================================================================
