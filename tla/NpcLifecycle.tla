---------------------------- MODULE NpcLifecycle ----------------------------
(***************************************************************************)
(* The monsters of the map elements: how a world creates them, how they    *)
(* fight, die, are reborn or recycled, and how map elements and worlds are *)
(* closed (gs/obj/npc.cpp, gs/obj/monster_imp.cpp, gs/scene/world_man.cpp).*)
(*                                                                         *)
(* Thread 0 of the RunnablePool runs heartbeats and all world messages, in *)
(* the order they were sent (wm_msg_seq_queue_).  Messages to objects and  *)
(* tasks go to the other threads and may overtake each other; a handler or *)
(* a task works on an npc under its lock.                                  *)
(*                                                                         *)
(* Normal worlds are built before thread 0 starts.  The world of an        *)
(* instance or battleground is built by the thread that reads the master's *)
(* messages, which puts the default npcs in it before the world can be     *)
(* found by its id: a world message handled in between is lost.            *)
(*                                                                         *)
(* An npc's id is made of its slot in the pool alone, so that a message or *)
(* a task that outlives its npc finds the slot's next one.                 *)
(***************************************************************************)
EXTENDS Naturals, Sequences, FiniteSets

CONSTANTS Slot, World,
          Elem,        \* map elements, of one monster each
          WorldOf,     \* the world of each element
          Normal,      \* worlds built before the server starts
          Default,     \* elements whose npc InitGenNpcs generates
          AutoReborn,  \* elements with GetRebornInterval() > 0
          Retain,      \* elements whose monster stays visible in combat
          None,
          MaxQueue,    \* bound of wm_msg up to which orders are sent
          MaxClose,    \* bound of obj_msg up to which orders are sent
          MaxTasks,    \* bound of tasks up to which a rebirth is started
          MaxTalk      \* bound of talk up to which a dialogue is started

ASSUME ElemAssumption ==
  /\ WorldOf \in [Elem -> World]
  /\ AutoReborn \subseteq Elem /\ Retain \subseteq Elem
  /\ Default \subseteq Elem /\ Normal \subseteq World
  /\ None \notin Slot /\ None \notin Elem /\ None \notin World
ASSUME SlotAssumption  == IsFiniteSet(Slot)
ASSUME QueueAssumption == {MaxQueue, MaxClose, MaxTasks, MaxTalk} \subseteq Nat

\* The threads that run AcceptingNpc: thread 0 and the master's.
Acceptor  == {"tick", "master"}
NpcStates == {"IDLE", "NORMAL", "ZOMBIE", "REBORN", "RECYCLE"}
MonStates == {"PEACE", "WAITING_COMBAT", "COMBAT"}

\* state_shift_table: the states an npc may change to.
state_shift_table ==
  [IDLE    |-> {"NORMAL", "ZOMBIE", "REBORN", "RECYCLE"},
   NORMAL  |-> {"IDLE", "ZOMBIE", "REBORN", "RECYCLE"},
   ZOMBIE  |-> {"NORMAL", "ZOMBIE", "REBORN", "RECYCLE"},
   REBORN  |-> {"RECYCLE"},
   RECYCLE |-> {}]

VARIABLES
  available,  \* the npc pool's FIFO of free slots
  life,       \* "free", "live" (IsActived) or "leaving": a task that holds
              \* the lock has removed it and is about to free it
  elem,       \* elem_id_
  state,      \* Npc::state_
  mon,        \* MonsterImp::state_
  fired,      \* reborn_timer_ was set to GS_INT32_MAX
  accepting,  \* per thread: the npc AcceptingNpc has activated and not yet
              \* announced
  wm_msg,     \* world messages, in order
  obj_msg,    \* WORLD_CLOSING and RELATE_MAP_ELEM_CLOSED under way
  tasks,      \* queued RebornTasks and RecycleTasks
  talk,       \* combat dialogues with players under way, one of a kind
  map_elem,   \* the objects of map_elem_map_
  enabled,    \* its keys
  forbid,     \* worlds with is_forbid_obj_insert_
  indexed,    \* worlds that FindWorldManager finds
  building,   \* the world CreateWorldMan is building
  initial,    \* its default elements that are still to be generated
  unheard,    \* history: npcs whose announcement found no world
  aborted     \* the failed assertion that stopped the process

npc     == <<elem, state, mon, fired>>
cluster == <<indexed, building, initial>>
world   == <<map_elem, enabled, forbid, cluster, unheard>>
vars    == <<available, life, npc, accepting, wm_msg, obj_msg, tasks, talk,
             world, aborted>>

Task  == [kind : {"reborn", "recycle"}, obj : Slot, elem : Elem]
Close == [obj : Slot, source : World]
\* A monster asks for a fight, with or without notice of its end; it grants
\* a player one; a player's combat with it goes on.
Talk  == {"ask", "ask_notify", "grant", "fight"}

\* The pool's slots in the order it first hands them out.
PoolOrder == CHOOSE q \in [1 .. Cardinality(Slot) -> Slot] :
               \A i, j \in 1 .. Cardinality(Slot) : q[i] = q[j] => i = j

Init ==
  /\ available = PoolOrder
  /\ life      = [s \in Slot |-> "free"]
  /\ elem      = [s \in Slot |-> None]
  /\ state     = [s \in Slot |-> "IDLE"]
  /\ mon       = [s \in Slot |-> "PEACE"]
  /\ fired     = [s \in Slot |-> FALSE]
  /\ accepting = [a \in Acceptor |-> None]
  /\ wm_msg    = <<>>
  /\ obj_msg   = [c \in Close |-> 0]
  /\ tasks     = [t \in Task |-> 0]
  /\ talk      = [k \in Talk |-> {}]
  /\ map_elem  = [e \in Elem |-> {}]
  /\ enabled   = {}
  /\ forbid    = {}
  /\ indexed   = Normal
  /\ building  = None
  /\ initial   = {}
  /\ unheard   = {}
  /\ aborted   = None

Running == aborted = None

Send(type, e, s) == Append(wm_msg, [type |-> type, elem |-> e, obj |-> s])

AddTask(kind, s) ==
  tasks' = [tasks EXCEPT ![[kind |-> kind, obj |-> s, elem |-> elem[s]]] = @ + 1]

-----------------------------------------------------------------------------
(* The npc's state machine, with its lock held *)

\* SetXState: ASSERT(CheckStateSwitch(newState)), then the switch.
SetState(s, new) ==
  IF new \in state_shift_table[state[s]]
  THEN state' = [state EXCEPT ![s] = new] /\ UNCHANGED aborted
  ELSE aborted' = "state_shift" /\ UNCHANGED state

\* Npc::LifeExhaust and RebornAtOnce.
LifeExhaust(s) ==
  \/ /\ state[s] = "RECYCLE"
     /\ UNCHANGED <<state, fired, tasks, aborted>>
  \/ /\ state[s] # "RECYCLE" /\ elem[s] \in AutoReborn
     /\ SetState(s, "REBORN")
     /\ fired' = [fired EXCEPT ![s] = FALSE]
     /\ UNCHANGED tasks
  \/ /\ state[s] # "RECYCLE" /\ elem[s] \notin AutoReborn
     /\ SetState(s, "RECYCLE")
     /\ AddTask("recycle", s)
     /\ UNCHANGED fired

\* Fault for the mutation runs: without the test for the RECYCLE state.
RecycleAgain(s) ==
  /\ state' = [state EXCEPT ![s] = "RECYCLE"]
  /\ AddTask("recycle", s)
  /\ UNCHANGED <<fired, aborted>>

\* Fault: the state is set and the task left out.
RecycleNoTask(s) ==
  /\ state' = [state EXCEPT ![s] = "RECYCLE"]
  /\ UNCHANGED <<fired, tasks, aborted>>

\* Npc::RecycleSelf.
RecycleSelf(s) ==
  \/ state[s] = "RECYCLE" /\ UNCHANGED <<state, fired, tasks, aborted>>
  \/ /\ state[s] # "RECYCLE"
     /\ SetState(s, "RECYCLE")
     /\ AddTask("recycle", s)
     /\ UNCHANGED fired

\* Fault: CheckRebornState that finds nothing.
NeverReborn(s) == FALSE

\* CheckRebornState.
IsReborn(s) == state[s] = "REBORN"

\* A successful MonsterImp::HandleCombatStart: byNpc when the monster asked
\* for the fight (is_player_reply).
HandleCombatStart(s, byNpc) ==
  IF elem[s] \notin Retain
  THEN /\ mon' = [mon EXCEPT ![s] = "COMBAT"]
       /\ LifeExhaust(s)
  ELSE IF byNpc
  THEN /\ mon' = [mon EXCEPT ![s] = "COMBAT"]
       /\ SetState(s, "ZOMBIE")
       /\ UNCHANGED <<fired, tasks>>
  ELSE /\ mon' = [mon EXCEPT ![s] = "WAITING_COMBAT"]
       /\ UNCHANGED <<state, fired, tasks, aborted>>

\* An unsuccessful one.
CombatRefused(s) ==
  /\ mon' = IF IsReborn(s) THEN mon ELSE [mon EXCEPT ![s] = "PEACE"]
  /\ UNCHANGED <<state, fired, tasks, aborted>>

-----------------------------------------------------------------------------
(* Thread 0: heartbeats *)

Untouched == <<available, life, elem, wm_msg, obj_msg, world, accepting>>
Live(s)   == Running /\ life[s] = "live"

NewTalk(k, s) == /\ s \notin talk[k]
                 /\ Cardinality(UNION {{t} \X talk[t] : t \in Talk}) < MaxTalk

\* require_combatend_notify of a monster's question.
Ask(s) == IF elem[s] \in Retain THEN "ask_notify" ELSE "ask"

\* MonsterImp's part: the AI finds a player and TriggerCombat asks for a
\* fight, or the wait for one is over.
MonHeartbeat(s) ==
  \/ UNCHANGED <<mon, talk>>
  \/ /\ mon[s] = "PEACE" /\ NewTalk(Ask(s), s)
     /\ mon'  = [mon EXCEPT ![s] = "WAITING_COMBAT"]
     /\ talk' = [talk EXCEPT ![Ask(s)] = @ \cup {s}]
  \/ /\ mon[s] = "WAITING_COMBAT" /\ ~IsReborn(s)
     /\ mon' = [mon EXCEPT ![s] = "PEACE"]
     /\ UNCHANGED talk

\* Fault: Reborn() does not queue its task.
DriveMachineForgets(s) ==
  \/ UNCHANGED <<state, fired, tasks, aborted>>
  \/ state[s] = "ZOMBIE" /\ LifeExhaust(s)
  \/ /\ state[s] = "REBORN" /\ ~fired[s]
     /\ fired' = [fired EXCEPT ![s] = TRUE]
     /\ UNCHANGED <<state, tasks, aborted>>

\* Npc::DriveMachine: players come into view or leave, a timer expires.
DriveMachine(s) ==
  \/ UNCHANGED <<state, fired, tasks, aborted>>
  \/ /\ state[s] \in {"IDLE", "NORMAL"}
     /\ \/ state[s] = "IDLE" /\ SetState(s, "NORMAL")
        \/ state[s] = "NORMAL" /\ SetState(s, "IDLE")
     /\ UNCHANGED <<fired, tasks>>
  \/ state[s] = "ZOMBIE" /\ LifeExhaust(s)
  \/ /\ state[s] = "REBORN" /\ ~fired[s]
     /\ \A t \in Task : tasks[t] < MaxTasks
     /\ AddTask("reborn", s)
     /\ fired' = [fired EXCEPT ![s] = TRUE]
     /\ UNCHANGED <<state, aborted>>

Heartbeat(s) ==
  /\ Live(s) /\ accepting["tick"] = None
  /\ MonHeartbeat(s)
  /\ DriveMachine(s)
  /\ UNCHANGED Untouched

-----------------------------------------------------------------------------
(* Thread 0: world messages *)

\* DispatchWorldMessage has the next message, and the world it is for.
Received(type) ==
  /\ Running /\ accepting["tick"] = None
  /\ wm_msg # <<>> /\ Head(wm_msg).type = type
  /\ WorldOf[Head(wm_msg).elem] \in indexed

About(m, e, s) == m.type \in {"active", "deactive"} /\ m.elem = e /\ m.obj = s

\* DispatchWorldMessage finds no world and drops the message.  If it was the
\* last word about an npc, the npc stays unheard of.
DispatchToNone ==
  /\ Running /\ accepting["tick"] = None
  /\ wm_msg # <<>>
  /\ WorldOf[Head(wm_msg).elem] \notin indexed
  /\ wm_msg' = Tail(wm_msg)
  /\ LET m == Head(wm_msg)
         last == \A i \in 2 .. Len(wm_msg) : ~About(wm_msg[i], m.elem, m.obj)
     IN  unheard' = IF m.type = "active" /\ last THEN unheard \cup {m.obj}
                    ELSE unheard
  /\ UNCHANGED <<available, life, npc, accepting, obj_msg, tasks, talk,
                 map_elem, enabled, forbid, cluster, aborted>>

Accepted(a, e) ==
  /\ available' = Tail(available)
  /\ LET s == Head(available) IN
       /\ life'  = [life  EXCEPT ![s] = "live"]
       /\ elem'  = [elem  EXCEPT ![s] = e]
       /\ state' = [state EXCEPT ![s] = "IDLE"]
       /\ mon'   = [mon   EXCEPT ![s] = "PEACE"]
       /\ fired' = [fired EXCEPT ![s] = FALSE]
       /\ accepting' = [accepting EXCEPT ![a] = s]

\* Fault: is_forbid_obj_insert_ is not looked at.
CreateNpcAlways(a, e) ==
  \/ available = <<>> /\ UNCHANGED <<available, life, npc, accepting>>
  \/ available # <<>> /\ Accepted(a, e)

\* Alloc, Init and InsertNpc: the pool may be empty, the world may not take
\* the npc any more (or not at that place: it goes back to the pool), or the
\* npc becomes active.
CreateNpc(a, e) ==
  \/ /\ available = <<>>
     /\ UNCHANGED <<available, life, npc, accepting>>
  \/ /\ available # <<>>
     /\ available' = Append(Tail(available), Head(available))
     /\ UNCHANGED <<life, npc, accepting>>
  \/ available # <<>> /\ WorldOf[e] \notin forbid /\ Accepted(a, e)

\* HasInsertToWorld, AcceptingNpc's last call: by now the npc may have been
\* recycled, and calls a deleted pimp_ if it has been released as well.
HasInsertToWorld(a) ==
  /\ Running /\ accepting[a] # None
  /\ LET s == accepting[a] IN
       IF life[s] = "free"
       THEN aborted' = "released_imp" /\ UNCHANGED <<wm_msg, unheard>>
       ELSE /\ wm_msg' = Send("active", elem[s], s)
            /\ unheard' = unheard \ {s}
            /\ UNCHANGED aborted
  /\ accepting' = [accepting EXCEPT ![a] = None]
  /\ UNCHANGED <<available, life, npc, obj_msg, tasks, talk, map_elem, enabled,
                 forbid, cluster>>

\* GS_PLANE_MSG_NPC_REBORN: RecreateNpc.
RecreateNpc ==
  /\ Received("reborn")
  /\ CreateNpc("tick", Head(wm_msg).elem)
  /\ wm_msg' = Tail(wm_msg)
  /\ UNCHANGED <<obj_msg, tasks, talk, world, aborted>>

\* GS_PLANE_MSG_ENABLE_MAP_ELEM.  The entry stays when nothing is created.
EnableMapElement ==
  /\ Received("enable")
  /\ LET e == Head(wm_msg).elem IN
       IF e \in enabled
       THEN UNCHANGED <<available, life, npc, accepting, enabled>>
       ELSE enabled' = enabled \cup {e} /\ CreateNpc("tick", e)
  /\ wm_msg' = Tail(wm_msg)
  /\ UNCHANGED <<obj_msg, tasks, talk, map_elem, forbid, cluster, unheard, aborted>>

\* GS_PLANE_MSG_DISABLE_MAP_ELEM: tell every object of the element.
DisableMapElement ==
  /\ Received("disable")
  /\ LET e == Head(wm_msg).elem IN
       obj_msg' = [c \in Close |->
                     IF c.source = WorldOf[e] /\ c.obj \in map_elem[e]
                     THEN obj_msg[c] + 1 ELSE obj_msg[c]]
  /\ wm_msg' = Tail(wm_msg)
  /\ UNCHANGED <<available, life, npc, accepting, tasks, talk, world, aborted>>

MapElementActive ==
  /\ Received("active")
  /\ map_elem' = [map_elem EXCEPT ![Head(wm_msg).elem] = @ \cup {Head(wm_msg).obj}]
  /\ enabled' = enabled \cup {Head(wm_msg).elem}
  /\ wm_msg' = Tail(wm_msg)
  /\ UNCHANGED <<available, life, npc, accepting, obj_msg, tasks, talk, forbid,
                 cluster, unheard, aborted>>

\* The element's entry goes with its last object.
MapElementDeactive ==
  /\ Received("deactive")
  /\ LET e == Head(wm_msg).elem IN
       /\ map_elem' = [map_elem EXCEPT ![e] = @ \ {Head(wm_msg).obj}]
       /\ enabled' = IF map_elem'[e] = {} THEN enabled \ {e} ELSE enabled
  /\ wm_msg' = Tail(wm_msg)
  /\ UNCHANGED <<available, life, npc, accepting, obj_msg, tasks, talk, forbid,
                 cluster, unheard, aborted>>

\* An instance or battleground ends (its heartbeat): CloseWorldMan forbids
\* insertions and tells every object that is in the world.
CloseWorldMan(w) ==
  /\ Running /\ accepting["tick"] = None
  /\ w \in indexed \ (Normal \cup forbid)
  /\ forbid' = forbid \cup {w}
  /\ obj_msg' = [c \in Close |->
                   IF /\ c.source = w
                      /\ life[c.obj] = "live" /\ WorldOf[elem[c.obj]] = w
                   THEN obj_msg[c] + 1 ELSE obj_msg[c]]
  /\ UNCHANGED <<available, life, npc, accepting, wm_msg, tasks, talk,
                 map_elem, enabled, cluster, unheard, aborted>>

-----------------------------------------------------------------------------
(* The master's thread: InsController and BGController *)

\* CreateWorldMan up to WorldManager::Init.
CreateWorldMan(w) ==
  /\ Running /\ building = None
  /\ w \notin indexed
  /\ building' = w
  /\ initial' = {e \in Default : WorldOf[e] = w}
  /\ UNCHANGED <<available, life, npc, accepting, wm_msg, obj_msg, tasks, talk,
                 map_elem, enabled, forbid, indexed, unheard, aborted>>

\* InitGenNpcs generates a default npc and accepts it.
InitGenNpc(e) ==
  /\ Running /\ accepting["master"] = None
  /\ e \in initial
  /\ CreateNpc("master", e)
  /\ initial' = initial \ {e}
  /\ UNCHANGED <<wm_msg, obj_msg, tasks, talk, map_elem, enabled, forbid, indexed,
                 building, unheard, aborted>>

\* Init is done, the world can be found.
InsertWorldManager ==
  /\ Running /\ accepting["master"] = None
  /\ building # None /\ initial = {}
  /\ indexed' = indexed \cup {building}
  /\ building' = None
  /\ UNCHANGED <<available, life, npc, accepting, wm_msg, obj_msg, tasks, talk,
                 map_elem, enabled, forbid, initial, unheard, aborted>>

-----------------------------------------------------------------------------
(* Orders to open or close an element: map controllers, scripts, tasks *)

Order(type, e) ==
  /\ Running
  /\ WorldOf[e] \in indexed
  /\ Len(wm_msg) < MaxQueue /\ \A c \in Close : obj_msg[c] < MaxClose
  /\ wm_msg' = Send(type, e, None)
  /\ UNCHANGED <<available, life, npc, accepting, obj_msg, tasks, talk, world, aborted>>

-----------------------------------------------------------------------------
(* Object messages *)

\* A handler waits for the lock of an npc that is leaving.
LockFree(s) == Running /\ life[s] # "leaving"

\* GS_MSG_WORLD_CLOSING and GS_MSG_RELATE_MAP_ELEM_CLOSED: dropped when the
\* npc is gone; ASSERT(false) when it is not of the world that sent it.
HandleClose(c) ==
  /\ LockFree(c.obj) /\ obj_msg[c] > 0
  /\ obj_msg' = [obj_msg EXCEPT ![c] = @ - 1]
  /\ \/ /\ life[c.obj] = "free"
        /\ UNCHANGED <<state, fired, tasks, aborted>>
     \/ /\ life[c.obj] = "live" /\ WorldOf[elem[c.obj]] # c.source
        /\ aborted' = "close_source"
        /\ UNCHANGED <<state, fired, tasks>>
     \/ /\ life[c.obj] = "live" /\ WorldOf[elem[c.obj]] = c.source
        /\ RecycleSelf(c.obj)
  /\ UNCHANGED <<available, life, elem, mon, accepting, wm_msg, talk, world>>

\* GS_MSG_PLAYER_TRIGGER_COMBAT, when it is accepted; a monster that keeps
\* its model then waits for the player to have created the combat.
HandlePlayerTriggerCombat(s) ==
  /\ Live(s)
  /\ ~IsReborn(s) /\ mon[s] = "PEACE"
  /\ HandleCombatStart(s, FALSE)
  /\ \/ elem[s] \notin Retain /\ UNCHANGED talk
     \/ /\ elem[s] \in Retain /\ NewTalk("grant", s)
        /\ talk' = [talk EXCEPT !["grant"] = @ \cup {s}]
  /\ UNCHANGED Untouched

\* A player's combat with slot s begins.  Its end is reported if notice was
\* asked for; if it is over by now that was handled before, and ignored.
Fight(k, s) ==
  \E over \in BOOLEAN :
    /\ k = "ask" => over
    /\ talk' = [talk EXCEPT ![k] = @ \ {s},
                            !["fight"] = IF over THEN @ ELSE @ \cup {s}]

\* GS_MSG_OBJ_TRIGGER_COMBAT_RE, the answer to the monster's question.
ObjTriggerCombatRe(s, k, ok) ==
  /\ Live(s) /\ s \in talk[k]
  /\ mon[s] = "WAITING_COMBAT"
  /\ \/ ~ok /\ CombatRefused(s) /\ talk' = [talk EXCEPT ![k] = @ \ {s}]
     \/ ok /\ ~IsReborn(s) /\ HandleCombatStart(s, TRUE) /\ Fight(k, s)
  /\ UNCHANGED Untouched

\* GS_MSG_P_TRIGGER_COMBAT_SUCCESS: no test of the state.
HandlePTriggerCombatSuccess(s) ==
  /\ Live(s) /\ s \in talk["grant"]
  /\ mon' = [mon EXCEPT ![s] = "COMBAT"]
  /\ SetState(s, "ZOMBIE")
  /\ Fight("grant", s)
  /\ UNCHANGED <<fired, tasks>> /\ UNCHANGED Untouched

\* GS_MSG_COMBAT_PVE_END, win being the monster's victory.
HandleCombatEnd(s, win) ==
  /\ Live(s) /\ s \in talk["fight"]
  /\ ~IsReborn(s) /\ mon[s] = "COMBAT"
  /\ \/ /\ win
        /\ mon' = [mon EXCEPT ![s] = "PEACE"]
        /\ SetState(s, "NORMAL")
        /\ UNCHANGED <<fired, tasks>>
     \/ ~win /\ LifeExhaust(s) /\ UNCHANGED mon
  /\ talk' = [talk EXCEPT !["fight"] = @ \ {s}]
  /\ UNCHANGED Untouched

\* A message without effect: the player declines or is gone, or there is no
\* npc, or one in another state.  The player may have begun the combat.
TalkEnds(k, s) ==
  /\ LockFree(s) /\ s \in talk[k]
  /\ k = "fight" => ~Live(s) \/ IsReborn(s) \/ mon[s] # "COMBAT"
  /\ \/ talk' = [talk EXCEPT ![k] = @ \ {s}]
     \/ (k = "grant" => ~Live(s)) /\ k \in {"ask_notify", "grant"} /\ Fight(k, s)
  /\ UNCHANGED <<state, mon, fired, tasks, aborted>> /\ UNCHANGED Untouched

-----------------------------------------------------------------------------
(* RunnablePool tasks *)

Leave(s) == life' = [life EXCEPT ![s] = "leaving"]

TaskRuns(t) ==
  /\ LockFree(t.obj) /\ tasks[t] > 0
  /\ tasks' = [tasks EXCEPT ![t] = @ - 1]
  /\ UNCHANGED <<available, npc, accepting, obj_msg, talk, world>>

TaskInactive(t) ==
  /\ TaskRuns(t) /\ life[t.obj] = "free"
  /\ UNCHANGED <<life, wm_msg, aborted>>

\* RebornTask::Run up to RemoveNpcFromMan, and its two assertions.
RebornTask(t) ==
  /\ t.kind = "reborn" /\ TaskRuns(t) /\ life[t.obj] = "live"
  /\ IF state[t.obj] = "REBORN" /\ elem[t.obj] = t.elem
     THEN /\ wm_msg' = Send("reborn", t.elem, t.obj)
          /\ Leave(t.obj)
          /\ UNCHANGED aborted
     ELSE aborted' = "reborn_task" /\ UNCHANGED <<life, wm_msg>>

\* RecycleTask::Run, likewise.
RecycleTask(t) ==
  /\ t.kind = "recycle" /\ TaskRuns(t) /\ life[t.obj] = "live"
  /\ IF state[t.obj] = "RECYCLE" /\ elem[t.obj] = t.elem
     THEN Leave(t.obj) /\ UNCHANGED <<wm_msg, aborted>>
     ELSE aborted' = "recycle_task" /\ UNCHANGED <<life, wm_msg>>

\* Fault: the npc's end is not announced.
FreeNpcSilent(s) ==
  /\ Running /\ life[s] = "leaving"
  /\ available' = Append(available, s)
  /\ life'  = [life  EXCEPT ![s] = "free"]
  /\ elem'  = [elem  EXCEPT ![s] = None]
  /\ state' = [state EXCEPT ![s] = "IDLE"]
  /\ mon'   = [mon   EXCEPT ![s] = "PEACE"]
  /\ fired' = [fired EXCEPT ![s] = FALSE]
  /\ unheard' = unheard \ {s}
  /\ UNCHANGED <<accepting, wm_msg, obj_msg, tasks, talk, map_elem, enabled,
                 forbid, cluster, aborted>>

\* FreeNpc: Release() announces the npc's end (MapElementDeactive) and
\* clears it; it goes back to the pool and is unlocked.
FreeNpc(s) ==
  /\ Running /\ life[s] = "leaving"
  /\ wm_msg' = Send("deactive", elem[s], s)
  /\ available' = Append(available, s)
  /\ life'  = [life  EXCEPT ![s] = "free"]
  /\ elem'  = [elem  EXCEPT ![s] = None]
  /\ state' = [state EXCEPT ![s] = "IDLE"]
  /\ mon'   = [mon   EXCEPT ![s] = "PEACE"]
  /\ fired' = [fired EXCEPT ![s] = FALSE]
  /\ unheard' = unheard \ {s}
  /\ UNCHANGED <<accepting, obj_msg, tasks, talk, map_elem, enabled, forbid,
                 cluster, aborted>>

\* The process is gone.
Stopped == ~Running /\ UNCHANGED vars

-----------------------------------------------------------------------------
WorldMessage == \/ HasInsertToWorld("tick") \/ RecreateNpc
                \/ EnableMapElement \/ DisableMapElement
                \/ MapElementActive \/ MapElementDeactive
                \/ DispatchToNone

\* The rest of CreateWorldMan once it has begun.
BuildWorld == \/ \E e \in initial : InitGenNpc(e)
              \/ HasInsertToWorld("master") \/ InsertWorldManager

CombatMessage(s) ==
  \/ HandlePlayerTriggerCombat(s) \/ HandlePTriggerCombatSuccess(s)
  \/ \E b \in BOOLEAN : \/ HandleCombatEnd(s, b)
                         \/ \E k \in {"ask", "ask_notify"} : ObjTriggerCombatRe(s, k, b)
  \/ \E k \in Talk : TalkEnds(k, s)

RunTask(t) == TaskInactive(t) \/ RebornTask(t) \/ RecycleTask(t)

Next == \/ WorldMessage
        \/ BuildWorld
        \/ \E w \in World : CreateWorldMan(w) \/ CloseWorldMan(w)
        \/ \E type \in {"enable", "disable"}, e \in Elem : Order(type, e)
        \/ \E c \in Close : HandleClose(c)
        \/ \E s \in Slot : Heartbeat(s) \/ CombatMessage(s) \/ FreeNpc(s)
        \/ \E t \in Task : RunTask(t)
        \/ Stopped

\* A heartbeat in which a timer expires: zombie_timer_ and reborn_timer_
\* count down on every one.
TimerExpires(s) == Heartbeat(s) /\ state[s] \in {"ZOMBIE", "REBORN"}
                                /\ <<state, fired>>' # <<state, fired>>

\* Threads go on, the pool delivers what is queued, timers expire.
Fairness == /\ WF_vars(WorldMessage) /\ WF_vars(BuildWorld)
            /\ \A c \in Close : SF_vars(HandleClose(c))
            /\ \A t \in Task : SF_vars(RunTask(t))
            /\ \A s \in Slot : WF_vars(FreeNpc(s)) /\ SF_vars(TimerExpires(s))

Spec     == Init /\ [][Next]_vars
FairSpec == Spec /\ Fairness

-----------------------------------------------------------------------------
(* Properties *)

Message == [type : {"enable", "disable", "reborn", "active", "deactive"},
            elem : Elem, obj : Slot \cup {None}]

TypeOK ==
  /\ available \in Seq(Slot)
  /\ life \in [Slot -> {"free", "live", "leaving"}]
  /\ elem \in [Slot -> Elem \cup {None}]
  /\ state \in [Slot -> NpcStates] /\ mon \in [Slot -> MonStates]
  /\ fired \in [Slot -> BOOLEAN]
  /\ accepting \in [Acceptor -> Slot \cup {None}]
  /\ wm_msg \in Seq(Message)
  /\ obj_msg \in [Close -> Nat] /\ tasks \in [Task -> Nat]
  /\ talk \in [Talk -> SUBSET Slot]
  /\ map_elem \in [Elem -> SUBSET Slot]
  /\ enabled \subseteq Elem /\ forbid \subseteq World
  /\ indexed \subseteq World /\ building \in World \cup {None}
  /\ initial \subseteq Elem /\ unheard \subseteq Slot
  /\ aborted \in {None, "state_shift", "close_source", "reborn_task",
                  "recycle_task", "released_imp"}

\* A RecycleTask exists for exactly the npcs in the RECYCLE state, once: none
\* of them stays for ever, none is freed twice, and the task's assertions
\* (the state, the ids) hold although its npc id names only a slot.
RecycleTaskExact ==
  \A t \in Task : t.kind = "recycle" =>
    tasks[t] = IF /\ life[t.obj] = "live" /\ state[t.obj] = "RECYCLE"
                  /\ elem[t.obj] = t.elem
               THEN 1 ELSE 0

\* An npc whose reborn timer has expired is waited for by its RebornTask as
\* long as nothing else recycles it.
RebornIsQueued ==
  \A s \in Slot : life[s] = "live" /\ state[s] = "REBORN" /\ fired[s] =>
    tasks[[kind |-> "reborn", obj |-> s, elem |-> elem[s]]] > 0

\* map_elem_map_ once the queued messages are applied: whether s is in e.
WillHold(e, s) ==
  IF \E i \in 1 .. Len(wm_msg) : About(wm_msg[i], e, s)
  THEN \E i \in 1 .. Len(wm_msg) :
         /\ About(wm_msg[i], e, s) /\ wm_msg[i].type = "active"
         /\ \A j \in i + 1 .. Len(wm_msg) : ~About(wm_msg[j], e, s)
  ELSE s \in map_elem[e]

\* map_elem_map_ catches up with the npcs: with the queued messages applied
\* it names only npcs of the element that are in use, and all of them that
\* have been announced, so that closing an element reaches them, though slots
\* are reused and rebirth sends the old npc's end and the new one's
\* announcement through the same queue.  What it may miss are npcs whose
\* announcement found no world, and those are never npcs of a normal world.
ElemMapMatches ==
  Running => \A e \in Elem, s \in Slot :
    LET inUse == life[s] # "free" /\ elem[s] = e IN
    /\ WillHold(e, s) => inUse
    /\ inUse /\ (\A a \in Acceptor : accepting[a] # s) /\ s \notin unheard
         => WillHold(e, s)
    /\ inUse /\ s \in unheard => WorldOf[e] \notin Normal

\* A monster in combat keeps its model as a zombie, or is on its way out: no
\* heartbeat makes it idle, and one that awaits rebirth accepts no fight.
CombatHoldsModel ==
  \A s \in Slot : life[s] = "live" =>
    /\ mon[s] = "COMBAT" => state[s] \in {"ZOMBIE", "REBORN", "RECYCLE"}
    /\ state[s] \in {"ZOMBIE", "REBORN"} => mon[s] = "COMBAT"

\* The pool holds exactly the free slots, each once.
PoolExact ==
  /\ {available[i] : i \in 1 .. Len(available)} = {s \in Slot : life[s] = "free"}
  /\ Len(available) = Cardinality({s \in Slot : life[s] = "free"})

\* An npc that is done for leaves: recycled, beaten or waiting for rebirth,
\* its slot returns to the pool (or an assertion stopped the server).
DeadLeaves ==
  \A s \in Slot :
    (life[s] = "live" /\ state[s] \in {"REBORN", "RECYCLE"})
      ~> (life[s] = "free" \/ ~Running)

\* A closed world empties, rebirths under way at that moment included.
ClosedWorldEmpties ==
  \A w \in World :
    w \in forbid ~> \/ ~Running
                    \/ \A s \in Slot : life[s] = "live" => WorldOf[elem[s]] # w

-----------------------------------------------------------------------------
(* Refinement: how npcs use the slots of their pool *)

PhaseOf(s) == IF life[s] = "free" THEN "free"
              ELSE IF life[s] = "live" THEN "member" ELSE "leaving"

\* Between RemoveNpcFromMan and FreeNpc the task holds the npc's lock; every
\* other holder keeps it for one step.
LockOf(s) == IF life[s] = "leaving" THEN "remover" ELSE "none"

\* Npcs use the slots as ObjectManager takes its owners to.
Use == INSTANCE SlotUse WITH
         phase <- [s \in Slot |-> PhaseOf(s)],
         lock  <- [s \in Slot |-> LockOf(s)]
=============================================================================
