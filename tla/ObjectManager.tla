--------------------------- MODULE ObjectManager ---------------------------
(***************************************************************************)
(* The object pool and heartbeat scheduler every game object goes through: *)
(* ObjectAllocator and ObjectManager of gs/global/obj_manager.h, with the  *)
(* way Gmatrix and the game threads drive them (Alloc, InsertXToMan,       *)
(* RemoveXFromMan and FreeX for X = Player, Npc, AreaObj, Matter).         *)
(*                                                                         *)
(* Any game thread creates and destroys objects; only the tick thread      *)
(* (thread 0 of the RunnablePool) runs Heartbeat().  Membership changes    *)
(* are not applied to obj_set_ directly: Insert and Remove count them in   *)
(* change_list_, and the next tick applies the net count in DoChange().    *)
(*                                                                         *)
(* An object is its index in the pool plus one, so that the order of the   *)
(* indices is the address order by which std::set<T*> iterates, and NULL   *)
(* is 0.                                                                   *)
(***************************************************************************)
EXTENDS Integers, Sequences, FiniteSets

CONSTANTS MAX_COUNT,          \* capacity of the pool (kMaxPlayerCount, ...)
          MM_HEARTBEAT_TICK,  \* ticks between two heartbeats of one object
          IDLE_LIMIT          \* rounds an idle Npc or Matter may sit out (60)

ASSUME PoolAssumption == MAX_COUNT \in Nat \ {0}
ASSUME TickAssumption == MM_HEARTBEAT_TICK \in Nat \ {0}
ASSUME IdleAssumption == IDLE_LIMIT \in Nat \ {0}

Obj  == 1 .. MAX_COUNT
NULL == 0

(***************************************************************************)
(* Where an object's owner is in the creation and destruction protocol of  *)
(* Gmatrix; "clractive" and "removed" are the two points inside            *)
(* RemoveXFromMan and before FreeX, "setactive" the one in InsertXToMan.   *)
(***************************************************************************)
Life == {"free", "alloc", "setactive", "live", "clractive", "removed"}

VARIABLES
  obj_available_list_,  \* the allocator's FIFO of free objects
  life,                 \* the protocol step of each object's owner
  is_actived_,          \* WorldObject::is_actived_
  idle_timer_,          \* rounds each object still sits out while idle
  lock,                 \* holder of each object's mutex
  obj_set_,             \* the objects that get heartbeats
  change_list_,         \* pending net insertions, obj_info_record::ref_count
  cur_obj_,             \* the object the next round starts with, or NULL
  heart_obj_count_,     \* credit of heartbeats, in 1/MM_HEARTBEAT_TICK
  list,                 \* Heartbeat()'s local vector of collected objects
  pc                    \* what the tick thread is doing

owner == <<obj_available_list_, life, is_actived_>>
sched == <<obj_set_, cur_obj_, heart_obj_count_>>
vars  == <<owner, idle_timer_, lock, sched, change_list_, list, pc>>

Init ==
  /\ obj_available_list_ = [i \in 1 .. MAX_COUNT |-> i]
  /\ life            = [o \in Obj |-> "free"]
  /\ is_actived_     = [o \in Obj |-> FALSE]
  /\ idle_timer_     = [o \in Obj |-> IDLE_LIMIT]
  /\ lock            = [o \in Obj |-> "none"]
  /\ obj_set_        = {}
  /\ change_list_    = [o \in Obj |-> 0]
  /\ cur_obj_        = NULL
  /\ heart_obj_count_ = 0
  /\ list            = <<>>
  /\ pc              = "idle"

\* mrand::Rand(0, 60): timers 0 and 1 mean the same, not idle the next time.
Rand == 1 .. IDLE_LIMIT

SetIdleTimer(o) == \E n \in Rand : idle_timer_' = [idle_timer_ EXCEPT ![o] = n]

-----------------------------------------------------------------------------
(* Game threads: creation and destruction of an object *)

\* Fault for the mutation runs: the object stays in the free list.
AllocKeeps ==
  /\ obj_available_list_ # <<>>
  /\ LET o == Head(obj_available_list_) IN
       life' = [life EXCEPT ![o] = "alloc"]
  /\ UNCHANGED <<obj_available_list_, is_actived_, idle_timer_, lock, sched, change_list_,
                 list, pc>>

\* ObjectAllocator::Alloc, nothing when the pool is exhausted; the object's
\* initialisation (InitRuntimeData) follows.
Alloc ==
  /\ obj_available_list_ # <<>>
  /\ LET o == Head(obj_available_list_) IN
       /\ life' = [life EXCEPT ![o] = "alloc"]
       /\ SetIdleTimer(o)
  /\ obj_available_list_' = Tail(obj_available_list_)
  /\ UNCHANGED <<is_actived_, lock, sched, change_list_, list, pc>>

\* ObjectAllocator::Free: T::Release() clears the object, then it is queued.
Free(o) ==
  /\ is_actived_' = [is_actived_ EXCEPT ![o] = FALSE]
  /\ idle_timer_' = [idle_timer_ EXCEPT ![o] = IDLE_LIMIT]
  /\ life' = [life EXCEPT ![o] = "free"]
  /\ obj_available_list_' = Append(obj_available_list_, o)

\* An object whose initialisation or insertion into the map failed is freed
\* without ever having been inserted (tidy_up_failure, AcceptingNpc, ...).
FreeUnused(o) ==
  /\ life[o] = "alloc"
  /\ Free(o)
  /\ UNCHANGED <<lock, sched, change_list_, list, pc>>

\* InsertXToMan, first half: SetActive().
SetActive(o) ==
  /\ life[o] = "alloc"
  /\ is_actived_' = [is_actived_ EXCEPT ![o] = TRUE]
  /\ life' = [life EXCEPT ![o] = "setactive"]
  /\ UNCHANGED <<idle_timer_, obj_available_list_, lock, sched, change_list_, list, pc>>

\* InsertXToMan, second half: ObjectManager::Insert under lock_change_.
Insert(o) ==
  /\ life[o] = "setactive"
  /\ change_list_' = [change_list_ EXCEPT ![o] = @ + 1]
  /\ life' = [life EXCEPT ![o] = "live"]
  /\ UNCHANGED <<idle_timer_, obj_available_list_, is_actived_, lock, sched, list, pc>>

\* The destroying task (LogoutTask, RebornTask, RecycleTask) takes the
\* object's lock and finds it active.  The code tests IsActived only; that
\* the object is live as well is the protocol of its owners (SlotUse).
LockForRemove(o) ==
  /\ life[o] = "live" /\ is_actived_[o]
  /\ lock[o] = "none"
  /\ lock' = [lock EXCEPT ![o] = "remover"]
  /\ UNCHANGED <<idle_timer_, owner, sched, change_list_, list, pc>>

\* Fault: RemoveXFromMan without ObjectManager::Remove.
ClrActiveOnly(o) ==
  /\ lock[o] = "remover" /\ life[o] = "live"
  /\ is_actived_' = [is_actived_ EXCEPT ![o] = FALSE]
  /\ life' = [life EXCEPT ![o] = "removed"]
  /\ UNCHANGED <<idle_timer_, obj_available_list_, lock, sched, change_list_, list, pc>>

\* RemoveXFromMan, first half: ClrActive().
ClrActive(o) ==
  /\ lock[o] = "remover" /\ life[o] = "live"
  /\ is_actived_' = [is_actived_ EXCEPT ![o] = FALSE]
  /\ life' = [life EXCEPT ![o] = "clractive"]
  /\ UNCHANGED <<idle_timer_, obj_available_list_, lock, sched, change_list_, list, pc>>

\* RemoveXFromMan, second half: ObjectManager::Remove under lock_change_.
Remove(o) ==
  /\ life[o] = "clractive"
  /\ change_list_' = [change_list_ EXCEPT ![o] = @ - 1]
  /\ life' = [life EXCEPT ![o] = "removed"]
  /\ UNCHANGED <<idle_timer_, obj_available_list_, is_actived_, lock, sched, list, pc>>

\* FreeX while the task still holds the lock: from here on another thread
\* can allocate the object again.
FreeRemoved(o) ==
  /\ life[o] = "removed"
  /\ Free(o)
  /\ lock' = [lock EXCEPT ![o] = "unlocking"]
  /\ UNCHANGED <<sched, change_list_, list, pc>>

\* The task's lock guard goes out of scope.
UnlockRemoved(o) ==
  /\ lock[o] = "unlocking"
  /\ lock' = [lock EXCEPT ![o] = "none"]
  /\ UNCHANGED <<idle_timer_, owner, sched, change_list_, list, pc>>

-----------------------------------------------------------------------------
(* The tick thread: ObjectManager::Heartbeat *)

Inserted == {o \in Obj : change_list_[o] > 0}
Deleted  == {o \in Obj : change_list_[o] < 0}

\* The element of S that std::set iterates to after o, NULL at the end.
Successor(S, o) ==
  IF \E x \in S : x > o
  THEN CHOOSE x \in S : x > o /\ \A y \in S : y > o => x <= y
  ELSE NULL

\* The assertions of DoInsert (the object is new), DoDelete (it was there)
\* and DoChange (the net count of one tick is -1, 0 or 1).
ChangeAsserts ==
  /\ \A o \in Obj : change_list_[o] \in {-1, 0, 1}
  /\ Inserted \cap obj_set_ = {}
  /\ Deleted \subseteq obj_set_

\* Fault: DoDelete leaves the cursor on the deleted object.
CursorStays == cur_obj_

\* DoDelete moves the cursor off a deleted object to the next one of the
\* set.  DoChange() works in address order, so every object behind the one
\* it deletes is still as it was: the cursor ends at the first old member
\* that is not deleted in this tick, never at one that is inserted in it.
CursorAfterChange ==
  IF cur_obj_ \in Deleted
  THEN Successor(obj_set_ \ Deleted, cur_obj_)
  ELSE cur_obj_

\* Faults: change_list_ is not cleared; the credit is the pool's capacity
\* instead of the number of objects.
DoChangeKeepsList ==
  /\ pc = "idle"
  /\ LET S == (obj_set_ \cup Inserted) \ Deleted IN
       /\ obj_set_' = S
       /\ heart_obj_count_' = IF S = {} THEN 0 ELSE heart_obj_count_ + Cardinality(S)
       /\ cur_obj_' = IF S = {} THEN NULL ELSE CursorAfterChange
  /\ pc' = "collect"
  /\ UNCHANGED <<idle_timer_, owner, lock, list, change_list_>>
DoChangeFullCredit ==
  /\ pc = "idle"
  /\ LET S == (obj_set_ \cup Inserted) \ Deleted IN
       /\ obj_set_' = S
       /\ heart_obj_count_' = IF S = {} THEN 0 ELSE heart_obj_count_ + MAX_COUNT
       /\ cur_obj_' = IF S = {} THEN NULL ELSE CursorAfterChange
  /\ change_list_' = [o \in Obj |-> 0]
  /\ pc' = "collect"
  /\ UNCHANGED <<idle_timer_, owner, lock, list>>

\* The head of CollectHeartbeatObject: DoChange() under lock_change_, then
\* the credit for this tick, forgotten when there is nobody to use it.
DoChange ==
  /\ pc = "idle"
  /\ LET S == (obj_set_ \cup Inserted) \ Deleted IN
       /\ obj_set_' = S
       /\ IF S = {}
          THEN /\ heart_obj_count_' = 0
               /\ cur_obj_' = NULL
          ELSE /\ heart_obj_count_' = heart_obj_count_ + Cardinality(S)
               /\ cur_obj_' = CursorAfterChange
  /\ change_list_' = [o \in Obj |-> 0]
  /\ pc' = "collect"
  /\ UNCHANGED <<idle_timer_, owner, lock, list>>

\* Fault: every round starts again at begin().
CollectFromBegin ==
  /\ pc = "collect"
  /\ heart_obj_count_ >= MM_HEARTBEAT_TICK
  /\ list' = Append(list, Successor(obj_set_, NULL))
  /\ cur_obj_' = NULL
  /\ heart_obj_count_' = heart_obj_count_ - MM_HEARTBEAT_TICK
  /\ UNCHANGED <<idle_timer_, owner, lock, obj_set_, change_list_, pc>>

\* Insertor::push_back: an Npc or Matter in STATE_IDLE (CheckIdleState, called
\* without its lock) sits out until its timer has run down.  Whether it is in
\* that state is left open here; players and areas never are.
PushBack(o) ==
  \/ list' = Append(list, o) /\ UNCHANGED idle_timer_
  \/ idle_timer_[o] <= 1 /\ list' = Append(list, o) /\ SetIdleTimer(o)
  \/ /\ idle_timer_[o] > 1
     /\ idle_timer_' = [idle_timer_ EXCEPT ![o] = @ - 1]
     /\ UNCHANGED list

\* One iteration of the collecting loop; cur_obj_ stands for cur_cursor_,
\* with NULL for end().
Collect ==
  /\ pc = "collect"
  /\ heart_obj_count_ >= MM_HEARTBEAT_TICK
  /\ LET o == IF cur_obj_ = NULL THEN Successor(obj_set_, NULL) ELSE cur_obj_
     IN  /\ PushBack(o)
         /\ cur_obj_' = Successor(obj_set_, o)
  /\ heart_obj_count_' = heart_obj_count_ - MM_HEARTBEAT_TICK
  /\ UNCHANGED <<owner, lock, obj_set_, change_list_, pc>>

CollectEnd ==
  /\ pc = "collect"
  /\ heart_obj_count_ < MM_HEARTBEAT_TICK
  /\ pc' = "beat"
  /\ UNCHANGED <<idle_timer_, owner, lock, sched, change_list_, list>>

\* Heartbeat()'s second loop: lock the next collected object ...
LockForBeat ==
  /\ pc = "beat" /\ list # <<>>
  /\ lock[Head(list)] = "none"
  /\ lock' = [lock EXCEPT ![Head(list)] = "tick"]
  /\ pc' = "locked"
  /\ UNCHANGED <<idle_timer_, owner, sched, change_list_, list>>

\* Fault: the heartbeat without the IsActived() test.
BeatUnchecked(o) ==
  /\ pc = "locked" /\ o = Head(list)
  /\ lock' = [lock EXCEPT ![o] = "none"]
  /\ list' = Tail(list)
  /\ pc' = "beat"
  /\ UNCHANGED <<idle_timer_, owner, sched, change_list_>>

\* ... and dispatch GS_MSG_OBJ_HEARTBEAT to it, unless it is not active; the
\* object may become idle (DriveMachine, SetIdleState).
Beat(o) ==
  /\ pc = "locked" /\ o = Head(list)
  /\ is_actived_[o]
  /\ SetIdleTimer(o) \/ UNCHANGED idle_timer_
  /\ lock' = [lock EXCEPT ![o] = "none"]
  /\ list' = Tail(list)
  /\ pc' = "beat"
  /\ UNCHANGED <<owner, sched, change_list_>>

SkipInactive(o) ==
  /\ pc = "locked" /\ o = Head(list)
  /\ ~is_actived_[o]
  /\ lock' = [lock EXCEPT ![o] = "none"]
  /\ list' = Tail(list)
  /\ pc' = "beat"
  /\ UNCHANGED <<idle_timer_, owner, sched, change_list_>>

BeatEnd ==
  /\ pc = "beat" /\ list = <<>>
  /\ pc' = "idle"
  /\ UNCHANGED <<idle_timer_, owner, lock, sched, change_list_, list>>

\* A player comes into view (PlayerEnterView, under the object's lock).
PlayerEnterView(o) ==
  /\ is_actived_[o] /\ lock[o] = "none"
  /\ idle_timer_' = [idle_timer_ EXCEPT ![o] = 1]
  /\ UNCHANGED <<owner, lock, sched, change_list_, list, pc>>

-----------------------------------------------------------------------------
Create(o)  == FreeUnused(o) \/ SetActive(o) \/ Insert(o)
Destroy(o) == \/ LockForRemove(o) \/ ClrActive(o) \/ Remove(o)
              \/ FreeRemoved(o) \/ UnlockRemoved(o)
Tick       == \/ DoChange \/ Collect \/ CollectEnd \/ LockForBeat \/ BeatEnd
              \/ \E o \in Obj : Beat(o) \/ SkipInactive(o)

Next == \/ Alloc
        \/ \E o \in Obj : Create(o) \/ Destroy(o) \/ PlayerEnterView(o)
        \/ Tick

\* The timer thread queues a tick every 1000/TICK_PER_SEC ms and the pool
\* thread runs it; a thread that has started a destruction finishes it, and
\* the tick thread is not passed over for ever at an object's mutex.
Fairness == /\ WF_vars(Tick)
            /\ SF_vars(LockForBeat)
            /\ \A o \in Obj : WF_vars(ClrActive(o) \/ Remove(o)
                                      \/ FreeRemoved(o) \/ UnlockRemoved(o))

Spec     == Init /\ [][Next]_vars
FairSpec == Spec /\ Fairness

-----------------------------------------------------------------------------
(* Properties *)

SeqRange(s) == {s[i] : i \in 1 .. Len(s)}

TypeOK ==
  /\ obj_available_list_ \in Seq(Obj)
  /\ life \in [Obj -> Life]
  /\ is_actived_ \in [Obj -> BOOLEAN]
  /\ idle_timer_ \in [Obj -> Rand]
  /\ lock \in [Obj -> {"none", "tick", "remover", "unlocking"}]
  /\ obj_set_ \subseteq Obj
  /\ change_list_ \in [Obj -> Int]
  /\ cur_obj_ \in Obj \cup {NULL}
  /\ heart_obj_count_ \in Nat
  /\ list \in Seq(Obj)
  /\ pc \in {"idle", "collect", "beat", "locked"}

\* What obj_set_ will be once change_list_ is applied is exactly the set of
\* objects between Insert and Remove, even when an object is freed and
\* allocated again before a tick (the case DoChange's comment calls extreme).
Manage == {"live", "clractive"}
PendingMembership ==
  \A o \in Obj : (IF o \in obj_set_ THEN 1 ELSE 0) + change_list_[o]
                   = (IF life[o] \in Manage THEN 1 ELSE 0)

\* The assertions of DoInsert, DoDelete and DoChange never fail.
AssertsHold == ChangeAsserts

\* cur_obj_ never dangles: it is NULL or an object of obj_set_, so that
\* obj_set_.find(cur_obj_) resumes the round where the last tick stopped.
CursorInSet == cur_obj_ = NULL \/ cur_obj_ \in obj_set_

\* Between ticks less than one heartbeat of credit is left over, so a burst
\* of heartbeats cannot build up however objects come and go.
CreditBounded ==
  pc # "collect" => heart_obj_count_ < MM_HEARTBEAT_TICK

\* One tick never gives an object two heartbeats.
CollectedOnce == \A i, j \in 1 .. Len(list) : list[i] = list[j] => i = j

\* The free list holds exactly the free objects, each once: an object is
\* never handed out to two owners.
FreeListExact ==
  /\ SeqRange(obj_available_list_) = {o \in Obj : life[o] = "free"}
  /\ \A i, j \in 1 .. Len(obj_available_list_) :
       obj_available_list_[i] = obj_available_list_[j] => i = j

\* A heartbeat reaches only an object that has an owner which has finished
\* initialising it, never a freed or half built one.
BeatOnlyOwned ==
  [][\A o \in Obj : Beat(o) => life[o] \in {"setactive", "live"}]_vars

\* An object that stays in the manager keeps getting heartbeats, whatever
\* the others do.
Beaten(o)        == list # <<>> /\ Head(list) = o /\ pc = "locked"
EveryObjectBeats ==
  \A o \in Obj : []<>(Beaten(o) \/ life[o] # "live")

-----------------------------------------------------------------------------
(* Refinement: the protocol that the owners of the objects keep *)

PhaseOf(o) == IF life[o] = "free" THEN "free"
              ELSE IF life[o] = "alloc" THEN "fresh"
              ELSE IF life[o] \in {"setactive", "live"} THEN "member"
              ELSE "leaving"

LockOf(o) == IF lock[o] = "none" THEN "none"
             ELSE IF lock[o] = "tick" THEN "other" ELSE "remover"

Use == INSTANCE SlotUse WITH
         Slot  <- Obj,
         phase <- [o \in Obj |-> PhaseOf(o)],
         lock  <- [o \in Obj |-> LockOf(o)]
=============================================================================
