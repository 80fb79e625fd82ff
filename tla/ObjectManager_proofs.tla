------------------------ MODULE ObjectManager_proofs ------------------------
(***************************************************************************)
(* TLAPS proofs about the object manager, for every pool capacity and      *)
(* every heartbeat period.                                                 *)
(***************************************************************************)
EXTENDS ObjectManager, FiniteSetTheorems, NaturalsInduction, WellFoundedInduction, TLAPS

\* A set of pool objects is finite and its size is a natural number.
LEMMA ObjSubsetCardinality ==
  ASSUME NEW S, S \subseteq Obj
  PROVE  IsFiniteSet(S) /\ Cardinality(S) \in Nat
<1>1. IsFiniteSet(Obj)
  BY PoolAssumption, FS_Interval DEF Obj
<1>2. QED
  BY <1>1, FS_Subset, FS_CardinalityType

\* Of the elements above an object one is the least.
LEMMA LeastAbove ==
  ASSUME NEW S, S \subseteq Obj, NEW o \in Obj \cup {NULL}, \E x \in S : x > o
  PROVE  \E m \in S : m > o /\ \A y \in S : y > o => m <= y
<1>1. S \subseteq Nat /\ o \in Nat
  BY PoolAssumption DEF Obj, NULL
<1> DEFINE Above == {y \in S : y > o}
           R == OpToRel(<, Nat)
<1>2. Above \subseteq Nat /\ Above # {}
  BY <1>1
<1>3. IsWellFoundedOn(R, Nat)
  BY NatLessThanWellFounded
<1>4. \A x, y \in Nat : x < y => <<x, y>> \in R
  BY DEF OpToRel
<1> HIDE DEF Above, R
<1>5. PICK m \in Above : \A y \in Above : ~ (<<y, m>> \in R)
  BY <1>2, <1>3, WFMin
<1>6. ASSUME NEW y \in Above PROVE m <= y
  <2>1. m \in Nat /\ y \in Nat
    BY <1>2
  <2>2. ~ (y < m)
    BY <2>1, <1>4, <1>5, Zenon
  <2>3. QED
    BY <2>1, <2>2
<1>7. m \in S /\ m > o /\ \A y \in S : y > o => m <= y
  BY <1>6 DEF Above
<1>8. QED
  BY <1>7

\* Successor finds an element of the set when some element is larger ...
LEMMA SuccessorProper ==
  ASSUME NEW S, S \subseteq Obj, NEW o \in Obj \cup {NULL}, \E x \in S : x > o
  PROVE  Successor(S, o) \in S
BY LeastAbove DEF Successor

\* ... and NULL otherwise.
LEMMA SuccessorType ==
  ASSUME NEW S, S \subseteq Obj, NEW o \in Obj \cup {NULL}
  PROVE  Successor(S, o) \in S \cup {NULL}
<1>1. CASE \E x \in S : x > o
  BY <1>1, SuccessorProper
<1>2. CASE ~ \E x \in S : x > o
  BY <1>2 DEF Successor
<1>3. QED
  BY <1>1, <1>2

\* Appending an element that is not in a sequence without repetitions adds
\* it to the sequence's range and keeps the elements distinct.
Distinct(s) == \A i, j \in 1 .. Len(s) : s[i] = s[j] => i = j

LEMMA AppendRange ==
  ASSUME NEW S, NEW s \in Seq(S), NEW e \in S, Distinct(s), e \notin SeqRange(s)
  PROVE  SeqRange(Append(s, e)) = SeqRange(s) \cup {e} /\ Distinct(Append(s, e))
<1> DEFINE t == Append(s, e)
<1>1. Len(t) = Len(s) + 1 /\ t[Len(s) + 1] = e /\ \A i \in 1 .. Len(s) : t[i] = s[i]
  OBVIOUS
<1>2. SeqRange(t) = SeqRange(s) \cup {e}
  BY <1>1 DEF SeqRange
<1>3. Distinct(t)
  BY <1>1 DEF SeqRange, Distinct
<1>4. QED
  BY <1>2, <1>3

\* Taking the head off such a sequence removes it from the range.
LEMMA TailRange ==
  ASSUME NEW S, NEW s \in Seq(S), s # <<>>, Distinct(s)
  PROVE  /\ Head(s) \in SeqRange(s)
         /\ SeqRange(Tail(s)) = SeqRange(s) \ {Head(s)}
         /\ Distinct(Tail(s))
<1>1. /\ Len(s) \in Nat \ {0} /\ Len(Tail(s)) = Len(s) - 1
      /\ Head(s) = s[1] /\ \A i \in 1 .. Len(Tail(s)) : Tail(s)[i] = s[i + 1]
  OBVIOUS
<1>2. Head(s) \in SeqRange(s)
  BY <1>1 DEF SeqRange
<1>3. SeqRange(Tail(s)) \subseteq SeqRange(s) \ {Head(s)}
  BY <1>1 DEF SeqRange, Distinct
<1>4. ASSUME NEW x \in SeqRange(s) \ {Head(s)} PROVE x \in SeqRange(Tail(s))
  <2>1. PICK i \in 1 .. Len(s) : x = s[i]
    BY DEF SeqRange
  <2>2. i - 1 \in 1 .. Len(Tail(s)) /\ Tail(s)[i - 1] = x
    BY <1>1, <2>1
  <2>3. QED
    BY <2>2 DEF SeqRange
<1>5. Distinct(Tail(s))
  BY <1>1 DEF Distinct
<1>6. QED
  BY <1>2, <1>3, <1>4, <1>5

-----------------------------------------------------------------------------
(***************************************************************************)
(* The inductive invariant.  PendingMembership is inductive by itself over *)
(* the owner's protocol; CreditBounded and CursorInSet need to know that   *)
(* the collecting loop never runs on an empty set and that the second loop *)
(* of Heartbeat() holds a collected object while it has a lock.            *)
(***************************************************************************)
CollectHasObjects == pc = "collect" /\ obj_set_ = {} => heart_obj_count_ = 0
LockedHasObject   == pc = "locked" => list # <<>>
ActiveIsOwned     == \A o \in Obj : is_actived_[o] => life[o] \in {"setactive", "live"}

IInv == /\ TypeOK
        /\ FreeListExact
        /\ PendingMembership
        /\ ActiveIsOwned
        /\ CursorInSet
        /\ CreditBounded
        /\ CollectHasObjects
        /\ LockedHasObject

\* The part of IInv that only the tick thread can disturb.
TickInv == CursorInSet /\ CreditBounded /\ CollectHasObjects /\ LockedHasObject

LEMMA InitIInv == Init => IInv
<1> SUFFICES ASSUME Init PROVE IInv
  OBVIOUS
<1>1. obj_available_list_ = [i \in 1 .. MAX_COUNT |-> i] /\ MAX_COUNT \in Nat
  BY PoolAssumption DEF Init
<1>2. /\ obj_available_list_ \in Seq(Obj) /\ Len(obj_available_list_) = MAX_COUNT
      /\ \A i \in 1 .. MAX_COUNT : obj_available_list_[i] = i
  BY <1>1 DEF Obj
<1>3. FreeListExact
  <2>1. SeqRange(obj_available_list_) = Obj
    BY <1>2 DEF SeqRange, Obj
  <2>2. {o \in Obj : life[o] = "free"} = Obj
    BY DEF Init
  <2>3. QED
    BY <2>1, <2>2, <1>2 DEF FreeListExact
<1>4. TypeOK
  BY <1>2, IdleAssumption DEF Init, TypeOK, Life, NULL, Rand
<1>5. PendingMembership /\ ActiveIsOwned
  BY DEF Init, PendingMembership, Manage, ActiveIsOwned
<1>6. TickInv
  BY TickAssumption
  DEF Init, TickInv, CursorInSet, CreditBounded, CollectHasObjects, LockedHasObject
<1>7. QED
  BY <1>3, <1>4, <1>5, <1>6 DEF IInv, TickInv

\* The game threads leave the tick thread's state alone.
LEMMA TickInvFrame ==
  ASSUME TickInv, UNCHANGED <<sched, list, pc>>
  PROVE  TickInv'
BY DEF TickInv, CursorInSet, CreditBounded, CollectHasObjects, LockedHasObject, sched

\* Freeing an object that is not free keeps the free list exact.
LEMMA FreeKeepsList ==
  ASSUME TypeOK, FreeListExact, NEW o \in Obj, life[o] # "free", Free(o)
  PROVE  FreeListExact' /\ obj_available_list_' \in Seq(Obj)
<1>1. obj_available_list_ \in Seq(Obj) /\ life \in [Obj -> Life]
  BY DEF TypeOK
<1>2. o \notin SeqRange(obj_available_list_) /\ Distinct(obj_available_list_)
  BY DEF FreeListExact, Distinct
<1>3. /\ SeqRange(obj_available_list_') = SeqRange(obj_available_list_) \cup {o}
      /\ Distinct(obj_available_list_')
  BY <1>1, <1>2, AppendRange DEF Free
<1>4. {p \in Obj : life'[p] = "free"} = {p \in Obj : life[p] = "free"} \cup {o}
  BY <1>1 DEF Free
<1>5. QED
  BY <1>1, <1>3, <1>4 DEF FreeListExact, Distinct, Free

\* Resetting a timer keeps its type.
LEMMA SetIdleTimerType ==
  ASSUME idle_timer_ \in [Obj -> Rand], NEW o, SetIdleTimer(o)
  PROVE  idle_timer_' \in [Obj -> Rand]
BY DEF SetIdleTimer

LEMMA AllocStep == ASSUME IInv, Alloc PROVE IInv'
<1> DEFINE s == obj_available_list_
           o == Head(s)
<1>1. s \in Seq(Obj) /\ s # <<>> /\ Distinct(s) /\ life \in [Obj -> Life]
  BY DEF IInv, TypeOK, Alloc, FreeListExact, Distinct
<1>2. /\ o \in SeqRange(s) /\ Distinct(Tail(s))
      /\ SeqRange(Tail(s)) = SeqRange(s) \ {o}
  BY <1>1, TailRange
<1>3. o \in Obj /\ life[o] = "free"
  BY <1>2 DEF IInv, FreeListExact
<1>4. /\ obj_available_list_' = Tail(s)
      /\ life' = [life EXCEPT ![o] = "alloc"]
      /\ UNCHANGED <<is_actived_, lock, sched, change_list_, list, pc>>
      /\ SetIdleTimer(o)
  BY DEF Alloc
<1>5. TypeOK'
  BY <1>1, <1>3, <1>4, SetIdleTimerType DEF IInv, TypeOK, Life, sched
<1>6. FreeListExact'
  <2>1. {p \in Obj : life'[p] = "free"} = {p \in Obj : life[p] = "free"} \ {o}
    BY <1>1, <1>3, <1>4
  <2>2. QED
    BY <1>2, <1>4, <2>1 DEF IInv, FreeListExact, Distinct
<1>7. PendingMembership' /\ ActiveIsOwned'
  BY <1>1, <1>3, <1>4 DEF IInv, PendingMembership, Manage, ActiveIsOwned, sched
<1>8. TickInv'
  BY <1>4, TickInvFrame DEF IInv, TickInv
<1>9. QED
  BY <1>5, <1>6, <1>7, <1>8 DEF IInv, TickInv

\* The other steps of the game threads.
LEMMA OwnerStep ==
  ASSUME IInv, NEW o \in Obj, Create(o) \/ Destroy(o) \/ PlayerEnterView(o)
  PROVE  IInv'
<1> USE DEF TypeOK, Life, PendingMembership, Manage, ActiveIsOwned, sched
<1>1. TypeOK /\ FreeListExact /\ PendingMembership /\ ActiveIsOwned /\ TickInv
  BY DEF IInv, TickInv
<1>2. CASE FreeUnused(o)
  <2>1. FreeListExact' /\ obj_available_list_' \in Seq(Obj)
    BY <1>1, <1>2, FreeKeepsList DEF FreeUnused
  <2>2. TypeOK' /\ PendingMembership' /\ ActiveIsOwned'
    BY <1>1, <1>2, <2>1, IdleAssumption DEF FreeUnused, Free, Rand
  <2>3. TickInv'
    BY <1>1, <1>2, TickInvFrame DEF FreeUnused
  <2>4. QED
    BY <2>1, <2>2, <2>3 DEF IInv, TickInv
<1>3. CASE FreeRemoved(o)
  <2>1. FreeListExact' /\ obj_available_list_' \in Seq(Obj)
    BY <1>1, <1>3, FreeKeepsList DEF FreeRemoved
  <2>2. TypeOK' /\ PendingMembership' /\ ActiveIsOwned'
    BY <1>1, <1>3, <2>1, IdleAssumption DEF FreeRemoved, Free, Rand
  <2>3. TickInv'
    BY <1>1, <1>3, TickInvFrame DEF FreeRemoved
  <2>4. QED
    BY <2>1, <2>2, <2>3 DEF IInv, TickInv
<1>4. ASSUME \/ SetActive(o) \/ Insert(o) \/ LockForRemove(o)
             \/ ClrActive(o) \/ Remove(o) \/ UnlockRemoved(o)
             \/ PlayerEnterView(o)
      PROVE  IInv'
  <2>1. TypeOK' /\ PendingMembership' /\ ActiveIsOwned'
    <3>1. CASE SetActive(o)
      BY <1>1, <3>1 DEF SetActive, owner
    <3>2. CASE Insert(o)
      BY <1>1, <3>2 DEF Insert, owner
    <3>3. CASE LockForRemove(o)
      BY <1>1, <3>3 DEF LockForRemove, owner
    <3>4. CASE ClrActive(o)
      BY <1>1, <3>4 DEF ClrActive, owner
    <3>5. CASE Remove(o)
      BY <1>1, <3>5 DEF Remove, owner
    <3>6. CASE UnlockRemoved(o)
      BY <1>1, <3>6 DEF UnlockRemoved, owner
    <3>7. CASE PlayerEnterView(o)
      BY <1>1, <3>7, IdleAssumption DEF PlayerEnterView, owner, Rand
    <3>8. QED
      BY <1>4, <3>1, <3>2, <3>3, <3>4, <3>5, <3>6, <3>7
  <2> USE DEF SetActive, Insert, LockForRemove, ClrActive, Remove, UnlockRemoved,
      PlayerEnterView, owner
  <2>3. FreeListExact'
    <3>1. obj_available_list_' = obj_available_list_
      BY <1>4
    <3>2. {p \in Obj : life'[p] = "free"} = {p \in Obj : life[p] = "free"}
      BY <1>1, <1>4
    <3>3. QED
      BY <1>1, <3>1, <3>2 DEF FreeListExact
  <2>4. UNCHANGED <<sched, list, pc>>
    BY <1>4
  <2>5. TickInv'
    BY <1>1, <2>4, TickInvFrame
  <2>6. QED
    BY <2>1, <2>3, <2>5 DEF IInv, TickInv
<1>5. QED
  BY <1>2, <1>3, <1>4 DEF Create, Destroy

\* The tick thread changes neither the owners' state nor, but for DoChange,
\* the membership.
LEMMA OwnerInvFrame ==
  ASSUME FreeListExact, ActiveIsOwned, UNCHANGED owner
  PROVE  FreeListExact' /\ ActiveIsOwned'
BY DEF FreeListExact, ActiveIsOwned, owner

LEMMA DoChangeStep == ASSUME IInv, DoChange PROVE IInv'
<1> DEFINE S == (obj_set_ \cup Inserted) \ Deleted
<1>1. /\ TypeOK /\ FreeListExact /\ PendingMembership /\ ActiveIsOwned
      /\ CursorInSet /\ CreditBounded
  BY DEF IInv
<1>2. /\ obj_set_' = S /\ pc' = "collect" /\ pc = "idle"
      /\ change_list_' = [o \in Obj |-> 0]
      /\ UNCHANGED <<owner, idle_timer_, lock, list>>
  BY DEF DoChange
<1>3. S \subseteq Obj
  BY <1>1 DEF TypeOK, Inserted
<1>4. Cardinality(S) \in Nat
  BY <1>3, ObjSubsetCardinality
<1>5. ASSUME S = {} PROVE TypeOK' /\ TickInv'
  <2>1. heart_obj_count_' = 0 /\ cur_obj_' = NULL
    BY <1>5 DEF DoChange
  <2>2. TypeOK'
    BY <1>1, <1>2, <1>3, <2>1 DEF TypeOK, owner
  <2>3. TickInv'
    BY <1>2, <2>1 DEF TickInv, CursorInSet, CreditBounded, CollectHasObjects, LockedHasObject
  <2>4. QED
    BY <2>2, <2>3
<1>6. ASSUME S # {} PROVE TypeOK' /\ TickInv'
  <2>1. heart_obj_count_' = heart_obj_count_ + Cardinality(S) /\ cur_obj_' = CursorAfterChange
    BY <1>6 DEF DoChange
  <2>2. CursorAfterChange \in S \cup {NULL}
    <3>1. CASE cur_obj_ \in Deleted
      <4>1. obj_set_ \ Deleted \subseteq Obj /\ cur_obj_ \in Obj \cup {NULL}
        BY <1>1 DEF TypeOK
      <4>2. CursorAfterChange \in (obj_set_ \ Deleted) \cup {NULL}
        BY <3>1, <4>1, SuccessorType DEF CursorAfterChange
      <4>3. QED
        BY <4>2
    <3>2. CASE cur_obj_ \notin Deleted
      BY <1>1, <3>2 DEF CursorAfterChange, CursorInSet
    <3>3. QED
      BY <3>1, <3>2
  <2>3. heart_obj_count_' \in Nat
    BY <1>1, <1>4, <2>1 DEF TypeOK
  <2>4. TypeOK'
    BY <1>1, <1>2, <1>3, <2>1, <2>2, <2>3 DEF TypeOK, owner
  <2>5. TickInv'
    BY <1>2, <1>6, <2>1, <2>2
    DEF TickInv, CursorInSet, CreditBounded, CollectHasObjects, LockedHasObject
  <2>6. QED
    BY <2>4, <2>5
<1>7. PendingMembership'
  <2>1. ASSUME NEW o \in Obj
        PROVE  (IF o \in S THEN 1 ELSE 0) = (IF life[o] \in Manage THEN 1 ELSE 0)
    <3>1. /\ (IF o \in obj_set_ THEN 1 ELSE 0) + change_list_[o]
               = (IF life[o] \in Manage THEN 1 ELSE 0)
          /\ change_list_[o] \in Int
      BY <1>1 DEF PendingMembership, TypeOK
    <3>2. QED
      BY <3>1 DEF Inserted, Deleted
  <2>2. QED
    BY <1>2, <2>1 DEF PendingMembership, owner
<1>8. FreeListExact' /\ ActiveIsOwned'
  BY <1>1, <1>2, OwnerInvFrame
<1>9. QED
  BY <1>5, <1>6, <1>7, <1>8 DEF IInv, TickInv

LEMMA CollectStep == ASSUME IInv, Collect PROVE IInv'
<1>1. TypeOK /\ CursorInSet /\ CollectHasObjects /\ PendingMembership
  BY DEF IInv
<1> DEFINE o == IF cur_obj_ = NULL THEN Successor(obj_set_, NULL) ELSE cur_obj_
<1>2. /\ pc = "collect" /\ heart_obj_count_ >= MM_HEARTBEAT_TICK
      /\ PushBack(o) /\ cur_obj_' = Successor(obj_set_, o)
      /\ heart_obj_count_' = heart_obj_count_ - MM_HEARTBEAT_TICK
      /\ UNCHANGED <<owner, lock, obj_set_, change_list_, pc>>
  BY DEF Collect
<1>3. obj_set_ # {} /\ obj_set_ \subseteq Obj
  BY <1>1, <1>2, TickAssumption DEF CollectHasObjects, TypeOK
<1>4. o \in obj_set_
  <2>1. CASE cur_obj_ # NULL
    BY <1>1, <2>1 DEF CursorInSet
  <2>2. CASE cur_obj_ = NULL
    <3>1. PICK x : x \in obj_set_
      BY <1>3
    <3>2. x > NULL
      BY <1>3, <3>1, PoolAssumption DEF Obj, NULL
    <3>3. Successor(obj_set_, NULL) \in obj_set_
      BY <1>3, <3>1, <3>2, SuccessorProper
    <3>4. QED
      BY <2>2, <3>3
  <2>3. QED
    BY <2>1, <2>2
<1>5. cur_obj_' \in obj_set_ \cup {NULL}
  BY <1>2, <1>3, <1>4, SuccessorType
<1>6. heart_obj_count_' \in Nat
  BY <1>1, <1>2, TickAssumption DEF TypeOK
<1>a. list' \in Seq(Obj)
  <2>1. list \in Seq(Obj) /\ o \in Obj
    BY <1>1, <1>3, <1>4 DEF TypeOK
  <2>2. list' = list \/ list' = Append(list, o)
    BY <1>2 DEF PushBack
  <2>3. QED
    BY <2>1, <2>2
<1>b. idle_timer_' \in [Obj -> Rand]
  <2>1. idle_timer_ \in [Obj -> Rand] /\ o \in Obj
    BY <1>1, <1>3, <1>4 DEF TypeOK
  <2>2. CASE SetIdleTimer(o)
    BY <2>1, <2>2, SetIdleTimerType
  <2>3. CASE UNCHANGED idle_timer_
    BY <2>1, <2>3
  <2>4. CASE /\ idle_timer_[o] > 1
             /\ idle_timer_' = [idle_timer_ EXCEPT ![o] = @ - 1]
    <3>1. idle_timer_[o] - 1 \in Rand
      BY <2>1, <2>4, IdleAssumption DEF Rand
    <3>2. QED
      BY <2>1, <2>4, <3>1
  <2>5. QED
    BY <1>2, <2>2, <2>3, <2>4 DEF PushBack
<1>7. TypeOK'
  BY <1>1, <1>2, <1>3, <1>5, <1>6, <1>a, <1>b DEF TypeOK, owner
<1>8. TickInv'
  BY <1>2, <1>3, <1>5
  DEF TickInv, CursorInSet, CreditBounded, CollectHasObjects, LockedHasObject
<1>9. PendingMembership'
  BY <1>1, <1>2 DEF PendingMembership, owner
<1>10. FreeListExact' /\ ActiveIsOwned'
  BY <1>2, OwnerInvFrame DEF IInv
<1>11. QED
  BY <1>7, <1>8, <1>9, <1>10 DEF IInv, TickInv

\* The rest of the tick: the end of the collecting loop and the second loop.
LEMMA BeatStep ==
  ASSUME IInv,
         \/ CollectEnd \/ LockForBeat \/ BeatEnd
         \/ \E o \in Obj : Beat(o) \/ SkipInactive(o)
  PROVE  IInv'
<1>1. TypeOK /\ TickInv /\ PendingMembership
  BY DEF IInv, TickInv
<1>2. UNCHANGED <<owner, sched, change_list_>>
  BY DEF CollectEnd, LockForBeat, BeatEnd, Beat, SkipInactive
<1>3. PendingMembership'
  BY <1>1, <1>2 DEF PendingMembership, owner, sched
<1>4. FreeListExact' /\ ActiveIsOwned'
  BY <1>2, OwnerInvFrame DEF IInv
<1>5. TypeOK' /\ TickInv'
  <2> USE <1>1, <1>2 DEF TypeOK, TickInv, CursorInSet, CreditBounded,
      CollectHasObjects, LockedHasObject, owner, sched
  <2>1. CASE CollectEnd
    BY <2>1 DEF CollectEnd
  <2>2. CASE LockForBeat
    <3>1. Head(list) \in Obj
      BY <2>2 DEF LockForBeat
    <3>2. QED
      BY <2>2, <3>1 DEF LockForBeat
  <2>3. CASE BeatEnd
    BY <2>3 DEF BeatEnd
  <2>4. ASSUME NEW o \in Obj, Beat(o) \/ SkipInactive(o)
        PROVE  TypeOK' /\ TickInv'
    <3>1. /\ pc' = "beat" /\ pc = "locked" /\ list' = Tail(list)
          /\ lock' = [lock EXCEPT ![o] = "none"]
      BY <2>4 DEF Beat, SkipInactive
    <3>2. Tail(list) \in Seq(Obj)
      BY <3>1
    <3>3. idle_timer_' \in [Obj -> Rand]
      BY <2>4, SetIdleTimerType DEF Beat, SkipInactive
    <3>4. QED
      BY <3>1, <3>2, <3>3
  <2>5. QED
    BY <2>1, <2>2, <2>3, <2>4
<1>6. QED
  BY <1>3, <1>4, <1>5 DEF IInv, TickInv

LEMMA NextIInv == IInv /\ [Next]_vars => IInv'
<1> SUFFICES ASSUME IInv, [Next]_vars PROVE IInv'
  OBVIOUS
<1>1. CASE Alloc
  BY <1>1, AllocStep
<1>2. CASE \E o \in Obj : Create(o) \/ Destroy(o) \/ PlayerEnterView(o)
  BY <1>2, OwnerStep
<1>3. CASE Tick
  BY <1>3, DoChangeStep, CollectStep, BeatStep DEF Tick
<1>4. CASE UNCHANGED vars
  BY <1>4 DEF IInv, TypeOK, FreeListExact, PendingMembership, ActiveIsOwned, CursorInSet,
     CreditBounded, CollectHasObjects, LockedHasObject, vars, owner, sched
<1>5. QED
  BY <1>1, <1>2, <1>3, <1>4 DEF Next

\* The invariant holds in every reachable state of the object manager.
THEOREM Invariance == Spec => []IInv
BY InitIInv, NextIInv, PTL DEF Spec

\* obj_set_ corrected by change_list_ is always the set of inserted objects:
\* Insert and Remove may race with the tick and with reuse of the object.
THEOREM MembershipCorrect == Spec => []PendingMembership
<1>1. IInv => PendingMembership
  BY DEF IInv
<1>2. QED
  BY <1>1, Invariance, PTL

\* No assertion of DoInsert, DoDelete or DoChange can fail.
THEOREM ChangeAssertsHold == Spec => []AssertsHold
<1>1. IInv => AssertsHold
  <2> SUFFICES ASSUME IInv PROVE ChangeAsserts
    BY DEF AssertsHold
  <2>1. ASSUME NEW o \in Obj
        PROVE  /\ change_list_[o] \in {-1, 0, 1}
               /\ change_list_[o] > 0 => o \notin obj_set_
               /\ change_list_[o] < 0 => o \in obj_set_
    <3>1. /\ (IF o \in obj_set_ THEN 1 ELSE 0) + change_list_[o]
               = (IF life[o] \in Manage THEN 1 ELSE 0)
          /\ change_list_[o] \in Int
      BY DEF IInv, PendingMembership, TypeOK
    <3>2. QED
      BY <3>1
  <2>2. QED
    BY <2>1 DEF ChangeAsserts, Inserted, Deleted
<1>2. QED
  BY <1>1, Invariance, PTL

\* The round-robin cursor never dangles.
THEOREM CursorCorrect == Spec => []CursorInSet
<1>1. IInv => CursorInSet
  BY DEF IInv
<1>2. QED
  BY <1>1, Invariance, PTL

\* Less than one heartbeat of credit is carried from tick to tick.
THEOREM CreditCorrect == Spec => []CreditBounded
<1>1. IInv => CreditBounded
  BY DEF IInv
<1>2. QED
  BY <1>1, Invariance, PTL

\* Every object is on the free list exactly once while it is free.
THEOREM FreeListCorrect == Spec => []FreeListExact
<1>1. IInv => FreeListExact
  BY DEF IInv
<1>2. QED
  BY <1>1, Invariance, PTL

\* A heartbeat is dispatched only to an object that has an owner.
THEOREM BeatCorrect == Spec => BeatOnlyOwned
<1>1. IInv /\ [Next]_vars =>
        [\A o \in Obj : Beat(o) => life[o] \in {"setactive", "live"}]_vars
  BY DEF IInv, ActiveIsOwned, Beat
<1>2. QED
  BY <1>1, Invariance, PTL DEF Spec, BeatOnlyOwned

\* The types of the pool, the change list, the set and the credit.
THEOREM TypeCorrect == Spec => []TypeOK
<1>1. IInv => TypeOK
  BY DEF IInv
<1>2. QED
  BY <1>1, Invariance, PTL

-----------------------------------------------------------------------------
(***************************************************************************)
(* CollectedOnce.  A round is an arc of obj_set_: from the object a it     *)
(* began with up to the cursor c, around the end of the set if need be.    *)
(* The objects passed in this tick (done) form such an arc, and the credit *)
(* does not reach beyond the others.                                       *)
(***************************************************************************)
Arc(S, a, c, D) ==
  \/ /\ c = NULL \/ a < c
     /\ \A x \in S : x \in D <=> a <= x /\ (c = NULL \/ x < c)
  \/ /\ c # NULL /\ c <= a
     /\ \A x \in S : x \in D <=> a <= x \/ x < c

Shape(S, c, D) == D \subseteq S /\ (D = {} \/ \E a \in S : Arc(S, a, c, D))

RoundInv == pc = "collect" =>
              \E done \in SUBSET obj_set_ :
                /\ Shape(obj_set_, cur_obj_, done)
                /\ SeqRange(list) \subseteq done
                /\ heart_obj_count_ < MM_HEARTBEAT_TICK + Cardinality(obj_set_ \ done)

IdleHasNone == pc = "idle" => list = <<>>

OnceInv == CollectedOnce /\ IdleHasNone /\ RoundInv

\* What Successor(S, o) is: the least element above o, or NULL if o is the
\* last one.
LEMMA SuccessorIs ==
  ASSUME NEW S, S \subseteq Obj, NEW o \in Obj \cup {NULL}
  PROVE  \/ /\ Successor(S, o) \in S /\ Successor(S, o) > o
            /\ \A y \in S : y > o => Successor(S, o) <= y
         \/ Successor(S, o) = NULL /\ \A y \in S : ~ (y > o)
<1>1. CASE \E x \in S : x > o
  <2>1. PICK m \in S : m > o /\ \A y \in S : y > o => m <= y
    BY <1>1, LeastAbove
  <2> QED
    BY <1>1, <2>1 DEF Successor
<1>2. CASE ~ \E x \in S : x > o
  BY <1>2 DEF Successor
<1> QED
  BY <1>1, <1>2

\* As long as some object has not been passed, the next one of the
\* collecting loop is such an object, and passing it prolongs the arc.
LEMMA ArcStep ==
  ASSUME NEW S, S \subseteq Obj, NEW c \in S \cup {NULL}, NEW D, D # S, Shape(S, c, D),
         NEW o, o = IF c = NULL THEN Successor(S, NULL) ELSE c
  PROVE  o \in S \ D /\ Shape(S, Successor(S, o), D \cup {o})
<1>1. NULL = 0 /\ \A x \in S : x \in Int /\ x > 0
  BY PoolAssumption DEF Obj, NULL
<1>2. D \subseteq S
  BY DEF Shape
<1>3. PICK z \in S : z \notin D
  BY <1>2
<1>4. o \in S /\ (c = NULL => \A y \in S : o <= y) /\ (c # NULL => o = c)
  <2>1. CASE c = NULL
    <3>1. z > NULL
      BY <1>1
    <3>2. /\ Successor(S, NULL) \in S
          /\ \A y \in S : y > NULL => Successor(S, NULL) <= y
      BY <3>1, SuccessorIs
    <3> QED
      BY <1>1, <2>1, <3>2
  <2>2. CASE c # NULL
    BY <2>2
  <2> QED
    BY <2>1, <2>2
<1> DEFINE d == Successor(S, o)
<1>5. \/ d \in S /\ d > o /\ \A y \in S : y > o => d <= y
      \/ d = NULL /\ \A y \in S : ~ (y > o)
  BY <1>4, SuccessorIs
<1> HIDE DEF d
\* Below d, or anywhere if d is the end, is up to o.
<1>6. ASSUME NEW x \in S PROVE (d = NULL \/ x < d) <=> x <= o
  BY <1>1, <1>4, <1>5
<1>7. o \in Int /\ d \in Int /\ (d # NULL => d > o)
  BY <1>1, <1>4, <1>5
<1>8. CASE D = {}
  <2>1. ASSUME NEW x \in S
        PROVE  x \in D \cup {o} <=> o <= x /\ (d = NULL \/ x < d)
    BY <1>1, <1>6, <1>7, <1>8
  <2>2. Arc(S, o, d, D \cup {o})
    BY <1>7, <2>1 DEF Arc
  <2> QED
    BY <1>4, <1>8, <2>2 DEF Shape, d
<1>9. ASSUME NEW a \in S, Arc(S, a, c, D)
      PROVE  o \in S \ D /\ Arc(S, a, d, D \cup {o})
  <2>1. a \in Int /\ z \in Int
    BY <1>1
  <2>2. CASE c # NULL /\ a < c
    <3>1. c = o /\ a < o /\ \A x \in S : x \in D <=> a <= x /\ x < o
      <4>1. c = o
        BY <1>4, <2>2
      <4> QED
        BY <1>7, <1>9, <2>1, <2>2, <4>1 DEF Arc
    <3>2. ASSUME NEW x \in S
          PROVE  x \in D \cup {o} <=> a <= x /\ (d = NULL \/ x < d)
      BY <1>1, <1>6, <1>7, <2>1, <3>1
    <3>3. d = NULL \/ a < d
      BY <1>7, <2>1, <3>1
    <3>4. o \in S \ D
      BY <1>4, <1>7, <3>1
    <3> QED
      BY <3>2, <3>3, <3>4 DEF Arc
  <2>3. CASE c = NULL \/ ~ (a < c)
    \* The arc has gone around, or does so now.
    <3>1. o < a /\ o \in S \ D /\ \A x \in S : x \in D <=> a <= x \/ x < o
      <4>1. CASE c = NULL
        <5>1. \A x \in S : x \in D <=> a <= x
          BY <1>9, <4>1 DEF Arc
        <5>2. o <= z /\ z < a
          BY <1>3, <1>4, <2>1, <4>1, <5>1
        <5>3. o < a /\ \A x \in S : ~ (x < o)
          BY <1>1, <1>4, <1>7, <2>1, <4>1, <5>2
        <5> QED
          BY <1>4, <1>7, <2>1, <5>1, <5>3
      <4>2. CASE c # NULL
        <5>1. c = o
          BY <1>4, <4>2
        <5>2. o <= a /\ \A x \in S : x \in D <=> a <= x \/ x < o
          BY <1>9, <2>3, <4>2, <5>1 DEF Arc
        <5>3. o # a
          BY <1>3, <2>1, <5>2
        <5> QED
          BY <1>4, <1>7, <2>1, <5>2, <5>3
      <4> QED
        BY <4>1, <4>2
    <3>2. d # NULL /\ d <= a
      BY <1>1, <1>5, <1>7, <2>1, <3>1
    <3>3. ASSUME NEW x \in S
          PROVE  x \in D \cup {o} <=> a <= x \/ x < d
      BY <1>1, <1>6, <1>7, <2>1, <3>1, <3>2
    <3> QED
      BY <3>1, <3>2, <3>3 DEF Arc
  <2> QED
    BY <2>2, <2>3
<1> QED
  BY <1>2, <1>4, <1>8, <1>9 DEF Shape, d

\* DoChange begins a round: nothing is passed, and the credit left over from
\* the last tick is less than one heartbeat.
LEMMA DoChangeOnce == ASSUME IInv, IInv', OnceInv, DoChange PROVE OnceInv'
<1>1. list = <<>> /\ list' = <<>> /\ pc' = "collect" /\ pc = "idle"
  BY DEF OnceInv, IdleHasNone, DoChange
<1>2. /\ obj_set_' \subseteq Obj /\ heart_obj_count_ \in Nat
      /\ heart_obj_count_ < MM_HEARTBEAT_TICK
  BY <1>1 DEF IInv, TypeOK, CreditBounded
<1>3. Cardinality(obj_set_') \in Nat
  BY <1>2, ObjSubsetCardinality
<1>4. \/ obj_set_' = {} /\ heart_obj_count_' = 0
      \/ heart_obj_count_' = heart_obj_count_ + Cardinality(obj_set_')
  BY DEF DoChange
<1>5. heart_obj_count_' < MM_HEARTBEAT_TICK + Cardinality(obj_set_')
  BY <1>2, <1>3, <1>4, TickAssumption
<1>6. obj_set_' \ {} = obj_set_' /\ Shape(obj_set_', cur_obj_', {})
  BY DEF Shape
<1>7. SeqRange(list') = {}
  BY <1>1 DEF SeqRange
<1>8. RoundInv'
  BY <1>5, <1>6, <1>7 DEF RoundInv
<1> QED
  BY <1>1, <1>8 DEF OnceInv, CollectedOnce, IdleHasNone

\* One iteration passes an object that had not been passed.
LEMMA CollectOnce == ASSUME IInv, OnceInv, Collect PROVE OnceInv'
<1> DEFINE S == obj_set_
           c == cur_obj_
           o == IF c = NULL THEN Successor(S, NULL) ELSE c
<1>1. PICK D \in SUBSET S :
        /\ Shape(S, c, D) /\ SeqRange(list) \subseteq D
        /\ heart_obj_count_ < MM_HEARTBEAT_TICK + Cardinality(S \ D)
  BY DEF OnceInv, RoundInv, Collect
<1>2. /\ S \subseteq Obj /\ c \in S \cup {NULL} /\ heart_obj_count_ \in Nat
      /\ list \in Seq(Obj) /\ Distinct(list)
  BY DEF IInv, TypeOK, CursorInSet, OnceInv, CollectedOnce, Distinct
<1>3. /\ pc = "collect" /\ pc' = "collect" /\ heart_obj_count_ >= MM_HEARTBEAT_TICK
      /\ PushBack(o) /\ cur_obj_' = Successor(S, o) /\ obj_set_' = S
      /\ heart_obj_count_' = heart_obj_count_ - MM_HEARTBEAT_TICK
  BY DEF Collect
<1>4. IsFiniteSet(S \ D) /\ Cardinality(S \ D) \in Nat
  BY <1>2, ObjSubsetCardinality
<1>5. D # S
  <2>1. SUFFICES ASSUME D = S PROVE FALSE
    OBVIOUS
  <2>2. Cardinality(S \ D) = 0
    <3>1. S \ D = {}
      BY <2>1
    <3> QED
      BY <3>1, FS_EmptySet
  <2> QED
    BY <1>1, <1>2, <1>3, <2>2, TickAssumption
<1>a. o = IF c = NULL THEN Successor(S, NULL) ELSE c
  OBVIOUS
<1> HIDE DEF S, c, o
<1>6. o \in S \ D /\ Shape(S, Successor(S, o), D \cup {o})
  <2>1. Shape(S, c, D) /\ S \subseteq Obj /\ c \in S \cup {NULL}
    BY <1>1, <1>2
  <2> QED
    BY <1>5, <1>a, <2>1, ArcStep
<1>7. Cardinality(S \ (D \cup {o})) = Cardinality(S \ D) - 1
  <2>1. S \ (D \cup {o}) = (S \ D) \ {o}
    OBVIOUS
  <2>2. Cardinality((S \ D) \ {o}) = Cardinality(S \ D) - 1
    BY <1>4, <1>6, FS_RemoveElement
  <2> QED
    BY <2>1, <2>2
<1>8. heart_obj_count_' < MM_HEARTBEAT_TICK + Cardinality(S \ (D \cup {o}))
  BY <1>1, <1>2, <1>3, <1>4, <1>7, TickAssumption
<1>9. SeqRange(list') \subseteq D \cup {o} /\ Distinct(list')
  <2>1. list' = list \/ list' = Append(list, o)
    BY <1>3 DEF PushBack
  <2>2. o \in Obj /\ o \notin SeqRange(list)
    BY <1>1, <1>2, <1>6
  <2>3. /\ SeqRange(Append(list, o)) = SeqRange(list) \cup {o}
        /\ Distinct(Append(list, o))
    BY <1>2, <2>2, AppendRange
  <2>4. CASE list' = list
    BY <1>1, <1>2, <2>4
  <2>5. CASE list' = Append(list, o)
    BY <1>1, <2>3, <2>5
  <2> QED
    BY <2>1, <2>4, <2>5
<1>10. D \cup {o} \in SUBSET S
  BY <1>1, <1>6
<1>11. RoundInv'
  BY <1>3, <1>6, <1>8, <1>9, <1>10 DEF RoundInv
<1>12. CollectedOnce' /\ IdleHasNone'
  BY <1>3, <1>9 DEF CollectedOnce, IdleHasNone, Distinct
<1> QED
  BY <1>11, <1>12 DEF OnceInv

\* The other steps append nothing to the list.
LEMMA OtherOnce ==
  ASSUME IInv, OnceInv, [Next]_vars, ~DoChange, ~Collect
  PROVE  OnceInv'
<1>1. CASE UNCHANGED <<list, pc, sched>>
  <2>1. CollectedOnce' /\ IdleHasNone'
    BY <1>1 DEF OnceInv, CollectedOnce, IdleHasNone
  <2>2. SeqRange(list') = SeqRange(list)
    BY <1>1
  <2>3. obj_set_' = obj_set_ /\ cur_obj_' = cur_obj_ /\ heart_obj_count_' = heart_obj_count_
    BY <1>1 DEF sched
  <2>4. RoundInv'
    BY <1>1, <2>2, <2>3 DEF OnceInv, RoundInv
  <2> QED
    BY <2>1, <2>4 DEF OnceInv
<1>2. CASE CollectEnd \/ LockForBeat \/ BeatEnd
  <2>1. list' = list /\ pc' # "collect" /\ (pc' = "idle" => list = <<>>)
    BY <1>2 DEF CollectEnd, LockForBeat, BeatEnd
  <2> QED
    BY <2>1 DEF OnceInv, CollectedOnce, IdleHasNone, RoundInv
<1>3. ASSUME NEW o \in Obj, Beat(o) \/ SkipInactive(o) PROVE OnceInv'
  <2>1. pc = "locked" /\ pc' = "beat" /\ list' = Tail(list)
    BY <1>3 DEF Beat, SkipInactive
  <2>2. list \in Seq(Obj) /\ list # <<>> /\ Distinct(list)
    BY <2>1 DEF IInv, TypeOK, LockedHasObject, OnceInv, CollectedOnce, Distinct
  <2>3. Distinct(list')
    BY <2>1, <2>2, TailRange
  <2> QED
    BY <2>1, <2>3 DEF OnceInv, CollectedOnce, IdleHasNone, RoundInv, Distinct
<1>4. CASE Alloc
  <2>1. UNCHANGED <<list, pc, sched>>
    BY <1>4 DEF Alloc
  <2> QED
    BY <1>1, <2>1
<1>5. ASSUME NEW o \in Obj, Create(o) \/ Destroy(o) \/ PlayerEnterView(o) PROVE OnceInv'
  <2>1. UNCHANGED <<list, pc, sched>>
    BY <1>5 DEF Create, Destroy, FreeUnused, SetActive, Insert, LockForRemove, ClrActive,
       Remove, FreeRemoved, UnlockRemoved, PlayerEnterView
  <2> QED
    BY <1>1, <2>1
<1>6. CASE UNCHANGED vars
  BY <1>1, <1>6 DEF vars
<1> QED
  BY <1>2, <1>3, <1>4, <1>5, <1>6 DEF Next, Tick

\* One tick never gives an object two heartbeats, for every number of objects
\* and every heartbeat period: the credit of a tick is at most one round.
THEOREM OnceCorrect == Spec => []CollectedOnce
<1>1. Init => OnceInv
  BY DEF Init, OnceInv, CollectedOnce, IdleHasNone, RoundInv
<1>2. IInv /\ IInv' /\ OnceInv /\ [Next]_vars => OnceInv'
  BY DoChangeOnce, CollectOnce, OtherOnce
<1>3. OnceInv => CollectedOnce
  BY DEF OnceInv
<1> QED
  BY <1>1, <1>2, <1>3, Invariance, PTL DEF Spec

-----------------------------------------------------------------------------
(***************************************************************************)
(* The objects' owners keep the protocol of SlotUse.  An object that is    *)
(* removed stays locked by its remover until it is back in the pool, and   *)
(* the tick thread holds the lock of the object it is about to beat.       *)
(***************************************************************************)
LeavingLocked == \A o \in Obj : life[o] \in {"clractive", "removed"} => lock[o] = "remover"
BeatLocked    == pc = "locked" => Head(list) \in Obj /\ lock[Head(list)] = "tick"

LockInv == LeavingLocked /\ BeatLocked

\* What a step has to do.
KeepsUse == LockInv' /\ (Use!Next \/ UNCHANGED Use!vars)

\* An object goes from one phase to another.
LEMMA PhaseMoves ==
  ASSUME NEW o \in Obj, NEW to, PhaseOf(o)' = to,
         \A p \in Obj : p # o => life'[p] = life[p]
  PROVE  [p \in Obj |-> PhaseOf(p)]' = [[p \in Obj |-> PhaseOf(p)] EXCEPT ![o] = to]
<1>1. \A p \in Obj : p # o => PhaseOf(p)' = PhaseOf(p)
  BY DEF PhaseOf
<1> QED
  BY <1>1

\* An object's lock changes hands.
LEMMA LockMoves ==
  ASSUME NEW o \in Obj, NEW h, LockOf(o)' = h,
         \A p \in Obj : p # o => lock'[p] = lock[p]
  PROVE  [p \in Obj |-> LockOf(p)]' = [[p \in Obj |-> LockOf(p)] EXCEPT ![o] = h]
<1>1. \A p \in Obj : p # o => LockOf(p)' = LockOf(p)
  BY DEF LockOf
<1> QED
  BY <1>1

LEMMA LockStays ==
  ASSUME UNCHANGED lock
  PROVE  [p \in Obj |-> LockOf(p)]' = [p \in Obj |-> LockOf(p)]
BY DEF LockOf

LEMMA PhaseStays ==
  ASSUME UNCHANGED life
  PROVE  [p \in Obj |-> PhaseOf(p)]' = [p \in Obj |-> PhaseOf(p)]
BY DEF PhaseOf

\* A step of the owner that leaves the locks alone.
LEMMA OwnerUse ==
  ASSUME IInv, LockInv, NEW o \in Obj,
         (Alloc /\ o = Head(obj_available_list_)) \/ Create(o) \/ ClrActive(o) \/ Remove(o)
  PROVE  KeepsUse
<1> USE DEF IInv, TypeOK
<1>1. /\ UNCHANGED <<lock, list, pc>>
      /\ \E l \in Life : life' = [life EXCEPT ![o] = l]
      /\ \/ life[o] = "free" /\ life'[o] = "alloc"
         \/ life[o] = "alloc" /\ life'[o] \in {"free", "setactive"}
         \/ life[o] = "setactive" /\ life'[o] = "live"
         \/ life[o] = "live" /\ lock[o] = "remover" /\ life'[o] = "clractive"
         \/ life[o] = "clractive" /\ life'[o] = "removed"
  <2>1. CASE Alloc /\ o = Head(obj_available_list_)
    <3>1. life[o] = "free"
      <4>1. obj_available_list_ # <<>> /\ obj_available_list_ \in Seq(Obj)
        BY <2>1 DEF Alloc
      <4>2. o \in SeqRange(obj_available_list_)
        BY <2>1, <4>1 DEF SeqRange
      <4> QED
        BY <4>2 DEF FreeListExact
    <3> QED
      BY <2>1, <3>1 DEF Alloc, Life
  <2>2. CASE Create(o) \/ ClrActive(o) \/ Remove(o)
    BY <2>2 DEF Create, FreeUnused, Free, SetActive, Insert, ClrActive, Remove, Life
  <2> QED
    BY <2>1, <2>2
<1>2. LockInv'
  BY <1>1 DEF LockInv, LeavingLocked, BeatLocked
<1>3. \A p \in Obj : p # o => life'[p] = life[p]
  BY <1>1
<1>4. \/ Use!Alloc(o) \/ Use!FreeUnused(o) \/ Use!Insert(o) \/ Use!Remove(o)
      \/ UNCHANGED Use!vars
  <2>1. CASE life[o] = "free" /\ life'[o] = "alloc"
    <3>1. PhaseOf(o) \in {"free"} /\ PhaseOf(o)' = "fresh"
      BY <2>1 DEF PhaseOf
    <3>2. Use!Become(o, {"free"}, "fresh")
      BY <1>3, <3>1, PhaseMoves DEF Use!Become
    <3> QED
      BY <1>1, <3>2, LockStays DEF Use!Alloc
  <2>2. CASE life[o] = "alloc" /\ life'[o] = "free"
    <3>1. PhaseOf(o) \in {"fresh"} /\ PhaseOf(o)' = "free"
      BY <2>2 DEF PhaseOf
    <3>2. Use!Become(o, {"fresh"}, "free")
      BY <1>3, <3>1, PhaseMoves DEF Use!Become
    <3> QED
      BY <1>1, <3>2, LockStays DEF Use!FreeUnused
  <2>3. CASE life[o] = "alloc" /\ life'[o] = "setactive"
    <3>1. PhaseOf(o) \in {"free", "fresh"} /\ PhaseOf(o)' = "member"
      BY <2>3 DEF PhaseOf
    <3>2. Use!Become(o, {"free", "fresh"}, "member")
      BY <1>3, <3>1, PhaseMoves DEF Use!Become
    <3> QED
      BY <1>1, <3>2, LockStays DEF Use!Insert
  <2>4. CASE life[o] = "live" /\ lock[o] = "remover" /\ life'[o] = "clractive"
    <3>0. PhaseOf(o) \in {"member"} /\ PhaseOf(o)' = "leaving"
      BY <2>4 DEF PhaseOf
    <3>1. Use!Become(o, {"member"}, "leaving")
      BY <1>3, <3>0, PhaseMoves DEF Use!Become
    <3>2. LockOf(o) = "remover" /\ LockOf(o)' = "remover"
      BY <1>1, <2>4 DEF LockOf
    <3> QED
      BY <1>1, <3>1, <3>2, LockMoves DEF Use!Remove
  <2>5. CASE \/ life[o] = "setactive" /\ life'[o] = "live"
             \/ life[o] = "clractive" /\ life'[o] = "removed"
    <3>1. PhaseOf(o)' = PhaseOf(o)
      BY <2>5 DEF PhaseOf
    <3>2. [p \in Obj |-> PhaseOf(p)]' = [p \in Obj |-> PhaseOf(p)]
      BY <1>3, <3>1 DEF PhaseOf
    <3> QED
      BY <1>1, <3>2, LockStays DEF Use!vars
  <2> QED
    BY <1>1, <2>1, <2>2, <2>3, <2>4, <2>5
<1> QED
  BY <1>2, <1>4 DEF KeepsUse, Use!Next

\* FreeX of a removed object, which its remover still holds.
LEMMA FreeUse == ASSUME IInv, LockInv, NEW o \in Obj, FreeRemoved(o) PROVE KeepsUse
<1> USE DEF IInv, TypeOK
<1>1. /\ life[o] = "removed" /\ life' = [life EXCEPT ![o] = "free"]
      /\ lock' = [lock EXCEPT ![o] = "unlocking"] /\ UNCHANGED <<list, pc>>
  BY DEF FreeRemoved, Free
<1>2. lock[o] = "remover"
  BY <1>1 DEF LockInv, LeavingLocked
<1>3. LockInv'
  BY <1>1, <1>2 DEF LockInv, LeavingLocked, BeatLocked
<1>4. Use!Become(o, {"leaving"}, "free")
  <2>1. PhaseOf(o) \in {"leaving"} /\ PhaseOf(o)' = "free"
    BY <1>1 DEF PhaseOf
  <2> QED
    BY <1>1, <2>1, PhaseMoves DEF Use!Become
<1>5. LockOf(o) = "remover" /\ [p \in Obj |-> LockOf(p)]' = [p \in Obj |-> LockOf(p)]
  BY <1>1, <1>2 DEF LockOf
<1>6. Use!Free(o)
  BY <1>4, <1>5 DEF Use!Free
<1> QED
  BY <1>3, <1>6 DEF KeepsUse, Use!Next

\* A lock is taken, by a remover or by the tick thread.
LEMMA LockUse ==
  ASSUME IInv, LockInv, NEW o \in Obj,
         LockForRemove(o) \/ (LockForBeat /\ o = Head(list))
  PROVE  KeepsUse
<1> USE DEF IInv, TypeOK
<1>1. PICK h \in {"remover", "tick"} :
        /\ lock[o] = "none" /\ lock' = [lock EXCEPT ![o] = h]
        /\ UNCHANGED <<life, list>>
        /\ \/ UNCHANGED pc
           \/ pc' = "locked" /\ o = Head(list) /\ h = "tick"
  BY DEF LockForRemove, LockForBeat, owner
<1>2. LockInv'
  BY <1>1 DEF LockInv, LeavingLocked, BeatLocked
<1>3. LockOf(o) = "none" /\ LockOf(o)' \in {"remover", "other"}
  BY <1>1 DEF LockOf
<1>4. Use!Lock(o)
  BY <1>1, <1>3, LockMoves, PhaseStays DEF Use!Lock
<1> QED
  BY <1>2, <1>4 DEF KeepsUse, Use!Next

\* A lock is released, after the object was freed or has got its heartbeat.
LEMMA UnlockUse ==
  ASSUME IInv, LockInv, NEW o \in Obj, UnlockRemoved(o) \/ Beat(o) \/ SkipInactive(o)
  PROVE  KeepsUse
<1> USE DEF IInv, TypeOK
<1>1. /\ lock[o] \in {"unlocking", "tick"} /\ lock' = [lock EXCEPT ![o] = "none"]
      /\ UNCHANGED life
      /\ \/ pc' # "locked"
         \/ UNCHANGED <<pc, list>> /\ lock[o] = "unlocking"
  <2>1. CASE UnlockRemoved(o)
    BY <2>1 DEF UnlockRemoved, owner
  <2>2. CASE Beat(o) \/ SkipInactive(o)
    <3>1. /\ pc = "locked" /\ o = Head(list) /\ pc' = "beat" /\ UNCHANGED life
          /\ lock' = [lock EXCEPT ![o] = "none"]
      BY <2>2 DEF Beat, SkipInactive, owner
    <3>2. lock[o] = "tick"
      BY <3>1, Zenon DEF LockInv, BeatLocked
    <3> QED
      BY <3>1, <3>2
  <2> QED
    BY <2>1, <2>2
<1>2. life[o] \notin {"clractive", "removed"}
  BY <1>1 DEF LockInv, LeavingLocked
<1>3. LockInv'
  BY <1>1, <1>2 DEF LockInv, LeavingLocked, BeatLocked
<1>4. LockOf(o) # "none" /\ LockOf(o)' = "none" /\ PhaseOf(o) # "leaving"
  BY <1>1, <1>2 DEF LockOf, PhaseOf, Life
<1>5. Use!Unlock(o)
  BY <1>1, <1>4, LockMoves, PhaseStays DEF Use!Unlock
<1> QED
  BY <1>3, <1>5 DEF KeepsUse, Use!Next

\* The scheduler's own steps touch neither.
LEMMA OtherUse ==
  ASSUME LockInv, UNCHANGED <<life, lock>>, pc' # "locked" \/ UNCHANGED <<pc, list>>
  PROVE  KeepsUse
<1>1. LockInv'
  BY DEF LockInv, LeavingLocked, BeatLocked
<1> QED
  BY <1>1, LockStays, PhaseStays DEF KeepsUse, Use!vars

\* The owners of ObjectManager use the pool as SlotUse says: an object enters
\* the manager once between Alloc and Free, and from RemoveXFromMan to FreeX
\* nobody but its remover has it locked.
THEOREM UseImplemented == Spec => Use!Spec
<1>1. Init => Use!Init /\ LockInv
  BY DEF Init, Use!Init, PhaseOf, LockOf, LockInv, LeavingLocked, BeatLocked
<1>2. ASSUME IInv, LockInv, [Next]_vars PROVE KeepsUse
  <2>1. ASSUME Alloc PROVE KeepsUse
    <3>1. Head(obj_available_list_) \in Obj
      BY <1>2, <2>1 DEF Alloc, IInv, TypeOK
    <3> QED
      BY <1>2, <2>1, <3>1, OwnerUse
  <2>2. ASSUME LockForBeat PROVE KeepsUse
    <3>1. Head(list) \in Obj
      BY <1>2, <2>2 DEF LockForBeat, IInv, TypeOK
    <3> QED
      BY <1>2, <2>2, <3>1, LockUse
  <2>3. ASSUME NEW o \in Obj, Create(o) \/ Destroy(o) PROVE KeepsUse
    <3>1. CASE Create(o) \/ ClrActive(o) \/ Remove(o)
      BY <1>2, <3>1, OwnerUse
    <3>2. CASE LockForRemove(o)
      BY <1>2, <3>2, LockUse
    <3>3. CASE FreeRemoved(o)
      BY <1>2, <3>3, FreeUse
    <3>4. CASE UnlockRemoved(o)
      BY <1>2, <3>4, UnlockUse
    <3> QED
      BY <2>3, <3>1, <3>2, <3>3, <3>4 DEF Destroy
  <2>4. ASSUME NEW o \in Obj, Beat(o) \/ SkipInactive(o) PROVE KeepsUse
    BY <1>2, <2>4, UnlockUse
  <2>5. ASSUME \/ DoChange \/ Collect \/ CollectEnd \/ BeatEnd
               \/ \E o \in Obj : PlayerEnterView(o)
        PROVE  KeepsUse
    BY <1>2, <2>5, OtherUse
       DEF DoChange, Collect, CollectEnd, BeatEnd, PlayerEnterView, owner
  <2>6. ASSUME UNCHANGED vars PROVE KeepsUse
    BY <1>2, <2>6, OtherUse DEF vars, owner
  <2> QED
    BY <1>2, <2>1, <2>2, <2>3, <2>4, <2>5, <2>6 DEF Next, Tick
<1>3. IInv /\ LockInv /\ [Next]_vars => LockInv' /\ [Use!Next]_(Use!vars)
  BY <1>2 DEF KeepsUse
<1> QED
  BY <1>1, <1>3, Invariance, PTL DEF Spec, Use!Spec
=============================================================================
