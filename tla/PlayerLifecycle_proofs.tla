----------------------- MODULE PlayerLifecycle_proofs -----------------------
(***************************************************************************)
(* Proofs that the safety properties of PlayerLifecycle hold for any       *)
(* number of roles, slots, connections and pool threads.                   *)
(***************************************************************************)
EXTENDS PlayerLifecycle, TLAPS

\* The points of a handler at which its thread holds the player's lock, and
\* those at which it holds online_players_mutex_.
Holding  == {"enter_world", "enter_online", "offline", "unmap", "free", "unlock"}
Visiting == {"each", "each_lock"}

\* A thread at such a point holds its player's lock, and a lock is held by a
\* thread at such a point only.
HolderInv ==
  /\ \A t \in Thread : pc[t] \in Holding => ptr[t] \in Slot /\ holder[ptr[t]] = t
  /\ \A s \in Slot : holder[s] # None =>
       pc[holder[s]] \in Holding /\ ptr[holder[s]] = s

\* ForEachPlayer holds online_players_mutex_ throughout, so that the roles it
\* has yet to visit stay in online_players_.
VisitInv ==
  /\ \A t \in Thread : pc[t] \in Visiting <=> on_holder = t
  /\ \A t \in Thread : pc[t] \in Visiting => todo[t] \subseteq online

\* Which thread can be where, and with what.
PointInv ==
  /\ \A t \in Thread :
       pc[t] \in {"enter_lock", "rpc", "logout", "command", "task"} => ptr[t] \in Slot
  /\ \A t \in Thread :
       pc[t] \in {"enter_lock", "enter_world", "enter_online"} => t = "master"
  /\ \A t \in Thread : pc[t] \in {"task", "offline"} => t \in Worker
  /\ pc["master"] = "enter_lock" => arg["master"] \in Role

\* The role of slot s is mapped to s.
Mapped(s) == xid[s] \in Role /\ rolemap[xid[s]] = s

\* An active slot is mapped and not in the pool.
ActiveInv == \A s \in Slot : active[s] => Mapped(s) /\ s \notin available

\* A slot that was just allocated is as the pool left it, but for its role.
FreshInv ==
  \A t \in Thread : pc[t] = "enter_lock" =>
    /\ xid[ptr[t]] = None /\ rolemap[arg[t]] = ptr[t]
    /\ ~active[ptr[t]] /\ ~offline[ptr[t]]
    /\ ptr[t] \notin available

\* A slot stays mapped from its initialisation to UnmapPlayer.
MappedInv ==
  \A t \in Thread :
    pc[t] \in {"enter_world", "enter_online", "offline", "unmap"} => Mapped(ptr[t])

\* Before InsertPlayer and after RemovePlayer a slot is inactive and
\* not yet back in the pool.
GoneInv ==
  \A t \in Thread : pc[t] \in {"enter_world", "offline", "unmap", "free"} =>
    ~active[ptr[t]] /\ ptr[t] \notin available

\* A player that is entering is not offline, and becomes active.
NormalInv ==
  \A t \in Thread : /\ pc[t] = "enter_world" => ~offline[ptr[t]]
                    /\ pc[t] = "enter_online" => active[ptr[t]]

\* When the role of a slot is in online_players_.
OnlineInv ==
  \A t \in Thread :
    /\ pc[t] \in {"enter_world", "enter_online", "unmap"} => xid[ptr[t]] \notin online
    /\ pc[t] = "offline" => xid[ptr[t]] \in online

\* No role is mapped to a slot that is about to be freed.
FreeInv == \A t \in Thread : pc[t] = "free" => \A r \in Role : rolemap[r] # ptr[t]

\* The player that ForEachPlayer waits for is mapped and in online_players_.
VisitedInv ==
  \A t \in Thread : pc[t] = "each_lock" =>
    ptr[t] \in Slot /\ Mapped(ptr[t]) /\ xid[ptr[t]] \in online

\* The inductive invariant.
IInv == /\ TypeOK /\ HolderInv /\ VisitInv /\ PointInv
        /\ ActiveInv /\ FreshInv /\ MappedInv /\ GoneInv /\ NormalInv
        /\ OnlineInv /\ FreeInv /\ VisitedInv
        /\ MapMatchesPlayer /\ OnlineMatchesManager /\ PoolClean
        /\ NoSlotLost /\ OfflineWillLeave

-----------------------------------------------------------------------------
(* Every step preserves the invariant *)

\* AllocLockedPlayer up to Lock().
LEMMA EnterAllocStep ==
  ASSUME NEW r \in Role, IInv, EnterAlloc(r)
  PROVE  IInv'
<1> USE NoneAssumption, WorkerAssumption, BoundAssumption
    DEF IInv, Thread, EnterAlloc, player, Goto
<1>1. TypeOK'
  BY DEF TypeOK, HolderInv, Holding, PointInv, MappedInv, Mapped
<1>2. HolderInv'
  BY DEF TypeOK, HolderInv, Holding, PointInv
<1>3. VisitInv'
  BY DEF TypeOK, VisitInv, Visiting
<1>4. PointInv'
  BY DEF TypeOK, PointInv, HolderInv, Holding
<1>5. ActiveInv'
  BY DEF TypeOK, ActiveInv, Mapped, HolderInv, Holding, PointInv, MappedInv,
         GoneInv, FreshInv
<1>6. FreshInv'
  BY DEF TypeOK, FreshInv, PoolClean, HolderInv, Holding, PointInv,
         MappedInv, Mapped, FreeInv, GoneInv, ActiveInv
<1>7. MappedInv'
  BY DEF TypeOK, MappedInv, Mapped, HolderInv, Holding, PointInv, FreshInv,
         ActiveInv, FreeInv
<1>8. GoneInv'
  BY DEF TypeOK, GoneInv, HolderInv, Holding, PointInv, FreshInv, ActiveInv,
         PoolClean
<1>9. NormalInv'
  BY DEF TypeOK, NormalInv, HolderInv, Holding, PointInv, FreshInv, GoneInv,
         ActiveInv
<1>10. OnlineInv'
  BY DEF TypeOK, OnlineInv, HolderInv, Holding, PointInv, MappedInv, Mapped,
         FreshInv, ActiveInv, OnlineMatchesManager, At, GoneInv
<1>11. FreeInv'
  BY DEF TypeOK, FreeInv, HolderInv, Holding, PointInv, MappedInv, Mapped,
         GoneInv, MapMatchesPlayer, At, FreshInv
<1>12. VisitedInv'
  BY DEF TypeOK, VisitedInv, VisitInv, Visiting, Mapped, HolderInv, Holding,
         PointInv, OnlineInv, OnlineMatchesManager, FreshInv, FreeInv
<1>13. MapMatchesPlayer'
  BY DEF TypeOK, MapMatchesPlayer, At, FreshInv, PointInv, MappedInv,
         Mapped, FreeInv, GoneInv, PoolClean, HolderInv, Holding
<1>14. OnlineMatchesManager'
  BY DEF TypeOK, OnlineMatchesManager, At, HolderInv, Holding, PointInv,
         FreshInv, MappedInv, Mapped, ActiveInv, OnlineInv, FreeInv,
         GoneInv, NormalInv
<1>15. PoolClean'
  BY DEF TypeOK, PoolClean, HolderInv, Holding, PointInv, ActiveInv,
         GoneInv, FreshInv, FreeInv, MapMatchesPlayer
<1>16. NoSlotLost'
  BY DEF TypeOK, NoSlotLost, At, ActiveInv, GoneInv, HolderInv, Holding,
         PointInv, FreshInv
<1>17. OfflineWillLeave'
  BY DEF TypeOK, OfflineWillLeave, At, ActiveInv, Mapped, NormalInv,
         GoneInv, FreshInv, HolderInv, Holding, PointInv
<1> QED
  BY <1>1, <1>2, <1>3, <1>4, <1>5, <1>6, <1>7, <1>8, <1>9,
     <1>10, <1>11, <1>12, <1>13, <1>14, <1>15, <1>16, <1>17 DEF IInv

\* Lock() and the initialisation of the player.
LEMMA EnterLockStep ==
  ASSUME NEW ok \in BOOLEAN, NEW l \in Link, NEW m \in Master,
         IInv, EnterLock(ok, l, m)
  PROVE  IInv'
<1> USE NoneAssumption, WorkerAssumption, BoundAssumption
    DEF IInv, Thread, EnterLock, index, Goto
<1>1. TypeOK'
  BY DEF TypeOK, HolderInv, Holding, PointInv, MappedInv, Mapped
<1>2. HolderInv'
  BY DEF TypeOK, HolderInv, Holding, PointInv
<1>3. VisitInv'
  BY DEF TypeOK, VisitInv, Visiting
<1>4. PointInv'
  BY DEF TypeOK, PointInv, HolderInv, Holding
<1>5. ActiveInv'
  BY DEF TypeOK, ActiveInv, Mapped, HolderInv, Holding, PointInv, MappedInv,
         GoneInv, FreshInv
<1>6. FreshInv'
  BY DEF TypeOK, FreshInv, PoolClean, HolderInv, Holding, PointInv,
         MappedInv, Mapped, FreeInv, GoneInv, ActiveInv
<1>7. MappedInv'
  BY DEF TypeOK, MappedInv, Mapped, HolderInv, Holding, PointInv, FreshInv,
         ActiveInv, FreeInv
<1>8. GoneInv'
  BY DEF TypeOK, GoneInv, HolderInv, Holding, PointInv, FreshInv, ActiveInv,
         PoolClean
<1>9. NormalInv'
  BY DEF TypeOK, NormalInv, HolderInv, Holding, PointInv, FreshInv, GoneInv,
         ActiveInv
<1>10. OnlineInv'
  BY DEF TypeOK, OnlineInv, HolderInv, Holding, PointInv, MappedInv, Mapped,
         FreshInv, ActiveInv, OnlineMatchesManager, At, GoneInv
<1>11. FreeInv'
  BY DEF TypeOK, FreeInv, HolderInv, Holding, PointInv, MappedInv, Mapped,
         GoneInv, MapMatchesPlayer, At, FreshInv
<1>12. VisitedInv'
  BY DEF TypeOK, VisitedInv, VisitInv, Visiting, Mapped, HolderInv, Holding,
         PointInv, OnlineInv, OnlineMatchesManager, FreshInv, FreeInv
<1>13. MapMatchesPlayer'
  BY DEF TypeOK, MapMatchesPlayer, At, FreshInv, PointInv, MappedInv,
         Mapped, FreeInv, GoneInv, PoolClean, HolderInv, Holding
<1>14. OnlineMatchesManager'
  BY DEF TypeOK, OnlineMatchesManager, At, HolderInv, Holding, PointInv,
         FreshInv, MappedInv, Mapped, ActiveInv, OnlineInv, FreeInv,
         GoneInv, NormalInv
<1>15. PoolClean'
  BY DEF TypeOK, PoolClean, HolderInv, Holding, PointInv, ActiveInv,
         GoneInv, FreshInv, FreeInv, MapMatchesPlayer
<1>16. NoSlotLost'
  BY DEF TypeOK, NoSlotLost, At, ActiveInv, GoneInv, HolderInv, Holding,
         PointInv, FreshInv
<1>17. OfflineWillLeave'
  BY DEF TypeOK, OfflineWillLeave, At, ActiveInv, Mapped, NormalInv,
         GoneInv, FreshInv, HolderInv, Holding, PointInv
<1> QED
  BY <1>1, <1>2, <1>3, <1>4, <1>5, <1>6, <1>7, <1>8, <1>9,
     <1>10, <1>11, <1>12, <1>13, <1>14, <1>15, <1>16, <1>17 DEF IInv

\* A login that fails.
LEMMA EnterFailStep ==
  ASSUME IInv, EnterFail
  PROVE  IInv'
<1> USE NoneAssumption, WorkerAssumption, BoundAssumption
    DEF IInv, Thread, EnterFail, player, index, Goto
<1>1. TypeOK'
  BY DEF TypeOK, HolderInv, Holding, PointInv, MappedInv, Mapped
<1>2. HolderInv'
  BY DEF TypeOK, HolderInv, Holding, PointInv
<1>3. VisitInv'
  BY DEF TypeOK, VisitInv, Visiting
<1>4. PointInv'
  BY DEF TypeOK, PointInv, HolderInv, Holding
<1>5. ActiveInv'
  BY DEF TypeOK, ActiveInv, Mapped, HolderInv, Holding, PointInv, MappedInv,
         GoneInv, FreshInv
<1>6. FreshInv'
  BY DEF TypeOK, FreshInv, PoolClean, HolderInv, Holding, PointInv,
         MappedInv, Mapped, FreeInv, GoneInv, ActiveInv
<1>7. MappedInv'
  BY DEF TypeOK, MappedInv, Mapped, HolderInv, Holding, PointInv, FreshInv,
         ActiveInv, FreeInv
<1>8. GoneInv'
  BY DEF TypeOK, GoneInv, HolderInv, Holding, PointInv, FreshInv, ActiveInv,
         PoolClean
<1>9. NormalInv'
  BY DEF TypeOK, NormalInv, HolderInv, Holding, PointInv, FreshInv, GoneInv,
         ActiveInv
<1>10. OnlineInv'
  BY DEF TypeOK, OnlineInv, HolderInv, Holding, PointInv, MappedInv, Mapped,
         FreshInv, ActiveInv, OnlineMatchesManager, At, GoneInv
<1>11. FreeInv'
  BY DEF TypeOK, FreeInv, HolderInv, Holding, PointInv, MappedInv, Mapped,
         GoneInv, MapMatchesPlayer, At, FreshInv
<1>12. VisitedInv'
  BY DEF TypeOK, VisitedInv, VisitInv, Visiting, Mapped, HolderInv, Holding,
         PointInv, OnlineInv, OnlineMatchesManager, FreshInv, FreeInv
<1>13. MapMatchesPlayer'
  BY DEF TypeOK, MapMatchesPlayer, At, FreshInv, PointInv, MappedInv,
         Mapped, FreeInv, GoneInv, PoolClean, HolderInv, Holding
<1>14. OnlineMatchesManager'
  BY DEF TypeOK, OnlineMatchesManager, At, HolderInv, Holding, PointInv,
         FreshInv, MappedInv, Mapped, ActiveInv, OnlineInv, FreeInv,
         GoneInv, NormalInv
<1>15. PoolClean'
  BY DEF TypeOK, PoolClean, HolderInv, Holding, PointInv, ActiveInv,
         GoneInv, FreshInv, FreeInv, MapMatchesPlayer
<1>16. NoSlotLost'
  BY DEF TypeOK, NoSlotLost, At, ActiveInv, GoneInv, HolderInv, Holding,
         PointInv, FreshInv
<1>17. OfflineWillLeave'
  BY DEF TypeOK, OfflineWillLeave, At, ActiveInv, Mapped, NormalInv,
         GoneInv, FreshInv, HolderInv, Holding, PointInv
<1> QED
  BY <1>1, <1>2, <1>3, <1>4, <1>5, <1>6, <1>7, <1>8, <1>9,
     <1>10, <1>11, <1>12, <1>13, <1>14, <1>15, <1>16, <1>17 DEF IInv

\* A login that leaves its slot behind.
LEMMA EnterRedirectFailStep ==
  ASSUME IInv, EnterRedirectFail
  PROVE  IInv'
<1> USE NoneAssumption, WorkerAssumption, BoundAssumption
    DEF IInv, Thread, EnterRedirectFail, player, Goto
<1>1. TypeOK'
  BY DEF TypeOK, HolderInv, Holding, PointInv, MappedInv, Mapped
<1>2. HolderInv'
  BY DEF TypeOK, HolderInv, Holding, PointInv
<1>3. VisitInv'
  BY DEF TypeOK, VisitInv, Visiting
<1>4. PointInv'
  BY DEF TypeOK, PointInv, HolderInv, Holding
<1>5. ActiveInv'
  BY DEF TypeOK, ActiveInv, Mapped, HolderInv, Holding, PointInv, MappedInv,
         GoneInv, FreshInv
<1>6. FreshInv'
  BY DEF TypeOK, FreshInv, PoolClean, HolderInv, Holding, PointInv,
         MappedInv, Mapped, FreeInv, GoneInv, ActiveInv
<1>7. MappedInv'
  BY DEF TypeOK, MappedInv, Mapped, HolderInv, Holding, PointInv, FreshInv,
         ActiveInv, FreeInv
<1>8. GoneInv'
  BY DEF TypeOK, GoneInv, HolderInv, Holding, PointInv, FreshInv, ActiveInv,
         PoolClean
<1>9. NormalInv'
  BY DEF TypeOK, NormalInv, HolderInv, Holding, PointInv, FreshInv, GoneInv,
         ActiveInv
<1>10. OnlineInv'
  BY DEF TypeOK, OnlineInv, HolderInv, Holding, PointInv, MappedInv, Mapped,
         FreshInv, ActiveInv, OnlineMatchesManager, At, GoneInv
<1>11. FreeInv'
  BY DEF TypeOK, FreeInv, HolderInv, Holding, PointInv, MappedInv, Mapped,
         GoneInv, MapMatchesPlayer, At, FreshInv
<1>12. VisitedInv'
  BY DEF TypeOK, VisitedInv, VisitInv, Visiting, Mapped, HolderInv, Holding,
         PointInv, OnlineInv, OnlineMatchesManager, FreshInv, FreeInv
<1>13. MapMatchesPlayer'
  BY DEF TypeOK, MapMatchesPlayer, At, FreshInv, PointInv, MappedInv,
         Mapped, FreeInv, GoneInv, PoolClean, HolderInv, Holding
<1>14. OnlineMatchesManager'
  BY DEF TypeOK, OnlineMatchesManager, At, HolderInv, Holding, PointInv,
         FreshInv, MappedInv, Mapped, ActiveInv, OnlineInv, FreeInv,
         GoneInv, NormalInv
<1>15. PoolClean'
  BY DEF TypeOK, PoolClean, HolderInv, Holding, PointInv, ActiveInv,
         GoneInv, FreshInv, FreeInv, MapMatchesPlayer
<1>16. NoSlotLost'
  BY DEF TypeOK, NoSlotLost, At, ActiveInv, GoneInv, HolderInv, Holding,
         PointInv, FreshInv
<1>17. OfflineWillLeave'
  BY DEF TypeOK, OfflineWillLeave, At, ActiveInv, Mapped, NormalInv,
         GoneInv, FreshInv, HolderInv, Holding, PointInv
<1> QED
  BY <1>1, <1>2, <1>3, <1>4, <1>5, <1>6, <1>7, <1>8, <1>9,
     <1>10, <1>11, <1>12, <1>13, <1>14, <1>15, <1>16, <1>17 DEF IInv

\* InsertPlayer and SetActive.
LEMMA EnterWorldStep ==
  ASSUME IInv, EnterWorld
  PROVE  IInv'
<1> USE NoneAssumption, WorkerAssumption, BoundAssumption
    DEF IInv, Thread, EnterWorld, index, Goto
<1>1. TypeOK'
  BY DEF TypeOK, HolderInv, Holding, PointInv, MappedInv, Mapped
<1>2. HolderInv'
  BY DEF TypeOK, HolderInv, Holding, PointInv
<1>3. VisitInv'
  BY DEF TypeOK, VisitInv, Visiting
<1>4. PointInv'
  BY DEF TypeOK, PointInv, HolderInv, Holding
<1>5. ActiveInv'
  BY DEF TypeOK, ActiveInv, Mapped, HolderInv, Holding, PointInv, MappedInv,
         GoneInv, FreshInv
<1>6. FreshInv'
  BY DEF TypeOK, FreshInv, PoolClean, HolderInv, Holding, PointInv,
         MappedInv, Mapped, FreeInv, GoneInv, ActiveInv
<1>7. MappedInv'
  BY DEF TypeOK, MappedInv, Mapped, HolderInv, Holding, PointInv, FreshInv,
         ActiveInv, FreeInv
<1>8. GoneInv'
  BY DEF TypeOK, GoneInv, HolderInv, Holding, PointInv, FreshInv, ActiveInv,
         PoolClean
<1>9. NormalInv'
  BY DEF TypeOK, NormalInv, HolderInv, Holding, PointInv, FreshInv, GoneInv,
         ActiveInv
<1>10. OnlineInv'
  BY DEF TypeOK, OnlineInv, HolderInv, Holding, PointInv, MappedInv, Mapped,
         FreshInv, ActiveInv, OnlineMatchesManager, At, GoneInv
<1>11. FreeInv'
  BY DEF TypeOK, FreeInv, HolderInv, Holding, PointInv, MappedInv, Mapped,
         GoneInv, MapMatchesPlayer, At, FreshInv
<1>12. VisitedInv'
  BY DEF TypeOK, VisitedInv, VisitInv, Visiting, Mapped, HolderInv, Holding,
         PointInv, OnlineInv, OnlineMatchesManager, FreshInv, FreeInv
<1>13. MapMatchesPlayer'
  BY DEF TypeOK, MapMatchesPlayer, At, FreshInv, PointInv, MappedInv,
         Mapped, FreeInv, GoneInv, PoolClean, HolderInv, Holding
<1>14. OnlineMatchesManager'
  BY DEF TypeOK, OnlineMatchesManager, At, HolderInv, Holding, PointInv,
         FreshInv, MappedInv, Mapped, ActiveInv, OnlineInv, FreeInv,
         GoneInv, NormalInv
<1>15. PoolClean'
  BY DEF TypeOK, PoolClean, HolderInv, Holding, PointInv, ActiveInv,
         GoneInv, FreshInv, FreeInv, MapMatchesPlayer
<1>16. NoSlotLost'
  BY DEF TypeOK, NoSlotLost, At, ActiveInv, GoneInv, HolderInv, Holding,
         PointInv, FreshInv
<1>17. OfflineWillLeave'
  BY DEF TypeOK, OfflineWillLeave, At, ActiveInv, Mapped, NormalInv,
         GoneInv, FreshInv, HolderInv, Holding, PointInv
<1> QED
  BY <1>1, <1>2, <1>3, <1>4, <1>5, <1>6, <1>7, <1>8, <1>9,
     <1>10, <1>11, <1>12, <1>13, <1>14, <1>15, <1>16, <1>17 DEF IInv

\* The role is added to online_players_.
LEMMA EnterOnlineStep ==
  ASSUME IInv, EnterOnline
  PROVE  IInv'
<1> USE NoneAssumption, WorkerAssumption, BoundAssumption
    DEF IInv, Thread, EnterOnline, player, Goto
<1>1. TypeOK'
  BY DEF TypeOK, HolderInv, Holding, PointInv, MappedInv, Mapped
<1>2. HolderInv'
  BY DEF TypeOK, HolderInv, Holding, PointInv
<1>3. VisitInv'
  BY DEF TypeOK, VisitInv, Visiting
<1>4. PointInv'
  BY DEF TypeOK, PointInv, HolderInv, Holding
<1>5. ActiveInv'
  BY DEF TypeOK, ActiveInv, Mapped, HolderInv, Holding, PointInv, MappedInv,
         GoneInv, FreshInv
<1>6. FreshInv'
  BY DEF TypeOK, FreshInv, PoolClean, HolderInv, Holding, PointInv,
         MappedInv, Mapped, FreeInv, GoneInv, ActiveInv
<1>7. MappedInv'
  BY DEF TypeOK, MappedInv, Mapped, HolderInv, Holding, PointInv, FreshInv,
         ActiveInv, FreeInv
<1>8. GoneInv'
  BY DEF TypeOK, GoneInv, HolderInv, Holding, PointInv, FreshInv, ActiveInv,
         PoolClean
<1>9. NormalInv'
  BY DEF TypeOK, NormalInv, HolderInv, Holding, PointInv, FreshInv, GoneInv,
         ActiveInv
<1>10. OnlineInv'
  BY DEF TypeOK, OnlineInv, HolderInv, Holding, PointInv, MappedInv, Mapped,
         FreshInv, ActiveInv, OnlineMatchesManager, At, GoneInv
<1>11. FreeInv'
  BY DEF TypeOK, FreeInv, HolderInv, Holding, PointInv, MappedInv, Mapped,
         GoneInv, MapMatchesPlayer, At, FreshInv
<1>12. VisitedInv'
  BY DEF TypeOK, VisitedInv, VisitInv, Visiting, Mapped, HolderInv, Holding,
         PointInv, OnlineInv, OnlineMatchesManager, FreshInv, FreeInv
<1>13. MapMatchesPlayer'
  BY DEF TypeOK, MapMatchesPlayer, At, FreshInv, PointInv, MappedInv,
         Mapped, FreeInv, GoneInv, PoolClean, HolderInv, Holding
<1>14. OnlineMatchesManager'
  BY DEF TypeOK, OnlineMatchesManager, At, HolderInv, Holding, PointInv,
         FreshInv, MappedInv, Mapped, ActiveInv, OnlineInv, FreeInv,
         GoneInv, NormalInv
<1>15. PoolClean'
  BY DEF TypeOK, PoolClean, HolderInv, Holding, PointInv, ActiveInv,
         GoneInv, FreshInv, FreeInv, MapMatchesPlayer
<1>16. NoSlotLost'
  BY DEF TypeOK, NoSlotLost, At, ActiveInv, GoneInv, HolderInv, Holding,
         PointInv, FreshInv
<1>17. OfflineWillLeave'
  BY DEF TypeOK, OfflineWillLeave, At, ActiveInv, Mapped, NormalInv,
         GoneInv, FreshInv, HolderInv, Holding, PointInv
<1> QED
  BY <1>1, <1>2, <1>3, <1>4, <1>5, <1>6, <1>7, <1>8, <1>9,
     <1>10, <1>11, <1>12, <1>13, <1>14, <1>15, <1>16, <1>17 DEF IInv

\* LogoutTask takes the player out of its world.
LEMMA TaskRemoveStep ==
  ASSUME NEW w \in Worker, IInv, TaskRemove(w)
  PROVE  IInv'
<1> USE NoneAssumption, WorkerAssumption, BoundAssumption
    DEF IInv, Thread, TaskRemove, LockFree, index, Goto
<1>1. TypeOK'
  BY DEF TypeOK, HolderInv, Holding, PointInv, MappedInv, Mapped
<1>2. HolderInv'
  BY DEF TypeOK, HolderInv, Holding, PointInv
<1>3. VisitInv'
  BY DEF TypeOK, VisitInv, Visiting
<1>4. PointInv'
  BY DEF TypeOK, PointInv, HolderInv, Holding
<1>5. ActiveInv'
  BY DEF TypeOK, ActiveInv, Mapped, HolderInv, Holding, PointInv, MappedInv,
         GoneInv, FreshInv
<1>6. FreshInv'
  BY DEF TypeOK, FreshInv, PoolClean, HolderInv, Holding, PointInv,
         MappedInv, Mapped, FreeInv, GoneInv, ActiveInv
<1>7. MappedInv'
  BY DEF TypeOK, MappedInv, Mapped, HolderInv, Holding, PointInv, FreshInv,
         ActiveInv, FreeInv
<1>8. GoneInv'
  BY DEF TypeOK, GoneInv, HolderInv, Holding, PointInv, FreshInv, ActiveInv,
         PoolClean
<1>9. NormalInv'
  BY DEF TypeOK, NormalInv, HolderInv, Holding, PointInv, FreshInv, GoneInv,
         ActiveInv
<1>10. OnlineInv'
  BY DEF TypeOK, OnlineInv, HolderInv, Holding, PointInv, MappedInv, Mapped,
         FreshInv, ActiveInv, OnlineMatchesManager, At, GoneInv
<1>11. FreeInv'
  BY DEF TypeOK, FreeInv, HolderInv, Holding, PointInv, MappedInv, Mapped,
         GoneInv, MapMatchesPlayer, At, FreshInv
<1>12. VisitedInv'
  BY DEF TypeOK, VisitedInv, VisitInv, Visiting, Mapped, HolderInv, Holding,
         PointInv, OnlineInv, OnlineMatchesManager, FreshInv, FreeInv
<1>13. MapMatchesPlayer'
  BY DEF TypeOK, MapMatchesPlayer, At, FreshInv, PointInv, MappedInv,
         Mapped, FreeInv, GoneInv, PoolClean, HolderInv, Holding
<1>14. OnlineMatchesManager'
  BY DEF TypeOK, OnlineMatchesManager, At, HolderInv, Holding, PointInv,
         FreshInv, MappedInv, Mapped, ActiveInv, OnlineInv, FreeInv,
         GoneInv, NormalInv
<1>15. PoolClean'
  BY DEF TypeOK, PoolClean, HolderInv, Holding, PointInv, ActiveInv,
         GoneInv, FreshInv, FreeInv, MapMatchesPlayer
<1>16. NoSlotLost'
  <2> SUFFICES ASSUME NEW s \in Slot \ (available \cup leaked)
               PROVE  \/ active'[s]
                      \/ \E t \in Thread : At(t, {"enter_lock", "enter_world",
                                          "offline", "unmap", "free"}, s)'
    BY DEF NoSlotLost, At
  <2>1. CASE s = ptr[w]
    <3>1. At(w, {"offline"}, s)'
      BY <2>1 DEF At, TypeOK
    <3> QED
      BY <3>1 DEF At
  <2>2. CASE s # ptr[w] /\ active[s]
    BY <2>2 DEF TypeOK
  <2>3. CASE s # ptr[w] /\ ~active[s]
    <3>1. PICK t \in Thread :
            At(t, {"enter_lock", "enter_world", "offline", "unmap", "free"}, s)
      BY <2>3 DEF NoSlotLost
    <3>2. pc'[t] = pc[t]
      BY <3>1, <2>3 DEF At, TypeOK
    <3> QED
      BY <3>1, <3>2 DEF At
  <2> QED
    BY <2>1, <2>2, <2>3
<1>17. OfflineWillLeave'
  BY DEF TypeOK, OfflineWillLeave, At, ActiveInv, Mapped, NormalInv,
         GoneInv, FreshInv, HolderInv, Holding, PointInv
<1> QED
  BY <1>1, <1>2, <1>3, <1>4, <1>5, <1>6, <1>7, <1>8, <1>9,
     <1>10, <1>11, <1>12, <1>13, <1>14, <1>15, <1>16, <1>17 DEF IInv

\* LogoutTask takes the role out of online_players_.
LEMMA TaskOfflineStep ==
  ASSUME NEW w \in Worker, IInv, TaskOffline(w)
  PROVE  IInv'
<1> USE NoneAssumption, WorkerAssumption, BoundAssumption
    DEF IInv, Thread, TaskOffline, player, Goto
<1>1. TypeOK'
  BY DEF TypeOK, HolderInv, Holding, PointInv, MappedInv, Mapped
<1>2. HolderInv'
  BY DEF TypeOK, HolderInv, Holding, PointInv
<1>3. VisitInv'
  BY DEF TypeOK, VisitInv, Visiting
<1>4. PointInv'
  BY DEF TypeOK, PointInv, HolderInv, Holding
<1>5. ActiveInv'
  BY DEF TypeOK, ActiveInv, Mapped, HolderInv, Holding, PointInv, MappedInv,
         GoneInv, FreshInv
<1>6. FreshInv'
  BY DEF TypeOK, FreshInv, PoolClean, HolderInv, Holding, PointInv,
         MappedInv, Mapped, FreeInv, GoneInv, ActiveInv
<1>7. MappedInv'
  BY DEF TypeOK, MappedInv, Mapped, HolderInv, Holding, PointInv, FreshInv,
         ActiveInv, FreeInv
<1>8. GoneInv'
  BY DEF TypeOK, GoneInv, HolderInv, Holding, PointInv, FreshInv, ActiveInv,
         PoolClean
<1>9. NormalInv'
  BY DEF TypeOK, NormalInv, HolderInv, Holding, PointInv, FreshInv, GoneInv,
         ActiveInv
<1>10. OnlineInv'
  <2> SUFFICES ASSUME NEW t \in Thread
               PROVE  /\ pc'[t] \in {"enter_world", "enter_online", "unmap"} =>
                           xid[ptr[t]] \notin online'
                      /\ pc'[t] = "offline" => xid[ptr[t]] \in online'
    BY DEF OnlineInv
  <2>1. CASE t = w
    BY <2>1 DEF TypeOK
  <2>2. CASE t # w
    <3>1. pc'[t] = pc[t]
      BY <2>2 DEF TypeOK
    <3>2. ASSUME pc[t] = "offline" PROVE xid[ptr[t]] # xid[ptr[w]]
      <4>1. /\ holder[ptr[t]] = t /\ Mapped(ptr[t])
            /\ holder[ptr[w]] = w /\ Mapped(ptr[w])
        BY <3>2 DEF HolderInv, Holding, MappedInv
      <4> QED
        BY <2>2, <4>1 DEF Mapped
    <3> QED
      BY <3>1, <3>2 DEF OnlineInv
  <2> QED
    BY <2>1, <2>2
<1>11. FreeInv'
  BY DEF TypeOK, FreeInv, HolderInv, Holding, PointInv, MappedInv, Mapped,
         GoneInv, MapMatchesPlayer, At, FreshInv
<1>12. VisitedInv'
  BY DEF TypeOK, VisitedInv, VisitInv, Visiting, Mapped, HolderInv, Holding,
         PointInv, OnlineInv, OnlineMatchesManager, FreshInv, FreeInv
<1>13. MapMatchesPlayer'
  BY DEF TypeOK, MapMatchesPlayer, At, FreshInv, PointInv, MappedInv,
         Mapped, FreeInv, GoneInv, PoolClean, HolderInv, Holding
<1>14. OnlineMatchesManager'
  <2>1. ptr[w] \in Slot /\ Mapped(ptr[w]) /\ ~active[ptr[w]]
    BY DEF HolderInv, Holding, MappedInv, GoneInv
  <2>2. ASSUME NEW r \in online'
        PROVE  /\ rolemap[r] # None /\ xid[rolemap[r]] = r
               /\ \/ active[rolemap[r]]
                  \/ \E v \in Worker : At(v, {"offline"}, rolemap[r])'
    <3>1. r \in online /\ r # xid[ptr[w]]
      BY <2>2
    <3>2. CASE active[rolemap[r]]
      BY <3>1, <3>2 DEF OnlineMatchesManager
    <3>3. CASE ~active[rolemap[r]]
      <4>1. PICK v \in Worker : At(v, {"offline"}, rolemap[r])
        BY <3>1, <3>3 DEF OnlineMatchesManager
      <4>2. v # w
        BY <3>1, <4>1 DEF OnlineMatchesManager, At
      <4>3. pc'[v] = pc[v]
        BY <4>2 DEF TypeOK
      <4>4. At(v, {"offline"}, rolemap[r])'
        BY <4>1, <4>3 DEF At
      <4> QED
        BY <3>1, <4>4 DEF OnlineMatchesManager
    <3> QED
      BY <3>2, <3>3
  <2>3. ASSUME NEW s \in Slot, active[s]
        PROVE  xid[s] \in online' \/ At("master", {"enter_online"}, s)'
    <3>1. xid[s] # xid[ptr[w]]
      BY <2>1, <2>3 DEF ActiveInv, Mapped
    <3>2. pc'["master"] = pc["master"]
      BY DEF TypeOK
    <3> QED
      BY <2>3, <3>1, <3>2 DEF OnlineMatchesManager, At
  <2> QED
    BY <2>2, <2>3 DEF OnlineMatchesManager
<1>15. PoolClean'
  BY DEF TypeOK, PoolClean, HolderInv, Holding, PointInv, ActiveInv,
         GoneInv, FreshInv, FreeInv, MapMatchesPlayer
<1>16. NoSlotLost'
  BY DEF TypeOK, NoSlotLost, At, ActiveInv, GoneInv, HolderInv, Holding,
         PointInv, FreshInv
<1>17. OfflineWillLeave'
  BY DEF TypeOK, OfflineWillLeave, At, ActiveInv, Mapped, NormalInv,
         GoneInv, FreshInv, HolderInv, Holding, PointInv
<1> QED
  BY <1>1, <1>2, <1>3, <1>4, <1>5, <1>6, <1>7, <1>8, <1>9,
     <1>10, <1>11, <1>12, <1>13, <1>14, <1>15, <1>16, <1>17 DEF IInv

\* UnmapPlayer.
LEMMA UnmapStep ==
  ASSUME NEW t \in Thread, IInv, Unmap(t)
  PROVE  IInv'
<1> USE NoneAssumption, WorkerAssumption, BoundAssumption
    DEF IInv, Thread, Unmap, player, Goto
<1>1. TypeOK'
  BY DEF TypeOK, HolderInv, Holding, PointInv, MappedInv, Mapped
<1>2. HolderInv'
  BY DEF TypeOK, HolderInv, Holding, PointInv
<1>3. VisitInv'
  BY DEF TypeOK, VisitInv, Visiting
<1>4. PointInv'
  BY DEF TypeOK, PointInv, HolderInv, Holding
<1>5. ActiveInv'
  BY DEF TypeOK, ActiveInv, Mapped, HolderInv, Holding, PointInv, MappedInv,
         GoneInv, FreshInv
<1>6. FreshInv'
  BY DEF TypeOK, FreshInv, PoolClean, HolderInv, Holding, PointInv,
         MappedInv, Mapped, FreeInv, GoneInv, ActiveInv
<1>7. MappedInv'
  BY DEF TypeOK, MappedInv, Mapped, HolderInv, Holding, PointInv, FreshInv,
         ActiveInv, FreeInv
<1>8. GoneInv'
  BY DEF TypeOK, GoneInv, HolderInv, Holding, PointInv, FreshInv, ActiveInv,
         PoolClean
<1>9. NormalInv'
  BY DEF TypeOK, NormalInv, HolderInv, Holding, PointInv, FreshInv, GoneInv,
         ActiveInv
<1>10. OnlineInv'
  BY DEF TypeOK, OnlineInv, HolderInv, Holding, PointInv, MappedInv, Mapped,
         FreshInv, ActiveInv, OnlineMatchesManager, At, GoneInv
<1>11. FreeInv'
  BY DEF TypeOK, FreeInv, HolderInv, Holding, PointInv, MappedInv, Mapped,
         GoneInv, MapMatchesPlayer, At, FreshInv
<1>12. VisitedInv'
  BY DEF TypeOK, VisitedInv, VisitInv, Visiting, Mapped, HolderInv, Holding,
         PointInv, OnlineInv, OnlineMatchesManager, FreshInv, FreeInv
<1>13. MapMatchesPlayer'
  BY DEF TypeOK, MapMatchesPlayer, At, FreshInv, PointInv, MappedInv,
         Mapped, FreeInv, GoneInv, PoolClean, HolderInv, Holding
<1>14. OnlineMatchesManager'
  BY DEF TypeOK, OnlineMatchesManager, At, HolderInv, Holding, PointInv,
         FreshInv, MappedInv, Mapped, ActiveInv, OnlineInv, FreeInv,
         GoneInv, NormalInv
<1>15. PoolClean'
  BY DEF TypeOK, PoolClean, HolderInv, Holding, PointInv, ActiveInv,
         GoneInv, FreshInv, FreeInv, MapMatchesPlayer
<1>16. NoSlotLost'
  BY DEF TypeOK, NoSlotLost, At, ActiveInv, GoneInv, HolderInv, Holding,
         PointInv, FreshInv
<1>17. OfflineWillLeave'
  BY DEF TypeOK, OfflineWillLeave, At, ActiveInv, Mapped, NormalInv,
         GoneInv, FreshInv, HolderInv, Holding, PointInv
<1> QED
  BY <1>1, <1>2, <1>3, <1>4, <1>5, <1>6, <1>7, <1>8, <1>9,
     <1>10, <1>11, <1>12, <1>13, <1>14, <1>15, <1>16, <1>17 DEF IInv

\* Release and return to the pool.
LEMMA FreeStep ==
  ASSUME NEW t \in Thread, IInv, Free(t)
  PROVE  IInv'
<1> USE NoneAssumption, WorkerAssumption, BoundAssumption
    DEF IInv, Thread, Free, Goto
<1>1. TypeOK'
  BY DEF TypeOK, HolderInv, Holding, PointInv, MappedInv, Mapped
<1>2. HolderInv'
  BY DEF TypeOK, HolderInv, Holding, PointInv
<1>3. VisitInv'
  BY DEF TypeOK, VisitInv, Visiting
<1>4. PointInv'
  BY DEF TypeOK, PointInv, HolderInv, Holding
<1>5. ActiveInv'
  BY DEF TypeOK, ActiveInv, Mapped, HolderInv, Holding, PointInv, MappedInv,
         GoneInv, FreshInv
<1>6. FreshInv'
  BY DEF TypeOK, FreshInv, PoolClean, HolderInv, Holding, PointInv,
         MappedInv, Mapped, FreeInv, GoneInv, ActiveInv
<1>7. MappedInv'
  BY DEF TypeOK, MappedInv, Mapped, HolderInv, Holding, PointInv, FreshInv,
         ActiveInv, FreeInv
<1>8. GoneInv'
  BY DEF TypeOK, GoneInv, HolderInv, Holding, PointInv, FreshInv, ActiveInv,
         PoolClean
<1>9. NormalInv'
  BY DEF TypeOK, NormalInv, HolderInv, Holding, PointInv, FreshInv, GoneInv,
         ActiveInv
<1>10. OnlineInv'
  BY DEF TypeOK, OnlineInv, HolderInv, Holding, PointInv, MappedInv, Mapped,
         FreshInv, ActiveInv, OnlineMatchesManager, At, GoneInv
<1>11. FreeInv'
  BY DEF TypeOK, FreeInv, HolderInv, Holding, PointInv, MappedInv, Mapped,
         GoneInv, MapMatchesPlayer, At, FreshInv
<1>12. VisitedInv'
  BY DEF TypeOK, VisitedInv, VisitInv, Visiting, Mapped, HolderInv, Holding,
         PointInv, OnlineInv, OnlineMatchesManager, FreshInv, FreeInv
<1>13. MapMatchesPlayer'
  BY DEF TypeOK, MapMatchesPlayer, At, FreshInv, PointInv, MappedInv,
         Mapped, FreeInv, GoneInv, PoolClean, HolderInv, Holding
<1>14. OnlineMatchesManager'
  BY DEF TypeOK, OnlineMatchesManager, At, HolderInv, Holding, PointInv,
         FreshInv, MappedInv, Mapped, ActiveInv, OnlineInv, FreeInv,
         GoneInv, NormalInv
<1>15. PoolClean'
  BY DEF TypeOK, PoolClean, HolderInv, Holding, PointInv, ActiveInv,
         GoneInv, FreshInv, FreeInv, MapMatchesPlayer
<1>16. NoSlotLost'
  BY DEF TypeOK, NoSlotLost, At, ActiveInv, GoneInv, HolderInv, Holding,
         PointInv, FreshInv
<1>17. OfflineWillLeave'
  BY DEF TypeOK, OfflineWillLeave, At, ActiveInv, Mapped, NormalInv,
         GoneInv, FreshInv, HolderInv, Holding, PointInv
<1> QED
  BY <1>1, <1>2, <1>3, <1>4, <1>5, <1>6, <1>7, <1>8, <1>9,
     <1>10, <1>11, <1>12, <1>13, <1>14, <1>15, <1>16, <1>17 DEF IInv

\* The lock guard goes out of scope.
LEMMA UnlockStep ==
  ASSUME NEW t \in Thread, IInv, Unlock(t)
  PROVE  IInv'
<1> USE NoneAssumption, WorkerAssumption, BoundAssumption
    DEF IInv, Thread, Unlock, player, index, Return
<1>1. TypeOK'
  BY DEF TypeOK, HolderInv, Holding, PointInv, MappedInv, Mapped
<1>2. HolderInv'
  BY DEF TypeOK, HolderInv, Holding, PointInv
<1>3. VisitInv'
  BY DEF TypeOK, VisitInv, Visiting
<1>4. PointInv'
  BY DEF TypeOK, PointInv, HolderInv, Holding
<1>5. ActiveInv'
  BY DEF TypeOK, ActiveInv, Mapped, HolderInv, Holding, PointInv, MappedInv,
         GoneInv, FreshInv
<1>6. FreshInv'
  BY DEF TypeOK, FreshInv, PoolClean, HolderInv, Holding, PointInv,
         MappedInv, Mapped, FreeInv, GoneInv, ActiveInv
<1>7. MappedInv'
  BY DEF TypeOK, MappedInv, Mapped, HolderInv, Holding, PointInv, FreshInv,
         ActiveInv, FreeInv
<1>8. GoneInv'
  BY DEF TypeOK, GoneInv, HolderInv, Holding, PointInv, FreshInv, ActiveInv,
         PoolClean
<1>9. NormalInv'
  BY DEF TypeOK, NormalInv, HolderInv, Holding, PointInv, FreshInv, GoneInv,
         ActiveInv
<1>10. OnlineInv'
  BY DEF TypeOK, OnlineInv, HolderInv, Holding, PointInv, MappedInv, Mapped,
         FreshInv, ActiveInv, OnlineMatchesManager, At, GoneInv
<1>11. FreeInv'
  BY DEF TypeOK, FreeInv, HolderInv, Holding, PointInv, MappedInv, Mapped,
         GoneInv, MapMatchesPlayer, At, FreshInv
<1>12. VisitedInv'
  BY DEF TypeOK, VisitedInv, VisitInv, Visiting, Mapped, HolderInv, Holding,
         PointInv, OnlineInv, OnlineMatchesManager, FreshInv, FreeInv
<1>13. MapMatchesPlayer'
  BY DEF TypeOK, MapMatchesPlayer, At, FreshInv, PointInv, MappedInv,
         Mapped, FreeInv, GoneInv, PoolClean, HolderInv, Holding
<1>14. OnlineMatchesManager'
  BY DEF TypeOK, OnlineMatchesManager, At, HolderInv, Holding, PointInv,
         FreshInv, MappedInv, Mapped, ActiveInv, OnlineInv, FreeInv,
         GoneInv, NormalInv
<1>15. PoolClean'
  BY DEF TypeOK, PoolClean, HolderInv, Holding, PointInv, ActiveInv,
         GoneInv, FreshInv, FreeInv, MapMatchesPlayer
<1>16. NoSlotLost'
  BY DEF TypeOK, NoSlotLost, At, ActiveInv, GoneInv, HolderInv, Holding,
         PointInv, FreshInv
<1>17. OfflineWillLeave'
  BY DEF TypeOK, OfflineWillLeave, At, ActiveInv, Mapped, NormalInv,
         GoneInv, FreshInv, HolderInv, Holding, PointInv
<1> QED
  BY <1>1, <1>2, <1>3, <1>4, <1>5, <1>6, <1>7, <1>8, <1>9,
     <1>10, <1>11, <1>12, <1>13, <1>14, <1>15, <1>16, <1>17 DEF IInv

-----------------------------------------------------------------------------
(* The remaining steps allocate, lock, map and free nothing *)

\* The points at which a thread has a slot of its own.
Owning == Holding \cup {"enter_lock"}

\* A step that leaves the slots' identity, ObjQuery's map, the pool and the
\* locks alone, in which no thread gets a slot of its own or gives it up, and
\* only active players go offline or send a call.
Light ==
  /\ UNCHANGED <<identity, index, holder>>
  /\ \A t \in Thread :
       \/ pc'[t] = pc[t] /\ ptr'[t] = ptr[t] /\ arg'[t] = arg[t]
       \/ pc[t] \notin Owning /\ pc'[t] \notin Owning
  /\ \A s \in Slot : ~active[s] => offline'[s] = offline[s] /\ calls'[s] = calls[s]

\* Such a step preserves the parts of the invariant about slots.
LEMMA LightStep ==
  ASSUME IInv, TypeOK', Light
  PROVE  /\ HolderInv' /\ ActiveInv' /\ FreshInv' /\ MappedInv' /\ GoneInv'
         /\ NormalInv' /\ OnlineInv' /\ FreeInv' /\ MapMatchesPlayer'
         /\ OnlineMatchesManager' /\ PoolClean' /\ NoSlotLost'
<1> USE NoneAssumption, WorkerAssumption
    DEF IInv, Thread, Light, identity, index, Owning, Holding
<1>1. HolderInv'
  <2>1. ASSUME NEW t \in Thread, pc'[t] \in Holding
        PROVE  ptr'[t] \in Slot /\ holder'[ptr'[t]] = t
    <3>1. pc[t] \in Holding /\ ptr'[t] = ptr[t]
      BY <2>1
    <3> QED
      BY <3>1 DEF HolderInv
  <2>2. ASSUME NEW s \in Slot, holder'[s] # None
        PROVE  pc'[holder'[s]] \in Holding /\ ptr'[holder'[s]] = s
    <3>1. holder[s] \in Thread /\ pc[holder[s]] \in Holding /\ ptr[holder[s]] = s
      BY <2>2 DEF HolderInv, TypeOK
    <3> QED
      BY <3>1
  <2> QED
    BY <2>1, <2>2 DEF HolderInv
<1>2. ActiveInv'
  BY DEF TypeOK, ActiveInv, Mapped
<1>3. FreshInv'
  BY DEF TypeOK, FreshInv, PointInv
<1>4. MappedInv'
  BY DEF TypeOK, MappedInv, Mapped
<1>5. GoneInv'
  BY DEF TypeOK, GoneInv
<1>6. NormalInv'
  BY DEF TypeOK, NormalInv, GoneInv, HolderInv
<1>7. OnlineInv'
  BY DEF TypeOK, OnlineInv
<1>8. FreeInv'
  BY DEF TypeOK, FreeInv
<1>9. MapMatchesPlayer'
  BY DEF TypeOK, MapMatchesPlayer, At
<1>10. OnlineMatchesManager'
  <2>1. ASSUME NEW r \in online'
        PROVE  /\ rolemap'[r] # None /\ xid'[rolemap'[r]] = r
               /\ \/ active'[rolemap'[r]]
                  \/ \E w \in Worker : At(w, {"offline"}, rolemap[r])'
    <3>1. CASE active[rolemap[r]]
      BY <2>1, <3>1 DEF OnlineMatchesManager
    <3>2. CASE ~active[rolemap[r]]
      <4>1. PICK w \in Worker : At(w, {"offline"}, rolemap[r])
        BY <2>1, <3>2 DEF OnlineMatchesManager
      <4>2. At(w, {"offline"}, rolemap[r])'
        BY <4>1 DEF At
      <4> QED
        BY <2>1, <4>2 DEF OnlineMatchesManager
    <3> QED
      BY <3>1, <3>2
  <2>2. ASSUME NEW s \in Slot, active'[s]
        PROVE  xid'[s] \in online' \/ At("master", {"enter_online"}, s)'
    BY <2>2 DEF OnlineMatchesManager, At
  <2> QED
    BY <2>1, <2>2 DEF OnlineMatchesManager
<1>11. PoolClean'
  BY DEF TypeOK, PoolClean
<1>12. NoSlotLost'
  BY DEF TypeOK, NoSlotLost, At
<1> QED
  BY <1>1, <1>2, <1>3, <1>4, <1>5, <1>6, <1>7, <1>8, <1>9, <1>10, <1>11, <1>12

\* What a logout, or the callback of a logout save, does to an active player.
Served(s) ==
  /\ offline' \in [Slot -> BOOLEAN]
  /\ calls' \in [Slot -> 0 .. MaxCalls]
  /\ tasks' \in [Role -> 0 .. MaxTasks]
  /\ \A u \in Slot \ {s} : offline'[u] = offline[u] /\ calls'[u] = calls[u]
  /\ \A r \in Role : tasks[r] > 0 => tasks'[r] > 0
  /\ calls'[s] > 0 \/ tasks'[xid[s]] > 0

\* PlayerLogout and LogoutSaveDataCB leave a call or a task behind.
LEMMA ServedStep ==
  ASSUME IInv, NEW s \in Slot, active[s],
         LogoutWithSave(s) \/ LogoutWithoutSave(s) \/ LogoutSaveDataCB(s)
  PROVE  Served(s)
<1> USE BoundAssumption DEF IInv, TypeOK
<1>0. xid[s] \in Role
  BY DEF ActiveInv, Mapped
<1>1. ASSUME AddTask(xid[s])
      PROVE  /\ tasks' \in [Role -> 0 .. MaxTasks] /\ tasks'[xid[s]] > 0
             /\ \A r \in Role : tasks[r] > 0 => tasks'[r] > 0
  BY <1>0, <1>1 DEF AddTask, Add
<1>2. CASE LogoutWithoutSave(s)
  BY <1>0, <1>1, <1>2 DEF LogoutWithoutSave, Served
<1>3. CASE LogoutWithSave(s) /\ ~LogoutWithoutSave(s)
  <2>1. /\ calls' = [calls EXCEPT ![s] = Add(@, 1, MaxCalls)]
        /\ offline' = [offline EXCEPT ![s] = TRUE] /\ tasks' = tasks
    BY <1>3 DEF LogoutWithSave
  <2>2. calls' \in [Slot -> 0 .. MaxCalls] /\ calls'[s] > 0
    BY <2>1 DEF Add
  <2> QED
    BY <2>1, <2>2 DEF Served
<1>4. CASE LogoutSaveDataCB(s)
  <2>1. calls' \in [Slot -> 0 .. MaxCalls]
        /\ \A u \in Slot \ {s} : calls'[u] = calls[u]
    BY <1>4 DEF LogoutSaveDataCB, Subtract
  <2> QED
    BY <1>0, <1>1, <1>4, <2>1 DEF LogoutSaveDataCB, Served
<1> QED
  BY <1>2, <1>3, <1>4

\* A step of some thread but no worker that serves slot s, with the thread's
\* own change already known to keep the invariant.
LEMMA ServedLeaves ==
  ASSUME IInv, NEW s \in Slot, active[s], Served(s), UNCHANGED <<xid, active>>,
         \A w \in Worker : pc'[w] = pc[w] /\ ptr'[w] = ptr[w]
  PROVE  OfflineWillLeave'
<1> SUFFICES ASSUME NEW u \in Slot, active[u], offline'[u]
             PROVE  \/ calls'[u] > 0
                    \/ tasks'[xid[u]] > 0
                    \/ \E w \in Worker : At(w, {"task"}, u)'
  BY DEF OfflineWillLeave, At
<1>1. CASE u = s
  BY <1>1 DEF Served
<1>2. CASE u # s
  <2>1. offline[u] /\ calls'[u] = calls[u] /\ xid[u] \in Role
    BY <1>2 DEF Served, IInv, ActiveInv, Mapped
  <2>2. CASE \E w \in Worker : At(w, {"task"}, u)
    BY <2>2 DEF At
  <2> QED
    BY <2>1, <2>2 DEF IInv, OfflineWillLeave, Served
<1> QED
  BY <1>1, <1>2

\* The handlers of the master and the link thread that end a player's
\* session or complete its save, and return.
LEMMA ServeReturnStep ==
  ASSUME IInv, NEW t \in {"master", "link"}, pc[t] \in {"rpc", "logout", "command"},
         active[ptr[t]], Served(ptr[t]), Return(t),
         UNCHANGED <<identity, index, holder, on_holder, aborted>>
  PROVE  IInv'
<1> USE NoneAssumption, WorkerAssumption DEF IInv, Return, identity, index
<1>0. ptr[t] \in Slot /\ t \in Thread /\ t \notin Worker
  BY DEF PointInv, Thread
<1>1. TypeOK'
  BY <1>0 DEF TypeOK, Served
<1>2. Light
  BY <1>0 DEF Light, Owning, Holding, Served, TypeOK
<1>3. VisitInv'
  BY <1>0 DEF VisitInv, Visiting, TypeOK
<1>4. PointInv'
  BY <1>0 DEF PointInv, Thread, TypeOK
<1>5. VisitedInv'
  BY <1>0 DEF VisitedInv, Mapped, TypeOK
<1>6. OfflineWillLeave'
  BY <1>0, ServedLeaves DEF TypeOK, Thread
<1> QED
  BY <1>1, <1>2, <1>3, <1>4, <1>5, <1>6, LightStep DEF IInv

\* A kick-out callback.
LEMMA KickoutStep ==
  ASSUME IInv, NEW t \in {"link", "master", "main"}, Kickout(t)
  PROVE  IInv'
<1> USE NoneAssumption, WorkerAssumption
    DEF IInv, Kickout, LockFree, Goto, identity, index
<1>0. ptr[t] \in Slot /\ t \in Thread /\ t \notin Worker
  BY DEF VisitedInv, Thread
<1>a. Served(ptr[t])
  BY <1>0, ServedStep
<1>1. TypeOK'
  BY <1>0, <1>a DEF TypeOK, Served
<1>2. Light
  BY <1>0, <1>a DEF Light, Owning, Holding, Served, TypeOK
<1>3. VisitInv'
  BY <1>0 DEF VisitInv, Visiting, TypeOK
<1>4. PointInv'
  BY <1>0 DEF PointInv, Thread, TypeOK
<1>5. VisitedInv'
  BY <1>0 DEF VisitedInv, Mapped, TypeOK
<1>6. OfflineWillLeave'
  BY <1>0, <1>a, ServedLeaves DEF TypeOK, Thread
<1> QED
  BY <1>1, <1>2, <1>3, <1>4, <1>5, <1>6, LightStep DEF IInv

\* A heartbeat that times a save out or logs the player out.
LEMMA HeartbeatStep ==
  ASSUME IInv, NEW s \in Slot, HeartbeatTimeout(s) \/ HeartbeatLogout(s)
  PROVE  IInv'
<1> USE DEF IInv, HeartbeatTimeout, HeartbeatLogout, identity, index, thread
<1>a. Served(s)
  BY ServedStep
<1>1. TypeOK'
  BY <1>a DEF TypeOK, Served
<1>2. Light
  BY <1>a DEF Light, Served
<1>3. VisitInv' /\ PointInv' /\ VisitedInv'
  BY DEF VisitInv, PointInv, VisitedInv, Mapped
<1>4. OfflineWillLeave'
  BY <1>a, ServedLeaves
<1> QED
  BY <1>1, <1>2, <1>3, <1>4, LightStep DEF IInv


\* The steps that only move a thread: no player and no task changes, and no
\* worker leaves or reaches LogoutTask's wait for the lock.
LEMMA MoveStep ==
  ASSUME IInv, TypeOK', Light, UNCHANGED <<offline, calls, tasks>>,
         \A w \in Worker : At(w, {"task"}, ptr[w]) /\ active[ptr[w]] =>
                             pc'[w] = pc[w] /\ ptr'[w] = ptr[w],
         VisitInv', PointInv', VisitedInv'
  PROVE  IInv'
<1>1. OfflineWillLeave'
  BY DEF IInv, OfflineWillLeave, At, Light, identity
<1> QED
  BY <1>1, LightStep DEF IInv

\* FindPlayerFromMan, for a handler that will lock the player.
LEMMA FindStep ==
  ASSUME IInv, NEW t \in {"master", "link"}, NEW r \in Role,
         NEW l \in {"rpc", "logout", "command"}, Find(t, r, l)
  PROVE  IInv'
<1> USE NoneAssumption, WorkerAssumption DEF IInv, Find, Goto, player, index
<1>0. rolemap[r] \in Slot /\ t \in Thread /\ t \notin Worker
  BY DEF TypeOK, Thread
<1>1. TypeOK'
  BY <1>0 DEF TypeOK
<1>2. Light
  BY <1>0 DEF Light, identity, Owning, Holding, TypeOK
<1>3. VisitInv'
  BY <1>0 DEF VisitInv, Visiting, TypeOK
<1>4. PointInv'
  BY <1>0 DEF PointInv, Thread, TypeOK
<1>5. VisitedInv'
  BY <1>0 DEF VisitedInv, Mapped, TypeOK
<1> QED
  BY <1>0, <1>1, <1>2, <1>3, <1>4, <1>5, MoveStep DEF TypeOK, Thread

\* A handler that returns without touching the player.
LEMMA IgnoreStep ==
  ASSUME IInv, NEW t \in Thread, NEW l \in {"rpc", "logout", "command", "task"},
         Ignore(t, l), l = "task" => ~active[ptr[t]]
  PROVE  IInv'
<1> USE NoneAssumption, WorkerAssumption
    DEF IInv, Ignore, LockFree, Return, player, index
<1>1. TypeOK'
  BY DEF TypeOK
<1>2. Light
  BY DEF Light, identity, Owning, Holding, TypeOK
<1>3. VisitInv'
  BY DEF VisitInv, Visiting, TypeOK
<1>4. PointInv'
  BY DEF PointInv, Thread, TypeOK
<1>5. VisitedInv'
  BY DEF VisitedInv, Mapped, TypeOK
<1>6. ASSUME NEW w \in Worker, At(w, {"task"}, ptr[w]), active[ptr[w]]
      PROVE  pc'[w] = pc[w] /\ ptr'[w] = ptr[w]
  BY <1>6 DEF At, TypeOK, Thread
<1> QED
  BY <1>1, <1>2, <1>3, <1>4, <1>5, <1>6, MoveStep

\* ForEachPlayer takes online_players_mutex_.
LEMMA ForEachBeginStep ==
  ASSUME IInv, NEW t \in {"link", "master", "main"},
         NEW c \in Link \cup Master \cup {None}, ForEachBegin(t, c)
  PROVE  IInv'
<1> USE NoneAssumption, WorkerAssumption DEF IInv, ForEachBegin, Goto, player, index
<1>0. t \in Thread /\ t \notin Worker /\ t # None
  BY DEF Thread
<1>1. TypeOK'
  BY <1>0 DEF TypeOK
<1>2. Light
  BY <1>0 DEF Light, identity, Owning, Holding, TypeOK
<1>3. VisitInv'
  BY <1>0 DEF VisitInv, Visiting, TypeOK, Thread
<1>4. PointInv'
  BY <1>0 DEF PointInv, Thread, TypeOK
<1>5. VisitedInv'
  BY <1>0 DEF VisitedInv, Mapped, TypeOK
<1> QED
  BY <1>0, <1>1, <1>2, <1>3, <1>4, <1>5, MoveStep DEF TypeOK, Thread

\* ForEachPlayer looks the next role up.
LEMMA ForEachFindStep ==
  ASSUME IInv, NEW t \in {"link", "master", "main"}, NEW r \in Role, ForEachFind(t, r)
  PROVE  IInv'
<1> USE NoneAssumption, WorkerAssumption DEF IInv, ForEachFind, Goto, player, index
<1>0. t \in Thread /\ t \notin Worker
  BY DEF Thread
<1>a. r \in online
  BY <1>0 DEF VisitInv, Visiting
<1>b. rolemap[r] \in Slot /\ xid[rolemap[r]] = r
  BY <1>a DEF OnlineMatchesManager, TypeOK
<1>1. TypeOK'
  BY <1>0, <1>b DEF TypeOK
<1>2. Light
  BY <1>0 DEF Light, identity, Owning, Holding, TypeOK
<1>3. VisitInv'
  BY <1>0 DEF VisitInv, Visiting, TypeOK
<1>4. PointInv'
  BY <1>0 DEF PointInv, Thread, TypeOK
<1>5. VisitedInv'
  BY <1>0, <1>a, <1>b DEF VisitedInv, Mapped, TypeOK
<1> QED
  BY <1>0, <1>1, <1>2, <1>3, <1>4, <1>5, MoveStep DEF TypeOK, Thread

\* The callback leaves the player alone.
LEMMA KickoutSkipStep ==
  ASSUME IInv, NEW t \in {"link", "master", "main"}, KickoutSkip(t)
  PROVE  IInv'
<1> USE NoneAssumption, WorkerAssumption
    DEF IInv, KickoutSkip, LockFree, Goto, player, index
<1>0. t \in Thread /\ t \notin Worker
  BY DEF Thread
<1>1. TypeOK'
  BY <1>0 DEF TypeOK
<1>2. Light
  BY <1>0 DEF Light, identity, Owning, Holding, TypeOK
<1>3. VisitInv'
  BY <1>0 DEF VisitInv, Visiting, TypeOK
<1>4. PointInv'
  BY <1>0 DEF PointInv, Thread, TypeOK
<1>5. VisitedInv'
  BY <1>0 DEF VisitedInv, Mapped, TypeOK
<1> QED
  BY <1>0, <1>1, <1>2, <1>3, <1>4, <1>5, MoveStep DEF TypeOK, Thread

\* ForEachPlayer gives online_players_mutex_ back.
LEMMA ForEachEndStep ==
  ASSUME IInv, NEW t \in {"link", "master", "main"}, ForEachEnd(t)
  PROVE  IInv'
<1> USE NoneAssumption, WorkerAssumption DEF IInv, ForEachEnd, Return, player, index
<1>0. t \in Thread /\ t \notin Worker /\ None \notin Thread
  BY DEF Thread
<1>1. TypeOK'
  BY <1>0 DEF TypeOK
<1>2. Light
  BY <1>0 DEF Light, identity, Owning, Holding, TypeOK
<1>3. VisitInv'
  BY <1>0 DEF VisitInv, Visiting, TypeOK
<1>4. PointInv'
  BY <1>0 DEF PointInv, Thread, TypeOK
<1>5. VisitedInv'
  BY <1>0 DEF VisitedInv, Mapped, TypeOK
<1> QED
  BY <1>0, <1>1, <1>2, <1>3, <1>4, <1>5, MoveStep DEF TypeOK, Thread

\* A pool thread takes a LogoutTask.
LEMMA TaskFindStep ==
  ASSUME IInv, NEW w \in Worker, NEW r \in Role, TaskFind(w, r)
  PROVE  IInv'
<1> USE NoneAssumption, WorkerAssumption, BoundAssumption
    DEF IInv, TaskFind, Goto, player, index, thread
<1>0. w \in Thread
  BY DEF Thread
<1>a. tasks' \in [Role -> 0 .. MaxTasks] /\ \A q \in Role \ {r} : tasks'[q] = tasks[q]
  BY DEF Subtract, TypeOK
<1>1. TypeOK'
  BY <1>0, <1>a DEF TypeOK
<1>2. Light
  BY <1>0 DEF Light, identity, Owning, Holding, TypeOK
<1>3. VisitInv'
  BY <1>0 DEF VisitInv, Visiting, TypeOK
<1>4. PointInv'
  BY <1>0 DEF PointInv, Thread, TypeOK
<1>5. VisitedInv'
  BY <1>0 DEF VisitedInv, Mapped, TypeOK
<1>6. OfflineWillLeave'
  <2> SUFFICES ASSUME NEW s \in Slot, active[s], offline[s]
               PROVE  \/ calls[s] > 0
                      \/ tasks'[xid[s]] > 0
                      \/ \E v \in Worker : At(v, {"task"}, s)'
    BY DEF OfflineWillLeave, At
  <2>0. xid[s] \in Role /\ rolemap[xid[s]] = s
    BY DEF ActiveInv, Mapped
  <2>1. CASE xid[s] = r
    <3>1. At(w, {"task"}, s)'
      BY <1>0, <2>0, <2>1 DEF At, TypeOK
    <3> QED
      BY <3>1
  <2>2. CASE xid[s] # r
    <3>1. tasks'[xid[s]] = tasks[xid[s]]
      BY <1>a, <2>0, <2>2
    <3>2. ASSUME NEW v \in Worker, At(v, {"task"}, s)
          PROVE  At(v, {"task"}, s)'
      <4>1. v # w /\ v \in Thread
        BY <3>2 DEF At, Thread
      <4>2. pc'[v] = pc[v] /\ ptr'[v] = ptr[v]
        BY <1>0, <4>1 DEF TypeOK
      <4> QED
        BY <3>2, <4>2 DEF At
    <3> QED
      BY <3>1, <3>2 DEF OfflineWillLeave
  <2> QED
    BY <2>1, <2>2
<1> QED
  BY <1>1, <1>2, <1>3, <1>4, <1>5, <1>6, LightStep DEF IInv

\* An assertion stops the process; stuttering.
LEMMA AbortStep ==
  ASSUME IInv, aborted' \in {None, "logout_task", "timed_lock"},
         UNCHANGED <<player, index, holder, on_holder, tasks, thread>>
  PROVE  IInv'
<1> USE DEF IInv, player, index, thread
<1>1. TypeOK'
  BY DEF TypeOK
<1>2. Light
  BY DEF Light, identity
<1>3. VisitInv' /\ PointInv' /\ VisitedInv'
  BY DEF VisitInv, PointInv, VisitedInv, Mapped
<1> QED
  BY <1>1, <1>2, <1>3, MoveStep

-----------------------------------------------------------------------------
(* The invariant and what follows from it *)

\* The server starts with every slot in the pool and every thread idle.
LEMMA InitStep == Init => IInv
<1> SUFFICES ASSUME Init PROVE IInv
  OBVIOUS
<1> USE NoneAssumption DEF Init, Thread
<1>1. TypeOK
  BY BoundAssumption DEF TypeOK
<1>2. HolderInv /\ VisitInv /\ PointInv
  BY DEF HolderInv, Holding, VisitInv, Visiting, PointInv
<1>3. ActiveInv /\ FreshInv /\ MappedInv /\ GoneInv
  BY DEF ActiveInv, FreshInv, MappedInv, GoneInv
<1>4. NormalInv /\ OnlineInv /\ FreeInv /\ VisitedInv
  BY DEF NormalInv, OnlineInv, FreeInv, VisitedInv
<1>5. MapMatchesPlayer /\ OnlineMatchesManager /\ PoolClean
  BY DEF MapMatchesPlayer, OnlineMatchesManager, PoolClean
<1>6. NoSlotLost /\ OfflineWillLeave
  BY DEF NoSlotLost, OfflineWillLeave
<1> QED
  BY <1>1, <1>2, <1>3, <1>4, <1>5, <1>6 DEF IInv

\* The steps of a login.
LEMMA EnterStep == ASSUME IInv, Enter PROVE IInv'
BY EnterAllocStep, EnterLockStep, EnterFailStep, EnterRedirectFailStep,
   EnterWorldStep, EnterOnlineStep DEF Enter

\* The handlers of the master and link threads.
LEMMA HandleStep == ASSUME IInv, Handle PROVE IInv'
<1> USE DEF Handle
<1>1. ASSUME NEW r \in Role, FindForRpc(r) \/ FindForLogout(r) \/ FindForCommand(r)
      PROVE  IInv'
  BY <1>1, FindStep DEF FindForRpc, FindForLogout, FindForCommand
<1>2. ASSUME RpcResponse \/ RpcSaveError
      PROVE  IInv'
  <2>1. /\ pc["master"] = "rpc" /\ active[ptr["master"]] /\ Return("master")
        /\ LogoutSaveDataCB(ptr["master"]) \/ LogoutWithoutSave(ptr["master"])
        /\ UNCHANGED <<identity, index, holder, on_holder, aborted>>
    BY <1>2 DEF RpcResponse, RpcSaveError, LockFree
  <2>2. ptr["master"] \in Slot
    BY <2>1 DEF IInv, PointInv, Thread
  <2>3. Served(ptr["master"])
    BY <2>1, <2>2, ServedStep
  <2> QED
    BY <2>1, <2>3, ServeReturnStep
<1>3. ASSUME NEW l \in Link, LinkPlayerLogout(l)
      PROVE  IInv'
  <2>1. /\ pc["link"] = "logout" /\ active[ptr["link"]] /\ Return("link")
        /\ LogoutWithSave(ptr["link"])
        /\ UNCHANGED <<identity, index, holder, on_holder, aborted>>
    BY <1>3 DEF LinkPlayerLogout, LockFree, LogoutAccepts
  <2>2. ptr["link"] \in Slot
    BY <2>1 DEF IInv, PointInv, Thread
  <2>3. Served(ptr["link"])
    BY <2>1, <2>2, ServedStep
  <2> QED
    BY <2>1, <2>3, ServeReturnStep
<1>4. ASSUME NEW l \in Link, NEW n \in 1 .. 2, LongJump(l, n)
      PROVE  IInv'
  <2>1. /\ pc["link"] = "command" /\ active[ptr["link"]] /\ Return("link")
        /\ UNCHANGED <<identity, index, holder, on_holder, aborted>>
    BY <1>4 DEF LongJump, LockFree, CommandAccepts
  <2>2. ptr["link"] \in Slot /\ xid[ptr["link"]] \in Role
    BY <2>1 DEF IInv, PointInv, Thread, ActiveInv, Mapped
  <2>3. /\ tasks' \in [Role -> 0 .. MaxTasks] /\ tasks'[xid[ptr["link"]]] > 0
        /\ \A r \in Role : tasks[r] > 0 => tasks'[r] > 0
    BY <1>4, <2>2, BoundAssumption DEF LongJump, Add, IInv, TypeOK
  <2>4. Served(ptr["link"])
    BY <1>4, <2>2, <2>3 DEF Served, LongJump, IInv, TypeOK
  <2> QED
    BY <2>1, <2>4, ServeReturnStep
<1>5. ASSUME RpcIgnore \/ CommandIgnore \/ \E l \in Link : LinkLogoutReject(l)
      PROVE  IInv'
  BY <1>5, IgnoreStep DEF RpcIgnore, CommandIgnore, LinkLogoutReject, Thread
<1> QED
  BY <1>1, <1>2, <1>3, <1>4, <1>5

\* ForEachPlayer.
LEMMA KickStep ==
  ASSUME IInv, KickBegin \/ \E t \in {"link", "master", "main"} : Kick(t)
  PROVE  IInv'
<1>1. ASSUME KickBegin PROVE IInv'
  BY <1>1, ForEachBeginStep
     DEF KickBegin, LinkDisconnect, MasterDisconnect, StopProcess
<1>2. ASSUME NEW t \in {"link", "master", "main"}, Kick(t) PROVE IInv'
  BY <1>2, ForEachFindStep, KickoutStep, KickoutSkipStep, ForEachEndStep DEF Kick
<1> QED
  BY <1>1, <1>2

\* LogoutTask, up to the removal from online_players_.
LEMMA LogoutStep == ASSUME IInv, NEW w \in Worker, Logout(w) PROVE IInv'
<1>1. ASSUME TaskInactive(w) PROVE IInv'
  BY <1>1, IgnoreStep DEF TaskInactive, Thread
<1>2. ASSUME TaskAssert(w) \/ LockTimeout(w) PROVE IInv'
  BY <1>2, AbortStep DEF TaskAssert, LockTimeout
<1> QED
  BY <1>1, <1>2, TaskFindStep, TaskRemoveStep, TaskOfflineStep DEF Logout

\* Every step of the server keeps the invariant.
LEMMA NextStep == ASSUME IInv, [Next]_vars PROVE IInv'
<1>1. ASSUME NEW t \in Worker \cup {"master"}, Release(t) PROVE IInv'
  BY <1>1, UnmapStep, FreeStep, UnlockStep DEF Release, Thread
<1>2. ASSUME UNCHANGED vars PROVE IInv'
  <2>1. aborted' \in {None, "logout_task", "timed_lock"}
    BY <1>2 DEF vars, IInv, TypeOK
  <2> QED
    BY <1>2, <2>1, AbortStep DEF vars
<1>3. CASE Stopped
  BY <1>2, <1>3 DEF Stopped
<1> QED
  BY <1>1, <1>2, <1>3, EnterStep, HandleStep, KickStep, HeartbeatStep, LogoutStep
     DEF Next

\* The inductive invariant holds in every reachable state.
THEOREM Invariance == Spec => []IInv
<1>1. IInv /\ [Next]_vars => IInv'
  BY NextStep
<1> QED
  BY InitStep, <1>1, PTL DEF Spec

\* Through ObjQuery a role is only ever reached on the slot that carries its
\* id: MapPlayer, UnmapPlayer and Release agree under every interleaving.
THEOREM MapMatches == Spec => []MapMatchesPlayer
<1>1. IInv => MapMatchesPlayer
  BY DEF IInv
<1> QED
  BY Invariance, <1>1, PTL

\* online_players_ and the player manager stay consistent, as the comment at
\* its declaration asks.
THEOREM OnlineMatches == Spec => []OnlineMatchesManager
<1>1. IInv => OnlineMatchesManager
  BY DEF IInv
<1> QED
  BY Invariance, <1>1, PTL

\* ForEachPlayer never dereferences NULL or a player that left.
THEOREM ForEachIsSafe == Spec => []ForEachSafe
<1>1. IInv => ForEachSafe
  BY NoneAssumption DEF IInv, VisitedInv, ForEachSafe
<1> QED
  BY Invariance, <1>1, PTL

\* The assertions of OnlinePlayersChange and FreePlayer never fail.
THEOREM AssertionsHold == Spec => []AssertsHold
<1>1. IInv => AssertsHold
  BY NoneAssumption DEF IInv, OnlineInv, MappedInv, Mapped, AssertsHold
<1> QED
  BY Invariance, <1>1, PTL

\* The pool only holds slots that carry nothing of their last player.
THEOREM PoolIsClean == Spec => []PoolClean
<1>1. IInv => PoolClean
  BY DEF IInv
<1> QED
  BY Invariance, <1>1, PTL

\* Whatever a login or logout runs into, no slot but those of a failed
\* RedirectEnterWorld drops out of circulation.
THEOREM SlotsAreKept == Spec => []NoSlotLost
<1>1. IInv => NoSlotLost
  BY DEF IInv
<1> QED
  BY Invariance, <1>1, PTL

\* A player that is offline always has a save, a task or a worker left that
\* will remove it.
THEOREM OfflineIsRemembered == Spec => []OfflineWillLeave
<1>1. IInv => OfflineWillLeave
  BY DEF IInv
<1> QED
  BY Invariance, <1>1, PTL

\* The types of the players, the slots, the maps and the queues.
THEOREM TypeCorrect == Spec => []TypeOK
<1>1. IInv => TypeOK
  BY DEF IInv
<1>2. QED
  BY <1>1, Invariance, PTL
\* Of threads that wait for each other, one that holds a player and needs
\* online_players_mutex_ closes the circle: the holder of that mutex waits
\* for a player of online_players_, whose own holder needs the mutex too.
LEMMA CircleFound ==
  ASSUME IInv, NEW ts \in SUBSET Thread, \A t \in ts : WaitsFor(t) \in ts,
         NEW u \in ts, pc[u] \in {"enter_online", "offline"}
  PROVE  \E w \in ts : Circular(w)
<1> USE NoneAssumption DEF IInv
<1>0. None \notin Thread
  BY DEF Thread
<1> DEFINE v == on_holder
<1>1. v \in ts /\ v \in Thread /\ v # None
  BY <1>0 DEF WaitsFor
<1>2. pc[v] = "each_lock"
  <2>1. pc[v] \in Visiting
    BY <1>1 DEF VisitInv
  <2> QED
    BY <1>0, <1>1, <2>1 DEF Visiting, WaitsFor
<1> DEFINE x == holder[ptr[v]]
<1>3. ptr[v] \in Slot /\ xid[ptr[v]] \in online
  BY <1>1, <1>2 DEF VisitedInv
<1>4. x \in ts /\ x \in Thread /\ x # None
  BY <1>0, <1>1, <1>2 DEF WaitsFor
<1>5. pc[x] \in Holding /\ ptr[x] = ptr[v]
  BY <1>3, <1>4 DEF HolderInv
<1>6. pc[x] \in {"enter_online", "offline"}
  BY <1>0, <1>4, <1>5 DEF WaitsFor, Holding
<1>7. pc[x] = "offline"
  BY <1>3, <1>4, <1>5, <1>6 DEF OnlineInv
<1> QED
  BY <1>1, <1>2, <1>4, <1>5, <1>7 DEF Circular

\* The server can hang only in the circle that LockTimeout resolves.
THEOREM WaitsAreCircular == Spec => []OnlyCircularWait
<1>1. ASSUME IInv PROVE OnlyCircularWait
  <2> SUFFICES ASSUME NEW ts \in SUBSET Thread, ts # {},
                      \A t \in ts : WaitsFor(t) \in ts
               PROVE  \E w \in ts : Circular(w)
    BY DEF OnlyCircularWait
  <2>0. None \notin Thread
    BY NoneAssumption DEF Thread
  <2>1. PICK t \in ts : TRUE
    OBVIOUS
  <2>2. CASE pc[t] \in {"enter_online", "offline"}
    BY <1>1, <2>2, CircleFound
  <2>3. CASE pc[t] \notin {"enter_online", "offline"}
    <3> DEFINE u == holder[ptr[t]]
    <3>1. pc[t] \in {"enter_lock", "rpc", "logout", "command", "each_lock", "task"}
      BY <2>0, <2>3 DEF WaitsFor
    <3>2. ptr[t] \in Slot
      BY <1>1, <3>1 DEF IInv, PointInv, VisitedInv
    <3>3. u \in ts /\ u \in Thread /\ u # None
      BY <2>0, <3>1 DEF WaitsFor
    <3>4. pc[u] \in Holding
      BY <1>1, <3>2, <3>3 DEF IInv, HolderInv
    <3>5. pc[u] \in {"enter_online", "offline"}
      BY <2>0, <3>3, <3>4 DEF WaitsFor, Holding
    <3> QED
      BY <1>1, <3>3, <3>5, CircleFound
  <2> QED
    BY <2>2, <2>3
<1> QED
  BY Invariance, <1>1, PTL
=============================================================================
