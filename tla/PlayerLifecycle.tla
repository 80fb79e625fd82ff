-------------------------- MODULE PlayerLifecycle --------------------------
(***************************************************************************)
(* Login, logout and removal of players on one game server, across the     *)
(* threads that take part in them:                                         *)
(*   "master"  MasterMsgProcess: PlayerEnterWorld, PlayerChangeMap(Error), *)
(*             RPC responses, loss of a master connection;                 *)
(*   "link"    LinkMsgProcess: logout messages, client commands, loss of a *)
(*             link connection;                                            *)
(*   "main"    StopProcess, which kicks every player when the server stops;*)
(*   Worker    the RunnablePool threads that run LogoutTask.               *)
(* The tick thread needs no state of its own here: a heartbeat is one step *)
(* under the player's lock (ObjectManager.tla models how it is scheduled). *)
(*                                                                         *)
(* A player object is a slot of the player pool.  A thread finds the slot  *)
(* of a role in ObjQuery's map without any lock, and only then locks it:   *)
(* in between the slot may be freed and given to another role.             *)
(***************************************************************************)
EXTENDS Naturals, FiniteSets

CONSTANTS Role, Slot, Link, Master, Worker,
          None,       \* NULL, -1, "nobody"
          MaxTasks,   \* bound of tasks[r]: MaxTasks stands for that many or more
          MaxCalls    \* bound of calls[s], likewise

ASSUME NoneAssumption ==
  /\ None \notin Role /\ None \notin Slot /\ None \notin Link
  /\ None \notin Master /\ None \notin Worker
  /\ None \notin {"master", "link", "main", "logout_task", "timed_lock"}
ASSUME SlotAssumption   == IsFiniteSet(Slot)
ASSUME WorkerAssumption == Worker \cap {"master", "link", "main"} = {}
ASSUME BoundAssumption  == MaxTasks \in Nat \ {0} /\ MaxCalls \in Nat \ {0}

Thread == {"master", "link", "main"} \cup Worker

VARIABLES
  available,  \* slots the allocator may hand out
  rolemap,    \* ObjQuery::s_roleid_mapto_index_
  xid,        \* role_id() of each slot
  active,     \* is_actived_
  offline,    \* state_ == STATE_OFFLINE
  link_id, master_id,
  online,     \* the roles of Gmatrix::online_players_
  leaked,     \* slots RedirectEnterWorld left behind (history)
  holder,     \* thread that holds each player's mutex
  on_holder,  \* thread that holds online_players_mutex_
  calls,      \* unanswered LogoutSaveData calls of each player's RpcClient
  tasks,      \* queued LogoutTasks of each role
  pc, arg, ptr, todo,  \* of each thread: where it is, the role or connection
                       \* it works for, its Player*, the roles left to visit
  aborted     \* the assertion that stopped the process

player  == <<xid, active, offline, link_id, master_id, calls>>
index   == <<available, rolemap, online, leaked>>
thread  == <<pc, arg, ptr, todo>>
vars    == <<player, index, holder, on_holder, tasks, thread, aborted>>

Init ==
  /\ available = Slot
  /\ rolemap   = [r \in Role |-> None]
  /\ xid       = [s \in Slot |-> None]
  /\ active    = [s \in Slot |-> FALSE]
  /\ offline   = [s \in Slot |-> FALSE]
  /\ link_id   = [s \in Slot |-> None]
  /\ master_id = [s \in Slot |-> None]
  /\ online    = {}
  /\ leaked    = {}
  /\ holder    = [s \in Slot |-> None]
  /\ on_holder = None
  /\ calls     = [s \in Slot |-> 0]
  /\ tasks     = [r \in Role |-> 0]
  /\ pc        = [t \in Thread |-> "idle"]
  /\ arg       = [t \in Thread |-> None]
  /\ ptr       = [t \in Thread |-> None]
  /\ todo      = [t \in Thread |-> {}]
  /\ aborted   = None

Running == aborted = None

Goto(t, l) == pc' = [pc EXCEPT ![t] = l]

\* The thread returns to its message loop; its locals die.
Return(t) ==
  /\ pc'   = [pc   EXCEPT ![t] = "idle"]
  /\ arg'  = [arg  EXCEPT ![t] = None]
  /\ ptr'  = [ptr  EXCEPT ![t] = None]
  /\ todo' = [todo EXCEPT ![t] = {}]

-----------------------------------------------------------------------------
(* Player::PlayerLogout, with the player's lock held *)

\* Counting up to a bound that stands for "so many or more": no step is ever
\* disabled by the bound.
Add(n, k, max) == IF n + k <= max THEN n + k ELSE max
Subtract(n, max) == IF n = max THEN {n - 1, n} ELSE {n - 1}

AddTask(r) == tasks' = [tasks EXCEPT ![r] = Add(@, 1, MaxTasks)]

\* LT_DB_SAVE_ERROR, LT_FATAL_ERROR, LT_MASTER_DISCONNECT, LT_CHANGE_MAP:
\* go offline and queue a LogoutTask at once (LogoutWithoutSaveData).
LogoutWithoutSave(s) ==
  /\ offline' = [offline EXCEPT ![s] = TRUE]
  /\ AddTask(xid[s])
  /\ UNCHANGED calls

\* The other types: go offline and ask the master to save the player; the
\* LogoutTask is queued by LogoutSaveDataCB.  When the player's data cannot
\* be packed GetPlayerDataOctetStr logs out again with LT_FATAL_ERROR.
LogoutWithSave(s) ==
  \/ /\ offline' = [offline EXCEPT ![s] = TRUE]
     /\ calls' = [calls EXCEPT ![s] = Add(@, 1, MaxCalls)]
     /\ UNCHANGED tasks
  \/ LogoutWithoutSave(s)

\* Fault: the callback forgets the task.
LogoutSaveDataCBNoTask(s) ==
  /\ calls[s] > 0
  /\ \E n \in Subtract(calls[s], MaxCalls) : calls' = [calls EXCEPT ![s] = n]
  /\ UNCHANGED <<offline, tasks>>

\* LogoutSaveDataCB: with an answer, an error or a timeout alike.
LogoutSaveDataCB(s) ==
  /\ calls[s] > 0
  /\ \E n \in Subtract(calls[s], MaxCalls) : calls' = [calls EXCEPT ![s] = n]
  /\ AddTask(xid[s])
  /\ UNCHANGED offline

identity == <<xid, active, link_id, master_id>>

-----------------------------------------------------------------------------
(* Master thread: a player enters, by login or by change of map *)

\* AllocLockedPlayer up to Lock(): the role is not here, a slot is free, and
\* the role is mapped to it.  The map is only ever extended by this thread,
\* so that the lookup, Alloc and MapPlayer can be one step.
EnterAlloc(r) ==
  /\ Running /\ pc["master"] = "idle"
  /\ rolemap[r] = None
  /\ \E s \in available :
       /\ available' = available \ {s}
       /\ rolemap' = [rolemap EXCEPT ![r] = s]
       /\ ptr' = [ptr EXCEPT !["master"] = s]
  /\ arg' = [arg EXCEPT !["master"] = r]
  /\ Goto("master", "enter_lock")
  /\ UNCHANGED <<player, online, leaked, holder, on_holder, tasks, todo,
                 aborted>>

\* Lock(), InitRuntimeModule (set_xid first of all) and InitPlayerData.
EnterLock(ok, l, m) ==
  LET s == ptr["master"] IN
  /\ Running /\ pc["master"] = "enter_lock"
  /\ holder[s] = None
  /\ holder' = [holder EXCEPT ![s] = "master"]
  /\ xid' = [xid EXCEPT ![s] = arg["master"]]
  /\ link_id' = [link_id EXCEPT ![s] = IF ok THEN l ELSE None]
  /\ master_id' = [master_id EXCEPT ![s] = IF ok THEN m ELSE None]
  /\ Goto("master", IF ok THEN "enter_world" ELSE "unmap")
  /\ UNCHANGED <<active, offline, calls, index, on_holder, tasks, arg, ptr,
                 todo, aborted>>

\* Fault: an error path that unlocks the player without freeing it.
EnterFailUnfreed ==
  /\ Running /\ pc["master"] = "enter_world"
  /\ Goto("master", "unlock")
  /\ UNCHANGED <<player, index, holder, on_holder, tasks, arg, ptr, todo,
                 aborted>>

\* No such world, a bad position, a full map or a failed insertion: every
\* error path but one ends in tidy_up_failure, which frees the player and
\* does not take it out of a world that has refused it (InsertRefused in
\* SpecialWorld, where the planes are).
EnterFail ==
  /\ Running /\ pc["master"] = "enter_world"
  /\ Goto("master", "unmap")
  /\ UNCHANGED <<player, index, holder, on_holder, tasks, arg, ptr, todo,
                 aborted>>

\* The one: RedirectEnterWorld returns early when the player's data cannot
\* be packed; the player is unlocked and stays mapped, inactive.
EnterRedirectFail ==
  /\ Running /\ pc["master"] = "enter_world"
  /\ leaked' = leaked \cup {ptr["master"]}
  /\ Goto("master", "unlock")
  /\ UNCHANGED <<player, available, rolemap, online, holder, on_holder, tasks,
                 arg, ptr, todo, aborted>>

\* InsertPlayer succeeds, then InsertPlayerToMan up to OnlinePlayersChange.
EnterWorld ==
  LET s == ptr["master"] IN
  /\ Running /\ pc["master"] = "enter_world"
  /\ active' = [active EXCEPT ![s] = TRUE]
  /\ Goto("master", "enter_online")
  /\ UNCHANGED <<xid, offline, link_id, master_id, calls, index, holder,
                 on_holder, tasks, arg, ptr, todo, aborted>>

\* OnlinePlayersChange(player, true) under online_players_mutex_; the rest
\* of the handler only sends messages and enters the AOI.
EnterOnline ==
  /\ Running /\ pc["master"] = "enter_online"
  /\ on_holder = None
  /\ online' = online \cup {xid[ptr["master"]]}
  /\ Goto("master", "unlock")
  /\ UNCHANGED <<player, available, rolemap, leaked, holder, on_holder, tasks,
                 arg, ptr, todo, aborted>>

-----------------------------------------------------------------------------
(* Looking a player up, and the handlers that then lock it *)

\* Gmatrix::FindPlayerFromMan; a role that is not mapped ends the handler.
Find(t, r, l) ==
  /\ Running /\ pc[t] = "idle"
  /\ rolemap[r] # None
  /\ arg' = [arg EXCEPT ![t] = r]
  /\ ptr' = [ptr EXCEPT ![t] = rolemap[r]]
  /\ Goto(t, l)
  /\ UNCHANGED <<player, index, holder, on_holder, tasks, todo, aborted>>

FindForRpc(r)     == Find("master", r, "rpc")
FindForLogout(r)  == Find("link", r, "logout")
FindForCommand(r) == Find("link", r, "command")

\* A handler that needs no other lock runs in one step at the moment it has
\* locked the player: lock, IsActived(), body, unlock.
LockFree(t, l) == /\ Running /\ pc[t] = l /\ holder[ptr[t]] = None

\* The handler returns without touching the player.
Ignore(t, l) ==
  /\ LockFree(t, l)
  /\ Return(t)
  /\ UNCHANGED <<player, index, holder, on_holder, tasks, aborted>>

\* RpcMessageProcess: a response to a logout save ...
RpcResponse ==
  LET s == ptr["master"] IN
  /\ LockFree("master", "rpc") /\ active[s]
  /\ LogoutSaveDataCB(s)
  /\ Return("master")
  /\ UNCHANGED <<identity, index, holder, on_holder, aborted>>

\* ... or the third failed heartbeat save in a row (SavePlayerDataCB).
RpcSaveError ==
  LET s == ptr["master"] IN
  /\ LockFree("master", "rpc") /\ active[s]
  /\ LogoutWithoutSave(s)
  /\ Return("master")
  /\ UNCHANGED <<identity, index, holder, on_holder, aborted>>

\* The player is inactive, or the response answers another call.
RpcIgnore == Ignore("master", "rpc")

\* LinkPlayerLogout and RedirectPlayerGSError, from link l: the player must
\* be active and on that link; its id is not looked at again.
LogoutAccepts(s, l) == active[s] /\ link_id[s] = l

LinkPlayerLogout(l) ==
  LET s == ptr["link"] IN
  /\ LockFree("link", "logout") /\ LogoutAccepts(s, l)
  /\ LogoutWithSave(s)
  /\ Return("link")
  /\ UNCHANGED <<identity, index, holder, on_holder, aborted>>

LinkLogoutReject(l) == /\ Ignore("link", "logout")
                       /\ ~LogoutAccepts(ptr["link"], l)

\* C2SGamedataSend looks at the id again.  Of the commands only LongJump to
\* another map matters here: it needs the normal state and logs out with
\* LT_CHANGE_MAP, twice over when the player's data cannot be packed.
CommandAccepts(s, l) ==
  active[s] /\ link_id[s] = l /\ xid[s] = arg["link"] /\ ~offline[s]

LongJump(l, n) ==
  LET s == ptr["link"] IN
  /\ LockFree("link", "command") /\ CommandAccepts(s, l)
  /\ offline' = [offline EXCEPT ![s] = TRUE]
  /\ tasks' = [tasks EXCEPT ![xid[s]] = Add(@, n, MaxTasks)]
  /\ Return("link")
  /\ UNCHANGED <<identity, calls, index, holder, on_holder, aborted>>

\* A rejected command, or one that does not log the player out.
CommandIgnore == Ignore("link", "command")

\* Fault: offline players get no heartbeat at all.
HeartbeatTimeoutOnline(s) ==
  /\ Running /\ active[s] /\ holder[s] = None
  /\ ~offline[s]
  /\ LogoutSaveDataCB(s)
  /\ UNCHANGED <<identity, index, holder, on_holder, thread, aborted>>

\* Tick thread: a heartbeat in which a logout save times out
\* (CheckRpcTimeout, which runs for an offline player too) ...
HeartbeatTimeout(s) ==
  /\ Running /\ active[s] /\ holder[s] = None
  /\ LogoutSaveDataCB(s)
  /\ UNCHANGED <<identity, index, holder, on_holder, thread, aborted>>

\* ... or the third heartbeat save in a row does (LT_DB_SAVE_ERROR), or the
\* data of an online player cannot be packed for one (LT_FATAL_ERROR).
HeartbeatLogout(s) ==
  /\ Running /\ active[s] /\ holder[s] = None
  /\ LogoutWithoutSave(s)
  /\ UNCHANGED <<identity, index, holder, on_holder, thread, aborted>>

-----------------------------------------------------------------------------
(* ForEachPlayer, with one of the three kick-out callbacks *)

\* Fault: the walk over online_players_ without its mutex.
ForEachBeginUnlocked(t, c) ==
  /\ Running /\ pc[t] = "idle"
  /\ arg'  = [arg  EXCEPT ![t] = c]
  /\ todo' = [todo EXCEPT ![t] = online]
  /\ Goto(t, "each")
  /\ UNCHANGED <<player, index, holder, on_holder, tasks, ptr, aborted>>

\* LinkDisconnect(c), MasterDisconnect(c) and StopProcess (c = None): take
\* online_players_mutex_.
ForEachBegin(t, c) ==
  /\ Running /\ pc[t] = "idle"
  /\ on_holder = None
  /\ on_holder' = t
  /\ arg'  = [arg  EXCEPT ![t] = c]
  /\ todo' = [todo EXCEPT ![t] = online]
  /\ Goto(t, "each")
  /\ UNCHANGED <<player, index, holder, tasks, ptr, aborted>>

LinkDisconnect(l)   == ForEachBegin("link", l)
MasterDisconnect(m) == ForEachBegin("master", m)
StopProcess         == ForEachBegin("main", None)

\* The next role of online_players_, looked up.
ForEachFind(t, r) ==
  /\ Running /\ pc[t] = "each" /\ r \in todo[t]
  /\ todo' = [todo EXCEPT ![t] = @ \ {r}]
  /\ ptr' = [ptr EXCEPT ![t] = rolemap[r]]
  /\ Goto(t, "each_lock")
  /\ UNCHANGED <<player, index, holder, on_holder, tasks, arg, aborted>>

\* The player matches the connection and is not offline yet; the kick of a
\* stopping server asks for neither.
KickMatches(t, s) ==
  \/ t = "link"   /\ link_id[s] = arg[t]   /\ ~offline[s]
  \/ t = "master" /\ master_id[s] = arg[t] /\ ~offline[s]
  \/ t = "main"

\* KickoutPlayerBy(LinkId, GSvrStop) save the player, ByMasterId cannot.
Kickout(t) ==
  LET s == ptr[t] IN
  /\ LockFree(t, "each_lock") /\ active[s]
  /\ KickMatches(t, s)
  /\ IF t = "master" THEN LogoutWithoutSave(s) ELSE LogoutWithSave(s)
  /\ Goto(t, "each")
  /\ UNCHANGED <<identity, index, holder, on_holder, arg, ptr, todo, aborted>>

\* Fault: a player that is skipped is left locked.
KickoutSkipLocked(t) ==
  LET s == ptr[t] IN
  /\ LockFree(t, "each_lock")
  /\ ~(active[s] /\ KickMatches(t, s))
  /\ holder' = [holder EXCEPT ![s] = t]
  /\ Goto(t, "each")
  /\ UNCHANGED <<player, index, on_holder, tasks, arg, ptr, todo, aborted>>

KickoutSkip(t) ==
  LET s == ptr[t] IN
  /\ LockFree(t, "each_lock")
  /\ ~(active[s] /\ KickMatches(t, s))
  /\ Goto(t, "each")
  /\ UNCHANGED <<player, index, holder, on_holder, tasks, arg, ptr, todo,
                 aborted>>

ForEachEnd(t) ==
  /\ Running /\ pc[t] = "each" /\ todo[t] = {}
  /\ on_holder' = None
  /\ Return(t)
  /\ UNCHANGED <<player, index, holder, tasks, aborted>>

-----------------------------------------------------------------------------
(* RunnablePool: LogoutTask::Run *)

TaskFind(w, r) ==
  /\ Running /\ pc[w] = "idle"
  /\ tasks[r] > 0
  /\ \E n \in Subtract(tasks[r], MaxTasks) : tasks' = [tasks EXCEPT ![r] = n]
  /\ IF rolemap[r] = None
     THEN UNCHANGED thread
     ELSE /\ arg' = [arg EXCEPT ![w] = r]
          /\ ptr' = [ptr EXCEPT ![w] = rolemap[r]]
          /\ Goto(w, "task")
          /\ UNCHANGED todo
  /\ UNCHANGED <<player, index, holder, on_holder, aborted>>

TaskInactive(w) == Ignore(w, "task") /\ ~active[ptr[w]]

\* ASSERT(pPlayer->state().IsOffline()).
TaskAssert(w) ==
  /\ LockFree(w, "task") /\ active[ptr[w]]
  /\ ~offline[ptr[w]]
  /\ aborted' = "logout_task"
  /\ UNCHANGED <<player, index, holder, on_holder, tasks, thread>>

\* Fault: the removed player stays active, and other threads still use it.
TaskRemoveActive(w) ==
  LET s == ptr[w] IN
  /\ LockFree(w, "task") /\ active[s]
  /\ offline[s]
  /\ holder' = [holder EXCEPT ![s] = w]
  /\ Goto(w, "unmap")
  /\ UNCHANGED <<xid, active, offline, link_id, master_id, calls, index,
                 on_holder, tasks, arg, ptr, todo, aborted>>

\* Fault: leaving the map takes the role out of online_players_ already.
TaskRemoveErases(w) ==
  LET s == ptr[w] IN
  /\ LockFree(w, "task") /\ active[s]
  /\ offline[s]
  /\ holder' = [holder EXCEPT ![s] = w]
  /\ active' = [active EXCEPT ![s] = FALSE]
  /\ online' = online \ {xid[s]}
  /\ Goto(w, "offline")
  /\ UNCHANGED <<xid, offline, link_id, master_id, calls, available, rolemap,
                 leaked, on_holder, tasks, arg, ptr, todo, aborted>>

\* The player leaves its world if that is still there (SpecialWorld), then
\* RemovePlayerFromMan up to OnlinePlayersChange.
TaskRemove(w) ==
  LET s == ptr[w] IN
  /\ LockFree(w, "task") /\ active[s]
  /\ offline[s]
  /\ holder' = [holder EXCEPT ![s] = w]
  /\ active' = [active EXCEPT ![s] = FALSE]
  /\ Goto(w, "offline")
  /\ UNCHANGED <<xid, offline, link_id, master_id, calls, index, on_holder,
                 tasks, arg, ptr, todo, aborted>>

\* OnlinePlayersChange(player, false) under online_players_mutex_.
TaskOffline(w) ==
  /\ Running /\ pc[w] = "offline"
  /\ on_holder = None
  /\ online' = online \ {xid[ptr[w]]}
  /\ Goto(w, "unmap")
  /\ UNCHANGED <<player, available, rolemap, leaked, holder, on_holder, tasks,
                 arg, ptr, todo, aborted>>

\* MutexLock::timed_lock gives up after kMutexLockTimeOutSecond and MCHECK
\* stops the process.  A holder that can go on is taken to finish in time.
Circular(w) ==
  /\ pc[w] = "offline" /\ on_holder # None
  /\ pc[on_holder] = "each_lock" /\ ptr[on_holder] = ptr[w]

LockTimeout(w) ==
  /\ Running /\ Circular(w)
  /\ aborted' = "timed_lock"
  /\ UNCHANGED <<player, index, holder, on_holder, tasks, thread>>

-----------------------------------------------------------------------------
(* FreePlayer and the end of the lock guard, for LogoutTask and for the    *)
(* error paths of a login                                                  *)

\* Fault: the player is freed and its role stays mapped.
UnmapForgotten(t) ==
  /\ Running /\ pc[t] = "unmap"
  /\ Goto(t, "free")
  /\ UNCHANGED <<player, index, holder, on_holder, tasks, arg, ptr, todo,
                 aborted>>

\* UnmapPlayer(role_id()).
Unmap(t) ==
  /\ Running /\ pc[t] = "unmap"
  /\ rolemap' = [rolemap EXCEPT ![xid[ptr[t]]] = None]
  /\ Goto(t, "free")
  /\ UNCHANGED <<player, available, online, leaked, holder, on_holder, tasks,
                 arg, ptr, todo, aborted>>

\* Fault: Release leaves the RpcClient and its calls behind.
FreeKeepsCalls(t) ==
  LET s == ptr[t] IN
  /\ Running /\ pc[t] = "free"
  /\ xid' = [xid EXCEPT ![s] = None]
  /\ active' = [active EXCEPT ![s] = FALSE]
  /\ offline' = [offline EXCEPT ![s] = FALSE]
  /\ link_id' = [link_id EXCEPT ![s] = None]
  /\ master_id' = [master_id EXCEPT ![s] = None]
  /\ available' = available \cup {s}
  /\ Goto(t, "unlock")
  /\ UNCHANGED <<calls, rolemap, online, leaked, holder, on_holder,
                 tasks, arg, ptr, todo, aborted>>

\* ObjectAllocator::Free: Player::Release, which deletes the RpcClient and
\* its calls, and back to the pool.
Free(t) ==
  LET s == ptr[t] IN
  /\ Running /\ pc[t] = "free"
  /\ xid' = [xid EXCEPT ![s] = None]
  /\ active' = [active EXCEPT ![s] = FALSE]
  /\ offline' = [offline EXCEPT ![s] = FALSE]
  /\ link_id' = [link_id EXCEPT ![s] = None]
  /\ master_id' = [master_id EXCEPT ![s] = None]
  /\ calls' = [calls EXCEPT ![s] = 0]
  /\ available' = available \cup {s}
  /\ Goto(t, "unlock")
  /\ UNCHANGED <<rolemap, online, leaked, holder, on_holder, tasks,
                 arg, ptr, todo, aborted>>

Unlock(t) ==
  /\ Running /\ pc[t] = "unlock"
  /\ holder' = [holder EXCEPT ![ptr[t]] = None]
  /\ Return(t)
  /\ UNCHANGED <<player, index, on_holder, tasks, aborted>>

\* The process is gone.
Stopped == ~Running /\ UNCHANGED vars

-----------------------------------------------------------------------------
Enter == \/ \E r \in Role : EnterAlloc(r)
         \/ \E ok \in BOOLEAN, l \in Link, m \in Master : EnterLock(ok, l, m)
         \/ EnterFail \/ EnterRedirectFail \/ EnterWorld \/ EnterOnline

Handle == \/ \E r \in Role : FindForRpc(r) \/ FindForLogout(r) \/ FindForCommand(r)
          \/ RpcResponse \/ RpcSaveError \/ RpcIgnore \/ CommandIgnore
          \/ \E l \in Link : \/ LinkPlayerLogout(l) \/ LinkLogoutReject(l)
                             \/ \E n \in 1 .. 2 : LongJump(l, n)

Kick(t) == \/ \E r \in Role : ForEachFind(t, r)
           \/ Kickout(t) \/ KickoutSkip(t) \/ ForEachEnd(t)

KickBegin == \/ \E l \in Link : LinkDisconnect(l)
             \/ \E m \in Master : MasterDisconnect(m)
             \/ StopProcess

Logout(w) == \/ \E r \in Role : TaskFind(w, r)
             \/ TaskInactive(w) \/ TaskAssert(w) \/ TaskRemove(w)
             \/ TaskOffline(w) \/ LockTimeout(w)

Release(t) == Unmap(t) \/ Free(t) \/ Unlock(t)

Next == \/ Enter \/ Handle \/ KickBegin
        \/ \E s \in Slot : HeartbeatTimeout(s) \/ HeartbeatLogout(s)
        \/ \E t \in {"link", "master", "main"} : Kick(t)
        \/ \E w \in Worker : Logout(w)
        \/ \E t \in Worker \cup {"master"} : Release(t)
        \/ Stopped

\* Every thread keeps running, the pool runs every queued task, heartbeats
\* keep timing calls out, and no thread is passed over for ever at a mutex.
\* Nothing is assumed of the messages: they may come, or never.
Fairness ==
  /\ \A w \in Worker : /\ WF_vars(Release(w)) /\ WF_vars(LockTimeout(w))
                        /\ SF_vars(TaskInactive(w) \/ TaskAssert(w) \/ TaskRemove(w))
                        /\ SF_vars(TaskOffline(w))
  /\ \A r \in Role : SF_vars(\E w \in Worker : TaskFind(w, r))
  /\ \A s \in Slot : SF_vars(HeartbeatTimeout(s))
  /\ \A t \in {"link", "master", "main"} :
       /\ WF_vars(Kick(t)) /\ SF_vars(Kickout(t) \/ KickoutSkip(t))
  /\ WF_vars(Release("master")) /\ WF_vars(EnterFail \/ EnterWorld)
  /\ SF_vars(EnterOnline)
  /\ SF_vars(\E ok \in BOOLEAN, l \in Link, m \in Master : EnterLock(ok, l, m))

Spec     == Init /\ [][Next]_vars
FairSpec == Spec /\ Fairness

-----------------------------------------------------------------------------
(* Properties *)

TypeOK ==
  /\ available \subseteq Slot /\ leaked \subseteq Slot
  /\ rolemap \in [Role -> Slot \cup {None}]
  /\ xid \in [Slot -> Role \cup {None}]
  /\ active \in [Slot -> BOOLEAN] /\ offline \in [Slot -> BOOLEAN]
  /\ link_id \in [Slot -> Link \cup {None}]
  /\ master_id \in [Slot -> Master \cup {None}]
  /\ online \subseteq Role
  /\ holder \in [Slot -> Thread \cup {None}]
  /\ on_holder \in Thread \cup {None}
  /\ calls \in [Slot -> 0 .. MaxCalls]
  /\ tasks \in [Role -> 0 .. MaxTasks]
  /\ pc \in [Thread -> {"idle", "enter_lock", "enter_world", "enter_online",
                        "rpc", "logout", "command", "each", "each_lock",
                        "task", "offline", "unmap", "free", "unlock"}]
  /\ arg \in [Thread -> Role \cup Link \cup Master \cup {None}]
  /\ ptr \in [Thread -> Slot \cup {None}]
  /\ todo \in [Thread -> SUBSET Role]
  /\ aborted \in {None, "logout_task", "timed_lock"}

\* Thread t is at one of the points ls of its handler, working on slot s.
At(t, ls, s) == pc[t] \in ls /\ ptr[t] = s

\* A role is mapped to a slot that is taken and carries that role's id, or
\* is about to get it: no thread can reach one role's player under another
\* role's id through ObjQuery, and no slot serves two roles.
MapMatchesPlayer ==
  \A r \in Role : rolemap[r] # None =>
    /\ rolemap[r] \notin available
    /\ \/ xid[rolemap[r]] = r
       \/ At("master", {"enter_lock"}, rolemap[r]) /\ arg["master"] = r

\* online_players_ agrees with the player manager (the comment at its
\* declaration): its roles are mapped to players that are active or being
\* removed, and every active player is in it or being added.
OnlineMatchesManager ==
  /\ \A r \in online :
       /\ rolemap[r] # None /\ xid[rolemap[r]] = r
       /\ \/ active[rolemap[r]]
          \/ \E w \in Worker : At(w, {"offline"}, rolemap[r])
  /\ \A s \in Slot : active[s] =>
       xid[s] \in online \/ At("master", {"enter_online"}, s)

\* ForEachPlayer, which uses the result of FindPlayerFromMan unchecked, never
\* gets NULL, and still has a player of online_players_ when it locks it.
ForEachSafe ==
  \A t \in Thread : pc[t] = "each_lock" =>
    ptr[t] # None /\ xid[ptr[t]] \in online

\* The assertions of OnlinePlayersChange (inserted, erased exactly one) and
\* of FreePlayer (unmapped exactly one) never fail.
AssertsHold ==
  \A t \in Thread :
    /\ pc[t] = "enter_online" => xid[ptr[t]] \notin online
    /\ pc[t] = "offline" => xid[ptr[t]] \in online
    /\ pc[t] = "unmap" => xid[ptr[t]] # None /\ rolemap[xid[ptr[t]]] = ptr[t]

\* A slot the allocator may hand out carries nothing of its last player: it
\* is inactive, has no id, no connection, no call and no role mapped to it.
\* (The planes of worlds are in SpecialWorld: one that has refused a player
\* keeps it.)
PoolClean ==
  \A s \in available : /\ ~active[s] /\ ~offline[s]
                       /\ xid[s] = None /\ calls[s] = 0
                       /\ link_id[s] = None /\ master_id[s] = None
                       /\ \A r \in Role : rolemap[r] # s

\* No slot is lost, whatever a login or a logout runs into: a taken slot is
\* active, or some thread is still working on it, unless it is one that a
\* failed RedirectEnterWorld left behind.
NoSlotLost ==
  \A s \in Slot \ (available \cup leaked) :
    \/ active[s]
    \/ \E t \in Thread :
         At(t, {"enter_lock", "enter_world", "offline", "unmap", "free"}, s)

\* A player that went offline is never forgotten: as long as it is there, an
\* unanswered save, a queued LogoutTask or a worker is going to remove it.
OfflineWillLeave ==
  \A s \in Slot : active[s] /\ offline[s] =>
    \/ calls[s] > 0
    \/ tasks[xid[s]] > 0
    \/ \E w \in Worker : At(w, {"task"}, s)

\* A player that went offline leaves: its slot returns to the pool, or the
\* server stopped at one of the two assertions above.
OfflineLeaves ==
  \A s \in Slot : (active[s] /\ offline[s]) ~> (s \in available \/ ~Running)

\* The thread that holds the mutex which t needs next, or None.
WaitsFor(t) ==
  IF pc[t] \in {"enter_lock", "rpc", "logout", "command", "each_lock", "task"}
  THEN holder[ptr[t]]
  ELSE IF pc[t] \in {"enter_online", "offline"} THEN on_holder ELSE None

\* Threads that wait for each other for ever are only those of one circle:
\* a LogoutTask that holds its player and needs online_players_mutex_, and a
\* ForEachPlayer that holds the latter and needs that player.  No other order
\* of the two kinds of mutex, as that of a login, can block the server.
OnlyCircularWait ==
  \A ts \in SUBSET Thread :
    ts # {} /\ (\A t \in ts : WaitsFor(t) \in ts) => \E w \in ts : Circular(w)

-----------------------------------------------------------------------------
(* Refinement: what a role's player shows to the master and the links *)

StageOf(r) ==
  LET s == rolemap[r] IN
  IF s = None THEN "absent"
  ELSE IF active[s] THEN IF offline[s] THEN "offline" ELSE "online"
  ELSE IF s \in leaked THEN "stranded"
  ELSE IF offline[s] THEN "leaving" ELSE "entering"

Session == INSTANCE RoleSession WITH
             Capacity <- Cardinality(Slot),
             stage <- [r \in Role |-> StageOf(r)],
             stopped <- ~Running

\* The threads of login, logout and removal implement RoleSession.
ImplementsSession == Session!Spec

PhaseOf(s) == IF s \in available THEN "free"
              ELSE IF active[s] THEN "member"
              ELSE IF offline[s] THEN "leaving" ELSE "fresh"

LockOf(s) == IF holder[s] = None THEN "none"
             ELSE IF holder[s] \in Worker THEN "remover" ELSE "other"

\* Players use the slots of their pool as ObjectManager takes them to.
Use == INSTANCE SlotUse WITH
         phase <- [s \in Slot |-> PhaseOf(s)],
         lock  <- [s \in Slot |-> LockOf(s)]

\* "It must be offline" (LogoutTask::Run): the task never finds a player that
\* is online.
LogoutTaskOffline == aborted # "logout_task"

\* timed_lock's MCHECK: online_players_mutex_ is always got in time.
LockInTime == aborted # "timed_lock"
=============================================================================
