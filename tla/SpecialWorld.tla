---------------------------- MODULE SpecialWorld ----------------------------
(***************************************************************************)
(* Instances and battlegrounds: worlds that are made for a login, run for  *)
(* a while, close, send their players away and give their WorldManager     *)
(* back to the pool that both clusters share.                              *)
(*                                                                         *)
(* Threads: the master thread creates worlds and inserts players (one      *)
(* message at a time); thread 0 of the RunnablePool ticks the clusters,    *)
(* beats the worlds and dispatches their messages; pool workers run the    *)
(* LogoutTasks; the timer moves the clock.  A section under wm_imp_mutex_, *)
(* lock_change_ or an index lock is one action.                            *)
(*                                                                         *)
(* End times are kept as the seconds left, and -1 is "over".  A second is  *)
(* long compared with one handler: the clock and the removal countdown     *)
(* wait for handlers in progress (Quiet), heartbeats and ticks do not.     *)
(***************************************************************************)
EXTENDS Integers, FiniteSets

CONSTANTS
  Manager,       \* the WorldManagers of s_worldman_pool
  Player,        \* roles
  MaxTag,        \* bound: worlds a controller makes
  MaxQuit,       \* bound: PLAYER_QUIT_MAP messages on their way to a world
  Remain,        \* per kind: ins_remain_time, kMaxRemainTime
  Survival,      \* ins_max_survival_time, bg_max_survival_time
  MinCount,      \* players that keep the world running, 1 in an instance
  MaxCount,      \* bg_player_upper_limit
  CloseTime,     \* kKickoutCloseTime
  RemoveDelay,   \* kWaitingRemoveDelay
  TicksPerSec,   \* TICK_PER_SEC
  None

Kind == {"ins", "bg"}
Wid  == Kind \X (1 .. MaxTag)

ASSUME ConstAssumption ==
  /\ MaxTag \in Nat /\ MaxQuit \in Nat /\ CloseTime \in Nat
  /\ RemoveDelay \in Nat \ {0} /\ TicksPerSec \in Nat \ {0}
  /\ Remain \in [Kind -> Nat] /\ Survival \in [Kind -> Nat]
  /\ MinCount \in [Kind -> Nat] /\ MaxCount \in [Kind -> Nat]
  /\ MinCount["ins"] = 1
  /\ None \notin Manager /\ None \notin Wid /\ None \notin Player

ASSUME FiniteAssumption == IsFiniteSet(Manager) /\ IsFiniteSet(Player)

VARIABLES
  \* WorldManager and its imp
  wid, actived, forbid, state, result, player_count,
  running, max_left, closing,
  plane,            \* players_map_ of the manager's World
  \* pool and clusters
  available, change_list, worldMan_set, waiting, wid_index, active_map,
  cur_tag_id, s_tick_counter,
  \* the master thread: where it is, for which role, in which world
  mpc, mrole, mworld,
  \* players
  ppc, pworld, quitting,
  \* messages
  closing_msgs, quit_msgs,
  late,             \* who was inserted into a world that had already closed
  aborted           \* an assertion has stopped the process

imp     == <<forbid, state, result, player_count, running, max_left, closing>>
manager == <<wid, actived, imp, plane>>
cluster == <<available, change_list, worldMan_set, waiting, wid_index,
             active_map, cur_tag_id, s_tick_counter>>
master  == <<mpc, mrole, mworld>>
role    == <<ppc, pworld, quitting>>
msgs    == <<closing_msgs, quit_msgs>>
vars    == <<manager, cluster, master, role, msgs, late, aborted>>

\* The end times of a new world are all over; nothing reads them before Init.
Init ==
  /\ wid = [m \in Manager |-> None]
  /\ actived = {} /\ forbid = {}
  /\ state = [m \in Manager |-> "INVALID"]
  /\ result = [m \in Manager |-> "UNDONE"]
  /\ player_count = [m \in Manager |-> 0]
  /\ running = [m \in Manager |-> -1]
  /\ max_left = [m \in Manager |-> -1]
  /\ closing = [m \in Manager |-> -1]
  /\ plane = [m \in Manager |-> {}]
  /\ available = Manager
  /\ change_list = [m \in Manager |-> 0]
  /\ worldMan_set = {}
  /\ waiting = [m \in Manager |-> 0]
  /\ wid_index = [w \in Wid |-> None]
  /\ active_map = {}
  /\ cur_tag_id = [k \in Kind |-> 0]
  /\ s_tick_counter = 0
  /\ mpc = "idle" /\ mrole = None /\ mworld = None
  /\ ppc = [p \in Player |-> "out"]
  /\ pworld = [p \in Player |-> None]
  /\ quitting = [p \in Player |-> FALSE]
  /\ closing_msgs = {}
  /\ quit_msgs = [w \in Wid |-> 0]
  /\ late = {} /\ aborted = FALSE

KindOf(m)   == wid[m][1]
IsRunning(m) == state[m] \in {"READY", "RUNNING"}
Least(a, b) == IF a < b THEN a ELSE b

\* No thread is inside a handler that holds a WorldManager.
Quiet == mpc = "idle" /\ \A p \in Player : ppc[p] \notin {"leave", "plane"}

\* WorldCluster::FindWorldManager after IsActiveIns.
Found(w) == /\ w \in active_map
            /\ wid_index[w] # None
            /\ wid_index[w] \in actived

-----------------------------------------------------------------------------
(* The master thread: HandleEnterInstanceMap, HandleEnterBattleGroundMap   *)

\* Seconds a new world waits for its players.
FirstRun(k) == IF k = "ins" THEN Remain[k] ELSE Survival[k]

OnInit(m, k) ==
  /\ state' = [state EXCEPT ![m] = "READY"]
  /\ result' = [result EXCEPT ![m] = "UNDONE"]
  /\ running' = [running EXCEPT ![m] = FirstRun(k)]
  /\ max_left' = [max_left EXCEPT ![m] = Survival[k]]
  /\ UNCHANGED <<forbid, player_count, closing>>

\* Fault: get_new_tag_id() is not advanced.
CreateWorldManSameTag(p, k, m) ==
  /\ mpc = "idle" /\ ppc[p] = "out"
  /\ m \in available
  /\ cur_tag_id[k] < MaxTag
  /\ LET w == <<k, cur_tag_id[k] + 1>> IN
       /\ wid' = [wid EXCEPT ![m] = w]
       /\ mworld' = w
  /\ available' = available \ {m}
  /\ OnInit(m, k)
  /\ change_list' = [change_list EXCEPT ![m] = @ + 1]
  /\ mpc' = "index" /\ mrole' = p
  /\ UNCHANGED <<actived, plane, cur_tag_id, worldMan_set, waiting, wid_index,
                 active_map, s_tick_counter, role, msgs, late, aborted>>

\* CreateWorldMan up to change_list_[manager]++.
CreateWorldMan(p, k, m) ==
  /\ mpc = "idle" /\ ppc[p] = "out"
  /\ m \in available
  /\ cur_tag_id[k] < MaxTag
  /\ LET w == <<k, cur_tag_id[k] + 1>> IN
       /\ wid' = [wid EXCEPT ![m] = w]
       /\ mworld' = w
  /\ cur_tag_id' = [cur_tag_id EXCEPT ![k] = @ + 1]
  /\ available' = available \ {m}
  /\ OnInit(m, k)
  /\ change_list' = [change_list EXCEPT ![m] = @ + 1]
  /\ mpc' = "index" /\ mrole' = p
  /\ UNCHANGED <<actived, plane, worldMan_set, waiting, wid_index, active_map,
                 s_tick_counter, role, msgs, late, aborted>>

\* wid_mapto_index_.insert.
InsertIndex(m) ==
  /\ mpc = "index" /\ wid[m] = mworld
  /\ wid_index' = [wid_index EXCEPT ![mworld] = m]
  /\ mpc' = "active"
  /\ UNCHANGED <<manager, available, change_list, worldMan_set, waiting,
                 active_map, cur_tag_id, s_tick_counter, mrole, mworld, role,
                 msgs, late, aborted>>

SetActive(m) ==
  /\ mpc = "active" /\ wid[m] = mworld
  /\ actived' = actived \cup {m}
  /\ mpc' = "register"
  /\ UNCHANGED <<wid, imp, plane, cluster, mrole, mworld, role, msgs, late, aborted>>

\* active_ins_map_.insert; the login goes on with the new world.
Register ==
  /\ mpc = "register"
  /\ active_map' = active_map \cup {mworld}
  /\ mpc' = "find"
  /\ UNCHANGED <<manager, available, change_list, worldMan_set, waiting,
                 wid_index, cur_tag_id, s_tick_counter, mrole, mworld, role,
                 msgs, late, aborted>>

\* FindInstanceMap: a world that exists, by its tag or its serial number.
EnterExisting(p, w) ==
  /\ mpc = "idle" /\ ppc[p] = "out"
  /\ w \in active_map
  /\ mpc' = "find" /\ mrole' = p /\ mworld' = w
  /\ UNCHANGED <<manager, cluster, role, msgs, late, aborted>>

\* The login or change of map is refused; the player is freed.
Fail == /\ mpc' = "idle" /\ mrole' = None /\ mworld' = None

\* FindWorldManager and CheckPlayerCountLimit.  A login into a rally or a
\* world boss passes the limit whatever the count; a change of map does not.
FindWorld ==
  /\ mpc = "find"
  /\ \/ ~Found(mworld) /\ Fail
     \/ Found(mworld) /\ mpc' = "check" /\ UNCHANGED <<mrole, mworld>>
     \/ /\ Found(mworld) /\ mworld[1] = "bg"
        /\ player_count[wid_index[mworld]] >= MaxCount["bg"]
        /\ Fail
  /\ UNCHANGED <<manager, cluster, role, msgs, late, aborted>>

\* InsertPlayer reads is_forbid_obj_insert_ before it takes wm_imp_mutex_.
CheckForbid(m) ==
  /\ mpc = "check" /\ wid[m] = mworld
  /\ IF m \in forbid THEN Fail
                     ELSE mpc' = "insert" /\ UNCHANGED <<mrole, mworld>>
  /\ UNCHANGED <<manager, cluster, role, msgs, late, aborted>>

\* Fault: a player that comes does not stop the clock of an empty world.
OnPlayerEnterMapKeeps(m) ==
  /\ player_count' = [player_count EXCEPT ![m] = @ + 1]
  /\ UNCHANGED running

OnPlayerEnterMap(m) ==
  /\ player_count' = [player_count EXCEPT ![m] = @ + 1]
  /\ running' = IF IsRunning(m) /\ player_count[m] + 1 >= MinCount[KindOf(m)]
                THEN [running EXCEPT ![m] = max_left[m]] ELSE running

\* Under wm_imp_mutex_: into the plane, into a map team, counted.
InsertPlayer(m) ==
  /\ mpc = "insert" /\ wid[m] = mworld
  /\ ~(KindOf(m) = "bg" /\ player_count[m] >= MaxCount["bg"])
  /\ plane' = [plane EXCEPT ![m] = @ \cup {mrole}]
  /\ OnPlayerEnterMap(m)
  /\ ppc' = [ppc EXCEPT ![mrole] = "in"]
  /\ pworld' = [pworld EXCEPT ![mrole] = mworld]
  /\ quitting' = [quitting EXCEPT ![mrole] = FALSE]
  /\ late' = IF IsRunning(m) THEN late \ {mrole} ELSE late \cup {mrole}
  /\ Fail
  /\ UNCHANGED <<wid, actived, forbid, state, result, max_left, closing,
                 cluster, msgs, aborted>>

\* Fault: the player is counted before OnInsertPlayer says no.
InsertRefusedCounted(m) ==
  /\ mpc = "insert" /\ wid[m] = mworld
  /\ plane' = [plane EXCEPT ![m] = @ \cup {mrole}]
  /\ OnPlayerEnterMap(m)
  /\ Fail
  /\ UNCHANGED <<wid, actived, forbid, state, result, max_left, closing,
                 cluster, role, msgs, late, aborted>>

\* OnInsertPlayer says no: the battleground is full, or the map team is
\* (teams are not kept here, so it may always be).  The role stays in the
\* plane's players_map_ although its player is freed.
InsertRefused(m) ==
  /\ mpc = "insert" /\ wid[m] = mworld
  /\ plane' = [plane EXCEPT ![m] = @ \cup {mrole}]
  /\ Fail
  /\ UNCHANGED <<wid, actived, imp, cluster, role, msgs, late, aborted>>

-----------------------------------------------------------------------------
(* Players: quit, are told to leave, log out                               *)

\* KickoutPlayer: one PLAYER_QUIT_MAP per stay, then is_quitting_.
KickoutPlayer(p) ==
  /\ ~quitting[p]
  /\ quit_msgs[pworld[p]] < MaxQuit
  /\ quitting' = [quitting EXCEPT ![p] = TRUE]
  /\ quit_msgs' = [quit_msgs EXCEPT ![pworld[p]] = @ + 1]

\* PlayerQuitInsMap, or a condition of the map the player lost.
QuitMap(p) ==
  /\ ppc[p] = "in"
  /\ KickoutPlayer(p)
  /\ UNCHANGED <<manager, cluster, master, ppc, pworld, closing_msgs, late, aborted>>

\* GS_MSG_WORLD_CLOSING: dropped by a role that is away or offline,
\* ASSERT(false) by one that is in another world, else OnWorldClosing.
WorldClosing(p, w) ==
  /\ <<p, w>> \in closing_msgs
  /\ ppc[p] \notin {"leave", "plane"}
  /\ closing_msgs' = closing_msgs \ {<<p, w>>}
  /\ aborted' = (ppc[p] = "in" /\ pworld[p] # w)
  /\ IF ppc[p] = "in" /\ pworld[p] = w /\ ~quitting[p]
     THEN KickoutPlayer(p) ELSE UNCHANGED <<quitting, quit_msgs>>
  /\ UNCHANGED <<manager, cluster, master, ppc, pworld, late>>

\* PlayerLogout: a lost connection, or the transfer at the end of a kickout.
PlayerLogout(p) ==
  /\ ppc[p] = "in"
  /\ ppc' = [ppc EXCEPT ![p] = "offline"]
  /\ UNCHANGED <<manager, cluster, master, pworld, quitting, msgs, late, aborted>>

\* FreePlayer: nothing of the stay is left.
FreePlayer(p) ==
  /\ ppc' = [ppc EXCEPT ![p] = "out"]
  /\ pworld' = [pworld EXCEPT ![p] = None]
  /\ quitting' = [quitting EXCEPT ![p] = FALSE]
  /\ late' = late \ {p}

\* LogoutTask::Run finds the world, or frees the player without it.
LogoutTask(p) ==
  /\ ppc[p] = "offline"
  /\ IF Found(pworld[p])
     THEN /\ ppc' = [ppc EXCEPT ![p] = "leave"]
          /\ UNCHANGED <<pworld, quitting, late>>
     ELSE FreePlayer(p)
  /\ UNCHANGED <<manager, cluster, master, msgs, aborted>>

OnPlayerLeaveMap(p, m) ==
  /\ player_count' = [player_count EXCEPT ![m] = @ - 1]
  /\ running' = IF IsRunning(m) /\ player_count[m] - 1 < MinCount[KindOf(m)]
                THEN [running EXCEPT ![m] = Least(Remain[KindOf(m)], max_left[m])]
                ELSE running

\* RemovePlayer, the part under wm_imp_mutex_.
LeaveMap(p, m) ==
  /\ ppc[p] = "leave" /\ wid[m] = pworld[p]
  /\ OnPlayerLeaveMap(p, m)
  /\ ppc' = [ppc EXCEPT ![p] = "plane"]
  /\ UNCHANGED <<wid, actived, forbid, state, result, max_left, closing, plane,
                 cluster, master, pworld, quitting, msgs, late, aborted>>

\* plane_->RemovePlayer; then the player is freed.
RemovePlayer(p, m) ==
  /\ ppc[p] = "plane" /\ wid[m] = pworld[p]
  /\ plane' = [plane EXCEPT ![m] = @ \ {p}]
  /\ FreePlayer(p)
  /\ UNCHANGED <<wid, actived, imp, cluster, master, msgs, aborted>>

-----------------------------------------------------------------------------
(* Thread 0: world messages, heartbeats, ticks                             *)

\* PlayerQuitMap: the count of the plane, less the one that quits.
PlayerQuitMap(w) ==
  /\ quit_msgs[w] > 0
  /\ quit_msgs' = [quit_msgs EXCEPT ![w] = @ - 1]
  /\ LET m == wid_index[w] IN
       result' = IF Found(w) /\ Cardinality(plane[m]) - 1 <= 0
                 THEN [result EXCEPT ![m] = "ALL_PLAYER_QUIT"] ELSE result
  /\ UNCHANGED <<wid, actived, forbid, state, player_count, running, max_left,
                 closing, plane, cluster, master, role, closing_msgs, late, aborted>>

\* SysCloseInstance, SysCloseBattleGround, the key monsters all killed.
SysClose(w) ==
  LET m == wid_index[w] IN
  /\ Found(w) /\ result[m] = "UNDONE"
  /\ result' = [result EXCEPT ![m] = "DECIDED"]
  /\ UNCHANGED <<wid, actived, forbid, state, player_count, running, max_left,
                 closing, plane, cluster, master, role, msgs, late, aborted>>

OnReady(m) ==
  /\ state[m] = "READY"
  /\ state' = [state EXCEPT ![m] = "RUNNING"]
  /\ UNCHANGED <<wid, actived, forbid, result, player_count, running, max_left,
                 closing, plane, cluster, master, role, msgs, late, aborted>>

\* Fault: the players are not told.
OnCloseSilent(m) ==
  /\ state[m] = "RUNNING"
  /\ running[m] < 0 \/ result[m] # "UNDONE"
  /\ closing' = [closing EXCEPT ![m] = CloseTime]
  /\ state' = [state EXCEPT ![m] = "CLOSING"]
  /\ forbid' = forbid \cup {m}
  /\ UNCHANGED <<wid, actived, result, player_count, running, max_left, plane,
                 cluster, master, role, msgs, late, aborted>>

\* The time is over or the result is known: CLOSING, no more insertions, and
\* WORLD_CLOSING to every player of the plane.
OnClose(m) ==
  /\ state[m] = "RUNNING"
  /\ running[m] < 0 \/ result[m] # "UNDONE"
  /\ closing' = [closing EXCEPT ![m] = CloseTime]
  /\ state' = [state EXCEPT ![m] = "CLOSING"]
  /\ forbid' = forbid \cup {m}
  /\ closing_msgs' = closing_msgs \cup {<<p, wid[m]>> : p \in plane[m]}
  /\ UNCHANGED <<wid, actived, result, player_count, running, max_left, plane,
                 cluster, master, role, quit_msgs, late, aborted>>

\* Fault: the world stays in the index.
OnRemoveKeepsIndex(m) ==
  /\ state[m] = "CLOSING" /\ closing[m] < 0
  /\ actived' = actived \ {m}
  /\ waiting' = [waiting EXCEPT ![m] = RemoveDelay]
  /\ active_map' = active_map \ {wid[m]}
  /\ state' = [state EXCEPT ![m] = "INVALID"]
  /\ UNCHANGED <<wid, forbid, result, player_count, running, max_left, closing,
                 plane, available, change_list, worldMan_set, wid_index,
                 cur_tag_id, s_tick_counter, master, role, msgs, late, aborted>>

\* Fault: the removed world is still collected for heartbeats.
OnRemoveStaysActive(m) ==
  /\ state[m] = "CLOSING" /\ closing[m] < 0
  /\ waiting' = [waiting EXCEPT ![m] = RemoveDelay]
  /\ wid_index' = [wid_index EXCEPT ![wid[m]] = None]
  /\ active_map' = active_map \ {wid[m]}
  /\ state' = [state EXCEPT ![m] = "INVALID"]
  /\ UNCHANGED <<wid, actived, forbid, result, player_count, running, max_left, closing,
                 plane, available, change_list, worldMan_set, cur_tag_id,
                 s_tick_counter, master, role, msgs, late, aborted>>

\* RemoveWorldManager, RemoveInsWorldMan.
OnRemove(m) ==
  /\ state[m] = "CLOSING" /\ closing[m] < 0
  /\ actived' = actived \ {m}
  /\ waiting' = [waiting EXCEPT ![m] = RemoveDelay]
  /\ wid_index' = [wid_index EXCEPT ![wid[m]] = None]
  /\ active_map' = active_map \ {wid[m]}
  /\ state' = [state EXCEPT ![m] = "INVALID"]
  /\ UNCHANGED <<wid, forbid, result, player_count, running, max_left, closing,
                 plane, available, change_list, worldMan_set, cur_tag_id,
                 s_tick_counter, master, role, msgs, late, aborted>>

\* A heartbeat of a collected world, once a second: DriveMachine.
Heartbeat(m) ==
  /\ m \in worldMan_set /\ m \in actived
  /\ OnReady(m) \/ OnClose(m) \/ OnRemove(m)

\* The clusters tick in the order normal, instance, battleground, and each
\* increments the one s_tick_counter.
Turn(k) == IF k = "ins" THEN 2 ELSE 3
Fires(k) == (s_tick_counter + Turn(k)) % TicksPerSec = 0

\* Managers whose countdown ends with this tick.
Expired == {m \in Manager : waiting[m] = 1 /\ Fires(KindOf(m))}

\* WorldManager::Release.
Release(S) ==
  /\ wid' = [m \in Manager |-> IF m \in S THEN None ELSE wid[m]]
  /\ forbid' = forbid \ S
  /\ plane' = [m \in Manager |-> IF m \in S THEN {} ELSE plane[m]]
  /\ player_count' = [m \in Manager |-> IF m \in S THEN 0 ELSE player_count[m]]
  /\ running' = [m \in Manager |-> IF m \in S THEN -1 ELSE running[m]]
  /\ max_left' = [m \in Manager |-> IF m \in S THEN -1 ELSE max_left[m]]
  /\ closing' = [m \in Manager |-> IF m \in S THEN -1 ELSE closing[m]]
  /\ result' = [m \in Manager |-> IF m \in S THEN "UNDONE" ELSE result[m]]
  /\ UNCHANGED <<actived, state>>

\* Fault: DoDelete does not free the manager.
HeartbeatTickLeaks ==
  /\ s_tick_counter' = (s_tick_counter + 3) % TicksPerSec
  /\ waiting' = [m \in Manager |->
                   IF waiting[m] > 0 /\ Fires(KindOf(m)) THEN waiting[m] - 1
                                                        ELSE waiting[m]]
  /\ worldMan_set' = (worldMan_set \cup {m \in Manager : change_list[m] = 1})
                       \ Expired
  /\ change_list' = [m \in Manager |-> 0]
  /\ UNCHANGED available
  /\ Release(Expired)

\* Fault: a fourth cluster increments s_tick_counter.
HeartbeatTickOfFour ==
  /\ s_tick_counter' = (s_tick_counter + 4) % TicksPerSec
  /\ waiting' = [m \in Manager |->
                   IF waiting[m] > 0 /\ Fires(KindOf(m)) THEN waiting[m] - 1
                                                        ELSE waiting[m]]
  /\ worldMan_set' = (worldMan_set \cup {m \in Manager : change_list[m] = 1})
                       \ Expired
  /\ change_list' = [m \in Manager |-> 0]
  /\ available' = available \cup Expired
  /\ Release(Expired)

\* HandleWaitingRemove, then DoChange: new managers join the set, those whose
\* delay is over leave it and go back to the pool.
HeartbeatTick ==
  /\ s_tick_counter' = (s_tick_counter + 3) % TicksPerSec
  /\ waiting' = [m \in Manager |->
                   IF waiting[m] > 0 /\ Fires(KindOf(m)) THEN waiting[m] - 1
                                                        ELSE waiting[m]]
  /\ worldMan_set' = (worldMan_set \cup {m \in Manager : change_list[m] = 1})
                       \ Expired
  /\ change_list' = [m \in Manager |-> 0]
  /\ available' = available \cup Expired
  /\ Release(Expired)

Tick ==
  /\ Quiet \/ \A m \in Manager : ~(waiting[m] > 0 /\ Fires(KindOf(m)))
  /\ HeartbeatTick
  /\ UNCHANGED <<wid_index, active_map, cur_tag_id, master, role, msgs, late, aborted>>

Before(n) == IF n < 0 THEN n ELSE n - 1

\* The clock.
Second ==
  /\ Quiet
  /\ \E m \in Manager : running[m] >= 0 \/ closing[m] >= 0
  /\ running' = [m \in Manager |-> Before(running[m])]
  /\ max_left' = [m \in Manager |-> Before(max_left[m])]
  /\ closing' = [m \in Manager |-> Before(closing[m])]
  /\ UNCHANGED <<wid, actived, forbid, state, result, player_count, plane,
                 cluster, master, role, msgs, late, aborted>>

Run ==
  \/ \E p \in Player, k \in Kind, m \in Manager : CreateWorldMan(p, k, m)
  \/ \E m \in Manager : InsertIndex(m) \/ SetActive(m)
  \/ Register
  \/ \E p \in Player, w \in Wid : EnterExisting(p, w)
  \/ FindWorld
  \/ \E m \in Manager : CheckForbid(m) \/ InsertPlayer(m) \/ InsertRefused(m)
  \/ \E p \in Player : QuitMap(p) \/ PlayerLogout(p) \/ LogoutTask(p)
  \/ \E p \in Player, w \in Wid : WorldClosing(p, w)
  \/ \E p \in Player, m \in Manager : LeaveMap(p, m) \/ RemovePlayer(p, m)
  \/ \E w \in Wid : PlayerQuitMap(w) \/ SysClose(w)
  \/ \E m \in Manager : Heartbeat(m)
  \/ Tick
  \/ Second

Stopped == aborted /\ UNCHANGED vars

Next == (~aborted /\ Run) \/ Stopped

Spec == Init /\ [][Next]_vars

\* The threads keep running.  Quiet only says that a handler is short, so
\* the clock and the ticks go on even if logins never stop.
Live(A) == ~aborted /\ A

Fairness ==
  /\ SF_vars(Live(Tick)) /\ SF_vars(Live(Second))
  /\ \A m \in Manager : WF_vars(Live(Heartbeat(m)))
  /\ WF_vars(Live(\/ Register \/ FindWorld
                  \/ \E m \in Manager : \/ InsertIndex(m) \/ SetActive(m)
                                        \/ CheckForbid(m) \/ InsertPlayer(m)))
  /\ \A p \in Player :
       WF_vars(Live(LogoutTask(p) \/ \E m \in Manager : LeaveMap(p, m)
                                                      \/ RemovePlayer(p, m)))

LiveSpec == Spec /\ Fairness

-----------------------------------------------------------------------------
(* Properties *)

TypeOK ==
  /\ wid \in [Manager -> Wid \cup {None}]
  /\ actived \subseteq Manager /\ forbid \subseteq Manager
  /\ state \in [Manager -> {"INVALID", "READY", "RUNNING", "CLOSING"}]
  /\ result \in [Manager -> {"UNDONE", "ALL_PLAYER_QUIT", "DECIDED"}]
  /\ player_count \in [Manager -> Nat]
  /\ running \in [Manager -> Int] /\ max_left \in [Manager -> Int]
  /\ closing \in [Manager -> Int]
  /\ plane \in [Manager -> SUBSET Player]
  /\ available \subseteq Manager /\ worldMan_set \subseteq Manager
  /\ change_list \in [Manager -> 0 .. 1]
  /\ waiting \in [Manager -> 0 .. RemoveDelay]
  /\ wid_index \in [Wid -> Manager \cup {None}]
  /\ active_map \subseteq Wid
  /\ cur_tag_id \in [Kind -> 0 .. MaxTag]
  /\ s_tick_counter \in 0 .. TicksPerSec - 1
  /\ mpc \in {"idle", "index", "active", "register", "find", "check", "insert"}
  /\ mrole \in Player \cup {None} /\ mworld \in Wid \cup {None}
  /\ ppc \in [Player -> {"out", "in", "offline", "leave", "plane"}]
  /\ pworld \in [Player -> Wid \cup {None}]
  /\ quitting \in [Player -> BOOLEAN]
  /\ closing_msgs \subseteq Player \X Wid
  /\ quit_msgs \in [Wid -> 0 .. MaxQuit]
  /\ late \subseteq Player /\ aborted \in BOOLEAN

\* A WorldManager is never lost and never in two places: it is in the pool,
\* is waiting to join the set, or is in the set, alive or on its way out; and
\* an id belongs to one manager.  (change_list_, worldMan_set_ and
\* waiting_remove_map_ are changed by two threads and four functions.)
ManagerInOnePlace ==
  /\ \A m \in Manager :
       /\ m \in available <=> wid[m] = None
       /\ m \in available => /\ change_list[m] = 0 /\ waiting[m] = 0
                             /\ m \notin worldMan_set \cup actived \cup forbid
       /\ m \notin available => (change_list[m] = 1 <=> m \notin worldMan_set)
       /\ waiting[m] > 0 <=> m \notin available /\ state[m] = "INVALID"
  /\ \A m, n \in Manager : wid[m] = wid[n] /\ wid[m] # None => m = n

\* What the lookups find is what is there: the two indexes of a world agree
\* with each other and with the manager, except for the world the master
\* thread is just announcing.
IndexExact ==
  \A w \in Wid :
    /\ w \in active_map => wid_index[w] # None
    /\ wid_index[w] # None =>
         /\ wid[wid_index[w]] = w
         /\ state[wid_index[w]] # "INVALID"
         /\ (wid_index[w] \notin actived => mpc = "active" /\ mworld = w)
         /\ (w \notin active_map => mpc \in {"active", "register"} /\ mworld = w)
    /\ w \notin active_map /\ wid_index[w] = None =>
         \A m \in actived : wid[m] # w

\* The assertions: the erases of RemoveWorldManager and RemoveInsWorldMan
\* remove one element, change_list_ holds 1 or -1 and DoInsert and DoDelete
\* succeed, DriveMachine never meets BS_INVALID, player_count_ is positive
\* when a player leaves, and a battleground never has too many players.
AssertsHold ==
  /\ \A m \in actived :
       /\ state[m] # "INVALID"
       /\ state[m] = "CLOSING" => wid_index[wid[m]] = m /\ wid[m] \in active_map
  /\ \A m \in Manager :
       /\ change_list[m] = 1 => m \notin worldMan_set
       /\ waiting[m] > 0 => m \in worldMan_set /\ change_list[m] = 0
       /\ wid[m] # None /\ KindOf(m) = "bg" => player_count[m] <= MaxCount["bg"]
  /\ \A p \in Player, m \in Manager :
       ppc[p] = "leave" /\ wid[m] = pworld[p] => player_count[m] > 0
  /\ mpc = "index" => wid_index[mworld] = None
  /\ mpc = "register" => mworld \notin active_map

\* The players that count for a world.
Counted(w) == {p \in Player : /\ pworld[p] = w
                              /\ ppc[p] \in {"in", "offline", "leave"}}

\* player_count_, which decides whether the world goes on and whether there
\* is room, is the number of players that entered and have not left, whatever
\* the order of logins, refusals, logouts and closing.
PlayerCountExact ==
  \A m \in actived : player_count[m] = Cardinality(Counted(wid[m]))

\* A world with enough players in it is closed only because its result is
\* known or its whole survival time is over.
BusyWorldStays ==
  [][\A m \in Manager :
       /\ state[m] = "RUNNING" /\ state'[m] = "CLOSING"
       /\ result[m] = "UNDONE" /\ max_left[m] >= 0
       => Cardinality(Counted(wid[m])) < MinCount[KindOf(m)]]_vars

\* Every player of a closing world knows that it has to go: it is quitting,
\* or its WORLD_CLOSING is still queued.  The exception is a player that was
\* inserted after the broadcast.
ClosingTold ==
  \A p \in Player :
    /\ ppc[p] = "in" /\ p \notin late
    /\ Found(pworld[p]) /\ state[wid_index[pworld[p]]] = "CLOSING"
    => quitting[p] \/ <<p, pworld[p]>> \in closing_msgs

\* Every world that is made ends and its WorldManager returns to the pool:
\* the countdown of each cluster gets its turn although all clusters share
\* one tick counter.
ManagerReturns ==
  \A m \in Manager : m \notin available ~> m \in available \/ aborted

\* The worlds as the master server and the players see them.
SpanOf(w) ==
  IF w \in active_map
  THEN IF state[wid_index[w]] = "CLOSING" THEN "closing" ELSE "open"
  ELSE IF w[2] > cur_tag_id[w[1]] \/ (mworld = w /\ mpc \in {"index", "active",
                                                            "register"})
       THEN "none" ELSE "gone"

InsideOf(w) == IF w \in active_map THEN Counted(w) ELSE {}

Span == INSTANCE WorldSpan WITH
          Capacity <- Cardinality(Manager),
          span <- [w \in Wid |-> SpanOf(w)],
          inside <- [w \in Wid |-> InsideOf(w)],
          stopped <- aborted

\* The clusters implement WorldSpan.
ImplementsSpan == Span!Spec

=============================================================================
