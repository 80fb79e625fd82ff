# A verification project for the game server `gamed`

`gamed` (under `src/src/gamed/gs`) is the map server of a multi-player game. One
process holds the maps, the players that are on them, and the monsters, mines
and areas of the maps. Clients reach it through *link* servers; logins, saves
and moves between game servers go through *master* servers. This directory
models the parts of it where threads, queues and reused objects meet, checks the
models with TLC and proves what matters most with TLAPS.

## 1. The system

### Threads

| thread | what it does |
|---|---|
| net event loop | reads connections, fills the queues of the two message threads |
| `LinkMsgProcess` | messages of link servers: client commands, logouts, lost links |
| `MasterMsgProcess` | messages of masters: logins, RPC answers, lost masters |
| timer loop | a tick every 50 ms; queues `HeartbeatTick` on pool thread 0 |
| `RunnablePool` 0 | heartbeats of all objects and worlds, all world messages in order |
| `RunnablePool` 1 | object messages that were sent as "sequential" |
| `RunnablePool` 2.. | other object messages and tasks (`LogoutTask`, `RebornTask`, ...), round robin |
| combat tick | turns of the fights |
| main | start and stop |

Every object (`WorldObject`) has a mutex, which is taken with a time limit of 30 s or without one. Objects live in fixed
pools (`ObjectManager<T>`); a pointer is found without any lock, through a map
or by slot index, and locked afterwards. Players are known by role id; the ids
of npcs, mines and areas are made of their slot alone. This is the origin of
most of the hazards: whatever was found, collected, queued or sent before the
lock was taken may name the slot's *next* object.

### Components, their state, operations and what makes them correct

| component | state | operations | correct when |
|---|---|---|---|
| object pool and heartbeat scheduler, `global/obj_manager.h` | free list, `obj_set_`, `change_list_`, cursor, credit | Alloc, Free, Insert, Remove, DoChange, CollectHeartbeatObject, Heartbeat | the set catches up with what was inserted, the cursor never dangles, everyone is beaten, and only finished objects are |
| player lifecycle, `netmsg/`, `player/master_rpc.cpp`, `player/player.cpp` | role map, online map, per player: id, active, offline, connection ids, pending save | enter, logout, kick, change map, save answer or timeout, `LogoutTask` | maps agree with players, slots are neither lost nor dirty, an offline player leaves |
| npc lifecycle and map elements, `obj/npc.cpp`, `obj/monster_imp.cpp`, `scene/world_man.cpp` | npc and monster state, timers, `map_elem_map_`, forbid flag, queued tasks and messages | heartbeat, fights, death, rebirth, recycle, enable and disable, close | one recycling per npc, the element map catches up, a closed world empties |
| instances and battlegrounds, `scene/instance`, `scene/battle`, `scene/world_cluster.cpp` | world state, end times, controller maps, `waiting_remove_map_` | create, run, close, remove | no manager is lost or shared, who is inside is counted, every world ends |
| timed tasks and sessions, `global/timed_task.cpp`, `obj/unit.cpp` | task set, session lists | add, cancel, tick, REPEAT and END messages | the current session has a timer, an old timer never moves it on, sessions end |
| message queues, `global/inter_msg_queue.cpp` | queues per kind | add, dispatch | order of world messages and sequential object messages |
| network sessions, `netio/`, `netmsg/` | connections, receive queues, id maps of links and masters | connect, announce, lose, report, stop | nothing is kept of a server whose session is gone, a connected server becomes reachable |
| AOI, items, players' forty sub-systems, combat, task, achieve, skill, path finder, templates, scripts, log server | mostly data | | see `PROJECT.json`, each with the reason it is not modelled |

How they meet: the net threads create and mark players; the pool threads remove
them; the heartbeat of thread 0 times out their calls. Worlds create npcs on
thread 0, npcs answer by world messages; tasks remove them on other threads.
All objects share the `ObjectManager` code. `PROJECT.json` lists every component
and, under `hazards`, every place where this can go wrong.

## 2. The modules

| module | models | runs |
|---|---|---|
| `ObjectManager` | pool and heartbeat scheduler | `object_manager`, `object_manager_live` |
| `ObjectManager_proofs` | its theorems | |
| `SlotUse` | abstract: how the slots of a pool are used | (refined by `ObjectManager`, `PlayerLifecycle`, `NpcLifecycle`) |
| `PlayerLifecycle` | players on one server | `player_lifecycle`, `player_leaves`, and two violations |
| `PlayerLifecycle_proofs` | its theorems | |
| `RoleSession` | abstract: what the server promises about a role | (refined by `PlayerLifecycle`) |
| `RoleSession_proofs` | the two refinements of `PlayerLifecycle` | |
| `NpcLifecycle` | monsters, map elements, closing worlds | `npc_lifecycle`, `npc_leaves` |
| `NpcLifecycle_proofs` | its theorems | |
| `WorldSpan` | abstract: what the clusters of worlds promise | (refined by `SpecialWorld`) |
| `SpecialWorld` | instances and battlegrounds | `special_world`, `special_world_ends` |
| `SpecialWorld_proofs` | its theorems, the refinement included | |
| `SessionTimer` | timed tasks and the sessions of a unit | `session_timer` |
| `SessionTimer_proofs` | its theorems | |
| `NetSession` | connections to links and masters | `net_session` |
| `NetSession_proofs` | its theorems | |
| `MC...` | constants for TLC | |

Each module stands for one component, with what it needs of its neighbours (a queue, a task
thread, the master) as actions of its own. `NpcLifecycle` takes the closing of a world from
`SpecialWorld` as an order, `PlayerLifecycle` the loss of a connection from `NetSession` as
an event that may come at any time.

`SlotUse` ties the pool to its users: a slot is free, allocated, a member of the manager and
removed, in that order; it is removed under its lock, and the lock is kept until the slot is
free. `ObjectManager` has its own model of the threads that create and destroy objects, and all
that it shows is shown for owners that keep this contract. `UseImplemented` says that it
has no other owners, `PlayersUseSlots` and `NpcsUseSlots` that the players' and the npcs' threads
keep the contract. Each module maps its own state to a slot's phase and lock (`PhaseOf`, `LockOf`).
Two things are read off the modules and not proved: that the owners of `ObjectManager` may take
every step `SlotUse` allows to the phases (this would need `ENABLED`), and that the locks other handlers take, which
`ObjectManager` does not have, can only delay the tick. Mines and areas, which use the
same pools, are not modelled.

The operators marked "Fault" in the modules are wrong versions of the definition
that follows them; each breaks a property (`PROJECT.json`, `mutants`).

### ObjectManager

`life[o]` says how far the thread that owns the object has come in creating or
destroying it (`Gmatrix::AllocNpc`, `InsertNpcToMan`, `RemoveNpcFromMan`,
`FreeNpc`), one step per call, as other threads see the intermediate states.
The variables have the names of the members; `change_list_` keeps the pending
`ref_count` of each object, and objects are ordered by their slot number, as the
pointers of one pool are in `obj_set_`. A tick is `DoChange` (with the asserts of `DoInsert` and `DoDelete` in `ChangeAsserts`), some
`Collect` steps, then `LockForBeat` followed by `Beat` or `SkipInactive` for each
collected object.

Decisions:
- Whether an npc is idle is left open (any object may be idle at any moment);
  `idle_timer_` counts in `1 .. IDLE_LIMIT`, since 0 and 1 behave alike.
- `is_idle()` runs without the lock. A lost update of it equals a `PlayerEnterView`
  that did not happen, which the model allows.
- The managers are static objects, so `cur_obj_` and `heart_obj_count_` start at
  zero although no constructor sets them.
- `PhaseOf`: `setactive` (inserted, not yet active) is already a member, and an object is leaving
  from `RemoveNpcFromMan` until `FreeNpc`. `LockOf` tells the destroyer from the tick.
- `InitRuntimeData` is part of `Alloc`: nobody else sees the object in between.

### PlayerLifecycle

Each thread has a program counter. `find` steps read the role map without a lock
and put a slot in `ptr`; the following step takes the lock of that slot, whoever
it belongs to by then. `holder` and `on_holder` are the mutexes that are held over
several steps. A handler that does everything under one lock is one step.

Decisions:
- `tasks[r]` and `calls[s]` saturate: the bound stands for "so many or more", adding
  keeps it and taking one away may keep it. No step is disabled by a bound.
- `available` is a set here; that the pool is a FIFO is modelled and proved in
  `ObjectManager`.
- Lookup, allocation and entry in the map are one step of login: only the master
  thread extends the map.
- Any RPC answer may complete any outstanding save (calls are not numbered).
- A failed `ASSERT` stops the process (`aborted`); it calls `assert`, or `__assert__`
  under `NDEBUG` (`shared/base/assertx.h`). `Stopped` then is the only step, so that
  deadlock checking stays on for the running server. `LockTimeout`, the `MCHECK` of
  `timed_lock`, happens only in a circular wait (`Circular`). `OnlyCircularWait` shows that this
  leaves nothing out: whenever some threads wait for each other for ever, that circle is among them
  (`WaitsFor` names the holder of the mutex that a thread is about to take).
- `StageOf` is what `RoleSession` sees of a role: it is absent without an entry in the role map,
  entering until its player is active, then online or offline, leaving once the task has removed it, and
  stranded when `RedirectEnterWorld` has left its slot behind.
- `RedirectEnterWorld`'s early return is modelled as it is: the slot stays taken and
  is remembered in the history variable `leaked`.
- Left out: combat and dead states, `sid`, AOI, the number of failed saves, and the world's
  own list of players. That list is in `SpecialWorld`: a player whom the world refuses after its plane
  has taken it in (`world_man.cpp:528-538`) is freed by `tidy_up_failure` and stays in the plane's
  `players_map_`. `PoolClean` is therefore about the player's own members and the role map (no id,
  connection, call or role is left), not about what a world still knows of it.

### NpcLifecycle

`wm_msg` is the one FIFO of world messages that thread 0 handles; `obj_msg`
(closing messages), `tasks` and `talk` (combat messages) are unordered, as they are
spread over the other threads. `accepting` splits `AcceptingNpc` at the point where
the npc is already active and not yet announced: other threads may act on it there.
`life` is `leaving` while a task has removed the npc and still holds its lock.

Decisions:
- An element has one monster. Two monsters of one element still occur, by the order
  of enable, end and announcement.
- `WORLD_CLOSING` and `RELATE_MAP_ELEM_CLOSED` are handled alike (same test, same
  `RecycleSelf`) and are one kind of message.
- Timers expire at any heartbeat. The AI's choice to attack is open.
- Players are not modelled: a combat dialogue is a token (`ask`, `ask_notify`,
  `grant`, `fight`) for a slot, at most one of a kind per slot and started while there
  are fewer than `MaxTalk`, and the player's answer is any of those `PlayerCombat` can
  give, a refusal or silence included.
- `Default` are the elements whose npc is there from the start. Normal worlds (`Normal`) generate theirs
  before thread 0 starts, so that the announcements wait in the queue until the world can be found; for
  the queue this is the same as an order. The world of an instance or battleground is built by the master's
  thread (`CreateWorldMan`, `InitGenNpc`, `InsertWorldManager`), which accepts the npcs before the world
  is indexed (`ins_controller.cpp:91` and `:100`), while thread 0 goes on: a message it handles in between finds
  no world and is dropped (`DispatchToNone`, `gmatrix.cpp:507-512`). The history variable `unheard` holds the
  npcs whose announcement was lost so; their element's entry never names them. `ElemMapMatches` exempts
  them, and says that they are never npcs of a normal world.
- `InitGenNpcs` allocates all npcs before it accepts the first; the model takes them one by one. That an
  allocation or `Init` fails (`FreeWorldManager`) is left out.
- The model ends with the closing of a world, which then takes no npc and empties. Its removal and the
  reuse of its manager are in `SpecialWorld`. `WorldManager::Release` (`world_man.cpp:163-183`) does not
  clear `map_elem_map_`: what the next world of that manager finds in it is not modelled.
- Service npcs and world bosses are left out.

### SpecialWorld and WorldSpan

A `WorldManager` is taken from the pool both clusters share, prepared and registered by the
master thread (`CreateWorldMan`, `InsertIndex`, `SetActive`, `Register`), entered by players
(`FindWorld`, `CheckForbid`, `InsertPlayer`), driven by `Heartbeat` through running, closing
and the removal, and returned to the pool by `Tick` after `kWaitingRemoveDelay`. The steps of
one handler that other threads can see between are separate actions.

`WorldSpan` states what this is for: an id opens, closes once and is gone; players are
inside only in between and in one world at a time; there are never more worlds than
managers; no world stays open for ever. `SpecialWorld` defines what each world id shows
(`span`, `inside`) from the state of the manager that bears it and instantiates
`WorldSpan` with it.

Decisions:
- End times are kept as the seconds left, with -1 for "over". `Quiet`: a second is long
  compared with one handler, so the clock and the removal's countdown do not
  move inside one; heartbeats and ticks do.
- `OnRemove` is one step: its first statement, `ClrActive`, decides what a lookup finds.
- Which player the map team refuses is open. A refused player stays in the plane of the world
  (the code returns before it is taken out), so the world's own `get_player_count` is too
  high; `player_count` is what the closing depends on, and it is exact.
- `is_forbid_obj_insert_` is read before the lock of the insertion (`world_man.cpp:520`), so a
  player can enter after the closing was told, although the comment at
  `ins_worldman_imp.cpp:274` says "让玩家不能再进来" (no player can come in any more).
  The history variable `late` remembers these players; `ClosingTold` is about the others.
- A `WORLD_CLOSING` message that finds its role in another world fails `ASSERT(false)`
  (`player_msg_handler.cpp:130`) and stops the process (`aborted`). The code does nothing to prevent it, and no
  property forbids it: `AssertsHold` is about the assertions of the clusters and of the counts, up to that point.
- Left out: map teams, rewards, statistics and the scripted contents.

### SessionTimer

`tasks_set`, `active_tasks`, `canceled_tasks` are the members of `TimedTaskManager`;
`Tick` collects what has expired in one step and handles each expired task in another, with
cancellations and additions in between. `cur_session`, `session_list` and
`cur_assigned_ses_id` are the members of `Unit`.

Decisions:
- Messages to a unit arrive in any order, as batches of them are run by different threads.
- What a session answers when it starts, repeats or meets another one depends on its kind
  (there are twenty): every answer is possible.
- A unit may be a player that goes offline (`PlayerLogout`). It keeps its sessions and their timers, while
  `InterMsgFilter` denies it `SESSION_REPEAT` and `SESSION_END` (`Denied`, `inter_msg_filter.cpp:32,35`), so that
  its current session may be left without a timer and without a message. `SessionWillEnd` claims these only of
  units that are not offline. The session of an offline player ends with `Release`, which is fair here
  because an offline player leaves (`OfflineLeaves` of `PlayerLifecycle`); `SessionsEnd` rests on it. An
  offline player adds no sessions: client commands are refused, and of the messages only its
  heartbeat, a landmine's notice and a position query pass the filter.
- A unit is a slot, as for npcs; a message for the slot's last owner reaches the next one. Session
  numbers go on when the slot is used again, which is what `OwnTimerOnly` rests on.
  Players are addressed by role id, and a role that logs in again may get another slot
  with another counter: that is not covered.

### NetSession

One client per server in the net loop, two receive queues, the two message threads, the id maps
of `NetIO` and what `Gmatrix` keeps of a master (`svrid_to_masterid_map_`, and with `held`
its players, global data and counters). The handlers are one step each: other threads only read
the id map, once in a handler. Closing a connection is two (`OnClose` takes the session out,
`OnDestroy` looks the id up and queues the report), and the message thread may run between them.

Decisions:
- Session numbers are unique per kind. `TcpClient`, `TcpConnection` and the event loop are external;
  a client may connect at any time and lose its connection at any time, so messages are lost
  with the session but never reordered inside one.
- A server announces itself after it was greeted (`AnnounceGSInfo`), once per session (external).
- The server ids a master is in charge of are abstracted to the master itself.
- **A session that is lost while its announcement is still queued.** `OnClose` looks the id up
  and finds none. For a link, `LinkConnDestroyed` has no test for it: the plain `assert`
  of `RemoveLinkIdMapToSid` fails in the build with `assert`s (also for a session that was lost before it ever
  announced itself), and under `NDEBUG` the id of a dead session stays in the map until
  the next announcement. For a master, `MasterConnDestroyed` returns early; then the
  queued announcement is handled, the master's players and its server ids stay, and its
  next announcement meets the `ASSERT` of `SetSvrIdMapToMasterId` (`gmatrix.cpp:1736`), which is
  active in both builds and ends the process. The history variable `missed` holds these
  sessions; `NothingLeft` and `AssertsHold` say that there is no other way.
- `NDEBUG` is TRUE in the run: that build goes on after the link's `assert` and so has more
  behaviours. The makefiles set `DEBUG_VERSION = true` (`gamed/Rules.mk`), with which the server is
  built with its `assert`s; the theorems cover both builds.

## 3. What TLC checks

| run | instance | shows |
|---|---|---|
| `object_manager` | `MAX_COUNT` 3, `MM_HEARTBEAT_TICK` 2, `IDLE_LIMIT` 2 | membership, asserts, cursor, collection, free list, who is beaten |
| `object_manager_live` | `MAX_COUNT` 2, `MM_HEARTBEAT_TICK` 2, `IDLE_LIMIT` 3 | an object that stays is beaten again and again |
| `player_lifecycle` | 2 roles, 2 slots, 2 workers | role map, online map, pool, pending removals; threads block each other in one circle only |
| `player_leaves` | 2 roles, 1 slot, 1 worker | an offline player leaves; the server implements `RoleSession`, its liveness included |
| `npc_lifecycle` | 2 slots, a normal world and one that is built, an element in each (one reborn, retained and there from the start, one neither), `MaxTalk` 1 | late tasks and messages across slots and worlds, two monsters of one element, announcements that find no world |
| `npc_leaves` | 1 slot, 1 world that is built, 2 elements, `MaxTalk` 2 | dead npcs leave, closed worlds empty, combat keeps the model |
| `special_world` | 1 manager, 2 players, an id of each kind, `TicksPerSec` 2 | managers, indices, player counts, who is told of the closing, who is not closed |
| `special_world_ends` | 1 manager, 1 player, an id of each kind, `TicksPerSec` 4 | every manager returns; the clusters implement `WorldSpan`, its liveness included |
| `session_timer` | 1 unit that may go offline, 2 waiting sessions, timers of 2 repetitions and 2 ticks, 3 tasks, 4 sessions | task sets, cancellations, no stale timer, sessions and timers end |
| `net_session` | 1 link, 1 master, 3 sessions of each kind, `NDEBUG` | nothing is left of a lost server, the assertions, a connected server becomes reachable |

The two violation runs use the constants in their `.cfg` files.

Why the instances are large enough: the hazards need one slot that changes hands
(1 slot, 2 owners), one that changes hands while another is in use (2 slots), a
cursor with a neighbour on each side (3 objects), two tasks at a time (2 workers),
a manager that serves two worlds one after the other, with a player of the first still inside
(1 manager, 2 ids, 2 players), a timer that is replaced while its message is on its way (3 tasks),
a session that follows one whose announcement was overlooked and is lost itself (3 sessions),
and a queue in which a message of each side waits (`MaxQueue` bounds only the orders
that may still be sent; the npcs' own messages come on top of it). `npc_lifecycle` has
3.5 million states; with `MaxTalk` 2 it takes more time than a routine check should, and the cases that
need two dialogues are in `npc_leaves`. `net_session` with 2 masters
and 2 sessions of each kind (511,777 states, 3 minutes) passes as well. Sessions and tasks are numbered
and never reused, so the bounds of `session_timer` and `net_session` end the behaviours they
cut off in states where only the old ones go on. What depends on
the number of objects is proved for every number in section 4.

Fairness (used by the runs with temporal properties other than `BeatOnlyOwned` and
`BusyWorldStays`, which are about single steps):
- `ObjectManager`: the tick goes on (the timer is periodic), the destroyer finishes
  what it began; the mutex is fair to the beating thread (strong fairness of
  `LockForBeat`). Nobody has to create anything.
- `PlayerLifecycle`: threads go on; strong fairness where they take a mutex or a
  queued task; heartbeats go on and time out calls. Nothing is assumed of messages:
  the master may never answer.
- `NpcLifecycle`: thread 0 handles its queue, the master's thread finishes a world it has begun, queued tasks and messages are run in the
  end, timers expire in the end. Players need not answer.
- `SpecialWorld`: threads finish what they began, worlds beat, and strong fairness of `Tick` and
  `Second`: `Quiet` disables them while a handler is at work, and handlers are short, so an
  endless stream of logins does not stop the clock. Nobody has to log in, quit or log out.
- `SessionTimer`: the timer ticks, a unit's messages are handled in the end, and an offline player is
  released in the end, which `player_leaves` checks.
- `NetSession`: the threads go on and a server answers the greeting while the session lasts.
  Nothing is assumed of connecting, of losing a session or of stopping.

Two refinements are a `PROPERTY`. `ImplementsSpan` (`special_world_ends`): every step of `SpecialWorld`
is a step of `WorldSpan` on what the ids show, or shows nothing, and the fairness of
`WorldSpan` follows from that of the threads and the clock. `ImplementsSession` (`player_leaves`): the
same for `PlayerLifecycle` and `RoleSession`, whose fairness is that an admitted role is decided about and
an offline one leaves. The refinements of `SlotUse` have no fairness; they are proved and have no run
(TLC confirms them for `ObjectManager` and `PlayerLifecycle` on small instances, with
1,613,220 and 605,876 states).

Types are proved for every module (section 4) and have no run; nor have `PoolExact` (`NpcLifecycle`),
`CreditBounded` (`ObjectManager`) and `NeverIdle` (`SessionTimer`).

### Where the code and its own statements disagree

Two runs expect a violation; each states an assertion of the code.

| run | the code says | what happens |
|---|---|---|
| `player_task_assert` | `master_rpc.cpp:59` "必须是离线状态" (must be offline) | two ways to go offline queue two `LogoutTask`s; the second meets the role's next session |
| `player_lock_order` | `mutex.h:93` the lock is got in time | `ForEachPlayer` and `LogoutTask` take two locks in opposite order |

The models contain more behaviours of this kind, as the code has them. They are
not runs of their own, and the properties above are stated so that they account for them:

- `LinkPlayerLogout` locks the slot it found before: it may log out the slot's next player;
- a `RebornTask` that finds its npc recycled (`npc.cpp:70`), a fight that starts on a recycled
  monster (`npc.cpp:562`), a closing message that was meant for the slot's previous npc
  (`npc_msg_handler.cpp:59`): `aborted` in `NpcLifecycle` names which of them stopped the process;
- an npc of an instance whose announcement comes before its world (`unheard` in `NpcLifecycle`);
- a player inserted into a world that has already told its closing (`late` in `SpecialWorld`), one it
  refused that stays in its plane, and a closing message that finds its role in another world (`aborted`);
- an announcement that was overlooked (`missed` in `NetSession`).

## 4. What is proved

For every set of objects, roles, slots, connections and workers, and every value of the
bounds that the `ASSUME`s allow.

`ObjectManager_proofs` (from: `MAX_COUNT`, `MM_HEARTBEAT_TICK` and `IDLE_LIMIT` are positive
naturals). The inductive invariant joins the type invariant and four of the properties with
`ActiveIsOwned` (an active object has been finished by its owner) and two facts about the
tick thread (`CollectHasObjects`: collecting from an empty set, it has no credit left;
`LockedHasObject`: while it holds a lock it has an object). `PendingMembership` is the heart of
it: membership in `obj_set_` plus the pending count of an object is fixed by where its owner
is. That excludes a count outside -1 .. 1 and a deletion of what is not in the set, which
is what the code asserts. From it: `MembershipCorrect`, `ChangeAssertsHold`,
`TypeCorrect`, `CursorCorrect`, `CreditCorrect`, `FreeListCorrect`, and the action property `BeatCorrect`.
`OnceCorrect`, that no object is collected twice in a tick, has an invariant of its own (`OnceInv`):
the objects passed since the tick began form an arc of `obj_set_`, in the circular order of the
pointers, that ends at the cursor (`Arc`, `Shape`), and the credit left is less than `MM_HEARTBEAT_TICK` plus
the number of objects not yet passed (`RoundInv`); so the credit is spent before the arc closes. `UseImplemented` is the refinement of `SlotUse`. It needs
`LockInv` besides: an object between the manager and the pool is locked by its destroyer, and the tick
holds the lock of the object it beats.

`PlayerLifecycle_proofs` (from: `None` is no role, slot, connection, thread or
name of an assertion; worker names are not those of the other threads; slots are finite; bounds are positive). The inductive invariant has 17
parts. Five are properties themselves; the others say, for each point a thread can be at,
what it holds (`HolderInv`, `VisitInv`), what is true of the slot it works on (`PointInv`,
`FreshInv`, `GoneInv`, `NormalInv`), and how `xid`, `active`, `rolemap`, `online` and `available`
are tied to each other (`MappedInv`, `ActiveInv`, `OnlineInv`, `FreeInv`, `VisitedInv`). They are
needed because a thread acts on a slot some steps after it found it: each property is
only kept because nobody else can be at a conflicting point with the same slot. The proof
has one lemma per action that changes a slot. The actions that only move a thread, or only
touch a player's counters, are covered by three abstractions they imply (`MoveStep`,
`Light`, `Served`). TLC checked the invariant before it was proved. From it: `TypeCorrect`,
`MapMatches`, `OnlineMatches`, `ForEachIsSafe`, `AssertionsHold`, `PoolIsClean`, `SlotsAreKept`,
`OfflineIsRemembered`, `WaitsAreCircular`. The last one follows the holders
from any waiting thread: who holds a player and waits can only want `online_players_mutex_`
(`HolderInv`), whose holder, if it waits, is a `ForEachPlayer` that wants a player of the online map
(`VisitInv`), and the holder of that player waits too: it is a `LogoutTask`, as a player that is
still logging in is not in the map (`OnlineInv`).

`RoleSession_proofs` (from the same assumptions). `SessionImplemented` is the safety part of
`ImplementsSession`: each step moves one role to a next stage, or shows nothing. To the invariant
of `PlayerLifecycle` it adds `LeakedInv`: a leaked slot is not active, and no thread will work on it. No two roles have one
slot (`OneRole`), so a step on a slot shows for one role only; and the roles present are mapped
injectively into the slots other than the free one a login takes, which is the capacity. `PlayersUseSlots` is the
refinement of `SlotUse` and adds `UseInv`: a thread about to unlock does not have a leaving slot, and
a thread other than a worker gives back only a slot that was never offline.

`NpcLifecycle_proofs` (from: the slots are finite; elements, their worlds and their two flags are
typed; bounds are naturals). Taken together the properties are nearly inductive; what is added is that a
slot in use has an element (`HasElem`), that the pool lists each free slot once (`PoolInv`), that
queued messages name slots (`QueueObj`), and what is true while a world is built (`WorldInv`: normal
worlds can always be found, the others have an empty map before they can be, and an `unheard` npc is in use). The actions of one npc on another thread all have the effect of a step of its state
machine (`Machine`, `Fighting`), for which the invariant is proved once (`MachineTasks`, `NpcStep`).
`ElemMapMatches` rests on what `Append` and `Tail` of the one FIFO of world messages do to the future
contents of the map (`AppendHold`, `TailHold`); this is where the order of the queue is used. A dropped message
(`DropInv`) leaves them as they are, or it was the last word about an npc that is now `unheard`. From it: `TypeCorrect`,
`RecycleOnce`, `RebornQueued`, `ElemMapCorrect`, `CombatCorrect`, `PoolCorrect`, and `NpcsUseSlots`, the
refinement of `SlotUse`.

`SpecialWorld_proofs` (from: the limits are naturals, the delay and the ticks per second positive;
an instance is kept by one player; managers and players are finite sets; `None` is none of them).
Besides the properties themselves (`ManagerInOnePlace`, `IndexExact`, `ClosingTold`) the inductive
invariant says what is true of the world the master thread is just building (`MasterInv`,
`NewInv`), that tags are not used twice (`TagInv`), how a manager's flags, state and end times
move together (`LifeInv`, `RunInv`), and whom a plane holds (`PlaneInv`). `CountInv` is the
reason for most of it: `player_count` is the cardinality of the set of players that have entered, and
each handler that changes the one changes the other under the lock. From it: `TypeCorrect`,
`ManagersAreKept`, `IndexCorrect`, `AssertionsHold`, `CountCorrect`, `ClosingIsTold`,
the action property `BusyWorldsStay`, and `SpanImplemented`, the safety part of the refinement. Its one
idea that is not a case analysis is the capacity of `WorldSpan`: the worlds present are mapped
injectively into the managers (`ManagerInOnePlace`), and one manager is available when a
world opens. The liveness part of the refinement is left to TLC.

`SessionTimer_proofs` (from: the bounds are naturals, positive where a list or a timer needs it;
`None` is no session). The invariant adds to the properties that ids are used once (`IdsUsed`), that
a running task belongs to one unit (`OneOwner`), that no two units wait for one timer (`OwnTasks`;
an offline player's timer may be gone, so that `OneOwner` does not say it), and that the waiting
list has room (`RoomLeft`). From it: `TypeCorrect`, `SetsAgree`, `CanceledCorrect`,
`SessionsAreTimed`, `OwnTimers`, `UnitsAreBusy`.

`NetSession_proofs` (from: links and masters are disjoint, `None` is none of them, `MaxSid` is a
natural; both builds). `OneOwner` and `Announced` (a session number is claimed by one server, and a
queued announcement is of a session that is there, is being reported, or was missed) give `Backed`,
which is `NothingLeft` with the session number as a parameter. The `ASSERT` about a master's
server ids needs the order of the queue: `Fresh` and `Greeting` (a session announces itself once, after it
was greeted), `InOrder` (when an announcement is queued, the entry of the earlier session is gone, its
removal is queued before, or it was missed) and `Missed` (of two queued announcements of a server the
first is of a missed session). `StopLast` (nothing follows the stop message) gives the empty queues of ended threads.
From it: `TypeCorrect`, `NothingIsLeft`, `AssertionsHold`.

Every safety invariant and action property of a passing run is a theorem. Only model-checked are the
liveness properties and the liveness part of the two refinements that have one (fairness and `ENABLED` are beyond the
prover). No module declares a `RECURSIVE`
operator; induction over data is not used.

## 5. Plan

1. `MsgQueue`: the three queues and the pool's threads; abstract specification: world
   messages are handled in order, once. `NpcLifecycle` relies on it.
2. `ChangeMap`: two servers and the master composed from two player lifecycles; a role is
   on at most one server. With it, the numbering of RPC calls across two sessions of a role.
3. `CombatQueue`: the combat thread's manager and message queue (`combat_man`, `combat_mq`).
4. `MapTeam`: the teams that decide who may enter which instance, now an open choice in `SpecialWorld`.
5. `AreaLifecycle`: areas, the view of the AOI and the two kinds of object messages. What it is to
   settle: `AreaObj::LifeExhaust` has no state guard (`area.cpp:293`), so a second closing message queues
   a second `RecycleTask`; `AreaDoChange` (`scene/aoi.cpp:428`) lets go of `mutex_obj_map_` between looking at
   the objects and entering the area, so a player that leaves in between stays in the area's set; the
   view's messages reach an area in order, what the area forwards to players does not.
6. Gathering (`Matter`), `MapElemCtrller`.

## 6. Not modelled

`PROJECT.json` gives the reason for each component. In short:

- The share of the source that the modules stand for is small: of some 200,000 lines most are
  features of the game (about forty sub-systems of a player, items, combat rules, tasks,
  achievements, skills), which run under one player's lock and are driven by data templates and
  scripts that are not in the repository. Their hazards are those of their data, not of interleavings.
- Geometry over floating-point positions (AOI, movement, path finder, the `CGLib` library).
- Vendored code (`pugixml`, `wykobi`) and generated code (client protocol, RPC stubs).
- `shared/` (threads, mutexes, TCP, timers): the repository holds its headers only. It is
  modelled from its use and marked external.
- Within the modelled components: the shutdown of pools (`DeleteAllObjects`), service npcs and
  world bosses, world managers of ordinary maps, session ids of players that log in again, the
  content of messages.
- Six hazards in `PROJECT.json` have no property yet; each has a note.
