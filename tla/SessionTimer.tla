---------------------------- MODULE SessionTimer ----------------------------
(***************************************************************************)
(* Timed tasks and the action sessions of players and npcs.  A Unit runs   *)
(* one ActiveSession at a time and queues the next ones; the session's     *)
(* timer is a task of TimedTaskManager, whose REPEAT and END messages come *)
(* back to the unit through the object message queue.                      *)
(*                                                                         *)
(* The timer thread runs Tick.  A unit's handlers run on any thread of the *)
(* RunnablePool under the unit's lock, so each one is an action; Tick      *)
(* takes the locks of the manager once to collect what has expired and     *)
(* once more for every expired task, and units may cancel and add tasks in *)
(* between.  Batches of messages run on different threads: messages arrive *)
(* in any order.                                                           *)
(*                                                                         *)
(* A session is its id and its timer: what kind it is decides how its      *)
(* StartSession, RepeatSession and Mutable answer, so every answer is      *)
(* possible here.  A unit is addressed by its slot, as npcs are; a player  *)
(* is also a unit that may go offline, which keeps its sessions and denies *)
(* their messages until the player is released.                            *)
(***************************************************************************)
EXTENDS Integers, FiniteSets

CONSTANTS
  Unit,          \* slots of units
  MaxSessions,   \* kMaxUnitSessions
  MaxTimes,      \* bound: repetitions of a timer
  MaxInterval,   \* bound: ticks of an interval
  MaxTask,       \* bound: tasks ever added
  MaxSes,        \* bound: sessions a unit ever starts
  None

ASSUME ConstAssumption ==
  /\ MaxSessions \in Nat \ {0} /\ MaxTimes \in Nat \ {0}
  /\ MaxInterval \in Nat /\ MaxTask \in Nat /\ MaxSes \in Nat

\* None is no session.
ASSUME NoneAssumption == \A s \in 1 .. MaxSes, t \in 1 .. MaxTask :
                           None # [ses |-> s, task |-> t]

VARIABLES
  tasks_set,        \* the timers that run
  active_tasks,     \* their ids
  canceled_tasks,   \* ids to be dropped when they expire
  expired_tasks,    \* what Tick has taken out and not handled yet
  cur_highest_id,
  msgs,             \* messages on their way to units
  cur_session,      \* per unit: session id and task id, 0 if released
  session_list,     \* per unit: how many sessions wait
  cur_assigned_ses_id,
  offline           \* units that are players in STATE_OFFLINE

timer == <<tasks_set, active_tasks, canceled_tasks, expired_tasks,
           cur_highest_id>>
unit  == <<cur_session, session_list, cur_assigned_ses_id, offline>>
vars  == <<timer, msgs, unit>>

Id(t) == t.task
Ids(S) == {Id(t) : t \in S}

Init ==
  /\ tasks_set = {} /\ active_tasks = {} /\ canceled_tasks = {}
  /\ expired_tasks = {} /\ cur_highest_id = 0
  /\ msgs = {}
  /\ cur_session = [u \in Unit |-> None]
  /\ session_list = [u \in Unit |-> 0]
  /\ cur_assigned_ses_id = [u \in Unit |-> 0]
  /\ offline = {}

-----------------------------------------------------------------------------
(* TimedTaskManager *)

\* The task that AddTimedTask would make for a session.
NewTask(u, ses, n, i) ==
  [task |-> cur_highest_id + 1, unit |-> u, ses |-> ses, times |-> n,
   interval |-> i, left |-> i]

\* Fault: a task that Tick has taken out is canceled as well.
CancelAny(ids) == canceled_tasks \cup ids

\* Cancel: only what is in active_tasks_ can be canceled.
Cancel(ids) == canceled_tasks \cup (ids \cap active_tasks)

\* A handler cancels the tasks ids and adds the tasks T (none or one).
Manage(ids, T) ==
  /\ canceled_tasks' = Cancel(ids)
  /\ tasks_set' = tasks_set \cup T
  /\ active_tasks' = active_tasks \cup Ids(T)
  /\ cur_highest_id' = cur_highest_id + Cardinality(T)
  /\ cur_highest_id' <= MaxTask
  /\ UNCHANGED expired_tasks

Due == {t \in tasks_set : t.left <= 1}

\* Fault: the ids of what has expired stay active.
GetExpiredKeepsIds ==
  /\ expired_tasks = {}
  /\ tasks_set' = {[t EXCEPT !.left = @ - 1] : t \in tasks_set \ Due}
  /\ expired_tasks' = Due
  /\ UNCHANGED <<active_tasks, canceled_tasks, cur_highest_id, msgs, unit>>

\* Timer::Tick moves the clock, GetExpired takes out what is due.
GetExpired ==
  /\ expired_tasks = {}
  /\ tasks_set' = {[t EXCEPT !.left = @ - 1] : t \in tasks_set \ Due}
  /\ active_tasks' = active_tasks \ Ids(Due)
  /\ expired_tasks' = Due
  /\ UNCHANGED <<canceled_tasks, cur_highest_id, msgs, unit>>

\* The message that TaskQueueRunable::Run sends for an expired task.
Message(t) ==
  [op |-> IF t.times > 1 THEN "REPEAT" ELSE "END", task |-> t.task,
   unit |-> t.unit, ses |-> t.ses, times |-> t.times - 2]

TickCanceled(t) ==
  /\ t \in expired_tasks /\ Id(t) \in canceled_tasks
  /\ canceled_tasks' = canceled_tasks \ {Id(t)}
  /\ expired_tasks' = expired_tasks \ {t}
  /\ UNCHANGED <<tasks_set, active_tasks, cur_highest_id, msgs, unit>>

\* Fault: the repetitions are not counted.
TickRepeatForever(t) ==
  /\ t \in expired_tasks /\ Id(t) \notin canceled_tasks
  /\ t.times > 1
  /\ tasks_set' = tasks_set \cup {[t EXCEPT !.left = t.interval]}
  /\ active_tasks' = active_tasks \cup {Id(t)}
  /\ expired_tasks' = expired_tasks \ {t}
  /\ msgs' = msgs \cup {Message(t)}
  /\ UNCHANGED <<canceled_tasks, cur_highest_id, unit>>

\* OP_REPEAT: again after the interval, whoever may have tried to cancel it
\* in the meantime.
TickRepeat(t) ==
  /\ t \in expired_tasks /\ Id(t) \notin canceled_tasks
  /\ t.times > 1
  /\ tasks_set' = tasks_set \cup {[t EXCEPT !.times = @ - 1, !.left = t.interval]}
  /\ active_tasks' = active_tasks \cup {Id(t)}
  /\ expired_tasks' = expired_tasks \ {t}
  /\ msgs' = msgs \cup {Message(t)}
  /\ UNCHANGED <<canceled_tasks, cur_highest_id, unit>>

TickEnd(t) ==
  /\ t \in expired_tasks /\ Id(t) \notin canceled_tasks
  /\ t.times = 1
  /\ expired_tasks' = expired_tasks \ {t}
  /\ msgs' = msgs \cup {Message(t)}
  /\ UNCHANGED <<tasks_set, active_tasks, canceled_tasks, cur_highest_id, unit>>

-----------------------------------------------------------------------------
(* Unit *)

\* Bound: the sessions of a unit, those that wait included.
Room(u) == cur_assigned_ses_id'[u] + session_list'[u] <= MaxSes

\* StartSession with n sessions waiting, after the current one is gone: the
\* first k - 1 do not start and end at once, the k-th sets its timer; or none
\* of them starts.  ids are the tasks the handler cancels before.
StartSession(u, n, ids) ==
  \/ /\ Manage(ids, {})
     /\ cur_session' = [cur_session EXCEPT ![u] = None]
     /\ session_list' = [session_list EXCEPT ![u] = 0]
     /\ cur_assigned_ses_id' = [cur_assigned_ses_id EXCEPT ![u] = @ + n]
     /\ UNCHANGED offline
  \/ \E k \in 1 .. n, times \in 1 .. MaxTimes, i \in 0 .. MaxInterval :
       LET ses == cur_assigned_ses_id[u] + k IN
       /\ Manage(ids, {NewTask(u, ses, times, i)})
       /\ cur_session' = [cur_session EXCEPT ![u] =
                            [ses |-> ses, task |-> cur_highest_id + 1]]
       /\ session_list' = [session_list EXCEPT ![u] = n - k]
       /\ cur_assigned_ses_id' = [cur_assigned_ses_id EXCEPT ![u] = ses]
       /\ UNCHANGED offline

\* Fault: the timer is set again under the old session id.
AutoSetTimerSameId(u) ==
  \E i \in 0 .. MaxInterval :
    LET ses == cur_session[u].ses IN
    /\ Manage({cur_session[u].task}, {NewTask(u, ses, 1, i)})
    /\ cur_session' = [cur_session EXCEPT ![u] =
                         [ses |-> ses, task |-> cur_highest_id + 1]]
    /\ UNCHANGED <<cur_assigned_ses_id, offline>>

\* AutoSetTimer of a session whose timer runs: cancel, a new session id, and
\* a new timer.
AutoSetTimer(u) ==
  \E i \in 0 .. MaxInterval :
    LET ses == cur_assigned_ses_id[u] + 1 IN
    /\ Manage({cur_session[u].task}, {NewTask(u, ses, 1, i)})
    /\ cur_session' = [cur_session EXCEPT ![u] =
                         [ses |-> ses, task |-> cur_highest_id + 1]]
    /\ cur_assigned_ses_id' = [cur_assigned_ses_id EXCEPT ![u] = ses]
    /\ UNCHANGED offline

\* How many sessions AddSession leaves in the list: those it does not
\* exclude, none if the list was full.
Kept(u) == IF session_list[u] >= MaxSessions THEN {0} ELSE 0 .. session_list[u]

AddFirst(u) ==
  /\ u \notin offline /\ cur_session[u] = None
  /\ \E n \in Kept(u) : StartSession(u, n + 1, {})
  /\ Room(u)
  /\ UNCHANGED msgs

\* The current session goes on and the new one waits.
AddNext(u) ==
  /\ u \notin offline /\ cur_session[u] # None
  /\ \E n \in Kept(u) : session_list' = [session_list EXCEPT ![u] = n + 1]
  /\ UNCHANGED <<timer, msgs, cur_session, cur_assigned_ses_id, offline>>
  /\ Room(u)

\* Nothing waits and the current session is Mutable, or it has run for too
\* long: it is deleted, which cancels its timer.
AddInstead(u) ==
  /\ u \notin offline /\ cur_session[u] # None /\ 0 \in Kept(u)
  /\ StartSession(u, 1, {cur_session[u].task})
  /\ Room(u)
  /\ UNCHANGED msgs

\* Mutable sets the timer of the current session again and says no.
AddRetimed(u) ==
  /\ u \notin offline /\ cur_session[u] # None /\ 0 \in Kept(u)
  /\ AutoSetTimer(u)
  /\ session_list' = [session_list EXCEPT ![u] = 1]
  /\ UNCHANGED msgs
  /\ Room(u)

ClearSessions(u) ==
  /\ u \notin offline /\ cur_session[u] # None
  /\ Manage({cur_session[u].task}, {})
  /\ cur_session' = [cur_session EXCEPT ![u] = None]
  /\ session_list' = [session_list EXCEPT ![u] = 0]
  /\ UNCHANGED <<msgs, cur_assigned_ses_id, offline>>

ClearNextSessions(u) ==
  /\ u \notin offline /\ session_list[u] > 0
  /\ session_list' = [session_list EXCEPT ![u] = 0]
  /\ UNCHANGED <<timer, msgs, cur_session, cur_assigned_ses_id, offline>>

\* The sessions of a player that goes offline are left as they are.
PlayerLogout(u) ==
  /\ u \notin offline
  /\ offline' = offline \cup {u}
  /\ UNCHANGED <<timer, msgs, cur_session, session_list, cur_assigned_ses_id>>

\* The slot goes back to its pool, to be used again: the id counter stays.
Release(u) ==
  /\ u \in offline \/ cur_session[u] # None
  /\ Manage(IF cur_session[u] = None THEN {} ELSE {cur_session[u].task}, {})
  /\ cur_session' = [cur_session EXCEPT ![u] = None]
  /\ session_list' = [session_list EXCEPT ![u] = 0]
  /\ offline' = offline \ {u}
  /\ UNCHANGED <<msgs, cur_assigned_ses_id>>

IsCurSessionValid(m) ==
  cur_session[m.unit] # None /\ cur_session[m.unit].ses = m.ses

\* InterMsgFilter: what a player in STATE_OFFLINE does not get.
Denied(m) == m.unit \in offline

\* Fault: the filter of messages denies those of normal players as well.
IgnoredAlways(m) ==
  /\ m \in msgs
  /\ msgs' = msgs \ {m}
  /\ UNCHANGED <<timer, unit>>

\* A message of a session that is over, or one that InterMsgFilter denies to
\* a player that is offline, whatever session it is of.
Ignored(m) ==
  /\ m \in msgs
  /\ Denied(m) \/ ~IsCurSessionValid(m)
  /\ msgs' = msgs \ {m}
  /\ UNCHANGED <<timer, unit>>

\* SESSION_END, or a REPEAT whose RepeatSession says no.  EndSessionProc
\* forgets the timer and does not cancel it.
SessionEnd(m) ==
  /\ m \in msgs /\ ~Denied(m) /\ IsCurSessionValid(m)
  /\ msgs' = msgs \ {m}
  /\ StartSession(m.unit, session_list[m.unit], {})

SessionRepeat(m) ==
  /\ m \in msgs /\ ~Denied(m) /\ IsCurSessionValid(m)
  /\ m.op = "REPEAT"
  /\ msgs' = msgs \ {m}
  /\ UNCHANGED <<timer, unit>>

\* The last repetition may ask for a timer of its own.
SessionRetimed(m) ==
  /\ m \in msgs /\ ~Denied(m) /\ IsCurSessionValid(m)
  /\ m.op = "REPEAT" /\ m.times <= 0
  /\ msgs' = msgs \ {m}
  /\ AutoSetTimer(m.unit)
  /\ UNCHANGED session_list
  /\ Room(m.unit)

-----------------------------------------------------------------------------
Tick == GetExpired \/ \E t \in expired_tasks : \/ TickCanceled(t)
                                               \/ TickRepeat(t) \/ TickEnd(t)

Receive(m) == Ignored(m) \/ SessionEnd(m) \/ SessionRepeat(m)
              \/ SessionRetimed(m)

Order(u) == \/ AddFirst(u) \/ AddNext(u) \/ AddInstead(u) \/ AddRetimed(u)
            \/ ClearSessions(u) \/ ClearNextSessions(u)
            \/ PlayerLogout(u) \/ Release(u)

Next == Tick \/ (\E m \in msgs : Receive(m)) \/ \E u \in Unit : Order(u)

Spec == Init /\ [][Next]_vars

\* The timer ticks, every message is dispatched in the end, and a player
\* that is offline is released (OfflineLeaves of PlayerLifecycle).
Fairness ==
  /\ WF_vars(Tick)
  /\ \A u \in Unit :
       WF_vars(\E m \in msgs : m.unit = u /\ (Ignored(m) \/ SessionEnd(m)
                                              \/ SessionRepeat(m)))
  /\ \A u \in Unit : WF_vars(u \in offline /\ Release(u))

LiveSpec == Spec /\ Fairness

-----------------------------------------------------------------------------
(* Properties *)

Task == [task : 1 .. MaxTask, unit : Unit, ses : 1 .. MaxSes,
         times : 1 .. MaxTimes, interval : 0 .. MaxInterval,
         left : Int]
Msg  == [op : {"REPEAT", "END"}, task : 1 .. MaxTask, unit : Unit,
         ses : 1 .. MaxSes, times : Int]

TypeOK ==
  /\ tasks_set \subseteq Task /\ expired_tasks \subseteq Task
  /\ active_tasks \subseteq 1 .. MaxTask /\ canceled_tasks \subseteq 1 .. MaxTask
  /\ cur_highest_id \in 0 .. MaxTask
  /\ msgs \subseteq Msg
  /\ cur_session \in [Unit -> [ses : 1 .. MaxSes, task : 1 .. MaxTask]
                                \cup {None}]
  /\ session_list \in [Unit -> 0 .. MaxSessions]
  /\ cur_assigned_ses_id \in [Unit -> 0 .. MaxSes]
  /\ offline \subseteq Unit

\* The assertions of TimedTaskManager: active_tasks_ is exactly the ids of
\* tasks_set_, no id is in it twice, and what Tick is working on is in
\* neither, so that it can be inserted again.
TaskSetsAgree ==
  /\ active_tasks = Ids(tasks_set)
  /\ \A s, t \in tasks_set \cup expired_tasks : Id(s) = Id(t) => s = t
  /\ active_tasks \cap Ids(expired_tasks) = {}

\* canceled_tasks_ does not grow: every id in it is still to be met by Tick.
CanceledIsMet == canceled_tasks \subseteq active_tasks \cup Ids(expired_tasks)

\* No session is forgotten: as long as it is the current one of a unit that
\* is not offline, its timer runs, is being handled by Tick or has a message
\* on its way that ends it.  An offline player may have lost that message to
\* the filter.  Of neither has a cancel of an earlier timer hit the session,
\* and none hits one timer twice (the assertion of InsertToCanceledSet).
SessionWillEnd ==
  \A u \in Unit : cur_session[u] # None =>
    LET c == cur_session[u] IN
    /\ c.task \notin canceled_tasks
    /\ u \notin offline =>
         \/ \E t \in tasks_set \cup expired_tasks :
              t.task = c.task /\ t.unit = u /\ t.ses = c.ses
         \/ \E m \in msgs : /\ m.op = "END" /\ m.task = c.task /\ m.unit = u
                            /\ m.ses = c.ses

\* A session is only ever moved on by its own timer: no timer that was lost
\* to a late cancel, and no message of one, carries the id of the current
\* session, even when the unit's slot is used again.
OwnTimerOnly ==
  \A u \in Unit : cur_session[u] # None =>
    \A x \in tasks_set \cup expired_tasks \cup msgs :
      x.unit = u /\ x.ses = cur_session[u].ses => x.task = cur_session[u].task

\* A unit is never idle with sessions waiting.
NeverIdle == \A u \in Unit : session_list[u] > 0 => cur_session[u] # None

\* Every session comes to an end: by its own END message, or, if its player
\* went offline and the message was denied, with the release of the player.
SessionsEnd ==
  \A u \in Unit, s \in 1 .. MaxSes :
    (cur_session[u] # None /\ cur_session[u].ses = s)
      ~> ~(cur_session[u] # None /\ cur_session[u].ses = s)

\* A timer that was canceled too late does not repeat for ever: it runs out.
TimersRunOut == \A t \in 1 .. MaxTask : <>[](t \notin active_tasks)
=============================================================================
