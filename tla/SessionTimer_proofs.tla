------------------------- MODULE SessionTimer_proofs -------------------------
(***************************************************************************)
(* The safety properties of SessionTimer for every set of units and every  *)
(* value of the bounds.                                                    *)
(***************************************************************************)
EXTENDS SessionTimer, FiniteSetTheorems, TLAPS

Timers == tasks_set \cup expired_tasks
Traces == tasks_set \cup expired_tasks \cup msgs

\* Ids are handed out in increasing order, to tasks and to sessions.
IdsUsed ==
  /\ \A x \in Traces : /\ x.task <= cur_highest_id
                       /\ x.ses <= cur_assigned_ses_id[x.unit]
  /\ \A u \in Unit : cur_session[u] # None =>
       /\ cur_session[u].task <= cur_highest_id
       /\ cur_session[u].ses <= cur_assigned_ses_id[u]

\* What is left of one task belongs to one unit.
OneOwner == \A x, y \in Traces : x.task = y.task => x.unit = y.unit

\* Two units do not wait for one timer.
OwnTasks ==
  \A u, v \in Unit :
    (/\ cur_session[u] # None /\ cur_session[v] # None
     /\ cur_session[u].task = cur_session[v].task) => u = v

\* The bound on sessions leaves room for those that wait.
RoomLeft == \A u \in Unit : cur_assigned_ses_id[u] + session_list[u] <= MaxSes

IInv == /\ TypeOK /\ TaskSetsAgree /\ CanceledIsMet /\ SessionWillEnd
        /\ OwnTimerOnly /\ NeverIdle /\ IdsUsed /\ OneOwner /\ OwnTasks
        /\ RoomLeft

-----------------------------------------------------------------------------
(* Manage *)

\* A handler that cancels ids and adds no task.
LEMMA ManageNone ==
  ASSUME NEW ids, Manage(ids, {})
  PROVE  /\ canceled_tasks' = canceled_tasks \cup (ids \cap active_tasks)
         /\ tasks_set' = tasks_set /\ active_tasks' = active_tasks
         /\ expired_tasks' = expired_tasks
         /\ cur_highest_id' = cur_highest_id + 0
<1>1. Cardinality({}) = 0
  BY FS_EmptySet
<1>2. QED
  BY <1>1 DEF Manage, Cancel, Ids, Id

\* A handler that cancels ids and adds one task.
LEMMA ManageOne ==
  ASSUME NEW ids, NEW t, t.task = cur_highest_id + 1, Manage(ids, {t})
  PROVE  /\ canceled_tasks' = canceled_tasks \cup (ids \cap active_tasks)
         /\ tasks_set' = tasks_set \cup {t}
         /\ active_tasks' = active_tasks \cup {cur_highest_id + 1}
         /\ expired_tasks' = expired_tasks
         /\ cur_highest_id' = cur_highest_id + 1
         /\ cur_highest_id + 1 <= MaxTask
<1>1. Cardinality({t}) = 1
  BY FS_Singleton
<1>2. QED
  BY <1>1 DEF Manage, Cancel, Ids, Id

-----------------------------------------------------------------------------
(* What a unit's handlers do to the rest of the state: one lemma for those *)
(* that leave the unit without a session, one for those that set a timer,  *)
(* one for those that only change the list.                                *)

\* Only the timer of u's session is canceled.
OwnTimer(u, ids) ==
  \A i \in ids : cur_session[u] # None /\ i = cur_session[u].task

\* Only messages to u are consumed.
OwnMessage(u) == msgs' \subseteq msgs /\ \A x \in msgs : x.unit # u => x \in msgs'

\* A cancellation by u does not hit the session of another unit.
LEMMA CancelsOwn ==
  ASSUME IInv, NEW u \in Unit, NEW v \in Unit, u # v, NEW ids,
         OwnTimer(u, ids), cur_session[v] # None
  PROVE  cur_session[v].task \notin ids
BY DEF IInv, OwnTimer, OwnTasks

\* The unit is left without a session.
LEMMA Dropped ==
  ASSUME IInv, NEW u \in Unit, NEW ids, OwnTimer(u, ids), Manage(ids, {}),
         OwnMessage(u), NEW n \in Nat,
         cur_session' = [cur_session EXCEPT ![u] = None],
         session_list' = [session_list EXCEPT ![u] = 0],
         cur_assigned_ses_id' = [cur_assigned_ses_id EXCEPT ![u] = @ + n],
         cur_assigned_ses_id[u] + n <= MaxSes,
         offline' = offline \/ offline' = offline \ {u}
  PROVE  IInv'
<1> USE ConstAssumption DEF IInv
<1>1. /\ canceled_tasks' = canceled_tasks \cup (ids \cap active_tasks)
      /\ tasks_set' = tasks_set /\ active_tasks' = active_tasks
      /\ expired_tasks' = expired_tasks
      /\ cur_highest_id' = cur_highest_id
  BY ManageNone DEF TypeOK
<1>2. TypeOK'
  <2>1. cur_assigned_ses_id[u] + n \in 0 .. MaxSes
    BY DEF TypeOK
  <2>2. /\ cur_session' \in [Unit -> [ses : 1 .. MaxSes, task : 1 .. MaxTask]
                                         \cup {None}]
        /\ session_list' \in [Unit -> 0 .. MaxSessions]
        /\ cur_assigned_ses_id' \in [Unit -> 0 .. MaxSes]
    BY <2>1 DEF TypeOK
  <2>3. QED
    BY <1>1, <2>2 DEF TypeOK, OwnMessage
<1>3. TaskSetsAgree' /\ CanceledIsMet'
  BY <1>1 DEF TaskSetsAgree, CanceledIsMet
<1>4. SessionWillEnd'
  <2> SUFFICES ASSUME NEW v \in Unit, cur_session'[v] # None
               PROVE  /\ cur_session'[v].task \notin canceled_tasks'
                      /\ v \notin offline' =>
                           \/ \E t \in (tasks_set \cup expired_tasks)' :
                                /\ t.task = cur_session'[v].task /\ t.unit = v
                                /\ t.ses = cur_session'[v].ses
                           \/ \E m \in msgs' :
                                /\ m.op = "END" /\ m.task = cur_session'[v].task
                                /\ m.unit = v /\ m.ses = cur_session'[v].ses
    BY DEF SessionWillEnd
  <2>1. v # u /\ cur_session'[v] = cur_session[v] /\ cur_session[v] # None
    BY DEF TypeOK
  <2>2. cur_session[v].task \notin ids
    BY <2>1, CancelsOwn
  <2>3. QED
    BY <1>1, <2>1, <2>2 DEF SessionWillEnd, OwnMessage
<1>5. OwnTimerOnly'
  BY <1>1 DEF OwnTimerOnly, OwnMessage, TypeOK
<1>6. NeverIdle' /\ RoomLeft'
  BY DEF NeverIdle, RoomLeft, TypeOK
<1>7. IdsUsed'
  BY <1>1 DEF IdsUsed, Traces, OwnMessage, TypeOK, Task, Msg
<1>8. OneOwner' /\ OwnTasks'
  BY <1>1 DEF OneOwner, OwnTasks, Traces, OwnMessage, TypeOK
<1>9. QED
  BY <1>2, <1>3, <1>4, <1>5, <1>6, <1>7, <1>8

\* The unit's session sets a timer, under a session id of its own.
LEMMA Timed ==
  ASSUME IInv, NEW u \in Unit, NEW ids, OwnTimer(u, ids), OwnMessage(u),
         NEW ses \in Nat, ses > cur_assigned_ses_id[u],
         NEW times \in 1 .. MaxTimes, NEW i \in 0 .. MaxInterval,
         Manage(ids, {NewTask(u, ses, times, i)}),
         cur_session' = [cur_session EXCEPT ![u] =
                           [ses |-> ses, task |-> cur_highest_id + 1]],
         NEW n \in 0 .. MaxSessions,
         session_list' = [session_list EXCEPT ![u] = n],
         cur_assigned_ses_id' = [cur_assigned_ses_id EXCEPT ![u] = ses],
         ses + n <= MaxSes, UNCHANGED offline
  PROVE  IInv'
<1> USE ConstAssumption DEF IInv
<1> DEFINE t == NewTask(u, ses, times, i)
<1>0. t = [task |-> cur_highest_id + 1, unit |-> u, ses |-> ses,
           times |-> times, interval |-> i, left |-> i]
  BY DEF NewTask
<1> HIDE DEF t
<1>t. t.task = cur_highest_id + 1 /\ t.unit = u /\ t.ses = ses
  BY <1>0
<1>1. /\ canceled_tasks' = canceled_tasks \cup (ids \cap active_tasks)
      /\ tasks_set' = tasks_set \cup {t}
      /\ active_tasks' = active_tasks \cup {cur_highest_id + 1}
      /\ expired_tasks' = expired_tasks
      /\ cur_highest_id' = cur_highest_id + 1
      /\ cur_highest_id + 1 <= MaxTask
  <2>1. Manage(ids, {t})
    BY DEF t
  <2>2. QED
    BY <1>t, <2>1, ManageOne
<1>2. TypeOK'
  <2>1. t \in Task
    BY <1>0, <1>1 DEF TypeOK, Task
  <2>2. /\ ses \in 1 .. MaxSes /\ ses \in 0 .. MaxSes
        /\ cur_highest_id + 1 \in 1 .. MaxTask
        /\ cur_highest_id + 1 \in 0 .. MaxTask
    BY <1>1 DEF TypeOK
  <2>3. /\ cur_session' \in [Unit -> [ses : 1 .. MaxSes, task : 1 .. MaxTask]
                                         \cup {None}]
        /\ session_list' \in [Unit -> 0 .. MaxSessions]
        /\ cur_assigned_ses_id' \in [Unit -> 0 .. MaxSes]
    BY <2>2 DEF TypeOK
  <2>4. QED
    BY <1>1, <2>1, <2>2, <2>3 DEF TypeOK, OwnMessage
<1>3. \A x \in Traces : x.task # cur_highest_id + 1
  BY DEF IdsUsed, TypeOK, Traces, Task, Msg
<1>4. TaskSetsAgree'
  <2>1. active_tasks' = Ids(tasks_set')
    BY <1>1, <1>t DEF TaskSetsAgree, Ids, Id
  <2>2. \A x, y \in tasks_set' \cup expired_tasks' : Id(x) = Id(y) => x = y
    BY <1>1, <1>t, <1>3 DEF TaskSetsAgree, Id, Traces
  <2>3. active_tasks' \cap Ids(expired_tasks') = {}
    BY <1>1, <1>3 DEF TaskSetsAgree, Ids, Id, Traces
  <2>4. QED
    BY <2>1, <2>2, <2>3 DEF TaskSetsAgree
<1>5. CanceledIsMet'
  BY <1>1 DEF CanceledIsMet
<1>6. cur_highest_id + 1 \notin canceled_tasks'
  <2>1. cur_highest_id + 1 \notin active_tasks \cup Ids(expired_tasks)
    BY <1>3 DEF TaskSetsAgree, Ids, Id, Traces
  <2>2. QED
    BY <1>1, <2>1 DEF CanceledIsMet
<1>7. SessionWillEnd'
  <2> SUFFICES ASSUME NEW v \in Unit, cur_session'[v] # None
               PROVE  /\ cur_session'[v].task \notin canceled_tasks'
                      /\ v \notin offline' =>
                           \/ \E x \in (tasks_set \cup expired_tasks)' :
                                /\ x.task = cur_session'[v].task /\ x.unit = v
                                /\ x.ses = cur_session'[v].ses
                           \/ \E m \in msgs' :
                                /\ m.op = "END" /\ m.task = cur_session'[v].task
                                /\ m.unit = v /\ m.ses = cur_session'[v].ses
    BY DEF SessionWillEnd
  <2>1. CASE v = u
    <3>1. cur_session'[v] = [ses |-> ses, task |-> cur_highest_id + 1]
      BY <2>1 DEF TypeOK
    <3>2. t \in (tasks_set \cup expired_tasks)'
      BY <1>1
    <3>3. QED
      BY <1>6, <1>t, <2>1, <3>1, <3>2
  <2>2. CASE v # u
    <3>1. cur_session'[v] = cur_session[v] /\ cur_session[v] # None
      BY <2>2 DEF TypeOK
    <3>2. cur_session[v].task \notin ids
      BY <2>2, <3>1, CancelsOwn
    <3>3. QED
      BY <1>1, <2>2, <3>1, <3>2 DEF SessionWillEnd, OwnMessage
  <2>3. QED
    BY <2>1, <2>2
<1>8. \A x \in Traces : x.unit = u => x.ses # ses
  BY DEF IdsUsed, TypeOK, Traces, Task, Msg
<1>9. OwnTimerOnly'
  <2> SUFFICES ASSUME NEW v \in Unit, cur_session'[v] # None,
                      NEW x \in (tasks_set \cup expired_tasks \cup msgs)',
                      x.unit = v, x.ses = cur_session'[v].ses
               PROVE  x.task = cur_session'[v].task
    BY DEF OwnTimerOnly
  <2>1. x \in Traces \/ x = t
    BY <1>1 DEF OwnMessage, Traces
  <2>2. CASE v = u
    <3>1. cur_session'[v] = [ses |-> ses, task |-> cur_highest_id + 1]
      BY <2>2 DEF TypeOK
    <3>2. QED
      BY <1>8, <1>t, <2>1, <2>2, <3>1
  <2>3. CASE v # u
    <3>1. cur_session'[v] = cur_session[v] /\ x \in Traces
      BY <1>t, <2>1, <2>3 DEF TypeOK
    <3>2. QED
      BY <3>1 DEF OwnTimerOnly, Traces
  <2>4. QED
    BY <2>2, <2>3
<1>10. NeverIdle' /\ RoomLeft'
  <2>1. ses \in 1 .. MaxSes /\ cur_highest_id + 1 \in 1 .. MaxTask
    BY <1>1 DEF TypeOK
  <2>2. [ses |-> ses, task |-> cur_highest_id + 1] # None
    BY <2>1, NoneAssumption
  <2>3. QED
    BY <2>2 DEF NeverIdle, RoomLeft, TypeOK
<1>11. IdsUsed'
  <2>1. \A x \in Traces' : x \in Traces \/ x = t
    BY <1>1 DEF OwnMessage, Traces
  <2>2. \A x \in Traces : x.task \in Int /\ x.ses \in Int /\ x.unit \in Unit
    BY DEF TypeOK, Traces, Task, Msg
  <2>3. \A x \in Traces' : /\ x.task <= cur_highest_id'
                           /\ x.ses <= cur_assigned_ses_id'[x.unit]
    BY <1>1, <1>t, <2>1, <2>2 DEF IdsUsed, TypeOK
  <2>4. \A v \in Unit : cur_session'[v] # None =>
           /\ cur_session'[v].task <= cur_highest_id'
           /\ cur_session'[v].ses <= cur_assigned_ses_id'[v]
    BY <1>1 DEF IdsUsed, TypeOK
  <2>5. QED
    BY <2>3, <2>4 DEF IdsUsed
<1>12. OneOwner'
  <2>1. \A x \in Traces' : x \in Traces \/ x = t
    BY <1>1 DEF OwnMessage, Traces
  <2>2. QED
    BY <1>3, <1>t, <2>1 DEF OneOwner
<1>13. OwnTasks'
  <2>1. \A v \in Unit : cur_session[v] # None =>
           cur_session[v].task # cur_highest_id + 1
    BY DEF IdsUsed, TypeOK
  <2>2. QED
    BY <2>1 DEF OwnTasks, TypeOK
<1>14. QED
  BY <1>2, <1>4, <1>5, <1>7, <1>9, <1>10, <1>11, <1>12, <1>13

\* Only the list changes.
LEMMA Listed ==
  ASSUME IInv, NEW u \in Unit, NEW n \in 0 .. MaxSessions,
         session_list' = [session_list EXCEPT ![u] = n],
         n > 0 => cur_session[u] # None,
         cur_assigned_ses_id[u] + n <= MaxSes,
         UNCHANGED <<timer, msgs, cur_session, cur_assigned_ses_id, offline>>
  PROVE  IInv'
<1> USE DEF IInv, timer
<1>1. TypeOK'
  BY DEF TypeOK
<1>2. TaskSetsAgree' /\ CanceledIsMet' /\ OneOwner'
  BY DEF TaskSetsAgree, CanceledIsMet, OneOwner, Traces
<1>3. SessionWillEnd' /\ OwnTimerOnly' /\ IdsUsed' /\ OwnTasks'
  BY DEF SessionWillEnd, OwnTimerOnly, IdsUsed, OwnTasks, Traces
<1>4. NeverIdle' /\ RoomLeft'
  BY DEF NeverIdle, RoomLeft, TypeOK
<1>5. QED
  BY <1>1, <1>2, <1>3, <1>4

\* A message is consumed and nothing else happens; it is not one that the
\* current session of a unit that is not offline waits for.
LEMMA Consumed ==
  ASSUME IInv, NEW m \in msgs,
         m.op # "END" \/ ~IsCurSessionValid(m) \/ m.unit \in offline,
         msgs' = msgs \ {m}, UNCHANGED <<timer, unit>>
  PROVE  IInv'
<1> USE DEF IInv, timer, unit
<1>1. TypeOK'
  BY DEF TypeOK
<1>2. TaskSetsAgree' /\ CanceledIsMet' /\ OneOwner'
  BY DEF TaskSetsAgree, CanceledIsMet, OneOwner, Traces
<1>3. SessionWillEnd'
  BY DEF SessionWillEnd, IsCurSessionValid
<1>4. OwnTimerOnly' /\ IdsUsed' /\ NeverIdle' /\ RoomLeft' /\ OwnTasks'
  BY DEF OwnTimerOnly, IdsUsed, Traces, NeverIdle, RoomLeft, OwnTasks
<1>5. QED
  BY <1>1, <1>2, <1>3, <1>4

\* A player goes offline: less is promised of its session.
LEMMA LoggedOut ==
  ASSUME IInv, NEW u \in Unit, PlayerLogout(u)
  PROVE  IInv'
<1> USE DEF IInv, PlayerLogout, timer
<1>1. TypeOK'
  BY DEF TypeOK
<1>2. TaskSetsAgree' /\ CanceledIsMet' /\ OneOwner'
  BY DEF TaskSetsAgree, CanceledIsMet, OneOwner, Traces
<1>3. SessionWillEnd'
  BY DEF SessionWillEnd
<1>4. OwnTimerOnly' /\ IdsUsed' /\ NeverIdle' /\ RoomLeft' /\ OwnTasks'
  BY DEF OwnTimerOnly, IdsUsed, Traces, NeverIdle, RoomLeft, OwnTasks
<1>5. QED
  BY <1>1, <1>2, <1>3, <1>4

\* StartSession, called with the first n sessions of a list.
LEMMA Started ==
  ASSUME IInv, NEW u \in Unit, NEW n \in 0 .. MaxSessions, NEW ids,
         OwnTimer(u, ids), OwnMessage(u), StartSession(u, n, ids),
         cur_assigned_ses_id[u] + n <= MaxSes
  PROVE  IInv'
<1> USE ConstAssumption
<1>0. cur_assigned_ses_id[u] \in Nat
  BY DEF IInv, TypeOK
<1>1. CASE /\ Manage(ids, {})
           /\ cur_session' = [cur_session EXCEPT ![u] = None]
           /\ session_list' = [session_list EXCEPT ![u] = 0]
           /\ cur_assigned_ses_id' = [cur_assigned_ses_id EXCEPT ![u] = @ + n]
           /\ UNCHANGED offline
  <2>1. n \in Nat
    OBVIOUS
  <2>2. QED
    BY <1>1, <2>1, Dropped
<1>2. ASSUME NEW k \in 1 .. n, NEW times \in 1 .. MaxTimes,
             NEW i \in 0 .. MaxInterval,
             Manage(ids, {NewTask(u, cur_assigned_ses_id[u] + k, times, i)}),
             cur_session' = [cur_session EXCEPT ![u] =
                               [ses |-> cur_assigned_ses_id[u] + k,
                                task |-> cur_highest_id + 1]],
             session_list' = [session_list EXCEPT ![u] = n - k],
             cur_assigned_ses_id' = [cur_assigned_ses_id EXCEPT ![u] =
                                       cur_assigned_ses_id[u] + k],
             UNCHANGED offline
      PROVE  IInv'
  <2> DEFINE ses == cur_assigned_ses_id[u] + k
  <2>1. /\ ses \in Nat /\ ses > cur_assigned_ses_id[u]
        /\ n - k \in 0 .. MaxSessions /\ ses + (n - k) <= MaxSes
    BY <1>0
  <2> HIDE DEF ses
  <2>2. /\ Manage(ids, {NewTask(u, ses, times, i)})
        /\ cur_session' = [cur_session EXCEPT ![u] =
                             [ses |-> ses, task |-> cur_highest_id + 1]]
        /\ cur_assigned_ses_id' = [cur_assigned_ses_id EXCEPT ![u] = ses]
    BY <1>2 DEF ses
  <2>3. QED
    BY <1>2, <2>1, <2>2, Timed
<1>3. QED
  BY <1>1, <1>2 DEF StartSession

\* AutoSetTimer of the current session.
LEMMA Retimed ==
  ASSUME IInv, NEW u \in Unit, cur_session[u] # None, OwnMessage(u),
         AutoSetTimer(u), NEW n \in 0 .. MaxSessions,
         session_list' = [session_list EXCEPT ![u] = n], Room(u)
  PROVE  IInv'
<1> USE ConstAssumption
<1> DEFINE ses == cur_assigned_ses_id[u] + 1
<1>1. PICK i \in 0 .. MaxInterval :
        /\ Manage({cur_session[u].task}, {NewTask(u, ses, 1, i)})
        /\ cur_session' = [cur_session EXCEPT ![u] =
                             [ses |-> ses, task |-> cur_highest_id + 1]]
        /\ cur_assigned_ses_id' = [cur_assigned_ses_id EXCEPT ![u] = ses]
        /\ UNCHANGED offline
  BY DEF AutoSetTimer
<1>2. ses \in Nat /\ ses > cur_assigned_ses_id[u] /\ 1 \in 1 .. MaxTimes
  BY DEF IInv, TypeOK
<1>3. ses + n <= MaxSes
  BY <1>1 DEF IInv, TypeOK, Room
<1>4. OwnTimer(u, {cur_session[u].task})
  BY DEF OwnTimer
<1> HIDE DEF ses
<1>5. QED
  BY <1>1, <1>2, <1>3, <1>4, Timed

-----------------------------------------------------------------------------
(* Tick *)

LEMMA GetExpiredKeeps == IInv /\ GetExpired => IInv'
<1> SUFFICES ASSUME IInv, GetExpired PROVE IInv'
  OBVIOUS
<1> USE DEF IInv
<1> DEFINE D(t) == [t EXCEPT !.left = @ - 1]
<1>0. /\ tasks_set' = {D(t) : t \in tasks_set \ Due}
      /\ active_tasks' = active_tasks \ Ids(Due)
      /\ expired_tasks' = Due /\ expired_tasks = {}
      /\ Due \subseteq tasks_set
      /\ UNCHANGED <<canceled_tasks, cur_highest_id, msgs, unit>>
  BY DEF GetExpired, Due
<1>1. \A t \in tasks_set : /\ D(t) \in Task /\ D(t).task = t.task
                           /\ D(t).unit = t.unit /\ D(t).ses = t.ses
  BY DEF TypeOK, Task
<1> HIDE DEF D
<1>2. \A x \in Timers' : \E t \in tasks_set :
         t.task = x.task /\ t.unit = x.unit /\ t.ses = x.ses
  BY <1>0, <1>1 DEF Timers
<1>3. \A t \in tasks_set : \E x \in Timers' :
         t.task = x.task /\ t.unit = x.unit /\ t.ses = x.ses
  <2> SUFFICES ASSUME NEW t \in tasks_set
               PROVE  \E x \in Timers' :
                        t.task = x.task /\ t.unit = x.unit /\ t.ses = x.ses
    OBVIOUS
  <2>1. CASE t \in Due
    BY <1>0, <2>1 DEF Timers
  <2>2. CASE t \notin Due
    <3>1. D(t) \in Timers'
      BY <1>0, <2>2 DEF Timers
    <3>2. QED
      BY <1>1, <3>1
  <2>3. QED
    BY <2>1, <2>2
<1>4. TypeOK'
  BY <1>0, <1>1 DEF TypeOK, unit
<1>5. TaskSetsAgree'
  <2>1. \A s, t \in tasks_set : s.task = t.task => s = t
    BY DEF TaskSetsAgree, Id
  <2>2. active_tasks' = Ids(tasks_set')
    <3>1. \A id : id \in Ids(tasks_set') <=>
                    \E t \in tasks_set \ Due : id = t.task
      BY <1>0, <1>1 DEF Ids, Id
    <3>2. \A id : id \in active_tasks' <=>
                    \E t \in tasks_set \ Due : id = t.task
      BY <1>0, <2>1 DEF TaskSetsAgree, Ids, Id
    <3>3. QED
      BY <3>1, <3>2
  <2>3. \A x, y \in tasks_set' \cup expired_tasks' : Id(x) = Id(y) => x = y
    BY <1>0, <1>1, <2>1 DEF Id
  <2>4. active_tasks' \cap Ids(expired_tasks') = {}
    BY <1>0
  <2>5. QED
    BY <2>2, <2>3, <2>4 DEF TaskSetsAgree
<1>6. CanceledIsMet'
  BY <1>0 DEF CanceledIsMet, Ids
<1>7. SessionWillEnd'
  BY <1>0, <1>3 DEF SessionWillEnd, Timers, unit
<1>8. OwnTimerOnly'
  BY <1>0, <1>2 DEF OwnTimerOnly, Timers, unit
<1>9. NeverIdle' /\ RoomLeft' /\ OwnTasks'
  BY <1>0 DEF NeverIdle, RoomLeft, OwnTasks, unit
<1>10. IdsUsed'
  BY <1>0, <1>2 DEF IdsUsed, Timers, Traces, unit
<1>11. OneOwner'
  BY <1>0, <1>2 DEF OneOwner, Timers, Traces
<1>12. QED
  BY <1>4, <1>5, <1>6, <1>7, <1>8, <1>9, <1>10, <1>11

LEMMA CanceledKeeps == \A t : IInv /\ TickCanceled(t) => IInv'
<1> SUFFICES ASSUME NEW t, IInv, TickCanceled(t) PROVE IInv'
  OBVIOUS
<1> USE DEF IInv
<1>1. /\ t \in expired_tasks /\ t.task \in canceled_tasks
      /\ canceled_tasks' = canceled_tasks \ {t.task}
      /\ expired_tasks' = expired_tasks \ {t}
      /\ UNCHANGED <<tasks_set, active_tasks, cur_highest_id, msgs, unit>>
  BY DEF TickCanceled, Id
<1>2. TypeOK'
  BY <1>1 DEF TypeOK, unit
<1>3. TaskSetsAgree'
  BY <1>1 DEF TaskSetsAgree, Ids
<1>4. CanceledIsMet'
  BY <1>1 DEF CanceledIsMet, Ids, Id
<1>5. SessionWillEnd'
  BY <1>1 DEF SessionWillEnd, unit
<1>6. OwnTimerOnly' /\ IdsUsed' /\ OneOwner'
  BY <1>1 DEF OwnTimerOnly, IdsUsed, OneOwner, Traces, unit
<1>7. NeverIdle' /\ RoomLeft' /\ OwnTasks'
  BY <1>1 DEF NeverIdle, RoomLeft, OwnTasks, unit
<1>8. QED
  BY <1>2, <1>3, <1>4, <1>5, <1>6, <1>7

LEMMA TickRepeatKeeps == \A t : IInv /\ TickRepeat(t) => IInv'
<1> SUFFICES ASSUME NEW t, IInv, TickRepeat(t) PROVE IInv'
  OBVIOUS
<1> USE DEF IInv
<1> DEFINE r == [t EXCEPT !.times = @ - 1, !.left = t.interval]
           m == Message(t)
<1>1. /\ t \in expired_tasks /\ t.task \notin canceled_tasks /\ t.times > 1
      /\ tasks_set' = tasks_set \cup {r}
      /\ active_tasks' = active_tasks \cup {t.task}
      /\ expired_tasks' = expired_tasks \ {t}
      /\ msgs' = msgs \cup {m}
      /\ UNCHANGED <<canceled_tasks, cur_highest_id, unit>>
  BY DEF TickRepeat, Id
<1>2. /\ r \in Task /\ r.task = t.task /\ r.unit = t.unit /\ r.ses = t.ses
  <2>1. /\ t \in Task /\ t.times - 1 \in 1 .. MaxTimes /\ t.interval \in Int
    BY <1>1, ConstAssumption DEF TypeOK, Task
  <2>2. QED
    BY <2>1 DEF Task
<1>3. m \in Msg /\ m.task = t.task /\ m.unit = t.unit /\ m.ses = t.ses
  BY <1>1 DEF TypeOK, Task, Msg, Message
<1> HIDE DEF r, m
<1>4. TypeOK'
  BY <1>1, <1>2, <1>3 DEF TypeOK, unit, Task
<1>5. \A s \in Timers : s.task = t.task => s = t
  BY <1>1 DEF TaskSetsAgree, Id, Timers
<1>5a. t \notin tasks_set
  BY <1>1 DEF TaskSetsAgree, Ids, Id
<1>6. TaskSetsAgree'
  <2>1. active_tasks' = Ids(tasks_set')
    BY <1>1, <1>2 DEF TaskSetsAgree, Ids, Id
  <2>2. \A x, y \in tasks_set' \cup expired_tasks' : Id(x) = Id(y) => x = y
    BY <1>1, <1>2, <1>5, <1>5a DEF TaskSetsAgree, Id, Timers
  <2>3. active_tasks' \cap Ids(expired_tasks') = {}
    BY <1>1, <1>5 DEF TaskSetsAgree, Ids, Id, Timers
  <2>4. QED
    BY <2>1, <2>2, <2>3 DEF TaskSetsAgree
<1>7. CanceledIsMet'
  BY <1>1 DEF CanceledIsMet, Ids, Id
<1>8. SessionWillEnd'
  BY <1>1, <1>2 DEF SessionWillEnd, unit
<1>9. OwnTimerOnly'
  BY <1>1, <1>2, <1>3 DEF OwnTimerOnly, unit
<1>10. IdsUsed'
  BY <1>1, <1>2, <1>3 DEF IdsUsed, Traces, unit
<1>11. OneOwner'
  BY <1>1, <1>2, <1>3 DEF OneOwner, Traces
<1>12. NeverIdle' /\ RoomLeft' /\ OwnTasks'
  BY <1>1 DEF NeverIdle, RoomLeft, OwnTasks, unit
<1>13. QED
  BY <1>4, <1>6, <1>7, <1>8, <1>9, <1>10, <1>11, <1>12

LEMMA TickEndKeeps == \A t : IInv /\ TickEnd(t) => IInv'
<1> SUFFICES ASSUME NEW t, IInv, TickEnd(t) PROVE IInv'
  OBVIOUS
<1> USE DEF IInv
<1> DEFINE m == Message(t)
<1>1. /\ t \in expired_tasks /\ t.task \notin canceled_tasks /\ t.times = 1
      /\ expired_tasks' = expired_tasks \ {t}
      /\ msgs' = msgs \cup {m}
      /\ UNCHANGED <<tasks_set, active_tasks, canceled_tasks, cur_highest_id,
                     unit>>
  BY DEF TickEnd, Id
<1>2. /\ m \in Msg /\ m.task = t.task /\ m.unit = t.unit /\ m.ses = t.ses
      /\ m.op = "END"
  BY <1>1 DEF TypeOK, Task, Msg, Message
<1> HIDE DEF m
<1>3. TypeOK'
  BY <1>1, <1>2 DEF TypeOK, unit
<1>4. TaskSetsAgree'
  BY <1>1 DEF TaskSetsAgree, Ids
<1>5. CanceledIsMet'
  BY <1>1 DEF CanceledIsMet, Ids, Id
<1>6. SessionWillEnd'
  BY <1>1, <1>2 DEF SessionWillEnd, unit
<1>7. OwnTimerOnly'
  BY <1>1, <1>2 DEF OwnTimerOnly, unit
<1>8. IdsUsed' /\ OneOwner'
  BY <1>1, <1>2 DEF IdsUsed, OneOwner, Traces, unit
<1>9. NeverIdle' /\ RoomLeft' /\ OwnTasks'
  BY <1>1 DEF NeverIdle, RoomLeft, OwnTasks, unit
<1>10. QED
  BY <1>3, <1>4, <1>5, <1>6, <1>7, <1>8, <1>9

-----------------------------------------------------------------------------
(* The handlers of units *)

\* The bound holds for the sessions that StartSession was called with.
LEMMA RoomBefore ==
  ASSUME IInv, NEW u \in Unit, NEW n \in Nat, NEW ids,
         StartSession(u, n, ids), Room(u)
  PROVE  cur_assigned_ses_id[u] + n <= MaxSes
<1>0. /\ cur_assigned_ses_id \in [Unit -> 0 .. MaxSes]
      /\ session_list \in [Unit -> 0 .. MaxSessions]
      /\ MaxSes \in Nat
  BY ConstAssumption DEF IInv, TypeOK
<1>1. cur_assigned_ses_id'[u] + session_list'[u] <= MaxSes
  BY DEF Room
<1>2. CASE /\ session_list' = [session_list EXCEPT ![u] = 0]
           /\ cur_assigned_ses_id' = [cur_assigned_ses_id EXCEPT ![u] = @ + n]
  BY <1>0, <1>1, <1>2
<1>3. CASE \E k \in 1 .. n :
             /\ session_list' = [session_list EXCEPT ![u] = n - k]
             /\ cur_assigned_ses_id' =
                  [cur_assigned_ses_id EXCEPT ![u] = cur_assigned_ses_id[u] + k]
  BY <1>0, <1>1, <1>3
<1>4. QED
  BY <1>2, <1>3 DEF StartSession

LEMMA OrderKeeps == \A u \in Unit : IInv /\ Order(u) => IInv'
<1> SUFFICES ASSUME NEW u \in Unit, IInv, Order(u) PROVE IInv'
  OBVIOUS
<1> USE ConstAssumption
<1>0. /\ cur_assigned_ses_id \in [Unit -> 0 .. MaxSes]
      /\ session_list \in [Unit -> 0 .. MaxSessions]
      /\ cur_assigned_ses_id[u] + session_list[u] <= MaxSes
      /\ \A n \in Kept(u) : n \in Nat /\ n + 1 \in 0 .. MaxSessions
  BY DEF IInv, TypeOK, RoomLeft, Kept
<1>1. msgs' = msgs => OwnMessage(u)
  BY DEF OwnMessage
<1>2. OwnTimer(u, {}) /\ (cur_session[u] # None
                            => OwnTimer(u, {cur_session[u].task}))
  BY DEF OwnTimer
<1>3. CASE AddFirst(u)
  <2>1. PICK n \in Kept(u) : StartSession(u, n + 1, {})
    BY <1>3 DEF AddFirst
  <2>2. cur_assigned_ses_id[u] + (n + 1) <= MaxSes
    <3>1. n + 1 \in Nat /\ Room(u)
      BY <1>0, <1>3 DEF AddFirst
    <3>2. QED
      BY <2>1, <3>1, RoomBefore
  <2>3. QED
    BY <1>0, <1>1, <1>2, <1>3, <2>1, <2>2, Started DEF AddFirst
<1>4. CASE AddNext(u)
  <2>1. PICK n \in Kept(u) : session_list' = [session_list EXCEPT ![u] = n + 1]
    BY <1>4 DEF AddNext
  <2>2. cur_assigned_ses_id[u] + (n + 1) <= MaxSes
    BY <1>0, <1>4, <2>1 DEF AddNext, Room
  <2>3. QED
    BY <1>0, <1>4, <2>1, <2>2, Listed DEF AddNext
<1>5. CASE AddInstead(u)
  <2>1. cur_assigned_ses_id[u] + 1 <= MaxSes
    BY <1>5, RoomBefore DEF AddInstead
  <2>2. QED
    BY <1>0, <1>1, <1>2, <1>5, <2>1, Started DEF AddInstead
<1>6. CASE AddRetimed(u)
  <2>1. 1 \in 0 .. MaxSessions
    OBVIOUS
  <2>2. QED
    BY <1>1, <1>6, <2>1, Retimed DEF AddRetimed
<1>7. CASE ClearSessions(u)
  <2>1. cur_assigned_ses_id' = [cur_assigned_ses_id EXCEPT ![u] = @ + 0]
    BY <1>0, <1>7 DEF ClearSessions
  <2>2. cur_assigned_ses_id[u] + 0 <= MaxSes /\ 0 \in Nat
    BY <1>0
  <2>3. QED
    BY <1>1, <1>2, <1>7, <2>1, <2>2, Dropped DEF ClearSessions
<1>8. CASE ClearNextSessions(u)
  <2>1. 0 \in 0 .. MaxSessions /\ cur_assigned_ses_id[u] + 0 <= MaxSes
    BY <1>0
  <2>2. ~(0 > 0)
    OBVIOUS
  <2>3. QED
    BY <1>8, <2>1, <2>2, Listed DEF ClearNextSessions
<1>9. CASE PlayerLogout(u)
  BY <1>9, LoggedOut
<1>10. CASE Release(u)
  <2>1. cur_assigned_ses_id' = [cur_assigned_ses_id EXCEPT ![u] = @ + 0]
    BY <1>0, <1>10 DEF Release
  <2>2. cur_assigned_ses_id[u] + 0 <= MaxSes /\ 0 \in Nat
    BY <1>0
  <2>3. PICK ids : /\ ids = IF cur_session[u] = None THEN {}
                             ELSE {cur_session[u].task}
                   /\ OwnTimer(u, ids)
    BY <1>2
  <2>4. QED
    BY <1>1, <1>10, <2>1, <2>2, <2>3, Dropped DEF Release
<1>11. QED
  BY <1>3, <1>4, <1>5, <1>6, <1>7, <1>8, <1>9, <1>10 DEF Order

LEMMA ReceiveKeeps == \A m \in msgs : IInv /\ Receive(m) => IInv'
<1> SUFFICES ASSUME NEW m \in msgs, IInv, Receive(m) PROVE IInv'
  OBVIOUS
<1> USE ConstAssumption
<1>0. /\ m.unit \in Unit
      /\ session_list \in [Unit -> 0 .. MaxSessions]
      /\ cur_assigned_ses_id[m.unit] + session_list[m.unit] <= MaxSes
  BY DEF IInv, TypeOK, Msg, RoomLeft
<1>1. msgs' = msgs \ {m} => OwnMessage(m.unit)
  BY DEF OwnMessage
<1>2. CASE Ignored(m)
  BY <1>2, Consumed DEF Ignored, Denied
<1>3. CASE SessionEnd(m)
  <2>1. OwnTimer(m.unit, {})
    BY DEF OwnTimer
  <2>2. QED
    BY <1>0, <1>1, <1>3, <2>1, Started DEF SessionEnd
<1>4. CASE SessionRepeat(m)
  BY <1>4, Consumed DEF SessionRepeat
<1>5. CASE SessionRetimed(m)
  <2>1. session_list' = [session_list EXCEPT ![m.unit] = session_list[m.unit]]
    BY <1>0, <1>5 DEF SessionRetimed
  <2>2. QED
    BY <1>0, <1>1, <1>5, <2>1, Retimed DEF SessionRetimed, IsCurSessionValid
<1>6. QED
  BY <1>2, <1>3, <1>4, <1>5 DEF Receive

-----------------------------------------------------------------------------
(* The theorems *)

LEMMA InitInv == Init => IInv
<1> SUFFICES ASSUME Init PROVE IInv
  OBVIOUS
<1> USE ConstAssumption DEF Init
<1>1. TypeOK
  BY DEF TypeOK
<1>2. TaskSetsAgree /\ CanceledIsMet
  BY DEF TaskSetsAgree, CanceledIsMet, Ids
<1>3. SessionWillEnd /\ OwnTimerOnly /\ NeverIdle
  BY DEF SessionWillEnd, OwnTimerOnly, NeverIdle
<1>4. IdsUsed /\ OneOwner /\ OwnTasks /\ RoomLeft
  BY DEF IdsUsed, OneOwner, OwnTasks, RoomLeft, Traces
<1>5. QED
  BY <1>1, <1>2, <1>3, <1>4 DEF IInv

LEMMA NextInv == IInv /\ [Next]_vars => IInv'
<1> SUFFICES ASSUME IInv, [Next]_vars PROVE IInv'
  OBVIOUS
<1>1. CASE UNCHANGED vars
  BY <1>1 DEF IInv, vars, timer, unit, TypeOK, TaskSetsAgree, CanceledIsMet,
              SessionWillEnd, OwnTimerOnly, NeverIdle, IdsUsed, OneOwner,
              OwnTasks, RoomLeft, Traces
<1>2. CASE Tick
  BY <1>2, GetExpiredKeeps, CanceledKeeps, TickRepeatKeeps, TickEndKeeps
     DEF Tick
<1>3. CASE \E m \in msgs : Receive(m)
  BY <1>3, ReceiveKeeps
<1>4. CASE \E u \in Unit : Order(u)
  BY <1>4, OrderKeeps
<1>5. QED
  BY <1>1, <1>2, <1>3, <1>4 DEF Next

LEMMA Inductive == Spec => []IInv
<1>1. QED
  BY InitInv, NextInv, PTL DEF Spec

\* The types of the state of the timed tasks and of the units.
THEOREM TypeCorrect == Spec => []TypeOK
<1>1. IInv => TypeOK
  BY DEF IInv
<1>2. QED
  BY <1>1, Inductive, PTL

\* The assertions of TimedTaskManager's insertions and of GetExpired hold,
\* whatever is added and canceled while Tick is at work.
THEOREM SetsAgree == Spec => []TaskSetsAgree
<1>1. IInv => TaskSetsAgree
  BY DEF IInv
<1>2. QED
  BY <1>1, Inductive, PTL

\* canceled_tasks_ holds only ids that Tick has still to meet.
THEOREM CanceledCorrect == Spec => []CanceledIsMet
<1>1. IInv => CanceledIsMet
  BY DEF IInv
<1>2. QED
  BY <1>1, Inductive, PTL

\* No session of a unit that is not offline is left without a timer or a
\* message that ends it, and none is hit by the cancel of another.
THEOREM SessionsAreTimed == Spec => []SessionWillEnd
<1>1. IInv => SessionWillEnd
  BY DEF IInv
<1>2. QED
  BY <1>1, Inductive, PTL

\* A message of an earlier timer never moves on the current session.
THEOREM OwnTimers == Spec => []OwnTimerOnly
<1>1. IInv => OwnTimerOnly
  BY DEF IInv
<1>2. QED
  BY <1>1, Inductive, PTL

\* A unit with sessions waiting is busy with one.
THEOREM UnitsAreBusy == Spec => []NeverIdle
<1>1. IInv => NeverIdle
  BY DEF IInv
<1>2. QED
  BY <1>1, Inductive, PTL
=============================================================================
