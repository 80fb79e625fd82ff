----------------------------- MODULE NetSession -----------------------------
(***************************************************************************)
(* The connections of a game server to its link and master servers.        *)
(*                                                                         *)
(* The net loop keeps one client per server, which connects again whenever *)
(* its connection is lost.  It puts what happens into two queues, one for  *)
(* the thread of LinkMsgProcess and one for that of MasterMsgProcess.      *)
(* These threads learn from the announcement of a server which id belongs  *)
(* to which session; the net loop looks the id up when it reports that a   *)
(* session is lost.  What a handler does is one action: the other threads  *)
(* only read the id map, and only once in a handler.                       *)
(***************************************************************************)
EXTENDS Naturals, Sequences

CONSTANTS
  Link, Master,   \* the servers, by their ids
  MaxSid,         \* bound: sessions of one kind
  NDEBUG,         \* the build: assert() is compiled out, ASSERT() is not
  None            \* -1, no id

ASSUME ConstAssumption ==
  /\ Link \cap Master = {} /\ None \notin Link \cup Master
  /\ MaxSid \in Nat /\ NDEBUG \in BOOLEAN

Peer == Link \cup Master
Kind == {"link", "master"}
KindOf(p) == IF p \in Link THEN "link" ELSE "master"

VARIABLES
  \* the net loop
  conn,          \* connection_ of each client, also in the session map; 0: none
  lost,          \* session that OnClose has taken out and not yet reported
  next_conn_id,
  net,           \* "run", then StopNetIO: "stopping", "stopped"
  said,          \* what the server at the other end has said in this session
  \* the two message threads
  queue,
  is_done,       \* the threads that have ended
  \* NetIO, Gmatrix
  mapto_sid,     \* linkid_mapto_sid_, masterid_mapto_sid_; 0: no entry
  svrid,         \* masters in svrid_to_masterid_map_
  held,          \* masters with players, global data or counters here
  missed,        \* sessions lost while their announcement was still queued
  aborted        \* the kind of assertion that has stopped the process

loop    == <<conn, lost, next_conn_id, net, said>>
maps    == <<mapto_sid, svrid, held>>
vars    == <<loop, queue, is_done, maps, missed, aborted>>

Init ==
  /\ conn = [p \in Peer |-> 0] /\ lost = [p \in Peer |-> 0]
  /\ next_conn_id = [k \in Kind |-> 0]
  /\ net = "run"
  /\ said = [p \in Peer |-> "nothing"]
  /\ queue = [k \in Kind |-> <<>>]
  /\ is_done = {}
  /\ mapto_sid = [p \in Peer |-> 0]
  /\ svrid = {} /\ held = {} /\ missed = {} /\ aborted = "no"

Msg(t, n, p) == [type |-> t, sid |-> n, id |-> p]

Put(k, m) == queue' = [queue EXCEPT ![k] = Append(@, m)]

\* GetLinkIdBySid, GetMasterIdBySid.
IdBySid(k, n) ==
  IF \E p \in Peer : KindOf(p) = k /\ mapto_sid[p] = n
  THEN CHOOSE p \in Peer : KindOf(p) = k /\ mapto_sid[p] = n
  ELSE None

-----------------------------------------------------------------------------
(* The net loop: one thread, so nothing else happens inside OnClose        *)

LoopIdle == \A p \in Peer : lost[p] = 0

\* NewConnection, OnConnected.
NewConnection(p) ==
  LET k == KindOf(p)
      n == next_conn_id[k] + 1
  IN
  /\ net = "run" /\ LoopIdle
  /\ conn[p] = 0 /\ n <= MaxSid
  /\ next_conn_id' = [next_conn_id EXCEPT ![k] = n]
  /\ conn' = [conn EXCEPT ![p] = n]
  /\ said' = [said EXCEPT ![p] = "nothing"]
  /\ Put(k, Msg("established", n, None))
  /\ UNCHANGED <<lost, net, is_done, maps, missed, aborted>>

\* OnRecv: the server answers the greeting with its id.
RecvAnnounce(p) ==
  /\ net = "run" /\ LoopIdle
  /\ conn[p] # 0 /\ said[p] = "greeted"
  /\ said' = [said EXCEPT ![p] = "announced"]
  /\ Put(KindOf(p), Msg("announce", conn[p], p))
  /\ UNCHANGED <<conn, lost, next_conn_id, net, is_done, maps, missed, aborted>>

\* OnRecv: a master sends players and data (bound: one message on its way).
RecvData(p) ==
  /\ net = "run" /\ LoopIdle
  /\ p \in Master /\ conn[p] # 0 /\ said[p] = "announced"
  /\ \A i \in DOMAIN queue["master"] :
       queue["master"][i] # Msg("data", conn[p], None)
  /\ Put("master", Msg("data", conn[p], None))
  /\ UNCHANGED <<loop, is_done, maps, missed, aborted>>

\* OnClose, first: RemoveConnection takes the session out of the map.
RemoveConnection(p) ==
  /\ net = "run" /\ LoopIdle
  /\ conn[p] # 0
  /\ lost' = [lost EXCEPT ![p] = conn[p]]
  /\ conn' = [conn EXCEPT ![p] = 0]
  /\ UNCHANGED <<next_conn_id, net, said, queue, is_done, maps, missed, aborted>>

\* Where the announcement of a session is still queued, nobody knows its id.
Overlooked(p, n) ==
  IF \E i \in DOMAIN queue[KindOf(p)] :
       queue[KindOf(p)][i] = Msg("announce", n, p)
  THEN {<<p, n>>} ELSE {}

\* ConnectDestroyed with the id that the session's number leads to.
Report(p, n) ==
  /\ Put(KindOf(p), Msg("destroyed", n, IdBySid(KindOf(p), n)))
  /\ missed' = missed \cup Overlooked(p, n)

\* OnClose, then: the report.
OnClose(p) ==
  /\ net = "run" /\ lost[p] # 0
  /\ Report(p, lost[p])
  /\ lost' = [lost EXCEPT ![p] = 0]
  /\ UNCHANGED <<conn, next_conn_id, net, said, is_done, maps, aborted>>

\* StopNetIO, LoopThreadRunStatusCB: the clients are deleted, OnDestroy.
StopNetIO ==
  /\ net = "run" /\ LoopIdle
  /\ net' = "stopping"
  /\ UNCHANGED <<conn, lost, next_conn_id, said, queue, is_done, maps, missed,
                 aborted>>

OnDestroy(p) ==
  /\ net = "stopping" /\ conn[p] # 0
  /\ Report(p, conn[p])
  /\ conn' = [conn EXCEPT ![p] = 0]
  /\ UNCHANGED <<lost, next_conn_id, net, said, is_done, maps, aborted>>

LoopEnds ==
  /\ net = "stopping" /\ \A p \in Peer : conn[p] = 0
  /\ net' = "stopped"
  /\ UNCHANGED <<conn, lost, next_conn_id, said, queue, is_done, maps, missed,
                 aborted>>

-----------------------------------------------------------------------------
(* StopNetmsgProcThread: first the link thread, then the master thread     *)

StopMsg == Msg("stop", 0, None)

\* Fault: the threads are stopped before the net loop.
StopProcThreadFirst(k) ==
  /\ k \notin is_done
  /\ \A i \in DOMAIN queue[k] : queue[k][i] # StopMsg
  /\ Put(k, StopMsg)
  /\ UNCHANGED <<loop, is_done, maps, missed, aborted>>

StopProcThread(k) ==
  /\ net = "stopped"
  /\ k = "master" => "link" \in is_done
  /\ k \notin is_done
  /\ \A i \in DOMAIN queue[k] : queue[k][i] # StopMsg
  /\ Put(k, StopMsg)
  /\ UNCHANGED <<loop, is_done, maps, missed, aborted>>

-----------------------------------------------------------------------------
(* The message threads.  Take(k, t): a message of type t is next.          *)

Take(k, t) ==
  /\ k \notin is_done
  /\ queue[k] # <<>> /\ Head(queue[k]).type = t
  /\ queue' = [queue EXCEPT ![k] = Tail(@)]

\* LinkOnConnected, MasterOnConnected: the greeting, if the session is there.
OnConnected(k) ==
  /\ Take(k, "established")
  /\ said' = [p \in Peer |-> IF KindOf(p) = k /\ conn[p] = Head(queue[k]).sid
                             THEN "greeted" ELSE said[p]]
  /\ UNCHANGED <<conn, lost, next_conn_id, net, is_done, maps, missed, aborted>>

\* assert(): compiled out under NDEBUG.
Checked(c) == IF c \/ NDEBUG THEN "no" ELSE "assert"

\* Fault: an entry that is there is kept.
AnnounceLinkInfoKeeps ==
  LET m == Head(queue["link"]) IN
  /\ Take("link", "announce")
  /\ mapto_sid' = [mapto_sid EXCEPT ![m.id] = IF @ = 0 THEN m.sid ELSE @]
  /\ UNCHANGED <<loop, is_done, svrid, held, missed, aborted>>

\* AnnounceLinkInfo: SetLinkIdMapToSid asserts that there is no entry.
AnnounceLinkInfo ==
  LET m == Head(queue["link"]) IN
  /\ Take("link", "announce")
  /\ aborted' = Checked(mapto_sid[m.id] = 0)
  /\ mapto_sid' = [mapto_sid EXCEPT ![m.id] = m.sid]
  /\ UNCHANGED <<loop, is_done, svrid, held, missed>>

\* AnnounceMasterInfo: the same, and SetSvrIdMapToMasterId ASSERTs it too.
AnnounceMasterInfo ==
  LET m == Head(queue["master"]) IN
  /\ Take("master", "announce")
  /\ aborted' = IF m.id \in svrid THEN "ASSERT" ELSE Checked(mapto_sid[m.id] = 0)
  /\ mapto_sid' = [mapto_sid EXCEPT ![m.id] = m.sid]
  /\ svrid' = svrid \cup {m.id}
  /\ UNCHANGED <<loop, is_done, held, missed>>

\* RemoveLinkIdMapToSid, RemoveMasterIdMapToSid: one entry is erased.
RemoveIdMapToSid(p) ==
  /\ aborted' = Checked(p # None /\ mapto_sid[p] # 0)
  /\ mapto_sid' = [q \in Peer |-> IF q = p THEN 0 ELSE mapto_sid[q]]

\* LinkConnDestroyed: LinkDisconnect logs the link's players out (the module
\* PlayerLifecycle), whatever the id.
LinkConnDestroyed ==
  /\ Take("link", "destroyed")
  /\ RemoveIdMapToSid(Head(queue["link"]).id)
  /\ UNCHANGED <<loop, is_done, svrid, held, missed>>

\* Fault: the id is removed without MasterDisconnect.
MasterConnDestroyedKeeps ==
  LET p == Head(queue["master"]).id IN
  /\ Take("master", "destroyed")
  /\ IF p = None THEN UNCHANGED <<mapto_sid, aborted>> ELSE RemoveIdMapToSid(p)
  /\ UNCHANGED <<loop, is_done, svrid, held, missed>>

\* MasterConnDestroyed: nothing without an id, else MasterDisconnect.
MasterConnDestroyed ==
  LET p == Head(queue["master"]).id IN
  /\ Take("master", "destroyed")
  /\ IF p = None THEN UNCHANGED <<maps, aborted>>
     ELSE /\ RemoveIdMapToSid(p)
          /\ held' = held \ {p}
          /\ svrid' = svrid \ {p}
  /\ UNCHANGED <<loop, is_done, missed>>

\* PlayerEnterWorld, PlayerChangeMap, GlobalDataChange: dropped without an id.
MasterData ==
  /\ Take("master", "data")
  /\ held' = held \cup ({IdBySid("master", Head(queue["master"]).sid)} \ {None})
  /\ UNCHANGED <<loop, is_done, mapto_sid, svrid, missed, aborted>>

\* ServerStatusNotify: the thread ends.
ServerStatusNotify(k) ==
  /\ Take(k, "stop")
  /\ is_done' = is_done \cup {k}
  /\ UNCHANGED <<loop, maps, missed, aborted>>

Handle(k) ==
  \/ OnConnected(k)
  \/ k = "link" /\ (AnnounceLinkInfo \/ LinkConnDestroyed)
  \/ k = "master" /\ (AnnounceMasterInfo \/ MasterConnDestroyed \/ MasterData)
  \/ ServerStatusNotify(k)

Run ==
  \/ \E p \in Peer : \/ NewConnection(p) \/ RecvAnnounce(p) \/ RecvData(p)
                     \/ RemoveConnection(p) \/ OnClose(p) \/ OnDestroy(p)
  \/ StopNetIO \/ LoopEnds
  \/ \E k \in Kind : StopProcThread(k) \/ Handle(k)

\* An assertion has failed, or both threads have ended.
Stopped == (aborted # "no" \/ is_done = Kind) /\ UNCHANGED vars

Next == (aborted = "no" /\ Run) \/ Stopped

Spec == Init /\ [][Next]_vars

\* The threads go on, and a server answers the greeting while the session
\* lasts.  Nothing is assumed of connecting, losing a session or stopping.
Live(A) == aborted = "no" /\ A

FairSpec ==
  /\ Spec
  /\ \A p \in Peer : /\ WF_vars(Live(RecvAnnounce(p))) /\ WF_vars(Live(OnClose(p)))
                     /\ WF_vars(Live(OnDestroy(p)))
  /\ \A k \in Kind : WF_vars(Live(Handle(k))) /\ WF_vars(Live(StopProcThread(k)))
  /\ WF_vars(Live(LoopEnds))

-----------------------------------------------------------------------------
(* Properties *)

Message == [type : {"established", "announce", "data", "destroyed", "stop"},
            sid : 0 .. MaxSid, id : Peer \cup {None}]

TypeOK ==
  /\ conn \in [Peer -> 0 .. MaxSid] /\ lost \in [Peer -> 0 .. MaxSid]
  /\ next_conn_id \in [Kind -> 0 .. MaxSid]
  /\ net \in {"run", "stopping", "stopped"}
  /\ said \in [Peer -> {"nothing", "greeted", "announced"}]
  /\ queue \in [Kind -> Seq(Message)]
  /\ is_done \subseteq Kind
  /\ mapto_sid \in [Peer -> 0 .. MaxSid]
  /\ svrid \subseteq Master /\ held \subseteq Master
  /\ missed \subseteq Peer \X (0 .. MaxSid) /\ aborted \in {"no", "assert", "ASSERT"}

Queued(p, m) == \E i \in DOMAIN queue[KindOf(p)] : queue[KindOf(p)][i] = m

\* Whatever the server keeps of a peer (its id, its players and data, the
\* server ids it stands for) belongs to a session that is there or whose
\* loss is being reported under this id.  The exception is a session that
\* was lost while its announcement was still queued: OnClose found no id.
NothingLeft ==
  \A p \in Peer :
    mapto_sid[p] # 0 \/ p \in svrid \cup held =>
      LET n == mapto_sid[p] IN
      /\ n # 0
      /\ \/ conn[p] = n \/ lost[p] = n
         \/ Queued(p, Msg("destroyed", n, p))
         \/ <<p, n>> \in missed

\* Under NDEBUG the process stops by an assertion about the ids only
\* after a master's announcement was overlooked; and the queue of a message
\* thread that has ended is empty (~LinkMsgProcess), as StopProcess stops the
\* net loop first.
AssertsHold ==
  /\ aborted # "no" /\ NDEBUG => \E s \in missed : s[1] \in Master
  /\ \A k \in is_done : queue[k] = <<>>

\* A server that is connected can be reached in the end, also if its last
\* session was lost at the wrong moment, unless the session is lost or an
\* assertion stops the process.
Reachable ==
  \A p \in Peer, n \in 1 .. MaxSid :
    conn[p] = n ~> mapto_sid[p] = n \/ conn[p] # n \/ aborted # "no"
=============================================================================
