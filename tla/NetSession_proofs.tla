-------------------------- MODULE NetSession_proofs --------------------------
(***************************************************************************)
(* Proofs about NetSession: what the server keeps of a peer belongs to a   *)
(* session that is there or about to be reported, and the assertions fail  *)
(* only after an overlooked announcement, for any number of servers and    *)
(* sessions.                                                               *)
(*                                                                         *)
(* NothingLeft depends on what is still queued: an announcement must be    *)
(* that of a session which is there or known as missed (Announced), and a  *)
(* session number must lead to one server (OneOwner).  AssertsHold depends *)
(* on the order of the queue: the report of a session comes before the     *)
(* announcement of the next one (InOrder, Missed), since a server says its *)
(* id once in a session (Fresh, Greeting) and stops last (StopLast).       *)
(***************************************************************************)
EXTENDS NetSession, SequenceTheorems, TLAPS

Announce(n, p) == Msg("announce", n, p)
Destroyed(n, p) == Msg("destroyed", n, p)

\* What is in a queue belongs there.
MsgOK(k, m) ==
  /\ m.sid <= next_conn_id[k]
  /\ IF m.type = "stop" THEN m = StopMsg ELSE m.sid # 0
  /\ m.type = "announce" => m.id # None
  /\ m.id # None => KindOf(m.id) = k

QueueOK == \A k \in Kind : \A i \in DOMAIN queue[k] : MsgOK(k, queue[k][i])

\* Session numbers that are in use have been given out.
Numbers ==
  \A p \in Peer : LET k == KindOf(p) IN
    /\ conn[p] <= next_conn_id[k] /\ lost[p] <= next_conn_id[k]
    /\ mapto_sid[p] <= next_conn_id[k]

Claims(p, n) ==
  conn[p] = n \/ mapto_sid[p] = n \/ Queued(p, Announce(n, p))

OneOwner ==
  \A p, q \in Peer, n \in 1 .. MaxSid :
    KindOf(p) = KindOf(q) /\ Claims(p, n) /\ Claims(q, n) => p = q

Announced ==
  \A p \in Peer, n \in 1 .. MaxSid :
    Queued(p, Announce(n, p)) =>
      conn[p] = n \/ lost[p] = n \/ <<p, n>> \in missed

Fresh ==
  \A p \in Peer, n \in 1 .. MaxSid :
    conn[p] = n /\ said[p] # "announced" =>
      mapto_sid[p] # n /\ ~Queued(p, Announce(n, p))

\* NothingLeft, with the number of the session as a parameter.
Backed ==
  \A p \in Peer, n \in 0 .. MaxSid :
    mapto_sid[p] = n /\ (n # 0 \/ p \in svrid \cup held) =>
      /\ n # 0
      /\ \/ conn[p] = n \/ lost[p] = n
         \/ Queued(p, Destroyed(n, p)) \/ <<p, n>> \in missed

Greeting ==
  \A k \in Kind : \A i \in DOMAIN queue[k] : queue[k][i].type = "established" =>
    /\ \A p \in Peer : KindOf(p) = k /\ conn[p] = queue[k][i].sid =>
                         said[p] = "nothing"
    /\ \A j \in DOMAIN queue[k] :
         queue[k][j].type = "established" /\ queue[k][j].sid = queue[k][i].sid => i = j

\* The entry of an older session is removed before the announcement is
\* handled, or that session was overlooked.
InOrder ==
  \A p \in Peer, n \in 1 .. MaxSid : \A j \in DOMAIN queue[KindOf(p)] :
    queue[KindOf(p)][j] = Announce(n, p) =>
      \/ mapto_sid[p] = 0 \/ <<p, mapto_sid[p]>> \in missed
      \/ \E i \in DOMAIN queue[KindOf(p)] :
           i < j /\ queue[KindOf(p)][i] = Destroyed(mapto_sid[p], p)

Missed ==
  \A p \in Peer, n, r \in 1 .. MaxSid : \A i, j \in DOMAIN queue[KindOf(p)] :
    /\ i < j
    /\ queue[KindOf(p)][i] = Announce(n, p)
    /\ queue[KindOf(p)][j] = Announce(r, p)
    => <<p, n>> \in missed

StopLast ==
  /\ is_done # {} => net = "stopped"
  /\ \A k \in is_done : queue[k] = <<>>
  /\ \A k \in Kind : \A i \in DOMAIN queue[k] :
       queue[k][i].type = "stop" => net = "stopped" /\ i = Len(queue[k])

IInv ==
  /\ TypeOK /\ QueueOK /\ Numbers /\ OneOwner /\ Announced /\ Fresh /\ Greeting
  /\ InOrder /\ Missed /\ StopLast /\ Backed /\ AssertsHold

-----------------------------------------------------------------------------
(* Queues *)

\* Appending to a queue: the positions and their messages.
LEMMA AppendAt ==
  ASSUME NEW q \in Seq(Message), NEW m \in Message
  PROVE  /\ Append(q, m) \in Seq(Message)
         /\ DOMAIN Append(q, m) = 1 .. Len(q) + 1
         /\ DOMAIN q = 1 .. Len(q) /\ Len(q) \in Nat /\ Len(Append(q, m)) = Len(q) + 1
         /\ \A i \in DOMAIN q : Append(q, m)[i] = q[i]
         /\ Append(q, m)[Len(q) + 1] = m
OBVIOUS

\* Taking the head: every position moves down by one.
LEMMA TailAt ==
  ASSUME NEW q \in Seq(Message), q # <<>>
  PROVE  /\ Tail(q) \in Seq(Message)
         /\ Head(q) = q[1] /\ 1 \in DOMAIN q
         /\ DOMAIN q = 1 .. Len(q) /\ Len(q) \in Nat /\ Len(Tail(q)) = Len(q) - 1
         /\ DOMAIN Tail(q) = 1 .. Len(q) - 1
         /\ \A i \in DOMAIN Tail(q) : i + 1 \in DOMAIN q /\ Tail(q)[i] = q[i + 1]
OBVIOUS

\* The kinds of the servers.
LEMMA Kinds ==
  /\ Kind = {"link", "master"} /\ "link" # "master"
  /\ \A p \in Peer : KindOf(p) \in Kind
  /\ \A p \in Link : p \in Peer /\ KindOf(p) = "link"
  /\ \A p \in Master : p \in Peer /\ KindOf(p) = "master"
  /\ \A p \in Peer : KindOf(p) = "link" => p \in Link
  /\ \A p \in Peer : KindOf(p) = "master" => p \in Master
  /\ None \notin Peer
BY ConstAssumption DEF Kind, KindOf, Peer

\* Messages by their fields.
LEMMA Fields ==
  ASSUME NEW t, NEW n, NEW p
  PROVE  Msg(t, n, p).type = t /\ Msg(t, n, p).sid = n /\ Msg(t, n, p).id = p
BY DEF Msg

\* Messages are told apart by their types.
LEMMA Messages ==
  ASSUME NEW n \in 0 .. MaxSid, NEW p \in Peer \cup {None}
  PROVE  /\ Announce(n, p) \in Message /\ Announce(n, p).type = "announce"
         /\ Announce(n, p).sid = n /\ Announce(n, p).id = p
         /\ Destroyed(n, p) \in Message /\ Destroyed(n, p).type = "destroyed"
         /\ Destroyed(n, p).sid = n /\ Destroyed(n, p).id = p
         /\ Msg("established", n, p) \in Message /\ Msg("data", n, p) \in Message
         /\ StopMsg \in Message /\ StopMsg.type = "stop"
BY ConstAssumption DEF Announce, Destroyed, Msg, Message, StopMsg

\* Put appends a message to one queue: what is queued, and where.
LEMMA PutEffect ==
  ASSUME TypeOK, NEW k \in Kind, NEW m \in Message, Put(k, m)
  PROVE  /\ queue' \in [Kind -> Seq(Message)]
         /\ \A l \in Kind : l # k => queue'[l] = queue[l]
         /\ DOMAIN queue[k] = 1 .. Len(queue[k]) /\ Len(queue[k]) \in Nat
         /\ DOMAIN queue'[k] = 1 .. Len(queue[k]) + 1
         /\ Len(queue'[k]) = Len(queue[k]) + 1
         /\ \A i \in DOMAIN queue[k] : queue'[k][i] = queue[k][i]
         /\ queue'[k][Len(queue[k]) + 1] = m
         /\ \A p \in Peer, x \in Message : Queued(p, x)' <=> Queued(p, x) \/ (KindOf(p) = k /\ x = m)
<1>1. queue \in [Kind -> Seq(Message)] /\ queue[k] \in Seq(Message)
  BY DEF TypeOK
<1>2. queue'[k] = Append(queue[k], m)
  BY <1>1 DEF Put
<1>3. /\ queue' \in [Kind -> Seq(Message)]
      /\ \A l \in Kind : l # k => queue'[l] = queue[l]
  BY <1>1, AppendAt DEF Put
<1>4. /\ DOMAIN queue[k] = 1 .. Len(queue[k]) /\ Len(queue[k]) \in Nat
      /\ DOMAIN queue'[k] = 1 .. Len(queue[k]) + 1
      /\ Len(queue'[k]) = Len(queue[k]) + 1
      /\ \A i \in DOMAIN queue[k] : queue'[k][i] = queue[k][i]
      /\ queue'[k][Len(queue[k]) + 1] = m
  BY <1>1, <1>2, AppendAt
<1>5. ASSUME NEW p \in Peer, NEW x \in Message
      PROVE  Queued(p, x)' <=> Queued(p, x) \/ (KindOf(p) = k /\ x = m)
  <2>1. CASE KindOf(p) = k
    BY <1>4, <2>1 DEF Queued
  <2>2. CASE KindOf(p) # k
    BY <1>3, <2>2, Kinds DEF Queued
  <2> QED
    BY <2>1, <2>2
<1> QED
  BY <1>3, <1>4, <1>5

\* Take removes the head of one queue.
LEMMA TakeEffect ==
  ASSUME TypeOK, NEW k \in Kind, NEW t, Take(k, t)
  PROVE  /\ queue' \in [Kind -> Seq(Message)]
         /\ \A l \in Kind : l # k => queue'[l] = queue[l]
         /\ k \notin is_done /\ 1 \in DOMAIN queue[k] /\ Head(queue[k]) = queue[k][1]
         /\ queue[k][1].type = t /\ queue[k][1] \in Message
         /\ DOMAIN queue[k] = 1 .. Len(queue[k]) /\ Len(queue[k]) \in Nat
         /\ DOMAIN queue'[k] = 1 .. Len(queue[k]) - 1
         /\ Len(queue'[k]) = Len(queue[k]) - 1
         /\ \A i \in DOMAIN queue'[k] : i + 1 \in DOMAIN queue[k] /\ queue'[k][i] = queue[k][i + 1]
         /\ \A i \in DOMAIN queue[k] : i # 1 => i - 1 \in DOMAIN queue'[k] /\ queue'[k][i - 1] = queue[k][i]
         /\ \A p \in Peer, x \in Message : Queued(p, x)' => Queued(p, x)
         /\ \A p \in Peer, x \in Message : Queued(p, x) => Queued(p, x)' \/ (KindOf(p) = k /\ x = queue[k][1])
<1>1. queue \in [Kind -> Seq(Message)] /\ queue[k] \in Seq(Message)
  BY DEF TypeOK
<1>2. queue'[k] = Tail(queue[k]) /\ queue[k] # <<>>
  BY <1>1 DEF Take
<1>3. /\ queue' \in [Kind -> Seq(Message)]
      /\ \A l \in Kind : l # k => queue'[l] = queue[l]
  BY <1>1, <1>2, TailAt DEF Take
<1>4. /\ k \notin is_done /\ 1 \in DOMAIN queue[k] /\ Head(queue[k]) = queue[k][1]
      /\ queue[k][1].type = t /\ queue[k][1] \in Message
      /\ DOMAIN queue[k] = 1 .. Len(queue[k]) /\ Len(queue[k]) \in Nat
      /\ DOMAIN queue'[k] = 1 .. Len(queue[k]) - 1
      /\ Len(queue'[k]) = Len(queue[k]) - 1
      /\ \A i \in DOMAIN queue'[k] : i + 1 \in DOMAIN queue[k] /\ queue'[k][i] = queue[k][i + 1]
  BY <1>1, <1>2, TailAt DEF Take
<1>7. ASSUME NEW i \in DOMAIN queue[k], i # 1
      PROVE  i - 1 \in DOMAIN queue'[k] /\ queue'[k][i - 1] = queue[k][i]
  <2>1. i \in Nat /\ i - 1 \in DOMAIN queue'[k] /\ (i - 1) + 1 = i
    BY <1>4, <1>7
  <2>2. queue'[k][i - 1] = queue[k][(i - 1) + 1]
    BY <1>4, <2>1
  <2> QED
    BY <2>1, <2>2
<1>5. ASSUME NEW p \in Peer, NEW x \in Message, Queued(p, x)'
      PROVE  Queued(p, x)
  <2>1. CASE KindOf(p) = k
    BY <1>4, <1>5, <2>1 DEF Queued
  <2>2. CASE KindOf(p) # k
    BY <1>3, <1>5, <2>2, Kinds DEF Queued
  <2> QED
    BY <2>1, <2>2
<1>6. ASSUME NEW p \in Peer, NEW x \in Message, Queued(p, x)
      PROVE  Queued(p, x)' \/ (KindOf(p) = k /\ x = queue[k][1])
  <2>1. CASE KindOf(p) = k
    <3>1. PICK i \in DOMAIN queue[k] : queue[k][i] = x
      BY <1>6, <2>1 DEF Queued
    <3> QED
      BY <1>7, <2>1, <3>1 DEF Queued
  <2>2. CASE KindOf(p) # k
    BY <1>3, <1>6, <2>2, Kinds DEF Queued
  <2> QED
    BY <2>1, <2>2
<1> QED
  BY <1>3, <1>4, <1>5, <1>6, <1>7

\* The number of a session leads to the server that owns it, and only there.
LEMMA IdFound ==
  ASSUME TypeOK, OneOwner, NEW k \in Kind, NEW n \in 1 .. MaxSid
  PROVE  /\ IdBySid(k, n) \in Peer \cup {None}
         /\ IdBySid(k, n) # None =>
              KindOf(IdBySid(k, n)) = k /\ mapto_sid[IdBySid(k, n)] = n
         /\ \A p \in Peer : KindOf(p) = k /\ mapto_sid[p] = n => IdBySid(k, n) = p
<1>1. CASE \E p \in Peer : KindOf(p) = k /\ mapto_sid[p] = n
  <2>1. /\ IdBySid(k, n) \in Peer
        /\ KindOf(IdBySid(k, n)) = k /\ mapto_sid[IdBySid(k, n)] = n
    BY <1>1 DEF IdBySid
  <2> QED
    BY <2>1 DEF OneOwner, Claims
<1>2. CASE ~ \E p \in Peer : KindOf(p) = k /\ mapto_sid[p] = n
  BY <1>2 DEF IdBySid
<1> QED
  BY <1>1, <1>2

-----------------------------------------------------------------------------
(* What Put and Take leave of the invariants about the queues *)

\* Put(k, m) keeps QueueOK if m belongs into the queue of kind k.
LEMMA PutQueueOK ==
  ASSUME TypeOK, QueueOK, NEW k \in Kind, NEW m \in Message, Put(k, m),
         next_conn_id' \in [Kind -> Nat],
         \A l \in Kind : next_conn_id[l] <= next_conn_id'[l],
         MsgOK(k, m)'
  PROVE  QueueOK'
<1> SUFFICES ASSUME NEW l \in Kind, NEW i \in DOMAIN queue'[l]
             PROVE  MsgOK(l, queue[l][i])'
  BY DEF QueueOK
<1>1. CASE l = k /\ i = Len(queue[k]) + 1
  BY <1>1, PutEffect DEF MsgOK
<1>2. CASE ~(l = k /\ i = Len(queue[k]) + 1)
  <2>1. i \in DOMAIN queue[l] /\ queue'[l][i] = queue[l][i]
    <3>1. CASE l = k
      BY <1>2, <3>1, PutEffect
    <3>2. CASE l # k
      BY <3>2, PutEffect
    <3> QED
      BY <3>1, <3>2
  <2>2. MsgOK(l, queue[l][i]) /\ queue[l][i] \in Message
    BY <2>1 DEF QueueOK, TypeOK
  <2>3. queue[l][i].sid \in Nat /\ next_conn_id[l] \in Nat
    BY <2>2, ConstAssumption DEF Message, TypeOK
  <2> QED
    BY <2>1, <2>2, <2>3 DEF MsgOK
<1> QED
  BY <1>1, <1>2

\* Take keeps QueueOK.
LEMMA TakeQueueOK ==
  ASSUME TypeOK, QueueOK, NEW k \in Kind, NEW t, Take(k, t), UNCHANGED next_conn_id
  PROVE  QueueOK'
<1> SUFFICES ASSUME NEW l \in Kind, NEW i \in DOMAIN queue'[l]
             PROVE  MsgOK(l, queue[l][i])'
  BY DEF QueueOK
<1>1. \E j \in DOMAIN queue[l] : queue'[l][i] = queue[l][j]
  <2>1. CASE l = k
    BY <2>1, TakeEffect
  <2>2. CASE l # k
    BY <2>2, TakeEffect
  <2> QED
    BY <2>1, <2>2
<1> QED
  BY <1>1 DEF QueueOK, MsgOK

\* Anything but an announcement may be appended: the order of announcements and
\* reports stays.
LEMMA PutOrder ==
  ASSUME TypeOK, InOrder, Missed, NEW k \in Kind, NEW m \in Message, Put(k, m),
         m.type # "announce", UNCHANGED mapto_sid, missed \subseteq missed'
  PROVE  InOrder' /\ Missed'
<1>1. ASSUME NEW p \in Peer, NEW n \in 1 .. MaxSid, NEW j \in DOMAIN queue'[KindOf(p)],
             queue'[KindOf(p)][j] = Announce(n, p)
      PROVE  j \in DOMAIN queue[KindOf(p)] /\ queue[KindOf(p)][j] = Announce(n, p)
  <2>1. Announce(n, p).type = "announce"
    BY Messages, ConstAssumption
  <2>2. CASE KindOf(p) = k
    BY <1>1, <2>1, <2>2, PutEffect
  <2>3. CASE KindOf(p) # k
    BY <1>1, <2>3, PutEffect, Kinds
  <2> QED
    BY <2>2, <2>3
<1>2. ASSUME NEW p \in Peer, NEW i \in DOMAIN queue[KindOf(p)]
      PROVE  i \in DOMAIN queue'[KindOf(p)] /\ queue'[KindOf(p)][i] = queue[KindOf(p)][i]
  <2>2. CASE KindOf(p) = k
    BY <2>2, PutEffect
  <2>3. CASE KindOf(p) # k
    BY <2>3, PutEffect, Kinds
  <2> QED
    BY <2>2, <2>3
<1>3. InOrder'
  <2> SUFFICES ASSUME NEW p \in Peer, NEW n \in 1 .. MaxSid, NEW j \in DOMAIN queue'[KindOf(p)],
                      queue'[KindOf(p)][j] = Announce(n, p)
               PROVE  \/ mapto_sid[p] = 0 \/ <<p, mapto_sid[p]>> \in missed'
                      \/ \E i \in DOMAIN queue'[KindOf(p)] :
                           i < j /\ queue'[KindOf(p)][i] = Destroyed(mapto_sid[p], p)
    BY DEF InOrder, Announce, Destroyed, Msg
  <2>1. j \in DOMAIN queue[KindOf(p)] /\ queue[KindOf(p)][j] = Announce(n, p)
    BY <1>1
  <2> QED
    BY <2>1, <1>2 DEF InOrder
<1>4. Missed'
  <2> SUFFICES ASSUME NEW p \in Peer, NEW n \in 1 .. MaxSid, NEW r \in 1 .. MaxSid,
                      NEW i \in DOMAIN queue'[KindOf(p)], NEW j \in DOMAIN queue'[KindOf(p)],
                      i < j, queue'[KindOf(p)][i] = Announce(n, p),
                      queue'[KindOf(p)][j] = Announce(r, p)
               PROVE  <<p, n>> \in missed
    BY DEF Missed, Announce, Msg
  <2> QED
    BY <1>1 DEF Missed
<1> QED
  BY <1>3, <1>4

\* Taking the head keeps the order unless it is the report of a session whose
\* entry stays; an announcement may become the entry.
LEMMA TakeOrder ==
  ASSUME TypeOK, InOrder, Missed, NEW k \in Kind, NEW t, Take(k, t), UNCHANGED missed,
         mapto_sid' \in [Peer -> 0 .. MaxSid],
         \A q \in Peer :
           \/ mapto_sid'[q] = 0
           \/ /\ mapto_sid'[q] = mapto_sid[q]
              /\ KindOf(q) = k => queue[k][1] # Destroyed(mapto_sid[q], q)
           \/ KindOf(q) = k /\ queue[k][1] = Announce(mapto_sid'[q], q)
  PROVE  InOrder' /\ Missed'
<1>0. DOMAIN queue[k] = 1 .. Len(queue[k]) /\ Len(queue[k]) \in Nat
  BY TakeEffect
<1>1. ASSUME NEW p \in Peer, NEW j \in DOMAIN queue'[KindOf(p)], KindOf(p) = k
      PROVE  j \in Nat /\ j >= 1 /\ j + 1 \in DOMAIN queue[k] /\ queue[k][j + 1] = queue'[KindOf(p)][j]
  BY <1>1, TakeEffect
<1>2. ASSUME NEW p \in Peer, NEW i \in DOMAIN queue[k], KindOf(p) = k, i # 1
      PROVE  i - 1 \in DOMAIN queue'[KindOf(p)] /\ queue'[KindOf(p)][i - 1] = queue[k][i]
  BY <1>2, TakeEffect
<1>3. ASSUME NEW p \in Peer, KindOf(p) # k
      PROVE  queue'[KindOf(p)] = queue[KindOf(p)]
  BY <1>3, TakeEffect, Kinds
<1>4. ASSUME NEW p \in Peer, NEW n \in 1 .. MaxSid, NEW j \in DOMAIN queue'[KindOf(p)],
             queue'[KindOf(p)][j] = Announce(n, p)
      PROVE  \/ mapto_sid'[p] = 0 \/ <<p, mapto_sid'[p]>> \in missed
             \/ \E i \in DOMAIN queue'[KindOf(p)] :
                  i < j /\ queue'[KindOf(p)][i] = Destroyed(mapto_sid'[p], p)
  <2>1. CASE mapto_sid'[p] = 0
    BY <2>1
  <2>2. CASE KindOf(p) = k /\ queue[k][1] = Announce(mapto_sid'[p], p) /\ mapto_sid'[p] # 0
    <3>1. 1 \in DOMAIN queue[k] /\ 1 < j + 1 /\ j + 1 \in DOMAIN queue[k]
      BY <1>1, <2>2, TakeEffect
    <3>2. mapto_sid'[p] \in 1 .. MaxSid
      BY <2>2, ConstAssumption
    <3> QED
      BY <1>1, <1>4, <2>2, <3>1, <3>2 DEF Missed
  <2>3. CASE /\ mapto_sid'[p] = mapto_sid[p] /\ mapto_sid[p] # 0
             /\ KindOf(p) = k /\ queue[k][1] # Destroyed(mapto_sid[p], p)
    <3>1. j + 1 \in DOMAIN queue[k] /\ queue[k][j + 1] = Announce(n, p) /\ j \in Nat
      BY <1>1, <1>4, <2>3
    <3>2. CASE <<p, mapto_sid[p]>> \in missed
      BY <2>3, <3>2
    <3>3. CASE <<p, mapto_sid[p]>> \notin missed
      <4>1. PICK i \in DOMAIN queue[k] : i < j + 1 /\ queue[k][i] = Destroyed(mapto_sid[p], p)
        BY <2>3, <3>1, <3>3 DEF InOrder
      <4>2. i # 1 /\ i \in Nat
        BY <1>0, <2>3, <4>1
      <4>3. i - 1 \in DOMAIN queue'[KindOf(p)] /\ queue'[KindOf(p)][i - 1] = Destroyed(mapto_sid'[p], p)
        BY <1>2, <2>3, <4>1, <4>2
      <4> QED
        BY <3>1, <4>1, <4>2, <4>3
    <3> QED
      BY <3>2, <3>3
  <2>4. CASE mapto_sid'[p] = mapto_sid[p] /\ KindOf(p) # k
    BY <1>3, <1>4, <2>4 DEF InOrder
  <2> QED
    BY <2>1, <2>2, <2>3, <2>4
<1>5. InOrder'
  <2> SUFFICES ASSUME NEW p \in Peer, NEW n \in 1 .. MaxSid, NEW j \in DOMAIN queue'[KindOf(p)],
                      queue'[KindOf(p)][j] = Announce(n, p)
               PROVE  \/ mapto_sid'[p] = 0 \/ <<p, mapto_sid'[p]>> \in missed'
                      \/ \E i \in DOMAIN queue'[KindOf(p)] :
                           i < j /\ queue'[KindOf(p)][i] = Destroyed(mapto_sid'[p], p)
    BY DEF InOrder, Announce, Destroyed, Msg
  <2> QED
    BY <1>4
<1>6. Missed'
  <2> SUFFICES ASSUME NEW p \in Peer, NEW n \in 1 .. MaxSid, NEW r \in 1 .. MaxSid,
                      NEW i \in DOMAIN queue'[KindOf(p)], NEW j \in DOMAIN queue'[KindOf(p)],
                      i < j, queue'[KindOf(p)][i] = Announce(n, p),
                      queue'[KindOf(p)][j] = Announce(r, p)
               PROVE  <<p, n>> \in missed
    BY DEF Missed, Announce, Msg
  <2>1. CASE KindOf(p) = k
    <3>1. /\ i + 1 \in DOMAIN queue[k] /\ j + 1 \in DOMAIN queue[k] /\ i + 1 < j + 1
          /\ queue[k][i + 1] = Announce(n, p) /\ queue[k][j + 1] = Announce(r, p)
      BY <1>1, <2>1
    <3> QED
      BY <2>1, <3>1 DEF Missed
  <2>2. CASE KindOf(p) # k
    BY <1>3, <2>2 DEF Missed
  <2> QED
    BY <2>1, <2>2
<1> QED
  BY <1>5, <1>6

\* Only NewConnection adds a ConnectEstablished.
LEMMA PutGreeting ==
  ASSUME TypeOK, QueueOK, Greeting, NEW k \in Kind, NEW m \in Message, Put(k, m),
         m.type # "established",
         \A p \in Peer : conn'[p] = conn[p] \/ conn'[p] = 0,
         \A p \in Peer : said[p] = "nothing" => said'[p] = "nothing"
  PROVE  Greeting'
<1>1. ASSUME NEW l \in Kind, NEW i \in DOMAIN queue'[l], queue'[l][i].type = "established"
      PROVE  i \in DOMAIN queue[l] /\ queue'[l][i] = queue[l][i]
  <2>1. CASE l = k
    BY <1>1, <2>1, PutEffect
  <2>2. CASE l # k
    BY <2>2, PutEffect
  <2> QED
    BY <2>1, <2>2
<1> SUFFICES ASSUME NEW l \in Kind, NEW i \in DOMAIN queue'[l],
                    queue'[l][i].type = "established"
             PROVE  /\ \A p \in Peer : KindOf(p) = l /\ conn'[p] = queue'[l][i].sid =>
                                          said'[p] = "nothing"
                    /\ \A j \in DOMAIN queue'[l] :
                         /\ queue'[l][j].type = "established"
                         /\ queue'[l][j].sid = queue'[l][i].sid
                         => i = j
  BY DEF Greeting
<1>2. i \in DOMAIN queue[l] /\ queue'[l][i] = queue[l][i]
  BY <1>1
<1>3. queue[l][i].sid # 0
  BY <1>2 DEF QueueOK, MsgOK
<1>4. ASSUME NEW p \in Peer, KindOf(p) = l, conn'[p] = queue'[l][i].sid
      PROVE  said'[p] = "nothing"
  BY <1>2, <1>3, <1>4 DEF Greeting
<1>5. ASSUME NEW j \in DOMAIN queue'[l], queue'[l][j].type = "established",
             queue'[l][j].sid = queue'[l][i].sid
      PROVE  i = j
  BY <1>1, <1>2, <1>5 DEF Greeting
<1> QED
  BY <1>4, <1>5

\* A session is greeted by its own ConnectEstablished only.
LEMMA TakeGreeting ==
  ASSUME TypeOK, Greeting, NEW k \in Kind, NEW t, Take(k, t), UNCHANGED conn,
         \A p \in Peer :
           \/ said'[p] = said[p]
           \/ KindOf(p) = k /\ t = "established" /\ conn[p] = queue[k][1].sid
  PROVE  Greeting'
<1>1. 1 \in DOMAIN queue[k] /\ queue[k][1].type = t
  BY TakeEffect
<1>2. ASSUME NEW i \in DOMAIN queue'[k]
      PROVE  i \in Nat /\ i >= 1 /\ i + 1 \in DOMAIN queue[k] /\ queue'[k][i] = queue[k][i + 1]
  BY TakeEffect
<1> SUFFICES ASSUME NEW l \in Kind, NEW i \in DOMAIN queue'[l],
                    queue'[l][i].type = "established"
             PROVE  /\ \A p \in Peer : KindOf(p) = l /\ conn'[p] = queue'[l][i].sid =>
                                          said'[p] = "nothing"
                    /\ \A j \in DOMAIN queue'[l] :
                         /\ queue'[l][j].type = "established"
                         /\ queue'[l][j].sid = queue'[l][i].sid
                         => i = j
  BY DEF Greeting
<1>3. CASE l = k
  <2>1. /\ i \in Nat /\ i >= 1 /\ i + 1 \in DOMAIN queue[k]
        /\ queue'[k][i] = queue[k][i + 1] /\ queue[k][i + 1].type = "established"
    BY <1>2, <1>3
  <2>2. t = "established" => queue[k][1].sid # queue[k][i + 1].sid
    BY <1>1, <2>1 DEF Greeting
  <2>3. ASSUME NEW p \in Peer, KindOf(p) = l, conn'[p] = queue'[l][i].sid
        PROVE  said'[p] = "nothing"
    BY <1>3, <2>1, <2>2, <2>3 DEF Greeting
  <2>4. ASSUME NEW j \in DOMAIN queue'[l], queue'[l][j].type = "established",
               queue'[l][j].sid = queue'[l][i].sid
        PROVE  i = j
    <3>1. /\ j \in Nat /\ j + 1 \in DOMAIN queue[k] /\ queue'[k][j] = queue[k][j + 1]
      BY <1>2, <1>3
    <3>2. j + 1 = i + 1
      BY <1>3, <2>1, <2>4, <3>1 DEF Greeting
    <3> QED
      BY <2>1, <3>1, <3>2
  <2> QED
    BY <2>3, <2>4
<1>4. CASE l # k
  <2>1. queue'[l] = queue[l]
    BY <1>4, TakeEffect
  <2> QED
    BY <1>4, <2>1 DEF Greeting
<1> QED
  BY <1>3, <1>4

\* The stop message is appended after the net loop has ended, and nothing else is.
LEMMA PutStop ==
  ASSUME TypeOK, StopLast, NEW k \in Kind, NEW m \in Message, Put(k, m),
         UNCHANGED <<net, is_done>>,
         \/ m.type # "stop" /\ net # "stopped"
         \/ /\ m.type = "stop" /\ net = "stopped" /\ k \notin is_done
            /\ \A i \in DOMAIN queue[k] : queue[k][i].type # "stop"
  PROVE  StopLast'
<1>1. \A l \in is_done : l \in Kind /\ l # k
  BY DEF StopLast, TypeOK
<1>2. \A l \in is_done : queue'[l] = <<>>
  BY <1>1, PutEffect DEF StopLast
<1>3. ASSUME NEW l \in Kind, NEW i \in DOMAIN queue'[l], queue'[l][i].type = "stop"
      PROVE  net = "stopped" /\ i = Len(queue'[l])
  <2>1. CASE l = k
    <3>1. \A j \in DOMAIN queue[k] : queue[k][j].type # "stop"
      BY DEF StopLast
    <3>2. i = Len(queue[k]) + 1 /\ queue'[l][i] = m
      BY <1>3, <2>1, <3>1, PutEffect
    <3> QED
      BY <1>3, <2>1, <3>2, PutEffect
  <2>2. CASE l # k
    BY <1>3, <2>2, PutEffect DEF StopLast
  <2> QED
    BY <2>1, <2>2
<1> QED
  BY <1>2, <1>3 DEF StopLast

\* The thread that takes the stop message leaves an empty queue.
LEMMA TakeStop ==
  ASSUME TypeOK, StopLast, NEW k \in Kind, NEW t, Take(k, t), UNCHANGED net,
         is_done' = is_done \/ (t = "stop" /\ is_done' = is_done \cup {k})
  PROVE  StopLast'
<1>1. /\ k \notin is_done /\ 1 \in DOMAIN queue[k] /\ queue[k][1].type = t
      /\ queue'[k] \in Seq(Message) /\ Len(queue[k]) \in Nat
      /\ Len(queue'[k]) = Len(queue[k]) - 1
  BY TakeEffect
<1>2. t = "stop" => net = "stopped" /\ Len(queue[k]) = 1
  BY <1>1 DEF StopLast
<1>3. t = "stop" => queue'[k] = <<>>
  BY <1>1, <1>2, EmptySeq
<1>4. \A l \in is_done : l \in Kind /\ l # k /\ queue'[l] = <<>>
  BY <1>1, TakeEffect DEF StopLast, TypeOK
<1>5. ASSUME NEW l \in Kind, NEW i \in DOMAIN queue'[l], queue'[l][i].type = "stop"
      PROVE  net = "stopped" /\ i = Len(queue'[l])
  <2>1. CASE l = k
    <3>1. i \in Nat /\ i + 1 \in DOMAIN queue[k] /\ queue'[k][i] = queue[k][i + 1]
      BY <2>1, TakeEffect
    <3> QED
      BY <1>1, <1>5, <2>1, <3>1 DEF StopLast
  <2>2. CASE l # k
    BY <1>5, <2>2, TakeEffect DEF StopLast
  <2> QED
    BY <2>1, <2>2
<1> QED
  BY <1>2, <1>3, <1>4, <1>5 DEF StopLast

\* What Put and Take change of the announcements and reports that are queued.
LEMMA PutQueued ==
  ASSUME TypeOK, NEW k \in Kind, NEW m \in Message, Put(k, m),
         NEW q \in Peer, NEW n \in 0 .. MaxSid
  PROVE  /\ m.type # "announce" /\ Queued(q, Announce(n, q))' => Queued(q, Announce(n, q))
         /\ Queued(q, Announce(n, q)) => Queued(q, Announce(n, q))'
         /\ Queued(q, Destroyed(n, q)) => Queued(q, Destroyed(n, q))'
BY PutEffect, Messages

\* Take removes at most the head.
LEMMA TakeQueued ==
  ASSUME TypeOK, NEW k \in Kind, NEW t, Take(k, t),
         NEW q \in Peer, NEW n \in 0 .. MaxSid
  PROVE  /\ Queued(q, Announce(n, q))' => Queued(q, Announce(n, q))
         /\ Queued(q, Destroyed(n, q)) =>
              \/ Queued(q, Destroyed(n, q))'
              \/ KindOf(q) = k /\ queue[k][1] = Destroyed(n, q)
BY TakeEffect, Messages

-----------------------------------------------------------------------------
(* The steps *)

\* NewConnection: the number is fresh, nobody claims it.
LEMMA NewConnectionStep ==
  ASSUME IInv, NEW p \in Peer, aborted = "no", NewConnection(p)
  PROVE  IInv'
<1>1. /\ TypeOK /\ QueueOK /\ Numbers /\ OneOwner /\ Announced /\ Fresh /\ Greeting
      /\ InOrder /\ Missed /\ StopLast /\ Backed /\ AssertsHold
  BY DEF IInv
<1>2. /\ next_conn_id' = [next_conn_id EXCEPT ![KindOf(p)] = next_conn_id[KindOf(p)] + 1]
      /\ conn' = [conn EXCEPT ![p] = next_conn_id[KindOf(p)] + 1] /\ conn[p] = 0
      /\ KindOf(p) \in Kind /\ \A l \in Kind : next_conn_id[l] \in Nat
      /\ next_conn_id[KindOf(p)] + 1 \in 1 .. MaxSid
      /\ said' = [said EXCEPT ![p] = "nothing"]
      /\ net = "run"
      /\ UNCHANGED <<lost, net, is_done, mapto_sid, svrid, held, missed, aborted>>
  BY <1>1, Kinds, ConstAssumption DEF NewConnection, maps, TypeOK
<1>3. LET e == Msg("established", next_conn_id[KindOf(p)] + 1, None) IN
        /\ e \in Message /\ e.type = "established"
        /\ e.sid = next_conn_id[KindOf(p)] + 1 /\ e.id = None
  BY <1>2, Messages, Fields, ConstAssumption
<1>4. PICK m \in Message :
        /\ Put(KindOf(p), m) /\ m.type = "established"
        /\ m.sid = next_conn_id[KindOf(p)] + 1 /\ m.id = None
  BY <1>3 DEF NewConnection
<1>5. queue' \in [Kind -> Seq(Message)]
  BY <1>1, <1>2, <1>4, PutEffect
<1>6. \A q \in Peer, r \in 0 .. MaxSid :
        /\ Queued(q, Announce(r, q))' <=> Queued(q, Announce(r, q))
        /\ Queued(q, Destroyed(r, q)) => Queued(q, Destroyed(r, q))'
  BY <1>1, <1>2, <1>4, PutQueued
<1>7. \A l \in Kind : \A i \in DOMAIN queue[l] : queue[l][i].sid # next_conn_id[l] + 1
  BY <1>1, <1>2, ConstAssumption DEF QueueOK, MsgOK, TypeOK, Message
<1>8. \A q \in Peer : KindOf(q) = KindOf(p) =>
        conn[q] # next_conn_id[KindOf(p)] + 1 /\ mapto_sid[q] # next_conn_id[KindOf(p)] + 1
  BY <1>1, <1>2 DEF Numbers, TypeOK
<1>9. \A q \in Peer, n \in 1 .. MaxSid : KindOf(q) = KindOf(p) /\ n = next_conn_id[KindOf(p)] + 1 =>
        ~Queued(q, Announce(n, q))
  BY <1>2, <1>7, Messages, ConstAssumption DEF Queued
<1>10. TypeOK'
  <2>1. conn' \in [Peer -> 0 .. MaxSid] /\ next_conn_id' \in [Kind -> 0 .. MaxSid]
    BY <1>1, <1>2, ConstAssumption DEF TypeOK
  <2>2. said' \in [Peer -> {"nothing", "greeted", "announced"}]
    BY <1>1, <1>2 DEF TypeOK
  <2> QED
    BY <1>1, <1>2, <1>5, <2>1, <2>2 DEF TypeOK
<1>11. QueueOK'
  <2>1. next_conn_id' \in [Kind -> Nat] /\ \A l \in Kind : next_conn_id[l] <= next_conn_id'[l]
    BY <1>1, <1>2, ConstAssumption DEF TypeOK
  <2>2. MsgOK(KindOf(p), m)'
    BY <1>1, <1>2, <1>4 DEF MsgOK, TypeOK
  <2> QED
    BY <1>1, <1>2, <1>4, <2>1, <2>2, PutQueueOK
<1>12. Numbers'
  BY <1>1, <1>2, Kinds DEF Numbers, TypeOK
<1>13. OneOwner'
  BY <1>1, <1>2, <1>6, <1>8, <1>9 DEF OneOwner, Claims, TypeOK
<1>14. Announced'
  BY <1>1, <1>2, <1>6 DEF Announced, TypeOK
<1>15. Fresh'
  BY <1>1, <1>2, <1>6, <1>8, <1>9 DEF Fresh, TypeOK
<1>16. Greeting'
  <2>1. ASSUME NEW l \in Kind, NEW i \in DOMAIN queue'[l], queue'[l][i].type = "established"
        PROVE  \/ i \in DOMAIN queue[l] /\ queue'[l][i] = queue[l][i]
               \/ l = KindOf(p) /\ i = Len(queue[l]) + 1 /\ queue'[l][i].sid = next_conn_id[l] + 1
    BY <1>1, <1>2, <1>4, <2>1, PutEffect
  <2>2. \A q \in Peer : KindOf(q) = KindOf(p) /\ conn'[q] = next_conn_id[KindOf(p)] + 1 =>
                          said'[q] = "nothing"
    BY <1>1, <1>2, <1>8 DEF TypeOK
  <2>3. \A q \in Peer, l \in Kind : \A i \in DOMAIN queue[l] :
          KindOf(q) = l /\ conn'[q] = queue[l][i].sid => conn[q] = queue[l][i].sid /\ said'[q] = said[q]
    BY <1>1, <1>2, <1>7 DEF TypeOK
  <2> QED
    BY <1>1, <1>7, <2>1, <2>2, <2>3 DEF Greeting
<1>17. InOrder' /\ Missed'
  BY <1>1, <1>2, <1>4, PutOrder
<1>18. StopLast'
  BY <1>1, <1>2, <1>4, PutStop
<1>19. Backed'
  BY <1>1, <1>2, <1>6 DEF Backed, TypeOK
<1>20. AssertsHold'
  BY <1>1, <1>2, <1>18 DEF AssertsHold, StopLast
<1> QED
  BY <1>10, <1>11, <1>12, <1>13, <1>14, <1>15, <1>16, <1>17, <1>18, <1>19, <1>20 DEF IInv

\* RemoveConnection: the session is lost and not yet reported.
LEMMA RemoveConnectionStep ==
  ASSUME IInv, NEW p \in Peer, aborted = "no", RemoveConnection(p)
  PROVE  IInv'
<1>1. /\ TypeOK /\ QueueOK /\ Numbers /\ OneOwner /\ Announced /\ Fresh /\ Greeting
      /\ InOrder /\ Missed /\ StopLast /\ Backed /\ AssertsHold
  BY DEF IInv
<1>2. /\ lost' = [lost EXCEPT ![p] = conn[p]] /\ conn' = [conn EXCEPT ![p] = 0]
      /\ conn[p] # 0 /\ conn[p] \in 1 .. MaxSid /\ lost[p] = 0
      /\ UNCHANGED <<next_conn_id, net, said, queue, is_done, mapto_sid, svrid, held, missed, aborted>>
  BY <1>1, ConstAssumption DEF RemoveConnection, LoopIdle, maps, TypeOK
<1>3. \A q \in Peer, x \in Message : Queued(q, x)' <=> Queued(q, x)
  BY <1>2 DEF Queued
<1>4. \A q \in Peer, n \in 0 .. MaxSid :
        /\ Queued(q, Announce(n, q))' <=> Queued(q, Announce(n, q))
        /\ Queued(q, Destroyed(n, q))' <=> Queued(q, Destroyed(n, q))
  BY <1>3, Messages
<1>5. TypeOK'
  BY <1>1, <1>2, ConstAssumption DEF TypeOK
<1>6. QueueOK'
  BY <1>1, <1>2 DEF QueueOK, MsgOK
<1>7. Numbers'
  BY <1>1, <1>2, Kinds DEF Numbers, TypeOK
<1>8. OneOwner'
  BY <1>1, <1>2, <1>4, ConstAssumption DEF OneOwner, Claims, TypeOK
<1>9. Announced'
  BY <1>1, <1>2, <1>4, ConstAssumption DEF Announced, TypeOK
<1>10. Fresh'
  BY <1>1, <1>2, <1>4, ConstAssumption DEF Fresh, TypeOK
<1>11. Greeting'
  BY <1>1, <1>2 DEF Greeting, QueueOK, MsgOK, TypeOK
<1>12. InOrder' /\ Missed'
  BY <1>1, <1>2 DEF InOrder, Missed
<1>13. StopLast'
  BY <1>1, <1>2 DEF StopLast
<1>14. Backed'
  BY <1>1, <1>2, <1>4 DEF Backed, TypeOK
<1>15. AssertsHold'
  BY <1>1, <1>2 DEF AssertsHold
<1> QED
  BY <1>5, <1>6, <1>7, <1>8, <1>9, <1>10, <1>11, <1>12, <1>13, <1>14, <1>15 DEF IInv

\* StopNetIO and the end of the loop.
LEMMA StopNetStep ==
  ASSUME IInv, aborted = "no", StopNetIO \/ LoopEnds
  PROVE  IInv'
<1>1. /\ TypeOK /\ QueueOK /\ Numbers /\ OneOwner /\ Announced /\ Fresh /\ Greeting
      /\ InOrder /\ Missed /\ StopLast /\ Backed /\ AssertsHold
  BY DEF IInv
<1>2. /\ net' \in {"stopping", "stopped"} /\ net # "stopped"
      /\ UNCHANGED <<conn, lost, next_conn_id, said, queue, is_done, mapto_sid, svrid, held, missed, aborted>>
  BY DEF StopNetIO, LoopEnds, maps
<1>3. \A q \in Peer, x \in Message : Queued(q, x)' <=> Queued(q, x)
  BY <1>2 DEF Queued
<1>4. \A q \in Peer, n \in 0 .. MaxSid :
        /\ Queued(q, Announce(n, q))' <=> Queued(q, Announce(n, q))
        /\ Queued(q, Destroyed(n, q))' <=> Queued(q, Destroyed(n, q))
  BY <1>3, Messages
<1>5. TypeOK'
  BY <1>1, <1>2 DEF TypeOK
<1>6. QueueOK'
  BY <1>1, <1>2 DEF QueueOK, MsgOK
<1>7. Numbers'
  BY <1>1, <1>2, Kinds DEF Numbers, TypeOK
<1>8. OneOwner'
  BY <1>1, <1>2, <1>4, ConstAssumption DEF OneOwner, Claims, TypeOK
<1>9. Announced'
  BY <1>1, <1>2, <1>4, ConstAssumption DEF Announced, TypeOK
<1>10. Fresh'
  BY <1>1, <1>2, <1>4, ConstAssumption DEF Fresh, TypeOK
<1>11. Greeting'
  BY <1>1, <1>2 DEF Greeting, QueueOK, MsgOK, TypeOK
<1>12. InOrder' /\ Missed'
  BY <1>1, <1>2 DEF InOrder, Missed
<1>13. StopLast'
  BY <1>1, <1>2 DEF StopLast
<1>14. Backed'
  BY <1>1, <1>2, <1>4 DEF Backed, TypeOK
<1>15. AssertsHold'
  BY <1>1, <1>2 DEF AssertsHold
<1> QED
  BY <1>5, <1>6, <1>7, <1>8, <1>9, <1>10, <1>11, <1>12, <1>13, <1>14, <1>15 DEF IInv

\* RecvAnnounce: the first announcement in this session, behind the reports of the
\* server's older sessions.
LEMMA RecvAnnounceStep ==
  ASSUME IInv, NEW p \in Peer, aborted = "no", RecvAnnounce(p)
  PROVE  IInv'
<1>1. /\ TypeOK /\ QueueOK /\ Numbers /\ OneOwner /\ Announced /\ Fresh /\ Greeting
      /\ InOrder /\ Missed /\ StopLast /\ Backed /\ AssertsHold
  BY DEF IInv
<1>2. /\ conn[p] \in 1 .. MaxSid /\ said[p] = "greeted" /\ KindOf(p) \in Kind
      /\ \A q \in Peer : lost[q] = 0
      /\ said' = [said EXCEPT ![p] = "announced"] /\ net = "run"
      /\ UNCHANGED <<conn, lost, next_conn_id, net, is_done, mapto_sid, svrid, held, missed, aborted>>
  BY <1>1, Kinds, ConstAssumption DEF RecvAnnounce, LoopIdle, maps, TypeOK
<1>3. /\ Announce(conn[p], p) \in Message /\ Announce(conn[p], p).type = "announce"
      /\ Announce(conn[p], p).sid = conn[p] /\ Announce(conn[p], p).id = p
  BY <1>2, Messages, ConstAssumption
<1>4. PICK m \in Message :
        /\ Put(KindOf(p), m) /\ m = Announce(conn[p], p)
        /\ m.type = "announce" /\ m.sid = conn[p] /\ m.id = p
  BY <1>3 DEF RecvAnnounce, Announce
<1>5. queue' \in [Kind -> Seq(Message)]
  BY <1>1, <1>2, <1>4, PutEffect
<1>6. \A q \in Peer, n \in 0 .. MaxSid :
        /\ Queued(q, Announce(n, q))' <=> Queued(q, Announce(n, q)) \/ (q = p /\ n = conn[p])
        /\ Queued(q, Destroyed(n, q)) => Queued(q, Destroyed(n, q))'
  BY <1>1, <1>2, <1>4, PutEffect, Messages
<1>7. mapto_sid[p] # conn[p] /\ \A n \in 1 .. MaxSid : n = conn[p] => ~Queued(p, Announce(n, p))
  BY <1>1, <1>2 DEF Fresh
<1>8. \A q \in Peer : \A j \in DOMAIN queue'[KindOf(q)] :
        \/ j \in DOMAIN queue[KindOf(q)] /\ queue'[KindOf(q)][j] = queue[KindOf(q)][j]
        \/ /\ KindOf(q) = KindOf(p) /\ j = Len(queue[KindOf(q)]) + 1
           /\ queue'[KindOf(q)][j] = m
  <2>1. ASSUME NEW q \in Peer, NEW j \in DOMAIN queue'[KindOf(q)], KindOf(q) = KindOf(p)
        PROVE  \/ j \in DOMAIN queue[KindOf(q)] /\ queue'[KindOf(q)][j] = queue[KindOf(q)][j]
               \/ j = Len(queue[KindOf(q)]) + 1 /\ queue'[KindOf(q)][j] = m
    BY <1>1, <1>2, <1>4, <2>1, PutEffect
  <2>2. ASSUME NEW q \in Peer, KindOf(q) # KindOf(p)
        PROVE  queue'[KindOf(q)] = queue[KindOf(q)]
    BY <1>1, <1>2, <1>4, <2>2, PutEffect, Kinds
  <2> QED
    BY <2>1, <2>2
<1>9. \A q \in Peer : \A j \in DOMAIN queue[KindOf(q)] :
        /\ j \in DOMAIN queue'[KindOf(q)] /\ queue'[KindOf(q)][j] = queue[KindOf(q)][j]
        /\ KindOf(q) = KindOf(p) => j < Len(queue[KindOf(q)]) + 1
  BY <1>1, <1>2, <1>4, PutEffect, Kinds
<1>10. TypeOK'
  <2>1. said' \in [Peer -> {"nothing", "greeted", "announced"}]
    BY <1>1, <1>2 DEF TypeOK
  <2> QED
    BY <1>1, <1>2, <1>5, <2>1 DEF TypeOK
<1>11. QueueOK'
  <2>1. next_conn_id' \in [Kind -> Nat] /\ \A l \in Kind : next_conn_id[l] <= next_conn_id'[l]
    BY <1>1, <1>2, ConstAssumption DEF TypeOK
  <2>2. MsgOK(KindOf(p), m)'
    BY <1>1, <1>2, <1>4, Kinds DEF MsgOK, Numbers
  <2> QED
    BY <1>1, <1>2, <1>4, <2>1, <2>2, PutQueueOK
<1>12. Numbers'
  BY <1>1, <1>2, Kinds DEF Numbers, TypeOK
<1>13. OneOwner'
  BY <1>1, <1>2, <1>6, ConstAssumption DEF OneOwner, Claims, TypeOK
<1>14. Announced'
  BY <1>1, <1>2, <1>6 DEF Announced, TypeOK
<1>15. Fresh'
  BY <1>1, <1>2, <1>6 DEF Fresh, TypeOK
<1>16. Greeting'
  BY <1>1, <1>2, <1>4, PutGreeting
<1>17. InOrder'
  <2> SUFFICES ASSUME NEW q \in Peer, NEW n \in 1 .. MaxSid, NEW j \in DOMAIN queue'[KindOf(q)],
                      queue'[KindOf(q)][j] = Announce(n, q), mapto_sid[q] # 0,
                      <<q, mapto_sid[q]>> \notin missed
               PROVE  \E i \in DOMAIN queue'[KindOf(q)] :
                        i < j /\ queue'[KindOf(q)][i] = Destroyed(mapto_sid[q], q)
    BY <1>2 DEF InOrder, Announce, Destroyed, Msg
  <2>1. CASE j \in DOMAIN queue[KindOf(q)] /\ queue[KindOf(q)][j] = Announce(n, q)
    BY <1>1, <1>9, <2>1 DEF InOrder
  <2>2. CASE j = Len(queue[KindOf(q)]) + 1 /\ KindOf(q) = KindOf(p) /\ m = Announce(n, q)
    <3>1. q = p /\ mapto_sid[p] \in 0 .. MaxSid
      BY <1>1, <1>4, <2>2, Messages DEF TypeOK
    <3>2. Queued(p, Destroyed(mapto_sid[p], p))
      BY <1>1, <1>2, <1>7, <3>1 DEF Backed
    <3> QED
      BY <1>9, <2>2, <3>1, <3>2 DEF Queued
  <2> QED
    BY <1>8, <2>1, <2>2
<1>18. Missed'
  <2> SUFFICES ASSUME NEW q \in Peer, NEW n \in 1 .. MaxSid, NEW r \in 1 .. MaxSid,
                      NEW i \in DOMAIN queue'[KindOf(q)], NEW j \in DOMAIN queue'[KindOf(q)],
                      i < j, queue'[KindOf(q)][i] = Announce(n, q),
                      queue'[KindOf(q)][j] = Announce(r, q)
               PROVE  <<q, n>> \in missed
    BY <1>2 DEF Missed, Announce, Msg
  <2>1. i \in DOMAIN queue[KindOf(q)] /\ queue[KindOf(q)][i] = Announce(n, q)
    <3>1. queue'[KindOf(q)] \in Seq(Message)
      BY <1>5, Kinds
    <3>2. KindOf(q) = KindOf(p) => Len(queue'[KindOf(q)]) = Len(queue[KindOf(q)]) + 1
      BY <1>1, <1>2, <1>4, PutEffect
    <3> QED
      BY <1>8, <3>1, <3>2
  <2>2. CASE j \in DOMAIN queue[KindOf(q)] /\ queue[KindOf(q)][j] = Announce(r, q)
    BY <1>1, <2>1, <2>2 DEF Missed
  <2>3. CASE m = Announce(r, q)
    <3>1. q = p
      BY <1>4, <2>3, Messages
    <3>2. Queued(p, Announce(n, p))
      BY <2>1, <3>1 DEF Queued
    <3> QED
      BY <1>1, <1>2, <1>7, <3>1, <3>2 DEF Announced
  <2> QED
    BY <1>8, <2>2, <2>3
<1>19. StopLast'
  BY <1>1, <1>2, <1>4, PutStop
<1>20. Backed'
  BY <1>1, <1>2, <1>6 DEF Backed, TypeOK
<1>21. AssertsHold'
  BY <1>1, <1>2, <1>19 DEF AssertsHold, StopLast
<1> QED
  BY <1>10, <1>11, <1>12, <1>13, <1>14, <1>15, <1>16, <1>17, <1>18, <1>19, <1>20, <1>21 DEF IInv

\* RecvData.
LEMMA RecvDataStep ==
  ASSUME IInv, NEW p \in Peer, aborted = "no", RecvData(p)
  PROVE  IInv'
<1>1. /\ TypeOK /\ QueueOK /\ Numbers /\ OneOwner /\ Announced /\ Fresh /\ Greeting
      /\ InOrder /\ Missed /\ StopLast /\ Backed /\ AssertsHold
  BY DEF IInv
<1>2. /\ conn[p] \in 1 .. MaxSid /\ KindOf(p) \in Kind /\ KindOf(p) = "master" /\ net = "run"
      /\ UNCHANGED <<conn, lost, next_conn_id, net, said, is_done, mapto_sid, svrid, held, missed, aborted>>
  BY <1>1, Kinds, ConstAssumption DEF RecvData, LoopIdle, loop, maps, TypeOK
<1>3. PICK m \in Message :
        /\ Put(KindOf(p), m) /\ m.type = "data"
        /\ m.sid = conn[p] /\ m.id = None
  BY <1>2, Messages, Fields, ConstAssumption DEF RecvData
<1>4. queue' \in [Kind -> Seq(Message)]
  BY <1>1, <1>2, <1>3, PutEffect
<1>5. \A q \in Peer, r \in 0 .. MaxSid :
        /\ Queued(q, Announce(r, q))' <=> Queued(q, Announce(r, q))
        /\ Queued(q, Destroyed(r, q)) => Queued(q, Destroyed(r, q))'
  BY <1>1, <1>2, <1>3, PutQueued
<1>6. TypeOK'
  BY <1>1, <1>2, <1>4, ConstAssumption DEF TypeOK
<1>7. QueueOK'
  <2>1. next_conn_id' \in [Kind -> Nat] /\ \A l \in Kind : next_conn_id[l] <= next_conn_id'[l]
    BY <1>1, <1>2, ConstAssumption DEF TypeOK
  <2>2. MsgOK(KindOf(p), m)'
    BY <1>1, <1>2, <1>3 DEF MsgOK, Numbers
  <2> QED
    BY <1>1, <1>2, <1>3, <2>1, <2>2, PutQueueOK
<1>8. Numbers'
  BY <1>1, <1>2, Kinds DEF Numbers, TypeOK
<1>9. OneOwner'
  BY <1>1, <1>2, <1>5 DEF OneOwner, Claims, TypeOK
<1>10. Announced'
  BY <1>1, <1>2, <1>5 DEF Announced, TypeOK
<1>11. Fresh'
  BY <1>1, <1>2, <1>5 DEF Fresh, TypeOK
<1>12. Greeting'
  BY <1>1, <1>2, <1>3, PutGreeting
<1>13. InOrder' /\ Missed'
  BY <1>1, <1>2, <1>3, PutOrder
<1>14. StopLast'
  BY <1>1, <1>2, <1>3, PutStop
<1>15. Backed'
  BY <1>1, <1>2, <1>5 DEF Backed, TypeOK
<1>16. AssertsHold'
  BY <1>1, <1>2, <1>14 DEF AssertsHold, StopLast
<1> QED
  BY <1>6, <1>7, <1>8, <1>9, <1>10, <1>11, <1>12, <1>13, <1>14, <1>15, <1>16 DEF IInv

\* StopProcThread: nothing can come after the stop message.
LEMMA StopProcThreadStep ==
  ASSUME IInv, NEW k \in Kind, aborted = "no", StopProcThread(k)
  PROVE  IInv'
<1>1. /\ TypeOK /\ QueueOK /\ Numbers /\ OneOwner /\ Announced /\ Fresh /\ Greeting
      /\ InOrder /\ Missed /\ StopLast /\ Backed /\ AssertsHold
  BY DEF IInv
<1>2. /\ net = "stopped" /\ k \notin is_done
      /\ UNCHANGED <<conn, lost, next_conn_id, net, said, is_done, mapto_sid, svrid, held, missed, aborted>>
  BY DEF StopProcThread, loop, maps
<1>3. PICK m \in Message : Put(k, m) /\ m = StopMsg /\ m.type = "stop" /\ m.sid = 0 /\ m.id = None
  BY Messages, Fields, ConstAssumption DEF StopProcThread, StopMsg
<1>4. \A i \in DOMAIN queue[k] : queue[k][i].type # "stop"
  BY <1>1 DEF StopProcThread, QueueOK, MsgOK
<1>5. queue' \in [Kind -> Seq(Message)]
  BY <1>1, <1>2, <1>3, PutEffect
<1>6. \A q \in Peer, r \in 0 .. MaxSid :
        /\ Queued(q, Announce(r, q))' <=> Queued(q, Announce(r, q))
        /\ Queued(q, Destroyed(r, q)) => Queued(q, Destroyed(r, q))'
  BY <1>1, <1>2, <1>3, PutQueued
<1>7. TypeOK'
  BY <1>1, <1>2, <1>5, ConstAssumption DEF TypeOK
<1>8. QueueOK'
  <2>1. next_conn_id' \in [Kind -> Nat] /\ \A l \in Kind : next_conn_id[l] <= next_conn_id'[l]
    BY <1>1, <1>2, ConstAssumption DEF TypeOK
  <2>2. MsgOK(k, m)'
    BY <1>3, <2>1 DEF MsgOK, StopMsg, Msg
  <2> QED
    BY <1>1, <1>2, <1>3, <2>1, <2>2, PutQueueOK
<1>9. Numbers'
  BY <1>1, <1>2, Kinds DEF Numbers, TypeOK
<1>10. OneOwner'
  BY <1>1, <1>2, <1>6 DEF OneOwner, Claims, TypeOK
<1>11. Announced'
  BY <1>1, <1>2, <1>6 DEF Announced, TypeOK
<1>12. Fresh'
  BY <1>1, <1>2, <1>6 DEF Fresh, TypeOK
<1>13. Greeting'
  BY <1>1, <1>2, <1>3, PutGreeting
<1>14. InOrder' /\ Missed'
  BY <1>1, <1>2, <1>3, PutOrder
<1>15. StopLast'
  BY <1>1, <1>2, <1>3, <1>4, PutStop
<1>16. Backed'
  BY <1>1, <1>2, <1>6 DEF Backed, TypeOK
<1>17. AssertsHold'
  BY <1>1, <1>2, <1>15 DEF AssertsHold, StopLast
<1> QED
  BY <1>7, <1>8, <1>9, <1>10, <1>11, <1>12, <1>13, <1>14, <1>15, <1>16, <1>17 DEF IInv

\* OnClose and OnDestroy: the report names the server if it is known, and the
\* session is missed if its announcement is still queued.
LEMMA ReportStep ==
  ASSUME IInv, NEW p \in Peer, NEW n \in 1 .. MaxSid, aborted = "no", Report(p, n), net # "stopped",
         \/ lost[p] = n /\ lost' = [lost EXCEPT ![p] = 0] /\ UNCHANGED conn
         \/ conn[p] = n /\ conn' = [conn EXCEPT ![p] = 0] /\ UNCHANGED lost,
         UNCHANGED <<next_conn_id, net, said, is_done, mapto_sid, svrid, held, aborted>>
  PROVE  IInv'
<1>1. /\ TypeOK /\ QueueOK /\ Numbers /\ OneOwner /\ Announced /\ Fresh /\ Greeting
      /\ InOrder /\ Missed /\ StopLast /\ Backed /\ AssertsHold
  BY DEF IInv
<1>2. /\ KindOf(p) \in Kind /\ net # "stopped" /\ missed \subseteq missed'
      /\ missed' \subseteq Peer \X (0 .. MaxSid)
      /\ Queued(p, Announce(n, p)) => <<p, n>> \in missed'
      /\ \A q \in Peer : conn'[q] = conn[q] \/ (q = p /\ conn[q] = n /\ conn'[q] = 0)
      /\ \A q \in Peer : lost'[q] = lost[q] \/ (q = p /\ lost[q] = n /\ lost'[q] = 0)
      /\ conn' \in [Peer -> 0 .. MaxSid] /\ lost' \in [Peer -> 0 .. MaxSid]
      /\ UNCHANGED <<next_conn_id, net, said, is_done, mapto_sid, svrid, held, aborted>>
  <2>1. Queued(p, Announce(n, p)) => Overlooked(p, n) = {<<p, n>>}
    BY DEF Overlooked, Queued, Announce
  <2>2. missed' = missed \cup Overlooked(p, n) /\ Overlooked(p, n) \subseteq {<<p, n>>}
    BY DEF Report, Overlooked
  <2>3. missed' \subseteq Peer \X (0 .. MaxSid) /\ missed \subseteq missed'
    BY <1>1, <2>2, ConstAssumption DEF TypeOK
  <2>4. /\ \A q \in Peer : conn'[q] = conn[q] \/ (q = p /\ conn[q] = n /\ conn'[q] = 0)
        /\ \A q \in Peer : lost'[q] = lost[q] \/ (q = p /\ lost[q] = n /\ lost'[q] = 0)
        /\ conn' \in [Peer -> 0 .. MaxSid] /\ lost' \in [Peer -> 0 .. MaxSid]
    <3>1. CASE lost[p] = n /\ lost' = [lost EXCEPT ![p] = 0] /\ UNCHANGED conn
      BY <1>1, <3>1, ConstAssumption DEF TypeOK
    <3>2. CASE conn[p] = n /\ conn' = [conn EXCEPT ![p] = 0] /\ UNCHANGED lost
      BY <1>1, <3>2, ConstAssumption DEF TypeOK
    <3> QED
      BY <3>1, <3>2
  <2> QED
    BY <2>1, <2>2, <2>3, <2>4, Kinds
<1>3. LET i == IdBySid(KindOf(p), n) IN
        /\ Destroyed(n, i) \in Message /\ Destroyed(n, i).type = "destroyed"
        /\ Destroyed(n, i).sid = n /\ Destroyed(n, i).id = i
        /\ i # None => KindOf(i) = KindOf(p)
        /\ mapto_sid[p] = n => i = p
  BY <1>1, <1>2, IdFound, Messages, ConstAssumption
<1>4. PICK m \in Message :
        /\ Put(KindOf(p), m) /\ m.type = "destroyed" /\ m.sid = n
        /\ m.id # None => KindOf(m.id) = KindOf(p)
        /\ mapto_sid[p] = n => m = Destroyed(n, p)
  BY <1>3 DEF Report, Destroyed
<1>5. queue' \in [Kind -> Seq(Message)]
  BY <1>1, <1>2, <1>4, PutEffect
<1>6. \A q \in Peer, r \in 0 .. MaxSid :
        /\ Queued(q, Announce(r, q))' <=> Queued(q, Announce(r, q))
        /\ Queued(q, Destroyed(r, q)) => Queued(q, Destroyed(r, q))'
  BY <1>1, <1>2, <1>4, PutQueued
<1>7. mapto_sid[p] = n => Queued(p, Destroyed(n, p))'
  BY <1>1, <1>2, <1>4, PutEffect
<1>8. n <= next_conn_id[KindOf(p)]
  BY <1>1, <1>2 DEF Numbers
<1>9. TypeOK'
  BY <1>1, <1>2, <1>5 DEF TypeOK
<1>10. QueueOK'
  <2>1. next_conn_id' \in [Kind -> Nat] /\ \A l \in Kind : next_conn_id[l] <= next_conn_id'[l]
    BY <1>1, <1>2, ConstAssumption DEF TypeOK
  <2>2. MsgOK(KindOf(p), m)'
    BY <1>2, <1>4, <1>8 DEF MsgOK
  <2> QED
    BY <1>1, <1>2, <1>4, <2>1, <2>2, PutQueueOK
<1>11. Numbers'
  <2> SUFFICES ASSUME NEW q \in Peer
               PROVE  /\ conn'[q] <= next_conn_id[KindOf(q)]
                      /\ lost'[q] <= next_conn_id[KindOf(q)]
                      /\ mapto_sid[q] <= next_conn_id[KindOf(q)]
    BY <1>2 DEF Numbers
  <2>1. next_conn_id[KindOf(q)] \in Nat
    BY <1>1, Kinds DEF TypeOK
  <2>2. conn'[q] \in {0, conn[q]} /\ lost'[q] \in {0, lost[q]}
    BY <1>2
  <2> QED
    BY <1>1, <2>1, <2>2 DEF Numbers
<1>12. OneOwner'
  BY <1>1, <1>2, <1>6, ConstAssumption DEF OneOwner, Claims
<1>13. Announced'
  BY <1>1, <1>2, <1>6, ConstAssumption DEF Announced
<1>14. Fresh'
  BY <1>1, <1>2, <1>6, ConstAssumption DEF Fresh
<1>15. Greeting'
  BY <1>1, <1>2, <1>4, PutGreeting
<1>16. InOrder' /\ Missed'
  BY <1>1, <1>2, <1>4, PutOrder
<1>17. StopLast'
  BY <1>1, <1>2, <1>4, PutStop
<1>18. Backed'
  BY <1>1, <1>2, <1>6, <1>7 DEF Backed
<1>19. AssertsHold'
  BY <1>1, <1>2, <1>17 DEF AssertsHold, StopLast
<1> QED
  BY <1>9, <1>10, <1>11, <1>12, <1>13, <1>14, <1>15, <1>16, <1>17, <1>18, <1>19 DEF IInv

\* OnConnected: only a session that has not said anything is greeted.
LEMMA OnConnectedStep ==
  ASSUME IInv, NEW k \in Kind, aborted = "no", OnConnected(k)
  PROVE  IInv'
<1>1. /\ TypeOK /\ QueueOK /\ Numbers /\ OneOwner /\ Announced /\ Fresh /\ Greeting
      /\ InOrder /\ Missed /\ StopLast /\ Backed /\ AssertsHold
  BY DEF IInv
<1>2. /\ k \in Kind
      /\ UNCHANGED <<conn, lost, next_conn_id, net, is_done, mapto_sid, svrid, held, missed, aborted>>
  BY DEF OnConnected, maps
<1>3. Take(k, "established") /\ queue[k][1].type = "established"
  BY <1>1, <1>2, TakeEffect DEF OnConnected
<1>4. queue[k][1] \in Message /\ 1 \in DOMAIN queue[k] /\ Head(queue[k]) = queue[k][1]
      /\ MsgOK(k, queue[k][1])
  BY <1>1, <1>2, <1>3, TakeEffect DEF QueueOK
<1>5. queue' \in [Kind -> Seq(Message)]
  BY <1>1, <1>2, <1>3, TakeEffect
<1>6. \A q \in Peer : queue[k][1] # Destroyed(mapto_sid[q], q)
  BY <1>1, <1>3, <1>4, Messages DEF TypeOK
<1>7. \A q \in Peer, r \in 0 .. MaxSid :
        /\ Queued(q, Announce(r, q))' => Queued(q, Announce(r, q))
        /\ Queued(q, Destroyed(r, q)) => Queued(q, Destroyed(r, q))'
  BY <1>1, <1>2, <1>3, TakeQueued, Messages
<1>8. /\ said' \in [Peer -> {"nothing", "greeted", "announced"}]
      /\ \A q \in Peer : \/ said'[q] = said[q]
                         \/ /\ KindOf(q) = k /\ conn[q] = queue[k][1].sid
                            /\ said'[q] = "greeted" /\ said[q] = "nothing"
  BY <1>1, <1>3, <1>4 DEF OnConnected, TypeOK, Greeting
<1>9. TypeOK'
  BY <1>1, <1>2, <1>5, <1>8 DEF TypeOK
<1>10. QueueOK'
  BY <1>1, <1>2, <1>3, TakeQueueOK
<1>11. Numbers'
  BY <1>1, <1>2, Kinds DEF Numbers, TypeOK
<1>12. OneOwner'
  BY <1>1, <1>2, <1>7, ConstAssumption DEF OneOwner, Claims
<1>13. Announced'
  BY <1>1, <1>2, <1>7, ConstAssumption DEF Announced
<1>14. Fresh'
  BY <1>1, <1>2, <1>7, <1>8, ConstAssumption DEF Fresh
<1>15. Greeting'
  BY <1>1, <1>2, <1>3, <1>8, TakeGreeting
<1>16. InOrder' /\ Missed'
  BY <1>1, <1>2, <1>3, <1>6, TakeOrder DEF TypeOK
<1>17. StopLast'
  BY <1>1, <1>2, <1>3, TakeStop
<1>18. Backed'
  BY <1>1, <1>2, <1>7 DEF Backed, TypeOK
<1>19. AssertsHold'
  BY <1>1, <1>2, <1>17 DEF AssertsHold, StopLast
<1> QED
  BY <1>9, <1>10, <1>11, <1>12, <1>13, <1>14, <1>15, <1>16, <1>17, <1>18, <1>19 DEF IInv

\* AnnounceLinkInfo and AnnounceMasterInfo: the entry belongs to a session that is
\* there or missed; an entry that was there belonged to a missed one.
LEMMA AnnounceStep ==
  ASSUME IInv, NEW k \in Kind, NEW p \in Peer, NEW n \in 1 .. MaxSid, aborted = "no", Take(k, "announce"),
         queue[k][1] = Announce(n, p), KindOf(p) = k,
         mapto_sid' = [mapto_sid EXCEPT ![p] = n],
         svrid' \subseteq Master, svrid' \subseteq svrid \cup {p},
         aborted' \in {"no", "assert", "ASSERT"},
         aborted' # "no" /\ NDEBUG => p \in svrid,
         UNCHANGED <<conn, lost, next_conn_id, net, said, is_done, held, missed>>
  PROVE  IInv'
<1>1. /\ TypeOK /\ QueueOK /\ Numbers /\ OneOwner /\ Announced /\ Fresh /\ Greeting
      /\ InOrder /\ Missed /\ StopLast /\ Backed /\ AssertsHold
  BY DEF IInv
<1>2. /\ k \in Kind /\ KindOf(p) = k /\ queue[k][1] = Announce(n, p)
      /\ mapto_sid' \in [Peer -> 0 .. MaxSid]
      /\ \A q \in Peer : mapto_sid'[q] = IF q = p THEN n ELSE mapto_sid[q]
      /\ svrid' \subseteq Master /\ svrid' \subseteq svrid \cup {p}
      /\ UNCHANGED <<conn, lost, next_conn_id, net, said, is_done, held, missed>>
  BY <1>1, ConstAssumption DEF TypeOK
<1>3. Take(k, "announce") /\ queue[k][1].type = "announce"
  BY <1>1, TakeEffect
<1>4. queue[k][1] \in Message /\ 1 \in DOMAIN queue[k] /\ Head(queue[k]) = queue[k][1]
      /\ MsgOK(k, queue[k][1])
  BY <1>1, <1>2, <1>3, TakeEffect DEF QueueOK
<1>5. queue' \in [Kind -> Seq(Message)]
  BY <1>1, <1>2, <1>3, TakeEffect
<1>6. \A q \in Peer : queue[k][1] # Destroyed(mapto_sid[q], q)
  BY <1>1, <1>3, <1>4, Messages DEF TypeOK
<1>7. \A q \in Peer, r \in 0 .. MaxSid :
        /\ Queued(q, Announce(r, q))' => Queued(q, Announce(r, q))
        /\ Queued(q, Destroyed(r, q)) => Queued(q, Destroyed(r, q))'
  BY <1>1, <1>2, <1>3, TakeQueued, Messages
<1>8. Queued(p, Announce(n, p))
  BY <1>2, <1>4 DEF Queued
<1>9. p \in svrid => p \in Master /\ <<p, mapto_sid[p]>> \in missed
  <2> SUFFICES ASSUME p \in svrid
               PROVE  p \in Master /\ <<p, mapto_sid[p]>> \in missed
    OBVIOUS
  <2>1. p \in Master /\ mapto_sid[p] # 0
    BY <1>1 DEF TypeOK, Backed
  <2>2. \A i \in DOMAIN queue[k] : ~(i < 1)
    BY <1>1, <1>3, TakeEffect
  <2> QED
    BY <1>1, <1>2, <1>4, <2>1, <2>2 DEF InOrder
<1>10. TypeOK'
  BY <1>1, <1>2, <1>5 DEF TypeOK
<1>11. QueueOK'
  BY <1>1, <1>2, <1>3, TakeQueueOK
<1>12. Numbers'
  BY <1>1, <1>2, <1>4, Messages, ConstAssumption DEF Numbers, MsgOK
<1>13. OneOwner'
  BY <1>1, <1>2, <1>7, <1>8, ConstAssumption DEF OneOwner, Claims
<1>14. Announced'
  BY <1>1, <1>2, <1>7, ConstAssumption DEF Announced
<1>15. Fresh'
  BY <1>1, <1>2, <1>7, <1>8, ConstAssumption DEF Fresh
<1>16. Greeting'
  BY <1>1, <1>2, <1>3, TakeGreeting
<1>17. InOrder' /\ Missed'
  BY <1>1, <1>2, <1>3, <1>6, TakeOrder
<1>18. StopLast'
  BY <1>1, <1>2, <1>3, TakeStop
<1>19. Backed'
  BY <1>1, <1>2, <1>7, <1>8 DEF Backed, Announced, TypeOK
<1>20. AssertsHold'
  <2>1. aborted' # "no" /\ NDEBUG => \E s \in missed' : s[1] \in Master
    BY <1>2, <1>9
  <2> QED
    BY <1>18, <2>1 DEF AssertsHold, StopLast
<1> QED
  BY <1>10, <1>11, <1>12, <1>13, <1>14, <1>15, <1>16, <1>17, <1>18, <1>19, <1>20 DEF IInv

\* LinkConnDestroyed and MasterConnDestroyed: nothing is left of the reported server,
\* and no other server is concerned.
LEMMA DestroyedStep ==
  ASSUME IInv, NEW k \in Kind, NEW h \in Peer \cup {None}, aborted = "no", Take(k, "destroyed"),
         queue[k][1].id = h,
         mapto_sid' = [q \in Peer |-> IF q = h THEN 0 ELSE mapto_sid[q]],
         svrid' = svrid \ {h}, held' = held \ {h},
         aborted' \in {"no", "assert", "ASSERT"}, NDEBUG => aborted' = "no",
         UNCHANGED <<conn, lost, next_conn_id, net, said, is_done, missed>>
  PROVE  IInv'
<1>1. /\ TypeOK /\ QueueOK /\ Numbers /\ OneOwner /\ Announced /\ Fresh /\ Greeting
      /\ InOrder /\ Missed /\ StopLast /\ Backed /\ AssertsHold
  BY DEF IInv
<1>2. /\ k \in Kind /\ queue[k][1].id = h
      /\ mapto_sid' \in [Peer -> 0 .. MaxSid]
      /\ \A q \in Peer : mapto_sid'[q] = IF q = h THEN 0 ELSE mapto_sid[q]
      /\ svrid' = svrid \ {h} /\ held' = held \ {h}
      /\ UNCHANGED <<conn, lost, next_conn_id, net, said, is_done, missed>>
  BY <1>1, ConstAssumption DEF TypeOK
<1>3. Take(k, "destroyed") /\ queue[k][1].type = "destroyed"
  BY <1>1, TakeEffect
<1>4. queue[k][1] \in Message /\ 1 \in DOMAIN queue[k] /\ Head(queue[k]) = queue[k][1]
      /\ MsgOK(k, queue[k][1])
  BY <1>1, <1>2, <1>3, TakeEffect DEF QueueOK
<1>5. queue' \in [Kind -> Seq(Message)]
  BY <1>1, <1>2, <1>3, TakeEffect
<1>6. \A q \in Peer, r \in 0 .. MaxSid :
        /\ Queued(q, Announce(r, q))' => Queued(q, Announce(r, q))
        /\ q # h /\ Queued(q, Destroyed(r, q)) => Queued(q, Destroyed(r, q))'
  BY <1>1, <1>2, <1>3, TakeQueued, Messages
<1>7. \A q \in Peer : q # h => queue[k][1] # Destroyed(mapto_sid[q], q)
  BY <1>1, <1>2, Messages DEF TypeOK
<1>8. TypeOK'
  BY <1>1, <1>2, <1>5 DEF TypeOK
<1>9. QueueOK'
  BY <1>1, <1>2, <1>3, TakeQueueOK
<1>10. Numbers'
  BY <1>1, <1>2, Kinds, ConstAssumption DEF Numbers, TypeOK
<1>11. OneOwner'
  BY <1>1, <1>2, <1>6, ConstAssumption DEF OneOwner, Claims
<1>12. Announced'
  BY <1>1, <1>2, <1>6, ConstAssumption DEF Announced
<1>13. Fresh'
  BY <1>1, <1>2, <1>6, ConstAssumption DEF Fresh
<1>14. Greeting'
  BY <1>1, <1>2, <1>3, TakeGreeting
<1>15. InOrder' /\ Missed'
  BY <1>1, <1>2, <1>3, <1>7, TakeOrder
<1>16. StopLast'
  BY <1>1, <1>2, <1>3, TakeStop
<1>17. Backed'
  BY <1>1, <1>2, <1>6 DEF Backed
<1>18. AssertsHold'
  BY <1>2, <1>16 DEF AssertsHold, StopLast
<1> QED
  BY <1>8, <1>9, <1>10, <1>11, <1>12, <1>13, <1>14, <1>15, <1>16, <1>17, <1>18 DEF IInv

\* MasterData: what is kept belongs to a master with an entry.
LEMMA MasterDataStep ==
  ASSUME IInv, aborted = "no", MasterData
  PROVE  IInv'
<1>1. /\ TypeOK /\ QueueOK /\ Numbers /\ OneOwner /\ Announced /\ Fresh /\ Greeting
      /\ InOrder /\ Missed /\ StopLast /\ Backed /\ AssertsHold
  BY DEF IInv
<1>2. /\ "master" \in Kind
      /\ UNCHANGED <<conn, lost, next_conn_id, net, said, is_done, mapto_sid, svrid, missed, aborted>>
  BY Kinds DEF MasterData, loop
<1>3. Take("master", "data") /\ queue["master"][1].type = "data"
  BY <1>1, <1>2, TakeEffect DEF MasterData
<1>4. queue["master"][1] \in Message /\ 1 \in DOMAIN queue["master"] /\ Head(queue["master"]) = queue["master"][1]
      /\ MsgOK("master", queue["master"][1])
  BY <1>1, <1>2, <1>3, TakeEffect DEF QueueOK
<1>5. queue' \in [Kind -> Seq(Message)]
  BY <1>1, <1>2, <1>3, TakeEffect
<1>6. \A q \in Peer : queue["master"][1] # Destroyed(mapto_sid[q], q)
  BY <1>1, <1>3, <1>4, Messages DEF TypeOK
<1>7. \A q \in Peer, r \in 0 .. MaxSid :
        /\ Queued(q, Announce(r, q))' => Queued(q, Announce(r, q))
        /\ Queued(q, Destroyed(r, q)) => Queued(q, Destroyed(r, q))'
  BY <1>1, <1>2, <1>3, TakeQueued, Messages
<1>8. held' \subseteq Master /\ \A q \in held' : q \in held \/ mapto_sid[q] # 0
  <2>1. queue["master"][1].sid \in 1 .. MaxSid
    BY <1>3, <1>4, ConstAssumption DEF MsgOK, Message
  <2>2. LET i == IdBySid("master", queue["master"][1].sid) IN
        i # None => i \in Master /\ mapto_sid[i] # 0
    BY <1>1, <1>2, <2>1, IdFound, Kinds
  <2> QED
    BY <1>1, <1>4, <2>2 DEF MasterData, TypeOK
<1>9. TypeOK'
  BY <1>1, <1>2, <1>5, <1>8 DEF TypeOK
<1>10. QueueOK'
  BY <1>1, <1>2, <1>3, TakeQueueOK
<1>11. Numbers'
  BY <1>1, <1>2, Kinds DEF Numbers, TypeOK
<1>12. OneOwner'
  BY <1>1, <1>2, <1>7, ConstAssumption DEF OneOwner, Claims
<1>13. Announced'
  BY <1>1, <1>2, <1>7, ConstAssumption DEF Announced
<1>14. Fresh'
  BY <1>1, <1>2, <1>7, ConstAssumption DEF Fresh
<1>15. Greeting'
  BY <1>1, <1>2, <1>3, TakeGreeting
<1>16. InOrder' /\ Missed'
  BY <1>1, <1>2, <1>3, <1>6, TakeOrder DEF TypeOK
<1>17. StopLast'
  BY <1>1, <1>2, <1>3, TakeStop
<1>18. Backed'
  BY <1>1, <1>2, <1>7, <1>8 DEF Backed
<1>19. AssertsHold'
  BY <1>1, <1>2, <1>17 DEF AssertsHold, StopLast
<1> QED
  BY <1>9, <1>10, <1>11, <1>12, <1>13, <1>14, <1>15, <1>16, <1>17, <1>18, <1>19 DEF IInv

\* ServerStatusNotify: the queue is empty afterwards.
LEMMA ServerStatusNotifyStep ==
  ASSUME IInv, NEW k \in Kind, aborted = "no", ServerStatusNotify(k)
  PROVE  IInv'
<1>1. /\ TypeOK /\ QueueOK /\ Numbers /\ OneOwner /\ Announced /\ Fresh /\ Greeting
      /\ InOrder /\ Missed /\ StopLast /\ Backed /\ AssertsHold
  BY DEF IInv
<1>2. /\ k \in Kind /\ is_done' = is_done \cup {k}
      /\ UNCHANGED <<conn, lost, next_conn_id, net, said, mapto_sid, svrid, held, missed, aborted>>
  BY DEF ServerStatusNotify, loop, maps
<1>3. Take(k, "stop") /\ queue[k][1].type = "stop"
  BY <1>1, <1>2, TakeEffect DEF ServerStatusNotify
<1>4. queue[k][1] \in Message /\ 1 \in DOMAIN queue[k] /\ Head(queue[k]) = queue[k][1]
      /\ MsgOK(k, queue[k][1])
  BY <1>1, <1>2, <1>3, TakeEffect DEF QueueOK
<1>5. queue' \in [Kind -> Seq(Message)]
  BY <1>1, <1>2, <1>3, TakeEffect
<1>6. \A q \in Peer : queue[k][1] # Destroyed(mapto_sid[q], q)
  BY <1>1, <1>3, <1>4, Messages DEF TypeOK
<1>7. \A q \in Peer, r \in 0 .. MaxSid :
        /\ Queued(q, Announce(r, q))' => Queued(q, Announce(r, q))
        /\ Queued(q, Destroyed(r, q)) => Queued(q, Destroyed(r, q))'
  BY <1>1, <1>2, <1>3, TakeQueued, Messages
<1>8. TypeOK'
  BY <1>1, <1>2, <1>5, ConstAssumption DEF TypeOK
<1>9. QueueOK'
  BY <1>1, <1>2, <1>3, TakeQueueOK
<1>10. Numbers'
  BY <1>1, <1>2, Kinds DEF Numbers, TypeOK
<1>11. OneOwner'
  BY <1>1, <1>2, <1>7, ConstAssumption DEF OneOwner, Claims
<1>12. Announced'
  BY <1>1, <1>2, <1>7, ConstAssumption DEF Announced
<1>13. Fresh'
  BY <1>1, <1>2, <1>7, ConstAssumption DEF Fresh
<1>14. Greeting'
  BY <1>1, <1>2, <1>3, TakeGreeting
<1>15. InOrder' /\ Missed'
  BY <1>1, <1>2, <1>3, <1>6, TakeOrder DEF TypeOK
<1>16. StopLast'
  BY <1>1, <1>2, <1>3, TakeStop
<1>17. Backed'
  BY <1>1, <1>2, <1>7 DEF Backed, TypeOK
<1>18. AssertsHold'
  BY <1>1, <1>2, <1>16 DEF AssertsHold, StopLast
<1> QED
  BY <1>8, <1>9, <1>10, <1>11, <1>12, <1>13, <1>14, <1>15, <1>16, <1>17, <1>18 DEF IInv

\* Everything is empty at first.
LEMMA InitHolds == Init => IInv
<1> SUFFICES ASSUME Init PROVE IInv
  OBVIOUS
<1>1. \A k \in Kind : queue[k] = <<>> /\ DOMAIN queue[k] = {}
  BY DEF Init
<1>2. TypeOK
  <2>1. queue \in [Kind -> Seq(Message)]
    BY DEF Init
  <2>2. conn \in [Peer -> 0 .. MaxSid] /\ lost \in [Peer -> 0 .. MaxSid]
        /\ mapto_sid \in [Peer -> 0 .. MaxSid] /\ next_conn_id \in [Kind -> 0 .. MaxSid]
    BY ConstAssumption DEF Init
  <2> QED
    BY <2>1, <2>2 DEF Init, TypeOK
<1>3. \A p \in Peer, x \in Message : ~Queued(p, x)
  BY <1>1, Kinds DEF Queued
<1>4. \A p \in Peer, n \in 0 .. MaxSid : ~Queued(p, Announce(n, p))
  BY <1>3, Messages
<1>5. QueueOK /\ Greeting /\ StopLast
  BY <1>1 DEF Init, QueueOK, Greeting, StopLast
<1>6. Numbers /\ Fresh /\ Announced
  BY <1>4, Kinds, ConstAssumption DEF Init, Numbers, Fresh, Announced
<1>7. OneOwner /\ Backed /\ AssertsHold
  BY <1>4, ConstAssumption DEF Init, OneOwner, Claims, Backed, AssertsHold
<1>8. InOrder /\ Missed
  BY <1>1, Kinds DEF InOrder, Missed
<1> QED
  BY <1>2, <1>5, <1>6, <1>7, <1>8 DEF IInv

\* Every step of the net loop and of the message threads.
LEMMA StepHolds == IInv /\ [Next]_vars => IInv'
<1> SUFFICES ASSUME IInv, [Next]_vars
             PROVE  IInv'
  OBVIOUS
<1>0. TypeOK /\ QueueOK
  BY DEF IInv
<1>1. ASSUME UNCHANGED vars PROVE IInv'
  <2>1. UNCHANGED <<conn, lost, next_conn_id, net, said, queue, is_done, mapto_sid, svrid,
                    held, missed, aborted>>
    BY <1>1 DEF vars, loop, maps
  <2>2. TypeOK' /\ QueueOK' /\ Numbers' /\ Greeting' /\ StopLast' /\ AssertsHold'
    BY <2>1 DEF IInv, TypeOK, QueueOK, MsgOK, Numbers, Greeting, StopLast, AssertsHold
  <2>3. OneOwner' /\ Announced' /\ Fresh' /\ Backed'
    BY <2>1 DEF IInv, OneOwner, Claims, Announced, Fresh, Backed, Queued
  <2>4. InOrder' /\ Missed'
    BY <2>1 DEF IInv, InOrder, Missed
  <2> QED
    BY <2>2, <2>3, <2>4 DEF IInv
<1>2. ASSUME NEW p \in Peer, aborted = "no",
             NewConnection(p) \/ RecvAnnounce(p) \/ RecvData(p) \/ RemoveConnection(p)
      PROVE  IInv'
  BY <1>2, NewConnectionStep, RecvAnnounceStep, RecvDataStep, RemoveConnectionStep
<1>3. ASSUME NEW p \in Peer, aborted = "no", OnClose(p)
      PROVE  IInv'
  <2>1. PICK n \in 1 .. MaxSid : n = lost[p]
    BY <1>0, <1>3, ConstAssumption DEF OnClose, TypeOK
  <2> QED
    BY <1>3, <2>1, ReportStep DEF OnClose, maps
<1>4. ASSUME NEW p \in Peer, aborted = "no", OnDestroy(p)
      PROVE  IInv'
  <2>1. PICK n \in 1 .. MaxSid : n = conn[p]
    BY <1>0, <1>4, ConstAssumption DEF OnDestroy, TypeOK
  <2> QED
    BY <1>4, <2>1, ReportStep DEF OnDestroy, maps
<1>5. ASSUME aborted = "no", StopNetIO \/ LoopEnds
      PROVE  IInv'
  BY <1>5, StopNetStep
<1>6. ASSUME NEW k \in Kind, aborted = "no",
             StopProcThread(k) \/ OnConnected(k) \/ ServerStatusNotify(k)
      PROVE  IInv'
  BY <1>6, StopProcThreadStep, OnConnectedStep, ServerStatusNotifyStep
<1>7. ASSUME NEW k \in Kind, Take(k, "announce")
      PROVE  \E p \in Peer, n \in 1 .. MaxSid :
               /\ queue[k][1] = Announce(n, p) /\ KindOf(p) = k
               /\ Head(queue[k]).id = p /\ Head(queue[k]).sid = n
  <2>1. /\ Head(queue[k]) = queue[k][1] /\ queue[k][1] \in Message
        /\ queue[k][1].type = "announce" /\ MsgOK(k, queue[k][1])
    BY <1>0, <1>7, TakeEffect DEF QueueOK
  <2>2. queue[k][1].id \in Peer /\ KindOf(queue[k][1].id) = k /\ queue[k][1].sid \in 1 .. MaxSid
    BY <2>1, ConstAssumption DEF MsgOK, Message
  <2>3. queue[k][1] = Announce(queue[k][1].sid, queue[k][1].id)
    BY <2>1 DEF Announce, Msg, Message
  <2> QED
    BY <2>1, <2>2, <2>3
<1>8. ASSUME aborted = "no", AnnounceLinkInfo
      PROVE  IInv'
  <2>1. PICK p \in Peer, n \in 1 .. MaxSid :
          /\ queue["link"][1] = Announce(n, p) /\ KindOf(p) = "link"
          /\ Head(queue["link"]).id = p /\ Head(queue["link"]).sid = n
    BY <1>7, <1>8, Kinds DEF AnnounceLinkInfo
  <2>2. /\ Take("link", "announce") /\ mapto_sid' = [mapto_sid EXCEPT ![p] = n]
        /\ aborted' \in {"no", "assert", "ASSERT"} /\ (NDEBUG => aborted' = "no")
        /\ svrid' = svrid
        /\ UNCHANGED <<conn, lost, next_conn_id, net, said, is_done, held, missed>>
    BY <1>8, <2>1 DEF AnnounceLinkInfo, Checked, loop
  <2> QED
    BY <1>0, <1>8, <2>1, <2>2, AnnounceStep, Kinds DEF TypeOK
<1>9. ASSUME aborted = "no", AnnounceMasterInfo
      PROVE  IInv'
  <2>1. PICK p \in Peer, n \in 1 .. MaxSid :
          /\ queue["master"][1] = Announce(n, p) /\ KindOf(p) = "master"
          /\ Head(queue["master"]).id = p /\ Head(queue["master"]).sid = n
    BY <1>7, <1>9, Kinds DEF AnnounceMasterInfo
  <2>2. /\ Take("master", "announce") /\ mapto_sid' = [mapto_sid EXCEPT ![p] = n]
        /\ aborted' \in {"no", "assert", "ASSERT"}
        /\ aborted' # "no" /\ NDEBUG => p \in svrid
        /\ svrid' = svrid \cup {p} /\ p \in Master
        /\ UNCHANGED <<conn, lost, next_conn_id, net, said, is_done, held, missed>>
    BY <1>9, <2>1, Kinds DEF AnnounceMasterInfo, Checked, loop
  <2>3. svrid' \subseteq Master /\ svrid' \subseteq svrid \cup {p}
    BY <1>0, <2>2 DEF TypeOK
  <2>4. "master" \in Kind
    BY Kinds
  <2> QED
    BY <1>9, <2>1, <2>2, <2>3, <2>4, AnnounceStep
<1>10. ASSUME NEW k \in Kind, Take(k, "destroyed")
       PROVE  /\ queue[k][1].id \in Peer \cup {None} /\ Head(queue[k]) = queue[k][1]
              /\ queue[k][1].id # None => KindOf(queue[k][1].id) = k
  BY <1>0, <1>10, TakeEffect DEF QueueOK, MsgOK, Message
<1>11. ASSUME aborted = "no", LinkConnDestroyed
       PROVE  IInv'
  <2>1. PICK h \in Peer \cup {None} : h = queue["link"][1].id /\ h \notin Master
    BY <1>10, <1>11, Kinds DEF LinkConnDestroyed
  <2>2. /\ Take("link", "destroyed")
        /\ mapto_sid' = [q \in Peer |-> IF q = h THEN 0 ELSE mapto_sid[q]]
        /\ aborted' \in {"no", "assert", "ASSERT"} /\ (NDEBUG => aborted' = "no")
        /\ svrid' = svrid \ {h} /\ held' = held \ {h}
        /\ UNCHANGED <<conn, lost, next_conn_id, net, said, is_done, missed>>
    BY <1>0, <1>10, <1>11, <2>1, Kinds
    DEF LinkConnDestroyed, RemoveIdMapToSid, Checked, loop, TypeOK
  <2> QED
    BY <1>11, <2>1, <2>2, DestroyedStep, Kinds
<1>12. ASSUME aborted = "no", MasterConnDestroyed
       PROVE  IInv'
  <2>1. PICK h \in Peer \cup {None} : h = queue["master"][1].id
    BY <1>10, <1>12, Kinds DEF MasterConnDestroyed
  <2>2. Take("master", "destroyed") /\ Head(queue["master"]).id = h
    BY <1>10, <1>12, <2>1, Kinds DEF MasterConnDestroyed
  <2>3. /\ mapto_sid' = [q \in Peer |-> IF q = h THEN 0 ELSE mapto_sid[q]]
        /\ aborted' \in {"no", "assert", "ASSERT"} /\ (NDEBUG => aborted' = "no")
        /\ svrid' = svrid \ {h} /\ held' = held \ {h}
    <3>1. CASE h = None
      BY <1>0, <1>12, <2>2, <3>1, Kinds DEF MasterConnDestroyed, maps, TypeOK
    <3>2. CASE h # None
      BY <1>12, <2>2, <3>2 DEF MasterConnDestroyed, RemoveIdMapToSid, Checked
    <3> QED
      BY <3>1, <3>2
  <2>4. UNCHANGED <<conn, lost, next_conn_id, net, said, is_done, missed>>
    BY <1>12 DEF MasterConnDestroyed, loop
  <2> QED
    BY <1>12, <2>1, <2>2, <2>3, <2>4, DestroyedStep, Kinds
<1>13. ASSUME aborted = "no", MasterData
       PROVE  IInv'
  BY <1>13, MasterDataStep
<1>14. ASSUME aborted = "no", Run
       PROVE  IInv'
  BY <1>2, <1>3, <1>4, <1>5, <1>6, <1>8, <1>9, <1>11, <1>12, <1>13, <1>14 DEF Run, Handle
<1> QED
  BY <1>1, <1>14 DEF Next, Stopped

-----------------------------------------------------------------------------
(* Theorems *)

\* The inductive invariant holds in every state.
LEMMA Invariance == Spec => []IInv
BY InitHolds, StepHolds, PTL DEF Spec

\* The types of the sessions, queues and maps, for any number of servers.
THEOREM TypeCorrect == Spec => []TypeOK
<1>1. IInv => TypeOK
  BY DEF IInv
<1> QED
  BY <1>1, Invariance, PTL

\* What MasterDisconnect and RemoveXIdMapToSid have to remove is never left
\* behind, except for a session lost while its announcement was queued.
THEOREM NothingIsLeft == Spec => []NothingLeft
<1>1. IInv => NothingLeft
  BY DEF IInv, TypeOK, Backed, NothingLeft, Destroyed
<1> QED
  BY <1>1, Invariance, PTL

\* The ASSERT of SetSvrIdMapToMasterId fails only after a missed session of a
\* master, and StopProcess leaves no message behind.
THEOREM AssertionsHold == Spec => []AssertsHold
<1>1. IInv => AssertsHold
  BY DEF IInv
<1> QED
  BY <1>1, Invariance, PTL

=============================================================================
