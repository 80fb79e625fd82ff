------------------------- MODULE RoleSession_proofs -------------------------
(***************************************************************************)
(* PlayerLifecycle implements the safety part of RoleSession, and players  *)
(* use their pool as SlotUse says, for any number of roles, slots,         *)
(* connections and pool threads.                                           *)
(***************************************************************************)
EXTENDS PlayerLifecycle_proofs, FiniteSetTheorems

\* The points at which a thread gives a slot its contents or takes them away.
Busy == {"enter_lock", "enter_world", "enter_online", "offline", "unmap", "free"}

\* A slot that RedirectEnterWorld left behind is never touched again.
LeakedInv ==
  \A s \in leaked : /\ s \notin available /\ ~active[s] /\ ~offline[s]
                    /\ \A t \in Thread : pc[t] \in Busy => ptr[t] # s

\* What a step may do to the threads without touching a slot left behind.
KeepsBusy ==
  \A t \in Thread : pc'[t] \in Busy => pc[t] \in Busy /\ ptr'[t] = ptr[t]

Shown == <<rolemap, active, offline, leaked>>

-----------------------------------------------------------------------------
(* The mapping *)

\* A slot serves one role.
LEMMA OneRole ==
  ASSUME IInv, NEW r \in Role, NEW q \in Role, rolemap[r] # None,
         rolemap[q] = rolemap[r]
  PROVE  q = r
<1> USE NoneAssumption DEF IInv
<1>1. ASSUME NEW p \in Role, rolemap[p] = rolemap[r]
      PROVE  \/ xid[rolemap[r]] = p
             \/ /\ At("master", {"enter_lock"}, rolemap[r]) /\ arg["master"] = p
                /\ xid[rolemap[r]] = None
  BY <1>1 DEF MapMatchesPlayer, FreshInv, At, Thread
<1> QED
  BY <1>1

\* A step that changes what one role shows.
LEMMA Moves ==
  ASSUME NEW r \in Role, NEW from, NEW to, Running, Running',
         StageOf(r) = from, StageOf(r)' = to,
         \A q \in Role : q # r => StageOf(q)' = StageOf(q)
  PROVE  Session!Move(r, from, to)
<1>1. [q \in Role |-> StageOf(q)]' = [[q \in Role |-> StageOf(q)] EXCEPT ![r] = to]
  OBVIOUS
<1> QED
  BY <1>1 DEF Session!Move

\* A step that shows nothing.
LEMMA Stays ==
  ASSUME UNCHANGED <<Shown, aborted>>
  PROVE  UNCHANGED Session!vars
<1>1. ASSUME NEW r \in Role PROVE StageOf(r)' = StageOf(r)
  BY DEF StageOf, Shown
<1>2. Running' = Running
  BY DEF Running
<1> QED
  BY <1>1, <1>2 DEF Session!vars

-----------------------------------------------------------------------------
(* The steps *)

\* What every step has to do.
Simulates == LeakedInv' /\ (Session!Next \/ UNCHANGED Session!vars)

\* A thread moves, and the players stay as they are.
LEMMA QuietStep ==
  ASSUME LeakedInv, KeepsBusy, UNCHANGED <<Shown, available, aborted>>
  PROVE  Simulates
<1>1. LeakedInv'
  BY DEF LeakedInv, KeepsBusy, Shown
<1> QED
  BY <1>1, Stays DEF Simulates

\* PlayerLogout: an online player goes offline, or is offline already.
LEMMA OfflineStep ==
  ASSUME IInv, LeakedInv, KeepsBusy, Running, NEW s \in Slot, active[s],
         offline' = [offline EXCEPT ![s] = TRUE],
         UNCHANGED <<rolemap, active, leaked, available, aborted>>
  PROVE  Simulates
<1> USE NoneAssumption DEF IInv, TypeOK
<1>1. LeakedInv'
  BY DEF LeakedInv, KeepsBusy
<1>2. CASE offline[s]
  BY <1>1, <1>2, Stays DEF Simulates, Shown
<1>3. CASE ~offline[s]
  <2>1. PICK r \in Role : rolemap[r] = s
    BY DEF ActiveInv, Mapped
  <2>2. StageOf(r) = "online" /\ StageOf(r)' = "offline"
    BY <1>3, <2>1 DEF StageOf
  <2>3. ASSUME NEW q \in Role, q # r PROVE StageOf(q)' = StageOf(q)
    <3>1. rolemap[q] # s
      BY <2>1, <2>3, OneRole
    <3> QED
      BY <3>1 DEF StageOf
  <2>4. Session!GoOffline(r)
    BY <2>1, <2>2, <2>3, Moves DEF Session!GoOffline, Running
  <2> QED
    BY <1>1, <2>1, <2>4 DEF Simulates, Session!Next
<1> QED
  BY <1>2, <1>3

\* AllocLockedPlayer admits a role.  The roles that are present have slots of
\* their own, and there is one more.
LEMMA AdmitStep ==
  ASSUME IInv, LeakedInv, NEW r \in Role, EnterAlloc(r)
  PROVE  Simulates
<1> USE NoneAssumption DEF IInv, TypeOK
<1>1. PICK s \in available : /\ available' = available \ {s}
                             /\ rolemap' = [rolemap EXCEPT ![r] = s]
                             /\ ptr' = [ptr EXCEPT !["master"] = s]
  BY DEF EnterAlloc
<1>2. /\ rolemap[r] = None /\ Running /\ pc["master"] = "idle"
      /\ pc' = [pc EXCEPT !["master"] = "enter_lock"]
      /\ UNCHANGED <<active, offline, leaked, aborted>>
  BY DEF EnterAlloc, Goto, player
<1>3. s \in Slot /\ ~active[s] /\ ~offline[s] /\ s \notin leaked
      /\ \A q \in Role : rolemap[q] # s
  BY DEF PoolClean, LeakedInv
<1>4. LeakedInv'
  <2> SUFFICES ASSUME NEW u \in leaked
               PROVE  /\ u \notin available' /\ ~active[u] /\ ~offline[u]
                      /\ \A t \in Thread : pc'[t] \in Busy => ptr'[t] # u
    BY <1>2 DEF LeakedInv
  <2>1. u # s /\ u \notin available /\ ~active[u] /\ ~offline[u]
    BY <1>3 DEF LeakedInv
  <2>2. ASSUME NEW t \in Thread, pc'[t] \in Busy PROVE ptr'[t] # u
    <3>1. CASE t = "master"
      BY <1>1, <2>1, <3>1
    <3>2. CASE t # "master"
      BY <1>1, <1>2, <2>2, <3>2 DEF LeakedInv
    <3> QED
      BY <3>1, <3>2
  <2> QED
    BY <1>1, <2>1, <2>2
<1>5. StageOf(r) = "absent" /\ StageOf(r)' = "entering"
  BY <1>1, <1>2, <1>3 DEF StageOf
<1>6. \A q \in Role : q # r => StageOf(q)' = StageOf(q)
  BY <1>1, <1>2 DEF StageOf
<1>7. Session!Move(r, "absent", "entering")
  BY <1>2, <1>5, <1>6, Moves DEF Running
<1>8. Cardinality({q \in Role : [p \in Role |-> StageOf(p)][q] # "absent"})
        < Cardinality(Slot)
  <2>1. PICK P : P = {q \in Role : StageOf(q) # "absent"}
    OBVIOUS
  <2>2. \A q \in P : q \in Role /\ rolemap[q] \in Slot \ {s} /\ rolemap[q] # None
    BY <1>3, <2>1 DEF StageOf
  <2>3. [q \in P |-> rolemap[q]] \in Injection(P, Slot \ {s})
    BY <2>2, OneRole DEF Injection, IsInjective
  <2>4. IsFiniteSet(Slot \ {s}) /\ Cardinality(Slot \ {s}) = Cardinality(Slot) - 1
    BY <1>3, SlotAssumption, FS_RemoveElement
  <2>5. IsFiniteSet(P) /\ Cardinality(P) <= Cardinality(Slot \ {s})
    BY <2>3, <2>4, FS_Injection
  <2>6. Cardinality(P) \in Nat /\ Cardinality(Slot) \in Nat
    BY <2>5, SlotAssumption, FS_CardinalityType
  <2>7. P = {q \in Role : [p \in Role |-> StageOf(p)][q] # "absent"}
    BY <2>1
  <2>8. Cardinality(P) < Cardinality(Slot)
    BY <2>4, <2>5, <2>6
  <2> QED
    BY <2>7, <2>8
<1>9. Session!Admit(r)
  BY <1>7, <1>8 DEF Session!Admit, Session!Present, Session!Cardinality,
                    Cardinality
<1> QED
  BY <1>4, <1>9 DEF Simulates, Session!Next

\* RedirectEnterWorld's early return leaves the role stranded.
LEMMA StrandStep ==
  ASSUME IInv, LeakedInv, EnterRedirectFail
  PROVE  Simulates
<1> USE NoneAssumption DEF IInv, TypeOK
<1> DEFINE s == ptr["master"]
<1>1. /\ Running /\ pc["master"] = "enter_world" /\ leaked' = leaked \cup {s}
      /\ pc' = [pc EXCEPT !["master"] = "unlock"]
      /\ UNCHANGED <<rolemap, active, offline, available, ptr, aborted>>
  BY DEF EnterRedirectFail, Goto, player
<1>2. "master" \in Thread
  BY DEF Thread
<1>3. /\ s \in Slot /\ ~active[s] /\ s \notin available /\ ~offline[s]
      /\ s \notin leaked /\ holder[s] = "master" /\ Mapped(s)
  BY <1>1, <1>2 DEF HolderInv, Holding, GoneInv, NormalInv, MappedInv,
                    LeakedInv, Busy
<1>r. PICK r \in Role : rolemap[r] = s
  BY <1>3 DEF Mapped
<1>4. LeakedInv'
  <2> SUFFICES ASSUME NEW u \in leaked'
               PROVE  /\ u \notin available /\ ~active[u] /\ ~offline[u]
                      /\ \A t \in Thread : pc'[t] \in Busy => ptr[t] # u
    BY <1>1 DEF LeakedInv
  <2>1. ASSUME NEW t \in Thread, pc'[t] \in Busy PROVE t # "master" /\ pc[t] \in Busy
    BY <1>1, <2>1 DEF Busy
  <2>2. CASE u \in leaked
    BY <2>1, <2>2 DEF LeakedInv
  <2>3. CASE u = s
    <3>1. ASSUME NEW t \in Thread, pc'[t] \in Busy PROVE ptr[t] # s
      <4>1. CASE pc[t] = "enter_lock"
        BY <2>1, <3>1, <4>1 DEF PointInv
      <4>2. CASE pc[t] # "enter_lock"
        BY <1>3, <2>1, <3>1, <4>2 DEF HolderInv, Holding, Busy
      <4> QED
        BY <4>1, <4>2
    <3> QED
      BY <1>3, <2>3, <3>1
  <2> QED
    BY <1>1, <2>2, <2>3
<1>5. StageOf(r) = "entering" /\ StageOf(r)' = "stranded"
  BY <1>1, <1>3, <1>r DEF StageOf
<1>6. ASSUME NEW q \in Role, q # r PROVE StageOf(q)' = StageOf(q)
  <2>1. rolemap[q] # s
    BY <1>3, <1>r, <1>6, OneRole
  <2> QED
    BY <1>1, <2>1 DEF StageOf
<1>7. Session!Strand(r)
  BY <1>1, <1>r, <1>5, <1>6, Moves DEF Session!Strand, Running
<1> QED
  BY <1>r, <1>4, <1>7 DEF Simulates, Session!Next, Session!Decide

\* InsertPlayerToMan: the role is online.
LEMMA ArriveStep ==
  ASSUME IInv, LeakedInv, EnterWorld
  PROVE  Simulates
<1> USE NoneAssumption DEF IInv, TypeOK
<1> DEFINE s == ptr["master"]
<1>1. /\ Running /\ pc["master"] = "enter_world"
      /\ active' = [active EXCEPT ![s] = TRUE]
      /\ pc' = [pc EXCEPT !["master"] = "enter_online"]
      /\ UNCHANGED <<rolemap, leaked, offline, available, ptr, aborted>>
  BY DEF EnterWorld, Goto, index
<1>2. "master" \in Thread
  BY DEF Thread
<1>3. /\ s \in Slot /\ ~active[s] /\ ~offline[s] /\ s \notin leaked /\ Mapped(s)
  BY <1>1, <1>2 DEF HolderInv, Holding, GoneInv, NormalInv, MappedInv,
                    LeakedInv, Busy
<1>4. PICK r \in Role : rolemap[r] = s
  BY <1>3 DEF Mapped
<1>5. KeepsBusy
  BY <1>1 DEF KeepsBusy, Busy
<1>6. LeakedInv'
  BY <1>1, <1>3, <1>5 DEF LeakedInv, KeepsBusy
<1>7. StageOf(r) = "entering" /\ StageOf(r)' = "online"
  BY <1>1, <1>3, <1>4 DEF StageOf
<1>8. ASSUME NEW q \in Role, q # r PROVE StageOf(q)' = StageOf(q)
  <2>1. rolemap[q] # s
    BY <1>3, <1>4, <1>8, OneRole
  <2> QED
    BY <1>1, <2>1 DEF StageOf
<1>9. Session!Arrive(r)
  BY <1>1, <1>7, <1>8, Moves DEF Session!Arrive, Running
<1> QED
  BY <1>6, <1>9 DEF Simulates, Session!Next, Session!Decide

\* RemovePlayerFromMan: LogoutTask takes an offline player away.
LEMMA RemoveStep ==
  ASSUME IInv, LeakedInv, NEW w \in Worker, TaskRemove(w)
  PROVE  Simulates
<1> USE NoneAssumption DEF IInv, TypeOK
<1> DEFINE s == ptr[w]
<1>1. /\ Running /\ pc[w] = "task" /\ active[s] /\ offline[s]
      /\ active' = [active EXCEPT ![s] = FALSE]
      /\ pc' = [pc EXCEPT ![w] = "offline"]
      /\ UNCHANGED <<rolemap, leaked, offline, available, ptr, aborted>>
  BY DEF TaskRemove, LockFree, Goto, index
<1>2. w \in Thread /\ s \in Slot
  BY <1>1 DEF Thread, PointInv
<1>3. s \notin leaked
  BY <1>1 DEF LeakedInv
<1>4. PICK r \in Role : rolemap[r] = s
  BY <1>1, <1>2 DEF ActiveInv, Mapped
<1>5. LeakedInv'
  <2> SUFFICES ASSUME NEW u \in leaked
               PROVE  /\ u \notin available /\ ~active'[u] /\ ~offline[u]
                      /\ \A t \in Thread : pc'[t] \in Busy => ptr[t] # u
    BY <1>1 DEF LeakedInv
  <2>1. u # s /\ u \in Slot
    BY <1>3
  <2>2. ASSUME NEW t \in Thread, pc'[t] \in Busy PROVE ptr[t] # u
    BY <1>1, <2>1, <2>2 DEF LeakedInv
  <2> QED
    BY <1>1, <2>1, <2>2 DEF LeakedInv
<1>6. StageOf(r) = "offline" /\ StageOf(r)' = "leaving"
  BY <1>1, <1>2, <1>3, <1>4 DEF StageOf
<1>7. ASSUME NEW q \in Role, q # r PROVE StageOf(q)' = StageOf(q)
  <2>1. rolemap[q] # s
    BY <1>2, <1>4, <1>7, OneRole
  <2> QED
    BY <1>1, <2>1 DEF StageOf
<1>8. Session!StartLeaving(r)
  BY <1>1, <1>6, <1>7, Moves DEF Session!StartLeaving, Running
<1> QED
  BY <1>5, <1>8 DEF Simulates, Session!Next

\* UnmapPlayer: a removed player is gone, one that did not get in is refused.
LEMMA UnmapSession ==
  ASSUME IInv, LeakedInv, NEW t \in Thread, Unmap(t)
  PROVE  Simulates
<1> USE NoneAssumption DEF IInv, TypeOK
<1> DEFINE s == ptr[t]
<1>1. /\ Running /\ pc[t] = "unmap" /\ rolemap' = [rolemap EXCEPT ![xid[s]] = None]
      /\ pc' = [pc EXCEPT ![t] = "free"]
      /\ UNCHANGED <<active, leaked, offline, available, ptr, aborted>>
  BY DEF Unmap, Goto, player
<1>2. s \in Slot /\ ~active[s] /\ s \notin leaked /\ Mapped(s)
  BY <1>1 DEF HolderInv, Holding, GoneInv, MappedInv, LeakedInv, Busy
<1>3. PICK r \in Role : r = xid[s] /\ rolemap[r] = s
  BY <1>2 DEF Mapped
<1>4. KeepsBusy
  BY <1>1 DEF KeepsBusy, Busy
<1>5. LeakedInv'
  BY <1>1, <1>4 DEF LeakedInv, KeepsBusy
<1>6. StageOf(r) \in {"entering", "leaving"} /\ StageOf(r)' = "absent"
  BY <1>1, <1>2, <1>3 DEF StageOf
<1>7. ASSUME NEW q \in Role, q # r PROVE StageOf(q)' = StageOf(q)
  BY <1>1, <1>3, <1>7 DEF StageOf
<1>8. Session!Refuse(r) \/ Session!Leave(r)
  BY <1>1, <1>6, <1>7, Moves DEF Session!Refuse, Session!Leave, Running
<1> QED
  BY <1>5, <1>8 DEF Simulates, Session!Next, Session!Decide

\* FreePlayer: the slot is no role's any more, so nobody sees it cleared.
LEMMA FreeSession ==
  ASSUME IInv, LeakedInv, NEW t \in Thread, Free(t)
  PROVE  Simulates
<1> USE NoneAssumption DEF IInv, TypeOK
<1> DEFINE s == ptr[t]
<1>1. /\ pc[t] = "free" /\ available' = available \cup {s}
      /\ active' = [active EXCEPT ![s] = FALSE]
      /\ offline' = [offline EXCEPT ![s] = FALSE]
      /\ pc' = [pc EXCEPT ![t] = "unlock"]
      /\ UNCHANGED <<rolemap, leaked, ptr, aborted>>
  BY DEF Free, Goto
<1>2. s \in Slot /\ s \notin leaked /\ \A r \in Role : rolemap[r] # s
  BY <1>1 DEF HolderInv, Holding, FreeInv, LeakedInv, Busy
<1>3. KeepsBusy
  BY <1>1 DEF KeepsBusy, Busy
<1>4. LeakedInv'
  BY <1>1, <1>2, <1>3 DEF LeakedInv, KeepsBusy
<1>5. ASSUME NEW r \in Role PROVE StageOf(r)' = StageOf(r)
  BY <1>1, <1>2 DEF StageOf
<1>6. UNCHANGED Session!vars
  BY <1>1, <1>5 DEF Session!vars, Running
<1> QED
  BY <1>4, <1>6 DEF Simulates

\* An assertion stops the server.
LEMMA StopStep ==
  ASSUME IInv, LeakedInv, NEW w \in Worker, TaskAssert(w) \/ LockTimeout(w)
  PROVE  Simulates
<1>1. /\ Running /\ ~Running' /\ UNCHANGED <<Shown, available, pc, ptr>>
  BY NoneAssumption DEF TaskAssert, LockTimeout, LockFree, Running, player,
                        index, thread, Shown
<1>2. LeakedInv'
  BY <1>1 DEF LeakedInv, Shown
<1>3. ASSUME NEW r \in Role PROVE StageOf(r)' = StageOf(r)
  BY <1>1 DEF StageOf, Shown
<1>4. Session!Stop
  BY <1>1, <1>3 DEF Session!Stop
<1> QED
  BY <1>2, <1>4 DEF Simulates, Session!Next

-----------------------------------------------------------------------------
\* A thread t that is not at a point with a slot of its own, and does not get
\* to one, leaves the others where they are.
LEMMA KeepsBusyAt ==
  ASSUME IInv, NEW t \in Thread, NEW l, pc' = [pc EXCEPT ![t] = l],
         l \notin Busy, \A u \in Thread : u # t => ptr'[u] = ptr[u]
  PROVE  KeepsBusy
BY DEF IInv, TypeOK, KeepsBusy

\* The steps of a login.
LEMMA EnterSession == ASSUME IInv, LeakedInv, Enter PROVE Simulates
<1>1. ASSUME NEW ok \in BOOLEAN, NEW l \in Link, NEW m \in Master, EnterLock(ok, l, m)
      PROVE  Simulates
  <2>1. UNCHANGED <<Shown, available, aborted>>
    BY <1>1 DEF EnterLock, index, Shown
  <2>2. KeepsBusy
    BY <1>1 DEF EnterLock, Goto, KeepsBusy, Busy, IInv, TypeOK
  <2> QED
    BY <2>1, <2>2, QuietStep
<1>2. ASSUME EnterFail \/ EnterOnline PROVE Simulates
  <2>1. UNCHANGED <<Shown, available, aborted>>
    BY <1>2 DEF EnterFail, EnterOnline, player, index, Shown
  <2>2. KeepsBusy
    BY <1>2 DEF EnterFail, EnterOnline, Goto, KeepsBusy, Busy, IInv, TypeOK
  <2> QED
    BY <2>1, <2>2, QuietStep
<1> QED
  BY <1>1, <1>2, AdmitStep, StrandStep, ArriveStep DEF Enter

\* A handler that ends in a return, having logged the player out or not.
LEMMA ReturnSession ==
  ASSUME IInv, LeakedInv, NEW t \in Thread, Return(t), Running,
         UNCHANGED <<rolemap, active, leaked, available, aborted>>,
         \/ UNCHANGED offline
         \/ /\ ptr[t] \in Slot /\ active[ptr[t]]
            /\ offline' = [offline EXCEPT ![ptr[t]] = TRUE]
  PROVE  Simulates
<1>1. KeepsBusy
  BY KeepsBusyAt DEF Return, Busy, IInv, TypeOK
<1> QED
  BY <1>1, QuietStep, OfflineStep DEF Shown

\* PlayerLogout and the callback of a save.
LEMMA Logouts ==
  ASSUME NEW s,
         LogoutWithSave(s) \/ LogoutWithoutSave(s) \/ LogoutSaveDataCB(s)
  PROVE  offline' = [offline EXCEPT ![s] = TRUE] \/ UNCHANGED offline
BY DEF LogoutWithSave, LogoutWithoutSave, LogoutSaveDataCB

\* The handlers of the master and link threads.
LEMMA HandleSession == ASSUME IInv, LeakedInv, Handle PROVE Simulates
<1>0. "master" \in Thread /\ "link" \in Thread
  BY DEF Thread
<1>1. ASSUME NEW r \in Role, FindForRpc(r) \/ FindForLogout(r) \/ FindForCommand(r)
      PROVE  Simulates
  <2>1. UNCHANGED <<Shown, available, aborted>>
    BY <1>1 DEF FindForRpc, FindForLogout, FindForCommand, Find, player, index, Shown
  <2>2. KeepsBusy
    BY <1>0, <1>1 DEF FindForRpc, FindForLogout, FindForCommand, Find, Goto,
                      KeepsBusy, Busy, IInv, TypeOK
  <2> QED
    BY <2>1, <2>2, QuietStep
<1>2. ASSUME RpcResponse \/ RpcSaveError PROVE Simulates
  <2>1. /\ Running /\ pc["master"] = "rpc" /\ active[ptr["master"]] /\ Return("master")
        /\ LogoutSaveDataCB(ptr["master"]) \/ LogoutWithoutSave(ptr["master"])
        /\ UNCHANGED <<rolemap, active, leaked, available, aborted>>
    BY <1>2 DEF RpcResponse, RpcSaveError, LockFree, identity, index
  <2>2. ptr["master"] \in Slot
    BY <1>0, <2>1 DEF IInv, PointInv
  <2> QED
    BY <1>0, <2>1, <2>2, Logouts, ReturnSession
<1>3. ASSUME NEW l \in Link, LinkPlayerLogout(l) \/ \E n \in 1 .. 2 : LongJump(l, n)
      PROVE  Simulates
  <2>1. /\ Running /\ pc["link"] \in {"logout", "command"} /\ active[ptr["link"]]
        /\ Return("link") /\ UNCHANGED <<rolemap, active, leaked, available, aborted>>
    BY <1>3 DEF LinkPlayerLogout, LongJump, LogoutAccepts, CommandAccepts,
                LockFree, identity, index
  <2>2. offline' = [offline EXCEPT ![ptr["link"]] = TRUE] \/ UNCHANGED offline
    BY <1>3, Logouts DEF LinkPlayerLogout, LongJump
  <2>3. ptr["link"] \in Slot
    BY <1>0, <2>1 DEF IInv, PointInv
  <2> QED
    BY <1>0, <2>1, <2>2, <2>3, ReturnSession
<1>4. ASSUME RpcIgnore \/ CommandIgnore \/ \E l \in Link : LinkLogoutReject(l)
      PROVE  Simulates
  BY <1>0, <1>4, ReturnSession
     DEF RpcIgnore, CommandIgnore, LinkLogoutReject, Ignore, LockFree, player, index
<1> QED
  BY <1>1, <1>2, <1>3, <1>4 DEF Handle

\* ForEachPlayer and its callbacks.
LEMMA KickSession ==
  ASSUME IInv, LeakedInv, KickBegin \/ \E t \in {"link", "master", "main"} : Kick(t)
  PROVE  Simulates
<1>0. {"link", "master", "main"} \subseteq Thread
  BY DEF Thread
<1>1. ASSUME NEW t \in {"link", "master", "main"}, NEW c, ForEachBegin(t, c)
      PROVE  Simulates
  <2>1. UNCHANGED <<Shown, available, aborted>>
    BY <1>1 DEF ForEachBegin, player, index, Shown
  <2>2. KeepsBusy
    BY <1>0, <1>1, KeepsBusyAt DEF ForEachBegin, Goto, Busy
  <2> QED
    BY <2>1, <2>2, QuietStep
<1>2. ASSUME NEW t \in {"link", "master", "main"},
             KickoutSkip(t) \/ \E r \in Role : ForEachFind(t, r)
      PROVE  Simulates
  <2>1. UNCHANGED <<Shown, available, aborted>>
    BY <1>2 DEF ForEachFind, KickoutSkip, player, index, Shown
  <2>2. KeepsBusy
    BY <1>0, <1>2 DEF ForEachFind, KickoutSkip, Goto, KeepsBusy, Busy, IInv, TypeOK
  <2> QED
    BY <2>1, <2>2, QuietStep
<1>3. ASSUME NEW t \in {"link", "master", "main"}, ForEachEnd(t)
      PROVE  Simulates
  BY <1>0, <1>3, ReturnSession DEF ForEachEnd, player, index
<1>4. ASSUME NEW t \in {"link", "master", "main"}, Kickout(t)
      PROVE  Simulates
  <2>1. /\ Running /\ pc[t] = "each_lock" /\ active[ptr[t]]
        /\ pc' = [pc EXCEPT ![t] = "each"] /\ ptr' = ptr
        /\ LogoutWithSave(ptr[t]) \/ LogoutWithoutSave(ptr[t])
        /\ UNCHANGED <<rolemap, active, leaked, available, aborted>>
    BY <1>4 DEF Kickout, LockFree, Goto, identity, index
  <2>2. ptr[t] \in Slot
    BY <1>0, <2>1 DEF IInv, VisitedInv
  <2>3. offline' = [offline EXCEPT ![ptr[t]] = TRUE] \/ UNCHANGED offline
    BY <2>1, Logouts
  <2>4. KeepsBusy
    BY <1>0, <2>1, KeepsBusyAt DEF Busy
  <2> QED
    BY <2>1, <2>2, <2>3, <2>4, QuietStep, OfflineStep DEF Shown
<1>5. ASSUME KickBegin PROVE Simulates
  BY <1>1, <1>5 DEF KickBegin, LinkDisconnect, MasterDisconnect, StopProcess
<1> QED
  BY <1>2, <1>3, <1>4, <1>5 DEF Kick

\* Heartbeats.
LEMMA HeartbeatSession ==
  ASSUME IInv, LeakedInv, NEW s \in Slot, HeartbeatTimeout(s) \/ HeartbeatLogout(s)
  PROVE  Simulates
<1>1. /\ Running /\ active[s]
      /\ LogoutSaveDataCB(s) \/ LogoutWithoutSave(s)
      /\ UNCHANGED <<rolemap, active, leaked, available, aborted, pc, ptr>>
  BY DEF HeartbeatTimeout, HeartbeatLogout, identity, index, thread
<1>2. offline' = [offline EXCEPT ![s] = TRUE] \/ UNCHANGED offline
  BY <1>1, Logouts
<1>3. KeepsBusy
  BY <1>1 DEF KeepsBusy
<1> QED
  BY <1>1, <1>2, <1>3, QuietStep, OfflineStep DEF Shown

\* LogoutTask.
LEMMA LogoutSession == ASSUME IInv, LeakedInv, NEW w \in Worker, Logout(w) PROVE Simulates
<1>0. w \in Thread
  BY DEF Thread
<1>1. ASSUME NEW r \in Role, TaskFind(w, r) PROVE Simulates
  <2>1. UNCHANGED <<Shown, available, aborted>>
    BY <1>1 DEF TaskFind, player, index, Shown
  <2>2. KeepsBusy
    BY <1>0, <1>1 DEF TaskFind, thread, Goto, KeepsBusy, Busy, IInv, TypeOK
  <2> QED
    BY <2>1, <2>2, QuietStep
<1>2. ASSUME TaskInactive(w) PROVE Simulates
  BY <1>0, <1>2, ReturnSession DEF TaskInactive, Ignore, LockFree, player, index
<1>3. ASSUME TaskOffline(w) PROVE Simulates
  <2>1. UNCHANGED <<Shown, available, aborted>>
    BY <1>3 DEF TaskOffline, player, Shown
  <2>2. KeepsBusy
    BY <1>0, <1>3 DEF TaskOffline, Goto, KeepsBusy, Busy, IInv, TypeOK
  <2> QED
    BY <2>1, <2>2, QuietStep
<1> QED
  BY <1>1, <1>2, <1>3, RemoveStep, StopStep DEF Logout

\* Every step of the server is a step of RoleSession or shows nothing.
LEMMA NextSession ==
  ASSUME IInv, LeakedInv, [Next]_vars
  PROVE  Simulates
<1>1. ASSUME NEW t \in Worker \cup {"master"}, Release(t) PROVE Simulates
  <2>0. t \in Thread
    BY DEF Thread
  <2>1. ASSUME Unlock(t) PROVE Simulates
    BY <2>0, <2>1, ReturnSession DEF Unlock, player, index
  <2> QED
    BY <1>1, <2>0, <2>1, UnmapSession, FreeSession DEF Release
<1>2. ASSUME UNCHANGED vars PROVE Simulates
  <2>1. UNCHANGED <<Shown, available, aborted>> /\ KeepsBusy
    BY <1>2 DEF vars, player, index, thread, Shown, KeepsBusy
  <2> QED
    BY <2>1, QuietStep
<1> QED
  BY <1>1, <1>2, EnterSession, HandleSession, KickSession, HeartbeatSession,
     LogoutSession DEF Next, Stopped

\* The threads of login, logout and removal implement the safety part of
\* RoleSession: a role is admitted, online, offline and gone in this order,
\* once at a time, whatever the handlers of its sessions and of others do.
THEOREM SessionImplemented ==
  Spec => Session!Init /\ [][Session!Next]_(Session!vars)
<1>1. Init => Session!Init /\ LeakedInv
  BY NoneAssumption DEF Init, Session!Init, StageOf, LeakedInv, Running
<1>2. IInv /\ LeakedInv /\ [Next]_vars
        => LeakedInv' /\ [Session!Next]_(Session!vars)
  BY NextSession DEF Simulates
<1> QED
  BY <1>1, <1>2, Invariance, PTL DEF Spec

-----------------------------------------------------------------------------
(***************************************************************************)
(* The use of the slots.  Only a LogoutTask removes a player, and a slot   *)
(* that a failed login gives back was never offline.                       *)
(***************************************************************************)
Ends == {"unmap", "free", "unlock"}

UseInv ==
  \A t \in Thread :
    /\ pc[t] = "unlock" => PhaseOf(ptr[t]) # "leaving"
    /\ pc[t] \in {"unmap", "free"} /\ t \notin Worker => ~offline[ptr[t]]

\* What every step has to do.
KeepsUse == UseInv' /\ (Use!Next \/ UNCHANGED Use!vars)

\* No thread gets to its last steps, and none leaves its slot there.
KeepsEnds ==
  \A t \in Thread : pc'[t] \in Ends => pc'[t] = pc[t] /\ ptr'[t] = ptr[t]

LEMMA KeepsEndsAt ==
  ASSUME IInv, NEW t \in Thread, NEW l, pc' = [pc EXCEPT ![t] = l],
         l \notin Ends, \A u \in Thread : u # t => ptr'[u] = ptr[u]
  PROVE  KeepsEnds
BY DEF IInv, TypeOK, KeepsEnds

\* A slot's phase or its lock changes, and those of the others do not.
LEMMA PhaseMoves ==
  ASSUME NEW s \in Slot, NEW to, PhaseOf(s)' = to,
         \A q \in Slot : q # s => PhaseOf(q)' = PhaseOf(q)
  PROVE  [q \in Slot |-> PhaseOf(q)]' = [[q \in Slot |-> PhaseOf(q)] EXCEPT ![s] = to]
OBVIOUS

LEMMA LockMoves ==
  ASSUME NEW s \in Slot, NEW h, LockOf(s)' = h,
         \A q \in Slot : q # s => holder'[q] = holder[q]
  PROVE  [q \in Slot |-> LockOf(q)]' = [[q \in Slot |-> LockOf(q)] EXCEPT ![s] = h]
<1>1. \A q \in Slot : q # s => LockOf(q)' = LockOf(q)
  BY DEF LockOf
<1> QED
  BY <1>1

LEMMA LockStays ==
  ASSUME UNCHANGED holder
  PROVE  [q \in Slot |-> LockOf(q)]' = [q \in Slot |-> LockOf(q)]
BY DEF LockOf

\* PlayerLogout does not show: an active player is a member, offline or not.
LEMMA PhaseStays ==
  ASSUME IInv, UNCHANGED <<available, active>>,
         \/ UNCHANGED offline
         \/ \E s \in Slot : active[s] /\ offline' = [offline EXCEPT ![s] = TRUE]
  PROVE  \A q \in Slot : PhaseOf(q)' = PhaseOf(q) /\ (offline'[q] # offline[q] => active[q])
BY DEF PhaseOf, IInv, TypeOK

\* The slot at which a thread is about to unlock, or to give a slot back.
LEMMA EndsSlot ==
  ASSUME IInv, NEW t \in Thread, pc[t] \in Ends
  PROVE  ptr[t] \in Slot /\ holder[ptr[t]] = t
BY DEF IInv, HolderInv, Holding, Ends

\* A handler that keeps no lock.
LEMMA QuietUse ==
  ASSUME IInv, UseInv, KeepsEnds, UNCHANGED <<available, active, holder>>,
         \/ UNCHANGED offline
         \/ \E s \in Slot : active[s] /\ offline' = [offline EXCEPT ![s] = TRUE]
  PROVE  KeepsUse
<1>1. \A q \in Slot : PhaseOf(q)' = PhaseOf(q) /\ (offline'[q] # offline[q] => active[q])
  BY PhaseStays
<1>2. ASSUME NEW t \in Thread, pc'[t] = "unlock" PROVE PhaseOf(ptr[t])' # "leaving"
  <2>1. pc[t] = "unlock" /\ ptr'[t] = ptr[t]
    BY <1>2 DEF KeepsEnds, Ends
  <2>2. ptr[t] \in Slot /\ PhaseOf(ptr[t]) # "leaving"
    BY <2>1, EndsSlot DEF UseInv, Ends
  <2> QED
    BY <1>1, <2>1, <2>2
<1>3. ASSUME NEW t \in Thread, pc'[t] \in {"unmap", "free"}, t \notin Worker
      PROVE  ~offline'[ptr'[t]]
  <2>1. pc[t] \in {"unmap", "free"} /\ ptr'[t] = ptr[t]
    BY <1>3 DEF KeepsEnds, Ends
  <2>2. ptr[t] \in Slot /\ ~offline[ptr[t]] /\ ~active[ptr[t]]
    BY <1>3, <2>1, EndsSlot DEF UseInv, Ends, IInv, GoneInv
  <2>3. offline' \in [Slot -> BOOLEAN]
    BY DEF IInv, TypeOK
  <2> QED
    BY <1>1, <2>1, <2>2, <2>3
<1>4. UseInv'
  BY <1>2, <1>3 DEF UseInv
<1> QED
  BY <1>1, <1>4, LockStays DEF KeepsUse, Use!vars

\* A thread goes on with its slot, towards its last steps.
LEMMA EndUse ==
  ASSUME IInv, UseInv, NEW t \in Thread, NEW l, pc' = [pc EXCEPT ![t] = l],
         UNCHANGED <<available, active, offline, holder, ptr>>,
         l = "unlock" => PhaseOf(ptr[t]) # "leaving",
         l \in {"unmap", "free"} /\ t \notin Worker => ~offline[ptr[t]]
  PROVE  KeepsUse
<1>1. \A q : PhaseOf(q)' = PhaseOf(q)
  BY DEF PhaseOf
<1>2. UseInv'
  BY DEF UseInv, PhaseOf, IInv, TypeOK
<1> QED
  BY <1>1, <1>2, LockStays DEF KeepsUse, Use!vars

\* AllocLockedPlayer: the slot is taken out of the pool, and may still be
\* locked by the thread that freed it ...
LEMMA AllocUse == ASSUME IInv, UseInv, NEW r \in Role, EnterAlloc(r) PROVE KeepsUse
<1> USE DEF IInv, TypeOK
<1>1. PICK s \in available : /\ available' = available \ {s}
                             /\ ptr' = [ptr EXCEPT !["master"] = s]
  BY DEF EnterAlloc
<1>2. /\ pc' = [pc EXCEPT !["master"] = "enter_lock"]
      /\ UNCHANGED <<active, offline, holder>>
  BY DEF EnterAlloc, Goto, player
<1>3. s \in Slot /\ ~active[s] /\ ~offline[s]
  BY DEF PoolClean
<1>4. PhaseOf(s) = "free" /\ PhaseOf(s)' = "fresh"
  BY <1>1, <1>2, <1>3 DEF PhaseOf
<1>5. \A q \in Slot : q # s => PhaseOf(q)' = PhaseOf(q)
  BY <1>1, <1>2 DEF PhaseOf
<1>6. KeepsEnds
  BY <1>1, <1>2, KeepsEndsAt DEF Ends, Thread
<1>7. UseInv'
  <2>1. ASSUME NEW t \in Thread, pc'[t] = "unlock" PROVE PhaseOf(ptr[t])' # "leaving"
    <3>1. pc[t] = "unlock" /\ ptr'[t] = ptr[t]
      BY <1>6, <2>1 DEF KeepsEnds, Ends
    <3>2. ptr[t] \in Slot /\ PhaseOf(ptr[t]) # "leaving"
      BY <3>1, EndsSlot DEF UseInv, Ends
    <3>3. CASE ptr[t] = s
      BY <1>4, <3>1, <3>3
    <3>4. CASE ptr[t] # s
      BY <1>5, <3>1, <3>2, <3>4
    <3> QED
      BY <3>3, <3>4
  <2>2. ASSUME NEW t \in Thread, pc'[t] \in {"unmap", "free"}, t \notin Worker
        PROVE  ~offline'[ptr'[t]]
    BY <1>2, <1>6, <2>2 DEF KeepsEnds, Ends, UseInv
  <2> QED
    BY <2>1, <2>2 DEF UseInv
<1>8. Use!Alloc(s)
  BY <1>2, <1>3, <1>4, <1>5, PhaseMoves, LockStays DEF Use!Alloc, Use!Become
<1> QED
  BY <1>3, <1>7, <1>8 DEF KeepsUse, Use!Next

\* ... for which the login waits.
LEMMA LockUse ==
  ASSUME IInv, UseInv, NEW ok \in BOOLEAN, NEW l \in Link, NEW m \in Master,
         EnterLock(ok, l, m)
  PROVE  KeepsUse
<1> USE DEF IInv, TypeOK
<1>1. PICK s : s = ptr["master"]
  OBVIOUS
<1>2. /\ pc["master"] = "enter_lock" /\ holder[s] = None
      /\ holder' = [holder EXCEPT ![s] = "master"]
      /\ \E k \in {"enter_world", "unmap"} : pc' = [pc EXCEPT !["master"] = k]
      /\ UNCHANGED <<available, active, offline, ptr>>
  BY <1>1 DEF EnterLock, Goto, index
<1>3. s \in Slot /\ ~offline[s]
  BY <1>1, <1>2 DEF PointInv, FreshInv, Thread
<1>4. \A q : PhaseOf(q)' = PhaseOf(q)
  BY <1>2 DEF PhaseOf
<1>5. UseInv'
  BY <1>1, <1>2, <1>3 DEF UseInv, PhaseOf, Thread
<1>6. LockOf(s) = "none" /\ LockOf(s)' = "other"
  BY <1>2, <1>3, NoneAssumption, WorkerAssumption DEF LockOf
<1>7. Use!Lock(s)
  BY <1>2, <1>3, <1>4, <1>6, LockMoves DEF Use!Lock
<1> QED
  BY <1>3, <1>5, <1>7 DEF KeepsUse, Use!Next

\* InsertPlayerToMan makes the player a member, once.
LEMMA InsertUse == ASSUME IInv, UseInv, EnterWorld PROVE KeepsUse
<1> USE DEF IInv, TypeOK
<1>1. PICK s : s = ptr["master"]
  OBVIOUS
<1>2. /\ pc["master"] = "enter_world" /\ pc' = [pc EXCEPT !["master"] = "enter_online"]
      /\ active' = [active EXCEPT ![s] = TRUE]
      /\ UNCHANGED <<available, offline, holder, ptr>>
  BY <1>1 DEF EnterWorld, Goto, index
<1>3. s \in Slot /\ s \notin available /\ ~active[s] /\ ~offline[s]
  BY <1>1, <1>2 DEF HolderInv, Holding, GoneInv, NormalInv, Thread
<1>4. PhaseOf(s) = "fresh" /\ PhaseOf(s)' = "member"
  BY <1>2, <1>3 DEF PhaseOf
<1>5. \A q \in Slot : q # s => PhaseOf(q)' = PhaseOf(q)
  BY <1>2, <1>3 DEF PhaseOf
<1>6. UseInv'
  BY <1>1, <1>2, <1>3 DEF UseInv, PhaseOf, Thread
<1>7. Use!Insert(s)
  BY <1>2, <1>3, <1>4, <1>5, PhaseMoves, LockStays DEF Use!Insert, Use!Become
<1> QED
  BY <1>3, <1>6, <1>7 DEF KeepsUse, Use!Next

\* LogoutTask removes the player, under a lock that nobody held.
LEMMA RemoveUse == ASSUME IInv, UseInv, NEW w \in Worker, TaskRemove(w) PROVE KeepsUse
<1> USE DEF IInv, TypeOK
<1>0. w \in Thread
  BY DEF Thread
<1>1. PICK s : s = ptr[w]
  OBVIOUS
<1>2. /\ pc[w] = "task" /\ holder[s] = None /\ active[s] /\ offline[s]
      /\ pc' = [pc EXCEPT ![w] = "offline"]
      /\ active' = [active EXCEPT ![s] = FALSE]
      /\ holder' = [holder EXCEPT ![s] = w]
      /\ UNCHANGED <<available, offline, ptr>>
  BY <1>1 DEF TaskRemove, LockFree, Goto, index
<1>3. s \in Slot /\ s \notin available
  BY <1>0, <1>1, <1>2 DEF PointInv, ActiveInv
<1>4. PhaseOf(s) = "member" /\ PhaseOf(s)' = "leaving"
  BY <1>2, <1>3 DEF PhaseOf
<1>5. \A q \in Slot : q # s => PhaseOf(q)' = PhaseOf(q)
  BY <1>2, <1>3 DEF PhaseOf
<1>6. LockOf(s) = "none" /\ LockOf(s)' = "remover"
  BY <1>2, <1>3, NoneAssumption DEF LockOf
<1>7. UseInv'
  <2>1. ASSUME NEW t \in Thread, pc'[t] = "unlock" PROVE PhaseOf(ptr[t])' # "leaving"
    <3>1. pc[t] = "unlock" /\ ptr'[t] = ptr[t]
      BY <1>0, <1>2, <2>1
    <3>2. ptr[t] \in Slot /\ holder[ptr[t]] = t /\ PhaseOf(ptr[t]) # "leaving"
      BY <3>1, EndsSlot DEF UseInv, Ends
    <3>3. ptr[t] # s
      BY <1>2, <3>2, NoneAssumption DEF Thread
    <3> QED
      BY <1>5, <3>1, <3>2, <3>3
  <2>2. ASSUME NEW t \in Thread, pc'[t] \in {"unmap", "free"}, t \notin Worker
        PROVE  ~offline'[ptr'[t]]
    BY <1>0, <1>2, <2>2 DEF UseInv
  <2> QED
    BY <2>1, <2>2 DEF UseInv
<1>8. Use!Remove(s)
  BY <1>2, <1>3, <1>4, <1>5, <1>6, PhaseMoves, LockMoves DEF Use!Remove, Use!Become
<1> QED
  BY <1>3, <1>7, <1>8 DEF KeepsUse, Use!Next

\* FreePlayer, of a removed player or of a failed login.
LEMMA FreeUse ==
  ASSUME IInv, UseInv, NEW t \in Thread, Free(t)
  PROVE  KeepsUse
<1> USE DEF IInv, TypeOK
<1>1. PICK s : s = ptr[t]
  OBVIOUS
<1>2. /\ pc[t] = "free" /\ pc' = [pc EXCEPT ![t] = "unlock"]
      /\ available' = available \cup {s}
      /\ active' = [active EXCEPT ![s] = FALSE]
      /\ offline' = [offline EXCEPT ![s] = FALSE]
      /\ UNCHANGED <<holder, ptr>>
  BY <1>1 DEF Free, Goto
<1>3. /\ s \in Slot /\ s \notin available /\ ~active[s] /\ holder[s] = t
      /\ offline[s] => t \in Worker
  BY <1>1, <1>2, EndsSlot DEF GoneInv, UseInv, Ends
<1>4. /\ PhaseOf(s) = (IF offline[s] THEN "leaving" ELSE "fresh")
      /\ PhaseOf(s)' = "free"
  BY <1>2, <1>3 DEF PhaseOf
<1>5. \A q \in Slot : q # s => PhaseOf(q)' = PhaseOf(q)
  BY <1>2, <1>3 DEF PhaseOf
<1>6. UseInv'
  <2>1. ASSUME NEW u \in Thread, pc'[u] = "unlock" PROVE PhaseOf(ptr[u])' # "leaving"
    <3>1. CASE ptr[u] = s
      BY <1>2, <1>4, <3>1
    <3>2. CASE ptr[u] # s
      <4>1. u # t /\ pc[u] = "unlock" /\ ptr'[u] = ptr[u]
        BY <1>1, <1>2, <2>1, <3>2
      <4>2. ptr[u] \in Slot /\ PhaseOf(ptr[u]) # "leaving"
        BY <4>1, EndsSlot DEF UseInv, Ends
      <4> QED
        BY <1>5, <3>2, <4>1, <4>2
    <3> QED
      BY <3>1, <3>2
  <2>2. ASSUME NEW u \in Thread, pc'[u] \in {"unmap", "free"}, u \notin Worker
        PROVE  ~offline'[ptr'[u]]
    <3>1. pc[u] \in {"unmap", "free"} /\ ptr'[u] = ptr[u]
      BY <1>2, <2>2
    <3>2. ptr[u] \in Slot /\ ~offline[ptr[u]]
      BY <2>2, <3>1, EndsSlot DEF UseInv, Ends
    <3> QED
      BY <1>2, <1>3, <3>1, <3>2
  <2> QED
    BY <2>1, <2>2 DEF UseInv
<1>7. CASE offline[s]
  <2>1. LockOf(s) = "remover"
    BY <1>3, <1>7, NoneAssumption DEF LockOf
  <2>2. Use!Free(s)
    BY <1>2, <1>3, <1>4, <1>5, <1>7, <2>1, PhaseMoves, LockStays DEF Use!Free, Use!Become
  <2> QED
    BY <1>3, <1>6, <2>2 DEF KeepsUse, Use!Next
<1>8. CASE ~offline[s]
  <2>1. Use!FreeUnused(s)
    BY <1>2, <1>3, <1>4, <1>5, <1>8, PhaseMoves, LockStays DEF Use!FreeUnused, Use!Become
  <2> QED
    BY <1>3, <1>6, <2>1 DEF KeepsUse, Use!Next
<1> QED
  BY <1>7, <1>8

\* The end of the lock guard.
LEMMA UnlockUse == ASSUME IInv, UseInv, NEW t \in Thread, Unlock(t) PROVE KeepsUse
<1> USE DEF IInv, TypeOK
<1>1. PICK s : s = ptr[t]
  OBVIOUS
<1>2. /\ pc[t] = "unlock" /\ pc' = [pc EXCEPT ![t] = "idle"]
      /\ holder' = [holder EXCEPT ![s] = None]
      /\ ptr' = [ptr EXCEPT ![t] = None]
      /\ UNCHANGED <<available, active, offline>>
  BY <1>1 DEF Unlock, Return, player, index
<1>3. s \in Slot /\ holder[s] = t /\ PhaseOf(s) # "leaving"
  BY <1>1, <1>2, EndsSlot DEF UseInv, Ends
<1>4. \A q : PhaseOf(q)' = PhaseOf(q)
  BY <1>2 DEF PhaseOf
<1>5. UseInv'
  BY <1>2 DEF UseInv, PhaseOf
<1>6. LockOf(s) # "none" /\ LockOf(s)' = "none"
  BY <1>2, <1>3, NoneAssumption DEF LockOf, Thread
<1>7. Use!Unlock(s)
  BY <1>2, <1>3, <1>4, <1>6, LockMoves DEF Use!Unlock
<1> QED
  BY <1>3, <1>5, <1>7 DEF KeepsUse, Use!Next

\* The steps of a login.
LEMMA EnterUse == ASSUME IInv, UseInv, Enter PROVE KeepsUse
<1>0. "master" \in Thread
  BY DEF Thread
<1>1. ASSUME EnterFail PROVE KeepsUse
  <2>1. ~offline[ptr["master"]]
    BY <1>0, <1>1 DEF EnterFail, IInv, NormalInv
  <2> QED
    BY <1>0, <1>1, <2>1, EndUse DEF EnterFail, Goto, player, index
<1>2. ASSUME EnterRedirectFail PROVE KeepsUse
  <2>1. ~offline[ptr["master"]]
    BY <1>0, <1>2 DEF EnterRedirectFail, IInv, NormalInv
  <2>2. PhaseOf(ptr["master"]) # "leaving"
    BY <2>1 DEF PhaseOf
  <2> QED
    BY <1>0, <1>2, <2>2, EndUse DEF EnterRedirectFail, Goto, player
<1>3. ASSUME EnterOnline PROVE KeepsUse
  <2>1. active[ptr["master"]]
    BY <1>0, <1>3 DEF EnterOnline, IInv, NormalInv
  <2>2. PhaseOf(ptr["master"]) # "leaving"
    BY <2>1 DEF PhaseOf
  <2> QED
    BY <1>0, <1>3, <2>2, EndUse DEF EnterOnline, Goto, player
<1> QED
  BY <1>1, <1>2, <1>3, AllocUse, LockUse, InsertUse DEF Enter

\* A handler that ends in a return, having logged the player out or not.
LEMMA ReturnUse ==
  ASSUME IInv, UseInv, NEW t \in Thread, Return(t),
         UNCHANGED <<available, active, holder>>,
         \/ UNCHANGED offline
         \/ /\ ptr[t] \in Slot /\ active[ptr[t]]
            /\ offline' = [offline EXCEPT ![ptr[t]] = TRUE]
  PROVE  KeepsUse
<1>1. KeepsEnds
  BY KeepsEndsAt DEF Return, Ends, IInv, TypeOK
<1> QED
  BY <1>1, QuietUse

\* The handlers of the master and link threads.
LEMMA HandleUse == ASSUME IInv, UseInv, Handle PROVE KeepsUse
<1>0. "master" \in Thread /\ "link" \in Thread
  BY DEF Thread
<1>1. ASSUME NEW r \in Role, FindForRpc(r) \/ FindForLogout(r) \/ FindForCommand(r)
      PROVE  KeepsUse
  <2>1. UNCHANGED <<available, active, offline, holder>>
    BY <1>1 DEF FindForRpc, FindForLogout, FindForCommand, Find, player, index
  <2>2. KeepsEnds
    BY <1>0, <1>1 DEF FindForRpc, FindForLogout, FindForCommand, Find, Goto,
                      KeepsEnds, Ends, IInv, TypeOK
  <2> QED
    BY <2>1, <2>2, QuietUse
<1>2. ASSUME RpcResponse \/ RpcSaveError PROVE KeepsUse
  <2>1. /\ pc["master"] = "rpc" /\ active[ptr["master"]] /\ Return("master")
        /\ LogoutSaveDataCB(ptr["master"]) \/ LogoutWithoutSave(ptr["master"])
        /\ UNCHANGED <<available, active, holder>>
    BY <1>2 DEF RpcResponse, RpcSaveError, LockFree, identity, index
  <2>2. ptr["master"] \in Slot
    BY <1>0, <2>1 DEF IInv, PointInv
  <2> QED
    BY <1>0, <2>1, <2>2, Logouts, ReturnUse
<1>3. ASSUME NEW l \in Link, LinkPlayerLogout(l) \/ \E n \in 1 .. 2 : LongJump(l, n)
      PROVE  KeepsUse
  <2>1. /\ pc["link"] \in {"logout", "command"} /\ active[ptr["link"]]
        /\ Return("link") /\ UNCHANGED <<available, active, holder>>
    BY <1>3 DEF LinkPlayerLogout, LongJump, LogoutAccepts, CommandAccepts,
                LockFree, identity, index
  <2>2. offline' = [offline EXCEPT ![ptr["link"]] = TRUE] \/ UNCHANGED offline
    BY <1>3, Logouts DEF LinkPlayerLogout, LongJump
  <2>3. ptr["link"] \in Slot
    BY <1>0, <2>1 DEF IInv, PointInv
  <2> QED
    BY <1>0, <2>1, <2>2, <2>3, ReturnUse
<1>4. ASSUME RpcIgnore \/ CommandIgnore \/ \E l \in Link : LinkLogoutReject(l)
      PROVE  KeepsUse
  BY <1>0, <1>4, ReturnUse
     DEF RpcIgnore, CommandIgnore, LinkLogoutReject, Ignore, player, index
<1> QED
  BY <1>1, <1>2, <1>3, <1>4 DEF Handle

\* ForEachPlayer and its callbacks.
LEMMA KickUse ==
  ASSUME IInv, UseInv, KickBegin \/ \E t \in {"link", "master", "main"} : Kick(t)
  PROVE  KeepsUse
<1>0. {"link", "master", "main"} \subseteq Thread
  BY DEF Thread
<1>1. ASSUME NEW t \in {"link", "master", "main"}, NEW c, ForEachBegin(t, c)
      PROVE  KeepsUse
  <2>1. UNCHANGED <<available, active, offline, holder>>
    BY <1>1 DEF ForEachBegin, player, index
  <2>2. KeepsEnds
    BY <1>0, <1>1, KeepsEndsAt DEF ForEachBegin, Goto, Ends
  <2> QED
    BY <2>1, <2>2, QuietUse
<1>2. ASSUME NEW t \in {"link", "master", "main"},
             KickoutSkip(t) \/ \E r \in Role : ForEachFind(t, r)
      PROVE  KeepsUse
  <2>1. UNCHANGED <<available, active, offline, holder>>
    BY <1>2 DEF ForEachFind, KickoutSkip, player, index
  <2>2. KeepsEnds
    BY <1>0, <1>2 DEF ForEachFind, KickoutSkip, Goto, KeepsEnds, Ends, IInv, TypeOK
  <2> QED
    BY <2>1, <2>2, QuietUse
<1>3. ASSUME NEW t \in {"link", "master", "main"}, ForEachEnd(t)
      PROVE  KeepsUse
  BY <1>0, <1>3, ReturnUse DEF ForEachEnd, player, index
<1>4. ASSUME NEW t \in {"link", "master", "main"}, Kickout(t)
      PROVE  KeepsUse
  <2>1. /\ pc[t] = "each_lock" /\ active[ptr[t]]
        /\ pc' = [pc EXCEPT ![t] = "each"] /\ ptr' = ptr
        /\ LogoutWithSave(ptr[t]) \/ LogoutWithoutSave(ptr[t])
        /\ UNCHANGED <<available, active, holder>>
    BY <1>4 DEF Kickout, LockFree, Goto, identity, index
  <2>2. ptr[t] \in Slot
    BY <1>0, <2>1 DEF IInv, VisitedInv
  <2>3. offline' = [offline EXCEPT ![ptr[t]] = TRUE] \/ UNCHANGED offline
    BY <2>1, Logouts
  <2>4. KeepsEnds
    BY <1>0, <2>1, KeepsEndsAt DEF Ends
  <2> QED
    BY <2>1, <2>2, <2>3, <2>4, QuietUse
<1>5. ASSUME KickBegin PROVE KeepsUse
  BY <1>1, <1>5 DEF KickBegin, LinkDisconnect, MasterDisconnect, StopProcess
<1> QED
  BY <1>2, <1>3, <1>4, <1>5 DEF Kick

\* Heartbeats, and a process that stops.
LEMMA HeartbeatUse ==
  ASSUME IInv, UseInv, NEW s \in Slot, HeartbeatTimeout(s) \/ HeartbeatLogout(s)
  PROVE  KeepsUse
<1>1. /\ active[s]
      /\ LogoutSaveDataCB(s) \/ LogoutWithoutSave(s)
      /\ UNCHANGED <<available, active, holder, pc, ptr>>
  BY DEF HeartbeatTimeout, HeartbeatLogout, identity, index, thread
<1>2. offline' = [offline EXCEPT ![s] = TRUE] \/ UNCHANGED offline
  BY <1>1, Logouts
<1>3. KeepsEnds
  BY <1>1 DEF KeepsEnds
<1> QED
  BY <1>1, <1>2, <1>3, QuietUse

\* LogoutTask.
LEMMA LogoutUse == ASSUME IInv, UseInv, NEW w \in Worker, Logout(w) PROVE KeepsUse
<1>0. w \in Thread
  BY DEF Thread
<1>1. ASSUME NEW r \in Role, TaskFind(w, r) PROVE KeepsUse
  <2>1. UNCHANGED <<available, active, offline, holder>>
    BY <1>1 DEF TaskFind, player, index
  <2>2. KeepsEnds
    BY <1>0, <1>1 DEF TaskFind, thread, Goto, KeepsEnds, Ends, IInv, TypeOK
  <2> QED
    BY <2>1, <2>2, QuietUse
<1>2. ASSUME TaskInactive(w) PROVE KeepsUse
  BY <1>0, <1>2, ReturnUse DEF TaskInactive, Ignore, player, index
<1>3. ASSUME TaskAssert(w) \/ LockTimeout(w) PROVE KeepsUse
  <2>1. UNCHANGED <<available, active, offline, holder, pc, ptr>>
    BY <1>3 DEF TaskAssert, LockTimeout, player, index, thread
  <2> QED
    BY <2>1, QuietUse DEF KeepsEnds
<1>4. ASSUME TaskOffline(w) PROVE KeepsUse
  BY <1>0, <1>4, EndUse DEF TaskOffline, Goto, player
<1> QED
  BY <1>1, <1>2, <1>3, <1>4, RemoveUse DEF Logout

\* Players use the slots of their pool as ObjectManager takes its owners to:
\* a slot enters the manager once between Alloc and Free, only a LogoutTask
\* takes it out, and until it is back in the pool no other thread has it
\* locked, whatever logins, logouts and kick-outs meet on it.
THEOREM PlayersUseSlots == Spec => Use!Spec
<1>1. Init => Use!Init /\ UseInv
  BY DEF Init, Use!Init, PhaseOf, LockOf, UseInv
<1>2. ASSUME IInv, UseInv, [Next]_vars PROVE KeepsUse
  <2>1. ASSUME NEW t \in Worker \cup {"master"}, Release(t) PROVE KeepsUse
    <3>0. t \in Thread
      BY DEF Thread
    <3>1. ASSUME Unmap(t) PROVE KeepsUse
      <4>1. t \notin Worker => ~offline[ptr[t]]
        BY <1>2, <3>0, <3>1 DEF Unmap, UseInv
      <4> QED
        BY <1>2, <3>0, <3>1, <4>1, EndUse DEF Unmap, Goto, player
    <3> QED
      BY <1>2, <2>1, <3>0, <3>1, FreeUse, UnlockUse DEF Release
  <2>2. ASSUME UNCHANGED vars PROVE KeepsUse
    <3>1. UNCHANGED <<available, active, offline, holder, pc, ptr>>
      BY <2>2 DEF vars, player, index, thread
    <3> QED
      BY <1>2, <3>1, QuietUse DEF KeepsEnds
  <2> QED
    BY <1>2, <2>1, <2>2, EnterUse, HandleUse, KickUse, HeartbeatUse, LogoutUse
       DEF Next, Stopped
<1>3. IInv /\ UseInv /\ [Next]_vars => UseInv' /\ [Use!Next]_(Use!vars)
  BY <1>2 DEF KeepsUse
<1> QED
  BY <1>1, <1>3, Invariance, PTL DEF Spec, Use!Spec
=============================================================================
