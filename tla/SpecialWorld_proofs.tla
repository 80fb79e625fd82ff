------------------------- MODULE SpecialWorld_proofs -------------------------
(***************************************************************************)
(* The safety properties of SpecialWorld, and the safety part of its       *)
(* refinement of WorldSpan, for every set of WorldManagers and players and *)
(* every value of the times and limits.                                    *)
(***************************************************************************)
EXTENDS SpecialWorld, FiniteSetTheorems, TLAPS

\* The stations of the master thread at which a world is being announced.
New == {"index", "active", "register"}

\* The master thread is idle, or has a role that is out and a world for it.
MasterInv ==
  /\ mpc = "idle" => mworld = None
  /\ mpc # "idle" => mrole \in Player /\ mworld \in Wid /\ ppc[mrole] = "out"

\* The world that is being announced has not been seen by anyone.
NewInv ==
  mpc \in New =>
    /\ mworld \notin active_map
    /\ wid_index[mworld] = None <=> mpc = "index"
    /\ \A p \in Player : pworld[p] # mworld
    /\ \A m \in Manager : wid[m] = mworld =>
         /\ running[m] >= 0 /\ result[m] = "UNDONE"
         /\ state[m] \in {"READY", "RUNNING"}
         /\ m \in actived <=> mpc = "register"

\* A tag that is still to come is used nowhere.
TagInv ==
  \A w \in Wid : w[2] > cur_tag_id[w[1]] =>
    /\ \A m \in Manager : wid[m] # w
    /\ wid_index[w] = None /\ w \notin active_map
    /\ \A p \in Player : pworld[p] # w
    /\ mworld # w

\* A world that is not over can be found, unless it is being announced.
LifeInv ==
  \A m \in Manager :
    /\ m \in actived => state[m] # "INVALID"
    /\ m \in available => state[m] = "INVALID" /\ player_count[m] = 0
    /\ waiting[m] > 0 => m \in worldMan_set
    /\ state[m] # "INVALID" =>
         \/ /\ m \in actived /\ wid[m] \in active_map
            /\ wid_index[wid[m]] = m
         \/ mpc \in New /\ wid[m] = mworld

\* Who is in a world is in its plane.
PlaneInv ==
  \A p \in Player :
    /\ ppc[p] = "out" <=> pworld[p] = None
    /\ ppc[p] # "out" => \A m \in Manager : wid[m] = pworld[p] => p \in plane[m]

\* player_count_ of a world, up to and after its removal.
CountInv ==
  \A m \in Manager : wid[m] # None =>
    /\ Cardinality(Counted(wid[m])) <= player_count[m]
    /\ state[m] # "INVALID" => player_count[m] = Cardinality(Counted(wid[m]))
    /\ KindOf(m) = "bg" => player_count[m] <= MaxCount["bg"]

\* A world with enough players runs for its whole survival time.
RunInv ==
  \A m \in Manager :
    IsRunning(m) /\ player_count[m] >= MinCount[KindOf(m)]
      => running[m] = max_left[m]

IInv == /\ TypeOK /\ ManagerInOnePlace /\ IndexExact /\ MasterInv /\ NewInv
        /\ TagInv /\ LifeInv /\ PlaneInv /\ CountInv /\ RunInv /\ ClosingTold

-----------------------------------------------------------------------------
(* Facts used by several actions *)

\* The shape of a world id.
LEMMA WidFacts ==
  ASSUME NEW w \in Wid
  PROVE  /\ w[1] \in Kind /\ w[2] \in 1 .. MaxTag /\ w = <<w[1], w[2]>>
         /\ w # None
BY ConstAssumption DEF Wid

\* The players that count for a world are finitely many.
LEMMA CountedFinite ==
  ASSUME NEW w
  PROVE  IsFiniteSet(Counted(w)) /\ Cardinality(Counted(w)) \in Nat
<1>1. Counted(w) \in SUBSET Player
  BY DEF Counted
<1>2. QED
  BY <1>1, FiniteAssumption, FS_Subset, FS_CardinalityType

-----------------------------------------------------------------------------
(* The master thread *)

\* A manager of the pool gets a tag nobody has used.
LEMMA CreateWorldManKeeps ==
  ASSUME IInv, NEW p \in Player, NEW k \in Kind, NEW m \in Manager,
         CreateWorldMan(p, k, m)
  PROVE  IInv'
<1> USE DEF IInv
<1> DEFINE W == <<k, cur_tag_id[k] + 1>>
<1>1. /\ mpc = "idle" /\ ppc[p] = "out" /\ m \in available
      /\ cur_tag_id[k] < MaxTag
      /\ wid' = [wid EXCEPT ![m] = W]
      /\ mworld' = W /\ mpc' = "index" /\ mrole' = p
      /\ cur_tag_id' = [cur_tag_id EXCEPT ![k] = @ + 1]
      /\ available' = available \ {m}
      /\ state' = [state EXCEPT ![m] = "READY"]
      /\ result' = [result EXCEPT ![m] = "UNDONE"]
      /\ running' = [running EXCEPT ![m] = FirstRun(k)]
      /\ max_left' = [max_left EXCEPT ![m] = Survival[k]]
      /\ change_list' = [change_list EXCEPT ![m] = @ + 1]
      /\ UNCHANGED <<actived, forbid, player_count, closing, plane,
                     worldMan_set, waiting, wid_index, active_map,
                     s_tick_counter, ppc, pworld, quitting, closing_msgs,
                     quit_msgs, late, aborted>>
  BY DEF CreateWorldMan, manager, imp, cluster, master, role, msgs, OnInit
<1>a. /\ cur_tag_id[k] \in Nat /\ W \in Wid /\ W # None
      /\ W[1] = k /\ W[2] = cur_tag_id[k] + 1
  BY <1>1, ConstAssumption DEF TypeOK, Wid
<1>b. /\ \A n \in Manager : wid[n] # W
      /\ wid_index[W] = None /\ W \notin active_map
      /\ \A q \in Player : pworld[q] # W
  BY <1>a DEF TagInv
<1>c. /\ wid[m] = None /\ change_list[m] = 0 /\ waiting[m] = 0
      /\ m \notin worldMan_set \cup actived \cup forbid
      /\ state[m] = "INVALID" /\ player_count[m] = 0
  BY <1>1 DEF ManagerInOnePlace, LifeInv
<1>d. \A w \in Wid : w[2] > cur_tag_id'[w[1]] =>
                       w[2] > cur_tag_id[w[1]] /\ w # W
  BY <1>1, <1>a DEF TypeOK, Wid
<1>e. Cardinality(Counted(W)) = 0
  BY <1>b, FS_EmptySet DEF Counted
<1>f. FirstRun(k) \in Nat /\ Survival[k] \in Nat /\ k \in {"ins", "bg"}
  BY ConstAssumption DEF FirstRun, Kind
<1> HIDE DEF W
<1>g. \A n \in Manager : Counted(wid[n])' = Counted(wid'[n])
  BY <1>1 DEF Counted
<1>3. TypeOK'
  BY <1>1, <1>a, <1>c, <1>f, ConstAssumption DEF TypeOK
<1>4. ManagerInOnePlace'
  BY <1>1, <1>a, <1>b, <1>c DEF ManagerInOnePlace, TypeOK
<1>5. IndexExact'
  BY <1>1, <1>a, <1>b, <1>c DEF IndexExact, TypeOK, MasterInv
<1>6. MasterInv'
  BY <1>1, <1>a DEF MasterInv
<1>7. NewInv'
  BY <1>1, <1>a, <1>b, <1>c, <1>f DEF NewInv, New, TypeOK
<1>8. TagInv'
  BY <1>1, <1>b, <1>d DEF TagInv, TypeOK
<1>9. LifeInv'
  BY <1>1, <1>a, <1>b, <1>c DEF LifeInv, New, TypeOK, MasterInv
<1>10. PlaneInv'
  BY <1>1, <1>b DEF PlaneInv, TypeOK
<1>11. CountInv'
  <2> SUFFICES ASSUME NEW n \in Manager, (wid[n] # None)'
               PROVE  /\ (Cardinality(Counted(wid[n])) <= player_count[n])'
                      /\ (state[n] # "INVALID" =>
                            player_count[n] = Cardinality(Counted(wid[n])))'
                      /\ (KindOf(n) = "bg" => player_count[n] <= MaxCount["bg"])'
    BY DEF CountInv
  <2>1. CASE n = m
    <3>1. Counted(wid[n])' = Counted(W) /\ player_count'[n] = 0
      BY <1>1, <1>c, <1>g, <2>1 DEF TypeOK
    <3>2. 0 <= MaxCount["bg"]
      BY ConstAssumption DEF Kind
    <3>3. QED
      BY <1>e, <3>1, <3>2
  <2>2. CASE n # m
    <3>1. /\ Counted(wid[n])' = Counted(wid[n]) /\ wid'[n] = wid[n]
          /\ player_count'[n] = player_count[n] /\ state'[n] = state[n]
      BY <1>1, <1>g, <2>2 DEF TypeOK
    <3>2. QED
      BY <3>1 DEF CountInv, KindOf
  <2>3. QED
    BY <2>1, <2>2
<1>12. RunInv'
  BY <1>1, <1>a, <1>c, <1>f, ConstAssumption DEF RunInv, IsRunning, KindOf,
     TypeOK, FirstRun
<1>13. ClosingTold'
  BY <1>1, <1>c DEF ClosingTold, Found, TypeOK
<1>14. QED
  BY <1>3, <1>4, <1>5, <1>6, <1>7, <1>8, <1>9, <1>10, <1>11, <1>12, <1>13

\* The world enters the id index, but not yet the controller's map.
LEMMA InsertIndexKeeps ==
  ASSUME IInv, NEW m \in Manager, InsertIndex(m)
  PROVE  IInv'
<1> USE DEF IInv
<1>1. /\ mpc = "index" /\ wid[m] = mworld /\ mpc' = "active"
      /\ wid_index' = [wid_index EXCEPT ![mworld] = m]
      /\ UNCHANGED <<wid, actived, forbid, state, result, player_count,
                     running, max_left, closing, plane, available,
                     change_list, worldMan_set, waiting, active_map,
                     cur_tag_id, s_tick_counter, mrole, mworld, ppc, pworld,
                     quitting, closing_msgs, quit_msgs, late, aborted>>
  BY DEF InsertIndex, manager, imp, cluster, master, role, msgs
<1>a. mworld \in Wid /\ m # None
  BY <1>1, ConstAssumption DEF MasterInv
<1>b. /\ mworld \notin active_map /\ wid_index[mworld] = None
      /\ m \notin actived /\ state[m] # "INVALID"
  BY <1>1 DEF NewInv, New
<1>2. \A v : Counted(v)' = Counted(v)
  BY <1>1 DEF Counted
<1>3. TypeOK'
  BY <1>1, <1>a DEF TypeOK
<1>4. ManagerInOnePlace'
  BY <1>1 DEF ManagerInOnePlace
<1>5. IndexExact'
  BY <1>1, <1>a, <1>b DEF IndexExact, TypeOK, NewInv, New
<1>6. MasterInv'
  BY <1>1 DEF MasterInv
<1>7. NewInv'
  BY <1>1, <1>a, <1>b DEF NewInv, New, TypeOK
<1>8. TagInv'
  BY <1>1, <1>a, <1>b DEF TagInv, TypeOK
<1>9. LifeInv'
  BY <1>1, <1>a, <1>b DEF LifeInv, New, TypeOK
<1>10. PlaneInv'
  BY <1>1 DEF PlaneInv
<1>11. CountInv'
  BY <1>1, <1>2 DEF CountInv, KindOf
<1>12. RunInv'
  BY <1>1 DEF RunInv, IsRunning, KindOf
<1>13. ClosingTold'
  BY <1>1, <1>a, <1>b DEF ClosingTold, Found, TypeOK
<1>14. QED
  BY <1>3, <1>4, <1>5, <1>6, <1>7, <1>8, <1>9, <1>10, <1>11, <1>12, <1>13

\* The manager becomes active before anyone can look it up.
LEMMA SetActiveKeeps ==
  ASSUME IInv, NEW m \in Manager, SetActive(m)
  PROVE  IInv'
<1> USE DEF IInv
<1>1. /\ mpc = "active" /\ wid[m] = mworld /\ mpc' = "register"
      /\ actived' = actived \cup {m}
      /\ UNCHANGED <<wid, forbid, state, result, player_count, running,
                     max_left, closing, plane, available, change_list,
                     worldMan_set, waiting, wid_index, active_map,
                     cur_tag_id, s_tick_counter, mrole, mworld, ppc, pworld,
                     quitting, closing_msgs, quit_msgs, late, aborted>>
  BY DEF SetActive, manager, imp, cluster, master, role, msgs
<1>a. mworld \in Wid /\ m # None
  BY <1>1, ConstAssumption DEF MasterInv
<1>b. /\ mworld \notin active_map /\ wid_index[mworld] # None
      /\ m \notin actived /\ state[m] # "INVALID" /\ m \notin available
  BY <1>1, <1>a, ConstAssumption DEF NewInv, New, ManagerInOnePlace
<1>c. \A n \in Manager : wid[n] = mworld => n = m
  BY <1>1, <1>a, ConstAssumption DEF ManagerInOnePlace
<1>d. wid_index[mworld] = m
  BY <1>a, <1>b, <1>c DEF IndexExact, TypeOK
<1>e. \A q \in Player : pworld[q] # mworld
  BY <1>1 DEF NewInv, New
<1>2. \A v : Counted(v)' = Counted(v)
  BY <1>1 DEF Counted
<1>3. TypeOK'
  BY <1>1 DEF TypeOK
<1>4. ManagerInOnePlace'
  BY <1>1, <1>b DEF ManagerInOnePlace
<1>5. IndexExact'
  BY <1>1, <1>a, <1>b, <1>c, <1>d DEF IndexExact, TypeOK
<1>6. MasterInv'
  BY <1>1 DEF MasterInv
<1>7. NewInv'
  BY <1>1, <1>b, <1>c DEF NewInv, New
<1>8. TagInv'
  BY <1>1 DEF TagInv
<1>9. LifeInv'
  BY <1>1, <1>a, <1>b DEF LifeInv, New, TypeOK
<1>10. PlaneInv'
  BY <1>1 DEF PlaneInv
<1>11. CountInv'
  BY <1>1, <1>2 DEF CountInv, KindOf
<1>12. RunInv'
  BY <1>1 DEF RunInv, IsRunning, KindOf
<1>13. ClosingTold'
  BY <1>1, <1>a, <1>b, <1>d DEF ClosingTold, Found, TypeOK, IndexExact
<1>14. QED
  BY <1>3, <1>4, <1>5, <1>6, <1>7, <1>8, <1>9, <1>10, <1>11, <1>12, <1>13

\* The world can be found from here on; nobody is in it.
LEMMA RegisterKeeps ==
  ASSUME IInv, Register
  PROVE  IInv'
<1> USE DEF IInv
<1>1. /\ mpc = "register" /\ mpc' = "find"
      /\ active_map' = active_map \cup {mworld}
      /\ UNCHANGED <<wid, actived, forbid, state, result, player_count,
                     running, max_left, closing, plane, available,
                     change_list, worldMan_set, waiting, wid_index,
                     cur_tag_id, s_tick_counter, mrole, mworld, ppc, pworld,
                     quitting, closing_msgs, quit_msgs, late, aborted>>
  BY DEF Register, manager, imp, cluster, master, role, msgs
<1>a. mworld \in Wid
  BY <1>1 DEF MasterInv
<1>b. /\ mworld \notin active_map /\ wid_index[mworld] # None
      /\ \A q \in Player : pworld[q] # mworld
  BY <1>1 DEF NewInv, New
<1>c. \A n \in Manager : wid[n] = mworld =>
         n \in actived /\ wid_index[mworld] = n
  BY <1>1, <1>a, <1>b, ConstAssumption
     DEF NewInv, New, ManagerInOnePlace, IndexExact, TypeOK
<1>2. \A v : Counted(v)' = Counted(v)
  BY <1>1 DEF Counted
<1>3. TypeOK'
  BY <1>1, <1>a DEF TypeOK
<1>4. ManagerInOnePlace'
  BY <1>1 DEF ManagerInOnePlace
<1>5. IndexExact'
  BY <1>1, <1>a, <1>b, <1>c DEF IndexExact, TypeOK
<1>6. MasterInv'
  BY <1>1 DEF MasterInv
<1>7. NewInv'
  BY <1>1 DEF NewInv, New
<1>8. TagInv'
  BY <1>1, <1>a DEF TagInv
<1>9. LifeInv'
  BY <1>1, <1>a, <1>c DEF LifeInv, New, TypeOK
<1>10. PlaneInv'
  BY <1>1 DEF PlaneInv
<1>11. CountInv'
  BY <1>1, <1>2 DEF CountInv, KindOf
<1>12. RunInv'
  BY <1>1 DEF RunInv, IsRunning, KindOf
<1>13. ClosingTold'
  BY <1>1, <1>a, <1>b DEF ClosingTold, Found
<1>14. QED
  BY <1>3, <1>4, <1>5, <1>6, <1>7, <1>8, <1>9, <1>10, <1>11, <1>12, <1>13

\* The count goes up together with the set of counted players.
LEMMA InsertPlayerKeeps ==
  ASSUME IInv, NEW m \in Manager, InsertPlayer(m)
  PROVE  IInv'
<1> USE DEF IInv
<1>1. /\ mpc = "insert" /\ wid[m] = mworld
      /\ KindOf(m) = "bg" => ~(player_count[m] >= MaxCount["bg"])
      /\ plane' = [plane EXCEPT ![m] = @ \cup {mrole}]
      /\ player_count' = [player_count EXCEPT ![m] = @ + 1]
      /\ running' = IF IsRunning(m) /\ player_count[m] + 1 >= MinCount[KindOf(m)]
                    THEN [running EXCEPT ![m] = max_left[m]] ELSE running
      /\ ppc' = [ppc EXCEPT ![mrole] = "in"]
      /\ pworld' = [pworld EXCEPT ![mrole] = mworld]
      /\ quitting' = [quitting EXCEPT ![mrole] = FALSE]
      /\ late' = IF IsRunning(m) THEN late \ {mrole} ELSE late \cup {mrole}
      /\ mpc' = "idle" /\ mrole' = None /\ mworld' = None
      /\ UNCHANGED <<wid, actived, forbid, state, result, max_left, closing,
                     available, change_list, worldMan_set, waiting,
                     wid_index, active_map, cur_tag_id, s_tick_counter,
                     closing_msgs, quit_msgs, aborted>>
  BY DEF InsertPlayer, manager, imp, cluster, master, role, msgs,
     OnPlayerEnterMap, Fail
<1>a. /\ mworld \in Wid /\ mworld # None /\ mrole \in Player
      /\ ppc[mrole] = "out" /\ pworld[mrole] = None
  BY <1>1, ConstAssumption DEF MasterInv, PlaneInv
<1>b. /\ \A n \in Manager : wid[n] = mworld => n = m
      /\ m \notin available
  BY <1>1, <1>a DEF ManagerInOnePlace
<1>c. \A n \in Manager : n # m /\ wid[n] # None =>
         Counted(wid[n])' = Counted(wid[n])
  BY <1>1, <1>a, <1>b DEF Counted, TypeOK
<1>d. Cardinality(Counted(wid[m]))' = Cardinality(Counted(wid[m])) + 1
  <2>1. Counted(wid[m])' = Counted(wid[m]) \cup {mrole}
    BY <1>1, <1>a DEF Counted, TypeOK
  <2>2. mrole \notin Counted(wid[m])
    BY <1>a DEF Counted
  <2>3. QED
    BY <2>1, <2>2, CountedFinite, FS_AddElement
<1>e. /\ \A n \in Manager : n # m => running'[n] = running[n]
      /\ IsRunning(m) /\ player_count[m] + 1 >= MinCount[KindOf(m)]
           => running'[m] = max_left[m]
      /\ running' \in [Manager -> Int]
  BY <1>1 DEF TypeOK
<1>3. TypeOK'
  BY <1>1, <1>a, <1>e DEF TypeOK
<1>4. ManagerInOnePlace'
  BY <1>1 DEF ManagerInOnePlace
<1>5. IndexExact'
  BY <1>1 DEF IndexExact
<1>6. MasterInv'
  BY <1>1 DEF MasterInv
<1>7. NewInv'
  BY <1>1 DEF NewInv, New
<1>8. TagInv'
  BY <1>1, <1>a DEF TagInv, TypeOK
<1>9. LifeInv'
  BY <1>1, <1>b DEF LifeInv, New, TypeOK
<1>10. PlaneInv'
  <2> SUFFICES ASSUME NEW q \in Player
               PROVE  /\ (ppc[q] = "out" <=> pworld[q] = None)'
                      /\ (ppc[q] # "out" => \A n \in Manager :
                                    wid[n] = pworld[q] => q \in plane[n])'
    BY DEF PlaneInv
  <2>1. CASE q = mrole
    BY <1>1, <1>a, <1>b, <2>1 DEF TypeOK
  <2>2. CASE q # mrole
    BY <1>1, <1>a, <2>2 DEF PlaneInv, TypeOK
  <2>3. QED
    BY <2>1, <2>2
<1>11. CountInv'
  <2> SUFFICES ASSUME NEW n \in Manager, (wid[n] # None)'
               PROVE  /\ (Cardinality(Counted(wid[n])) <= player_count[n])'
                      /\ (state[n] # "INVALID" =>
                            player_count[n] = Cardinality(Counted(wid[n])))'
                      /\ (KindOf(n) = "bg" => player_count[n] <= MaxCount["bg"])'
    BY DEF CountInv
  <2>1. CASE n = m
    <3>1. /\ player_count'[n] = player_count[n] + 1 /\ wid'[n] = wid[n]
          /\ state'[n] = state[n] /\ wid[n] # None
          /\ Cardinality(Counted(wid[n]))' = Cardinality(Counted(wid[n])) + 1
      BY <1>1, <1>d, <2>1 DEF TypeOK
    <3>2. /\ Cardinality(Counted(wid[n])) \in Nat /\ player_count[n] \in Nat
          /\ MaxCount["bg"] \in Nat
      BY CountedFinite, ConstAssumption DEF TypeOK, Kind
    <3>3. QED
      BY <1>1, <2>1, <3>1, <3>2 DEF CountInv, KindOf
  <2>2. CASE n # m
    <3>1. /\ Counted(wid[n])' = Counted(wid[n]) /\ wid'[n] = wid[n]
          /\ player_count'[n] = player_count[n] /\ state'[n] = state[n]
      BY <1>1, <1>c, <2>2 DEF TypeOK
    <3>2. QED
      BY <3>1 DEF CountInv, KindOf
  <2>3. QED
    BY <2>1, <2>2
<1>12. RunInv'
  <2> SUFFICES ASSUME NEW n \in Manager, IsRunning(n)',
                      (player_count[n] >= MinCount[KindOf(n)])'
               PROVE  (running[n] = max_left[n])'
    BY DEF RunInv
  <2>1. CASE n = m
    BY <1>1, <1>e, <2>1 DEF IsRunning, KindOf, TypeOK
  <2>2. CASE n # m
    BY <1>1, <1>e, <2>2 DEF RunInv, IsRunning, KindOf, TypeOK
  <2>3. QED
    BY <2>1, <2>2
<1>13. ClosingTold'
  <2> SUFFICES ASSUME NEW q \in Player,
                      (ppc[q] = "in" /\ q \notin late /\ Found(pworld[q]))',
                      (state[wid_index[pworld[q]]] = "CLOSING")'
               PROVE  (quitting[q] \/ <<q, pworld[q]>> \in closing_msgs)'
    BY DEF ClosingTold
  <2>1. CASE q = mrole
    <3>1. pworld'[q] = mworld
      BY <1>1, <1>a, <2>1 DEF TypeOK
    <3>2. wid_index[mworld] = m
      BY <1>1, <1>a, <1>b, <3>1 DEF Found, IndexExact, TypeOK
    <3>3. IsRunning(m)
      BY <1>1, <2>1
    <3>4. QED
      BY <1>1, <3>1, <3>2, <3>3 DEF IsRunning
  <2>2. CASE q # mrole
    BY <1>1, <2>2 DEF ClosingTold, Found, TypeOK
  <2>3. QED
    BY <2>1, <2>2
<1>14. QED
  BY <1>3, <1>4, <1>5, <1>6, <1>7, <1>8, <1>9, <1>10, <1>11, <1>12, <1>13

\* A refused player is only in the plane.
LEMMA InsertRefusedKeeps ==
  ASSUME IInv, NEW m \in Manager, InsertRefused(m)
  PROVE  IInv'
<1> USE DEF IInv
<1>1. /\ mpc = "insert" /\ wid[m] = mworld
      /\ plane' = [plane EXCEPT ![m] = @ \cup {mrole}]
      /\ mpc' = "idle" /\ mrole' = None /\ mworld' = None
      /\ UNCHANGED <<wid, actived, forbid, state, result, player_count,
                     running, max_left, closing, available, change_list,
                     worldMan_set, waiting, wid_index, active_map,
                     cur_tag_id, s_tick_counter, ppc, pworld, quitting,
                     closing_msgs, quit_msgs, late, aborted>>
  BY DEF InsertRefused, manager, imp, cluster, master, role, msgs, Fail
<1>a. mworld \in Wid /\ mrole \in Player
  BY <1>1 DEF MasterInv
<1>2. \A v : Counted(v)' = Counted(v)
  BY <1>1 DEF Counted
<1>3. TypeOK'
  BY <1>1, <1>a DEF TypeOK
<1>4. ManagerInOnePlace'
  BY <1>1 DEF ManagerInOnePlace
<1>5. IndexExact'
  BY <1>1 DEF IndexExact
<1>6. MasterInv'
  BY <1>1 DEF MasterInv
<1>7. NewInv'
  BY <1>1 DEF NewInv, New
<1>8. TagInv'
  BY <1>1, ConstAssumption DEF TagInv
<1>9. LifeInv'
  BY <1>1 DEF LifeInv, New
<1>10. PlaneInv'
  BY <1>1, <1>a DEF PlaneInv, TypeOK
<1>11. CountInv'
  BY <1>1, <1>2 DEF CountInv, KindOf
<1>12. RunInv'
  BY <1>1 DEF RunInv, IsRunning, KindOf
<1>13. ClosingTold'
  BY <1>1 DEF ClosingTold, Found
<1>14. QED
  BY <1>3, <1>4, <1>5, <1>6, <1>7, <1>8, <1>9, <1>10, <1>11, <1>12, <1>13

\* The master thread turns to a world that exists, goes on or gives up.
LEMMA MasterMoveKeeps ==
  ASSUME IInv, mpc \notin New, mpc' \in {"idle", "find", "check", "insert"},
         \/ mpc' = "idle" /\ mrole' = None /\ mworld' = None
         \/ /\ mpc' # "idle" /\ mrole' \in Player /\ ppc[mrole'] = "out"
            /\ mworld' \in active_map \/ (mworld' \in Wid /\ mworld' = mworld),
         UNCHANGED <<wid, actived, forbid, state, result, player_count,
                     running, max_left, closing, plane, available,
                     change_list, worldMan_set, waiting, wid_index,
                     active_map, cur_tag_id, s_tick_counter, ppc, pworld,
                     quitting, closing_msgs, quit_msgs, late, aborted>>
  PROVE  IInv'
<1> USE DEF IInv
<1>2. \A v : Counted(v)' = Counted(v)
  BY DEF Counted
<1>3. TypeOK'
  BY DEF TypeOK, New
<1>4. ManagerInOnePlace'
  BY DEF ManagerInOnePlace
<1>5. IndexExact'
  BY DEF IndexExact, New
<1>6. MasterInv'
  BY DEF MasterInv, TypeOK
<1>7. NewInv'
  BY DEF NewInv, New
<1>8. TagInv'
  BY ConstAssumption DEF TagInv, TypeOK
<1>9. LifeInv'
  BY DEF LifeInv, New
<1>10. PlaneInv'
  BY DEF PlaneInv
<1>11. CountInv'
  BY <1>2 DEF CountInv, KindOf
<1>12. RunInv'
  BY DEF RunInv, IsRunning, KindOf
<1>13. ClosingTold'
  BY DEF ClosingTold, Found, TypeOK
<1>14. QED
  BY <1>3, <1>4, <1>5, <1>6, <1>7, <1>8, <1>9, <1>10, <1>11, <1>12, <1>13

-----------------------------------------------------------------------------
(* Players *)

\* Quitting changes a flag and queues a message.
LEMMA QuitMapKeeps ==
  ASSUME IInv, NEW p \in Player, QuitMap(p)
  PROVE  IInv'
<1> USE DEF IInv
<1>1. /\ quitting' = [quitting EXCEPT ![p] = TRUE]
      /\ quit_msgs[pworld[p]] < MaxQuit /\ ppc[p] = "in"
      /\ quit_msgs' = [quit_msgs EXCEPT ![pworld[p]] = @ + 1]
      /\ UNCHANGED <<wid, actived, forbid, state, result, player_count,
                     running, max_left, closing, plane, available,
                     change_list, worldMan_set, waiting, wid_index,
                     active_map, cur_tag_id, s_tick_counter, mpc, mrole,
                     mworld, ppc, pworld, closing_msgs, late, aborted>>
  BY DEF QuitMap, manager, imp, cluster, master, role, msgs, KickoutPlayer
<1>2. \A v : Counted(v)' = Counted(v)
  BY <1>1 DEF Counted
<1>3. TypeOK'
  BY <1>1, ConstAssumption DEF TypeOK, PlaneInv
<1>4. ManagerInOnePlace'
  BY <1>1 DEF ManagerInOnePlace
<1>5. IndexExact'
  BY <1>1 DEF IndexExact
<1>6. MasterInv'
  BY <1>1 DEF MasterInv
<1>7. NewInv'
  BY <1>1 DEF NewInv, New
<1>8. TagInv'
  BY <1>1 DEF TagInv
<1>9. LifeInv'
  BY <1>1 DEF LifeInv, New
<1>10. PlaneInv'
  BY <1>1 DEF PlaneInv
<1>11. CountInv'
  BY <1>1, <1>2 DEF CountInv, KindOf
<1>12. RunInv'
  BY <1>1 DEF RunInv, IsRunning, KindOf
<1>13. ClosingTold'
  BY <1>1 DEF ClosingTold, Found
<1>14. QED
  BY <1>3, <1>4, <1>5, <1>6, <1>7, <1>8, <1>9, <1>10, <1>11, <1>12, <1>13

\* The player that takes its WORLD_CLOSING out is quitting afterwards.
LEMMA WorldClosingKeeps ==
  ASSUME IInv, NEW p \in Player, NEW w \in Wid, WorldClosing(p, w)
  PROVE  IInv'
<1> USE DEF IInv
<1>1. /\ closing_msgs' = closing_msgs \ {<<p, w>>}
      /\ aborted' \in BOOLEAN
      /\ \/ /\ ppc[p] = "in" /\ pworld[p] = w
            /\ quit_msgs[w] < MaxQuit
            /\ quitting' = [quitting EXCEPT ![p] = TRUE]
            /\ quit_msgs' = [quit_msgs EXCEPT ![w] = @ + 1]
         \/ /\ ~(ppc[p] = "in" /\ pworld[p] = w /\ ~quitting[p])
            /\ UNCHANGED <<quitting, quit_msgs>>
      /\ UNCHANGED <<wid, actived, forbid, state, result, player_count,
                     running, max_left, closing, plane, available,
                     change_list, worldMan_set, waiting, wid_index,
                     active_map, cur_tag_id, s_tick_counter, mpc, mrole,
                     mworld, ppc, pworld, late>>
  BY DEF WorldClosing, manager, imp, cluster, master, role, msgs,
     KickoutPlayer
<1>a. quitting' \in [Player -> BOOLEAN] /\ quit_msgs' \in [Wid -> 0 .. MaxQuit]
  <2>1. quit_msgs[w] < MaxQuit => quit_msgs[w] + 1 \in 0 .. MaxQuit
    BY ConstAssumption DEF TypeOK
  <2>2. QED
    BY <1>1, <2>1 DEF TypeOK
<1>2. \A v : Counted(v)' = Counted(v)
  BY <1>1 DEF Counted
<1>3. TypeOK'
  BY <1>1, <1>a DEF TypeOK
<1>4. ManagerInOnePlace'
  BY <1>1 DEF ManagerInOnePlace
<1>5. IndexExact'
  BY <1>1 DEF IndexExact
<1>6. MasterInv'
  BY <1>1 DEF MasterInv
<1>7. NewInv'
  BY <1>1 DEF NewInv, New
<1>8. TagInv'
  BY <1>1 DEF TagInv
<1>9. LifeInv'
  BY <1>1 DEF LifeInv, New
<1>10. PlaneInv'
  BY <1>1 DEF PlaneInv
<1>11. CountInv'
  BY <1>1, <1>2 DEF CountInv, KindOf
<1>12. RunInv'
  BY <1>1 DEF RunInv, IsRunning, KindOf
<1>13. ClosingTold'
  BY <1>1 DEF ClosingTold, Found, TypeOK
<1>14. QED
  BY <1>3, <1>4, <1>5, <1>6, <1>7, <1>8, <1>9, <1>10, <1>11, <1>12, <1>13

\* An offline player still counts.
LEMMA PlayerLogoutKeeps ==
  ASSUME IInv, NEW p \in Player, PlayerLogout(p)
  PROVE  IInv'
<1> USE DEF IInv
<1>1. /\ ppc[p] = "in" /\ ppc' = [ppc EXCEPT ![p] = "offline"]
      /\ UNCHANGED <<wid, actived, forbid, state, result, player_count,
                     running, max_left, closing, plane, available,
                     change_list, worldMan_set, waiting, wid_index,
                     active_map, cur_tag_id, s_tick_counter, mpc, mrole,
                     mworld, pworld, quitting, closing_msgs, quit_msgs, late,
                     aborted>>
  BY DEF PlayerLogout, manager, imp, cluster, master, role, msgs
<1>2. \A v : Counted(v)' = Counted(v)
  BY <1>1 DEF Counted
<1>3. TypeOK'
  BY <1>1 DEF TypeOK
<1>4. ManagerInOnePlace'
  BY <1>1 DEF ManagerInOnePlace
<1>5. IndexExact'
  BY <1>1 DEF IndexExact
<1>6. MasterInv'
  BY <1>1 DEF MasterInv
<1>7. NewInv'
  BY <1>1 DEF NewInv, New
<1>8. TagInv'
  BY <1>1 DEF TagInv
<1>9. LifeInv'
  BY <1>1 DEF LifeInv, New
<1>10. PlaneInv'
  BY <1>1 DEF PlaneInv
<1>11. CountInv'
  BY <1>1, <1>2 DEF CountInv, KindOf
<1>12. RunInv'
  BY <1>1 DEF RunInv, IsRunning, KindOf
<1>13. ClosingTold'
  BY <1>1 DEF ClosingTold, Found
<1>14. QED
  BY <1>3, <1>4, <1>5, <1>6, <1>7, <1>8, <1>9, <1>10, <1>11, <1>12, <1>13

\* A player whose world is gone counts for no world that is alive.
LEMMA LogoutTaskKeeps ==
  ASSUME IInv, NEW p \in Player, LogoutTask(p)
  PROVE  IInv'
<1> USE DEF IInv
<1>1. /\ ppc[p] = "offline"
      /\ \/ /\ Found(pworld[p])
            /\ ppc' = [ppc EXCEPT ![p] = "leave"]
            /\ UNCHANGED <<pworld, quitting, late>>
         \/ /\ ~Found(pworld[p])
            /\ ppc' = [ppc EXCEPT ![p] = "out"]
            /\ pworld' = [pworld EXCEPT ![p] = None]
            /\ quitting' = [quitting EXCEPT ![p] = FALSE]
            /\ late' = late \ {p}
      /\ UNCHANGED <<wid, actived, forbid, state, result, player_count,
                     running, max_left, closing, plane, available,
                     change_list, worldMan_set, waiting, wid_index,
                     active_map, cur_tag_id, s_tick_counter, mpc, mrole,
                     mworld, closing_msgs, quit_msgs, aborted>>
  BY DEF LogoutTask, manager, imp, cluster, master, role, msgs, FreePlayer
<1>a. \A w \in Wid : w # None
  BY ConstAssumption
<1>b. \A n \in Manager : wid[n] # None => Counted(wid[n])' \subseteq Counted(wid[n])
  BY <1>1 DEF Counted, TypeOK
<1>c. \A n \in Manager : wid[n] # None /\ state[n] # "INVALID" =>
         Counted(wid[n])' = Counted(wid[n])
  <2> SUFFICES ASSUME NEW n \in Manager, wid[n] # None, state[n] # "INVALID"
               PROVE  Counted(wid[n])' = Counted(wid[n])
    OBVIOUS
  <2>1. wid[n] = pworld[p] => Found(pworld[p])
    BY ConstAssumption DEF LifeInv, NewInv, Found, TypeOK
  <2>2. QED
    BY <1>1, <1>a, <2>1 DEF Counted, TypeOK
<1>d. /\ ppc' \in [Player -> {"out", "in", "offline", "leave", "plane"}]
      /\ pworld' \in [Player -> Wid \cup {None}]
      /\ quitting' \in [Player -> BOOLEAN] /\ late' \subseteq Player
  <2>1. CASE /\ ppc' = [ppc EXCEPT ![p] = "leave"]
             /\ UNCHANGED <<pworld, quitting, late>>
    BY <2>1 DEF TypeOK
  <2>2. CASE /\ ppc' = [ppc EXCEPT ![p] = "out"]
             /\ pworld' = [pworld EXCEPT ![p] = None]
             /\ quitting' = [quitting EXCEPT ![p] = FALSE]
             /\ late' = late \ {p}
    BY <2>2 DEF TypeOK
  <2>3. QED
    BY <1>1, <2>1, <2>2
<1>3. TypeOK'
  BY <1>1, <1>d DEF TypeOK
<1>4. ManagerInOnePlace'
  BY <1>1 DEF ManagerInOnePlace
<1>5. IndexExact'
  BY <1>1 DEF IndexExact
<1>6. MasterInv'
  BY <1>1 DEF MasterInv, TypeOK
<1>7. NewInv'
  BY <1>1, <1>a DEF NewInv, New, TypeOK, MasterInv
<1>8. TagInv'
  BY <1>1, <1>a DEF TagInv, TypeOK
<1>9. LifeInv'
  BY <1>1 DEF LifeInv, New
<1>10. PlaneInv'
  BY <1>1, <1>a DEF PlaneInv, TypeOK
<1>11. CountInv'
  <2>1. \A n \in Manager : wid[n] # None =>
           Cardinality(Counted(wid[n]))' <= Cardinality(Counted(wid[n]))
    <3> SUFFICES ASSUME NEW n \in Manager, wid[n] # None
                 PROVE  Cardinality(Counted(wid[n]))' <=
                          Cardinality(Counted(wid[n]))
      OBVIOUS
    <3>1. Counted(wid[n])' \in SUBSET Counted(wid[n])
      BY <1>b
    <3>2. QED
      BY <3>1, CountedFinite, FS_Subset
  <2>2. \A n \in Manager : Cardinality(Counted(wid[n]))' \in Nat
    <3> SUFFICES ASSUME NEW n \in Manager
                 PROVE  Cardinality(Counted(wid[n]))' \in Nat
      OBVIOUS
    <3>1. Counted(wid[n])' \in SUBSET Player
      BY DEF Counted
    <3>2. QED
      BY <3>1, FiniteAssumption, FS_Subset, FS_CardinalityType
  <2>3. \A n \in Manager : Cardinality(Counted(wid[n])) \in Nat
    BY CountedFinite
  <2>4. QED
    BY <1>1, <1>c, <2>1, <2>2, <2>3 DEF CountInv, KindOf, TypeOK
<1>12. RunInv'
  BY <1>1 DEF RunInv, IsRunning, KindOf
<1>13. ClosingTold'
  BY <1>1 DEF ClosingTold, Found, TypeOK
<1>14. QED
  BY <1>3, <1>4, <1>5, <1>6, <1>7, <1>8, <1>9, <1>10, <1>11, <1>12, <1>13

\* The count goes down with the set of counted players.
LEMMA LeaveMapKeeps ==
  ASSUME IInv, NEW p \in Player, NEW m \in Manager, LeaveMap(p, m)
  PROVE  IInv'
<1> USE DEF IInv
<1>1. /\ ppc[p] = "leave" /\ wid[m] = pworld[p]
      /\ player_count' = [player_count EXCEPT ![m] = @ - 1]
      /\ running' = IF IsRunning(m) /\ player_count[m] - 1 < MinCount[KindOf(m)]
                    THEN [running EXCEPT ![m] =
                            Least(Remain[KindOf(m)], max_left[m])]
                    ELSE running
      /\ ppc' = [ppc EXCEPT ![p] = "plane"]
      /\ UNCHANGED <<wid, actived, forbid, state, result, max_left, closing,
                     plane, available, change_list, worldMan_set, waiting,
                     wid_index, active_map, cur_tag_id, s_tick_counter, mpc,
                     mrole, mworld, pworld, quitting, closing_msgs,
                     quit_msgs, late, aborted>>
  BY DEF LeaveMap, manager, imp, cluster, master, role, msgs, OnPlayerLeaveMap
<1>a. pworld[p] \in Wid /\ pworld[p] # None
  BY <1>1 DEF PlaneInv, TypeOK
<1>b. /\ \A n \in Manager : wid[n] = pworld[p] => n = m
      /\ m \notin available
  BY <1>1, <1>a DEF ManagerInOnePlace
<1>c. \A n \in Manager : n # m => Counted(wid[n])' = Counted(wid[n])
  BY <1>1, <1>b DEF Counted, TypeOK
<1>d. /\ Cardinality(Counted(wid[m]))' = Cardinality(Counted(wid[m])) - 1
      /\ Cardinality(Counted(wid[m]))' \in Nat
  <2>1. Counted(wid[m])' = Counted(wid[m]) \ {p}
    BY <1>1 DEF Counted, TypeOK
  <2>2. p \in Counted(wid[m])
    BY <1>1 DEF Counted
  <2>3. QED
    BY <2>1, <2>2, CountedFinite, FS_RemoveElement, FS_CardinalityType
<1>e. player_count[m] - 1 \in Nat
  BY <1>1, <1>a, <1>d, CountedFinite DEF CountInv, TypeOK
<1>f. /\ \A n \in Manager : n # m => running'[n] = running[n]
      /\ ~(IsRunning(m) /\ player_count[m] - 1 < MinCount[KindOf(m)])
           => running'[m] = running[m]
      /\ running' \in [Manager -> Int]
  <2>1. KindOf(m) \in Kind
    BY <1>1, <1>a, WidFacts DEF KindOf
  <2>2. Least(Remain[KindOf(m)], max_left[m]) \in Int
    BY <2>1, ConstAssumption DEF Least, TypeOK
  <2>3. QED
    BY <1>1, <2>2 DEF TypeOK
<1>3. TypeOK'
  BY <1>1, <1>e, <1>f DEF TypeOK
<1>4. ManagerInOnePlace'
  BY <1>1 DEF ManagerInOnePlace
<1>5. IndexExact'
  BY <1>1 DEF IndexExact
<1>6. MasterInv'
  BY <1>1 DEF MasterInv
<1>7. NewInv'
  BY <1>1, <1>a, <1>f DEF NewInv, New, TypeOK
<1>8. TagInv'
  BY <1>1 DEF TagInv
<1>9. LifeInv'
  BY <1>1, <1>b DEF LifeInv, New, TypeOK
<1>10. PlaneInv'
  BY <1>1 DEF PlaneInv
<1>11. CountInv'
  <2> SUFFICES ASSUME NEW n \in Manager, (wid[n] # None)'
               PROVE  /\ (Cardinality(Counted(wid[n])) <= player_count[n])'
                      /\ (state[n] # "INVALID" =>
                            player_count[n] = Cardinality(Counted(wid[n])))'
                      /\ (KindOf(n) = "bg" => player_count[n] <= MaxCount["bg"])'
    BY DEF CountInv
  <2>1. CASE n = m
    <3>1. /\ player_count'[n] = player_count[n] - 1 /\ wid'[n] = wid[n]
          /\ state'[n] = state[n] /\ wid[n] # None
          /\ Cardinality(Counted(wid[n]))' = Cardinality(Counted(wid[n])) - 1
      BY <1>1, <1>d, <2>1 DEF TypeOK
    <3>2. /\ Cardinality(Counted(wid[n])) \in Nat /\ player_count[n] \in Nat
          /\ MaxCount["bg"] \in Nat
      BY CountedFinite, ConstAssumption DEF TypeOK, Kind
    <3>3. QED
      BY <1>1, <2>1, <3>1, <3>2 DEF CountInv, KindOf
  <2>2. CASE n # m
    <3>1. /\ Counted(wid[n])' = Counted(wid[n]) /\ wid'[n] = wid[n]
          /\ player_count'[n] = player_count[n] /\ state'[n] = state[n]
      BY <1>1, <1>c, <2>2 DEF TypeOK
    <3>2. QED
      BY <3>1 DEF CountInv, KindOf
  <2>3. QED
    BY <2>1, <2>2
<1>12. RunInv'
  <2> SUFFICES ASSUME NEW n \in Manager, IsRunning(n)',
                      (player_count[n] >= MinCount[KindOf(n)])'
               PROVE  (running[n] = max_left[n])'
    BY DEF RunInv
  <2>1. CASE n = m
    <3>1. KindOf(m) \in Kind /\ MinCount[KindOf(m)] \in Nat
      BY <1>1, <1>a, WidFacts, ConstAssumption DEF KindOf
    <3>2. /\ player_count'[m] = player_count[m] - 1 /\ KindOf(m)' = KindOf(m)
          /\ IsRunning(m)
      BY <1>1, <2>1 DEF KindOf, IsRunning, TypeOK
    <3>3. running'[m] = running[m]
      BY <1>e, <1>f, <2>1, <3>1, <3>2
    <3>4. player_count[m] >= MinCount[KindOf(m)]
      BY <1>e, <2>1, <3>1, <3>2 DEF TypeOK
    <3>5. QED
      BY <1>1, <2>1, <3>2, <3>3, <3>4 DEF RunInv
  <2>2. CASE n # m
    BY <1>1, <1>f, <2>2 DEF RunInv, IsRunning, KindOf, TypeOK
  <2>3. QED
    BY <2>1, <2>2
<1>13. ClosingTold'
  BY <1>1 DEF ClosingTold, Found
<1>14. QED
  BY <1>3, <1>4, <1>5, <1>6, <1>7, <1>8, <1>9, <1>10, <1>11, <1>12, <1>13

\* The player is taken out of the plane after it was counted out.
LEMMA RemovePlayerKeeps ==
  ASSUME IInv, NEW p \in Player, NEW m \in Manager, RemovePlayer(p, m)
  PROVE  IInv'
<1> USE DEF IInv
<1>1. /\ ppc[p] = "plane" /\ wid[m] = pworld[p]
      /\ plane' = [plane EXCEPT ![m] = @ \ {p}]
      /\ ppc' = [ppc EXCEPT ![p] = "out"]
      /\ pworld' = [pworld EXCEPT ![p] = None]
      /\ quitting' = [quitting EXCEPT ![p] = FALSE]
      /\ late' = late \ {p}
      /\ UNCHANGED <<wid, actived, forbid, state, result, player_count,
                     running, max_left, closing, available, change_list,
                     worldMan_set, waiting, wid_index, active_map,
                     cur_tag_id, s_tick_counter, mpc, mrole, mworld,
                     closing_msgs, quit_msgs, aborted>>
  BY DEF RemovePlayer, manager, imp, cluster, master, role, msgs, FreePlayer
<1>a. \A w \in Wid : w # None
  BY ConstAssumption
<1>2. \A v : Counted(v)' = Counted(v)
  BY <1>1 DEF Counted
<1>3. TypeOK'
  BY <1>1 DEF TypeOK
<1>4. ManagerInOnePlace'
  BY <1>1 DEF ManagerInOnePlace
<1>5. IndexExact'
  BY <1>1 DEF IndexExact
<1>6. MasterInv'
  BY <1>1 DEF MasterInv
<1>7. NewInv'
  BY <1>1, <1>a DEF NewInv, New, TypeOK, MasterInv
<1>8. TagInv'
  BY <1>1, <1>a DEF TagInv, TypeOK
<1>9. LifeInv'
  BY <1>1 DEF LifeInv, New
<1>10. PlaneInv'
  BY <1>1, <1>a DEF PlaneInv, TypeOK
<1>11. CountInv'
  BY <1>1, <1>2 DEF CountInv, KindOf
<1>12. RunInv'
  BY <1>1 DEF RunInv, IsRunning, KindOf
<1>13. ClosingTold'
  BY <1>1 DEF ClosingTold, Found
<1>14. QED
  BY <1>3, <1>4, <1>5, <1>6, <1>7, <1>8, <1>9, <1>10, <1>11, <1>12, <1>13

-----------------------------------------------------------------------------
(* Thread 0 and the clock *)

\* A result is not given to a world that is being announced.
LEMMA ResultKeeps ==
  ASSUME IInv, NEW w \in Wid,
         (PlayerQuitMap(w) \/ SysClose(w))
  PROVE  IInv'
<1> USE DEF IInv
<1>1. /\ \/ result' = result
         \/ /\ Found(w)
            /\ \E r \in {"ALL_PLAYER_QUIT", "DECIDED"} :
                 result' = [result EXCEPT ![wid_index[w]] = r]
      /\ \/ quit_msgs' = quit_msgs
         \/ quit_msgs[w] > 0 /\ quit_msgs' = [quit_msgs EXCEPT ![w] = @ - 1]
      /\ UNCHANGED <<wid, actived, forbid, state, player_count, running,
                     max_left, closing, plane, available, change_list,
                     worldMan_set, waiting, wid_index, active_map,
                     cur_tag_id, s_tick_counter, mpc, mrole, mworld, ppc,
                     pworld, quitting, closing_msgs, late, aborted>>
  BY DEF PlayerQuitMap, SysClose, manager, imp, cluster, master, role, msgs
<1>a. Found(w) => wid_index[w] \in Manager
  BY DEF Found, TypeOK
<1>2. \A v : Counted(v)' = Counted(v)
  BY <1>1 DEF Counted
<1>3. TypeOK'
  BY <1>1, <1>a, ConstAssumption DEF TypeOK
<1>4. ManagerInOnePlace'
  BY <1>1 DEF ManagerInOnePlace
<1>5. IndexExact'
  BY <1>1 DEF IndexExact
<1>6. MasterInv'
  BY <1>1 DEF MasterInv
<1>7. NewInv'
  BY <1>1 DEF NewInv, New, Found, IndexExact, TypeOK
<1>8. TagInv'
  BY <1>1 DEF TagInv
<1>9. LifeInv'
  BY <1>1 DEF LifeInv, New
<1>10. PlaneInv'
  BY <1>1 DEF PlaneInv
<1>11. CountInv'
  BY <1>1, <1>2 DEF CountInv, KindOf
<1>12. RunInv'
  BY <1>1 DEF RunInv, IsRunning, KindOf
<1>13. ClosingTold'
  BY <1>1 DEF ClosingTold, Found
<1>14. QED
  BY <1>3, <1>4, <1>5, <1>6, <1>7, <1>8, <1>9, <1>10, <1>11, <1>12, <1>13

\* READY becomes RUNNING.
LEMMA OnReadyKeeps ==
  ASSUME IInv, NEW m \in Manager, m \in actived, OnReady(m)
  PROVE  IInv'
<1> USE DEF IInv
<1>1. /\ state[m] = "READY" /\ state' = [state EXCEPT ![m] = "RUNNING"]
      /\ UNCHANGED <<wid, actived, forbid, result, player_count, running,
                     max_left, closing, plane, available, change_list,
                     worldMan_set, waiting, wid_index, active_map,
                     cur_tag_id, s_tick_counter, mpc, mrole, mworld, ppc,
                     pworld, quitting, closing_msgs, quit_msgs, late, aborted>>
  BY DEF OnReady, manager, imp, cluster, master, role, msgs
<1>2. \A v : Counted(v)' = Counted(v)
  BY <1>1 DEF Counted
<1>3. TypeOK'
  BY <1>1 DEF TypeOK
<1>4. ManagerInOnePlace'
  BY <1>1 DEF ManagerInOnePlace
<1>5. IndexExact'
  BY <1>1 DEF IndexExact
<1>6. MasterInv'
  BY <1>1 DEF MasterInv
<1>7. NewInv'
  BY <1>1 DEF NewInv, New
<1>8. TagInv'
  BY <1>1 DEF TagInv
<1>9. LifeInv'
  BY <1>1 DEF LifeInv, New
<1>10. PlaneInv'
  BY <1>1 DEF PlaneInv
<1>11. CountInv'
  BY <1>1, <1>2 DEF CountInv, KindOf
<1>12. RunInv'
  BY <1>1 DEF RunInv, IsRunning, KindOf
<1>13. ClosingTold'
  BY <1>1 DEF ClosingTold, Found
<1>14. QED
  BY <1>3, <1>4, <1>5, <1>6, <1>7, <1>8, <1>9, <1>10, <1>11, <1>12, <1>13

\* Everyone who is in the world is in its plane, so everyone is told.
LEMMA OnCloseKeeps ==
  ASSUME IInv, NEW m \in Manager, m \in actived, OnClose(m)
  PROVE  IInv'
<1> USE DEF IInv
<1>1. /\ state[m] = "RUNNING" /\ state' = [state EXCEPT ![m] = "CLOSING"]
      /\ running[m] < 0 \/ result[m] # "UNDONE"
      /\ closing' = [closing EXCEPT ![m] = CloseTime]
      /\ forbid' = forbid \cup {m}
      /\ closing_msgs' = closing_msgs \cup {<<q, wid[m]>> : q \in plane[m]}
      /\ UNCHANGED <<wid, actived, result, player_count, running, max_left,
                     plane, available, change_list, worldMan_set, waiting,
                     wid_index, active_map, cur_tag_id, s_tick_counter, mpc,
                     mrole, mworld, ppc, pworld, quitting, quit_msgs, late,
                     aborted>>
  BY DEF OnClose, manager, imp, cluster, master, role, msgs
<1>a. wid[m] \in active_map /\ wid_index[wid[m]] = m
  BY <1>1 DEF LifeInv, NewInv, New, TypeOK
<1>b. wid[m] \in Wid /\ plane[m] \in SUBSET Player
  BY <1>a DEF TypeOK
<1>2. \A v : Counted(v)' = Counted(v)
  BY <1>1 DEF Counted
<1>3. TypeOK'
  BY <1>1, <1>b, ConstAssumption DEF TypeOK
<1>4. ManagerInOnePlace'
  BY <1>1 DEF ManagerInOnePlace
<1>5. IndexExact'
  BY <1>1 DEF IndexExact
<1>6. MasterInv'
  BY <1>1 DEF MasterInv
<1>7. NewInv'
  BY <1>1, <1>a DEF NewInv, New, TypeOK
<1>8. TagInv'
  BY <1>1 DEF TagInv
<1>9. LifeInv'
  BY <1>1 DEF LifeInv, New
<1>10. PlaneInv'
  BY <1>1 DEF PlaneInv
<1>11. CountInv'
  BY <1>1, <1>2 DEF CountInv, KindOf
<1>12. RunInv'
  BY <1>1 DEF RunInv, IsRunning, KindOf
<1>13. ClosingTold'
  BY <1>1, <1>a DEF ClosingTold, Found, TypeOK, PlaneInv, IndexExact
<1>14. QED
  BY <1>3, <1>4, <1>5, <1>6, <1>7, <1>8, <1>9, <1>10, <1>11, <1>12, <1>13

\* The manager leaves both indexes and starts its countdown.
LEMMA OnRemoveKeeps ==
  ASSUME IInv, NEW m \in Manager, m \in actived, m \in worldMan_set,
         OnRemove(m)
  PROVE  IInv'
<1> USE DEF IInv
<1>1. /\ state[m] = "CLOSING" /\ state' = [state EXCEPT ![m] = "INVALID"]
      /\ actived' = actived \ {m}
      /\ waiting' = [waiting EXCEPT ![m] = RemoveDelay]
      /\ wid_index' = [wid_index EXCEPT ![wid[m]] = None]
      /\ active_map' = active_map \ {wid[m]}
      /\ UNCHANGED <<wid, forbid, result, player_count, running, max_left,
                     closing, plane, available, change_list, worldMan_set,
                     cur_tag_id, s_tick_counter, mpc, mrole, mworld, ppc,
                     pworld, quitting, closing_msgs, quit_msgs, late, aborted>>
  BY DEF OnRemove, manager, imp, cluster, master, role, msgs
<1>a. /\ wid[m] \in active_map /\ wid_index[wid[m]] = m /\ wid[m] \in Wid
      /\ ~(mpc \in New /\ wid[m] = mworld)
  BY <1>1 DEF LifeInv, NewInv, TypeOK
<1>b. \A n \in Manager : wid[n] = wid[m] => n = m
  BY <1>a, ConstAssumption DEF ManagerInOnePlace
<1>c. m \notin available /\ waiting[m] = 0
  BY <1>1 DEF ManagerInOnePlace, TypeOK
<1>2. \A v : Counted(v)' = Counted(v)
  BY <1>1 DEF Counted
<1>3. TypeOK'
  BY <1>1, <1>a, ConstAssumption DEF TypeOK
<1>4. ManagerInOnePlace'
  BY <1>1, <1>c, ConstAssumption DEF ManagerInOnePlace, TypeOK
<1>5. IndexExact'
  BY <1>1, <1>a, <1>b, ConstAssumption DEF IndexExact, TypeOK
<1>6. MasterInv'
  BY <1>1 DEF MasterInv
<1>7. NewInv'
  BY <1>1, <1>a, ConstAssumption DEF NewInv, New, TypeOK
<1>8. TagInv'
  BY <1>1, <1>a DEF TagInv, TypeOK
<1>9. LifeInv'
  BY <1>1, <1>a, <1>b, ConstAssumption DEF LifeInv, New, TypeOK
<1>10. PlaneInv'
  BY <1>1 DEF PlaneInv
<1>11. CountInv'
  BY <1>1, <1>2 DEF CountInv, KindOf, TypeOK
<1>12. RunInv'
  BY <1>1 DEF RunInv, IsRunning, KindOf
<1>13. ClosingTold'
  BY <1>1, <1>a DEF ClosingTold, Found, TypeOK
<1>14. QED
  BY <1>3, <1>4, <1>5, <1>6, <1>7, <1>8, <1>9, <1>10, <1>11, <1>12, <1>13

\* The clock waits for handlers, so no world that is announced runs out.
LEMMA SecondKeeps ==
  ASSUME IInv, Second
  PROVE  IInv'
<1> USE DEF IInv
<1>1. /\ mpc = "idle"
      /\ running' = [m \in Manager |-> Before(running[m])]
      /\ max_left' = [m \in Manager |-> Before(max_left[m])]
      /\ closing' = [m \in Manager |-> Before(closing[m])]
      /\ UNCHANGED <<wid, actived, forbid, state, result, player_count,
                     plane, available, change_list, worldMan_set, waiting,
                     wid_index, active_map, cur_tag_id, s_tick_counter, mpc,
                     mrole, mworld, ppc, pworld, quitting, closing_msgs,
                     quit_msgs, late, aborted>>
  BY DEF Second, manager, imp, cluster, master, role, msgs, Quiet
<1>2. \A v : Counted(v)' = Counted(v)
  BY <1>1 DEF Counted
<1>3. TypeOK'
  BY <1>1 DEF TypeOK, Before
<1>4. ManagerInOnePlace'
  BY <1>1 DEF ManagerInOnePlace
<1>5. IndexExact'
  BY <1>1 DEF IndexExact
<1>6. MasterInv'
  BY <1>1 DEF MasterInv
<1>7. NewInv'
  BY <1>1 DEF NewInv, New
<1>8. TagInv'
  BY <1>1 DEF TagInv
<1>9. LifeInv'
  BY <1>1 DEF LifeInv, New
<1>10. PlaneInv'
  BY <1>1 DEF PlaneInv
<1>11. CountInv'
  BY <1>1, <1>2 DEF CountInv, KindOf
<1>12. RunInv'
  BY <1>1 DEF RunInv, IsRunning, KindOf, Before, TypeOK
<1>13. ClosingTold'
  BY <1>1 DEF ClosingTold, Found
<1>14. QED
  BY <1>3, <1>4, <1>5, <1>6, <1>7, <1>8, <1>9, <1>10, <1>11, <1>12, <1>13

\* The managers whose countdown is over go back to the pool.
LEMMA TickKeeps ==
  ASSUME IInv, Tick
  PROVE  IInv'
<1> USE DEF IInv
<1> DEFINE E == Expired
<1>1. /\ s_tick_counter' = (s_tick_counter + 3) % TicksPerSec
      /\ waiting' = [m \in Manager |->
                       IF waiting[m] > 0 /\ Fires(KindOf(m)) THEN waiting[m] - 1
                                                            ELSE waiting[m]]
      /\ worldMan_set' = (worldMan_set \cup {m \in Manager : change_list[m] = 1})
                           \ E
      /\ change_list' = [m \in Manager |-> 0]
      /\ available' = available \cup E
      /\ wid' = [m \in Manager |-> IF m \in E THEN None ELSE wid[m]]
      /\ forbid' = forbid \ E
      /\ plane' = [m \in Manager |-> IF m \in E THEN {} ELSE plane[m]]
      /\ player_count' = [m \in Manager |-> IF m \in E THEN 0 ELSE player_count[m]]
      /\ running' = [m \in Manager |-> IF m \in E THEN -1 ELSE running[m]]
      /\ max_left' = [m \in Manager |-> IF m \in E THEN -1 ELSE max_left[m]]
      /\ closing' = [m \in Manager |-> IF m \in E THEN -1 ELSE closing[m]]
      /\ result' = [m \in Manager |-> IF m \in E THEN "UNDONE" ELSE result[m]]
      /\ UNCHANGED <<actived, state, wid_index, active_map, cur_tag_id, mpc,
                     mrole, mworld, ppc, pworld, quitting, closing_msgs,
                     quit_msgs, late, aborted>>
  BY DEF Tick, HeartbeatTick, Release, master, role, msgs
<1>2. /\ \A m \in Manager : m \in E => waiting[m] = 1
      /\ \A m \in Manager : waiting'[m] > 0 <=> waiting[m] > 0 /\ m \notin E
      /\ \A m \in Manager : waiting'[m] \in 0 .. RemoveDelay
      /\ E \subseteq Manager
  BY <1>1, ConstAssumption DEF Expired, TypeOK
<1>3. \A m \in E : /\ state[m] = "INVALID" /\ m \notin available
                   /\ m \notin actived /\ m \in worldMan_set /\ wid[m] # None
  BY <1>2 DEF ManagerInOnePlace, LifeInv
<1>4. s_tick_counter' \in 0 .. TicksPerSec - 1
  BY <1>1, ConstAssumption DEF TypeOK
<1> HIDE DEF E
<1>5. \A w : Counted(w)' = Counted(w)
  BY <1>1 DEF Counted
<1>6. TypeOK'
  <2>1. /\ wid' \in [Manager -> Wid \cup {None}]
        /\ result' \in [Manager -> {"UNDONE", "ALL_PLAYER_QUIT", "DECIDED"}]
        /\ player_count' \in [Manager -> Nat]
        /\ plane' \in [Manager -> SUBSET Player]
    BY <1>1 DEF TypeOK
  <2>2. /\ running' \in [Manager -> Int] /\ max_left' \in [Manager -> Int]
        /\ closing' \in [Manager -> Int]
    BY <1>1 DEF TypeOK
  <2>3. /\ waiting' \in [Manager -> 0 .. RemoveDelay]
        /\ change_list' \in [Manager -> 0 .. 1]
    BY <1>1, <1>2
  <2>4. QED
    BY <1>1, <1>2, <1>4, <2>1, <2>2, <2>3 DEF TypeOK
<1>7. ManagerInOnePlace'
  BY <1>1, <1>2, <1>3 DEF ManagerInOnePlace, TypeOK
<1>8. IndexExact'
  BY <1>1, <1>3 DEF IndexExact, TypeOK
<1>9. MasterInv'
  BY <1>1 DEF MasterInv
<1>10. NewInv'
  BY <1>1, <1>3, ConstAssumption DEF NewInv, New, MasterInv, TypeOK
<1>11. TagInv'
  BY <1>1, ConstAssumption DEF TagInv, TypeOK
<1>12. LifeInv'
  BY <1>1, <1>2, <1>3 DEF LifeInv, New, TypeOK
<1>13. PlaneInv'
  BY <1>1, ConstAssumption DEF PlaneInv, TypeOK
<1>14. CountInv'
  <2> SUFFICES ASSUME NEW m \in Manager, (wid[m] # None)'
               PROVE  /\ (Cardinality(Counted(wid[m])) <= player_count[m])'
                      /\ (state[m] # "INVALID" =>
                            player_count[m] = Cardinality(Counted(wid[m])))'
                      /\ (KindOf(m) = "bg" => player_count[m] <= MaxCount["bg"])'
    BY DEF CountInv
  <2>1. m \notin E /\ wid'[m] = wid[m] /\ player_count'[m] = player_count[m]
    BY <1>1
  <2>2. Counted(wid[m])' = Counted(wid[m])
    BY <1>1, <2>1 DEF Counted
  <2>3. QED
    BY <1>1, <2>1, <2>2 DEF CountInv, KindOf
<1>15. RunInv'
  BY <1>1, <1>3 DEF RunInv, IsRunning, KindOf, TypeOK
<1>16. ClosingTold'
  BY <1>1 DEF ClosingTold, Found
<1>17. QED
  BY <1>6, <1>7, <1>8, <1>9, <1>10, <1>11, <1>12, <1>13, <1>14, <1>15, <1>16

-----------------------------------------------------------------------------
(* The theorems *)

\* At the start every manager is in the pool.
LEMMA InitInv == Init => IInv
<1> SUFFICES ASSUME Init PROVE IInv
  OBVIOUS
<1> USE ConstAssumption DEF Init
<1>1. TypeOK
  <2>1. 0 \in 0 .. TicksPerSec - 1 /\ 0 \in 0 .. RemoveDelay /\ -1 \in Int
    OBVIOUS
  <2>2. /\ running \in [Manager -> Int] /\ max_left \in [Manager -> Int]
        /\ closing \in [Manager -> Int]
    BY <2>1
  <2>3. /\ cur_tag_id \in [Kind -> 0 .. MaxTag]
        /\ quit_msgs \in [Wid -> 0 .. MaxQuit]
        /\ waiting \in [Manager -> 0 .. RemoveDelay]
        /\ change_list \in [Manager -> 0 .. 1]
    BY <2>1
  <2>4. QED
    BY <2>1, <2>2, <2>3 DEF TypeOK
<1>2. ManagerInOnePlace /\ IndexExact /\ MasterInv
  BY DEF ManagerInOnePlace, IndexExact, MasterInv
<1>3. NewInv /\ TagInv /\ LifeInv
  BY DEF NewInv, New, TagInv, LifeInv
<1>4. PlaneInv /\ CountInv /\ RunInv /\ ClosingTold
  BY DEF PlaneInv, CountInv, RunInv, IsRunning, ClosingTold
<1>5. QED
  BY <1>1, <1>2, <1>3, <1>4 DEF IInv

\* Every step of every thread keeps the invariant.
LEMMA RunKeeps ==
  ASSUME IInv, Run
  PROVE  IInv'
<1>1. ASSUME NEW p \in Player, NEW k \in Kind, NEW m \in Manager,
             CreateWorldMan(p, k, m)
      PROVE  IInv'
  BY <1>1, CreateWorldManKeeps
<1>2. ASSUME NEW m \in Manager, InsertIndex(m) \/ SetActive(m)
      PROVE  IInv'
  BY <1>2, InsertIndexKeeps, SetActiveKeeps
<1>3. CASE Register
  BY <1>3, RegisterKeeps
<1>4. ASSUME NEW p \in Player, NEW w \in Wid, EnterExisting(p, w)
      PROVE  IInv'
  BY <1>4, MasterMoveKeeps
     DEF EnterExisting, New, manager, imp, cluster, role, msgs
<1>5. CASE FindWorld
  <2>1. mrole \in Player /\ mworld \in Wid /\ ppc[mrole] = "out"
    BY <1>5 DEF FindWorld, IInv, MasterInv
  <2>2. QED
    BY <1>5, <2>1, MasterMoveKeeps
       DEF FindWorld, Fail, New, manager, imp, cluster, role, msgs
<1>6. ASSUME NEW m \in Manager, CheckForbid(m)
      PROVE  IInv'
  <2>1. mrole \in Player /\ mworld \in Wid /\ ppc[mrole] = "out"
    BY <1>6 DEF CheckForbid, IInv, MasterInv
  <2>2. QED
    BY <1>6, <2>1, MasterMoveKeeps
       DEF CheckForbid, Fail, New, manager, imp, cluster, role, msgs
<1>7. ASSUME NEW m \in Manager, InsertPlayer(m) \/ InsertRefused(m)
      PROVE  IInv'
  BY <1>7, InsertPlayerKeeps, InsertRefusedKeeps
<1>8. ASSUME NEW p \in Player, QuitMap(p) \/ PlayerLogout(p) \/ LogoutTask(p)
      PROVE  IInv'
  BY <1>8, QuitMapKeeps, PlayerLogoutKeeps, LogoutTaskKeeps
<1>9. ASSUME NEW p \in Player, NEW w \in Wid, WorldClosing(p, w)
      PROVE  IInv'
  BY <1>9, WorldClosingKeeps
<1>10. ASSUME NEW p \in Player, NEW m \in Manager,
              LeaveMap(p, m) \/ RemovePlayer(p, m)
       PROVE  IInv'
  BY <1>10, LeaveMapKeeps, RemovePlayerKeeps
<1>11. ASSUME NEW w \in Wid, PlayerQuitMap(w) \/ SysClose(w)
       PROVE  IInv'
  BY <1>11, ResultKeeps
<1>12. ASSUME NEW m \in Manager, Heartbeat(m)
       PROVE  IInv'
  BY <1>12, OnReadyKeeps, OnCloseKeeps, OnRemoveKeeps DEF Heartbeat
<1>13. CASE Tick
  BY <1>13, TickKeeps
<1>14. CASE Second
  BY <1>14, SecondKeeps
<1>15. QED
  BY <1>1, <1>2, <1>3, <1>4, <1>5, <1>6, <1>7, <1>8, <1>9, <1>10, <1>11, <1>12,
     <1>13, <1>14 DEF Run

\* The process may also have stopped.
LEMMA NextKeeps == IInv /\ [Next]_vars => IInv'
<1> SUFFICES ASSUME IInv, [Next]_vars PROVE IInv'
  OBVIOUS
<1>1. CASE Run
  BY <1>1, RunKeeps
<1>2. CASE UNCHANGED vars
  <2>1. /\ TypeOK' /\ ManagerInOnePlace' /\ IndexExact' /\ MasterInv'
        /\ NewInv' /\ TagInv' /\ LifeInv' /\ PlaneInv'
    BY <1>2 DEF IInv, vars, manager, imp, cluster, master, role, msgs, TypeOK,
                ManagerInOnePlace, IndexExact, MasterInv, NewInv, New, TagInv,
                LifeInv, PlaneInv
  <2>2. \A m \in Manager : Counted(wid[m])' = Counted(wid[m])
    BY <1>2 DEF vars, manager, role, Counted
  <2>3. CountInv' /\ RunInv' /\ ClosingTold'
    BY <1>2, <2>2 DEF IInv, vars, manager, imp, cluster, master, role, msgs,
                      CountInv, RunInv, ClosingTold, KindOf, IsRunning, Found
  <2>4. QED
    BY <2>1, <2>3 DEF IInv
<1>3. QED
  BY <1>1, <1>2 DEF Next, Stopped

\* The invariant holds in every reachable state.
LEMMA Inductive == Spec => []IInv
<1>1. QED
  BY InitInv, NextKeeps, PTL DEF Spec

\* The types of the state, the counters' bounds included.
THEOREM TypeCorrect == Spec => []TypeOK
<1>1. IInv => TypeOK
  BY DEF IInv
<1>2. QED
  BY <1>1, Inductive, PTL

\* Whatever the clusters' threads do, no WorldManager is lost or in two
\* places, and no two managers have one id.
THEOREM ManagersAreKept == Spec => []ManagerInOnePlace
<1>1. IInv => ManagerInOnePlace
  BY DEF IInv
<1>2. QED
  BY <1>1, Inductive, PTL

\* The index and the controllers' map agree with the managers, except for the
\* world that the master thread is announcing.
THEOREM IndexCorrect == Spec => []IndexExact
<1>1. IInv => IndexExact
  BY DEF IInv
<1>2. QED
  BY <1>1, Inductive, PTL

\* The assertions of the clusters, of the world's state machine and of its
\* player count never fail.
THEOREM AssertionsHold == Spec => []AssertsHold
<1>1. ASSUME IInv PROVE AssertsHold
  <2> USE <1>1 DEF IInv
  <2>1. \A m \in actived :
          /\ state[m] # "INVALID"
          /\ state[m] = "CLOSING" =>
               wid_index[wid[m]] = m /\ wid[m] \in active_map
    BY DEF LifeInv, NewInv, TypeOK
  <2>2. \A m \in Manager :
          /\ change_list[m] = 1 => m \notin worldMan_set
          /\ waiting[m] > 0 => m \in worldMan_set /\ change_list[m] = 0
          /\ wid[m] # None /\ KindOf(m) = "bg" =>
               player_count[m] <= MaxCount["bg"]
    BY DEF ManagerInOnePlace, LifeInv, CountInv, TypeOK
  <2>3. ASSUME NEW p \in Player, NEW m \in Manager, ppc[p] = "leave",
               wid[m] = pworld[p]
        PROVE  player_count[m] > 0
    <3>1. wid[m] # None /\ p \in Counted(wid[m])
      BY <2>3 DEF PlaneInv, Counted
    <3>2. Cardinality(Counted(wid[m])) # 0
      BY <3>1, CountedFinite, FS_EmptySet
    <3>3. QED
      BY <3>1, <3>2, CountedFinite DEF CountInv, TypeOK
  <2>4. /\ mpc = "index" => wid_index[mworld] = None
        /\ mpc = "register" => mworld \notin active_map
    BY DEF NewInv, New
  <2>5. QED
    BY <2>1, <2>2, <2>3, <2>4 DEF AssertsHold
<1>2. QED
  BY <1>1, Inductive, PTL

\* player_count_ of an active world is the number of players that have entered
\* and not left it.
THEOREM CountCorrect == Spec => []PlayerCountExact
<1>1. ASSUME IInv PROVE PlayerCountExact
  BY <1>1, ConstAssumption DEF IInv, PlayerCountExact, CountInv, LifeInv,
     ManagerInOnePlace, TypeOK
<1>2. QED
  BY <1>1, Inductive, PTL

\* Every player of a closing world, except those that came in late, has been
\* told or will be.
THEOREM ClosingIsTold == Spec => []ClosingTold
<1>1. IInv => ClosingTold
  BY DEF IInv
<1>2. QED
  BY <1>1, Inductive, PTL

\* A world with enough players is closed only by its result or at the end of
\* its whole survival time.
THEOREM BusyWorldsStay == Spec => BusyWorldStays
<1> DEFINE Early(m) == /\ state[m] = "RUNNING" /\ state'[m] = "CLOSING"
                       /\ result[m] = "UNDONE" /\ max_left[m] >= 0
<1>1. ASSUME IInv, [Next]_vars
      PROVE  [\A m \in Manager : Early(m) =>
                Cardinality(Counted(wid[m])) < MinCount[KindOf(m)]]_vars
  <2> SUFFICES ASSUME NEW m \in Manager, Early(m)
               PROVE  Cardinality(Counted(wid[m])) < MinCount[KindOf(m)]
    OBVIOUS
  <2>1. running[m] < 0
    <3>1. PICK n \in Manager : OnClose(n)
      <4>1. \/ UNCHANGED state
            \/ \E p \in Player, k \in Kind, n \in Manager : CreateWorldMan(p, k, n)
            \/ \E n \in Manager : OnReady(n) \/ OnClose(n) \/ OnRemove(n)
        <5>1. CASE UNCHANGED vars
          BY <5>1 DEF vars, manager, imp
        <5>2. CASE Run
          BY <5>2 DEF Run, imp, manager, InsertIndex, SetActive, Register,
             EnterExisting, FindWorld, CheckForbid, InsertPlayer, InsertRefused,
             QuitMap, PlayerLogout, LogoutTask, WorldClosing, LeaveMap,
             RemovePlayer, PlayerQuitMap, SysClose, Heartbeat, Tick,
             HeartbeatTick, Release, Second
        <5> QED
          BY <1>1, <5>1, <5>2 DEF Next, Stopped
      <4>2. ASSUME NEW n \in Manager, OnReady(n) \/ OnRemove(n)
            PROVE  FALSE
        BY <1>1, <4>2 DEF OnReady, OnRemove, IInv, TypeOK
      <4>3. ASSUME NEW p \in Player, NEW k \in Kind, NEW n \in Manager,
                   CreateWorldMan(p, k, n)
            PROVE  FALSE
        BY <1>1, <4>3 DEF CreateWorldMan, OnInit, IInv, TypeOK
      <4> QED
        BY <4>1, <4>2, <4>3
    <3>2. n = m
      BY <3>1 DEF OnClose, IInv, TypeOK
    <3>3. QED
      BY <3>1, <3>2 DEF OnClose
  <2>2. running[m] # max_left[m]
    BY <1>1, <2>1 DEF IInv, TypeOK
  <2>3. ~(player_count[m] >= MinCount[KindOf(m)])
    BY <1>1, <2>2 DEF IInv, RunInv, IsRunning
  <2>4. wid[m] \in Wid
    BY <1>1 DEF IInv, LifeInv, ManagerInOnePlace, TypeOK
  <2>5. player_count[m] = Cardinality(Counted(wid[m]))
    BY <1>1, <2>4, WidFacts DEF IInv, CountInv
  <2>6. MinCount[KindOf(m)] \in Nat /\ player_count[m] \in Nat
    BY <1>1, <2>4, WidFacts, ConstAssumption DEF KindOf, IInv, TypeOK
  <2>7. QED
    BY <2>3, <2>5, <2>6
<1>2. QED
  BY <1>1, Inductive, PTL DEF Spec, BusyWorldStays

-----------------------------------------------------------------------------
(* The refinement: every step of the clusters is a step of WorldSpan, or   *)
(* changes nothing that it shows.                                          *)

SpanUnchanged == \A v \in Wid : SpanOf(v)' = SpanOf(v)
InsideUnchanged == \A v \in Wid : InsideOf(v)' = InsideOf(v)

\* A step that shows nothing.
LEMMA Stays ==
  ASSUME SpanUnchanged, InsideUnchanged, aborted' = aborted
  PROVE  UNCHANGED Span!vars
BY DEF Span!vars, SpanUnchanged, InsideUnchanged

\* The six kinds of steps that WorldSpan knows: the process stops,
LEMMA Stops ==
  ASSUME SpanUnchanged, InsideUnchanged, aborted = FALSE, aborted' = TRUE
  PROVE  Span!Next
BY DEF Span!Next, Span!Stop, SpanUnchanged, InsideUnchanged

\* a world opens,
LEMMA Opens ==
  ASSUME NEW w \in Wid, ~aborted, aborted' = aborted, InsideUnchanged,
         SpanOf(w) = "none", SpanOf(w)' = "open",
         \A v \in Wid : v # w => SpanOf(v)' = SpanOf(v),
         active_map \subseteq Wid, Cardinality(active_map) < Cardinality(Manager)
  PROVE  Span!Next
<1>1. {v \in Wid : Span!Present(v)} = active_map
  BY DEF Span!Present, SpanOf
<1>2. Span!Cardinality({v \in Wid : Span!Present(v)}) < Cardinality(Manager)
  <2>1. \A S : Span!Cardinality(S) = Cardinality(S)
    BY DEF Span!Cardinality, Cardinality
  <2>2. QED
    BY <1>1, <2>1
<1>3. [v \in Wid |-> SpanOf(v)]'
        = [[v \in Wid |-> SpanOf(v)] EXCEPT ![w] = "open"]
  OBVIOUS
<1>4. /\ [v \in Wid |-> SpanOf(v)][w] = "none"
      /\ UNCHANGED <<[v \in Wid |-> InsideOf(v)], aborted>>
  BY DEF InsideUnchanged
<1>5. Span!Open(w)
  BY <1>2, <1>3, <1>4 DEF Span!Open
<1>6. QED
  BY <1>5 DEF Span!Next

\* a world closes,
LEMMA Closes ==
  ASSUME NEW w \in Wid, ~aborted, aborted' = aborted, InsideUnchanged,
         SpanOf(w) = "open", SpanOf(w)' = "closing",
         \A v \in Wid : v # w => SpanOf(v)' = SpanOf(v)
  PROVE  Span!Next
<1>1. Span!Close(w)
  BY DEF Span!Close, InsideUnchanged
<1>2. QED
  BY <1>1 DEF Span!Next

\* a world goes,
LEMMA Removes ==
  ASSUME NEW w \in Wid, ~aborted, aborted' = aborted,
         SpanOf(w) = "closing", SpanOf(w)' = "gone", InsideOf(w)' = {},
         \A v \in Wid : v # w => SpanOf(v)' = SpanOf(v)
                                 /\ InsideOf(v)' = InsideOf(v)
  PROVE  Span!Next
<1>1. Span!Remove(w)
  BY DEF Span!Remove
<1>2. QED
  BY <1>1 DEF Span!Next

\* a player joins a world,
LEMMA Joins ==
  ASSUME NEW w \in Wid, NEW p \in Player, ~aborted, aborted' = aborted,
         SpanUnchanged, SpanOf(w) \in {"open", "closing"},
         \A v \in Wid : p \notin InsideOf(v),
         InsideOf(w)' = InsideOf(w) \cup {p},
         \A v \in Wid : v # w => InsideOf(v)' = InsideOf(v)
  PROVE  Span!Next
<1>1. Span!Join(w, p)
  BY DEF Span!Join, Span!Present, SpanUnchanged
<1>2. QED
  BY <1>1 DEF Span!Next

\* a player leaves a world.
LEMMA Leaves ==
  ASSUME NEW w \in Wid, NEW p \in Player, ~aborted, aborted' = aborted,
         SpanUnchanged, p \in InsideOf(w), InsideOf(w)' = InsideOf(w) \ {p},
         \A v \in Wid : v # w => InsideOf(v)' = InsideOf(v)
  PROVE  Span!Next
<1>1. Span!Leave(w, p)
  BY DEF Span!Leave, SpanUnchanged
<1>2. QED
  BY <1>1 DEF Span!Next

\* What a step has to leave alone for the spans to stay as they are.
LEMMA SpanSteady ==
  ASSUME UNCHANGED <<active_map, cur_tag_id>>,
         \A v \in active_map : (state[wid_index[v]] = "CLOSING")'
                                 <=> state[wid_index[v]] = "CLOSING",
         mpc \in New <=> mpc' \in New, mpc \in New => mworld' = mworld
  PROVE  SpanUnchanged
<1>1. ASSUME NEW v \in Wid
      PROVE  SpanOf(v)' = SpanOf(v)
  <2>1. CASE v \in active_map
    BY <2>1 DEF SpanOf
  <2>2. CASE v \notin active_map
    BY <2>2 DEF SpanOf, New
  <2>3. QED
    BY <2>1, <2>2
<1>2. QED
  BY <1>1 DEF SpanUnchanged

\* What a step has to leave alone for the players to stay as they are.
LEMMA InsideSteady ==
  ASSUME UNCHANGED <<active_map, ppc, pworld>>
  PROVE  InsideUnchanged
BY DEF InsideUnchanged, InsideOf, Counted

\* Both together.
LEMMA Steady ==
  ASSUME UNCHANGED <<active_map, cur_tag_id, ppc, pworld, aborted>>,
         \A v \in active_map : (state[wid_index[v]] = "CLOSING")'
                                 <=> state[wid_index[v]] = "CLOSING",
         mpc \in New <=> mpc' \in New, mpc \in New => mworld' = mworld
  PROVE  UNCHANGED Span!vars
BY SpanSteady, InsideSteady, Stays

\* A new world is still unknown.
LEMMA CreateWorldManSpan ==
  ASSUME IInv, NEW p \in Player, NEW k \in Kind, NEW m \in Manager,
         CreateWorldMan(p, k, m)
  PROVE  UNCHANGED Span!vars
<1> DEFINE w == <<k, cur_tag_id[k] + 1>>
<1>1. /\ mpc = "idle" /\ mpc' = "index" /\ mworld' = w /\ m \in available
      /\ cur_tag_id[k] < MaxTag
      /\ cur_tag_id' = [cur_tag_id EXCEPT ![k] = @ + 1]
      /\ state' = [state EXCEPT ![m] = "READY"]
      /\ UNCHANGED <<wid_index, active_map, ppc, pworld, aborted>>
  BY DEF CreateWorldMan, OnInit, role
<1>2. cur_tag_id[k] \in 0 .. MaxTag
  BY DEF IInv, TypeOK
<1>3. w \in Wid /\ w[1] = k /\ w[2] = cur_tag_id[k] + 1
  BY <1>1, <1>2, ConstAssumption DEF Wid
<1>4. w \notin active_map
  <2>1. w[2] > cur_tag_id[w[1]]
    BY <1>2, <1>3
  <2>2. QED
    BY <1>3, <2>1 DEF IInv, TagInv
<1>5. ASSUME NEW v \in Wid PROVE SpanOf(v)' = SpanOf(v)
  <2>1. CASE v \in active_map
    <3>1. wid_index[v] \in Manager /\ wid_index[v] # m
      BY <1>1, <2>1 DEF IInv, TypeOK, IndexExact, LifeInv
    <3>2. QED
      BY <1>1, <2>1, <3>1 DEF SpanOf, IInv, TypeOK
  <2>2. CASE v = w
    <3>1. SpanOf(v) = "none"
      BY <1>2, <1>3, <1>4, <2>2 DEF SpanOf
    <3>2. SpanOf(v)' = "none"
      BY <1>1, <1>4, <2>2 DEF SpanOf
    <3>3. QED
      BY <3>1, <3>2
  <2>3. CASE v \notin active_map /\ v # w
    <3>1. v[1] \in Kind /\ v[2] \in 1 .. MaxTag /\ v = <<v[1], v[2]>>
      BY WidFacts
    <3>2. cur_tag_id \in [Kind -> 0 .. MaxTag]
      BY DEF IInv, TypeOK
    <3>3. v[2] > cur_tag_id'[v[1]] <=> v[2] > cur_tag_id[v[1]]
      <4>1. CASE v[1] = k
        BY <1>1, <1>2, <2>3, <3>1, <3>2, <4>1, ConstAssumption
      <4>2. CASE v[1] # k
        BY <1>1, <3>1, <3>2, <4>2
      <4>3. QED
        BY <4>1, <4>2
    <3>4. QED
      BY <1>1, <2>3, <3>3 DEF SpanOf
  <2>4. QED
    BY <2>1, <2>2, <2>3
<1>6. QED
  BY <1>1, <1>5, InsideSteady, Stays DEF SpanUnchanged

\* The moment at which a world can be found: Open.  There is a free place
\* because the managers of the other worlds are other managers.
LEMMA RegisterSpan ==
  ASSUME IInv, ~aborted, Register
  PROVE  Span!Next
<1>1. PICK w \in Wid : w = mworld
  BY DEF Register, IInv, MasterInv
<1> DEFINE own == wid_index[w]
<1>2. /\ mpc = "register" /\ mpc' = "find" /\ mworld = w /\ mworld' = w
      /\ active_map' = active_map \cup {w}
      /\ UNCHANGED <<state, wid_index, cur_tag_id, ppc, pworld, aborted>>
  BY <1>1 DEF Register, manager, imp, role
<1>3. /\ w \notin active_map /\ own \in Manager
      /\ wid[own] = w /\ state[own] # "CLOSING"
      /\ \A p \in Player : pworld[p] # w
  BY <1>2 DEF IInv, MasterInv, NewInv, New, IndexExact, TypeOK
<1>4. SpanOf(w) = "none"
  BY <1>2, <1>3 DEF SpanOf
<1>5. SpanOf(w)' = "open"
  BY <1>2, <1>3 DEF SpanOf
<1>6. \A v \in Wid : v # w => SpanOf(v)' = SpanOf(v)
  BY <1>2 DEF SpanOf
<1>7. InsideUnchanged
  <2>1. \A v \in Wid : Counted(v)' = Counted(v)
    BY <1>2 DEF Counted
  <2>2. Counted(w) = {}
    BY <1>3 DEF Counted
  <2>3. InsideOf(w) = {} /\ InsideOf(w)' = {}
    BY <1>2, <1>3, <2>1, <2>2 DEF InsideOf
  <2>4. \A v \in Wid : v # w => InsideOf(v)' = InsideOf(v)
    BY <1>2, <2>1 DEF InsideOf
  <2>5. QED
    BY <2>3, <2>4 DEF InsideUnchanged
<1>8. active_map \subseteq Wid
  BY DEF IInv, TypeOK
<1>9. Cardinality(active_map) < Cardinality(Manager)
  <2> DEFINE f == [v \in active_map |-> wid_index[v]]
             T == Manager \ {own}
  <2>1. \A v \in active_map : /\ wid_index[v] \in T
                              /\ wid[wid_index[v]] = v
    BY <1>3, <1>8 DEF IInv, IndexExact, TypeOK
  <2>2. f \in Injection(active_map, T)
    BY <2>1 DEF Injection, IsInjective
  <2>3. /\ IsFiniteSet(T) /\ Cardinality(T) = Cardinality(Manager) - 1
        /\ Cardinality(Manager) \in Nat
    BY <1>3, FiniteAssumption, FS_RemoveElement, FS_CardinalityType
  <2>4. Cardinality(active_map) <= Cardinality(T) /\ IsFiniteSet(active_map)
    BY <2>2, <2>3, FS_Injection
  <2>5. QED
    BY <2>3, <2>4, FS_CardinalityType
<1>10. QED
  BY <1>2, <1>4, <1>5, <1>6, <1>7, <1>8, <1>9, Opens

\* The master thread's other steps show nothing, except the insertion.
LEMMA MasterSpan ==
  ASSUME IInv,
         \/ \E m \in Manager : \/ InsertIndex(m) \/ SetActive(m)
                               \/ CheckForbid(m) \/ InsertRefused(m)
         \/ \E p \in Player, w \in Wid : EnterExisting(p, w)
         \/ FindWorld
  PROVE  UNCHANGED Span!vars
<1>1. UNCHANGED <<active_map, cur_tag_id, state, ppc, pworld, aborted>>
  BY DEF InsertIndex, SetActive, CheckForbid, InsertRefused, EnterExisting,
         FindWorld, manager, imp, cluster, role
<1>2. /\ mpc \in New <=> mpc' \in New
      /\ mpc \in New => mworld' = mworld
  BY DEF InsertIndex, SetActive, CheckForbid, InsertRefused, EnterExisting,
         FindWorld, Fail, New
<1>3. \A v \in active_map : wid_index'[v] = wid_index[v]
  BY DEF InsertIndex, SetActive, CheckForbid, InsertRefused, EnterExisting,
         FindWorld, cluster, IInv, NewInv, New, TypeOK
<1>4. QED
  BY <1>1, <1>2, <1>3, Steady

\* A player comes into a world that can be found, or into one that is being
\* removed, which nobody sees.
LEMMA InsertPlayerSpan ==
  ASSUME IInv, ~aborted, NEW m \in Manager, InsertPlayer(m)
  PROVE  Span!Next \/ UNCHANGED Span!vars
<1>1. PICK w \in Wid, p \in Player : w = mworld /\ p = mrole
  BY DEF InsertPlayer, IInv, MasterInv
<1>2. /\ mpc = "insert" /\ mpc' = "idle" /\ ppc[p] = "out"
      /\ ppc' = [ppc EXCEPT ![p] = "in"]
      /\ pworld' = [pworld EXCEPT ![p] = w]
      /\ UNCHANGED <<active_map, wid_index, state, cur_tag_id, aborted>>
  BY <1>1 DEF InsertPlayer, Fail, cluster, IInv, MasterInv
<1>3. SpanUnchanged
  BY <1>2, SpanSteady DEF New
<1>4. \A v \in Wid : v # w => InsideOf(v)' = InsideOf(v)
  BY <1>2 DEF InsideOf, Counted, IInv, TypeOK
<1>5. CASE w \in active_map
  <2>1. InsideOf(w)' = InsideOf(w) \cup {p}
    BY <1>2, <1>5 DEF InsideOf, Counted, IInv, TypeOK
  <2>2. SpanOf(w) \in {"open", "closing"}
    BY <1>5 DEF SpanOf
  <2>3. \A v \in Wid : p \notin InsideOf(v)
    BY <1>2 DEF InsideOf, Counted
  <2>4. QED
    BY <1>2, <1>3, <1>4, <2>1, <2>2, <2>3, Joins
<1>6. CASE w \notin active_map
  <2>1. InsideOf(w)' = InsideOf(w)
    BY <1>2, <1>6 DEF InsideOf
  <2>2. InsideUnchanged
    BY <1>4, <2>1 DEF InsideUnchanged
  <2>3. QED
    BY <1>2, <1>3, <2>2, Stays
<1>7. QED
  BY <1>5, <1>6

\* The stations of a player that do not change who is inside.
LEMMA PlayerSpan ==
  ASSUME IInv, NEW p \in Player,
         \/ QuitMap(p) \/ PlayerLogout(p) \/ LogoutTask(p)
         \/ \E m \in Manager : RemovePlayer(p, m)
  PROVE  UNCHANGED Span!vars
<1>1. UNCHANGED <<active_map, wid_index, state, cur_tag_id, mpc, mworld, aborted>>
  BY DEF QuitMap, PlayerLogout, LogoutTask, RemovePlayer, FreePlayer, manager,
         imp, cluster, master
<1>2. SpanUnchanged
  BY <1>1, SpanSteady
<1>3. \A v \in active_map : Counted(v)' = Counted(v)
  <2>1. CASE QuitMap(p)
    BY <2>1 DEF QuitMap, Counted
  <2>2. CASE PlayerLogout(p)
    BY <2>2 DEF PlayerLogout, Counted, IInv, TypeOK
  <2>3. CASE LogoutTask(p) /\ Found(pworld[p])
    BY <2>3 DEF LogoutTask, Counted, IInv, TypeOK
  <2>4. CASE LogoutTask(p) /\ ~Found(pworld[p])
    <3>1. pworld[p] \notin active_map
      BY <2>4 DEF Found, IInv, IndexExact, NewInv, New, TypeOK
    <3>2. QED
      BY <2>4, <3>1, ConstAssumption
         DEF LogoutTask, FreePlayer, Counted, IInv, TypeOK
  <2>5. ASSUME NEW m \in Manager, RemovePlayer(p, m)
        PROVE  \A v \in active_map : Counted(v)' = Counted(v)
    BY <2>5, ConstAssumption DEF RemovePlayer, FreePlayer, Counted, IInv, TypeOK
  <2>6. QED
    BY <2>1, <2>2, <2>3, <2>4, <2>5
<1>4. InsideUnchanged
  BY <1>1, <1>3 DEF InsideUnchanged, InsideOf
<1>5. QED
  BY <1>1, <1>2, <1>4, Stays

\* Only the assertion in WorldClosing shows.
LEMMA WorldClosingSpan ==
  ASSUME IInv, ~aborted, NEW p \in Player, NEW w \in Wid, WorldClosing(p, w)
  PROVE  Span!Next \/ UNCHANGED Span!vars
<1>1. /\ UNCHANGED <<active_map, wid_index, state, cur_tag_id, mpc, mworld, ppc,
                     pworld>>
      /\ aborted' = (ppc[p] = "in" /\ pworld[p] # w)
  BY DEF WorldClosing, manager, imp, cluster, master
<1>2. SpanUnchanged /\ InsideUnchanged
  BY <1>1, SpanSteady, InsideSteady
<1>3. CASE ppc[p] = "in" /\ pworld[p] # w
  <2>1. aborted = FALSE /\ aborted' = TRUE
    BY <1>1, <1>3 DEF IInv, TypeOK
  <2>2. QED
    BY <1>2, <2>1, Stops
<1>4. CASE ~(ppc[p] = "in" /\ pworld[p] # w)
  <2>1. aborted' = aborted
    BY <1>1, <1>4 DEF IInv, TypeOK
  <2>2. QED
    BY <1>2, <2>1, Stays
<1>5. QED
  BY <1>3, <1>4

\* A player leaves its world, unless the world has been removed.
LEMMA LeaveMapSpan ==
  ASSUME IInv, ~aborted, NEW p \in Player, NEW m \in Manager, LeaveMap(p, m)
  PROVE  Span!Next \/ UNCHANGED Span!vars
<1> DEFINE w == pworld[p]
<1>1. /\ ppc[p] = "leave" /\ wid[m] = w
      /\ ppc' = [ppc EXCEPT ![p] = "plane"]
      /\ UNCHANGED <<active_map, wid_index, state, cur_tag_id, mpc, mworld,
                     pworld, aborted>>
  BY DEF LeaveMap, cluster, master
<1>2. w \in Wid
  BY <1>1 DEF IInv, PlaneInv, TypeOK
<1>3. SpanUnchanged
  BY <1>1, SpanSteady
<1>4. \A v \in Wid : v # w => InsideOf(v)' = InsideOf(v)
  BY <1>1 DEF InsideOf, Counted, IInv, TypeOK
<1>5. CASE w \in active_map
  <2>1. InsideOf(w)' = InsideOf(w) \ {p} /\ p \in InsideOf(w)
    BY <1>1, <1>5 DEF InsideOf, Counted, IInv, TypeOK
  <2>2. QED
    BY <1>1, <1>2, <1>3, <1>4, <2>1, Leaves
<1>6. CASE w \notin active_map
  <2>1. InsideUnchanged
    BY <1>1, <1>4, <1>6 DEF InsideUnchanged, InsideOf
  <2>2. QED
    BY <1>1, <1>3, <2>1, Stays
<1>7. QED
  BY <1>5, <1>6

\* Messages, ticks and the clock show nothing.
LEMMA ThreadZeroSpan ==
  ASSUME IInv,
         \/ \E w \in Wid : PlayerQuitMap(w) \/ SysClose(w)
         \/ \E m \in Manager : OnReady(m)
         \/ Tick \/ Second
  PROVE  UNCHANGED Span!vars
<1>1. UNCHANGED <<active_map, wid_index, cur_tag_id, mpc, mworld, ppc, pworld,
                  aborted>>
  BY DEF PlayerQuitMap, SysClose, OnReady, Tick, Second, cluster, master, role
<1>2. \A m \in Manager : state'[m] = "CLOSING" <=> state[m] = "CLOSING"
  BY DEF PlayerQuitMap, SysClose, OnReady, Tick, HeartbeatTick, Release, Second,
         IInv, TypeOK
<1>3. \A v \in active_map : wid_index[v] \in Manager
  BY DEF IInv, IndexExact, TypeOK
<1>4. QED
  BY <1>1, <1>2, <1>3, Steady

\* OnClose and OnRemove meet only worlds that can be found.
LEMMA ActiveFound ==
  ASSUME IInv, NEW m \in Manager, m \in actived, OnClose(m) \/ OnRemove(m)
  PROVE  /\ wid[m] \in Wid /\ wid[m] \in active_map /\ wid_index[wid[m]] = m
         /\ ~(mpc \in New /\ mworld = wid[m])
<1>1. ~(mpc \in New /\ mworld = wid[m])
  BY DEF IInv, NewInv, OnClose, OnRemove, TypeOK
<1>2. wid[m] \in active_map /\ wid_index[wid[m]] = m
  BY <1>1 DEF IInv, LifeInv, OnClose, OnRemove
<1>3. QED
  BY <1>1, <1>2 DEF IInv, TypeOK

\* OnClose is Close.
LEMMA OnCloseSpan ==
  ASSUME IInv, ~aborted, NEW m \in Manager, m \in actived, OnClose(m)
  PROVE  Span!Next
<1> PICK w \in Wid : w = wid[m]
  BY ActiveFound
<1>1. /\ state[m] = "RUNNING" /\ state' = [state EXCEPT ![m] = "CLOSING"]
      /\ UNCHANGED <<active_map, wid_index, cur_tag_id, mpc, mworld, ppc,
                     pworld, aborted>>
  BY DEF OnClose, cluster, master, role
<1>2. w \in Wid /\ w \in active_map /\ wid_index[w] = m
  BY ActiveFound
<1>3. SpanOf(w) = "open"
  BY <1>1, <1>2 DEF SpanOf
<1>4. SpanOf(w)' = "closing"
  BY <1>1, <1>2 DEF SpanOf, IInv, TypeOK
<1>5. \A v \in Wid : v # w => SpanOf(v)' = SpanOf(v)
  <2>1. \A v \in active_map : v # w => wid_index[v] # m /\ wid_index[v] \in Manager
    BY DEF IInv, IndexExact, TypeOK
  <2>2. \A v \in active_map : v # w => state'[wid_index[v]] = state[wid_index[v]]
    BY <1>1, <2>1 DEF IInv, TypeOK
  <2>3. QED
    BY <1>1, <2>2 DEF SpanOf
<1>6. QED
  BY <1>1, <1>2, <1>3, <1>4, <1>5, InsideSteady, Closes

\* OnRemove is Remove.
LEMMA OnRemoveSpan ==
  ASSUME IInv, ~aborted, NEW m \in Manager, m \in actived, OnRemove(m)
  PROVE  Span!Next
<1> PICK w \in Wid : w = wid[m]
  BY ActiveFound
<1>1. /\ state[m] = "CLOSING" /\ state' = [state EXCEPT ![m] = "INVALID"]
      /\ active_map' = active_map \ {w}
      /\ wid_index' = [wid_index EXCEPT ![w] = None]
      /\ UNCHANGED <<cur_tag_id, mpc, mworld, ppc, pworld, aborted>>
  BY DEF OnRemove, master, role
<1>2. /\ w \in Wid /\ w \in active_map /\ wid_index[w] = m
      /\ ~(mpc \in New /\ mworld = w)
  BY ActiveFound
<1>3. SpanOf(w) = "closing"
  BY <1>1, <1>2 DEF SpanOf
<1>4. SpanOf(w)' = "gone"
  <2>1. ~(w[2] > cur_tag_id[w[1]])
    BY <1>2 DEF IInv, TagInv
  <2>2. QED
    BY <1>1, <1>2, <2>1 DEF SpanOf, New
<1>5. \A v \in Wid : v # w => SpanOf(v)' = SpanOf(v)
  <2>1. \A v \in active_map : v # w => wid_index[v] # m /\ wid_index[v] \in Manager
    BY DEF IInv, IndexExact, TypeOK
  <2>2. \A v \in active_map : v # w => /\ wid_index'[v] = wid_index[v]
                                       /\ state'[wid_index[v]] = state[wid_index[v]]
    BY <1>1, <2>1 DEF IInv, TypeOK
  <2>3. QED
    BY <1>1, <2>2 DEF SpanOf
<1>6. InsideOf(w)' = {} /\ \A v \in Wid : v # w => InsideOf(v)' = InsideOf(v)
  <2>1. \A v \in Wid : Counted(v)' = Counted(v)
    BY <1>1 DEF Counted
  <2>2. QED
    BY <1>1, <2>1 DEF InsideOf
<1>7. QED
  BY <1>1, <1>2, <1>3, <1>4, <1>5, <1>6, Removes

\* Every step is a step of WorldSpan or shows nothing.
LEMMA NextSpan ==
  ASSUME IInv, [Next]_vars
  PROVE  Span!Next \/ UNCHANGED Span!vars
<1>1. ASSUME ~aborted, Run
      PROVE  Span!Next \/ UNCHANGED Span!vars
  <2>1. ASSUME NEW p \in Player, NEW k \in Kind, NEW m \in Manager,
               CreateWorldMan(p, k, m)
        PROVE  UNCHANGED Span!vars
    BY <2>1, CreateWorldManSpan
  <2>2. CASE Register
    BY <1>1, <2>2, RegisterSpan
  <2>3. CASE \/ \E m \in Manager : \/ InsertIndex(m) \/ SetActive(m)
                                   \/ CheckForbid(m) \/ InsertRefused(m)
             \/ \E p \in Player, w \in Wid : EnterExisting(p, w)
             \/ FindWorld
    BY <2>3, MasterSpan
  <2>4. ASSUME NEW m \in Manager, InsertPlayer(m)
        PROVE  Span!Next \/ UNCHANGED Span!vars
    BY <1>1, <2>4, InsertPlayerSpan
  <2>5. ASSUME NEW p \in Player,
               \/ QuitMap(p) \/ PlayerLogout(p) \/ LogoutTask(p)
               \/ \E m \in Manager : RemovePlayer(p, m)
        PROVE  UNCHANGED Span!vars
    BY <2>5, PlayerSpan
  <2>6. ASSUME NEW p \in Player, NEW w \in Wid, WorldClosing(p, w)
        PROVE  Span!Next \/ UNCHANGED Span!vars
    BY <1>1, <2>6, WorldClosingSpan
  <2>7. ASSUME NEW p \in Player, NEW m \in Manager, LeaveMap(p, m)
        PROVE  Span!Next \/ UNCHANGED Span!vars
    BY <1>1, <2>7, LeaveMapSpan
  <2>8. CASE \/ \E w \in Wid : PlayerQuitMap(w) \/ SysClose(w)
             \/ \E m \in Manager : OnReady(m)
             \/ Tick \/ Second
    BY <2>8, ThreadZeroSpan
  <2>9. ASSUME NEW m \in Manager, m \in actived, OnClose(m) \/ OnRemove(m)
        PROVE  Span!Next
    BY <1>1, <2>9, OnCloseSpan, OnRemoveSpan
  <2>10. QED
    BY <1>1, <2>1, <2>2, <2>3, <2>4, <2>5, <2>6, <2>7, <2>8, <2>9
       DEF Run, Heartbeat
<1>2. ASSUME UNCHANGED vars
      PROVE  UNCHANGED Span!vars
  <2>1. UNCHANGED <<active_map, wid_index, state, cur_tag_id, mpc, mworld, ppc,
                    pworld, aborted>>
    BY <1>2 DEF vars, manager, imp, cluster, master, role
  <2>2. QED
    BY <2>1, Steady
<1>3. QED
  BY <1>1, <1>2 DEF Next, Stopped

\* The clusters implement the safety part of WorldSpan: a world id opens,
\* closes and goes once, players are inside one world at a time and only in
\* between, and there are never more worlds than managers.
THEOREM SpanImplemented == Spec => Span!Init /\ [][Span!Next]_(Span!vars)
<1>1. Init => Span!Init
  <2>1. ASSUME Init, NEW v \in Wid
        PROVE  SpanOf(v) = "none" /\ InsideOf(v) = {}
    BY <2>1, WidFacts DEF Init, SpanOf, InsideOf
  <2>2. QED
    BY <2>1 DEF Span!Init, Init
<1>2. IInv /\ [Next]_vars => [Span!Next]_(Span!vars)
  BY NextSpan
<1>3. QED
  BY <1>1, <1>2, Inductive, PTL DEF Spec
=============================================================================
