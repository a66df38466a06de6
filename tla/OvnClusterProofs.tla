-------------------------- MODULE OvnClusterProofs ---------------------------
(***************************************************************************)
(* Type correctness of OvnCluster, and that the databases of its units     *)
(* form one cluster that everyone knows: OvnClusterForms.                  *)
(***************************************************************************)
EXTENDS OvnCluster, FiniteSetTheorems, TLAPS

-----------------------------------------------------------------------------
(* Types.                                                                  *)

LEMMA Names ==
    /\ Uncreated \notin OvnUnits /\ Joining \notin OvnUnits /\ Joining # Uncreated
    /\ "changed" \notin OvnUnits
    /\ "nb" \in Databases /\ "sb" \in Databases
BY OvnAssumption DEF Uncreated, Joining, Databases

\* A fault is counted.
LEMMA FaultCounts ==
    ASSUME OvnTypeOK, NEW k, OvnFault(k)
    PROVE  ovnFaults' \in 0 .. MaxOvnFaults /\ ovnFaults' = ovnFaults + 1
BY OvnAssumption DEF OvnFault, OvnTypeOK

\* What the types rest on: pods are counted with the faults, and the client has
\* heard of units of the application only.
TypeInv ==
    /\ OvnTypeOK
    /\ \A u \in OvnUnits : address[u] <= ovnFaults + 1
    /\ clientDue \cap OvnUnits \subseteq members

LEMMA InitType == OvnInit => TypeInv
<1> SUFFICES ASSUME OvnInit PROVE TypeInv
  OBVIOUS
<1>1. members \subseteq OvnUnits /\ oleader \in members
  BY OvnAssumption DEF OvnInit
<1>2. /\ ojoins \in [OvnUnits -> SUBSET OvnUnits]
      /\ odue \in [OvnUnits -> BOOLEAN]
  BY <1>1 DEF OvnInit
<1>3. /\ db \in [OvnUnits -> [Databases -> ClusterIds \cup {Joining}]]
      /\ cid \in [Databases -> ClusterIds]
      /\ raft \in [Databases -> [OvnUnits -> OvnUnits]]
  BY DEF OvnInit, ClusterIds
<1>4. /\ conn \in [Databases -> [OvnUnits -> 0 .. MaxProbe]]
      /\ probe \in 1 .. MaxProbe /\ ovnFaults \in 0 .. MaxOvnFaults
      /\ address \in [OvnUnits -> 1 .. MaxOvnFaults + 1]
      /\ posts \in [OvnUnits -> 0 .. MaxOvnFaults + 1]
      /\ strings \in [OvnUnits -> 0 .. MaxOvnFaults + 1]
      /\ \A u \in OvnUnits : address[u] <= ovnFaults + 1
  BY OvnAssumption DEF OvnInit
<1>5. /\ clientDue \subseteq OvnUnits \cup {"changed"} /\ clientDue \cap OvnUnits \subseteq members
      /\ clientSees \subseteq members
  BY <1>1 DEF OvnInit
<1>6. /\ ostage \in [OvnUnits -> {"idle", "app"}]
      /\ seen \in [OvnUnits -> SUBSET OvnUnits] /\ posted \subseteq members
      /\ creates \in [OvnUnits -> BOOLEAN] /\ known \in [OvnUnits -> SUBSET OvnUnits]
      /\ served \in [OvnUnits -> BOOLEAN] /\ northd \in [OvnUnits -> SUBSET OvnUnits]
      /\ oready \in BOOLEAN /\ halted \subseteq members
      /\ {strayed, unheard, moved} \subseteq BOOLEAN /\ ovnplan \in OvnPlans
  BY DEF OvnInit
<1> QED
  BY <1>1, <1>2, <1>3, <1>4, <1>5, <1>6 DEF TypeInv, OvnTypeOK

LEMMA SetUnitDataType ==
    ASSUME TypeInv, NEW u \in OvnUnits, UpdateAddressData(u)
    PROVE  /\ posts' \in [OvnUnits -> 0 .. MaxOvnFaults + 1]
           /\ clientDue' \subseteq OvnUnits \cup {"changed"}
           /\ clientDue' \cap OvnUnits \subseteq members
<1>1. address[u] \in 0 .. MaxOvnFaults + 1
  BY OvnAssumption DEF TypeInv, OvnTypeOK
<1> QED
  BY <1>1, Names DEF UpdateAddressData, SetUnitData, TypeInv, OvnTypeOK

LEMMA PeersJoinedType ==
    ASSUME TypeInv, NEW u \in members, PeersJoined(u)
    PROVE  TypeInv'
<1>1. u \in OvnUnits
  BY DEF TypeInv, OvnTypeOK
<1>2. PICK v \in ojoins[u] :
         /\ ojoins' = [ojoins EXCEPT ![u] = @ \ {v}]
         /\ seen' = [seen EXCEPT ![u] = @ \cup {v}]
         /\ posted' = posted \cup {u}
         /\ odue' = [w \in OvnUnits |-> \/ odue[w] \/ w = u
                                        \/ posted' # posted /\ u \in seen[w]]
  BY DEF PeersJoined, PublishClusterLocalHostname
<1>3. /\ ojoins' \in [OvnUnits -> SUBSET OvnUnits] /\ seen' \in [OvnUnits -> SUBSET OvnUnits]
      /\ posted' \subseteq members
      /\ odue' \in [OvnUnits -> BOOLEAN]
  BY <1>1, <1>2 DEF TypeInv, OvnTypeOK
<1> QED
  BY <1>1, <1>3, SetUnitDataType
     DEF PeersJoined, TypeInv, OvnTypeOK, worldVars, clientVars

LEMMA ConfigureUnitType ==
    ASSUME TypeInv, NEW u \in members, OvnConfigureUnit(u)
    PROVE  TypeInv'
<1>1. u \in OvnUnits
  BY DEF TypeInv, OvnTypeOK
<1>2. /\ odue' \in [OvnUnits -> BOOLEAN]
      /\ ostage' \in [OvnUnits -> {"idle", "app"}]
      /\ known' \in [OvnUnits -> SUBSET OvnUnits]
      /\ creates' \in [OvnUnits -> BOOLEAN]
  <2>1. odue' \in [OvnUnits -> BOOLEAN] /\ ostage' \in [OvnUnits -> {"idle", "app"}]
    BY <1>1 DEF OvnConfigureUnit, TypeInv, OvnTypeOK
  <2>2. known' \in [OvnUnits -> SUBSET OvnUnits]
    <3>1. UNCHANGED known \/ known' = [known EXCEPT ![u] = seen[u] \cap posted]
      BY DEF OvnConfigureUnit, OvnInitService
    <3>2. seen[u] \cap posted \in SUBSET OvnUnits /\ known \in [OvnUnits -> SUBSET OvnUnits]
      BY <1>1 DEF TypeInv, OvnTypeOK
    <3> QED
      BY <1>1, <3>1, <3>2
  <2>3. creates' \in [OvnUnits -> BOOLEAN]
    <3> DEFINE b == u = oleader \/ known'[u] = {}
    <3>1. b \in BOOLEAN
      OBVIOUS
    <3>2. UNCHANGED creates \/ creates' = [creates EXCEPT ![u] = b]
      BY DEF OvnConfigureUnit, OvnInitService
    <3> HIDE DEF b
    <3> QED
      BY <1>1, <3>1, <3>2 DEF TypeInv, OvnTypeOK
  <2> QED
    BY <2>1, <2>2, <2>3
<1> QED
  BY <1>1, <1>2, SetUnitDataType
     DEF OvnConfigureUnit, TypeInv, OvnTypeOK, worldVars, peerVars, clientVars

\* Files and listeners after the second half of a hook
LEMMA OvnStartedType ==
    ASSUME OvnTypeOK, NEW u \in OvnUnits,
           NEW f \in [Databases -> ClusterIds \cup {Joining}]
    PROVE  OvnStarted(u, f) \in [Databases -> ClusterIds \cup {Joining}]
BY DEF OvnStarted, ClusterIds

LEMMA ConfigureOvnType ==
    ASSUME OvnTypeOK, NEW u, ConfigureOvn(u)
    PROVE  conn' \in [Databases -> [OvnUnits -> 0 .. MaxProbe]]
<1>1. probe \in 0 .. MaxProbe
  BY DEF OvnTypeOK
<1>2. \A d \in Databases, c \in OvnUnits : ConfigureOvnListener(u, d, c) \in 0 .. MaxProbe
  BY <1>1 DEF ConfigureOvnListener, OvnTypeOK
<1> QED
  BY <1>2 DEF ConfigureOvn

LEMMA StartNorthdType ==
    ASSUME OvnTypeOK, NEW u \in OvnUnits, StartNorthd(u)
    PROVE  northd' \in [OvnUnits -> SUBSET OvnUnits]
BY DEF StartNorthd, ClusterConnectionStrs, OvnTypeOK

LEMMA ConfigureAppType ==
    ASSUME TypeInv, NEW u \in members, OvnConfigureApp(u)
    PROVE  TypeInv'
<1>0. u \in OvnUnits /\ OvnTypeOK
  BY DEF TypeInv, OvnTypeOK
<1>1. /\ ostage' \in [OvnUnits -> {"idle", "app"}]
      /\ UNCHANGED <<ovnplan, members, oleader, probe, address, strayed, unheard, moved,
                     ojoins, seen, posted, creates, known, raft, posts, clientDue,
                     clientSees, strings>>
  BY <1>0 DEF OvnConfigureApp, OvnTypeOK, worldVars, peerVars, clientVars
<1>2. db' \in [OvnUnits -> [Databases -> ClusterIds \cup {Joining}]]
  <2>1. /\ OvnStarted(u, db[u]) \in [Databases -> ClusterIds \cup {Joining}]
        /\ JoinsCluster(u) \in [Databases -> ClusterIds \cup {Joining}]
        /\ OvnStarted(u, JoinsCluster(u)) \in [Databases -> ClusterIds \cup {Joining}]
    <3>1. db[u] \in [Databases -> ClusterIds \cup {Joining}]
      BY <1>0 DEF OvnTypeOK
    <3>2. JoinsCluster(u) \in [Databases -> ClusterIds \cup {Joining}]
      BY <3>1 DEF JoinsCluster
    <3> QED
      BY <1>0, <3>1, <3>2, OvnStartedType
  <2>2. \/ UNCHANGED db
        \/ db' = [db EXCEPT ![u] = OvnStarted(u, db[u])]
        \/ db' = [db EXCEPT ![u] = OvnStarted(u, JoinsCluster(u))]
        \/ db' = [db EXCEPT ![u]["nb"] = JoinsCluster(u)["nb"]]
    BY DEF OvnConfigureApp, ConfigureAppLeader, ConfigureAppNonLeader
  <2>3. ASSUME db' = [db EXCEPT ![u]["nb"] = JoinsCluster(u)["nb"]]
        PROVE  db' \in [OvnUnits -> [Databases -> ClusterIds \cup {Joining}]]
    <3>1. JoinsCluster(u)["nb"] \in ClusterIds \cup {Joining}
      BY <2>1, Names
    <3>2. [db[u] EXCEPT !["nb"] = JoinsCluster(u)["nb"]] \in [Databases -> ClusterIds \cup {Joining}]
      BY <1>0, <3>1 DEF OvnTypeOK
    <3> QED
      BY <1>0, <2>3, <3>2 DEF OvnTypeOK
  <2>4. db \in [OvnUnits -> [Databases -> ClusterIds \cup {Joining}]]
    BY <1>0 DEF OvnTypeOK
  <2>5. ASSUME NEW f \in [Databases -> ClusterIds \cup {Joining}], db' = [db EXCEPT ![u] = f]
        PROVE  db' \in [OvnUnits -> [Databases -> ClusterIds \cup {Joining}]]
    BY <2>4, <2>5
  <2> QED
    BY <2>1, <2>2, <2>3, <2>4, <2>5
<1>3. /\ served' \in [OvnUnits -> BOOLEAN]
      /\ conn' \in [Databases -> [OvnUnits -> 0 .. MaxProbe]]
      /\ northd' \in [OvnUnits -> SUBSET OvnUnits]
  <2>1. served' \in [OvnUnits -> BOOLEAN]
    BY <1>0 DEF OvnConfigureApp, ConfigureAppLeader, ConfigureAppNonLeader, OvnTypeOK
  <2>2. ConfigureOvn(u) \/ UNCHANGED conn
    BY DEF OvnConfigureApp, ConfigureAppLeader, ConfigureAppNonLeader
  <2>3. StartNorthd(u) \/ UNCHANGED northd
    BY DEF OvnConfigureApp, ConfigureAppLeader, ConfigureAppNonLeader, Halts
  <2> QED
    BY <1>0, <2>1, <2>2, <2>3, ConfigureOvnType, StartNorthdType DEF OvnTypeOK
<1>4. /\ oready' \in BOOLEAN /\ cid' \in [Databases -> ClusterIds]
      /\ odue' \in [OvnUnits -> BOOLEAN] /\ halted' \subseteq members
  <2> DEFINE ids == [d \in Databases |-> ClusterStatus(u, d)]
  <2>0. ids \in [Databases -> ClusterIds]
    <3>1. \A d \in Databases : db'[u][d] \in ClusterIds \cup {Joining}
      BY <1>0, <1>2
    <3> QED
      BY <3>1 DEF ClusterStatus, ClusterIds
  <2>1. \/ UNCHANGED <<oready, cid>>
        \/ oready' = TRUE /\ cid' \in {cid, ids}
    BY DEF OvnConfigureApp, ConfigureAppLeader, ConfigureAppNonLeader, Halts, Announces
  <2>2. oready' \in BOOLEAN /\ cid' \in [Databases -> ClusterIds]
    BY <1>0, <2>0, <2>1 DEF OvnTypeOK
  <2>3. odue' \in [OvnUnits -> BOOLEAN]
    <3>1. \/ \E i : Announces(u, i)
          \/ UNCHANGED odue \/ odue' = [odue EXCEPT ![u] = TRUE]
      BY DEF OvnConfigureApp, ConfigureAppLeader, ConfigureAppNonLeader
    <3> QED
      BY <1>0, <3>1 DEF Announces, OvnTypeOK
  <2>4. halted' \subseteq members
    BY <1>0 DEF OvnConfigureApp, ConfigureAppLeader, ConfigureAppNonLeader, Halts, OvnTypeOK
  <2> QED
    BY <2>2, <2>3, <2>4
<1>5. ovnFaults' \in 0 .. MaxOvnFaults /\ ovnFaults' >= ovnFaults
  <2>1. UNCHANGED ovnFaults \/ \E k : OvnFault(k)
    BY DEF OvnConfigureApp, ConfigureAppLeader, ConfigureAppNonLeader
  <2> QED
    BY <1>0, <2>1, FaultCounts DEF OvnTypeOK
<1>6. \A w \in OvnUnits : address'[w] <= ovnFaults' + 1
  BY <1>0, <1>1, <1>5 DEF TypeInv, OvnTypeOK
<1> QED
  BY <1>0, <1>1, <1>2, <1>3, <1>4, <1>5, <1>6 DEF TypeInv, OvnTypeOK

LEMMA RaftJoinsType ==
    ASSUME TypeInv, NEW u \in members, NEW d \in Databases, RaftJoins(u, d)
    PROVE  TypeInv'
<1>1. u \in OvnUnits
  BY DEF TypeInv, OvnTypeOK
<1>2. PICK v \in members : db' = [db EXCEPT ![u][d] = db[v][d]]
  BY DEF RaftJoins
<1>3. db' \in [OvnUnits -> [Databases -> ClusterIds \cup {Joining}]]
  BY <1>1, <1>2 DEF TypeInv, OvnTypeOK
<1> QED
  BY <1>3 DEF RaftJoins, TypeInv, OvnTypeOK, worldVars, peerVars, clientVars

LEMMA ClientType ==
    ASSUME TypeInv, OvsdbCmsEvent
    PROVE  TypeInv'
<1>1. PICK e \in clientDue : /\ clientDue' = clientDue \ {e}
                             /\ clientSees' = clientSees \cup ({e} \cap OvnUnits)
  BY DEF OvsdbCmsEvent
<1>2. /\ clientDue' \subseteq OvnUnits \cup {"changed"} /\ clientDue' \cap OvnUnits \subseteq members
      /\ clientSees' \subseteq members
  BY <1>1 DEF TypeInv, OvnTypeOK
<1>3. strings' \in [OvnUnits -> 0 .. MaxOvnFaults + 1]
  BY OvnAssumption DEF OvsdbCmsEvent, OvsdbCmsChanged, RemoteAddrs, TypeInv, OvnTypeOK
<1> QED
  BY <1>2, <1>3 DEF OvsdbCmsEvent, TypeInv, OvnTypeOK, worldVars, peerVars

LEMMA WorldType ==
    ASSUME TypeInv,
           \/ OvnElects \/ RaftElects \/ ProbeChanges \/ OvnScales
           \/ \E u \in members : PodReplaced(u)
    PROVE  TypeInv'
<1>0. OvnTypeOK
  BY DEF TypeInv
<1>1. CASE OvnElects
  <2>1. ovnFaults' \in 0 .. MaxOvnFaults /\ ovnFaults' = ovnFaults + 1
    BY <1>0, <1>1, FaultCounts DEF OvnElects
  <2>2. /\ oleader' \in members /\ {strayed', unheard'} \subseteq BOOLEAN
    BY <1>0, <1>1 DEF OvnElects, OvnTypeOK
  <2>3. \A u \in OvnUnits : address[u] <= ovnFaults' + 1
    BY <1>0, <2>1 DEF TypeInv, OvnTypeOK
  <2> QED
    BY <1>1, <2>1, <2>2, <2>3 DEF OvnElects, TypeInv, OvnTypeOK, peerVars, clientVars
<1>2. CASE RaftElects
  <2>1. ovnFaults' \in 0 .. MaxOvnFaults /\ ovnFaults' = ovnFaults + 1
    BY <1>0, <1>2, FaultCounts DEF RaftElects
  <2>2. raft' \in [Databases -> [OvnUnits -> OvnUnits]]
    <3>1. PICK d \in Databases, u \in members : raft' = [raft EXCEPT ![d][db[u][d]] = u]
      BY <1>2 DEF RaftElects
    <3> QED
      BY <1>0, <3>1 DEF OvnTypeOK
  <2>3. \A u \in OvnUnits : address[u] <= ovnFaults' + 1
    BY <1>0, <2>1 DEF TypeInv, OvnTypeOK
  <2>4. moved' \in BOOLEAN
    BY <1>0, <1>2 DEF RaftElects, OvnTypeOK
  <2> QED
    BY <1>2, <2>1, <2>2, <2>3, <2>4 DEF RaftElects, TypeInv, OvnTypeOK, peerVars, clientVars
<1>3. CASE ProbeChanges
  <2>1. ovnFaults' \in 0 .. MaxOvnFaults /\ ovnFaults' = ovnFaults + 1
    BY <1>0, <1>3, FaultCounts DEF ProbeChanges
  <2>2. probe' \in 1 .. MaxProbe /\ odue' \in [OvnUnits -> BOOLEAN]
    BY <1>0, <1>3, OvnAssumption DEF ProbeChanges, OvnTypeOK
  <2>3. \A u \in OvnUnits : address[u] <= ovnFaults' + 1
    BY <1>0, <2>1 DEF TypeInv, OvnTypeOK
  <2> QED
    BY <1>3, <2>1, <2>2, <2>3 DEF ProbeChanges, TypeInv, OvnTypeOK, peerVars, clientVars
<1>4. CASE OvnScales
  <2>1. PICK u \in ovnplan.scale \ members :
           /\ members' = members \cup {u}
           /\ ojoins' = [w \in OvnUnits |->
                           CASE w = u -> members
                             [] w \in members -> ojoins[w] \cup {u}
                             [] OTHER -> {}]
           /\ odue' = [odue EXCEPT ![u] = TRUE]
           /\ clientDue' = IF ovnplan.client THEN clientDue \cup {u} ELSE {}
    BY <1>4 DEF OvnScales
  <2>2. u \in OvnUnits
    BY <1>0, <2>1, OvnAssumption DEF OvnTypeOK
  <2>3. /\ members' \subseteq OvnUnits /\ members \subseteq members'
        /\ odue' \in [OvnUnits -> BOOLEAN]
        /\ clientDue' \subseteq OvnUnits \cup {"changed"} /\ clientDue' \cap OvnUnits \subseteq members'
    BY <2>1, <2>2 DEF TypeInv, OvnTypeOK
  <2>4. ojoins' \in [OvnUnits -> SUBSET OvnUnits]
    <3> SUFFICES ASSUME NEW w \in OvnUnits
                 PROVE  (CASE w = u -> members
                           [] w \in members -> ojoins[w] \cup {u}
                           [] OTHER -> {}) \in SUBSET OvnUnits
      BY <2>1
    <3>1. CASE w = u
      BY <1>0, <3>1 DEF OvnTypeOK
    <3>2. CASE w # u
      BY <1>0, <2>2, <3>2 DEF OvnTypeOK
    <3> QED
      BY <3>1, <3>2
  <2> QED
    BY <1>4, <2>3, <2>4 DEF OvnScales, TypeInv, OvnTypeOK, clientVars
<1>5. ASSUME NEW u \in members, PodReplaced(u) PROVE TypeInv'
  <2>0. u \in OvnUnits
    BY <1>0 DEF OvnTypeOK
  <2>1. ovnFaults' \in 0 .. MaxOvnFaults /\ ovnFaults' = ovnFaults + 1
    BY <1>0, <1>5, FaultCounts DEF PodReplaced
  <2>2. address' = [address EXCEPT ![u] = @ + 1]
    BY <1>5 DEF PodReplaced
  <2>3. /\ address' \in [OvnUnits -> 1 .. MaxOvnFaults + 1]
        /\ \A w \in OvnUnits : address'[w] <= ovnFaults' + 1
    BY <1>0, <2>0, <2>1, <2>2, OvnAssumption DEF TypeInv, OvnTypeOK
  <2>4. /\ served' \in [OvnUnits -> BOOLEAN] /\ northd' \in [OvnUnits -> SUBSET OvnUnits]
        /\ odue' \in [OvnUnits -> BOOLEAN]
    BY <1>0, <1>5, <2>0 DEF PodReplaced, OvnTypeOK
  <2> QED
    BY <1>5, <2>1, <2>3, <2>4 DEF PodReplaced, TypeInv, OvnTypeOK, peerVars, clientVars
<1> QED
  BY <1>1, <1>2, <1>3, <1>4, <1>5

LEMMA StepType == TypeInv /\ [OvnNext]_ovnVars => TypeInv'
<1> SUFFICES ASSUME TypeInv, [OvnNext]_ovnVars PROVE TypeInv'
  OBVIOUS
<1>1. CASE UNCHANGED ovnVars
  BY <1>1 DEF ovnVars, TypeInv, OvnTypeOK
<1> QED
  BY <1>1, PeersJoinedType, ConfigureUnitType, ConfigureAppType, RaftJoinsType, ClientType,
     WorldType DEF OvnNext

LEMMA TypeAlways == OvnSpec => []TypeInv
BY InitType, StepType, PTL DEF OvnSpec

\* The types hold in every reachable state, for any units, plans and bounds.
THEOREM OvnTypeCorrect == OvnSpec => []OvnTypeOK
BY TypeAlways, PTL DEF TypeInv

-----------------------------------------------------------------------------
(* One cluster.  Only the leader creates one, and both databases at once;  *)
(* once there is a cluster the leader is a member of it, unless it strayed. *)

FilesInv ==
    /\ \A u \in OvnUnits \ members, d \in Databases : db[u][d] = Uncreated
    /\ ~ strayed =>
          /\ db[oleader]["nb"] = Uncreated <=> db[oleader]["sb"] = Uncreated
          /\ (\E v \in members, d \in Databases : db[v][d] \in OvnUnits) => OvnMember(oleader)
          /\ OneOvnCluster

\* The files of a unit after the second half of its hook.
LEMMA AppFiles ==
    ASSUME OvnTypeOK, NEW u \in OvnUnits, OvnConfigureApp(u)
    PROVE  /\ \A w \in OvnUnits : w # u => db'[w] = db[w]
           /\ \A d \in Databases : db[u][d] # Uncreated => db'[u][d] = db[u][d]
           /\ u = oleader => \A d \in Databases : db[u][d] = Uncreated =>
                                 db'[u][d] = (IF creates[u] THEN u ELSE Joining)
           /\ u # oleader => \A d \in Databases : db[u][d] = Uncreated =>
                                 db'[u][d] \in {Uncreated, Joining}
<1>1. CASE ConfigureAppLeader(u)
  BY <1>1 DEF ConfigureAppLeader, OvnStarted, OvnTypeOK
<1>2. CASE ConfigureAppNonLeader(u)
  <2>1. \/ UNCHANGED db
        \/ db' = [db EXCEPT ![u] = OvnStarted(u, JoinsCluster(u))]
        \/ db' = [db EXCEPT ![u]["nb"] = JoinsCluster(u)["nb"]]
    BY <1>2 DEF ConfigureAppNonLeader
  <2>2. u # oleader
    BY <1>2 DEF ConfigureAppNonLeader
  <2>3. \A d \in Databases : JoinsCluster(u)[d] = IF db[u][d] = Uncreated THEN Joining ELSE db[u][d]
    BY DEF JoinsCluster
  <2>4. CASE db' = [db EXCEPT ![u] = OvnStarted(u, JoinsCluster(u))]
    <3>1. \A d \in Databases : OvnStarted(u, JoinsCluster(u))[d] = JoinsCluster(u)[d]
      BY <2>3, Names DEF OvnStarted
    <3> QED
      BY <2>2, <2>3, <2>4, <3>1 DEF OvnTypeOK
  <2>5. CASE db' = [db EXCEPT ![u]["nb"] = JoinsCluster(u)["nb"]]
    BY <2>2, <2>3, <2>5, Names DEF OvnTypeOK
  <2> QED
    BY <2>1, <2>2, <2>4, <2>5
<1> QED
  BY <1>1, <1>2 DEF OvnConfigureApp

LEMMA ConfigureAppFiles ==
    ASSUME TypeInv, FilesInv, NEW u \in members, OvnConfigureApp(u)
    PROVE  FilesInv'
<1>0. OvnTypeOK /\ u \in OvnUnits /\ oleader \in members /\ members \subseteq OvnUnits
  BY DEF TypeInv, OvnTypeOK
<1>1. UNCHANGED <<members, oleader, strayed>>
  BY DEF OvnConfigureApp, worldVars
<1>2. \A w \in OvnUnits : w # u => db'[w] = db[w]
  BY <1>0, AppFiles
<1>3. \A w \in OvnUnits \ members, d \in Databases : db'[w][d] = Uncreated
  BY <1>2 DEF FilesInv
<1>4. CASE strayed
  BY <1>1, <1>3, <1>4 DEF FilesInv
<1>5. CASE ~ strayed /\ u = oleader /\ \E d \in Databases : db[u][d] = Uncreated
  <2>1. \A v \in members, d \in Databases : db[v][d] \notin OvnUnits /\ db[u][d] = Uncreated
    BY <1>5, Names DEF FilesInv, OvnMember, Databases
  <2>2. \A d \in Databases : db'[u][d] = (IF creates[u] THEN u ELSE Joining)
    BY <1>0, <1>5, <2>1, AppFiles
  <2>3. \A v \in members, d \in Databases : db'[v][d] \in OvnUnits => v = u /\ db'[v][d] = u /\ creates[u]
    BY <1>0, <1>2, <2>1, <2>2, Names
  <2>4. \A d \in Databases : db'[u][d] # Uncreated /\ (creates[u] => db'[u][d] \in OvnUnits)
    BY <1>0, <2>2, Names
  <2> QED
    BY <1>0, <1>1, <1>3, <1>5, <2>3, <2>4, Names DEF FilesInv, OvnMember, OneOvnCluster
<1>6. CASE ~ strayed /\ ~ (u = oleader /\ \E d \in Databases : db[u][d] = Uncreated)
  <2>1. \A v \in members, d \in Databases : db'[v][d] \in OvnUnits => db'[v][d] = db[v][d]
    BY <1>0, <1>2, <1>6, AppFiles, Names
  <2>2. \A d \in Databases : db'[oleader][d] = db[oleader][d]
    BY <1>0, <1>2, <1>6, AppFiles
  <2> QED
    BY <1>0, <1>1, <1>3, <1>6, <2>1, <2>2, Names DEF FilesInv, OvnMember, OneOvnCluster
<1> QED
  BY <1>4, <1>5, <1>6 DEF TypeInv, OvnTypeOK

LEMMA RaftJoinsFiles ==
    ASSUME TypeInv, FilesInv, NEW u \in members, NEW d \in Databases, RaftJoins(u, d)
    PROVE  FilesInv'
<1>0. OvnTypeOK /\ u \in OvnUnits /\ oleader \in members /\ members \subseteq OvnUnits
  BY DEF TypeInv, OvnTypeOK
<1>1. UNCHANGED <<members, oleader, strayed>>
  BY DEF RaftJoins, worldVars
<1>2. PICK v \in members : FindsMember(u, d, v) /\ db' = [db EXCEPT ![u][d] = db[v][d]]
  BY DEF RaftJoins
<1>3. db[u][d] = Joining /\ db[v][d] \in OvnUnits
  BY <1>2 DEF FindsMember
<1>4. \A w \in OvnUnits, e \in Databases :
         db'[w][e] = IF w = u /\ e = d THEN db[v][d] ELSE db[w][e]
  BY <1>0, <1>2 DEF OvnTypeOK
<1>5. \A w \in OvnUnits \ members, e \in Databases : db'[w][e] = Uncreated
  BY <1>4 DEF FilesInv
<1>6. CASE ~ strayed
  <2>1. OvnMember(oleader) /\ OneOvnCluster
    BY <1>3, <1>6 DEF FilesInv
  <2>2. u # oleader
    BY <1>3, <2>1, Names DEF OvnMember
  <2>3. OvnMember(oleader)'
    BY <1>0, <1>1, <1>4, <2>1, <2>2 DEF OvnMember
  <2>4. OneOvnCluster'
    <3> SUFFICES ASSUME NEW x \in members, NEW y \in members, NEW e \in Databases,
                        {db'[x][e], db'[y][e]} \subseteq OvnUnits
                 PROVE  db'[x][e] = db'[y][e]
      BY <1>1 DEF OneOvnCluster
    <3>1. \A a \in members, b \in members : {db[a][e], db[b][e]} \subseteq OvnUnits => db[a][e] = db[b][e]
      BY <1>6, <2>1 DEF OneOvnCluster
    <3> QED
      BY <1>0, <1>3, <1>4, <3>1
  <2>5. \A e \in Databases : db'[oleader][e] # Uncreated
    BY <1>1, <2>3, Names DEF OvnMember
  <2> QED
    BY <1>1, <1>5, <2>3, <2>4, <2>5, Names DEF FilesInv
<1> QED
  BY <1>1, <1>5, <1>6 DEF FilesInv

LEMMA ElectsFiles ==
    ASSUME TypeInv, FilesInv, OvnElects
    PROVE  FilesInv'
<1>1. PICK u \in members \ {oleader} :
         /\ oleader' = u
         /\ strayed' = (strayed \/ (ClusterExists /\ ~ OvnMember(u)))
  BY DEF OvnElects
<1>2. UNCHANGED <<members, db>>
  BY DEF OvnElects
<1>3. CASE strayed'
  BY <1>2, <1>3 DEF FilesInv
<1>4. CASE ~ strayed'
  <2>1. ~ strayed /\ (~ ClusterExists \/ OvnMember(u))
    BY <1>1, <1>4
  <2>2. OneOvnCluster'
    BY <1>2, <2>1 DEF FilesInv, OneOvnCluster
  <2>3. CASE OvnMember(u)
    <3>1. OvnMember(oleader)' /\ \A d \in Databases : db[u][d] # Uncreated
      BY <1>1, <1>2, <2>3, Names DEF OvnMember
    <3> QED
      BY <1>1, <1>2, <2>2, <3>1, Names DEF FilesInv
  <2>4. CASE ~ ClusterExists
    <3>1. \A v \in members, d \in Databases : db[v][d] = Uncreated
      BY <2>4 DEF ClusterExists
    <3> QED
      BY <1>1, <1>2, <2>2, <3>1, Names DEF FilesInv
  <2> QED
    BY <2>1, <2>3, <2>4
<1> QED
  BY <1>3, <1>4

LEMMA ScalesFiles ==
    ASSUME TypeInv, FilesInv, OvnScales
    PROVE  FilesInv'
<1>1. PICK u \in ovnplan.scale \ members : members' = members \cup {u}
  BY DEF OvnScales
<1>2. UNCHANGED <<oleader, strayed, db>>
  BY DEF OvnScales
<1>3. u \in OvnUnits
  BY <1>1, OvnAssumption DEF TypeInv, OvnTypeOK
<1>4. \A d \in Databases : db[u][d] = Uncreated
  BY <1>1, <1>3 DEF FilesInv
<1>5. \A v \in members', d \in Databases : db[v][d] \in OvnUnits => v \in members
  BY <1>1, <1>4, Names
<1> QED
  BY <1>1, <1>2, <1>5 DEF FilesInv, OneOvnCluster, OvnMember

LEMMA InitFiles == OvnInit => FilesInv
<1> SUFFICES ASSUME OvnInit PROVE FilesInv
  OBVIOUS
<1>1. \A u \in OvnUnits, d \in Databases : db[u][d] = Uncreated
  BY DEF OvnInit
<1>2. oleader \in members /\ members \subseteq OvnUnits
  BY InitType DEF TypeInv, OvnTypeOK
<1> QED
  BY <1>1, <1>2, Names DEF FilesInv, OneOvnCluster

LEMMA StepFiles == TypeInv /\ FilesInv /\ [OvnNext]_ovnVars => FilesInv'
<1> SUFFICES ASSUME TypeInv, FilesInv, [OvnNext]_ovnVars PROVE FilesInv'
  OBVIOUS
<1>1. ASSUME UNCHANGED <<members, oleader, strayed, db>> PROVE FilesInv'
  BY <1>1 DEF FilesInv, OneOvnCluster, OvnMember
<1>2. CASE UNCHANGED ovnVars
  BY <1>1, <1>2 DEF ovnVars
<1>3. ASSUME NEW u \in members, PeersJoined(u) \/ OvnConfigureUnit(u) \/ PodReplaced(u)
      PROVE  FilesInv'
  BY <1>1, <1>3 DEF PeersJoined, OvnConfigureUnit, PodReplaced, worldVars
<1>4. CASE OvsdbCmsEvent \/ RaftElects \/ ProbeChanges
  BY <1>1, <1>4 DEF OvsdbCmsEvent, RaftElects, ProbeChanges, worldVars
<1> QED
  BY <1>2, <1>3, <1>4, ConfigureAppFiles, RaftJoinsFiles, ElectsFiles, ScalesFiles DEF OvnNext

LEMMA FilesAlways == OvnSpec => []FilesInv
BY TypeAlways, InitFiles, StepFiles, PTL DEF OvnSpec

\* The files of the units belong to one cluster, as long as no unit led that was
\* not a member of it.
THEOREM OneOvnClusterHolds == OvnSpec => []OneOvnCluster
<1>1. FilesInv => OneOvnCluster
  BY DEF FilesInv, OneOvnCluster
<1> QED
  BY <1>1, FilesAlways, PTL

-----------------------------------------------------------------------------
(* Who has heard of whom, and of which address.                            *)

PeersInv ==
    /\ \A u \in members : seen[u] \cup ojoins[u] = members \ {u}
    /\ \A u \in OvnUnits \ members : seen[u] = {}
    /\ \A u \in members : seen[u] # {} => u \in posted

AddressInv ==
    /\ \A u \in members : odue[u] \/ posts[u] = address[u]
    /\ ovnplan.client => clientSees \cup (clientDue \cap OvnUnits) = members
    /\ ovnplan.client /\ "changed" \notin clientDue /\ RemoteReady(clientSees) =>
          strings = RemoteAddrs(clientSees)

\* No event is lost in the second half of a hook.
LEMMA AppQueues ==
    ASSUME OvnTypeOK, NEW u \in members, OvnConfigureApp(u), NEW w \in OvnUnits, odue[w]
    PROVE  odue'[w]
<1>1. \/ \E ids : Announces(u, ids)
      \/ UNCHANGED odue \/ odue' = [odue EXCEPT ![u] = TRUE]
  BY DEF OvnConfigureApp, ConfigureAppLeader, ConfigureAppNonLeader
<1>2. odue \in [OvnUnits -> BOOLEAN]
  BY DEF OvnTypeOK
<1>3. CASE \E ids : Announces(u, ids)
  BY <1>3 DEF Announces
<1> QED
  BY <1>1, <1>2, <1>3

\* The client hears of an address that is new.
LEMMA SetUnitDataAddress ==
    ASSUME TypeInv, AddressInv, NEW u \in members, UpdateAddressData(u),
           UNCHANGED <<ovnplan, members, address, clientSees, strings>>
    PROVE  /\ \A w \in members : posts'[w] = IF w = u THEN address[w] ELSE posts[w]
           /\ ovnplan'.client => clientSees' \cup (clientDue' \cap OvnUnits) = members'
           /\ (ovnplan.client /\ "changed" \notin clientDue /\ RemoteReady(clientSees) => strings = RemoteAddrs(clientSees))'
<1>0. OvnTypeOK /\ u \in OvnUnits /\ members \subseteq OvnUnits
  BY DEF TypeInv, OvnTypeOK
<1>1. /\ posts' = [posts EXCEPT ![u] = address[u]]
      /\ clientDue' = IF posts' # posts /\ u \in clientSees
                        THEN clientDue \cup {"changed"} ELSE clientDue
  BY DEF UpdateAddressData, SetUnitData
<1>2. \A w \in OvnUnits : posts'[w] = IF w = u THEN address[w] ELSE posts[w]
  BY <1>0, <1>1 DEF OvnTypeOK
<1>3. clientDue' \cap OvnUnits = clientDue \cap OvnUnits
  BY <1>1, Names
<1>4. ASSUME ovnplan.client, "changed" \notin clientDue', RemoteReady(clientSees)'
      PROVE  (strings = RemoteAddrs(clientSees))'
  <2>1. CASE posts' = posts
    BY <1>1, <1>4, <2>1 DEF AddressInv, RemoteReady, RemoteAddrs
  <2>2. CASE u \notin clientSees
    <3>1. clientSees \subseteq OvnUnits
      BY <1>0 DEF OvnTypeOK
    <3>2. \A w \in clientSees : posts'[w] = posts[w]
      BY <1>2, <2>2, <3>1
    <3>3. "changed" \notin clientDue /\ RemoteReady(clientSees)
      BY <1>1, <1>4, <2>2, <3>2 DEF RemoteReady
    <3>4. RemoteAddrs(clientSees)' = RemoteAddrs(clientSees)
      BY <3>2 DEF RemoteAddrs
    <3> QED
      BY <1>4, <3>3, <3>4 DEF AddressInv
  <2> QED
    BY <1>1, <1>4, <2>1, <2>2
<1> QED
  BY <1>0, <1>2, <1>3, <1>4 DEF AddressInv

LEMMA ClientAddress ==
    ASSUME TypeInv, AddressInv, OvsdbCmsEvent
    PROVE  AddressInv'
<1>1. PICK e \in clientDue : /\ clientDue' = clientDue \ {e}
                             /\ clientSees' = clientSees \cup ({e} \cap OvnUnits)
  BY DEF OvsdbCmsEvent
<1>2. UNCHANGED <<ovnplan, members, odue, posts, address>>
  BY DEF OvsdbCmsEvent, worldVars
<1>3. RemoteReady(clientSees') => strings' = RemoteAddrs(clientSees')
  BY DEF OvsdbCmsEvent, OvsdbCmsChanged
<1>4. (RemoteReady(clientSees) => strings = RemoteAddrs(clientSees))'
  BY <1>2, <1>3 DEF RemoteReady, RemoteAddrs
<1>5. clientSees' \cup (clientDue' \cap OvnUnits) = clientSees \cup (clientDue \cap OvnUnits)
  BY <1>1
<1> QED
  BY <1>2, <1>4, <1>5 DEF AddressInv

LEMMA InitPeersAddress == OvnInit => PeersInv /\ AddressInv
<1> SUFFICES ASSUME OvnInit PROVE PeersInv /\ AddressInv
  OBVIOUS
<1>1. members \subseteq OvnUnits
  BY InitType DEF TypeInv, OvnTypeOK
<1>2. PeersInv
  BY <1>1 DEF OvnInit, PeersInv
<1>3. /\ \A u \in members : odue[u]
      /\ ovnplan.client => clientSees \cup (clientDue \cap OvnUnits) = members
  BY <1>1 DEF OvnInit
<1>4. strings = RemoteAddrs(clientSees)
  BY DEF OvnInit, RemoteAddrs
<1> QED
  BY <1>2, <1>3, <1>4 DEF AddressInv

LEMMA PeersJoinedStep ==
    ASSUME TypeInv, PeersInv, AddressInv, NEW u \in members, PeersJoined(u)
    PROVE  PeersInv' /\ AddressInv'
<1>0. OvnTypeOK /\ u \in OvnUnits /\ members \subseteq OvnUnits
  BY DEF TypeInv, OvnTypeOK
<1>1. PICK v \in ojoins[u] :
         /\ ojoins' = [ojoins EXCEPT ![u] = @ \ {v}]
         /\ seen' = [seen EXCEPT ![u] = @ \cup {v}]
         /\ posted' = posted \cup {u}
         /\ odue' = [w \in OvnUnits |-> \/ odue[w] \/ w = u
                                        \/ posted' # posted /\ u \in seen[w]]
  BY DEF PeersJoined, PublishClusterLocalHostname
<1>2. UNCHANGED <<ovnplan, members, address, clientSees, strings>> /\ UpdateAddressData(u)
  BY DEF PeersJoined, worldVars, clientVars
<1>3. PeersInv'
  <2>1. \A w \in OvnUnits : /\ seen'[w] = IF w = u THEN seen[w] \cup {v} ELSE seen[w]
                            /\ ojoins'[w] = IF w = u THEN ojoins[w] \ {v} ELSE ojoins[w]
    BY <1>0, <1>1 DEF OvnTypeOK
  <2>2. seen'[u] \cup ojoins'[u] = seen[u] \cup ojoins[u]
    BY <1>0, <1>1, <2>1
  <2>3. \A w \in members : seen'[w] \cup ojoins'[w] = members \ {w}
    BY <1>0, <2>1, <2>2 DEF PeersInv
  <2>4. \A w \in members : seen'[w] # {} => w \in posted'
    BY <1>0, <1>1, <2>1 DEF PeersInv
  <2>5. \A w \in OvnUnits \ members : seen'[w] = {}
    BY <1>0, <2>1 DEF PeersInv
  <2> QED
    BY <1>2, <2>3, <2>4, <2>5 DEF PeersInv
<1>4. \A w \in members : odue'[w] \/ posts'[w] = address[w]
  BY <1>0, <1>1, <1>2, SetUnitDataAddress DEF AddressInv
<1> QED
  BY <1>2, <1>3, <1>4, SetUnitDataAddress DEF AddressInv

LEMMA ScalesStep ==
    ASSUME TypeInv, PeersInv, AddressInv, OvnScales
    PROVE  PeersInv' /\ AddressInv'
<1>0. OvnTypeOK /\ members \subseteq OvnUnits
  BY DEF TypeInv, OvnTypeOK
<1>1. PICK u \in ovnplan.scale \ members :
         /\ members' = members \cup {u}
         /\ ojoins' = [w \in OvnUnits |->
                         CASE w = u -> members
                           [] w \in members -> ojoins[w] \cup {u}
                           [] OTHER -> {}]
         /\ odue' = [odue EXCEPT ![u] = TRUE]
         /\ clientDue' = IF ovnplan.client THEN clientDue \cup {u} ELSE {}
  BY DEF OvnScales
<1>2. u \in OvnUnits /\ u \notin members
  BY <1>0, <1>1, OvnAssumption DEF OvnTypeOK
<1>3. UNCHANGED <<ovnplan, seen, posted, posts, address, clientSees, strings>>
  BY DEF OvnScales, clientVars
<1>4. PeersInv'
  <2>1. /\ ojoins'[u] = members
        /\ \A w \in members : ojoins'[w] = ojoins[w] \cup {u}
    BY <1>0, <1>1, <1>2
  <2>2. seen'[u] \cup ojoins'[u] = members' \ {u} /\ seen'[u] = {}
    BY <1>1, <1>2, <1>3, <2>1 DEF PeersInv
  <2>3. \A w \in members : seen'[w] \cup ojoins'[w] = members' \ {w}
    <3> TAKE w \in members
    <3>1. seen[w] \cup ojoins[w] = members \ {w}
      BY DEF PeersInv
    <3> QED
      BY <1>1, <1>2, <1>3, <2>1, <3>1
  <2>4. \A w \in members' : w \in members \/ w = u
    BY <1>1
  <2>5. \A w \in members' : seen'[w] \cup ojoins'[w] = members' \ {w}
    BY <2>2, <2>3, <2>4
  <2>6. \A w \in members' : seen'[w] # {} => w \in posted'
    BY <1>3, <2>2, <2>4 DEF PeersInv
  <2>7. \A w \in OvnUnits \ members' : seen'[w] = {}
    BY <1>1, <1>3 DEF PeersInv
  <2> QED
    BY <2>5, <2>6, <2>7 DEF PeersInv
<1>5. \A w \in members' : odue'[w] \/ posts'[w] = address'[w]
  BY <1>0, <1>1, <1>2, <1>3 DEF AddressInv, OvnTypeOK
<1>6. ovnplan'.client => clientSees' \cup (clientDue' \cap OvnUnits) = members'
  BY <1>1, <1>2, <1>3 DEF AddressInv
<1>7. (ovnplan.client /\ "changed" \notin clientDue /\ RemoteReady(clientSees) => strings = RemoteAddrs(clientSees))'
  <2>1. CASE ovnplan.client
    BY <1>1, <1>3, <2>1 DEF AddressInv, RemoteReady, RemoteAddrs
  <2>2. CASE ~ ovnplan.client
    BY <1>3, <2>2
  <2> QED
    BY <2>1, <2>2
<1> QED
  BY <1>4, <1>5, <1>6, <1>7 DEF AddressInv

LEMMA StepPeersAddress ==
    TypeInv /\ PeersInv /\ AddressInv /\ [OvnNext]_ovnVars => PeersInv' /\ AddressInv'
<1> SUFFICES ASSUME TypeInv, PeersInv, AddressInv, [OvnNext]_ovnVars
             PROVE  PeersInv' /\ AddressInv'
  OBVIOUS
<1>0. OvnTypeOK /\ members \subseteq OvnUnits
  BY DEF TypeInv, OvnTypeOK
<1>1. ASSUME UNCHANGED <<ovnplan, members, seen, ojoins, posted, posts, clientSees, clientDue, strings>>,
             \A w \in members : odue[w] => odue'[w],
             \A w \in members : odue'[w] \/ address'[w] = address[w]
      PROVE  PeersInv' /\ AddressInv'
  BY <1>1 DEF PeersInv, AddressInv, RemoteReady, RemoteAddrs
<1>2. CASE UNCHANGED ovnVars
  BY <1>1, <1>2 DEF ovnVars
<1>3. ASSUME NEW u \in members, OvnConfigureUnit(u)
      PROVE  PeersInv' /\ AddressInv'
  <2>1. /\ UNCHANGED <<ovnplan, members, address, clientSees, strings, seen, ojoins, posted>>
        /\ UpdateAddressData(u)
        /\ odue' = [odue EXCEPT ![u] = FALSE]
    BY <1>3 DEF OvnConfigureUnit, worldVars, clientVars, peerVars
  <2>2. \A w \in members : odue'[w] \/ posts'[w] = address[w]
    BY <1>0, <2>1, SetUnitDataAddress DEF AddressInv, OvnTypeOK
  <2> QED
    BY <2>1, <2>2, SetUnitDataAddress DEF PeersInv, AddressInv
<1>4. ASSUME NEW u \in members, OvnConfigureApp(u)
      PROVE  PeersInv' /\ AddressInv'
  <2>1. UNCHANGED <<ovnplan, members, seen, ojoins, posted, posts, clientSees, clientDue, strings, address>>
    BY <1>4 DEF OvnConfigureApp, worldVars, peerVars, clientVars
  <2> QED
    BY <1>0, <1>1, <1>4, <2>1, AppQueues
<1>5. ASSUME NEW u \in members, PodReplaced(u)
      PROVE  PeersInv' /\ AddressInv'
  <2>1. /\ UNCHANGED <<ovnplan, members, seen, ojoins, posted, posts, clientSees, clientDue, strings>>
        /\ odue' = [odue EXCEPT ![u] = TRUE]
        /\ address' = [address EXCEPT ![u] = @ + 1]
    BY <1>5 DEF PodReplaced, peerVars, clientVars
  <2>2. \A w \in members : (odue[w] => odue'[w]) /\ (odue'[w] \/ address'[w] = address[w])
    BY <1>0, <2>1 DEF OvnTypeOK
  <2> QED
    BY <1>1, <2>1, <2>2
<1>6. CASE ProbeChanges
  <2>1. /\ UNCHANGED <<ovnplan, members, seen, ojoins, posted, posts, clientSees, clientDue, strings, address>>
        /\ \A w \in members : odue'[w]
    BY <1>0, <1>6 DEF ProbeChanges, peerVars, clientVars
  <2> QED
    BY <1>1, <2>1
<1>7. ASSUME OvnElects \/ RaftElects \/ \E u \in members, d \in Databases : RaftJoins(u, d)
      PROVE  PeersInv' /\ AddressInv'
  <2>1. UNCHANGED <<ovnplan, members, seen, ojoins, posted, posts, clientSees, clientDue, strings, address, odue>>
    BY <1>7 DEF OvnElects, RaftElects, RaftJoins, worldVars, peerVars, clientVars
  <2> QED
    BY <1>1, <2>1
<1>8. CASE OvsdbCmsEvent
  <2>1. UNCHANGED <<members, seen, ojoins, posted>>
    BY <1>8 DEF OvsdbCmsEvent, worldVars, peerVars
  <2> QED
    BY <1>8, <2>1, ClientAddress DEF PeersInv
<1> QED
  BY <1>2, <1>3, <1>4, <1>5, <1>6, <1>7, <1>8, PeersJoinedStep, ScalesStep DEF OvnNext

LEMMA PeersAddressAlways == OvnSpec => [](PeersInv /\ AddressInv)
BY TypeAlways, InitPeersAddress, StepPeersAddress, PTL DEF OvnSpec

\* At rest the client uses the present address of each unit.
THEOREM ClientKnowsServersHolds == OvnSpec => []ClientKnowsServers
<1>1. TypeInv /\ AddressInv => ClientKnowsServers
  <2> SUFFICES ASSUME TypeInv, AddressInv, OvnAtRest, ovnplan.client, NEW u \in members
               PROVE  strings[u] = address[u]
    BY DEF ClientKnowsServers
  <2>1. clientSees = members
    BY DEF OvnAtRest, AddressInv
  <2>2. \A w \in members : posts[w] = address[w] /\ address[w] # 0
    BY DEF OvnAtRest, HookWaits, AddressInv, TypeInv, OvnTypeOK
  <2>3. strings = RemoteAddrs(members)
    BY <2>1, <2>2 DEF OvnAtRest, AddressInv, RemoteReady
  <2> QED
    BY <2>2, <2>3 DEF RemoteAddrs, TypeInv, OvnTypeOK
<1> QED
  BY <1>1, TypeAlways, PeersAddressAlways, PTL

-----------------------------------------------------------------------------
(* The announcement, and who is configured.                                *)

\* The units that u has heard of are all it has to hear of, and have published.
Complete(u) == ojoins[u] = {} /\ seen[u] \subseteq posted

\* The servers of u run, and its northd knows all servers in its files.
Configured(u) == /\ served[u] /\ northd[u] = {u} \cup known[u]
                 /\ \A d \in Databases : db[u][d] # Uncreated

ReadyInv ==
    /\ \/ unheard \/ oready \/ odue[oleader]
       \/ ostage[oleader] = "app" \/ oleader \in halted
    /\ oready /\ ~ strayed =>
          \A d \in Databases : cid[d] \in OvnUnits /\ \E v \in members : db[v][d] = cid[d]

\* A hook whose files have no remote address, or a cluster to join, is under
\* way; and the leader, unless one strayed, has a cluster or will create it.
LeadInv ==
    /\ \A u \in OvnUnits : ostage[u] = "app" => u \in members /\ (creates[u] \/ oready)
    /\ ~ strayed =>
          /\ \A d \in Databases : db[oleader][d] # Joining
          /\ ostage[oleader] = "app" => creates[oleader] \/ OvnMember(oleader)

\* A unit has done all it has to, and its last hook has not failed.
Settled(u) == oready /\ ostage[u] = "idle" /\ ~ odue[u] /\ Complete(u) /\ u \notin halted

\* The files of a unit without an event to come name everyone who has published.
KnowsInv ==
    \A u \in members :
        /\ ~ odue[u] /\ (oready \/ ostage[u] = "app") => known[u] = seen[u] \cap posted
        /\ Settled(u) => Configured(u)

\* The RAFT leader of a cluster is a member of it, or will be the first.
RaftLeads ==
    \A d \in Databases, c \in OvnUnits :
        \/ raft[d][c] = c /\ \A v \in OvnUnits : db[v][d] # c
        \/ db[raft[d][c]][d] = c

\* A RAFT leader that is settled has set the listeners to the probe of the option.
ListensInv ==
    /\ RaftLeads
    /\ ~ (moved \/ strayed) => \A d \in Databases : Settled(raft[d][cid[d]]) => conn[d][cid[d]] = probe

Inv == TypeInv /\ FilesInv /\ PeersInv /\ AddressInv /\ ReadyInv /\ LeadInv
         /\ KnowsInv /\ ListensInv

\* Whoever has heard of everyone goes on to join.
LEMMA CompleteIsExpected ==
    ASSUME TypeInv, PeersInv, NEW u \in members, Complete(u)
    PROVE  ExpectedPeersAvailable(u)
<1>1. IsFiniteSet(members)
  BY OvnAssumption, FS_Subset DEF TypeInv, OvnTypeOK
<1>2. seen[u] = members \ {u} /\ seen[u] \cap posted = members \ {u}
  BY DEF Complete, PeersInv
<1>3. Cardinality(members \ {u}) = Cardinality(members) - 1 /\ Cardinality(members) \in Nat
  BY <1>1, FS_RemoveElement, FS_CardinalityType
<1>4. Cardinality(seen[u]) = Cardinality(members \ {u})
  BY <1>2
<1>5. Cardinality(seen[u] \cap posted) = Cardinality(members \ {u})
  BY <1>2
<1> QED
  BY <1>3, <1>4, <1>5 DEF ExpectedPeersAvailable

\* Where no join waits everyone has published.
LEMMA AllComplete ==
    ASSUME PeersInv, \A w \in members : ojoins[w] = {}, NEW u \in members
    PROVE  Complete(u) /\ seen[u] = members \ {u} /\ seen[u] \cap posted = members \ {u}
<1>1. seen[u] = members \ {u}
  BY DEF PeersInv
<1>2. ASSUME NEW w \in seen[u] PROVE w \in posted
  <2>1. w \in members /\ u \in seen[w]
    BY <1>1, <1>2 DEF PeersInv
  <2> QED
    BY <2>1 DEF PeersInv
<1> QED
  BY <1>1, <1>2 DEF Complete

\* What the second half of a hook leaves: it has failed, or will be tried again,
\* or still waits for its peers, or is done.
AppDone(u) == /\ served'[u] /\ northd'[u] = {u} \cup known[u]
              /\ \A d \in Databases : db'[u][d] # Uncreated
              /\ ConfigureOvn(u)

LEMMA AppOutcomes ==
    ASSUME OvnTypeOK, NEW u \in OvnUnits, OvnConfigureApp(u)
    PROVE  \/ u \in halted'
           \/ odue'[u]
           \/ ~ ExpectedPeersAvailable(u)
           \/ AppDone(u)
<1>1. CASE ConfigureAppLeader(u)
  <2>1. \A d \in Databases : db'[u][d] # Uncreated
    BY <1>1, AppFiles, Names DEF ConfigureAppLeader
  <2>2. u \in halted' \/ odue'[u] \/ (ConfigureOvn(u) /\ StartNorthd(u))
    BY <1>1 DEF ConfigureAppLeader, Halts, OvnTypeOK
  <2>3. served'[u]
    BY <1>1 DEF ConfigureAppLeader, OvnTypeOK
  <2> QED
    BY <2>1, <2>2, <2>3 DEF AppDone, StartNorthd, ClusterConnectionStrs, OvnTypeOK
<1>2. CASE ConfigureAppNonLeader(u)
  <2>1. \/ u \in halted'
        \/ ~ ExpectedPeersAvailable(u)
        \/ /\ db' = [db EXCEPT ![u] = OvnStarted(u, JoinsCluster(u))]
           /\ served' = [served EXCEPT ![u] = TRUE]
           /\ ConfigureOvn(u) /\ StartNorthd(u)
    BY <1>2 DEF ConfigureAppNonLeader, Halts
  <2>2. \A d \in Databases : JoinsCluster(u)[d] # Uncreated
    BY Names DEF JoinsCluster
  <2>3. \A d \in Databases : OvnStarted(u, JoinsCluster(u))[d] # Uncreated
    BY <2>2 DEF OvnStarted
  <2> QED
    BY <2>1, <2>3 DEF AppDone, StartNorthd, ClusterConnectionStrs, OvnTypeOK
<1> QED
  BY <1>1, <1>2 DEF OvnConfigureApp

\* An announcement names the clusters that the servers of the leader belong to,
\* or the servers of the leader are joining, and it announces itself alone.
LEMMA AppAnnounces ==
    ASSUME OvnTypeOK, NEW u \in OvnUnits, OvnConfigureApp(u)
    PROVE  \/ UNCHANGED <<oready, cid>>
           \/ /\ oready' /\ AppDone(u) /\ \E ids : Announces(u, ids)
              /\ \A d \in Databases : cid'[d] \in OvnUnits /\ db'[u][d] = cid'[d]
           \/ /\ oready' /\ UNCHANGED cid /\ \E ids : Announces(u, ids)
              /\ u = oleader /\ \E d \in Databases : ClusterStatus(u, d) = Uncreated
<1>1. \/ UNCHANGED <<oready, cid>>
      \/ /\ ConfigureAppLeader(u) /\ ConfigureOvn(u) /\ StartNorthd(u)
         /\ Announces(u, [d \in Databases |-> ClusterStatus(u, d)])
         /\ \A d \in Databases : ClusterStatus(u, d) # Uncreated
      \/ /\ ConfigureAppLeader(u) /\ Announces(u, cid)
         /\ \E d \in Databases : ClusterStatus(u, d) = Uncreated
  BY DEF OvnConfigureApp, ConfigureAppLeader, ConfigureAppNonLeader, Halts
<1>2. CASE /\ ConfigureAppLeader(u) /\ ConfigureOvn(u) /\ StartNorthd(u)
           /\ Announces(u, [d \in Databases |-> ClusterStatus(u, d)])
           /\ \A d \in Databases : ClusterStatus(u, d) # Uncreated
  <2>1. db' = [db EXCEPT ![u] = OvnStarted(u, db[u])] /\ served'[u]
    BY <1>2 DEF ConfigureAppLeader, OvnTypeOK
  <2>2. \A d \in Databases : db[u][d] \in ClusterIds \cup {Joining}
    BY DEF OvnTypeOK
  <2>3. \A d \in Databases : db'[u][d] \in ClusterIds \cup {Joining}
    BY <2>1, <2>2 DEF OvnStarted, ClusterIds, OvnTypeOK
  <2>4. \A d \in Databases : ClusterStatus(u, d) \in OvnUnits /\ db'[u][d] = ClusterStatus(u, d)
    BY <1>2, <2>3, Names DEF ClusterStatus, ClusterIds
  <2>5. oready' /\ \A d \in Databases : cid'[d] = ClusterStatus(u, d)
    BY <1>2 DEF Announces
  <2>6. northd'[u] = {u} \cup known[u]
    BY <1>2 DEF StartNorthd, ClusterConnectionStrs, OvnTypeOK
  <2>7. AppDone(u)
    BY <1>2, <2>1, <2>4, <2>6, Names DEF AppDone
  <2> QED
    BY <1>2, <2>4, <2>5, <2>7
<1>3. CASE /\ ConfigureAppLeader(u) /\ Announces(u, cid)
           /\ \E d \in Databases : ClusterStatus(u, d) = Uncreated
  BY <1>3 DEF Announces, ConfigureAppLeader
<1> QED
  BY <1>1, <1>2, <1>3

\* Unless one strayed, the leader that starts its servers gets a cluster.
LEMMA LeaderHasCluster ==
    ASSUME OvnTypeOK, LeadInv, ~ strayed, oleader \in OvnUnits, OvnConfigureApp(oleader),
           NEW d \in Databases
    PROVE  db'[oleader][d] \in OvnUnits /\ ClusterStatus(oleader, d) # Uncreated
<1>1. db[oleader][d] \in ClusterIds /\ (creates[oleader] \/ OvnMember(oleader))
  BY DEF LeadInv, OvnConfigureApp, OvnTypeOK
<1>2. db'[oleader][d] \in OvnUnits
  <2>1. CASE db[oleader][d] = Uncreated
    <3>1. creates[oleader]
      BY <1>1, <2>1, Names DEF OvnMember
    <3> QED
      BY <2>1, <3>1, AppFiles
  <2>2. CASE db[oleader][d] # Uncreated
    BY <1>1, <2>2, AppFiles DEF ClusterIds
  <2> QED
    BY <2>1, <2>2
<1> QED
  BY <1>2, Names DEF ClusterStatus

\* News are an event at every other member.
LEMMA AnnouncedToAll ==
    ASSUME OvnTypeOK, NEW u \in members, NEW ids, Announces(u, ids), <<oready', cid'>> # <<oready, cid>>,
           NEW w \in members, ~ odue'[w]
    PROVE  w = u
<1>1. w \in OvnUnits
  BY DEF OvnTypeOK
<1>2. odue'[w] = (odue[w] \/ (<<oready', cid'>> # <<oready, cid>> /\ w \in members \ {u}))
  BY <1>1 DEF Announces
<1> QED
  BY <1>2

\* The second half of a hook changes nothing of another unit.
LEMMA AppOthers ==
    ASSUME OvnTypeOK, NEW u \in OvnUnits, OvnConfigureApp(u)
    PROVE  /\ UNCHANGED <<members, oleader, ojoins, seen, posted, known, raft, probe,
                          strayed, unheard, moved>>
           /\ ostage' = [ostage EXCEPT ![u] = "idle"] /\ ostage[u] = "app"
           /\ \A w \in OvnUnits \ {u} : /\ served'[w] = served[w] /\ northd'[w] = northd[w]
                                        /\ w \in halted' <=> w \in halted
           /\ ConfigureOvn(u) \/ UNCHANGED conn
<1>1. /\ served' = [served EXCEPT ![u] = TRUE] \/ UNCHANGED served
      /\ StartNorthd(u) \/ UNCHANGED northd
      /\ halted' \in {halted, halted \cup {u}, halted \ {u}}
      /\ ConfigureOvn(u) \/ UNCHANGED conn
  BY DEF OvnConfigureApp, ConfigureAppLeader, ConfigureAppNonLeader, Halts
<1>2. \A w \in OvnUnits \ {u} : /\ served'[w] = served[w] /\ northd'[w] = northd[w]
                                /\ w \in halted' <=> w \in halted
  BY <1>1 DEF StartNorthd, OvnTypeOK
<1> QED
  BY <1>1, <1>2 DEF OvnConfigureApp, worldVars, peerVars

\* A hook makes the listeners it may, with the probe of the option.
LEMMA ListenersStand ==
    ASSUME OvnTypeOK, NEW u, ConfigureOvn(u), NEW d \in Databases, NEW c \in OvnUnits
    PROVE  /\ conn[d][c] = probe => conn'[d][c] = probe
           /\ raft[d][c] = u /\ db'[u][d] = c => conn'[d][c] = probe
<1>1. conn'[d][c] = IF IsClusterLeader(u, d, c) THEN probe ELSE conn[d][c]
  BY DEF ConfigureOvn, ConfigureOvnListener
<1> QED
  BY <1>1, Names DEF IsClusterLeader, ClusterStatus

-----------------------------------------------------------------------------
(* The steps of these invariants.                                          *)

LEMMA InitRest == OvnInit => ReadyInv /\ LeadInv /\ KnowsInv /\ ListensInv
<1> SUFFICES ASSUME OvnInit PROVE ReadyInv /\ LeadInv /\ KnowsInv /\ ListensInv
  OBVIOUS
<1>1. members \subseteq OvnUnits /\ oleader \in members
  BY InitType DEF TypeInv, OvnTypeOK
<1>2. /\ \A u \in members : odue[u]
      /\ ~ oready
      /\ \A d \in Databases, c \in OvnUnits : raft[d][c] = c
      /\ \A d \in Databases, v \in OvnUnits : db[v][d] = Uncreated
      /\ \A u \in OvnUnits : ostage[u] = "idle"
  BY <1>1 DEF OvnInit
<1>3. LeadInv
  BY <1>1, <1>2, Names DEF LeadInv
<1> QED
  BY <1>1, <1>2, <1>3, Names DEF ReadyInv, KnowsInv, ListensInv, RaftLeads, Settled

\* Files that belong to a cluster go on to.
LEMMA FilesStand ==
    ASSUME TypeInv, [OvnNext]_ovnVars, NEW w \in OvnUnits, NEW e \in Databases
    PROVE  /\ db[w][e] \in OvnUnits => db'[w][e] = db[w][e]
           /\ db[w][e] # Uncreated => db'[w][e] # Uncreated
<1>0. OvnTypeOK /\ members \subseteq OvnUnits
  BY DEF TypeInv, OvnTypeOK
<1>1. CASE UNCHANGED db
  BY <1>1
<1>2. ASSUME NEW u \in members, OvnConfigureApp(u)
      PROVE  /\ db[w][e] \in OvnUnits => db'[w][e] = db[w][e]
             /\ db[w][e] # Uncreated => db'[w][e] # Uncreated
  BY <1>0, <1>2, AppFiles, Names
<1>3. ASSUME NEW u \in members, NEW d \in Databases, RaftJoins(u, d)
      PROVE  /\ db[w][e] \in OvnUnits => db'[w][e] = db[w][e]
             /\ db[w][e] # Uncreated => db'[w][e] # Uncreated
  <2>1. PICK v \in members : FindsMember(u, d, v) /\ db' = [db EXCEPT ![u][d] = db[v][d]]
    BY <1>3 DEF RaftJoins
  <2>2. db'[w][e] = IF w = u /\ e = d THEN db[v][d] ELSE db[w][e]
    BY <1>0, <2>1 DEF OvnTypeOK
  <2> QED
    BY <2>1, <2>2, Names DEF FindsMember
<1>4. \/ UNCHANGED db
      \/ \E u \in members : OvnConfigureApp(u)
      \/ \E u \in members, d \in Databases : RaftJoins(u, d)
  BY DEF OvnNext, ovnVars, PeersJoined, OvnConfigureUnit, PodReplaced, OvsdbCmsEvent, OvnElects,
     RaftElects, ProbeChanges, OvnScales
<1> QED
  BY <1>1, <1>2, <1>3, <1>4

\* A unit that strayed is not forgotten.
LEMMA StrayedStays == [OvnNext]_ovnVars /\ strayed => strayed'
BY DEF OvnNext, ovnVars, PeersJoined, OvnConfigureUnit, OvnConfigureApp, RaftJoins, PodReplaced,
   OvsdbCmsEvent, OvnElects, RaftElects, ProbeChanges, OvnScales, worldVars

LEMMA StepReady == Inv /\ [OvnNext]_ovnVars => ReadyInv'
<1> SUFFICES ASSUME Inv, [OvnNext]_ovnVars PROVE ReadyInv'
  OBVIOUS
<1>0. /\ OvnTypeOK /\ TypeInv /\ ReadyInv /\ LeadInv
      /\ oleader \in members /\ members \subseteq OvnUnits
      /\ members \subseteq members' /\ (strayed => strayed')
  <2>1. OvnTypeOK /\ TypeInv /\ ReadyInv /\ LeadInv
    BY DEF Inv, TypeInv
  <2>3. strayed => strayed'
    BY StrayedStays
  <2>2. members \subseteq members'
    BY DEF OvnNext, ovnVars, PeersJoined, OvnConfigureUnit, OvnConfigureApp, RaftJoins, PodReplaced,
       OvsdbCmsEvent, OvnElects, RaftElects, ProbeChanges, OvnScales, worldVars
  <2> QED
    BY <2>1, <2>2, <2>3 DEF OvnTypeOK
<1>1. ASSUME UNCHANGED <<oready, cid>>
      PROVE  (oready /\ ~ strayed => \A d \in Databases : cid[d] \in OvnUnits /\ \E v \in members : db[v][d] = cid[d])'
  BY <1>0, <1>1, FilesStand DEF ReadyInv
<1>2. ASSUME UNCHANGED <<oleader, ostage, halted, unheard, oready>>, odue[oleader] => odue'[oleader]
      PROVE  (\/ unheard \/ oready \/ odue[oleader]
              \/ ostage[oleader] = "app" \/ oleader \in halted)'
  BY <1>2, <1>0 DEF ReadyInv
<1>3. CASE UNCHANGED ovnVars
  BY <1>1, <1>2, <1>3 DEF ReadyInv, ovnVars
<1>4. ASSUME NEW u \in members, PeersJoined(u) PROVE ReadyInv'
  <2>1. UNCHANGED <<oleader, ostage, halted, unheard, oready, cid>>
    BY <1>4 DEF PeersJoined, worldVars
  <2>2. odue[oleader] => odue'[oleader]
    BY <1>0, <1>4 DEF PeersJoined
  <2> QED
    BY <1>1, <1>2, <2>1, <2>2 DEF ReadyInv
<1>5. ASSUME NEW u \in members, OvnConfigureUnit(u) PROVE ReadyInv'
  <2>1. UNCHANGED <<oleader, halted, unheard, oready, cid>>
    BY <1>5 DEF OvnConfigureUnit, worldVars
  <2>2. odue' = [odue EXCEPT ![u] = FALSE]
    BY <1>5 DEF OvnConfigureUnit
  <2>3. IF OvnLeaderReady(u) THEN ostage' = [ostage EXCEPT ![u] = "app"] ELSE UNCHANGED ostage
    BY <1>5 DEF OvnConfigureUnit
  <2>4. CASE u = oleader
    <3>1. ostage'[oleader] = "app"
      BY <1>0, <2>3, <2>4 DEF OvnLeaderReady, OvnTypeOK
    <3> QED
      BY <1>1, <2>1, <3>1 DEF ReadyInv
  <2>5. CASE u # oleader
    <3>1. odue'[oleader] = odue[oleader] /\ ostage'[oleader] = ostage[oleader]
      BY <1>0, <2>2, <2>3, <2>5 DEF OvnTypeOK
    <3> QED
      BY <1>0, <1>1, <2>1, <3>1 DEF ReadyInv
  <2> QED
    BY <2>4, <2>5
<1>6. ASSUME NEW u \in members, OvnConfigureApp(u) PROVE ReadyInv'
  <2>0. u \in OvnUnits /\ oleader \in OvnUnits
    BY <1>0
  <2>1. UNCHANGED <<oleader, unheard>> /\ ostage' = [ostage EXCEPT ![u] = "idle"]
    BY <1>0, <1>6, <2>0, AppOthers
  <2>2. (oready /\ ~ strayed =>
            \A d \in Databases : cid[d] \in OvnUnits /\ \E v \in members : db[v][d] = cid[d])'
    <3>1. CASE UNCHANGED <<oready, cid>>
      BY <1>1, <3>1
    <3>2. CASE \A d \in Databases : cid'[d] \in OvnUnits /\ db'[u][d] = cid'[d]
      BY <1>0, <3>2
    <3>3. CASE u = oleader /\ \E d \in Databases : ClusterStatus(u, d) = Uncreated
      <4>1. strayed
        BY <1>0, <1>6, <2>0, <3>3, LeaderHasCluster
      <4> QED
        BY <1>0, <4>1
    <3> QED
      BY <1>0, <1>6, <2>0, <3>1, <3>2, <3>3, AppAnnounces
  <2>3. CASE u = oleader
    <3>1. ConfigureAppLeader(u)
      BY <1>6, <2>3 DEF OvnConfigureApp, ConfigureAppNonLeader
    <3>2. oready' \/ u \in halted' \/ odue'[u]
      BY <1>0, <3>1 DEF ConfigureAppLeader, Halts, Announces, OvnTypeOK
    <3> QED
      BY <2>1, <2>2, <2>3, <3>2 DEF ReadyInv
  <2>4. CASE u # oleader
    <3>1. /\ ostage'[oleader] = ostage[oleader]
          /\ oleader \in halted' <=> oleader \in halted
      BY <1>0, <1>6, <2>0, <2>1, <2>4, AppOthers DEF OvnTypeOK
    <3>2. odue[oleader] => odue'[oleader]
      BY <1>0, <1>6, <2>0, AppQueues
    <3>3. oready => oready'
      BY <1>0, <1>6, <2>0, AppAnnounces
    <3> QED
      BY <1>0, <2>1, <2>2, <3>1, <3>2, <3>3 DEF ReadyInv
  <2> QED
    BY <2>3, <2>4
<1>7. CASE OvnElects
  <2>1. PICK u \in members \ {oleader} :
           oleader' = u /\ unheard' = (unheard \/ (~ oready /\ ~ odue[u]))
    BY <1>7 DEF OvnElects
  <2>2. UNCHANGED <<oready, cid, odue>>
    BY <1>7 DEF OvnElects
  <2> QED
    BY <1>1, <2>1, <2>2 DEF ReadyInv
<1>8. CASE OvnScales \/ ProbeChanges \/ \E u \in members : PodReplaced(u)
  <2>1. UNCHANGED <<oleader, ostage, halted, unheard, oready, cid>>
    BY <1>8 DEF OvnScales, ProbeChanges, PodReplaced
  <2>2. odue[oleader] => odue'[oleader]
    <3>1. \/ \E u : odue' = [odue EXCEPT ![u] = TRUE]
          \/ odue' = [u \in OvnUnits |-> odue[u] \/ u \in members]
      BY <1>8 DEF OvnScales, ProbeChanges, PodReplaced
    <3> QED
      BY <1>0, <3>1 DEF OvnTypeOK
  <2> QED
    BY <1>1, <1>2, <2>1, <2>2 DEF ReadyInv
<1>9. ASSUME \/ OvsdbCmsEvent \/ RaftElects
             \/ \E u \in members, d \in Databases : RaftJoins(u, d)
      PROVE  ReadyInv'
  <2>1. UNCHANGED <<oleader, ostage, halted, unheard, oready, cid, odue>>
    BY <1>9 DEF OvsdbCmsEvent, RaftElects, RaftJoins, worldVars
  <2> QED
    BY <1>1, <1>2, <2>1 DEF ReadyInv
<1> QED
  BY <1>3, <1>4, <1>5, <1>6, <1>7, <1>8, <1>9 DEF OvnNext

LEMMA StepLead == Inv /\ [OvnNext]_ovnVars => LeadInv'
<1> SUFFICES ASSUME Inv, [OvnNext]_ovnVars PROVE LeadInv'
  OBVIOUS
<1>0. /\ OvnTypeOK /\ ReadyInv /\ LeadInv /\ oleader \in members /\ members \subseteq OvnUnits
      /\ strayed => strayed'
  BY StrayedStays DEF Inv, TypeInv, OvnTypeOK
<1>1. ASSUME UNCHANGED <<members, oleader, ostage, creates, oready, db>> PROVE LeadInv'
  BY <1>0, <1>1 DEF LeadInv, OvnMember
<1>2. CASE UNCHANGED ovnVars
  BY <1>1, <1>2 DEF ovnVars
<1>3. ASSUME \/ OvsdbCmsEvent \/ RaftElects \/ ProbeChanges
             \/ \E u \in members : PeersJoined(u) \/ PodReplaced(u)
      PROVE  LeadInv'
  BY <1>1, <1>3
     DEF OvsdbCmsEvent, RaftElects, ProbeChanges, PeersJoined, PodReplaced, worldVars
<1>4. ASSUME NEW u \in members, OvnConfigureUnit(u) PROVE LeadInv'
  <2>1. UNCHANGED <<members, oleader, strayed, oready, db>>
    BY <1>4 DEF OvnConfigureUnit, worldVars
  <2>2. CASE OvnLeaderReady(u)
    <3>1. /\ ostage' = [ostage EXCEPT ![u] = "app"]
          /\ creates' = [creates EXCEPT ![u] = u = oleader \/ known'[u] = {}]
      BY <1>4, <2>2 DEF OvnConfigureUnit, OvnInitService
    <3>2. \A w \in OvnUnits \ {u} : ostage'[w] = ostage[w] /\ creates'[w] = creates[w]
      BY <1>0, <3>1 DEF OvnTypeOK
    <3>3. u = oleader => creates'[u]
      BY <1>0, <3>1 DEF OvnTypeOK
    <3>4. u = oleader \/ oready
      BY <2>2 DEF OvnLeaderReady
    <3> QED
      BY <1>0, <2>1, <3>2, <3>3, <3>4 DEF LeadInv, OvnMember
  <2>3. CASE ~ OvnLeaderReady(u)
    BY <1>1, <1>4, <2>1, <2>3 DEF OvnConfigureUnit
  <2> QED
    BY <2>2, <2>3
<1>5. ASSUME NEW u \in members, OvnConfigureApp(u) PROVE LeadInv'
  <2>0. u \in OvnUnits
    BY <1>0
  <2>1. UNCHANGED <<members, oleader, strayed, creates>> /\ ostage' = [ostage EXCEPT ![u] = "idle"]
    BY <1>5 DEF OvnConfigureApp, worldVars
  <2>2. oready => oready'
    BY <1>0, <1>5, <2>0, AppAnnounces
  <2>3. \A w \in OvnUnits \ {u} : ostage'[w] = ostage[w] /\ db'[w] = db[w]
    BY <1>0, <1>5, <2>0, <2>1, AppFiles DEF OvnTypeOK
  <2>4. ostage'[u] = "idle"
    BY <2>0, <2>1, <1>0 DEF OvnTypeOK
  <2>5. u = oleader /\ ~ strayed => \A d \in Databases : db'[u][d] # Joining
    BY <1>0, <1>5, <2>0, LeaderHasCluster, Names
  <2> QED
    BY <1>0, <2>1, <2>2, <2>3, <2>4, <2>5 DEF LeadInv, OvnMember
<1>6. ASSUME NEW u \in members, NEW e \in Databases, RaftJoins(u, e) PROVE LeadInv'
  <2>1. PICK v \in members : FindsMember(u, e, v) /\ db' = [db EXCEPT ![u][e] = db[v][e]]
    BY <1>6 DEF RaftJoins
  <2>2. UNCHANGED <<members, oleader, strayed, ostage, creates, oready>>
    BY <1>6 DEF RaftJoins, worldVars
  <2>3. ~ strayed => u # oleader
    BY <2>1 DEF FindsMember, LeadInv, Inv
  <2>4. u # oleader => db'[oleader] = db[oleader]
    BY <1>0, <2>1 DEF OvnTypeOK
  <2> QED
    BY <1>0, <2>2, <2>3, <2>4 DEF LeadInv, OvnMember
<1>7. CASE OvnElects
  <2>1. PICK u \in members \ {oleader} :
           oleader' = u /\ strayed' = (strayed \/ (ClusterExists /\ ~ OvnMember(u)))
    BY <1>7 DEF OvnElects
  <2>2. UNCHANGED <<members, ostage, creates, oready, db>>
    BY <1>7 DEF OvnElects
  <2>3. ASSUME ~ strayed'
        PROVE  /\ \A d \in Databases : db[u][d] # Joining
               /\ ostage[u] = "app" => creates[u] \/ OvnMember(u)
    <3>1. CASE OvnMember(u)
      BY <3>1, Names DEF OvnMember
    <3>2. CASE ~ ClusterExists
      <4>1. \A v \in members, d \in Databases : db[v][d] = Uncreated
        BY <3>2 DEF ClusterExists
      <4>2. ~ strayed
        BY <1>0, <2>3
      <4>3. ~ oready
        BY <1>0, <4>1, <4>2, Names DEF ReadyInv
      <4> QED
        BY <1>0, <4>1, <4>3, Names DEF LeadInv
    <3> QED
      BY <2>1, <2>3, <3>1, <3>2
  <2> QED
    BY <1>0, <2>1, <2>2, <2>3 DEF LeadInv, OvnMember
<1>8. CASE OvnScales
  <2>1. PICK u \in ovnplan.scale \ members : members' = members \cup {u}
    BY <1>8 DEF OvnScales
  <2>2. UNCHANGED <<oleader, strayed, ostage, creates, oready, db>>
    BY <1>8 DEF OvnScales
  <2> QED
    BY <1>0, <2>1, <2>2 DEF LeadInv, OvnMember
<1> QED
  BY <1>2, <1>3, <1>4, <1>5, <1>6, <1>7, <1>8 DEF OvnNext

\* A unit that is settled was settled, or has just been configured.
LEMMA SettledStep ==
    ASSUME Inv, [OvnNext]_ovnVars, NEW w \in members, Settled(w)'
    PROVE  \/ /\ Settled(w)
              /\ served'[w] = served[w] /\ northd'[w] = northd[w] /\ known'[w] = known[w]
              /\ UNCHANGED <<cid, probe>>
           \/ OvnConfigureApp(w) /\ AppDone(w)
<1> DEFINE Stands == /\ Settled(w)
                     /\ served'[w] = served[w] /\ northd'[w] = northd[w] /\ known'[w] = known[w]
                     /\ UNCHANGED <<cid, probe>>
<1> SUFFICES ASSUME ~ (OvnConfigureApp(w) /\ AppDone(w)) PROVE Stands
  OBVIOUS
<1>0. OvnTypeOK /\ TypeInv /\ PeersInv /\ members \subseteq OvnUnits /\ w \in OvnUnits
  BY DEF Inv, TypeInv, OvnTypeOK
<1>1. ASSUME UNCHANGED <<oready, ostage, odue, ojoins, seen, posted, halted, served, northd, known,
                         cid, probe>>
      PROVE  Stands
  BY <1>1 DEF Settled, Complete
<1>2. CASE UNCHANGED ovnVars
  BY <1>1, <1>2 DEF ovnVars
<1>3. ASSUME NEW u \in members, PeersJoined(u) PROVE Stands
  <2>1. PICK v \in ojoins[u] :
           /\ ojoins' = [ojoins EXCEPT ![u] = @ \ {v}]
           /\ seen' = [seen EXCEPT ![u] = @ \cup {v}]
           /\ posted' = posted \cup {u}
           /\ odue' = [x \in OvnUnits |-> \/ odue[x] \/ x = u
                                          \/ posted' # posted /\ u \in seen[x]]
    BY <1>3 DEF PeersJoined, PublishClusterLocalHostname
  <2>2. UNCHANGED <<oready, ostage, halted, served, northd, known, cid, probe>>
    BY <1>3 DEF PeersJoined, worldVars
  <2>3. w # u /\ ~ odue[w] /\ (posted' = posted \/ u \notin seen[w])
    BY <1>0, <2>1 DEF Settled
  <2>4. ojoins'[w] = ojoins[w] /\ seen'[w] = seen[w] /\ seen'[w] \subseteq posted' /\ ojoins'[w] = {}
    BY <1>0, <2>1, <2>3 DEF OvnTypeOK, Settled, Complete
  <2>5. seen[w] \subseteq posted
    BY <2>1, <2>3, <2>4
  <2> QED
    BY <2>2, <2>3, <2>4, <2>5 DEF Settled, Complete
<1>4. ASSUME NEW u \in members, OvnConfigureUnit(u) PROVE Stands
  <2>1. /\ UNCHANGED <<oready, halted, served, northd, cid, probe, ojoins, seen, posted>>
        /\ odue' = [odue EXCEPT ![u] = FALSE]
    BY <1>4 DEF OvnConfigureUnit, worldVars, peerVars
  <2>2. /\ OvnLeaderReady(u) /\ ostage' = [ostage EXCEPT ![u] = "app"]
        /\ known' = [known EXCEPT ![u] = seen[u] \cap posted]
    BY <1>4, <2>1 DEF OvnConfigureUnit, OvnInitService, OvnLeaderReady, Settled
  <2>3. w # u
    BY <1>0, <2>2 DEF OvnTypeOK, Settled
  <2> QED
    BY <1>0, <2>1, <2>2, <2>3 DEF OvnTypeOK, Settled, Complete
<1>5. ASSUME NEW u \in members, OvnConfigureApp(u) PROVE Stands
  <2>0. u \in OvnUnits
    BY <1>0
  <2>1. /\ UNCHANGED <<ojoins, seen, posted, known, probe>>
        /\ ostage' = [ostage EXCEPT ![u] = "idle"]
    BY <1>0, <1>5, <2>0, AppOthers
  <2>2. ~ odue[w]
    BY <1>0, <1>5, AppQueues DEF Settled
  <2>3. CASE w = u
    <3>1. Complete(w)
      BY <2>1 DEF Settled, Complete
    <3> QED
      BY <1>0, <1>5, <2>3, <3>1, AppOutcomes, CompleteIsExpected DEF Settled
  <2>4. CASE w # u
    <3>1. /\ served'[w] = served[w] /\ northd'[w] = northd[w]
          /\ w \in halted' <=> w \in halted
      BY <1>0, <1>5, <2>0, <2>4, AppOthers
    <3>2. UNCHANGED <<oready, cid>>
      BY <1>0, <1>5, <2>0, <2>4, AppAnnounces, AnnouncedToAll DEF Settled
    <3> QED
      BY <1>0, <2>1, <2>2, <2>4, <3>1, <3>2 DEF Settled, Complete, OvnTypeOK
  <2> QED
    BY <2>3, <2>4
<1>6. ASSUME NEW u \in members, PodReplaced(u) PROVE Stands
  <2>1. /\ UNCHANGED <<oready, ostage, ojoins, seen, posted, halted, known, cid, probe>>
        /\ odue' = [odue EXCEPT ![u] = TRUE]
        /\ served' = [served EXCEPT ![u] = FALSE]
        /\ northd' = [northd EXCEPT ![u] = {}]
    BY <1>6 DEF PodReplaced, peerVars
  <2>2. w # u
    BY <1>0, <2>1 DEF OvnTypeOK, Settled
  <2> QED
    BY <1>0, <2>1, <2>2 DEF OvnTypeOK, Settled, Complete
<1>7. CASE ProbeChanges
  <2>1. odue'[w]
    BY <1>0, <1>7 DEF ProbeChanges
  <2> QED
    BY <2>1 DEF Settled
<1>8. CASE OvnScales
  <2>1. PICK u \in ovnplan.scale \ members :
           ojoins' = [x \in OvnUnits |->
                           CASE x = u -> members
                             [] x \in members -> ojoins[x] \cup {u}
                             [] OTHER -> {}]
    BY <1>8 DEF OvnScales
  <2>2. u \in ojoins'[w]
    BY <1>0, <2>1
  <2> QED
    BY <2>2 DEF Settled, Complete
<1>9. ASSUME \/ OvsdbCmsEvent \/ RaftElects \/ OvnElects
             \/ \E u \in members, d \in Databases : RaftJoins(u, d)
      PROVE  Stands
  <2>1. UNCHANGED <<oready, ostage, odue, ojoins, seen, posted, halted, served, northd, known,
                    cid, probe>>
    BY <1>9 DEF OvsdbCmsEvent, RaftElects, OvnElects, RaftJoins, worldVars, peerVars
  <2> QED
    BY <1>1, <2>1
<1> HIDE DEF Stands
<1> QED
  BY <1>2, <1>3, <1>4, <1>5, <1>6, <1>7, <1>8, <1>9 DEF OvnNext

LEMMA StepKnows == Inv /\ [OvnNext]_ovnVars => KnowsInv'
<1> SUFFICES ASSUME Inv, [OvnNext]_ovnVars PROVE KnowsInv'
  OBVIOUS
<1>0. OvnTypeOK /\ TypeInv /\ KnowsInv /\ members \subseteq OvnUnits
  BY DEF Inv, TypeInv, OvnTypeOK
<1>1. ASSUME NEW w \in members' \ members PROVE odue'[w]
  <2>1. OvnScales \/ UNCHANGED members
    BY DEF OvnNext, ovnVars, PeersJoined, OvnConfigureUnit, OvnConfigureApp, RaftJoins, PodReplaced,
       OvsdbCmsEvent, OvnElects, RaftElects, ProbeChanges, worldVars
  <2>2. PICK u \in ovnplan.scale \ members : members' = members \cup {u} /\ odue' = [odue EXCEPT ![u] = TRUE]
    BY <1>1, <2>1 DEF OvnScales
  <2>3. u \in OvnUnits /\ w = u
    BY <1>0, <1>1, <2>2, OvnAssumption DEF OvnTypeOK
  <2> QED
    BY <1>0, <2>2, <2>3 DEF OvnTypeOK
<1>2. ASSUME NEW w \in members, Settled(w)' PROVE Configured(w)'
  <2>1. CASE /\ Settled(w)
             /\ served'[w] = served[w] /\ northd'[w] = northd[w] /\ known'[w] = known[w]
    BY <1>0, <2>1, FilesStand DEF KnowsInv, Configured
  <2>2. CASE OvnConfigureApp(w) /\ AppDone(w)
    <3>1. UNCHANGED known
      BY <2>2 DEF OvnConfigureApp
    <3> QED
      BY <2>2, <3>1 DEF AppDone, Configured
  <2> QED
    BY <1>2, <2>1, <2>2, SettledStep
<1>3. ASSUME NEW w \in members, ~ odue'[w], oready' \/ ostage'[w] = "app"
      PROVE  known'[w] = seen'[w] \cap posted'
  <2>0. w \in OvnUnits /\ (~ odue[w] /\ (oready \/ ostage[w] = "app") => known[w] = seen[w] \cap posted)
    BY <1>0 DEF KnowsInv
  <2>1. ASSUME UNCHANGED <<known, seen, posted>>, odue[w] => odue'[w],
               oready' \/ ostage'[w] = "app" => oready \/ ostage[w] = "app"
        PROVE  known'[w] = seen'[w] \cap posted'
    BY <1>3, <2>0, <2>1
  <2>2. CASE UNCHANGED ovnVars
    BY <2>1, <2>2 DEF ovnVars
  <2>3. ASSUME NEW u \in members, PeersJoined(u) PROVE known'[w] = seen'[w] \cap posted'
    <3>1. PICK v \in ojoins[u] :
             /\ seen' = [seen EXCEPT ![u] = @ \cup {v}]
             /\ posted' = posted \cup {u}
             /\ odue' = [x \in OvnUnits |-> \/ odue[x] \/ x = u
                                            \/ posted' # posted /\ u \in seen[x]]
      BY <2>3 DEF PeersJoined, PublishClusterLocalHostname
    <3>2. UNCHANGED <<oready, ostage, known>>
      BY <2>3 DEF PeersJoined
    <3>3. w # u /\ ~ odue[w] /\ (posted' = posted \/ u \notin seen[w])
      BY <1>3, <2>0, <3>1
    <3>4. seen'[w] = seen[w]
      BY <1>0, <2>0, <3>1, <3>3 DEF OvnTypeOK
    <3>5. seen[w] \cap posted' = seen[w] \cap posted
      BY <3>1, <3>3
    <3> QED
      BY <1>3, <2>0, <3>2, <3>3, <3>4, <3>5
  <2>4. ASSUME NEW u \in members, OvnConfigureUnit(u) PROVE known'[w] = seen'[w] \cap posted'
    <3>1. UNCHANGED <<oready, seen, posted>> /\ odue' = [odue EXCEPT ![u] = FALSE]
      BY <2>4 DEF OvnConfigureUnit, peerVars
    <3>2. ostage[u] = "idle"
      BY <2>4 DEF OvnConfigureUnit
    <3>3. CASE OvnLeaderReady(u)
      <4>1. /\ ostage' = [ostage EXCEPT ![u] = "app"]
            /\ known' = [known EXCEPT ![u] = seen[u] \cap posted]
        BY <2>4, <3>3 DEF OvnConfigureUnit, OvnInitService
      <4> QED
        BY <1>0, <1>3, <2>0, <3>1, <4>1 DEF OvnTypeOK
    <3>4. CASE ~ OvnLeaderReady(u)
      <4>1. UNCHANGED <<ostage, known>> /\ ~ oready
        BY <2>4, <3>4 DEF OvnConfigureUnit, OvnLeaderReady
      <4>2. w # u
        BY <1>3, <3>1, <3>2, <4>1
      <4> QED
        BY <1>0, <1>3, <2>0, <3>1, <4>1, <4>2 DEF OvnTypeOK
    <3> QED
      BY <3>3, <3>4
  <2>5. ASSUME NEW u \in members, OvnConfigureApp(u) PROVE known'[w] = seen'[w] \cap posted'
    <3>0. u \in OvnUnits
      BY <1>0
    <3>1. UNCHANGED <<known, seen, posted>> /\ ostage' = [ostage EXCEPT ![u] = "idle"] /\ ostage[u] = "app"
      BY <1>0, <2>5, <3>0, AppOthers
    <3>2. oready' = oready \/ w = u
      BY <1>0, <1>3, <2>5, <3>0, AppAnnounces, AnnouncedToAll
    <3>3. oready' \/ ostage'[w] = "app" => oready \/ ostage[w] = "app"
      BY <1>0, <2>0, <3>1, <3>2 DEF OvnTypeOK
    <3> QED
      BY <1>0, <2>0, <2>1, <2>5, <3>1, <3>3, AppQueues
  <2>6. CASE OvnScales \/ ProbeChanges \/ \E u \in members : PodReplaced(u)
    <3>1. UNCHANGED <<known, seen, posted, oready, ostage>>
      BY <2>6 DEF OvnScales, ProbeChanges, PodReplaced, peerVars
    <3>2. odue[w] => odue'[w]
      <4>1. \/ \E u : odue' = [odue EXCEPT ![u] = TRUE]
            \/ odue' = [u \in OvnUnits |-> odue[u] \/ u \in members]
        BY <2>6 DEF OvnScales, ProbeChanges, PodReplaced
      <4> QED
        BY <1>0, <2>0, <4>1 DEF OvnTypeOK
    <3> QED
      BY <2>1, <3>1, <3>2
  <2>7. ASSUME \/ OvsdbCmsEvent \/ RaftElects \/ OvnElects
               \/ \E u \in members, d \in Databases : RaftJoins(u, d)
        PROVE  known'[w] = seen'[w] \cap posted'
    <3>1. UNCHANGED <<known, seen, posted, oready, ostage, odue>>
      BY <2>7 DEF OvsdbCmsEvent, RaftElects, OvnElects, RaftJoins, peerVars
    <3> QED
      BY <2>1, <3>1
  <2> QED
    BY <2>2, <2>3, <2>4, <2>5, <2>6, <2>7 DEF OvnNext
<1> QED
  BY <1>1, <1>2, <1>3 DEF KnowsInv, Settled

LEMMA StepRaftLeads ==
    ASSUME TypeInv, RaftLeads, [OvnNext]_ovnVars
    PROVE  RaftLeads'
<1>0. OvnTypeOK /\ members \subseteq OvnUnits
  BY DEF TypeInv, OvnTypeOK
<1>1. CASE UNCHANGED <<raft, db>>
  BY <1>1 DEF RaftLeads
<1>2. ASSUME NEW u \in members, OvnConfigureApp(u) PROVE RaftLeads'
  <2>0. u \in OvnUnits
    BY <1>0
  <2>1. UNCHANGED raft /\ \A w \in OvnUnits : w # u => db'[w] = db[w]
    BY <1>0, <1>2, <2>0, AppOthers, AppFiles
  <2>2. \A d \in Databases : \/ db'[u][d] = db[u][d]
                             \/ db[u][d] = Uncreated /\ db'[u][d] \in {Uncreated, Joining, u}
    BY <1>0, <1>2, <2>0, AppFiles
  <2> SUFFICES ASSUME NEW d \in Databases, NEW c \in OvnUnits
               PROVE  \/ raft[d][c] = c /\ \A v \in OvnUnits : db'[v][d] # c
                      \/ db'[raft[d][c]][d] = c
    BY <2>1 DEF RaftLeads
  <2>3. raft[d][c] \in OvnUnits
    BY <1>0 DEF OvnTypeOK
  <2>4. CASE db[raft[d][c]][d] = c
    BY <2>1, <2>2, <2>3, <2>4, Names
  <2>5. CASE raft[d][c] = c /\ \A v \in OvnUnits : db[v][d] # c
    BY <2>0, <2>1, <2>2, <2>5, Names
  <2> QED
    BY <2>4, <2>5 DEF RaftLeads
<1>3. ASSUME NEW u \in members, NEW e \in Databases, RaftJoins(u, e) PROVE RaftLeads'
  <2>1. PICK v \in members : FindsMember(u, e, v) /\ db' = [db EXCEPT ![u][e] = db[v][e]]
    BY <1>3 DEF RaftJoins
  <2>2. UNCHANGED raft
    BY <1>3 DEF RaftJoins
  <2>3. db[u][e] = Joining /\ db[v][e] \in OvnUnits
    BY <2>1 DEF FindsMember
  <2>4. \A w \in OvnUnits, d \in Databases :
           db'[w][d] = IF w = u /\ d = e THEN db[v][e] ELSE db[w][d]
    BY <1>0, <2>1 DEF OvnTypeOK
  <2> SUFFICES ASSUME NEW d \in Databases, NEW c \in OvnUnits
               PROVE  \/ raft[d][c] = c /\ \A w \in OvnUnits : db'[w][d] # c
                      \/ db'[raft[d][c]][d] = c
    BY <2>2 DEF RaftLeads
  <2>5. raft[d][c] \in OvnUnits
    BY <1>0 DEF OvnTypeOK
  <2>6. CASE db[raft[d][c]][d] = c
    BY <2>3, <2>4, <2>5, <2>6, Names
  <2>7. CASE raft[d][c] = c /\ \A w \in OvnUnits : db[w][d] # c
    BY <1>0, <2>3, <2>4, <2>7
  <2> QED
    BY <2>6, <2>7 DEF RaftLeads
<1>4. CASE RaftElects
  <2>1. PICK e \in Databases, u \in members :
           db[u][e] \in OvnUnits /\ raft' = [raft EXCEPT ![e][db[u][e]] = u]
    BY <1>4 DEF RaftElects
  <2>2. UNCHANGED db
    BY <1>4 DEF RaftElects
  <2>3. \A d \in Databases, c \in OvnUnits :
           raft'[d][c] = IF d = e /\ c = db[u][e] THEN u ELSE raft[d][c]
    BY <1>0, <2>1 DEF OvnTypeOK
  <2> QED
    BY <2>2, <2>3 DEF RaftLeads
<1>5. \/ UNCHANGED <<raft, db>> \/ RaftElects
      \/ \E u \in members : OvnConfigureApp(u)
      \/ \E u \in members, d \in Databases : RaftJoins(u, d)
  BY DEF OvnNext, ovnVars, PeersJoined, OvnConfigureUnit, PodReplaced, OvsdbCmsEvent, OvnElects,
     ProbeChanges, OvnScales
<1> QED
  BY <1>1, <1>2, <1>3, <1>4, <1>5

\* Where there are files of a cluster its RAFT leader has them.
LEMMA RaftLeaderIsMember ==
    ASSUME TypeInv, FilesInv, RaftLeads, NEW d \in Databases, NEW c \in OvnUnits,
           NEW v \in members, db[v][d] = c
    PROVE  raft[d][c] \in members /\ db[raft[d][c]][d] = c
<1>1. members \subseteq OvnUnits /\ raft[d][c] \in OvnUnits
  BY DEF TypeInv, OvnTypeOK
<1>2. db[raft[d][c]][d] = c
  BY <1>1 DEF RaftLeads
<1> QED
  BY <1>1, <1>2, Names DEF FilesInv

LEMMA StepListens == Inv /\ [OvnNext]_ovnVars => ListensInv'
<1> SUFFICES ASSUME Inv, [OvnNext]_ovnVars PROVE ListensInv'
  OBVIOUS
<1>0. /\ OvnTypeOK /\ TypeInv /\ FilesInv /\ PeersInv /\ ReadyInv /\ ListensInv
      /\ RaftLeads /\ members \subseteq OvnUnits /\ (strayed => strayed')
  BY StrayedStays DEF Inv, TypeInv, OvnTypeOK, ListensInv
<1>1. RaftLeads'
  BY <1>0, StepRaftLeads
<1>2. ASSUME ~ moved', ~ strayed', NEW d \in Databases, Settled(raft[d][cid[d]])'
      PROVE  (conn[d][cid[d]] = probe)'
  <2>0. PICK r : r = raft'[d][cid'[d]]
    OBVIOUS
  <2>1. oready'
    BY <1>2 DEF Settled
  <2>2. cid'[d] \in OvnUnits /\ r \in members' /\ db'[r][d] = cid'[d]
    <3>1. TypeInv' /\ FilesInv' /\ ReadyInv'
      BY <1>0, StepType, StepFiles, StepReady
    <3>2. cid'[d] \in OvnUnits /\ \E v \in members' : db'[v][d] = cid'[d]
      BY <1>2, <2>1, <3>1 DEF ReadyInv
    <3>3. r \in OvnUnits
      BY <2>0, <3>1, <3>2 DEF TypeInv, OvnTypeOK
    <3>4. db'[r][d] = cid'[d]
      BY <1>1, <2>0, <3>2, <3>3, StepType, <3>1 DEF RaftLeads, TypeInv, OvnTypeOK
    <3> QED
      BY <3>1, <3>2, <3>3, <3>4, Names DEF FilesInv
  <2>3. r \in members
    <3>1. CASE OvnScales
      <4>1. UNCHANGED db
        BY <3>1 DEF OvnScales
      <4>2. members' \subseteq OvnUnits
        BY <1>0, StepType DEF TypeInv, OvnTypeOK
      <4> QED
        BY <1>0, <2>2, <4>1, <4>2, Names DEF FilesInv
    <3>2. CASE ~ OvnScales
      <4>1. UNCHANGED members
        BY <3>2 DEF OvnNext, ovnVars, PeersJoined, OvnConfigureUnit, OvnConfigureApp, RaftJoins,
           PodReplaced, OvsdbCmsEvent, OvnElects, RaftElects, ProbeChanges, worldVars
      <4> QED
        BY <2>2, <4>1
    <3> QED
      BY <3>1, <3>2
  <2>4. Settled(r)'
    BY <1>2, <2>0 DEF Settled, Complete
  <2>5. CASE OvnConfigureApp(r) /\ AppDone(r)
    <3>1. UNCHANGED <<raft, probe>>
      BY <2>5 DEF OvnConfigureApp, worldVars
    <3> QED
      BY <1>0, <2>0, <2>2, <2>5, <3>1, ListenersStand DEF AppDone
  <2>6. CASE Settled(r) /\ UNCHANGED <<cid, probe>>
    <3>1. CASE RaftElects
      <4>1. halted = {} /\ (\A u \in members : ~ HookWaits(u)) /\ ~ moved /\ UNCHANGED conn
        BY <1>2, <3>1 DEF RaftElects
      <4>2. oready
        BY <2>6 DEF Settled
      <4>3. cid[d] \in OvnUnits /\ raft[d][cid[d]] \in members
        BY <1>0, <1>2, <4>2, RaftLeaderIsMember DEF ReadyInv
      <4>4. Settled(raft[d][cid[d]])
        BY <1>0, <4>1, <4>2, <4>3, AllComplete DEF Settled, HookWaits, OvnTypeOK
      <4> QED
        BY <1>0, <1>2, <2>6, <4>1, <4>4 DEF ListensInv
    <3>2. CASE ~ RaftElects
      <4>1. UNCHANGED <<raft, moved>>
        BY <3>2 DEF OvnNext, ovnVars, PeersJoined, OvnConfigureUnit, OvnConfigureApp, RaftJoins,
           PodReplaced, OvsdbCmsEvent, OvnElects, OvnScales, ProbeChanges, worldVars
      <4>2. conn[d][cid[d]] = probe
        BY <1>0, <1>2, <2>0, <2>6, <4>1 DEF ListensInv
      <4>3. UNCHANGED conn \/ \E u \in members : ConfigureOvn(u)
        <5>1. UNCHANGED conn \/ \E u \in members : OvnConfigureApp(u)
          BY DEF OvnNext, ovnVars, PeersJoined, OvnConfigureUnit, RaftJoins, RaftElects,
             PodReplaced, OvsdbCmsEvent, OvnElects, OvnScales, ProbeChanges
        <5> QED
          BY <1>0, <5>1, AppOthers
      <4> QED
        BY <1>0, <2>2, <2>6, <4>2, <4>3, ListenersStand
    <3> QED
      BY <3>1, <3>2
  <2> QED
    BY <2>3, <2>4, <2>5, <2>6, SettledStep
<1> QED
  BY <1>1, <1>2 DEF ListensInv

LEMMA InvAlways == OvnSpec => []Inv
<1>1. OvnInit => Inv
  BY InitType, InitFiles, InitPeersAddress, InitRest DEF Inv
<1>2. Inv /\ [OvnNext]_ovnVars => Inv'
  BY StepType, StepFiles, StepPeersAddress, StepReady, StepLead, StepKnows, StepListens
     DEF Inv
<1> QED
  BY <1>1, <1>2, PTL DEF OvnSpec

-----------------------------------------------------------------------------
(* Everyone is in.                                                         *)

LEMMA RestIsSettled ==
    ASSUME Inv, OvnAtRest, oready, NEW u \in members \ halted
    PROVE  Settled(u) /\ Configured(u) /\ known[u] = members \ {u}
<1>0. OvnTypeOK /\ PeersInv /\ KnowsInv /\ members \subseteq OvnUnits
  BY DEF Inv, TypeInv, OvnTypeOK
<1>1. \A w \in members : ostage[w] = "idle" /\ ~ odue[w] /\ ojoins[w] = {}
  BY DEF OvnAtRest, HookWaits
<1>2. Settled(u) /\ seen[u] \cap posted = members \ {u}
  BY <1>0, <1>1, AllComplete DEF Settled
<1> QED
  BY <1>0, <1>1, <1>2 DEF KnowsInv

LEMMA RestIsIn ==
    ASSUME Inv, OvnAtRest, ~ strayed, oready, served[oleader],
           NEW u \in members \ halted, NEW d \in Databases
    PROVE  db[u][d] = cid[d]
<1>0. /\ OvnTypeOK /\ FilesInv /\ ReadyInv /\ members \subseteq OvnUnits /\ oleader \in members
  BY DEF Inv, TypeInv, OvnTypeOK
<1>1. Configured(u) /\ known[u] = members \ {u}
  BY RestIsSettled
<1>2. PICK v \in members : cid[d] \in OvnUnits /\ db[v][d] = cid[d]
  BY <1>0 DEF ReadyInv
<1>3. OneOvnCluster /\ OvnMember(oleader)
  BY <1>0, <1>2 DEF FilesInv
<1>4. db[u][d] \in OvnUnits
  <2> SUFFICES ASSUME db[u][d] \notin OvnUnits PROVE FALSE
    OBVIOUS
  <2>1. db[u][d] = Joining
    BY <1>0, <1>1 DEF Configured, OvnTypeOK, ClusterIds
  <2>2. u # oleader
    BY <1>3 DEF OvnMember
  <2>3. FindsMember(u, d, oleader)
    BY <1>0, <1>1, <1>3, <2>1, <2>2 DEF FindsMember, Configured, OvnMember
  <2> QED
    BY <1>0, <2>3 DEF OvnAtRest
<1> QED
  BY <1>2, <1>3, <1>4 DEF OneOvnCluster

\* At rest, unless a unit led that was no member: the leader has announced itself
\* or has an excuse of its own, and from then on every unit whose own hook has not
\* failed is in the announced cluster that the leader serves, with a northd that
\* knows all servers; the listeners have the probe of the option, unless RAFT moved
\* while a hook waited or its leader has failed.
THEOREM EveryoneIsInHolds == OvnSpec => []EveryoneIsIn
<1>1. Inv => EveryoneIsIn
  <2> SUFFICES ASSUME Inv, OvnAtRest, ~ strayed
               PROVE  /\ oready \/ unheard \/ oleader \in halted
                      /\ oready =>
                            /\ \A u \in members \ halted :
                                  /\ served[u] /\ northd[u] = members
                                  /\ served[oleader] =>
                                        \A d \in Databases : db[u][d] = cid[d]
                            /\ ~ moved => \A d \in Databases :
                                  raft[d][cid[d]] \notin halted => conn[d][cid[d]] = probe
    BY DEF EveryoneIsIn
  <2>0. ReadyInv /\ oleader \in members /\ ~ odue[oleader] /\ ostage[oleader] # "app"
    BY DEF Inv, TypeInv, OvnTypeOK, OvnAtRest, HookWaits
  <2>1. oready \/ unheard \/ oleader \in halted
    BY <2>0 DEF ReadyInv
  <2>2. ASSUME oready, NEW u \in members \ halted PROVE served[u] /\ northd[u] = members
    <3>1. served[u] /\ northd[u] = {u} \cup (members \ {u})
      BY <2>2, RestIsSettled DEF Configured
    <3> QED
      BY <3>1
  <2>3. ASSUME oready, NEW u \in members \ halted, served[oleader], NEW d \in Databases
        PROVE  db[u][d] = cid[d]
    BY <2>3, RestIsIn
  <2>4. ASSUME oready, ~ moved, NEW d \in Databases, raft[d][cid[d]] \notin halted
        PROVE  conn[d][cid[d]] = probe
    <3>1. TypeInv /\ FilesInv /\ ListensInv /\ RaftLeads
      BY DEF Inv, ListensInv
    <3>2. cid[d] \in OvnUnits /\ raft[d][cid[d]] \in members
      BY <2>0, <2>4, <3>1, RaftLeaderIsMember DEF ReadyInv
    <3>3. Settled(raft[d][cid[d]])
      BY <2>4, <3>2, RestIsSettled
    <3> QED
      BY <2>4, <3>1, <3>3 DEF ListensInv
  <2> QED
    BY <2>1, <2>2, <2>3, <2>4
<1> QED
  BY <1>1, InvAlways, PTL

\* The databases of the units form one cluster that everyone knows, in any order in
\* which units, leadership, pods and hooks come and go, up to the exceptions that
\* OneOvnCluster and EveryoneIsIn name.
THEOREM OvnClusterFormsHolds == OvnSpec => []OvnClusterForms
BY OneOvnClusterHolds, EveryoneIsInHolds, ClientKnowsServersHolds, PTL DEF OvnClusterForms

=============================================================================
