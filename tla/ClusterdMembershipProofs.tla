---------------------- MODULE ClusterdMembershipProofs ----------------------
(***************************************************************************)
(* Type correctness of ClusterdMembership; that the units never form two   *)
(* clusters, as long as calls succeed and hooks end or the leader stays;   *)
(* that a unit that has stored that it joined is a member; and that, once  *)
(* all hooks have run, the members are the units.                          *)
(***************************************************************************)
EXTENDS ClusterdMembership, TLAPS

Hooks == [ClusterUnits -> SUBSET Events]

LEMMA EventFacts ==
    /\ Start \in Events /\ Config \in Events
    /\ \A x \in ClusterUnits \cup {"app"} : <<"changed", x>> \in Events
    /\ \A x \in ClusterUnits : /\ <<"departed", x>> \in Events
                               /\ <<"add", x>> \in Events /\ <<"remove", x>> \in Events
    /\ AppChanged \subseteq Events
BY DEF Events, Start, Config, AppChanged

LEMMA HandleType ==
    ASSUME hooks \in Hooks, NEW u \in ClusterUnits, NEW e, NEW sent \in SUBSET Events,
           Handle(u, e, sent)
    PROVE  hooks' \in Hooks
BY DEF Handle, Hooks

LEMMA DeferType ==
    ASSUME hooks \in Hooks, NEW u \in ClusterUnits, NEW e, NEW d \in Events,
           HandleAndDefer(u, e, d)
    PROVE  hooks' \in Hooks
BY DEF HandleAndDefer, Hooks

LEMMA FaultType ==
    ASSUME MembershipTypeOK, NEW k, Fault(k)
    PROVE  mchanges' \in 0 .. MaxChanges
BY MembershipAssumption DEF Fault, MembershipTypeOK

LEMMA InitType == MembershipInit => MembershipTypeOK
<1> SUFFICES ASSUME MembershipInit PROVE MembershipTypeOK
  OBVIOUS
<1>1. mchanges \in 0 .. MaxChanges
  BY MembershipAssumption DEF MembershipInit
<1>2. hooks \in Hooks
  BY EventFacts DEF MembershipInit, Hooks
<1> QED
  BY <1>1, <1>2, MembershipAssumption
     DEF MembershipInit, MembershipTypeOK, NoCluster, Hooks

LEMMA ConfigureType ==
    ASSUME MembershipTypeOK, NEW u \in ClusterUnits, NEW e, Configure(u, e)
    PROVE  MembershipTypeOK'
<1>1. hooks' \in Hooks
  BY EventFacts, HandleType DEF Configure, MembershipTypeOK, Hooks
<1>2. mchanges' \in 0 .. MaxChanges
  BY FaultType DEF Configure, MembershipTypeOK
<1>3. seat' \in [ClusterUnits -> ClusterUnits \cup NoCluster]
  BY DEF Configure, Bootstrap, MembershipTypeOK
<1>4. joined' \in [ClusterUnits -> BOOLEAN] /\ leaderReady' \in BOOLEAN
  BY DEF Configure, MembershipTypeOK
<1> QED
  BY <1>1, <1>2, <1>3, <1>4 DEF Configure, MembershipTypeOK, Hooks

LEMMA AddNodeType ==
    ASSUME MembershipTypeOK, NEW u \in ClusterUnits, NEW x \in ClusterUnits, NEW e,
           AddNode(u, x, e)
    PROVE  /\ hooks' \in Hooks /\ mchanges' \in 0 .. MaxChanges
           /\ token' \in [ClusterUnits -> ClusterUnits \cup {"none"}]
           /\ valid' \in [ClusterUnits -> ClusterUnits \cup {"none"}]
<1>1. hooks' \in Hooks
  BY EventFacts, HandleType, DeferType DEF AddNode, MembershipTypeOK, Hooks
<1>2. mchanges' \in 0 .. MaxChanges
  BY FaultType DEF AddNode, MembershipTypeOK
<1>3. Member(u) => seat[u] \in ClusterUnits
  BY DEF Member, MembershipTypeOK
<1> QED
  BY <1>1, <1>2, <1>3 DEF AddNode, MembershipTypeOK

LEMMA ChangedAtLeaderType ==
    ASSUME MembershipTypeOK, NEW u \in ClusterUnits, NEW x \in ClusterUnits,
           ChangedAtLeader(u, x) \/ AddAgain(u, x)
    PROVE  MembershipTypeOK'
<1>1. joined' \in [ClusterUnits -> BOOLEAN]
  BY DEF ChangedAtLeader, AddAgain, SeedNode, MembershipTypeOK
<1>2. /\ hooks' \in Hooks /\ mchanges' \in 0 .. MaxChanges
      /\ token' \in [ClusterUnits -> ClusterUnits \cup {"none"}]
      /\ valid' \in [ClusterUnits -> ClusterUnits \cup {"none"}]
  <2>1. CASE \E e : AddNode(u, x, e)
    BY <2>1, AddNodeType
  <2>2. CASE /\ UNCHANGED <<token, valid, mchanges>>
             /\ \E e : \/ Handle(u, e, {})
                       \/ HandleAndDefer(u, e, <<"add", x>>)
    <3>1. hooks' \in Hooks
      BY <2>2, EventFacts, HandleType, DeferType DEF MembershipTypeOK, Hooks
    <3> QED
      BY <2>2, <3>1 DEF MembershipTypeOK
  <2> QED
    BY <2>1, <2>2 DEF ChangedAtLeader, AddAgain
<1> QED
  BY <1>1, <1>2 DEF ChangedAtLeader, AddAgain, MembershipTypeOK, Hooks

LEMMA ChangedType ==
    ASSUME MembershipTypeOK, NEW u \in ClusterUnits, NEW x \in ClusterUnits \cup {"app"},
           Changed(u, x)
    PROVE  MembershipTypeOK'
<1> DEFINE e == <<"changed", x>>
<1>1. CASE Handle(u, e, {}) /\ UNCHANGED <<valid, joined, seat, mchanges>>
  <2>1. hooks' \in Hooks
    BY <1>1, HandleType DEF MembershipTypeOK, Hooks
  <2> QED
    BY <1>1, <2>1 DEF Changed, MembershipTypeOK, Hooks
<1>2. CASE token[u] # "none" /\ Join(u, e)
  <2>0. token[u] \in ClusterUnits
    BY <1>2 DEF MembershipTypeOK
  <2>1. hooks' \in Hooks
    BY <1>2, EventFacts, HandleType DEF Join, MembershipTypeOK, Hooks
  <2>2. mchanges' \in 0 .. MaxChanges
    BY <1>2, FaultType DEF Join, MembershipTypeOK
  <2>3. /\ seat' \in [ClusterUnits -> ClusterUnits \cup NoCluster]
        /\ valid' \in [ClusterUnits -> ClusterUnits \cup {"none"}]
        /\ joined' \in [ClusterUnits -> BOOLEAN]
    BY <1>2, <2>0 DEF Join, MembershipTypeOK
  <2> QED
    BY <1>2, <2>1, <2>2, <2>3 DEF Changed, MembershipTypeOK, Hooks
<1> QED
  BY <1>1, <1>2 DEF Changed

LEMMA DepartedType ==
    ASSUME MembershipTypeOK, NEW u \in ClusterUnits, NEW x \in ClusterUnits, NEW e,
           Departed(u, x, e)
    PROVE  MembershipTypeOK'
<1>1. hooks' \in Hooks
  BY EventFacts, HandleType, DeferType DEF Departed, RemoveNode, MembershipTypeOK, Hooks
<1>2. mchanges' \in 0 .. MaxChanges
  BY FaultType DEF Departed, RemoveNode, MembershipTypeOK
<1>3. seat' \in [ClusterUnits -> ClusterUnits \cup NoCluster]
  BY DEF Departed, RemoveNode, RemoveMember, MembershipTypeOK, NoCluster
<1>4. token' \in [ClusterUnits -> ClusterUnits \cup {"none"}]
  BY DEF Departed, RemoveNode, MembershipTypeOK
<1> QED
  BY <1>1, <1>2, <1>3, <1>4 DEF Departed, MembershipTypeOK, Hooks

LEMMA OperatorType ==
    ASSUME MembershipTypeOK, NEW u \in ClusterUnits,
           \/ AddUnit(u) \/ RemoveUnit(u) \/ UnitGone(u)
           \/ Elect(u) \/ ClusterConfigChanged(u)
    PROVE  MembershipTypeOK'
<1>1. CASE AddUnit(u)
  <2> DEFINE First == {Start} \cup ({"changed"} \X present)
             Other == {<<"changed", u>>}
  <2>1. First \subseteq Events /\ Other \subseteq Events
    BY DEF MembershipTypeOK, Events, Start
  <2>2. hooks' \in Hooks
    <3>1. hooks' = [v \in ClusterUnits |-> IF v = u THEN First
                                          ELSE IF v \in present THEN hooks[v] \cup Other
                                          ELSE hooks[v]]
      BY <1>1 DEF AddUnit
    <3> HIDE DEF First, Other
    <3> QED
      BY <2>1, <3>1 DEF MembershipTypeOK, Hooks
  <2>3. present' \subseteq ClusterUnits
    BY <1>1 DEF AddUnit, MembershipTypeOK
  <2>4. UNCHANGED <<departing, leader, leaderReady, token, valid, joined, seat, plan,
                    mchanges>>
    BY <1>1 DEF AddUnit
  <2> QED
    BY <2>2, <2>3, <2>4 DEF MembershipTypeOK, Hooks
<1>2. CASE RemoveUnit(u)
  <2>1. hooks' \in Hooks
    <3>1. PICK kept \in BOOLEAN :
             hooks' = [v \in ClusterUnits |->
                         IF v \in present
                           THEN (IF kept THEN hooks[v] ELSE hooks[v] \ {<<"changed", u>>})
                                   \cup {<<"departed", u>>}
                           ELSE hooks[v]]
      BY <1>2 DEF RemoveUnit
    <3>2. <<"departed", u>> \in Events
      BY EventFacts
    <3> DEFINE gone == <<"departed", u>>
               changed == <<"changed", u>>
    <3> HIDE DEF gone, changed
    <3>3. hooks' = [v \in ClusterUnits |->
                      IF v \in present
                        THEN (IF kept THEN hooks[v] ELSE hooks[v] \ {changed}) \cup {gone}
                        ELSE hooks[v]]
      BY <3>1 DEF gone, changed
    <3>4. gone \in Events
      BY <3>2 DEF gone
    <3> QED
      BY <3>3, <3>4 DEF MembershipTypeOK, Hooks
  <2> QED
    BY <1>2, <2>1 DEF RemoveUnit, MembershipTypeOK, Hooks
<1>3. CASE UnitGone(u)
  <2>1. mchanges' \in 0 .. MaxChanges
    BY <1>3, FaultType DEF UnitGone, MembershipTypeOK
  <2> QED
    BY <1>3, <2>1 DEF UnitGone, MembershipTypeOK
<1>4. CASE Elect(u)
  <2>1. mchanges' \in 0 .. MaxChanges
    BY <1>4, FaultType DEF Elect, MembershipTypeOK
  <2> QED
    BY <1>4, <2>1 DEF Elect, MembershipTypeOK
<1>5. CASE ClusterConfigChanged(u)
  <2>1. mchanges' \in 0 .. MaxChanges
    BY <1>5, FaultType DEF ClusterConfigChanged
  <2> QED
    BY <1>5, <2>1, EventFacts DEF ClusterConfigChanged, MembershipTypeOK
<1> QED
  BY <1>1, <1>2, <1>3, <1>4, <1>5

LEMMA StepType == MembershipTypeOK /\ [MembershipNext]_membershipVars => MembershipTypeOK'
<1> SUFFICES ASSUME MembershipTypeOK, [MembershipNext]_membershipVars
             PROVE  MembershipTypeOK'
  OBVIOUS
<1>1. CASE UNCHANGED membershipVars
  BY <1>1 DEF membershipVars, MembershipTypeOK
<1>2. ASSUME NEW u \in ClusterUnits, MembershipHook(u) PROVE MembershipTypeOK'
  BY <1>2, ConfigureType, ChangedAtLeaderType, ChangedType, DepartedType
     DEF MembershipHook
<1> QED
  BY <1>1, <1>2, OperatorType DEF MembershipNext

\* The types hold in every reachable state, for any units and plans.
THEOREM MembershipTypeCorrect == MembershipSpec => []MembershipTypeOK
BY InitType, StepType, PTL DEF MembershipSpec

-----------------------------------------------------------------------------
(* One cluster.                                                            *)

\* Calls of the daemons succeed and hooks end, or the first leader stays.
Careful == {"kill", "error"} \cap plan.faults = {}
LeaderStays == {"elect", "leaderleaves"} \cap plan.faults = {}

\* Either the announcement comes with the one bootstrap there is, or it is
\* always the same unit that bootstraps.
ClusterInv ==
    /\ Careful =>
          /\ \A u, v \in ClusterUnits : Member(u) /\ Member(v) => seat[u] = seat[v]
          /\ ~ leaderReady => \A u \in ClusterUnits : ~ Member(u)
    /\ LeaderStays =>
          /\ leader = Seed /\ Seed \notin departing
          /\ \A u \in ClusterUnits : seat[u] \in {"none", "left", Seed}

\* A unit that joins enters a cluster that somebody is in.
LEMMA JoinsCluster ==
    ASSUME MembershipTypeOK, NEW u \in ClusterUnits, NEW e, token[u] # "none", Join(u, e)
    PROVE  \/ UNCHANGED seat
           \/ /\ seat' = [seat EXCEPT ![u] = token[u]]
              /\ token[u] \in ClusterUnits
              /\ \E v \in ClusterUnits : Member(v) /\ seat[v] = token[u]
<1>1. token[u] \in ClusterUnits /\ token[u] \notin NoCluster
  BY MembershipAssumption DEF MembershipTypeOK, NoCluster
<1>2. \/ UNCHANGED seat
      \/ /\ seat' = [seat EXCEPT ![u] = token[u]]
         /\ \E v \in ClusterUnits : seat[v] = token[u]
  BY DEF Join
<1> QED
  BY <1>1, <1>2 DEF Member

\* What a hook does to the seats: nothing, a bootstrap, a join or a removal.
LEMMA Seats ==
    ASSUME MembershipTypeOK, NEW u \in ClusterUnits, MembershipHook(u)
    PROVE  \/ UNCHANGED <<seat, leaderReady>>
           \/ /\ Bootstraps(u) /\ Bootstrap(u)
              /\ leaderReady' \/ "kill" \in plan.faults \/ "error" \in plan.faults
           \/ /\ seat' = [seat EXCEPT ![u] = token[u]]
              /\ token[u] \in ClusterUnits
              /\ \E v \in ClusterUnits : Member(v) /\ seat[v] = token[u]
              /\ UNCHANGED leaderReady
           \/ \E x \in ClusterUnits :
                 /\ seat' = [seat EXCEPT ![x] = "left"]
                 /\ <<"departed", x>> \in hooks[u] \/ <<"remove", x>> \in hooks[u]
                 /\ UNCHANGED leaderReady
<1>1. ASSUME NEW e, Configure(u, e)
      PROVE  \/ UNCHANGED <<seat, leaderReady>>
             \/ /\ Bootstraps(u) /\ Bootstrap(u)
                /\ leaderReady' \/ "kill" \in plan.faults \/ "error" \in plan.faults
  BY <1>1 DEF Configure, Fault
<1>2. ASSUME NEW x \in ClusterUnits, ChangedAtLeader(u, x) \/ AddAgain(u, x)
      PROVE  UNCHANGED <<seat, leaderReady>>
  BY <1>2 DEF ChangedAtLeader, AddAgain
<1>3. ASSUME NEW x \in ClusterUnits \cup {"app"}, Changed(u, x)
      PROVE  \/ UNCHANGED <<seat, leaderReady>>
             \/ /\ seat' = [seat EXCEPT ![u] = token[u]]
                /\ token[u] \in ClusterUnits
                /\ \E v \in ClusterUnits : Member(v) /\ seat[v] = token[u]
                /\ UNCHANGED leaderReady
  <2>1. CASE UNCHANGED seat
    BY <1>3, <2>1 DEF Changed
  <2>2. CASE token[u] # "none" /\ Join(u, <<"changed", x>>)
    BY <1>3, <2>2, JoinsCluster DEF Changed
  <2> QED
    BY <1>3, <2>1, <2>2 DEF Changed
<1>4. ASSUME NEW x \in ClusterUnits, NEW k \in {"departed", "remove"},
             Departed(u, x, <<k, x>>)
      PROVE  \/ UNCHANGED <<seat, leaderReady>>
             \/ /\ seat' = [seat EXCEPT ![x] = "left"]
                /\ <<"departed", x>> \in hooks[u] \/ <<"remove", x>> \in hooks[u]
                /\ UNCHANGED leaderReady
  <2>1. <<k, x>> \in hooks[u]
    BY <1>4 DEF Departed, RemoveNode, Handle, HandleAndDefer
  <2>2. UNCHANGED seat \/ seat' = [seat EXCEPT ![x] = "left"]
    BY <1>4 DEF Departed, RemoveNode, RemoveMember
  <2> QED
    BY <1>4, <2>1, <2>2 DEF Departed
<1> QED
  BY <1>1, <1>2, <1>3, <1>4 DEF MembershipHook

\* A hook moves neither the lease nor units.
LEMMA HookKeeps ==
    ASSUME NEW u \in ClusterUnits, MembershipHook(u)
    PROVE  UNCHANGED <<present, departing, leader, plan>>
BY DEF MembershipHook, Configure, ChangedAtLeader, AddAgain, Changed, Departed

LEMMA HookCluster ==
    ASSUME MembershipTypeOK, ClusterInv, NEW u \in ClusterUnits, MembershipHook(u)
    PROVE  ClusterInv'
<1> USE DEF ClusterInv, Careful, LeaderStays
<1>0. UNCHANGED <<departing, leader, plan>>
  BY HookKeeps
<1>1. CASE UNCHANGED <<seat, leaderReady>>
  BY <1>0, <1>1 DEF Member
<1>2. CASE /\ Bootstraps(u) /\ Bootstrap(u)
           /\ leaderReady' \/ "kill" \in plan.faults \/ "error" \in plan.faults
  BY <1>0, <1>2 DEF Bootstraps, Bootstrap, Member, MembershipTypeOK
<1>3. CASE /\ seat' = [seat EXCEPT ![u] = token[u]]
           /\ token[u] \in ClusterUnits
           /\ \E v \in ClusterUnits : Member(v) /\ seat[v] = token[u]
           /\ UNCHANGED leaderReady
  <2>1. PICK v \in ClusterUnits : Member(v) /\ seat[v] = token[u]
    BY <1>3
  <2>2. \A w \in ClusterUnits : seat'[w] = IF w = u THEN seat[v] ELSE seat[w]
    BY <1>3, <2>1 DEF MembershipTypeOK
  <2> QED
    BY <1>0, <1>3, <2>1, <2>2 DEF Member
<1>4. CASE \E x \in ClusterUnits :
              seat' = [seat EXCEPT ![x] = "left"] /\ UNCHANGED leaderReady
  <2>1. PICK x \in ClusterUnits : seat' = [seat EXCEPT ![x] = "left"]
    BY <1>4
  <2>2. \A w \in ClusterUnits : seat'[w] = IF w = x THEN "left" ELSE seat[w]
    BY <2>1 DEF MembershipTypeOK
  <2> QED
    BY <1>0, <1>4, <2>2 DEF Member, NoCluster
<1> QED
  BY <1>1, <1>2, <1>3, <1>4, Seats

LEMMA OperatorCluster ==
    ASSUME MembershipTypeOK, ClusterInv, NEW u \in ClusterUnits,
           \/ AddUnit(u) \/ RemoveUnit(u) \/ UnitGone(u)
           \/ Elect(u) \/ ClusterConfigChanged(u)
    PROVE  ClusterInv'
<1> USE DEF ClusterInv, Careful, LeaderStays, Member
<1>1. UNCHANGED <<seat, leaderReady, plan>>
  BY DEF AddUnit, RemoveUnit, UnitGone, Elect, ClusterConfigChanged
<1>2. CASE AddUnit(u) \/ ClusterConfigChanged(u)
  BY <1>1, <1>2 DEF AddUnit, ClusterConfigChanged
<1>3. CASE RemoveUnit(u)
  BY <1>1, <1>3 DEF RemoveUnit
<1>4. CASE UnitGone(u)
  BY <1>1, <1>4 DEF UnitGone
<1>5. CASE Elect(u)
  BY <1>1, <1>5, MembershipAssumption DEF Elect, Fault
<1> QED
  BY <1>2, <1>3, <1>4, <1>5

\* The units of sunbeam-clusterd form one cluster (bootstrap_cluster runs once),
\* for any number of them, however they come and go, are removed or drop their
\* hooks, as long as hooks and calls succeed or the leader stays.
THEOREM OneClusterHolds == MembershipSpec => []OneCluster
<1>1. MembershipInit => ClusterInv
  <2> SUFFICES ASSUME MembershipInit PROVE ClusterInv
    OBVIOUS
  <2>1. \A u \in ClusterUnits : seat[u] = "none" /\ ~ Member(u)
    BY DEF MembershipInit, Member, NoCluster
  <2> QED
    BY <2>1 DEF MembershipInit, ClusterInv
<1>2. /\ MembershipTypeOK /\ ClusterInv /\ [MembershipNext]_membershipVars
      => ClusterInv'
  <2> SUFFICES ASSUME MembershipTypeOK, ClusterInv, [MembershipNext]_membershipVars
               PROVE  ClusterInv'
    OBVIOUS
  <2>1. CASE UNCHANGED membershipVars
    BY <2>1 DEF membershipVars, ClusterInv, Careful, LeaderStays, Member
  <2> QED
    BY <2>1, HookCluster, OperatorCluster DEF MembershipNext
<1>3. MembershipTypeOK /\ ClusterInv => OneCluster
  <2> SUFFICES ASSUME MembershipTypeOK, ClusterInv, Careful \/ LeaderStays
               PROVE  \A u, v \in ClusterUnits :
                         Member(u) /\ Member(v) => seat[u] = seat[v]
    BY DEF OneCluster, Careful, LeaderStays
  <2>1. CASE Careful
    BY <2>1 DEF ClusterInv
  <2>2. CASE LeaderStays
    BY <2>2 DEF ClusterInv, Member, NoCluster
  <2> QED
    BY <2>1, <2>2
<1> QED
  BY <1>1, <1>2, <1>3, MembershipTypeCorrect, PTL DEF MembershipSpec

-----------------------------------------------------------------------------
(* What a unit has stored of itself.                                       *)

\* The leader stays and the daemons answer; hooks may die.
Answered == {"elect", "leaderleaves", "error"} \cap plan.faults = {}

\* Only units that the operator removes lose their seat.  The seed node, which
\* takes itself for a member when it finds no token, is one after its start.
JoinInv ==
    Answered =>
        /\ \A u \in ClusterUnits : joined[u] => u \in departing \/ Member(u)
        /\ \A u, x \in ClusterUnits :
              <<"departed", x>> \in hooks[u] \/ <<"remove", x>> \in hooks[u]
                  => x \in departing
        /\ \A x \in ClusterUnits : seat[x] = "left" => x \in departing
        /\ leaderReady \/ Start \notin hooks[Seed] => Member(Seed)

\* Which events a hook leaves behind.
LEMMA HooksLeft ==
    ASSUME MembershipTypeOK, NEW u \in ClusterUnits, MembershipHook(u)
    PROVE  /\ \A v, x \in ClusterUnits :
                 <<"departed", x>> \in hooks'[v] \/ <<"remove", x>> \in hooks'[v]
                   => \E w \in ClusterUnits :
                         <<"departed", x>> \in hooks[w] \/ <<"remove", x>> \in hooks[w]
           /\ Start \in hooks[Seed] /\ Start \notin hooks'[Seed]
                   => u = Seed /\ Configure(u, Start)
<1> DEFINE Gone(x, H) == <<"departed", x>> \in H \/ <<"remove", x>> \in H
           Left == /\ \A v, x \in ClusterUnits :
                         Gone(x, hooks'[v]) => \E w \in ClusterUnits : Gone(x, hooks[w])
                   /\ Start \in hooks[Seed] /\ Start \notin hooks'[Seed]
                         => u = Seed /\ Configure(u, Start)
<1> USE MembershipAssumption DEF Start, Config, AppChanged
<1>1. ASSUME NEW e, NEW sent, Handle(u, e, sent),
             e # Start \/ Configure(u, Start),
             \A y : <<"departed", y>> \notin sent /\ <<"remove", y>> \notin sent
      PROVE  Left
  <2>1. \A v \in ClusterUnits : hooks'[v] \subseteq hooks[v] \cup sent
    BY <1>1 DEF Handle
  <2>2. \A v \in ClusterUnits : hooks[v] \ {e} \subseteq hooks'[v]
    BY <1>1 DEF Handle
  <2>3. \A v \in ClusterUnits \ {u} : hooks[v] \subseteq hooks'[v]
    BY <1>1 DEF Handle
  <2> QED
    BY <1>1, <2>1, <2>2, <2>3
<1>2. ASSUME NEW e, NEW d, HandleAndDefer(u, e, d), e # Start,
             \A y \in ClusterUnits : d # <<"departed", y>>,
             \A y \in ClusterUnits : d = <<"remove", y>> => Gone(y, hooks[u])
      PROVE  Left
  <2>1. \A v \in ClusterUnits : hooks'[v] \subseteq hooks[v] \cup {d}
    BY <1>2 DEF HandleAndDefer, MembershipTypeOK
  <2>2. \A v \in ClusterUnits : hooks[v] \ {e} \subseteq hooks'[v]
    BY <1>2 DEF HandleAndDefer, MembershipTypeOK
  <2>3. Start \in hooks[Seed] => Start \in hooks'[Seed]
    BY <1>2, <2>2
  <2>4. ASSUME NEW v \in ClusterUnits, NEW x \in ClusterUnits, Gone(x, hooks'[v])
        PROVE  \E w \in ClusterUnits : Gone(x, hooks[w])
    <3>1. CASE <<"departed", x>> \in hooks'[v]
      <4>0. d # <<"departed", x>>
        BY <1>2, Zenon
      <4>1. <<"departed", x>> \in hooks[v]
        BY <2>1, <3>1, <4>0, Zenon
      <4> QED
        BY <4>1
    <3>2. CASE <<"remove", x>> \in hooks'[v]
      <4>0. d = <<"remove", x>> => Gone(x, hooks[u])
        BY <1>2, Zenon
      <4>1. <<"remove", x>> \in hooks[v] \/ Gone(x, hooks[u])
        BY <2>1, <3>2, <4>0, Zenon
      <4> QED
        BY <4>1
    <3> QED
      BY <2>4, <3>1, <3>2
  <2> QED
    BY <2>3, <2>4
<1>3. ASSUME UNCHANGED hooks PROVE Left
  BY <1>3
<1> HIDE DEF Left
<1>4. ASSUME NEW e \in {Start, Config}, Configure(u, e) PROVE Left
  <2>1. \A y : <<"departed", y>> \notin AppChanged /\ <<"remove", y>> \notin AppChanged
    OBVIOUS
  <2>2. e # Start \/ Configure(u, Start)
    BY <1>4
  <2>3. Handle(u, e, AppChanged) \/ Handle(u, e, {}) \/ UNCHANGED hooks
    BY <1>4 DEF Configure
  <2> QED
    BY <1>1, <1>3, <2>1, <2>2, <2>3
<1>5. ASSUME NEW e, NEW x, e # Start,
             \/ Handle(u, e, {}) \/ Handle(u, e, AppChanged)
             \/ Handle(u, e, {<<"changed", x>>})
             \/ HandleAndDefer(u, e, <<"add", x>>) \/ UNCHANGED hooks
      PROVE  Left
  <2>1. \A y : <<"departed", y>> \notin AppChanged /\ <<"remove", y>> \notin AppChanged
    OBVIOUS
  <2>2. \A y : /\ <<"departed", y>> \notin {<<"changed", x>>}
              /\ <<"remove", y>> \notin {<<"changed", x>>}
    OBVIOUS
  <2>3. /\ \A y : <<"add", x>> # <<"departed", y>>
        /\ \A y : <<"add", x>> # <<"remove", y>>
    OBVIOUS
  <2>4. CASE Handle(u, e, {}) \/ UNCHANGED hooks
    BY <1>1, <1>3, <1>5, <2>4
  <2>5. CASE Handle(u, e, AppChanged)
    BY <1>1, <1>5, <2>1, <2>5
  <2>6. CASE Handle(u, e, {<<"changed", x>>})
    BY <1>1, <1>5, <2>2, <2>6
  <2>7. CASE HandleAndDefer(u, e, <<"add", x>>)
    BY <1>2, <1>5, <2>3, <2>7
  <2> QED
    BY <1>5, <2>4, <2>5, <2>6, <2>7
<1>6. ASSUME NEW x \in ClusterUnits, ChangedAtLeader(u, x) \/ AddAgain(u, x) PROVE Left
  <2>1. <<"changed", x>> # Start /\ <<"add", x>> # Start
    OBVIOUS
  <2>2. \E e \in {<<"changed", x>>, <<"add", x>>} :
           \/ Handle(u, e, {}) \/ Handle(u, e, AppChanged)
           \/ HandleAndDefer(u, e, <<"add", x>>) \/ UNCHANGED hooks
    BY <1>6 DEF ChangedAtLeader, AddAgain, AddNode
  <2> QED
    BY <1>5, <2>1, <2>2
<1>7. ASSUME NEW x \in ClusterUnits \cup {"app"}, Changed(u, x) PROVE Left
  <2>1. <<"changed", x>> # Start
    OBVIOUS
  <2>2. \/ Handle(u, <<"changed", x>>, {}) \/ UNCHANGED hooks
        \/ Handle(u, <<"changed", x>>, {<<"changed", u>>})
    BY <1>7 DEF Changed, Join
  <2> QED
    BY <1>5, <2>1, <2>2
<1>8. ASSUME NEW x \in ClusterUnits, NEW k \in {"departed", "remove"},
             Departed(u, x, <<k, x>>)
      PROVE  Left
  <2> DEFINE e == <<k, x>>
  <2>1. e # Start
    OBVIOUS
  <2>2. \/ Handle(u, e, {}) \/ Handle(u, e, AppChanged) \/ UNCHANGED hooks
        \/ HandleAndDefer(u, e, <<"remove", x>>)
    BY <1>8 DEF Departed, RemoveNode
  <2>3. CASE HandleAndDefer(u, e, <<"remove", x>>)
    <3>1. Gone(x, hooks[u])
      BY <2>3 DEF HandleAndDefer
    <3>2. /\ \A y : <<"remove", x>> # <<"departed", y>>
          /\ \A y : <<"remove", x>> = <<"remove", y>> => y = x
      OBVIOUS
    <3> QED
      BY <1>2, <2>1, <2>3, <3>1, <3>2
  <2> HIDE DEF e
  <2> QED
    BY <1>5, <2>1, <2>2, <2>3
<1> QED
  BY <1>4, <1>6, <1>7, <1>8 DEF MembershipHook, Left

\* What a hook stores of its unit: that it is in, or that it is the seed node.
LEMMA Joins ==
    ASSUME MembershipTypeOK, NEW u \in ClusterUnits, MembershipHook(u),
           "error" \notin plan.faults
    PROVE  \A w \in ClusterUnits : joined'[w] =>
              \/ joined[w]
              \/ w = u /\ Member(u)'
              \/ w = u /\ u = leader /\ Start \notin hooks[u]
<1>0. u \notin NoCluster
  BY MembershipAssumption DEF NoCluster
<1>1. ASSUME NEW e, Configure(u, e)
      PROVE  \/ joined' = joined
             \/ joined' = [joined EXCEPT ![u] = TRUE] /\ Member(u)'
  <2>1. \/ joined' = joined
        \/ joined' = [joined EXCEPT ![u] = TRUE] /\ Bootstrap(u)
    BY <1>1 DEF Configure, Fault
  <2>2. Bootstrap(u) => Member(u)'
    BY <1>0 DEF Bootstrap, Member, MembershipTypeOK
  <2> QED
    BY <2>1, <2>2
<1>2. ASSUME NEW x \in ClusterUnits, ChangedAtLeader(u, x) \/ AddAgain(u, x)
      PROVE  \/ joined' = joined
             \/ /\ joined' = [joined EXCEPT ![u] = @ \/ Tokens = {}]
                /\ u = leader /\ Start \notin hooks[u]
  BY <1>2 DEF ChangedAtLeader, AddAgain, SeedNode, Started
<1>3. ASSUME NEW x \in ClusterUnits \cup {"app"}, Changed(u, x)
      PROVE  \/ joined' = joined
             \/ joined' = [joined EXCEPT ![u] = TRUE] /\ Member(u)'
  <2>1. CASE joined' = joined
    BY <2>1
  <2>2. CASE token[u] # "none" /\ Join(u, <<"changed", x>>) /\ joined' # joined
    <3>1. joined' = [joined EXCEPT ![u] = TRUE] /\ seat' = [seat EXCEPT ![u] = token[u]]
      BY <2>2 DEF Join
    <3>2. token[u] \notin NoCluster
      BY <2>2, MembershipAssumption DEF MembershipTypeOK, NoCluster
    <3> QED
      BY <3>1, <3>2 DEF Member, MembershipTypeOK
  <2> QED
    BY <1>3, <2>1, <2>2 DEF Changed
<1>4. ASSUME NEW x \in ClusterUnits, NEW e, Departed(u, x, e) PROVE joined' = joined
  BY <1>4 DEF Departed
<1>5. \/ joined' = joined
      \/ joined' = [joined EXCEPT ![u] = TRUE] /\ Member(u)'
      \/ /\ joined' = [joined EXCEPT ![u] = @ \/ Tokens = {}]
         /\ u = leader /\ Start \notin hooks[u]
  BY <1>1, <1>2, <1>3, <1>4 DEF MembershipHook
<1> QED
  BY <1>5 DEF MembershipTypeOK

\* The seed has its cluster when its start has run, whatever it found.
LEMMA SeedStarts ==
    ASSUME MembershipTypeOK, leader = Seed, "error" \notin plan.faults,
           leaderReady => Member(Seed), seat[Seed] # "left",
           Configure(Seed, Start), Start \notin hooks'[Seed]
    PROVE  Member(Seed)'
<1>1. Seed \in ClusterUnits /\ Seed \notin NoCluster
  BY MembershipAssumption DEF NoCluster
<1>2. CASE Bootstrap(Seed)
  BY <1>1, <1>2 DEF Bootstrap, Member, MembershipTypeOK
<1>3. CASE UNCHANGED seat /\ seat[Seed] # "none"
  BY <1>3 DEF Member, NoCluster
<1>4. CASE UNCHANGED seat /\ leaderReady
  BY <1>4 DEF Member
<1> QED
  BY <1>2, <1>3, <1>4 DEF Configure, Bootstraps, Fault

LEMMA HookJoin ==
    ASSUME MembershipTypeOK, ClusterInv, JoinInv, NEW u \in ClusterUnits,
           MembershipHook(u)
    PROVE  JoinInv'
<1> SUFFICES ASSUME Answered' PROVE JoinInv'
  BY DEF JoinInv
<1>0. UNCHANGED <<departing, leader, plan>> /\ Answered
  BY HookKeeps DEF Answered
<1>1. leader = Seed /\ Seed \notin departing /\ Seed \in ClusterUnits
  BY <1>0, MembershipAssumption DEF ClusterInv, LeaderStays, Answered
<1>2. /\ \A w \in ClusterUnits : joined[w] => w \in departing \/ Member(w)
      /\ \A v, x \in ClusterUnits :
            <<"departed", x>> \in hooks[v] \/ <<"remove", x>> \in hooks[v]
                => x \in departing
      /\ \A x \in ClusterUnits : seat[x] = "left" => x \in departing
      /\ leaderReady \/ Start \notin hooks[Seed] => Member(Seed)
  BY <1>0 DEF JoinInv
<1>3. "error" \notin plan.faults
  BY <1>0 DEF Answered
<1>4. \A w \in ClusterUnits :
         /\ Member(w) => Member(w)' \/ w \in departing
         /\ seat'[w] = "left" => w \in departing
  <2>1. CASE UNCHANGED seat
    BY <1>2, <2>1 DEF Member
  <2>2. CASE Bootstrap(u)
    BY <1>2, <2>2, MembershipAssumption DEF Bootstrap, Member, NoCluster, MembershipTypeOK
  <2>3. CASE token[u] \in ClusterUnits /\ seat' = [seat EXCEPT ![u] = token[u]]
    BY <1>2, <2>3, MembershipAssumption DEF Member, NoCluster, MembershipTypeOK
  <2>4. CASE \E x \in ClusterUnits :
                /\ seat' = [seat EXCEPT ![x] = "left"]
                /\ <<"departed", x>> \in hooks[u] \/ <<"remove", x>> \in hooks[u]
    <3>1. PICK x \in ClusterUnits :
                  seat' = [seat EXCEPT ![x] = "left"] /\ x \in departing
      BY <1>2, <2>4
    <3> QED
      BY <1>2, <3>1 DEF Member, MembershipTypeOK
  <2> QED
    BY <2>1, <2>2, <2>3, <2>4, Seats
<1>5. leaderReady' \/ Start \notin hooks'[Seed] => Member(Seed)'
  <2>1. CASE leaderReady \/ Start \notin hooks[Seed]
    BY <1>1, <1>2, <1>4, <2>1
  <2>2. CASE ~ leaderReady /\ leaderReady'
    <3>1. u = Seed /\ Bootstrap(Seed)
      BY <1>1, <2>2, Seats DEF Bootstraps
    <3> QED
      BY <1>1, <3>1, MembershipAssumption DEF Bootstrap, Member, NoCluster, MembershipTypeOK
  <2>3. CASE Start \in hooks[Seed] /\ Start \notin hooks'[Seed]
    <3>1. Configure(Seed, Start)
      BY <2>3, HooksLeft
    <3> QED
      BY <1>1, <1>2, <1>3, <2>3, <3>1, SeedStarts
  <2> QED
    BY <2>1, <2>2, <2>3
<1>6. \A w \in ClusterUnits : joined'[w] => w \in departing \/ Member(w)'
  <2> SUFFICES ASSUME NEW w \in ClusterUnits, joined'[w], w \notin departing
               PROVE  Member(w)'
    OBVIOUS
  <2>1. CASE joined[w]
    BY <1>2, <1>4, <2>1
  <2>2. CASE w = Seed /\ Start \notin hooks[Seed]
    BY <1>2, <1>4, <2>2
  <2> QED
    BY <1>1, <1>3, <2>1, <2>2, Joins
<1>7. \A v, x \in ClusterUnits :
         <<"departed", x>> \in hooks'[v] \/ <<"remove", x>> \in hooks'[v]
             => x \in departing
  BY <1>2, HooksLeft
<1> QED
  BY <1>0, <1>4, <1>5, <1>6, <1>7 DEF JoinInv

LEMMA OperatorJoin ==
    ASSUME MembershipTypeOK, ClusterInv, JoinInv, NEW u \in ClusterUnits,
           \/ AddUnit(u) \/ RemoveUnit(u) \/ UnitGone(u)
           \/ Elect(u) \/ ClusterConfigChanged(u)
    PROVE  JoinInv'
<1> DEFINE Gone(x, H) == <<"departed", x>> \in H \/ <<"remove", x>> \in H
<1>0. UNCHANGED <<leaderReady, joined, seat, plan>>
  BY DEF AddUnit, RemoveUnit, UnitGone, Elect, ClusterConfigChanged
<1> SUFFICES ASSUME Answered PROVE JoinInv'
  BY <1>0 DEF JoinInv, Answered
<1>1. Seed \notin departing /\ Seed \in ClusterUnits
  BY MembershipAssumption DEF ClusterInv, LeaderStays, Answered
<1>2. /\ \A w \in ClusterUnits : joined[w] => w \in departing \/ Member(w)
      /\ \A v, x \in ClusterUnits : Gone(x, hooks[v]) => x \in departing
      /\ \A x \in ClusterUnits : seat[x] = "left" => x \in departing
      /\ leaderReady \/ Start \notin hooks[Seed] => Member(Seed)
  BY DEF JoinInv
<1>3. departing \subseteq departing'
  BY DEF AddUnit, RemoveUnit, UnitGone, Elect, ClusterConfigChanged
<1>4. /\ Start \in hooks[Seed] => Start \in hooks'[Seed]
      /\ \A v, x \in ClusterUnits : Gone(x, hooks'[v]) => x \in departing'
  <2> USE MembershipAssumption DEF Start, Config
  <2>1. CASE AddUnit(u)
    <3> DEFINE First == {Start} \cup ({"changed"} \X present)
               Other == {<<"changed", u>>}
    <3>1. /\ \A y : ~ Gone(y, First) /\ ~ Gone(y, Other)
          /\ Start \in First
      OBVIOUS
    <3>2. hooks' = [v \in ClusterUnits |-> IF v = u THEN First
                                           ELSE IF v \in present THEN hooks[v] \cup Other
                                           ELSE hooks[v]]
      BY <2>1 DEF AddUnit
    <3> HIDE DEF First, Other
    <3> QED
      BY <1>1, <1>2, <1>3, <3>1, <3>2
  <2>2. CASE RemoveUnit(u)
    <3> DEFINE gone == <<"departed", u>>
               changed == <<"changed", u>>
    <3>1. PICK kept \in BOOLEAN :
             hooks' = [v \in ClusterUnits |->
                         IF v \in present
                           THEN (IF kept THEN hooks[v] ELSE hooks[v] \ {changed}) \cup {gone}
                           ELSE hooks[v]]
      BY <2>2 DEF RemoveUnit
    <3>2. departing' = departing \cup {u}
      BY <2>2 DEF RemoveUnit
    <3>3. /\ changed # Start
          /\ \A y : <<"departed", y>> = gone => y = u
          /\ \A y : <<"remove", y>> # gone
      OBVIOUS
    <3> HIDE DEF gone, changed
    <3>4. \A v \in ClusterUnits : hooks'[v] \subseteq hooks[v] \cup {gone}
      BY <3>1
    <3>5. Start \in hooks[Seed] => Start \in hooks'[Seed]
      BY <1>1, <3>1, <3>3
    <3>6. ASSUME NEW v \in ClusterUnits, NEW x \in ClusterUnits, Gone(x, hooks'[v])
          PROVE  x \in departing'
      <4>1. Gone(x, hooks[v]) \/ x = u
        BY <3>3, <3>4, <3>6, Zenon
      <4> QED
        BY <1>2, <3>2, <4>1
    <3> QED
      BY <3>5, <3>6
  <2>3. CASE UnitGone(u)
    BY <1>1, <1>2, <2>3 DEF UnitGone, MembershipTypeOK
  <2>4. CASE Elect(u)
    BY <1>2, <2>4 DEF Elect
  <2>5. CASE ClusterConfigChanged(u)
    <3>1. \A y : <<"departed", y>> # Config /\ <<"remove", y>> # Config
      OBVIOUS
    <3>2. hooks' = [hooks EXCEPT ![u] = @ \cup {Config}] /\ UNCHANGED departing
      BY <2>5 DEF ClusterConfigChanged
    <3> HIDE DEF Config
    <3> QED
      BY <1>2, <3>1, <3>2 DEF MembershipTypeOK
  <2> QED
    BY <2>1, <2>2, <2>3, <2>4, <2>5
<1>5. \A w \in ClusterUnits : Member(w)' = Member(w)
  BY <1>0 DEF Member
<1> QED
  BY <1>0, <1>1, <1>2, <1>3, <1>4, <1>5 DEF JoinInv

LEMMA JoinInvAlways == MembershipSpec => [](ClusterInv /\ JoinInv)
<1>1. MembershipInit => ClusterInv /\ JoinInv
  <2> SUFFICES ASSUME MembershipInit PROVE ClusterInv /\ JoinInv
    OBVIOUS
  <2>1. \A u \in ClusterUnits : seat[u] = "none" /\ ~ Member(u) /\ ~ joined[u]
    BY DEF MembershipInit, Member, NoCluster
  <2>2. /\ Start \in hooks[Seed]
        /\ \A u, x \in ClusterUnits :
              <<"departed", x>> \notin hooks[u] /\ <<"remove", x>> \notin hooks[u]
    BY MembershipAssumption DEF MembershipInit, Start
  <2> QED
    BY <2>1, <2>2 DEF MembershipInit, ClusterInv, JoinInv
<1>2. /\ MembershipTypeOK /\ ClusterInv /\ JoinInv
      /\ [MembershipNext]_membershipVars
      => ClusterInv' /\ JoinInv'
  <2> SUFFICES ASSUME MembershipTypeOK, ClusterInv, JoinInv,
                      [MembershipNext]_membershipVars
               PROVE  ClusterInv' /\ JoinInv'
    OBVIOUS
  <2>1. CASE UNCHANGED membershipVars
    BY <2>1 DEF membershipVars, ClusterInv, Careful, LeaderStays, JoinInv, Answered,
                Member
  <2> QED
    BY <2>1, HookCluster, OperatorCluster, HookJoin, OperatorJoin DEF MembershipNext
<1> QED
  BY <1>1, <1>2, MembershipTypeCorrect, PTL DEF MembershipSpec

\* A unit that has stored that it joined is a member of the cluster until the
\* operator removes it, for any number of units and whatever hooks die, as long
\* as the first leader stays and the daemons answer.
THEOREM JoinedIsMemberHolds == MembershipSpec => []JoinedIsMember
<1>1. MembershipTypeOK /\ JoinInv => JoinedIsMember
  BY DEF JoinInv, JoinedIsMember, Answered, Staying, MembershipTypeOK
<1> QED
  BY <1>1, JoinInvAlways, MembershipTypeCorrect, PTL

-----------------------------------------------------------------------------
(* The members are the units.                                              *)

ChangedOf(x) == <<"changed", x>>
AddOf(x) == <<"add", x>>
Gone(x, H) == <<"departed", x>> \in H \/ <<"remove", x>> \in H

LEMMA EventsDiffer ==
    /\ \A x, y : AddOf(x) # ChangedOf(y) /\ (AddOf(x) = AddOf(y) => x = y)
    /\ \A x, y : ChangedOf(x) = ChangedOf(y) => x = y
    /\ \A x : AddOf(x) \notin {Start, Config} /\ ChangedOf(x) \notin {Start, Config}
    /\ \A x, y : /\ AddOf(x) \notin {<<"departed", y>>, <<"remove", y>>}
                 /\ ChangedOf(x) \notin {<<"departed", y>>, <<"remove", y>>}
    /\ Start # Config
    /\ \A y : <<"departed", y>> \notin {Start, Config} /\ <<"remove", y>> \notin {Start, Config}
    /\ \A x, y : /\ <<"departed", x>> # <<"remove", y>>
                 /\ <<"departed", x>> = <<"departed", y>> => x = y
                 /\ <<"remove", x>> = <<"remove", y>> => x = y
BY DEF AddOf, ChangedOf, Start, Config

\* Where the leader stays and the daemons answer: there are no tokens before the
\* leader is ready and no deferred requests for one afterwards, and a unit that
\* has left is a member only while the leader has yet to remove it.
Places ==
    Answered =>
        /\ Seed \in present
        /\ \A v, x \in ClusterUnits : AddOf(x) \in hooks[v] =>
              v = Seed /\ ~ leaderReady /\ Start \notin hooks[Seed]
        /\ ~ leaderReady =>
              \A x \in ClusterUnits : token[x] = "none" /\ (x # Seed => ~ Member(x))
        /\ \A x \in ClusterUnits \ (present \cup departing) : ~ Member(x)
        /\ \A x \in departing :
              \/ Gone(x, hooks[Seed])
              \/ token[x] = "none" /\ ChangedOf(x) \notin hooks[Seed] /\ ~ Member(x)

\* What the other invariants say of such a state.
LEMMA Settled ==
    ASSUME MembershipTypeOK, ClusterInv, JoinInv, Places, Answered
    PROVE  /\ leader = Seed /\ Seed \notin departing /\ Seed \in ClusterUnits
           /\ \A x \in ClusterUnits : Member(x) => seat[x] = Seed
           /\ leaderReady \/ Start \notin hooks[Seed] => Member(Seed) /\ seat[Seed] = Seed
           /\ \A x \in ClusterUnits \ departing : seat[x] # "left"
           /\ \A x \in ClusterUnits \ departing : joined[x] => Member(x)
           /\ "error" \notin plan.faults
           /\ departing \subseteq ClusterUnits /\ present \subseteq ClusterUnits
<1>1. leader = Seed /\ Seed \notin departing /\ Seed \in ClusterUnits
  BY MembershipAssumption DEF ClusterInv, LeaderStays, Answered
<1>2. \A x \in ClusterUnits : Member(x) => seat[x] = Seed
  BY DEF ClusterInv, LeaderStays, Answered, Member, NoCluster
<1>3. leaderReady \/ Start \notin hooks[Seed] => Member(Seed)
  BY DEF JoinInv
<1> QED
  BY <1>1, <1>2, <1>3 DEF JoinInv, Answered, MembershipTypeOK

\* A hook that handles e at u leaves the events of the others.
LEMMA HandleEffect ==
    ASSUME MembershipTypeOK, NEW u \in ClusterUnits, NEW e, NEW sent, Handle(u, e, sent)
    PROVE  /\ e \in hooks[u] /\ hooks'[u] = hooks[u] \ {e}
           /\ \A v \in ClusterUnits \ {u} :
                 /\ hooks[v] \subseteq hooks'[v] /\ hooks'[v] \subseteq hooks[v] \cup sent
                 /\ v \in present => sent \subseteq hooks'[v]
BY DEF Handle

LEMMA DeferEffect ==
    ASSUME MembershipTypeOK, NEW u \in ClusterUnits, NEW e, NEW d, HandleAndDefer(u, e, d)
    PROVE  /\ e \in hooks[u] /\ hooks'[u] = (hooks[u] \ {e}) \cup {d}
           /\ \A v \in ClusterUnits \ {u} : hooks'[v] = hooks[v]
BY DEF HandleAndDefer, MembershipTypeOK

\* What a hook must do, and may do, to keep Places.
LEMMA PlacesKept ==
    ASSUME MembershipTypeOK, ClusterInv, JoinInv, Places, Answered,
           UNCHANGED <<present, departing>>,
           \A v, x \in ClusterUnits : AddOf(x) \in hooks'[v] =>
              \/ AddOf(x) \in hooks[v]
              \/ v = Seed /\ ~ leaderReady' /\ Start \notin hooks'[Seed],
           leaderReady' => leaderReady \/ Start \in hooks[Seed],
           leaderReady => leaderReady',
           Start \in hooks'[Seed] => Start \in hooks[Seed],
           \A x \in ClusterUnits : Member(x)' =>
              Member(x) \/ x = Seed \/ (x \in present /\ token[x] # "none"),
           \A x \in ClusterUnits : token'[x] # "none" =>
              token[x] # "none" \/ (leaderReady /\ ChangedOf(x) \in hooks[Seed]),
           \A x \in departing : Gone(x, hooks[Seed]) =>
              \/ Gone(x, hooks'[Seed])
              \/ token'[x] = "none" /\ ChangedOf(x) \notin hooks'[Seed] /\ ~ Member(x)',
           \A x \in departing : ChangedOf(x) \in hooks'[Seed] =>
              ChangedOf(x) \in hooks[Seed] \/ token[x] # "none"
    PROVE  Places'
<1>0. leader = Seed /\ Seed \notin departing /\ departing \subseteq ClusterUnits
  BY Settled
<1>1. /\ Seed \in present
      /\ \A v, x \in ClusterUnits : AddOf(x) \in hooks[v] =>
            v = Seed /\ ~ leaderReady /\ Start \notin hooks[Seed]
      /\ ~ leaderReady =>
            \A x \in ClusterUnits : token[x] = "none" /\ (x # Seed => ~ Member(x))
      /\ \A x \in ClusterUnits \ (present \cup departing) : ~ Member(x)
      /\ \A x \in departing :
            \/ Gone(x, hooks[Seed])
            \/ token[x] = "none" /\ ChangedOf(x) \notin hooks[Seed] /\ ~ Member(x)
  BY DEF Places
<1>2. \A v, x \in ClusterUnits : AddOf(x) \in hooks'[v] =>
         v = Seed /\ ~ leaderReady' /\ Start \notin hooks'[Seed]
  BY <1>1
<1>3. ~ leaderReady' =>
         \A x \in ClusterUnits : token'[x] = "none" /\ (x # Seed => ~ Member(x)')
  BY <1>1
<1>4. \A x \in ClusterUnits \ (present \cup departing) : ~ Member(x)'
  <2> SUFFICES ASSUME NEW x \in ClusterUnits, x \notin present, x \notin departing
               PROVE  ~ Member(x)'
    OBVIOUS
  <2> QED
    BY <1>1
<1>5. \A x \in departing :
         \/ Gone(x, hooks'[Seed])
         \/ token'[x] = "none" /\ ChangedOf(x) \notin hooks'[Seed] /\ ~ Member(x)'
  <2> SUFFICES ASSUME NEW x \in departing, ~ Gone(x, hooks[Seed])
               PROVE  token'[x] = "none" /\ ChangedOf(x) \notin hooks'[Seed] /\ ~ Member(x)'
    OBVIOUS
  <2>1. token[x] = "none" /\ ChangedOf(x) \notin hooks[Seed] /\ ~ Member(x)
    BY <1>1
  <2> QED
    BY <1>0, <2>1
<1> QED
  BY <1>1, <1>2, <1>3, <1>4, <1>5 DEF Places

LEMMA PlacesConfigure ==
    ASSUME MembershipTypeOK, ClusterInv, JoinInv, Places, Answered,
           NEW u \in ClusterUnits, NEW e, Configure(u, e)
    PROVE  Places'
<1> USE DEF Gone, AppChanged
<1>0. UNCHANGED <<present, departing, token>> /\ e \in {Start, Config}
  BY DEF Configure
<1>1. /\ leader = Seed /\ Seed \in ClusterUnits /\ "error" \notin plan.faults
      /\ leaderReady \/ Start \notin hooks[Seed] => Member(Seed)
      /\ departing \subseteq ClusterUnits
  BY Settled
<1>2. \/ UNCHANGED hooks
      \/ Handle(u, e, {}) \/ Handle(u, e, AppChanged)
  BY DEF Configure
<1>3. \A v, x \in ClusterUnits :
         /\ hooks'[v] \subseteq hooks[v] \cup {ChangedOf("app")}
         /\ Gone(x, hooks[v]) => Gone(x, hooks'[v])
  <2>1. \A v \in ClusterUnits : /\ hooks'[v] \subseteq hooks[v] \cup {ChangedOf("app")}
                                /\ hooks[v] \ {e} \subseteq hooks'[v]
    BY <1>2, HandleEffect DEF ChangedOf
  <2>2. \A x : <<"departed", x>> # e /\ <<"remove", x>> # e
    BY <1>0, EventsDiffer
  <2> QED
    BY <2>1, <2>2, Zenon
<1>4. "app" \notin ClusterUnits
  BY MembershipAssumption
<1>5. \/ UNCHANGED <<leaderReady, seat>>
      \/ u = Seed /\ ~ leaderReady /\ Bootstrap(Seed)
  BY <1>1 DEF Configure, Bootstraps, Fault
<1>6. /\ leaderReady' => leaderReady \/ Start \in hooks[Seed]
      /\ leaderReady => leaderReady'
      /\ \A x \in ClusterUnits : Member(x)' => Member(x) \/ x = Seed
  <2>1. CASE UNCHANGED <<leaderReady, seat>>
    BY <2>1 DEF Member
  <2>2. CASE ~ leaderReady /\ Bootstrap(Seed)
    <3>1. seat[Seed] = "none" /\ seat' = [seat EXCEPT ![Seed] = Seed]
      BY <2>2 DEF Bootstrap
    <3>2. ~ Member(Seed)
      BY <3>1 DEF Member, NoCluster
    <3> QED
      BY <1>1, <2>2, <3>1, <3>2 DEF Member, MembershipTypeOK
  <2> QED
    BY <1>5, <2>1, <2>2
<1>7. /\ \A v, x \in ClusterUnits : AddOf(x) \in hooks'[v] => AddOf(x) \in hooks[v]
      /\ \A x \in ClusterUnits : ChangedOf(x) \in hooks'[Seed] => ChangedOf(x) \in hooks[Seed]
      /\ Start \in hooks'[Seed] => Start \in hooks[Seed]
  BY <1>1, <1>3, <1>4, EventsDiffer
<1> QED
  BY <1>0, <1>1, <1>3, <1>6, <1>7, PlacesKept

\* add_node_to_cluster at the leader, which is a member and answers
LEMMA AddNodeAnswered ==
    ASSUME MembershipTypeOK, ClusterInv, JoinInv, Places, Answered, leaderReady,
           NEW x \in ClusterUnits, NEW e, AddNode(Seed, x, e)
    PROVE  \/ /\ Handle(Seed, e, AppChanged)
              /\ token' = [token EXCEPT ![x] = Seed] /\ valid' = [valid EXCEPT ![x] = Seed]
           \/ /\ "kill" \in plan.faults /\ UNCHANGED <<hooks, token>>
              /\ valid' = [valid EXCEPT ![x] = Seed]
<1>1. Member(Seed) /\ seat[Seed] = Seed /\ "error" \notin plan.faults
  BY Settled
<1> QED
  BY <1>1 DEF AddNode, Fault

LEMMA PlacesChangedAtLeader ==
    ASSUME MembershipTypeOK, ClusterInv, JoinInv, Places, Answered,
           NEW u \in ClusterUnits, NEW x \in ClusterUnits, ChangedAtLeader(u, x)
    PROVE  Places'
<1>0. /\ UNCHANGED <<present, departing, leaderReady, seat>>
      /\ u = leader /\ Start \notin hooks[u]
  BY DEF ChangedAtLeader, Started
<1>1. u = Seed /\ Seed \in ClusterUnits /\ departing \subseteq ClusterUnits
  BY <1>0, Settled
<1>2. \/ /\ Handle(u, ChangedOf(x), {}) /\ UNCHANGED token
      \/ /\ HandleAndDefer(u, ChangedOf(x), AddOf(x)) /\ ~ leaderReady /\ UNCHANGED token
      \/ /\ Handle(u, ChangedOf(x), AppChanged) /\ leaderReady
         /\ token' = [token EXCEPT ![x] = Seed] /\ ChangedOf(x) \in hooks[u]
      \/ UNCHANGED <<hooks, token>>
  BY <1>1, AddNodeAnswered, HandleEffect DEF ChangedAtLeader, ChangedOf, AddOf
<1>3. \A y : ChangedOf(x) # <<"departed", y>> /\ ChangedOf(x) # <<"remove", y>>
  BY EventsDiffer
<1>4. AppChanged = {ChangedOf("app")} /\ "app" \notin ClusterUnits
  BY MembershipAssumption DEF AppChanged, ChangedOf
<1>5. /\ \A v \in ClusterUnits :
            hooks'[v] \subseteq hooks[v] \cup {ChangedOf("app")} \cup {AddOf(x)}
      /\ \A v, y \in ClusterUnits : Gone(y, hooks[v]) => Gone(y, hooks'[v])
  <2>1. \A v \in ClusterUnits :
           /\ hooks'[v] \subseteq hooks[v] \cup {ChangedOf("app")} \cup {AddOf(x)}
           /\ hooks[v] \ {ChangedOf(x)} \subseteq hooks'[v]
    BY <1>2, <1>4, HandleEffect, DeferEffect
  <2> QED
    BY <1>3, <2>1, Zenon DEF Gone
<1>6. \A v, y \in ClusterUnits : AddOf(y) \in hooks'[v] =>
         AddOf(y) \in hooks[v] \/ (v = Seed /\ ~ leaderReady)
  <2>1. CASE Handle(u, ChangedOf(x), {}) \/ Handle(u, ChangedOf(x), AppChanged)
    <3>1. \A v \in ClusterUnits : hooks'[v] \subseteq hooks[v] \cup {ChangedOf("app")}
      BY <1>4, <2>1, HandleEffect
    <3> QED
      BY <3>1, EventsDiffer
  <2>2. CASE HandleAndDefer(u, ChangedOf(x), AddOf(x)) /\ ~ leaderReady
    BY <1>1, <2>2, DeferEffect
  <2> QED
    BY <1>2, <2>1, <2>2
<1>7. Start \notin hooks'[Seed]
  BY <1>0, <1>1, <1>5, EventsDiffer
<1>8. \A y \in ClusterUnits : ChangedOf(y) \in hooks'[Seed] => ChangedOf(y) \in hooks[Seed]
  BY <1>1, <1>4, <1>5, EventsDiffer
<1>9. \A y \in ClusterUnits : token'[y] # "none" =>
         token[y] # "none" \/ (leaderReady /\ ChangedOf(y) \in hooks[Seed])
  BY <1>1, <1>2 DEF MembershipTypeOK
<1>10. \A y \in ClusterUnits : Member(y)' = Member(y)
  BY <1>0 DEF Member
<1> QED
  BY <1>0, <1>1, <1>5, <1>6, <1>7, <1>8, <1>9, <1>10, PlacesKept

LEMMA PlacesAddAgain ==
    ASSUME MembershipTypeOK, ClusterInv, JoinInv, Places, Answered,
           NEW u \in ClusterUnits, NEW x \in ClusterUnits, AddAgain(u, x)
    PROVE  FALSE
<1>1. leaderReady /\ AddOf(x) \in hooks[u]
  BY DEF AddAgain, AddNode, Handle, HandleAndDefer, AddOf
<1> QED
  BY <1>1 DEF Places

LEMMA PlacesChanged ==
    ASSUME MembershipTypeOK, ClusterInv, JoinInv, Places, Answered,
           NEW u \in ClusterUnits, NEW x \in ClusterUnits \cup {"app"}, Changed(u, x)
    PROVE  Places'
<1> DEFINE e == ChangedOf(x)
<1>0. /\ UNCHANGED <<present, departing, leaderReady, token>>
      /\ u \in present
  BY DEF Changed, Started
<1>1. Seed \in ClusterUnits /\ departing \subseteq ClusterUnits
  BY Settled
<1>2. \/ Handle(u, e, {}) /\ UNCHANGED seat
      \/ UNCHANGED hooks /\ token[u] # "none" /\ seat' = [seat EXCEPT ![u] = token[u]]
      \/ /\ Handle(u, e, {}) \/ Handle(u, e, {ChangedOf(u)})
         /\ token[u] # "none" /\ seat' = [seat EXCEPT ![u] = token[u]]
  BY DEF Changed, Join, ChangedOf
<1>3. \A y : e # <<"departed", y>> /\ e # <<"remove", y>>
  BY EventsDiffer
<1> HIDE DEF e
<1>4. /\ \A v \in ClusterUnits : hooks'[v] \subseteq hooks[v] \cup {ChangedOf(u)}
      /\ \A v, y \in ClusterUnits : Gone(y, hooks[v]) => Gone(y, hooks'[v])
  <2>1. CASE Handle(u, e, {}) \/ UNCHANGED hooks
    <3>1. \A v \in ClusterUnits : hooks'[v] \subseteq hooks[v]
      BY <2>1, HandleEffect
    <3>2. \A v \in ClusterUnits : hooks[v] \ {e} \subseteq hooks'[v]
      BY <2>1, HandleEffect
    <3> QED
      BY <1>3, <3>1, <3>2, Zenon DEF Gone
  <2>2. CASE Handle(u, e, {ChangedOf(u)})
    <3>1. \A v \in ClusterUnits : /\ hooks'[v] \subseteq hooks[v] \cup {ChangedOf(u)}
                                  /\ hooks[v] \ {e} \subseteq hooks'[v]
      BY <2>2, HandleEffect
    <3> QED
      BY <1>3, <3>1, Zenon DEF Gone
  <2> QED
    BY <1>2, <2>1, <2>2
<1>5. \A v, y \in ClusterUnits : AddOf(y) \in hooks'[v] => AddOf(y) \in hooks[v]
  BY <1>4, EventsDiffer
<1>6. Start \in hooks'[Seed] => Start \in hooks[Seed]
  BY <1>1, <1>4, EventsDiffer
<1>7. \A y \in ClusterUnits : ChangedOf(y) \in hooks'[Seed] =>
         ChangedOf(y) \in hooks[Seed] \/ token[y] # "none"
  <2>1. CASE \A v \in ClusterUnits : hooks'[v] \subseteq hooks[v]
    BY <1>1, <2>1
  <2>2. CASE token[u] # "none"
    BY <1>1, <1>4, <2>2, EventsDiffer
  <2> QED
    BY <1>2, <2>1, <2>2, HandleEffect
<1>8. \A y \in ClusterUnits : Member(y)' => Member(y) \/ (y \in present /\ token[y] # "none")
  BY <1>0, <1>2 DEF Member, MembershipTypeOK
<1> QED
  BY <1>0, <1>1, <1>4, <1>5, <1>6, <1>7, <1>8, PlacesKept

LEMMA PlacesDeparted ==
    ASSUME MembershipTypeOK, ClusterInv, JoinInv, Places, Answered,
           NEW u \in ClusterUnits, NEW x \in ClusterUnits, NEW k \in {"departed", "remove"},
           Departed(u, x, <<k, x>>)
    PROVE  Places'
<1> DEFINE e == <<k, x>>
<1>0. /\ UNCHANGED <<present, departing, leaderReady>>
      /\ ChangedOf(x) \notin hooks[u] /\ Start \notin hooks[u]
  BY DEF Departed, Started, ChangedOf
<1>1. /\ leader = Seed /\ Seed \notin departing /\ Seed \in ClusterUnits
      /\ departing \subseteq ClusterUnits /\ "error" \notin plan.faults
      /\ \A y \in ClusterUnits : Member(y) => seat[y] = Seed
      /\ leaderReady \/ Start \notin hooks[Seed] => Member(Seed) /\ seat[Seed] = Seed
  BY Settled
<1>2. /\ \A y : e # Start /\ e # ChangedOf(y) /\ e # AddOf(y)
      /\ \A y : e = <<"departed", y>> \/ e = <<"remove", y>> => y = x
      /\ e \in {<<"departed", x>>, <<"remove", x>>}
  BY DEF Start, ChangedOf, AddOf
<1>3. \/ \* the event waits, or leaves another behind
         /\ UNCHANGED hooks \/ HandleAndDefer(u, e, <<"remove", x>>)
         /\ UNCHANGED token /\ (UNCHANGED seat \/ RemoveMember(u, x))
      \/ /\ Handle(u, e, {}) /\ u # Seed
         /\ UNCHANGED token /\ (UNCHANGED seat \/ RemoveMember(u, x))
      \/ /\ Handle(u, e, AppChanged) /\ u = Seed
         /\ token' = [token EXCEPT ![x] = "none"] /\ RemoveMember(u, x)
  <2>1. CASE ~ Concerned(u, x)
    BY <1>1, <2>1 DEF Departed, Concerned
  <2>2. CASE Concerned(u, x) /\ ~ leaderReady
    BY <2>2 DEF Departed
  <2>3. CASE RemoveNode(u, x, e)
    <3>1. u = Seed => Member(u)
      BY <1>0, <1>1
    <3> QED
      BY <1>1, <2>3, <3>1 DEF RemoveNode, Fault
  <2> QED
    BY <2>1, <2>2, <2>3 DEF Departed
<1>4. AppChanged = {ChangedOf("app")} /\ "app" \notin ClusterUnits
  BY MembershipAssumption DEF AppChanged, ChangedOf
<1> HIDE DEF e
<1>5. \A v \in ClusterUnits :
         /\ hooks'[v] \subseteq hooks[v] \cup {ChangedOf("app"), <<"remove", x>>}
         /\ hooks[v] \ {e} \subseteq hooks'[v]
  BY <1>3, <1>4, HandleEffect, DeferEffect
<1>6. /\ \A v, y \in ClusterUnits : AddOf(y) \in hooks'[v] => AddOf(y) \in hooks[v]
      /\ \A y \in ClusterUnits : ChangedOf(y) \in hooks'[Seed] => ChangedOf(y) \in hooks[Seed]
      /\ Start \in hooks'[Seed] => Start \in hooks[Seed]
  BY <1>1, <1>4, <1>5, EventsDiffer
<1>7. RemoveMember(u, x) => seat' = [seat EXCEPT ![x] = "left"] \/ UNCHANGED seat
  BY DEF RemoveMember
<1>8. \A y \in ClusterUnits : Member(y)' => Member(y)
  BY <1>3, <1>7 DEF Member, NoCluster, MembershipTypeOK
<1>9. \A y \in ClusterUnits : token'[y] # "none" => token[y] # "none"
  BY <1>3 DEF MembershipTypeOK
<1>10. ASSUME NEW y \in departing, Gone(y, hooks[Seed])
       PROVE  \/ Gone(y, hooks'[Seed])
              \/ token'[y] = "none" /\ ChangedOf(y) \notin hooks'[Seed] /\ ~ Member(y)'
  <2>1. CASE y # x
    <3>1. <<"departed", y>> # e /\ <<"remove", y>> # e
      BY <1>2, <2>1
    <3> QED
      BY <1>1, <1>5, <1>10, <3>1, Zenon DEF Gone
  <2>2. CASE UNCHANGED hooks \/ u # Seed
    <3>1. hooks[Seed] \subseteq hooks'[Seed]
      BY <1>1, <1>3, <2>2, HandleEffect, DeferEffect
    <3> QED
      BY <1>10, <3>1, Zenon DEF Gone
  <2>3. CASE y = x /\ HandleAndDefer(u, e, <<"remove", x>>) /\ u = Seed
    <3>1. <<"remove", x>> \in hooks'[Seed]
      BY <1>1, <2>3, DeferEffect
    <3> QED
      BY <2>3, <3>1 DEF Gone
  <2>4. CASE y = x /\ u = Seed /\ token' = [token EXCEPT ![x] = "none"] /\ RemoveMember(u, x)
    <3>1. token'[x] = "none"
      BY <2>4 DEF MembershipTypeOK
    <3>2. ChangedOf(x) \notin hooks'[Seed]
      BY <1>0, <1>6, <2>4
    <3>3. ~ Member(x)'
      <4>1. Member(u) /\ (Member(x) => seat[x] = seat[u])
        BY <1>0, <1>1, <2>4
      <4>2. seat'[x] = IF seat[x] = seat[u] THEN "left" ELSE seat[x]
        BY <2>4, <4>1 DEF RemoveMember, MembershipTypeOK
      <4> QED
        BY <4>1, <4>2 DEF Member, NoCluster
    <3> QED
      BY <2>4, <3>1, <3>2, <3>3
  <2> QED
    BY <1>3, <2>1, <2>2, <2>3, <2>4
<1> QED
  BY <1>0, <1>1, <1>6, <1>8, <1>9, <1>10, PlacesKept

LEMMA PlacesHook ==
    ASSUME MembershipTypeOK, ClusterInv, JoinInv, Places, Answered,
           NEW u \in ClusterUnits, MembershipHook(u)
    PROVE  Places'
BY PlacesConfigure, PlacesChangedAtLeader, PlacesAddAgain, PlacesChanged, PlacesDeparted
   DEF MembershipHook

\* What a change of the units must keep.
LEMMA PlacesMoved ==
    ASSUME Places, Answered,
           UNCHANGED <<leaderReady, token, seat>>, Seed \in present',
           present \cup departing \subseteq present' \cup departing',
           \A v, x \in ClusterUnits : AddOf(x) \in hooks'[v] => AddOf(x) \in hooks[v],
           Start \in hooks'[Seed] => Start \in hooks[Seed],
           \A x \in departing' :
              \/ Gone(x, hooks'[Seed])
              \/ /\ x \in departing
                 /\ Gone(x, hooks[Seed]) => Gone(x, hooks'[Seed])
                 /\ ChangedOf(x) \in hooks'[Seed] => ChangedOf(x) \in hooks[Seed]
    PROVE  Places'
<1>1. \A x : Member(x)' = Member(x)
  BY DEF Member
<1>2. /\ \A v, x \in ClusterUnits : AddOf(x) \in hooks[v] =>
            v = Seed /\ ~ leaderReady /\ Start \notin hooks[Seed]
      /\ ~ leaderReady =>
            \A x \in ClusterUnits : token[x] = "none" /\ (x # Seed => ~ Member(x))
      /\ \A x \in ClusterUnits \ (present \cup departing) : ~ Member(x)
      /\ \A x \in departing :
            \/ Gone(x, hooks[Seed])
            \/ token[x] = "none" /\ ChangedOf(x) \notin hooks[Seed] /\ ~ Member(x)
  BY DEF Places
<1>3. \A v, x \in ClusterUnits : AddOf(x) \in hooks'[v] =>
         v = Seed /\ ~ leaderReady' /\ Start \notin hooks'[Seed]
  BY <1>2
<1>4. ~ leaderReady' =>
         \A x \in ClusterUnits : token'[x] = "none" /\ (x # Seed => ~ Member(x)')
  BY <1>1, <1>2
<1>5. \A x \in ClusterUnits \ (present' \cup departing') : ~ Member(x)'
  BY <1>1, <1>2
<1>6. \A x \in departing' :
         \/ Gone(x, hooks'[Seed])
         \/ token'[x] = "none" /\ ChangedOf(x) \notin hooks'[Seed] /\ ~ Member(x)'
  BY <1>1, <1>2
<1> QED
  BY <1>3, <1>4, <1>5, <1>6 DEF Places

LEMMA PlacesOperator ==
    ASSUME MembershipTypeOK, ClusterInv, JoinInv, Places, Answered,
           NEW u \in ClusterUnits,
           \/ AddUnit(u) \/ RemoveUnit(u) \/ UnitGone(u)
           \/ Elect(u) \/ ClusterConfigChanged(u)
    PROVE  Places'
<1>0. UNCHANGED <<leaderReady, token, seat>>
  BY DEF AddUnit, RemoveUnit, UnitGone, Elect, ClusterConfigChanged
<1>1. leader = Seed /\ Seed \notin departing /\ Seed \in ClusterUnits
  BY Settled
<1>2. Seed \in present
  BY DEF Places
<1>3. CASE AddUnit(u)
  <2> DEFINE First == {Start} \cup ({"changed"} \X present)
  <2>1. \A x \in ClusterUnits : AddOf(x) \notin First
    BY DEF AddOf, Start
  <2>2. hooks' = [v \in ClusterUnits |-> IF v = u THEN First
                                         ELSE IF v \in present THEN hooks[v] \cup {ChangedOf(u)}
                                         ELSE hooks[v]]
    BY <1>3 DEF AddUnit, ChangedOf
  <2> HIDE DEF First
  <2>3. u \notin present /\ u \notin departing /\ present' = present \cup {u} /\ UNCHANGED departing
    BY <1>3 DEF AddUnit
  <2>4. hooks'[Seed] = hooks[Seed] \cup {ChangedOf(u)}
    BY <1>1, <1>2, <2>2, <2>3
  <2>5. \A v, x \in ClusterUnits : AddOf(x) \in hooks'[v] => AddOf(x) \in hooks[v]
    BY <2>1, <2>2, EventsDiffer
  <2>6. Start \in hooks'[Seed] => Start \in hooks[Seed]
    BY <2>4, EventsDiffer
  <2>7. \A x \in departing : /\ Gone(x, hooks[Seed]) => Gone(x, hooks'[Seed])
                             /\ ChangedOf(x) \in hooks'[Seed] => ChangedOf(x) \in hooks[Seed]
    BY <2>3, <2>4, EventsDiffer DEF Gone
  <2> QED
    BY <1>0, <1>2, <2>3, <2>5, <2>6, <2>7, PlacesMoved
<1>4. CASE RemoveUnit(u)
  <2> DEFINE gone == <<"departed", u>>
  <2>1. PICK kept \in BOOLEAN :
           hooks' = [v \in ClusterUnits |->
                       IF v \in present
                         THEN (IF kept THEN hooks[v] ELSE hooks[v] \ {ChangedOf(u)}) \cup {gone}
                         ELSE hooks[v]]
    BY <1>4 DEF RemoveUnit, ChangedOf
  <2>2. u \in present /\ departing' = departing \cup {u} /\ UNCHANGED present
    BY <1>4 DEF RemoveUnit
  <2>3. /\ \A y : gone # AddOf(y) /\ gone # ChangedOf(y)
        /\ gone # Start
        /\ \A y : <<"departed", y>> # ChangedOf(u) /\ <<"remove", y>> # ChangedOf(u)
    BY EventsDiffer
  <2>4. Gone(u, {gone})
    BY DEF Gone
  <2> HIDE DEF gone
  <2>5. \A v \in ClusterUnits : /\ hooks'[v] \subseteq hooks[v] \cup {gone}
                                /\ hooks[v] \ {ChangedOf(u)} \subseteq hooks'[v]
    BY <2>1
  <2>6. gone \in hooks'[Seed]
    BY <1>1, <1>2, <2>1
  <2>7. /\ Gone(u, hooks'[Seed])
        /\ \A x : Gone(x, hooks[Seed]) => Gone(x, hooks'[Seed])
        /\ \A x : ChangedOf(x) \in hooks'[Seed] => ChangedOf(x) \in hooks[Seed]
    BY <1>1, <2>3, <2>4, <2>5, <2>6, Zenon DEF Gone
  <2>8. /\ \A v, x \in ClusterUnits : AddOf(x) \in hooks'[v] => AddOf(x) \in hooks[v]
        /\ Start \in hooks'[Seed] => Start \in hooks[Seed]
    BY <1>1, <2>3, <2>5
  <2> QED
    BY <1>0, <1>2, <2>2, <2>7, <2>8, PlacesMoved
<1>5. CASE UnitGone(u)
  <2>1. /\ u \in departing /\ UNCHANGED departing /\ present' = present \ {u}
        /\ hooks' = [hooks EXCEPT ![u] = {}]
    BY <1>5 DEF UnitGone
  <2>2. u # Seed /\ Seed \in present'
    BY <1>1, <1>2, <2>1
  <2>3. \A v \in ClusterUnits : hooks'[v] = IF v = u THEN {} ELSE hooks[v]
    BY <2>1 DEF MembershipTypeOK
  <2>4. hooks'[Seed] = hooks[Seed]
    BY <1>1, <2>2, <2>3
  <2>5. \A v, x \in ClusterUnits : AddOf(x) \in hooks'[v] => AddOf(x) \in hooks[v]
    BY <2>3
  <2> QED
    BY <1>0, <2>1, <2>2, <2>4, <2>5, PlacesMoved
<1>6. CASE Elect(u)
  BY <1>0, <1>1, <1>6, MembershipAssumption DEF Elect, Fault, Answered
<1>7. CASE ClusterConfigChanged(u)
  <2>1. \A v \in ClusterUnits : /\ hooks[v] \subseteq hooks'[v]
                                /\ hooks'[v] \subseteq hooks[v] \cup {Config}
    BY <1>7 DEF ClusterConfigChanged, MembershipTypeOK
  <2>2. UNCHANGED <<present, departing>>
    BY <1>7 DEF ClusterConfigChanged
  <2>3. /\ \A v, x \in ClusterUnits : AddOf(x) \in hooks'[v] => AddOf(x) \in hooks[v]
        /\ \A x : ChangedOf(x) \in hooks'[Seed] => ChangedOf(x) \in hooks[Seed]
        /\ Start \in hooks'[Seed] => Start \in hooks[Seed]
        /\ \A x : Gone(x, hooks[Seed]) => Gone(x, hooks'[Seed])
    BY <1>1, <2>1, EventsDiffer DEF Gone
  <2> QED
    BY <1>0, <1>2, <2>2, <2>3, PlacesMoved
<1> QED
  BY <1>3, <1>4, <1>5, <1>6, <1>7

-----------------------------------------------------------------------------
(* Without faults, a unit that stays gets in.                              *)

\* The unit will be noticed by the leader, or has a token that its daemon will
\* accept and an event in which it finds it.
Waits(x) ==
    \/ token[x] = "none" /\ (ChangedOf(x) \in hooks[Seed] \/ AddOf(x) \in hooks[Seed])
    \/ token[x] = Seed /\ valid[x] = Seed /\ ChangedOf("app") \in hooks[x]

Invited ==
    plan.faults = {} =>
        /\ \A x \in ClusterUnits : token[x] # "none" => x \in present \cup departing
        /\ \A v, x \in ClusterUnits : ChangedOf(x) \in hooks[v] => x \in present \cup departing
        /\ \A x \in Staying \ {Seed} : Member(x) \/ Waits(x)

\* All that is known of a state without faults.
Undisturbed ==
    /\ MembershipTypeOK /\ ClusterInv /\ JoinInv /\ Places /\ Invited
    /\ plan.faults = {}

LEMMA UndisturbedFacts ==
    ASSUME Undisturbed
    PROVE  /\ Answered /\ \A k : ~ Fault(k)
           /\ leader = Seed /\ Seed \in ClusterUnits /\ Seed \in present \ departing
           /\ Seed \notin {"none", "left", "app"} /\ "app" \notin ClusterUnits
           /\ leaderReady => seat[Seed] = Seed
           /\ Staying \subseteq ClusterUnits /\ departing \subseteq ClusterUnits
           /\ \A x \in ClusterUnits : ~ leaderReady => token[x] = "none"
           /\ \A x \in Staying : Member(x) \/ (seat[x] = "none" /\ ~ joined[x])
<1>1. Answered /\ \A k : ~ Fault(k)
  BY DEF Undisturbed, Answered, Fault
<1>2. /\ leader = Seed /\ Seed \notin departing /\ Seed \in ClusterUnits
      /\ leaderReady => seat[Seed] = Seed
      /\ \A x \in ClusterUnits \ departing : seat[x] # "left"
      /\ \A x \in ClusterUnits \ departing : joined[x] => Member(x)
      /\ departing \subseteq ClusterUnits /\ present \subseteq ClusterUnits
  BY <1>1, Settled DEF Undisturbed
<1>3. /\ Seed \in present
      /\ \A x \in ClusterUnits : ~ leaderReady => token[x] = "none"
  BY <1>1 DEF Undisturbed, Places
<1> QED
  BY <1>1, <1>2, <1>3, MembershipAssumption DEF Staying, Member, NoCluster

\* Who waits goes on waiting, if nothing of what it waits for is taken away.
LEMMA WaitsKept ==
    ASSUME NEW x, Waits(x), token'[x] = token[x], valid'[x] = valid[x],
           ChangedOf(x) \in hooks[Seed] \/ AddOf(x) \in hooks[Seed]
              => ChangedOf(x) \in hooks'[Seed] \/ AddOf(x) \in hooks'[Seed],
           ChangedOf("app") \in hooks[x] => ChangedOf("app") \in hooks'[x]
    PROVE  Waits(x)'
BY DEF Waits

LEMMA InvitedConfigure ==
    ASSUME Undisturbed, NEW u \in ClusterUnits, NEW e, Configure(u, e)
    PROVE  Invited'
<1>0. UNCHANGED <<present, departing, token, valid>> /\ e \in {Start, Config}
  BY DEF Configure
<1>1. Handle(u, e, {}) \/ Handle(u, e, AppChanged)
  BY UndisturbedFacts DEF Configure
<1>2. AppChanged = {ChangedOf("app")}
  BY DEF AppChanged, ChangedOf
<1>3. \A v \in ClusterUnits : /\ hooks'[v] \subseteq hooks[v] \cup {ChangedOf("app")}
                              /\ hooks[v] \ {e} \subseteq hooks'[v]
  BY <1>1, <1>2, HandleEffect DEF Undisturbed
<1>4. \A y : ChangedOf(y) # e /\ AddOf(y) # e
  BY <1>0, EventsDiffer
<1>5. \A x \in ClusterUnits : Member(x) => Member(x)'
  BY DEF Configure, Bootstrap, Member, NoCluster, Undisturbed, MembershipTypeOK
<1>6. \A x \in Staying \ {Seed} : Member(x)' \/ Waits(x)'
  <2> SUFFICES ASSUME NEW x \in Staying \ {Seed}, ~ Member(x) PROVE Waits(x)'
    BY <1>5, UndisturbedFacts
  <2>1. Waits(x)
    BY DEF Undisturbed, Invited
  <2> QED
    BY <1>0, <1>3, <1>4, <2>1, UndisturbedFacts, WaitsKept
<1>7. \A v, x \in ClusterUnits : ChangedOf(x) \in hooks'[v] => x \in present \cup departing
  BY <1>3, EventsDiffer, UndisturbedFacts DEF Undisturbed, Invited
<1> QED
  BY <1>0, <1>6, <1>7 DEF Undisturbed, Invited, Staying

LEMMA InvitedChangedAtLeader ==
    ASSUME Undisturbed, NEW u \in ClusterUnits, NEW x \in ClusterUnits, ChangedAtLeader(u, x)
    PROVE  Invited'
<1>0. /\ UNCHANGED <<present, departing, leaderReady, seat>>
      /\ u = Seed
  BY UndisturbedFacts DEF ChangedAtLeader
<1>1. \/ /\ Handle(u, ChangedOf(x), {}) /\ token[x] # "none" /\ UNCHANGED <<token, valid>>
      \/ HandleAndDefer(u, ChangedOf(x), AddOf(x)) /\ UNCHANGED <<token, valid>>
      \/ /\ Handle(u, ChangedOf(x), AppChanged)
         /\ token' = [token EXCEPT ![x] = Seed] /\ valid' = [valid EXCEPT ![x] = Seed]
  <2>1. leaderReady /\ AddNode(Seed, x, ChangedOf(x)) =>
           /\ Handle(u, ChangedOf(x), AppChanged)
           /\ token' = [token EXCEPT ![x] = Seed] /\ valid' = [valid EXCEPT ![x] = Seed]
    BY <1>0, UndisturbedFacts, AddNodeAnswered DEF Undisturbed
  <2> QED
    BY <1>0, <2>1 DEF ChangedAtLeader, ChangedOf, AddOf, AlreadyAdded, Tokens
<1>2. AppChanged = {ChangedOf("app")}
  BY DEF AppChanged, ChangedOf
<1>3. /\ ChangedOf(x) \in hooks[u]
      /\ \A v \in ClusterUnits :
            /\ hooks'[v] \subseteq hooks[v] \cup {ChangedOf("app"), AddOf(x)}
            /\ hooks[v] \ {ChangedOf(x)} \subseteq hooks'[v]
            /\ v # u => hooks[v] \subseteq hooks'[v]
  BY <1>1, <1>2, HandleEffect, DeferEffect DEF Undisturbed
<1>4. x \in present \cup departing
  BY <1>3 DEF Undisturbed, Invited
<1>5. \A v, y \in ClusterUnits : ChangedOf(y) \in hooks'[v] => y \in present \cup departing
  BY <1>3, EventsDiffer, UndisturbedFacts DEF Undisturbed, Invited
<1>6. \A y \in ClusterUnits : token'[y] # "none" => y \in present \cup departing
  BY <1>1, <1>4 DEF Undisturbed, Invited, MembershipTypeOK
<1>7. ASSUME NEW y \in Staying \ {Seed}, ~ Member(y)
      PROVE  Waits(y)'
  <2>0. Waits(y) /\ y \in ClusterUnits /\ y \in present
    BY <1>7, UndisturbedFacts DEF Undisturbed, Invited, Staying
  <2>1. CASE y # x
    <3>1. token'[y] = token[y] /\ valid'[y] = valid[y]
      BY <1>1, <2>0, <2>1 DEF Undisturbed, MembershipTypeOK
    <3>2. /\ ChangedOf(y) \in hooks[Seed] => ChangedOf(y) \in hooks'[Seed]
          /\ AddOf(y) \in hooks[Seed] => AddOf(y) \in hooks'[Seed]
          /\ ChangedOf("app") \in hooks[y] => ChangedOf("app") \in hooks'[y]
      BY <1>0, <1>3, <2>0, <2>1, EventsDiffer
    <3> QED
      BY <2>0, <3>1, <3>2, WaitsKept
  <2>2. CASE y = x /\ token[x] # "none" /\ UNCHANGED <<token, valid>>
    BY <1>0, <1>3, <2>0, <2>2 DEF Waits
  <2>3. CASE y = x /\ HandleAndDefer(u, ChangedOf(x), AddOf(x)) /\ UNCHANGED <<token, valid>>
    <3>1. AddOf(x) \in hooks'[Seed]
      BY <1>0, <2>3, DeferEffect DEF Undisturbed
    <3>2. ChangedOf("app") \in hooks[y] => ChangedOf("app") \in hooks'[y]
      BY <1>0, <1>3, <2>0
    <3> QED
      BY <2>0, <2>3, <3>1, <3>2, WaitsKept
  <2>4. CASE /\ y = x /\ Handle(u, ChangedOf(x), AppChanged)
             /\ token' = [token EXCEPT ![x] = Seed] /\ valid' = [valid EXCEPT ![x] = Seed]
    <3>1. ChangedOf("app") \in hooks'[x]
      BY <1>0, <1>2, <2>0, <2>4, HandleEffect DEF Undisturbed
    <3>2. token'[x] = Seed /\ valid'[x] = Seed
      BY <2>4 DEF Undisturbed, MembershipTypeOK
    <3> QED
      BY <2>4, <3>1, <3>2 DEF Waits
  <2> QED
    BY <1>1, <2>1, <2>2, <2>3, <2>4
<1>8. \A y \in Staying : Member(y)' = Member(y)
  BY <1>0 DEF Member
<1> QED
  BY <1>0, <1>5, <1>6, <1>7, <1>8 DEF Invited, Staying

\* A unit that stays and finds its token joins: the daemons accept it.
LEMMA JoinSucceeds ==
    ASSUME Undisturbed, NEW u \in Staying \ {Seed}, NEW e, ~ Member(u),
           token[u] # "none", Join(u, e)
    PROVE  Member(u)'
<1>1. /\ u \in ClusterUnits /\ seat[u] = "none" /\ leaderReady /\ seat[Seed] = Seed
      /\ Seed \in ClusterUnits /\ Seed \notin {"none", "left"} /\ ~ Fault("error") /\ ~ Fault("kill")
  BY UndisturbedFacts
<1>2. token[u] = Seed /\ valid[u] = Seed
  BY DEF Undisturbed, Invited, Waits
<1>3. seat' = [seat EXCEPT ![u] = Seed]
  BY <1>1, <1>2 DEF Join
<1> QED
  BY <1>1, <1>3 DEF Member, NoCluster, Undisturbed, MembershipTypeOK

LEMMA InvitedChanged ==
    ASSUME Undisturbed, NEW u \in ClusterUnits, NEW x \in ClusterUnits \cup {"app"}, Changed(u, x)
    PROVE  Invited'
<1> DEFINE e == ChangedOf(x)
<1>0. /\ UNCHANGED <<present, departing, token>>
      /\ u \in present
      /\ u # Seed \/ x = "app"
  BY UndisturbedFacts DEF Changed, Started
<1>1. \/ /\ Handle(u, e, {}) /\ UNCHANGED <<seat, valid>>
         /\ joined[u] \/ token[u] = "none" \/ u = Seed
      \/ /\ u # Seed /\ token[u] # "none" /\ Join(u, e)
         /\ Handle(u, e, {}) \/ Handle(u, e, {ChangedOf(u)})
  BY UndisturbedFacts DEF Changed, Join, ChangedOf
<1> HIDE DEF e
<1>2. /\ \A v \in ClusterUnits \ {u} : hooks[v] \subseteq hooks'[v]
      /\ hooks[u] \ {e} \subseteq hooks'[u]
      /\ \A v \in ClusterUnits : hooks'[v] \subseteq hooks[v] \cup {ChangedOf(u)}
  BY <1>1, HandleEffect DEF Undisturbed
<1>3. \A v, y \in ClusterUnits : ChangedOf(y) \in hooks'[v] => y \in present \cup departing
  BY <1>0, <1>2, EventsDiffer DEF Undisturbed, Invited
<1>4. \A y \in ClusterUnits \ {u} : /\ Member(y)' = Member(y)
                                    /\ valid'[y] = valid[y]
  BY <1>1 DEF Join, Member, Undisturbed, MembershipTypeOK
<1>5. \A y \in ClusterUnits : /\ ChangedOf(y) \in hooks[Seed] => ChangedOf(y) \in hooks'[Seed]
                              /\ AddOf(y) \in hooks[Seed] => AddOf(y) \in hooks'[Seed]
  <2>1. CASE u # Seed
    BY <1>2, <2>1, UndisturbedFacts
  <2>2. CASE x = "app"
    <3>1. \A y \in ClusterUnits : ChangedOf(y) # e /\ AddOf(y) # e
      BY <2>2, EventsDiffer, UndisturbedFacts DEF e
    <3> QED
      BY <1>2, <3>1, UndisturbedFacts
  <2> QED
    BY <1>0, <2>1, <2>2
<1>6. ASSUME NEW y \in Staying \ {Seed}
      PROVE  Member(y)' \/ Waits(y)'
  <2>0. (Member(y) \/ Waits(y)) /\ y \in ClusterUnits
    BY UndisturbedFacts DEF Undisturbed, Invited
  <2>1. CASE y # u
    <3>1. ChangedOf("app") \in hooks[y] => ChangedOf("app") \in hooks'[y]
      BY <1>2, <2>0, <2>1
    <3>2. /\ Member(y)' = Member(y) /\ valid'[y] = valid[y] /\ token'[y] = token[y]
          /\ ChangedOf(y) \in hooks[Seed] => ChangedOf(y) \in hooks'[Seed]
          /\ AddOf(y) \in hooks[Seed] => AddOf(y) \in hooks'[Seed]
      BY <1>0, <1>4, <1>5, <2>0, <2>1
    <3>3. Waits(y) => Waits(y)'
      BY <3>1, <3>2, WaitsKept
    <3> QED
      BY <2>0, <3>2, <3>3
  <2>2. CASE y = u /\ Member(u)
    <3>1. \/ UNCHANGED seat
          \/ seat[u] = "none"
      BY <1>1 DEF Join
    <3>2. UNCHANGED seat
      BY <2>2, <3>1 DEF Member, NoCluster
    <3> QED
      BY <2>2, <3>2 DEF Member
  <2>3. CASE y = u /\ ~ Member(u) /\ UNCHANGED valid /\ (joined[u] \/ token[u] = "none" \/ u = Seed)
    <3>1. token[u] = "none"
      BY <2>3, UndisturbedFacts
    <3>2. ChangedOf(u) \in hooks[Seed] \/ AddOf(u) \in hooks[Seed]
      BY <2>0, <2>3, <3>1, UndisturbedFacts DEF Waits
    <3> QED
      BY <1>0, <1>5, <2>3, <3>1, <3>2 DEF Waits
  <2>4. CASE y = u /\ ~ Member(u) /\ token[u] # "none" /\ Join(u, e)
    BY <2>4, JoinSucceeds
  <2> QED
    BY <1>1, <2>1, <2>2, <2>3, <2>4
<1> QED
  BY <1>0, <1>3, <1>6 DEF Undisturbed, Invited, Staying

LEMMA InvitedDeparted ==
    ASSUME Undisturbed, NEW u \in ClusterUnits, NEW x \in ClusterUnits,
           NEW k \in {"departed", "remove"}, Departed(u, x, <<k, x>>)
    PROVE  Invited'
<1> DEFINE e == <<k, x>>
<1>0. UNCHANGED <<present, departing, valid>>
  BY DEF Departed
<1>1. \A y : e # ChangedOf(y) /\ e # AddOf(y) /\ <<"remove", x>> # ChangedOf(y)
  BY DEF ChangedOf, AddOf
<1>2. e \in hooks[u] /\ e \in {<<"departed", x>>, <<"remove", x>>}
  BY DEF Departed, RemoveNode, Handle, HandleAndDefer
<1>3. x \in departing
  BY <1>2, UndisturbedFacts DEF Undisturbed, JoinInv
<1>4. /\ \/ Handle(u, e, {}) \/ Handle(u, e, AppChanged)
         \/ HandleAndDefer(u, e, <<"remove", x>>)
      /\ UNCHANGED token \/ token' = [token EXCEPT ![x] = "none"]
      /\ UNCHANGED seat \/ seat' = [seat EXCEPT ![x] = "left"]
  BY UndisturbedFacts DEF Departed, RemoveNode, RemoveMember
<1>5. AppChanged = {ChangedOf("app")}
  BY DEF AppChanged, ChangedOf
<1> HIDE DEF e
<1>6. \A v \in ClusterUnits :
         /\ hooks'[v] \subseteq hooks[v] \cup {ChangedOf("app"), <<"remove", x>>}
         /\ hooks[v] \ {e} \subseteq hooks'[v]
  BY <1>4, <1>5, HandleEffect, DeferEffect DEF Undisturbed
<1>7. \A v, y \in ClusterUnits : ChangedOf(y) \in hooks'[v] => y \in present \cup departing
  BY <1>1, <1>6, EventsDiffer, UndisturbedFacts DEF Undisturbed, Invited
<1>8. \A y \in ClusterUnits : token'[y] # "none" => y \in present \cup departing
  BY <1>4 DEF Undisturbed, Invited, MembershipTypeOK
<1>9. ASSUME NEW y \in Staying \ {Seed}
      PROVE  Member(y)' \/ Waits(y)'
  <2>1. (Member(y) \/ Waits(y)) /\ y \in ClusterUnits /\ y # x
    BY <1>3, UndisturbedFacts DEF Undisturbed, Invited, Staying
  <2>2. token'[y] = token[y] /\ valid'[y] = valid[y] /\ seat'[y] = seat[y]
    BY <1>0, <1>4, <2>1 DEF Undisturbed, MembershipTypeOK
  <2>3. /\ ChangedOf(y) \in hooks[Seed] => ChangedOf(y) \in hooks'[Seed]
        /\ AddOf(y) \in hooks[Seed] => AddOf(y) \in hooks'[Seed]
        /\ ChangedOf("app") \in hooks[y] => ChangedOf("app") \in hooks'[y]
    BY <1>1, <1>6, <2>1, UndisturbedFacts
  <2>4. Waits(y) => Waits(y)'
    BY <2>2, <2>3, WaitsKept
  <2> QED
    BY <2>1, <2>2, <2>4 DEF Member
<1> QED
  BY <1>0, <1>7, <1>8, <1>9 DEF Invited, Staying

LEMMA InvitedHook ==
    ASSUME Undisturbed, NEW u \in ClusterUnits, MembershipHook(u)
    PROVE  Invited'
BY InvitedConfigure, InvitedChangedAtLeader, InvitedChanged, InvitedDeparted,
   PlacesAddAgain, UndisturbedFacts DEF MembershipHook, Undisturbed

LEMMA InvitedOperator ==
    ASSUME Undisturbed, NEW u \in ClusterUnits,
           \/ AddUnit(u) \/ RemoveUnit(u) \/ UnitGone(u)
           \/ Elect(u) \/ ClusterConfigChanged(u)
    PROVE  Invited'
<1>0. UNCHANGED <<token, valid, seat>>
  BY DEF AddUnit, RemoveUnit, UnitGone, Elect, ClusterConfigChanged
<1>1. /\ Seed \in ClusterUnits /\ Seed \in present \ departing /\ leader = Seed
      /\ Staying \subseteq ClusterUnits /\ departing \subseteq ClusterUnits
      /\ \A k : ~ Fault(k)
      /\ Seed # "none" /\ "app" \notin ClusterUnits
  BY UndisturbedFacts
<1>2. /\ \A x \in ClusterUnits : token[x] # "none" => x \in present \cup departing
      /\ \A v, x \in ClusterUnits : ChangedOf(x) \in hooks[v] => x \in present \cup departing
      /\ \A x \in Staying \ {Seed} : Member(x) \/ Waits(x)
  BY DEF Undisturbed, Invited
<1>3. \A x : Member(x)' = Member(x)
  BY <1>0 DEF Member
<1>4. CASE AddUnit(u)
  <2> DEFINE First == {Start} \cup ({"changed"} \X present)
  <2>1. \A x \in ClusterUnits : ChangedOf(x) \in First => x \in present
    BY EventsDiffer DEF ChangedOf
  <2>2. hooks' = [v \in ClusterUnits |-> IF v = u THEN First
                                         ELSE IF v \in present THEN hooks[v] \cup {ChangedOf(u)}
                                         ELSE hooks[v]]
    BY <1>4 DEF AddUnit, ChangedOf
  <2> HIDE DEF First
  <2>3. u \notin present /\ u \notin departing /\ present' = present \cup {u} /\ UNCHANGED departing
    BY <1>4 DEF AddUnit
  <2>4. \A v, x \in ClusterUnits : ChangedOf(x) \in hooks'[v] => x \in present' \cup departing'
    BY <1>2, <2>1, <2>2, <2>3, EventsDiffer
  <2>5. ASSUME NEW x \in Staying' \ {Seed} PROVE Member(x)' \/ Waits(x)'
    <3>1. CASE x = u
      <4>1. token'[u] = "none"
        BY <1>0, <1>2, <2>3
      <4>2. ChangedOf(u) \in hooks'[Seed]
        BY <1>1, <2>2, <2>3
      <4> QED
        BY <3>1, <4>1, <4>2 DEF Waits
    <3>2. CASE x # u
      <4>1. x \in Staying \ {Seed} /\ x \in ClusterUnits
        BY <1>1, <2>3, <2>5, <3>2 DEF Staying
      <4>2. hooks[x] \subseteq hooks'[x] /\ hooks[Seed] \subseteq hooks'[Seed]
        BY <1>1, <2>2, <2>3, <3>2, <4>1
      <4>3. Waits(x) => Waits(x)'
        BY <1>0, <4>2, WaitsKept
      <4> QED
        BY <1>2, <1>3, <4>1, <4>3
    <3> QED
      BY <3>1, <3>2
  <2> QED
    BY <1>0, <1>2, <2>3, <2>4, <2>5 DEF Invited
<1>5. CASE RemoveUnit(u)
  <2> DEFINE gone == <<"departed", u>>
  <2>1. PICK kept \in BOOLEAN :
           hooks' = [v \in ClusterUnits |->
                       IF v \in present
                         THEN (IF kept THEN hooks[v] ELSE hooks[v] \ {ChangedOf(u)}) \cup {gone}
                         ELSE hooks[v]]
    BY <1>5 DEF RemoveUnit, ChangedOf
  <2>2. u \in present /\ departing' = departing \cup {u} /\ UNCHANGED present
    BY <1>5 DEF RemoveUnit
  <2>3. \A y : gone # ChangedOf(y)
    BY EventsDiffer
  <2> HIDE DEF gone
  <2>4. \A v \in ClusterUnits : /\ hooks'[v] \subseteq hooks[v] \cup {gone}
                                /\ hooks[v] \ {ChangedOf(u)} \subseteq hooks'[v]
    BY <2>1
  <2>5. \A v, x \in ClusterUnits : ChangedOf(x) \in hooks'[v] => x \in present' \cup departing'
    BY <1>2, <2>2, <2>3, <2>4
  <2>6. ASSUME NEW x \in Staying' \ {Seed} PROVE Member(x)' \/ Waits(x)'
    <3>1. x \in Staying \ {Seed} /\ x \in ClusterUnits /\ x # u /\ u \in ClusterUnits
      BY <1>1, <2>2, <2>6 DEF Staying
    <3>2. /\ ChangedOf(x) # ChangedOf(u) /\ AddOf(x) # ChangedOf(u)
          /\ ChangedOf("app") # ChangedOf(u)
      BY <1>1, <3>1, EventsDiffer
    <3>3. /\ ChangedOf(x) \in hooks[Seed] => ChangedOf(x) \in hooks'[Seed]
          /\ AddOf(x) \in hooks[Seed] => AddOf(x) \in hooks'[Seed]
          /\ ChangedOf("app") \in hooks[x] => ChangedOf("app") \in hooks'[x]
      BY <1>1, <2>4, <3>1, <3>2
    <3>4. Waits(x) => Waits(x)'
      BY <1>0, <3>3, WaitsKept
    <3> QED
      BY <1>2, <1>3, <3>1, <3>4
  <2> QED
    BY <1>0, <1>2, <2>2, <2>5, <2>6 DEF Invited
<1>6. CASE UnitGone(u)
  <2>1. /\ u \in departing /\ UNCHANGED departing /\ present' = present \ {u}
        /\ hooks' = [hooks EXCEPT ![u] = {}]
    BY <1>6 DEF UnitGone
  <2>2. \A v \in ClusterUnits : hooks'[v] = IF v = u THEN {} ELSE hooks[v]
    BY <2>1 DEF Undisturbed, MembershipTypeOK
  <2>3. ASSUME NEW x \in Staying' \ {Seed} PROVE Member(x)' \/ Waits(x)'
    <3>1. x \in Staying \ {Seed} /\ x \in ClusterUnits /\ x # u
      BY <1>1, <2>1, <2>3 DEF Staying
    <3>2. hooks'[x] = hooks[x] /\ hooks'[Seed] = hooks[Seed]
      BY <1>1, <2>1, <2>2, <3>1
    <3>3. Waits(x) => Waits(x)'
      BY <1>0, <3>2, WaitsKept
    <3> QED
      BY <1>2, <1>3, <3>1, <3>3
  <2>4. \A v, x \in ClusterUnits : ChangedOf(x) \in hooks'[v] => x \in present' \cup departing'
    BY <1>2, <2>1, <2>2
  <2>5. \A x \in ClusterUnits : token'[x] # "none" => x \in present' \cup departing'
    BY <1>0, <1>2, <2>1
  <2> QED
    BY <2>3, <2>4, <2>5 DEF Invited
<1>7. CASE Elect(u) \/ ClusterConfigChanged(u)
  BY <1>1, <1>7 DEF Elect, ClusterConfigChanged
<1> QED
  BY <1>4, <1>5, <1>6, <1>7

LEMMA PlanStays == [MembershipNext]_membershipVars => plan' = plan
<1>1. ASSUME NEW u \in ClusterUnits, MembershipHook(u) PROVE plan' = plan
  BY <1>1 DEF MembershipHook, Configure, ChangedAtLeader, AddAgain, Changed, Departed
<1>2. ASSUME NEW u \in ClusterUnits,
             AddUnit(u) \/ RemoveUnit(u) \/ UnitGone(u) \/ Elect(u) \/ ClusterConfigChanged(u)
      PROVE  plan' = plan
  BY <1>2 DEF AddUnit, RemoveUnit, UnitGone, Elect, ClusterConfigChanged
<1> QED
  BY <1>1, <1>2 DEF MembershipNext, membershipVars

LEMMA PlacesStep ==
    ASSUME MembershipTypeOK, ClusterInv, JoinInv, Places, [MembershipNext]_membershipVars
    PROVE  Places'
<1>1. CASE ~ Answered
  BY <1>1, PlanStays DEF Places, Answered
<1>2. CASE Answered /\ UNCHANGED membershipVars
  BY <1>2 DEF membershipVars, Places, Answered, Member
<1>3. CASE Answered /\ MembershipNext
  BY <1>3, PlacesHook, PlacesOperator DEF MembershipNext
<1> QED
  BY <1>1, <1>2, <1>3

LEMMA InvitedStep ==
    ASSUME MembershipTypeOK, ClusterInv, JoinInv, Places, Invited,
           [MembershipNext]_membershipVars
    PROVE  Invited'
<1>1. CASE plan.faults # {}
  BY <1>1, PlanStays DEF Invited
<1>2. CASE plan.faults = {} /\ UNCHANGED membershipVars
  BY <1>2 DEF membershipVars, Invited, Waits, Member, Staying
<1>3. CASE plan.faults = {} /\ MembershipNext
  BY <1>3, InvitedHook, InvitedOperator DEF MembershipNext, Undisturbed
<1> QED
  BY <1>1, <1>2, <1>3

\* Once all hooks have run, the members are the units, for any number of units
\* and any order of hooks (add_node_to_cluster, join_node_to_cluster and
\* remove_node_from_cluster): nobody who has gone is left behind where the leader
\* stays and the daemons answer, and without faults everybody else is in.
THEOREM MembersAreUnitsHolds == MembershipSpec => []MembersAreUnits
<1>1. MembershipInit => Places /\ Invited
  <2> SUFFICES ASSUME MembershipInit PROVE Places /\ Invited
    OBVIOUS
  <2>1. \A u \in ClusterUnits : token[u] = "none" /\ ~ Member(u)
    BY DEF MembershipInit, Member, NoCluster
  <2>2. \A v, x \in ClusterUnits : AddOf(x) \notin hooks[v] /\ ChangedOf(x) \notin hooks[v]
    BY EventsDiffer DEF MembershipInit
  <2> QED
    BY <2>1, <2>2 DEF MembershipInit, Places, Invited, Staying
<1>2. /\ MembershipTypeOK /\ ClusterInv /\ JoinInv /\ Places /\ Invited
      /\ [MembershipNext]_membershipVars
      => Places' /\ Invited'
  BY PlacesStep, InvitedStep
<1>3. MembershipTypeOK /\ ClusterInv /\ JoinInv /\ Places /\ Invited => MembersAreUnits
  <2> SUFFICES ASSUME MembershipTypeOK, ClusterInv, JoinInv, Places, Invited,
                      MembershipAtRest
               PROVE  /\ Answered => \A u \in ClusterUnits \ present : ~ Member(u)
                      /\ plan.faults = {} => \A u \in Staying : Member(u)
    BY DEF MembersAreUnits, Answered
  <2>1. Answered => \A u \in ClusterUnits \ present : ~ Member(u)
    <3> SUFFICES ASSUME Answered, NEW u \in ClusterUnits \ present
                 PROVE  ~ Member(u)
      OBVIOUS
    <3>1. hooks[Seed] = {}
      BY DEF Places, MembershipAtRest
    <3>2. \A x : ~ Gone(x, hooks[Seed])
      BY <3>1 DEF Gone
    <3> QED
      BY <3>2 DEF Places
  <2>2. plan.faults = {} => \A u \in Staying : Member(u)
    <3> SUFFICES ASSUME plan.faults = {}, NEW u \in Staying PROVE Member(u)
      OBVIOUS
    <3>1. Answered /\ Seed \in present
      BY DEF Answered, Places
    <3>2. hooks[Seed] = {} /\ hooks[u] = {}
      BY <3>1 DEF MembershipAtRest, Staying
    <3>3. CASE u = Seed
      BY <3>1, <3>2, <3>3 DEF JoinInv
    <3>4. CASE u # Seed
      BY <3>2, <3>4 DEF Invited, Waits
    <3> QED
      BY <3>3, <3>4
  <2> QED
    BY <2>1, <2>2
<1> QED
  BY <1>1, <1>2, <1>3, JoinInvAlways, MembershipTypeCorrect, PTL DEF MembershipSpec
=============================================================================
