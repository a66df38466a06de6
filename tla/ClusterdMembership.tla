-------------------------- MODULE ClusterdMembership --------------------------
(***************************************************************************)
(* The units of sunbeam-clusterd and the cluster their daemons form.  The  *)
(* leader bootstraps a cluster and hands out join tokens in the databag of *)
(* the peer relation; the others join with their token; a unit that is     *)
(* removed is taken out by the leader and by itself.                       *)
(*                                                                         *)
(* One action is one hook of one unit.  The databag and the StoredState    *)
(* change when the hook ends, the daemons when they are called: a hook     *)
(* that dies has its effect on the cluster and runs again, with what it    *)
(* has stored if it dies between the commit of ops and the flush of the    *)
(* databag; and a call that fails is caught by the guard of                *)
(* configure_charm, which ends the hook as if it had succeeded.            *)
(***************************************************************************)
EXTENDS Integers, FiniteSets

CONSTANTS
    ClusterUnits, \* the units the application may ever have
    Seed,         \* the first of them
    FaultKinds,   \* what may go wrong or change, see the actions
    Plans,        \* the units and the faults that go together in a behaviour
    MaxRemovals,  \* bound on the units that are removed
    MaxChanges    \* bound on faults and configuration changes

ASSUME MembershipAssumption ==
    /\ Seed \in ClusterUnits
    /\ "none" \notin ClusterUnits /\ "left" \notin ClusterUnits
    /\ "app" \notin ClusterUnits
    /\ MaxRemovals \in Nat /\ MaxChanges \in Nat
    /\ Plans \subseteq [units : SUBSET ClusterUnits, faults : SUBSET FaultKinds]

VARIABLES
    present,     \* the units Juju has deployed and not yet removed
    departing,   \* those of them that the operator removes
    leader,      \* the unit with the lease, or "none"
    leaderReady, \* "leader_ready" in the databag
    token,       \* token[u]: the cluster whose join token u finds, or "none"
    valid,       \* valid[u]: the cluster whose daemons await u, or "none"
    joined,      \* joined[u]: what u has stored of itself
    seat,        \* seat[u]: the cluster u is a member of, "none" or "left"
    hooks,       \* hooks[u]: the events and deferred events that wait for u
    plan,        \* the units that come and the faults of this behaviour
    mchanges     \* changes so far

membershipVars == <<present, departing, leader, leaderReady, token, valid,
                    joined, seat, hooks, plan, mchanges>>

\* A cluster is called after the unit that bootstrapped it.
NoCluster == {"none", "left"}
Member(u) == seat[u] \notin NoCluster

\* config-changed, at the start of a unit and later
Start  == <<"start", "app">>
Config == <<"config", "app">>

Events ==
    {Start, Config} \cup ({"changed"} \X (ClusterUnits \cup {"app"}))
                    \cup ({"departed", "add", "remove"} \X ClusterUnits)

MembershipTypeOK ==
    /\ present \subseteq ClusterUnits
    /\ departing \subseteq ClusterUnits
    /\ leader \in ClusterUnits \cup {"none"}
    /\ leaderReady \in BOOLEAN
    /\ token \in [ClusterUnits -> ClusterUnits \cup {"none"}]
    /\ valid \in [ClusterUnits -> ClusterUnits \cup {"none"}]
    /\ joined \in [ClusterUnits -> BOOLEAN]
    /\ seat \in [ClusterUnits -> ClusterUnits \cup NoCluster]
    /\ hooks \in [ClusterUnits -> SUBSET Events]
    /\ plan \in Plans
    /\ mchanges \in 0 .. MaxChanges

-----------------------------------------------------------------------------
(* Hooks and what wakes other units.                                       *)

\* Event e of u is taken; what the hook sends waits for the other units.
Handle(u, e, sent) ==
    /\ e \in hooks[u]
    /\ hooks' = [v \in ClusterUnits |->
                   IF v = u THEN hooks[v] \ {e}
                   ELSE IF v \in present THEN hooks[v] \cup sent ELSE hooks[v]]

\* The same, for a hook that defers its event as d.
HandleAndDefer(u, e, d) ==
    /\ e \in hooks[u]
    /\ hooks' = [hooks EXCEPT ![u] = (@ \ {e}) \cup {d}]

AppChanged == {<<"changed", "app">>}

\* Something goes wrong, if this behaviour has it.
Fault(k) ==
    /\ k \in plan.faults
    /\ mchanges < MaxChanges
    /\ mchanges' = mchanges + 1

\* Relation hooks run after the hooks of the unit's start.
Started(u) == u \in present /\ Start \notin hooks[u]

-----------------------------------------------------------------------------
(* configure_charm of the leader: bootstrap_cluster.                       *)

\* A plausible mistake: the cluster is given the name of the application.
BootstrapUnnamed(u) == seat[u] = "none" /\ seat' = [seat EXCEPT ![u] = "app"]

\* What the daemon of u does: it refuses when it has a cluster already.
Bootstrap(u) == seat[u] = "none" /\ seat' = [seat EXCEPT ![u] = u]

\* A plausible mistake: every unit bootstraps until the leader is ready.
BootstrapsAnyUnit(u) == ~ leaderReady

\* The leader bootstraps until it has announced that it is ready.
Bootstraps(u) == u = leader /\ ~ leaderReady

Configure(u, e) ==
    /\ e \in {Start, Config} \cap hooks[u]
    /\ u \in present
    /\ \/ /\ Bootstraps(u)
          /\ Handle(u, e, AppChanged)
          /\ Bootstrap(u)
          /\ joined' = [joined EXCEPT ![u] = TRUE]
          /\ leaderReady' = TRUE
          /\ UNCHANGED mchanges
       \/ \* Bootstrapping again fails, and the guard swallows the failure.
          /\ Bootstraps(u) /\ seat[u] # "none"
          /\ Handle(u, e, {})
          /\ UNCHANGED <<leaderReady, joined, seat, mchanges>>
       \/ \* Nothing to do for the leader; the others wait for it.
          /\ ~ Bootstraps(u)
          /\ Handle(u, e, {})
          /\ UNCHANGED <<leaderReady, joined, seat, mchanges>>
       \/ \* clusterd fails: to bootstrap, to answer that it did, or to take
          \* the certificates afterwards.
          /\ Bootstraps(u)
          /\ Fault("error")
          /\ \/ UNCHANGED <<seat, joined>>
             \/ Bootstrap(u) /\ UNCHANGED joined
             \/ Bootstrap(u) /\ joined' = [joined EXCEPT ![u] = TRUE]
          /\ Handle(u, e, {})
          /\ UNCHANGED leaderReady
       \/ \* The hook dies after the bootstrap and will run again.
          /\ Bootstraps(u)
          /\ Fault("kill")
          /\ Bootstrap(u)
          /\ joined' \in {joined, [joined EXCEPT ![u] = TRUE]}
          /\ UNCHANGED <<leaderReady, hooks>>
    /\ UNCHANGED <<present, departing, leader, token, valid, plan>>

-----------------------------------------------------------------------------
(* relation-changed of the peers.                                          *)

Tokens == {u \in ClusterUnits : token[u] # "none"}

\* A plausible mistake: any token will do.
AlreadyAddedAny(x) == Tokens # {}

\* A token for x is in the databag.
AlreadyAdded(x) == x \in Tokens

\* on_changed: a leader that finds no token takes itself for the seed node.
SeedNode(u) == joined' = [joined EXCEPT ![u] = @ \/ Tokens = {}]

\* add_node_to_cluster, in the hook of event e: the daemon of the leader
\* issues a token, unless it has no cluster; then, and at any other error of
\* the server, the event is deferred.
AddNode(u, x, e) ==
    \/ /\ Member(u)
       /\ Handle(u, e, AppChanged)
       /\ token' = [token EXCEPT ![x] = seat[u]]
       /\ valid' = [valid EXCEPT ![x] = seat[u]]
       /\ UNCHANGED mchanges
    \/ /\ \/ ~ Member(u) /\ UNCHANGED mchanges
          \/ Fault("error")
       /\ HandleAndDefer(u, e, <<"add", x>>)
       /\ UNCHANGED <<token, valid>>
    \/ \* Another error, or no answer: the guard swallows it with the event.
       /\ Fault("error")
       /\ Handle(u, e, {})
       /\ UNCHANGED <<token, valid>>
    \/ \* The hook dies with the token, which the daemon still awaits.
       /\ Member(u) /\ e \in hooks[u]
       /\ Fault("kill")
       /\ valid' = [valid EXCEPT ![x] = seat[u]]
       /\ UNCHANGED <<token, hooks>>

\* relation-changed of unit x at the leader
ChangedAtLeader(u, x) ==
    /\ Started(u) /\ u = leader
    /\ SeedNode(u) \/ UNCHANGED <<joined, hooks>>   \* it dies with what it has stored
    /\ \/ /\ AlreadyAdded(x)
          /\ Handle(u, <<"changed", x>>, {})
          /\ UNCHANGED <<token, valid, mchanges>>
       \/ /\ ~ AlreadyAdded(x) /\ ~ leaderReady
          /\ HandleAndDefer(u, <<"changed", x>>, <<"add", x>>)
          /\ UNCHANGED <<token, valid, mchanges>>
       \/ /\ ~ AlreadyAdded(x) /\ leaderReady
          /\ AddNode(u, x, <<"changed", x>>)
    /\ UNCHANGED <<present, departing, leader, leaderReady, seat, plan>>

\* The deferred add_node event runs again.
AddAgain(u, x) ==
    /\ Started(u) /\ leaderReady
    /\ \/ /\ u # leader \/ AlreadyAdded(x)
          /\ Handle(u, <<"add", x>>, {})
          /\ UNCHANGED <<token, valid, mchanges>>
       \/ /\ u = leader /\ ~ AlreadyAdded(x)
          /\ AddNode(u, x, <<"add", x>>)
    /\ UNCHANGED <<present, departing, leader, leaderReady, joined, seat, plan>>

\* join_node_to_cluster in the hook of event e: the daemons accept the token
\* once, and refuse a unit that has a cluster.
Join(u, e) ==
    LET accepted == /\ valid[u] = token[u] /\ seat[u] = "none"
                    /\ \E v \in ClusterUnits : seat[v] = token[u]
        enters   == /\ accepted
                    /\ seat' = [seat EXCEPT ![u] = token[u]]
                    /\ valid' = [valid EXCEPT ![u] = "none"]
    IN  \/ /\ enters
           /\ Handle(u, e, {<<"changed", u>>})
           /\ joined' = [joined EXCEPT ![u] = TRUE]
           /\ UNCHANGED mchanges
        \/ \* The guard swallows the failure, and with it the event.
           /\ \/ ~ accepted /\ UNCHANGED <<seat, valid, mchanges>>
              \/ Fault("error") /\ (enters \/ UNCHANGED <<seat, valid>>)
           /\ Handle(u, e, {})
           /\ UNCHANGED joined
        \/ /\ e \in hooks[u]
           /\ Fault("kill")
           /\ enters
           /\ joined' \in {joined, [joined EXCEPT ![u] = TRUE]}
           /\ UNCHANGED hooks

\* relation-changed at a unit that is not the leader, or of the application
Changed(u, x) ==
    /\ Started(u) /\ (u # leader \/ x = "app")
    /\ \/ /\ joined[u] \/ token[u] = "none" \/ u = leader
          /\ Handle(u, <<"changed", x>>, {})
          /\ UNCHANGED <<valid, joined, seat, mchanges>>
       \/ /\ ~ joined[u] /\ token[u] # "none" /\ u # leader
          /\ Join(u, <<"changed", x>>)
    /\ UNCHANGED <<present, departing, leader, leaderReady, token, plan>>

-----------------------------------------------------------------------------
(* relation-departed of the peers.                                         *)

\* A plausible mistake: a unit passes its own name for that of the other.
RemoveMemberSelf(u, x) ==
    seat' = IF Member(u) THEN [seat EXCEPT ![u] = "left"] ELSE seat

\* _remove_member_from_cluster: a daemon without a cluster removes nobody.
RemoveMember(u, x) ==
    seat' = IF Member(u) /\ seat[x] = seat[u]
              THEN [seat EXCEPT ![x] = "left"] ELSE seat

\* remove_node_from_cluster of departing unit x in the hook of event e
RemoveNode(u, x, e) ==
    \/ /\ RemoveMember(u, x)
       /\ token' = IF u = leader THEN [token EXCEPT ![x] = "none"] ELSE token
       /\ Handle(u, e, IF u = leader THEN AppChanged ELSE {})
       /\ UNCHANGED mchanges
    \/ \* The daemon of the leader fails, and the guard swallows the failure.
       /\ u # x
       /\ (~ Member(u) /\ UNCHANGED mchanges) \/ Fault("error")
       /\ Handle(u, e, {})
       /\ UNCHANGED <<seat, token>>
    \/ \* The number of voters is even, and stays even for a minute.
       /\ Fault("roles")
       /\ HandleAndDefer(u, e, <<"remove", x>>)
       /\ UNCHANGED <<seat, token>>
    \/ /\ e \in hooks[u]
       /\ Fault("kill")
       /\ RemoveMember(u, x)
       /\ UNCHANGED <<token, hooks>>

\* _on_remove_node: the leader acts, and the departing unit itself.
Concerned(u, x) == u = leader \/ u = x

\* The event of x's departure, at first or deferred
Departed(u, x, e) ==
    /\ e \in {<<"departed", x>>, <<"remove", x>>}
    /\ Started(u)
    /\ <<"changed", x>> \notin hooks[u]
    /\ \/ /\ ~ Concerned(u, x)
          /\ Handle(u, e, {})
          /\ UNCHANGED <<seat, token, mchanges>>
       \/ /\ Concerned(u, x) /\ ~ leaderReady
          /\ HandleAndDefer(u, e, <<"remove", x>>)
          /\ UNCHANGED <<seat, token, mchanges>>
       \/ /\ Concerned(u, x) /\ leaderReady
          /\ RemoveNode(u, x, e)
    /\ UNCHANGED <<present, departing, leader, leaderReady, valid, joined, plan>>

-----------------------------------------------------------------------------
(* Juju and the operator.                                                  *)

AddUnit(u) ==
    /\ u \in plan.units \ (present \cup departing)
    /\ present' = present \cup {u}
    /\ hooks' = [v \in ClusterUnits |->
                   IF v = u THEN {Start} \cup ({"changed"} \X present)
                   ELSE IF v \in present THEN hooks[v] \cup {<<"changed", u>>}
                   ELSE hooks[v]]
    /\ UNCHANGED <<departing, leader, leaderReady, token, valid, joined, seat,
                   plan, mchanges>>

\* Juju may drop the hooks of the others that wait for x.
RemoveUnit(x) ==
    /\ x \in present \ departing
    /\ x = leader => "leaderleaves" \in plan.faults
    /\ Cardinality(departing) < MaxRemovals
    /\ departing' = departing \cup {x}
    /\ \E kept \in BOOLEAN :
          hooks' = [v \in ClusterUnits |->
                      IF v \in present
                        THEN (IF kept THEN hooks[v] ELSE hooks[v] \ {<<"changed", x>>})
                                \cup {<<"departed", x>>}
                        ELSE hooks[v]]
    /\ UNCHANGED <<present, leader, leaderReady, token, valid, joined, seat, plan,
                   mchanges>>

\* The unit goes when its hooks have run, or its machine is lost.
UnitGone(x) ==
    /\ x \in departing \cap present
    /\ \/ <<"departed", x>> \notin hooks[x] /\ UNCHANGED mchanges
       \/ Fault("force")
    /\ present' = present \ {x}
    /\ hooks' = [hooks EXCEPT ![x] = {}]
    /\ leader' = IF leader = x THEN "none" ELSE leader
    /\ UNCHANGED <<departing, leaderReady, token, valid, joined, seat, plan>>

\* The lease is given to another unit: when it is free, or by a fault.
Elect(u) ==
    /\ u \in present \ departing
    /\ u # leader
    /\ (leader = "none" /\ UNCHANGED mchanges) \/ Fault("elect")
    /\ leader' = u
    /\ UNCHANGED <<present, departing, leaderReady, token, valid, joined, seat,
                   hooks, plan>>

ClusterConfigChanged(u) ==
    /\ u \in present
    /\ Fault("config")
    /\ hooks' = [hooks EXCEPT ![u] = @ \cup {Config}]
    /\ UNCHANGED <<present, departing, leader, leaderReady, token, valid, joined,
                   seat, plan>>

-----------------------------------------------------------------------------
MembershipInit ==
    /\ present = {Seed}
    /\ departing = {}
    /\ leader = Seed
    /\ leaderReady = FALSE
    /\ token = [u \in ClusterUnits |-> "none"]
    /\ valid = [u \in ClusterUnits |-> "none"]
    /\ joined = [u \in ClusterUnits |-> FALSE]
    /\ seat = [u \in ClusterUnits |-> "none"]
    /\ hooks = [u \in ClusterUnits |-> IF u = Seed THEN {Start} ELSE {}]
    /\ plan \in Plans
    /\ mchanges = 0

MembershipHook(u) ==
    \/ \E e \in {Start, Config} : Configure(u, e)
    \/ \E x \in ClusterUnits : ChangedAtLeader(u, x) \/ AddAgain(u, x)
    \/ \E x \in ClusterUnits \cup {"app"} : Changed(u, x)
    \/ \E x \in ClusterUnits : \E k \in {"departed", "remove"} :
          Departed(u, x, <<k, x>>)

MembershipNext ==
    \E u \in ClusterUnits :
       \/ MembershipHook(u)
       \/ AddUnit(u) \/ RemoveUnit(u) \/ UnitGone(u)
       \/ Elect(u) \/ ClusterConfigChanged(u)

MembershipSpec == MembershipInit /\ [][MembershipNext]_membershipVars

-----------------------------------------------------------------------------
(* Properties.                                                             *)

Staying == present \ departing

\* All units that form a cluster form one and the same (bootstrap_cluster has
\* run once), if no hook dies in it and no call fails, or if the leader stays.
OneCluster ==
    \/ /\ {"kill", "error"} \cap plan.faults # {}
       /\ {"elect", "leaderleaves"} \cap plan.faults # {}
    \/ \A u, v \in ClusterUnits : Member(u) /\ Member(v) => seat[u] = seat[v]

\* A unit that has stored that it joined is a member, unless another unit was
\* leader before or the seed failed.
JoinedIsMember ==
    \/ "elect" \in plan.faults \/ "leaderleaves" \in plan.faults \/ "error" \in plan.faults
    \/ \A u \in Staying : joined[u] => Member(u)

MembershipAtRest == \A u \in present : hooks[u] = {}

\* Once all hooks have run, the members are the units: none that is gone is left
\* (the leader or the unit itself has removed it), and without failures every
\* one that stays is in (no token is lost, whatever the order of the hooks).
MembersAreUnits ==
    MembershipAtRest =>
        /\ plan.faults \cap {"elect", "leaderleaves", "error"} = {} =>
              \A u \in ClusterUnits \ present : ~ Member(u)
        /\ plan.faults = {} => \A u \in Staying : Member(u)
=============================================================================
