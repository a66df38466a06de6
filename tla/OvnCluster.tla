----------------------------- MODULE OvnCluster ------------------------------
(***************************************************************************)
(* The ovn-central charm makes one RAFT cluster of the northbound and one  *)
(* of the southbound databases of its units.  The Juju leader starts its   *)
(* servers with no remote address, which creates a cluster where there are *)
(* no files; the others wait for its announcement and for each other's     *)
(* names, and join.  The listeners of a database are kept by the unit whose *)
(* server leads the RAFT cluster, which need not be the Juju leader.       *)
(*                                                                         *)
(* A hook that configures the charm is two actions, since it asks twice    *)
(* whether its unit is the leader: when it renders the files and when it   *)
(* starts the servers.  Databags change when the hook ends.                *)
(***************************************************************************)
EXTENDS Integers, FiniteSets

CONSTANTS
    OvnUnits,     \* the units of ovn-central
    OvnPlans,     \* units to begin with and to be added, whether there is a
                  \* client, and the faults
    MaxProbe,     \* bound on the values of the inactivity probe
    MaxOvnFaults  \* bound on the faults of a behaviour

OvnFaults ==
    { "elect",   \* Juju leadership moves
      "raft",    \* RAFT leadership moves
      "kill",    \* a hook ends before its databags are written
      "unwell",  \* a server does not answer cluster/status in three attempts
      "join",    \* the join script of the southbound database fails
      "pod",     \* a pod is replaced: it has another address, and its volume
      "probe" }  \* the option changes

ASSUME OvnAssumption ==
    /\ IsFiniteSet(OvnUnits)
    /\ OvnUnits \cap {"none", "joining", "changed"} = {}
    /\ OvnPlans \subseteq [start : (SUBSET OvnUnits) \ {{}},
                           scale : SUBSET OvnUnits, client : BOOLEAN,
                           faults : SUBSET OvnFaults]
    /\ MaxProbe \in Nat \ {0} /\ MaxOvnFaults \in Nat

Databases == {"nb", "sb"}
Uncreated == "none"      \* no files
Joining   == "joining"   \* files, but no member has answered yet

\* A cluster is named after the unit that has created it.
ClusterIds == OvnUnits \cup {Uncreated}

VARIABLES
    ovnplan,    \* the plan of this behaviour
    members,    \* the units of the application
    oleader,    \* the Juju leader
    ostage,     \* "idle", or "app" between configure_unit and configure_app
    odue,       \* odue[u]: an event that configures u waits
    ojoins,     \* ojoins[u]: units whose peers-relation-joined waits at u
    seen,       \* seen[u]: units that have joined, for u
    posted,     \* units with "bound-hostname" in the peer databag
    creates,    \* creates[u]: the wrappers of u have no remote address
    known,      \* known[u]: the remote units in the files of u
    db,         \* db[u][d]: the cluster that the files of u belong to
    served,     \* served[u]: the servers of u run
    northd,     \* northd[u]: the servers northd of u connects to, {} if stopped
    oready,     \* "leader_ready"
    cid,        \* "nb_cid" and "sb_cid"
    raft,       \* raft[d][c]: the RAFT leader of cluster c of database d
    probe,      \* the option ovsdb-server-inactivity-probe
    conn,       \* conn[d][c]: the probe of its listeners, 0 if there are none
    address,    \* address[u]: how many pods u has had
    posts,      \* posts[u]: the address in the databag for clients, or 0
    clientSees, \* clientSees: units that have joined, for the client
    clientDue,  \* events of the client: units that join, "changed"
    strings,    \* strings[u]: the address the client uses, or 0
    halted,     \* units whose last hook has ended with an exception
    strayed,    \* a unit that was no member led while there was a cluster
    unheard,    \* a unit with no event to come led before the announcement
    moved,      \* RAFT leadership moved while a hook was waiting or had failed
    ovnFaults   \* faults so far

ovnVars == <<ovnplan, members, oleader, ostage, odue, ojoins, seen, posted,
             creates, known, db, served, northd, oready, cid, raft, probe,
             conn, address, posts, clientSees, clientDue, strings, halted,
             strayed, unheard, moved, ovnFaults>>

peerVars   == <<ojoins, seen, posted>>
clientVars == <<clientSees, strings>>
worldVars  == <<ovnplan, members, oleader, probe, address, strayed, unheard, moved>>

OvnTypeOK ==
    /\ ovnplan \in OvnPlans
    /\ members \subseteq OvnUnits /\ oleader \in members
    /\ ostage \in [OvnUnits -> {"idle", "app"}]
    /\ odue \in [OvnUnits -> BOOLEAN]
    /\ ojoins \in [OvnUnits -> SUBSET OvnUnits]
    /\ seen \in [OvnUnits -> SUBSET OvnUnits]
    /\ posted \subseteq members
    /\ creates \in [OvnUnits -> BOOLEAN]
    /\ known \in [OvnUnits -> SUBSET OvnUnits]
    /\ db \in [OvnUnits -> [Databases -> ClusterIds \cup {Joining}]]
    /\ served \in [OvnUnits -> BOOLEAN]
    /\ northd \in [OvnUnits -> SUBSET OvnUnits]
    /\ oready \in BOOLEAN
    /\ cid \in [Databases -> ClusterIds]
    /\ raft \in [Databases -> [OvnUnits -> OvnUnits]]
    /\ probe \in 1 .. MaxProbe
    /\ conn \in [Databases -> [OvnUnits -> 0 .. MaxProbe]]
    /\ address \in [OvnUnits -> 1 .. MaxOvnFaults + 1]
    /\ posts \in [OvnUnits -> 0 .. MaxOvnFaults + 1]
    /\ clientSees \subseteq members
    /\ clientDue \subseteq OvnUnits \cup {"changed"}
    /\ strings \in [OvnUnits -> 0 .. MaxOvnFaults + 1]
    /\ halted \subseteq members
    /\ {strayed, unheard, moved} \subseteq BOOLEAN
    /\ ovnFaults \in 0 .. MaxOvnFaults

OvnInit ==
    /\ ovnplan \in OvnPlans
    /\ members = ovnplan.start
    /\ oleader = CHOOSE u \in ovnplan.start : TRUE
    /\ ostage = [u \in OvnUnits |-> "idle"]
    /\ odue = [u \in OvnUnits |-> u \in members]
    /\ ojoins = [u \in OvnUnits |-> IF u \in members THEN members \ {u} ELSE {}]
    /\ seen = [u \in OvnUnits |-> {}] /\ posted = {}
    /\ creates = [u \in OvnUnits |-> FALSE]
    /\ known = [u \in OvnUnits |-> {}]
    /\ db = [u \in OvnUnits |-> [d \in Databases |-> Uncreated]]
    /\ served = [u \in OvnUnits |-> FALSE]
    /\ northd = [u \in OvnUnits |-> {}]
    /\ oready = FALSE /\ cid = [d \in Databases |-> Uncreated]
    /\ raft = [d \in Databases |-> [c \in OvnUnits |-> c]]
    /\ probe = 1
    /\ conn = [d \in Databases |-> [c \in OvnUnits |-> 0]]
    /\ address = [u \in OvnUnits |-> 1] /\ posts = [u \in OvnUnits |-> 0]
    /\ clientSees = {} /\ clientDue = IF ovnplan.client THEN members ELSE {}
    /\ strings = [u \in OvnUnits |-> 0]
    /\ halted = {} /\ strayed = FALSE /\ unheard = FALSE /\ moved = FALSE
    /\ ovnFaults = 0

OvnFault(k) ==
    /\ k \in ovnplan.faults
    /\ ovnFaults < MaxOvnFaults
    /\ ovnFaults' = ovnFaults + 1

-----------------------------------------------------------------------------
(* Peers and clients learn of each other.                                  *)

\* The library writes the databag of the unit; a value that is new is an
\* event at the client.
SetUnitData(u, settings) ==
    /\ posts' = [posts EXCEPT ![u] = settings]
    /\ clientDue' = IF posts' # posts /\ u \in clientSees
                      THEN clientDue \cup {"changed"} ELSE clientDue

\* The constructor of the handler for clients publishes in every hook.
UpdateAddressData(u) == SetUnitData(u, address[u])

\* peers-relation-joined: this handler publishes the name of the unit, and
\* does not configure the charm.  relation-changed always follows.
PublishClusterLocalHostname(u) == posted' = posted \cup {u}

PeersJoined(u) ==
    /\ ostage[u] = "idle"
    /\ \E v \in ojoins[u] :
          /\ ojoins' = [ojoins EXCEPT ![u] = @ \ {v}]
          /\ seen' = [seen EXCEPT ![u] = @ \cup {v}]
          /\ PublishClusterLocalHostname(u)
          /\ odue' = [w \in OvnUnits |-> \/ odue[w] \/ w = u
                                         \/ posted' # posted /\ u \in seen[w]]
    /\ UpdateAddressData(u)
    /\ UNCHANGED <<worldVars, ostage, creates, known, db, served, northd, oready,
                   cid, raft, conn, clientVars, halted, ovnFaults>>

\* The units that are planned, but for this one, have joined and published.
ExpectedPeersAvailable(u) ==
    LET expected == Cardinality(members) - 1
    IN  /\ Cardinality(seen[u]) >= expected
        /\ Cardinality(seen[u] \cap posted) >= expected

-----------------------------------------------------------------------------
(* The hook, first half: configure_unit renders the files.  A follower goes *)
(* on when the leader has announced itself.                                *)

OvnLeaderReady(u) == u = oleader \/ oready

\* The files name the remote units; the wrappers of the leader have none.
OvnInitService(u) ==
    /\ known' = [known EXCEPT ![u] = seen[u] \cap posted]
    /\ creates' = [creates EXCEPT ![u] = u = oleader \/ known'[u] = {}]

OvnConfigureUnit(u) ==
    /\ ostage[u] = "idle" /\ odue[u]
    /\ odue' = [odue EXCEPT ![u] = FALSE]
    /\ IF OvnLeaderReady(u)
         THEN OvnInitService(u) /\ ostage' = [ostage EXCEPT ![u] = "app"]
         ELSE UNCHANGED <<ostage, known, creates>>
    /\ UpdateAddressData(u)
    /\ UNCHANGED <<worldVars, peerVars, db, served, northd, oready, cid, raft,
                   conn, clientVars, halted, ovnFaults>>

-----------------------------------------------------------------------------
(* The hook, second half: configure_app starts the servers.                *)

\* ovn-ctl run_nb_ovsdb and run_sb_ovsdb: without files, a server with no
\* remote address creates a cluster and another joins the one it is told of.
OvnStarted(u, files) ==
    [d \in Databases |-> IF files[d] # Uncreated THEN files[d]
                         ELSE IF creates[u] THEN u ELSE Joining]

\* cluster/status of a server that is still joining is no cluster at all.
ClusterStatus(u, d) == IF db'[u][d] = Joining THEN Uncreated ELSE db'[u][d]

IsClusterLeader(u, d, c) == c = ClusterStatus(u, d) /\ raft[d][c] = u

\* A plausible mistake: a listener that exists is left as it is.
OnlyNewListeners(u, d, c) ==
    IF IsClusterLeader(u, d, c) /\ conn[d][c] = 0
      THEN probe ELSE conn[d][c]

\* The listeners are made, or set to the option, where the RAFT leader is.
ConfigureOvnListener(u, d, c) ==
    IF IsClusterLeader(u, d, c) THEN probe ELSE conn[d][c]

ConfigureOvn(u) ==
    conn' = [d \in Databases |-> [c \in OvnUnits |-> ConfigureOvnListener(u, d, c)]]

ClusterConnectionStrs(u) == {u} \cup known[u]

StartNorthd(u) == northd' = [northd EXCEPT ![u] = ClusterConnectionStrs(u)]

\* The hook ends with an exception, which the guard turns into a status: the
\* event is not seen again.
Halts(u) ==
    /\ halted' = halted \cup {u}
    /\ UNCHANGED <<northd, oready, cid>>

\* leader_ready and the cluster ids are written when the hook ends; if that
\* is news the peers hear of it.
Announces(u, ids) ==
    /\ oready' = TRUE
    /\ cid' = ids
    /\ odue' = [w \in OvnUnits |-> odue[w] \/ (<<oready', cid'>> # <<oready, cid>>
                                               /\ w \in members \ {u})]

\* A server that is still joining has no id to tell: the hook fails, but has
\* already said that the leader is ready.
ConfigureAppLeader(u) ==
    /\ u = oleader
    /\ db' = [db EXCEPT ![u] = OvnStarted(u, db[u])]
    /\ served' = [served EXCEPT ![u] = TRUE]
    /\ \/ /\ OvnFault("unwell")
          /\ Halts(u) /\ UNCHANGED <<conn, odue>>
       \/ /\ UNCHANGED ovnFaults
          /\ ConfigureOvn(u)
          /\ IF \E d \in Databases : ClusterStatus(u, d) = Uncreated
               THEN /\ Announces(u, cid)
                    /\ halted' = halted \cup {u} /\ UNCHANGED northd
               ELSE /\ Announces(u, [d \in Databases |-> ClusterStatus(u, d)])
                    /\ halted' = halted \ {u} /\ StartNorthd(u)
       \/ /\ OvnFault("kill")
          /\ ConfigureOvn(u) /\ StartNorthd(u)
          /\ odue' = [odue EXCEPT ![u] = TRUE]
          /\ UNCHANGED <<oready, cid, halted>>

\* The join scripts leave files that exist alone.
JoinsCluster(u) ==
    [d \in Databases |-> IF db[u][d] = Uncreated THEN Joining ELSE db[u][d]]

ConfigureAppNonLeader(u) ==
    /\ u # oleader
    /\ UNCHANGED <<oready, cid>>
    /\ \/ /\ ~ ExpectedPeersAvailable(u)
          /\ UNCHANGED <<db, served, northd, conn, odue, halted, ovnFaults>>
       \/ /\ ExpectedPeersAvailable(u)
          /\ OvnFault("join")
          /\ db' = [db EXCEPT ![u]["nb"] = JoinsCluster(u)["nb"]]
          /\ Halts(u) /\ UNCHANGED <<served, conn, odue>>
       \/ /\ ExpectedPeersAvailable(u)
          /\ db' = [db EXCEPT ![u] = OvnStarted(u, JoinsCluster(u))]
          /\ served' = [served EXCEPT ![u] = TRUE]
          /\ \/ /\ OvnFault("unwell")
                /\ Halts(u) /\ UNCHANGED <<conn, odue>>
             \/ /\ ConfigureOvn(u) /\ StartNorthd(u)
                /\ halted' = halted \ {u}
                /\ UNCHANGED <<odue, ovnFaults>>
             \/ /\ OvnFault("kill")
                /\ ConfigureOvn(u) /\ StartNorthd(u)
                /\ odue' = [odue EXCEPT ![u] = TRUE]
                /\ UNCHANGED halted

OvnConfigureApp(u) ==
    /\ ostage[u] = "app"
    /\ ostage' = [ostage EXCEPT ![u] = "idle"]
    /\ ConfigureAppLeader(u) \/ ConfigureAppNonLeader(u)
    /\ UNCHANGED <<worldVars, peerVars, creates, known, raft, posts, clientDue,
                   clientVars>>

-----------------------------------------------------------------------------
(* The client of the relation ovsdb-cms.                                   *)

\* Every unit that has joined must have published.
RemoteReady(joined) == \A u \in joined : posts[u] # 0

RemoteAddrs(joined) == [u \in OvnUnits |-> IF u \in joined THEN posts[u] ELSE 0]

\* The client is configured with the addresses it finds.
OvsdbCmsChanged(joined) ==
    strings' = IF RemoteReady(joined) THEN RemoteAddrs(joined) ELSE strings

OvsdbCmsEvent ==
    /\ \E e \in clientDue :
          /\ clientDue' = clientDue \ {e}
          /\ clientSees' = clientSees \cup ({e} \cap OvnUnits)
    /\ OvsdbCmsChanged(clientSees')
    /\ UNCHANGED <<worldVars, peerVars, ostage, odue, creates, known, db, served,
                   northd, oready, cid, raft, conn, posts, halted, ovnFaults>>

-----------------------------------------------------------------------------
(* The environment.                                                        *)

\* A server that joins finds a member among the units it knows.
FindsMember(u, d, v) ==
    /\ served[u] /\ db[u][d] = Joining
    /\ v \in known[u] /\ served[v] /\ db[v][d] \in OvnUnits

RaftJoins(u, d) ==
    /\ \E v \in members : /\ FindsMember(u, d, v)
                           /\ db' = [db EXCEPT ![u][d] = db[v][d]]
    /\ UNCHANGED <<worldVars, peerVars, ostage, odue, creates, known, served,
                   northd, oready, cid, raft, conn, posts, clientDue,
                   clientVars, halted, ovnFaults>>

OvnMember(u) == \A d \in Databases : db[u][d] \in OvnUnits

\* Files that create or belong to a cluster somewhere.
ClusterExists == \E u \in members, d \in Databases : db[u][d] # Uncreated

OvnElects ==
    /\ OvnFault("elect")
    /\ \E u \in members \ {oleader} :
          /\ oleader' = u
          /\ strayed' = (strayed \/ (ClusterExists /\ ~ OvnMember(u)))
          /\ unheard' = (unheard \/ (~ oready /\ ~ odue[u]))
    /\ UNCHANGED <<ovnplan, members, probe, address, moved, peerVars, ostage,
                   odue, creates, known, db, served, northd, oready, cid, raft,
                   conn, posts, clientDue, clientVars, halted>>

HookWaits(u) == ostage[u] # "idle" \/ odue[u] \/ ojoins[u] # {}

RaftElects ==
    /\ OvnFault("raft")
    /\ \E d \in Databases, u \in members :
          /\ served[u] /\ db[u][d] \in OvnUnits /\ raft[d][db[u][d]] # u
          /\ raft' = [raft EXCEPT ![d][db[u][d]] = u]
    /\ moved' = (moved \/ halted # {} \/ \E u \in members : HookWaits(u))
    /\ UNCHANGED <<ovnplan, members, oleader, probe, address, strayed, unheard, peerVars,
                   ostage, odue, creates, known, db, served, northd, oready,
                   cid, conn, posts, clientDue, clientVars, halted>>

PodReplaced(u) ==
    /\ ostage[u] = "idle"
    /\ OvnFault("pod")
    /\ address' = [address EXCEPT ![u] = @ + 1]
    /\ served' = [served EXCEPT ![u] = FALSE]
    /\ northd' = [northd EXCEPT ![u] = {}]
    /\ odue' = [odue EXCEPT ![u] = TRUE]
    /\ UNCHANGED <<ovnplan, members, oleader, probe, strayed, unheard, moved, peerVars,
                   ostage, creates, known, db, oready, cid, raft, conn, posts,
                   clientDue, clientVars, halted>>

ProbeChanges ==
    /\ OvnFault("probe")
    /\ probe < MaxProbe /\ probe' = probe + 1
    /\ odue' = [u \in OvnUnits |-> odue[u] \/ u \in members]
    /\ UNCHANGED <<ovnplan, members, oleader, address, strayed, unheard, moved, peerVars,
                   ostage, creates, known, db, served, northd, oready, cid,
                   raft, conn, posts, clientDue, clientVars, halted>>

OvnScales ==
    /\ \E u \in ovnplan.scale \ members :
          /\ members' = members \cup {u}
          /\ ojoins' = [w \in OvnUnits |->
                          CASE w = u -> members
                            [] w \in members -> ojoins[w] \cup {u}
                            [] OTHER -> {}]
          /\ odue' = [odue EXCEPT ![u] = TRUE]
          /\ clientDue' = IF ovnplan.client THEN clientDue \cup {u} ELSE {}
    /\ UNCHANGED <<ovnplan, oleader, probe, address, strayed, unheard, moved, seen, posted,
                   ostage, creates, known, db, served, northd, oready, cid,
                   raft, conn, posts, clientVars, halted, ovnFaults>>

OvnNext ==
    \/ \E u \in members : \/ PeersJoined(u) \/ OvnConfigureUnit(u)
                          \/ OvnConfigureApp(u) \/ PodReplaced(u)
                          \/ \E d \in Databases : RaftJoins(u, d)
    \/ OvsdbCmsEvent \/ OvnElects \/ RaftElects \/ ProbeChanges \/ OvnScales

OvnSpec == OvnInit /\ [][OvnNext]_ovnVars

-----------------------------------------------------------------------------
(* Properties.                                                             *)

OvnAtRest ==
    /\ \A u \in members : ~ HookWaits(u)
    /\ \A u, v \in members, d \in Databases : ~ FindsMember(u, d, v)
    /\ clientDue = {}

\* All files belong to one cluster, unless a unit led that was no member of
\* it: a leader without files creates another.
OneOvnCluster ==
    ~ strayed => \A u, v \in members, d \in Databases :
        {db[u][d], db[v][d]} \subseteq OvnUnits => db[u][d] = db[v][d]

\* When nothing waits, and no unit led that was no member:
\*  - the leader has announced itself, unless its own last hook failed or it led
\*    with no event to come before the announcement;
\*  - after the announcement every unit whose own last hook has not failed runs
\*    its servers, its northd knows all of them, and it is a member of the
\*    announced cluster, for which the servers of the leader must run;
\*  - the listeners have the probe of the option, if the hook of the unit that
\*    leads RAFT has not failed and RAFT did not move while a hook waited.
EveryoneIsIn ==
    OvnAtRest /\ ~ strayed =>
        /\ oready \/ unheard \/ oleader \in halted
        /\ oready =>
              /\ \A u \in members \ halted :
                    /\ served[u] /\ northd[u] = members
                    /\ served[oleader] => \A d \in Databases : db[u][d] = cid[d]
              /\ ~ moved => \A d \in Databases :
                    raft[d][cid[d]] \notin halted => conn[d][cid[d]] = probe

\* The client uses the present address of each unit.
ClientKnowsServers ==
    OvnAtRest /\ ovnplan.client => \A u \in members : strings[u] = address[u]

\* The databases of the units form one cluster, of which everyone that is to
\* know it knows, in any order in which units, leadership, pods and hooks come
\* and go, up to the exceptions that OneOvnCluster and EveryoneIsIn name.
OvnClusterForms == OneOvnCluster /\ EveryoneIsIn /\ ClientKnowsServers
=============================================================================
