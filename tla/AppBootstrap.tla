---------------------------- MODULE AppBootstrap ----------------------------
(***************************************************************************)
(* The bootstrap of one application made of several Kubernetes units, as   *)
(* the base charms of ops_sunbeam run it: configure_charm of every unit,   *)
(* one step per call it makes, interleaved with the hooks of the other     *)
(* units, with leadership moves and with the faults named in Faults.       *)
(*                                                                         *)
(* Kept outside a hook: the peer application databag (leaderReady), the    *)
(* application's database (schema), the containers (pebble, running) and   *)
(* the StoredState of each unit (saved).  A running hook works on a copy   *)
(* of its StoredState (mem).  At its end the framework first commits the   *)
(* copy in the unit, and Juju flushes the databag write when the process   *)
(* has gone: a hook may die, or its write be refused, between the two.  A  *)
(* hook that dies before them loses both, but whatever it did to the       *)
(* database and the containers stays.                                      *)
(***************************************************************************)
EXTENDS Integers

CONSTANTS
    Units,      \* the units of the application
    NoUnit,     \* nobody holds the leadership lease
    NumCmds,    \* how many commands db_sync_cmds lists
    Faults,     \* the kinds of fault the environment may cause
    MaxFaults   \* bound on the faults of one behaviour

FaultKinds ==
    { "kill",      \* the charm process dies in the middle of a hook
      "pod",       \* the pod is replaced: its unit storage is lost
      "pebble",    \* a workload container restarts
      "relation",  \* mandatory relation data goes away (and comes back)
      "config",    \* an operator changes the configuration
      "sync",      \* a db-sync command fails ten times in a row
      "start",     \* pebble cannot start the services
      "elect",     \* leadership moves while the leader runs no hook
      "outlast",   \* the attempts of a db-sync command outlast the lease
      "lease",     \* leadership moves elsewhere in the leader's hook
      "db" }       \* the database is replaced by an empty one

ASSUME UnitsAssumption == NoUnit \notin Units
ASSUME CmdsAssumption  == NumCmds \in Nat \ {0}
ASSUME FaultAssumption == Faults \subseteq FaultKinds /\ MaxFaults \in Nat

Cmds == 1 .. NumCmds

VARIABLES
    leader,       \* the unit that holds the lease, or NoUnit
    leaderReady,  \* "leader_ready" in the peer application databag
    schema,       \* the db-sync commands the current database has seen
    relReady,     \* the mandatory relations are all ready
    pebble,       \* pebble[u]: the container of u can be connected to
    running,      \* running[u]: the services of u run
    saved,        \* saved[u]: the committed StoredState of u
    mem,          \* mem[u]: the StoredState the running hook of u works on
    pc,           \* pc[u]: the next step of the running hook, or "idle"
    cmd,          \* cmd[u]: the db-sync command the hook of u runs
    announce,     \* announce[u]: the hook of u has written leader_ready
    due,          \* due[u]: an event that configures the charm waits for u
    faults        \* faults so far

hookVars == <<mem, pc, cmd, announce>>
appVars  == <<leader, leaderReady, schema, relReady>>
podVars  == <<pebble, running, saved>>
vars     == <<appVars, podVars, hookVars, due, faults>>

Stored == [dbSync : BOOLEAN,        \* the label "db-sync" is in run_once
           bootstrapped : BOOLEAN,  \* unit_bootstrapped
           status : {"unknown", "waiting", "blocked", "active"},
           boot : {"maintenance", "active"}]

Fresh == [dbSync |-> FALSE, bootstrapped |-> FALSE,
          status |-> "unknown", boot |-> "maintenance"]

Steps == {"idle", "leader", "relations", "containers", "sync", "command",
          "init", "services", "app", "commit", "flush"}

TypeOK ==
    /\ leader \in Units \cup {NoUnit}
    /\ leaderReady \in BOOLEAN
    /\ schema \subseteq Cmds
    /\ relReady \in BOOLEAN
    /\ pebble \in [Units -> BOOLEAN]
    /\ running \in [Units -> BOOLEAN]
    /\ saved \in [Units -> Stored]
    /\ mem \in [Units -> Stored]
    /\ pc \in [Units -> Steps]
    /\ cmd \in [Units -> Cmds]
    /\ announce \in [Units -> BOOLEAN]
    /\ due \in [Units -> BOOLEAN]
    /\ faults \in Nat

\* Juju elects a leader before it runs the first hook of the application.
Init ==
    /\ leader \in Units
    /\ leaderReady = FALSE
    /\ schema = {}
    /\ relReady = FALSE
    /\ pebble = [u \in Units |-> FALSE]
    /\ running = [u \in Units |-> FALSE]
    /\ saved = [u \in Units |-> Fresh]
    /\ mem = [u \in Units |-> Fresh]
    /\ pc = [u \in Units |-> "idle"]
    /\ cmd = [u \in Units |-> 1]
    /\ announce = [u \in Units |-> FALSE]
    /\ due = [u \in Units |-> TRUE]
    /\ faults = 0

Fault(kind) ==
    /\ kind \in Faults
    /\ faults < MaxFaults
    /\ faults' = faults + 1

\* The hook moves on to step s.
GoTo(u, s) == pc' = [pc EXCEPT ![u] = s]

\* An exception the guard turns into a workload status; the hook still ends
\* normally and commits what it has done so far.
Bail(u, s) ==
    /\ GoTo(u, "commit")
    /\ mem' = [mem EXCEPT ![u].status = s]

-----------------------------------------------------------------------------
(* Plausible mistakes in the handlers below; no specification uses them.   *)

\* Services are initialised before the database is synced.
ConfigureContainersSkipsSync(u) ==
    /\ pc[u] = "containers"
    /\ \/ pebble[u] /\ GoTo(u, "init") /\ UNCHANGED mem
       \/ ~ pebble[u] /\ Bail(u, "waiting")
    /\ UNCHANGED <<appVars, podVars, cmd, announce, due, faults>>

\* The leader starts the list of commands at its end.
RunDbSyncLastOnly(u) ==
    /\ pc[u] = "sync"
    /\ \/ mem[u].dbSync /\ GoTo(u, "init") /\ UNCHANGED cmd
       \/ /\ ~ mem[u].dbSync /\ u = leader
          /\ GoTo(u, "command")
          /\ cmd' = [cmd EXCEPT ![u] = NumCmds]
    /\ UNCHANGED <<mem, appVars, podVars, announce, due, faults>>

\* The end of the list is missed by one.
SyncCommandOffByOne(u) ==
    /\ pc[u] = "command"
    /\ schema' = schema \cup {cmd[u]}
    /\ \/ cmd[u] <= NumCmds /\ cmd' = [cmd EXCEPT ![u] = cmd[u] + 1] /\ UNCHANGED pc
       \/ cmd[u] > NumCmds /\ GoTo(u, "init") /\ UNCHANGED cmd
    /\ UNCHANGED <<mem, leader, leaderReady, relReady, podVars, announce, due,
                   faults>>

\* The peers are not told that the leader is ready.
FlushUnheard(u) ==
    /\ pc[u] = "flush"
    /\ announce[u] => u = leader
    /\ leaderReady' = (leaderReady \/ announce[u])
    /\ GoTo(u, "idle")
    /\ UNCHANGED <<leader, schema, relReady, podVars, mem, cmd, announce, due,
                   faults>>

\* A unit that is not the leader any more gets active without the announcement.
ConfigureAppUnchecked(u) ==
    /\ pc[u] = "app"
    /\ announce' = [announce EXCEPT ![u] = u = leader]
    /\ mem' = [mem EXCEPT ![u].status = "active", ![u].boot = "active"]
    /\ GoTo(u, "commit")
    /\ UNCHANGED <<appVars, podVars, cmd, due, faults>>

\* pebble-ready does not configure the charm.
PebbleReadyIgnored(u) ==
    /\ ~ pebble[u]
    /\ pebble' = [pebble EXCEPT ![u] = TRUE]
    /\ UNCHANGED <<appVars, running, saved, hookVars, due, faults>>

-----------------------------------------------------------------------------
(* One hook: configure_charm under its guard.                              *)

\* The charm is instantiated: the StoredState is loaded, and __post_init__
\* reports maintenance unless the unit is bootstrapped().
StartHook(u) ==
    /\ pc[u] = "idle"
    /\ due[u]
    /\ due' = [due EXCEPT ![u] = FALSE]
    /\ mem' = [mem EXCEPT ![u] =
                 IF saved[u].bootstrapped /\ leaderReady
                   THEN saved[u]
                   ELSE [saved[u] EXCEPT !.boot = "maintenance"]]
    /\ announce' = [announce EXCEPT ![u] = FALSE]
    /\ GoTo(u, "leader")
    /\ UNCHANGED <<appVars, podVars, cmd, faults>>

CheckLeaderReady(u) ==
    /\ pc[u] = "leader"
    /\ \/ /\ u = leader \/ leaderReady
          /\ GoTo(u, "relations")
          /\ UNCHANGED mem
       \/ /\ ~ (u = leader \/ leaderReady)
          /\ Bail(u, "waiting")
    /\ UNCHANGED <<appVars, podVars, cmd, announce, due, faults>>

\* Services are stopped before the hook gives up on incomplete relations.
CheckRelationHandlersReady(u) ==
    /\ pc[u] = "relations"
    /\ \/ /\ relReady
          /\ GoTo(u, "containers")
          /\ UNCHANGED <<mem, running>>
       \/ /\ ~ relReady
          /\ running' = [running EXCEPT ![u] = running[u] /\ ~ pebble[u]]
          /\ Bail(u, "waiting")
    /\ UNCHANGED <<appVars, pebble, saved, cmd, announce, due, faults>>

ConfigureContainers(u) ==
    /\ pc[u] = "containers"
    /\ \/ /\ pebble[u]
          /\ GoTo(u, "sync")
          /\ UNCHANGED mem
       \/ /\ ~ pebble[u]
          /\ Bail(u, "waiting")
    /\ UNCHANGED <<appVars, podVars, cmd, announce, due, faults>>

\* run_once_per_unit("db-sync"): a recorded label skips the job, and so does
\* a unit that is not the leader, whose label is recorded all the same.
RunDbSync(u) ==
    /\ pc[u] = "sync"
    /\ \/ /\ mem[u].dbSync
          /\ GoTo(u, "init")
          /\ UNCHANGED <<mem, cmd>>
       \/ /\ ~ mem[u].dbSync
          /\ u # leader
          /\ mem' = [mem EXCEPT ![u].dbSync = TRUE]
          /\ GoTo(u, "init")
          /\ UNCHANGED cmd
       \/ /\ ~ mem[u].dbSync
          /\ u = leader
          /\ cmd' = [cmd EXCEPT ![u] = 1]
          /\ GoTo(u, "command")
          /\ UNCHANGED mem
    /\ UNCHANGED <<appVars, podVars, announce, due, faults>>

\* One command of db_sync_cmds, with its retries, succeeds.  The label is
\* recorded after the last one.
SyncCommand(u) ==
    /\ pc[u] = "command"
    /\ schema' = schema \cup {cmd[u]}
    /\ \/ /\ cmd[u] < NumCmds
          /\ cmd' = [cmd EXCEPT ![u] = cmd[u] + 1]
          /\ UNCHANGED <<mem, pc>>
       \/ /\ cmd[u] = NumCmds
          /\ mem' = [mem EXCEPT ![u].dbSync = TRUE]
          /\ GoTo(u, "init")
          /\ UNCHANGED cmd
    /\ UNCHANGED <<leader, leaderReady, relReady, podVars, announce, due,
                   faults>>

\* A command exhausts its retries: BlockedExceptionError leaves the label
\* unrecorded, and the commands that went through stay applied.
SyncFails(u) ==
    /\ pc[u] = "command"
    /\ Fault("sync")
    /\ Bail(u, "blocked")
    /\ UNCHANGED <<appVars, podVars, cmd, announce, due>>

InitContainerServices(u) ==
    /\ pc[u] = "init"
    /\ \/ /\ pebble[u]
          /\ running' = [running EXCEPT ![u] = TRUE]
          /\ GoTo(u, "services")
          /\ UNCHANGED mem
       \/ /\ ~ pebble[u]
          /\ Bail(u, "waiting")
          /\ UNCHANGED running
    /\ UNCHANGED <<appVars, pebble, saved, cmd, announce, due, faults>>

\* pebble refuses to start a service: the guard handles any other exception.
StartFails(u) ==
    /\ pc[u] = "init"
    /\ pebble[u]
    /\ Fault("start")
    /\ Bail(u, "blocked")
    /\ UNCHANGED <<appVars, podVars, cmd, announce, due>>

CheckPebbleHandlersReady(u) ==
    /\ pc[u] = "services"
    /\ \/ /\ pebble[u] /\ running[u]
          /\ mem' = [mem EXCEPT ![u].bootstrapped = TRUE]
          /\ GoTo(u, "app")
       \/ /\ ~ (pebble[u] /\ running[u])
          /\ Bail(u, "waiting")
    /\ UNCHANGED <<appVars, podVars, cmd, announce, due, faults>>

\* The leader announces itself, a follower needs the announcement; then the
\* bootstrap status and the workload status become active.
ConfigureApp(u) ==
    /\ pc[u] = "app"
    /\ \/ /\ u = leader \/ (mem[u].bootstrapped /\ leaderReady)
          /\ announce' = [announce EXCEPT ![u] = u = leader]
          /\ mem' = [mem EXCEPT ![u].status = "active", ![u].boot = "active"]
          /\ GoTo(u, "commit")
       \/ /\ u # leader
          /\ ~ (mem[u].bootstrapped /\ leaderReady)
          /\ Bail(u, "waiting")
          /\ UNCHANGED announce
    /\ UNCHANGED <<appVars, podVars, cmd, due, faults>>

\* The framework commits the StoredState, which the base charm insists on
\* keeping in the unit, while the process still runs.
Commit(u) ==
    /\ pc[u] = "commit"
    /\ saved' = [saved EXCEPT ![u] = mem[u]]
    /\ GoTo(u, "flush")
    /\ UNCHANGED <<appVars, pebble, running, mem, cmd, announce, due, faults>>

\* The process has ended, and Juju flushes its databag write; the peers hear
\* of a value that is new to them.
Flush(u) ==
    /\ pc[u] = "flush"
    /\ announce[u] => u = leader
    /\ leaderReady' = (leaderReady \/ announce[u])
    /\ due' = [v \in Units |->
                 due[v] \/ (announce[u] /\ ~ leaderReady /\ v # u)]
    /\ GoTo(u, "idle")
    /\ UNCHANGED <<leader, schema, relReady, podVars, mem, cmd, announce, faults>>

\* Juju refuses the application databag of a unit that lost the lease: the
\* hook has failed and is run again, on the StoredState it has committed.
FlushRefused(u) ==
    /\ pc[u] = "flush"
    /\ announce[u] /\ u # leader
    /\ GoTo(u, "idle")
    /\ due' = [due EXCEPT ![u] = TRUE]
    /\ UNCHANGED <<appVars, podVars, mem, cmd, announce, faults>>

HookStep(u) ==
    \/ StartHook(u)
    \/ CheckLeaderReady(u)
    \/ CheckRelationHandlersReady(u)
    \/ ConfigureContainers(u)
    \/ RunDbSync(u)
    \/ SyncCommand(u)
    \/ SyncFails(u)
    \/ InitContainerServices(u)
    \/ StartFails(u)
    \/ CheckPebbleHandlersReady(u)
    \/ ConfigureApp(u)
    \/ Commit(u)
    \/ Flush(u)
    \/ FlushRefused(u)

-----------------------------------------------------------------------------
(* The environment: Juju, Kubernetes, the operator, the related charms.    *)

\* The new leader gets leader-elected, which no handler of the charm observes.
Elect(u) ==
    /\ leader = NoUnit
    /\ leader' = u
    /\ UNCHANGED <<leaderReady, schema, relReady, podVars, hookVars, due,
                   faults>>

LoseLease(u) ==
    /\ leader = u
    /\ \/ Fault("elect") /\ pc[u] = "idle"
       \/ Fault("outlast") /\ pc[u] = "command"
       \/ Fault("lease") /\ pc[u] # "idle"
    /\ leader' = NoUnit
    /\ UNCHANGED <<leaderReady, schema, relReady, podVars, hookVars, due>>

\* Before the commit the StoredState is lost, after it only the databag write.
HookKilled(u) ==
    /\ pc[u] # "idle"
    /\ Fault("kill")
    /\ GoTo(u, "idle")
    /\ due' = [due EXCEPT ![u] = TRUE]
    /\ UNCHANGED <<appVars, podVars, mem, cmd, announce>>

PodReplaced(u) ==
    /\ Fault("pod")
    /\ pebble' = [pebble EXCEPT ![u] = FALSE]
    /\ running' = [running EXCEPT ![u] = FALSE]
    /\ saved' = [saved EXCEPT ![u] = Fresh]
    /\ GoTo(u, "idle")
    /\ due' = [due EXCEPT ![u] = TRUE]
    /\ UNCHANGED <<appVars, mem, cmd, announce>>

\* pebble-ready runs configure_charm.
PebbleReady(u) ==
    /\ ~ pebble[u]
    /\ pebble' = [pebble EXCEPT ![u] = TRUE]
    /\ due' = [due EXCEPT ![u] = TRUE]
    /\ UNCHANGED <<appVars, running, saved, hookVars, faults>>

ContainerRestarts(u) ==
    /\ pebble[u]
    /\ Fault("pebble")
    /\ pebble' = [pebble EXCEPT ![u] = FALSE]
    /\ running' = [running EXCEPT ![u] = FALSE]
    /\ UNCHANGED <<appVars, saved, hookVars, due>>

ConfigChanged(u) ==
    /\ ~ due[u]
    /\ Fault("config")
    /\ due' = [due EXCEPT ![u] = TRUE]
    /\ UNCHANGED <<appVars, podVars, hookVars>>

\* Every unit hears of a relation that becomes ready or goes away.  A database
\* is not replaced under a migration: that one goes on against the old one.
RelationsReady ==
    /\ ~ relReady
    /\ relReady' = TRUE
    /\ due' = [u \in Units |-> TRUE]
    /\ UNCHANGED <<leader, leaderReady, schema, podVars, hookVars, faults>>

RelationGone ==
    /\ relReady
    /\ relReady' = FALSE
    /\ due' = [u \in Units |-> TRUE]
    /\ \/ Fault("relation") /\ UNCHANGED schema
       \/ Fault("db") /\ schema' = {} /\ \A u \in Units : pc[u] # "command"
    /\ UNCHANGED <<leader, leaderReady, podVars, hookVars>>

UnitEvent(u) ==
    \/ Elect(u)
    \/ LoseLease(u)
    \/ HookKilled(u)
    \/ PodReplaced(u)
    \/ PebbleReady(u)
    \/ ContainerRestarts(u)
    \/ ConfigChanged(u)

Environment ==
    \/ \E u \in Units : UnitEvent(u)
    \/ RelationsReady
    \/ RelationGone

Next == Environment \/ \E u \in Units : HookStep(u)

Spec == Init /\ [][Next]_vars

\* Juju runs the hooks that are due, Kubernetes restarts containers, some
\* unit gets the lease, and the related applications answer in the end.
FairSpec ==
    /\ Spec
    /\ \A u \in Units : WF_vars(HookStep(u)) /\ WF_vars(PebbleReady(u))
    /\ WF_vars(\E u \in Units : Elect(u))
    /\ WF_vars(RelationsReady)

-----------------------------------------------------------------------------
(* Properties.                                                             *)

Synced == schema = Cmds

\* The announcement peers wait for ("leader_ready") is only made once every
\* db-sync command has been applied to the database.
AnnouncedMeansSynced == leaderReady => Synced

\* A committed "db-sync" label, which makes a later leader skip the sync,
\* is only found where the database has been synced, by whichever unit.
LabelMeansSynced == \A u \in Units : saved[u].dbSync => Synced

\* No unit serves on a database that lacks part of its schema, also when a
\* sync failed half way, hooks died and leadership moved.
ServingMeansSynced == \A u \in Units : running[u] => Synced

\* The three together: nothing is announced (check_leader_ready), skipped
\* (run_once_per_unit) or served (init_container_services) before the sync,
\* also when a sync outlasts the lease and a former leader migrates beside the
\* new one.
SyncedFirst == AnnouncedMeansSynced /\ LabelMeansSynced /\ ServingMeansSynced

\* When the leader skips db-sync because "it has run previously for this
\* unit" (job_ctrl.run_once_per_unit), the database is indeed synced.
SkippedSyncHasRun ==
    \A u \in Units :
        pc[u] = "sync" /\ mem[u].dbSync /\ u = leader => Synced

\* A unit whose committed statuses are both active is bootstrapped, and its
\* application has announced itself.  The claim is committed in the unit before
\* leader_ready is flushed; where the flush is refused or lost it stands only
\* until the hook that Juju runs again has taken it back.
ActiveMeansBootstrapped ==
    \A u \in Units :
        saved[u].status = "active" /\ saved[u].boot = "active"
            => /\ saved[u].bootstrapped
               /\ leaderReady \/ pc[u] # "idle" \/ due[u]

\* No lost wake-up: when the application is announced, the relations are
\* ready and the container is up, a unit that is neither serving nor blocked
\* by a failed start has a hook running or due.
NoLostWakeup ==
    \A u \in Units :
        leaderReady /\ relReady /\ pebble[u] /\ ~ running[u]
            => \/ due[u]
               \/ pc[u] # "idle"
               \/ saved[u].status = "blocked"

\* Once the faults stop, the application gets to the state in which every
\* unit is bootstrapped and serves, and stays there.
EventuallyAllServe ==
    <>[] (leaderReady /\ \A u \in Units : running[u] /\ saved[u].bootstrapped)

\* The units together do what AppReadiness promises of the application.
Promise == INSTANCE AppReadiness WITH
               announced <- leaderReady,
               serving <- {u \in Units : running[u]}
ImplementsPromise == Promise!Spec
=============================================================================
