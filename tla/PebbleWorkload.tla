--------------------------- MODULE PebbleWorkload ---------------------------
(***************************************************************************)
(* The payload containers of one unit, as the pebble handlers of           *)
(* ops_sunbeam drive them: a configure hook writes the configuration files *)
(* of every container, and only then (re)starts the services, one handler  *)
(* after the other.  That a file has changed is remembered in the hook     *)
(* alone (_files_changed); the next hook compares with the file it finds.  *)
(*                                                                         *)
(* A configuration is a version number: the content the templates give for *)
(* the relation data and options of the moment.                            *)
(***************************************************************************)
EXTENDS Integers

CONSTANTS
    NumContainers,  \* containers, in the order of pebble_handlers
    MaxVersion,     \* bound on configuration changes
    Faults,         \* the kinds of fault the environment may cause
    MaxFaults       \* bound on the faults of one behaviour

FaultKinds ==
    { "kill",      \* the charm process dies in the middle of a hook
      "restart",   \* a container restarts with an empty file system
      "start",     \* pebble stops a service and cannot start it again
      "call",      \* a call to pebble fails, and a running service runs on
      "relation",  \* mandatory relation data goes away
      "check" }    \* a health check fails or recovers

ASSUME SizeAssumption ==
    NumContainers \in Nat \ {0} /\ MaxVersion \in Nat \ {0}
ASSUME FaultAssumption == Faults \subseteq FaultKinds /\ MaxFaults \in Nat

Containers == 1 .. NumContainers
Versions   == 1 .. MaxVersion
None       == 0     \* no file, or a service that does not run

VARIABLES
    want,      \* the configuration the templates would give now
    relReady,  \* the mandatory relations are ready
    connect,   \* connect[c]: pebble answers in container c
    file,      \* file[c]: the version in the configuration file
    layer,     \* layer[c]: the plan has the service of c
    loaded,    \* loaded[c]: the version the running service has read
    check,     \* check[c]: "none" before health checks are in the plan
    status,    \* status[c]: the status of the handler
    workload,  \* the workload status
    pc,        \* the next step of the running hook, or "idle"
    h,         \* the handler that step is about
    view,      \* the configuration this hook renders
    changed,   \* the containers with a non-empty _files_changed
    forgotten, \* history: containers whose change a hook that has ended knew
               \* of, and which no start has read since
    due,       \* an event that configures the charm waits
    booted,    \* the containers with a pebble-ready event waiting
    alarm,     \* the containers with a check event waiting
    faults     \* faults so far

hookVars == <<pc, h, view, changed, forgotten>>
podVars  == <<connect, file, layer, loaded, check>>
envVars  == <<want, relReady, due, booted, alarm, faults>>
vars     == <<hookVars, podVars, envVars, status, workload>>

TypeOK ==
    /\ want \in Versions
    /\ relReady \in BOOLEAN
    /\ connect \in [Containers -> BOOLEAN]
    /\ file \in [Containers -> Versions \cup {None}]
    /\ layer \in [Containers -> BOOLEAN]
    /\ loaded \in [Containers -> Versions \cup {None}]
    /\ check \in [Containers -> {"none", "up", "down"}]
    /\ status \in [Containers -> {"unknown", "waiting", "blocked", "active"}]
    /\ workload \in {"unknown", "waiting", "blocked", "active"}
    /\ pc \in {"idle", "relations", "write", "start", "services", "finish"}
    /\ h \in Containers
    /\ view \in Versions
    /\ changed \subseteq Containers
    /\ forgotten \subseteq Containers
    /\ due \in BOOLEAN
    /\ booted \subseteq Containers
    /\ alarm \subseteq Containers
    /\ faults \in Nat

Init ==
    /\ want = 1
    /\ relReady = FALSE
    /\ connect = [c \in Containers |-> FALSE]
    /\ file = [c \in Containers |-> None]
    /\ layer = [c \in Containers |-> FALSE]
    /\ loaded = [c \in Containers |-> None]
    /\ check = [c \in Containers |-> "none"]
    /\ status = [c \in Containers |-> "unknown"]
    /\ workload = "unknown"
    /\ pc = "idle"
    /\ h = 1
    /\ view = 1
    /\ changed = {}
    /\ forgotten = {}
    /\ due = TRUE
    /\ booted = {}
    /\ alarm = {}
    /\ faults = 0

Fault(kind) ==
    /\ kind \in Faults
    /\ faults < MaxFaults
    /\ faults' = faults + 1

-----------------------------------------------------------------------------
(* Plausible mistakes in the definitions below; no specification uses them. *)

\* The charm waits for the relations and leaves the services running.
CheckRelationsKeepsRunning ==
    /\ pc = "relations"
    /\ \/ relReady /\ pc' = "write" /\ UNCHANGED workload
       \/ ~ relReady /\ pc' = "idle" /\ workload' = "waiting"
    /\ UNCHANGED <<envVars, podVars, h, view, changed, forgotten, status>>

\* Only a file this very call has written makes the service restart.
WrittenForgets(c) ==
    /\ file' = [file EXCEPT ![c] = view]
    /\ changed' = changed \ {c}

\* pebble-ready adds the layer and does not configure the charm.
StartPebbleReadyLayerOnly(c) ==
    /\ pc = "idle"
    /\ c \in booted
    /\ connect[c]
    /\ booted' = booted \ {c}
    /\ layer' = [layer EXCEPT ![c] = TRUE]
    /\ UNCHANGED <<hookVars, connect, file, loaded, check, want, relReady, due,
                   alarm, faults, status, workload>>

\* update-status leaves a blocked handler alone.
UpdateStatusKeepsBlocked ==
    /\ pc = "idle"
    /\ status' = [c \in Containers |->
                    IF status[c] = "blocked" THEN "blocked" ELSE "waiting"]
    /\ UNCHANGED <<hookVars, podVars, envVars, workload>>

-----------------------------------------------------------------------------
(* Pieces of the handlers.                                                 *)

\* The hook ends early with a workload status; what it did stays done.
Bail(s) ==
    /\ pc' = "idle"
    /\ workload' = s

\* The hook goes on to the next handler, or to step s after the last one.
NextHandler(s) ==
    IF h < NumContainers THEN h' = h + 1 /\ UNCHANGED pc
                         ELSE h' = 1 /\ pc' = s

\* configure_container: write the file if its content differs, and extend
\* _files_changed.
Written(c) ==
    /\ file' = [file EXCEPT ![c] = view]
    /\ changed' = IF file[c] # view THEN changed \cup {c} ELSE changed

\* is_running() for every service in the plan; an empty plan is ready.
ServiceReady(c) == connect[c] /\ (layer[c] => loaded[c] # None)

-----------------------------------------------------------------------------
(* A hook that configures the charm.                                       *)

StartHook ==
    /\ pc = "idle"
    /\ due
    /\ due' = FALSE
    /\ pc' = "relations"
    /\ h' = 1
    /\ view' = want
    /\ changed' = {}
    /\ forgotten' = forgotten \cup changed
    /\ UNCHANGED <<podVars, want, relReady, booted, alarm, faults, status,
                   workload>>

\* pebble-ready: the handler adds its layer before it configures the charm.
StartPebbleReady(c) ==
    /\ pc = "idle"
    /\ c \in booted
    /\ connect[c]
    /\ booted' = booted \ {c}
    /\ layer' = [layer EXCEPT ![c] = TRUE]
    /\ pc' = "relations"
    /\ h' = 1
    /\ view' = want
    /\ changed' = {}
    /\ forgotten' = forgotten \cup changed
    /\ UNCHANGED <<connect, file, loaded, check, want, relReady, due, alarm,
                   faults, status, workload>>

CheckRelations ==
    /\ pc = "relations"
    /\ \/ /\ relReady
          /\ pc' = "write"
          /\ UNCHANGED <<loaded, workload>>
       \/ /\ ~ relReady
          /\ loaded' = [c \in Containers |->
                          IF connect[c] THEN None ELSE loaded[c]]
          /\ Bail("waiting")
    /\ UNCHANGED <<envVars, connect, file, layer, check, h, view, changed,
                   forgotten, status>>

\* stop_services goes through the handlers, and the call of one of them fails:
\* its service and those behind it run on.
StopFails ==
    /\ pc = "relations"
    /\ ~ relReady
    /\ Fault("call")
    /\ \E n \in Containers :
          /\ connect[n]
          /\ loaded' = [c \in Containers |->
                          IF connect[c] /\ c < n THEN None ELSE loaded[c]]
    /\ Bail("blocked")
    /\ UNCHANGED <<want, relReady, due, booted, alarm, connect, file, layer,
                   check, h, view, changed, forgotten, status>>

ConfigureContainer ==
    /\ pc = "write"
    /\ \/ /\ connect[h]
          /\ Written(h)
          /\ NextHandler("start")
          /\ UNCHANGED workload
       \/ /\ ~ connect[h]
          /\ Bail("waiting")
          /\ UNCHANGED <<file, changed, h>>
    /\ UNCHANGED <<envVars, connect, layer, loaded, check, view, forgotten,
                   status>>

\* A service that does not run is started, one that runs is restarted if a
\* file has changed; both forget the changes.
InitService ==
    /\ pc = "start"
    /\ connect[h]
    /\ file' = [file EXCEPT ![h] = view]
    /\ layer' = [layer EXCEPT ![h] = TRUE]
    /\ LET dirty == h \in changed \/ file[h] # view
       IN  IF loaded[h] = None \/ dirty
             THEN /\ loaded' = [loaded EXCEPT ![h] = view]
                  /\ changed' = changed \ {h}
                  /\ forgotten' = forgotten \ {h}
             ELSE UNCHANGED <<loaded, changed, forgotten>>
    /\ status' = [status EXCEPT ![h] = "active"]
    /\ NextHandler("services")
    /\ UNCHANGED <<envVars, connect, check, view, workload>>

InitServiceNotReady ==
    /\ pc = "start"
    /\ ~ connect[h]
    /\ Bail("waiting")
    /\ UNCHANGED <<envVars, podVars, h, view, changed, forgotten, status>>

\* pebble has stopped the service and cannot start it again.
InitServiceFails ==
    /\ pc = "start"
    /\ connect[h]
    /\ Fault("start")
    /\ file' = [file EXCEPT ![h] = view]
    /\ layer' = [layer EXCEPT ![h] = TRUE]
    /\ loaded' = [loaded EXCEPT ![h] = None]
    /\ Bail("blocked")
    /\ UNCHANGED <<want, relReady, due, booted, alarm, connect, check, h, view,
                   changed, forgotten, status>>

\* A call of this handler fails (no answer in time, a layer that is refused, a
\* change that does not end) before its service has been touched: the guard
\* ends the hook, the file may have been written and the layer added already,
\* and what runs goes on with what it has read.
PebbleCallFails ==
    /\ pc \in {"write", "start"}
    /\ connect[h]
    /\ Fault("call")
    /\ \/ UNCHANGED <<file, changed, layer>>
       \/ Written(h) /\ UNCHANGED layer
       \/ /\ pc = "start"
          /\ Written(h)
          /\ layer' = [layer EXCEPT ![h] = TRUE]
    /\ Bail("blocked")
    /\ UNCHANGED <<want, relReady, due, booted, alarm, connect, loaded, check, h,
                   view, forgotten, status>>

CheckServices ==
    /\ pc = "services"
    /\ \/ /\ \A c \in Containers : ServiceReady(c)
          /\ pc' = "finish"
          /\ UNCHANGED workload
       \/ /\ \E c \in Containers : ~ ServiceReady(c)
          /\ Bail("waiting")
    /\ UNCHANGED <<envVars, podVars, h, view, changed, forgotten, status>>

\* post_config_setup: health checks enter a plan that has none yet.
Finish ==
    /\ pc = "finish"
    /\ check' = [c \in Containers |->
                   IF connect[c] /\ check[c] = "none" THEN "up" ELSE check[c]]
    /\ Bail("active")
    /\ UNCHANGED <<envVars, connect, file, layer, loaded, h, view, changed,
                   forgotten, status>>

\* What _on_update_status makes of the state of container c.
Assessed(c) ==
    IF ~ ServiceReady(c) THEN "waiting"
    ELSE IF check[c] = "down" THEN "blocked" ELSE "active"

\* update-status reaches every handler.
UpdateStatus ==
    /\ pc = "idle"
    /\ status' = [c \in Containers |-> Assessed(c)]
    /\ UNCHANGED <<hookVars, podVars, envVars, workload>>

\* pebble-check-failed and pebble-check-recovered reach one.
CheckEvent(c) ==
    /\ pc = "idle"
    /\ c \in alarm
    /\ alarm' = alarm \ {c}
    /\ status' = [status EXCEPT ![c] = Assessed(c)]
    /\ UNCHANGED <<hookVars, podVars, want, relReady, due, booted, faults,
                   workload>>

ConfigureStep ==
    \/ CheckRelations
    \/ StopFails
    \/ ConfigureContainer
    \/ InitService
    \/ InitServiceNotReady
    \/ InitServiceFails
    \/ PebbleCallFails
    \/ CheckServices
    \/ Finish

Hook ==
    \/ StartHook
    \/ \E c \in Containers : StartPebbleReady(c)
    \/ ConfigureStep
    \/ \E c \in Containers : CheckEvent(c)

-----------------------------------------------------------------------------
(* The environment.                                                        *)

\* Relation data or an option changes, also under a running hook.
ConfigChanged ==
    /\ want < MaxVersion
    /\ want' = want + 1
    /\ due' = TRUE
    /\ UNCHANGED <<hookVars, podVars, relReady, booted, alarm, faults, status,
                   workload>>

RelationsReady ==
    /\ ~ relReady
    /\ relReady' = TRUE
    /\ due' = TRUE
    /\ UNCHANGED <<hookVars, podVars, want, booted, alarm, faults, status,
                   workload>>

RelationGone ==
    /\ relReady
    /\ Fault("relation")
    /\ relReady' = FALSE
    /\ due' = TRUE
    /\ UNCHANGED <<hookVars, podVars, want, booted, alarm, status, workload>>

ContainerStarts(c) ==
    /\ ~ connect[c]
    /\ connect' = [connect EXCEPT ![c] = TRUE]
    /\ booted' = booted \cup {c}
    /\ UNCHANGED <<hookVars, file, layer, loaded, check, want, relReady, due,
                   alarm, faults, status, workload>>

ContainerRestarts(c) ==
    /\ connect[c]
    /\ Fault("restart")
    /\ connect' = [connect EXCEPT ![c] = FALSE]
    /\ file' = [file EXCEPT ![c] = None]
    /\ layer' = [layer EXCEPT ![c] = FALSE]
    /\ loaded' = [loaded EXCEPT ![c] = None]
    /\ check' = [check EXCEPT ![c] = "none"]
    /\ forgotten' = forgotten \ {c}
    /\ UNCHANGED <<pc, h, view, changed, want, relReady, due, booted, alarm, status,
                   workload>>

\* A health check crosses its threshold, in either direction.
CheckFlips(c) ==
    /\ check[c] # "none"
    /\ Fault("check")
    /\ check' = [check EXCEPT ![c] = IF check[c] = "up" THEN "down" ELSE "up"]
    /\ alarm' = alarm \cup {c}
    /\ UNCHANGED <<hookVars, connect, file, layer, loaded, want, relReady, due,
                   booted, status, workload>>

HookKilled ==
    /\ pc # "idle"
    /\ Fault("kill")
    /\ pc' = "idle"
    /\ due' = TRUE
    /\ UNCHANGED <<h, view, changed, forgotten, podVars, want, relReady, booted, alarm,
                   status, workload>>

Environment ==
    \/ ConfigChanged
    \/ RelationsReady
    \/ RelationGone
    \/ HookKilled
    \/ \E c \in Containers :
          ContainerStarts(c) \/ ContainerRestarts(c) \/ CheckFlips(c)

Next == Hook \/ UpdateStatus \/ Environment

Spec == Init /\ [][Next]_vars

\* Juju runs the hooks that wait, Kubernetes starts containers, the related
\* applications answer in the end, and update-status comes periodically.
FairSpec ==
    /\ Spec
    /\ WF_vars(StartHook) /\ WF_vars(ConfigureStep)
    /\ \A c \in Containers :
          /\ WF_vars(StartPebbleReady(c)) /\ WF_vars(CheckEvent(c))
          /\ WF_vars(ContainerStarts(c))
    /\ WF_vars(RelationsReady)
    /\ WF_vars(UpdateStatus)

-----------------------------------------------------------------------------
(* Properties.                                                             *)

\* No hook runs and no event that would start one waits.
AtRest == pc = "idle" /\ ~ due /\ booted = {} /\ alarm = {}

\* The unit is at rest, reports active, has its relations and can reach all its
\* containers.
SaysActive ==
    AtRest /\ workload = "active" /\ relReady
      /\ \A c \in DOMAIN connect : connect[c]

\* At rest, a unit that reports active with its relations ready and its
\* containers up runs every service on the current configuration.
ActiveRunsCurrent == SaysActive => \A c \in DOMAIN connect : loaded[c] = want

\* The same for any containers and faults, as far as _files_changed goes: the
\* files are current and all services run, and one that runs on an older file
\* is one whose change was forgotten by a hook that ended between the file and
\* the start (configure_container and init_service).
ActiveRunsCurrentOrForgot ==
    SaysActive =>
        \A c \in DOMAIN connect :
            /\ file[c] = want
            /\ loaded[c] # None
            /\ loaded[c] = want \/ c \in forgotten

\* At rest, no service of a container that can be reached runs without the
\* mandatory relations, unless the unit says that stopping them has failed.
NothingRunsWithoutRelations ==
    AtRest /\ ~ relReady /\ workload # "blocked" =>
        \A c \in DOMAIN connect : connect[c] => loaded[c] = None

\* With finitely many faults the unit ends up active with all its services on
\* the configuration of the moment, or blocked by a call or a start that failed.
\* A change that was forgotten is the one that never reaches its service.
EventuallyCurrent ==
    <>[] \/ workload = "blocked"
         \/ /\ workload = "active"
            /\ \A c \in DOMAIN connect : loaded[c] = want \/ c \in forgotten

\* A handler does not stay blocked by a check that has recovered or is gone
\* with its container.
BlockedIsTransient ==
    \A c \in Containers :
        [] (status[c] = "blocked" => <> (status[c] # "blocked" \/ check[c] = "down"))
=============================================================================
