------------------------------ MODULE ApiCharms ------------------------------
(***************************************************************************)
(* The charms of the OpenStack services on the framework: what each of    *)
(* them makes of configure_charm.  The catalogue has the pebble handlers of *)
(* a charm and its program, the steps of the hook that configures one of   *)
(* its units; the actions are the steps.  Most are steps of the base charm, *)
(* some stand before its guard, in the middle, or behind it.               *)
(*                                                                         *)
(* A configuration is a version number.  Relations and options are those   *)
(* of the moment a hook starts; containers may go away under it.           *)
(***************************************************************************)
EXTENDS Integers, Sequences, FiniteSets

CONSTANTS
    CharmPlans,    \* a charm, whether its unit leads, the faults about it, how many at most
    MaxConfig,     \* bound on the configurations of a behaviour
    MaxCharmFaults \* bound on its faults

CharmFaults ==
    { "restart",  \* a container restarts with the files of its image
      "relation", \* mandatory relation data goes away
      "change",   \* the templates would give other files
      "lack",     \* something else the charm demands goes away
      "step" }    \* a command in a container fails

-----------------------------------------------------------------------------
(* Pebble handlers: what init_service does with the files and the services *)
(* of its container.                                                       *)

PodHandler ==
    [writes  : BOOLEAN,  \* it writes the files once more
     always  : BOOLEAN,  \* it restarts whether or not a file has changed
     counted : BOOLEAN]  \* check_pebble_handlers_ready counts its services

ServicePebbleHandler == [writes |-> TRUE, always |-> FALSE, counted |-> TRUE]
WSGIPebbleHandler    == [writes |-> TRUE, always |-> FALSE, counted |-> TRUE]

\* Some restart whenever they are asked to start; octavia's two skip the
\* second write; watcher's two do not count while its charm configures itself.
AODHWSGIPebbleHandler               == WSGIPebbleHandler
AODHEvaluatorPebbleHandler          == ServicePebbleHandler
AODHNotifierPebbleHandler           == ServicePebbleHandler
AODHListenerPebbleHandler           == ServicePebbleHandler
AODHExpirerPebbleHandler            == ServicePebbleHandler
BarbicanWorkerPebbleHandler         == ServicePebbleHandler
CeilometerCentralPebbleHandler      == ServicePebbleHandler
CeilometerNotificationPebbleHandler == ServicePebbleHandler
CinderWSGIPebbleHandler             == [WSGIPebbleHandler EXCEPT !.always = TRUE]
CinderSchedulerPebbleHandler        == ServicePebbleHandler
\* The processor of cloudkitty lives in the container of its API.
CloudkittyWSGIPebbleHandler         == [WSGIPebbleHandler EXCEPT !.always = TRUE]
DesignatePebbleHandler              == WSGIPebbleHandler
BindPebbleHandler                   == ServicePebbleHandler
GlanceAPIPebbleHandler              == ServicePebbleHandler
GnocchiWSGIPebbleHandler            == [WSGIPebbleHandler EXCEPT !.always = TRUE]
GnocchiMetricdPebbleHandler         == ServicePebbleHandler
HeatAPIPebbleHandler                == WSGIPebbleHandler
HeatCfnAPIPebbleHandler             == WSGIPebbleHandler
HeatEnginePebbleHandler             == ServicePebbleHandler
WSGIHorizonPebbleHandler            == WSGIPebbleHandler
OpenstackImagesSyncPebbleHandler    == ServicePebbleHandler
IronicWSGIPebbleHandler             == WSGIPebbleHandler
IronicNoVNCProxyPebbleHandler       == ServicePebbleHandler
IronicConductorPebbleHandler        == WSGIPebbleHandler
MagnumConductorPebbleHandler        == ServicePebbleHandler
ManilaSchedulerPebbleHandler        == ServicePebbleHandler
ManilaSharePebbleHandler            == ServicePebbleHandler
MasakariWSGIPebbleHandler           == WSGIPebbleHandler
MasakariEnginePebbleHandler         == ServicePebbleHandler
MasakariHostMonitorPebbleHandler    == ServicePebbleHandler
NeutronServerPebbleHandler          == WSGIPebbleHandler
NovaWSGIPebbleHandler               == WSGIPebbleHandler
NovaSchedulerPebbleHandler          == ServicePebbleHandler
NovaConductorPebbleHandler          == ServicePebbleHandler
NovaSpiceProxyPebbleHandler         == ServicePebbleHandler
NovaIronicPebbleHandler             == ServicePebbleHandler
OctaviaWSGIPebbleHandler            == [WSGIPebbleHandler EXCEPT !.writes = FALSE]
OctaviaControllerPebbleHandler      == [ServicePebbleHandler EXCEPT !.writes = FALSE]
OSExporterPebbleHandler             == ServicePebbleHandler
WSGIPlacementPebbleHandler          == WSGIPebbleHandler
WatcherDecisionEnginePebbleHandler  == [ServicePebbleHandler EXCEPT !.counted = FALSE]
WatcherApplierPebbleHandler         == [ServicePebbleHandler EXCEPT !.counted = FALSE]

-----------------------------------------------------------------------------
(* Programs: the steps of configure_charm.                                 *)

Steps ==
    { "leader", "relations", "containers", "sync", "services", "pebbles",
      "bootstrapped", "app", "active",              \* of the base charm
      "secret", "sanity", "storage", "early",       \* before its guard
      "option", "pools", "plugins",                 \* in configure_unit
      "start", "restart", "claim" }                 \* behind the guard

ConfigureUnit == <<"leader", "relations", "containers", "sync", "services",
                   "pebbles", "bootstrapped">>

Demands ==
    { "option",   \* an option or a backend that configure_unit checks
      "sanity",   \* options that are checked before the guard
      "address",  \* likewise an address, of whose coming no event tells
      "storage" } \* a ceph key or a local volume

ApiCharm(pod, sync) ==
    [pod    |-> pod,           \* its handlers, in order
     sync   |-> sync,          \* the handler in whose container it syncs
     asks   |-> {},            \* what it demands beside its relations
     before |-> << >>,         \* before the guard
     unit   |-> ConfigureUnit, \* configure_unit
     waits  |-> TRUE,          \* followers wait in configure_app
     kicks  |-> FALSE,         \* everything restarts after the first sync
     after  |-> << >>]         \* behind the guard, whatever came of it

AodhOperatorCharm ==
    ApiCharm(<<AODHWSGIPebbleHandler, AODHEvaluatorPebbleHandler,
               AODHNotifierPebbleHandler, AODHListenerPebbleHandler,
               AODHExpirerPebbleHandler>>, 1)
BarbicanOperatorCharm ==
    ApiCharm(<<WSGIPebbleHandler, BarbicanWorkerPebbleHandler>>, 1)
CeilometerCharm ==
    [ApiCharm(<<CeilometerCentralPebbleHandler, CeilometerNotificationPebbleHandler>>, 2)
        EXCEPT !.before = <<"secret">>]
BindOperatorCharm == ApiCharm(<<BindPebbleHandler>>, 1)
CinderOperatorCharm ==
    ApiCharm(<<CinderWSGIPebbleHandler, CinderSchedulerPebbleHandler>>, 2)
CloudkittyOperatorCharm == ApiCharm(<<CloudkittyWSGIPebbleHandler>>, 1)
DesignateCharm ==
    [ApiCharm(<<DesignatePebbleHandler>>, 1)
        EXCEPT !.unit = <<"leader", "relations", "containers", "sync", "services",
                          "pebbles", "pools", "bootstrapped">>]
GlanceOperatorCharm ==
    [ApiCharm(<<GlanceAPIPebbleHandler>>, 1)
        EXCEPT !.asks = {"storage", "option"}, !.before = <<"storage", "early">>,
               !.unit = <<"option">> \o @, !.after = <<"restart", "claim">>]
GnocchiCephOperatorCharm ==
    [ApiCharm(<<GnocchiWSGIPebbleHandler, GnocchiMetricdPebbleHandler>>, 1)
        EXCEPT !.asks = {"option"},
               !.unit = <<"leader", "relations", "option", "containers", "sync",
                          "services", "pebbles", "bootstrapped">>]
HeatOperatorCharm ==
    ApiCharm(<<HeatAPIPebbleHandler, HeatCfnAPIPebbleHandler, HeatEnginePebbleHandler>>, 1)
HorizonOperatorCharm ==
    [ApiCharm(<<WSGIHorizonPebbleHandler>>, 1)
        EXCEPT !.asks = {"option"},
               !.unit = <<"leader", "relations", "option", "containers", "sync",
                          "services", "pebbles", "plugins", "bootstrapped">>,
               !.after = <<"claim">>]
OpenstackImagesSyncK8SCharm == ApiCharm(<<OpenstackImagesSyncPebbleHandler>>, 1)
IronicOperatorCharm ==
    ApiCharm(<<IronicWSGIPebbleHandler, IronicNoVNCProxyPebbleHandler>>, 1)
IronicConductorOperatorCharm ==
    [ApiCharm(<<IronicConductorPebbleHandler>>, 1)
        EXCEPT !.asks = {"sanity", "address"}, !.before = <<"sanity">>]
MagnumOperatorCharm ==
    [ApiCharm(<<WSGIPebbleHandler, MagnumConductorPebbleHandler>>, 1)
        EXCEPT !.asks = {"option"},
               !.unit = <<"leader", "relations", "option", "containers", "sync",
                          "services", "pebbles", "bootstrapped">>]
ManilaOperatorCharm ==
    ApiCharm(<<WSGIPebbleHandler, ManilaSchedulerPebbleHandler>>, 2)
ManilaShareOperatorCharm == ApiCharm(<<ManilaSharePebbleHandler>>, 1)
MasakariOperatorCharm ==
    ApiCharm(<<MasakariWSGIPebbleHandler, MasakariEnginePebbleHandler,
               MasakariHostMonitorPebbleHandler>>, 1)
NeutronOVNOperatorCharm ==
    [ApiCharm(<<NeutronServerPebbleHandler>>, 1)
        EXCEPT !.asks = {"option"}, !.unit = <<"option">> \o @,
               !.waits = FALSE, !.kicks = TRUE]
NovaCharm ==
    [ApiCharm(<<NovaWSGIPebbleHandler, NovaSchedulerPebbleHandler,
                NovaConductorPebbleHandler, NovaSpiceProxyPebbleHandler>>, 1)
        EXCEPT !.before = <<"secret">>]
NovaIronicOperatorCharm == ApiCharm(<<NovaIronicPebbleHandler>>, 1)
OctaviaOperatorCharm ==
    [ApiCharm(<<OctaviaWSGIPebbleHandler, OctaviaControllerPebbleHandler>>, 1)
        EXCEPT !.asks = {"sanity"}, !.before = <<"sanity">>]
OSExporterOperatorCharm == ApiCharm(<<OSExporterPebbleHandler>>, 1)
PlacementCharm == ApiCharm(<<WSGIPlacementPebbleHandler>>, 1)
WatcherOperatorCharm ==
    [ApiCharm(<<WSGIPebbleHandler, WatcherDecisionEnginePebbleHandler,
                WatcherApplierPebbleHandler>>, 1)
        EXCEPT !.after = <<"start">>]

CharmCatalogue ==
    [aodh |-> AodhOperatorCharm, barbican |-> BarbicanOperatorCharm,
     bind |-> BindOperatorCharm,
     ceilometer |-> CeilometerCharm, cinder |-> CinderOperatorCharm,
     cloudkitty |-> CloudkittyOperatorCharm, designate |-> DesignateCharm,
     glance |-> GlanceOperatorCharm, gnocchi |-> GnocchiCephOperatorCharm,
     heat |-> HeatOperatorCharm, horizon |-> HorizonOperatorCharm,
     images |-> OpenstackImagesSyncK8SCharm, ironic |-> IronicOperatorCharm,
     conductor |-> IronicConductorOperatorCharm, magnum |-> MagnumOperatorCharm,
     manila |-> ManilaOperatorCharm, share |-> ManilaShareOperatorCharm,
     masakari |-> MasakariOperatorCharm, neutron |-> NeutronOVNOperatorCharm,
     nova |-> NovaCharm, compute |-> NovaIronicOperatorCharm,
     octavia |-> OctaviaOperatorCharm, exporter |-> OSExporterOperatorCharm,
     placement |-> PlacementCharm, watcher |-> WatcherOperatorCharm]

CharmNames == DOMAIN CharmCatalogue

ASSUME CharmsAssumption ==
    /\ \A n \in CharmNames :
          LET c == CharmCatalogue[n]
          IN  /\ c.pod \in Seq(PodHandler) /\ c.sync \in DOMAIN c.pod
              /\ c.asks \subseteq Demands
              /\ {c.before, c.unit, c.after} \subseteq Seq(Steps)
    /\ CharmPlans \subseteq [charm : CharmNames, leads : BOOLEAN,
                             faults : SUBSET CharmFaults,
                             most : 0 .. MaxCharmFaults]
    /\ MaxConfig \in Nat \ {0} /\ MaxCharmFaults \in Nat

-----------------------------------------------------------------------------

VARIABLES
    cplan,    \* the charm, whether its unit leads, and the faults
    todo,     \* the steps that are left of the running hook
    awake,    \* an event that configures the charm waits
    started,  \* the handlers with a pebble-ready event waiting
    related,  \* the mandatory relations are ready
    lacking,  \* what the charm demands and has not got
    wanted,   \* the configuration the templates give
    told,     \* "leader_ready" is announced
    minted,   \* the leader has made the secret of the application
    schema,   \* the database has its tables
    label,    \* the "db-sync" label of the unit
    ubooted,   \* unit_bootstrapped
    up,       \* up[h]: pebble answers in the container of h
    layer,    \* layer[h]: the plan has the services of h
    file,     \* file[h]: the configuration in the files of h
    run,      \* run[h]: the one its services have read, or Stopped
    changed,  \* the handlers with a non-empty _files_changed
    torn,     \* those of earlier hooks that did not come to restart them
    shown,    \* the workload status
    gaveup,   \* the last hook ended for a reason that no event will take back
    cfaults   \* faults so far

cappVars  == <<told, minted, schema>>
cunitVars == <<label, ubooted, shown, gaveup>>
cpodVars  == <<up, layer, file, run>>
cenvVars  == <<cplan, awake, started, related, lacking, wanted, torn>>
charmVars == <<cenvVars, todo, changed, cappVars, cunitVars, cpodVars, cfaults>>

MyCharm  == CharmCatalogue[cplan.charm]
Handlers == DOMAIN MyCharm.pod
Stopped  == -1   \* the services do not run
Image    == 0    \* the files of the image

ApiCharmsTypeOK ==
    /\ cplan \in CharmPlans
    /\ todo \in Seq(Steps)
    /\ {awake, related, told, minted, schema, label, ubooted, gaveup} \subseteq BOOLEAN
    /\ started \subseteq Handlers /\ changed \subseteq Handlers /\ torn \subseteq Handlers
    /\ lacking \subseteq MyCharm.asks
    /\ wanted \in 1 .. MaxConfig
    /\ up \in [Handlers -> BOOLEAN] /\ layer \in [Handlers -> BOOLEAN]
    /\ file \in [Handlers -> Image .. MaxConfig]
    /\ run \in [Handlers -> Stopped .. MaxConfig]
    /\ shown \in {"unknown", "waiting", "blocked", "active"}
    /\ cfaults \in 0 .. MaxCharmFaults

CharmsInit ==
    /\ cplan \in CharmPlans
    /\ todo = << >> /\ awake = TRUE /\ started = {}
    /\ related = FALSE /\ lacking = MyCharm.asks /\ wanted = 1
    /\ told = FALSE /\ minted = FALSE /\ schema = FALSE
    /\ label = FALSE /\ ubooted = FALSE
    /\ up = [h \in Handlers |-> FALSE] /\ layer = [h \in Handlers |-> FALSE]
    /\ file = [h \in Handlers |-> Image] /\ run = [h \in Handlers |-> Stopped]
    /\ changed = {} /\ torn = {}
    /\ shown = "unknown" /\ gaveup = FALSE /\ cfaults = 0

CFault(k) ==
    /\ k \in cplan.faults
    /\ cfaults < cplan.most
    /\ cfaults' = cfaults + 1

-----------------------------------------------------------------------------
(* How a step ends.                                                        *)

Idle == todo = << >>
At(s) == ~ Idle /\ Head(todo) = s

Proceed == todo' = Tail(todo) /\ UNCHANGED <<shown, gaveup>>

\* An exception the guard turns into a status: what stands behind the guard
\* is still to come.
Guarded(s) == todo' = MyCharm.after /\ shown' = s /\ UNCHANGED gaveup

\* The charm returns before the guard.
Leaves(s) == todo' = << >> /\ shown' = s

\* No event will tell that a command that failed would now do better.
Fails ==
    /\ CFault("step")
    /\ todo' = MyCharm.after /\ shown' = "blocked" /\ gaveup' = TRUE

\* The handlers before the first whose container cannot be reached.
Reached == {h \in Handlers : \A g \in 1 .. h : up[g]}
AllReached == Reached = Handlers

\* A plausible mistake: services that run are left alone.
StartStopped(hs, again) ==
    run' = [h \in Handlers |-> IF h \in hs /\ run[h] = Stopped
                                 THEN file'[h] ELSE run[h]]

\* start_all: what does not run is started, what runs restarts if asked to.
StartAll(hs, again) ==
    run' = [h \in Handlers |-> IF h \in hs /\ (run[h] = Stopped \/ h \in again)
                                 THEN file'[h] ELSE run[h]]

\* init_service of the handlers hs.
InitServices(hs) ==
    LET pod   == MyCharm.pod
        dirty == changed \cup {h \in hs : pod[h].writes /\ file[h] # wanted}
        again == {h \in hs : pod[h].always \/ h \in dirty}
    IN  /\ file' = [h \in Handlers |-> IF h \in hs /\ pod[h].writes
                                         THEN wanted ELSE file[h]]
        /\ layer' = [h \in Handlers |-> layer[h] \/ h \in hs]
        /\ StartAll(hs, again)
        /\ changed' = dirty \ hs
        /\ torn' = torn \ (again \cup {h \in hs : run[h] = Stopped})
        /\ UNCHANGED up

-----------------------------------------------------------------------------
(* The hooks.                                                              *)

Program ==
    MyCharm.before \o MyCharm.unit \o <<"app", "active">> \o MyCharm.after

CharmHookStarts ==
    /\ Idle
    /\ \/ /\ awake /\ awake' = FALSE
          /\ UNCHANGED <<started, layer>>
       \/ \E h \in started :
             /\ up[h]
             /\ started' = started \ {h}
             /\ layer' = [layer EXCEPT ![h] = TRUE]
             /\ UNCHANGED awake
    /\ todo' = Program
    /\ changed' = {} /\ torn' = torn \cup changed
    /\ gaveup' = FALSE
    /\ UNCHANGED <<cplan, related, lacking, wanted, cappVars, label, ubooted,
                   shown, up, file, run, cfaults>>

-----------------------------------------------------------------------------
(* Steps of the base charm.                                                *)

CharmChecksLeader ==
    /\ At("leader")
    /\ IF cplan.leads \/ told THEN Proceed ELSE Guarded("waiting")
    /\ UNCHANGED <<cenvVars, changed, cappVars, label, ubooted, cpodVars, cfaults>>

\* A plausible mistake: the charm waits and leaves its services running.
CharmWaitsForRelations ==
    /\ At("relations")
    /\ IF related THEN Proceed ELSE Guarded("waiting")
    /\ UNCHANGED <<cenvVars, changed, cappVars, label, ubooted, cpodVars, cfaults>>

CharmChecksRelations ==
    /\ At("relations")
    /\ IF related THEN Proceed /\ UNCHANGED run
       ELSE /\ run' = [h \in Handlers |-> IF up[h] THEN Stopped ELSE run[h]]
            /\ Guarded("waiting")
    /\ UNCHANGED <<cenvVars, changed, cappVars, label, ubooted, up, layer, file, cfaults>>

ConfigureContainers ==
    /\ At("containers")
    /\ file' = [h \in Handlers |-> IF h \in Reached THEN wanted ELSE file[h]]
    /\ changed' = changed \cup {h \in Reached : file[h] # wanted}
    /\ IF AllReached THEN Proceed ELSE Guarded("waiting")
    /\ UNCHANGED <<cenvVars, cappVars, label, ubooted, up, layer, run, cfaults>>

\* Once per unit, and only the leader does anything; neutron restarts what
\* the plan has, as leader and as follower.
RunDbSync ==
    /\ At("sync")
    /\ \/ /\ label \/ ~ cplan.leads \/ up[MyCharm.sync]
          /\ label' = TRUE
          /\ schema' = (schema \/ (cplan.leads /\ ~ label))
          /\ IF MyCharm.kicks /\ ~ label
               THEN /\ run' = [h \in Handlers |-> IF up[h] /\ layer[h] THEN file[h] ELSE run[h]]
                    /\ changed' = {h \in changed : ~ up[h] \/ ~ layer[h]}
               ELSE UNCHANGED <<run, changed>>
          /\ Proceed /\ UNCHANGED cfaults
       \/ /\ ~ label /\ cplan.leads /\ ~ up[MyCharm.sync]
          /\ Guarded("blocked")
          /\ UNCHANGED <<label, schema, run, changed, cfaults>>
       \/ /\ ~ label /\ cplan.leads /\ up[MyCharm.sync]
          /\ Fails
          /\ UNCHANGED <<label, schema, run, changed>>
    /\ UNCHANGED <<cenvVars, told, minted, ubooted, up, layer, file>>

InitContainerServices ==
    /\ At("services")
    /\ InitServices(Reached)
    /\ IF AllReached THEN Proceed ELSE Guarded("waiting")
    /\ UNCHANGED <<cplan, awake, started, related, lacking, wanted, cappVars,
                   label, ubooted, cfaults>>

\* An empty plan counts as running.
CheckPebbleHandlersReady ==
    /\ At("pebbles")
    /\ IF \A h \in Handlers :
             up[h] /\ (MyCharm.pod[h].counted /\ layer[h] => run[h] # Stopped)
         THEN Proceed ELSE Guarded("waiting")
    /\ UNCHANGED <<cenvVars, changed, cappVars, label, ubooted, cpodVars, cfaults>>

UnitBootstrapped ==
    /\ At("bootstrapped")
    /\ ubooted' = TRUE
    /\ Proceed
    /\ UNCHANGED <<cenvVars, changed, cappVars, label, cpodVars, cfaults>>

\* neutron asks for the method bootstrapped, which is never false.
CharmConfiguresApp ==
    /\ At("app")
    /\ told' = (told \/ cplan.leads)
    /\ IF cplan.leads \/ ~ MyCharm.waits \/ (ubooted /\ told)
         THEN Proceed ELSE Guarded("waiting")
    /\ UNCHANGED <<cenvVars, changed, minted, schema, label, ubooted, cpodVars, cfaults>>

SetsActive ==
    /\ At("active")
    /\ todo' = Tail(todo) /\ shown' = "active"
    /\ UNCHANGED <<cenvVars, changed, cappVars, label, ubooted, gaveup, cpodVars, cfaults>>

-----------------------------------------------------------------------------
(* Steps of single charms.                                                 *)

\* ceilometer and nova: the leader makes a secret, without which the other
\* units return.
SharesSecret ==
    /\ At("secret")
    /\ minted' = (minted \/ cplan.leads)
    /\ IF minted' THEN Proceed ELSE Leaves(shown) /\ UNCHANGED gaveup
    /\ UNCHANGED <<cenvVars, changed, told, schema, label, ubooted, cpodVars, cfaults>>

\* octavia and the ironic conductor check their options first, the conductor
\* also the address of its load balancer, of whose coming no event tells.
ChecksSanity ==
    /\ At("sanity")
    /\ IF lacking = {} THEN Proceed
       ELSE Leaves("blocked") /\ gaveup' = ("address" \in lacking)
    /\ UNCHANGED <<cenvVars, changed, cappVars, label, ubooted, cpodVars, cfaults>>

\* glance returns, and stops nothing, without its relations or its storage.
ChecksStorage ==
    /\ At("storage")
    /\ IF ~ related THEN Leaves(shown) /\ UNCHANGED gaveup
       ELSE IF "storage" \in lacking THEN Leaves("waiting") /\ UNCHANGED gaveup
       ELSE Proceed
    /\ UNCHANGED <<cenvVars, changed, cappVars, label, ubooted, cpodVars, cfaults>>

\* glance starts its service before the base charm has had its say.
StartsEarly ==
    /\ At("early")
    /\ InitServices(Reached)
    /\ Proceed
    /\ UNCHANGED <<cplan, awake, started, related, lacking, wanted, cappVars,
                   label, ubooted, cfaults>>

\* Options of neutron and glance, the backend of gnocchi, the kubeconfig of
\* magnum, the theme of horizon.
ChecksOption ==
    /\ At("option")
    /\ IF "option" \notin lacking THEN Proceed ELSE Guarded("blocked")
    /\ UNCHANGED <<cenvVars, changed, cappVars, label, ubooted, cpodVars, cfaults>>

\* designate's leader updates its pools, horizon manages its plugins and
\* restarts its service.
RunsCommands ==
    /\ At("pools") \/ At("plugins")
    /\ \/ /\ At("pools") /\ ~ cplan.leads
          /\ Proceed /\ UNCHANGED <<run, torn, cfaults>>
       \/ /\ At("plugins") \/ cplan.leads
          /\ AllReached
          /\ Proceed /\ UNCHANGED cfaults
          /\ \/ UNCHANGED <<run, torn>>
             \/ /\ At("plugins")
                /\ run' = file /\ torn' = {}
       \/ /\ At("plugins") \/ cplan.leads
          /\ ~ AllReached
          /\ IF At("plugins") THEN Proceed ELSE Guarded("blocked")
          /\ UNCHANGED <<run, torn, cfaults>>
       \/ /\ At("plugins") \/ cplan.leads
          /\ Fails
          /\ UNCHANGED <<run, torn>>
    /\ UNCHANGED <<cplan, awake, started, related, lacking, wanted, changed,
                   cappVars, label, ubooted, up, layer, file>>

\* watcher (re)starts two of its services, whatever came of the guard.
StartsRegardless ==
    /\ At("start")
    /\ LET hs == {h \in Handlers : up[h] /\ layer[h] /\ ~ MyCharm.pod[h].counted}
       IN  /\ run' = [h \in Handlers |-> IF h \in hs THEN file[h] ELSE run[h]]
           /\ changed' = changed \ hs /\ torn' = torn \ hs
    /\ Proceed
    /\ UNCHANGED <<cplan, awake, started, related, lacking, wanted, cappVars,
                   label, ubooted, up, layer, file, cfaults>>

Bootstrapped == ubooted /\ told

\* glance restarts its service; without its container the hook fails, and
\* Juju runs it again.
RestartsService ==
    /\ At("restart")
    /\ IF ~ Bootstrapped THEN Proceed /\ UNCHANGED <<layer, run, changed, torn, awake>>
       ELSE IF AllReached
         THEN /\ layer' = [h \in Handlers |-> TRUE]
              /\ run' = file /\ changed' = {} /\ torn' = {}
              /\ Proceed /\ UNCHANGED awake
         ELSE /\ awake' = TRUE /\ Leaves(shown)
              /\ UNCHANGED <<gaveup, layer, run, changed, torn>>
    /\ UNCHANGED <<cplan, started, related, lacking, wanted, cappVars,
                   label, ubooted, up, file, cfaults>>

\* horizon and glance are active once they are bootstrapped, whatever the
\* guard has just said.
ClaimsActive ==
    /\ At("claim")
    /\ todo' = Tail(todo)
    /\ shown' = IF Bootstrapped THEN "active" ELSE shown
    /\ UNCHANGED <<cenvVars, changed, cappVars, label, ubooted, gaveup, cpodVars, cfaults>>

CharmStep ==
    \/ CharmChecksLeader \/ CharmChecksRelations \/ ConfigureContainers
    \/ RunDbSync \/ InitContainerServices \/ CheckPebbleHandlersReady
    \/ UnitBootstrapped \/ CharmConfiguresApp \/ SetsActive
    \/ SharesSecret \/ ChecksSanity \/ ChecksStorage \/ StartsEarly
    \/ ChecksOption \/ RunsCommands \/ StartsRegardless \/ RestartsService
    \/ ClaimsActive

-----------------------------------------------------------------------------
(* The environment.                                                        *)

CharmContainerStarts ==
    /\ \E h \in Handlers :
          /\ ~ up[h]
          /\ up' = [up EXCEPT ![h] = TRUE]
          /\ started' = started \cup {h}
    /\ UNCHANGED <<cplan, todo, awake, related, lacking, wanted, torn, changed,
                   cappVars, cunitVars, layer, file, run, cfaults>>

CharmContainerRestarts ==
    /\ CFault("restart")
    /\ \E h \in Handlers :
          /\ up[h]
          /\ up' = [up EXCEPT ![h] = FALSE]
          /\ layer' = [layer EXCEPT ![h] = FALSE]
          /\ file' = [file EXCEPT ![h] = Image]
          /\ run' = [run EXCEPT ![h] = Stopped]
          /\ torn' = torn \ {h}
          /\ started' = started \ {h}
    /\ UNCHANGED <<cplan, todo, awake, related, lacking, wanted, changed,
                   cappVars, cunitVars>>

RelationsComeAndGo ==
    /\ Idle
    /\ \/ ~ related /\ UNCHANGED cfaults
       \/ related /\ CFault("relation")
    /\ related' = ~ related
    /\ awake' = TRUE
    /\ UNCHANGED <<cplan, todo, started, lacking, wanted, torn, changed,
                   cappVars, cunitVars, cpodVars>>

\* No event tells of the address of a load balancer.
DemandsComeAndGo ==
    /\ Idle
    /\ \E k \in MyCharm.asks :
          /\ \/ k \in lacking /\ lacking' = lacking \ {k} /\ UNCHANGED cfaults
             \/ /\ k \notin lacking /\ k # "address"
                /\ lacking' = lacking \cup {k} /\ CFault("lack")
          /\ awake' = (awake \/ k # "address")
    /\ UNCHANGED <<cplan, todo, started, related, wanted, torn, changed,
                   cappVars, cunitVars, cpodVars>>

TemplatesChange ==
    /\ Idle
    /\ CFault("change")
    /\ wanted < MaxConfig
    /\ wanted' = wanted + 1
    /\ awake' = TRUE
    /\ UNCHANGED <<cplan, todo, started, related, lacking, torn, changed,
                   cappVars, cunitVars, cpodVars>>

\* The unit that leads makes the secret, and later announces itself.
OtherUnitLeads ==
    /\ Idle /\ ~ cplan.leads
    /\ \/ ~ minted /\ minted' = TRUE /\ UNCHANGED <<told, schema>>
       \/ minted /\ ~ told /\ told' = TRUE /\ schema' = TRUE /\ UNCHANGED minted
    /\ awake' = TRUE
    /\ UNCHANGED <<cplan, todo, started, related, lacking, wanted, torn, changed,
                   cunitVars, cpodVars, cfaults>>

CharmsNext ==
    \/ CharmHookStarts \/ CharmStep
    \/ CharmContainerStarts \/ CharmContainerRestarts
    \/ RelationsComeAndGo \/ DemandsComeAndGo \/ TemplatesChange \/ OtherUnitLeads

CharmsSpec == CharmsInit /\ [][CharmsNext]_charmVars

-----------------------------------------------------------------------------
(* Properties.                                                             *)

CharmAtRest == Idle /\ ~ awake /\ started = {}

\* When no event waits, a unit that has all it needs is active and runs every
\* service on the configuration of the moment, in whatever order relations,
\* containers, options, secrets and the leader came and went: no step of any
\* charm's program leaves a unit behind.  Not so where a command failed or an
\* address came unannounced (no event follows), and for files an earlier hook
\* had written when it ended before the restart.
ProgramsConverge ==
    CharmAtRest /\ related /\ lacking = {} /\ (cplan.leads \/ (minted /\ told))
                /\ (\A h \in Handlers : up[h]) /\ ~ gaveup
        => /\ Bootstrapped /\ schema /\ shown = "active"
           /\ \A h \in Handlers \ (torn \cup changed) : run[h] = wanted

Early      == {"glance", "watcher"}  \* start services outside the guard
Overclaims == {"glance", "horizon"}  \* are active whatever the guard said

\* Services run only where they may: not before the database has its tables,
\* and at rest not without the mandatory relations; and a unit at rest that
\* is active lacks nothing.  Two charms start services outside the guard, and
\* two report active whatever it said.
ServicesRunInOrder ==
    /\ cplan.charm \notin Early =>
          \A h \in Handlers : run[h] # Stopped => schema
    /\ cplan.charm \notin Early /\ CharmAtRest /\ ~ related /\ lacking = {} =>
          \A h \in Handlers : up[h] => run[h] = Stopped
    /\ cplan.charm \notin Overclaims /\ CharmAtRest /\ shown = "active" =>
          related /\ lacking = {}
=============================================================================
