----------------------------- MODULE Hypervisor -----------------------------
(* The unit of the hypervisor charm, which configures a snap on its machine *)
(* out of its relations and options, and has the cores and huge pages of    *)
(* OVS-DPDK allocated by the EPA service, which other programs use too.     *)
(* One relation, or the options, is what a behaviour is about: the others   *)
(* stay as they are.                                                       *)
EXTENDS Integers, Sequences, FiniteSets

CONSTANTS
    HvPlans,      \* what may happen: [focus, faults, readable, most], where most
                  \* bounds the changes of options and the failures
    MaxOffer,     \* how often what the related application offers may change
    HvOptions,    \* settings of the options for DPDK that are tried
    Nodes,        \* the NUMA nodes of the machine, numbers from zero
    CoresOf       \* the cores of each node

VARIABLES
    hvplan,
    link,         \* the relation: "none", "up", "leaving" (departed, not broken)
    offer,        \* what the related application offers, 0 for nothing
    hvdue,        \* the hooks that wait
    settings,     \* the settings of the snap
    agents,       \* the services of the snap run
    fixedProvider,\* the provider of Open vSwitch that is stored, "" at first
    knobs,        \* the options
    ports,        \* the NUMA nodes of the ports that DPDK uses
    epa,          \* the cores that EPA has allocated, by purpose and node
    pages,        \* the huge pages that EPA has allocated, by node
    others,       \* the cores that other programs have had allocated
    calls,        \* the calls of EPA that the hook has yet to make
    hvhook,       \* the hook that runs, "none" between hooks
    health,       \* "new", "active", "waiting", "blocked"
    between,      \* a hook of other origin has run between departed and broken
    hvfaults

hvVars == <<hvplan, link, offer, hvdue, settings, agents, fixedProvider, knobs, ports,
            epa, pages, others, calls, hvhook, health, between, hvfaults>>

AllCores == UNION {CoresOf[n] : n \in Nodes}

HvMandatory == {"amqp", "identity-credentials", "ovsdb-cms", "nova-service"}
HvNeeded == HvMandatory \cup {"certificates"}
HvOptional == {"ceph-access", "ceilometer-service", "masakari-service",
               "barbican-service", "receive-ca-cert", "cos-agent"}
HvRelations == HvNeeded \cup HvOptional

ASSUME HypervisorAssumption ==
    /\ \A p \in HvPlans : /\ p.focus \in HvRelations \cup {"options"}
                          /\ p.readable \in BOOLEAN /\ p.most \in Nat
    /\ MaxOffer \in Nat \ {0}
    /\ HvOptions \subseteq [dpdk : BOOLEAN, control : Nat, datapath : Nat, memory : Nat]
    /\ IsFiniteSet(Nodes) /\ Nodes # {} /\ Nodes = 0..(Cardinality(Nodes) - 1)
    /\ \A n \in Nodes : IsFiniteSet(CoresOf[n])
    /\ \A m, n \in Nodes : m # n => CoresOf[m] \cap CoresOf[n] = {}

\* Which hooks of a relation configure the charm. (The handler of the
\* certificates has no callback for a relation that goes.)
HvHears(r) ==
    CASE r = "cos-agent" -> {"joined", "departed"}
      [] r = "certificates" -> {"changed"}
      [] r \in {"amqp", "ovsdb-cms", "identity-credentials", "ceph-access"} ->
            {"changed", "departed", "broken"}
      [] OTHER -> {"changed", "broken"}

\* check_broken_relations knows only these.
HvBreaks == {"amqp", "identity-credentials", "ovsdb-cms", "ceph-access"}

Services == {"control", "datapath"}

-----------------------------------------------------------------------------
(* What a hook sees.                                                       *)

\* The data of a relation in hook e. When its units have departed they may be
\* gone; the plan says whether they can be read while the relation breaks.
Seen(r, e, there) ==
    IF r # hvplan.focus THEN (IF r \in HvNeeded THEN 1 ELSE 0)
    ELSE IF \/ link = "up" \/ (link = "leaving" /\ there)
            \/ (e = "broken" /\ hvplan.readable)
         THEN offer ELSE 0

NotReady(seen, e) ==
    {r \in HvMandatory :
        seen[r] = 0 \/ (e = "broken" /\ r = hvplan.focus /\ r \in HvBreaks)}

\* The flag is that the relation exists, but for the hooks that set it.
EnableMonitoring(e) ==
    /\ hvplan.focus = "cos-agent"
    /\ e # "departed" /\ link # "none"

EnableTelemetry(e) ==
    /\ hvplan.focus = "ceilometer-service"
    /\ e # "broken" /\ link # "none"

AsNumber(b) == IF b THEN 1 ELSE 0

\* The settings made of the relations. Those of ceph, nova and the secret of
\* the telemetry are left out when there are no data, and so stay as they are.
FromRelations(seen) ==
    [r \in HvNeeded \cup {"receive-ca-cert", "masakari-service", "barbican-service"}
              \cup {s \in {"ceph-access", "ceilometer-service"} : seen[s] # 0}
        |-> seen[r]]

Flags(e) == [monitoring |-> AsNumber(EnableMonitoring(e)),
             telemetry |-> AsNumber(EnableTelemetry(e))]

\* Only what is in new is set or unset: set_snap_data.
SetSnapData(old, new) ==
    [k \in DOMAIN old |-> IF k \in DOMAIN new THEN new[k] ELSE old[k]]

Unset(keys) == [k \in keys |-> 0]

\* dict.update
Updated(old, new) ==
    [k \in DOMAIN old \cup DOMAIN new |-> IF k \in DOMAIN new THEN new[k] ELSE old[k]]

-----------------------------------------------------------------------------
(* Allocations: the calls of EPA that _handle_ovs_dpdk makes, in order.    *)

NodeOrder == [i \in 1..Cardinality(Nodes) |-> i - 1]

EachNode(call(_)) == [i \in DOMAIN NodeOrder |-> call(NodeOrder[i])]

MemoryOf(n) == knobs.memory \div Cardinality(ports)

Pages(n) == [svc |-> "pages", node |-> n, count |-> MemoryOf(n)]
NoPages(n) == [svc |-> "pages", node |-> n, count |-> -1]
NoCores(s, n) == [svc |-> s, node |-> n, count |-> -1]

\* A count that the nodes cannot share equally is an exception.
Refused == [svc |-> "refused", node |-> 0, count |-> 0]

\* A plausible mistake: what is not asked for any more is not given back.
CoreCallsKept(s, count) ==
    IF count = 0 \/ count % Cardinality(ports) # 0 THEN << >>
    ELSE EachNode(LAMBDA n :
           IF n \in ports
             THEN [svc |-> s, node |-> n, count |-> count \div Cardinality(ports)]
             ELSE NoCores(s, n))

CoreCalls(s, count) ==
    IF count = 0 THEN EachNode(LAMBDA n : NoCores(s, n))
    ELSE IF count % Cardinality(ports) # 0 THEN <<Refused>>
    ELSE EachNode(LAMBDA n :
           IF n \in ports
             THEN [svc |-> s, node |-> n, count |-> count \div Cardinality(ports)]
             ELSE NoCores(s, n))

MemoryCalls ==
    IF knobs.memory = 0 THEN << >>
    ELSE EachNode(LAMBDA n : IF n \in ports THEN Pages(n) ELSE NoPages(n))

\* Node by node: the pages, then the cores of each purpose.
ClearCalls ==
    [i \in 1..(3 * Cardinality(Nodes)) |->
       LET n == NodeOrder[((i - 1) \div 3) + 1]
       IN CASE i % 3 = 1 -> NoPages(n)
            [] i % 3 = 2 -> NoCores("control", n)
            [] i % 3 = 0 -> NoCores("datapath", n)]

HandleOvsDpdk ==
    IF ~ knobs.epa THEN << >>
    ELSE IF ~ knobs.dpdk THEN ClearCalls
    ELSE MemoryCalls \o CoreCalls("control", knobs.control)
                     \o CoreCalls("datapath", knobs.datapath)

Allocated(s) == UNION {epa[s][n] : n \in Nodes}

FreeCores(n) == CoresOf[n] \ (Allocated("control") \cup Allocated("datapath") \cup others)

\* The settings for OVS. Those of a count or a size of zero are left out, and
\* so stay as they are.
DpdkSettings ==
    IF ~ knobs.epa THEN Unset({})
    ELSE IF ~ knobs.dpdk THEN Unset({"dpdk"})
    ELSE [k \in {"dpdk"} \cup {s \in Services : knobs[s] # 0}
              \cup (IF knobs.memory = 0 THEN {} ELSE {"memory"}) |->
            CASE k = "dpdk" -> 1
              [] k = "memory" -> [n \in Nodes |-> IF n \in ports THEN MemoryOf(n) ELSE 0]
              [] OTHER -> Allocated(k)]

-----------------------------------------------------------------------------
(* A hook.                                                                 *)

NoHook == [event |-> "none", data |-> Unset({})]

Running == hvhook.event # "none"

HvFault(k) == k \in hvplan.faults /\ hvfaults < hvplan.most /\ hvfaults' = hvfaults + 1

\* The hook ends in the guard, with a status and no settings.
EndsWith(status) ==
    /\ health' = status
    /\ hvhook' = NoHook /\ calls' = << >>
    /\ UNCHANGED <<settings, agents, fixedProvider, hvfaults>>

ProviderRefused ==
    \/ knobs.provider \notin {"auto", "microovn", "hypervisor"}
    \/ fixedProvider \notin {"", knobs.provider}

\* A plausible mistake: the snap goes on with what it has.
StopServicesNever(notReady) == UNCHANGED settings

\* What amqp and ovsdb-cms have given is taken out of the snap (stop_services).
StopServices(notReady) ==
    settings' = SetSnapData(settings, Unset(notReady \cap {"amqp", "ovsdb-cms"}))

\* configure_charm up to the calls of EPA. The hook goes on with those.
HvConfigure(e) ==
    /\ ~ Running /\ e \in hvdue
    /\ e = "config" \/ e \in HvHears(hvplan.focus)
    /\ hvdue' = hvdue \ {e}
    /\ \E there \in BOOLEAN :
          LET seen == [r \in HvRelations |-> Seen(r, e, there)]
              notReady == NotReady(seen, e)
          IN \/ /\ notReady # {}
                /\ StopServices(notReady)
                /\ health' = "waiting"
                /\ UNCHANGED <<agents, fixedProvider, calls, hvhook, hvfaults>>
             \/ /\ notReady = {} /\ ProviderRefused
                /\ EndsWith("blocked")
             \/ /\ notReady = {} /\ ~ ProviderRefused /\ HvFault("snap")
                /\ health' = "blocked"
                /\ UNCHANGED <<settings, agents, fixedProvider, calls, hvhook>>
             \/ /\ notReady = {} /\ ~ ProviderRefused /\ seen["certificates"] = 0
                /\ EndsWith("waiting")
             \/ /\ notReady = {} /\ ~ ProviderRefused /\ seen["certificates"] # 0
                /\ hvhook' = [event |-> e, data |-> Updated(FromRelations(seen), Flags(e))]
                /\ calls' = HandleOvsDpdk
                /\ UNCHANGED <<settings, agents, fixedProvider, health, hvfaults>>
    /\ between' = (between \/ (e = "config" /\ link = "leaving" /\ "departed" \notin hvdue))
    /\ UNCHANGED <<hvplan, link, offer, knobs, ports, epa, pages, others>>

\* A hook of the relation that no handler observes.
Unheard(e) ==
    /\ ~ Running /\ e \in hvdue
    /\ e # "config" /\ e \notin HvHears(hvplan.focus)
    /\ hvdue' = hvdue \ {e}
    /\ UNCHANGED <<hvplan, link, offer, settings, agents, fixedProvider, knobs, ports,
                   epa, pages, others, calls, hvhook, health, hvfaults, between>>

\* One call of EPA: it gives back what was allocated, and other cores of the
\* node if it can.
EpaCall ==
    /\ calls # << >>
    /\ LET c == Head(calls)
       IN /\ c.svc # "refused"
          /\ \/ /\ c.svc = "pages"
                /\ pages' = [pages EXCEPT ![c.node] = IF c.count = -1 THEN 0 ELSE c.count]
                /\ UNCHANGED epa
             \/ /\ c.svc # "pages" /\ c.count = -1
                /\ epa' = [epa EXCEPT ![c.svc][c.node] = {}]
                /\ UNCHANGED pages
             \/ /\ c.svc # "pages" /\ c.count # -1
                /\ \E cores \in SUBSET (FreeCores(c.node) \cup epa[c.svc][c.node]) :
                      /\ Cardinality(cores) = c.count
                      /\ epa' = [epa EXCEPT ![c.svc][c.node] = cores]
                /\ UNCHANGED pages
    /\ calls' = Tail(calls)
    /\ UNCHANGED <<hvplan, link, offer, hvdue, settings, agents, fixedProvider, knobs,
                   ports, others, hvhook, health, hvfaults, between>>

\* A call fails: EPA is not there, or has too few cores, or the count cannot be
\* shared. The hook ends, with the allocations that it has made.
EpaFails ==
    /\ calls # << >>
    /\ LET c == Head(calls)
       IN \/ c.svc = "refused" /\ UNCHANGED hvfaults
          \/ /\ c.svc \in Services /\ UNCHANGED hvfaults
             /\ c.count > Cardinality(FreeCores(c.node) \cup epa[c.svc][c.node])
          \/ c.svc # "refused" /\ HvFault("epa")
    /\ health' = "blocked" /\ hvhook' = NoHook /\ calls' = << >>
    /\ UNCHANGED <<hvplan, link, offer, hvdue, settings, agents, fixedProvider, knobs,
                   ports, epa, pages, others, between>>

\* The settings are written, the services started, the provider stored.
HvApply ==
    /\ Running /\ calls = << >>
    /\ settings' = SetSnapData(settings, Updated(hvhook.data, DpdkSettings))
    /\ agents' = TRUE
    /\ fixedProvider' = knobs.provider
    /\ health' = "active" /\ hvhook' = NoHook
    /\ UNCHANGED <<hvplan, link, offer, hvdue, knobs, ports, epa, pages, others, calls,
                   hvfaults, between>>

-----------------------------------------------------------------------------
(* The environment.                                                        *)

\* The focus is related, and offers something, or something else.
RelateFocus ==
    /\ link = "none" /\ "broken" \notin hvdue /\ hvplan.focus # "options"
    /\ link' = "up"
    /\ hvdue' = hvdue \cup {"joined"}
    /\ offer' = IF hvplan.focus = "cos-agent" THEN 1 ELSE 0
    /\ between' = FALSE
    /\ UNCHANGED <<hvplan, settings, agents, fixedProvider, knobs, ports, epa, pages,
                   others, calls, hvhook, health, hvfaults>>

OfferChanges ==
    /\ link = "up" /\ offer < MaxOffer /\ hvplan.focus # "cos-agent"
    /\ offer' = IF hvplan.focus \in {"masakari-service", "barbican-service"}
                  THEN 1 ELSE offer + 1
    /\ offer' # offer
    /\ hvdue' = hvdue \cup {"changed"}
    /\ UNCHANGED <<hvplan, link, settings, agents, fixedProvider, knobs, ports, epa,
                   pages, others, calls, hvhook, health, hvfaults, between>>

\* The relation is removed: the departed hook is followed by the broken one,
\* and hooks of other origin may run between them.
FocusDeparts ==
    /\ link = "up" /\ HvFault("remove")
    /\ link' = "leaving"
    /\ hvdue' = (hvdue \ {"joined", "changed"}) \cup {"departed"}
    /\ UNCHANGED <<hvplan, offer, settings, agents, fixedProvider, knobs, ports, epa,
                   pages, others, calls, hvhook, health, between>>

FocusBreaks ==
    /\ link = "leaving" /\ "departed" \notin hvdue /\ ~ Running
    /\ link' = "none"
    /\ hvdue' = hvdue \cup {"broken"}
    /\ UNCHANGED <<hvplan, offer, settings, agents, fixedProvider, knobs, ports, epa,
                   pages, others, calls, hvhook, health, hvfaults, between>>

\* The options change, or the ports, by config-changed or by the action
\* set-hypervisor-local-settings; a hook sees the options of its start.
OptionsChange ==
    /\ ~ Running /\ HvFault("options")
    /\ \/ knobs.epa /\ knobs' \in {Updated(knobs, k) : k \in HvOptions} /\ UNCHANGED ports
       \/ knobs.epa /\ ports' \in (SUBSET Nodes) \ {{}} /\ UNCHANGED knobs
       \/ /\ knobs' \in {[knobs EXCEPT !.provider = p] : p \in {"auto", "microovn", "ovn"}}
          /\ UNCHANGED ports
    /\ hvdue' = hvdue \cup {"config"}
    /\ UNCHANGED <<hvplan, link, offer, settings, agents, fixedProvider, epa, pages,
                   others, calls, hvhook, health, between>>

\* Another program has cores allocated, or gives them back.
OthersTake(x) ==
    /\ HvFault("others")
    /\ x \in others \/ \E n \in Nodes : x \in FreeCores(n)
    /\ others' = IF x \in others THEN others \ {x} ELSE others \cup {x}
    /\ UNCHANGED <<hvplan, link, offer, hvdue, settings, agents, fixedProvider, knobs,
                   ports, epa, pages, calls, hvhook, health, between>>

-----------------------------------------------------------------------------
HvSettings == HvNeeded \cup (HvOptional \ {"cos-agent"})
                  \cup {"monitoring", "telemetry", "dpdk", "memory"} \cup Services

HypervisorInit ==
    /\ hvplan \in HvPlans
    /\ link = "none" /\ offer = 0
    /\ hvdue = {"config"}
    /\ settings = [k \in HvSettings |-> IF k \in Services THEN {}
                                  ELSE IF k = "memory" THEN [n \in Nodes |-> 0] ELSE 0]
    /\ agents = FALSE
    /\ fixedProvider = ""
    /\ knobs = [epa |-> hvplan.focus = "options", dpdk |-> FALSE, control |-> 0,
                datapath |-> 0, memory |-> 0, provider |-> "auto"]
    /\ ports = {0}
    /\ epa = [s \in Services |-> [n \in Nodes |-> {}]]
    /\ pages = [n \in Nodes |-> 0]
    /\ others = {}
    /\ calls = << >> /\ hvhook = NoHook
    /\ health = "new"
    /\ between = FALSE
    /\ hvfaults = 0

HypervisorNext ==
    \/ \E e \in {"config", "joined", "changed", "departed", "broken"} :
          HvConfigure(e) \/ Unheard(e)
    \/ EpaCall \/ EpaFails \/ HvApply
    \/ RelateFocus \/ OfferChanges \/ FocusDeparts \/ FocusBreaks
    \/ OptionsChange \/ \E x \in AllCores : OthersTake(x)

HypervisorSpec == HypervisorInit /\ [][HypervisorNext]_hvVars

-----------------------------------------------------------------------------
(* Properties.                                                             *)

HypervisorTypeOK ==
    /\ link \in {"none", "up", "leaving"} /\ offer \in 0..MaxOffer
    /\ \A s \in Services : settings[s] \subseteq AllCores
    /\ \A s \in Services, n \in Nodes : epa[s][n] \subseteq CoresOf[n]
    /\ Allocated("control") \cap Allocated("datapath") = {}
    /\ health \in {"new", "active", "waiting", "blocked"}
    /\ hvfaults \in 0..hvplan.most

HvAtRest == ~ Running /\ hvdue = {} /\ link # "leaving"

\* What is on or off by itself, for a relation that is there or not.
FocusSetting ==
    CASE hvplan.focus = "cos-agent" -> settings["monitoring"]
      [] hvplan.focus = "ceilometer-service" -> settings["telemetry"]
      [] OTHER -> settings[hvplan.focus]

\* What has to go with the relation: where the message bus and the databases
\* of OVN are, and what a service enables. (The keys of ceph and of nova, the
\* credentials and the certificates stay in the snap.)
GoesWithRelation ==
    \/ hvplan.focus \in {"amqp", "ovsdb-cms", "ceilometer-service"}
    \/ hvplan.focus = "cos-agent" /\ ~ between
    \/ hvplan.focus \in {"masakari-service", "barbican-service", "receive-ca-cert"}
          /\ ~ hvplan.readable

\* When no hook waits and the last one has not failed, the snap has what the
\* related application offers, and nothing of one that is gone: no change and
\* no removal is lost, in whatever order the hooks run.
SettingsFollow ==
    HvAtRest /\ health # "blocked" /\ hvplan.focus # "options" =>
        /\ link = "up" /\ offer # 0 =>
              /\ health = "active" /\ agents
              /\ FocusSetting = IF hvplan.focus = "ceilometer-service" THEN 1 ELSE offer
        /\ link = "none" /\ GoesWithRelation => FocusSetting = 0

\* When the options have been applied, OVS uses the cores and the pages that
\* EPA has allocated for it, as many as asked for, on the nodes of its ports,
\* and none is kept that is not asked for, but for pages.
CoresAccounted ==
    HvAtRest /\ health = "active" /\ knobs.epa =>
        /\ \A s \in Services :
              IF knobs.dpdk /\ knobs[s] # 0
                THEN /\ settings[s] = Allocated(s)
                     /\ Cardinality(settings[s]) = knobs[s]
                     /\ settings[s] \cap others = {}
                     /\ settings[s] \subseteq UNION {CoresOf[n] : n \in ports}
                ELSE Allocated(s) = {}
        /\ knobs.dpdk /\ knobs.memory # 0 => pages = settings["memory"]
        /\ ~ knobs.dpdk => \A n \in Nodes : pages[n] = 0

\* What the snap is configured with agrees with what it is made of.
SnapSettled == SettingsFollow /\ CoresAccounted
=============================================================================
