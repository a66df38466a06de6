--------------------------- MODULE VolumeBackends ---------------------------
(* A unit of cinder-volume and its subordinates, one for each storage       *)
(* backend, on a machine with one snap, which they all configure: the       *)
(* charm for the whole, each driver for the namespace of its backend.       *)
(* Their hooks take turns (Juju has a lock for the machine).               *)
EXTENDS Integers, FiniteSets

CONSTANTS
    Drivers,
    VolumePlans,   \* [drivers, ceph: those with a relation of their own,
                   \* ready: the relations of cinder-volume are, faults, most],
                   \* where most bounds removals, new options and failures
    MaxOption      \* the values of the options of a driver, 0 for invalid ones

ASSUME VolumeAssumption ==
    /\ "charm" \notin Drivers
    /\ MaxOption \in Nat \ {0}
    /\ VolumePlans \subseteq [drivers : SUBSET Drivers, ceph : SUBSET Drivers, ready : BOOLEAN,
                              faults : SUBSET {"install", "unset", "remove", "relations", "options"},
                              most : Nat]

VARIABLES
    vplan,
    snapThere,     \* the snap is installed
    volRunning,    \* its services run
    namespace,     \* what it holds for each backend, 0 for nothing
    api, bus,      \* storage-backend, and the other relations of cinder-volume, are ready
    volumeDue,     \* the hooks of cinder-volume that wait
    backends,      \* the backends in its StoredState
    charmEnd, driverEnd, \* the relation seen from both ends: "none", "up", "departed"
    snapName, backend,   \* what both ends have published
    volumeReady,   \* in the StoredState of each driver
    fed,           \* the relation of the driver to its storage is ready
    option,        \* the options of the driver
    driverDue,     \* its hooks that wait
    stuck,         \* its last hook ended with an exception or on bad options
    left,          \* it has written before the charm knew of it or after the charm
                   \* has cleaned up behind it, or the snap has refused that
    vfaults

volumeVars == <<vplan, snapThere, volRunning, namespace, api, bus, volumeDue, backends,
                charmEnd, driverEnd, snapName, backend, volumeReady, fed, option,
                driverDue, stuck, left, vfaults>>
charmSide == <<volRunning, backends, charmEnd, snapName, api, bus>>
driverSide == <<driverEnd, backend, volumeReady, fed, option, stuck, left>>

VolFault(k) == k \in vplan.faults /\ vfaults < vplan.most /\ vfaults' = vfaults + 1

-----------------------------------------------------------------------------
(* cinder-volume.                                                          *)

\* The backends of the relations: those of units that have not departed.
Related(d) == charmEnd[d] = "up"
Backends == {d \in Drivers : Related(d) /\ backend[d]}

\* update_relations, in every configuration: the name of the snap is given to
\* the drivers, who are told of it if it is new.
PublishSnap(new) ==
    /\ snapName' = [d \in Drivers |-> snapName[d] \/ d \in new]
    /\ driverDue' = [d \in Drivers |->
                       driverDue[d] \cup (IF d \in new /\ ~ snapName[d] /\ driverEnd[d] = "up"
                                            THEN {"changed"} ELSE {})]

\* ensure_snap_present: a failure is logged only.
EnsureSnap ==
    \/ snapThere' = TRUE /\ UNCHANGED vfaults
    \/ ~ snapThere /\ VolFault("install") /\ UNCHANGED snapThere

\* configure_charm, with the namespaces that backend_changes leaves. Services
\* start when the relations are ready and there is a backend; without the
\* relations they are stopped, without a backend they are left as they are.
ConfigureVolume ==
    /\ PublishSnap({d \in Drivers : Related(d)})
    /\ EnsureSnap
    /\ volRunning' = IF ~ snapThere' THEN volRunning
                     ELSE (api /\ bus) /\ (volRunning \/ Backends # {})

VolumeHook(e) ==
    /\ <<e, "charm">> \in volumeDue
    /\ volumeDue' = volumeDue \ {<<e, "charm">>}
    /\ \/ e = "install" /\ EnsureSnap /\ UNCHANGED <<snapName, driverDue, volRunning>>
       \/ e # "install" /\ ConfigureVolume
    /\ UNCHANGED <<vplan, namespace, api, bus, backends, charmEnd, driverSide>>

\* A plausible mistake: backends are only ever added.
BackendChangesAdding ==
    /\ backends' = backends \cup Backends
    /\ UNCHANGED <<namespace, left>> /\ ConfigureVolume

\* backend_changes: the namespaces of the backends that are gone are removed. A
\* failure of that is logged only, and the backend is forgotten all the same.
BackendChanges ==
    /\ LET leftovers == backends \ Backends
       IN \/ /\ namespace' = [d \in Drivers |-> IF d \in leftovers THEN 0 ELSE namespace[d]]
             /\ ConfigureVolume /\ UNCHANGED left
          \/ /\ leftovers # {} /\ VolFault("unset")
             /\ UNCHANGED <<namespace, snapThere>>
             /\ left' = [d \in Drivers |-> left[d] \/ d \in leftovers]
             /\ PublishSnap({d \in Drivers : Related(d)})
             /\ volRunning' = IF ~ snapThere THEN volRunning
                              ELSE (api /\ bus) /\ (volRunning \/ Backends # {})
    /\ backends' = Backends

DriverJoined(d) ==
    /\ <<"joined", d>> \in volumeDue
    /\ volumeDue' = volumeDue \ {<<"joined", d>>}
    /\ PublishSnap({d})
    /\ UNCHANGED <<vplan, snapThere, volRunning, namespace, api, bus, backends, charmEnd,
                   driverSide, vfaults>>

\* The driver has published its backend: driver_ready.
DriverReady(d) ==
    /\ <<"changed", d>> \in volumeDue
    /\ volumeDue' = volumeDue \ {<<"changed", d>>}
    /\ BackendChanges
    /\ UNCHANGED <<vplan, api, bus, charmEnd, driverEnd, backend, volumeReady, fed,
                   option, stuck>>

\* The unit of the driver departs, which no handler observes. What it has written
\* is left behind if the charm has not been told of the backend before.
DriverDeparted(d) ==
    /\ <<"departed", d>> \in volumeDue
    /\ volumeDue' = (volumeDue \ {<<"departed", d>>}) \cup {<<"broken", d>>}
    /\ charmEnd' = [charmEnd EXCEPT ![d] = "departed"]
    /\ left' = [left EXCEPT ![d] = d \notin backends /\ namespace[d] # 0]
    /\ UNCHANGED <<vplan, snapThere, volRunning, namespace, api, bus, backends, snapName,
                   driverEnd, backend, volumeReady, fed, option, stuck, driverDue, vfaults>>

\* driver_gone.
DriverGone(d) ==
    /\ <<"broken", d>> \in volumeDue
    /\ volumeDue' = volumeDue \ {<<"broken", d>>}
    /\ BackendChanges
    /\ charmEnd' = [charmEnd EXCEPT ![d] = "none"]
    /\ UNCHANGED <<vplan, api, bus, driverEnd, backend, volumeReady, fed, option, stuck>>

-----------------------------------------------------------------------------
(* A driver.                                                               *)

\* configure_snap: the namespace is written and the backend published.
ConfigureSnap(d) ==
    /\ namespace' = [namespace EXCEPT ![d] = option[d]]
    /\ backend' = [backend EXCEPT ![d] = TRUE]
    /\ volumeDue' = IF backend[d] \/ charmEnd[d] # "up" THEN volumeDue
                    ELSE volumeDue \cup {<<"changed", d>>}
    /\ left' = [left EXCEPT ![d] = @ \/ charmEnd[d] # "up"]

\* configure_charm: the driver waits for its relations and for the name of the
\* snap; with bad options, or without the snap, it is blocked.
ConfigureDriver(d, ready) ==
    LET waits == ~ (driverEnd[d] = "up" /\ snapName[d] /\ fed[d] /\ ready)
        fails == option[d] = 0 \/ ~ snapThere
    IN /\ stuck' = [stuck EXCEPT ![d] = ~ waits /\ fails]
       /\ \/ ~ waits /\ ~ fails /\ ConfigureSnap(d)
          \/ (waits \/ fails) /\ UNCHANGED <<namespace, backend, volumeDue, left>>

DriverHook(d, e) ==
    /\ e \in driverDue[d] /\ e \in {"config", "fed"}
    /\ driverDue' = [driverDue EXCEPT ![d] = @ \ {e}]
    /\ ConfigureDriver(d, volumeReady[d])
    /\ UNCHANGED <<vplan, snapThere, charmSide, driverEnd, volumeReady, fed, option,
                   vfaults>>

\* cinder-volume has published the name of the snap: volume_ready.
VolumeReady(d) ==
    /\ "changed" \in driverDue[d] /\ driverEnd[d] = "up" /\ snapName[d]
    /\ driverDue' = [driverDue EXCEPT ![d] = @ \ {"changed"}]
    /\ volumeReady' = [volumeReady EXCEPT ![d] = TRUE]
    /\ ConfigureDriver(d, TRUE)
    /\ UNCHANGED <<vplan, snapThere, charmSide, driverEnd, fed, option, vfaults>>

\* The unit goes: without the unit of cinder-volume it has nothing to do in its
\* departed hook, and ends with the relation.
DriverEnds(d) ==
    /\ "departed" \in driverDue[d]
    /\ driverDue' = [driverDue EXCEPT ![d] = {}]
    /\ driverEnd' = [driverEnd EXCEPT ![d] = "none"]
    /\ volumeReady' = [volumeReady EXCEPT ![d] = FALSE]
    /\ UNCHANGED <<vplan, snapThere, charmSide, namespace, volumeDue, backend, fed, option,
                   stuck, left, vfaults>>

-----------------------------------------------------------------------------
(* Operators of the model, and the related applications.                  *)

RelateDriver(d) ==
    /\ d \in vplan.drivers /\ charmEnd[d] = "none" /\ driverEnd[d] = "none"
    /\ charmEnd' = [charmEnd EXCEPT ![d] = "up"]
    /\ driverEnd' = [driverEnd EXCEPT ![d] = "up"]
    /\ snapName' = [snapName EXCEPT ![d] = FALSE]
    /\ backend' = [backend EXCEPT ![d] = FALSE]
    /\ left' = [left EXCEPT ![d] = FALSE]
    /\ stuck' = [stuck EXCEPT ![d] = FALSE]
    /\ volumeDue' = volumeDue \cup {<<"joined", d>>}
    /\ driverDue' = [driverDue EXCEPT ![d] = {"config"}]
    /\ UNCHANGED <<vplan, snapThere, volRunning, namespace, api, bus, backends,
                   volumeReady, fed, option, vfaults>>

\* Hooks of the relation that wait at the charm are dropped.
RemoveDriver(d) ==
    /\ charmEnd[d] = "up" /\ driverEnd[d] = "up"
    /\ "departed" \notin driverDue[d] /\ VolFault("remove")
    /\ volumeDue' = (volumeDue \ {<<"joined", d>>, <<"changed", d>>})
                        \cup {<<"departed", d>>}
    /\ driverDue' = [driverDue EXCEPT ![d] = (@ \ {"changed"}) \cup {"departed"}]
    /\ UNCHANGED <<vplan, snapThere, charmSide, namespace, driverSide>>

\* The relations of cinder-volume to the bus, the database and keystone are
\* complete or not; the storage API is told when it is there only.
RelationsOfVolume ==
    /\ bus' = ~ bus
    /\ (bus /\ VolFault("relations")) \/ (~ bus /\ UNCHANGED vfaults)
    /\ volumeDue' = volumeDue \cup {<<"relations", "charm">>}
    /\ UNCHANGED <<vplan, snapThere, volRunning, namespace, api, backends, charmEnd,
                   snapName, driverSide, driverDue>>

ApiReady ==
    /\ ~ api /\ api' = TRUE
    /\ volumeDue' = volumeDue \cup {<<"api", "charm">>}
    /\ UNCHANGED <<vplan, snapThere, volRunning, namespace, bus, backends, charmEnd,
                   snapName, driverSide, driverDue, vfaults>>

Feed(d) ==
    /\ ~ fed[d] /\ driverEnd[d] = "up"
    /\ fed' = [fed EXCEPT ![d] = TRUE]
    /\ driverDue' = [driverDue EXCEPT ![d] = @ \cup {"fed"}]
    /\ UNCHANGED <<vplan, snapThere, charmSide, namespace, volumeDue, driverEnd, backend,
                   volumeReady, option, stuck, left, vfaults>>

SetOption(d) ==
    /\ driverEnd[d] = "up" /\ VolFault("options")
    /\ \E v \in (0..MaxOption) \ {option[d]} : option' = [option EXCEPT ![d] = v]
    /\ driverDue' = [driverDue EXCEPT ![d] = @ \cup {"config"}]
    /\ UNCHANGED <<vplan, snapThere, charmSide, namespace, volumeDue, driverEnd, backend,
                   volumeReady, fed, stuck, left>>

-----------------------------------------------------------------------------
VolumeInit ==
    /\ vplan \in VolumePlans
    /\ snapThere = FALSE /\ volRunning = FALSE
    /\ namespace = [d \in Drivers |-> 0]
    /\ api = vplan.ready /\ bus = vplan.ready
    /\ volumeDue = {<<"install", "charm">>, <<"config", "charm">>}
    /\ backends = {}
    /\ charmEnd = [d \in Drivers |-> "none"] /\ driverEnd = [d \in Drivers |-> "none"]
    /\ snapName = [d \in Drivers |-> FALSE] /\ backend = [d \in Drivers |-> FALSE]
    /\ volumeReady = [d \in Drivers |-> FALSE]
    /\ fed = [d \in Drivers |-> d \notin vplan.ceph]
    /\ option = [d \in Drivers |-> 1]
    /\ driverDue = [d \in Drivers |-> {}]
    /\ stuck = [d \in Drivers |-> FALSE] /\ left = [d \in Drivers |-> FALSE]
    /\ vfaults = 0

VolumeNext ==
    \/ \E e \in {"install", "config", "relations", "api"} : VolumeHook(e)
    \/ \E d \in Drivers :
          \/ DriverJoined(d) \/ DriverReady(d) \/ DriverDeparted(d) \/ DriverGone(d)
          \/ VolumeReady(d) \/ DriverEnds(d)
          \/ \E e \in {"config", "fed"} : DriverHook(d, e)
          \/ RelateDriver(d) \/ RemoveDriver(d) \/ Feed(d) \/ SetOption(d)
    \/ RelationsOfVolume \/ ApiReady

VolumeSpec == VolumeInit /\ [][VolumeNext]_volumeVars

-----------------------------------------------------------------------------
(* Properties.                                                             *)

VolumeEvents == ({"install", "config", "relations", "api"} \X {"charm"})
                  \cup ({"joined", "changed", "departed", "broken"} \X Drivers)

VolumeTypeOK ==
    /\ vplan \in VolumePlans /\ vfaults \in 0..vplan.most
    /\ {snapThere, volRunning, api, bus} \subseteq BOOLEAN
    /\ namespace \in [Drivers -> 0..MaxOption] /\ option \in [Drivers -> 0..MaxOption]
    /\ volumeDue \subseteq VolumeEvents
    /\ backends \subseteq Drivers
    /\ charmEnd \in [Drivers -> {"none", "up", "departed"}]
    /\ driverEnd \in [Drivers -> {"none", "up"}]
    /\ {snapName, backend, volumeReady, fed, stuck, left} \subseteq [Drivers -> BOOLEAN]
    /\ driverDue \in [Drivers -> SUBSET {"config", "fed", "changed", "departed"}]

VolumeAtRest == volumeDue = {} /\ \A d \in Drivers : driverDue[d] = {}

\* When no hook waits, the snap holds what each driver is configured with and
\* cinder-volume counts it as a backend and runs; of a driver that is gone it
\* holds nothing, unless the charm never knew of it, or the driver has written
\* after the charm had seen it go, or the snap refused. Whatever the order in which the charm and its
\* subordinates were related, installed, configured and removed.
BackendsServed ==
    VolumeAtRest =>
        /\ \A d \in Drivers :
              /\ charmEnd[d] = "up" /\ fed[d] /\ ~ stuck[d] =>
                    namespace[d] = option[d] /\ d \in backends
              /\ charmEnd[d] = "none" =>
                    d \notin backends /\ (namespace[d] = 0 \/ left[d])
        /\ snapThere /\ api /\ bus /\ Backends # {} => volRunning
        /\ snapThere /\ ~ bus => ~ volRunning
=============================================================================
