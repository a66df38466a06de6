# Sunbeam charms: a TLA+ verification of their protocols

This directory holds TLA+ models of the charms of this repository, the TLC
configurations that check them on small instances and the TLAPS proofs of the
theorems that hold for every instance. The repository is the reference: every
definition that models code is listed in `PROJECT.json` ("map") with its lines,
and so are the hazards of the code with the properties that watch them.

Check a model with `tlc -config <name>.cfg MC<Module>.tla` (section 3 has the
pairs), a proof module with `tlapm <Module>Proofs.tla`.

## 1. The system

`src/ops-sunbeam` is a framework for Juju charms that operate OpenStack; some
forty charms under `src/charms`, and forty storage backends, are built on it. A
charm is a Python process that Juju starts for one event of one unit (a *hook*)
and that ends with the hook. What it knows afterwards is what it left in

* its *StoredState*, one per unit, kept in the unit (`charm.py:98` insists on it)
  and committed by the `ops` framework at the end of the hook, while the process
  still runs;
* the *databags* of its relations (one per application, which only the leader
  writes, and one per unit), flushed by Juju when the process has ended with
  success: a flush that is refused or lost takes no StoredState back;
* Juju *secrets*, whose change, rotation and removal are events;
* the workload containers, driven through pebble, the snap of a machine, and
  the OpenStack services themselves, on which the effect of a call is immediate.

The hooks of one unit are sequential. Hooks of different units and of different
applications interleave, see each other's databags only after a flush, and run
under a leadership *lease* that may move between two statements. That is where
the hard behaviours are: a hook may die after an effect and before its commit,
run again, run late, or never run because nothing wakes the unit.

One trait of the framework colours everything: `configure_charm` runs inside a
`guard` (`guard.py`) that turns an exception into a status and lets the hook end
*successfully*. What was done before the exception stays, what comes after it
waits for the next event, and the event itself is not delivered again.

### 1.1 Components

| component | state | operations | interacts with |
|---|---|---|---|
| Unit lifecycle (`charm.py`, `job_ctrl.py`, `guard.py`) | `unit_bootstrapped`, run-once labels, statuses | `configure_charm` and the steps it calls, early exits through `guard` | peers, relations, containers, the database (`db-sync`) |
| Peer relation (`BasePeerHandler`, `OperatorPeers`) | `leader_ready` and other leader data, unit data | `set_leader_ready`, `leader_set/get`, `relation-changed` | every unit of the application |
| Pebble handlers (`container_handlers.py`) | files, layers and services in each container; `_files_changed` within a hook | `write_config`, `init_service`, start, stop, restart, pebble-ready, check events, `update-status` | pebble, unit lifecycle by callback |
| Status pool (`compound_status.py`) | a status per part, stored between hooks | `set`, `compute_status`, publication at the end of the hook | every handler |
| Relation handlers (`relation_handlers.py`) | readiness of each relation | ready and gone-away handlers, `check_broken_relations`, mandatory relations | related applications by databag, unit lifecycle by callback |
| Offers between charms (a library, a charm, a library, a handler for each of 23 interfaces) | the application databag, what the client is configured with | publish, request, announce, read, forget | provider's bootstrap, client's `configure_charm` |
| Service users over identity-ops (`UserIdentityResourceRequiresHandler`, `identity_resource.py`, keystone's `handle_op_request`) | two secrets, a request and a response slot, old users | provider-ready, rotate, remove, response; run operations, respond | client units, keystone |
| Keystone keys | fernet and credential keys on disk and in secrets | set up, rotate, distribute | all keystone units |
| Keystone accounts and store | users, projects, domains, roles; a secret per client | `register_service`, rotation, removal of old users, credentials, requests | API charms, tempest |
| Tempest | request, credential secret, environment in its pod | request, response, init, tear-down | keystone |
| API charms | containers, db-sync, what each charm adds to the hook | the program of `configure_charm` of each of 25 charms | the framework |
| Clusterd | join tokens, joined flags, the dqlite cluster | bootstrap, generate token, join, remove | peers, the snap's daemon |
| OVN central | cluster ids, addresses, RAFT state of two databases | create, join, northd, listeners, publish addresses | peers, relay, hypervisors |
| Hypervisor | snap settings, allocations of EPA | options, relations, DPDK | EPA, OVN, nova, ... |
| cinder-volume and its drivers | one snap, a namespace per backend, lists on both sides | install, configure, driver ready and gone | subordinates by unit databag |
| Others | see `PROJECT.json` "components" | | |

### 1.2 What would make each component correct

* *Unit lifecycle*: the database schema is complete before the application is
  announced, before a unit serves, and wherever a label claims so; an active unit
  is bootstrapped; a unit that waits is woken up. (That two units never migrate at
  the same time is not among them: ten attempts of a command outlast the lease.)
* *Pebble handlers*: when the unit reports active, services run on the
  configuration that is rendered, not on an older one, but for what a hook that
  was cut off has forgotten; they do not run without mandatory relations; a failed
  health check is reported only while it lasts.
* *Relations and status*: services run exactly when all mandatory relations are
  ready; the published status never claims more than is there, and names what is
  missing.
* *Offers*: what is offered arrives, in the last version, however the relation,
  the bootstrap of the provider and the values came about; what is gone is given
  up.
* *Service users*: configured credentials exist in keystone with that password;
  a replaced user is not forgotten before keystone has deleted it; requests are
  answered.
* *Keystone keys*: a token issued by any unit is accepted by every unit through
  rotations and elections.
* *Keystone accounts*: a client can log in with what it reads; old users go; what
  setup made survives the requests of others.
* *API charms*: whatever a charm adds to the framework's hook, the unit ends up
  serving the configuration of the moment, and serves nothing before it may.
* *Clusterd, OVN*: one cluster, created once, everyone in, nobody left behind.
* *Hypervisor, cinder-volume*: the snap has what relations, options and the
  allocator have given, and not what is gone.

## 2. Modules

`MC<Module>.tla` instantiates modules for TLC; `<Module>Proofs.tla` holds
theorems: `KeystoneProofs` those of `KeystoneKeys`, `ServiceAccounts` and
`IdentityOps`, `OperatorProofs` those of `ServiceOffers` and `ApiCharms`,
`MachineProofs` those of `Hypervisor` and `VolumeBackends`. One action is one step
of a hook where other actors can interleave with it (`AppBootstrap`,
`PebbleWorkload`, `ApiCharms`, `Hypervisor`, the halves of a hook in `OvnCluster`),
or a whole hook where its effects become visible at its end only (the others).
Where effects on a service or a daemon precede the
commit of the hook, a hook that dies is an action of its own with the former and
without the latter.

**AppBootstrap** is `configure_charm` of an API charm with a database, for all
units of one application. Each hook is a sequence of actions named after the
methods they stand for: `StartHook`, `CheckLeaderReady`,
`CheckRelationHandlersReady`, `ConfigureContainers`, `RunDbSync`, `SyncCommand`
per command of `db_sync_cmds` (`SyncFails` after ten attempts),
`InitContainerServices`, `CheckPebbleHandlersReady`, `ConfigureApp`, `Commit`,
`Flush`. `mem` is the StoredState the process works on and `saved` the committed
one, so a hook that dies loses the one and keeps its effects on `schema` and
`running`. The end of a hook is two steps: `ops` commits the StoredState
(`Commit`), and Juju flushes the databag after the process has gone (`Flush`). A
hook that dies between the two, or whose write Juju refuses because the unit does
not lead any more (`FlushRefused`), runs again on the StoredState that it has
committed. `due[u]` is an event that waits for the unit and that configures the
charm. The lease may move between hooks ("elect"), while the attempts of a
`db-sync` command outlast it ("outlast"), or at any other step ("lease").

**AppReadiness** is its promise: commands are applied in order, the application
is announced once and on a complete schema only, units serve on a complete
schema only. `AppBootstrap` implements it with `announced <- leaderReady` and
`serving <- {u : running[u]}`.

**PebbleWorkload** is one unit with several payload containers. A configuration
is a version number (`want`); a hook renders the version of its start (`view`),
writes the files of all containers, then starts or restarts one service after
the other, and ends early with a status where the code raises one. `changed` is
`_files_changed`: it lives in the process and not in the StoredState, which is
the reason that a change may be forgotten; `forgotten` is the history of that: the
containers whose change a hook knew of that has ended, and which no start has read
since. `layer`, `loaded` and `check` are what pebble knows. The handlers catch an
`ExecError` alone (`container_handlers.py:608`); a call that fails in another way
goes to the guard, with a service that is stopped (`InitServiceFails`) or that runs
on with what it has read (`PebbleCallFails`, `StopFails`).

**CompoundStatus** has the ranking of the statuses. **RelationReadiness** is the
relations of one unit: how far the related application is (`rel`), which events
wait (`events`), and what one hook makes of them. A relation that is being
removed leaves `relation-broken` as its last hook; other hooks may run in
between, and the data of the broken relation may still be readable in it
(`ViewsOfGone`). Constants say which relations are databases, ingresses or
others, because `check_broken_relations` tells them apart by the class of the
event.

**ServiceOffers** is one provider (two units, of which only the leader writes),
one relation and one client, for any offer of `Catalogue`. An offer is four
records, translated from four pieces of code: the library of the provider (what
it writes and whether it repeats it), the charm (when it writes: on request, in
every configuration, once bootstrapped, from a secret), the library of the
client (whether an empty databag is heard) and the client's handler (which events
configure it, and whether `check_broken_relations` leaves its data out). The
actions `ProviderHook`, `ClientHook`, `Relate`, `Unrelate`, `ValueChanges`,
`ProviderElects`, ... are shared by all offers.

**IdentityOps** is a client application and keystone. `cred` and `config` are the
versions in the two secrets of the client, `request` and `response` the databag
slots, `processed` what each client unit has stored as answered, `account` the
users of keystone with their passwords. Keystone takes a request (`busy`),
executes it and answers when its hook ends; a killed hook has executed it and
answers nothing. `Overlap` says whether a rotation, a secret removal or an
unrelated relation-changed may arrive while an exchange is open.

**KeystoneKeys** has a repository of keys on each unit's disk, the secret and the
events of its rotation and change; **ServiceAccounts** the service users of
several applications, their secret and revisions, who reads which revision, and
rotation and removal by keystone's leader; **KeystoneStore** the operations of
`KeystoneClient` on users, projects, domains and roles as a recursive operator
over the list of a request; **TempestResources** keystone's setup, users over
identity-credentials, and tempest's request, tear-down and environment on that
store.

**ClusterdMembership** has the units of `sunbeam-clusterd`, the cluster each
daemon sits in (`seat`), the tokens in the peer databag and the StoredState
`joined`; its hooks die, before or after the StoredState is committed, or are cut
short by the guard at each call of the daemon. A server error when a token is asked
for defers the event, any other failure loses it.

**OvnCluster** has the files of the two databases of each unit, the cluster each
belongs to, the ids and names in the peer databags, northd, the listeners, and a
client of the addresses. A hook is two actions, since it asks twice who leads.

**ApiCharms** has a catalogue of 25 charms. Each entry names the pebble handlers
of the charm (does it write its file once more, restart always, take part in the
readiness), the handler of its db-sync, what else it demands, and its program: the
steps that `configure_charm` runs before the guard, in `configure_unit`, and behind
the guard. The actions are the steps, with the stops of the guard; containers
and relations come and go between them.

**Hypervisor** is one unit of `openstack-hypervisor`. One relation is the focus of
a behaviour, and its departed and broken hooks are apart, with hooks of other
origin between them; or the options for DPDK are, and the hook that applies them
calls EPA once per node and purpose, while other programs take and return cores.

**VolumeBackends** is a unit of `cinder-volume`, its drivers and their one snap:
the relation seen from both ends, the namespace of each backend, the lists that
both sides keep.

Which modules interact: `RelationReadiness` and `PebbleWorkload` look at the same
hook as `AppBootstrap` from two other sides (which relation event leads to a
`configure_charm`; what that does to files and services), each with the rest
reduced to a flag. `ApiCharms` is the composition of the three for one unit, with
what the charm adds. `ServiceOffers` composes two applications. `MCKeystone` and
`MCOperators` put parts side by side that share no state: a behaviour chooses one
of them, so that one run checks them all with their own constants.

## 3. Runs

| run | module, configuration | instance | what it shows |
|---|---|---|---|
| `bootstrap_safety` | `MCAppBootstrap`, `AppBootstrapSafety` | 2 units, 2 commands, any 3 faults of 9 kinds, a lease outlasted by a `db-sync` among them | schema before announcement, label and service, also when two units migrate side by side; no lost wake-up; refinement of `AppReadiness` |
| `bootstrap_worlds` | `MCAppBootstrap`, `AppBootstrapWorlds` | leadership lost inside a hook and a database replaced, 2 faults; kills, new pods, restarts and relations, 3 faults | an active unit is still bootstrapped, and announced or about to run again the hook whose announcement was lost; all units serve in the end |
| `bootstrap_lease_lost` | `MCAppBootstrap`, `AppBootstrapLeaseLost` | leadership lost inside a hook | *violated*: a db-sync that was skipped counts as done |
| `workload_both` | `MCPebbleWorkload`, `WorkloadBoth` | 2 containers with 2 versions, and 1 container with 3, each with any 3 of all faults | no service runs without relations at rest; active means current but for what was forgotten; with 1 container, a check's alarm ends; either unit gets current, or blocked by a failure |
| `workload_stale` | `MCPebbleWorkload`, `WorkloadStale` | 2 containers, one restart | *violated*: active with a service on an old configuration |
| `relations_safety` | `MCRelationReadiness`, `RelationsSafety` | database, ingress and an optional relation, 2 removals or changes | services and status follow the relations |
| `relations_database_gone` | `MCRelationReadiness`, `RelationsDatabaseGone` | the database is removed | *violated*: services go on without it |
| `relations_ingress_gone` | `MCRelationReadiness`, `RelationsIngressGone` | the optional one of two ingresses is removed | *violated*: services stop although all mandatory relations are ready |
| `keystone_safety` | `MCKeystone`, `Keystone` | service users over identity-ops (2 units; 3 rotations apart from each other with 3 faults, or 2 at any time with 1 fault); keys (3 units, 3 rotations); service users (3 applications); tempest | credentials and tokens in use work, nothing in use is deleted and nothing old stays, requests are answered, setup survives |
| `identity_ops_overlap` | `MCIdentityOps`, `IdentityOpsOverlap` | a rotation while an answer waits | *violated*: credentials are configured that keystone does not have |
| `service_accounts_dashed` | `MCKeystone`, `ServiceAccountsDashed` | an application with a dash in its name | *violated*: its credentials are never rotated |
| `operators_safety` | `MCOperators`, `Operators` | clusterd, the 23 offers, OVN, 25 charms, the hypervisor, cinder-volume | one cluster each and everyone in it; offers arrive; programs converge; services run in order; the snap agrees with what it is made of |

The violated properties are findings: each quotes the line of the repository
that says otherwise (`PROJECT.json` "findings").

### Bounds

*Bootstrap.* Two units are one leader and one follower, and the roles swap by an
election; a third unit adds another follower with the same obligations. Two
commands are the least with a state in which some and not all are applied. Three
faults allow a fault, one in the recovery from it, and one on the other unit.

*Workload.* Two containers are the least with one served before and one after a
failure; three versions with one container allow a change during the hook that
handles a change.

*Keystone.* Three rotations give two replaced users, so that a list with more than
one is deleted in part, and move a key through staged, primary and secondary.
Three units are a leader and two followers at different revisions. Three
applications are one alone, one whose name extends it, and one with a dash. The
plans (`KPlans`, `SvcPlans`, `TPlans`) are the sets of failures of a behaviour;
properties name those under which the code does not keep them.

*Clusterd and OVN.* Two units with every fault are a leader and one that joins;
three without faults let two join at once. *Offers*: two providers, a leader and
one that takes over; two values; three faults, the least with which a change comes
to a leader that does not serve yet. *Charms*: one fault of any kind for each, two
for those of one container; the charms with four and five containers go without
restarts, which their handlers, the same as others', show elsewhere. *Hypervisor*:
two NUMA nodes with three and two cores, five settings of the options, three
changes, so that counts grow, move to another node and go to zero; two changes or
failures for a relation. *cinder-volume*: one driver with two faults, two drivers
with a removal.

All counters (`MaxFaults`, `MaxVersion`, `MaxChanges`, `MaxOFaults`, the field
`most` of a plan, ...) bound how often the environment acts, never what the charm
does. `CHECK_DEADLOCK FALSE` is set throughout: an application with nothing to do
stops, and bounded faults and versions run out.

### Fairness

* Juju runs every hook whose event waits, and reruns a failed one: weak fairness
  of the steps of each unit and of the hooks of each relation.
* Kubernetes restarts containers and pebble then reports ready:
  `PebbleReady`, `ContainerStarts`.
* Some unit gets the lease after it is lost (`Elect`).
* `RelationsReady` in the two modules with containers: the related applications
  answer in the end. In `RelationReadiness` there is none, and
  `ServesInTheEnd` assumes the relations stay.
* `update-status` is periodic (five minutes by default), used by
  `BlockedIsTransient` alone.
* In `keystone_safety` the hooks of both sides are fair, and keystone's own hook
  where a setup or a request waits for it.
* No fault is ever fair.

`bootstrap_worlds` leaves three faults out of its liveness, from which the code
does not recover without an operator or another event. No handler observes
`leader-elected`, so a follower that waits and becomes the leader is not
configured ("elect"); a blocked db-sync or a failed start is tried again only by
the next event that configures the charm ("sync", "start"). No document promises
more. `MCOperators` has no liveness: its properties of progress are invariants of
the states in which no hook waits, which say the same of a system that comes to
rest, without fairness.

In the part `ops` of `keystone_safety`, `Overlap` is `FALSE`: rotations are a month
apart and an exchange takes minutes. The part `replaced` drops this assumption, so
that a request replaces another before keystone has taken it, and so does
`identity_ops_overlap`. `ConfigUsable` alone needs it (`OpsConfigUsable`).

The liveness of `workload_both` is that of both units. A unit that a failed call or
start has blocked is excused: the next event that configures it tries again, and
none is promised.

### Where a property stops

Some properties name a failure that excuses them: the code does not promise more,
and the case is a limit that a reader should know. The hazards of `PROJECT.json`
that fall under such a clause name no property, and their note names the clause.

* `SyncedFirst`, `ImplementsPromise`: a lease that is lost in a hook elsewhere than
  in its `db-sync` (the finding `bootstrap_lease_lost`), and a database that is
  replaced under a label that stays. Two units may migrate at the same time.
* `ActiveMeansBootstrapped`: between the commit and the flush, and after a flush
  that was refused or lost until the hook has run again, a unit says active of an
  application that is not announced.
* `ActiveRunsCurrentOrForgot`, `EventuallyCurrent`: a service whose change was
  forgotten, by a hook that ended between the file and the start, runs on an older
  file (the finding `workload_stale`). The number of containers does not matter for
  a call that fails or a hook that dies.
* `NothingRunsWithoutRelations`: services that the unit could not stop, and says so.
* `RequestsAnswered` is about the request in the databag: one that was replaced is
  not there to be answered, and a user that keystone made for it may be left behind.
* `TempestReadyInTheEnd`: a request that failed at keystone is not sent again.
* `CredentialsWork`: a hook of keystone that died between a user and its secret.
  `ReadyIsUsable`: a request of tempest that keystone runs a second time.
* `TokensSurvive`, `KeysAgree`: a hook of keystone's leader that dies between its
  disk and the secret, a lease lost there, a unit two rotations behind.
* `ClientsCanLogIn`, `RetiredUsersGo`: an application whose name extends
  another's, rotating together with it; a removal that dies half way.
* `OneCluster`, `OvnClusterForms`: a unit that leads before it is a member founds
  a cluster of its own (`strayed`).
* `OvnClusterForms`, for a unit: its own last hook has failed (`halted`); for the
  announcement, also a leader with no event to come (`unheard`), since no handler
  observes `leader-elected`.
* `OvnClusterForms`, for the listeners: the unit that leads RAFT sets their probe
  in its own hooks. If its hook fails and RAFT then moves to another unit, or moves
  while hooks wait, nobody sets it until the next event (`moved`). Proving the
  property showed the first of the two, which takes more faults than the instance of
  TLC has.
* `MembersAreUnits`: after elections or failed calls a token, or the event that
  asks for one, may be lost. `JoinedIsMember`: a new leader that finds no token
  takes itself for the seed node.
* `OffersArrive`: what a non-leader drops around an election; a provider whose own
  API does not answer; barbican, whose hook that bootstraps publishes that it is
  not ready; horizon and the storage API, which do not hear that an offer is gone;
  a change of keystone's ingress that its leader hears of before it serves. Proving
  the property showed the last (section 5, seen on the way).
* `ProgramsConverge`: a command that failed, an address that came without an
  event, and files that a hook wrote before it ended without the restart (the
  finding `workload_stale`).
* `ServicesRunInOrder`: glance and watcher start services outside the guard;
  glance and horizon overwrite the status of the guard with active.
* `SnapSettled`: keys of ceph and nova, credentials and certificates stay in the
  snap when their relation goes (they are outside `GoesWithRelation`);
  another hook between the departed and the broken hook of cos-agent enables
  monitoring again; the data of a relation that can still be read keep a service
  enabled; huge pages are not given back when their size goes to zero; after a
  failed call of EPA, allocations and settings differ while the unit is blocked,
  until the next hook. The masks of cores likewise stay in the snap when a count
  goes to zero, although the cores are given back.
* `BackendsServed`: a driver that goes before the charm has been told of it, or
  that writes after the charm has cleaned up behind it, or whose removal the snap
  refuses (which is only logged), leaves its namespace behind. Services go on
  running after the last backend has gone.

## 4. Proofs

TLC checks the instances above. The theorems hold for every number of units,
commands, containers, relations, applications, drivers, nodes, cores, versions and
keys, and for every length of a behaviour. They rest on the named assumptions of
the modules alone (`CmdsAssumption`, `SizeAssumption`, `RelationsAssumption`,
`MembershipAssumption`, `OvnAssumption`, `VolumeAssumption`, `KeysAssumption`,
`SvcAssumption`, `HypervisorAssumption`, `BoundAssumption`, `FaultAssumption`,
`UnitsAssumption`, `OffersAssumption`, `CharmsAssumption`), which say that bounds
are natural numbers, that there is a unit, also of every application, that the
entries of the catalogues are of their types (which TLC evaluates), that names and
kinds do not coincide, that NUMA
nodes are numbered from zero, as in `range(len(numa_architecture))`, and that a
core belongs to one of them. A theorem with a further condition states it as its
ASSUME, or carries the clause of the property that excuses a failure.

### AppBootstrapProofs

* `TypeCorrect`: the types, whatever the faults.
* `AnnouncedOnlySynced`, `LabelOnlySynced`, `ServingOnlySynced`, together
  `SyncComesFirst`; and `Implementation` (`AppBootstrap` implements
  `AppReadiness`), under `StableFaults`: the database is not replaced ("db"), and
  the lease is lost between hooks or while a `db-sync` outlasts it, but at no
  other step of a hook ("lease"). With either of the two the statements are false:
  that is what `bootstrap_lease_lost` shows.
* `ActiveMeansBootstrappedHolds` and `NoWakeupIsLost`, whatever the faults.

None of these is inductive alone. The announcement is made at the end of a hook,
on the strength of a `db-sync` two steps before, or of a label that an earlier
hook has committed, possibly by a unit that led before. `IInv` therefore keeps
for each unit (`UnitSafe`) that the label is set only on a complete schema, in
memory and in the store; and that a hook past its check of the leader is the
leader's or was told that the leader is ready, one in its `db-sync` has applied the
commands before, leader or not by then, and one past it works on a complete schema
(`HookKnows`). Nothing in it says that one unit migrates at a time, which is not so.
One lemma covers the steps of the unit itself (`OwnStepSafe`), one that its steps
do not disturb the others (`HookStepLocal`, `Untouched`), one the environment
(`EnvironmentSafe`).

The two theorems for all faults have invariants of their own. `Honest`: the
bootstrap status is active only where the flag is set, in memory and in the
store, and with the announcement made, in the hands of the hook that has stored the
status and has yet to flush, or lost with an event that waits to run that hook
again. `Awake`: a unit that rests without serving is `Excused` (something is
missing that will come with an event, or an event waits) or blocked; the hook
that announces is the one change that does not wake its own unit, and it has
passed its services.

### PebbleWorkloadProofs

* `TypeCorrect`, `StopsWithoutRelations` and `ActiveServesOrForgot`, for any
  number of containers and whatever the faults. The invariant `Stopped` says that a
  hook that has seen the loss of the relations is at its check, or has ended and
  stopped everything, or is blocked by the call that failed; and that a container
  that cannot be reached runs nothing. `FInv` follows the files: a service that has
  not read its file is marked, in the hook or in the history (`LagIsKnown`); a
  handler that the hook has been through leaves its file and a service that no mark
  of this hook concerns, unless its container has gone and will be back with an
  event (`Handled`); and what an active unit stands for follows when the hook ends
  (`ServesOrForgot`).
* `SingleRunsCurrent`: with one container, no hook that dies and no call that fails
  half way, active means current. `SteadyRunsCurrent`: the same with any number of
  containers that stay up, services that start, calls that succeed and hooks that
  end.

The last two are about `ActiveRunsCurrent`, which `workload_stale` violates:
together they say how much it takes, a killed hook or a failed call, or two
containers and a restart or a failed start. With one container (`SInv`), what
`_files_changed` forgets in a failed start or a restart is made up for by the service
that does not run (`SingleServed`). With containers that stay up (`MInv`), the files
are written for all of them before the first service starts, and whatever lags
behind its file is marked until it has been restarted (`SteadyServed`).
`RendersLatest` and `ActiveServed` are common to both.

### ClusterdMembershipProofs

* `MembershipTypeCorrect`.
* `OneClusterHolds`: the members are all in one cluster, if calls succeed and
  hooks end (`Careful`) or the first leader stays (`LeaderStays`). In the first
  case the announcement comes with the only bootstrap (`ClusterInv`); in the second
  it is always the same unit that bootstraps.
* `JoinedIsMemberHolds`: what a unit has stored of itself is true until the
  operator removes it, if the leader stays and its daemon answers (`Answered`),
  whatever hooks die. `JoinInv` adds that only departing units lose their seat, that
  removals are for departing units, and that the seed node, which takes itself for
  a member when it finds no token, is one after its start. `Seats`, `Joins`,
  `HooksLeft` and `SeedStarts` are the lemmas on which the steps rest.
* `MembersAreUnitsHolds`: at rest the members are the units. `Places` follows each
  unit that departs: the leader has yet to take it out, or has done so, with no
  token left and no event that would issue one. `Invited` follows each unit that
  stays, without faults: it is a member, or the leader will notice it, or it has a
  token that its daemon awaits and an event in which it finds it.

### OvnClusterProofs

* `OvnTypeCorrect`; `OneOvnClusterHolds`, `EveryoneIsInHolds` and
  `ClientKnowsServersHolds`, which are the three parts of `OvnClusterFormsHolds`, for
  any plan of faults, with the exceptions that the parts name: none for the client;
  for the one cluster and for who is in it, a leader that was no member
  (`strayed`); for the announcement, a leader whose own hook failed or that had no
  event to come (`unheard`); for a unit, its own last hook failed (`halted`), and
  for the cluster it is in, also the servers of the leader not running; for the
  probe of the listeners, RAFT that moved while a hook waited (`moved`), or a RAFT
  leader whose hook failed. A unit that has failed does not excuse the others.

`Inv` follows the order in which a cluster forms. `FilesInv`: only the leader
creates a cluster, both databases at once, and from the first file on it is a
member. `PeersInv`: every unit has heard of each other or a join waits, and a unit
that has heard of any has published its name; so where no join waits all have
published (`AllComplete`), which is what `ExpectedPeersAvailable` asks for.
`ReadyInv`: until the announcement the leader has an event, or its hook has
failed; what is announced exists, although a hook may announce the leader and fail
before it has ids to tell. `LeadInv`: a leader, unless it strayed, is never still
joining, and goes on only as a member or to create the cluster. `KnowsInv` is
about a unit that is `Settled`: nothing waits, its last hook did not fail, and it
has heard from everyone; it is then configured with all servers. `ListensInv`: the
RAFT leader is in its cluster, and if it is settled the listeners have the probe
of the option. `SettledStep` carries the last two: a unit that is settled after a
step was settled before, with nothing changed that it was configured with, or has
just been configured. `AddressInv` is independent of these: a unit whose address
is not the one it published has an event, and the client has one when a published
address is not the one it uses.

### MachineProofs

* `HypervisorTypeCorrect`, and `SnapSettledHolds` for any number of nodes and cores,
  any options and ports, and any failures of EPA and of the snap.

The two halves of `SnapSettled` have invariants of their own. For the cores,
`CallsInv` follows the hook through its calls of EPA: each call that the options ask
for has been made, and its effect stands, or is still in the list. What the list
holds is determined by options and ports, which stay while the hook runs
(`AskedCalls`, `AskedStays`), so it does not matter in which order the calls come, and
a count that the nodes cannot share never gets to the end of the list. When the list
is empty every node has its share, and `CoresMade` adds them up: sets of one size on
different nodes are in bijection with pairs (`EqualShares`), which stands in for an
induction. `BalanceInv` keeps the result until options change, because others take
only free cores. For the relations, `UpInv` and `GoneInv` say of the hook that runs
what they say of the settings after it: the data it will write are those of the
relation as it is, unless a hook that configures waits behind it. `LinkInv` ties the
hooks that may wait to the state of the relation.

* `VolumeTypeCorrect`; and `BackendsServedHolds`, whatever the faults and however
  many drivers share the snap.

`EndsInv` relates the two ends of a relation, which see it come and go in hooks of
their own: what one end lacks, a hook that waits will bring. On it rests `DriverInv`:
a driver that has all it needs, and no hook that would configure it, has written its
options and published. `CharmInv` is the other direction: what a driver has published
is counted by the charm, or a hook that will count it waits; a driver that has gone
is still counted until the charm cleans up, or has left nothing, or is one of the
cases of `left`. `RunInv`: the services run as relations and backends say, or a hook
waits that configures the charm (`Wakes`). The departed hook of the charm is observed
by no handler and changes all the same what `Backends` returns; the broken hook that
follows is what keeps `RunInv` true there.

### KeystoneProofs

* `KeysTypeCorrect`, where no hook dies: the files on a disk are numbered as
  expected and hold keys that were minted (`Repos`, `Whole`).
* `KeysAgreeHolds`: when all hooks have run, every unit has the published keys, as
  long as no lease is lost inside a hook, and hooks die only where the leader stays
  (`Settling`). `Agrees` says that a unit that is `Behind` has a hook that will
  change that.
* `TokensSurviveHolds`: what any unit signs, every unit verifies after the step,
  as long as hooks end, leases hold and rotations are apart (`Calm`). `Tokens`
  keeps that two repositories verify each other's primary key, and that when a
  rotation begins they are all the same (`RotationsWait`). The lemma on the
  algorithm is `RotatedWhole`: a rotation of a whole repository keeps the key that
  signed, and signs with the one that was staged, which the others hold already.

The primary key is the one with the highest number; that a finite set of numbers
has one (`Greatest`) comes from the finiteness of the set, since induction is not
at hand.

* `SvcTypeCorrect`, for the service users, whatever fails. A rotation is due only
  for a secret that exists, so the types are proved together with the invariant.
* `ClientsCanLogInHolds`: no rotation and no removal of old users takes a user that
  a client reads, whatever hooks die, but for an application that rotates together
  with one whose name its own extends (the clause of the property).
* `AskedIsServedHolds`: when nothing waits, who has asked is served; where no hook
  dies, keystone has no other service users.

`SvcInv` has four parts. `SecretsInv`: the user in a secret exists and is newer than
those it has replaced. `LagInv`: a client that `Lags` behind its secret has a hook
that waits, and still its user; all who lag among the applications `Beside` each
other read the same revision of the same secret. `TurnsInv` is what makes that
last: an event of removal, or of rotation, waits only while nobody beside lags, so
the users that a removal deletes (`DoomedUnused`) are read by nobody. `ServedInv`:
what the databag marks as processed is, its clients read it or will; an old user
is on the list until a removal that waits, or will be asked for by the client that
still reads it. The proof has one lemma for each kind of hook; what registration
does to the invariant (`RegisteredStep`) and what rotation does (`RotatedStep`) are
stated for any hook that does them, since a hook may also die half way.

* `TypeCorrect`, for `IdentityOps`, and the action property
  `UsersAccountedForHolds`, whether or not rotations and removals fall into an open
  exchange; and under `Sequential` (none does) `ConfigUsableHolds`, which is false
  otherwise: `identity_ops_overlap`.

`Gone` is what carries the first where requests replace each other: what keystone
says it has deleted is older than the configured pair and has no account, and no
request that is open or under way makes one for it again; so an answer that comes
late, or to a request that is not in the databag any more, removes from the list
only users that are gone. `OpsInv`, for `ConfigUsableHolds`, has three parts.
`Exchange`: keystone works on the request that is in the databag, and hooks of the
client wait only for the answer to it. `Ordered`: pairs of user and password are
used in order, so that the one that is asked for is newer than the configured one,
which is newer than those on the list. `OpsAccounts`: an account has the password
of its pair, the configured pair has one, and so has the pair of an answer that
says so. The last is what makes it inductive: the client configures what the
answer names, and only the order shows that the answer is not about a user that
was deleted since.

### OperatorProofs

* `OffersArriveHolds`, for each of the 23 offers and any number of units, values and
  faults, with the types.

The catalogue enters through `CataloguePieces` alone: the rules by which the hooks
of a charm write go together in nine ways (`Manners`), and every reader hears of a
change and, but for the two that are `Deaf`, of the end. `OffersInv` says, beside
the types: the hooks of the client are those of the state of its relation
(`LinkInv`); the client uses what is written or has a hook that waits (`ReadInv`);
a follower bootstraps after the announcement and the secret (`ValueInv`); a leader
that has missed nothing, and whom no hook would configure, is bootstrapped or had
nothing left to tell when it was elected (`LeaderInv`); and by the manner of the
charm, which hook still tells if the databag does not (`ToldInv`). The last is what
fails without the excuse for a late change of the ingress.

* `ServicesRunInOrderHolds` and `ProgramsConvergeHolds`, for each of the 25 charms,
  with the types.

`CatalogueTable` puts what is particular to a charm into one row. `Rank` is the
order of the steps: `ProgramFacts` shows that every program is sorted by it, so that
the set `Left` of the steps still to come says how far a hook has got, whichever
charm runs it. `CharmsInv` speaks of `Left` alone: past the leader's step a unit
leads or has heard of the leader (`FollowInv`), past that of the relations they were
there, or nothing runs (`RelatedInv`), services start after the sync (`RunInv`), a
follower without the secret has done nothing (`SecretInv`), nor has a conductor
without its address (`AddressInv`), an active unit lacks nothing (`ActiveInv`), and
what runs has read its files unless it is on a list (`FileInv`). `ProgressInv` is
what `ProgramsConverge` needs: for a unit that has all it needs, what the steps
that are no longer left have achieved. There is one lemma for each action, with one
step for each conjunct.

### RelationReadinessProofs

* `TypeCorrect`, `ServesOnlyRelatedHolds`, `ActiveIsHonestHolds`,
  `MissingIsShownHolds` for any relations and any order of hooks.
* `ServesWhenReadyHolds` where ingresses are all mandatory or all optional
  (`IngressesAlike`). Without it the statement is false, as
  `relations_ingress_gone` shows.

`IInv` adds three parts. `Backed`: services that run have every mandatory
relation whose gone-away handler calls back, not at rest only but always, since
the hook that loses the relation is the one that stops the services. `Truthful`:
each status of the pool says no more than its part, where the status
"bootstrap" matters, because it stays active while "workload" goes to waiting.
`Published`: what is shown was computed from the pool as it is; operators and
related applications do not touch the pool, and each hook ends with the
publication. `PoolLevels` is the fact about `ComputeStatus` that connects the
two. `ServesWhenReadyHolds` has an invariant of its own, `Woken`: services that
stand still although all relations are ready have an event of a mandatory
relation, or a configuration change, that waits and will start them.

### Model-checked only

* Liveness under fairness and ENABLED are out of the prover's reach:
  `RecoveryEventuallyAllServe`, `EventuallyCurrent`, `OneBlockedIsTransient`,
  `ServesInTheEnd`, `RequestsAnswered`, `RetiredUsersGo`, `TempestReadyInTheEnd`.
* `KeystoneStore` folds a request with a recursive operator, and what a recursive
  definition does for every input cannot be proved; with it `ReadyIsUsable`,
  `SetupStands` and `CredentialsWork` of `TempestResources` stay with TLC.
* `KeystoneTypes` and `OperatorTypes` join the type invariants of modules that run
  side by side. Those of the modules are proved, but for that of `TempestResources`.

## 5. What is not modelled, and why

* The contents of configuration files, databags and layers: they are versions,
  states or model values. A template that renders wrongly is a unit test's job.
* The certificates (`TlsCertificatesHandler`): requests, comparison and renewal are
  in the vendored `tls_certificates` library. Likewise the exchange of
  `CephClientHandler` with its library.
* Endpoint registration, health checks over HTTP, the registration of nova's cells:
  steps of `configure_charm` that keep no state of their own.
* Keystone's configuration for federation, its service catalogue and the bundles of
  CA certificates.
* The rndc keys of designate's bind server, with their revisions and nonces.
* Octavia's management network, images and amphora certificates: idempotent calls
  of OpenStack's API.
* Tempest's test runs, their schedule and logs.
* The machine charms that only install a snap and hand options to it: what is hard
  in such a charm is in `Hypervisor` and `VolumeBackends`. The forty storage
  drivers differ in the options they validate.
* Juju actions, apart from those that share state with the hooks.
* Vendored libraries, Juju, pebble, Kubernetes, MySQL, the snaps and their daemons:
  external, modelled by what the charms rely on (at-least-once hooks, data flushed
  at the end, `relation-broken` last, tokens accepted once).

`PROJECT.json` gives the reason for each component.

### Seen on the way

These are in code that the models leave out, or do not tell apart.

* Keystone: when the last identity provider goes, `trusted_dashboard` and the
  federation settings stay (`keystone-k8s/src/charm.py:1111`,
  `trusted_dashboard.py:222`). The action that regenerates a password
  (`charm.py:1520`) calls `update_user` without a new name, by which that looks the
  user up (`utils/client.py:939`): it finds none.
* Keystone again: a leader that is elected before it is bootstrapped, and hears of a
  new ingress then, skips the forced pass over its clients
  (`charm.py:2866`; the docstring at line 2857 says that it updates the endpoints).
  When it serves, the pass without force leaves alone who has credentials
  (`charm.py:2055`): these clients keep the old address until the next change. It
  takes a new leader, relations that are not ready, and the change; the invariant of
  `OffersArrive` failed there.
* `ops_sunbeam/charm.py:168` creates the handler for tracing and does not put it on
  the list of handlers.
* OVN: the statements after the `raise` in `check_leader_ready`
  (`ovn-central-k8s/src/charm.py:379`) are never reached.
* Neutron: `configure_app_non_leader` (`neutron-k8s/src/charm.py:950`) tests the method
  `bootstrapped` instead of calling it, so that check holds nobody back; the one of
  the framework does.
* Requests over identity-ops that ceilometer, the DNS service and manila answer with
  an event are dropped by a unit that is not the leader, and nobody repeats them
  after an election.
* Octavia and ironic-conductor return before the guard when their options are
  invalid: the services go on with the former configuration. An option of
  cinder-volume that is unset stays in the snap.
