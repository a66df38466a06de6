-------------------------- MODULE RelationReadiness --------------------------
(***************************************************************************)
(* The relations of one unit of an API charm: how relation events, which   *)
(* Juju delivers later than they happen and in any order between           *)
(* relations, decide whether the services run and what status the unit     *)
(* shows.  One action of the charm is one hook: handlers are constructed   *)
(* and report the state of their relation, then the handler of the event   *)
(* runs and calls configure_charm, or does not.                            *)
(***************************************************************************)
EXTENDS CompoundStatus

CONSTANTS
    Databases,  \* relations of DBHandler
    Ingresses,  \* relations of IngressHandler: one gone-away event class
    Others,     \* relations with a gone-away event class of their own
    Mandatory,  \* the relations without "optional: true" in charmcraft.yaml
    MaxChanges  \* bound on removals and configuration changes

Relations == Databases \cup Ingresses \cup Others

ASSUME RelationsAssumption ==
    /\ Databases \cap Ingresses = {}
    /\ Databases \cap Others = {}
    /\ Ingresses \cap Others = {}
    /\ Mandatory \subseteq Relations
    /\ MaxChanges \in Nat

VARIABLES
    rel,      \* rel[r]: how far the related application has got
    dying,    \* the relations removed by the operator, not yet by the unit
    events,   \* the hooks that wait: <<relation, kind>>, or a config change
    running,  \* the services of the unit run
    workload, \* the status "workload"
    boot,     \* the status "bootstrap"
    rstat,    \* rstat[r]: the status of the handler of r
    shown,    \* the status Juju shows for the unit
    changes   \* removals and configuration changes so far

vars == <<rel, dying, events, running, workload, boot, rstat, shown, changes>>

States == {"none", "joined", "ready"}
Kinds  == {"created", "ready", "gone"}
ConfigChange == <<"config", "changed">>

TypeOK ==
    /\ rel \in [Relations -> States]
    /\ dying \subseteq Relations
    /\ events \subseteq (Relations \X Kinds) \cup {ConfigChange}
    /\ running \in BOOLEAN
    /\ workload \in StatusNames
    /\ boot \in StatusNames
    /\ rstat \in [Relations -> StatusNames]
    /\ shown \in StatusNames
    /\ changes \in 0 .. MaxChanges

-----------------------------------------------------------------------------
(* Plausible mistakes in the definitions below; no specification uses them. *)

\* A mandatory relation that is missing is not reported.
HandlerStatusLenient(state, r) ==
    IF state = "none" THEN "unknown"
    ELSE IF state = "ready" THEN "active" ELSE "waiting"

\* The label of the most severe status is published instead of the status.
PublishLabel ==
    shown' = LET severest == ComputeStatus({workload', boot'}
                                             \cup {rstat'[r] : r \in Relations})
             IN  IF workload' = severest THEN "(workload)" ELSE "(bootstrap)"

\* The gone-away event is not recognised.
BrokenUnknown(r) == {}

\* The handler of the ready event makes no callback.
RelationReadyUnheard(r) ==
    /\ <<r, "ready">> \in events
    /\ events' = events \ {<<r, "ready">>}
    /\ UNCHANGED <<rel, dying, running, workload, boot, rstat, shown, changes>>

-----------------------------------------------------------------------------
\* RelationHandler.set_status, run when the handlers are constructed.
HandlerStatus(state, r) ==
    IF state = "none" THEN IF r \in Mandatory THEN "blocked" ELSE "unknown"
    ELSE IF state = "ready" THEN "active" ELSE "waiting"

Init ==
    /\ rel = [r \in Relations |-> "none"]
    /\ dying = {}
    /\ events = {ConfigChange}
    /\ running = FALSE
    /\ workload = "unknown"
    /\ boot = "maintenance"
    /\ rstat = [r \in Relations |-> HandlerStatus("none", r)]
    /\ shown = "unknown"
    /\ changes = 0

-----------------------------------------------------------------------------
(* Pieces of a hook.  view is the relation data the hook sees.             *)

\* collect-unit-status publishes the most severe status of the pool.
Publish ==
    shown' = ComputeStatus({workload', boot'} \cup {rstat'[r] : r \in Relations})

\* check_broken_relations: the relations a gone-away event of r is taken for.
\* The event is recognised by its class, which two ingresses share.
Broken(r) == IF r \in Ingresses THEN Ingresses ELSE {r}

\* get_mandatory_relations_not_ready
NotReady(view, broken) ==
    Mandatory \ ({r \in Relations : view[r] = "ready"} \ broken)

\* configure_charm: services stop when a mandatory relation is not ready.
Configure(view, broken) ==
    IF NotReady(view, broken) = {}
      THEN running' = TRUE /\ workload' = "active" /\ boot' = "active"
      ELSE running' = FALSE /\ workload' = "waiting" /\ UNCHANGED boot

SetStatuses(view) ==
    rstat' = [r \in Relations |-> HandlerStatus(view[r], r)]

\* A plausible mistake: the status set at construction stays.
SetMissingForgotten(view, r) == SetStatuses(view)

\* A gone-away handler ends with this, after the callback.
SetMissing(view, r) ==
    rstat' = [q \in Relations |->
                IF q = r /\ r \in Mandatory THEN "blocked"
                                            ELSE HandlerStatus(view[q], q)]

\* The data of a broken relation may still be there while its hook runs.
ViewsOfGone(r) == {rel, [rel EXCEPT ![r] = "none"]}

Handled(e) == e \in events /\ events' = events \ {e}

-----------------------------------------------------------------------------
(* The hooks.                                                              *)

\* relation-created and relation-joined configure nothing.
RelationCreated(r) ==
    /\ Handled(<<r, "created">>)
    /\ SetStatuses(rel)
    /\ UNCHANGED <<rel, dying, running, workload, boot, changes>>
    /\ Publish

\* The interface says that its data is complete.
RelationReady(r) ==
    /\ Handled(<<r, "ready">>)
    /\ SetStatuses(rel)
    /\ Configure(rel, {})
    /\ UNCHANGED <<rel, dying, changes>>
    /\ Publish

\* relation-broken is the last hook of a relation.
LastOf(r) == \A k \in {"created", "ready"} : <<r, k>> \notin events

RelationGone(r) ==
    /\ r \notin Databases
    /\ LastOf(r)
    /\ Handled(<<r, "gone">>)
    /\ \E view \in ViewsOfGone(r) :
          SetMissing(view, r) /\ Configure(view, Broken(r))
    /\ rel' = [rel EXCEPT ![r] = "none"]
    /\ dying' = dying \ {r}
    /\ UNCHANGED changes
    /\ Publish

\* _on_database_relation_broken sets the status and makes no callback.
DatabaseGone(r) ==
    /\ r \in Databases
    /\ LastOf(r)
    /\ Handled(<<r, "gone">>)
    /\ \E view \in ViewsOfGone(r) : SetMissing(view, r)
    /\ rel' = [rel EXCEPT ![r] = "none"]
    /\ dying' = dying \ {r}
    /\ UNCHANGED <<running, workload, boot, changes>>
    /\ Publish

ConfigChanged ==
    /\ Handled(ConfigChange)
    /\ SetStatuses(rel)
    /\ Configure(rel, {})
    /\ UNCHANGED <<rel, dying, changes>>
    /\ Publish

\* update-status constructs the charm and publishes its status.
UpdateStatus ==
    /\ SetStatuses(rel)
    /\ UNCHANGED <<rel, dying, events, running, workload, boot, changes>>
    /\ Publish

-----------------------------------------------------------------------------
(* The operator and the related applications.                              *)

Integrate(r) ==
    /\ rel[r] = "none"
    /\ rel' = [rel EXCEPT ![r] = "joined"]
    /\ events' = events \cup {<<r, "created">>}
    /\ UNCHANGED <<dying, running, workload, boot, rstat, shown, changes>>

Provide(r) ==
    /\ rel[r] = "joined"
    /\ r \notin dying
    /\ rel' = [rel EXCEPT ![r] = "ready"]
    /\ events' = events \cup {<<r, "ready">>}
    /\ UNCHANGED <<dying, running, workload, boot, rstat, shown, changes>>

\* Juju may drop the waiting hooks of a relation that dies.
Remove(r) ==
    /\ rel[r] # "none"
    /\ r \notin dying
    /\ changes < MaxChanges
    /\ changes' = changes + 1
    /\ dying' = dying \cup {r}
    /\ \E dropped \in SUBSET {<<r, "created">>, <<r, "ready">>} :
          events' = (events \ dropped) \cup {<<r, "gone">>}
    /\ UNCHANGED <<rel, running, workload, boot, rstat, shown>>

Reconfigure ==
    /\ changes < MaxChanges
    /\ changes' = changes + 1
    /\ events' = events \cup {ConfigChange}
    /\ UNCHANGED <<rel, dying, running, workload, boot, rstat, shown>>

Hook(r) ==
    RelationCreated(r) \/ RelationReady(r) \/ RelationGone(r) \/ DatabaseGone(r)

Next ==
    \/ \E r \in Relations :
          Hook(r) \/ Integrate(r) \/ Provide(r) \/ Remove(r)
    \/ ConfigChanged
    \/ UpdateStatus
    \/ Reconfigure

Spec == Init /\ [][Next]_vars

\* Juju runs the hooks that wait, and nobody else is bound to do anything.
FairSpec ==
    /\ Spec
    /\ \A r \in Relations : WF_vars(Hook(r))
    /\ WF_vars(ConfigChanged)

-----------------------------------------------------------------------------
(* Properties.                                                             *)

AtRest == events = {}
AllReady == \A r \in Mandatory : rel[r] = "ready"

\* Once the hooks of a removed relation have run, the services do not go on
\* without it, whatever the hooks could still read of its data.
ServesOnlyRelated ==
    AtRest /\ running => \A r \in Mandatory \ Databases : rel[r] = "ready"

\* The same of a database: the last step of its handler would be a callback
\* too, and check_broken_relations takes databases into account.
ServesOnlyOnDatabase ==
    AtRest /\ running => \A r \in Mandatory \cap Databases : rel[r] = "ready"

\* Once all hooks have run, a unit that has all its mandatory relations runs
\* its services; optional relations that come and go do not stop them.
ServesWhenReady == AtRest /\ AllReady => running

\* At rest, an active unit is one that runs its services on all its mandatory
\* relations, also where services outlive their database.
ActiveIsHonest == AtRest /\ shown = "active" => running /\ AllReady

\* A mandatory relation removed for good is reported, and stays reported.
MissingIsShown ==
    AtRest /\ (\E r \in Mandatory : rel[r] = "none") => shown = "blocked"

\* If the mandatory relations stay, the services run in the end and stay up.
ServesInTheEnd == <>[]AllReady => <>[]running
=============================================================================
