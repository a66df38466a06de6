----------------------- MODULE RelationReadinessProofs -----------------------
(***************************************************************************)
(* The safety of RelationReadiness for every set of relations: the types,  *)
(* that services do not outlive the relations whose handlers call back,    *)
(* that the published status is honest and names what is missing, and,     *)
(* where mandatory and optional ingresses are not mixed, that a unit with  *)
(* all its mandatory relations serves.                                     *)
(***************************************************************************)
EXTENDS RelationReadiness, TLAPS

-----------------------------------------------------------------------------
(* The status pool.                                                        *)

\* The status chosen from a pool is one of the pool, and none is more severe.
LEMMA MostSevere ==
    ASSUME NEW S \in SUBSET StatusNames, S # {}
    PROVE  /\ ComputeStatus(S) \in S
           /\ \A t \in S : Rank(ComputeStatus(S)) <= Rank(t)
<1>1. \E s \in S : \A t \in S : Rank(s) <= Rank(t)
  <2>1. CASE "blocked" \in S
    BY <2>1 DEF StatusNames, Rank
  <2>2. CASE "blocked" \notin S /\ "waiting" \in S
    BY <2>2 DEF StatusNames, Rank
  <2>3. CASE S \cap {"blocked", "waiting"} = {} /\ "maintenance" \in S
    BY <2>3 DEF StatusNames, Rank
  <2>4. CASE S \cap {"blocked", "waiting", "maintenance"} = {} /\ "active" \in S
    BY <2>4 DEF StatusNames, Rank
  <2>5. CASE S \cap {"blocked", "waiting", "maintenance", "active"} = {}
    BY <2>5 DEF StatusNames, Rank
  <2> QED
    BY <2>1, <2>2, <2>3, <2>4, <2>5
<1> QED
  BY <1>1 DEF ComputeStatus

\* A blocked part is always shown, and active is shown for active parts only.
LEMMA PoolLevels ==
    ASSUME NEW S \in SUBSET StatusNames, S # {}
    PROVE  /\ "blocked" \in S => ComputeStatus(S) = "blocked"
           /\ ComputeStatus(S) = "active" => S \subseteq {"active", "unknown"}
<1> DEFINE c == ComputeStatus(S)
<1>1. c \in S /\ \A t \in S : Rank(c) <= Rank(t)
  BY MostSevere
<1> HIDE DEF c
<1>2. "blocked" \in S => c = "blocked"
  BY <1>1 DEF StatusNames, Rank
<1>3. c = "active" => S \subseteq {"active", "unknown"}
  BY <1>1 DEF StatusNames, Rank
<1> QED
  BY <1>2, <1>3 DEF c

-----------------------------------------------------------------------------
(* The inductive invariant.                                                *)

\* Running services have the mandatory relations whose handlers call back.
Backed == running => \A m \in Mandatory \ Databases : rel[m] = "ready"

\* The parts of the pool tell the truth.
Truthful ==
    /\ workload = "active" => running
    /\ boot \in {"maintenance", "active"}
    /\ boot = "active" => workload \in {"active", "waiting"}
    /\ \A m \in Mandatory :
          /\ rstat[m] = "active" => rel[m] = "ready"
          /\ rstat[m] # "unknown"
          /\ rel[m] = "none" => rstat[m] = "blocked"

\* What is shown is up to date with the pool, from the first hook on.
Published ==
    /\ shown = "active" =>
          /\ {workload, boot} \subseteq {"active", "unknown"}
          /\ \A r \in Relations : rstat[r] \in {"active", "unknown"}
    /\ (\E r \in Relations : rstat[r] = "blocked") =>
          shown = "blocked" \/ ConfigChange \in events

IInv == TypeOK /\ Backed /\ Truthful /\ Published

LEMMA HandlerStatusType ==
    \A s, r : HandlerStatus(s, r) \in StatusNames
BY DEF HandlerStatus, StatusNames

\* The pool a hook leaves behind has the types that publishing needs.
PoolType ==
    /\ workload \in StatusNames /\ boot \in StatusNames
    /\ rstat \in [Relations -> StatusNames]

LEMMA PublishKeeps ==
    ASSUME PoolType', Publish
    PROVE  shown' \in StatusNames /\ Published'
<1> DEFINE Pool == {workload', boot'} \cup {rstat'[r] : r \in Relations}
<1>1. Pool \in SUBSET StatusNames /\ Pool # {}
  BY DEF PoolType
<1>2. shown' = ComputeStatus(Pool)
  BY DEF Publish
<1>3. {workload', boot'} \subseteq Pool /\ \A r \in Relations : rstat'[r] \in Pool
  OBVIOUS
<1> HIDE DEF Pool
<1>4. shown' \in StatusNames
  BY <1>1, <1>2, MostSevere
<1>5. /\ "blocked" \in Pool => shown' = "blocked"
      /\ shown' = "active" => Pool \subseteq {"active", "unknown"}
  BY <1>1, <1>2, PoolLevels
<1>6. (\E r \in Relations : rstat'[r] = "blocked") => shown' = "blocked"
  BY <1>3, <1>5
<1>7. shown' = "active" =>
        {workload', boot'} \subseteq {"active", "unknown"}
          /\ \A r \in Relations : rstat'[r] \in {"active", "unknown"}
  BY <1>3, <1>5
<1> QED
  BY <1>4, <1>6, <1>7 DEF Published

-----------------------------------------------------------------------------
(* The initial state and the steps.                                        *)

LEMMA InitIInv == Init => IInv
<1> SUFFICES ASSUME Init PROVE IInv
  OBVIOUS
<1>1. TypeOK
  <2>1. rstat \in [Relations -> StatusNames]
    BY HandlerStatusType DEF Init
  <2>2. rel \in [Relations -> States] /\ changes \in 0 .. MaxChanges
    BY RelationsAssumption DEF Init, States
  <2>3. events \subseteq (Relations \X Kinds) \cup {ConfigChange}
    BY DEF Init
  <2> QED
    BY <2>1, <2>2, <2>3 DEF Init, TypeOK, StatusNames
<1>2. Backed
  BY DEF Init, Backed
<1>3. Truthful
  BY RelationsAssumption DEF Init, Truthful, HandlerStatus
<1>4. Published
  BY DEF Init, Published
<1> QED
  BY <1>1, <1>2, <1>3, <1>4 DEF IInv

\* The handlers' statuses after a hook that sees view, and how they relate to it.
LEMMA SetStatusesTruth ==
    ASSUME NEW view \in [Relations -> States], SetStatuses(view)
    PROVE  /\ rstat' \in [Relations -> StatusNames]
           /\ \A m \in Mandatory :
                 /\ rstat'[m] = "active" => view[m] = "ready"
                 /\ rstat'[m] # "unknown"
                 /\ view[m] = "none" => rstat'[m] = "blocked"
<1>1. rstat' = [q \in Relations |-> HandlerStatus(view[q], q)]
  BY DEF SetStatuses
<1>2. rstat' \in [Relations -> StatusNames]
  BY <1>1, HandlerStatusType
<1>3. ASSUME NEW m \in Mandatory
      PROVE  /\ rstat'[m] = "active" => view[m] = "ready"
             /\ rstat'[m] # "unknown"
             /\ view[m] = "none" => rstat'[m] = "blocked"
  BY <1>1, RelationsAssumption DEF HandlerStatus
<1> QED
  BY <1>2, <1>3

LEMMA SetMissingTruth ==
    ASSUME NEW view \in [Relations -> States], NEW r \in Relations,
           SetMissing(view, r)
    PROVE  /\ rstat' \in [Relations -> StatusNames]
           /\ r \in Mandatory => rstat'[r] = "blocked"
           /\ \A m \in Mandatory \ {r} :
                 /\ rstat'[m] = "active" => view[m] = "ready"
                 /\ rstat'[m] # "unknown"
                 /\ view[m] = "none" => rstat'[m] = "blocked"
<1>1. rstat' = [q \in Relations |->
                  IF q = r /\ r \in Mandatory THEN "blocked"
                                              ELSE HandlerStatus(view[q], q)]
  BY DEF SetMissing
<1>2. rstat' \in [Relations -> StatusNames]
  BY <1>1, HandlerStatusType DEF StatusNames
<1>3. r \in Mandatory => rstat'[r] = "blocked"
  BY <1>1
<1>4. ASSUME NEW m \in Mandatory \ {r}
      PROVE  /\ rstat'[m] = "active" => view[m] = "ready"
             /\ rstat'[m] # "unknown"
             /\ view[m] = "none" => rstat'[m] = "blocked"
  BY <1>1, RelationsAssumption DEF HandlerStatus
<1> QED
  BY <1>2, <1>3, <1>4

\* What configure_charm does to the workload.
LEMMA ConfigureEffect ==
    ASSUME NEW view \in [Relations -> States], NEW broken \in SUBSET Relations,
           Configure(view, broken), PoolType, Truthful
    PROVE  /\ running' \in BOOLEAN
           /\ workload' \in StatusNames /\ boot' \in StatusNames
           /\ workload' = "active" => running'
           /\ boot' \in {"maintenance", "active"}
           /\ boot' = "active" => workload' \in {"active", "waiting"}
           /\ running' <=> \A m \in Mandatory : view[m] = "ready" /\ m \notin broken
<1>1. NotReady(view, broken) = {} <=>
        \A m \in Mandatory : view[m] = "ready" /\ m \notin broken
  BY RelationsAssumption DEF NotReady
<1>2. CASE NotReady(view, broken) = {}
  BY <1>1, <1>2 DEF Configure, StatusNames
<1>3. CASE NotReady(view, broken) # {}
  BY <1>1, <1>3 DEF Configure, StatusNames, PoolType, Truthful
<1> QED
  BY <1>2, <1>3

\* A hook that configures the charm on the data of the moment, or only
\* constructs it, keeps the invariant.
LEMMA PlainHook ==
    ASSUME IInv, SetStatuses(rel), Publish,
           rel' = rel, dying' = dying, changes' = changes, events' \subseteq events,
           \/ Configure(rel, {})
           \/ UNCHANGED <<running, workload, boot>>
    PROVE  IInv'
<1>1. rel \in [Relations -> States]
  BY DEF IInv, TypeOK
<1>2. PoolType /\ Truthful /\ Backed /\ running \in BOOLEAN
  BY DEF IInv, TypeOK, PoolType
<1>3. /\ rstat' \in [Relations -> StatusNames]
      /\ \A m \in Mandatory :
            /\ rstat'[m] = "active" => rel[m] = "ready"
            /\ rstat'[m] # "unknown"
            /\ rel[m] = "none" => rstat'[m] = "blocked"
  BY <1>1, SetStatusesTruth
<1>4. /\ running' \in BOOLEAN
      /\ workload' \in StatusNames /\ boot' \in StatusNames
      /\ workload' = "active" => running'
      /\ boot' \in {"maintenance", "active"}
      /\ boot' = "active" => workload' \in {"active", "waiting"}
      /\ running' => \A m \in Mandatory \ Databases : rel[m] = "ready"
  <2>1. CASE Configure(rel, {})
    BY <1>1, <1>2, <2>1, ConfigureEffect
  <2>2. CASE UNCHANGED <<running, workload, boot>>
    BY <1>2, <2>2 DEF PoolType, Truthful, Backed
  <2> QED
    BY <2>1, <2>2
<1>5. PoolType'
  BY <1>3, <1>4 DEF PoolType
<1>6. shown' \in StatusNames /\ Published'
  BY <1>5, PublishKeeps
<1>7. TypeOK'
  BY <1>3, <1>4, <1>6 DEF IInv, TypeOK
<1>8. Backed' /\ Truthful'
  BY <1>3, <1>4 DEF Backed, Truthful
<1> QED
  BY <1>6, <1>7, <1>8 DEF IInv

\* The last hook of a relation: its data may still be seen, and is gone after.
LEMMA LastHook ==
    ASSUME IInv, NEW r \in Relations, NEW view \in ViewsOfGone(r),
           SetMissing(view, r), Publish,
           rel' = [rel EXCEPT ![r] = "none"],
           dying' = dying \ {r}, changes' = changes, events' \subseteq events,
           \/ Configure(view, Broken(r))
           \/ r \in Databases /\ UNCHANGED <<running, workload, boot>>
    PROVE  IInv'
<1>1. rel \in [Relations -> States] /\ rel' \in [Relations -> States]
  BY DEF IInv, TypeOK, States
<1>2. /\ view \in [Relations -> States]
      /\ \A q \in Relations \ {r} : view[q] = rel[q] /\ rel'[q] = rel[q]
      /\ rel'[r] = "none"
  BY <1>1 DEF ViewsOfGone, States
<1>3. PoolType /\ Truthful /\ Backed /\ running \in BOOLEAN
  BY DEF IInv, TypeOK, PoolType
<1>4. /\ rstat' \in [Relations -> StatusNames]
      /\ r \in Mandatory => rstat'[r] = "blocked"
      /\ \A m \in Mandatory \ {r} :
            /\ rstat'[m] = "active" => view[m] = "ready"
            /\ rstat'[m] # "unknown"
            /\ view[m] = "none" => rstat'[m] = "blocked"
  BY <1>2, SetMissingTruth
<1>5. /\ running' \in BOOLEAN
      /\ workload' \in StatusNames /\ boot' \in StatusNames
      /\ workload' = "active" => running'
      /\ boot' \in {"maintenance", "active"}
      /\ boot' = "active" => workload' \in {"active", "waiting"}
      /\ running' => \A m \in Mandatory \ Databases : rel'[m] = "ready"
  <2>1. CASE Configure(view, Broken(r))
    <3>1. Broken(r) \in SUBSET Relations /\ r \in Broken(r)
      BY DEF Broken, Relations
    <3> QED
      BY <1>2, <1>3, <2>1, <3>1, ConfigureEffect, RelationsAssumption
  <2>2. CASE r \in Databases /\ UNCHANGED <<running, workload, boot>>
    BY <1>2, <1>3, <2>2, RelationsAssumption DEF PoolType, Truthful, Backed
  <2> QED
    BY <2>1, <2>2
<1>6. PoolType'
  BY <1>4, <1>5 DEF PoolType
<1>7. shown' \in StatusNames /\ Published'
  BY <1>6, PublishKeeps
<1>8. TypeOK'
  BY <1>1, <1>4, <1>5, <1>7 DEF IInv, TypeOK
<1>9. Backed' /\ Truthful'
  BY <1>2, <1>4, <1>5, RelationsAssumption DEF Backed, Truthful
<1> QED
  BY <1>7, <1>8, <1>9 DEF IInv

\* The operator and the related applications change the data and leave events;
\* neither makes a ready relation less, nor a missing one unnoticed.
Harmless ==
    \A q \in Relations : rel'[q] = rel[q] \/ (rel[q] # "ready" /\ rel'[q] # "none")

LEMMA OutsideStep ==
    ASSUME IInv, running' = running, workload' = workload, boot' = boot,
           rstat' = rstat, shown' = shown,
           rel' \in [Relations -> States], dying' \subseteq Relations,
           changes' \in 0 .. MaxChanges,
           events' \subseteq (Relations \X Kinds) \cup {ConfigChange},
           ConfigChange \in events => ConfigChange \in events',
           Harmless
    PROVE  IInv'
<1>1. TypeOK'
  BY DEF IInv, TypeOK
<1>2. Backed' /\ Truthful'
  BY RelationsAssumption DEF IInv, Backed, Truthful, Harmless
<1>3. Published'
  BY DEF IInv, Published
<1> QED
  BY <1>1, <1>2, <1>3 DEF IInv

LEMMA NextIInv == IInv /\ [Next]_vars => IInv'
<1> SUFFICES ASSUME IInv, [Next]_vars PROVE IInv'
  OBVIOUS
<1>0. /\ rel \in [Relations -> States] /\ dying \subseteq Relations
      /\ events \subseteq (Relations \X Kinds) \cup {ConfigChange}
      /\ changes \in 0 .. MaxChanges
  BY DEF IInv, TypeOK
<1>1. ASSUME NEW r \in Relations, Hook(r) PROVE IInv'
  <2>1. CASE RelationCreated(r)
    BY <2>1, PlainHook DEF RelationCreated, Handled
  <2>2. CASE RelationReady(r)
    BY <2>2, PlainHook DEF RelationReady, Handled
  <2>3. CASE RelationGone(r)
    <3>1. PICK view \in ViewsOfGone(r) :
            SetMissing(view, r) /\ Configure(view, Broken(r))
      BY <2>3 DEF RelationGone
    <3> QED
      BY <2>3, <3>1, LastHook DEF RelationGone, Handled
  <2>4. CASE DatabaseGone(r)
    <3>1. PICK view \in ViewsOfGone(r) : SetMissing(view, r)
      BY <2>4 DEF DatabaseGone
    <3> QED
      BY <2>4, <3>1, LastHook DEF DatabaseGone, Handled
  <2> QED
    BY <1>1, <2>1, <2>2, <2>3, <2>4 DEF Hook
<1>2. ASSUME NEW r \in Relations, Integrate(r) PROVE IInv'
  <2>1. events' \subseteq (Relations \X Kinds) \cup {ConfigChange}
    BY <1>0, <1>2 DEF Integrate, Kinds
  <2>2. /\ rel' \in [Relations -> States]
        /\ Harmless
    BY <1>0, <1>2 DEF Integrate, States, Harmless
  <2> QED
    BY <1>0, <1>2, <2>1, <2>2, OutsideStep DEF Integrate
<1>3. ASSUME NEW r \in Relations, Provide(r) PROVE IInv'
  <2>1. events' \subseteq (Relations \X Kinds) \cup {ConfigChange}
    BY <1>0, <1>3 DEF Provide, Kinds
  <2>2. /\ rel' \in [Relations -> States]
        /\ Harmless
    BY <1>0, <1>3 DEF Provide, States, Harmless
  <2> QED
    BY <1>0, <1>3, <2>1, <2>2, OutsideStep DEF Provide
<1>4. ASSUME NEW r \in Relations, Remove(r) PROVE IInv'
  <2>1. PICK dropped \in SUBSET {<<r, "created">>, <<r, "ready">>} :
          events' = (events \ dropped) \cup {<<r, "gone">>}
    BY <1>4 DEF Remove
  <2>2. events' \subseteq (Relations \X Kinds) \cup {ConfigChange}
    BY <1>0, <2>1 DEF Kinds
  <2>3. ConfigChange \notin dropped
    BY <2>1 DEF ConfigChange
  <2>4. ConfigChange \in events => ConfigChange \in events'
    BY <2>1, <2>3
  <2>5. changes' \in 0 .. MaxChanges /\ Harmless
    BY <1>0, <1>4, RelationsAssumption DEF Remove, Harmless
  <2> QED
    BY <1>0, <1>4, <2>2, <2>4, <2>5, OutsideStep DEF Remove
<1>5. CASE ConfigChanged
  BY <1>5, PlainHook DEF ConfigChanged, Handled
<1>6. CASE UpdateStatus
  BY <1>6, PlainHook DEF UpdateStatus
<1>7. CASE Reconfigure
  <2>1. changes' \in 0 .. MaxChanges /\ Harmless
    BY <1>0, <1>7, RelationsAssumption DEF Reconfigure, Harmless
  <2> QED
    BY <1>0, <1>7, <2>1, OutsideStep DEF Reconfigure
<1>8. CASE UNCHANGED vars
  <2>1. Harmless
    BY <1>8 DEF vars, Harmless
  <2> QED
    BY <1>0, <1>8, <2>1, OutsideStep DEF vars
<1> QED
  BY <1>1, <1>2, <1>3, <1>4, <1>5, <1>6, <1>7, <1>8 DEF Next

-----------------------------------------------------------------------------
(* The theorems.                                                           *)

\* Every state has the types, backed services, a truthful pool and its status.
THEOREM Invariance == Spec => []IInv
<1> QED
  BY InitIInv, NextIInv, PTL DEF Spec

\* Every variable keeps its type, for any relations and any order of hooks.
THEOREM TypeCorrect == Spec => []TypeOK
<1>1. IInv => TypeOK
  BY DEF IInv
<1> QED
  BY <1>1, Invariance, PTL

\* configure_charm never leaves services running without a mandatory relation
\* whose gone-away handler calls back, whatever data its hooks still see.
THEOREM ServesOnlyRelatedHolds == Spec => []ServesOnlyRelated
<1>1. IInv => ServesOnlyRelated
  BY DEF IInv, Backed, ServesOnlyRelated
<1> QED
  BY <1>1, Invariance, PTL

\* The status pool shows active only where services run on ready relations.
THEOREM ActiveIsHonestHolds == Spec => []ActiveIsHonest
<1>1. ASSUME IInv, shown = "active" PROVE running /\ AllReady
  <2>1. /\ {workload, boot} \subseteq {"active", "unknown"}
        /\ \A r \in Relations : rstat[r] \in {"active", "unknown"}
    BY <1>1 DEF IInv, Published
  <2>2. running
    BY <1>1, <2>1 DEF IInv, Truthful
  <2>3. ASSUME NEW m \in Mandatory PROVE rel[m] = "ready"
    BY <1>1, <2>1, RelationsAssumption DEF IInv, Truthful
  <2> QED
    BY <2>2, <2>3 DEF AllReady
<1>2. IInv => ActiveIsHonest
  BY <1>1 DEF ActiveIsHonest
<1> QED
  BY <1>2, Invariance, PTL

\* A mandatory relation that is missing blocks the unit, whatever else is wrong.
THEOREM MissingIsShownHolds == Spec => []MissingIsShown
<1>1. ASSUME IInv, AtRest, NEW m \in Mandatory, rel[m] = "none"
      PROVE  shown = "blocked"
  <2>1. rstat[m] = "blocked" /\ m \in Relations
    BY <1>1, RelationsAssumption DEF IInv, Truthful
  <2>2. ConfigChange \notin events
    BY <1>1 DEF AtRest
  <2> QED
    BY <1>1, <2>1, <2>2 DEF IInv, Published
<1>2. IInv => MissingIsShown
  BY <1>1 DEF MissingIsShown
<1> QED
  BY <1>2, Invariance, PTL

-----------------------------------------------------------------------------
(* A unit with all its mandatory relations serves.                         *)

\* An optional ingress beside a mandatory one is excluded: its gone-away event
\* is taken for the other's, and ServesWhenReady does not hold.
IngressesAlike == Ingresses \subseteq Mandatory \/ Ingresses \cap Mandatory = {}

\* Services that stand still on ready relations have an event that starts them.
Woken ==
    AllReady => \/ running
                \/ ConfigChange \in events
                \/ \E m \in Mandatory : <<m, "ready">> \in events
                \/ \E m \in Mandatory : <<m, "gone">> \in events

\* A step that leaves running and the relations of Mandatory alone and takes
\* none of their waking events.
LEMMA StillWoken ==
    ASSUME Woken, running' = running, AllReady' => AllReady,
           ConfigChange \in events => ConfigChange \in events',
           \A m \in Mandatory : \A k \in {"ready", "gone"} :
              <<m, k>> \in events => <<m, k>> \in events'
    PROVE  Woken'
BY DEF Woken

LEMMA ConfigureServes ==
    ASSUME NEW view \in [Relations -> States], NEW broken \in SUBSET Relations,
           Configure(view, broken), broken \cap Mandatory = {},
           AllReady' => \A m \in Mandatory : view[m] = "ready"
    PROVE  Woken'
<1>1. AllReady' => NotReady(view, broken) = {}
  BY RelationsAssumption DEF NotReady
<1> QED
  BY <1>1 DEF Configure, Woken

LEMMA NextWoken ==
    ASSUME IngressesAlike, TypeOK, Woken, [Next]_vars
    PROVE  Woken'
<1>0. rel \in [Relations -> States]
  BY DEF TypeOK
<1>1. ASSUME NEW r \in Relations, RelationCreated(r) PROVE Woken'
  <2>1. AllReady' => AllReady
    BY <1>1 DEF RelationCreated, AllReady
  <2> QED
    BY <1>1, <2>1, StillWoken DEF RelationCreated, Handled, ConfigChange
<1>2. ASSUME NEW r \in Relations, RelationReady(r) PROVE Woken'
  <2>1. AllReady' => \A m \in Mandatory : rel[m] = "ready"
    BY <1>2 DEF RelationReady, AllReady
  <2> QED
    BY <1>0, <1>2, <2>1, ConfigureServes DEF RelationReady
<1>3. ASSUME NEW r \in Relations, RelationGone(r) PROVE Woken'
  <2>1. PICK view \in ViewsOfGone(r) : Configure(view, Broken(r))
    BY <1>3 DEF RelationGone
  <2>2. /\ rel' = [rel EXCEPT ![r] = "none"]
        /\ view \in [Relations -> States]
        /\ \A q \in Relations \ {r} : view[q] = rel[q] /\ rel'[q] = rel[q]
        /\ rel'[r] = "none"
    BY <1>0, <1>3 DEF RelationGone, ViewsOfGone, States
  <2>3. CASE r \in Mandatory
    <3>1. ~ AllReady'
      BY <2>2, <2>3 DEF AllReady
    <3> QED
      BY <3>1 DEF Woken
  <2>4. CASE r \notin Mandatory
    <3>1. Broken(r) \in SUBSET Relations /\ Broken(r) \cap Mandatory = {}
      BY <2>4 DEF Broken, IngressesAlike, Relations
    <3>2. AllReady' => \A m \in Mandatory : view[m] = "ready"
      BY <2>2, <2>4, RelationsAssumption DEF AllReady
    <3> QED
      BY <2>1, <2>2, <3>1, <3>2, ConfigureServes
  <2> QED
    BY <2>3, <2>4
<1>4. ASSUME NEW r \in Relations, DatabaseGone(r) PROVE Woken'
  <2>1. /\ \A q \in Relations \ {r} : rel'[q] = rel[q]
        /\ rel'[r] = "none"
    BY <1>0, <1>4 DEF DatabaseGone
  <2>2. CASE r \in Mandatory
    <3>1. ~ AllReady'
      BY <2>1, <2>2 DEF AllReady
    <3> QED
      BY <3>1 DEF Woken
  <2>3. CASE r \notin Mandatory
    <3>1. AllReady' => AllReady
      BY <2>1, <2>3, RelationsAssumption DEF AllReady
    <3> QED
      BY <1>4, <2>3, <3>1, StillWoken DEF DatabaseGone, Handled, ConfigChange
  <2> QED
    BY <2>2, <2>3
<1>5. ASSUME NEW r \in Relations, Integrate(r) PROVE Woken'
  <2>1. /\ \A q \in Relations \ {r} : rel'[q] = rel[q]
        /\ rel'[r] = "joined"
    BY <1>0, <1>5 DEF Integrate
  <2>2. AllReady' => AllReady
    BY <2>1, RelationsAssumption DEF AllReady
  <2> QED
    BY <1>5, <2>2, StillWoken DEF Integrate
<1>6. ASSUME NEW r \in Relations, Provide(r) PROVE Woken'
  <2>1. CASE r \in Mandatory
    <3>1. <<r, "ready">> \in events'
      BY <1>6 DEF Provide
    <3> QED
      BY <2>1, <3>1 DEF Woken
  <2>2. CASE r \notin Mandatory
    <3>1. AllReady' => AllReady
      BY <1>0, <1>6, <2>2, RelationsAssumption DEF Provide, AllReady
    <3> QED
      BY <1>6, <3>1, StillWoken DEF Provide
  <2> QED
    BY <2>1, <2>2
<1>7. ASSUME NEW r \in Relations, Remove(r) PROVE Woken'
  <2>1. PICK dropped \in SUBSET {<<r, "created">>, <<r, "ready">>} :
          events' = (events \ dropped) \cup {<<r, "gone">>}
    BY <1>7 DEF Remove
  <2>2. CASE r \in Mandatory
    <3>1. <<r, "gone">> \in events'
      BY <2>1
    <3> QED
      BY <2>2, <3>1 DEF Woken
  <2>3. CASE r \notin Mandatory
    <3>1. ConfigChange \in events => ConfigChange \in events'
      BY <2>1 DEF ConfigChange
    <3>2. ASSUME NEW m \in Mandatory, NEW k \in {"ready", "gone"}, <<m, k>> \in events
          PROVE  <<m, k>> \in events'
      <4>1. <<m, k>> \notin dropped
        BY <2>1, <2>3
      <4> QED
        BY <2>1, <3>2, <4>1
    <3>3. AllReady' => AllReady
      BY <1>7 DEF Remove, AllReady
    <3> QED
      BY <1>7, <3>1, <3>2, <3>3, StillWoken DEF Remove
  <2> QED
    BY <2>2, <2>3
<1>8. CASE ConfigChanged
  <2>1. AllReady' => \A m \in Mandatory : rel[m] = "ready"
    BY <1>8 DEF ConfigChanged, AllReady
  <2> QED
    BY <1>0, <1>8, <2>1, ConfigureServes DEF ConfigChanged
<1>9. CASE UpdateStatus \/ UNCHANGED vars
  <2>1. AllReady' => AllReady
    BY <1>9 DEF UpdateStatus, vars, AllReady
  <2> QED
    BY <1>9, <2>1, StillWoken DEF UpdateStatus, vars
<1>10. CASE Reconfigure
  <2>1. AllReady' => AllReady
    BY <1>10 DEF Reconfigure, AllReady
  <2> QED
    BY <1>10, <2>1, StillWoken DEF Reconfigure
<1> QED
  BY <1>1, <1>2, <1>3, <1>4, <1>5, <1>6, <1>7, <1>8, <1>9, <1>10 DEF Next, Hook

\* Where ingresses are all mandatory or all optional, no order of hooks leaves a
\* unit at rest with all its mandatory relations and its services stopped.
THEOREM ServesWhenReadyHolds ==
    ASSUME IngressesAlike
    PROVE  Spec => []ServesWhenReady
<1>1. Init => Woken
  BY DEF Init, Woken
<1>2. TypeOK /\ Woken /\ [Next]_vars => Woken'
  BY NextWoken
<1>3. Woken => ServesWhenReady
  BY DEF Woken, ServesWhenReady, AtRest
<1> QED
  BY <1>1, <1>2, <1>3, TypeCorrect, PTL DEF Spec

==============================================================================
