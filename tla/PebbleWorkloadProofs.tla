------------------------ MODULE PebbleWorkloadProofs ------------------------
(***************************************************************************)
(* Type correctness of PebbleWorkload, that its services do not outlive    *)
(* the mandatory relations, that a unit that reports active runs the       *)
(* configuration of the moment but for the changes its hooks forgot, and   *)
(* two circumstances in which they forget none: one payload container, or  *)
(* any number of them that do not restart, and no hook that is cut off.    *)
(***************************************************************************)
EXTENDS PebbleWorkload, TLAPS

USE DEF Containers, Versions, None

LEMMA FirstOnes == 1 \in Containers /\ 1 \in Versions
BY SizeAssumption

LEMMA InitType == Init => TypeOK
<1> SUFFICES ASSUME Init PROVE TypeOK
  OBVIOUS
<1>1. want \in Versions /\ view \in Versions /\ h \in Containers
  BY FirstOnes DEF Init
<1> QED
  BY <1>1 DEF Init, TypeOK

LEMMA NextHandlerType ==
    ASSUME TypeOK, NEW s \in {"start", "services"}, NextHandler(s)
    PROVE  h' \in Containers /\ pc' \in {pc, s}
BY SizeAssumption DEF NextHandler, TypeOK

\* Every step of a hook keeps the types.
LEMMA HookType ==
    ASSUME TypeOK, Hook \/ UpdateStatus
    PROVE  TypeOK'
<1> USE SizeAssumption
<1>1. CASE StartHook
  BY <1>1, FirstOnes DEF StartHook, TypeOK, podVars
<1>2. ASSUME NEW c \in Containers, StartPebbleReady(c) PROVE TypeOK'
  BY <1>2, FirstOnes DEF StartPebbleReady, TypeOK
<1>3. CASE CheckRelations
  <2>1. loaded' \in [Containers -> Versions \cup {None}]
    BY <1>3 DEF CheckRelations, TypeOK
  <2>2. pc' \in {"idle", "write"} /\ (workload' = workload \/ workload' = "waiting")
    BY <1>3 DEF CheckRelations, Bail
  <2>3. /\ UNCHANGED <<want, relReady, due, booted, alarm, faults>>
        /\ UNCHANGED <<connect, file, layer, check>>
        /\ UNCHANGED <<h, view, changed, forgotten, status>>
    BY <1>3 DEF CheckRelations, envVars
  <2>4. /\ want' \in Versions /\ relReady' \in BOOLEAN /\ due' \in BOOLEAN
        /\ booted' \subseteq Containers /\ alarm' \subseteq Containers /\ faults' \in Nat
        /\ h' \in Containers /\ view' \in Versions /\ changed' \subseteq Containers
        /\ forgotten' \subseteq Containers
    BY <2>3 DEF TypeOK
  <2>5. /\ connect' \in [Containers -> BOOLEAN] /\ file' \in [Containers -> Versions \cup {None}]
        /\ layer' \in [Containers -> BOOLEAN] /\ check' \in [Containers -> {"none", "up", "down"}]
        /\ status' \in [Containers -> {"unknown", "waiting", "blocked", "active"}]
    BY <2>3 DEF TypeOK
  <2> QED
    BY <2>1, <2>2, <2>4, <2>5 DEF TypeOK
<1>4. CASE ConfigureContainer
  <2>1. h' \in Containers /\ pc' \in {"idle", "write", "start"}
    BY <1>4, NextHandlerType DEF ConfigureContainer, Bail, TypeOK
  <2>2. file' \in [Containers -> Versions \cup {None}] /\ changed' \subseteq Containers
    <3>1. \/ UNCHANGED <<file, changed>>
          \/ file' = [file EXCEPT ![h] = view] /\ changed' \in {changed, changed \cup {h}}
      BY <1>4 DEF ConfigureContainer, Written
    <3>2. /\ file \in [Containers -> Versions \cup {None}] /\ view \in Versions \cup {None}
          /\ changed \subseteq Containers /\ h \in Containers
      BY DEF TypeOK
    <3> QED
      BY <3>1, <3>2
  <2> QED
    BY <1>4, <2>1, <2>2 DEF ConfigureContainer, Bail, TypeOK, envVars
<1>5. CASE InitService
  <2>1. h' \in Containers /\ pc' \in {"start", "services"}
    BY <1>5, NextHandlerType DEF InitService, TypeOK
  <2>2. /\ loaded' \in [Containers -> Versions \cup {None}]
        /\ changed' \subseteq Containers /\ forgotten' \subseteq Containers
    BY <1>5 DEF InitService, TypeOK
  <2> QED
    BY <1>5, <2>1, <2>2 DEF InitService, TypeOK, envVars
<1>6. CASE InitServiceNotReady
  BY <1>6 DEF InitServiceNotReady, Bail, TypeOK, envVars, podVars
<1>7. CASE InitServiceFails
  BY <1>7, FaultAssumption DEF InitServiceFails, Fault, Bail, TypeOK
<1>13. CASE StopFails
  <2>1. PICK n \in Containers :
           loaded' = [c \in Containers |->
                        IF connect[c] /\ c < n THEN None ELSE loaded[c]]
    BY <1>13 DEF StopFails
  <2>2. loaded' \in [Containers -> Versions \cup {None}]
    BY <2>1 DEF TypeOK
  <2> QED
    BY <1>13, <2>2, FaultAssumption DEF StopFails, Fault, Bail, TypeOK
<1>14. CASE PebbleCallFails
  <2>1. /\ file' \in [Containers -> Versions \cup {None}]
        /\ changed' \subseteq Containers
        /\ layer' \in [Containers -> BOOLEAN]
    <3>1. /\ file' \in {file, [file EXCEPT ![h] = view]}
          /\ changed' \in {changed, changed \cup {h}}
          /\ layer' \in {layer, [layer EXCEPT ![h] = TRUE]}
      BY <1>14 DEF PebbleCallFails, Written
    <3>2. /\ file \in [Containers -> Versions \cup {None}] /\ view \in Versions
          /\ changed \subseteq Containers /\ h \in Containers
          /\ layer \in [Containers -> BOOLEAN]
      BY DEF TypeOK
    <3> QED
      BY <3>1, <3>2
  <2> QED
    BY <1>14, <2>1, FaultAssumption DEF PebbleCallFails, Fault, Bail, TypeOK
<1>8. CASE CheckServices
  BY <1>8 DEF CheckServices, Bail, TypeOK, envVars, podVars
<1>9. CASE Finish
  BY <1>9 DEF Finish, Bail, TypeOK, envVars
<1>10. ASSUME NEW c \in Containers
       PROVE  Assessed(c) \in {"waiting", "blocked", "active"}
  BY DEF Assessed
<1>11. CASE UpdateStatus
  BY <1>10, <1>11 DEF UpdateStatus, TypeOK, hookVars, podVars, envVars
<1>12. ASSUME NEW c \in Containers, CheckEvent(c) PROVE TypeOK'
  BY <1>10, <1>12 DEF CheckEvent, TypeOK, hookVars, podVars
<1> QED
  BY <1>1, <1>2, <1>3, <1>4, <1>5, <1>6, <1>7, <1>8, <1>9, <1>11, <1>12,
     <1>13, <1>14 DEF Hook, ConfigureStep

LEMMA EnvironmentType ==
    ASSUME TypeOK, Environment
    PROVE  TypeOK'
<1> USE SizeAssumption, FaultAssumption DEF TypeOK
<1>1. CASE ConfigChanged
  BY <1>1 DEF ConfigChanged, hookVars, podVars
<1>2. CASE RelationsReady
  BY <1>2 DEF RelationsReady, hookVars, podVars
<1>3. CASE RelationGone
  <2>1. faults' = faults + 1
    BY <1>3 DEF RelationGone, Fault
  <2>2. faults' \in Nat
    BY <2>1
  <2>3. UNCHANGED <<hookVars, podVars, want, booted, alarm, status, workload>>
    BY <1>3 DEF RelationGone
  <2>4. relReady' = FALSE /\ due' = TRUE
    BY <1>3 DEF RelationGone
  <2> QED
    BY <2>2, <2>3, <2>4 DEF hookVars, podVars
<1>4. CASE HookKilled
  BY <1>4 DEF HookKilled, Fault, podVars
<1>5. ASSUME NEW c \in Containers, ContainerStarts(c) PROVE TypeOK'
  BY <1>5 DEF ContainerStarts, hookVars
<1>6. ASSUME NEW c \in Containers, ContainerRestarts(c) PROVE TypeOK'
  BY <1>6 DEF ContainerRestarts, Fault, hookVars
<1>7. ASSUME NEW c \in Containers, CheckFlips(c) PROVE TypeOK'
  BY <1>7 DEF CheckFlips, Fault, hookVars
<1> QED
  BY <1>1, <1>2, <1>3, <1>4, <1>5, <1>6, <1>7 DEF Environment

LEMMA StepType == TypeOK /\ [Next]_vars => TypeOK'
<1> SUFFICES ASSUME TypeOK, [Next]_vars PROVE TypeOK'
  OBVIOUS
<1>1. CASE UNCHANGED vars
  BY <1>1 DEF vars, hookVars, podVars, envVars, TypeOK
<1> QED
  BY <1>1, HookType, EnvironmentType DEF Next

\* The types hold in every reachable state, for any containers and faults.
THEOREM TypeCorrect == Spec => []TypeOK
BY InitType, StepType, PTL DEF Spec

-----------------------------------------------------------------------------
(* Services do not outlive the relations.                                  *)

\* A container that cannot be reached runs nothing.  Once the loss of the
\* relations has been taken up, the hook that did so is still at its check, or
\* has ended and has stopped everything, or is blocked by a call that failed.
Stopped ==
    /\ \A c \in Containers : ~ connect[c] => loaded[c] = None
    /\ ~ relReady /\ ~ due =>
          /\ pc \in {"idle", "relations"}
          /\ pc = "idle" /\ workload # "blocked" =>
                \A c \in Containers : loaded[c] = None

LEMMA HookStopped ==
    ASSUME TypeOK, Stopped, Hook \/ UpdateStatus
    PROVE  Stopped'
<1> USE SizeAssumption DEF Stopped, TypeOK
<1>1. CASE StartHook
  BY <1>1 DEF StartHook, podVars
<1>2. ASSUME NEW c \in Containers, StartPebbleReady(c) PROVE Stopped'
  BY <1>2 DEF StartPebbleReady
<1>3. CASE CheckRelations
  BY <1>3 DEF CheckRelations, Bail, envVars
<1>4. CASE ConfigureContainer
  BY <1>4 DEF ConfigureContainer, envVars
<1>5. CASE InitService
  BY <1>5 DEF InitService, envVars
<1>6. CASE InitServiceNotReady \/ CheckServices
  BY <1>6 DEF InitServiceNotReady, CheckServices, envVars, podVars
<1>7. CASE InitServiceFails \/ PebbleCallFails
  BY <1>7 DEF InitServiceFails, PebbleCallFails
<1>11. CASE StopFails
  BY <1>11 DEF StopFails, Bail
<1>8. CASE Finish
  BY <1>8 DEF Finish, envVars
<1>9. CASE UpdateStatus
  BY <1>9 DEF UpdateStatus, hookVars, podVars, envVars
<1>10. ASSUME NEW c \in Containers, CheckEvent(c) PROVE Stopped'
  BY <1>10 DEF CheckEvent, hookVars, podVars
<1> QED
  BY <1>1, <1>2, <1>3, <1>4, <1>5, <1>6, <1>7, <1>8, <1>9, <1>10,
     <1>11 DEF Hook, ConfigureStep

LEMMA EnvironmentStopped ==
    ASSUME TypeOK, Stopped, Environment
    PROVE  Stopped'
<1> USE SizeAssumption DEF Stopped, TypeOK
<1>1. CASE ConfigChanged \/ RelationsReady \/ RelationGone \/ HookKilled
  BY <1>1 DEF ConfigChanged, RelationsReady, RelationGone, HookKilled, podVars
<1>2. ASSUME NEW c \in Containers, ContainerStarts(c) PROVE Stopped'
  BY <1>2 DEF ContainerStarts, hookVars
<1>3. ASSUME NEW c \in Containers, ContainerRestarts(c) PROVE Stopped'
  BY <1>3 DEF ContainerRestarts, hookVars
<1>4. ASSUME NEW c \in Containers, CheckFlips(c) PROVE Stopped'
  BY <1>4 DEF CheckFlips, hookVars
<1> QED
  BY <1>1, <1>2, <1>3, <1>4 DEF Environment

LEMMA StoppedAlways == Spec => []Stopped
<1>1. Init => Stopped
  BY DEF Init, Stopped
<1>2. TypeOK /\ Stopped /\ [Next]_vars => Stopped'
  <2> SUFFICES ASSUME TypeOK, Stopped, [Next]_vars PROVE Stopped'
    OBVIOUS
  <2>1. CASE UNCHANGED vars
    BY <2>1 DEF vars, hookVars, podVars, envVars, Stopped
  <2> QED
    BY <2>1, HookStopped, EnvironmentStopped DEF Next
<1> QED
  BY <1>1, <1>2, TypeCorrect, PTL DEF Spec

\* At rest, no service runs without the mandatory relations (stop_services in
\* configure_unit) unless the unit says that stopping them has failed, for any
\* number of containers and any faults.
THEOREM StopsWithoutRelations == Spec => []NothingRunsWithoutRelations
<1>1. TypeOK /\ Stopped => NothingRunsWithoutRelations
  BY DEF TypeOK, Stopped, NothingRunsWithoutRelations, AtRest
<1> QED
  BY <1>1, TypeCorrect, StoppedAlways, PTL

-----------------------------------------------------------------------------
(* Active means current, or a change was forgotten.                        *)

\* The hook renders the configuration of the moment, or another one follows.
RendersLatest == pc # "idle" /\ ~ due => view = want

\* A running service that has not read its file is marked, in the hook or in
\* the history.
LagIsKnown ==
    \A c \in Containers :
        loaded[c] # None /\ loaded[c] # file[c] => c \in changed \cup forgotten

\* What a handler leaves that has been through the start of this hook: its file
\* and a service, whose change is marked in the hook no more; or its container
\* has gone, and the event of its return waits.
Handled ==
    \A c \in Containers :
        pc \in {"services", "finish"} \/ (pc = "start" /\ c < h)
            => \/ c \notin changed /\ file[c] = view /\ loaded[c] # None
               \/ ~ connect[c]
               \/ c \in booted

\* What an active unit stands for, also before the health checks are read.
ServesOrForgot ==
    pc = "idle" /\ workload = "active" /\ ~ due /\ booted = {} /\ relReady
      /\ (\A c \in Containers : connect[c])
        => \A c \in Containers :
              /\ file[c] = want
              /\ loaded[c] # None
              /\ loaded[c] = want \/ c \in forgotten

FInv == RendersLatest /\ LagIsKnown /\ Handled /\ ServesOrForgot

LEMMA ForgotHook ==
    ASSUME TypeOK, FInv, Hook \/ UpdateStatus
    PROVE  FInv'
<1> USE DEF FInv, RendersLatest, LagIsKnown, Handled, ServesOrForgot
<1>0. TypeOK'
  BY HookType
<1>1. CASE StartHook
  BY <1>0, <1>1 DEF StartHook, podVars, TypeOK
<1>2. ASSUME NEW c \in Containers, StartPebbleReady(c) PROVE FInv'
  BY <1>0, <1>2 DEF StartPebbleReady, TypeOK
<1>3. CASE CheckRelations
  <2>1. \A c \in Containers : loaded'[c] \in {loaded[c], None}
    BY <1>3 DEF CheckRelations, TypeOK
  <2>2. LagIsKnown'
    BY <1>3, <2>1 DEF CheckRelations
  <2> QED
    BY <1>3, <2>2 DEF CheckRelations, Bail, envVars
<1>4. CASE ConfigureContainer
  <2>1. CASE connect[h]
    BY <1>0, <1>4, <2>1, SizeAssumption
       DEF ConfigureContainer, Written, NextHandler, envVars, TypeOK
  <2>2. CASE ~ connect[h]
    BY <1>4, <2>2 DEF ConfigureContainer, Bail, envVars
  <2> QED
    BY <2>1, <2>2
<1>5. CASE InitService
  <2>1. h \in Containers /\ view' = view /\ booted' = booted /\ connect' = connect
    BY <1>5 DEF InitService, TypeOK, envVars
  <2>2. file' = [file EXCEPT ![h] = view]
    BY <1>5 DEF InitService
  <2>3. /\ loaded'[h] # None
        /\ h \notin changed'
        /\ loaded'[h] = view \/ h \in forgotten'
    BY <1>5, <2>1, SizeAssumption DEF InitService, TypeOK
  <2>4. \A c \in Containers \ {h} :
           /\ loaded'[c] = loaded[c] /\ file'[c] = file[c]
           /\ c \in changed' <=> c \in changed
           /\ c \in forgotten' <=> c \in forgotten
    BY <1>5, <2>1, <2>2 DEF InitService, TypeOK
  <2>5. file'[h] = view
    BY <2>1, <2>2 DEF TypeOK
  <2>6. LagIsKnown'
    BY <2>3, <2>4, <2>5
  <2>7. Handled'
    <3>1. \/ h < NumContainers /\ h' = h + 1 /\ pc' = pc
          \/ h >= NumContainers /\ h' = 1 /\ pc' = "services"
      BY <1>5, SizeAssumption DEF InitService, NextHandler, TypeOK
    <3>2. pc = "start" /\ h \in Nat /\ NumContainers \in Nat
      BY <1>5, SizeAssumption DEF InitService, TypeOK
    <3>3. ASSUME NEW c \in Containers, c # h,
                 pc' \in {"services", "finish"} \/ (pc' = "start" /\ c < h')
          PROVE  c < h
      BY <3>1, <3>2, <3>3, SizeAssumption
    <3> QED
      BY <2>1, <2>3, <2>4, <2>5, <3>2, <3>3
  <2>8. RendersLatest' /\ ServesOrForgot'
    BY <1>5, <2>1 DEF InitService, NextHandler, envVars
  <2> QED
    BY <2>6, <2>7, <2>8
<1>6. CASE InitServiceNotReady
  BY <1>6 DEF InitServiceNotReady, Bail, envVars, podVars
<1>7. CASE InitServiceFails
  BY <1>7 DEF InitServiceFails, Bail, TypeOK
<1>8. CASE CheckServices
  BY <1>8 DEF CheckServices, Bail, envVars, podVars
<1>9. CASE Finish
  BY <1>0, <1>9 DEF Finish, Bail, envVars, TypeOK
<1>10. CASE UpdateStatus
  BY <1>10 DEF UpdateStatus, hookVars, podVars, envVars
<1>11. ASSUME NEW c \in Containers, CheckEvent(c) PROVE FInv'
  BY <1>11 DEF CheckEvent, hookVars, podVars
<1>12. CASE StopFails
  <2>1. \A c \in Containers : loaded'[c] \in {loaded[c], None}
    BY <1>12 DEF StopFails, TypeOK
  <2> QED
    BY <1>12, <2>1 DEF StopFails, Bail
<1>13. CASE PebbleCallFails
  BY <1>13 DEF PebbleCallFails, Written, Bail, TypeOK
<1> QED
  BY <1>1, <1>2, <1>3, <1>4, <1>5, <1>6, <1>7, <1>8, <1>9, <1>10, <1>11,
     <1>12, <1>13 DEF Hook, ConfigureStep

LEMMA ForgotEnvironment ==
    ASSUME TypeOK, FInv, Environment
    PROVE  FInv'
<1> USE DEF FInv, RendersLatest, LagIsKnown, Handled, ServesOrForgot
<1>1. CASE ConfigChanged \/ RelationsReady \/ RelationGone \/ HookKilled
  BY <1>1 DEF ConfigChanged, RelationsReady, RelationGone, HookKilled,
     hookVars, podVars
<1>2. ASSUME NEW c \in Containers, ContainerStarts(c) PROVE FInv'
  BY <1>2 DEF ContainerStarts, hookVars, TypeOK
<1>3. ASSUME NEW c \in Containers, ContainerRestarts(c) PROVE FInv'
  BY <1>3 DEF ContainerRestarts, TypeOK
<1>4. ASSUME NEW c \in Containers, CheckFlips(c) PROVE FInv'
  BY <1>4 DEF CheckFlips, hookVars
<1> QED
  BY <1>1, <1>2, <1>3, <1>4 DEF Environment

\* For any number of containers and any faults: a unit that reports active at
\* rest has current files and runs all its services, and one that runs on an
\* older file is one whose change a hook forgot, because it ended between
\* configure_container and init_service.
THEOREM ActiveServesOrForgot == Spec => []ActiveRunsCurrentOrForgot
<1>1. Init => FInv
  BY DEF Init, FInv, RendersLatest, LagIsKnown, Handled, ServesOrForgot
<1>2. TypeOK /\ FInv /\ [Next]_vars => FInv'
  <2> SUFFICES ASSUME TypeOK, FInv, [Next]_vars PROVE FInv'
    OBVIOUS
  <2>1. CASE UNCHANGED vars
    BY <2>1 DEF vars, hookVars, podVars, envVars, FInv, RendersLatest,
       LagIsKnown, Handled, ServesOrForgot
  <2> QED
    BY <2>1, ForgotHook, ForgotEnvironment DEF Next
<1>3. TypeOK /\ FInv => ActiveRunsCurrentOrForgot
  BY DEF TypeOK, FInv, ServesOrForgot, ActiveRunsCurrentOrForgot, SaysActive,
     AtRest
<1> QED
  BY <1>1, <1>2, <1>3, TypeCorrect, PTL DEF Spec

-----------------------------------------------------------------------------
(* Active means current, with one container.                               *)

\* One payload container, no hook that dies and no call that fails in its
\* middle.
SingleContainer == NumContainers = 1 /\ Faults \cap {"kill", "call"} = {}

\* Outside a hook a running service has read its file.  Inside one it may
\* lag behind, and is marked.  Past the start it runs what the hook renders,
\* or its container has gone and the event of its return waits.
SingleServed ==
    /\ \/ loaded[1] = None
       \/ loaded[1] = file[1]
       \/ 1 \in changed /\ pc = "start"
    /\ pc \in {"services", "finish"} => loaded[1] = view \/ ~ connect[1] \/ 1 \in booted

\* What an active unit stands for, also before the health checks are read.
ActiveServed ==
    pc = "idle" /\ workload = "active" /\ ~ due /\ booted = {} /\ relReady
      /\ (\A c \in Containers : connect[c])
        => \A c \in Containers : loaded[c] = want

SInv == RendersLatest /\ SingleServed /\ ActiveServed

LEMMA OnlyOne ==
    ASSUME SingleContainer
    PROVE  Containers = {1}
BY DEF SingleContainer

LEMMA SingleHook ==
    ASSUME SingleContainer, TypeOK, Stopped, SInv, Hook \/ UpdateStatus
    PROVE  SInv'
<1> USE OnlyOne DEF SInv, RendersLatest, SingleServed, ActiveServed
<1> HIDE DEF Containers
<1>0. TypeOK' /\ h = 1 /\ NumContainers = 1
  BY HookType DEF TypeOK, SingleContainer
<1>1. CASE StartHook
  BY <1>0, <1>1 DEF StartHook, podVars, TypeOK
<1>2. ASSUME NEW c \in Containers, StartPebbleReady(c) PROVE SInv'
  BY <1>0, <1>2 DEF StartPebbleReady, TypeOK
<1>3. CASE CheckRelations
  BY <1>0, <1>3 DEF CheckRelations, Bail, envVars, TypeOK, Stopped
<1>4. CASE ConfigureContainer
  BY <1>0, <1>4
     DEF ConfigureContainer, Written, NextHandler, Bail, envVars, TypeOK, Stopped
<1>5. CASE InitService
  BY <1>0, <1>5 DEF InitService, NextHandler, envVars, TypeOK
<1>6. CASE InitServiceNotReady
  BY <1>0, <1>6 DEF InitServiceNotReady, Bail, envVars, podVars, TypeOK, Stopped
<1>7. CASE InitServiceFails
  BY <1>0, <1>7 DEF InitServiceFails, Bail, TypeOK
<1>12. CASE StopFails \/ PebbleCallFails
  BY <1>12 DEF StopFails, PebbleCallFails, Fault, SingleContainer
<1>8. CASE CheckServices
  BY <1>0, <1>8 DEF CheckServices, Bail, envVars, podVars, TypeOK
<1>9. CASE Finish
  BY <1>0, <1>9 DEF Finish, Bail, envVars, TypeOK
<1>10. CASE UpdateStatus
  BY <1>0, <1>10 DEF UpdateStatus, hookVars, podVars, envVars
<1>11. ASSUME NEW c \in Containers, CheckEvent(c) PROVE SInv'
  BY <1>0, <1>11 DEF CheckEvent, hookVars, podVars
<1> QED
  BY <1>1, <1>2, <1>3, <1>4, <1>5, <1>6, <1>7, <1>8, <1>9, <1>10, <1>11,
     <1>12 DEF Hook, ConfigureStep

LEMMA SingleEnvironment ==
    ASSUME SingleContainer, TypeOK, SInv, Environment
    PROVE  SInv'
<1> USE OnlyOne DEF SInv, RendersLatest, SingleServed, ActiveServed
<1> HIDE DEF Containers
<1>1. CASE ConfigChanged \/ RelationsReady \/ RelationGone
  BY <1>1 DEF ConfigChanged, RelationsReady, RelationGone, hookVars, podVars
<1>2. CASE HookKilled
  BY <1>2 DEF HookKilled, Fault, SingleContainer
<1>3. ASSUME NEW c \in Containers, ContainerStarts(c) PROVE SInv'
  BY <1>3 DEF ContainerStarts, hookVars, TypeOK
<1>4. ASSUME NEW c \in Containers, ContainerRestarts(c) PROVE SInv'
  BY <1>4 DEF ContainerRestarts, hookVars, TypeOK
<1>5. ASSUME NEW c \in Containers, CheckFlips(c) PROVE SInv'
  BY <1>5 DEF CheckFlips, hookVars
<1> QED
  BY <1>1, <1>2, <1>3, <1>4, <1>5 DEF Environment

\* A charm with one payload container that reports active at rest runs its
\* service on the current configuration, through container restarts, services
\* that cannot start and relations that go, but only as long as no hook dies and
\* no call to pebble fails between the file and the service: init_service of
\* the handlers lets such a failure end the hook.
THEOREM SingleRunsCurrent ==
    ASSUME SingleContainer
    PROVE  Spec => []ActiveRunsCurrent
<1>1. Init => SInv
  BY OnlyOne DEF Init, SInv, RendersLatest, SingleServed, ActiveServed
<1>2. TypeOK /\ Stopped /\ SInv /\ [Next]_vars => SInv'
  <2> SUFFICES ASSUME TypeOK, Stopped, SInv, [Next]_vars PROVE SInv'
    OBVIOUS
  <2>1. CASE UNCHANGED vars
    BY <2>1 DEF vars, hookVars, podVars, envVars, SInv, RendersLatest,
       SingleServed, ActiveServed
  <2> QED
    BY <2>1, SingleHook, SingleEnvironment DEF Next
<1>3. TypeOK /\ SInv => ActiveRunsCurrent
  BY DEF TypeOK, SInv, ActiveServed, ActiveRunsCurrent, SaysActive, AtRest
<1> QED
  BY <1>1, <1>2, <1>3, TypeCorrect, StoppedAlways, PTL DEF Spec

-----------------------------------------------------------------------------
(* Active means current, with any number of containers that stay up.       *)

\* Containers do not restart, starts and calls do not fail, hooks do not die.
SteadyContainers == Faults \cap {"kill", "restart", "start", "call"} = {}

\* Whether the hook at this point leaves a running service behind its file.
Behind(c) == loaded[c] # None /\ loaded[c] # file[c]

\* Services run only where all containers could be reached once, and these
\* stay up.  Files are written handler by handler, then services are started
\* handler by handler, and the hook remembers those that are behind.
SteadyServed ==
    /\ (\E c \in Containers : loaded[c] # None) => \A c \in Containers : connect[c]
    /\ \A c \in Containers : Behind(c) => c \in changed /\ pc \in {"write", "start"}
    /\ pc = "relations" => h = 1
    /\ pc = "write" =>
          \A c \in Containers : c < h => connect[c] /\ file[c] = view
    /\ pc = "start" =>
          \A c \in Containers : /\ connect[c] /\ file[c] = view
                                /\ c < h => loaded[c] = view
    /\ pc \in {"services", "finish"} => \A c \in Containers : loaded[c] = view

MInv == RendersLatest /\ SteadyServed /\ ActiveServed

LEMMA SteadyHook ==
    ASSUME SteadyContainers, TypeOK, MInv, Hook \/ UpdateStatus
    PROVE  MInv'
<1> USE DEF MInv, RendersLatest, SteadyServed, ActiveServed, Behind
<1>0. TypeOK'
  BY HookType
<1>1. CASE StartHook
  BY <1>0, <1>1 DEF StartHook, podVars, TypeOK
<1>2. ASSUME NEW c \in Containers, StartPebbleReady(c) PROVE MInv'
  BY <1>0, <1>2 DEF StartPebbleReady, TypeOK
<1>3. CASE CheckRelations
  <2>1. CASE relReady
    BY <1>3, <2>1, SizeAssumption DEF CheckRelations, envVars, TypeOK
  <2>2. CASE ~ relReady
    <3>0. \A c \in Containers : ~ connect[c] => loaded[c] = None
      OBVIOUS
    <3>1. loaded' = [c \in Containers |-> IF connect[c] THEN None ELSE loaded[c]]
      BY <1>3, <2>2 DEF CheckRelations
    <3>2. pc' = "idle" /\ workload' = "waiting"
      BY <1>3, <2>2 DEF CheckRelations, Bail
    <3>3. \A c \in Containers : loaded'[c] = None
      BY <3>0, <3>1
    <3> QED
      BY <3>2, <3>3
  <2> QED
    BY <2>1, <2>2
<1>4. CASE ConfigureContainer
  <2>1. CASE connect[h] /\ h < NumContainers
    BY <1>0, <1>4, <2>1, SizeAssumption
       DEF ConfigureContainer, Written, NextHandler, envVars, TypeOK
  <2>2. CASE connect[h] /\ h = NumContainers
    BY <1>0, <1>4, <2>2, SizeAssumption
       DEF ConfigureContainer, Written, NextHandler, envVars, TypeOK
  <2>3. CASE ~ connect[h]
    BY <1>0, <1>4, <2>3 DEF ConfigureContainer, Bail, envVars, TypeOK
  <2> QED
    BY <2>1, <2>2, <2>3, SizeAssumption DEF TypeOK
<1>5. CASE InitService
  <2>0. h \in Containers /\ file[h] = view
    BY <1>5 DEF InitService, TypeOK
  <2>1. loaded'[h] = view /\ \A c \in Containers \ {h} : loaded'[c] = loaded[c]
    <3>1. CASE loaded[h] = None \/ h \in changed \/ file[h] # view
      <4>1. loaded' = [loaded EXCEPT ![h] = view]
        BY <1>5, <3>1 DEF InitService
      <4> QED
        BY <2>0, <4>1 DEF TypeOK
    <3>2. CASE loaded[h] # None /\ h \notin changed
      <4>1. loaded[h] = file[h]
        BY <2>0, <3>2
      <4>2. loaded' = loaded
        BY <1>5, <2>0, <3>2 DEF InitService
      <4> QED
        BY <2>0, <4>1, <4>2
    <3> QED
      BY <3>1, <3>2
  <2>2. file' = file
    BY <1>5 DEF InitService, TypeOK
  <2>3. changed' \in {changed, changed \ {h}} /\ view' = view /\ connect' = connect
    BY <1>5 DEF InitService
  <2>4. CASE h < NumContainers
    BY <1>0, <1>5, <2>1, <2>2, <2>3, <2>4, SizeAssumption
       DEF InitService, NextHandler, envVars, TypeOK
  <2>5. CASE h = NumContainers
    BY <1>0, <1>5, <2>1, <2>2, <2>3, <2>5, SizeAssumption
       DEF InitService, NextHandler, envVars, TypeOK
  <2> QED
    BY <2>4, <2>5, SizeAssumption DEF TypeOK
<1>6. CASE InitServiceNotReady
  BY <1>0, <1>6 DEF InitServiceNotReady, Bail, TypeOK
<1>7. CASE InitServiceFails \/ StopFails \/ PebbleCallFails
  BY <1>7 DEF InitServiceFails, StopFails, PebbleCallFails, Fault,
     SteadyContainers
<1>8. CASE CheckServices
  BY <1>0, <1>8 DEF CheckServices, Bail, envVars, podVars, TypeOK
<1>9. CASE Finish
  BY <1>0, <1>9 DEF Finish, Bail, envVars, TypeOK
<1>10. CASE UpdateStatus
  BY <1>10 DEF UpdateStatus, hookVars, podVars, envVars
<1>11. ASSUME NEW c \in Containers, CheckEvent(c) PROVE MInv'
  BY <1>11 DEF CheckEvent, hookVars, podVars
<1> QED
  BY <1>1, <1>2, <1>3, <1>4, <1>5, <1>6, <1>7, <1>8, <1>9, <1>10, <1>11
     DEF Hook, ConfigureStep

LEMMA SteadyEnvironment ==
    ASSUME SteadyContainers, TypeOK, MInv, Environment
    PROVE  MInv'
<1> USE DEF MInv, RendersLatest, SteadyServed, ActiveServed, Behind
<1>1. CASE ConfigChanged \/ RelationsReady \/ RelationGone
  BY <1>1 DEF ConfigChanged, RelationsReady, RelationGone, hookVars, podVars
<1>2. CASE HookKilled
  BY <1>2 DEF HookKilled, Fault, SteadyContainers
<1>3. ASSUME NEW c \in Containers, ContainerStarts(c) PROVE MInv'
  BY <1>3 DEF ContainerStarts, hookVars, TypeOK
<1>4. ASSUME NEW c \in Containers, ContainerRestarts(c) PROVE MInv'
  BY <1>4 DEF ContainerRestarts, Fault, SteadyContainers
<1>5. ASSUME NEW c \in Containers, CheckFlips(c) PROVE MInv'
  BY <1>5 DEF CheckFlips, hookVars
<1> QED
  BY <1>1, <1>2, <1>3, <1>4, <1>5 DEF Environment

\* A charm with any number of payload containers that reports active at rest
\* runs all its services on the current configuration (init_service restarts
\* what configure_container has changed), as long as containers stay up,
\* services start, calls to pebble succeed and hooks end.
THEOREM SteadyRunsCurrent ==
    ASSUME SteadyContainers
    PROVE  Spec => []ActiveRunsCurrent
<1>1. Init => MInv
  BY DEF Init, MInv, RendersLatest, SteadyServed, ActiveServed, Behind
<1>2. TypeOK /\ MInv /\ [Next]_vars => MInv'
  <2> SUFFICES ASSUME TypeOK, MInv, [Next]_vars PROVE MInv'
    OBVIOUS
  <2>1. CASE UNCHANGED vars
    BY <2>1 DEF vars, hookVars, podVars, envVars, MInv, RendersLatest,
       SteadyServed, ActiveServed, Behind
  <2> QED
    BY <2>1, SteadyHook, SteadyEnvironment DEF Next
<1>3. TypeOK /\ MInv => ActiveRunsCurrent
  BY DEF TypeOK, MInv, ActiveServed, ActiveRunsCurrent, SaysActive, AtRest
<1> QED
  BY <1>1, <1>2, <1>3, TypeCorrect, PTL DEF Spec

=============================================================================
