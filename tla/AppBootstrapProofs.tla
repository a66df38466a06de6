------------------------- MODULE AppBootstrapProofs -------------------------
(***************************************************************************)
(* Type correctness of AppBootstrap for every set of faults, and, when     *)
(* leadership is lost inside a hook only while its db-sync runs and the    *)
(* database is not replaced, that nothing is announced, served or recorded *)
(* as done on a database that lacks part of its schema.                    *)
(***************************************************************************)
EXTENDS AppBootstrap, TLAPS

USE DEF Cmds

LEMMA FreshType == Fresh \in Stored
BY DEF Fresh, Stored

\* Setting one field of a StoredState to a value of its type gives a StoredState.
LEMMA StoredUpdate ==
    ASSUME NEW s \in Stored
    PROVE  /\ \A x \in {"unknown", "waiting", "blocked", "active"} :
                  [s EXCEPT !.status = x] \in Stored
           /\ \A x \in {"maintenance", "active"} :
                  [s EXCEPT !.boot = x] \in Stored
           /\ [s EXCEPT !.dbSync = TRUE] \in Stored
           /\ [s EXCEPT !.bootstrapped = TRUE] \in Stored
BY DEF Stored

LEMMA InitType == Init => TypeOK
<1> SUFFICES ASSUME Init PROVE TypeOK
  OBVIOUS
<1>1. saved \in [Units -> Stored] /\ mem \in [Units -> Stored]
  BY FreshType DEF Init
<1>2. /\ pebble \in [Units -> BOOLEAN] /\ running \in [Units -> BOOLEAN]
      /\ announce \in [Units -> BOOLEAN] /\ due \in [Units -> BOOLEAN]
  BY DEF Init
<1>3. pc \in [Units -> Steps] /\ cmd \in [Units -> Cmds]
  BY CmdsAssumption DEF Init, Steps
<1> QED
  BY <1>1, <1>2, <1>3 DEF Init, TypeOK

LEMMA GoToType ==
    ASSUME pc \in [Units -> Steps], NEW u \in Units, NEW s \in Steps, GoTo(u, s)
    PROVE  pc' \in [Units -> Steps]
BY DEF GoTo

LEMMA BailType ==
    ASSUME TypeOK, NEW u \in Units, NEW s \in {"waiting", "blocked"}, Bail(u, s)
    PROVE  pc' \in [Units -> Steps] /\ mem' \in [Units -> Stored]
<1>1. mem[u] \in Stored
  BY DEF TypeOK
<1>2. [mem[u] EXCEPT !.status = s] \in Stored
  BY <1>1, StoredUpdate
<1> QED
  BY <1>2, GoToType DEF Bail, TypeOK, Steps

\* Every step of a hook keeps the types.
LEMMA HookStepType ==
    ASSUME TypeOK, NEW u \in Units, HookStep(u)
    PROVE  TypeOK'
<1> USE CmdsAssumption, FaultAssumption
<1> DEFINE PcType == pc \in [Units -> Steps]
           MemType == mem \in [Units -> Stored]
<1>0. /\ \A s \in Steps : GoTo(u, s) => PcType'
      /\ \A s \in {"waiting", "blocked"} : Bail(u, s) => PcType' /\ MemType'
      /\ saved[u] \in Stored /\ mem[u] \in Stored
  BY GoToType, BailType DEF TypeOK
<1>1. CASE StartHook(u)
  <2>1. MemType'
    BY <1>0, <1>1, StoredUpdate DEF StartHook, TypeOK
  <2>2. PcType'
    BY <1>0, <1>1 DEF StartHook, Steps
  <2> QED
    BY <1>1, <2>1, <2>2 DEF StartHook, TypeOK, appVars, podVars
<1>2. CASE CheckLeaderReady(u)
  <2>1. PcType' /\ MemType'
    BY <1>0, <1>2 DEF CheckLeaderReady, TypeOK, Steps
  <2> QED
    BY <1>2, <2>1 DEF CheckLeaderReady, TypeOK, appVars, podVars
<1>3. CASE CheckRelationHandlersReady(u)
  <2>1. PcType' /\ MemType'
    BY <1>0, <1>3 DEF CheckRelationHandlersReady, TypeOK, Steps
  <2>2. running' \in [Units -> BOOLEAN]
    BY <1>3 DEF CheckRelationHandlersReady, TypeOK
  <2> QED
    BY <1>3, <2>1, <2>2 DEF CheckRelationHandlersReady, TypeOK, appVars
<1>4. CASE ConfigureContainers(u)
  <2>1. PcType' /\ MemType'
    BY <1>0, <1>4 DEF ConfigureContainers, TypeOK, Steps
  <2> QED
    BY <1>4, <2>1 DEF ConfigureContainers, TypeOK, appVars, podVars
<1>5. CASE RunDbSync(u)
  <2>1. PcType' /\ MemType'
    <3>1. GoTo(u, "init") \/ GoTo(u, "command")
      BY <1>5 DEF RunDbSync
    <3>2. UNCHANGED mem \/ mem' = [mem EXCEPT ![u] = [mem[u] EXCEPT !.dbSync = TRUE]]
      BY <1>5 DEF RunDbSync
    <3>3. MemType /\ [mem[u] EXCEPT !.dbSync = TRUE] \in Stored
      BY <1>0, StoredUpdate DEF TypeOK
    <3> QED
      BY <1>0, <3>1, <3>2, <3>3 DEF Steps
  <2>2. cmd' \in [Units -> Cmds]
    BY <1>5 DEF RunDbSync, TypeOK
  <2> QED
    BY <1>5, <2>1, <2>2 DEF RunDbSync, TypeOK, appVars, podVars
<1>6. CASE SyncCommand(u)
  <2>1. PcType' /\ MemType'
    <3>1. GoTo(u, "init") \/ UNCHANGED pc
      BY <1>6 DEF SyncCommand
    <3>2. UNCHANGED mem \/ mem' = [mem EXCEPT ![u] = [mem[u] EXCEPT !.dbSync = TRUE]]
      BY <1>6 DEF SyncCommand
    <3>3. PcType /\ MemType /\ [mem[u] EXCEPT !.dbSync = TRUE] \in Stored
      BY <1>0, StoredUpdate DEF TypeOK
    <3> QED
      BY <1>0, <3>1, <3>2, <3>3 DEF Steps
  <2>2. cmd' \in [Units -> Cmds] /\ schema' \subseteq Cmds
    BY <1>6 DEF SyncCommand, TypeOK
  <2> QED
    BY <1>6, <2>1, <2>2 DEF SyncCommand, TypeOK, podVars
<1>7. CASE SyncFails(u)
  <2>1. PcType' /\ MemType'
    BY <1>0, <1>7 DEF SyncFails
  <2> QED
    BY <1>7, <2>1 DEF SyncFails, Fault, TypeOK, appVars, podVars
<1>8. CASE InitContainerServices(u)
  <2>1. PcType' /\ MemType'
    BY <1>0, <1>8 DEF InitContainerServices, TypeOK, Steps
  <2>2. running' \in [Units -> BOOLEAN]
    BY <1>8 DEF InitContainerServices, TypeOK
  <2> QED
    BY <1>8, <2>1, <2>2 DEF InitContainerServices, TypeOK, appVars
<1>9. CASE StartFails(u)
  <2>1. PcType' /\ MemType'
    BY <1>0, <1>9 DEF StartFails
  <2> QED
    BY <1>9, <2>1 DEF StartFails, Fault, TypeOK, appVars, podVars
<1>10. CASE CheckPebbleHandlersReady(u)
  <2>1. PcType' /\ MemType'
    BY <1>0, <1>10, StoredUpdate DEF CheckPebbleHandlersReady, TypeOK, Steps
  <2> QED
    BY <1>10, <2>1 DEF CheckPebbleHandlersReady, TypeOK, appVars, podVars
<1>11. CASE ConfigureApp(u)
  <2>1. PcType'
    BY <1>0, <1>11 DEF ConfigureApp, Steps
  <2>2. MemType'
    <3> DEFINE Done == [mem[u] EXCEPT !.status = "active", !.boot = "active"]
    <3>1. Done \in Stored
      BY <1>0 DEF Stored
    <3> HIDE DEF Done
    <3>2. CASE mem' = [mem EXCEPT ![u] = Done]
      BY <3>1, <3>2 DEF TypeOK
    <3> QED
      BY <1>0, <1>11, <3>2 DEF ConfigureApp, Done
  <2>3. announce' \in [Units -> BOOLEAN]
    BY <1>11 DEF ConfigureApp, TypeOK
  <2> QED
    BY <1>11, <2>1, <2>2, <2>3 DEF ConfigureApp, TypeOK, appVars, podVars
<1>12. CASE Commit(u)
  <2>1. PcType'
    BY <1>0, <1>12 DEF Commit, Steps
  <2>2. saved' \in [Units -> Stored]
    BY <1>0, <1>12 DEF Commit, TypeOK
  <2> QED
    BY <1>12, <2>1, <2>2 DEF Commit, TypeOK, appVars
<1>13. CASE Flush(u)
  <2>1. PcType'
    BY <1>0, <1>13 DEF Flush, Steps
  <2>2. due' \in [Units -> BOOLEAN] /\ leaderReady' \in BOOLEAN
    BY <1>13 DEF Flush, TypeOK
  <2> QED
    BY <1>13, <2>1, <2>2 DEF Flush, TypeOK, podVars
<1>14. CASE FlushRefused(u)
  <2>1. PcType'
    BY <1>0, <1>14 DEF FlushRefused, Steps
  <2> QED
    BY <1>14, <2>1 DEF FlushRefused, TypeOK, appVars, podVars
<1> QED
  BY <1>1, <1>2, <1>3, <1>4, <1>5, <1>6, <1>7, <1>8, <1>9, <1>10, <1>11,
     <1>12, <1>13, <1>14 DEF HookStep

\* Every step of the environment keeps the types.
LEMMA EnvironmentType ==
    ASSUME TypeOK, Environment
    PROVE  TypeOK'
<1> USE CmdsAssumption, FaultAssumption
<1>1. ASSUME NEW u \in Units, Elect(u) PROVE TypeOK'
  BY <1>1 DEF Elect, TypeOK, podVars, hookVars
<1>2. ASSUME NEW u \in Units, LoseLease(u) PROVE TypeOK'
  BY <1>2 DEF LoseLease, Fault, TypeOK, podVars, hookVars
<1>3. ASSUME NEW u \in Units, HookKilled(u) PROVE TypeOK'
  BY <1>3 DEF HookKilled, Fault, GoTo, TypeOK, Steps, appVars, podVars
<1>4. ASSUME NEW u \in Units, PodReplaced(u) PROVE TypeOK'
  BY <1>4, FreshType DEF PodReplaced, Fault, GoTo, TypeOK, Steps, appVars
<1>5. ASSUME NEW u \in Units, PebbleReady(u) PROVE TypeOK'
  BY <1>5 DEF PebbleReady, TypeOK, appVars, hookVars
<1>6. ASSUME NEW u \in Units, ContainerRestarts(u) PROVE TypeOK'
  BY <1>6 DEF ContainerRestarts, Fault, TypeOK, appVars, hookVars
<1>7. ASSUME NEW u \in Units, ConfigChanged(u) PROVE TypeOK'
  BY <1>7 DEF ConfigChanged, Fault, TypeOK, appVars, podVars, hookVars
<1>8. CASE RelationsReady
  BY <1>8 DEF RelationsReady, TypeOK, podVars, hookVars
<1>9. CASE RelationGone
  <2>1. schema' \subseteq Cmds
    BY <1>9 DEF RelationGone, TypeOK
  <2>2. due' \in [Units -> BOOLEAN] /\ faults' \in Nat
    BY <1>9 DEF RelationGone, Fault, TypeOK
  <2> QED
    BY <1>9, <2>1, <2>2 DEF RelationGone, TypeOK, podVars, hookVars
<1>10. ASSUME NEW u \in Units, UnitEvent(u) PROVE TypeOK'
  BY <1>1, <1>2, <1>3, <1>4, <1>5, <1>6, <1>7, <1>10 DEF UnitEvent
<1> QED
  BY <1>8, <1>9, <1>10 DEF Environment

\* The type invariant: every variable of the application, its units and
\* their hooks keeps its type, whatever the faults.
THEOREM TypeCorrect == Spec => []TypeOK
<1>1. TypeOK /\ [Next]_vars => TypeOK'
  <2> SUFFICES ASSUME TypeOK, [Next]_vars PROVE TypeOK'
    OBVIOUS
  <2>1. CASE UNCHANGED vars
    BY <2>1 DEF vars, appVars, podVars, hookVars, TypeOK
  <2> QED
    BY <2>1, HookStepType, EnvironmentType DEF Next
<1> QED
  BY InitType, <1>1, PTL DEF Spec

-----------------------------------------------------------------------------
(* Safety, when the faults spare the database, and the lease of a running  *)
(* hook but for the time that its db-sync takes.                           *)

StableFaults == "lease" \notin Faults /\ "db" \notin Faults

\* A unit whose hook is past its check of the leader is the leader, or has
\* been told to go on; one in the db-sync, leader or not by then, has applied
\* the commands before; one past it works on a synced database.
HookKnows(u) ==
    /\ pc[u] \in {"relations", "containers", "sync"} => u = leader \/ leaderReady
    /\ pc[u] = "command" => 1 .. (cmd[u] - 1) \subseteq schema
    /\ pc[u] \in {"init", "services", "app"} => Synced
    /\ pc[u] \in {"commit", "flush"} /\ announce[u] => Synced
    /\ pc[u] \notin {"idle", "commit", "flush"} => ~ announce[u]
    /\ pc[u] # "idle" /\ mem[u].dbSync => Synced

UnitSafe(u) ==
    /\ saved[u].dbSync => Synced
    /\ running[u] => Synced
    /\ HookKnows(u)

IInv ==
    /\ TypeOK
    /\ AnnouncedMeansSynced
    /\ \A u \in Units : UnitSafe(u)

LEMMA InitSafe == Init => IInv
<1> SUFFICES ASSUME Init PROVE IInv
  OBVIOUS
<1>1. \A u \in Units : UnitSafe(u)
  BY DEF Init, UnitSafe, HookKnows, Fresh
<1> QED
  BY <1>1, InitType DEF Init, IInv, AnnouncedMeansSynced

\* What a step of one unit leaves to another: the schema only grows, the
\* announcement is never taken back and the leader stays.
LEMMA Untouched ==
    ASSUME TypeOK, NEW v \in Units, UnitSafe(v),
           leader' = leader, leaderReady => leaderReady',
           schema \subseteq schema', schema' \subseteq Cmds,
           pc'[v] = pc[v], cmd'[v] = cmd[v], announce'[v] = announce[v],
           mem'[v] = mem[v], saved'[v] = saved[v], running'[v] => running[v]
    PROVE  UnitSafe(v)'
BY DEF TypeOK, UnitSafe, HookKnows, Synced

\* The commands before the last and the last are all there are.
LEMMA LastCommand ==
    ASSUME NEW S \in SUBSET Cmds, 1 .. (NumCmds - 1) \subseteq S
    PROVE  S \cup {NumCmds} = Cmds
<1>1. ASSUME NEW n \in Cmds PROVE n \in S \/ n = NumCmds
  <2>1. n \in Nat /\ 1 <= n /\ n <= NumCmds
    BY CmdsAssumption DEF Cmds
  <2>2. CASE n # NumCmds
    <3>1. n \in 1 .. (NumCmds - 1)
      BY <2>1, <2>2, CmdsAssumption
    <3> QED
      BY <3>1
  <2> QED
    BY <2>2
<1>2. NumCmds \in Cmds
  BY CmdsAssumption DEF Cmds
<1> QED
  BY <1>1, <1>2

\* Every step of a hook keeps the invariant of its own unit.
LEMMA OwnStepSafe ==
    ASSUME IInv, NEW u \in Units, HookStep(u)
    PROVE  UnitSafe(u)'
<1> USE CmdsAssumption DEF IInv, UnitSafe, HookKnows, Synced
<1>0. TypeOK /\ TypeOK'
  BY HookStepType
<1>1. CASE StartHook(u)
  BY <1>0, <1>1 DEF StartHook, GoTo, TypeOK, Stored, appVars, podVars
<1>2. CASE CheckLeaderReady(u)
  BY <1>0, <1>2 DEF CheckLeaderReady, GoTo, Bail, TypeOK, Stored, appVars, podVars
<1>3. CASE CheckRelationHandlersReady(u)
  BY <1>0, <1>3 DEF CheckRelationHandlersReady, GoTo, Bail, TypeOK, Stored, appVars
<1>4. CASE ConfigureContainers(u)
  BY <1>0, <1>4 DEF ConfigureContainers, GoTo, Bail, TypeOK, Stored, appVars, podVars
<1>5. CASE RunDbSync(u)
  <2>1. CASE mem[u].dbSync
    BY <1>0, <1>5, <2>1 DEF RunDbSync, GoTo, TypeOK, Stored, appVars, podVars
  <2>2. CASE ~ mem[u].dbSync /\ u # leader
    <3>1. Synced /\ schema' = schema
      BY <1>5, <2>2 DEF RunDbSync, AnnouncedMeansSynced, appVars
    <3> QED
      BY <1>0, <1>5, <2>2, <3>1 DEF RunDbSync, GoTo, TypeOK, appVars, podVars
  <2>3. CASE ~ mem[u].dbSync /\ u = leader
    BY <1>0, <1>5, <2>3 DEF RunDbSync, GoTo, TypeOK, Stored, appVars, podVars
  <2> QED
    BY <2>1, <2>2, <2>3
<1>6. CASE SyncCommand(u)
  <2>0. /\ pc[u] = "command" /\ 1 .. (cmd[u] - 1) \subseteq schema
        /\ schema' = schema \cup {cmd[u]} /\ cmd[u] \in Cmds
        /\ saved' = saved /\ running' = running /\ ~ announce'[u]
    BY <1>0, <1>6 DEF SyncCommand, TypeOK, podVars
  <2>1. Synced => Synced'
    BY <1>0, <2>0 DEF TypeOK
  <2>2. CASE cmd[u] < NumCmds
    <3>1. /\ pc'[u] = "command" /\ mem'[u] = mem[u]
          /\ cmd'[u] = cmd[u] + 1
      BY <1>0, <1>6, <2>0, <2>2 DEF SyncCommand, TypeOK
    <3>2. 1 .. (cmd'[u] - 1) \subseteq schema'
      BY <2>0, <3>1
    <3> QED
      BY <2>0, <2>1, <3>1, <3>2
  <2>3. CASE cmd[u] = NumCmds
    <3>1. schema \subseteq Cmds
      BY <1>0 DEF TypeOK
    <3>2. schema' = Cmds
      BY <2>0, <2>3, <3>1, LastCommand
    <3>3. pc'[u] = "init"
      BY <1>0, <1>6, <2>0, <2>3 DEF SyncCommand, GoTo, TypeOK
    <3> QED
      BY <2>0, <3>2, <3>3
  <2> QED
    BY <1>0, <2>0, <2>2, <2>3 DEF Cmds
<1>7. CASE SyncFails(u)
  BY <1>0, <1>7 DEF SyncFails, GoTo, Bail, TypeOK, Stored, appVars, podVars
<1>8. CASE InitContainerServices(u)
  BY <1>0, <1>8 DEF InitContainerServices, GoTo, Bail, TypeOK, Stored, appVars
<1>9. CASE StartFails(u)
  BY <1>0, <1>9 DEF StartFails, GoTo, Bail, TypeOK, Stored, appVars, podVars
<1>10. CASE CheckPebbleHandlersReady(u)
  BY <1>0, <1>10 DEF CheckPebbleHandlersReady, GoTo, Bail, TypeOK, Stored, appVars, podVars
<1>11. CASE ConfigureApp(u)
  BY <1>0, <1>11 DEF ConfigureApp, GoTo, Bail, TypeOK, Stored, appVars, podVars
<1>12. CASE Commit(u)
  BY <1>0, <1>12 DEF Commit, GoTo, TypeOK, Stored, appVars
<1>13. CASE Flush(u)
  BY <1>0, <1>13 DEF Flush, GoTo, TypeOK, Stored, podVars
<1>14. CASE FlushRefused(u)
  BY <1>0, <1>14 DEF FlushRefused, GoTo, TypeOK, Stored, appVars, podVars
<1> QED
  BY <1>1, <1>2, <1>3, <1>4, <1>5, <1>6, <1>7, <1>8, <1>9, <1>10, <1>11,
     <1>12, <1>13, <1>14 DEF HookStep

\* A step of the hook of u touches no other unit.
LEMMA HookStepLocal ==
    ASSUME TypeOK, NEW u \in Units, HookStep(u), NEW v \in Units \ {u}
    PROVE  /\ leader' = leader /\ (leaderReady => leaderReady')
           /\ schema \subseteq schema'
           /\ pc'[v] = pc[v] /\ cmd'[v] = cmd[v] /\ announce'[v] = announce[v]
           /\ mem'[v] = mem[v] /\ saved'[v] = saved[v] /\ running'[v] = running[v]
<1> USE DEF TypeOK, GoTo, Bail, appVars, podVars
<1>1. CASE StartHook(u) \/ CheckLeaderReady(u) \/ ConfigureContainers(u)
  BY <1>1 DEF StartHook, CheckLeaderReady, ConfigureContainers
<1>2. CASE CheckRelationHandlersReady(u) \/ InitContainerServices(u)
  BY <1>2 DEF CheckRelationHandlersReady, InitContainerServices
<1>3. CASE RunDbSync(u) \/ SyncCommand(u) \/ SyncFails(u)
  BY <1>3 DEF RunDbSync, SyncCommand, SyncFails
<1>4. CASE StartFails(u) \/ CheckPebbleHandlersReady(u) \/ ConfigureApp(u)
  BY <1>4 DEF StartFails, CheckPebbleHandlersReady, ConfigureApp
<1>5. CASE Commit(u) \/ Flush(u) \/ FlushRefused(u)
  BY <1>5 DEF Commit, Flush, FlushRefused
<1> QED
  BY <1>1, <1>2, <1>3, <1>4, <1>5 DEF HookStep

\* The hook of u wakes the others when it makes the announcement, and touches
\* neither their events nor the relations otherwise.
LEMMA HookStepWakes ==
    ASSUME TypeOK, NEW u \in Units, HookStep(u), NEW v \in Units \ {u}
    PROVE  /\ relReady' = relReady /\ pebble'[v] = pebble[v]
           /\ due[v] => due'[v]
           /\ leaderReady' # leaderReady => due'[v]
<1> USE DEF TypeOK, GoTo, Bail, appVars, podVars
<1>1. CASE StartHook(u) \/ FlushRefused(u)
  BY <1>1 DEF StartHook, FlushRefused
<1>2. CASE Flush(u)
  BY <1>2 DEF Flush
<1>3. CASE SyncCommand(u)
  BY <1>3 DEF SyncCommand
<1> QED
  BY <1>1, <1>2, <1>3
     DEF HookStep, CheckLeaderReady, CheckRelationHandlersReady,
         ConfigureContainers, RunDbSync, SyncFails, InitContainerServices,
         StartFails, CheckPebbleHandlersReady, ConfigureApp, Commit

LEMMA HookStepSafe ==
    ASSUME IInv, NEW u \in Units, HookStep(u)
    PROVE  IInv'
<1>1. TypeOK /\ TypeOK'
  BY HookStepType DEF IInv
<1>2. ASSUME NEW v \in Units PROVE UnitSafe(v)'
  <2>1. CASE v = u
    BY <2>1, OwnStepSafe
  <2>2. CASE v # u
    BY <1>1, <2>2, HookStepLocal, Untouched DEF IInv, TypeOK
  <2> QED
    BY <2>1, <2>2
<1>3. AnnouncedMeansSynced'
  <2>1. CASE Flush(u)
    BY <2>1 DEF Flush, IInv, UnitSafe, HookKnows, AnnouncedMeansSynced, Synced
  <2>2. CASE SyncCommand(u)
    BY <1>1, <2>2 DEF SyncCommand, IInv, TypeOK, AnnouncedMeansSynced, Synced
  <2>3. CASE UNCHANGED appVars
    BY <2>3 DEF appVars, IInv, AnnouncedMeansSynced, Synced
  <2> QED
    BY <2>1, <2>2, <2>3 DEF HookStep, StartHook, CheckLeaderReady,
       CheckRelationHandlersReady, ConfigureContainers, RunDbSync, SyncFails,
       InitContainerServices, StartFails, CheckPebbleHandlersReady,
       ConfigureApp, Commit, FlushRefused, appVars
<1> QED
  BY <1>1, <1>2, <1>3 DEF IInv

LEMMA EnvironmentSafe ==
    ASSUME StableFaults, IInv, Environment
    PROVE  IInv'
<1>1. TypeOK /\ TypeOK'
  BY EnvironmentType DEF IInv
<1>2. schema' = schema /\ leaderReady' = leaderReady
  BY DEF Environment, UnitEvent, Elect, LoseLease, HookKilled, PodReplaced,
     PebbleReady, ContainerRestarts, ConfigChanged, RelationsReady,
     RelationGone, Fault, StableFaults, appVars
<1>3. AnnouncedMeansSynced'
  BY <1>2 DEF IInv, AnnouncedMeansSynced, Synced
<1>4. ASSUME NEW v \in Units PROVE UnitSafe(v)'
  <2>0. UnitSafe(v)
    BY DEF IInv
  <2>1. ASSUME NEW u \in Units, Elect(u) PROVE UnitSafe(v)'
    BY <1>1, <1>2, <2>0, <2>1, UnitsAssumption
       DEF Elect, UnitSafe, HookKnows, Synced, podVars, hookVars
  <2>2. ASSUME NEW u \in Units, LoseLease(u) PROVE UnitSafe(v)'
    BY <1>1, <1>2, <2>0, <2>2
       DEF LoseLease, Fault, StableFaults, UnitSafe, HookKnows, Synced, podVars,
           hookVars
  <2>3. ASSUME NEW u \in Units, HookKilled(u) PROVE UnitSafe(v)'
    BY <1>1, <1>2, <2>0, <2>3
       DEF HookKilled, GoTo, TypeOK, UnitSafe, HookKnows, Synced, appVars, podVars
  <2>4. ASSUME NEW u \in Units, PodReplaced(u) PROVE UnitSafe(v)'
    BY <1>1, <1>2, <2>0, <2>4
       DEF PodReplaced, GoTo, TypeOK, Fresh, UnitSafe, HookKnows, Synced, appVars
  <2>5. ASSUME NEW u \in Units, PebbleReady(u) PROVE UnitSafe(v)'
    BY <1>2, <2>0, <2>5 DEF PebbleReady, UnitSafe, HookKnows, Synced, appVars, hookVars
  <2>6. ASSUME NEW u \in Units, ContainerRestarts(u) PROVE UnitSafe(v)'
    BY <1>1, <1>2, <2>0, <2>6
       DEF ContainerRestarts, TypeOK, UnitSafe, HookKnows, Synced, appVars, hookVars
  <2>7. CASE (\E u \in Units : ConfigChanged(u)) \/ RelationsReady \/ RelationGone
    BY <1>2, <2>0, <2>7
       DEF ConfigChanged, RelationsReady, RelationGone, UnitSafe, HookKnows,
           Synced, appVars, podVars, hookVars
  <2> QED
    BY <2>1, <2>2, <2>3, <2>4, <2>5, <2>6, <2>7 DEF Environment, UnitEvent
<1> QED
  BY <1>1, <1>3, <1>4 DEF IInv

\* IInv is inductive: it holds at the start and every step keeps it.
LEMMA Inductive ==
    ASSUME StableFaults
    PROVE  Spec => []IInv
<1>1. IInv /\ [Next]_vars => IInv'
  <2> SUFFICES ASSUME IInv, [Next]_vars PROVE IInv'
    OBVIOUS
  <2>1. CASE UNCHANGED vars
    BY <2>1 DEF vars, appVars, podVars, hookVars, IInv, TypeOK, UnitSafe,
       HookKnows, AnnouncedMeansSynced, Synced
  <2>2. CASE Environment
    BY <2>2, EnvironmentSafe
  <2>3. ASSUME NEW u \in Units, HookStep(u) PROVE IInv'
    BY <2>3, HookStepSafe
  <2> QED
    BY <2>1, <2>2, <2>3 DEF Next
<1> QED
  BY InitSafe, <1>1, PTL DEF Spec

\* leader_ready is announced (configure_app_leader) only on a synced database,
\* for any number of units and commands and any faults but a replaced database
\* and a lease lost in the middle of a hook; lost during the db-sync it may be.
THEOREM AnnouncedOnlySynced ==
    ASSUME StableFaults
    PROVE  Spec => []AnnouncedMeansSynced
<1>1. IInv => AnnouncedMeansSynced
  BY DEF IInv
<1> QED
  BY Inductive, <1>1, PTL

\* A recorded db-sync label (run_once_per_unit) never stands for a sync that
\* no unit has completed.
THEOREM LabelOnlySynced ==
    ASSUME StableFaults
    PROVE  Spec => []LabelMeansSynced
<1>1. IInv => LabelMeansSynced
  BY DEF IInv, UnitSafe, LabelMeansSynced
<1> QED
  BY Inductive, <1>1, PTL

\* Services only run (init_container_services) on a synced database.
THEOREM ServingOnlySynced ==
    ASSUME StableFaults
    PROVE  Spec => []ServingMeansSynced
<1>1. IInv => ServingMeansSynced
  BY DEF IInv, UnitSafe, ServingMeansSynced
<1> QED
  BY Inductive, <1>1, PTL

\* Nothing is announced, skipped or served before the sync, also while a former
\* leader whose lease ran out during its db-sync migrates beside the new one.
THEOREM SyncComesFirst ==
    ASSUME StableFaults
    PROVE  Spec => []SyncedFirst
BY AnnouncedOnlySynced, LabelOnlySynced, ServingOnlySynced, PTL DEF SyncedFirst

-----------------------------------------------------------------------------
(* What an active unit stands for, whatever the faults.                    *)

\* The bootstrap status is active only in a unit that has been bootstrapped,
\* and with the announcement made, or in the hands of the hook that has to
\* flush it; where that failed the hook is due again.
Honest(u) ==
    /\ saved[u].boot = "active" =>
          /\ saved[u].bootstrapped
          /\ pc[u] = "idle" => leaderReady \/ due[u]
          /\ pc[u] = "flush" => leaderReady \/ announce[u]
    /\ pc[u] \notin {"idle", "flush"} /\ mem[u].boot = "active"
           => mem[u].bootstrapped /\ (leaderReady \/ (pc[u] = "commit" /\ announce[u]))
    /\ pc[u] = "app" => mem[u].bootstrapped

AInv == TypeOK /\ \A u \in Units : Honest(u)

LEMMA OwnStepHonest ==
    ASSUME AInv, NEW u \in Units, HookStep(u)
    PROVE  Honest(u)'
<1> USE DEF AInv, Honest
<1>0. TypeOK /\ TypeOK'
  BY HookStepType
<1>1. CASE StartHook(u)
  BY <1>0, <1>1 DEF StartHook, GoTo, TypeOK, Stored, appVars, podVars
<1>2. CASE CheckLeaderReady(u) \/ ConfigureContainers(u)
  BY <1>0, <1>2
     DEF CheckLeaderReady, ConfigureContainers, GoTo, Bail, TypeOK, Stored,
         appVars, podVars
<1>3. CASE CheckRelationHandlersReady(u) \/ InitContainerServices(u)
  BY <1>0, <1>3
     DEF CheckRelationHandlersReady, InitContainerServices, GoTo, Bail, TypeOK,
         Stored, appVars
<1>4. CASE RunDbSync(u)
  BY <1>0, <1>4 DEF RunDbSync, GoTo, TypeOK, Stored, appVars, podVars
<1>5. CASE SyncCommand(u)
  BY <1>0, <1>5 DEF SyncCommand, GoTo, TypeOK, Stored, podVars
<1>6. CASE SyncFails(u) \/ StartFails(u)
  BY <1>0, <1>6
     DEF SyncFails, StartFails, GoTo, Bail, TypeOK, Stored, appVars, podVars
<1>7. CASE CheckPebbleHandlersReady(u)
  <2>1. CASE pebble[u] /\ running[u]
    <3>1. /\ mem'[u] = [mem[u] EXCEPT !.bootstrapped = TRUE] /\ pc'[u] = "app"
          /\ UNCHANGED <<leaderReady, saved, announce, due>>
      BY <1>0, <1>7, <2>1
         DEF CheckPebbleHandlersReady, GoTo, Bail, TypeOK, appVars, podVars
    <3>2. mem[u] \in Stored
      BY <1>0 DEF TypeOK
    <3> QED
      BY <1>7, <3>1, <3>2 DEF CheckPebbleHandlersReady, Stored
  <2>2. CASE ~ (pebble[u] /\ running[u])
    BY <1>0, <1>7, <2>2
       DEF CheckPebbleHandlersReady, GoTo, Bail, TypeOK, Stored, appVars, podVars
  <2> QED
    BY <2>1, <2>2
<1>8. CASE ConfigureApp(u)
  BY <1>0, <1>8 DEF ConfigureApp, GoTo, Bail, TypeOK, Stored, appVars, podVars
<1>9. CASE Commit(u)
  BY <1>0, <1>9 DEF Commit, GoTo, TypeOK, Stored, appVars
<1>10. CASE Flush(u) \/ FlushRefused(u)
  BY <1>0, <1>10 DEF Flush, FlushRefused, GoTo, TypeOK, Stored, appVars, podVars
<1> QED
  BY <1>1, <1>2, <1>3, <1>4, <1>5, <1>6, <1>7, <1>8, <1>9, <1>10 DEF HookStep

\* Another unit's hook leaves what this unit knows, and never takes the
\* announcement back.
LEMMA HookStepHonest ==
    ASSUME AInv, NEW u \in Units, HookStep(u)
    PROVE  AInv'
<1>1. TypeOK /\ TypeOK'
  BY HookStepType DEF AInv
<1>2. ASSUME NEW v \in Units PROVE Honest(v)'
  <2>1. CASE v = u
    BY <2>1, OwnStepHonest
  <2>2. CASE v # u
    <3>1. /\ leaderReady => leaderReady'
          /\ pc'[v] = pc[v] /\ announce'[v] = announce[v]
          /\ mem'[v] = mem[v] /\ saved'[v] = saved[v]
      BY <1>1, <2>2, HookStepLocal
    <3>2. due[v] => due'[v]
      BY <1>1, <2>2, HookStepWakes
    <3> QED
      BY <3>1, <3>2 DEF AInv, Honest
  <2> QED
    BY <2>1, <2>2
<1> QED
  BY <1>1, <1>2 DEF AInv

LEMMA EnvironmentHonest ==
    ASSUME AInv, Environment
    PROVE  AInv'
<1>1. TypeOK /\ TypeOK'
  BY EnvironmentType DEF AInv
<1>2. ASSUME NEW v \in Units PROVE Honest(v)'
  <2>0. Honest(v)
    BY DEF AInv
  <2>1. ASSUME NEW u \in Units, HookKilled(u) PROVE Honest(v)'
    BY <1>1, <2>0, <2>1 DEF HookKilled, GoTo, TypeOK, Honest, appVars, podVars
  <2>2. ASSUME NEW u \in Units, PodReplaced(u) PROVE Honest(v)'
    BY <1>1, <2>0, <2>2 DEF PodReplaced, GoTo, TypeOK, Fresh, Honest, appVars
  <2>3. ASSUME NEW u \in Units,
               Elect(u) \/ LoseLease(u) \/ PebbleReady(u)
                 \/ ContainerRestarts(u) \/ ConfigChanged(u)
        PROVE  Honest(v)'
    BY <1>1, <2>0, <2>3
       DEF TypeOK, Elect, LoseLease, PebbleReady, ContainerRestarts, ConfigChanged,
           Honest, appVars, podVars, hookVars
  <2>4. CASE RelationsReady \/ RelationGone
    BY <1>1, <2>0, <2>4 DEF RelationsReady, RelationGone, TypeOK, Honest, podVars, hookVars
  <2> QED
    BY <2>1, <2>2, <2>3, <2>4 DEF Environment, UnitEvent
<1> QED
  BY <1>1, <1>2 DEF AInv

\* A unit that has stored both its statuses as active is bootstrapped, for any
\* faults, and its application has announced itself or a hook runs or is due
\* that takes the claim back: also when the lease is lost, or the hook dies,
\* between the commit of the StoredState and the flush of leader_ready.
THEOREM ActiveMeansBootstrappedHolds == Spec => []ActiveMeansBootstrapped
<1>1. Init => AInv
  BY InitType DEF Init, AInv, Honest, Fresh
<1>2. AInv /\ [Next]_vars => AInv'
  <2> SUFFICES ASSUME AInv, [Next]_vars PROVE AInv'
    OBVIOUS
  <2>1. CASE UNCHANGED vars
    BY <2>1 DEF vars, appVars, podVars, hookVars, AInv, TypeOK, Honest
  <2> QED
    BY <2>1, HookStepHonest, EnvironmentHonest DEF Next
<1>3. AInv => ActiveMeansBootstrapped
  BY DEF AInv, TypeOK, Honest, ActiveMeansBootstrapped
<1> QED
  BY <1>1, <1>2, <1>3, PTL DEF Spec

-----------------------------------------------------------------------------
(* Nobody sleeps through the announcement, whatever the faults.            *)

\* Something is missing that comes with an event, or the unit serves already,
\* or its event waits.
Excused(u) ==
    ~ leaderReady \/ ~ relReady \/ ~ pebble[u] \/ running[u] \/ due[u]

\* A hook that gives up, or has, was excused, unless a service or the sync
\* failed.  One that announces has seen its own services run: its flush is
\* the one change of leader_ready that does not wake the unit itself.
Awake(u) ==
    /\ pc[u] = "idle" => Excused(u) \/ saved[u].status = "blocked"
    /\ pc[u] = "commit" => Excused(u) \/ mem[u].status = "blocked"
    /\ pc[u] = "flush" => Excused(u) \/ saved[u].status = "blocked"
    /\ pc[u] \notin {"idle", "commit", "flush"} => ~ announce[u]
    /\ pc[u] \in {"services", "app"} \/ (pc[u] \in {"commit", "flush"} /\ announce[u])
           => ~ pebble[u] \/ running[u] \/ due[u]

WInv == TypeOK /\ \A u \in Units : Awake(u)

LEMMA OwnStepAwake ==
    ASSUME WInv, NEW u \in Units, HookStep(u)
    PROVE  Awake(u)'
<1> USE DEF WInv, Awake, Excused
<1>0. TypeOK /\ TypeOK'
  BY HookStepType
<1>1. CASE StartHook(u)
  BY <1>0, <1>1 DEF StartHook, GoTo, TypeOK, appVars, podVars
<1>2. CASE CheckLeaderReady(u) \/ ConfigureContainers(u)
  BY <1>0, <1>2
     DEF CheckLeaderReady, ConfigureContainers, GoTo, Bail, TypeOK, appVars, podVars
<1>3. CASE CheckRelationHandlersReady(u)
  BY <1>0, <1>3 DEF CheckRelationHandlersReady, GoTo, Bail, TypeOK, appVars
<1>4. CASE InitContainerServices(u)
  BY <1>0, <1>4 DEF InitContainerServices, GoTo, Bail, TypeOK, appVars
<1>5. CASE RunDbSync(u)
  BY <1>0, <1>5 DEF RunDbSync, GoTo, TypeOK, appVars, podVars
<1>6. CASE SyncCommand(u)
  BY <1>0, <1>6 DEF SyncCommand, GoTo, TypeOK, podVars
<1>7. CASE SyncFails(u) \/ StartFails(u)
  BY <1>0, <1>7
     DEF SyncFails, StartFails, GoTo, Bail, TypeOK, Stored, appVars, podVars
<1>8. CASE CheckPebbleHandlersReady(u)
  BY <1>0, <1>8 DEF CheckPebbleHandlersReady, GoTo, Bail, TypeOK, appVars, podVars
<1>9. CASE ConfigureApp(u)
  BY <1>0, <1>9 DEF ConfigureApp, GoTo, Bail, TypeOK, appVars, podVars
<1>10. CASE Commit(u)
  BY <1>0, <1>10 DEF Commit, GoTo, TypeOK, Stored, appVars
<1>11. CASE Flush(u) \/ FlushRefused(u)
  BY <1>0, <1>11 DEF Flush, FlushRefused, GoTo, TypeOK, appVars, podVars
<1> QED
  BY <1>1, <1>2, <1>3, <1>4, <1>5, <1>6, <1>7, <1>8, <1>9, <1>10, <1>11
     DEF HookStep

LEMMA HookStepAwake ==
    ASSUME WInv, NEW u \in Units, HookStep(u)
    PROVE  WInv'
<1>1. TypeOK /\ TypeOK'
  BY HookStepType DEF WInv
<1>2. ASSUME NEW v \in Units PROVE Awake(v)'
  <2>1. CASE v = u
    BY <2>1, OwnStepAwake
  <2>2. CASE v # u
    <3>1. /\ pc'[v] = pc[v] /\ announce'[v] = announce[v] /\ mem'[v] = mem[v]
          /\ saved'[v] = saved[v] /\ running'[v] = running[v]
      BY <1>1, <2>2, HookStepLocal
    <3>2. /\ relReady' = relReady /\ pebble'[v] = pebble[v]
          /\ due[v] => due'[v]
          /\ leaderReady' # leaderReady => due'[v]
      BY <1>1, <2>2, HookStepWakes
    <3>3. Awake(v)
      BY DEF WInv
    <3> QED
      BY <1>1, <3>1, <3>2, <3>3 DEF Awake, Excused, TypeOK
  <2> QED
    BY <2>1, <2>2
<1> QED
  BY <1>1, <1>2 DEF WInv

LEMMA EnvironmentAwake ==
    ASSUME WInv, Environment
    PROVE  WInv'
<1>1. TypeOK /\ TypeOK'
  BY EnvironmentType DEF WInv
<1>2. ASSUME NEW v \in Units PROVE Awake(v)'
  <2>0. Awake(v)
    BY DEF WInv
  <2> USE DEF Awake, Excused
  <2>1. ASSUME NEW u \in Units, HookKilled(u) PROVE Awake(v)'
    BY <1>1, <2>0, <2>1 DEF HookKilled, GoTo, TypeOK, appVars, podVars
  <2>2. ASSUME NEW u \in Units, PodReplaced(u) PROVE Awake(v)'
    BY <1>1, <2>0, <2>2 DEF PodReplaced, GoTo, TypeOK, appVars
  <2>3. ASSUME NEW u \in Units, Elect(u) \/ LoseLease(u) PROVE Awake(v)'
    BY <2>0, <2>3 DEF Elect, LoseLease, podVars, hookVars
  <2>4. ASSUME NEW u \in Units, PebbleReady(u) PROVE Awake(v)'
    BY <1>1, <2>0, <2>4 DEF PebbleReady, TypeOK, appVars, hookVars
  <2>5. ASSUME NEW u \in Units, ContainerRestarts(u) PROVE Awake(v)'
    BY <1>1, <2>0, <2>5 DEF ContainerRestarts, TypeOK, appVars, hookVars
  <2>6. ASSUME NEW u \in Units, ConfigChanged(u) PROVE Awake(v)'
    BY <1>1, <2>0, <2>6 DEF ConfigChanged, TypeOK, appVars, podVars, hookVars
  <2>7. CASE RelationsReady \/ RelationGone
    BY <1>1, <2>0, <2>7 DEF RelationsReady, RelationGone, TypeOK, podVars, hookVars
  <2> QED
    BY <2>1, <2>2, <2>3, <2>4, <2>5, <2>6, <2>7 DEF Environment, UnitEvent
<1> QED
  BY <1>1, <1>2 DEF WInv

\* No wake-up is lost: with the application announced, the relations ready and
\* the container up, a unit that does not serve has a hook running or due, or
\* is blocked by a service or a sync that failed, for any faults.
THEOREM NoWakeupIsLost == Spec => []NoLostWakeup
<1>1. Init => WInv
  BY InitType DEF Init, WInv, Awake, Excused
<1>2. WInv /\ [Next]_vars => WInv'
  <2> SUFFICES ASSUME WInv, [Next]_vars PROVE WInv'
    OBVIOUS
  <2>1. CASE UNCHANGED vars
    BY <2>1 DEF vars, appVars, podVars, hookVars, WInv, TypeOK, Awake, Excused
  <2> QED
    BY <2>1, HookStepAwake, EnvironmentAwake DEF Next
<1>3. WInv => NoLostWakeup
  BY DEF WInv, TypeOK, Awake, Excused, NoLostWakeup
<1> QED
  BY <1>1, <1>2, <1>3, PTL DEF Spec

-----------------------------------------------------------------------------
(* The units implement AppReadiness.                                       *)

USE DEF Promise!Complete

LEMMA InitRefines == Init => Promise!Init
BY DEF Init, Promise!Init

\* A step that leaves the schema, the announcement and the services alone is
\* a stutter of the application.
LEMMA Stutters ==
    ASSUME UNCHANGED <<schema, leaderReady, running>>
    PROVE  UNCHANGED Promise!vars
BY DEF Promise!vars

\* Stopping the services of a unit, if they ran, is Stop.
LEMMA Stops ==
    ASSUME TypeOK, NEW u \in Units, UNCHANGED <<schema, leaderReady>>,
           NEW b \in BOOLEAN, running' = [running EXCEPT ![u] = b], b => running[u]
    PROVE  [Promise!Next]_Promise!vars
<1>1. CASE b = running[u]
  BY <1>1, Stutters DEF TypeOK
<1>2. CASE b # running[u]
  <2>1. {v \in Units : running'[v]} = {v \in Units : running[v]} \ {u}
    BY <1>2 DEF TypeOK
  <2>2. Promise!Stop(u)
    BY <2>1 DEF Promise!Stop
  <2> QED
    BY <2>2 DEF Promise!Next
<1> QED
  BY <1>1, <1>2

LEMMA HookStepRefines ==
    ASSUME IInv, NEW u \in Units, HookStep(u)
    PROVE  [Promise!Next]_Promise!vars
<1> USE CmdsAssumption
<1>0. TypeOK /\ UnitSafe(u)
  BY DEF IInv
<1>1. CASE StartHook(u) \/ CheckLeaderReady(u) \/ ConfigureContainers(u)
  BY <1>1, Stutters
     DEF StartHook, CheckLeaderReady, ConfigureContainers, appVars, podVars
<1>2. CASE RunDbSync(u) \/ SyncFails(u) \/ StartFails(u)
  BY <1>2, Stutters DEF RunDbSync, SyncFails, StartFails, appVars, podVars
<1>3. CASE CheckPebbleHandlersReady(u) \/ ConfigureApp(u) \/ Commit(u) \/ FlushRefused(u)
  BY <1>3, Stutters
     DEF CheckPebbleHandlersReady, ConfigureApp, Commit, FlushRefused, appVars, podVars
<1>4. CASE CheckRelationHandlersReady(u)
  <2>1. CASE relReady
    BY <1>4, <2>1, Stutters DEF CheckRelationHandlersReady, appVars
  <2>2. CASE ~ relReady
    <3> DEFINE b == running[u] /\ ~ pebble[u]
    <3>1. b \in BOOLEAN /\ (b => running[u])
      BY <1>0 DEF TypeOK
    <3>2. UNCHANGED <<schema, leaderReady>> /\ running' = [running EXCEPT ![u] = b]
      BY <1>4, <2>2 DEF CheckRelationHandlersReady, appVars
    <3> HIDE DEF b
    <3> QED
      BY <1>0, <3>1, <3>2, Stops
  <2> QED
    BY <2>1, <2>2
<1>5. CASE SyncCommand(u)
  <2>1. cmd[u] \in 1 .. NumCmds /\ 1 .. (cmd[u] - 1) \subseteq schema
    BY <1>0, <1>5 DEF SyncCommand, UnitSafe, HookKnows, TypeOK
  <2>2. Promise!Apply(cmd[u])
    BY <1>5, <2>1 DEF SyncCommand, Promise!Apply, podVars
  <2> QED
    BY <2>1, <2>2 DEF Promise!Next
<1>6. CASE InitContainerServices(u)
  <2>1. CASE pebble[u]
    <3>1. {v \in Units : running'[v]} = {v \in Units : running[v]} \cup {u}
      BY <1>0, <1>6, <2>1 DEF InitContainerServices, TypeOK
    <3>2. schema = 1 .. NumCmds /\ UNCHANGED <<schema, leaderReady>>
      BY <1>0, <1>6 DEF InitContainerServices, UnitSafe, HookKnows, Synced, appVars
    <3>3. Promise!Serve(u)
      BY <3>1, <3>2 DEF Promise!Serve
    <3> QED
      BY <3>3 DEF Promise!Next
  <2>2. CASE ~ pebble[u]
    BY <1>6, <2>2, Stutters DEF InitContainerServices, appVars
  <2> QED
    BY <2>1, <2>2
<1>7. CASE Flush(u)
  <2>1. CASE announce[u]
    <3>1. Synced
      BY <1>0, <1>7, <2>1 DEF Flush, UnitSafe, HookKnows
    <3>2. Promise!Announce
      BY <1>7, <2>1, <3>1 DEF Flush, Promise!Announce, Synced, podVars
    <3> QED
      BY <3>2 DEF Promise!Next
  <2>2. CASE ~ announce[u]
    BY <1>0, <1>7, <2>2, Stutters DEF Flush, TypeOK, podVars
  <2> QED
    BY <2>1, <2>2
<1> QED
  BY <1>1, <1>2, <1>3, <1>4, <1>5, <1>6, <1>7 DEF HookStep

LEMMA EnvironmentRefines ==
    ASSUME StableFaults, IInv, Environment
    PROVE  [Promise!Next]_Promise!vars
<1>1. ASSUME NEW u \in Units,
             Elect(u) \/ LoseLease(u) \/ HookKilled(u) \/ PebbleReady(u) \/ ConfigChanged(u)
      PROVE  [Promise!Next]_Promise!vars
  BY <1>1, Stutters
     DEF Elect, LoseLease, HookKilled, PebbleReady, ConfigChanged, appVars, podVars
<1>2. ASSUME NEW u \in Units, PodReplaced(u) \/ ContainerRestarts(u)
      PROVE  [Promise!Next]_Promise!vars
  BY <1>2, Stops DEF PodReplaced, ContainerRestarts, appVars, IInv
<1>3. CASE RelationsReady \/ RelationGone
  BY <1>3, Stutters DEF RelationsReady, RelationGone, Fault, StableFaults, podVars
<1> QED
  BY <1>1, <1>2, <1>3 DEF Environment, UnitEvent

\* The bootstrap of the units implements the abstract readiness of the
\* application: every step builds the schema in order, announces it once
\* complete, starts or stops services, or changes nothing of these.
THEOREM Implementation ==
    ASSUME StableFaults
    PROVE  Spec => ImplementsPromise
<1>1. IInv /\ [Next]_vars => [Promise!Next]_Promise!vars
  <2> SUFFICES ASSUME IInv, [Next]_vars PROVE [Promise!Next]_Promise!vars
    OBVIOUS
  <2>1. CASE UNCHANGED vars
    BY <2>1, Stutters DEF vars, appVars, podVars
  <2>2. CASE Environment
    BY <2>2, EnvironmentRefines
  <2>3. ASSUME NEW u \in Units, HookStep(u) PROVE [Promise!Next]_Promise!vars
    BY <2>3, HookStepRefines
  <2> QED
    BY <2>1, <2>2, <2>3 DEF Next
<1> QED
  BY InitRefines, Inductive, <1>1, PTL DEF Spec, ImplementsPromise, Promise!Spec

=============================================================================
