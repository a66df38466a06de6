-------------------------- MODULE MCPebbleWorkload --------------------------
(* Small instances of PebbleWorkload for TLC: the one of the configuration  *)
(* and, beside it in the run that checks both, a unit with one container.   *)
EXTENDS PebbleWorkload

VARIABLE unit  \* the instance a behaviour is about

One == INSTANCE PebbleWorkload WITH
         NumContainers <- 1, MaxVersion <- 3,
         Faults <- {"kill", "restart", "start", "call", "relation", "check"},
         MaxFaults <- 3

\* The instance of the configuration alone
MCInit == Init /\ unit = "two"
MCSpec == MCInit /\ [][Next /\ UNCHANGED unit]_<<vars, unit>>

BothInit ==
    \/ unit = "two" /\ Init
    \/ unit = "one" /\ One!Init

BothNext ==
    \/ unit = "two" /\ Next /\ UNCHANGED unit
    \/ unit = "one" /\ One!Next /\ UNCHANGED unit

\* The fairness of PebbleWorkload, for either unit
BothSpec ==
    /\ BothInit /\ [][BothNext]_<<vars, unit>>
    /\ WF_vars(IF unit = "one" THEN One!StartHook ELSE StartHook)
    /\ WF_vars(IF unit = "one" THEN One!ConfigureStep ELSE ConfigureStep)
    /\ \A c \in Containers :
          /\ WF_vars(IF unit = "one" THEN c = 1 /\ One!StartPebbleReady(1)
                                     ELSE StartPebbleReady(c))
          /\ WF_vars(IF unit = "one" THEN c = 1 /\ One!CheckEvent(1)
                                     ELSE CheckEvent(c))
          /\ WF_vars(IF unit = "one" THEN c = 1 /\ One!ContainerStarts(1)
                                     ELSE ContainerStarts(c))
    /\ WF_vars(IF unit = "one" THEN One!RelationsReady ELSE RelationsReady)
    /\ WF_vars(IF unit = "one" THEN One!UpdateStatus ELSE UpdateStatus)

\* BlockedIsTransient of PebbleWorkload (update-status), for one container.
OneBlockedIsTransient == unit = "one" => One!BlockedIsTransient
=============================================================================
