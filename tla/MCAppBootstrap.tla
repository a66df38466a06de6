--------------------------- MODULE MCAppBootstrap ---------------------------
(* Small instances of AppBootstrap for TLC.                                *)
EXTENDS AppBootstrap

(* Two more sets of faults, side by side in one run: leadership that moves  *)
(* in the middle of a hook and a database that is replaced; and the faults  *)
(* from which the events of Juju let the charm recover by itself.           *)

VARIABLE world  \* the instance a behaviour is about

Lease == INSTANCE AppBootstrap WITH
           Faults <- {"kill", "pod", "sync", "lease", "db"}, MaxFaults <- 2

Recovery == INSTANCE AppBootstrap WITH
              Faults <- {"kill", "pod", "pebble", "relation"}, MaxFaults <- 3

\* The instance of the configuration alone
MCInit == Init /\ world = "cfg"
MCSpec == MCInit /\ [][Next /\ UNCHANGED world]_<<vars, world>>

WorldsInit == Init /\ world \in {"lease", "recovery"}

WorldsNext ==
    \/ world = "lease" /\ Lease!Next /\ UNCHANGED world
    \/ world = "recovery" /\ Recovery!Next /\ UNCHANGED world

\* The fairness of AppBootstrap, for the faults it recovers from
WorldsSpec ==
    /\ WorldsInit
    /\ [][WorldsNext]_<<vars, world>>
    /\ \A u \in Units :
          /\ WF_vars(world = "recovery" /\ Recovery!HookStep(u))
          /\ WF_vars(world = "recovery" /\ Recovery!PebbleReady(u))
    /\ WF_vars(world = "recovery" /\ \E u \in Units : Recovery!Elect(u))
    /\ WF_vars(world = "recovery" /\ Recovery!RelationsReady)

\* EventuallyAllServe of AppBootstrap (configure_charm), after those faults.
RecoveryEventuallyAllServe == world = "recovery" => Recovery!EventuallyAllServe
=============================================================================
