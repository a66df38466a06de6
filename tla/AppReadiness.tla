---------------------------- MODULE AppReadiness ----------------------------
(***************************************************************************)
(* What the bootstrap of an application promises, whatever its units go    *)
(* through: the schema is built command by command in the order of         *)
(* db_sync_cmds, the application is announced once and only on a complete  *)
(* schema, and units serve on nothing less.                                *)
(***************************************************************************)
EXTENDS Integers

CONSTANTS Units, NumCmds

VARIABLES
    schema,     \* the db-sync commands applied
    announced,  \* the application has declared itself ready
    serving     \* the units whose services run

vars == <<schema, announced, serving>>

Complete == schema = 1 .. NumCmds

Init ==
    /\ schema = {}
    /\ announced = FALSE
    /\ serving = {}

\* A command is applied, again or for the first time, after those before it.
Apply(c) ==
    /\ 1 .. (c - 1) \subseteq schema
    /\ schema' = schema \cup {c}
    /\ UNCHANGED <<announced, serving>>

Announce ==
    /\ Complete
    /\ announced' = TRUE
    /\ UNCHANGED <<schema, serving>>

Serve(u) ==
    /\ Complete
    /\ serving' = serving \cup {u}
    /\ UNCHANGED <<schema, announced>>

Stop(u) ==
    /\ serving' = serving \ {u}
    /\ UNCHANGED <<schema, announced>>

Next ==
    \/ \E c \in 1 .. NumCmds : Apply(c)
    \/ Announce
    \/ \E u \in Units : Serve(u) \/ Stop(u)

Spec == Init /\ [][Next]_vars
=============================================================================
