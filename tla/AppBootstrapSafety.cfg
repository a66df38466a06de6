\* Every fault but a lease lost in a hook outside its db-sync and a new database.
CONSTANTS
    u1 = u1
    u2 = u2
    Units = {u1, u2}
    NoUnit = NoUnit
    NumCmds = 2
    Faults = {"kill", "pod", "pebble", "relation", "config", "sync", "start", "elect", "outlast"}
    MaxFaults = 3
SPECIFICATION MCSpec
INVARIANTS
    TypeOK
    SyncedFirst
    NoLostWakeup
PROPERTY ImplementsPromise
\* The application may come to rest: every unit idle, no event due.
CHECK_DEADLOCK FALSE
