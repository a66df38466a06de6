\* Leadership may move in the middle of a hook.
CONSTANTS
    u1 = u1
    u2 = u2
    Units = {u1, u2}
    NoUnit = NoUnit
    NumCmds = 2
    Faults = {"lease"}
    MaxFaults = 2
SPECIFICATION MCSpec
INVARIANT SkippedSyncHasRun
CHECK_DEADLOCK FALSE
