\* Leadership that moves in the middle of a hook and a database that is
\* replaced; and the faults from which the charm recovers by itself.
CONSTANTS
    u1 = u1
    u2 = u2
    Units = {u1, u2}
    NoUnit = NoUnit
    NumCmds = 2
    Faults = {}
    MaxFaults = 0
SPECIFICATION WorldsSpec
INVARIANT ActiveMeansBootstrapped
PROPERTY RecoveryEventuallyAllServe
\* The application may come to rest: every unit idle, no event due.
CHECK_DEADLOCK FALSE
