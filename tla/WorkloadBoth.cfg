\* Two containers and one, under every kind of fault: hooks that die, containers
\* that restart, calls and starts that fail, relations that go, failing checks.
CONSTANTS
    NumContainers = 2
    MaxVersion = 2
    Faults = {"kill", "restart", "start", "call", "relation", "check"}
    MaxFaults = 3
SPECIFICATION BothSpec
INVARIANTS
    NothingRunsWithoutRelations
    ActiveRunsCurrentOrForgot
PROPERTIES
    OneBlockedIsTransient
    EventuallyCurrent
\* The unit may come to rest for good.
CHECK_DEADLOCK FALSE
