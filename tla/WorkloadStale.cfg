\* Two containers, one of which restarts at the wrong moment.
CONSTANTS
    NumContainers = 2
    MaxVersion = 2
    Faults = {"restart"}
    MaxFaults = 1
SPECIFICATION MCSpec
INVARIANT ActiveRunsCurrent
\* The unit may come to rest for good.
CHECK_DEADLOCK FALSE
