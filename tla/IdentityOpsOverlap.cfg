\* A rotation between the answer of keystone and its handler in the client.
CONSTANTS
    Units = {"heat/0"}
    MaxVersion = 4
    Overlap = TRUE
    Faults = {}
    MaxFaults = 0
SPECIFICATION Spec
INVARIANT ConfigUsable
\* The number of rotations is bounded.
CHECK_DEADLOCK FALSE
