\* One application, with a dash in its name.
CONSTANTS
    Parts = {"accounts"}
    Units = {"heat/0"}
    MaxVersion = 1
    Overlap = FALSE
    Faults = {}
    MaxFaults = 0
    KUnits = {"keystone/0"}
    MaxActive = 3
    MaxKeys = 2
    KPlans = {{}}
    MaxKFaults = 0
    Apps = {"heat-cfn"}
    Dashed = {"heat-cfn"}
    NameExtends = {}
    Clients <- MCDashedClients
    Requesters = {}
    MaxUsers = 2
    SvcPlans = {{}}
    MaxSvcFaults = 0
    CredUsers = {}
    MaxPasswords = 0
    TPlans = {{}}
    MaxTFaults = 0
SPECIFICATION MCSpec
PROPERTY RotationsTakeEffect
\* The number of rotations is bounded.
CHECK_DEADLOCK FALSE
