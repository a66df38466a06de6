CONSTANTS
    ClusterUnits = {"c0", "c1", "c2"}
    Seed = "c0"
    FaultKinds = {"kill", "error", "roles", "force", "elect", "leaderleaves", "config"}
    Plans <- MCPlans
    MaxRemovals = 1
    MaxChanges = 2
    PUnits = {"p0", "p1"}
    OfferPlans <- MCOfferPlans
    MaxValue = 2
    MaxOFaults = 3
    OvnUnits = {"o0", "o1", "o2"}
    OvnPlans <- MCOvnPlans
    MaxProbe = 2
    MaxOvnFaults = 2
    CharmPlans <- MCCharmPlans
    MaxConfig = 2
    MaxCharmFaults = 2
    HvPlans <- MCHvPlans
    HvOptions <- MCHvOptions
    MaxOffer = 2
    Nodes = {0, 1}
    CoresOf <- MCCoresOf
    VolumePlans <- MCVolumePlans
    Drivers = {"d1", "d2"}
    MaxOption = 2
SPECIFICATION MCSpec
INVARIANTS
    OperatorTypes
    OneCluster
    JoinedIsMember
    MembersAreUnits
    OffersArrive
    OvnClusterForms
    ProgramsConverge
    ServicesRunInOrder
    SnapSettled
    BackendsServed
\* The units may come to rest.
CHECK_DEADLOCK FALSE
