\* Exchanges over identity-ops that rotations wait for ("ops") and do not wait
\* for ("replaced"), keys, service users, tempest.
CONSTANTS
    Parts = {"ops", "replaced", "keys", "accounts", "requests"}
    Units = {"heat/0", "heat/1"}
    MaxVersion = 4
    Overlap = FALSE
    Faults = {"kill", "fail", "again", "elect"}
    MaxFaults = 3
    KUnits = {"keystone/0", "keystone/1", "keystone/2"}
    MaxActive = 3
    MaxKeys = 5
    KPlans = {{"elect", "event"}, {"kill", "event", "elect"}, {"kill", "overlap"}, {"lease"}}
    MaxKFaults = 2
    Apps = {"heat", "heat2", "heat-cfn"}
    Dashed = {"heat-cfn"}
    NameExtends <- MCNames
    Clients <- MCClients
    Requesters = {"heat"}
    MaxUsers = 3
    SvcPlans = {{"together"}, {"together", "similar"}, {"kill"}, {"elect"}}
    MaxSvcFaults = 1
    CredUsers = {"nova"}
    MaxPasswords = 3
    TPlans = {{"kill", "broken"}, {"fail", "broken"}, {"again"}, {"init", "broken"}, {"pod", "options"}, {"join", "broken"}}
    MaxTFaults = 2
SPECIFICATION FairSpecs
INVARIANTS
    KeystoneTypes
    OpsConfigUsable
    KeysAgree
    ClientsCanLogIn
    AskedIsServed
    ReadyIsUsable
    SetupStands
    CredentialsWork
PROPERTIES
    UsersAccountedFor
    RequestsAnswered
    TokensSurvive
    RetiredUsersGo
    TempestReadyInTheEnd
\* The numbers of rotations and of relations are bounded.
CHECK_DEADLOCK FALSE
