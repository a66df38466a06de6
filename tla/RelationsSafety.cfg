\* A database and an ingress, both mandatory, and an optional relation.
CONSTANTS
    Databases = {"database"}
    Ingresses = {"ingress-internal"}
    Others = {"gnocchi-db"}
    Mandatory = {"database", "ingress-internal"}
    MaxChanges = 2
SPECIFICATION FairSpec
INVARIANTS
    TypeOK
    ServesOnlyRelated
    ServesWhenReady
    ActiveIsHonest
    MissingIsShown
PROPERTY ServesInTheEnd
\* The unit may come to rest for good.
CHECK_DEADLOCK FALSE
