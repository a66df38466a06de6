\* The operator removes the database.
CONSTANTS
    Databases = {"database"}
    Ingresses = {}
    Others = {}
    Mandatory = {"database"}
    MaxChanges = 1
SPECIFICATION Spec
INVARIANT ServesOnlyOnDatabase
\* The unit may come to rest for good.
CHECK_DEADLOCK FALSE
