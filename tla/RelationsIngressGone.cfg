\* The operator removes the optional one of two ingresses.
CONSTANTS
    Databases = {}
    Ingresses = {"ingress-internal", "ingress-public"}
    Others = {}
    Mandatory = {"ingress-internal"}
    MaxChanges = 1
SPECIFICATION Spec
INVARIANT ServesWhenReady
\* The unit may come to rest for good.
CHECK_DEADLOCK FALSE
