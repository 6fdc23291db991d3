SPECIFICATION Spec
CONSTANTS
    Events = {e1, e2, e3}
    Clients = {c1, c2}
    Lease = 1
    Limit = 2
    Validity = {TRUE, FALSE}
    MaxResets = 2
SYMMETRY QueueSymmetry
INVARIANTS
    TypeOK
    LeaseExclusiveUntilReset
PROPERTIES
    SuccessFinal
    ErrorNeedsReset
