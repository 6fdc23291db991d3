SPECIFICATION Spec
CONSTANTS
    Events = {e1, e2}
    Lease = 1
    Limit = 2
    NoEvent = NoEvent
    Worker = worker
    Validity = {TRUE}
    MaxResets = 1
    Groups = {g1, g2}
    Manual = {e1}
    MaxMisses = 1
    MaxEdits = 0
    MaxCrashes = 1
INVARIANTS
    TypeOK
    OneLineWhileAnswered
    OneVoucherPerGroup
    ConfirmedHasLine
PROPERTY FollowsQueue
