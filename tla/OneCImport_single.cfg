SPECIFICATION FairSpec
CONSTANTS
    Events = {e1, e2}
    Runs = {r1}
    Lease = 1
    Limit = 2
    MaxResets = 1
    NoEvent = NoEvent
INVARIANTS
    TypeOK
    AtMostOneDocument
    ConfirmedHasDocument
PROPERTIES
    FollowsQueue
    Delivers
    EventSettles
