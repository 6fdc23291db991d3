SPECIFICATION FairSpec
CONSTANTS
    Events = {e1, e2}
    Lease = 1
    Limit = 2
    NoEvent = NoEvent
    Worker = worker
    Validity = {TRUE, FALSE}
    MaxResets = 1
    Groups = {g1}
    Manual = {}
    MaxMisses = 0
    MaxEdits = 1
    MaxCrashes = 1
PROPERTIES
    Delivers
    EventSettles
