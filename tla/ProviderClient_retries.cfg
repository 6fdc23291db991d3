SPECIFICATION FairSpec
CONSTANTS
    c1 = c1
    c2 = c2
    c3 = c3
    m1 = m1
    m2 = m2
    o1 = o1
    o2 = o2
    mkassa = mkassa
    odengi = odengi
    NoQr = NoQr
    NoCall = NoCall
    Calls = {c1, c2, c3}
    OpsOf <- MCOpsOf
    Qrs = {m1, m2, o1, o2}
    Orders = {mkassa, odengi}
    OrderOf <- MCOrderOf
    Odengi = {odengi}
    Invoiced = {mkassa, odengi}
    MaxRetries = 1
INVARIANTS
    TypeOK
    OneQrPerOrder
    UnknownQrsBounded
PROPERTIES
    Promised
    EveryCallEnds
CHECK_DEADLOCK FALSE
