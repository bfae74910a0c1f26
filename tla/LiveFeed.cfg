SPECIFICATION Spec
CONSTANTS
    Clients = {a1, a2, b, c, d}
    Alice = {a1, a2}
    Admins = {d}
    Followed = b
    Fragile = {b}
    BusClients = {b, c}
    MaxGlobal = 2
    MaxPerUser = 1
    QueueLimit = 2
    AgeLimit = 2
    MaxUnread = 2
    MaxEvents = 3
INVARIANTS LimitsHold OneListener ConnectedAreReached
PROPERTIES ClosesOnlySilent
SYMMETRY Symmetry
CHECK_DEADLOCK FALSE
