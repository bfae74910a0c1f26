\* The invariants of the proofs about LiveFeed.
SPECIFICATION Spec
CONSTANTS
    Clients = {a1, a2, b, c, d}
    Alice = {a1, a2}
    Admins = {d}
    Followed = b
    Fragile = {b, c}
    BusClients = {b, c}
    MaxGlobal = 2
    MaxPerUser = 1
    QueueLimit = 2
    AgeLimit = 2
    MaxUnread = 1
    MaxEvents = 3
INVARIANTS TypeOK EnteredInv TasksInv FreshInv BeatInv QueueInv LimitsHold OneListener
    ConnectedAreReached
SYMMETRY Symmetry
CHECK_DEADLOCK FALSE
