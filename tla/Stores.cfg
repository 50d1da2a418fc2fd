SPECIFICATION MCSpec
CONSTANTS
    Producers = {g1, g2}
    Priorities = {1, 2}
    MaxEnqueues = 3
    MaxRestarts = 1
    ClockRange = 2
    ClockRunsAhead = TRUE
    A1 = A1
    A2 = A2
    Lan = Lan
    None = None
    MaxEvents = 1
INVARIANTS
    TypeOK
    KeysFollowTickets
    NothingLost
    NodesSound
PROPERTIES
    ImplementsFifo
    EveryoneReturns
CHECK_DEADLOCK FALSE
