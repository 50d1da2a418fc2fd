SPECIFICATION MCSpec
CONSTANTS
    Nodes = {a, b}
    Seeds = {a}
    Lookups = {l}
    Alpha = 1
    BucketSize = 1
    MaxFailures = 1
    MaxLive = 2
    MaxGen = 2
    MaxEvents = 3
    None = None
    O1 = O1
    O2 = O2
    Small = Small
    Big = Big
    T1 = T1
    T2 = T2
    N1 = N1
    N2 = N2
    N3 = N3
    X1 = X1
    X2 = X2
INVARIANTS
    QueriesEnd
    TopicsSound
    SearchSound
    RecordsSound
PROPERTIES
    TicketsInOrder
    TicketsUsed
CHECK_DEADLOCK FALSE
