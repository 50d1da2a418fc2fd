SPECIFICATION MCSpec
CONSTANTS
    Hashes = {g, b1, b2, b3}
    Genesis = g
    NoBlock = noBlock
    Handlers = {h1, h2}
    Tools = {t1}
    NoHolder = noHolder
    MaxHeight = 3
    MaxCrashes = 2
    MaxPanics = 1
    W1 = W1
    W2 = W2
    NoWallet = NoWallet
    N1 = N1
    N2 = N2
    N3 = N3
    Nodes = {N1, N2, N3}
    Peered = {{N1, N2}, {N1, N3}, {N2, N3}}
    Origin = N1
    Txs = {x1, x2}
    MaxQueuedTxs = 1
    MaxKnownTxs = 4
    D1 = D1
    D2 = D2
INVARIANTS
    TypeOK
    SingleChain
    WalkedFromTip
    HandleIsFresh
    ChainstateCurrent
    CacheSound
    SpendsSound
    GossipSound
    AlgorithmsRight
PROPERTIES
    TipExtends
CHECK_DEADLOCK FALSE
