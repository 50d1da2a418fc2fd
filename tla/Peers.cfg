SPECIFICATION MCSpec
CONSTANTS
    H1 = H1
    H2 = H2
    C1 = C1
    C2 = C2
    C3 = C3
    Id1 = Id1
    Id2 = Id2
    Conns = {C1, C2, C3}
    Ids = {Id1, Id2}
    IdOf <- TwoNodes
    Txs = {t1, t2}
    PackSize = 1
    None = None
    PeerConns = {C1, C2}
    PeerIds = {Id1}
    PeerIdOf <- OneNode
    NoPeer = NoPeer
    MaxQueued = 2
INVARIANTS
    PeersSound
    NothingForgotten
PROPERTIES
    MessagesHandled
    DroppedIsRemoved
    Relaying
CHECK_DEADLOCK FALSE
