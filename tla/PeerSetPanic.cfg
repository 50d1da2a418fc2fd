SPECIFICATION PeerSpec
CONSTANTS
    c1 = c1
    c2 = c2
    a = a
    PeerConns = {c1}
    PeerIds = {a}
    PeerIdOf <- OneNode
    NoPeer = NoPeer
    MaxQueued = 1
INVARIANTS NoRemovalPanic
CHECK_DEADLOCK FALSE
