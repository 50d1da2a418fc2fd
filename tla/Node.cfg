SPECIFICATION MCSpec
CONSTANTS
    Calls = {call}
    Batches = {call}
    Subs = {sub}
    MaxConns = 2
    MaxNotes = 1
    None = None
    UdpCalls = {u1, u2}
    Remotes = {r1}
    RespTimeout = 1
    K = 2
    MaxLate = 1
    MaxJumps = 1
    Codecs = {C1}
    Messages <- MCMessages
    MaxReads = 2
    MaxSubNotes = 1
    WireCap = 2
    MaxEvents = 2
    Protos <- MCProtos
    Offers <- MCOffers
    Closers = {G1, G2, G3}
    PipeWriters = {1}
    MaxMsgs = 2
    MaxSize = 2
    Kinds = {k1, k2}
    Ports = {p1, p2}
    Path = ipc
    Waiters = {w1}
    MaxFuncs = 2
    MaxRuns = 2
    Off = Off
INVARIANTS
    RpcSound
    
    LinkSound
    RepliesSound
PROPERTIES
    AnswersCome
    StopEndsAll
    RunEnds
CHECK_DEADLOCK FALSE
