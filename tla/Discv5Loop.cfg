SPECIFICATION Spec
CONSTANTS
    Topics = {t}
    Nodes = {x1, x2}
    BucketLen = 1
    Waits = {0, 2}
    KeepTicketConst = 2
    CollectFrequency = 1
    MaxCollectDebt = 1
    RegisterFrequency = 2
    MaxRegisterDebt = 1
    MaxTime = 3
    MaxTopicOps = 3
    MaxLookups = 2
    None = None
INVARIANTS
    LoopGoesOn
CHECK_DEADLOCK FALSE
