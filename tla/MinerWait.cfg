SPECIFICATION FairSpec
CONSTANTS
    Handlers = {h1, h2}
    NoHandler = NoHandler
    Txs = {t1, t2}
    MaxHeight = 1
    MaxMessages = 3
PROPERTIES WaitEnds
CHECK_DEADLOCK FALSE
