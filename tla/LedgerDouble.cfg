SPECIFICATION Spec
CONSTANTS
    Wallets = {w1, w2}
    NoWallet = NoWallet
    Miner = w1
    Subsidy = 2
    MaxTxs = 7
    Scenarios <- TwoSends
INVARIANTS
    SpendOnce
CHECK_DEADLOCK FALSE
