------------------------------ MODULE MCChain -------------------------------
(***************************************************************************)
(* The block store, the coins of its chain, the gossip that spreads their  *)
(* transactions and the algorithms blocks, and the network beneath them,   *)
(* are made with, for model checking.  The store knows no transactions,    *)
(* the ledger no crashes and gossip no blocks: part says which of them a   *)
(* behaviour follows.                                                      *)
(***************************************************************************)
EXTENDS Blockchain, TxGossip

CONSTANTS W1, W2, NoWallet, N1, N2, N3, D1, D2

VARIABLES part,
    scenario, txs, chain, cache, network, mempool, delivered, uses,  \* Ledger
    input, result, done,                                             \* ChainAlgorithms
    netInput, netResult, netDone                                     \* NetAlgorithms

Scenario(n, amounts, mine, send, deliver, foreign, reindex) ==
    [txs |-> n, amounts |-> amounts, mine |-> mine, send |-> send,
     deliver |-> deliver, foreign |-> foreign, reindex |-> reindex]

\* send -mine alone; the miner's mempool and a reindex; two deliveries, a
\* second miner and a reindex.
AllScenarios == {Scenario(7, {1, 3}, 3, 0, 0, 0, 0),
                 Scenario(6, {1, 2}, 0, 3, 1, 0, 1),
                 Scenario(6, {1, 2}, 0, 2, 2, 1, 1)}

Coins == INSTANCE Ledger WITH
    Wallets <- {W1, W2}, Miner <- W1, Subsidy <- 2, MaxTxs <- 7, Scenarios <- AllScenarios

Algorithms == INSTANCE ChainAlgorithms WITH
    Data <- {D1, D2}, MaxLeaves <- 6, Byte <- 5, Alphabet <- 3, HashLen <- 3,
    MaxNumber <- 30, MaxNonce <- 2, MaxHash <- 3,
    Delays <- (-11 .. 31) \cup {999, 1000, 1009, 1010, 1100},
    job <- input, MaxDifficulty <- 12, ExpDiffPeriod <- 10, MaxHeight <- 29

NetworkAlgorithms == INSTANCE NetAlgorithms WITH
    ByteBits <- 2, HashLen <- 2, Buckets <- 2, V4Len <- 1, V6Len <- 2, MaxList <- 3,
    job <- netInput, result <- netResult, done <- netDone

ASSUME /\ Coins!LedgerAssumption /\ GossipAssumption
       /\ Algorithms!AlgorithmsAssumption /\ NetworkAlgorithms!NetAssumption

coinVars == <<scenario, txs, chain, cache, network, mempool, delivered, uses>>
jobVars == <<input, result, done>>
netVars == <<netInput, netResult, netDone>>

MCInit ==
    /\ part \in {"store", "coins", "gossip", "algorithms", "network"}
    /\ Init /\ Coins!Init /\ GossipInit
    /\ part # "coins" => /\ scenario = Scenario(7, {1, 3}, 3, 0, 0, 0, 0)
                         /\ chain = << <<1>> >> /\ txs[1].vout[1].owner = W1
    /\ IF part = "algorithms" THEN Algorithms!Init
       ELSE input = Algorithms!Panic /\ result = Algorithms!Panic /\ done = FALSE
    /\ IF part = "network" THEN NetworkAlgorithms!Init
       ELSE netInput = <<>> /\ netResult = <<>> /\ netDone = FALSE

MCNext ==
    \/ part = "store" /\ Next /\ UNCHANGED <<part, coinVars, gossipVars, jobVars, netVars>>
    \/ part = "coins" /\ Coins!Next /\ UNCHANGED <<part, vars, gossipVars, jobVars, netVars>>
    \/ part = "gossip" /\ GossipNext /\ UNCHANGED <<part, vars, coinVars, jobVars, netVars>>
    \/ part = "algorithms" /\ Algorithms!Compute /\ UNCHANGED <<part, vars, coinVars, gossipVars, netVars>>
    \/ part = "network" /\ NetworkAlgorithms!Compute /\ UNCHANGED <<part, vars, coinVars, gossipVars, jobVars>>

MCSpec == MCInit /\ [][MCNext]_<<part, vars, coinVars, gossipVars, jobVars, netVars>>

-----------------------------------------------------------------------------
\* utxo_set.go: the chainstate agrees with the chain, and no block repeats a
\* transaction, however Update and Reindex follow each other.
CacheSound == part = "coins" => Coins!CacheSound

\* transaction.go, cli_send.go: coins are spent by their owner, once, and can be.
SpendsSound == part = "coins" => Coins!SpendsSound

\* Merkle trees, addresses, signatures, proof of work and difficulty
\* (blockchain_go), distances, lists ordered by them and networks (discover,
\* netutil) are computed as their callers need them.
AlgorithmsRight ==
    /\ part = "algorithms" => Algorithms!AlgorithmsRight
    /\ part = "network" => NetworkAlgorithms!NetAlgorithmsRight
=============================================================================
