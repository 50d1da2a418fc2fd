------------------------------- MODULE Ledger -------------------------------
(***************************************************************************)
(* The coins of one chain: transactions, the blocks that carry them, the   *)
(* chainstate bucket that caches which outputs are unspent (utxo_set.go),  *)
(* the wallets that spend from it (NewUTXOTransaction) and the miner that  *)
(* puts the transactions it is sent into blocks (handleTx).                *)
(*                                                                         *)
(* A transaction is known by its hash.  Hashes are numbers here, because   *)
(* Bolt walks the chainstate in the order of its keys; a new transaction   *)
(* gets any hash that is not taken.  Wallets are honest: a signature made  *)
(* with the data of an earlier transaction verifies against the same data  *)
(* (the check does not ask who owns the output), so VerifyTransaction only *)
(* needs the earlier transactions to be there.  Each command and handler   *)
(* has the database to itself and is one step.                             *)
(***************************************************************************)
EXTENDS Integers, Sequences, FiniteSets, SequencesExt, FiniteSetsExt

CONSTANTS
    Wallets,
    NoWallet,
    Miner,          \* the wallet that is paid for blocks of the mining node
    Subsidy,        \* subsidy
    MaxTxs,         \* bound: transactions there may ever be
    Scenarios       \* bounds: how many transactions there may be, which
                    \* amounts are sent, how often each command is used and
                    \* how often one transaction reaches the miner

\* What the constants must satisfy.
LedgerAssumption ==
    /\ Miner \in Wallets /\ NoWallet \notin Wallets
    /\ Subsidy \in Nat \ {0}
    /\ \A s \in Scenarios :
        /\ s.txs \in 1..MaxTxs
        /\ s.amounts \subseteq Nat \ {0}
        /\ {s.mine, s.send, s.deliver, s.foreign, s.reindex} \subseteq Nat

VARIABLES
    scenario,   \* the bounds of this behaviour
    txs,        \* the transactions, by hash
    chain,      \* the blocks in order; a block is the sequence of its hashes
    cache,      \* chainstate bucket: the outputs kept for each hash
    network,    \* the transactions sent to the network
    mempool,    \* Manager.TxMempool of the mining node
    delivered,  \* how often the miner was sent each transaction
    uses        \* how often each bounded command was used

vars == <<scenario, txs, chain, cache, network, mempool, delivered, uses>>

TxIds == 1..MaxTxs

NoTx == [key |-> NoWallet, vin |-> <<>>, vout |-> <<>>]

Output(value, owner) == [value |-> value, owner |-> owner]

\* NewCoinbaseTX.  IsCoinbase is "no input names a transaction".
NewCoinbaseTX(to) == [key |-> NoWallet, vin |-> <<>>, vout |-> <<Output(Subsidy, to)>>]

Created(T) == {t \in TxIds : T[t].vout # <<>>}

\* FindTransaction finds those.
OnChain == UNION {ToSet(chain[b]) : b \in DOMAIN chain}

Inputs(T, t) == {T[t].vin[i].txid : i \in DOMAIN T[t].vin}

-----------------------------------------------------------------------------
\* Mutant of ApplyTx: a spent entry stays.
ApplyTxKeepsSpent(T, c, t) == [c EXCEPT ![t] = T[t].vout]

\* UTXOSet.Update, one transaction: its outputs are put under its hash, and
\* the entry of every transaction it spends from is deleted as a whole.
ApplyTx(T, c, t) ==
    [u \in TxIds |-> CASE u \in Inputs(T, t) -> <<>>
                       [] u = t -> T[t].vout
                       [] OTHER -> c[u]]

\* UTXOSet.Update.
Update(T, c, block) == FoldLeft(LAMBDA d, t : ApplyTx(T, d, t), c, block)

\* Blockchain.FindUTXO, one transaction: the outputs no later input names
\* are appended to the entry, so they lose their index, and then the
\* transaction's own inputs are noted.
ScanTx(s, t) ==
    LET kept == SelectSeq([i \in DOMAIN txs[t].vout |-> i],
                          LAMBDA i : [txid |-> t, vout |-> i] \notin s.spent)
    IN  [utxo  |-> [s.utxo EXCEPT ![t] = @ \o [k \in DOMAIN kept |-> txs[t].vout[kept[k]]]],
         spent |-> s.spent \cup ToSet(txs[t].vin)]

\* Blockchain.FindUTXO: from the last block to the first, in each block from
\* the first transaction to the last.
FindUTXO ==
    FoldLeft(ScanTx, [utxo |-> [t \in TxIds |-> <<>>], spent |-> {}],
             FlattenSeq(Reverse(chain))).utxo

-----------------------------------------------------------------------------
\* The pending queue file of a wallet.  PendingIn and FindSpendableOutputs
\* both remove the file when they return, so whoever opens it finds it empty.
PendingQueue(w) == {}

\* Mutant of Coins: IsLockedWithKey is not asked.
CoinsOfAnyone(w, keys) ==
    FlattenSeq([t \in TxIds |->
        IF t \in keys THEN [i \in DOMAIN cache[t] |-> [txid |-> t, vout |-> i]] ELSE <<>>])

\* The coins of a wallet in the entries of a set of hashes, in key order.
Coins(w, keys) ==
    LET OfEntry(t) == SelectSeq([i \in DOMAIN cache[t] |-> [txid |-> t, vout |-> i]],
                                LAMBDA c : cache[t][c.vout].owner = w)
    IN  FlattenSeq([t \in TxIds |-> IF t \in keys THEN OfEntry(t) ELSE <<>>])

\* UTXOSet.FindSpendableOutputs: coins in key order until the amount is met.
FindSpendableOutputs(w, amount, keys) ==
    LET Take(s, c) ==
            IF s.acc < amount
            THEN [acc   |-> s.acc + cache[c.txid][c.vout].value,
                  coins |-> Append(s.coins, c)]
            ELSE s
    IN  FoldLeft(Take, [acc |-> 0, coins |-> <<>>], Coins(w, keys))

\* The coins come back in a Go map from hash to indices: the hashes are in
\* any order, the indices of one hash in theirs.
InputOrders(coins) ==
    {FlattenSeq([k \in DOMAIN p |-> SelectSeq(coins, LAMBDA c : c.txid = p[k])]) :
        p \in SetToSeqs({coins[i].txid : i \in DOMAIN coins})}

\* SignTransaction: FindTransaction finds every input's transaction, and it
\* has an output with the input's index; otherwise the command panics.
Signable(vin) ==
    \A i \in DOMAIN vin :
        vin[i].txid \in OnChain /\ vin[i].vout \in DOMAIN txs[vin[i].txid].vout

\* NewUTXOTransaction: the transactions a wallet may build.  None when it
\* has too little or the signing panics.
NewUTXOTransaction(w, to, amount, keys) ==
    LET found == FindSpendableOutputs(w, amount, keys)
        outs  == IF found.acc > amount
                 THEN <<Output(amount, to), Output(found.acc - amount, w)>>
                 ELSE <<Output(amount, to)>>
    IN  IF found.acc < amount THEN {}
        ELSE {[key |-> w, vin |-> vin, vout |-> outs] :
                  vin \in {v \in InputOrders(found.coins) : Signable(v)}}

\* UTXOSet.IsUTXOAmountValid: the entry of the first input alone has to give
\* exactly what the first two outputs pay.
IsUTXOAmountValid(t) ==
    LET tx   == txs[t]
        paid == tx.vout[1].value + (IF Len(tx.vout) > 1 THEN tx.vout[2].value ELSE 0)
    IN  FindSpendableOutputs(tx.key, tx.vout[1].value, {tx.vin[1].txid}).acc = paid

\* VerifyTransaction: an input that is not found is a panic, and signatures are
\* by the key the transaction names; it need not own the coins.
VerifyTransaction(t) == Signable(txs[t].vin)

\* VerifyTx.  VeryfyFromToAddress compares a key with a hash and never fails.
VerifyTx(t) == VerifyTransaction(t) /\ IsUTXOAmountValid(t)

\* VerifyTxTimeLineAndUTXOAmount, of a block with times and rewards in order:
\* the first transaction that is not a coinbase decides.
VerifyTxTimeLineAndUTXOAmount(T, block) ==
    LET spends == SelectSeq(block, LAMBDA t : T[t].vin # <<>>)
    IN  spends # <<>> => IsUTXOAmountValid(spends[1])

-----------------------------------------------------------------------------
\* createblockchain: the genesis block, followed by Reindex.
Init ==
    \E s \in Scenarios, g \in 1..MaxTxs, w \in Wallets :
        /\ scenario = s
        /\ g <= s.txs
        /\ txs = [t \in TxIds |-> IF t = g THEN NewCoinbaseTX(w) ELSE NoTx]
        /\ chain = << <<g>> >>
        /\ cache = [t \in TxIds |-> txs[t].vout]
        /\ network = {}
        /\ mempool = {}
        /\ delivered = [t \in TxIds |-> 0]
        /\ uses = [mine |-> 0, send |-> 0, foreign |-> 0, reindex |-> 0]

\* Bounds the commands.
Use(name) ==
    /\ uses[name] < scenario[name]
    /\ uses' = [uses EXCEPT ![name] = @ + 1]

\* Blockchain.MineBlock and the UTXOSet.Update that follows it everywhere.
MineAndUpdate(T, block) ==
    /\ txs' = T
    /\ chain' = Append(chain, block)
    /\ cache' = Update(T, cache, block)

Fresh == (1..scenario.txs) \ Created(txs)

\* send -mine: the transaction is mined at once, after its coinbase.
SendMine(w, to, amount) ==
    /\ w # to
    /\ Use("mine")
    /\ \E t, cb \in Fresh, tx \in NewUTXOTransaction(w, to, amount, TxIds) :
        /\ t # cb
        /\ MineAndUpdate([txs EXCEPT ![t] = tx, ![cb] = NewCoinbaseTX(w)], <<cb, t>>)
    /\ UNCHANGED <<scenario, network, mempool, delivered>>

\* send: the transaction goes to the peers; the wallet's pending queue is to
\* keep it from spending the same coins meanwhile.
Send(w, to, amount) ==
    /\ w # to
    /\ Use("send")
    /\ \E t \in Fresh, tx \in NewUTXOTransaction(w, to, amount, TxIds \ PendingQueue(w)) :
        /\ txs' = [txs EXCEPT ![t] = tx]
        /\ network' = network \cup {t}
    /\ UNCHANGED <<scenario, chain, cache, mempool, delivered>>

Deliver(t) ==
    /\ t \in network
    /\ delivered[t] < scenario.deliver
    /\ delivered' = [delivered EXCEPT ![t] = @ + 1]

\* handleTx on a mining node: there are too few transactions, or the one that
\* arrived is not valid.
TxPooled(t) ==
    /\ Deliver(t)
    /\ mempool' = mempool \cup {t}
    /\ Cardinality(mempool') < 2 \/ ~VerifyTx(t)
    /\ UNCHANGED <<scenario, txs, chain, cache, network, uses>>

\* handleTx on a mining node: the transaction that arrived is verified, once
\* for every transaction of the mempool, and all of them are mined.
TxMined(t) ==
    LET pool == mempool \cup {t} IN
    /\ Deliver(t)
    /\ Cardinality(pool) >= 2
    /\ VerifyTx(t)
    /\ \E order \in SetToSeqs(pool), cb \in Fresh :
        MineAndUpdate([txs EXCEPT ![cb] = NewCoinbaseTX(Miner)], Append(order, cb))
    /\ mempool' = {}
    /\ UNCHANGED <<scenario, network, uses>>

\* handleBlock: a block of another miner, who has the same chain and followed
\* the same rule.  IsBlockValid checks the amounts of its first transaction.
\* Its transactions leave the mempool.
HandleBlock(pool, w) ==
    /\ pool \subseteq network
    /\ Cardinality(pool) >= 2
    /\ \E t \in pool : VerifyTx(t)
    /\ Use("foreign")
    /\ \E order \in SetToSeqs(pool), cb \in Fresh :
        LET T == [txs EXCEPT ![cb] = NewCoinbaseTX(w)] IN
        /\ VerifyTxTimeLineAndUTXOAmount(T, Append(order, cb))
        /\ MineAndUpdate(T, Append(order, cb))
    /\ mempool' = mempool \ pool
    /\ UNCHANGED <<scenario, network, delivered>>

\* reindexutxo: UTXOSet.Reindex.
Reindex ==
    /\ Use("reindex")
    /\ cache' = FindUTXO
    /\ UNCHANGED <<scenario, txs, chain, network, mempool, delivered>>

Next ==
    \/ \E w, to \in Wallets, a \in scenario.amounts : SendMine(w, to, a)
    \/ \E w, to \in Wallets, a \in scenario.amounts : Send(w, to, a)
    \/ \E t \in TxIds : TxPooled(t)
    \/ \E t \in TxIds : TxMined(t)
    \/ \E pool \in SUBSET network, w \in Wallets : HandleBlock(pool, w)
    \/ Reindex

Spec == Init /\ [][Next]_vars

-----------------------------------------------------------------------------
\* A chainstate entry belongs to a transaction of the chain and holds outputs
\* of that transaction, whatever mix of Update and Reindex has written it and
\* however often a transaction was delivered and mined.
EntriesOnChain ==
    \A t \in TxIds : cache[t] # <<>> =>
        t \in OnChain /\ ToSet(cache[t]) \subseteq ToSet(txs[t].vout)

\* The inputs of the chain, each with the place it stands at.
Spends ==
    UNION {{<<b, i, j>> : i \in {k \in DOMAIN chain[b] : j \in DOMAIN txs[chain[b][k]].vin}} :
              b \in DOMAIN chain, j \in 1..MaxTxs}

CoinAt(s) == txs[chain[s[1]][s[2]]].vin[s[3]]

\* No output is spent twice on the chain.
SpendOnce == \A r, s \in Spends : CoinAt(r) = CoinAt(s) => r = s

\* Every input of the chain names an output its signer owns.
InputsOwned ==
    \A s \in Spends :
        LET c == CoinAt(s) IN txs[c.txid].vout[c.vout].owner = txs[chain[s[1]][s[2]]].key

Value(t) == FoldLeft(LAMBDA v, out : v + out.value, 0, cache[t])

\* The chainstate holds no more money than the blocks have created.
NoInflation == MapThenSumSet(Value, TxIds) <= Subsidy * Len(chain)

\* Coins have only been moved by "send -mine", and reindexutxo was not used.
LocalOnly == uses.send = 0 /\ uses.reindex = 0

\* As long as coins move by "send -mine" alone, nothing is spent twice
\* (FindSpendableOutputs, Update), and wallets spend what is theirs: the index
\* FindSpendableOutputs hands to NewUTXOTransaction is the one the output has,
\* and payment and change add up.
LocalSpends == LocalOnly => SpendOnce /\ InputsOwned /\ NoInflation

\* ... and every entry that Update has left in the chainstate is the one that
\* Reindex would write; Update may only know less (utxo_set.go:212).
UpdateWithinReindex ==
    LocalOnly => \A t \in TxIds : cache[t] # <<>> => cache[t] = FindUTXO[t]

\* No transaction has reached the miner twice or come in a block of another.
NoRedelivery == uses.foreign = 0 /\ \A t \in TxIds : delivered[t] <= 1

\* A transaction that reaches the miner once is mined once at most (handleTx
\* empties the mempool it has mined).
MinedOnce ==
    NoRedelivery =>
        \A b, d \in DOMAIN chain : \A i \in DOMAIN chain[b], j \in DOMAIN chain[d] :
            chain[b][i] = chain[d][j] => b = d /\ i = j

\* Whatever coins FindSpendableOutputs may return can be signed for: their
\* index is one of the transaction, and SignTransaction does not panic there.
CoinsSignable == NoRedelivery => \A w \in Wallets : Signable(Coins(w, TxIds))

\* The chainstate agrees with the chain, and no block repeats a transaction.
CacheSound == EntriesOnChain /\ UpdateWithinReindex /\ MinedOnce

\* Coins are spent by their owner, once, and can be.
SpendsSound == LocalSpends /\ CoinsSignable
=============================================================================
