------------------------------- MODULE Miner --------------------------------
(***************************************************************************)
(* The goroutines of a mining node: one handler for each peer, each taking *)
(* the lock of the block database for every message, and the unbuffered    *)
(* channel Manager.BestTd between them.  handleVersion leaves a goroutine  *)
(* behind that offers a height on the channel; handleTx receives one of    *)
(* the offers before it mines, and keeps the lock while it waits.          *)
(*                                                                         *)
(* Peers send versions, transactions and blocks in any order.  Whether a   *)
(* transaction verifies, and whether a block is valid, is left open; a     *)
(* block carries one transaction besides its coinbase.                     *)
(***************************************************************************)
EXTENDS Integers, Sequences, FiniteSets, Bags, SequencesExt

CONSTANTS
    Handlers,     \* one goroutine for each connected peer
    NoHandler,
    Txs,          \* transactions
    MaxHeight,    \* bound: heights
    MaxMessages   \* bound: messages the peers send

\* What the constants must satisfy.
MinerAssumption == NoHandler \notin Handlers /\ MaxHeight \in Nat /\ MaxMessages \in Nat

VARIABLES
    inbox,      \* what each peer has sent and its handler has not read yet
    sent,       \* how many messages the peers have sent
    lock,       \* who has the database open
    pc,         \* where each handler is
    arrived,    \* the transaction each handler is dealing with
    offers,     \* goroutines blocked on BestTd <- height, a bag of heights
    mempool,    \* Manager.TxMempool
    best        \* the height of the node's chain

vars == <<inbox, sent, lock, pc, arrived, offers, mempool, best>>

Heights == 0..MaxHeight

VersionMsg(h) == [type |-> "version", height |-> h]
TxMsg(t) == [type |-> "tx", tx |-> t]
BlockMsg(t) == [type |-> "block", tx |-> t]

Messages == {VersionMsg(h) : h \in Heights} \cup {TxMsg(t) : t \in Txs}
              \cup {BlockMsg(t) : t \in Txs}

NoTx == [none |-> TRUE]

\* The peers have connected: the first message of each is its version.
Init ==
    /\ inbox \in [Handlers -> {<<VersionMsg(h)>> : h \in Heights}]
    /\ sent = 0
    /\ lock = NoHandler
    /\ pc = [h \in Handlers |-> "reading"]
    /\ arrived = [h \in Handlers |-> NoTx]
    /\ offers = EmptyBag
    /\ mempool = {}
    /\ best = 0

\* A peer sends a message.
PeerSends(h, m) ==
    /\ sent < MaxMessages
    /\ sent' = sent + 1
    /\ inbox' = [inbox EXCEPT ![h] = Append(@, m)]
    /\ UNCHANGED <<lock, pc, arrived, offers, mempool, best>>

\* msgHandler: ReadMsg, then NewBlockchain, which waits for the lock.
Open(h) ==
    /\ pc[h] = "reading"
    /\ inbox[h] # <<>>
    /\ lock = NoHandler
    /\ lock' = h
    /\ pc' = [pc EXCEPT ![h] = "handling"]
    /\ UNCHANGED <<inbox, sent, arrived, offers, mempool, best>>

\* The handler returns and msgHandler closes the database.
Return(h) ==
    /\ lock' = NoHandler
    /\ pc' = [pc EXCEPT ![h] = "reading"]
    /\ inbox' = [inbox EXCEPT ![h] = Tail(@)]

Handles(h, type) == pc[h] = "handling" /\ Head(inbox[h]).type = type

Larger(a, b) == IF a > b THEN a ELSE b

\* handleVersion: a goroutine is left that offers the larger of the two
\* heights, until somebody receives it.
HandleVersion(h) ==
    /\ Handles(h, "version")
    /\ offers' = offers (+) SetToBag({Larger(best, Head(inbox[h]).height)})
    /\ Return(h)
    /\ UNCHANGED <<sent, arrived, mempool, best>>

\* handleTx: the transaction joins the mempool, which is still too small.
HandleTxPools(h) ==
    /\ Handles(h, "tx")
    /\ mempool' = mempool \cup {Head(inbox[h]).tx}
    /\ Cardinality(mempool') < 2
    /\ Return(h)
    /\ UNCHANGED <<sent, arrived, offers, best>>

\* handleTx: there are two transactions, wait for "block sync complete".
HandleTxWaits(h) ==
    /\ Handles(h, "tx")
    /\ mempool' = mempool \cup {Head(inbox[h]).tx}
    /\ Cardinality(mempool') >= 2
    /\ arrived' = [arrived EXCEPT ![h] = [none |-> FALSE, tx |-> Head(inbox[h]).tx]]
    /\ pc' = [pc EXCEPT ![h] = "waiting"]
    /\ UNCHANGED <<inbox, sent, lock, offers, best>>

\* Mutant of ReceiveBestTd: an old offer does not end the wait.
ReceiveMatching(h) ==
    /\ pc[h] = "waiting"
    /\ best \in BagToSet(offers)
    /\ offers' = offers (-) SetToBag({best})
    /\ pc' = [pc EXCEPT ![h] = "mining"]
    /\ UNCHANGED <<inbox, sent, lock, arrived, mempool, best>>

\* handleTx receives an offer.  The comparison with the node's own height
\* has no effect: the break only leaves the select.
ReceiveBestTd(h) ==
    /\ pc[h] = "waiting"
    /\ \E height \in BagToSet(offers) : offers' = offers (-) SetToBag({height})
    /\ pc' = [pc EXCEPT ![h] = "mining"]
    /\ UNCHANGED <<inbox, sent, lock, arrived, mempool, best>>

\* Leaving handleTx after the wait.
Finish(h) ==
    /\ Return(h)
    /\ arrived' = [arrived EXCEPT ![h] = NoTx]

\* handleTx: the transaction does not verify; the mempool stays as it is.
MineNothing(h) ==
    /\ pc[h] = "mining"
    /\ Finish(h)
    /\ UNCHANGED <<sent, offers, mempool, best>>

\* handleTx: the whole mempool is mined.
MineBlock(h) ==
    /\ pc[h] = "mining"
    /\ best < MaxHeight
    /\ best' = best + 1
    /\ mempool' = {}
    /\ Finish(h)
    /\ UNCHANGED <<sent, offers>>

\* handleBlock: a valid block takes its transaction out of the mempool.
HandleBlock(h) ==
    /\ Handles(h, "block")
    /\ best < MaxHeight
    /\ best' = best + 1
    /\ mempool' = mempool \ {Head(inbox[h]).tx}
    /\ Return(h)
    /\ UNCHANGED <<sent, arrived, offers>>

\* handleBlock: the block is not valid.
RejectBlock(h) ==
    /\ Handles(h, "block")
    /\ Return(h)
    /\ UNCHANGED <<sent, arrived, offers, mempool, best>>

Run(h) ==
    \/ HandleVersion(h)
    \/ HandleTxPools(h)
    \/ HandleTxWaits(h)
    \/ ReceiveBestTd(h)
    \/ MineNothing(h)
    \/ MineBlock(h)
    \/ HandleBlock(h)
    \/ RejectBlock(h)

Next ==
    \/ \E h \in Handlers, m \in Messages : PeerSends(h, m)
    \/ \E h \in Handlers : Open(h)
    \/ \E h \in Handlers : Run(h)

Spec == Init /\ [][Next]_vars

\* Go runs every goroutine that can go on, and a handler that retries to open
\* the database gets it when nobody else keeps taking it.
FairSpec == Spec /\ \A h \in Handlers : WF_vars(Open(h)) /\ WF_vars(Run(h))

-----------------------------------------------------------------------------
TypeOK ==
    /\ \A h \in Handlers : ToSet(inbox[h]) \subseteq Messages
    /\ lock \in Handlers \cup {NoHandler}
    /\ \A h \in Handlers : pc[h] \in {"reading", "handling", "waiting", "mining"}
    /\ BagToSet(offers) \subseteq Heights
    /\ mempool \subseteq Txs
    /\ best \in Heights

\* Everything is behind a handler that has the lock and waits for an offer
\* nobody has made.
Stuck == \E h \in Handlers : lock = h /\ pc[h] = "waiting" /\ offers = EmptyBag

\* A waiting miner has two transactions or more to mine when it goes on: no
\* other handler has emptied the mempool meanwhile.
WaitingHasWork ==
    TypeOK /\ \A h \in Handlers : pc[h] \in {"waiting", "mining"} =>
        Cardinality(mempool) >= 2 /\ arrived[h].tx \in mempool

\* An offer ends the wait of a miner.
OfferEndsWait ==
    \A h \in Handlers :
        (pc[h] = "waiting" /\ offers # EmptyBag) ~> pc[h] = "reading"

\* Every message is handled in the end, unless the node gets stuck waiting
\* for an offer: there is no other deadlock among the handlers.
DrainedOrStuck == <>[](Stuck \/ (lock = NoHandler /\ \A h \in Handlers : inbox[h] = <<>>))

\* Both: a miner waits for nothing but an offer, and goes on with the first.
MessagesHandled == OfferEndsWait /\ DrainedOrStuck

\* "wait block sync complete": a miner's wait ends once another peer's version
\* has come, which is what handleVersion offers a height for.
WaitEnds ==
    \A h \in Handlers : \A g \in Handlers \ {h} :
        (pc[h] = "waiting" /\ inbox[g] # <<>> /\ Head(inbox[g]).type = "version")
            ~> pc[h] = "mining"
=============================================================================
