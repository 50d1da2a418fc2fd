------------------------------- MODULE TxSync -------------------------------
(***************************************************************************)
(* The relay of pending transactions to new peers: syncTransactions hands  *)
(* the mempool of the moment to txsyncLoop over an unbuffered channel, and *)
(* the loop announces it in packs, one peer at a time, while a background  *)
(* goroutine sends the pack and reports on the channel done.               *)
(*                                                                         *)
(* The loop keeps what is left by the id of the remote node, while the     *)
(* packs go to a connection.                                               *)
(***************************************************************************)
EXTENDS Integers, Sequences, FiniteSets, SequencesExt

CONSTANTS
    Conns,     \* the connections there may ever be
    Ids,       \* remote nodes
    IdOf,      \* the remote node of each connection
    Txs,       \* transactions
    PackSize,  \* txsyncPackSize, in transactions
    None

ASSUME SyncAssumption == IdOf \in [Conns -> Ids] /\ None \notin Conns
                         /\ PackSize \in Nat \ {0}

VARIABLES
    mempool,    \* Manager.TxMempool
    phase,      \* of each connection: "new", "offering", "synced"
    offer,      \* what syncTransactions of each connection is to relay
    hungUp,     \* connections that are broken
    pending,    \* txsyncLoop's map: for each id the sync, or None
    sending,    \* whether a send is active
    pack,       \* the pack that is being sent
    done,       \* the channel done: "none", "ok" or "failed"
    announced   \* the transactions each connection was sent an inv for

vars == <<mempool, phase, offer, hungUp, pending, sending, pack, done, announced>>

Sync(c, s) == [p |-> c, txs |-> s]
NoSync == Sync(None, <<>>)

Init ==
    /\ mempool = {}
    /\ phase = [c \in Conns |-> "new"]
    /\ offer = [c \in Conns |-> <<>>]
    /\ hungUp = {}
    /\ pending = [i \in Ids |-> NoSync]
    /\ sending = FALSE
    /\ pack = NoSync
    /\ done = "none"
    /\ announced = [c \in Conns |-> <<>>]

\* handleTx: the mempool grows.
Pool(t) ==
    /\ mempool' = mempool \cup {t}
    /\ UNCHANGED <<phase, offer, hungUp, pending, sending, pack, done, announced>>

\* syncTransactions of a new connection: the pending transactions, in the
\* order of a Go map; with none there is nothing to relay.  The connection
\* before it from the same node has returned.
SyncTransactions(c) ==
    /\ phase[c] = "new"
    /\ \A d \in Conns \ {c} : IdOf[d] = IdOf[c] =>
           phase[d] = "new" \/ (phase[d] = "synced" /\ d \in hungUp)
    /\ \E s \in SetToSeqs(mempool) : offer' = [offer EXCEPT ![c] = s]
    /\ phase' = [phase EXCEPT ![c] = IF mempool = {} THEN "synced" ELSE "offering"]
    /\ UNCHANGED <<mempool, hungUp, pending, sending, pack, done, announced>>

HangUp(c) ==
    /\ phase[c] # "new"
    /\ c \notin hungUp
    /\ hungUp' = hungUp \cup {c}
    /\ UNCHANGED <<mempool, phase, offer, pending, sending, pack, done, announced>>

SmallerOf(a, b) == IF a < b THEN a ELSE b

\* Mutant of SendPack: one transaction too many is dropped.
SendPackDropsOne(P, s) ==
    LET n == SmallerOf(PackSize, Len(s.txs))
        rest == SubSeq(s.txs, n + 2, Len(s.txs))
    IN  /\ pack' = Sync(s.p, SubSeq(s.txs, 1, n))
        /\ pending' = [P EXCEPT ![IdOf[s.p]] = IF rest = <<>> THEN NoSync ELSE Sync(s.p, rest)]
        /\ sending' = TRUE

\* send: fill the pack from a sync of the map P, take the pack out of the
\* sync, and the sync out of the map when nothing is left.
SendPack(P, s) ==
    LET n == SmallerOf(PackSize, Len(s.txs))
        rest == SubSeq(s.txs, n + 1, Len(s.txs))
    IN  /\ pack' = Sync(s.p, SubSeq(s.txs, 1, n))
        /\ pending' = [P EXCEPT ![IdOf[s.p]] = IF rest = <<>> THEN NoSync ELSE Sync(s.p, rest)]
        /\ sending' = TRUE

\* Mutant of Receive: the sync is started whatever is being sent.
ReceiveStarts(c) ==
    LET s == Sync(c, offer[c]) IN
    /\ phase[c] = "offering"
    /\ phase' = [phase EXCEPT ![c] = "synced"]
    /\ SendPack([pending EXCEPT ![IdOf[c]] = s], s)
    /\ UNCHANGED <<mempool, offer, hungUp, done, announced>>

\* txsyncLoop receives a sync.  It replaces the one there was for that id and
\* is started when no send is active.
Receive(c) ==
    LET s == Sync(c, offer[c])
        P == [pending EXCEPT ![IdOf[c]] = s]
    IN  /\ phase[c] = "offering"
        /\ phase' = [phase EXCEPT ![c] = "synced"]
        /\ IF sending THEN pending' = P /\ UNCHANGED <<sending, pack>>
           ELSE SendPack(P, s)
        /\ UNCHANGED <<mempool, offer, hungUp, done, announced>>

\* The background goroutine: SendTransactions sends the inv, or fails.
SendTransactions ==
    /\ sending /\ done = "none" /\ pack.p # None
    /\ IF pack.p \in hungUp
       THEN done' = "failed" /\ UNCHANGED announced
       ELSE /\ done' = "ok"
            /\ announced' = [announced EXCEPT ![pack.p] = @ \o pack.txs]
    /\ UNCHANGED <<mempool, phase, offer, hungUp, pending, sending, pack>>

\* txsyncLoop receives the report: a failed peer is forgotten, by its id, and
\* any sync that is left is picked.
Done ==
    LET P == IF done = "failed" THEN [pending EXCEPT ![IdOf[pack.p]] = NoSync]
             ELSE pending
        left == {i \in Ids : P[i] # NoSync}
    IN  /\ done # "none"
        /\ done' = "none"
        /\ IF left = {}
           THEN pending' = P /\ sending' = FALSE /\ UNCHANGED pack
           ELSE \E i \in left : SendPack(P, P[i])
        /\ UNCHANGED <<mempool, phase, offer, hungUp, announced>>

Next ==
    \/ \E t \in Txs : Pool(t)
    \/ \E c \in Conns : SyncTransactions(c)
    \/ \E c \in Conns : HangUp(c)
    \/ \E c \in Conns : Receive(c)
    \/ SendTransactions
    \/ Done

Spec == Init /\ [][Next]_vars

\* The loop and the background goroutine go on; select takes a case that
\* stays ready in the end.
FairSpec == Spec /\ WF_vars(SendTransactions) /\ WF_vars(Done)
                 /\ \A c \in Conns : WF_vars(Receive(c))

-----------------------------------------------------------------------------
\* No other connection of the same node has had its turn.
OnlyOfNode(c) == \A d \in Conns \ {c} : IdOf[d] = IdOf[c] => phase[d] = "new"

\* Nothing is forgotten or sent twice: of what a live connection was to be
\* relayed, the announced part, the pack and the rest are all there, in order.
\* It holds for the first connection of a node, whoever else comes and goes:
\* the loop keeps what is left by node (server.go:1066, server.go:1075).
NothingForgotten ==
    \A c \in Conns :
        LET inPack == IF sending /\ done = "none" /\ pack.p = c THEN pack.txs ELSE <<>>
            rest   == IF pending[IdOf[c]].p = c THEN pending[IdOf[c]].txs ELSE <<>>
        IN  phase[c] = "synced" /\ c \notin hungUp /\ OnlyOfNode(c) =>
                announced[c] \o inPack \o rest = offer[c]

\* The loop never starts a pack while the one before is still being sent: the
\* goroutine reads the pack the loop would overwrite (server.go:1031).
PackIsStable == [][sending /\ done = "none" => pack' = pack]_vars

\* "When a new peer appears, we relay all currently pending transactions": the
\* first connection of a node is announced all it was to be, unless it breaks,
\* and no failure of another peer keeps the loop from it.
Relayed ==
    \A c \in Conns :
        phase[c] = "synced" /\ OnlyOfNode(c) ~> (announced[c] = offer[c] \/ c \in hungUp)
=============================================================================
