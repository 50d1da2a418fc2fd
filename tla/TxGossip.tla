------------------------------ MODULE TxGossip ------------------------------
(***************************************************************************)
(* How a transaction spreads (p2pprotocol/server.go and peer.go): a node   *)
(* announces it (inv) to every peer that is not marked as knowing it, is   *)
(* asked for it (getdata), sends it (tx), and the receiver pools it and    *)
(* announces it in turn, once.  An announcement waits in a bounded queue   *)
(* per peer and is dropped when the queue is full; a mark is set when it   *)
(* is queued, long before the peer has the transaction.                    *)
(***************************************************************************)
EXTENDS Integers, Sequences, FiniteSets

CONSTANTS
    Nodes, Txs,
    Peered,        \* pairs of nodes that are peers of each other
    Origin,        \* the node whose wallet sent the transactions
    MaxQueuedTxs,  \* capacity of queuedTxs
    MaxKnownTxs    \* capacity of knownTxs

VARIABLES
    txPool,    \* txPool[n]: TxMempool
    known,     \* known[n][m]: knownTxs of n's peer m
    waiting,   \* waiting[n][m]: queuedTxs of n's peer m
    wire,      \* wire[n][m]: messages from n to m, in order
    had,       \* had[n]: transactions n was given at some time
    mined,     \* mined[n]: transactions n put into a block
    dropped    \* dropped[n][m]: announcements that found the queue full

gossipVars == <<txPool, known, waiting, wire, had, mined, dropped>>

Peers(n) == {m \in Nodes : {n, m} \in Peered}

\* knownTxs holds IDs; SendTransactions adds the hash of the signed
\* transaction instead, which is no transaction's ID.
HashEntry(t) == <<t>>

\* What the constants must satisfy: links join two nodes, and together all.
GossipAssumption ==
    /\ Peered \subseteq {p \in SUBSET Nodes : Cardinality(p) = 2}
    /\ \A S \in SUBSET Nodes :
          Origin \in S /\ S # Nodes => \E n \in S : \E m \in Nodes \ S : {n, m} \in Peered
    /\ Origin \in Nodes /\ MaxQueuedTxs \in Nat \ {0} /\ MaxKnownTxs \in Nat \ {0}
    /\ \A t \in Txs : HashEntry(t) \notin Txs

GossipInit ==
    /\ txPool = [n \in Nodes |-> {}] /\ had = txPool /\ mined = txPool
    /\ known = [n \in Nodes |-> [m \in Nodes |-> {}]] /\ dropped = known
    /\ waiting = [n \in Nodes |-> [m \in Nodes |-> <<>>]] /\ wire = waiting

\* MarkTransaction: at the limit some entries, whichever, make room.
Marked(k, t) ==
    IF Cardinality(k) < MaxKnownTxs THEN {k \cup {t}}
    ELSE {s \cup {t} : s \in {r \in SUBSET k : Cardinality(r) = MaxKnownTxs - 1}}

\* n marks each peer in ms as knowing t.
KnownAfter(n, ms, t) ==
    {[known EXCEPT ![n] = [q \in Nodes |-> IF q \in ms THEN k[q] ELSE @[q]]] :
        k \in {f \in [ms -> UNION {Marked(known[n][q], t) : q \in ms}] :
                  \A q \in ms : f[q] \in Marked(known[n][q], t)}}

Send(w, n, m, kind, t) == [w EXCEPT ![n][m] = Append(@, [kind |-> kind, tx |-> t])]

Received(m, n) == [wire EXCEPT ![m][n] = Tail(@)]
First(m, n, kind) == wire[m][n] # <<>> /\ Head(wire[m][n]).kind = kind

\* broadcast and SendTransactions, the sending goroutine of n's peer m.
Announce(n, m) ==
    LET t == Head(waiting[n][m]) IN
    /\ waiting[n][m] # <<>>
    /\ waiting' = [waiting EXCEPT ![n][m] = Tail(@)]
    /\ known' = [known EXCEPT ![n][m] = @ \cup {HashEntry(t)}]
    /\ wire' = Send(wire, n, m, "inv", t)
    /\ UNCHANGED <<txPool, had, mined, dropped>>

\* handleInv: asks for it unless the announcing peer is marked.
HandleInv(n, m) ==
    LET t == Head(wire[m][n]).tx IN
    /\ First(m, n, "inv")
    /\ wire' = IF t \in known[n][m] THEN Received(m, n)
               ELSE Send(Received(m, n), n, m, "getdata", t)
    /\ UNCHANGED <<txPool, known, waiting, had, mined, dropped>>

\* SendTx: on the wire, and the peer marked.
SendTx(n, m, t) ==
    /\ wire' = Send(Received(m, n), n, m, "tx", t)
    /\ known' \in KnownAfter(n, {m}, t)

\* handleGetData: sent while it is pooled; else there is no answer.
HandleGetData(n, m) ==
    LET t == Head(wire[m][n]).tx IN
    /\ First(m, n, "getdata")
    /\ IF t \in txPool[n]
       THEN SendTx(n, m, t)
       ELSE wire' = Received(m, n) /\ UNCHANGED known
    /\ UNCHANGED <<txPool, waiting, had, mined, dropped>>

\* PeersWithoutTx.
Without(n, t) == {m \in Peers(n) : t \notin known[n][m]}

\* Mutant of AsyncSendTransactions: marks the peer when the queue is full too.
AsyncMarksAlways(n, m, t) == TRUE

\* AsyncSendTransactions queues and marks, or drops and does not.
AsyncMarks(n, m, t) == Len(waiting[n][m]) < MaxQueuedTxs

\* BroadcastTxs, after the sender was marked: a peer not known to have t has it
\* queued and is marked, or its announcement is dropped.
BroadcastTxs(n, sender, t) ==
    LET ask == Without(n, t) \ {sender}
        room == {q \in ask : Len(waiting[n][q]) < MaxQueuedTxs}
        mark == {q \in ask : AsyncMarks(n, q, t)}
    IN
    /\ waiting' = [waiting EXCEPT ![n] =
                      [q \in Nodes |-> IF q \in room THEN Append(@[q], t) ELSE @[q]]]
    /\ dropped' = [dropped EXCEPT ![n] =
                      [q \in Nodes |-> IF q \in ask \ room THEN @[q] \cup {t} ELSE @[q]]]
    /\ known' \in KnownAfter(n, {sender} \cup mark, t)

\* handleTx: pooled, its sender marked, and broadcast.
HandleTx(n, m) ==
    LET t == Head(wire[m][n]).tx IN
    /\ First(m, n, "tx")
    /\ wire' = Received(m, n)
    /\ txPool' = [txPool EXCEPT ![n] = @ \cup {t}] /\ had' = [had EXCEPT ![n] = @ \cup {t}]
    /\ BroadcastTxs(n, m, t)
    /\ UNCHANGED mined

\* The command line sends it to every peer, and pools it.
Submit(t) ==
    /\ t \notin had[Origin]
    /\ wire' = [wire EXCEPT ![Origin] = [m \in Nodes |->
                  IF m \in Peers(Origin) THEN Append(@[m], [kind |-> "tx", tx |-> t]) ELSE @[m]]]
    /\ known' \in KnownAfter(Origin, Peers(Origin), t)
    /\ txPool' = [txPool EXCEPT ![Origin] = @ \cup {t}]
    /\ had' = [had EXCEPT ![Origin] = @ \cup {t}]
    /\ UNCHANGED <<waiting, mined, dropped>>

\* A miner puts a pooled transaction into a block (handleTx, mining; see Miner).
Mine(n, t) ==
    /\ t \in txPool[n]
    /\ txPool' = [txPool EXCEPT ![n] = @ \ {t}] /\ mined' = [mined EXCEPT ![n] = @ \cup {t}]
    /\ UNCHANGED <<known, waiting, wire, had, dropped>>

Handle(n, m) == HandleInv(n, m) \/ HandleGetData(n, m) \/ HandleTx(n, m)

GossipNext ==
    \/ \E n, m \in Nodes : Announce(n, m) \/ Handle(n, m)
    \/ \E t \in Txs : Submit(t) \/ \E n \in Nodes : Mine(n, t)

GossipSpec == GossipInit /\ [][GossipNext]_gossipVars

---------------------------------------------------------------------------

Coming(n, m, t, kind) == \E i \in DOMAIN wire[n][m] : wire[n][m][i] = [kind |-> kind, tx |-> t]

\* A peer that is marked as knowing a transaction, and so is never told of it
\* again, has had it, or will: it is queued, announced, asked for or sent.
\* (Only one that was mined before it was asked for comes in a block instead.)
MarkedGetsIt ==
    \A n \in Nodes : \A m \in Peers(n) : \A t \in Txs \cap known[n][m] :
        \/ t \in had[m] \/ t \in mined[n]
        \/ \E i \in DOMAIN waiting[n][m] : waiting[n][m][i] = t
        \/ Coming(n, m, t, "inv") \/ Coming(m, n, t, "getdata") \/ Coming(n, m, t, "tx")

\* Once nothing is queued or on the wire, every node has been given each
\* transaction that was sent, unless a full queue dropped an announcement of it
\* or it was mined before it was asked for: nobody will bring it up again.
SettledSpread ==
    (\A n, m \in Nodes : wire[n][m] = <<>> /\ waiting[n][m] = <<>>) =>
        \A t \in had[Origin] :
            \/ \A m \in Nodes : t \in had[m]
            \/ \E n, m \in Nodes : t \in mined[n] \/ t \in dropped[n][m]

\* Announcing a transaction once is enough (BroadcastTxs, AsyncSendTransactions).
GossipSound == MarkedGetsIt /\ SettledSpread
=============================================================================
