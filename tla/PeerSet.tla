------------------------------- MODULE PeerSet ------------------------------
(***************************************************************************)
(* The life of the connections of a node (p2pprotocol/peer.go): msgHandler *)
(* runs for each connection, registers a Peer under the id of the remote   *)
(* node, arms a timer that drops the peer when it does not answer in time, *)
(* and removes the peer when it returns.  removePeer is called by the      *)
(* timer's goroutine and by the handler, and looks the peer up, removes it *)
(* and disconnects it in separate critical sections.                       *)
(*                                                                         *)
(* The p2p server runs one connection for each remote id at a time, and    *)
(* takes the next one when the handler has returned.                       *)
(***************************************************************************)
EXTENDS Integers, FiniteSets

CONSTANTS
    PeerConns,  \* the connections there may ever be
    PeerIds,    \* remote nodes
    PeerIdOf,   \* the remote node of each connection
    NoPeer,
    MaxQueued   \* maxQueuedTxs

\* What the constants must satisfy.
PeerSetAssumption ==
    /\ PeerIdOf \in [PeerConns -> PeerIds] /\ NoPeer \notin PeerConns
    /\ MaxQueued \in Nat \ {0}

VARIABLES
    peers,     \* peerSet.Peers: the connection registered for each id
    pc,        \* where the msgHandler of each connection is
    timer,     \* forkDrop of each connection, and its goroutine
    target,    \* the peer each removePeer has looked up, by its caller
    gone,    \* connections the networking layer has dropped
    db,        \* the connection whose handler has the database open
    queued,    \* length of queuedTxs
    sender,    \* the broadcast goroutine: "none", "running" or "ended"
    term,      \* whether the term channel is closed
    panicked   \* log.Panic has ended the process

peerVars == <<peers, pc, timer, target, gone, db, queued, sender, term, panicked>>

Callers == {"handler", "timer"}

PeerInit ==
    /\ peers = [i \in PeerIds |-> NoPeer]
    /\ pc = [c \in PeerConns |-> "idle"]
    /\ timer = [c \in PeerConns |-> "off"]
    /\ target = [c \in PeerConns |-> [k \in Callers |-> NoPeer]]
    /\ gone = {}
    /\ db = NoPeer
    /\ queued = [c \in PeerConns |-> 0]
    /\ sender = [c \in PeerConns |-> "none"]
    /\ term = [c \in PeerConns |-> FALSE]
    /\ panicked = FALSE

At(c, place) == ~panicked /\ pc[c] = place

Goto(c, place) == pc' = [pc EXCEPT ![c] = place]

\* The p2p server accepts a connection and runs msgHandler, which makes the
\* Peer.  No other connection of that remote node has a handler.
Connect(c) ==
    /\ At(c, "idle")
    /\ \A d \in PeerConns : PeerIdOf[d] = PeerIdOf[c] => pc[d] \in {"idle", "returned"}
    /\ Goto(c, "opening")
    /\ UNCHANGED <<peers, timer, target, gone, db, queued, sender, term, panicked>>

\* msgHandler: NewBlockchain, waiting for the lock.
OpenDb(c) ==
    /\ At(c, "opening")
    /\ db = NoPeer
    /\ db' = c
    /\ Goto(c, "registering")
    /\ UNCHANGED <<peers, timer, target, gone, queued, sender, term, panicked>>

\* peerSet.Register, and the broadcast goroutine it starts.
Register(c) ==
    /\ At(c, "registering")
    /\ peers[PeerIdOf[c]] = NoPeer
    /\ peers' = [peers EXCEPT ![PeerIdOf[c]] = c]
    /\ sender' = [sender EXCEPT ![c] = "running"]
    /\ Goto(c, "arming")
    /\ UNCHANGED <<timer, target, gone, db, queued, term, panicked>>

\* msgHandler: arm the timer.
ArmTimer(c) ==
    /\ At(c, "arming")
    /\ timer' = [timer EXCEPT ![c] = "armed"]
    /\ Goto(c, "greeting")
    /\ UNCHANGED <<peers, target, gone, db, queued, sender, term, panicked>>

CloseDb(c) == db' = IF db = c THEN NoPeer ELSE db

\* msgHandler: SendVersion, then close the database.
Greet(c) ==
    /\ At(c, "greeting")
    /\ CloseDb(c)
    /\ Goto(c, "reading")
    /\ UNCHANGED <<peers, timer, target, gone, queued, sender, term, panicked>>

StopTimer(c) ==
    timer' = [timer EXCEPT ![c] = IF @ = "armed" THEN "stopped" ELSE @]

\* handleVersion and handleGetBlocks: the peer has answered.
Answer(c) ==
    /\ At(c, "reading")
    /\ c \notin gone
    /\ StopTimer(c)
    /\ UNCHANGED <<peers, pc, target, gone, db, queued, sender, term, panicked>>

\* The remote node goes away.
PeerHangsUp(c) ==
    /\ ~panicked
    /\ pc[c] \notin {"idle", "removing", "returned"}
    /\ c \notin gone
    /\ gone' = gone \cup {c}
    /\ UNCHANGED <<peers, pc, timer, target, db, queued, sender, term, panicked>>

\* ReadMsg fails; the deferred function stops the timer, which does not wait
\* for a goroutine the timer has started.
Leave(c) ==
    /\ At(c, "reading")
    /\ c \in gone
    /\ StopTimer(c)
    /\ Goto(c, "removing")
    /\ UNCHANGED <<peers, target, gone, db, queued, sender, term, panicked>>

\* The time is up: the timer starts its goroutine.
TimeOut(c) ==
    /\ ~panicked
    /\ timer[c] = "armed"
    /\ timer' = [timer EXCEPT ![c] = "fired"]
    /\ UNCHANGED <<peers, pc, target, gone, db, queued, sender, term, panicked>>

-----------------------------------------------------------------------------
\* The two callers of removePeer(PeerIdOf[c]): where each is, and how it goes on.
Calling(c, k) == IF k = "handler" THEN At(c, "removing")
                 ELSE ~panicked /\ timer[c] = "fired"

Finish(c, k) ==
    IF k = "handler" THEN Goto(c, "returned") /\ UNCHANGED timer
    ELSE timer' = [timer EXCEPT ![c] = "done"] /\ UNCHANGED pc

\* removePeer: the id is not registered, nothing to do.
RemoveNothing(c, k) ==
    /\ Calling(c, k)
    /\ target[c][k] = NoPeer
    /\ peers[PeerIdOf[c]] = NoPeer
    /\ Finish(c, k)
    /\ UNCHANGED <<peers, target, gone, db, queued, sender, term, panicked>>

\* removePeer: the registered peer is looked up.
RemoveLookup(c, k) ==
    /\ Calling(c, k)
    /\ target[c][k] = NoPeer
    /\ peers[PeerIdOf[c]] # NoPeer
    /\ target' = [target EXCEPT ![c][k] = peers[PeerIdOf[c]]]
    /\ UNCHANGED <<peers, pc, timer, gone, db, queued, sender, term, panicked>>

\* Mutant of RemoveUnregister: the broadcast goroutine is not told.
UnregisterWithoutClose(c, k) ==
    /\ Calling(c, k)
    /\ target[c][k] # NoPeer
    /\ peers[PeerIdOf[c]] # NoPeer
    /\ peers' = [peers EXCEPT ![PeerIdOf[c]] = NoPeer]
    /\ gone' = gone \cup {target[c][k]}
    /\ target' = [target EXCEPT ![c][k] = NoPeer]
    /\ CloseDb(c)
    /\ Finish(c, k)
    /\ UNCHANGED <<queued, sender, term, panicked>>

\* removePeer: Unregister takes whoever is registered by now out and closes
\* its term channel; the peer that was looked up is disconnected, and the
\* handle the handler of c had on the database is closed.
RemoveUnregister(c, k) ==
    /\ Calling(c, k)
    /\ target[c][k] # NoPeer
    /\ peers[PeerIdOf[c]] # NoPeer
    /\ peers' = [peers EXCEPT ![PeerIdOf[c]] = NoPeer]
    /\ term' = [term EXCEPT ![peers[PeerIdOf[c]]] = TRUE]
    /\ gone' = gone \cup {target[c][k]}
    /\ target' = [target EXCEPT ![c][k] = NoPeer]
    /\ CloseDb(c)
    /\ Finish(c, k)
    /\ UNCHANGED <<queued, sender, panicked>>

\* removePeer: somebody else has removed the peer since the look-up, and
\* Unregister's error makes log.Panic end the process.
RemovePanics(c, k) ==
    /\ Calling(c, k)
    /\ target[c][k] # NoPeer
    /\ peers[PeerIdOf[c]] = NoPeer
    /\ panicked' = TRUE
    /\ UNCHANGED <<peers, pc, timer, target, gone, db, queued, sender, term>>

-----------------------------------------------------------------------------
\* AsyncSendTransactions to a registered peer.  When the queue is full the
\* list is dropped.
QueueTxs(c) ==
    /\ ~panicked
    /\ peers[PeerIdOf[c]] = c
    /\ queued[c] < MaxQueued
    /\ queued' = [queued EXCEPT ![c] = @ + 1]
    /\ UNCHANGED <<peers, pc, timer, target, gone, db, sender, term, panicked>>

\* broadcast: send a list; an error ends the goroutine.
SendQueued(c) ==
    /\ ~panicked
    /\ sender[c] = "running"
    /\ queued[c] > 0
    /\ queued' = [queued EXCEPT ![c] = @ - 1]
    /\ sender' = [sender EXCEPT ![c] = IF c \in gone THEN "ended" ELSE @]
    /\ UNCHANGED <<peers, pc, timer, target, gone, db, term, panicked>>

\* broadcast: the term channel is closed.
SenderEnds(c) ==
    /\ ~panicked
    /\ sender[c] = "running"
    /\ term[c]
    /\ sender' = [sender EXCEPT ![c] = "ended"]
    /\ UNCHANGED <<peers, pc, timer, target, gone, db, queued, term, panicked>>

RemovePeer(c, k) ==
    \/ RemoveNothing(c, k)
    \/ RemoveLookup(c, k)
    \/ RemoveUnregister(c, k)
    \/ RemovePanics(c, k)

Handler(c) ==
    \/ OpenDb(c)
    \/ Register(c)
    \/ ArmTimer(c)
    \/ Greet(c)
    \/ Leave(c)
    \/ RemovePeer(c, "handler")

Broadcast(c) == SendQueued(c) \/ SenderEnds(c)

PeerNext ==
    \E c \in PeerConns :
        \/ Connect(c)
        \/ Handler(c)
        \/ Answer(c)
        \/ PeerHangsUp(c)
        \/ TimeOut(c)
        \/ RemovePeer(c, "timer")
        \/ QueueTxs(c)
        \/ Broadcast(c)

PeerSpec == PeerInit /\ [][PeerNext]_peerVars

\* The goroutines run on; of two ready cases a select takes each in the end.
PeerFairSpec ==
    /\ PeerSpec
    /\ \A c \in PeerConns : /\ WF_peerVars(Handler(c)) /\ WF_peerVars(RemovePeer(c, "timer"))
                           /\ SF_peerVars(SenderEnds(c)) /\ WF_peerVars(SendQueued(c))

-----------------------------------------------------------------------------
Places == {"idle", "opening", "registering", "arming", "greeting", "reading",
           "removing", "returned"}

TypeOK ==
    /\ peers \in [PeerIds -> PeerConns \cup {NoPeer}]
    /\ pc \in [PeerConns -> Places]
    /\ timer \in [PeerConns -> {"off", "armed", "stopped", "fired", "done"}]
    /\ target \in [PeerConns -> [Callers -> PeerConns \cup {NoPeer}]]
    /\ gone \subseteq PeerConns
    /\ db \in PeerConns \cup {NoPeer}
    /\ queued \in [PeerConns -> 0..MaxQueued]
    /\ sender \in [PeerConns -> {"none", "running", "ended"}]
    /\ term \in [PeerConns -> BOOLEAN]
    /\ panicked \in BOOLEAN

\* Register never finds its id taken.  msgHandler would return without
\* closing the database, and the node would never open it again.
RegisterSucceeds == \A c \in PeerConns : pc[c] = "registering" => peers[PeerIdOf[c]] = NoPeer

\* The node's peer set holds nobody whose handler has returned: whatever the
\* timer does meanwhile, no ghost is left to be broadcast to.
NoGhosts == \A i \in PeerIds : peers[i] # NoPeer => pc[peers[i]] \notin {"idle", "returned"}

\* A connection that is not registered any more has its term channel closed:
\* no broadcast goroutine is left behind waiting for ever.
SendersAreStopped ==
    \A c \in PeerConns : sender[c] = "running" => peers[PeerIdOf[c]] = c \/ term[c]

\* The peer set, the handlers and the broadcast goroutines agree.
PeersSound == TypeOK /\ RegisterSucceeds /\ NoGhosts /\ SendersAreStopped

\* A connection that is dropped is removed in the end and its goroutine ends,
\* unless the process panics.
DroppedIsRemoved ==
    \A c \in PeerConns :
        c \in gone ~> (panicked \/ (pc[c] = "returned" /\ sender[c] # "running"))

\* "Short circuit if the peer was already removed": removing a peer twice is
\* harmless.
NoRemovalPanic == ~panicked
=============================================================================
