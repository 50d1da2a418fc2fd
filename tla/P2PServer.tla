------------------------------ MODULE P2PServer -----------------------------
(***************************************************************************)
(* The p2p server (p2p/server.go) with its dialler (p2p/dial.go, module    *)
(* DialState): the run loop that owns the peers and the dialler, the       *)
(* listener, the goroutines that set a connection up and stop at the run   *)
(* loop's two checkpoints, the dial tasks, the peers' goroutines, and Stop.*)
(*                                                                         *)
(* A connection has a setup stage, its SetupConn goroutine's, and a peer   *)
(* status, its runPeer goroutine's: both exist for a moment, between the   *)
(* check that adds the peer and the answer to SetupConn.  A goroutine that *)
(* needs srv.lock waits while Stop holds it.                               *)
(***************************************************************************)
EXTENDS DialState

CONSTANTS
    Configs,     \* Config, the nodes AddPeer and RemovePeer are called with, and
                 \* the sequences of nodes that discovery may return
    MaxActive,   \* maxActiveDialTasks
    MaxConns     \* bound: connections that exist at a time

NoId == "none"

ASSUME ServerAssumption ==
    /\ {MaxActive, MaxConns} \subseteq Nat \ {0} /\ NoId \notin Ids
    /\ \A k \in Configs :
         /\ {k.maxPeers, k.maxPendingPeers, k.dialRatio} \subseteq Nat \ {0}
         /\ {k.noDiscovery, k.noDial, k.listen} \subseteq BOOLEAN
         /\ k.static \subseteq Ids /\ k.operands \subseteq Ids
         /\ k.boot \in Seq(Ids) /\ k.results \subseteq Seq(Ids)

VARIABLES
    cfg,          \* Config of the server
    pc,           \* where run is: schedule, select, check, answer, spindown, ended
    cur,          \* the connection run is checking or answering, and the verdict
    dial,         \* dialstate
    running,      \* runningTasks, with the connection of a dial
    queued,       \* queuedTasks
    peers,        \* the run loop's map from ids to peers (0: none)
    inboundCount, \* of the run loop
    conns,        \* the connections
    listening,    \* listenLoop runs
    stop          \* Stop: "no", "waiting" for loopWG with srv.lock held, "returned"

vars == <<cfg, pc, cur, dial, running, queued, peers, inboundCount, conns,
          listening, stop>>

Conns == 1..MaxConns
ConnFlags == {"dyn", "static", "inbound", "trusted"}
Free == [setup |-> "none", peer |-> "none", id |-> NoId, flags |-> {}]
NoConn == [c |-> 0, err |-> "none"]

FreeConns(cs) == {c \in Conns : cs[c] = Free}
NextConn(cs) == CHOOSE c \in FreeConns(cs) : \A e \in FreeConns(cs) : c <= e

Connected == {i \in Ids : peers[i] # 0}
PeersWith(flag) == {i \in Connected : flag \in conns[peers[i]].flags}

\* srv.quit is closed; srv.lock is not held.
Quit == stop # "no"
LockFree == stop # "waiting"

\* maxDialedConns and maxInboundConns.
MaxDialedConns(k) == IF k.noDiscovery \/ k.noDial THEN 0 ELSE k.maxPeers \div k.dialRatio
MaxInboundConns(k) == k.maxPeers - MaxDialedConns(k)

\* Start.
Init ==
    /\ cfg \in Configs
    /\ pc = "schedule" /\ cur = NoConn
    /\ dial = NewDialState(cfg.static, cfg.boot, ~cfg.noDiscovery, MaxDialedConns(cfg))
    /\ running = {} /\ queued = <<>>
    /\ peers = [i \in Ids |-> 0] /\ inboundCount = 0
    /\ conns = [c \in Conns |-> Free]
    /\ listening = cfg.listen /\ stop = "no"

-----------------------------------------------------------------------------
(* The run loop.                                                           *)

\* One round of startTasks: a dial gets its connection record with it.  Bound: a
\* task waits while MaxConns connections exist.
StartTask(s, t) ==
    IF s.rest # <<>> \/ Cardinality(s.running) >= MaxActive \/ FreeConns(s.conns) = {}
    THEN [s EXCEPT !.rest = Append(s.rest, t)]
    ELSE IF t.kind = "dial"
    THEN LET c == NextConn(s.conns)
         IN  [s EXCEPT !.running = s.running \cup {[task |-> t, c |-> c]},
                       !.conns = [s.conns EXCEPT ![c] = [setup |-> "dial", peer |-> "none",
                                                         id |-> t.id, flags |-> {t.flag}]]]
    ELSE [s EXCEPT !.running = s.running \cup {[task |-> t, c |-> 0]}]

StartTasks(run, cs, ts) ==
    LET start[k \in 0..Len(ts)] ==
          IF k = 0 THEN [running |-> run, conns |-> cs, rest |-> <<>>]
          ELSE StartTask(start[k - 1], ts[k])
    IN  start[Len(ts)]

\* scheduleTasks: the queue first, then new tasks while there is room.
ScheduleTasks ==
    /\ pc = "schedule"
    /\ LET s == StartTasks(running, conns, queued)
       IN  IF Cardinality(s.running) < MaxActive
           THEN \E order \in SetToSeqs(dial.static), random \in cfg.results :
                  /\ LET n == NewTasks(dial, Cardinality(s.running) + Len(s.rest),
                                       Connected, Cardinality(PeersWith("dyn")),
                                       order, random)
                         u == StartTasks(s.running, s.conns, n.tasks)
                     IN  /\ dial' = n.d
                         /\ running' = u.running /\ conns' = u.conns
                         /\ queued' = s.rest \o u.rest
           ELSE /\ running' = s.running /\ conns' = s.conns /\ queued' = s.rest
                /\ UNCHANGED dial
    /\ pc' = "select"
    /\ UNCHANGED <<cfg, cur, peers, inboundCount, listening, stop>>

\* AddPeer's request reaches the loop.
RunAddStatic(n) ==
    /\ pc = "select" /\ pc' = "schedule"
    /\ dial' = AddStatic(dial, n)
    /\ UNCHANGED <<cfg, cur, running, queued, peers, inboundCount, conns, listening, stop>>

\* Peer.Disconnect, for the peers of the given connections that still run.
Disconnect(cs) ==
    [c \in Conns |-> IF c \in cs /\ conns[c].peer = "up"
                     THEN [conns[c] EXCEPT !.peer = "leaving"] ELSE conns[c]]

\* RemovePeer's request reaches the loop.
RunRemoveStatic(n) ==
    /\ pc = "select" /\ pc' = "schedule"
    /\ dial' = RemoveStatic(dial, n)
    /\ conns' = Disconnect({peers[n]})
    /\ UNCHANGED <<cfg, cur, running, queued, peers, inboundCount, listening, stop>>

\* A task came through taskdone.
RunTaskDone(r, results) ==
    /\ pc = "select" /\ pc' = "schedule"
    /\ r \in running /\ (r.task.kind = "dial" => r.c = 0)
    /\ dial' = TaskDone(dial, r.task, results)
    /\ running' = running \ {r}
    /\ UNCHANGED <<cfg, cur, queued, peers, inboundCount, conns, listening, stop>>

\* The loop takes a connection from posthandshake, and marks the trusted ones.
Flagged(k) == IF k.id \in cfg.trusted THEN k.flags \cup {"trusted"} ELSE k.flags
RunPosthandshake(c) ==
    /\ pc = "select" /\ pc' = "check"
    /\ conns[c].setup = "post"
    /\ conns' = [conns EXCEPT ![c] = [@ EXCEPT !.setup = "postwait", !.flags = Flagged(conns[c])]]
    /\ cur' = [c |-> c, err |-> "none"]
    /\ UNCHANGED <<cfg, dial, running, queued, peers, inboundCount, listening, stop>>

\* The loop takes a connection from addpeer.
RunAddpeer(c) ==
    /\ pc = "select" /\ pc' = "check"
    /\ conns[c].setup = "add"
    /\ conns' = [conns EXCEPT ![c] = [@ EXCEPT !.setup = "addwait"]]
    /\ cur' = [c |-> c, err |-> "none"]
    /\ UNCHANGED <<cfg, dial, running, queued, peers, inboundCount, listening, stop>>

\* encHandshakeChecks.
EncHandshakeChecks(k) ==
    IF k.flags \cap {"trusted", "static"} = {} /\ Cardinality(Connected) >= cfg.maxPeers
    THEN "too many peers"
    ELSE IF "trusted" \notin k.flags /\ "inbound" \in k.flags
            /\ inboundCount >= MaxInboundConns(cfg)
    THEN "too many peers"
    ELSE IF peers[k.id] # 0 THEN "already connected"
    ELSE IF k.id = Self THEN "is self"
    ELSE "none"

\* The last two cases need Self(), which takes srv.lock.
ChecksCallSelf(k) == EncHandshakeChecks(k) \in {"is self", "none"}

\* Mutant of ProtoHandshakeChecks: the first checks are not repeated.
ProtoHandshakeChecksOnce(k, useless) == IF useless THEN "useless peer" ELSE "none"

\* protoHandshakeChecks: the capabilities, and the first checks once more.
ProtoHandshakeChecks(k, useless) ==
    IF useless THEN "useless peer" ELSE EncHandshakeChecks(k)

\* The checks after the encryption handshake.
RunEncChecks ==
    /\ pc = "check" /\ pc' = "answer"
    /\ LET k == conns[cur.c]
       IN  /\ k.setup = "postwait"
           /\ ChecksCallSelf(k) => LockFree
           /\ cur' = [cur EXCEPT !.err = EncHandshakeChecks(k)]
    /\ UNCHANGED <<cfg, dial, running, queued, peers, inboundCount, conns, listening, stop>>

\* The checks after the protocol handshake, and the new peer when they pass.
RunProtoChecks(useless) ==
    /\ pc = "check" /\ pc' = "answer"
    /\ LET k == conns[cur.c]
           err == ProtoHandshakeChecks(k, useless)
       IN  /\ k.setup = "addwait"
           /\ ~useless /\ ChecksCallSelf(k) => LockFree
           /\ cur' = [cur EXCEPT !.err = err]
           /\ IF err = "none"
              THEN /\ conns' = [conns EXCEPT ![cur.c] = [@ EXCEPT !.peer = "up"]]
                   /\ peers' = [peers EXCEPT ![k.id] = cur.c]
                   /\ inboundCount' = inboundCount + (IF "inbound" \in k.flags THEN 1 ELSE 0)
              ELSE UNCHANGED <<conns, peers, inboundCount>>
    /\ UNCHANGED <<cfg, dial, running, queued, listening, stop>>

\* SetupConn returns: the connection is closed unless a peer runs on it, and
\* the task that dialled it, if any, goes to taskdone.
Settled(k) == IF k.peer = "none" THEN Free ELSE [k EXCEPT !.setup = "none"]
EndSetup(c) ==
    /\ conns' = [conns EXCEPT ![c] = Settled(@)]
    /\ running' = {[task |-> r.task, c |-> IF r.c = c THEN 0 ELSE r.c] : r \in running}

\* The answer reaches SetupConn: the next handshake, or the end of the setup.
RunAnswer ==
    /\ pc = "answer" /\ pc' = "schedule"
    /\ IF conns[cur.c].setup = "postwait" /\ cur.err = "none"
       THEN /\ conns' = [conns EXCEPT ![cur.c] = [@ EXCEPT !.setup = "proto"]]
            /\ UNCHANGED running
       ELSE EndSetup(cur.c)
    /\ cur' = NoConn
    /\ UNCHANGED <<cfg, dial, queued, peers, inboundCount, listening, stop>>

\* The inbound count when the peer of connection k is dropped.
CountPeerOut(k) == inboundCount - (IF "inbound" \in k.flags THEN 1 ELSE 0)

\* The goroutine of a peer has sent itself to delpeer.
Left(k) == IF k.setup = "none" THEN Free ELSE [k EXCEPT !.peer = "none"]
DropPeer(c) ==
    /\ conns[c].peer = "leaving"
    /\ peers' = [peers EXCEPT ![conns[c].id] = 0]
    /\ conns' = [conns EXCEPT ![c] = Left(@)]

RunDelpeer(c) ==
    /\ pc = "select" /\ pc' = "schedule"
    /\ DropPeer(c)
    /\ inboundCount' = CountPeerOut(conns[c])
    /\ UNCHANGED <<cfg, cur, dial, running, queued, listening, stop>>

\* The loop sees that quit is closed, waiting for an event or giving an
\* answer: all peers are told to leave.  The dialler and the tasks, local to
\* the loop, are not looked at again.
RunQuit ==
    /\ pc \in {"select", "answer"} /\ pc' = "spindown"
    /\ Quit
    /\ conns' = Disconnect({peers[i] : i \in Connected})
    /\ cur' = NoConn
    /\ dial' = NewDialState({}, <<>>, FALSE, 0) /\ running' = {} /\ queued' = <<>>
    /\ UNCHANGED <<cfg, peers, inboundCount, listening, stop>>

\* The loop waits for the peers to leave.
RunSpindown(c) ==
    /\ pc = "spindown" /\ UNCHANGED pc
    /\ DropPeer(c)
    /\ UNCHANGED <<cfg, cur, dial, running, queued, inboundCount, listening, stop>>

RunEnds ==
    /\ pc = "spindown" /\ pc' = "ended"
    /\ Connected = {}
    /\ UNCHANGED <<cfg, cur, dial, running, queued, peers, inboundCount, conns, listening, stop>>

-----------------------------------------------------------------------------
(* The other goroutines.                                                   *)

Accepted == {c \in Conns : "inbound" \in conns[c].flags /\ conns[c].setup # "none"}

\* listenLoop has a slot and accepts a connection; it ends once it has a slot
\* and the listener is closed.
Accept ==
    /\ listening /\ ~Quit
    /\ Cardinality(Accepted) < cfg.maxPendingPeers
    /\ FreeConns(conns) # {}
    /\ conns' = [conns EXCEPT ![NextConn(conns)] =
                    [Free EXCEPT !.setup = "enter", !.flags = {"inbound"}]]
    /\ UNCHANGED <<cfg, pc, cur, dial, running, queued, peers, inboundCount, listening, stop>>

ListenEnds ==
    /\ listening /\ Quit
    /\ Cardinality(Accepted) < cfg.maxPendingPeers
    /\ listening' = FALSE
    /\ UNCHANGED <<cfg, pc, cur, dial, running, queued, peers, inboundCount, conns, stop>>

\* dialTask.Do reaches the node, at once or after resolving its address.
DialSucceeds(c) ==
    /\ conns[c].setup = "dial"
    /\ conns' = [conns EXCEPT ![c] = [@ EXCEPT !.setup = "enter"]]
    /\ UNCHANGED <<cfg, pc, cur, dial, running, queued, peers, inboundCount, listening, stop>>

\* SetupConn up to the first checkpoint: the server runs and the encryption
\* handshake tells who the other side is.
EncHandshake(c, id) ==
    /\ conns[c].setup = "enter" /\ ~Quit
    /\ conns[c].id \in {id, NoId}
    /\ conns' = [conns EXCEPT ![c] = [@ EXCEPT !.setup = "post", !.id = id]]
    /\ UNCHANGED <<cfg, pc, cur, dial, running, queued, peers, inboundCount, listening, stop>>

\* The protocol handshake, with the same id.
ProtoHandshake(c) ==
    /\ conns[c].setup = "proto"
    /\ conns' = [conns EXCEPT ![c] = [@ EXCEPT !.setup = "add"]]
    /\ UNCHANGED <<cfg, pc, cur, dial, running, queued, peers, inboundCount, listening, stop>>

\* The dial or a handshake fails, or the server is found stopped.
SetupFails(c) ==
    /\ \/ conns[c].setup \in {"dial", "proto"}
       \/ conns[c].setup = "enter" /\ LockFree
    /\ EndSetup(c)
    /\ UNCHANGED <<cfg, pc, cur, dial, queued, peers, inboundCount, listening, stop>>

\* checkpoint sees that quit is closed.  The connection that run holds waits
\* for run's next step, which changes nothing for it.
CheckpointQuits(c) ==
    /\ Quit /\ c # cur.c
    /\ conns[c].setup \in {"post", "postwait", "add", "addwait"}
    /\ EndSetup(c)
    /\ UNCHANGED <<cfg, pc, cur, dial, queued, peers, inboundCount, listening, stop>>

\* Peer.run returns: the remote side left, or an error.
PeerReturns(c) ==
    /\ conns[c].peer = "up"
    /\ conns' = [conns EXCEPT ![c] = [@ EXCEPT !.peer = "leaving"]]
    /\ UNCHANGED <<cfg, pc, cur, dial, running, queued, peers, inboundCount, listening, stop>>

\* Stop closes the listener and quit, and waits for run and listenLoop with
\* srv.lock held.
Stop ==
    /\ stop = "no" /\ stop' = "waiting"
    /\ UNCHANGED <<cfg, pc, cur, dial, running, queued, peers, inboundCount, conns, listening>>

StopReturns ==
    /\ stop = "waiting" /\ stop' = "returned"
    /\ pc = "ended" /\ ~listening
    /\ UNCHANGED <<cfg, pc, cur, dial, running, queued, peers, inboundCount, conns, listening>>

\* Time: the oldest entry of the history expires, or fallbackInterval is over.
HistoryExpires ==
    /\ dial.due < Len(dial.hist)
    /\ dial' = [dial EXCEPT !.due = @ + 1]
    /\ UNCHANGED <<cfg, pc, cur, running, queued, peers, inboundCount, conns, listening, stop>>

FallbackDue ==
    /\ dial.start = "recent"
    /\ dial' = [dial EXCEPT !.start = "long"]
    /\ UNCHANGED <<cfg, pc, cur, running, queued, peers, inboundCount, conns, listening, stop>>

-----------------------------------------------------------------------------
RunTask == \E r \in running, results \in cfg.results : RunTaskDone(r, results)
RunConn == \E c \in Conns : RunPosthandshake(c) \/ RunAddpeer(c)
RunChecks == RunEncChecks \/ \E u \in BOOLEAN : RunProtoChecks(u)
RunPeers == \E c \in Conns : RunDelpeer(c) \/ RunSpindown(c)
RunStep ==
    \/ ScheduleTasks \/ RunTask
    \/ RunConn \/ RunChecks \/ RunAnswer
    \/ RunPeers
    \/ RunQuit \/ RunEnds

Caller == Stop \/ \E n \in cfg.operands : RunAddStatic(n) \/ RunRemoveStatic(n)

ConnStep(c) ==
    \/ DialSucceeds(c) \/ (\E id \in Ids : EncHandshake(c, id)) \/ ProtoHandshake(c)
    \/ SetupFails(c) \/ CheckpointQuits(c)

Next ==
    \/ RunStep \/ Caller
    \/ Accept \/ ListenEnds
    \/ \E c \in Conns : ConnStep(c) \/ PeerReturns(c)
    \/ StopReturns
    \/ HistoryExpires \/ FallbackDue

\* Goroutines and timers make progress: dials and handshakes have time limits,
\* and Go's select chooses at random among the channels that are ready, so a
\* sender that stays ready is served if the loop comes back again and again.
\* scheduleTasks never blocks: the loop does not stay in it.
Fairness ==
    /\ []<>(pc # "schedule")
    /\ WF_vars(RunChecks) /\ WF_vars(RunAnswer) /\ WF_vars(RunEnds)
    /\ SF_vars(RunTask) /\ SF_vars(RunConn) /\ SF_vars(RunPeers) /\ SF_vars(RunQuit)
    /\ \A c \in Conns : WF_vars(ConnStep(c))
    /\ WF_vars(ListenEnds) /\ WF_vars(StopReturns) /\ WF_vars(HistoryExpires)

Spec == Init /\ [][Next]_vars /\ Fairness

-----------------------------------------------------------------------------
(* Properties.                                                             *)

\* Types; inboundCount never falls below zero, whatever order peers leave in.
TypeOK ==
    /\ cfg \in Configs
    /\ pc \in {"schedule", "select", "check", "answer", "spindown", "ended"}
    /\ cur.c \in Conns \cup {0}
    /\ dial.static \subseteq Ids /\ dial.hist \in Seq(Ids) /\ dial.due \in 0..Len(dial.hist)
    /\ dial.dialing \in [Ids -> DialFlags \cup {"none"}]
    /\ \A r \in running : r.c \in Conns \cup {0}
    /\ peers \in [Ids -> Conns \cup {0}]
    /\ inboundCount \in Nat
    /\ conns \in [Conns ->
         [setup : {"none", "dial", "enter", "post", "postwait", "proto", "add", "addwait"},
          peer : {"none", "up", "leaving"}, id : Ids \cup {NoId}, flags : SUBSET ConnFlags]]
    /\ listening \in BOOLEAN
    /\ stop \in {"no", "waiting", "returned"}

\* The peers map and the peers' goroutines agree at all times: a node has at
\* most one peer, every goroutine of a peer is in the map under its id, and the
\* map has no peer whose goroutine is gone.  delpeer deletes by id alone, so
\* two peers of a node would remove each other.
PeersMatch ==
    /\ \A c \in Conns : conns[c].peer # "none" => peers[conns[c].id] = c
    /\ \A i \in Connected : conns[peers[i]].id = i /\ conns[peers[i]].peer # "none"

\* The limits hold although a connection is checked long before it is added:
\* MaxPeers for the peers that are neither static nor trusted, and the inbound
\* share for the inbound peers that are not trusted.  inboundCount, kept beside
\* the map, is the number of inbound peers for as long as it is used.
PeerLimits ==
    /\ pc \notin {"spindown", "ended"} => inboundCount = Cardinality(PeersWith("inbound"))
    /\ Cardinality(Connected \ (PeersWith("static") \cup PeersWith("trusted"))) <= cfg.maxPeers
    /\ Cardinality(PeersWith("inbound") \ PeersWith("trusted")) <= MaxInboundConns(cfg)

DialTasks(i) == {r \in running : r.task.kind = "dial" /\ r.task.id = i}
QueuedDials(i) == {k \in 1..Len(queued) : queued[k].kind = "dial" /\ queued[k].id = i}

\* The dialler knows what is under way: a node is marked exactly while one
\* task, running or queued, dials it; a node of the history is not dialled and
\* is in it once.
DialsTracked ==
    /\ \A i \in Ids :
         Cardinality(DialTasks(i)) + Cardinality(QueuedDials(i))
           = IF dial.dialing[i] = "none" THEN 0 ELSE 1
    /\ \A i \in ToSet(dial.hist) : dial.dialing[i] = "none"
    /\ Cardinality(ToSet(dial.hist)) = Len(dial.hist)

\* A node is never dialled while a connection that we dialled to it is being
\* set up or is a peer: a task ends only after its peer was added or discarded.
OneDialPerNode ==
    \A i \in Ids :
      Cardinality({c \in Conns : conns[c].id = i /\ conns[c].flags \cap DialFlags # {}}) <= 1

\* Dynamic dials and the peers that came from them never exceed their share.
DynamicShare ==
    Cardinality(PeersWith("dyn") \cup {i \in Ids : dial.dialing[i] = "dyn"})
      <= MaxDialedConns(cfg)

\* When Stop has returned, all peers are gone, as it promises.
StoppedEmpty == stop = "returned" => \A c \in Conns : conns[c].peer = "none"

\* The loop's books: types, the peers map, the limits and the end.
ServerSound == TypeOK /\ PeersMatch /\ PeerLimits /\ StoppedEmpty

\* The dialler's books.
DialsSound == DialsTracked /\ OneDialPerNode /\ DynamicShare

\* A static node that is not connected is dialled again, whatever the loop does.
StaticRedialled ==
    \A n \in Ids \ {Self} :
      n \in dial.static ~> \/ n \in Connected \/ dial.dialing[n] # "none"
                           \/ n \notin dial.static \/ Quit

\* Stop returns ("It blocks until all active connections have been closed").
StopTerminates == stop = "waiting" ~> stop = "returned"
=============================================================================
