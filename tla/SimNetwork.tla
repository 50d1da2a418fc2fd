----------------------------- MODULE SimNetwork -----------------------------
(***************************************************************************)
(* A simulated network (p2p/simulations/network.go) of nodes that run in   *)
(* this process (adapters/inproc.go).  Callers (HTTP handlers, mockers,    *)
(* the control loop) create, start, stop, connect and disconnect nodes;    *)
(* Node.Up and Conn.Up are what the network believes.  What it believes of *)
(* connections comes from one watcher per started node, which reads the    *)
(* node's peer events through an RPC subscription and ends, at a moment of *)
(* its own, after the node's RPC client is closed.                         *)
(***************************************************************************)
EXTENDS Integers, Sequences, FiniteSets, Functions

CONSTANTS
    Callers,     \* goroutines that operate the network
    Nodes,       \* node configurations
    MaxStarts,   \* times nodes are started
    MaxLinks,    \* times a connection comes about
    None

VARIABLES
    made,     \* nodes created
    up,       \* up[n]: Node.Up
    run,      \* run[n]: the node's p2p server runs
    client,   \* client[n]: SimNode.client is set
    gen,      \* gen[n]: how often the node was started
    watch,    \* watch[n][g]: the watcher of the g-th start
    conn,     \* conn[p]: the network's Conn of the pair p
    link,     \* pairs that are connected
    wants,    \* wants[n]: static peers of n's server
    links,    \* connections so far
    seen,     \* pairs whose last connection some watcher was told of
    mixed,    \* nodes that two callers started or stopped at once
    call      \* call[c]: what a caller is doing

vars == <<made, up, run, client, gen, watch, conn, link, wants, links, seen, mixed, call>>

Pairs == {p \in SUBSET Nodes : Cardinality(p) = 2}
Peer(p, n) == CHOOSE m \in p : m # n

NoWatch == [st |-> "none", q |-> <<>>]
NoConn == [one |-> None, up |-> FALSE]
Idle == [op |-> "idle", on |-> None]

\* What the constants must satisfy.
SimAssumption == MaxStarts \in Nat /\ MaxLinks \in Nat /\ None \notin Nodes

TypeOK ==
    /\ made \subseteq Nodes /\ link \subseteq Pairs /\ seen \subseteq Pairs /\ mixed \subseteq made
    /\ {up, run, client} \subseteq [Nodes -> BOOLEAN]
    /\ gen \in [Nodes -> 0..MaxStarts] /\ links \in 0..MaxLinks
    /\ wants \in [Nodes -> SUBSET Nodes]
    /\ DOMAIN conn = Pairs /\ DOMAIN call = Callers /\ DOMAIN watch = Nodes

Init ==
    /\ made = {} /\ link = {} /\ seen = {} /\ mixed = {} /\ links = 0
    /\ up = [n \in Nodes |-> FALSE] /\ run = up /\ client = up
    /\ gen = [n \in Nodes |-> 0]
    /\ watch = [n \in Nodes |-> [g \in 1..MaxStarts |-> NoWatch]]
    /\ conn = [p \in Pairs |-> NoConn]
    /\ wants = [n \in Nodes |-> {}]
    /\ call = [c \in Callers |-> Idle]

MoreStarts == FoldFunction(+, 0, gen) < MaxStarts

Does(c, op, x) == call' = [call EXCEPT ![c] = [op |-> op, on |-> x]]
Returns(c) == call' = [call EXCEPT ![c] = Idle]

\* Nothing keeps a caller from starting or stopping a node another one is at.
Mixes(n) == mixed' = IF \E c \in Callers : call[c].on = n THEN mixed \cup {n} ELSE mixed

\* NewNodeWithConfig, and the adapter's NewNode: the ID must be new.
NewNode(c, n) ==
    /\ call[c] = Idle /\ n \notin made
    /\ made' = made \cup {n}
    /\ UNCHANGED <<up, run, client, gen, watch, conn, link, wants, links, seen, mixed, call>>

---------------------------------------------------------------------------
(* The peer events of a node: those of its server, while it runs.          *)

\* The watcher's client was closed by a Stop.
Closed(n, g) == ~ (client[n] /\ gen[n] = g)

\* The events reach the watcher whose subscription is in place.
Told(n, g) == run[n] /\ ~ Closed(n, g) /\ watch[n][g].st = "told"

\* Both servers emit an event of kind k about the pair p.
Emit(p, k, w) ==
    [n \in Nodes |-> [g \in 1..MaxStarts |->
        IF n \in p /\ Told(n, g)
        THEN [w[n][g] EXCEPT !.q = Append(@, [kind |-> k, peer |-> Peer(p, n)])]
        ELSE w[n][g]]]

\* addPeer made n dial m, and m's server takes the connection in.
Connects(n, m) ==
    /\ m \in wants[n] /\ run[n] /\ run[m] /\ {n, m} \notin link /\ links < MaxLinks
    /\ links' = links + 1 /\ link' = link \cup {{n, m}}
    /\ watch' = Emit({n, m}, "add", watch)
    /\ seen' = IF \E x \in {n, m}, g \in 1..MaxStarts : Told(x, g)
               THEN seen \cup {{n, m}} ELSE seen \ {{n, m}}
    /\ UNCHANGED <<made, up, run, client, gen, conn, wants, mixed, call>>

\* A connection breaks.
Breaks(p) ==
    /\ p \in link /\ link' = link \ {p} /\ watch' = Emit(p, "drop", watch)
    /\ UNCHANGED <<made, up, run, client, gen, conn, wants, links, seen, mixed, call>>

\* PeerEvents: the goroutine it starts subscribes after the call has returned.
Subscribed(n, g) ==
    /\ watch[n][g].st = "begun" /\ run[n] /\ ~ Closed(n, g)
    /\ watch' = [watch EXCEPT ![n][g].st = "told"]
    /\ UNCHANGED <<made, up, run, client, gen, conn, link, wants, links, seen, mixed, call>>

---------------------------------------------------------------------------
(* Start: the node is looked up and found down, its adapter starts it, it  *)
(* is marked as up, and a watcher subscribes to its events.                *)

Start(c, n) ==
    /\ call[c] = Idle /\ n \in made /\ ~ up[n] /\ MoreStarts
    /\ Does(c, "start", n) /\ Mixes(n)
    /\ UNCHANGED <<made, up, run, client, gen, watch, conn, link, wants, links, seen>>

\* SimNode.Start: the node may be running, or fail to start; else it does.
StartAdapter(c) ==
    LET n == call[c].on IN
    /\ call[c].op = "start"
    /\ \/ Returns(c) /\ UNCHANGED <<run, gen>>
       \/ /\ ~ run[n] /\ MoreStarts
          /\ run' = [run EXCEPT ![n] = TRUE] /\ gen' = [gen EXCEPT ![n] = @ + 1]
          /\ Does(c, "dialRPC", n)
    /\ UNCHANGED <<made, up, client, watch, conn, link, wants, links, seen, mixed>>

\* The node's own RPC client, unless the node was stopped meanwhile.
StartClient(c) ==
    LET n == call[c].on IN
    /\ call[c].op = "dialRPC"
    /\ client' = [client EXCEPT ![n] = run[n] \/ @]
    /\ IF run[n] THEN Does(c, "markUp", n) ELSE Returns(c)
    /\ UNCHANGED <<made, up, run, gen, watch, conn, link, wants, links, seen, mixed>>

StartMarkUp(c) ==
    LET n == call[c].on IN
    /\ call[c].op = "markUp"
    /\ up' = [up EXCEPT ![n] = TRUE] /\ Does(c, "watch", n)
    /\ UNCHANGED <<made, run, client, gen, watch, conn, link, wants, links, seen, mixed>>

\* A node that was stopped again has no client, or refuses the subscription.
StartWatch(c) ==
    LET n == call[c].on IN
    /\ call[c].op = "watch" /\ Returns(c)
    /\ watch' = IF client[n] /\ run[n]
                THEN [watch EXCEPT ![n][gen[n]].st = "begun"] ELSE watch
    /\ UNCHANGED <<made, up, run, client, gen, conn, link, wants, links, seen, mixed>>

---------------------------------------------------------------------------
(* Stop: the RPC client is closed before the node stops.                   *)

Stop(c, n) ==
    /\ call[c] = Idle /\ n \in made /\ up[n]
    /\ Does(c, "close", n) /\ Mixes(n)
    /\ UNCHANGED <<made, up, run, client, gen, watch, conn, link, wants, links, seen>>

StopClient(c) ==
    LET n == call[c].on IN
    /\ call[c].op = "close"
    /\ client' = [client EXCEPT ![n] = FALSE] /\ Does(c, "stop", n)
    /\ UNCHANGED <<made, up, run, gen, watch, conn, link, wants, links, seen, mixed>>

\* The server ends with its connections and static peers; the other side of
\* each connection sees it drop.  A node that does not run is an error, and so
\* is a service that fails to stop, which is reported once everything has been
\* stopped: Network.Stop then returns without marking the node as down.
StopNode(c) ==
    LET n == call[c].on
        cut == {p \in link : n \in p}
        drop(m) == [kind |-> "drop", peer |-> n]
    IN
    /\ call[c].op = "stop"
    /\ IF run[n]
       THEN /\ run' = [run EXCEPT ![n] = FALSE] /\ wants' = [wants EXCEPT ![n] = {}]
            /\ link' = link \ cut
            /\ watch' = [m \in Nodes |-> [g \in 1..MaxStarts |->
                  IF {n, m} \in cut /\ m # n /\ Told(m, g)
                  THEN [watch[m][g] EXCEPT !.q = Append(@, drop(m))] ELSE watch[m][g]]]
            /\ Does(c, "markDown", n) \/ Returns(c)
       ELSE Returns(c) /\ UNCHANGED <<run, wants, link, watch>>
    /\ UNCHANGED <<made, up, client, gen, conn, links, seen, mixed>>

StopMarkDown(c) ==
    LET n == call[c].on IN
    /\ call[c].op = "markDown"
    /\ up' = [up EXCEPT ![n] = FALSE] /\ Returns(c)
    /\ UNCHANGED <<made, run, client, gen, watch, conn, link, wants, links, seen, mixed>>

---------------------------------------------------------------------------
(* Connections.                                                            *)

\* getOrCreateConn; ConnLabel is the same for both orders of a pair.
OrCreate(n, p) == IF conn[p].one = None THEN [conn[p] EXCEPT !.one = n] ELSE conn[p]

\* Conn.nodesUp.
NodesUp(p) == \A n \in p : up[n]

\* InitConn: the Conn is down and both nodes are up.  An attempt is refused for
\* dialBanTimeout after another one, which is when this step is not taken.
InitConn(c, n, m) ==
    LET k == OrCreate(n, {n, m}) IN
    /\ call[c] = Idle /\ n # m /\ {n, m} \subseteq made
    /\ conn' = [conn EXCEPT ![{n, m}] = k]
    /\ IF ~ k.up /\ NodesUp({n, m}) THEN Does(c, "add", {n, m}) ELSE UNCHANGED call
    /\ UNCHANGED <<made, up, run, client, gen, watch, link, wants, links, seen, mixed>>

\* AddPeer and RemovePeer of the admin API at n, if it runs.
AddPeer(n, m) ==
    wants' = IF client[n] /\ run[n] THEN [wants EXCEPT ![n] = @ \cup {m}] ELSE wants

RemovePeer(n, m) ==
    /\ wants' = IF client[n] /\ run[n] THEN [wants EXCEPT ![n] = @ \ {m}] ELSE wants
    /\ IF client[n] /\ run[n] /\ {n, m} \in link
       THEN link' = link \ {{n, m}} /\ watch' = Emit({n, m}, "drop", watch)
       ELSE UNCHANGED <<link, watch>>

\* Connect goes on with admin_addPeer, called at the node the Conn names first.
ConnectAdd(c) ==
    LET p == call[c].on
        n == conn[p].one IN
    /\ call[c].op = "add" /\ Returns(c)
    /\ AddPeer(n, Peer(p, n))
    /\ UNCHANGED <<made, up, run, client, gen, watch, conn, link, links, seen, mixed>>

Disconnect(c, p) ==
    /\ call[c] = Idle /\ conn[p].one # None /\ conn[p].up
    /\ Does(c, "remove", p)
    /\ UNCHANGED <<made, up, run, client, gen, watch, conn, link, wants, links, seen, mixed>>

\* Disconnect goes on with admin_removePeer: no longer static, and cut off.
DisconnectRemove(c) ==
    LET p == call[c].on
        n == conn[p].one IN
    /\ call[c].op = "remove" /\ Returns(c)
    /\ RemovePeer(n, Peer(p, n))
    /\ UNCHANGED <<made, up, run, client, gen, conn, links, seen, mixed>>

---------------------------------------------------------------------------
(* watchPeerEvents.                                                        *)

\* DidConnect and DidDisconnect.
DidConnect(n, p) == [OrCreate(n, p) EXCEPT !.up = TRUE]
DidDisconnect(p) == [conn[p] EXCEPT !.up = FALSE]

\* Mutant: the latest event first.
HandleEventLast(n, g) ==
    LET q == watch[n][g].q
        e == q[Len(q)]
        p == {n, e.peer} IN
    /\ q # <<>>
    /\ conn' = [conn EXCEPT ![p] = IF e.kind = "add" THEN DidConnect(n, p) ELSE DidDisconnect(p)]
    /\ watch' = [watch EXCEPT ![n][g].q = SubSeq(q, 1, Len(q) - 1)]
    /\ UNCHANGED <<made, up, run, client, gen, link, wants, links, seen, mixed, call>>

HandleEvent(n, g) ==
    LET e == Head(watch[n][g].q)
        p == {n, e.peer} IN
    /\ watch[n][g].q # <<>>
    /\ conn' = [conn EXCEPT ![p] = IF e.kind = "add" THEN DidConnect(n, p) ELSE DidDisconnect(p)]
    /\ watch' = [watch EXCEPT ![n][g].q = Tail(@)]
    /\ UNCHANGED <<made, up, run, client, gen, link, wants, links, seen, mixed, call>>

\* The subscription ends with its client; whatever is queued is lost, and the
\* node counts as down.
WatchEnds(n, g) ==
    /\ watch[n][g].st \in {"begun", "told"} /\ Closed(n, g)
    /\ watch' = [watch EXCEPT ![n][g] = [st |-> "ended", q |-> <<>>]]
    /\ up' = [up EXCEPT ![n] = FALSE]
    /\ UNCHANGED <<made, run, client, gen, conn, link, wants, links, seen, mixed, call>>

---------------------------------------------------------------------------

Control(c) ==
    \/ \E n \in Nodes : NewNode(c, n) \/ Start(c, n) \/ Stop(c, n)
    \/ \E n, m \in Nodes : InitConn(c, n, m)
    \/ \E p \in Pairs : Disconnect(c, p)

Continue(c) ==
    \/ StartAdapter(c) \/ StartClient(c) \/ StartMarkUp(c) \/ StartWatch(c)
    \/ StopClient(c) \/ StopNode(c) \/ StopMarkDown(c)
    \/ ConnectAdd(c) \/ DisconnectRemove(c)

Watcher(n, g) ==
    Subscribed(n, g) \/ HandleEvent(n, g) \/ WatchEnds(n, g)

Next ==
    \/ \E c \in Callers : Control(c) \/ Continue(c)
    \/ \E n \in Nodes, g \in 1..MaxStarts : Watcher(n, g)
    \/ \E n, m \in Nodes : Connects(n, m)
    \/ \E p \in Pairs : Breaks(p)

Spec == Init /\ [][Next]_vars

---------------------------------------------------------------------------

\* A caller has yet to mark n as down.
MarkingDown(n) == \E c \in Callers : call[c] = [op |-> "markDown", on |-> n]

\* A watcher of n has lost its client and will mark n as down when it ends.
Ending(n) ==
    \E g \in 1..MaxStarts : watch[n][g].st \in {"begun", "told"} /\ Closed(n, g)

\* A node that counts as up runs, or somebody is about to mark it as down: the
\* caller that stopped it or, where a service failed to stop and Stop returned
\* early, the watcher of its events.  Two callers that start or stop one node at
\* once may leave it otherwise.
UpRuns == \A n \in Nodes : up[n] => run[n] \/ MarkingDown(n) \/ Ending(n) \/ n \in mixed

\* Nothing is on its way to the network about the pair p.
Settled(p) ==
    \A n \in p, g \in 1..MaxStarts : watch[n][g].q = <<>>

\* Both nodes of a connection report it, each through a watcher of its own and
\* at its own pace, and either report changes the one Conn.  Between nodes that
\* were never stopped, once both have been heard, Conn.Up is the truth, if one
\* of the watchers was there to be told of the connection.
ConnsTrue ==
    \A p \in Pairs :
        (/\ p \in seen /\ Settled(p)
         /\ \A n \in p : gen[n] = 1 /\ run[n] /\ client[n]) => conn[p].up = (p \in link)

\* What the network says of its nodes and connections is so (network.go).
SimulationSound == UpRuns /\ ConnsTrue
=============================================================================
