--------------------------- MODULE NodeContainer ----------------------------
(***************************************************************************)
(* The node that runs services on a p2p server and offers their APIs       *)
(* (node/node.go, the endpoint methods of node/api.go).                    *)
(*                                                                         *)
(* Every operation holds the node's lock, so it is one step; what makes it *)
(* hard is where it fails: a constructor, the p2p server, a service or an  *)
(* endpoint, in any order (services is a map), after the earlier ones have *)
(* been started.  Only Wait and Restart let go of the lock in between.     *)
(***************************************************************************)
EXTENDS Integers, FiniteSets, Sequences, SequencesExt

CONSTANTS
    Kinds,      \* types of services
    Ports,      \* addresses HTTP and websocket endpoints may listen at
    Path,       \* the address of the IPC endpoint
    Waiters,    \* goroutines in Wait
    MaxFuncs,   \* bound on registered constructors
    MaxRuns,    \* bound on attempts to start
    Off

\* What the constants must satisfy.
NodeAssumption ==
    /\ {Off, Path} \cap Ports = {} /\ Off # Path
    /\ MaxFuncs \in Nat /\ MaxRuns \in Nat

VARIABLES
    persistent,    \* whether there is a data directory (Config.DataDir)
    funcs,         \* serviceFuncs, by the kind each constructs
    runs,          \* attempts to start so far; an attempt names what it starts
    server,        \* Node.server, or 0
    udpPort,       \* the p2p server's discovery: "none", at a "fixed" or at "any" port
    udpOpen,       \* attempts whose UDP socket is open and whose discovery runs
    udpLost,       \* attempts at which the p2p server failed after discovery began
    p2p,           \* p2p servers that run
    live,          \* services that run, <<attempt, kind>>
    dirLock,       \* instanceDirLock, and the lock itself
    inproc,        \* inprocHandler, or 0
    attached,      \* whether Attach has given out a client
    endpoint,      \* ipcEndpoint, httpEndpoint, wsEndpoint, or Off when disabled
    listener,      \* the address at which each of them listens, or Off
    open,          \* sockets that are open
    closedStops,   \* attempts whose stop channel is closed
    waits,         \* the attempt whose channel each waiter waits for, or 0
    restarting     \* Restart has stopped and not yet started

discoveryVars == <<udpPort, udpOpen, udpLost>>
nodeVars == <<persistent, funcs, runs, server, p2p, udpPort, udpOpen, udpLost, live, dirLock, inproc,
              attached, endpoint, listener, open, closedStops, waits, restarting>>

Endpoints == {"ipc", "http", "ws"}
Order == <<"ipc", "http", "ws">>

NodeInit ==
    /\ persistent \in BOOLEAN
    /\ funcs = <<>> /\ runs = 0 /\ server = 0
    /\ udpPort \in {"none", "fixed", "any"} /\ udpOpen = {} /\ udpLost = {}
    /\ p2p = {} /\ live = {} /\ dirLock = FALSE
    /\ inproc = 0 /\ attached = FALSE
    /\ endpoint \in [Endpoints -> Ports \cup {Path, Off}]
    /\ endpoint["ipc"] \notin Ports /\ Path \notin {endpoint["http"], endpoint["ws"]}
    /\ listener = [e \in Endpoints |-> Off] /\ open = {}
    /\ closedStops = {} /\ waits = [w \in Waiters |-> 0] /\ restarting = FALSE

rpcVars == <<inproc, endpoint, listener, open>>
otherVars == <<persistent, attached, closedStops, waits>>

Register(k) ==
    /\ server = 0 /\ Len(funcs) < MaxFuncs
    /\ funcs' = Append(funcs, k)
    /\ UNCHANGED <<persistent, runs, server, p2p, discoveryVars, live, dirLock, rpcVars, attached, closedStops, waits, restarting>>

-----------------------------------------------------------------------------
(* Start *)

Duplicate == \E i, j \in DOMAIN funcs : i # j /\ funcs[i] = funcs[j]

\* The endpoints that are the first n, and enabled.
Enabled(n) == {Order[i] : i \in 1 .. n} \cap {e \in Endpoints : endpoint[e] # Off}

\* startIPC, startHTTP and startWS fail when the address is taken, or for some
\* other reason (an API that cannot be registered).
Free(n) ==
    /\ \A e \in Enabled(n) : endpoint[e] \notin open
    /\ \A e, f \in Enabled(n) : endpoint[e] = endpoint[f] => e = f

\* startInProc of the attempt r; stopInProc.
StartInProc(r) == inproc' = r
StopInProc == inproc' = 0

\* The p2p server's Start opens its UDP socket: a fixed port may still be taken.
UdpFree == udpPort = "fixed" => udpOpen = {}
OpensUdp(r) == udpOpen' = udpOpen \cup (IF udpPort = "none" THEN {} ELSE {r})

\* Everything is up.
StartSucceeds(r) ==
    /\ ~Duplicate /\ UdpFree /\ Free(3)
    /\ server' = r /\ p2p' = p2p \cup {r} /\ OpensUdp(r)
    /\ live' = live \cup ({r} \X Range(funcs))
    /\ StartInProc(r)
    /\ listener' = [e \in Endpoints |-> IF e \in Enabled(3) THEN endpoint[e] ELSE listener[e]]
    /\ open' = open \cup {endpoint[e] : e \in Enabled(3)}
    /\ UNCHANGED udpLost

\* A constructor fails, or makes a second service of its type, or the p2p server
\* fails before it has its UDP socket: nothing is running yet.
StartEarlyFails == UNCHANGED <<server, p2p, udpOpen, udpLost, live, inproc, listener, open>>

\* The p2p server fails with its UDP socket open: its discovery does not start, or
\* does and then a fallback node is bad or the TCP address taken.  Nobody stops
\* that server or closes its socket.
ServerFails(r) ==
    /\ ~Duplicate /\ UdpFree /\ udpPort # "none"
    /\ OpensUdp(r) /\ udpLost' = udpLost \cup {r}
    /\ UNCHANGED <<server, p2p, live, inproc, listener, open>>

\* Mutant of ServiceFails: the services that did start are left running.
ServiceFailsLeaves(r) ==
    /\ ~Duplicate /\ UdpFree
    /\ \E started \in SUBSET Range(funcs), k \in Range(funcs) :
          k \notin started /\ live' = live \cup ({r} \X started)
    /\ UNCHANGED <<server, p2p, udpOpen, udpLost, inproc, listener, open>>

\* The service k fails to start after some others: those are stopped, and the
\* p2p server with its discovery.
ServiceFails(r) ==
    /\ ~Duplicate /\ UdpFree
    /\ \E started \in SUBSET Range(funcs), k \in Range(funcs) :
          k \notin started /\ live' = (live \cup ({r} \X started)) \ ({r} \X started)
    /\ UNCHANGED <<server, p2p, udpOpen, udpLost, inproc, listener, open>>

\* startRPC fails at the n-th endpoint (at 0, in startInProc): it closes the
\* ones it has opened, of whatever they listen to, and the in-process handler;
\* the services and the p2p server are stopped.
RpcFails(r) ==
    \E n \in 0 .. 3 :
        /\ ~Duplicate /\ UdpFree /\ (n > 0 => endpoint[Order[n]] # Off /\ Free(n - 1))
        /\ LET closes == {Order[i] : i \in 1 .. n - 1}
           IN  /\ listener' = [e \in Endpoints |-> IF e \in closes THEN Off ELSE listener[e]]
               /\ open' = open \ {listener[e] : e \in closes}
        /\ IF n = 0 THEN UNCHANGED inproc ELSE StopInProc
        /\ UNCHANGED <<server, p2p, udpOpen, udpLost, live>>

\* openDataDir: no directory, or one whose lock is free.
CanOpenDataDir == persistent => ~dirLock
OpenDataDir == dirLock' = persistent

\* Start: nothing when the node is running; a directory that is locked ends it;
\* a failure after that keeps the lock.
Start ==
    /\ runs < MaxRuns
    /\ restarting' = FALSE
    /\ IF server # 0 \/ ~CanOpenDataDir
       THEN UNCHANGED <<runs, server, p2p, udpOpen, udpLost, live, dirLock, inproc, listener, open>>
       ELSE /\ runs' = runs + 1
            /\ OpenDataDir
            /\ \/ StartSucceeds(runs + 1)
               \/ StartEarlyFails \/ ServerFails(runs + 1)
               \/ ServiceFails(runs + 1)
               \/ RpcFails(runs + 1)
    /\ UNCHANGED <<funcs, endpoint, udpPort, otherVars>>

-----------------------------------------------------------------------------
(* Stop, Restart and Wait *)

\* Stop: the endpoints, the services (some may fail to stop and count as gone),
\* the p2p server with its discovery, the directory; the in-process handler is left as it is.
StopNode ==
    /\ server # 0
    /\ listener' = [e \in Endpoints |-> Off]
    /\ open' = open \ {listener[e] : e \in Endpoints}
    /\ live' = live \ ({server} \X Kinds)
    /\ p2p' = p2p \ {server} /\ udpOpen' = udpOpen \ {server} /\ server' = 0
    /\ dirLock' = FALSE
    /\ closedStops' = closedStops \cup {server}
    /\ UNCHANGED <<persistent, funcs, runs, udpPort, udpLost, inproc, attached, endpoint, waits>>

Stop == StopNode /\ UNCHANGED restarting

\* Restart: Start follows, unless a service has failed to stop.
Restart == ~restarting /\ StopNode /\ restarting' = TRUE

Wait(w) ==
    /\ waits[w] = 0 /\ server # 0
    /\ waits' = [waits EXCEPT ![w] = server]
    /\ UNCHANGED <<persistent, funcs, runs, server, p2p, discoveryVars, live, dirLock, rpcVars, attached, closedStops, restarting>>

WaitReturns(w) ==
    /\ waits[w] \in closedStops
    /\ waits' = [waits EXCEPT ![w] = 0]
    /\ UNCHANGED <<persistent, funcs, runs, server, p2p, discoveryVars, live, dirLock, rpcVars, attached, closedStops, restarting>>

-----------------------------------------------------------------------------
(* Attach, and the admin API *)

Attach ==
    /\ server # 0 /\ ~attached /\ attached' = TRUE
    /\ UNCHANGED <<persistent, funcs, runs, server, p2p, discoveryVars, live, dirLock, rpcVars, closedStops, waits, restarting>>

\* StartRPC and StartWS, by a client of the in-process handler: also when the
\* node has been stopped since.
StartEndpoint(e, port) ==
    /\ attached /\ e \in {"http", "ws"}
    /\ listener[e] = Off /\ port \notin open
    /\ endpoint' = [endpoint EXCEPT ![e] = port]
    /\ listener' = [listener EXCEPT ![e] = port]
    /\ open' = open \cup {port}
    /\ UNCHANGED <<persistent, funcs, runs, server, p2p, discoveryVars, live, dirLock, inproc, attached, closedStops, waits, restarting>>

\* StopRPC and StopWS
StopEndpoint(e) ==
    /\ attached /\ e \in {"http", "ws"} /\ listener[e] # Off
    /\ open' = open \ {listener[e]}
    /\ listener' = [listener EXCEPT ![e] = Off]
    /\ UNCHANGED <<persistent, funcs, runs, server, p2p, discoveryVars, live, dirLock, inproc, attached, endpoint, closedStops, waits, restarting>>

NodeNext ==
    \/ \E k \in Kinds : Register(k)
    \/ Start \/ Stop \/ Restart \/ Attach
    \/ \E w \in Waiters : Wait(w) \/ WaitReturns(w)
    \/ \E e \in Endpoints : StopEndpoint(e) \/ \E p \in Ports : StartEndpoint(e, p)

NodeSpec == NodeInit /\ [][NodeNext]_nodeVars

-----------------------------------------------------------------------------
\* A node runs all of its services, its p2p server, its discovery and its
\* endpoints, or none of them, whatever part of Start failed (node.go:201,
\* "stopping all previous upon failure"), with two exceptions: an endpoint that
\* the admin API opened outlives Stop; and a p2p server that fails after
\* it opened its UDP socket leaves that open for good, in which case a node that
\* wants the same UDP port never runs again.  No socket of an endpoint is open that the
\* node has lost sight of, and nobody waits for the end of a run whose end has
\* gone by unannounced.
AllOrNothing ==
    /\ server = 0 => live = {} /\ p2p = {} /\ listener["ipc"] = Off
    /\ server # 0 => /\ live = {server} \X Range(funcs) /\ p2p = {server} /\ inproc = server
                     /\ dirLock = persistent
    /\ udpOpen = udpLost \cup (IF server # 0 /\ udpPort # "none" THEN {server} ELSE {})
    /\ udpPort = "fixed" /\ udpLost # {} => server = 0
    /\ open = {listener[e] : e \in Endpoints} \ {Off}
    /\ \A e, f \in Endpoints : e # f /\ listener[e] # Off => listener[e] # listener[f]
    /\ \A w \in Waiters : waits[w] # 0 => waits[w] \in closedStops \cup {server}
=============================================================================
