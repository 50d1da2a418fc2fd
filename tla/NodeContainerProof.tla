------------------------- MODULE NodeContainerProof --------------------------
(***************************************************************************)
(* Proofs about NodeContainer, for any services, addresses and waiters and *)
(* any number of attempts to start.                                        *)
(*                                                                         *)
(* AllOrNothing is not inductive: a failing startRPC closes whatever the   *)
(* endpoints before the failing one listen to, and a successful one writes *)
(* over their listeners.  Neither loses a socket, because an endpoint that *)
(* listens does so at its configured address, and Start has just found     *)
(* that address free (ListensAtEndpoint).  Nor does it say that a run is   *)
(* not one of the attempts that left their discovery behind, which holds   *)
(* because every attempt has a number of its own (Discovery).              *)
(***************************************************************************)
EXTENDS NodeContainer, TLAPS

Addresses == Ports \cup {Path, Off}

TypeOK ==
    /\ persistent \in BOOLEAN /\ dirLock \in BOOLEAN
    /\ funcs \in Seq(Kinds)
    /\ runs \in Nat /\ server \in Nat
    /\ endpoint \in [Endpoints -> Addresses]
    /\ listener \in [Endpoints -> Addresses]
    /\ waits \in [Waiters -> Nat]

\* An endpoint listens at the address it is configured with.
ListensAtEndpoint == \A e \in Endpoints : listener[e] # Off => listener[e] = endpoint[e]

\* The parts of AllOrNothing.
Services ==
    /\ server = 0 => live = {} /\ p2p = {}
    /\ server # 0 => /\ live = {server} \X Range(funcs) /\ p2p = {server} /\ inproc = server
                     /\ dirLock = persistent

Sockets ==
    /\ server = 0 => listener["ipc"] = Off
    /\ open = {listener[e] : e \in Endpoints} \ {Off}
    /\ \A e, f \in Endpoints : e # f /\ listener[e] # Off => listener[e] # listener[f]

Discovery ==
    /\ udpOpen = udpLost \cup (IF server # 0 /\ udpPort # "none" THEN {server} ELSE {})
    /\ udpPort = "fixed" /\ udpLost # {} => server = 0
    /\ udpLost \subseteq 1 .. runs /\ server <= runs /\ server \notin udpLost

WaitsSound == \A w \in Waiters : waits[w] # 0 => waits[w] \in closedStops \cup {server}

IInv == TypeOK /\ ListensAtEndpoint /\ Services /\ Sockets /\ Discovery /\ WaitsSound

LEMMA InitInv ==
    ASSUME NodeAssumption, NodeInit
    PROVE  IInv
<1>1. TypeOK
  <2>1. persistent \in BOOLEAN /\ dirLock \in BOOLEAN
    BY DEF NodeInit
  <2>2. endpoint \in [Endpoints -> Addresses] /\ listener \in [Endpoints -> Addresses]
    BY DEF NodeInit, Addresses
  <2>3. funcs \in Seq(Kinds) /\ waits \in [Waiters -> Nat]
    BY DEF NodeInit
  <2> QED
    BY <2>1, <2>2, <2>3 DEF NodeInit, TypeOK
<1>2. ListensAtEndpoint /\ Services /\ Sockets /\ WaitsSound
  BY DEF NodeInit, ListensAtEndpoint, Services, Sockets, WaitsSound, Endpoints
<1>3. Discovery
  BY DEF NodeInit, Discovery
<1> QED
  BY <1>1, <1>2, <1>3 DEF IInv

LEMMA EndpointOrder ==
    /\ \A n \in 0 .. 3 : Enabled(n) \subseteq Endpoints
    /\ \A n \in 0 .. 3 : {Order[i] : i \in 1 .. n} \subseteq Endpoints
    /\ \A n \in 0 .. 3 : \A e \in {Order[i] : i \in 1 .. n} : endpoint[e] # Off => e \in Enabled(n)
    /\ \A e \in Endpoints : endpoint[e] # Off => e \in Enabled(3)
    /\ \A n \in 0 .. 3 : \A e \in Enabled(n) : endpoint[e] # Off
<1>1. \A n \in 0 .. 3 : Enabled(n) \subseteq Endpoints
  BY DEF Enabled
<1>2. \A n \in 0 .. 3 : \A i \in 1 .. n : i \in {1, 2, 3}
  OBVIOUS
<1>3. Order[1] = "ipc" /\ Order[2] = "http" /\ Order[3] = "ws"
  BY DEF Order
<1>4. \A n \in 0 .. 3 : {Order[i] : i \in 1 .. n} \subseteq Endpoints
  BY <1>2, <1>3 DEF Endpoints
<1>5. \A n \in 0 .. 3 : \A e \in {Order[i] : i \in 1 .. n} : endpoint[e] # Off => e \in Enabled(n)
  BY <1>4 DEF Enabled
<1>6. \A e \in Endpoints : e \in {Order[i] : i \in 1 .. 3}
  <2>1. 1 \in 1 .. 3 /\ 2 \in 1 .. 3 /\ 3 \in 1 .. 3
    OBVIOUS
  <2> QED
    BY <1>3, <2>1 DEF Endpoints
<1>7. 3 \in 0 .. 3
  OBVIOUS
<1> QED
  BY <1>1, <1>4, <1>5, <1>6, <1>7 DEF Enabled

\* An enabled endpoint whose address is free does not listen.
LEMMA FreeIsQuiet ==
    ASSUME IInv, NEW n \in 0 .. 3, Free(n), NEW e \in {Order[i] : i \in 1 .. n}
    PROVE  listener[e] = Off
<1> SUFFICES ASSUME listener[e] # Off PROVE FALSE
  OBVIOUS
<1>1. e \in Endpoints
  BY EndpointOrder
<1>2. listener[e] = endpoint[e] /\ listener[e] \in open
  BY <1>1 DEF IInv, ListensAtEndpoint, Sockets
<1>3. e \in Enabled(n)
  BY <1>2, EndpointOrder
<1> QED
  BY <1>2, <1>3 DEF Free

\* startRPC succeeds: every endpoint was quiet, and the enabled ones listen.
LEMMA SucceedsInv ==
    ASSUME NodeAssumption, IInv, Start, server = 0, CanOpenDataDir, StartSucceeds(runs + 1)
    PROVE  IInv'
<1>1. /\ UNCHANGED <<persistent, attached, closedStops, waits, funcs, endpoint, udpPort>>
      /\ runs' = runs + 1 /\ dirLock' = persistent
  BY DEF Start, OpenDataDir, otherVars
<1>2. /\ server' = runs + 1 /\ server' # 0 /\ p2p' = {server'} /\ inproc' = server'
      /\ live' = {server'} \X Range(funcs)
  <2>1. live = {} /\ p2p = {} /\ runs + 1 # 0
    BY DEF IInv, Services, TypeOK
  <2> QED
    BY <2>1 DEF StartSucceeds, StartInProc
<1>3. \A e \in Endpoints : listener[e] = Off
  <2>1. \A e \in Endpoints : listener[e] # Off => e \in Enabled(3) /\ endpoint[e] \in open
    BY EndpointOrder DEF IInv, ListensAtEndpoint, Sockets
  <2> QED
    BY <2>1 DEF StartSucceeds, Free
<1>4. \A e \in Endpoints : listener'[e] = endpoint[e]
  <2>1. \A e \in Endpoints : e \in Enabled(3) \/ endpoint[e] = Off
    BY EndpointOrder
  <2> QED
    BY <1>3, <2>1 DEF StartSucceeds
<1>5. TypeOK'
  <2>1. listener' \in [Endpoints -> Addresses]
    BY DEF StartSucceeds, IInv, TypeOK
  <2> QED
    BY <1>1, <1>2, <2>1 DEF IInv, TypeOK
<1>6. Sockets'
  <2>1. open = {}
    BY <1>3 DEF IInv, Sockets
  <2>2. open' = {listener'[e] : e \in Endpoints} \ {Off}
    <3>1. open' = {endpoint[e] : e \in Enabled(3)}
      BY <2>1 DEF StartSucceeds
    <3>2. \A e \in Endpoints : e \in Enabled(3) <=> endpoint[e] # Off
      BY EndpointOrder DEF Enabled
    <3>3. Enabled(3) \subseteq Endpoints
      BY DEF Enabled
    <3> QED
      BY <1>4, <3>1, <3>2, <3>3
  <2>3. \A e, f \in Endpoints : e # f /\ listener'[e] # Off => listener'[e] # listener'[f]
    BY <1>4, EndpointOrder DEF StartSucceeds, Free
  <2> QED
    BY <1>2, <2>2, <2>3 DEF Sockets
<1>7. ListensAtEndpoint'
  BY <1>1, <1>4 DEF ListensAtEndpoint
<1>8. Services'
  BY <1>1, <1>2 DEF Services
<1>9. WaitsSound'
  BY <1>1 DEF WaitsSound, IInv, TypeOK
<1>10. Discovery'
  <2>1. runs \in Nat /\ udpLost \subseteq 1 .. runs /\ udpOpen = udpLost
    BY DEF IInv, TypeOK, Discovery
  <2>2. udpLost' = udpLost /\ runs + 1 \notin udpLost /\ udpLost \subseteq 1 .. runs + 1
    BY <2>1 DEF StartSucceeds
  <2>3. udpPort = "fixed" => udpLost = {}
    BY <2>1 DEF StartSucceeds, UdpFree
  <2>4. udpOpen' = udpLost \cup (IF udpPort # "none" THEN {runs + 1} ELSE {})
    BY <2>1 DEF StartSucceeds, OpensUdp
  <2>5. udpOpen' = udpLost' \cup (IF server' # 0 /\ udpPort' # "none" THEN {server'} ELSE {})
    BY <1>1, <1>2, <2>2, <2>4
  <2>6. udpPort' = "fixed" /\ udpLost' # {} => server' = 0
    BY <1>1, <2>2, <2>3
  <2>7. udpLost' \subseteq 1 .. runs' /\ server' <= runs' /\ server' \notin udpLost'
    BY <1>1, <1>2, <2>1, <2>2
  <2> QED
    BY <2>5, <2>6, <2>7 DEF Discovery
<1> QED
  BY <1>5, <1>6, <1>7, <1>8, <1>9, <1>10 DEF IInv

\* Whatever of Start fails, nothing of it stays but the discovery of a p2p server
\* that failed after beginning it.
LEMMA FailsInv ==
    ASSUME NodeAssumption, IInv, Start, server = 0, CanOpenDataDir,
           \/ StartEarlyFails \/ ServerFails(runs + 1)
           \/ ServiceFails(runs + 1) \/ RpcFails(runs + 1)
    PROVE  IInv'
<1>1. /\ UNCHANGED <<persistent, attached, closedStops, waits, funcs, endpoint, udpPort>>
      /\ runs' = runs + 1 /\ dirLock' = persistent
  BY DEF Start, OpenDataDir, otherVars
<1>2. UNCHANGED <<server, p2p, live>>
  <2>1. live = {}
    BY DEF IInv, Services
  <2> QED
    BY <2>1 DEF StartEarlyFails, ServerFails, ServiceFails, RpcFails
<1>3. UNCHANGED <<listener, open>>
  <2>1. CASE RpcFails(runs + 1)
    <3>1. PICK n \in 0 .. 3 :
             /\ n > 0 => Free(n - 1)
             /\ listener' = [e \in Endpoints |->
                   IF e \in {Order[i] : i \in 1 .. n - 1} THEN Off ELSE listener[e]]
             /\ open' = open \ {listener[e] : e \in {Order[i] : i \in 1 .. n - 1}}
      BY <2>1 DEF RpcFails
    <3> DEFINE closes == {Order[i] : i \in 1 .. n - 1}
    <3>2. \A e \in closes : listener[e] = Off
      <4>1. CASE n = 0
        BY <4>1
      <4>2. CASE n > 0
        <5>1. n - 1 \in 0 .. 3 /\ Free(n - 1)
          BY <3>1, <4>2
        <5> QED
          BY <5>1, FreeIsQuiet
      <4> QED
        BY <4>1, <4>2
    <3>3. Off \notin open
      BY DEF IInv, Sockets
    <3> HIDE DEF closes
    <3>4. /\ listener' = [e \in Endpoints |-> IF e \in closes THEN Off ELSE listener[e]]
          /\ open' = open \ {listener[e] : e \in closes}
      BY <3>1 DEF closes
    <3>5. open' = open
      BY <3>2, <3>3, <3>4
    <3>6. listener' = listener
      BY <3>2, <3>4 DEF IInv, TypeOK
    <3> QED
      BY <3>5, <3>6
  <2> QED
    BY <2>1 DEF StartEarlyFails, ServerFails, ServiceFails
<1>4. TypeOK'
  BY <1>1, <1>2, <1>3 DEF IInv, TypeOK
<1>5. ListensAtEndpoint' /\ Services' /\ Sockets' /\ WaitsSound'
  BY <1>1, <1>2, <1>3 DEF IInv, ListensAtEndpoint, Services, Sockets, WaitsSound
<1>6. Discovery'
  <2>1. runs \in Nat /\ udpLost \subseteq 1 .. runs /\ udpOpen = udpLost
    BY DEF IInv, TypeOK, Discovery
  <2>2. CASE ServerFails(runs + 1)
    <3>1. udpLost' = udpLost \cup {runs + 1} /\ udpOpen' = udpLost'
      BY <2>1, <2>2 DEF ServerFails, OpensUdp
    <3>2. udpLost' \subseteq 1 .. runs + 1 /\ 0 \notin udpLost'
      BY <2>1, <3>1
    <3> QED
      BY <1>1, <1>2, <2>1, <3>1, <3>2 DEF Discovery
  <2>3. CASE UNCHANGED <<udpOpen, udpLost>>
    <3>1. udpLost' \subseteq 1 .. runs + 1 /\ 0 \notin udpLost'
      BY <2>1, <2>3
    <3> QED
      BY <1>1, <1>2, <2>1, <2>3, <3>1 DEF Discovery
  <2> QED
    BY <2>2, <2>3 DEF StartEarlyFails, ServiceFails, RpcFails
<1> QED
  BY <1>4, <1>5, <1>6 DEF IInv

LEMMA StartInv ==
    ASSUME NodeAssumption, IInv, Start
    PROVE  IInv'
<1>1. CASE server # 0 \/ ~CanOpenDataDir
  <2>1. UNCHANGED <<persistent, attached, closedStops, waits, funcs, endpoint,
                    runs, server, p2p, udpPort, udpOpen, udpLost, live, dirLock, inproc,
                    listener, open>>
    BY <1>1 DEF Start, otherVars
  <2> QED
    BY <2>1 DEF IInv, TypeOK, ListensAtEndpoint, Services, Sockets, Discovery, WaitsSound
<1>2. CASE ~(server # 0 \/ ~CanOpenDataDir)
  <2>1. \/ StartSucceeds(runs + 1) \/ StartEarlyFails \/ ServerFails(runs + 1)
        \/ ServiceFails(runs + 1) \/ RpcFails(runs + 1)
    BY <1>2 DEF Start
  <2> QED
    BY <1>2, <2>1, SucceedsInv, FailsInv
<1> QED
  BY <1>1, <1>2

\* Stop takes all of it down, and tells the waiters of this run.
LEMMA StopInv ==
    ASSUME NodeAssumption, IInv, StopNode
    PROVE  IInv'
<1>1. Range(funcs) \subseteq Kinds
  BY DEF IInv, TypeOK, Range
<1>2. live' = {} /\ p2p' = {} /\ server' = 0
  BY <1>1 DEF IInv, Services, StopNode
<1>3. open' = {} /\ \A e \in Endpoints : listener'[e] = Off
  BY DEF IInv, Sockets, StopNode
<1>4. TypeOK'
  <2>1. listener' \in [Endpoints -> Addresses] /\ dirLock' \in BOOLEAN
    BY DEF StopNode, Addresses
  <2> QED
    BY <1>2, <2>1 DEF IInv, TypeOK, StopNode
<1>5. WaitsSound'
  BY DEF IInv, WaitsSound, StopNode
<1>6. ListensAtEndpoint' /\ Services' /\ Sockets'
  BY <1>2, <1>3 DEF ListensAtEndpoint, Services, Sockets, Endpoints
<1>7. Discovery'
  <2>1. runs \in Nat /\ udpLost \subseteq 1 .. runs /\ server \notin udpLost /\ server # 0
    BY DEF IInv, TypeOK, Discovery, StopNode
  <2>2. udpOpen' = udpLost
    BY <2>1 DEF IInv, Discovery, StopNode
  <2> QED
    BY <1>2, <2>1, <2>2 DEF Discovery, StopNode
<1> QED
  BY <1>4, <1>5, <1>6, <1>7 DEF IInv

LEMMA StartEndpointInv ==
    ASSUME NodeAssumption, IInv, NEW e \in Endpoints, NEW p \in Ports, StartEndpoint(e, p)
    PROVE  IInv'
<1>1. /\ \A f \in Endpoints : listener'[f] = IF f = e THEN p ELSE listener[f]
      /\ \A f \in Endpoints : endpoint'[f] = IF f = e THEN p ELSE endpoint[f]
      /\ e # "ipc" /\ p # Off /\ open' = open \cup {p} /\ p \notin open /\ listener[e] = Off
  BY DEF StartEndpoint, IInv, TypeOK, NodeAssumption
<1>2. TypeOK'
  BY DEF StartEndpoint, IInv, TypeOK, Addresses
<1>3. ListensAtEndpoint'
  BY <1>1 DEF IInv, ListensAtEndpoint
<1>4. Services' /\ Discovery' /\ WaitsSound'
  BY DEF StartEndpoint, IInv, Services, Discovery, WaitsSound, discoveryVars
<1>5. Sockets'
  <2>1. open = {listener[f] : f \in Endpoints} \ {Off}
    BY DEF IInv, Sockets
  <2>2. open' = {listener'[f] : f \in Endpoints} \ {Off}
    BY <1>1, <2>1
  <2>3. \A f \in Endpoints : listener[f] # Off => listener[f] # p
    BY <1>1, <2>1
  <2>4. \A f, g \in Endpoints : f # g /\ listener'[f] # Off => listener'[f] # listener'[g]
    BY <1>1, <2>3 DEF IInv, Sockets
  <2>5. server' = 0 => listener'["ipc"] = Off
    BY <1>1 DEF IInv, Sockets, StartEndpoint, Endpoints
  <2> QED
    BY <2>2, <2>4, <2>5 DEF Sockets
<1> QED
  BY <1>2, <1>3, <1>4, <1>5 DEF IInv

LEMMA StopEndpointInv ==
    ASSUME NodeAssumption, IInv, NEW e \in Endpoints, StopEndpoint(e)
    PROVE  IInv'
<1>1. /\ \A f \in Endpoints : listener'[f] = IF f = e THEN Off ELSE listener[f]
      /\ e # "ipc" /\ open' = open \ {listener[e]} /\ listener[e] # Off
      /\ UNCHANGED endpoint
  BY DEF StopEndpoint, IInv, TypeOK
<1>2. TypeOK'
  BY DEF StopEndpoint, IInv, TypeOK, Addresses
<1>3. ListensAtEndpoint'
  BY <1>1 DEF IInv, ListensAtEndpoint
<1>4. Services' /\ Discovery' /\ WaitsSound'
  BY DEF StopEndpoint, IInv, Services, Discovery, WaitsSound, discoveryVars
<1>5. Sockets'
  <2>1. /\ open = {listener[f] : f \in Endpoints} \ {Off}
        /\ \A f, g \in Endpoints : f # g /\ listener[f] # Off => listener[f] # listener[g]
    BY DEF IInv, Sockets
  <2>2. open' = {listener'[f] : f \in Endpoints} \ {Off}
    BY <1>1, <2>1
  <2>3. \A f, g \in Endpoints : f # g /\ listener'[f] # Off => listener'[f] # listener'[g]
    BY <1>1, <2>1
  <2>4. server' = 0 => listener'["ipc"] = Off
    BY <1>1 DEF IInv, Sockets, StopEndpoint, Endpoints
  <2> QED
    BY <2>2, <2>3, <2>4 DEF Sockets
<1> QED
  BY <1>2, <1>3, <1>4, <1>5 DEF IInv

LEMMA StepInv ==
    ASSUME NodeAssumption, IInv, [NodeNext]_nodeVars
    PROVE  IInv'
<1> USE DEF IInv, TypeOK, ListensAtEndpoint, Services, Sockets, WaitsSound
<1>1. CASE UNCHANGED nodeVars
  BY <1>1 DEF nodeVars, Discovery
<1>2. ASSUME NEW k \in Kinds, Register(k)
      PROVE  IInv'
  <2>1. Discovery'
    BY <1>2 DEF Register, Discovery, discoveryVars
  <2> QED
    BY <1>2, <2>1 DEF Register, rpcVars
<1>3. CASE Attach
  <2>1. Discovery'
    BY <1>3 DEF Attach, Discovery, discoveryVars
  <2> QED
    BY <1>3, <2>1 DEF Attach, rpcVars
<1>4. ASSUME NEW w \in Waiters, Wait(w) \/ WaitReturns(w)
      PROVE  IInv'
  <2>1. Discovery'
    BY <1>4 DEF Wait, WaitReturns, Discovery, discoveryVars
  <2>2. CASE Wait(w)
    BY <2>1, <2>2 DEF Wait, rpcVars
  <2>3. CASE WaitReturns(w)
    BY <2>1, <2>3 DEF WaitReturns, rpcVars
  <2> QED
    BY <1>4, <2>2, <2>3
<1>5. CASE Start
  BY <1>5, StartInv
<1>6. CASE Stop \/ Restart
  BY <1>6, StopInv DEF Stop, Restart
<1>7. ASSUME NEW e \in Endpoints, StopEndpoint(e) \/ \E p \in Ports : StartEndpoint(e, p)
      PROVE  IInv'
  BY <1>7, StartEndpointInv, StopEndpointInv
<1> QED
  BY <1>1, <1>2, <1>3, <1>4, <1>5, <1>6, <1>7 DEF NodeNext

\* node.go: a node runs all of its parts or none, no endpoint's socket is lost
\* sight of and nobody waits in vain, wherever any number of attempts to start
\* have failed; what such an attempt leaves behind is the discovery of a p2p server
\* that failed after beginning it, and nothing else.
THEOREM NodeAllOrNothing ==
    ASSUME NodeAssumption
    PROVE  NodeSpec => []AllOrNothing
<1>1. NodeInit => IInv
  BY InitInv
<1>2. IInv /\ [NodeNext]_nodeVars => IInv'
  BY StepInv
<1>3. IInv => AllOrNothing
  BY DEF IInv, Services, Sockets, Discovery, WaitsSound, AllOrNothing
<1> QED
  BY <1>1, <1>2, <1>3, PTL DEF NodeSpec
=============================================================================
