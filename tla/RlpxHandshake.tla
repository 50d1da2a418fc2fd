--------------------------- MODULE RlpxHandshake ----------------------------
(***************************************************************************)
(* How two nodes set a connection up: the encryption handshake and the     *)
(* framing of p2p/rlpx.go, the protocol handshake, the choice of the       *)
(* protocols to run (matchProtocols of p2p/peer.go) and the order in which *)
(* Server.setupConn calls them.                                            *)
(*                                                                         *)
(* Cryptography is symbolic: a packet is opened only with the key it was   *)
(* sealed for, secrets are the values they are derived from, and a running *)
(* MAC is its seed and the number of frames it has seen.  A packet may be  *)
(* damaged on its way.  The initiator may be a node of an older version,   *)
(* which seals packets in the plain format and does not know Snappy.       *)
(***************************************************************************)
EXTENDS Integers, Sequences, FiniteSets

CONSTANTS
    Protos,      \* protocols that nodes may offer: [name, version, length], names are numbers
    Offers,      \* sets of protocols that a node may offer
    None

\* What the constants must satisfy.
HandshakeAssumption ==
    /\ IsFiniteSet(Protos)
    /\ \A p \in Protos : p.name \in Nat /\ p.version \in Nat /\ p.length \in Nat \ {0}
    /\ \A p, q \in Protos : p.name = q.name /\ p.version = q.version => p = q
    /\ Offers \subseteq SUBSET Protos

VARIABLES
    old,       \* whether the initiator is an older node
    dials,     \* the node the initiator means to reach
    offers,    \* Server.Protocols of each side
    stage,     \* setupConn of each side
    sec,       \* the secrets of each side, once it has them
    out, inn,  \* frames written and read by each side: the state of its MACs
    snappy,    \* rlpxFrameRW.snappy of each side
    hs,        \* what each side knows from the other's protocol handshake
    running,   \* Peer.running of each side: the protocols and their offsets
    wire,      \* packets written by each side and not yet read
    damaged,   \* a packet has been damaged
    badFrames  \* frames that the reader refused

vars == <<old, dials, offers, stage, sec, out, inn, snappy, hs, running, wire, damaged, badFrames>>

I == "initiator"
R == "receiver"
Sides == {I, R}
Other(s) == IF s = I THEN R ELSE I
Version(s) == IF s = I /\ old THEN 4 ELSE 5
baseProtocolLength == 16
snappyProtocolVersion == 5
handshakeMsg == 0
discMsg == 1

Init ==
    /\ old \in BOOLEAN /\ dials \in {R, "another"}
    /\ offers \in [Sides -> Offers]
    /\ stage = [s \in Sides |-> "auth"]
    /\ sec = [s \in Sides |-> None] /\ out = [s \in Sides |-> 0] /\ inn = [s \in Sides |-> 0]
    /\ snappy = [s \in Sides |-> FALSE] /\ hs = [s \in Sides |-> None]
    /\ running = [s \in Sides |-> {}]
    /\ wire = [s \in Sides |-> <<>>] /\ damaged = FALSE /\ badFrames = 0

frameVars == <<out, inn, snappy, hs, running>>
Send(s, p) == wire' = [wire EXCEPT ![s] = Append(@, p)]
Goto(s, to) == stage' = [stage EXCEPT ![s] = to]

-----------------------------------------------------------------------------
(* doEncHandshake *)

\* A handshake packet: sealed for one node, in one of two formats.
Packet(to, format, body) == [kind |-> "packet", to |-> to, format |-> format, body |-> body, intact |-> TRUE]

\* makeAuthMsg: the nonce, signed with an ephemeral key.
AuthMsg ==
    Packet(dials, IF old THEN "plain" ELSE "eip8", [id |-> I, nonce |-> "initNonce", ephemeral |-> "initKey"])

\* initiatorEncHandshake
SendAuth ==
    /\ stage[I] = "auth" /\ Goto(I, "resp")
    /\ Send(I, AuthMsg)
    /\ UNCHANGED <<old, dials, offers, sec, frameVars, damaged, badFrames>>

\* readHandshakeMsg opens a packet of either format with the node's own key.
Opens(s, p) == p.kind = "packet" /\ p.intact /\ p.to = s

\* secrets: the shared key of both ephemeral keys and both nonces; the MAC of
\* each direction starts from the other side's nonce and the packet sent in it.
Secrets(s, id, auth, resp) ==
    LET mac1 == <<resp.body.nonce, auth>>
        mac2 == <<auth.body.nonce, resp>>
    IN  [remote |-> id, key |-> {auth.body.ephemeral, resp.body.ephemeral},
         nonces |-> <<resp.body.nonce, auth.body.nonce>>,
         egress |-> IF s = I THEN mac1 ELSE mac2, ingress |-> IF s = I THEN mac2 ELSE mac1]

\* receiverEncHandshake: the answer is sealed in the format of the request.
ReceiveAuth ==
    /\ stage[R] = "auth" /\ wire[I] # <<>>
    /\ LET auth == wire[I][1]
           resp == Packet(auth.body.id, auth.format, [nonce |-> "respNonce", ephemeral |-> "respKey"])
       IN  IF Opens(R, auth)
           THEN /\ wire' = [wire EXCEPT ![I] = Tail(@), ![R] = Append(@, resp)]
                /\ sec' = [sec EXCEPT ![R] = Secrets(R, auth.body.id, auth, resp)]
                /\ Goto(R, "posthandshake")
           ELSE Goto(R, "closed") /\ UNCHANGED <<wire, sec>>
    /\ UNCHANGED <<old, dials, offers, frameVars, damaged, badFrames>>

\* The initiator hashes the packets as it sent and received them.
ReceiveAuthResp ==
    /\ stage[I] = "resp" /\ wire[R] # <<>>
    /\ LET resp == wire[R][1]
       IN  IF Opens(I, resp)
           THEN /\ wire' = [wire EXCEPT ![R] = Tail(@)]
                /\ sec' = [sec EXCEPT ![I] = Secrets(I, dials, AuthMsg, resp)]
                /\ Goto(I, "posthandshake")
           ELSE Goto(I, "closed") /\ UNCHANGED <<wire, sec>>
    /\ UNCHANGED <<old, dials, offers, frameVars, damaged, badFrames>>

-----------------------------------------------------------------------------
(* Frames *)

\* rlpxFrameRW.WriteMsg: a frame carries the MAC of everything sent before it.
Frame(s, code, body) ==
    [kind |-> "frame", code |-> code, body |-> body, snappy |-> snappy[s],
     key |-> sec[s].key, mac |-> <<sec[s].egress, out[s]>>, intact |-> TRUE]

\* rlpxFrameRW.ReadMsg accepts it when its own MAC agrees; the payload is
\* decoded the way the reader's snappy says.
Accepts(s, f) ==
    /\ f.kind = "frame" /\ f.intact /\ f.key = sec[s].key
    /\ f.mac = <<sec[s].ingress, inn[s]>> /\ f.snappy = snappy[s]

WriteFrame(s, code, body) ==
    Send(s, Frame(s, code, body)) /\ out' = [out EXCEPT ![s] = @ + 1]

-----------------------------------------------------------------------------
(* setupConn, after the encryption handshake *)

\* The server's check passes, and doProtoHandshake sends ours while it reads.
Posthandshake(s) ==
    /\ stage[s] = "posthandshake" /\ Goto(s, "protohandshake")
    /\ WriteFrame(s, handshakeMsg, [id |-> s, version |-> Version(s), caps |-> offers[s]])
    /\ UNCHANGED <<old, dials, offers, sec, inn, snappy, hs, running, damaged, badFrames>>

\* The check fails: the reason is sent and the connection closed (rlpx.close).
Refuse(s) ==
    /\ stage[s] \in {"posthandshake", "addpeer"} /\ Goto(s, "closed")
    /\ WriteFrame(s, discMsg, None)
    /\ UNCHANGED <<old, dials, offers, sec, inn, snappy, hs, running, damaged, badFrames>>

\* readProtocolHandshake, and the switch to Snappy.  The remote side may have
\* refused us, or be another node than the one that answered.
ReadProtoHandshake(s) ==
    /\ stage[s] = "protohandshake" /\ wire[Other(s)] # <<>>
    /\ LET f == wire[Other(s)][1]
           ok == Accepts(s, f)
       IN  /\ wire' = [wire EXCEPT ![Other(s)] = Tail(@)]
           /\ inn' = [inn EXCEPT ![s] = @ + 1]
           /\ badFrames' = IF ok THEN badFrames ELSE badFrames + 1
           /\ IF ok /\ f.code = handshakeMsg /\ f.body.id = sec[s].remote
              THEN /\ Goto(s, "addpeer") /\ hs' = [hs EXCEPT ![s] = f.body]
                   /\ snappy' = [snappy EXCEPT ![s] = Version(s) >= snappyProtocolVersion
                                                      /\ f.body.version >= snappyProtocolVersion]
              ELSE Goto(s, "closed") /\ UNCHANGED <<hs, snappy>>
    /\ UNCHANGED <<old, dials, offers, sec, out, running, damaged>>

\* capsByNameAndVersion
Before(a, b) == a.name < b.name \/ (a.name = b.name /\ a.version < b.version)

\* One round of matchProtocols: a protocol that matches takes the place of an
\* older version of it.
MatchOne(r) ==
    LET p == CHOOSE q \in r.rest : \A c \in r.rest : c = q \/ Before(q, c)
        same == {m \in r.result : m.proto.name = p.name}
        offset == IF same = {} THEN r.offset ELSE r.offset - (CHOOSE m \in same : TRUE).proto.length
    IN  [rest |-> r.rest \ {p}, offset |-> offset + p.length,
         result |-> (r.result \ same) \cup {[proto |-> p, offset |-> offset]}]

\* matchProtocols: the capabilities that are ours too, in their order.
MatchProtocols(ours, caps) ==
    LET common == caps \cap ours
        round[n \in 0..Cardinality(common)] ==
            IF n = 0 THEN [rest |-> common, offset |-> baseProtocolLength, result |-> {}]
            ELSE MatchOne(round[n - 1])
    IN  round[Cardinality(common)].result

\* protoHandshakeChecks: a node with no protocol in common is useless; otherwise
\* the peer runs.
Addpeer(s) ==
    /\ stage[s] = "addpeer"
    /\ offers[s] \cap hs[s].caps # {}
    /\ Goto(s, "up") /\ running' = [running EXCEPT ![s] = MatchProtocols(offers[s], hs[s].caps)]
    /\ UNCHANGED <<old, dials, offers, sec, out, inn, snappy, hs, wire, damaged, badFrames>>

\* A protocol sends its first message: protoRW.WriteMsg adds the offset.
SendFirst(s, m) ==
    /\ stage[s] = "up" /\ out[s] = 1 /\ m \in running[s]
    /\ WriteFrame(s, m.offset + m.proto.length - 1, m.proto)
    /\ UNCHANGED <<old, dials, offers, stage, sec, inn, snappy, hs, running, damaged, badFrames>>

\* The read loop finds the protocol of a code (getProto), or is told to leave.
ReadFirst(s) ==
    /\ stage[s] = "up" /\ wire[Other(s)] # <<>>
    /\ LET f == wire[Other(s)][1]
           found == {m \in running[s] : f.code \in m.offset .. m.offset + m.proto.length - 1}
       IN  /\ wire' = [wire EXCEPT ![Other(s)] = Tail(@)]
           /\ inn' = [inn EXCEPT ![s] = @ + 1]
           /\ badFrames' = IF Accepts(s, f) /\ (f.code = discMsg \/ \E m \in found : found = {m} /\ m.proto = f.body)
                           THEN badFrames ELSE badFrames + 1
           /\ IF Accepts(s, f) /\ f.code # discMsg THEN UNCHANGED stage ELSE Goto(s, "closed")
    /\ UNCHANGED <<old, dials, offers, sec, out, snappy, hs, running, damaged>>

\* The handshake deadline passes, or the other side has closed the connection.
Timeout(s) ==
    /\ stage[s] \in {"auth", "resp", "protohandshake"} /\ wire[Other(s)] = <<>>
    /\ Goto(s, "closed")
    /\ UNCHANGED <<old, dials, offers, sec, frameVars, wire, damaged, badFrames>>

\* The network damages the packet that is read next.
Damaged(p) == [p EXCEPT !.intact = FALSE]
Damage(s) ==
    /\ ~damaged /\ wire[s] # <<>> /\ damaged' = TRUE
    /\ wire' = [wire EXCEPT ![s] = [wire[s] EXCEPT ![1] = Damaged(wire[s][1])]]
    /\ UNCHANGED <<old, dials, offers, stage, sec, frameVars, badFrames>>

Next ==
    \/ SendAuth \/ ReceiveAuth \/ ReceiveAuthResp
    \/ \E s \in Sides : \/ Posthandshake(s) \/ Refuse(s) \/ ReadProtoHandshake(s) \/ Addpeer(s)
                        \/ ReadFirst(s) \/ Timeout(s) \/ Damage(s)
                        \/ \E m \in running[s] : SendFirst(s, m)

Spec == Init /\ [][Next]_vars

-----------------------------------------------------------------------------
\* Two nodes that both run the peer agree: each holds the other's identity, the
\* MAC of one direction is the same at both ends, both compress or neither does
\* (rlpx.go:138), and both run the same protocols at the same offsets: those they
\* have in common, in the latest version both have, with message codes that do not
\* overlap (peer.go:315).  A frame is refused, or handed to the wrong protocol,
\* only when a packet was damaged.
SetupAgrees ==
    /\ \A s \in Sides : stage[s] = "up" =>
          /\ sec[s].remote = Other(s)
          /\ \A m, n \in running[s] : m # n =>
                m.offset + m.proto.length <= n.offset \/ n.offset + n.proto.length <= m.offset
          /\ \A m \in running[s] : m.offset >= baseProtocolLength /\ m.proto \in offers[I] \cap offers[R]
          /\ \A p \in offers[I] \cap offers[R] :
                \E m \in running[s] : m.proto.name = p.name /\ m.proto.version >= p.version
    /\ stage[I] = "up" /\ stage[R] = "up" =>
          /\ sec[I].egress = sec[R].ingress /\ sec[R].egress = sec[I].ingress
          /\ snappy[I] = snappy[R] /\ running[I] = running[R]
    /\ ~damaged => badFrames = 0
=============================================================================
