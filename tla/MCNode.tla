------------------------------- MODULE MCNode -------------------------------
(***************************************************************************)
(* The connections of a node, for model checking.  They share no state, so *)
(* part says which of them a behaviour follows; the others stay as they    *)
(* begin.                                                                  *)
(***************************************************************************)
EXTENDS NodeConnections

VARIABLE part

Single(r) == [batch |-> FALSE, reqs |-> <<r>>]
Batch(rs) == [batch |-> TRUE, reqs |-> rs]
MCMessages == {Single("misnamed"), Single("unsubscribe"), Batch(<<"call", "malformed">>),
               Batch(<<"subscribe", "misnamed">>)}

\* Two versions of one protocol, and another one.
MCProtos == {[name |-> 1, version |-> 1, length |-> 2], [name |-> 1, version |-> 2, length |-> 3],
             [name |-> 2, version |-> 1, length |-> 1]}
MCOffers == SUBSET MCProtos

ASSUME NodeAssumption

serverVars == <<run, stop, codecs, serve, shut, broken, reads, tasks, inactive, active, ended,
                written, sentNotes>>
linkVars == <<peerRun, reason, token, readLoop, readErr, ping, proto, protoErr, writer, wmu,
              linkWire, sock, remote, failed, events>>
handshakeVars == <<old, dials, offers, stage, sec, out, inn, snappy, hs, running, wire, damaged,
                   badFrames>>
udpVars == <<now, late, jumps, udpCall, plist, nextTimeout, timer, fired, loop>>
pipeVars == <<write, outcome, pipeRead, got, eaten, pipeClosed, closing, closer>>

\* Every part that is not followed begins in one of its initial states only.
FirstEndpoints == [e \in {"ipc", "http", "ws"} |-> Off]
FirstOffers == [s \in {"initiator", "receiver"} |-> {}]

MCInit ==
    /\ part \in {"client", "server", "node", "link", "handshake", "udp", "pipe"}
    /\ Init /\ Server!Init /\ NodeInit /\ Link!Init /\ Handshake!Init /\ Udp!Init
    /\ Pipe!Init
    /\ part # "node" => persistent = FALSE /\ udpPort = "none" /\ endpoint = FirstEndpoints
    /\ part # "link" => proto[1] = "send"
    /\ part # "handshake" => old = FALSE /\ dials = "receiver" /\ offers = FirstOffers

MCNext ==
    \/ /\ part = "client" /\ Next
       /\ UNCHANGED <<part, serverVars, nodeVars, linkVars, handshakeVars, udpVars, pipeVars>>
    \/ /\ part = "server" /\ Server!Next
       /\ UNCHANGED <<part, vars, nodeVars, linkVars, handshakeVars, udpVars, pipeVars>>
    \/ /\ part = "node" /\ NodeNext
       /\ UNCHANGED <<part, vars, serverVars, linkVars, handshakeVars, udpVars, pipeVars>>
    \/ /\ part = "link" /\ Link!Next
       /\ UNCHANGED <<part, vars, serverVars, nodeVars, handshakeVars, udpVars, pipeVars>>
    \/ /\ part = "handshake" /\ Handshake!Next
       /\ UNCHANGED <<part, vars, serverVars, nodeVars, linkVars, udpVars, pipeVars>>
    \/ /\ part = "udp" /\ Udp!Next
       /\ UNCHANGED <<part, vars, serverVars, nodeVars, linkVars, handshakeVars, pipeVars>>
    \/ /\ part = "pipe" /\ Pipe!Next
       /\ UNCHANGED <<part, vars, serverVars, nodeVars, linkVars, handshakeVars, udpVars>>

MCSpec ==
    /\ MCInit
    /\ [][MCNext]_<<part, vars, serverVars, nodeVars, linkVars, handshakeVars, udpVars, pipeVars>>
    /\ WF_vars(part = "client" /\ Progress)
    /\ WF_serverVars(part = "server" /\ Server!Progress)
    /\ WF_linkVars(part = "link" /\ Link!Progress)
    /\ WF_udpVars(part = "udp" /\ Udp!Progress)

-----------------------------------------------------------------------------
\* rpc/server.go, Stop: every codec is closed and its goroutine ends.
StopEndsAll == Server!StopEndsAll

\* peer.go: Peer.run returns once the peer shuts down.
RunEnds == Link!RunEnds

\* What is asked of a remote side, over a connection (client.go) or over UDP
\* (udp.go), comes to an end.
AnswersCome == CallsReturn /\ Udp!CallsReturn
=============================================================================
