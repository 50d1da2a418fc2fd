--------------------------- MODULE NodeConnections --------------------------
(***************************************************************************)
(* The connections of a node: its RPC client, its RPC server, the          *)
(* container of its services and endpoints, the link to a peer and the     *)
(* handshakes that set the link up, the replies it waits for over UDP, and *)
(* the pipe that stands for a link in simulations.  They share no state.   *)
(***************************************************************************)
EXTENDS RpcClient, NodeContainer

CONSTANTS
    Codecs, Messages, MaxReads, MaxSubNotes,                            \* RpcServer
    WireCap, MaxEvents,                                                 \* PeerLink
    Protos, Offers,                                                     \* RlpxHandshake
    UdpCalls, Remotes, RespTimeout, K, MaxLate, MaxJumps,               \* ReplyMatcher
    Closers, PipeWriters, MaxMsgs, MaxSize                              \* MsgPipe

VARIABLES
    run, stop, codecs, serve, shut, broken, reads, tasks,               \* RpcServer
    inactive, active, ended, written, sentNotes,
    peerRun, reason, token, readLoop, readErr, ping, proto, protoErr,   \* PeerLink
    writer, wmu, linkWire, sock, remote, failed, events,
    old, dials, offers, stage, sec, out, inn, snappy, hs, running,      \* RlpxHandshake
    wire, damaged, badFrames,
    now, late, jumps, udpCall, plist, nextTimeout, timer, fired, loop,  \* ReplyMatcher
    write, outcome, pipeRead, got, eaten, pipeClosed, closing, closer   \* MsgPipe

Server == INSTANCE RpcServer WITH closed <- shut, notes <- sentNotes, MaxNotes <- MaxSubNotes
Link == INSTANCE PeerLink WITH run <- peerRun, reader <- readLoop, wire <- linkWire
Handshake == INSTANCE RlpxHandshake
Udp == INSTANCE ReplyMatcher WITH call <- udpCall, Calls <- UdpCalls
Pipe == INSTANCE MsgPipe WITH read <- pipeRead, closed <- pipeClosed, Writers <- PipeWriters

ASSUME PipeAssumption == Pipe!PipeAssumption
ASSUME MatcherAssumption == Udp!MatcherAssumption
ASSUME ServerAssumption == Server!RpcServerAssumption
ASSUME LinkAssumption == Link!PeerLinkAssumption
ASSUME HandshakeAssumption == Handshake!HandshakeAssumption

-----------------------------------------------------------------------------
\* Both ends of an RPC connection: a request is answered or ended once
\* (client.go), and no notification comes before the id of its subscription
\* (subscription.go).
RpcSound == ResponsesOnce /\ Server!IdsFirst

\* A connection to a peer: both sides of the handshakes agree, frames are whole
\* however many goroutines write (rlpx.go), and what the pipe that stands for a
\* connection delivers was written (message.go).
LinkSound == Handshake!SetupAgrees /\ Link!FramesWhole /\ Pipe!PipeSound

\* discover/udp.go: every pending call is answered once, and the timer never
\* misses the next deadline.
RepliesSound == Udp!RepliesSound
=============================================================================
