------------------------------ MODULE PeerLink ------------------------------
(***************************************************************************)
(* A connected peer: the goroutines of p2p.Peer (p2p/peer.go), the frame   *)
(* writer and its lock (p2p/rlpx.go) and one protocol that runs the        *)
(* handshake and the message loop of p2p/protocols/protocol.go.            *)
(*                                                                         *)
(* The remote side is the environment: it sends anything, reads when it    *)
(* likes, and may go away.  A frame is written in two parts, its header    *)
(* and its body; the wire holds a bounded number of parts, and a writer    *)
(* that finds it full waits until its deadline.                            *)
(***************************************************************************)
EXTENDS Integers, Sequences

CONSTANTS
    WireCap,     \* parts of frames that fit on the wire
    MaxEvents    \* bound on messages the remote sends, our pings and messages we send

\* What the constants must satisfy.
PeerLinkAssumption ==
    WireCap \in Nat \ {0} /\ MaxEvents \in Nat

VARIABLES
    run,       \* Peer.run: loop, closing, disc, wait, returned
    reason,    \* why it ended
    token,     \* writeStart and writeErr: free, taken, ok or err
    reader,    \* readLoop: read, deliver, done
    readErr,   \* what it reported
    ping,      \* pingLoop: sleep, write, done
    proto,     \* the protocol's goroutine: what it has still to do
    protoErr,  \* errors in the channel of that name
    writer,    \* every goroutine that writes: idle, token, want, body, ok or fail
    wmu,       \* rlpx.wmu: the writer that holds it, or "free"
    wire,      \* parts written and not yet read
    sock,      \* our socket is open
    remote,    \* the remote side is there
    failed,    \* history: a write has failed
    events

runVars == <<run, reason, token>>
loopVars == <<reader, readErr, ping>>
protoVars == <<proto, protoErr>>
wireVars == <<wmu, wire, failed>>
netVars == <<sock, remote>>
vars == <<runVars, loopVars, protoVars, writer, wireVars, netVars, events>>

Writers == {"proto", "app", "ping", "pong", "disc"}
Closed == run # "loop"

Init ==
    /\ run = "loop" /\ reason = "none" /\ token = "free"
    /\ reader = "read" /\ readErr = "none" /\ ping = "sleep"
    /\ proto \in {<<"send", "recv", "loop">>, <<"recv", "send", "loop">>}
    /\ protoErr = 0
    /\ writer = [k \in Writers |-> "idle"]
    /\ wmu = "free" /\ wire = <<>> /\ failed = FALSE
    /\ sock = TRUE /\ remote = TRUE
    /\ events = 0

Writes(k, v) == writer' = [writer EXCEPT ![k] = v]

-----------------------------------------------------------------------------
(* Frames: rlpx.WriteMsg and rlpx.close hold wmu for the whole frame       *)

Puts(part, k) ==
    /\ sock /\ remote /\ Len(wire) < WireCap
    /\ wire' = Append(wire, <<part, k>>)

\* Mutant of WriteHead: the lock is not waited for.
WriteHeadUnlocked(k) ==
    /\ writer[k] = "want" /\ wmu' = k
    /\ Puts("head", k) /\ Writes(k, "body")
    /\ UNCHANGED <<runVars, loopVars, protoVars, failed, netVars, events>>

WriteHead(k) ==
    /\ writer[k] = "want" /\ wmu = "free" /\ wmu' = k
    /\ Puts("head", k) /\ Writes(k, "body")
    /\ UNCHANGED <<runVars, loopVars, protoVars, failed, netVars, events>>

WriteBody(k) ==
    /\ writer[k] = "body" /\ wmu' = "free"
    /\ Puts("body", k) /\ Writes(k, "ok")
    /\ UNCHANGED <<runVars, loopVars, protoVars, failed, netVars, events>>

\* The connection is gone, or the deadline passes while the wire is full.
WriteFails(k) ==
    /\ (writer[k] = "want" /\ wmu = "free") \/ writer[k] = "body"
    /\ ~sock \/ ~remote \/ Len(wire) = WireCap
    /\ wmu' = "free" /\ failed' = TRUE /\ Writes(k, "fail")
    /\ UNCHANGED <<runVars, loopVars, protoVars, wire, netVars, events>>

-----------------------------------------------------------------------------
(* protoRW.WriteMsg: a write needs the token of Peer.run                   *)

TakeToken(k) ==
    /\ writer[k] = "token" /\ token = "free"
    /\ token' = "taken" /\ Writes(k, "want")
    /\ UNCHANGED <<run, reason, loopVars, protoVars, wireVars, netVars, events>>

\* "shutting down"
RefuseWrite(k) ==
    /\ writer[k] = "token" /\ Closed /\ Writes(k, "idle")
    /\ proto' = IF k = "proto" THEN <<"ret">> ELSE proto
    /\ UNCHANGED <<runVars, loopVars, protoErr, wireVars, netVars, events>>

\* The result goes to Peer.run; a protocol leaves after an error.
WriteDone(k) ==
    /\ k \in {"proto", "app"} /\ writer[k] \in {"ok", "fail"} /\ Writes(k, "idle")
    /\ token' = IF writer[k] = "ok" THEN "ok" ELSE "err"
    /\ proto' = IF k # "proto" THEN proto ELSE IF writer[k] = "ok" THEN Tail(proto) ELSE <<"ret">>
    /\ UNCHANGED <<run, reason, loopVars, protoErr, wireVars, netVars, events>>

-----------------------------------------------------------------------------
(* The protocol: Handshake sends first on a connection we dialled,         *)
(* receives first otherwise; then Run handles one message after the other  *)

ProtoSend ==
    /\ proto[1] = "send" /\ writer["proto"] = "idle" /\ Writes("proto", "token")
    /\ UNCHANGED <<runVars, loopVars, protoVars, wireVars, netVars, events>>

\* protoRW.ReadMsg takes what the read loop offers.
Deliver ==
    /\ reader = "deliver" /\ proto[1] \in {"recv", "loop"}
    /\ reader' = "read"
    /\ proto' = IF proto[1] = "loop" THEN proto ELSE Tail(proto)
    /\ UNCHANGED <<runVars, readErr, ping, protoErr, writer, wireVars, netVars, events>>

\* io.EOF when the peer is shutting down; or the context of the handshake is
\* done, a message is too long or unknown, or a handler fails.
ProtoFails(eof) ==
    /\ proto[1] \in {"recv", "loop"} /\ (eof => Closed)
    /\ proto' = <<"ret">>
    /\ UNCHANGED <<runVars, loopVars, protoErr, writer, wireVars, netVars, events>>

\* Mutant of ProtoErrRoom: there is room for the protocols only.
ProtoErrRoomOne == protoErr < 1

\* protoErr is buffered for the protocols and pingLoop.
ProtoErrRoom == protoErr < 2

\* startProtocols: the goroutine reports and ends.
ProtoReturns ==
    /\ proto = <<"ret">> /\ ProtoErrRoom
    /\ proto' = <<"ended">> /\ protoErr' = protoErr + 1
    /\ UNCHANGED <<runVars, loopVars, writer, wireVars, netVars, events>>

\* Another goroutine of the application sends.
AppSend ==
    /\ writer["app"] = "idle" /\ events < MaxEvents
    /\ events' = events + 1 /\ Writes("app", "token")
    /\ UNCHANGED <<runVars, loopVars, protoVars, wireVars, netVars>>

-----------------------------------------------------------------------------
(* readLoop and pingLoop *)

\* A message is read and handled: a ping starts a pong, a disconnect ends the
\* loop, a protocol's message is offered to it, other base messages are ignored.
ReadMessage(kind) ==
    /\ reader = "read" /\ sock /\ remote /\ events < MaxEvents
    /\ events' = events + 1
    /\ reader' = CASE kind = "msg" -> "deliver" [] kind = "disc" -> "done" [] OTHER -> "read"
    /\ readErr' = IF kind = "disc" THEN "remote" ELSE readErr
    /\ IF kind = "ping" /\ writer["pong"] = "idle" THEN Writes("pong", "want") ELSE UNCHANGED writer
    /\ UNCHANGED <<runVars, ping, protoVars, wireVars, netVars>>

\* The connection ends, or the peer shuts down while the protocol does not read.
ReadFails ==
    /\ \/ reader = "read" /\ (~sock \/ ~remote)
       \/ reader = "deliver" /\ Closed
    /\ reader' = "done" /\ readErr' = "network"
    /\ UNCHANGED <<runVars, ping, protoVars, writer, wireVars, netVars, events>>

PingTick ==
    /\ ping = "sleep" /\ events < MaxEvents
    /\ ping' = "write" /\ events' = events + 1 /\ Writes("ping", "want")
    /\ UNCHANGED <<runVars, reader, readErr, protoVars, wireVars, netVars>>

PingSent ==
    /\ ping = "write" /\ writer["ping"] = "ok"
    /\ ping' = "sleep" /\ Writes("ping", "idle")
    /\ UNCHANGED <<runVars, reader, readErr, protoVars, wireVars, netVars, events>>

PingFails ==
    /\ ping = "write" /\ writer["ping"] = "fail" /\ ProtoErrRoom
    /\ ping' = "done" /\ protoErr' = protoErr + 1
    /\ UNCHANGED <<runVars, reader, readErr, proto, writer, wireVars, netVars, events>>

PingEnds ==
    /\ ping = "sleep" /\ Closed /\ ping' = "done"
    /\ UNCHANGED <<runVars, reader, readErr, protoVars, writer, wireVars, netVars, events>>

PongEnds ==
    /\ writer["pong"] \in {"ok", "fail"} /\ Writes("pong", "idle")
    /\ UNCHANGED <<runVars, loopVars, protoVars, wireVars, netVars, events>>

-----------------------------------------------------------------------------
(* Peer.run *)

\* A write finished: the next may start.
RunWriteOk ==
    /\ run = "loop" /\ token = "ok" /\ token' = "free"
    /\ UNCHANGED <<run, reason, loopVars, protoVars, writer, wireVars, netVars, events>>

Breaks(why) == run = "loop" /\ run' = "closing" /\ reason' = why
               /\ UNCHANGED <<token, loopVars, proto, writer, wireVars, netVars, events>>

\* An error of the writer, of the reader or of a protocol.
RunBreaks ==
    \/ token = "err" /\ Breaks("network") /\ UNCHANGED protoErr
    \/ readErr # "none" /\ Breaks(readErr) /\ UNCHANGED protoErr
    \/ protoErr > 0 /\ Breaks("proto") /\ protoErr' = protoErr - 1

Disconnect == Breaks("requested") /\ UNCHANGED protoErr

\* rlpx.close: the reason is sent, unless the network has failed.
RunClose ==
    /\ run = "closing"
    /\ IF reason = "network"
       THEN wmu = "free" /\ sock' = FALSE /\ run' = "wait" /\ UNCHANGED writer
       ELSE run' = "disc" /\ Writes("disc", "want") /\ UNCHANGED sock
    /\ UNCHANGED <<reason, token, loopVars, protoVars, wireVars, remote, events>>

RunDiscSent ==
    /\ run = "disc" /\ writer["disc"] \in {"ok", "fail"}
    /\ sock' = FALSE /\ run' = "wait"
    /\ UNCHANGED <<reason, token, loopVars, protoVars, writer, wireVars, remote, events>>

\* wg.Wait
RunReturns ==
    /\ run = "wait" /\ reader = "done" /\ ping = "done" /\ proto = <<"ended">>
    /\ run' = "returned"
    /\ UNCHANGED <<reason, token, loopVars, protoVars, writer, wireVars, netVars, events>>

-----------------------------------------------------------------------------
(* The remote side *)

RemoteReads ==
    /\ sock /\ remote /\ Len(wire) >= 2 /\ wire' = SubSeq(wire, 3, Len(wire))
    /\ UNCHANGED <<runVars, loopVars, protoVars, writer, wmu, failed, netVars, events>>

RemoteLeaves ==
    /\ remote /\ remote' = FALSE /\ wire' = <<>>
    /\ UNCHANGED <<runVars, loopVars, protoVars, writer, wmu, failed, sock, events>>

\* What our goroutines do once they can; timers, senders and the remote side
\* are outside.
Progress ==
    \/ \E k \in Writers : \/ WriteHead(k) \/ WriteBody(k) \/ WriteFails(k)
                          \/ TakeToken(k) \/ RefuseWrite(k) \/ WriteDone(k)
    \/ ProtoSend \/ Deliver \/ ProtoFails(TRUE) \/ ProtoReturns
    \/ ReadFails \/ PingSent \/ PingFails \/ PingEnds \/ PongEnds
    \/ RunWriteOk \/ RunBreaks \/ RunClose \/ RunDiscSent \/ RunReturns

Next ==
    \/ Progress
    \/ ProtoFails(FALSE) \/ AppSend \/ PingTick \/ Disconnect
    \/ \E kind \in {"ping", "disc", "msg", "other"} : ReadMessage(kind)
    \/ RemoteReads \/ RemoteLeaves

Spec == Init /\ [][Next]_vars /\ WF_vars(Progress)

-----------------------------------------------------------------------------
\* The parts of two frames never mix on the wire, however many goroutines write
\* (rlpx.go:98): both parts are under one running MAC, and the remote side would
\* drop the connection.  Only after a failed write may a header stand alone.
FramesWhole ==
    ~failed => \A i \in DOMAIN wire :
        /\ wire[i][1] = "head" => i = Len(wire) \/ wire[i + 1] = <<"body", wire[i][2]>>
        /\ wire[i][1] = "body" => i > 1 /\ wire[i - 1] = <<"head", wire[i][2]>>

\* Once the peer shuts down, Peer.run returns: no goroutine that its wait group
\* counts stays blocked on a channel, on the lock or on the wire, also when the
\* remote side neither reads nor leaves (peer.go:229).
RunEnds == run # "loop" ~> run = "returned"
=============================================================================
