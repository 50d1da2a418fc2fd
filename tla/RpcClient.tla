----------------------------- MODULE RpcClient ------------------------------
(***************************************************************************)
(* The RPC client over a stream connection (rpc/client.go): callers, the   *)
(* dispatch goroutine, the goroutine that reads the connection, and        *)
(* subscriptions.                                                          *)
(*                                                                         *)
(* All channels but sendDone and the response channels are unbuffered: an  *)
(* exchange over one is a step of both sides.  Writing is guarded by a     *)
(* lock that dispatch grants with the request and takes back with sendDone. *)
(* The server answers every request it has received, as long as the        *)
(* connection lasts; a connection may break at any time, for the reader    *)
(* and for the writer, and a write may fail by its deadline alone.         *)
(***************************************************************************)
EXTENDS Integers, FiniteSets

CONSTANTS
    Calls,       \* Call and BatchCall
    Batches,     \* the ones among them that are batches, of two requests
    Subs,        \* Subscribe
    MaxConns,    \* bound on connections
    MaxNotes,    \* bound on notifications
    None

ASSUME RpcClientAssumption ==
    /\ Batches \subseteq Calls /\ Calls \cap Subs = {}
    /\ MaxConns \in Nat \ {0} /\ MaxNotes \in Nat

VARIABLES
    op,         \* where each request stands
    on,         \* the connection it was written to
    respWait,   \* the ids that wait for a response
    answered,   \* responses in the channel of a request
    closed,     \* how often that channel was closed
    lock,       \* the request being sent; lastOp, requestOpLock
    sendDone,   \* what the writer reports
    disp,       \* what dispatch does, see Init
    conn,       \* the connection of dispatch
    writeConn,  \* the connection of writers, or None
    reading,
    reader,     \* the reading goroutine of each connection
    alive,      \* connections that are not closed
    inbox,      \* requests a server has received, notifications it has to send
    subs,       \* c.subs
    once,       \* quitOnce of each subscription: "free", "busy" or "done"
    notes, left \* history: connections left behind by a new one while still read

vars == <<op, on, respWait, answered, closed, lock, sendDone, disp, conn, writeConn, reading,
          reader, alive, inbox, subs, once, notes, left>>

Unsub(s) == <<"unsubscribe", s>>
Ops == Calls \cup Subs \cup {Unsub(s) : s \in Subs}

\* Requests are told apart, and None is none of them.
ASSUME RpcOpsAssumption ==
    None \notin Ops /\ \A s \in Subs : Unsub(s) \notin Calls \cup Subs

Conns == 1 .. MaxConns
Ids(o) == {o} \X (IF o \in Batches THEN {1, 2} ELSE {1})

Init ==
    /\ op = [o \in Ops |-> "idle"]
    /\ on = [o \in Ops |-> 0]
    /\ respWait = {}
    /\ answered = [o \in Ops |-> 0] /\ closed = [o \in Ops |-> 0]
    /\ lock = None /\ sendDone = None
    /\ disp = [at |-> "select", arg |-> None]
    /\ conn = 1 /\ writeConn = 1 /\ reading = TRUE
    /\ reader = [c \in Conns |-> IF c = 1 THEN <<"reads">> ELSE <<"none">>]
    /\ alive = {1}
    /\ inbox = {} /\ subs = {} /\ once = [s \in Subs |-> "free"]
    /\ notes = 0 /\ left = {}

callerVars == <<op, on, lock, sendDone, writeConn>>
readVars == <<reader, alive, inbox, notes>>
Select == disp.at = "select"
HasMessage(c) == reader[c][1] = "has"

-----------------------------------------------------------------------------
(* Callers *)

\* A request is made; an unsubscribe only by quitWithError, below.
Request(o) ==
    /\ o \in Calls \cup Subs /\ op[o] = "idle"
    /\ op' = [op EXCEPT ![o] = "send"]
    /\ UNCHANGED <<on, respWait, answered, closed, lock, sendDone, disp, conn, writeConn, reading,
                   readVars, subs, once, left>>

\* send: dispatch takes the request and grants the write lock.
RequestOp(o) ==
    /\ Select /\ lock = None /\ op[o] = "send"
    /\ lock' = o /\ respWait' = respWait \cup Ids(o)
    /\ op' = [op EXCEPT ![o] = "write"]
    /\ UNCHANGED <<on, answered, closed, sendDone, disp, conn, writeConn, reading, readVars, subs,
                   once, left>>

\* The context is done, or the client has quit.  Unsubscribing has no deadline.
GiveUp(o) ==
    /\ \/ o \in Calls \cup Subs /\ op[o] \in {"send", "wait"}
       \/ op[o] = "send" /\ disp.at = "quit"
    /\ op' = [op EXCEPT ![o] = "done"]
    /\ UNCHANGED <<on, respWait, answered, closed, lock, sendDone, disp, conn, writeConn, reading,
                   readVars, subs, once, left>>

\* write, with the connection at hand: the write fails at the latest when the
\* connection is closed.
Write(o, ok) ==
    /\ op[o] = "write" /\ writeConn # None
    /\ ok => writeConn \in alive
    /\ op' = [op EXCEPT ![o] = IF ok THEN "wait" ELSE "done"]
    /\ on' = [on EXCEPT ![o] = writeConn]
    /\ inbox' = IF ok THEN inbox \cup {<<writeConn, o>>} ELSE inbox
    /\ writeConn' = IF ok THEN writeConn ELSE None
    /\ sendDone' = [ok |-> ok]
    /\ UNCHANGED <<respWait, answered, closed, lock, disp, conn, reading, reader, alive, notes, subs,
                   once, left>>

\* reconnect: a connection is made, or it is not.
Connect(o, ok) ==
    /\ op[o] = "write" /\ writeConn = None
    /\ IF ok
       THEN /\ \E c \in Conns : reader[c] = <<"none">>
            /\ op' = [op EXCEPT ![o] = "reconnect"] /\ UNCHANGED sendDone
       ELSE op' = [op EXCEPT ![o] = "done"] /\ sendDone' = [ok |-> FALSE]
    /\ UNCHANGED <<on, respWait, answered, closed, lock, disp, conn, writeConn, reading, readVars,
                   subs, once, left>>

\* The client quits meanwhile.
ReconnectQuits(o) ==
    /\ op[o] = "reconnect" /\ disp.at = "quit"
    /\ op' = [op EXCEPT ![o] = "done"] /\ sendDone' = [ok |-> FALSE]
    /\ UNCHANGED <<on, respWait, answered, closed, lock, disp, conn, writeConn, reading, readVars,
                   subs, once, left>>

\* op.wait: a response, or the channel is closed.
Return(o) ==
    /\ op[o] = "wait" /\ (answered[o] = Cardinality(Ids(o)) \/ closed[o] > 0)
    /\ op' = [op EXCEPT ![o] = "done"]
    /\ UNCHANGED <<on, respWait, answered, closed, lock, sendDone, disp, conn, writeConn, reading,
                   readVars, subs, once, left>>

-----------------------------------------------------------------------------
(* The reading goroutine, and the server *)

\* The response to a request, or a notification of a subscription, is read.
Read(c, o, note) ==
    /\ reader[c] = <<"reads">> /\ c \in alive
    /\ IF note THEN o \in subs /\ on[o] = c /\ notes < MaxNotes /\ notes' = notes + 1 /\ UNCHANGED inbox
       ELSE <<c, o>> \in inbox /\ inbox' = inbox \ {<<c, o>>} /\ UNCHANGED notes
    /\ reader' = [reader EXCEPT ![c] = <<"has", o, note>>]
    /\ UNCHANGED <<callerVars, respWait, answered, closed, disp, conn, reading, alive, subs, once, left>>

\* The connection breaks.
Break(c) ==
    /\ c \in alive /\ alive' = alive \ {c}
    /\ UNCHANGED <<callerVars, respWait, answered, closed, disp, conn, reading, reader, inbox, notes,
                   subs, once, left>>

ReadFails(c) ==
    /\ reader[c] = <<"reads">> /\ c \notin alive
    /\ reader' = [reader EXCEPT ![c] = <<"fails">>]
    /\ UNCHANGED <<callerVars, respWait, answered, closed, disp, conn, reading, alive, inbox, notes,
                   subs, once, left>>

-----------------------------------------------------------------------------
(* dispatch *)

\* handleResponse, of every response in the message.  A subscription that the
\* server accepts begins before its caller knows.
HandleResponse(o) ==
    LET known == respWait \cap Ids(o)
    IN  /\ respWait' = respWait \ known
        /\ IF o \notin Subs \/ known = {}
           THEN answered' = [answered EXCEPT ![o] = @ + Cardinality(known)] /\ UNCHANGED <<closed, subs>>
           ELSE /\ closed' = [closed EXCEPT ![o] = @ + 1] /\ UNCHANGED answered
                /\ \/ subs' = subs \cup {o}
                   \/ UNCHANGED subs

\* A notification waits for its subscription to take it.
ReadResp(c) ==
    /\ Select /\ HasMessage(c)
    /\ reader' = [reader EXCEPT ![c] = <<"reads">>]
    /\ LET o == reader[c][2]
       IN  IF reader[c][3] THEN /\ disp' = [at |-> "deliver", arg |-> o]
                                /\ UNCHANGED <<respWait, answered, closed, subs>>
           ELSE HandleResponse(o) /\ UNCHANGED disp
    /\ UNCHANGED <<callerVars, conn, reading, alive, inbox, notes, once, left>>

\* quitWithError: quit is closed, then the server is told.
QuitWithError(s) ==
    /\ s \in subs /\ once[s] = "free"
    /\ once' = [once EXCEPT ![s] = "busy"]
    /\ op' = [op EXCEPT ![Unsub(s)] = "send"]

\* deliver: taken, or the subscription has quit.  forward buffers what was
\* taken, or ends the subscription (an overflow, a value of another type).
Deliver ==
    /\ disp.at = "deliver" /\ disp' = [at |-> "select", arg |-> None]
    /\ \/ UNCHANGED <<op, once>>
       \/ QuitWithError(disp.arg)
    /\ UNCHANGED <<on, lock, sendDone, writeConn, respWait, answered, closed, conn, reading,
                   readVars, subs, left>>

\* Mutant of SignalOps: a batch is signalled once for every id.
SignalOpsEach ==
    closed' = [o \in Ops |-> closed[o] + Cardinality(respWait \cap Ids(o))]

\* closeRequestOps, its first half.
SignalOps ==
    closed' = [o \in Ops |-> IF respWait \cap Ids(o) # {} THEN closed[o] + 1 ELSE closed[o]]

\* closeRequestOps: every request is signalled, every subscription quits.  A
\* subscription that is quitting by itself is waited for (sync.Once).
CloseRequestOps(then) ==
    /\ SignalOps
    /\ respWait' = {} /\ subs' = {}
    /\ once' = [s \in Subs |-> IF s \in subs /\ once[s] = "free" THEN "done" ELSE once[s]]
    /\ disp' = [at |-> "once", arg |-> [busy |-> {s \in subs : once[s] = "busy"}, then |-> then]]
    /\ UNCHANGED answered

Quitted ==
    /\ disp.at = "once" /\ \A s \in disp.arg.busy : once[s] = "done"
    /\ disp' = [at |-> disp.arg.then, arg |-> None]
    /\ UNCHANGED <<callerVars, respWait, answered, closed, conn, reading, readVars, subs, once, left>>

\* Mutant of ReadErr: nobody is told.
ReadErrQuiet(c) ==
    /\ Select /\ reader[c] = <<"fails">>
    /\ reader' = [reader EXCEPT ![c] = <<"ended">>]
    /\ alive' = alive \ {conn} /\ reading' = FALSE
    /\ UNCHANGED <<callerVars, respWait, answered, closed, disp, subs, once, conn, inbox, notes, left>>

ReadErr(c) ==
    /\ Select /\ reader[c] = <<"fails">>
    /\ reader' = [reader EXCEPT ![c] = <<"ended">>]
    /\ CloseRequestOps("select")
    /\ alive' = alive \ {conn} /\ reading' = FALSE
    /\ UNCHANGED <<callerVars, conn, inbox, notes, left>>

\* A new connection: the old reader is waited for, if there is one.
Reconnected(o) ==
    LET c == CHOOSE c \in Conns : reader[c] = <<"none">> /\ \A d \in Conns : reader[d] = <<"none">> => c <= d
    IN  /\ Select /\ op[o] = "reconnect"
        /\ op' = [op EXCEPT ![o] = "write"] /\ writeConn' = c
        /\ IF reading
           THEN /\ alive' = (alive \ {conn}) \cup {c}
                /\ disp' = [at |-> "reconnect", arg |-> c]
                /\ left' = left \cup {conn}
                /\ UNCHANGED <<reader, conn>>
           ELSE /\ alive' = alive \cup {c} /\ conn' = c
                /\ reader' = [reader EXCEPT ![c] = <<"reads">>] /\ UNCHANGED <<disp, left>>
        /\ reading' = TRUE
        /\ UNCHANGED <<on, lock, sendDone, respWait, answered, closed, inbox, notes, subs, once>>

OldReaderEnds ==
    /\ disp.at = "reconnect" /\ reader[conn] = <<"fails">>
    /\ reader' = [reader EXCEPT ![conn] = <<"ended">>, ![disp.arg] = <<"reads">>]
    /\ conn' = disp.arg /\ disp' = [at |-> "select", arg |-> None]
    /\ UNCHANGED <<callerVars, respWait, answered, closed, reading, alive, inbox, notes, subs, once, left>>

\* The writer is done; a request that was not sent is forgotten.
SendDone ==
    /\ Select /\ sendDone # None
    /\ respWait' = IF sendDone.ok THEN respWait ELSE respWait \ Ids(lock)
    /\ lock' = None /\ sendDone' = None
    /\ UNCHANGED <<op, on, writeConn, answered, closed, disp, conn, reading, readVars, subs, once, left>>

\* Close: everything is signalled, and the reader is drained until it ends.
Close ==
    /\ Select /\ CloseRequestOps("drain")
    /\ alive' = alive \ {conn}
    /\ UNCHANGED <<callerVars, conn, reading, reader, inbox, notes, left>>

Drain ==
    /\ disp.at = "drain"
    /\ IF ~reading THEN disp' = [at |-> "quit", arg |-> None] /\ UNCHANGED reader
       ELSE IF HasMessage(conn) THEN reader' = [reader EXCEPT ![conn] = <<"reads">>] /\ UNCHANGED disp
       ELSE /\ reader[conn] = <<"fails">>
            /\ reader' = [reader EXCEPT ![conn] = <<"ended">>]
            /\ disp' = [at |-> "quit", arg |-> None]
    /\ UNCHANGED <<callerVars, respWait, answered, closed, conn, reading, alive, inbox, notes, subs, once, left>>

-----------------------------------------------------------------------------
(* Subscriptions *)

Unsubscribe(s) ==
    /\ QuitWithError(s)
    /\ UNCHANGED <<on, respWait, answered, closed, lock, sendDone, disp, conn, writeConn, reading,
                   readVars, subs, left>>

Unsubscribed(s) ==
    /\ once[s] = "busy" /\ op[Unsub(s)] = "done"
    /\ once' = [once EXCEPT ![s] = "done"]
    /\ UNCHANGED <<callerVars, respWait, answered, closed, disp, conn, reading, readVars, subs, left>>

\* Everything the client's goroutines do by themselves.
Progress ==
    \/ \E o \in Ops : \/ RequestOp(o) \/ ReconnectQuits(o) \/ Return(o) \/ Reconnected(o)
                      \/ op[o] = "send" /\ disp.at = "quit" /\ GiveUp(o)
                      \/ \E ok \in BOOLEAN : Write(o, ok) \/ Connect(o, ok)
    \/ \E c \in Conns : ReadFails(c) \/ ReadResp(c) \/ ReadErr(c)
                        \/ \E o \in Ops : Read(c, o, FALSE)
    \/ Deliver \/ Quitted \/ OldReaderEnds \/ SendDone \/ Drain
    \/ \E s \in Subs : Unsubscribed(s)

Next ==
    \/ Progress
    \/ \E o \in Ops : Request(o) \/ GiveUp(o)
    \/ \E c \in Conns : Break(c) \/ \E s \in Subs : Read(c, s, TRUE)
    \/ Close
    \/ \E s \in Subs : Unsubscribe(s)

Spec == Init /\ [][Next]_vars /\ WF_vars(Progress)

-----------------------------------------------------------------------------
\* The channel of a request is closed at most once and never used after that,
\* and receives at most the response it has room for (client.go:617, 653): a
\* second close or a use after it would panic, a second response would block
\* dispatch.  Only the request that dispatch granted the lock writes.
ResponsesOnce ==
    /\ \A o \in Ops : closed[o] <= 1 /\ answered[o] <= Cardinality(Ids(o)) /\ (closed[o] = 0 \/ answered[o] = 0)
    /\ \A o \in Ops : op[o] \in {"write", "reconnect"} => lock = o

\* The dispatch goroutine waits for a subscription that ends by itself, or for
\* the reader of a connection that was replaced.
DispatchWaits == disp.at \in {"once", "reconnect"}

\* A request that was written returns (client.go:307: "dispatch has accepted the
\* request and will close the channel it when it quits"), whatever breaks, unless
\* its connection was replaced while it was still read, or dispatch itself waits.
CallsReturn ==
    \A o \in Ops : op[o] = "wait" ~> (op[o] = "done" \/ on[o] \in left \/ DispatchWaits)
=============================================================================
