----------------------------- MODULE RpcServer ------------------------------
(***************************************************************************)
(* The RPC server (rpc/server.go), the notifier of a connection            *)
(* (rpc/subscription.go) and the codec (rpc/json.go): one goroutine reads  *)
(* each codec, one goroutine executes each request, subscriptions notify   *)
(* from goroutines of their own, and Stop may come at any time.            *)
(*                                                                         *)
(* A message is a request or a batch of them.  A request as it is sent is  *)
(* "malformed" (no JSON, no id, no subscription to subscribe to),          *)
(* "misnamed" (its method has no service and name), "unknown" to the       *)
(* server, a "call", "subscribe", or "unsubscribe" of some subscription.   *)
(* Callbacks are external and return.                                      *)
(***************************************************************************)
EXTENDS Integers, Sequences, FiniteSets, SequencesExt

CONSTANTS
    Codecs,     \* connections
    Messages,   \* what a client may send
    MaxReads,   \* bound on the messages read from one codec
    MaxNotes    \* bound on the notifications of one codec

Requests == {"malformed", "misnamed", "unknown", "call", "subscribe", "unsubscribe"}

\* What the constants must satisfy.
RpcServerAssumption ==
    /\ \A m \in Messages : m.batch \in BOOLEAN /\ m.reqs \in Seq(Requests) /\ Len(m.reqs) > 0
    /\ MaxReads \in Nat \ {0} /\ MaxNotes \in Nat

VARIABLES
    run,        \* TRUE until Stop
    stop,       \* "idle", "closing" or "done": where Stop stands
    codecs,     \* Server.codecs
    serve,      \* where serveRequest stands for each codec
    closed,     \* codecs that were closed
    broken,     \* codecs whose client went away
    reads,      \* messages read from each codec
    tasks,      \* requests being executed, see Task
    inactive, active,  \* the notifier's subscriptions, <<codec, message, index>>
    ended,      \* subscriptions whose Err channel is closed
    written,    \* history: what each client received
    notes       \* notifications written to each codec

vars == <<run, stop, codecs, serve, closed, broken, reads, tasks, inactive, active, ended, written, notes>>

\* A goroutine that executes the n-th message of c: at "handle" the request i,
\* at "write" the response, then "close" after a failed write, then "activate".
Task(c, n, at, i, msg) == [codec |-> c, n |-> n, at |-> at, i |-> i, msg |-> msg]

Init ==
    /\ run = TRUE /\ stop = "idle"
    /\ codecs = {} /\ serve = [c \in Codecs |-> "idle"]
    /\ closed = {} /\ broken = {}
    /\ reads = [c \in Codecs |-> 0] /\ tasks = {}
    /\ inactive = {} /\ active = {} /\ ended = {}
    /\ written = [c \in Codecs |-> <<>>] /\ notes = [c \in Codecs |-> 0]

subVars == <<inactive, active, ended, notes>>
At(c, here, there) == serve[c] = here /\ serve' = [serve EXCEPT ![c] = there]
Open(c) == c \notin closed \cup broken

-----------------------------------------------------------------------------
(* serveRequest *)

\* Mutant of Serve: the codec is served and not tracked.
ServeUntracked(c) ==
    /\ At(c, "idle", IF run THEN "test" ELSE "return")
    /\ UNCHANGED <<run, stop, codecs, closed, broken, reads, tasks, subVars, written>>

\* ServeCodec: the check and the registration are one step, under codecsMu.
Serve(c) ==
    /\ At(c, "idle", IF run THEN "test" ELSE "return")
    /\ codecs' = IF run THEN codecs \cup {c} ELSE codecs
    /\ UNCHANGED <<run, stop, closed, broken, reads, tasks, subVars, written>>

\* The loop's test; a loop that sees the stop does not wait for requests.
TestRun(c) ==
    /\ At(c, "test", IF run THEN "read" ELSE "return")
    /\ UNCHANGED <<run, stop, codecs, closed, broken, reads, tasks, subVars, written>>

\* What is made of a message: its requests, or <<>> when it cannot be read.  A
\* method without a service fails the message, but in a batch its request only.
ParseRequest(r) == IF r \in {"malformed", "misnamed"} THEN <<>> ELSE <<r>>

ParseBatchRequest(rs) ==
    IF "malformed" \in Range(rs) THEN <<>>
    ELSE [i \in DOMAIN rs |-> IF rs[i] = "misnamed" THEN "unknown" ELSE rs[i]]

ReadRequestHeaders(m) == IF m.batch THEN ParseBatchRequest(m.reqs) ELSE ParseRequest(m.reqs[1])

\* readRequest; an error is answered and ends the connection.
ReadRequest(c, m) ==
    LET msg == ReadRequestHeaders(m) IN
    /\ Open(c) /\ reads[c] < MaxReads
    /\ At(c, "read", IF msg = <<>> THEN "pend" ELSE "check")
    /\ reads' = [reads EXCEPT ![c] = @ + 1]
    /\ tasks' = IF msg = <<>> THEN tasks
                ELSE tasks \cup {Task(c, reads[c] + 1, "read", 1, msg)}
    /\ written' = IF msg = <<>> THEN [written EXCEPT ![c] = Append(@, <<"error">>)] ELSE written
    /\ UNCHANGED <<run, stop, codecs, closed, broken, subVars>>

\* The read fails when the codec is closed or the client is gone.
ReadEnds(c) ==
    /\ ~Open(c) /\ At(c, "read", "pend")
    /\ UNCHANGED <<run, stop, codecs, closed, broken, reads, tasks, subVars, written>>

\* The server may have been stopped during the read: the request is refused.
\* Otherwise a goroutine executes it.
CheckRun(c) ==
    \E t \in tasks :
        /\ t.codec = c /\ t.at = "read"
        /\ At(c, "check", IF run THEN "test" ELSE "return")
        /\ tasks' = (tasks \ {t}) \cup (IF run THEN {[t EXCEPT !.at = "handle"]} ELSE {})
        /\ written' = IF ~run /\ Open(c) THEN [written EXCEPT ![c] = Append(@, <<"error">>)] ELSE written
        /\ UNCHANGED <<run, stop, codecs, closed, broken, reads, subVars>>

\* pend.Wait
Pending(c) ==
    /\ \A t \in tasks : t.codec # c
    /\ At(c, "pend", "return")
    /\ UNCHANGED <<run, stop, codecs, closed, broken, reads, tasks, subVars, written>>

\* The deferred functions of serveRequest and ServeCodec.
Leave(c) ==
    /\ At(c, "return", "ended")
    /\ codecs' = codecs \ {c} /\ closed' = closed \cup {c}
    /\ UNCHANGED <<run, stop, broken, reads, tasks, subVars, written>>

-----------------------------------------------------------------------------
(* exec and execBatch *)

Sub(t, i) == <<t.codec, t.n, i>>
NewSubs(t) == {Sub(t, i) : i \in {j \in DOMAIN t.msg : t.msg[j] = "subscribe"}}
Done(t) == tasks' = tasks \ {t}
Goto(t, at) == tasks' = (tasks \ {t}) \cup {[t EXCEPT !.at = at]}

\* handle, of the next request: subscribe creates an inactive subscription,
\* unsubscribe finds an active one of this connection or fails.
Handle(t) ==
    /\ t.at = "handle" /\ t \in tasks
    /\ tasks' = (tasks \ {t}) \cup {IF t.i = Len(t.msg) THEN [t EXCEPT !.at = "write"]
                                   ELSE [t EXCEPT !.i = @ + 1]}
    /\ CASE t.msg[t.i] = "subscribe" -> inactive' = inactive \cup {Sub(t, t.i)} /\ UNCHANGED <<active, ended>>
         [] t.msg[t.i] = "unsubscribe" ->
              /\ UNCHANGED inactive
              /\ \/ \E s \in active : s[1] = t.codec /\ active' = active \ {s} /\ ended' = ended \cup {s}
                 \/ UNCHANGED <<active, ended>>
         [] OTHER -> UNCHANGED <<inactive, active, ended>>
    /\ UNCHANGED <<run, stop, codecs, serve, closed, broken, reads, written, notes>>

\* The response is written, or the write fails.
Write(t) ==
    /\ t.at = "write" /\ t \in tasks
    /\ IF Open(t.codec)
       THEN Goto(t, "activate") /\ written' = [written EXCEPT ![t.codec] = Append(@, <<"response", NewSubs(t)>>)]
       ELSE Goto(t, "close") /\ UNCHANGED written
    /\ UNCHANGED <<run, stop, codecs, serve, closed, broken, reads, subVars>>

CloseCodec(t) ==
    /\ t.at = "close" /\ t \in tasks
    /\ Goto(t, "activate") /\ closed' = closed \cup {t.codec}
    /\ UNCHANGED <<run, stop, codecs, serve, broken, reads, subVars, written>>

\* The callbacks, after the write: activate.
Activate(t) ==
    /\ t.at = "activate" /\ t \in tasks
    /\ Done(t)
    /\ active' = active \cup (NewSubs(t) \cap inactive)
    /\ inactive' = inactive \ NewSubs(t)
    /\ UNCHANGED <<run, stop, codecs, serve, closed, broken, reads, ended, written, notes>>

-----------------------------------------------------------------------------
(* Subscriptions and the environment *)

\* Notify: dropped unless the subscription is active; a failed write closes the
\* codec.  The goroutine that notifies goes on until the subscription's Err or
\* the notifier's Closed channel is closed.
Notify(s) ==
    LET c == s[1]
    IN  /\ s \in active /\ c \notin closed /\ notes[c] < MaxNotes
        /\ notes' = [notes EXCEPT ![c] = @ + 1]
        /\ IF Open(c) THEN written' = [written EXCEPT ![c] = Append(@, <<"note", s>>)] /\ UNCHANGED closed
           ELSE closed' = closed \cup {c} /\ UNCHANGED written
        /\ UNCHANGED <<run, stop, codecs, serve, broken, reads, tasks, inactive, active, ended>>

Hangup(c) ==
    /\ serve[c] # "idle" /\ Open(c)
    /\ broken' = broken \cup {c}
    /\ UNCHANGED <<run, stop, codecs, serve, closed, reads, tasks, subVars, written>>

\* Stop: the swap, and then, under codecsMu, every codec is closed.
Stop ==
    /\ stop = "idle" /\ run
    /\ stop' = "closing" /\ run' = FALSE
    /\ UNCHANGED <<codecs, serve, closed, broken, reads, tasks, subVars, written>>

CloseAll ==
    /\ stop = "closing" /\ stop' = "done"
    /\ closed' = closed \cup codecs
    /\ UNCHANGED <<run, codecs, serve, broken, reads, tasks, subVars, written>>

\* What the server's goroutines do by themselves; only messages, notifications
\* and the end of a client come from outside.
Progress ==
    \/ \E c \in Codecs : TestRun(c) \/ ReadEnds(c) \/ CheckRun(c) \/ Pending(c) \/ Leave(c)
    \/ \E t \in tasks : Handle(t) \/ Write(t) \/ CloseCodec(t) \/ Activate(t)
    \/ CloseAll

Next ==
    \/ Progress
    \/ \E c \in Codecs : Serve(c) \/ Hangup(c) \/ \E m \in Messages : ReadRequest(c, m)
    \/ \E s \in active : Notify(s)
    \/ Stop

Spec == Init /\ [][Next]_vars /\ WF_vars(Progress)

-----------------------------------------------------------------------------
\* No client receives a notification before the id of its subscription
\* (subscription.go:125), and a subscription is never both active and over:
\* unsubscribe, which may overtake activate, ends each at most once.
IdsFirst ==
    /\ \A c \in Codecs : \A i \in DOMAIN written[c] :
          written[c][i][1] = "note" =>
              \E j \in 1 .. i - 1 : written[c][j][1] = "response" /\ written[c][i][2] \in written[c][j][2]
    /\ active \cap ended = {} /\ active \cap inactive = {}

\* After Stop every codec that was served is closed and its goroutine gone,
\* also one that was registered, or read, while Stop was under way
\* (server.go:216: "In either case the codec is closed").
StopEndsAll ==
    stop = "done" ~> \A c \in Codecs : serve[c] \in {"idle", "ended"} /\ (serve[c] = "ended" => c \in closed)
=============================================================================
