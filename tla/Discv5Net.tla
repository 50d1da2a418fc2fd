----------------------------- MODULE Discv5Net ------------------------------
(***************************************************************************)
(* Discovery v5 (p2p/discv5/net.go): the state machine of each remote node, *)
(* the queries that lookups send to it, and the table (table.go), all run  *)
(* by the goroutine Network.loop.  Lookups are goroutines of their own     *)
(* that hand queries to the loop and read the answers from a channel.      *)
(*                                                                         *)
(* A timer is a key of timeoutTimers.  Its goroutine may already be        *)
(* waiting to deliver when the timer is stopped or set again, and the loop *)
(* tells timers apart by their key only: live counts the deliveries that   *)
(* are still to come.  A pong is an event here while a ping is waited for: *)
(* one that carries the hash of an earlier ping changes nothing.           *)
(***************************************************************************)
EXTENDS Integers, Sequences, FiniteSets, SequencesExt

CONSTANTS
    Nodes,        \* remote nodes, all of one bucket
    Seeds,        \* the nursery, or what the database holds
    Lookups,      \* goroutines that look something up
    Alpha,        \* capacity of a reply channel, and queries out at a time
    BucketSize,
    MaxFailures,  \* maxFindnodeFailures; the count is cut off just above it
    MaxLive,      \* bound on deliveries to come of one timer
    MaxGen,       \* bound on the reply channels of one lookup
    MaxEvents,    \* bound on what starts from outside
    None

VARIABLES
    S,       \* what the loop owns, see Init
    lookup,  \* the lookups
    unanswered,  \* history: nodes whose ping ran out of time and is still waited for
    events   \* how much was started from outside

vars == <<S, lookup, unanswered, events>>

CanQuery(s) == s \in {"known", "contested", "unresponsive"}
Events == {"pong", "ping", "neighbours"}    \* pongTimeout, pingTimeout, neighboursTimeout
Channels == Lookups \X (0 .. MaxGen)

Init ==
    /\ S = [st       |-> [n \in Nodes |-> "unknown"],
            echo     |-> {},                              \* nodes with a pingEcho
            set      |-> {},                              \* keys of timeoutTimers
            live     |-> [k \in Events \X Nodes |-> 0],
            deferred |-> [n \in Nodes |-> <<>>],
            pending  |-> [n \in Nodes |-> None],          \* pendingNeighbours
            timeouts |-> [n \in Nodes |-> 0],             \* queryTimeouts
            entries  |-> <<>>, repl |-> <<>>,
            buf      |-> [c \in Channels |-> <<>>],       \* reply channels
            blocked  |-> FALSE]                           \* the loop waits for a reader
    /\ lookup = [l \in Lookups |-> [st |-> "idle", asked |-> {}, seen |-> {}, result |-> {},
                                    out |-> 0, gen |-> 0]]
    /\ unanswered = {} /\ events = 0

Event == events < MaxEvents /\ events' = events + 1

\* The loop takes a step to T, in which the timeouts of late's pings come.
BecomesLate(T, late) == /\ ~S.blocked
                        /\ \A k \in DOMAIN T.live : T.live[k] <= MaxLive
                        /\ S' = T
                        /\ unanswered' = (unanswered \cup late) \cap T.echo
Becomes(T) == BecomesLate(T, {})

-----------------------------------------------------------------------------
(* Timers, pings and answers *)

TimedEvent(T, n, ev) ==
    [T EXCEPT !.set = @ \cup {<<ev, n>>}, !.live[<<ev, n>>] = @ + 1]

\* Mutant of AbortTimedEvent: the key of the stopped timer stays.
AbortTimedEventKeeps(T, n, ev, stopped) ==
    IF <<ev, n>> \notin T.set THEN T
    ELSE [T EXCEPT !.live[<<ev, n>>] = IF stopped THEN @ - 1 ELSE @]

\* abortTimedEvent: Stop may come too late for a timer that has fired.
AbortTimedEvent(T, n, ev, stopped) ==
    IF <<ev, n>> \notin T.set THEN T
    ELSE [T EXCEPT !.set = @ \ {<<ev, n>>}, !.live[<<ev, n>>] = IF stopped THEN @ - 1 ELSE @]

\* ping: not while another one is waited for.
Ping(T, n) ==
    IF n \in T.echo THEN T
    ELSE TimedEvent([T EXCEPT !.echo = @ \cup {n}], n, "pong")

\* An answer to a query; the loop blocks when the channel is full.
Reply(T, q, nodes) ==
    IF Len(T.buf[q]) = Alpha THEN [T EXCEPT !.blocked = TRUE]
    ELSE [T EXCEPT !.buf[q] = Append(@, nodes)]

(* The table *)

DeleteNode(s, n) == SelectSeq(s, LAMBDA m : m # n)
Bump(s, n) == <<n>> \o RemoveAt(s, CHOOSE i \in DOMAIN s : s[i] = n /\ \A j \in DOMAIN s : s[j] = n => i <= j)

\* add: a full bucket takes the node as a replacement, again and again.
TabAdd(T, n) ==
    IF n \in Range(T.entries) THEN [T EXCEPT !.entries = Bump(@, n)]
    ELSE IF Len(T.entries) < BucketSize THEN [T EXCEPT !.entries = <<n>> \o @]
    ELSE [T EXCEPT !.repl = IF Len(@) = BucketSize THEN Append(Tail(@), n) ELSE Append(@, n)]

\* What add returns: the last entry of a full bucket.
Contested(T, n) ==
    IF n \in Range(T.entries) \/ Len(T.entries) < BucketSize THEN None ELSE Last(T.entries)

TabDelete(T, n) ==
    IF n \notin Range(T.entries) THEN T ELSE [T EXCEPT !.entries = Tail(Bump(@, n))]

\* deleteReplace: the node goes, and the newest replacement comes in.
DeleteReplace(T, n) ==
    LET D == [T EXCEPT !.entries = DeleteNode(@, n)]
    IN  IF Len(D.entries) < BucketSize /\ D.repl # <<>>
        THEN [D EXCEPT !.entries = <<Last(D.repl)>> \o @, !.repl = Front(@)]
        ELSE D

(* Entering a state *)

EnterVerifyinit(T, n) == Ping([T EXCEPT !.st[n] = "verifyinit"], n)
EnterContested(T, n) == Ping([T EXCEPT !.st[n] = "contested"], n)
EnterRemoteverify(T, n) == TimedEvent([T EXCEPT !.st[n] = "remoteverifywait"], n, "ping")

\* All queries for the node are aborted.
EnterUnknown(T, n) ==
    LET D == [TabDelete(T, n) EXCEPT !.st[n] = "unknown", !.echo = @ \ {n}, !.timeouts[n] = 0,
                                     !.deferred[n] = <<>>, !.pending[n] = None]
        qs == T.deferred[n] \o (IF T.pending[n] = None THEN <<>> ELSE <<T.pending[n]>>)
    IN  FoldLeft(LAMBDA R, q : Reply(R, q, {}), D, qs)

\* findnodeQuery.start, for a remote node that can be queried.
Startable(T, n) == CanQuery(T.st[n]) /\ T.pending[n] = None
StartQuery(T, n, q) == TimedEvent([T EXCEPT !.pending[n] = q], n, "neighbours")

StartNextQuery(T, n) ==
    IF T.deferred[n] = <<>> \/ ~Startable(T, n) THEN T
    ELSE StartQuery([T EXCEPT !.deferred[n] = Tail(@)], n, Head(T.deferred[n]))

\* The node goes into the table, and the last entry of a full bucket is
\* revalidated.
EnterKnown(T, n) ==
    LET K == StartNextQuery([T EXCEPT !.st[n] = "known", !.timeouts[n] = 0], n)
        last == Contested(K, n)
        A == TabAdd(K, n)
    IN  IF last # None /\ A.st[last] = "known" THEN EnterContested(A, last) ELSE A

Transition(T, n, next) ==
    IF T.st[n] = next THEN T
    ELSE CASE next = "unknown" -> EnterUnknown(T, n)
           [] next = "verifyinit" -> EnterVerifyinit(T, n)
           [] next = "verifywait" -> [T EXCEPT !.st[n] = "verifywait"]
           [] next = "remoteverifywait" -> EnterRemoteverify(T, n)
           [] next = "known" -> EnterKnown(T, n)
           [] next = "contested" -> EnterContested(T, n)
           [] next = "unresponsive" -> [T EXCEPT !.st[n] = "unresponsive"]

-----------------------------------------------------------------------------
(* Events of a node *)

\* A ping of the remote: it is answered in every state.
PingPacket(n) ==
    LET s == S.st[n]
        T == IF s = "unknown" THEN Ping(S, n) ELSE S
        next == CASE s \in {"unknown", "verifyinit"} -> "verifywait"
                  [] s = "unresponsive" -> "known"
                  [] OTHER -> s
    IN  /\ Event
        /\ Becomes(Transition(T, n, next))
        /\ UNCHANGED lookup

\* The pong to our ping.  Where it is no event of the state (errInvalidEvent)
\* checkPacket has still forgotten the echo, and the timer stays.
PongPacket(n, stopped) ==
    LET s == S.st[n]
        E == [S EXCEPT !.echo = @ \ {n}]
        next == IF s = "verifyinit" THEN "remoteverifywait" ELSE "known"
    IN  /\ n \in S.echo
        /\ Becomes(IF s \in {"unknown", "remoteverifywait"} THEN E
                   ELSE Transition(AbortTimedEvent(E, n, "pong", stopped), n, next))
        /\ UNCHANGED <<lookup, events>>

\* What the state of n does with a timeout.
HandleTimeout(n, ev, T) ==
    LET s == T.st[n]
        D == IF T.pending[n] = None THEN T
             ELSE [Reply(T, T.pending[n], {}) EXCEPT !.pending[n] = None]
        more == T.timeouts[n] + 1
    IN  CASE ev = "pong" /\ s \in {"verifyinit", "verifywait"} -> Transition(T, n, "unknown")
          [] ev = "pong" /\ s = "contested" -> Transition(DeleteReplace(T, n), n, "unresponsive")
          [] ev = "ping" /\ s = "remoteverifywait" -> Transition(T, n, "known")
          [] ev = "neighbours" /\ CanQuery(s) ->
                 IF more > MaxFailures /\ s = "known"
                 THEN Transition([D EXCEPT !.timeouts[n] = more], n, "contested")
                 ELSE [D EXCEPT !.timeouts[n] = IF more > MaxFailures + 1 THEN @ ELSE more]
          [] OTHER -> T

\* A delivery on net.timeout: a stale one has no key any more.
Timeout(n, ev) ==
    LET k == <<ev, n>>
        T == [S EXCEPT !.live[k] = @ - 1]
    IN  /\ S.live[k] > 0
        /\ IF k \in S.set
           THEN BecomesLate(HandleTimeout(n, ev, [T EXCEPT !.set = @ \ {k}]),
                            IF ev = "pong" THEN {n} ELSE {})
           ELSE Becomes(T)
        /\ UNCHANGED <<lookup, events>>

\* handleNeighboursPacket: the new nodes are verified at once, the query is
\* answered and the next one goes out.
NeighboursPacket(n, r, stopped) ==
    LET A == AbortTimedEvent(S, n, "neighbours", stopped)
        V == FoldLeft(LAMBDA T, m : IF T.st[m] = "unknown" THEN EnterVerifyinit(T, m) ELSE T,
                      A, SetToSeq(r))
    IN  /\ CanQuery(S.st[n]) /\ S.pending[n] # None
        /\ Becomes(StartNextQuery([Reply(V, V.pending[n], r) EXCEPT !.pending[n] = None], n))
        /\ UNCHANGED <<lookup, events>>

\* A topicNodes packet that comes too late, or to no query, counts as a timeout.
TopicNodesLate(n) ==
    LET more == S.timeouts[n] + 1
        T == [S EXCEPT !.timeouts[n] = IF more > MaxFailures + 1 THEN @ ELSE more]
    IN  /\ Event /\ CanQuery(S.st[n])
        /\ Becomes(IF more > MaxFailures /\ S.st[n] = "known" THEN Transition(T, n, "contested") ELSE T)
        /\ UNCHANGED lookup

\* registerLookupDone and searchLookupDone ping nodes whatever their state.
PingAside(n) ==
    /\ Event
    /\ Becomes(Ping(S, n))
    /\ UNCHANGED lookup

\* refresh: the seeds are verified and put into the table.
Refresh ==
    /\ Event
    /\ Becomes(FoldLeft(LAMBDA T, m : TabAdd(IF T.st[m] = "unknown" THEN EnterVerifyinit(T, m) ELSE T, m),
                        S, SetToSeq(Seeds)))
    /\ UNCHANGED lookup

-----------------------------------------------------------------------------
(* Lookups *)

\* lookup: the first answer is the loop's own, from the table.
LookupStarts(l) ==
    /\ Event /\ lookup[l].st = "idle" /\ ~S.blocked
    /\ lookup' = [lookup EXCEPT ![l].st = "ask", ![l].asked = {},
                      ![l].seen = Range(S.entries), ![l].result = Range(S.entries)]
    /\ UNCHANGED <<S, unanswered>>

\* reqQueryFindnode: the query is started or deferred; an unknown node is
\* verified first.
Ask(l, n) ==
    LET L == lookup[l]
        q == <<l, L.gen>>
        D == [S EXCEPT !.deferred[n] = Append(@, q)]
    IN  /\ L.st = "ask" /\ n \in L.result \ L.asked /\ L.out < Alpha
        /\ lookup' = [lookup EXCEPT ![l].asked = @ \cup {n}, ![l].out = @ + 1]
        /\ Becomes(IF Startable(S, n) THEN StartQuery(S, n, q)
                   ELSE IF S.st[n] = "unknown" THEN EnterVerifyinit(D, n) ELSE D)
        /\ UNCHANGED events

\* The next reply is read.
Receive(l) ==
    LET L == lookup[l]
        c == <<l, L.gen>>
        new == Head(S.buf[c]) \ L.seen
    IN  /\ L.st = "ask" /\ S.buf[c] # <<>>
        /\ S' = [S EXCEPT !.buf[c] = Tail(@)]
        /\ lookup' = [lookup EXCEPT ![l].seen = @ \cup new, ![l].result = @ \cup new, ![l].out = @ - 1]
        /\ UNCHANGED <<unanswered, events>>

\* time.After: what is out is forgotten, with the channel it answers to.
GiveUp(l) ==
    /\ lookup[l].st = "ask" /\ lookup[l].out > 0
    /\ lookup[l].out = Alpha \/ lookup[l].result \subseteq lookup[l].asked
    /\ lookup[l].gen < MaxGen
    /\ lookup' = [lookup EXCEPT ![l].out = 0, ![l].gen = @ + 1]
    /\ UNCHANGED <<S, unanswered, events>>

LookupEnds(l) ==
    /\ lookup[l].st = "ask" /\ lookup[l].out = 0 /\ lookup[l].result \subseteq lookup[l].asked
    /\ lookup[l].gen < MaxGen
    /\ lookup' = [lookup EXCEPT ![l] = [@ EXCEPT !.st = "idle", !.asked = {}, !.seen = {},
                                                 !.result = {}, !.gen = @ + 1]]
    /\ UNCHANGED <<S, unanswered, events>>

Next ==
    \/ \E n \in Nodes :
           \/ PingPacket(n) \/ PingAside(n) \/ TopicNodesLate(n)
           \/ \E stopped \in BOOLEAN : \/ PongPacket(n, stopped)
                                       \/ \E r \in SUBSET Nodes : NeighboursPacket(n, r, stopped)
           \/ \E ev \in Events : Timeout(n, ev)
           \/ \E l \in Lookups : Ask(l, n)
    \/ \E l \in Lookups : LookupStarts(l) \/ Receive(l) \/ GiveUp(l) \/ LookupEnds(l)
    \/ Refresh

Spec == Init /\ [][Next]_vars

-----------------------------------------------------------------------------
\* The channel of a query that is late, deferred or aborted has room for its
\* answer although nobody may read it.
NeverBlocked == ~S.blocked

\* A query that was sent has a timeout, and a delivery of it is to come, in spite
\* of timers that were stopped too late or set twice.
QueryTimesOut ==
    /\ \A k \in S.set : S.live[k] > 0
    /\ \A n \in Nodes : S.pending[n] # None => CanQuery(S.st[n]) /\ <<"neighbours", n>> \in S.set

\* While a node's pong or ping is waited for there is a timeout that gives up,
\* unless the timeout of that very ping came before, in a state that had no use
\* for it: the ping stays unanswered and no other one is sent.
VerifyTimesOut ==
    \A n \in Nodes :
        /\ S.st[n] \in {"verifyinit", "verifywait", "contested"} =>
               n \in S.echo /\ (n \in unanswered \/ <<"pong", n>> \in S.set)
        /\ S.st[n] = "remoteverifywait" => <<"ping", n>> \in S.set

\* A node that is unknown has no query left, and one that is being verified has
\* sent none: what was asked of it waits for the outcome.
NoneLeft ==
    \A n \in Nodes : /\ S.st[n] = "unknown" => S.deferred[n] = <<>>
                     /\ ~CanQuery(S.st[n]) => S.pending[n] = None

\* A query that was sent, and one that waits for its node to be verified, ends:
\* the loop is never blocked by a lookup that has given up, what was sent times
\* out, and what waits is sent or answered when the verification ends.  Of a
\* query deferred at a node that can be queried nothing is said here.
QueriesEnd == NeverBlocked /\ QueryTimesOut /\ VerifyTimesOut /\ NoneLeft
=============================================================================
