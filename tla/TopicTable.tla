----------------------------- MODULE TopicTable -----------------------------
(***************************************************************************)
(* The registrar's side of topic advertisement (p2p/discv5/topic.go, used  *)
(* by handlePing, checkTopicRegister and handleQueryEvent of net.go): which *)
(* nodes are registered for which topic, one first-in first-out list per   *)
(* topic, and the serial numbers of the tickets each node was issued and   *)
(* has used, which the node database keeps when the table forgets a node.  *)
(* That database is in memory (server.go passes no path), so a restart     *)
(* begins from nothing; and since discv5 never puts a node on record its   *)
(* expirer deletes none of the counters.                                   *)
(*                                                                         *)
(* A registrant may present any ticket it holds, again and in any order.   *)
(* The wait period is counted in steps above the minimum: a registration   *)
(* raises it by one, and every tick since the last one lowers it by one.   *)
(***************************************************************************)
EXTENDS Integers, FiniteSets, FiniteSetsExt

CONSTANTS
    Nodes, Topics,
    MaxEntriesPerTopic,
    MaxEntries,          \* maxEntries, of the whole table
    MinWait,             \* minWaitPeriod
    RegTimeWindow,
    Expiry,              \* fallbackRegistrationExpiry
    GcInterval,
    NoRegTimeouts,       \* what noRegTimeout may draw
    TopicSets,           \* the topics of a ping
    MaxTime, MaxTickets,
    MaxEvents,           \* bound on registrations and queries
    None

VARIABLES
    S,        \* the table, see Init
    db,       \* issued and used serial numbers, by node
    now,
    tickets,  \* tickets in the hands of registrants
    taken,    \* history: each node's latest ticket taken, and noRegUntil as set then
    events    \* how much has happened

vars == <<S, db, now, tickets, taken, events>>

Fresh == [nodes  |-> [n \in Nodes |-> None],
          topics |-> [t \in Topics |-> None],
          global |-> 0, requests |-> 0, gc |-> 0,
          broken |-> FALSE]    \* the code hangs or dereferences nil

Init == /\ S = Fresh
        /\ db = [n \in Nodes |-> [issued |-> 0, used |-> 0]]
        /\ now = 1 /\ tickets = {}
        /\ taken = [n \in Nodes |-> [serial |-> 0, until |-> 0]] /\ events = 0

Event == events < MaxEvents /\ events' = events + 1
Above(a, b) == IF a > b THEN a ELSE b

-----------------------------------------------------------------------------
GetOrNewNode(T, n) ==
    IF T.nodes[n] # None THEN T
    ELSE [T EXCEPT !.nodes[n] = [entries |-> {}, issued |-> db[n].issued, used |-> db[n].used,
                                 noReg |-> 0]]

GetOrNewTopic(T, t) ==
    IF T.topics[t] # None THEN T
    ELSE [T EXCEPT !.topics[t] = [entries |-> {}, head |-> 0, tail |-> 0,
                                  priority |-> T.requests, wait |-> 0, last |-> 0]]

NextWaitPeriod(ti) == Above(0, ti.wait + 1 - (now - ti.last))
HasMinimumWaitPeriod(ti) == NextWaitPeriod(ti) = 0

CheckDeleteTopic(T, t) ==
    IF T.topics[t] # None /\ T.topics[t].entries = {} /\ HasMinimumWaitPeriod(T.topics[t])
    THEN [T EXCEPT !.topics[t] = None] ELSE T

CheckDeleteNode(T, n) ==
    IF T.nodes[n] # None /\ T.nodes[n].entries = {} /\ T.nodes[n].noReg < now
    THEN [T EXCEPT !.nodes[n] = None] ELSE T

\* Mutant of DeleteEntry: the node keeps the entry.
DeleteEntryKeeps(T, e) ==
    IF T.nodes[e.node] = None \/ T.topics[e.topic] = None THEN [T EXCEPT !.broken = TRUE]
    ELSE LET C == [T EXCEPT !.topics[e.topic].entries = @ \ {e}]
             D == IF C.topics[e.topic].entries = {} THEN CheckDeleteTopic(C, e.topic) ELSE C
         IN  [D EXCEPT !.global = @ - 1]

\* deleteEntry: the entry leaves its node and its topic, and either may go
\* with its last entry.
DeleteEntry(T, e) ==
    IF T.nodes[e.node] = None \/ T.topics[e.topic] = None THEN [T EXCEPT !.broken = TRUE]
    ELSE LET A == [T EXCEPT !.nodes[e.node].entries = @ \ {e}]
             B == IF A.nodes[e.node].entries = {} THEN CheckDeleteNode(A, e.node) ELSE A
             C == [B EXCEPT !.topics[e.topic].entries = @ \ {e}]
             D == IF C.topics[e.topic].entries = {} THEN CheckDeleteTopic(C, e.topic) ELSE C
         IN  [D EXCEPT !.global = @ - 1]

\* getFifoTail and deleteEntry together; the search for the tail of an empty
\* list does not end.
DropTail(T, t) ==
    LET idxs == {e.idx : e \in T.topics[t].entries}
        tail == Min(idxs)
    IN  IF ~\E i \in idxs : i >= T.topics[t].tail THEN [T EXCEPT !.broken = TRUE]
        ELSE DeleteEntry([T EXCEPT !.topics[t].tail = tail + 1],
                         CHOOSE e \in T.topics[t].entries : e.idx = tail)

\* leastRequested: the topics with the lowest priority; the order of equals in
\* the heap is left open.
LeastRequested(T) ==
    {t \in Topics : T.topics[t] # None /\ \A u \in Topics :
                        T.topics[u] # None => T.topics[t].priority <= T.topics[u].priority}

Registered(ti) == [ti EXCEPT !.wait = Above(0, ti.wait + 1 - (now - ti.last)), !.last = now]

\* addEntry: a node is registered for one topic at a time.  The entry of a
\* topic that went with its last entry is in no list.
AddEntry(T, n, t, least) ==
    LET A == GetOrNewNode(FoldSet(LAMBDA e, D : DeleteEntry(D, e), T, T.nodes[n].entries), n)
        B == GetOrNewTopic(A, t)
        E == IF Cardinality(B.topics[t].entries) = MaxEntriesPerTopic THEN DropTail(B, t) ELSE B
        F == IF E.global # MaxEntries THEN E
             ELSE DropTail(E, IF least \in LeastRequested(E) THEN least
                              ELSE CHOOSE l \in LeastRequested(E) : TRUE)
        e == [node |-> n, topic |-> t, idx |-> E.topics[t].head, expire |-> now + Expiry]
        G == [F EXCEPT !.nodes[n].entries = @ \cup {e}, !.global = @ + 1]
    IN  IF E.broken \/ F.broken THEN [F EXCEPT !.broken = TRUE]
        ELSE IF F.topics[t] = None THEN G
        ELSE [G EXCEPT !.topics[t] = Registered([@ EXCEPT !.head = @ + 1, !.entries = @ \cup {e}])]

\* collectGarbage, at most once in GcInterval.
CollectGarbage(T) ==
    IF now - T.gc < GcInterval THEN T
    ELSE LET expired == UNION {{e \in T.nodes[n].entries : e.expire <= now} :
                               n \in {m \in Nodes : T.nodes[m] # None}}
             A == FoldSet(LAMBDA e, D : DeleteEntry(D, e), [T EXCEPT !.gc = now], expired)
             B == FoldSet(LAMBDA n, D : CheckDeleteNode(D, n), A, Nodes)
         IN  FoldSet(LAMBDA t, D : CheckDeleteTopic(D, t), B, Topics)

-----------------------------------------------------------------------------
\* handlePing: a ticket for the topics of the ping goes out with the pong.
GetTicket(n, ts) ==
    LET G == GetOrNewNode(CollectGarbage(S), n)
        serial == G.nodes[n].issued + 1
        wait == [t \in ts |-> MinWait + (IF G.topics[t] = None THEN 0 ELSE G.topics[t].wait)]
    IN  /\ ~S.broken /\ Cardinality(tickets) < MaxTickets
        /\ S' = [G EXCEPT !.nodes[n].issued = serial]
        /\ db' = [db EXCEPT ![n] = [issued |-> serial, used |-> G.nodes[n].used]]
        /\ tickets' = tickets \cup {[node |-> n, serial |-> serial, issue |-> now, wait |-> wait]}
        /\ UNCHANGED <<now, taken, events>>

\* Mutant of StoreTicketCounters: the serial number in use is not written.
StoreTicketCountersNot(n, issued, used) == UNCHANGED db
StoreTicketCounters(n, issued, used) ==
    db' = [db EXCEPT ![n] = [issued |-> issued, used |-> used]]

\* useTicket, after checkTopicRegister found our own signature on the ticket.
UseTicket(k, t, noReg, least) ==
    LET G == GetOrNewNode(CollectGarbage(S), k.node)
        n == k.node
        I == G.nodes[n]
        newer == k.serial # I.used
        T == IF newer THEN [G EXCEPT !.nodes[n].used = k.serial, !.nodes[n].noReg = now + noReg]
             ELSE G
        reg == k.issue + k.wait[t]
        own == {e \in I.entries : e.topic = t}
        inTime == now >= reg /\ now <= reg + RegTimeWindow
        N == IF own = {} THEN AddEntry(T, n, t, least)
             ELSE LET e == CHOOSE e \in own : TRUE
                      f == [e EXCEPT !.expire = now + Expiry]
                  IN  [T EXCEPT !.nodes[n].entries = (@ \ {e}) \cup {f},
                                !.topics[t].entries = (@ \ {e}) \cup {f}]
        refused == k.serial < I.used \/ (k.serial > I.used /\ now < I.noReg)
    IN  /\ ~S.broken /\ t \in DOMAIN k.wait
        /\ Event
        /\ IF refused
           THEN S' = G /\ UNCHANGED <<db, taken>>
           ELSE /\ S' = IF inTime THEN N ELSE T
                /\ IF newer THEN StoreTicketCounters(n, I.issued, k.serial) ELSE UNCHANGED db
                /\ taken' = IF k.serial = taken[n].serial THEN taken
                            ELSE [taken EXCEPT ![n] = [serial |-> k.serial, until |-> now + noReg]]
        /\ UNCHANGED <<now, tickets>>

\* getEntries: a query makes its topic the most requested one.
GetEntries(t) ==
    LET G == CollectGarbage(S)
    IN  /\ ~S.broken /\ Event
        /\ S' = IF G.topics[t] = None THEN G
                ELSE [G EXCEPT !.requests = @ + 1, !.topics[t].priority = G.requests + 1]
        /\ UNCHANGED <<db, now, tickets, taken>>

Tick == now < MaxTime /\ now' = now + 1 /\ UNCHANGED <<S, db, tickets, taken, events>>

Next ==
    \/ \E n \in Nodes, ts \in TopicSets : GetTicket(n, ts)
    \/ \E k \in tickets, t \in Topics, r \in NoRegTimeouts, least \in Topics : UseTicket(k, t, r, least)
    \/ \E t \in Topics : GetEntries(t)
    \/ Tick

Spec == Init /\ [][Next]_vars

-----------------------------------------------------------------------------
Known == {n \in Nodes : S.nodes[n] # None}
Open == {t \in Topics : S.topics[t] # None}
Entries == UNION {S.nodes[n].entries : n \in Known}

\* The two indexes of the table hold the same entries, their number is what the
\* counter says, a node has one of them, and the tail of a list has not passed
\* an entry, whatever is deleted while something is added.  (Below the limit of
\* the whole table.)
TableSound ==
    /\ ~S.broken
    /\ Entries = UNION {S.topics[t].entries : t \in Open}
    /\ S.global = Cardinality(Entries)
    /\ \A n \in Known : Cardinality(S.nodes[n].entries) <= 1
    /\ \A t \in Open : /\ Cardinality(S.topics[t].entries) <= MaxEntriesPerTopic
                       /\ \A e \in S.topics[t].entries :
                              e.topic = t /\ e.idx >= S.topics[t].tail /\ e.idx < S.topics[t].head

\* A node that has used a ticket is taken no older one, and a newer one only when
\* noRegUntil, drawn with the last, has passed, although the table forgets the node
\* in between and knows no more than the counters in the database.  (The same one
\* may come again: it prolongs the entry.)
TicketsInOrder ==
    [][\A n \in Nodes : taken'[n] # taken[n] =>
           taken'[n].serial > taken[n].serial /\ now >= taken[n].until]_vars
=============================================================================
