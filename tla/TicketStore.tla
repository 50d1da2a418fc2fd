---------------------------- MODULE TicketStore -----------------------------
(***************************************************************************)
(* The registrant's side of topic advertisement: the ticket store          *)
(* (p2p/discv5/ticket.go) and the cases of Network.loop (net.go) that drive *)
(* it.  Lookups find registrars, a ping to one brings a ticket for every   *)
(* topic being registered, and the ticket is redeemed when its time comes. *)
(*                                                                         *)
(* Every turn of the loop begins with resetNextTicket, whose own loop over *)
(* tickets to be dropped is taken one ticket at a time (pc = "head").  A   *)
(* ticket is a record; a node has one at a time, used for one topic.  The  *)
(* radius (topicRadius) decides which lookups estimate it and which nodes  *)
(* are near enough: both are left open here.                               *)
(***************************************************************************)
EXTENDS Integers, Sequences, FiniteSets, FiniteSetsExt

CONSTANTS
    Topics, Nodes,
    BucketLen,          \* ticketTimeBucketLen
    Waits,              \* wait periods that registrars ask for
    KeepTicketConst,    \* tickets with a shorter wait are always kept
    CollectFrequency, MaxCollectDebt,
    RegisterFrequency, MaxRegisterDebt,
    MaxTime,
    MaxTopicOps,        \* bound on topics added and removed
    MaxLookups,         \* bound on lookups
    None

VARIABLES
    K,      \* the ticket store, see Init
    next,   \* nextTicket, a timer for it is set
    ping,   \* outstanding pings, by node: the topics sent, or None
    reg,    \* the lookups for registrars, see Init
    pc,     \* "head", "select" or what has stopped the loop
    now, ops, lookups

vars == <<K, next, ping, reg, pc, now, ops, lookups>>

Init ==
    /\ K = [tickets |-> [t \in Topics |-> None],    \* nextLookup and nextReg, by topic
            refs    |-> {},                         \* all the buckets
            nodes   |-> [n \in Nodes |-> None],
            lastReq |-> [n \in Nodes |-> None],
            bucket  |-> 0,                          \* lastBucketFetched
            cached  |-> None,                       \* nextTicketCached
            queue   |-> <<>>]                       \* regQueue, regSet
    /\ next = None
    /\ ping = [n \in Nodes |-> None]
    /\ reg = [target |-> None,     \* topicRegisterLookupTarget
              armed |-> FALSE,     \* topicRegisterLookupTick
              full |-> FALSE,      \* the tick waits in its channel
              lookup |-> FALSE]    \* topicRegisterLookupDone is waited for
    /\ pc = "head" /\ now = BucketLen /\ ops = 0 /\ lookups = 0

Bucket(time) == time \div BucketLen
Above(a, b) == IF a > b THEN a ELSE b

\* Another turn of the loop.
Turn == pc = "select" /\ pc' = "head"

-----------------------------------------------------------------------------
(* The ticket store *)

AddTopic(k, t) ==
    IF k.tickets[t] # None THEN k
    ELSE [k EXCEPT !.tickets[t] = [nextLookup |-> 0, nextReg |-> 0]]

\* The nodes of these references have no ticket any more.
Release(k, rs) ==
    LET ns == {r.node : r \in rs}
    IN  [k EXCEPT !.refs = @ \ rs,
                  !.nodes = [n \in Nodes |-> IF n \in ns THEN None ELSE @[n]],
                  !.lastReq = [n \in Nodes |-> IF n \in ns THEN None ELSE @[n]]]

\* removeRegisterTopic; the cached ticket stays.
RemoveRegisterTopic(k, t) ==
    [Release(k, {r \in k.refs : r.topic = t}) EXCEPT !.tickets[t] = None]

\* removeTicketRef, of a reference that is in its bucket.
RemoveTicketRef(k, r) ==
    IF k.tickets[r.topic] = None THEN [k EXCEPT !.cached = None]
    ELSE [Release(k, {r}) EXCEPT !.cached = None]
RemovePanics(k, r) == k.tickets[r.topic] # None /\ r \notin k.refs

\* addTicketRef: with every ticket the topic's next lookup is due later.
AddTicketRef(k, r) ==
    LET min == now - CollectFrequency * MaxCollectDebt
    IN  [k EXCEPT !.refs = @ \cup {r},
                  !.tickets[r.topic].nextLookup = Above(@, min) + CollectFrequency]

\* Buckets are searched from the present on.
FetchFrom(k) ==
    IF k.bucket = 0 \/ Bucket(now) < k.bucket THEN [k EXCEPT !.bucket = Bucket(now)] ELSE k

\* addTicket: the ticket of a pong to the ping of a regular lookup.
AddTicket(k, n, topics, wait, keep) ==
    LET q == k.lastReq[n]
        r == [node |-> n, topic |-> q.topic, time |-> now + wait]
        F == FetchFrom(k)
    IN  IF q = None \/ ~q.echo \/ q.radius \/ k.nodes[n] # None \/ q.topic \notin topics THEN k
        ELSE IF k.tickets[q.topic] = None \/ ~keep THEN F
        ELSE [AddTicketRef(F, r) EXCEPT !.cached = None, !.nodes[n] = r]

\* Mutant of TicketRegistered: the reference is kept.
TicketRegisteredKeeps(k, r) ==
    LET min == now - RegisterFrequency * MaxRegisterDebt
    IN  [k EXCEPT !.tickets[r.topic].nextReg = Above(@, min), !.cached = None]

\* ticketRegistered: the next registration of the topic is due later.
TicketRegistered(k, r) ==
    LET min == now - RegisterFrequency * MaxRegisterDebt
    IN  RemoveTicketRef([k EXCEPT !.tickets[r.topic].nextReg = Above(@, min) + RegisterFrequency], r)

\* nextRegisterLookup: the first topic of the queue that still exists and needs
\* tickets, with new topics at its end; nothing when the queue runs out.
Queued(k) ==
    LET new == {t \in Topics : k.tickets[t] # None} \ {k.queue[i] : i \in DOMAIN k.queue}
    IN  {k.queue \o s : s \in {p \in [1 .. Cardinality(new) -> new] :
                                   \A t \in new : \E i \in DOMAIN p : p[i] = t}}
Needs(k, t) == k.tickets[t] # None /\ k.tickets[t].nextLookup < now
NextRegisterLookup(k, radius, q) ==
    LET due == {i \in DOMAIN q : Needs(k, q[i])}
    IN  IF due = {} THEN <<None, [k EXCEPT !.queue = <<>>]>>
        ELSE <<[topic |-> q[Min(due)], radius |-> radius],
               [k EXCEPT !.queue = SubSeq(q, Min(due) + 1, Len(q))]>>

-----------------------------------------------------------------------------
(* resetNextTicket, at the head of the loop *)

\* nextFilteredTicket is done: the timer is set for the ticket found.
Select(k, r) == K' = k /\ next' = r /\ pc' = "select"

\* A ticket that comes before the topic's next registration is dropped, one
\* whose topic is gone is forgotten.
Filter(k, r) ==
    IF k.tickets[r.topic] # None /\ r.time >= k.tickets[r.topic].nextReg
    THEN Select([k EXCEPT !.cached = r], r)
    ELSE /\ UNCHANGED next
         /\ IF RemovePanics(k, r) THEN K' = k /\ pc' = "panic"
            ELSE K' = RemoveTicketRef(k, r) /\ UNCHANGED pc

\* nextRegisterableTicket: the cached one, or the earliest of the first bucket
\* that is not empty.  Without an end when all buckets lie behind.
ResetNextTicket ==
    LET ahead == {r \in K.refs : Bucket(r.time) >= K.bucket}
        first == Min({Bucket(r.time) : r \in ahead})
        k == [K EXCEPT !.bucket = Above(@, first - 1)]
    IN  /\ pc = "head"
        /\ IF K.cached # None THEN Filter(K, K.cached)
           ELSE IF K.refs = {} THEN Select(K, None)
           ELSE IF ahead = {} THEN pc' = "spin" /\ UNCHANGED <<K, next>>
           ELSE \E r \in ahead : /\ \A s \in ahead : r.time <= s.time
                                 /\ Filter(k, r)
        /\ UNCHANGED <<ping, reg, now, ops, lookups>>

-----------------------------------------------------------------------------
(* The cases of the loop *)

\* RegisterTopic: the loop's idle wait is to be cut short, but a timer that was
\* stopped leaves nothing in its channel.
RegisterTopic(t, radius) ==
    LET k == AddTopic(K, t)
    IN  /\ ops < MaxTopicOps /\ ops' = ops + 1
        /\ pc = "select"
        /\ IF reg.target # None
           THEN K' = k /\ pc' = "head" /\ UNCHANGED reg
           ELSE IF reg.armed
           THEN K' = k /\ reg' = [reg EXCEPT !.armed = FALSE] /\ pc' = "tick"
           ELSE \E q \in Queued(k) :
                    LET N == NextRegisterLookup(k, radius, q)
                    IN  K' = N[2] /\ reg' = [reg EXCEPT !.target = N[1], !.armed = TRUE] /\ pc' = "head"
        /\ UNCHANGED <<next, ping, now, lookups>>

UnregisterTopic(t) ==
    /\ ops < MaxTopicOps /\ ops' = ops + 1
    /\ Turn
    /\ K' = IF K.tickets[t] = None THEN K ELSE RemoveRegisterTopic(K, t)
    /\ UNCHANGED <<next, ping, reg, now, lookups>>

\* The timer fires.
TickFires ==
    /\ reg.armed /\ reg' = [reg EXCEPT !.armed = FALSE, !.full = TRUE]
    /\ UNCHANGED <<K, next, ping, pc, now, ops, lookups>>

\* The tick: a lookup is started, or looked for again.
LookupTick(radius) ==
    /\ Turn /\ reg.full
    /\ IF reg.target = None
       THEN \E q \in Queued(K) :
                LET N == NextRegisterLookup(K, radius, q)
                IN  K' = N[2] /\ reg' = [target |-> N[1], armed |-> TRUE, full |-> FALSE, lookup |-> FALSE]
       ELSE reg' = [reg EXCEPT !.full = FALSE, !.lookup = TRUE] /\ UNCHANGED K
    /\ UNCHANGED <<next, ping, now, ops, lookups>>

RegTopicSet(k) == {t \in Topics : k.tickets[t] # None}

\* registerLookupDone, for the nodes that are near enough and have no ticket
\* (or, in a lookup for the radius, were not asked of late): they are pinged, if
\* they are not already, and the ping is remembered.
RegisterLookupDone(ns, radius) ==
    LET q == [topic |-> reg.target.topic, radius |-> reg.target.radius, echo |-> TRUE]
        A == [K EXCEPT !.lastReq = [n \in Nodes |-> IF n \in ns THEN q ELSE @[n]]]
    IN  /\ Turn /\ reg.lookup /\ lookups < MaxLookups
        /\ ns \subseteq {n \in Nodes : reg.target.radius \/ K.nodes[n] = None}
        /\ lookups' = lookups + 1
        /\ ping' = [n \in Nodes |-> IF n \in ns /\ ping[n] = None THEN RegTopicSet(K) ELSE ping[n]]
        /\ \E s \in Queued(A) :
               LET N == NextRegisterLookup(A, radius, s)
               IN  /\ K' = N[2]
                   /\ reg' = [reg EXCEPT !.target = N[1], !.armed = TRUE, !.lookup = FALSE]
        /\ UNCHANGED <<next, now, ops>>

\* searchLookupDone, of a lookup for the radius: what was remembered of a ping
\* is overwritten.
SearchLookupDone(n, t) ==
    /\ Turn /\ lookups < MaxLookups /\ lookups' = lookups + 1
    /\ K' = [K EXCEPT !.lastReq[n] = [topic |-> t, radius |-> TRUE, echo |-> FALSE]]
    /\ UNCHANGED <<next, ping, reg, now, ops>>

\* An answer is no longer expected: the hash kept for the ping is of no use.
Unping(k, n) ==
    IF k.lastReq[n] = None THEN k ELSE [k EXCEPT !.lastReq[n].echo = FALSE]

\* handleKnownPong: the pong brings a ticket for the topics of the ping.
Pong(n, wait, keep) ==
    /\ Turn /\ ping[n] # None
    /\ wait < KeepTicketConst => keep
    /\ K' = Unping(AddTicket(K, n, ping[n], wait, keep), n)
    /\ ping' = [ping EXCEPT ![n] = None]
    /\ UNCHANGED <<next, reg, now, ops, lookups>>

\* The pong does not come, and the node goes back to state unknown.
PongTimeout(n) ==
    /\ Turn /\ ping[n] # None
    /\ K' = Unping(K, n)
    /\ ping' = [ping EXCEPT ![n] = None]
    /\ UNCHANGED <<next, reg, now, ops, lookups>>

\* The time of the next ticket has come: it is sent to its registrar.
Register ==
    /\ pc = "select" /\ next # None /\ now >= next.time
    /\ IF K.tickets[next.topic] = None \/ RemovePanics(K, next) THEN pc' = "panic" /\ UNCHANGED K
       ELSE pc' = "head" /\ K' = TicketRegistered(K, next)
    /\ UNCHANGED <<next, ping, reg, now, ops, lookups>>

Tick == now < MaxTime /\ now' = now + 1 /\ UNCHANGED <<K, next, ping, reg, pc, ops, lookups>>

Next ==
    \/ ResetNextTicket \/ TickFires \/ Register \/ Tick
    \/ \E t \in Topics : UnregisterTopic(t)
    \/ \E radius \in BOOLEAN :
           \/ LookupTick(radius)
           \/ \E t \in Topics : RegisterTopic(t, radius)
           \/ \E ns \in SUBSET Nodes : RegisterLookupDone(ns, radius)
    \/ \E n \in Nodes : \/ PongTimeout(n)
                        \/ \E t \in Topics : SearchLookupDone(n, t)
                        \/ \E w \in Waits, keep \in BOOLEAN : Pong(n, w, keep)

\* Time goes on, the loop comes round, and its select, which chooses among the
\* cases that are ready at random, does not pass over a timer for ever.
Spec == Init /\ [][Next]_vars /\ WF_vars(Tick) /\ WF_vars(ResetNextTicket) /\ SF_vars(Register)

-----------------------------------------------------------------------------
\* Whatever topics come and go while tickets are cached, waited for or on their
\* way: the loop never removes a reference that is not there, never registers a
\* topic that is gone, and never searches buckets that are all behind it.
StoreSound ==
    /\ pc \notin {"panic", "spin"}
    /\ \A r \in K.refs : K.tickets[r.topic] # None /\ K.nodes[r.node] = r
    /\ \A n \in Nodes : K.nodes[n] # None => K.nodes[n] \in K.refs

\* A ticket whose time comes is redeemed or dropped (unless the loop has stopped
\* at the timer, see LoopGoesOn).
TicketsUsed ==
    \A n \in Nodes : (K.nodes[n] # None /\ K.nodes[n].time <= MaxTime)
                         ~> (K.nodes[n] = None \/ pc = "tick")

\* What the comment in the loop expects of a new topic: "give the ticket store a
\* chance to start it sooner".  The loop goes on.
LoopGoesOn == pc # "tick"
=============================================================================
