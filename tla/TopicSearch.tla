---------------------------- MODULE TopicSearch -----------------------------
(***************************************************************************)
(* Searching for the nodes of a topic (discovery v5): SearchTopic and the  *)
(* cases of Network.loop for searches and refreshes (p2p/discv5/net.go),   *)
(* the lookups they start, and the topic queries that follow               *)
(* (p2p/discv5/ticket.go).                                                 *)
(*                                                                         *)
(* While the table is being refreshed, requests are put off; a goroutine   *)
(* sends them again later.  A search repeats itself through a goroutine    *)
(* that sleeps for the period and writes the topic to a channel.           *)
(***************************************************************************)
EXTENDS Integers, Sequences, FiniteSets, Bags, BagsExt, SequencesExt

CONSTANTS
    Topics, Nodes,
    MaxSearchCount,
    Capacity,           \* of the channel topicSearch
    QueryTimeout,       \* topicQueryTimeout
    QueryResend,        \* topicQueryResend
    MaxTime,
    MaxRequests,        \* bound on the requests of one topic's user
    MaxLookups,         \* bound on lookups
    MaxRefreshes

VARIABLES
    user,      \* SearchTopic, by topic: the requests sent, and the last one
    refresh,   \* refreshDone: "no", "runs" or "done"
    deferred,  \* searchReqWhenRefreshDone
    replays,   \* goroutines that send deferred requests again: a bag of lists
    info,      \* topics in searchInfo, and in searchTopicMap
    chan,      \* topicSearch
    sleepers,  \* goroutines that sleep for a period: a bag of topics
    active,    \* activeSearchCount
    running,   \* lookups and their results: a bag of topics
    telling,   \* the topic of the result the loop handles, while its user is told
    queries,   \* queriesSent
    cleanup,   \* nextTopicQueryCleanup
    sent,      \* history: the time of each topic query, by node and topic
    acted,     \* history: the requests of a topic the loop acted on, in its order
    overtaken, \* history: topics with requests in two goroutines at a time
    now, done, refreshes

loopVars == <<refresh, deferred, replays, info, chan, sleepers, active, running, telling>>
queryVars == <<queries, cleanup, sent>>
requestVars == <<acted, overtaken>>
vars == <<user, loopVars, queryVars, requestVars, now, done, refreshes>>

Init ==
    /\ user = [t \in Topics |-> [count |-> 0, on |-> FALSE]]
    /\ refresh = "no" /\ deferred = <<>> /\ replays = EmptyBag
    /\ info = {} /\ chan = <<>> /\ sleepers = EmptyBag
    /\ active = 0 /\ running = EmptyBag /\ telling = {}
    /\ acted = [t \in Topics |-> <<>>] /\ overtaken = {}
    /\ queries = {} /\ cleanup = 0
    /\ sent = [n \in Nodes |-> [t \in Topics |-> {}]]
    /\ now = 1 /\ done = 0 /\ refreshes = 0

\* The loop blocks on a channel that only it reads.
Blocked == Len(chan) > Capacity
Free == ~Blocked /\ telling = {}

\* Is a request of t in the list, or on its way with a goroutine?
Among(t, l) == \E i \in DOMAIN l : l[i].topic = t
Replaying(t) == \E l \in DOMAIN replays : Among(t, l)

-----------------------------------------------------------------------------
\* The loop takes a request from topicSearchReq; on means a delay that is not
\* zero.
Handle(r) ==
    IF refresh # "no" THEN /\ deferred' = Append(deferred, r)
                           /\ UNCHANGED <<info, chan, acted>>
    ELSE /\ UNCHANGED deferred
         /\ acted' = [acted EXCEPT ![r.topic] = Append(@, r)]
         /\ IF r.topic \in info
            THEN info' = (IF r.on THEN info ELSE info \ {r.topic}) /\ UNCHANGED chan
            ELSE IF r.on THEN info' = info \cup {r.topic} /\ chan' = Append(chan, r.topic)
            ELSE UNCHANGED <<info, chan>>

\* SearchTopic: the period was set, or its channel was closed, which reads as a
\* period of zero.
SearchTopic(t, on) ==
    /\ Free /\ user[t].count < MaxRequests
    /\ on # user[t].on
    /\ user' = [user EXCEPT ![t] = [count |-> @.count + 1, on |-> on]]
    /\ Handle([topic |-> t, on |-> on, no |-> user[t].count + 1])
    /\ overtaken' = IF Replaying(t) THEN overtaken \cup {t} ELSE overtaken
    /\ UNCHANGED <<refresh, replays, sleepers, active, running, telling, queryVars, now, done, refreshes>>

\* A request that was put off comes again.
Replay(l) ==
    /\ Free /\ BagIn(l, replays)
    /\ Handle(Head(l))
    /\ replays' = LET rest == BagRemove(replays, l)
                  IN  IF Len(l) = 1 THEN rest ELSE BagAdd(rest, Tail(l))
    /\ UNCHANGED <<user, refresh, sleepers, active, running, telling, queryVars, overtaken, now, done, refreshes>>

\* Mutant of Rearm: a search is repeated only when it was started.
RearmStarted(t) == sleepers' = IF t \in info /\ active < MaxSearchCount THEN BagAdd(sleepers, t) ELSE sleepers
\* The next search of the topic is in one period.
Rearm(t) == sleepers' = IF t \in info THEN BagAdd(sleepers, t) ELSE sleepers

\* The loop takes a topic from topicSearch; not too many lookups run at a time.
Search ==
    LET t == Head(chan)
    IN  /\ Free /\ chan # <<>> /\ chan' = Tail(chan)
        /\ Rearm(t)
        /\ IF active < MaxSearchCount
           THEN active' = active + 1 /\ running' = BagAdd(running, t)
           ELSE UNCHANGED <<active, running>>
        /\ UNCHANGED <<user, refresh, deferred, replays, info, telling, queryVars, requestVars, now, done, refreshes>>

Wake(t) ==
    /\ BagIn(t, sleepers) /\ Len(chan) < Capacity
    /\ sleepers' = BagRemove(sleepers, t)
    /\ chan' = Append(chan, t)
    /\ UNCHANGED <<user, refresh, deferred, replays, info, active, running, telling, queryVars, requestVars,
                   now, done, refreshes>>

-----------------------------------------------------------------------------
\* canQueryTopic
CanQueryTopic(n, t) ==
    ~\E q \in queries : q.node = n /\ q.topic = t /\ q.sent > now - QueryResend

\* cleanupTopicQueries, now and then.
CleanupTopicQueries(qs) ==
    IF cleanup > now THEN UNCHANGED cleanup /\ queries' = qs
    ELSE cleanup' = now + QueryTimeout /\ queries' = {q \in qs : q.sent >= now - QueryResend}

\* A lookup is done.  The user of a search is told whether its radius has
\* converged, on a channel the loop waits for.
SearchLookupDone(t) ==
    /\ Free /\ BagIn(t, running) /\ done < MaxLookups /\ done' = done + 1
    /\ running' = BagRemove(running, t) /\ active' = active - 1
    /\ telling' = {t}
    /\ UNCHANGED <<user, refresh, deferred, replays, info, chan, sleepers, queryVars, requestVars,
                   now, refreshes>>

\* The user has read it (or the search has none): the node found is queried, when
\* it may be (canQuery says whether its state allows it), and the query is
\* remembered.
SearchLookupQueries(t, n, canQuery) ==
    /\ t \in telling /\ telling' = {}
    /\ IF CanQueryTopic(n, t) /\ canQuery
       THEN /\ sent' = [sent EXCEPT ![n][t] = @ \cup {now}]
            /\ CleanupTopicQueries(queries \cup {[node |-> n, topic |-> t, sent |-> now]})
       ELSE UNCHANGED queryVars
    /\ UNCHANGED <<user, refresh, deferred, replays, info, chan, sleepers, active, running,
                   requestVars, now, done, refreshes>>

-----------------------------------------------------------------------------
\* refreshTimer and refreshReq.
RefreshStarts ==
    /\ Free /\ refresh = "no" /\ refreshes < MaxRefreshes
    /\ refresh' = "runs" /\ refreshes' = refreshes + 1
    /\ UNCHANGED <<user, deferred, replays, info, chan, sleepers, active, running, telling, queryVars,
                   requestVars, now, done>>

\* The lookup of the refresh is over; an empty table is refreshed again.
RefreshDone(empty) ==
    /\ Free /\ refresh = "runs"
    /\ IF empty THEN /\ refreshes < MaxRefreshes /\ refreshes' = refreshes + 1
                     /\ UNCHANGED <<refresh, deferred, replays, overtaken>>
       ELSE /\ refresh' = "no" /\ deferred' = <<>> /\ UNCHANGED refreshes
            /\ replays' = IF deferred = <<>> THEN replays ELSE BagAdd(replays, deferred)
            /\ overtaken' = overtaken \cup {t \in Topics : Among(t, deferred) /\ Replaying(t)}
    /\ UNCHANGED <<user, info, chan, sleepers, active, running, telling, queryVars, acted, now, done>>

Tick == now < MaxTime /\ now' = now + 1 /\ UNCHANGED <<user, loopVars, queryVars, requestVars, done, refreshes>>

Next ==
    \/ \E t \in Topics : \/ \E on \in BOOLEAN : SearchTopic(t, on)
                         \/ Wake(t)
                         \/ SearchLookupDone(t)
                         \/ \E n \in Nodes, c \in BOOLEAN : SearchLookupQueries(t, n, c)
    \/ \E l \in DOMAIN replays : Replay(l)
    \/ \E empty \in BOOLEAN : RefreshDone(empty)
    \/ Search \/ RefreshStarts \/ Tick

Spec == Init /\ [][Next]_vars

-----------------------------------------------------------------------------
\* A search that was asked for repeats itself: its topic waits in the channel or
\* with a sleeping goroutine, also when it was stopped and started again, put
\* off, or found too many lookups running; and the count that limits lookups is
\* that of the lookups under way.
SearchGoesOn ==
    /\ \A t \in info : (\E i \in DOMAIN chan : chan[i] = t) \/ BagIn(t, sleepers)
    /\ active = BagCardinality(running)

\* A node is asked about a topic once in QueryResend, although the memory of
\* queries is cleaned up all the time.
QueriedOnce ==
    \A n \in Nodes, t \in Topics : \A i, j \in sent[n][t] : i < j => j - i >= QueryResend

\* Every request is acted on once, however often it was put off; a search is on
\* when the last request acted on says so; and that is the user's last one unless
\* two goroutines had requests of the topic at a time (a replay is then overtaken,
\* and the search is on or off against the user's last wish).
SearchAsAsked ==
    \A t \in Topics :
        LET nos == [i \in DOMAIN acted[t] |-> acted[t][i].no]
        IN  /\ t \in info <=> nos # <<>> /\ Last(acted[t]).on
            /\ ~Among(t, deferred) /\ ~Replaying(t) =>
                   Len(nos) = user[t].count /\ Range(nos) = 1 .. user[t].count
            /\ t \notin overtaken => \A i, j \in DOMAIN nos : i < j => nos[i] < nos[j]

\* All of it: searches follow their users, neither stop by themselves nor repeat a
\* query too soon.
SearchSound == SearchGoesOn /\ QueriedOnce /\ SearchAsAsked
=============================================================================
