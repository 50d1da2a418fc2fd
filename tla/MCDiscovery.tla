---------------------------- MODULE MCDiscovery -----------------------------
(***************************************************************************)
(* Discovery v5 for model checking: its parts, which run on one goroutine  *)
(* and share no state but the clock and the pings of a node, and node      *)
(* records.  part says which one a behaviour follows, and the others stay  *)
(* as they begin.                                                          *)
(***************************************************************************)
EXTENDS Discv5Net

CONSTANTS O1, O2, Small, Big, T1, T2, N1, N2, N3, X1, X2

VARIABLES part,
    K, next, ping, reg, pc, storeNow, ops, lookups,             \* TicketStore
    tab, db, tabNow, tickets, taken, tabEvents,                 \* TopicTable
    user, refresh, deferred, replays, info, chan, sleepers,     \* TopicSearch
    active, running, telling, queries, cleanup, sent, acted, overtaken, searchNow, done, refreshes,
    rec, peer, wire, signed, wound, sets                        \* NodeRecord

Store == INSTANCE TicketStore WITH
    now <- storeNow,
    Topics <- {T1}, Nodes <- {X1, X2}, BucketLen <- 1, Waits <- {0, 2}, KeepTicketConst <- 2,
    CollectFrequency <- 1, MaxCollectDebt <- 1, RegisterFrequency <- 2, MaxRegisterDebt <- 1,
    MaxTime <- 3, MaxTopicOps <- 3, MaxLookups <- 2

Table == INSTANCE TopicTable WITH
    S <- tab, now <- tabNow, events <- tabEvents,
    Nodes <- {N1, N2, N3}, Topics <- {T1, T2}, TopicSets <- {{T1, T2}},
    MaxEntriesPerTopic <- 2, MaxEntries <- 9, MinWait <- 0, RegTimeWindow <- 0, Expiry <- 1,
    GcInterval <- 1, NoRegTimeouts <- {1}, MaxTickets <- 3, MaxTime <- 3, MaxEvents <- 4

Searches == INSTANCE TopicSearch WITH
    now <- searchNow,
    Nodes <- {X1}, Topics <- {T1, T2}, MaxSearchCount <- 1, Capacity <- 4, QueryTimeout <- 1,
    QueryResend <- 3, MaxTime <- 4, MaxRequests <- 2, MaxLookups <- 2, MaxRefreshes <- 2

Records == INSTANCE NodeRecord WITH
    Owners <- {O1, O2}, SizeLimit <- 5, MaxSeq <- 4, MaxSets <- 2

ASSUME Records!RecordAssumption

storeVars == <<K, next, ping, reg, pc, storeNow, ops, lookups>>
tableVars == <<tab, db, tabNow, tickets, taken, tabEvents>>
searchVars == <<user, refresh, deferred, replays, info, chan, sleepers, active, running,
                telling, queries, cleanup, sent, acted, overtaken, searchNow, done, refreshes>>
recordVars == <<rec, peer, wire, signed, wound, sets>>

MCInit ==
    /\ part \in {"net", "store", "table", "search", "records"}
    /\ Init /\ Store!Init /\ Table!Init /\ Searches!Init /\ Records!Init

MCNext ==
    \/ /\ part = "net" /\ Next
       /\ UNCHANGED <<part, storeVars, tableVars, searchVars, recordVars>>
    \/ /\ part = "store" /\ Store!Next
       /\ UNCHANGED <<part, vars, tableVars, searchVars, recordVars>>
    \/ /\ part = "table" /\ Table!Next
       /\ UNCHANGED <<part, vars, storeVars, searchVars, recordVars>>
    \/ /\ part = "search" /\ Searches!Next
       /\ UNCHANGED <<part, vars, storeVars, tableVars, recordVars>>
    \/ /\ part = "records" /\ Records!Next
       /\ UNCHANGED <<part, vars, storeVars, tableVars, searchVars>>

allVars == <<part, vars, storeVars, tableVars, searchVars, recordVars>>

\* The fairness of the ticket store; see the module.
MCSpec ==
    /\ MCInit /\ [][MCNext]_allVars
    /\ WF_storeVars(part = "store" /\ Store!Tick)
    /\ WF_storeVars(part = "store" /\ Store!ResetNextTicket)
    /\ SF_storeVars(part = "store" /\ Store!Register)

-----------------------------------------------------------------------------
\* ticket.go: a ticket is redeemed or dropped when its time comes.
TicketsUsed == part = "store" => Store!TicketsUsed

\* Both ends of a registration.  topic.go: the indexes and counters of the topic
\* table agree, whatever is deleted while something is added.  ticket.go: nothing
\* dangles in the ticket store when a topic goes while its tickets are cached or due.
TopicsSound ==
    /\ part = "table" => Table!TableSound
    /\ part = "store" => Store!StoreSound

\* topic.go, useTicket: a node that has used a ticket is taken no older one, and a
\* newer one not before noRegUntil, although the table forgets nodes.
TicketsInOrder ==
    [][\A n \in {N1, N2, N3} : taken'[n] # taken[n] =>
           taken'[n].serial > taken[n].serial /\ tabNow >= taken[n].until]_tableVars

\* net.go and ticket.go: a search is on when the requests acted on say so, each of
\* which is acted on once and in order unless it was overtaken; it repeats itself
\* while it is on, and no node is queried again too soon.
SearchSound == part = "search" => Searches!SearchSound

\* enr.go: a signed record is what was signed, and its number tells it apart.
RecordsSound == part = "records" => Records!RecordsSound
=============================================================================
