----------------------------- MODULE DiscTable ------------------------------
(***************************************************************************)
(* The node table of discovery v4 (p2p/discover/table.go) and what it      *)
(* keeps in the node database (database.go): buckets with their            *)
(* replacement lists and address counters, bonding, lookups, the           *)
(* revalidation of the last entry of a bucket, refresh and shutdown.       *)
(*                                                                         *)
(* A remote node has one address and so is its id.  Pings and findnodes    *)
(* succeed or fail as the network pleases (ReplyMatcher has the details);  *)
(* they fail once the transport is closed.                                 *)
(***************************************************************************)
EXTENDS Integers, Sequences, FiniteSets, SequencesExt

CONSTANTS
    Ids,              \* remote nodes, other than the local one
    Dist,             \* distance of each to the lookups' target
    Bucket,           \* the bucket each belongs to
    Subnet,           \* the /24 each lives in; Lan is not counted
    Lan,
    BucketSize, MaxReplacements, BucketIPLimit, TableIPLimit,
    Slots,            \* maxBondingPingPongs
    Alpha,            \* queries a lookup has under way
    MaxFails,         \* maxFindnodeFailures
    Boot,             \* bootstrap nodes
    MaxEvents,        \* bound on what timers, the user and the remote nodes start
    MaxReply,         \* bound on the nodes of one findnode reply
    RefreshLookups,   \* lookups of one doRefresh
    None

Buckets == {Bucket[i] : i \in Ids}
Subnets == {Subnet[i] : i \in Ids} \ {Lan}
Searchers == {"refresh", "user"}

VARIABLES
    entries, repl,     \* bucket.entries and bucket.replacements
    ipsT, ipsB,        \* Table.ips and bucket.ips: addresses counted per subnet
    dbNode,            \* nodes of which the database has a record
    dbBond,            \* nodes whose bond is younger than nodeDBNodeExpiration
    fails,             \* findnode failures since bonding
    bonding,           \* Table.bonding: the process that bonds with each id, or None
    bonds,             \* the calls of bond that are under way
    lookup,            \* the lookup of each kind that is under way
    reval,             \* doRevalidate: None, or the node it pings, or "done"
    waiting,           \* callers of refresh and the initial one: waiting for doRefresh
    refreshing,        \* whether doRefresh runs (refreshDone # nil)
    initDone,
    events,            \* how much was started so far
    loop               \* "run", "closing" or "closed"

tabVars == <<entries, repl, ipsT, ipsB>>
dbVars == <<dbNode, dbBond, fails>>
loopVars == <<waiting, refreshing, initDone, events, loop>>
vars == <<tabVars, dbVars, bonding, bonds, lookup, reval, loopVars>>

Idle == [st |-> "idle", result |-> <<>>, asked |-> {}, seen |-> {}, query |-> <<>>, left |-> 0]

\* Something the processes below react to happens; there is a bound on these.
Event == events < MaxEvents /\ events' = events + 1

-----------------------------------------------------------------------------
(* The table, as a record of its four parts *)

Tab == [e |-> entries, r |-> repl, t |-> ipsT, b |-> ipsB]
SetTab(T) == entries' = T.e /\ repl' = T.r /\ ipsT' = T.t /\ ipsB' = T.b

InSeq(s, i) == i \in Range(s)
DeleteNode(s, i) == SelectSeq(s, LAMBDA j : j # i)

\* pushNode: to the front, keeping at most max items.
PushNode(s, i, max) == SubSeq(<<i>> \o s, 1, IF Len(s) < max THEN Len(s) + 1 ELSE max)

\* DistinctNetSet.Add: whether a net with n addresses has room for one more.
Room(n, limit) == n < limit

CanAddIP(T, i) ==
    Subnet[i] = Lan \/ (Room(T.t[Subnet[i]], TableIPLimit) /\ Room(T.b[Bucket[i]][Subnet[i]], BucketIPLimit))

AddIP(T, i) ==
    IF Subnet[i] = Lan THEN T
    ELSE [T EXCEPT !.t[Subnet[i]] = @ + 1, !.b[Bucket[i]][Subnet[i]] = @ + 1]

\* DistinctNetSet.Remove leaves an absent address alone.
Less(n) == IF n > 0 THEN n - 1 ELSE 0
RemoveIP(T, i) ==
    IF Subnet[i] = Lan THEN T
    ELSE [T EXCEPT !.t[Subnet[i]] = Less(@), !.b[Bucket[i]][Subnet[i]] = Less(@)]

\* bump: to the front, if it is an entry.
Bump(T, i) ==
    IF ~InSeq(T.e[Bucket[i]], i) THEN T
    ELSE [T EXCEPT !.e[Bucket[i]] = <<i>> \o DeleteNode(@, i)]

AddReplacement(T, i) ==
    LET b == Bucket[i]
        old == T.r[b]
        A == AddIP(T, i)
        P == [A EXCEPT !.r[b] = PushNode(old, i, MaxReplacements)]
    IN  IF InSeq(old, i) \/ ~CanAddIP(T, i) THEN T
        ELSE IF Len(old) = MaxReplacements THEN RemoveIP(P, Last(old)) ELSE P

\* Mutant of Add: an added node stays among the replacements.
AddKeepsReplacement(T, i) ==
    LET b == Bucket[i]
    IN  IF InSeq(T.e[b], i) THEN Bump(T, i)
        ELSE IF Len(T.e[b]) >= BucketSize \/ ~CanAddIP(T, i) THEN AddReplacement(T, i)
        ELSE [AddIP(T, i) EXCEPT !.e[b] = PushNode(@, i, BucketSize)]

\* add with bumpOrAdd: a node that moves up from the replacements has its
\* address counted a second time.
Add(T, i) ==
    LET b == Bucket[i]
    IN  IF InSeq(T.e[b], i) THEN Bump(T, i)
        ELSE IF Len(T.e[b]) >= BucketSize \/ ~CanAddIP(T, i) THEN AddReplacement(T, i)
        ELSE [AddIP(T, i) EXCEPT !.e[b] = PushNode(@, i, BucketSize), !.r[b] = DeleteNode(@, i)]

\* deleteInBucket: the address is given back whether or not i was an entry.
DeleteInBucket(T, i) == RemoveIP([T EXCEPT !.e[Bucket[i]] = DeleteNode(@, i)], i)

\* replace, of the node that did not answer, if it is still the last entry.
Replace(T, i) ==
    LET b == Bucket[i]
    IN  IF T.e[b] = <<>> \/ Last(T.e[b]) # i THEN {T}
        ELSE IF T.r[b] = <<>> THEN {DeleteInBucket(T, i)}
        ELSE {RemoveIP([T EXCEPT !.e[b] = Append(Front(@), r), !.r[b] = DeleteNode(@, r)], i)
                  : r \in Range(T.r[b])}

\* nodesByDistance.push: before the first entry that is farther, dropping the
\* last one when there is no room.
Push(s, i) ==
    LET nearer == Len(SelectSeq(s, LAMBDA j : Dist[j] <= Dist[i]))
        all == SubSeq(s, 1, nearer) \o <<i>> \o SubSeq(s, nearer + 1, Len(s))
    IN  SubSeq(all, 1, IF Len(all) < BucketSize THEN Len(all) ELSE BucketSize)

\* closest: every entry of every bucket is pushed.
Closest ==
    LET all == UNION {Range(entries[b]) : b \in Buckets}
    IN  FoldLeft(Push, <<>>, SetToSeq(all))

\* querySeeds: random nodes on record, as many as the seeks happen to find; ones
\* that have not been seen for seedMaxAge are among those left out.
QuerySeeds == SUBSET dbNode

\* newTable: the database may be one of an earlier run, and some of the nodes on
\* record and the bootstrap nodes are added, unbonded (loadSeedNodes(false)), before
\* the loop and its first refresh start.
Init ==
    /\ dbNode \in SUBSET Ids /\ dbBond \in SUBSET Ids /\ fails \in [Ids -> 0 .. MaxFails]
    /\ \E s \in QuerySeeds : \E p \in SetToSeqs(s), q \in SetToSeqs(Boot) :
           LET none == [b \in Buckets |-> <<>>]
               T == FoldLeft(Add, [e |-> none, r |-> none, t |-> [u \in Subnets |-> 0],
                                   b |-> [b \in Buckets |-> [u \in Subnets |-> 0]]], p \o q)
           IN  entries = T.e /\ repl = T.r /\ ipsT = T.t /\ ipsB = T.b
    /\ bonding = [i \in Ids |-> None] /\ bonds = {}
    /\ lookup = [l \in Searchers |-> IF l = "refresh" THEN [Idle EXCEPT !.st = "seed", !.left = RefreshLookups]
                                   ELSE Idle]
    /\ reval = None
    /\ waiting = {"init"} /\ refreshing = TRUE /\ initDone = FALSE
    /\ events = 0 /\ loop = "run"

-----------------------------------------------------------------------------
(* Bonding *)

\* Who called bond: the handler of a ping, or a goroutine of a lookup.
ByPing == <<"ping", None>>
Bond(by, i) == [by |-> by, id |-> i, st |-> "start", pinged |-> by = ByPing, known |-> FALSE]

Becomes(B, C) == bonds' = (bonds \ {B}) \cup {C}

\* The state of the process that bonds with i; callers that find it finished
\* take its result.
Owner(i) == CHOOSE B \in bonds : B.by = bonding[i] /\ B.id = i
Found(i) == IF bonding[i] = None THEN "slot"
            ELSE IF Owner(i).st \in {"ok", "err"} THEN Owner(i).st ELSE "wait"

\* The entry of bond: the database is asked for the node and whether it was
\* seen lately.
StartBond(B) ==
    LET i == B.id
        k == i \in dbNode
    IN  /\ B \in bonds /\ B.st = "start"
        /\ IF fails[i] > 0 \/ i \notin dbBond
           THEN /\ Becomes(B, [B EXCEPT !.st = Found(i), !.known = k])
                /\ bonding' = [bonding EXCEPT ![i] = IF @ = None THEN B.by ELSE @]
                /\ UNCHANGED tabVars
           ELSE /\ Becomes(B, [B EXCEPT !.st = IF k THEN "node" ELSE "nil"])
                /\ IF k THEN SetTab(Add(Tab, i)) ELSE UNCHANGED tabVars
                /\ UNCHANGED bonding
        /\ UNCHANGED <<dbVars, lookup, reval, loopVars>>

Pinging == {B \in bonds : B.st \in {"ping", "waitping"}}

\* pingpong: a slot is taken from bondslots, and given back on return.
TakeSlot(B) ==
    /\ B \in bonds /\ B.st = "slot" /\ Cardinality(Pinging) < Slots
    /\ Becomes(B, [B EXCEPT !.st = "ping"])
    /\ UNCHANGED <<tabVars, dbVars, bonding, lookup, reval, loopVars>>

\* close(w.done): the callers that wait for the process have its result too.
Conclude(B, r) ==
    LET ends == {C \in bonds : C.id = B.id /\ (C = B \/ C.st = "wait")}
    IN  bonds' = (bonds \ ends) \cup {[C EXCEPT !.st = r] : C \in ends}

\* ping fails or times out.
PingFails(B) ==
    /\ B \in bonds /\ B.st = "ping"
    /\ Conclude(B, "err")
    /\ UNCHANGED <<tabVars, dbVars, bonding, lookup, reval, loopVars>>

\* The pong arrives: the bond time is stored, and a caller that was not
\* pinged waits for a ping of the other side.
PingAnswered(B) ==
    /\ B \in bonds /\ B.st = "ping" /\ loop = "run"
    /\ dbBond' = dbBond \cup {B.id}
    /\ IF B.pinged THEN Conclude(B, "ok") ELSE Becomes(B, [B EXCEPT !.st = "waitping"])
    /\ UNCHANGED <<tabVars, dbNode, fails, bonding, lookup, reval, loopVars>>

\* waitping returns, answered or not.
WaitPingEnds(B) ==
    /\ B \in bonds /\ B.st = "waitping"
    /\ Conclude(B, "ok")
    /\ UNCHANGED <<tabVars, dbVars, bonding, lookup, reval, loopVars>>

\* The end of bond: the process is unregistered, and the node, or the record
\* there was of it, goes into the table.
BondReturns(B) ==
    LET i == B.id
        has == B.st = "ok" \/ B.known
    IN  /\ B \in bonds /\ B.st \in {"ok", "err"}
        /\ bonding' = IF bonding[i] = B.by THEN [bonding EXCEPT ![i] = None] ELSE bonding
        /\ Becomes(B, [B EXCEPT !.st = IF has THEN "node" ELSE "nil", !.known = FALSE])
        /\ IF has THEN SetTab(Add(Tab, i)) ELSE UNCHANGED tabVars
        /\ fails' = IF has /\ loop # "closed" THEN [fails EXCEPT ![i] = 0] ELSE fails
        /\ UNCHANGED <<dbNode, dbBond, lookup, reval, loopVars>>

\* ping.handle: a ping nobody waited for; the goroutine that bonds gives up
\* while the table is still being seeded.
BondPinged(i) ==
    /\ Event /\ loop = "run"
    /\ ~\E B \in bonds : B.by = ByPing /\ B.id = i
    /\ bonds' = IF initDone THEN bonds \cup {Bond(ByPing, i)} ELSE bonds
    /\ UNCHANGED <<tabVars, dbVars, bonding, lookup, reval, waiting, refreshing, initDone, loop>>

\* The goroutine that ping.handle started returns.
PingBondReturns(B) ==
    /\ B \in bonds /\ B.by = ByPing /\ B.st \in {"node", "nil"}
    /\ bonds' = bonds \ {B}
    /\ UNCHANGED <<tabVars, dbVars, bonding, lookup, reval, loopVars>>

-----------------------------------------------------------------------------
(* Lookups and refresh.  The goroutines of a lookup are named by the pair of
   lookup and node asked; the ones that seed the table by the lookup and None. *)

Ended(by) == {B \in bonds : B.by = by}
Over(by) == \A B \in Ended(by) : B.st \in {"node", "nil"}

\* loadSeedNodes(true) of doRefresh: some of the nodes on record, and the
\* bootstrap nodes, are bonded with.
Seed ==
    /\ lookup["refresh"].st = "seed"
    /\ \E s \in QuerySeeds :
           bonds' = bonds \cup {Bond(<<"refresh", None>>, i) : i \in s \cup Boot}
    /\ lookup' = [lookup EXCEPT !["refresh"].st = "seeding"]
    /\ UNCHANGED <<tabVars, dbVars, bonding, reval, loopVars>>

\* bondall has returned: its nodes are added, and the lookups begin.
Seeded ==
    LET by == <<"refresh", None>>
        nodes == {B.id : B \in {C \in Ended(by) : C.st = "node"}}
    IN  /\ lookup["refresh"].st = "seeding" /\ Over(by)
        /\ \E order \in SetToSeqs(nodes) :
               SetTab(FoldLeft(Add, Tab, order))
        /\ bonds' = bonds \ Ended(by)
        /\ lookup' = [lookup EXCEPT !["refresh"].st = "begin"]
        /\ UNCHANGED <<dbVars, bonding, reval, loopVars>>

\* The user calls Lookup.
UserLookup ==
    /\ Event /\ lookup["user"].st = "idle"
    /\ lookup' = [lookup EXCEPT !["user"].st = "begin"]
    /\ UNCHANGED <<tabVars, dbVars, bonding, bonds, reval, waiting, refreshing, initDone, loop>>

\* The first round of lookup: an empty table is refreshed, once, unless this
\* lookup belongs to the refresh.  refresh hands its channel to the loop, or
\* finds the table closed and does not wait.
Begin(l) ==
    /\ lookup[l].st = "begin"
    /\ l = "user" /\ Closest = <<>> => loop # "closing"
    /\ IF l = "user" /\ Closest = <<>> /\ loop = "run"
       THEN /\ lookup' = IF refreshing THEN [lookup EXCEPT ![l].st = "refresh"]
                         ELSE [lookup EXCEPT ![l].st = "refresh",
                                   !["refresh"] = [Idle EXCEPT !.st = "seed", !.left = RefreshLookups]]
            /\ waiting' = waiting \cup {"user"} /\ refreshing' = TRUE
            /\ UNCHANGED <<initDone, events, loop>>
       ELSE /\ lookup' = [lookup EXCEPT ![l].st = "ask", ![l].result = Closest, ![l].asked = {},
                              ![l].seen = {}, ![l].query = [i \in {} |-> "find"]]
            /\ UNCHANGED loopVars
    /\ UNCHANGED <<tabVars, dbVars, bonding, bonds, reval>>

\* The caller of refresh goes on when its channel is closed.
Refreshed ==
    /\ lookup["user"].st = "refresh" /\ "user" \notin waiting
    /\ lookup' = [lookup EXCEPT !["user"].st = "ask", !["user"].result = Closest,
                      !["user"].asked = {}, !["user"].seen = {}, !["user"].query = [i \in {} |-> "find"]]
    /\ UNCHANGED <<tabVars, dbVars, bonding, bonds, reval, loopVars>>

\* The entries of the result that were not asked yet, nearest first.
ToAsk(L) == SelectSeq(L.result, LAMBDA i : i \notin L.asked)

\* The next of them is asked, while fewer than Alpha queries are out.
Ask(l) ==
    LET L == lookup[l]
    IN  /\ L.st = "ask" /\ ToAsk(L) # <<>> /\ Cardinality(DOMAIN L.query) < Alpha
        /\ LET i == Head(ToAsk(L))
           IN  lookup' = [lookup EXCEPT ![l].asked = @ \cup {i},
                              ![l].query = [j \in DOMAIN @ \cup {i} |-> IF j = i THEN "find" ELSE @[j]]]
        /\ UNCHANGED <<tabVars, dbVars, bonding, bonds, reval, loopVars>>

\* The goroutine of a query: findnode returns nodes, which are bonded with.
Neighbors(l, i, r) ==
    /\ i \in DOMAIN lookup[l].query /\ lookup[l].query[i] = "find" /\ loop = "run"
    /\ lookup' = [lookup EXCEPT ![l].query[i] = "bond"]
    /\ bonds' = bonds \cup {Bond(<<l, i>>, j) : j \in r}
    /\ UNCHANGED <<tabVars, dbVars, bonding, reval, loopVars>>

\* findnode fails: the failure is counted, and one too many drops the node,
\* entry or not.  What did arrive before the timeout is bonded with too.
FindFails(l, i, r) ==
    /\ i \in DOMAIN lookup[l].query /\ lookup[l].query[i] = "find"
    /\ LET n == fails[i] + 1
       IN  /\ fails' = IF loop = "closed" THEN fails
                       ELSE [fails EXCEPT ![i] = IF n > MaxFails THEN MaxFails ELSE n]
           /\ IF n >= MaxFails THEN SetTab(DeleteInBucket(Tab, i)) ELSE UNCHANGED tabVars
    /\ lookup' = [lookup EXCEPT ![l].query[i] = "bond"]
    /\ bonds' = bonds \cup {Bond(<<l, i>>, j) : j \in r}
    /\ UNCHANGED <<dbNode, dbBond, bonding, reval, loopVars>>

\* The lookup receives the nodes of a query and pushes the ones it has not
\* seen in a reply before.
Received(l, i) ==
    LET L == lookup[l]
        by == <<l, i>>
        nodes == {B.id : B \in {C \in Ended(by) : C.st = "node"}} \ L.seen
    IN  /\ i \in DOMAIN L.query /\ L.query[i] = "bond" /\ Over(by)
        /\ bonds' = bonds \ Ended(by)
        /\ lookup' = [lookup EXCEPT ![l].seen = @ \cup nodes,
                          ![l].query = [j \in DOMAIN @ \ {i} |-> @[j]],
                          ![l].result = FoldLeft(Push, @, SetToSeq(nodes))]
        /\ UNCHANGED <<tabVars, dbVars, bonding, reval, loopVars>>

\* Nothing left to ask and nothing out: the lookup returns.  A refresh goes
\* on with its next lookup; doRefresh closes refreshDone after the last.
LookupEnds(l) ==
    LET L == lookup[l]
        more == l = "refresh" /\ L.left > 1
    IN  /\ L.st = "ask" /\ ToAsk(L) = <<>> /\ DOMAIN L.query = {}
        /\ lookup' = [lookup EXCEPT ![l] =
                        IF more THEN [Idle EXCEPT !.st = "begin", !.left = L.left - 1]
                        ELSE IF l = "refresh" THEN [Idle EXCEPT !.st = "done"]
                        ELSE Idle]
        /\ UNCHANGED <<tabVars, dbVars, bonding, bonds, reval, loopVars>>

-----------------------------------------------------------------------------
(* The loop *)

\* Mutant of RefreshDone: the callers that came while it ran are kept.
RefreshDoneKeeps ==
    /\ loop = "run" /\ refreshing /\ lookup["refresh"].st = "done"
    /\ waiting' = waiting \ {"init"} /\ refreshing' = FALSE
    /\ initDone' = TRUE
    /\ lookup' = [lookup EXCEPT !["refresh"] = Idle]
    /\ UNCHANGED <<tabVars, dbVars, bonding, bonds, reval, events, loop>>

\* refreshDone: every waiting channel is closed.
RefreshDone ==
    /\ loop = "run" /\ refreshing /\ lookup["refresh"].st = "done"
    /\ waiting' = {} /\ refreshing' = FALSE
    /\ initDone' = (initDone \/ "init" \in waiting)
    /\ lookup' = [lookup EXCEPT !["refresh"] = Idle]
    /\ UNCHANGED <<tabVars, dbVars, bonding, bonds, reval, events, loop>>

\* The refresh ticker.
RefreshTick ==
    /\ Event /\ loop = "run" /\ ~refreshing
    /\ refreshing' = TRUE
    /\ lookup' = [lookup EXCEPT !["refresh"] = [Idle EXCEPT !.st = "seed", !.left = RefreshLookups]]
    /\ UNCHANGED <<tabVars, dbVars, bonding, bonds, reval, waiting, initDone, loop>>

\* The revalidate timer: nodeToRevalidate takes the last entry of a bucket.
Revalidate(b) ==
    /\ Event /\ loop = "run" /\ reval = None /\ entries[b] # <<>>
    /\ reval' = Last(entries[b])
    /\ UNCHANGED <<tabVars, dbVars, bonding, bonds, lookup, waiting, refreshing, initDone, loop>>

\* doRevalidate, back from its ping: the bucket may have changed meanwhile.
Revalidated(ok) ==
    /\ reval \in Ids /\ (ok => loop = "run")
    /\ IF ok THEN SetTab(Bump(Tab, reval)) ELSE \E T \in Replace(Tab, reval) : SetTab(T)
    /\ dbBond' = IF ok THEN dbBond \cup {reval} ELSE dbBond
    /\ reval' = IF loop = "run" THEN None ELSE "done"
    /\ UNCHANGED <<dbNode, fails, bonding, bonds, lookup, loopVars>>

\* copyBondedNodes: the entries that have been in the table for a while.
CopyBondedNodes ==
    /\ Event /\ loop = "run"
    /\ \E s \in SUBSET UNION {Range(entries[b]) : b \in Buckets} : dbNode' = dbNode \cup s
    /\ UNCHANGED <<tabVars, dbBond, fails, bonding, bonds, lookup, reval, waiting, refreshing, initDone, loop>>

\* A day passes for a bond.
BondAges(i) ==
    /\ Event /\ i \in dbBond
    /\ dbBond' = dbBond \ {i}
    /\ UNCHANGED <<tabVars, dbNode, fails, bonding, bonds, lookup, reval, waiting, refreshing, initDone, loop>>

\* expireNodes: all that is stored of the nodes on record that were not seen
\* for a day.
ExpireNodes ==
    LET gone == dbNode \ dbBond
    IN  /\ Event /\ loop = "run" /\ gone # {}
        /\ dbNode' = dbNode \ gone
        /\ fails' = [i \in Ids |-> IF i \in gone THEN 0 ELSE fails[i]]
        /\ UNCHANGED <<tabVars, dbBond, bonding, bonds, lookup, reval, waiting, refreshing, initDone, loop>>

\* Close: the loop leaves its select and closes the transport.
Close ==
    /\ loop = "run"
    /\ loop' = "closing"
    /\ UNCHANGED <<tabVars, dbVars, bonding, bonds, lookup, reval, waiting, refreshing, initDone, events>>

\* It waits for doRefresh, releases the waiting callers and closes the database.
Closed ==
    /\ loop = "closing" /\ (refreshing => lookup["refresh"].st = "done")
    /\ loop' = "closed"
    /\ waiting' = {} /\ refreshing' = FALSE
    /\ initDone' = (initDone \/ "init" \in waiting)
    /\ lookup' = [lookup EXCEPT !["refresh"] = Idle]
    /\ UNCHANGED <<tabVars, dbVars, bonding, bonds, reval, events>>

NetworkSteps(l) ==
    \E i \in Ids : \/ \E r \in {s \in SUBSET Ids : Cardinality(s) <= MaxReply} :
                          Neighbors(l, i, r) \/ FindFails(l, i, r)
                   \/ Received(l, i)

LookupSteps(l) == Begin(l) \/ Ask(l) \/ LookupEnds(l) \/ NetworkSteps(l)

BondSteps ==
    \E B \in bonds : \/ StartBond(B) \/ TakeSlot(B) \/ PingFails(B) \/ PingAnswered(B)
                     \/ WaitPingEnds(B) \/ BondReturns(B) \/ PingBondReturns(B)

\* What goes on by itself (every ping, waitping and findnode returns: CallsReturn
\* of ReplyMatcher), and what is started from outside.
Progress ==
    \/ BondSteps
    \/ \E l \in Searchers : LookupSteps(l)
    \/ Seed \/ Seeded \/ Refreshed \/ RefreshDone \/ Closed
    \/ \E ok \in BOOLEAN : Revalidated(ok)

Next ==
    \/ Progress
    \/ UserLookup \/ RefreshTick \/ CopyBondedNodes \/ ExpireNodes \/ Close
    \/ \E i \in Ids : BondPinged(i) \/ BondAges(i)
    \/ \E b \in Buckets : Revalidate(b)

Spec == Init /\ [][Next]_vars

-----------------------------------------------------------------------------
\* add, replace, bump and delete, of bonds, lookups and the revalidation in any
\* order: a node is at most once in the table, in its own bucket, as an entry
\* or as a replacement; the lists keep their sizes and the counters their limits.
BucketsSound ==
    \A b \in Buckets :
        LET all == entries[b] \o repl[b]
        IN  /\ \A j, k \in DOMAIN all : all[j] = all[k] => j = k
            /\ \A j \in DOMAIN all : Bucket[all[j]] = b
            /\ Len(entries[b]) <= BucketSize /\ Len(repl[b]) <= MaxReplacements
            /\ \A s \in Subnets : ipsB[b][s] <= BucketIPLimit /\ ipsT[s] <= TableIPLimit

\* bond and pingpong: one process bonds with a node at a time and is the one
\* that is registered; the others wait for it; no more than Slots ping.
BondsSound ==
    /\ Cardinality(Pinging) <= Slots
    /\ \A i \in Ids :
           LET own == {B \in bonds : B.id = i /\ B.st \in {"slot", "ping", "waitping"}}
           IN  /\ Cardinality(own) <= 1
               /\ \A B \in own : bonding[i] = B.by
               /\ bonding[i] # None => \E B \in bonds : B.id = i /\ B.by = bonding[i] /\ B.st # "node"
               /\ (\E B \in bonds : B.id = i /\ B.st = "wait") => own # {}

\* Both: the table holds nodes as it may, and bonds with them one at a time.
NodesSound == BucketsSound /\ BondsSound

\* Lookup and Close return: nobody waits for ever for a slot, for a bond of
\* somebody else, or for a refresh that is not under way.
EveryoneReturns ==
    /\ lookup["user"].st # "idle" ~> lookup["user"].st = "idle"
    /\ loop = "closing" ~> loop = "closed"
    /\ bonds # {} ~> bonds = {}
=============================================================================
