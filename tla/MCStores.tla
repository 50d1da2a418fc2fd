------------------------------ MODULE MCStores ------------------------------
(***************************************************************************)
(* What a node keeps in database files besides the chain, for model        *)
(* checking: the priority queue, and the node table of discovery v4 with   *)
(* its node database.  part says which one a behaviour follows, and the    *)
(* other stays as it begins.                                               *)
(***************************************************************************)
EXTENDS PQueue, TLC

CONSTANTS A1, A2, Lan, None, MaxEvents

VARIABLES part,
    entries, repl, ipsT, ipsB, dbNode, dbBond, fails, bonding,   \* DiscTable
    bonds, lookup, reval, waiting, refreshing, initDone, events, loop

\* Two nodes of one bucket and one subnet.
Table == INSTANCE DiscTable WITH
    Ids <- {A1, A2}, Dist <- (A1 :> 1) @@ (A2 :> 2), Bucket <- [i \in {A1, A2} |-> 1],
    Subnet <- [i \in {A1, A2} |-> "subnet"], BucketSize <- 1, MaxReplacements <- 1,
    BucketIPLimit <- 2, TableIPLimit <- 2, Slots <- 1, Alpha <- 2, MaxFails <- 2,
    Boot <- {A1}, MaxReply <- 1, RefreshLookups <- 1

tableVars == <<entries, repl, ipsT, ipsB, dbNode, dbBond, fails, bonding, bonds, lookup,
               reval, waiting, refreshing, initDone, events, loop>>

\* The node database is new, or one that knows A2 or has a failure of A1.
MCInit ==
    /\ part \in {"queue", "table"}
    /\ Init /\ Table!Init
    /\ dbNode \subseteq {A2} /\ dbBond = {} /\ fails[A1] <= 1 /\ fails[A2] = 0
    /\ part = "queue" => dbNode = {} /\ fails[A1] = 0

MCNext ==
    \/ part = "queue" /\ Next /\ UNCHANGED <<part, tableVars>>
    \/ part = "table" /\ Table!Next /\ UNCHANGED <<part, vars>>

\* The fairness of the table; see the module.
MCSpec ==
    /\ MCInit /\ [][MCNext]_<<part, vars, tableVars>>
    /\ WF_tableVars(part = "table" /\ Table!Progress)

-----------------------------------------------------------------------------
\* discover/table.go: the table holds nodes as it may, and one goroutine at a time
\* bonds with a node, whatever lookups, pings, revalidation and refresh do.
NodesSound == part = "table" => Table!NodesSound

\* discover/table.go: a lookup, the calls of bond and Close return.
EveryoneReturns == part = "table" => Table!EveryoneReturns
=============================================================================
