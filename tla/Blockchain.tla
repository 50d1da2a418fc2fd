----------------------------- MODULE Blockchain -----------------------------
(***************************************************************************)
(* The block store of one node: the Bolt file with its "blocks" and        *)
(* "chainstate" buckets (blockchain.go, utxo_set.go), and everyone who     *)
(* opens it.  bolt.Open takes an exclusive file lock and NewBlockchain is  *)
(* called anew for every message, so the goroutines of the node (one per   *)
(* peer) and the command line tools take turns: whoever has the handle     *)
(* open is alone with the file until Db.Close.                             *)
(*                                                                         *)
(* What happens while a handle is open is still several Bolt transactions, *)
(* and the process may die between any two of them.                        *)
(*                                                                         *)
(* A block is its hash.  The hash covers the parent and the content but    *)
(* not the height, which a message states and IsBlockValid checks.  The    *)
(* checks of the content (hash, proof of work, transactions) have either   *)
(* outcome here.                                                           *)
(***************************************************************************)
EXTENDS Integers, FiniteSets

CONSTANTS
    Hashes,        \* the blocks there may ever be
    Genesis,       \* the block every node starts from
    NoBlock,
    Handlers,      \* goroutines of the node process, one for each peer
    Tools,         \* command line processes: send -mine, reindexutxo
    NoHolder,
    MaxHeight,     \* bound: heights a message may state
    MaxCrashes,    \* bound: deaths between two transactions
    MaxPanics      \* bound: blocks delivered a second time

Users == Handlers \cup Tools

ASSUME BlocksAssumption == Genesis \in Hashes /\ NoBlock \notin Hashes
ASSUME UsersAssumption == NoHolder \notin Users /\ Handlers \cap Tools = {}
ASSUME BoundsAssumption == MaxHeight \in Nat /\ MaxCrashes \in Nat
                           /\ MaxPanics \in Nat

VARIABLES
    parent,    \* PrevBlockHash of every block mined anywhere; NoBlock before
    store,     \* the hashes in the blocks bucket
    height,    \* Block.Height of the stored blocks
    last,      \* the entry "l" of the blocks bucket
    applied,   \* the blocks whose transactions the chainstate bucket reflects
    owner,     \* who holds the lock of the file
    pc,        \* where each user is
    tip,       \* Blockchain.tip of each user's handle
    job,       \* the block each user is working on
    crashes,   \* deaths between two transactions so far
    panics     \* how often log.Panic has ended the node process

vars == <<parent, store, height, last, applied, owner, pc, tip, job, crashes, panics>>

NoJob == [block |-> NoBlock, height |-> 0]

PCs == {"closed", "open", "checked", "mining", "added", "clearing", "done"}

TypeOK ==
    /\ parent \in [Hashes -> Hashes \cup {NoBlock}]
    /\ store \subseteq Hashes
    /\ height \in [Hashes -> Nat]
    /\ last \in store
    /\ applied \subseteq store
    /\ owner \in Users \cup {NoHolder}
    /\ pc \in [Users -> PCs]
    /\ tip \in [Users -> Hashes \cup {NoBlock}]
    /\ job \in [Users -> [block : Hashes \cup {NoBlock}, height : Nat]]
    /\ crashes \in 0..MaxCrashes
    /\ panics \in 0..MaxPanics

\* CreateBlockchain and the Reindex that follows it have run: the database
\* holds the genesis block and its chainstate.
Init ==
    /\ parent = [b \in Hashes |-> NoBlock]
    /\ store = {Genesis}
    /\ height = [b \in Hashes |-> 0]
    /\ last = Genesis
    /\ applied = {Genesis}
    /\ owner = NoHolder
    /\ pc = [u \in Users |-> "closed"]
    /\ tip = [u \in Users |-> NoBlock]
    /\ job = [u \in Users |-> NoJob]
    /\ crashes = 0
    /\ panics = 0

Exists(b) == b = Genesis \/ parent[b] # NoBlock

\* Another node mines a block on any block there is.
MinedElsewhere(b, p) ==
    /\ ~Exists(b)
    /\ Exists(p)
    /\ parent' = [parent EXCEPT ![b] = p]
    /\ UNCHANGED <<store, height, last, applied, owner, pc, tip, job, crashes, panics>>

-----------------------------------------------------------------------------
\* Mutant of NewBlockchain: the file is opened without its lock.
OpenUnlocked(u) ==
    /\ pc[u] = "closed"
    /\ owner' = u
    /\ pc' = [pc EXCEPT ![u] = "open"]
    /\ tip' = [tip EXCEPT ![u] = last]
    /\ UNCHANGED <<parent, store, height, last, applied, job, crashes, panics>>

\* NewBlockchain: open the file, waiting for its lock, and read "l".
NewBlockchain(u) ==
    /\ pc[u] = "closed"
    /\ owner = NoHolder
    /\ owner' = u
    /\ pc' = [pc EXCEPT ![u] = "open"]
    /\ tip' = [tip EXCEPT ![u] = last]
    /\ UNCHANGED <<parent, store, height, last, applied, job, crashes, panics>>

\* Db.Close, after the handler has returned.
Close(u) ==
    /\ pc[u] \in {"open", "done"}
    /\ owner' = NoHolder
    /\ pc' = [pc EXCEPT ![u] = "closed"]
    /\ tip' = [tip EXCEPT ![u] = NoBlock]
    /\ job' = [job EXCEPT ![u] = NoJob]
    /\ UNCHANGED <<parent, store, height, last, applied, crashes, panics>>

\* A process dies: its handles are gone and the lock with them.
Die(dead) ==
    /\ owner' = IF owner \in dead THEN NoHolder ELSE owner
    /\ pc' = [u \in Users |-> IF u \in dead THEN "closed" ELSE pc[u]]
    /\ tip' = [u \in Users |-> IF u \in dead THEN NoBlock ELSE tip[u]]
    /\ job' = [u \in Users |-> IF u \in dead THEN NoJob ELSE job[u]]
    /\ UNCHANGED <<parent, store, height, last, applied>>

\* Mutants of LinksToTip: a check is dropped.
LinksByHeightOnly(b, ht) == ht = height[last] + 1

LinksByParentOnly(b, ht) == parent[b] = last

\* IsBlockValid, reasons 2 and 3: the block states the next height, and its
\* parent is the last block.
LinksToTip(b, ht) ==
    /\ ht = height[last] + 1
    /\ parent[b] = last

\* handleBlock: IsBlockValid reads the store and finds the block good.
BlockValid(u, b, ht) ==
    /\ pc[u] = "open"
    /\ b \notin store
    /\ LinksToTip(b, ht)
    /\ pc' = [pc EXCEPT ![u] = "checked"]
    /\ job' = [job EXCEPT ![u] = [block |-> b, height |-> ht]]
    /\ UNCHANGED <<parent, store, height, last, applied, owner, tip, crashes, panics>>

\* handleBlock: the block does not link, or a check of its content fails.
BlockInvalid(u, b, ht) ==
    /\ pc[u] = "open"
    /\ b \notin store
    /\ pc' = [pc EXCEPT ![u] = "done"]
    /\ UNCHANGED <<parent, store, height, last, applied, owner, tip, job, crashes, panics>>

\* handleBlock: IsBlockValid calls log.Panic for a block that is stored.
BlockStored(u, b) ==
    /\ pc[u] = "open"
    /\ b \in store
    /\ panics < MaxPanics
    /\ Die(Handlers)
    /\ panics' = panics + 1
    /\ UNCHANGED crashes

\* Mutants of AddBlock: "l" is written without the block; the handler returns
\* without UTXOSet.Update.
AddBlockLastOnly(u) ==
    /\ pc[u] = "checked"
    /\ last' = job[u].block
    /\ tip' = [tip EXCEPT ![u] = job[u].block]
    /\ pc' = [pc EXCEPT ![u] = "added"]
    /\ UNCHANGED <<parent, store, height, applied, owner, job, crashes, panics>>

AddBlockNoUpdate(u) ==
    /\ pc[u] = "checked"
    /\ store' = store \cup {job[u].block}
    /\ height' = [height EXCEPT ![job[u].block] = job[u].height]
    /\ last' = job[u].block
    /\ tip' = [tip EXCEPT ![u] = job[u].block]
    /\ pc' = [pc EXCEPT ![u] = "done"]
    /\ UNCHANGED <<parent, applied, owner, job, crashes, panics>>

\* AddBlock: a transaction of its own.
AddBlock(u) ==
    LET b == job[u].block IN
    /\ pc[u] = "checked"
    /\ IF b \in store
       THEN UNCHANGED <<store, height, last, tip>>
       ELSE /\ store' = store \cup {b}
            /\ height' = [height EXCEPT ![b] = job[u].height]
            /\ IF job[u].height > height[last]
               THEN last' = b /\ tip' = [tip EXCEPT ![u] = b]
               ELSE UNCHANGED <<last, tip>>
    /\ pc' = [pc EXCEPT ![u] = "added"]
    /\ UNCHANGED <<parent, applied, owner, job, crashes, panics>>

\* MineBlock reads "l" and starts on the proof of work.
StartMining(u) ==
    /\ pc[u] = "open"
    /\ job' = [job EXCEPT ![u] = [block |-> last, height |-> height[last]]]
    /\ pc' = [pc EXCEPT ![u] = "mining"]
    /\ UNCHANGED <<parent, store, height, last, applied, owner, tip, crashes, panics>>

\* MineBlock found the nonce, and stores the block and "l" unconditionally.
MineBlock(u, b) ==
    /\ pc[u] = "mining"
    /\ ~Exists(b)
    /\ parent' = [parent EXCEPT ![b] = job[u].block]
    /\ store' = store \cup {b}
    /\ height' = [height EXCEPT ![b] = job[u].height + 1]
    /\ last' = b
    /\ tip' = [tip EXCEPT ![u] = b]
    /\ job' = [job EXCEPT ![u] = [block |-> b, height |-> job[u].height + 1]]
    /\ pc' = [pc EXCEPT ![u] = "added"]
    /\ UNCHANGED <<applied, owner, crashes, panics>>

\* UTXOSet.Update, the transaction after AddBlock or MineBlock.
Update(u) ==
    /\ pc[u] = "added"
    /\ applied' = applied \cup {job[u].block}
    /\ pc' = [pc EXCEPT ![u] = "done"]
    /\ UNCHANGED <<parent, store, height, last, owner, tip, job, crashes, panics>>

\* What BlockchainIterator visits from block t: the least set of stored blocks
\* that holds t and the parent of each of its members.
Chain(t) ==
    {b \in store : \A S \in SUBSET store :
        (t \in S /\ \A x \in S : parent[x] \in store => parent[x] \in S) => b \in S}

\* Reindex, first transaction: an empty chainstate bucket.
ReindexClear(u) ==
    /\ pc[u] = "open"
    /\ applied' = {}
    /\ pc' = [pc EXCEPT ![u] = "clearing"]
    /\ UNCHANGED <<parent, store, height, last, owner, tip, job, crashes, panics>>

\* Reindex, second transaction: the outputs FindUTXO collects along the chain.
ReindexFill(u) ==
    /\ pc[u] = "clearing"
    /\ applied' = Chain(tip[u])
    /\ pc' = [pc EXCEPT ![u] = "done"]
    /\ UNCHANGED <<parent, store, height, last, owner, tip, job, crashes, panics>>

\* A process is killed while one of its users is in the middle of its work.
Crash(dead) ==
    /\ crashes < MaxCrashes
    /\ \E u \in dead : pc[u] \notin {"closed", "open", "done"}
    /\ Die(dead)
    /\ crashes' = crashes + 1
    /\ UNCHANGED panics

Next ==
    \/ \E b, p \in Hashes : MinedElsewhere(b, p)
    \/ \E u \in Users : NewBlockchain(u) \/ Close(u) \/ StartMining(u) \/ Update(u)
    \/ \E u \in Users, b \in Hashes : MineBlock(u, b)
    \/ \E u \in Handlers, b \in Hashes, ht \in 0..MaxHeight :
           Exists(b) /\ (BlockValid(u, b, ht) \/ BlockInvalid(u, b, ht))
    \/ \E u \in Handlers, b \in Hashes : BlockStored(u, b)
    \/ \E u \in Handlers : AddBlock(u)
    \/ \E u \in Tools : ReindexClear(u) \/ ReindexFill(u)
    \/ Crash(Handlers)
    \/ \E u \in Tools : Crash({u})

Spec == Init /\ [][Next]_vars
-----------------------------------------------------------------------------
\* The parent of every stored block but the first is stored, one below it.
Linked ==
    \A b \in store \ {Genesis} :
        parent[b] \in store /\ height[b] = height[parent[b]] + 1

\* No two stored blocks have the same height.
NoFork == \A a, b \in store : height[a] = height[b] => a = b

\* "l" names the highest block.
LastIsHighest == \A b \in store : height[b] <= height[last]

\* The store is one chain from the genesis block up to "l", whoever else mines
\* what and in whichever order blocks arrive (IsBlockValid, AddBlock, MineBlock).
SingleChain == Linked /\ NoFork /\ LastIsHighest

\* Every stored block is on the chain the iterator walks from "l", the one
\* that GetBlockHashes and FindUTXO see (BlockchainIterator.Next).
WalkedFromTip == Chain(last) = store

\* An open handle's tip is "l", and a miner mines on "l": neither goes stale
\* while the proof of work runs (Blockchain.tip, MineBlock).
HandleIsFresh ==
    \A u \in Users :
        /\ pc[u] # "closed" => tip[u] = last
        /\ pc[u] = "mining" => job[u].block = last

\* Without a crash in between, the chainstate reflects every stored block
\* whenever the file is closed (UTXOSet.Update after AddBlock and MineBlock).
ChainstateCurrent ==
    crashes = 0 /\ owner = NoHolder => applied = store

\* A step moves "l" only to a child of the old last block, never back and never
\* to another branch (AddBlock, MineBlock).
TipExtends ==
    [][last' # last => parent'[last'] = last /\ height'[last'] = height[last] + 1]_vars
=============================================================================
