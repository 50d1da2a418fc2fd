--------------------------- MODULE BlockchainProof ---------------------------
(***************************************************************************)
(* Proofs about Blockchain for any blocks, any number of goroutines and    *)
(* tools, and any number of crashes.                                       *)
(*                                                                         *)
(* SingleChain is not inductive: AddBlock and MineBlock write what an      *)
(* earlier transaction decided.  The strengthening says that the lock      *)
(* keeps that decision true until it is used: only the owner is at work,   *)
(* and what it checked, or mines on, still fits "l".                       *)
(***************************************************************************)
EXTENDS Blockchain, TLAPS

\* A user past "closed" holds the lock.
OwnerAlone == \A u \in Users : pc[u] # "closed" => owner = u

\* A block that passed IsBlockValid is still missing, and still links to "l".
CheckedFits ==
    \A u \in Users : pc[u] = "checked" =>
        /\ job[u].block \in Hashes \ store
        /\ job[u].block # Genesis
        /\ parent[job[u].block] = last
        /\ job[u].height = height[last] + 1

\* A miner works on "l" and knows its height.
MinesOnLast ==
    \A u \in Users : pc[u] = "mining" =>
        job[u].block = last /\ job[u].height = height[last]

\* What Update is about to apply is stored.
AddedIsStored == \A u \in Users : pc[u] = "added" => job[u].block \in store

TipIsLast == \A u \in Users : pc[u] # "closed" => tip[u] = last

GenesisStored == Genesis \in store /\ parent[Genesis] = NoBlock

Inv == /\ TypeOK
       /\ SingleChain
       /\ GenesisStored
       /\ OwnerAlone
       /\ CheckedFits
       /\ MinesOnLast
       /\ AddedIsStored
       /\ TipIsLast

LEMMA InitInv == Init => Inv
BY BlocksAssumption, UsersAssumption, BoundsAssumption
   DEF Init, Inv, TypeOK, NoJob, PCs, SingleChain, Linked, NoFork, LastIsHighest,
       GenesisStored, OwnerAlone, CheckedFits, MinesOnLast, AddedIsStored,
       TipIsLast

LEMMA ChainStored == ASSUME NEW t PROVE Chain(t) \subseteq store
BY DEF Chain

LEMMA StoredExists ==
    ASSUME Inv, NEW b \in store
    PROVE  Exists(b)
BY BlocksAssumption DEF Inv, TypeOK, SingleChain, Linked, Exists

\* A block on top of "l" keeps the store one chain.
LEMMA Extend ==
    ASSUME Inv, NEW b \in Hashes, b \notin store,
           parent' \in [Hashes -> Hashes \cup {NoBlock}],
           \A x \in store : parent'[x] = parent[x],
           parent'[b] = last,
           store' = store \cup {b},
           height' = [height EXCEPT ![b] = height[last] + 1],
           last' = b
    PROVE  SingleChain' /\ GenesisStored' /\ height' \in [Hashes -> Nat]
           /\ last' \in store' /\ store' \subseteq Hashes
<1> USE DEF Inv, TypeOK, SingleChain, Linked, NoFork, LastIsHighest, GenesisStored
<1>0. height \in [Hashes -> Nat] /\ last \in Hashes /\ store \subseteq Hashes
      /\ height[last] \in Nat
  OBVIOUS
<1>1. height' \in [Hashes -> Nat]
  BY <1>0
<1>2. /\ \A x \in store : height'[x] = height[x] /\ height'[x] \in Nat
      /\ height'[b] = height[last] + 1
  BY <1>0
<1>3. b # Genesis
  OBVIOUS
<1>4. \A x \in store : height[x] <= height[last]
  OBVIOUS
<1>5. Linked'
  BY <1>0, <1>2, <1>3
<1>6. NoFork'
  <2> SUFFICES ASSUME NEW x \in store', NEW y \in store', height'[x] = height'[y]
               PROVE  x = y
    BY DEF NoFork
  <2>1. CASE x \in store /\ y \in store
    BY <2>1, <1>2
  <2>2. CASE x = b /\ y \in store
    BY <2>2, <1>2, <1>4, <1>0
  <2>3. CASE x \in store /\ y = b
    BY <2>3, <1>2, <1>4, <1>0
  <2>4. CASE x = b /\ y = b
    BY <2>4
  <2> QED
    BY <2>1, <2>2, <2>3, <2>4
<1>7. LastIsHighest'
  BY <1>0, <1>2, <1>4
<1> QED
  BY <1>0, <1>1, <1>3, <1>5, <1>6, <1>7

\* Steps that leave the store alone keep the store's part of the invariant.
LEMMA SameStore ==
    ASSUME Inv, UNCHANGED <<parent, store, height, last>>
    PROVE  SingleChain' /\ GenesisStored'
BY DEF Inv, SingleChain, Linked, NoFork, LastIsHighest, GenesisStored

\* Nothing a dying process leaves behind depends on its users.
LEMMA DieStep ==
    ASSUME Inv, NEW dead \in SUBSET Users, Die(dead),
           crashes' \in 0..MaxCrashes, panics' \in 0..MaxPanics
    PROVE  Inv'
<1>1. UNCHANGED <<parent, store, height, last, applied>>
  BY DEF Die
<1>2. /\ \A u \in Users : u \in dead => pc'[u] = "closed"
      /\ \A u \in Users : u \notin dead =>
             pc'[u] = pc[u] /\ tip'[u] = tip[u] /\ job'[u] = job[u]
  BY DEF Die
<1>3. owner' = IF owner \in dead THEN NoHolder ELSE owner
  BY DEF Die
<1>4. TypeOK'
  BY <1>1, <1>3 DEF Inv, TypeOK, Die, NoJob, PCs
<1>5. OwnerAlone'
  BY <1>2, <1>3 DEF Inv, OwnerAlone
<1>6. CheckedFits' /\ MinesOnLast' /\ AddedIsStored' /\ TipIsLast'
  BY <1>1, <1>2 DEF Inv, CheckedFits, MinesOnLast, AddedIsStored, TipIsLast
<1> QED
  BY <1>1, <1>4, <1>5, <1>6, SameStore DEF Inv

LEMMA StepInv == Inv /\ [Next]_vars => Inv'
<1> SUFFICES ASSUME Inv, [Next]_vars PROVE Inv'
  OBVIOUS
<1> USE BlocksAssumption, UsersAssumption, BoundsAssumption
<1>1. ASSUME NEW b \in Hashes, NEW p \in Hashes, MinedElsewhere(b, p)
      PROVE  Inv'
  <2>1. b \notin store /\ b # Genesis
    BY <1>1, StoredExists DEF MinedElsewhere, Exists
  <2>2. UNCHANGED <<store, height, last, applied, owner, pc, tip, job, crashes, panics>>
    BY <1>1 DEF MinedElsewhere
  <2>3. \A x \in Hashes : x # b => parent'[x] = parent[x]
    BY <1>1 DEF MinedElsewhere, Inv, TypeOK
  <2>4. parent[b] = NoBlock
    BY <1>1 DEF MinedElsewhere, Exists
  <2>5. parent' \in [Hashes -> Hashes \cup {NoBlock}]
    BY <1>1 DEF MinedElsewhere, Inv, TypeOK
  <2>6. TypeOK'
    BY <2>2, <2>5 DEF Inv, TypeOK
  <2>7. SingleChain' /\ GenesisStored'
    BY <2>1, <2>2, <2>3 DEF Inv, TypeOK, SingleChain, Linked, NoFork, LastIsHighest, GenesisStored
  <2>8. CheckedFits'
    BY <2>2, <2>3, <2>4 DEF Inv, TypeOK, CheckedFits
  <2> QED
    BY <2>2, <2>6, <2>7, <2>8 DEF Inv, OwnerAlone, MinesOnLast, AddedIsStored, TipIsLast
<1>2. ASSUME NEW u \in Users, NewBlockchain(u)
      PROVE  Inv'
  <2>1. \A v \in Users : pc[v] = "closed"
    BY <1>2 DEF NewBlockchain, Inv, OwnerAlone
  <2>2. TypeOK'
    BY <1>2 DEF NewBlockchain, Inv, TypeOK, PCs
  <2>3. /\ UNCHANGED <<parent, store, height, last, job>> /\ owner' = u
        /\ \A v \in Users : pc'[v] = IF v = u THEN "open" ELSE "closed"
        /\ tip'[u] = last
    BY <1>2, <2>1 DEF NewBlockchain, Inv, TypeOK
  <2> QED
    BY <2>2, <2>3, SameStore
       DEF Inv, OwnerAlone, CheckedFits, MinesOnLast, AddedIsStored, TipIsLast
<1>3. ASSUME NEW u \in Users, Close(u)
      PROVE  Inv'
  <2>1. \A v \in Users : v # u => pc[v] = "closed"
    BY <1>3 DEF Close, Inv, OwnerAlone
  <2>2. TypeOK'
    BY <1>3 DEF Close, Inv, TypeOK, PCs, NoJob
  <2>3. /\ UNCHANGED <<parent, store, height, last>>
        /\ \A v \in Users : pc'[v] = "closed"
    BY <1>3, <2>1 DEF Close, Inv, TypeOK
  <2> QED
    BY <2>2, <2>3, SameStore
       DEF Inv, OwnerAlone, CheckedFits, MinesOnLast, AddedIsStored, TipIsLast
<1>4. ASSUME NEW u \in Users, StartMining(u)
      PROVE  Inv'
  <2>1. TypeOK'
    BY <1>4 DEF StartMining, Inv, TypeOK, PCs
  <2>2. UNCHANGED <<parent, store, height, last, owner, tip>> /\ pc[u] = "open"
    BY <1>4 DEF StartMining
  <2>3. /\ pc'[u] = "mining" /\ job'[u] = [block |-> last, height |-> height[last]]
        /\ \A v \in Users : v # u => pc'[v] = pc[v] /\ job'[v] = job[v]
    BY <1>4 DEF StartMining, Inv, TypeOK
  <2> QED
    BY <2>1, <2>2, <2>3, SameStore
       DEF Inv, OwnerAlone, CheckedFits, MinesOnLast, AddedIsStored, TipIsLast
<1>5. ASSUME NEW u \in Users, Update(u)
      PROVE  Inv'
  <2>1. UNCHANGED <<parent, store, height, last, owner, tip, job>> /\ pc[u] = "added"
    BY <1>5 DEF Update
  <2>2. \A v \in Users : pc'[v] = IF v = u THEN "done" ELSE pc[v]
    BY <1>5 DEF Update, Inv, TypeOK
  <2>3. TypeOK'
    BY <1>5 DEF Update, Inv, TypeOK, PCs, AddedIsStored
  <2> QED
    BY <2>1, <2>2, <2>3, SameStore
       DEF Inv, OwnerAlone, CheckedFits, MinesOnLast, AddedIsStored, TipIsLast
<1>6. ASSUME NEW u \in Users, NEW b \in Hashes, MineBlock(u, b)
      PROVE  Inv'
  <2>1. b \notin store
    BY <1>6, StoredExists DEF MineBlock
  <2>2. job[u].block = last /\ job[u].height = height[last] /\ owner = u
    BY <1>6 DEF MineBlock, Inv, MinesOnLast, OwnerAlone
  <2>3. /\ parent' = [parent EXCEPT ![b] = last]
        /\ store' = store \cup {b}
        /\ height' = [height EXCEPT ![b] = height[last] + 1]
        /\ last' = b
    BY <1>6, <2>2 DEF MineBlock
  <2>4. /\ parent' \in [Hashes -> Hashes \cup {NoBlock}] /\ parent'[b] = last
        /\ \A x \in store : parent'[x] = parent[x]
    BY <2>1, <2>3 DEF Inv, TypeOK
  <2>5. SingleChain' /\ GenesisStored' /\ height' \in [Hashes -> Nat]
        /\ last' \in store' /\ store' \subseteq Hashes
    BY <2>1, <2>3, <2>4, Extend
  <2>6. height[last] \in Nat
    BY DEF Inv, TypeOK
  <2>7. TypeOK'
    BY <1>6, <2>2, <2>3, <2>4, <2>5, <2>6 DEF MineBlock, Inv, TypeOK, PCs
  <2>8. \A v \in Users : v # u => pc[v] = "closed"
    BY <2>2 DEF Inv, OwnerAlone
  <2>9. /\ \A v \in Users : pc'[v] = IF v = u THEN "added" ELSE "closed"
        /\ owner' = u /\ tip'[u] = b /\ job'[u].block = b
    BY <1>6, <2>2, <2>8 DEF MineBlock, Inv, TypeOK
  <2> QED
    BY <2>3, <2>5, <2>7, <2>9
       DEF Inv, OwnerAlone, CheckedFits, MinesOnLast, AddedIsStored, TipIsLast
<1>7. ASSUME NEW u \in Handlers, NEW b \in Hashes, NEW ht \in 0..MaxHeight,
             BlockValid(u, b, ht)
      PROVE  Inv'
  <2>0. u \in Users
    BY DEF Users
  <2>1. UNCHANGED <<parent, store, height, last, owner, tip>> /\ pc[u] = "open"
    BY <1>7 DEF BlockValid
  <2>2. b \notin store /\ parent[b] = last /\ ht = height[last] + 1
    BY <1>7 DEF BlockValid, LinksToTip
  <2>3. TypeOK'
    BY <1>7, <2>0 DEF BlockValid, Inv, TypeOK, PCs
  <2>4. /\ pc'[u] = "checked" /\ job'[u] = [block |-> b, height |-> ht]
        /\ \A v \in Users : v # u => pc'[v] = pc[v] /\ job'[v] = job[v]
    BY <1>7, <2>0 DEF BlockValid, Inv, TypeOK
  <2>5. b # Genesis
    BY <2>2 DEF Inv, GenesisStored
  <2> QED
    BY <2>1, <2>2, <2>3, <2>4, <2>5, SameStore
       DEF Inv, OwnerAlone, CheckedFits, MinesOnLast, AddedIsStored, TipIsLast
<1>8. ASSUME NEW u \in Handlers, NEW b \in Hashes, NEW ht \in 0..MaxHeight,
             BlockInvalid(u, b, ht)
      PROVE  Inv'
  <2>0. u \in Users
    BY DEF Users
  <2>1. UNCHANGED <<parent, store, height, last, owner, tip, job>> /\ pc[u] = "open"
    BY <1>8 DEF BlockInvalid
  <2>2. \A v \in Users : pc'[v] = IF v = u THEN "done" ELSE pc[v]
    BY <1>8, <2>0 DEF BlockInvalid, Inv, TypeOK
  <2>3. TypeOK'
    BY <1>8, <2>0 DEF BlockInvalid, Inv, TypeOK, PCs
  <2> QED
    BY <2>1, <2>2, <2>3, SameStore
       DEF Inv, OwnerAlone, CheckedFits, MinesOnLast, AddedIsStored, TipIsLast
<1>9. ASSUME NEW u \in Handlers, NEW b \in Hashes, BlockStored(u, b)
      PROVE  Inv'
  <2>1. Handlers \in SUBSET Users /\ Die(Handlers)
    BY <1>9 DEF BlockStored, Users
  <2>2. crashes' \in 0..MaxCrashes /\ panics' \in 0..MaxPanics
    BY <1>9 DEF BlockStored, Inv, TypeOK
  <2> QED
    BY <2>1, <2>2, DieStep
<1>10. ASSUME NEW u \in Handlers, AddBlock(u)
       PROVE  Inv'
  <2> DEFINE b == job[u].block
  <2>0. u \in Users
    BY DEF Users
  <2>1. /\ pc[u] = "checked" /\ b \in Hashes /\ b \notin store /\ owner = u
        /\ parent[b] = last /\ job[u].height = height[last] + 1
    BY <1>10, <2>0 DEF AddBlock, Inv, CheckedFits, OwnerAlone
  <2>2. height[last] \in Nat
    BY DEF Inv, TypeOK
  <2>3. /\ store' = store \cup {b}
        /\ height' = [height EXCEPT ![b] = height[last] + 1]
        /\ last' = b /\ tip' = [tip EXCEPT ![u] = b]
    BY <1>10, <2>1, <2>2 DEF AddBlock
  <2>4. UNCHANGED <<parent, applied, owner, job, crashes, panics>>
        /\ pc' = [pc EXCEPT ![u] = "added"]
    BY <1>10 DEF AddBlock
  <2>5. parent' \in [Hashes -> Hashes \cup {NoBlock}] /\ parent'[b] = last
        /\ \A x \in store : parent'[x] = parent[x]
    BY <2>1, <2>4 DEF Inv, TypeOK
  <2>6. SingleChain' /\ GenesisStored' /\ height' \in [Hashes -> Nat]
        /\ last' \in store' /\ store' \subseteq Hashes
    BY <2>1, <2>3, <2>5, Extend
  <2>7. TypeOK'
    BY <2>1, <2>3, <2>4, <2>5, <2>6 DEF Inv, TypeOK, PCs
  <2>8. \A v \in Users : v # u => pc[v] = "closed"
    BY <2>1 DEF Inv, OwnerAlone
  <2>9. /\ \A v \in Users : pc'[v] = IF v = u THEN "added" ELSE "closed"
        /\ owner' = u /\ tip'[u] = b /\ job'[u].block = b
    BY <2>0, <2>1, <2>3, <2>4, <2>8 DEF Inv, TypeOK
  <2> QED
    BY <2>3, <2>6, <2>7, <2>9
       DEF Inv, OwnerAlone, CheckedFits, MinesOnLast, AddedIsStored, TipIsLast
<1>11. ASSUME NEW u \in Tools, ReindexClear(u) \/ ReindexFill(u)
       PROVE  Inv'
  <2>0. u \in Users
    BY DEF Users
  <2>1. UNCHANGED <<parent, store, height, last, owner, tip, job>> /\ pc[u] # "closed"
    BY <1>11 DEF ReindexClear, ReindexFill
  <2>2. \A v \in Users : v # u => pc'[v] = pc[v]
    BY <1>11, <2>0 DEF ReindexClear, ReindexFill, Inv, TypeOK
  <2>3. pc'[u] \in {"clearing", "done"}
    BY <1>11, <2>0 DEF ReindexClear, ReindexFill, Inv, TypeOK
  <2>4. applied' \subseteq store
    BY <1>11, ChainStored DEF ReindexClear, ReindexFill
  <2>5. pc' \in [Users -> PCs] /\ crashes' = crashes /\ panics' = panics
    BY <1>11, <2>0 DEF ReindexClear, ReindexFill, Inv, TypeOK, PCs
  <2>6. TypeOK'
    BY <2>1, <2>4, <2>5 DEF Inv, TypeOK
  <2> QED
    BY <2>1, <2>2, <2>3, <2>6, SameStore
       DEF Inv, OwnerAlone, CheckedFits, MinesOnLast, AddedIsStored, TipIsLast
<1>12. ASSUME NEW dead \in SUBSET Users, Crash(dead)
       PROVE  Inv'
  <2>1. Die(dead) /\ crashes' \in 0..MaxCrashes /\ panics' \in 0..MaxPanics
    BY <1>12 DEF Crash, Inv, TypeOK
  <2> QED
    BY <2>1, DieStep
<1>13. CASE UNCHANGED vars
  <2>1. TypeOK'
    BY <1>13 DEF vars, Inv, TypeOK
  <2> QED
    BY <1>13, <2>1, SameStore
       DEF vars, Inv, OwnerAlone, CheckedFits, MinesOnLast, AddedIsStored, TipIsLast
<1>14. Handlers \in SUBSET Users /\ \A u \in Tools : {u} \in SUBSET Users
  BY DEF Users
<1> QED
  BY <1>1, <1>2, <1>3, <1>4, <1>5, <1>6, <1>7, <1>8, <1>9, <1>10, <1>11, <1>12,
     <1>13, <1>14 DEF Next

LEMMA Invariant == Spec => []Inv
BY InitInv, StepInv, PTL DEF Spec

\* "l" names a stored block, the chainstate reflects stored blocks only, and
\* handles and jobs name blocks, whatever crashes (Blockchain, UTXOSet).
THEOREM TypeCorrect == Spec => []TypeOK
<1>1. Inv => TypeOK
  BY DEF Inv
<1> QED
  BY Invariant, <1>1, PTL

\* The block store is one chain that ends in "l", for any number of peers and
\* tools, any order of blocks and any crash (IsBlockValid, AddBlock, MineBlock).
THEOREM OneChain == Spec => []SingleChain
<1>1. Inv => SingleChain
  BY DEF Inv
<1> QED
  BY Invariant, <1>1, PTL

\* The tip a handle caches, and the block a miner works on, are never stale.
THEOREM NoStaleTip == Spec => []HandleIsFresh
<1>1. Inv => HandleIsFresh
  BY DEF Inv, TipIsLast, MinesOnLast, HandleIsFresh
<1> QED
  BY Invariant, <1>1, PTL

-----------------------------------------------------------------------------
(***************************************************************************)
(* The iterator's walk.  Chain is a least closed set, so WalkedFromTip can *)
(* be carried from step to step without induction over the chain: a closed *)
(* set that holds the new block holds the old "l", and with it the rest.   *)
(***************************************************************************)
LEMMA WalkExtend ==
    ASSUME Inv, WalkedFromTip, NEW b \in Hashes, b \notin store,
           \A x \in store : parent'[x] = parent[x],
           parent'[b] = last, store' = store \cup {b}, last' = b
    PROVE  WalkedFromTip'
<1>0. last \in store /\ \A x \in store : parent[x] # b
  BY BlocksAssumption DEF Inv, TypeOK, SingleChain, Linked, GenesisStored
<1> SUFFICES ASSUME NEW S \in SUBSET store', b \in S,
                    \A x \in S : parent'[x] \in store' => parent'[x] \in S
             PROVE  store' \subseteq S
  BY DEF WalkedFromTip, Chain
<1> DEFINE T == S \cap store
<1>1. T \in SUBSET store /\ last \in T
  BY <1>0
<1>2. \A x \in T : parent[x] \in store => parent[x] \in T
  OBVIOUS
<1>3. \A y \in store : y \in T
  <2>1. \A y \in Chain(last) : y \in T
    BY <1>1, <1>2 DEF Chain
  <2> QED
    BY <2>1 DEF WalkedFromTip
<1> QED
  BY <1>3

LEMMA WalkSame ==
    ASSUME WalkedFromTip, store' = store, last' = last,
           \A x \in store : parent'[x] = parent[x]
    PROVE  WalkedFromTip'
<1>1. Chain(last)' = Chain(last)
  BY DEF Chain
<1> QED
  BY <1>1 DEF WalkedFromTip

\* The stored blocks the chainstate misses are the ones an Update is about to
\* apply, unless a Reindex is at work or something has crashed.
UpdatePending ==
    crashes = 0 /\ (\A u \in Users : pc[u] # "clearing") =>
        \A b \in store \ applied : \E u \in Users : pc[u] = "added" /\ job[u].block = b

\* Every step either extends the chain by one block or leaves it alone.
Extends(b) ==
    /\ b \in Hashes /\ b \notin store
    /\ \A x \in store : parent'[x] = parent[x]
    /\ parent'[b] = last
    /\ height'[b] = height[last] + 1
    /\ store' = store \cup {b}
    /\ last' = b
    /\ applied' = applied /\ crashes' = crashes
    /\ \E u \in Users :
           /\ pc[u] \in {"checked", "mining"}
           /\ pc'[u] = "added" /\ job'[u].block = b
           /\ \A v \in Users : v # u => pc[v] = "closed" /\ pc'[v] = "closed"

LEMMA AddBlockExtends ==
    ASSUME Inv, NEW u \in Handlers, AddBlock(u)
    PROVE  Extends(job[u].block)
<1>0. u \in Users
  BY DEF Users
<1>1. /\ pc[u] = "checked" /\ job[u].block \in Hashes /\ job[u].block \notin store
      /\ owner = u /\ parent[job[u].block] = last
      /\ job[u].height = height[last] + 1 /\ height[last] \in Nat
  BY <1>0 DEF AddBlock, Inv, TypeOK, CheckedFits, OwnerAlone
<1>2. \A v \in Users : v # u => pc[v] = "closed"
  BY <1>1 DEF Inv, OwnerAlone
<1>3. pc'[u] = "added" /\ job' = job /\ \A v \in Users : v # u => pc'[v] = pc[v]
  BY <1>0 DEF AddBlock, Inv, TypeOK
<1>4. /\ store' = store \cup {job[u].block} /\ last' = job[u].block
      /\ height' = [height EXCEPT ![job[u].block] = height[last] + 1]
      /\ parent' = parent /\ applied' = applied /\ crashes' = crashes
  BY <1>1 DEF AddBlock
<1>5. height'[job[u].block] = height[last] + 1
  BY <1>1, <1>4 DEF Inv, TypeOK
<1> QED
  BY <1>0, <1>1, <1>2, <1>3, <1>4, <1>5 DEF Extends

LEMMA MineBlockExtends ==
    ASSUME Inv, NEW u \in Users, NEW b \in Hashes, MineBlock(u, b)
    PROVE  Extends(b)
<1>1. b \notin store
  BY StoredExists DEF MineBlock
<1>2. pc[u] = "mining" /\ job[u].block = last /\ job[u].height = height[last] /\ owner = u
  BY DEF MineBlock, Inv, MinesOnLast, OwnerAlone
<1>3. \A v \in Users : v # u => pc[v] = "closed"
  BY <1>2 DEF Inv, OwnerAlone
<1>4. /\ pc'[u] = "added" /\ job'[u].block = b
      /\ \A v \in Users : v # u => pc'[v] = pc[v]
  BY DEF MineBlock, Inv, TypeOK
<1>5. /\ store' = store \cup {b} /\ last' = b /\ applied' = applied /\ crashes' = crashes
      /\ parent' = [parent EXCEPT ![b] = last]
      /\ height' = [height EXCEPT ![b] = height[last] + 1]
  BY <1>2 DEF MineBlock
<1>6. /\ \A x \in store : parent'[x] = parent[x]
      /\ parent'[b] = last /\ height'[b] = height[last] + 1
  BY <1>1, <1>5 DEF Inv, TypeOK
<1> QED
  BY <1>1, <1>2, <1>3, <1>4, <1>5, <1>6 DEF Extends

\* The steps that extend nothing.
Quiet ==
    /\ store' = store /\ last' = last
    /\ \A x \in store : parent'[x] = parent[x]

LEMMA StepShape ==
    ASSUME Inv, [Next]_vars
    PROVE  Quiet \/ \E b \in Hashes : Extends(b)
<1>1. ASSUME NEW b \in Hashes, NEW p \in Hashes, MinedElsewhere(b, p)
      PROVE  Quiet
  <2>1. b \notin store
    BY <1>1, StoredExists DEF MinedElsewhere
  <2> QED
    BY <1>1, <2>1 DEF MinedElsewhere, Quiet, Inv, TypeOK
<1>2. ASSUME NEW u \in Users, NewBlockchain(u) \/ Close(u) \/ StartMining(u) \/ Update(u)
      PROVE  Quiet
  BY <1>2 DEF NewBlockchain, Close, StartMining, Update, Quiet
<1>3. ASSUME NEW u \in Users, NEW b \in Hashes, MineBlock(u, b)
      PROVE  \E c \in Hashes : Extends(c)
  BY <1>3, MineBlockExtends
<1>4. ASSUME NEW u \in Handlers, NEW b \in Hashes, NEW ht \in 0..MaxHeight,
             BlockValid(u, b, ht) \/ BlockInvalid(u, b, ht)
      PROVE  Quiet
  BY <1>4 DEF BlockValid, BlockInvalid, Quiet
<1>5. ASSUME NEW u \in Handlers, NEW b \in Hashes, BlockStored(u, b)
      PROVE  Quiet
  BY <1>5 DEF BlockStored, Die, Quiet
<1>6. ASSUME NEW u \in Handlers, AddBlock(u)
      PROVE  \E c \in Hashes : Extends(c)
  <2>1. Extends(job[u].block) /\ job[u].block \in Hashes
    BY <1>6, AddBlockExtends DEF Extends
  <2> QED
    BY <2>1
<1>7. ASSUME NEW u \in Tools, ReindexClear(u) \/ ReindexFill(u)
      PROVE  Quiet
  BY <1>7 DEF ReindexClear, ReindexFill, Quiet
<1>8. ASSUME NEW dead, Crash(dead)
      PROVE  Quiet
  BY <1>8 DEF Crash, Die, Quiet
<1>9. CASE UNCHANGED vars
  BY <1>9 DEF vars, Quiet
<1> QED
  BY <1>1, <1>2, <1>3, <1>4, <1>5, <1>6, <1>7, <1>8, <1>9 DEF Next

LEMMA WalkStep ==
    ASSUME Inv, WalkedFromTip, [Next]_vars
    PROVE  WalkedFromTip'
<1>1. CASE Quiet
  BY <1>1, WalkSame DEF Quiet
<1>2. ASSUME NEW b \in Hashes, Extends(b)
      PROVE  WalkedFromTip'
  BY <1>2, WalkExtend DEF Extends
<1> QED
  BY <1>1, <1>2, StepShape

LEMMA WalkInit == Init => WalkedFromTip
BY BlocksAssumption DEF Init, WalkedFromTip, Chain

\* The iterator that starts at "l" visits every stored block, so what
\* GetBlockHashes offers and FindUTXO collects leaves none out.
THEOREM AllWalked == Spec => []WalkedFromTip
<1>1. Inv /\ WalkedFromTip /\ [Next]_vars => WalkedFromTip'
  BY WalkStep
<1> QED
  BY Invariant, WalkInit, <1>1, PTL DEF Spec

\* "l" only ever moves to a child of the block it named (AddBlock, MineBlock).
THEOREM OnlyExtends == Spec => TipExtends
<1>1. Inv /\ [Next]_vars =>
        [last' # last => parent'[last'] = last /\ height'[last'] = height[last] + 1]_vars
  <2> SUFFICES ASSUME Inv, [Next]_vars, last' # last
               PROVE  parent'[last'] = last /\ height'[last'] = height[last] + 1
    OBVIOUS
  <2> QED
    BY StepShape DEF Quiet, Extends
<1> QED
  BY Invariant, <1>1, PTL DEF Spec, TipExtends

-----------------------------------------------------------------------------
LEMMA PendingStep ==
    ASSUME Inv, WalkedFromTip, UpdatePending, [Next]_vars
    PROVE  UpdatePending'
<1> SUFFICES ASSUME crashes' = 0, \A u \in Users : pc'[u] # "clearing",
                    NEW b \in store' \ applied'
             PROVE  \E u \in Users : pc'[u] = "added" /\ job'[u].block = b
  BY DEF UpdatePending
<1>0. /\ pc \in [Users -> PCs] /\ crashes \in Nat
      /\ \A u \in Users : pc[u] # "closed" => owner = u
  BY BoundsAssumption DEF Inv, TypeOK, OwnerAlone
<1>1. ASSUME NEW c \in Hashes, NEW p \in Hashes, MinedElsewhere(c, p)
      PROVE  \E u \in Users : pc'[u] = "added" /\ job'[u].block = b
  BY <1>1 DEF MinedElsewhere, UpdatePending
<1>2. ASSUME NEW u \in Users, NewBlockchain(u) \/ Close(u) \/ StartMining(u)
      PROVE  \E v \in Users : pc'[v] = "added" /\ job'[v].block = b
  <2>1. /\ pc[u] \in {"closed", "open", "done"} /\ UNCHANGED <<store, applied, crashes>>
        /\ \A v \in Users : v # u => pc'[v] = pc[v] /\ job'[v] = job[v]
    BY <1>0, <1>2 DEF NewBlockchain, Close, StartMining, Inv, TypeOK
  <2> QED
    BY <2>1 DEF UpdatePending
<1>3. ASSUME NEW u \in Users, Update(u)
      PROVE  \E v \in Users : pc'[v] = "added" /\ job'[v].block = b
  <2>1. /\ pc[u] = "added" /\ store' = store /\ crashes' = crashes
        /\ applied' = applied \cup {job[u].block}
    BY <1>3 DEF Update
  <2>2. \A v \in Users : v # u => pc[v] = "closed"
    BY <1>0, <2>1
  <2> QED
    BY <2>1, <2>2 DEF UpdatePending
<1>4. ASSUME NEW c \in Hashes, Extends(c)
      PROVE  \E v \in Users : pc'[v] = "added" /\ job'[v].block = b
  <2>1. PICK u \in Users :
          /\ pc[u] \in {"checked", "mining"}
          /\ pc'[u] = "added" /\ job'[u].block = c
          /\ \A v \in Users : v # u => pc[v] = "closed" /\ pc'[v] = "closed"
    BY <1>4 DEF Extends
  <2>2. store \subseteq applied
    BY <1>4, <2>1 DEF Extends, UpdatePending
  <2> QED
    BY <1>4, <2>1, <2>2 DEF Extends
<1>5. ASSUME NEW u \in Handlers, NEW c \in Hashes, NEW ht \in 0..MaxHeight,
             BlockValid(u, c, ht) \/ BlockInvalid(u, c, ht)
      PROVE  \E v \in Users : pc'[v] = "added" /\ job'[v].block = b
  <2>1. /\ u \in Users /\ pc[u] = "open" /\ UNCHANGED <<store, applied, crashes>>
        /\ \A v \in Users : v # u => pc'[v] = pc[v] /\ job'[v] = job[v]
    BY <1>0, <1>5 DEF BlockValid, BlockInvalid, Users, Inv, TypeOK
  <2> QED
    BY <2>1 DEF UpdatePending
<1>6. ASSUME NEW u \in Handlers, NEW c \in Hashes, BlockStored(u, c)
      PROVE  \E v \in Users : pc'[v] = "added" /\ job'[v].block = b
  <2>1. u \in Users /\ pc[u] = "open" /\ UNCHANGED <<store, applied, crashes>>
    BY <1>6 DEF BlockStored, Die, Users
  <2>2. \A v \in Users : v # u => pc[v] = "closed"
    BY <1>0, <2>1
  <2> QED
    BY <2>1, <2>2 DEF UpdatePending
<1>7. ASSUME NEW u \in Tools, ReindexClear(u)
      PROVE  FALSE
  BY <1>0, <1>7 DEF ReindexClear, Users
<1>8. ASSUME NEW u \in Tools, ReindexFill(u)
      PROVE  FALSE
  <2>1. u \in Users /\ tip[u] = last
    BY <1>8 DEF ReindexFill, Users, Inv, TipIsLast
  <2> QED
    BY <1>8, <2>1 DEF ReindexFill, WalkedFromTip
<1>9. ASSUME NEW dead, Crash(dead)
      PROVE  FALSE
  BY <1>0, <1>9 DEF Crash
<1>10. CASE UNCHANGED vars
  BY <1>10 DEF vars, UpdatePending
<1> QED
  BY <1>1, <1>2, <1>3, <1>4, <1>5, <1>6, <1>7, <1>8, <1>9, <1>10,
     AddBlockExtends, MineBlockExtends DEF Next, Extends

\* Without a crash between two of its transactions the file, once closed, has
\* a chainstate that reflects every stored block (AddBlock or MineBlock, then
\* Update; or Reindex).
THEOREM ChainstateFollows == Spec => []ChainstateCurrent
<1>1. Init => UpdatePending
  BY DEF Init, UpdatePending
<1>2. Inv /\ WalkedFromTip /\ UpdatePending /\ [Next]_vars => UpdatePending'
  BY PendingStep
<1>3. Inv /\ UpdatePending => ChainstateCurrent
  <2> SUFFICES ASSUME Inv, UpdatePending, crashes = 0, owner = NoHolder
               PROVE  applied = store
    BY DEF ChainstateCurrent
  <2>1. \A u \in Users : pc[u] = "closed"
    BY UsersAssumption DEF Inv, OwnerAlone
  <2>2. store \subseteq applied
    BY <2>1 DEF UpdatePending
  <2> QED
    BY <2>2 DEF Inv, TypeOK
<1> QED
  BY Invariant, AllWalked, <1>1, <1>2, <1>3, PTL DEF Spec
=============================================================================
