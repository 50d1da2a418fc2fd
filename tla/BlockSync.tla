----------------------------- MODULE BlockSync ------------------------------
(***************************************************************************)
(* How nodes bring each other up to date (p2pprotocol/server.go): a node   *)
(* tells its peers its height ("version"), a peer that is behind asks for  *)
(* hashes ("getblocks"), gets them ("inv"), and fetches the blocks one by  *)
(* one ("getdata", "block"), oldest first.                                 *)
(*                                                                         *)
(* Each connection is a pair of FIFO streams.  A node has a goroutine for  *)
(* each connection, and each message is handled with the database open,    *)
(* that is, alone: one handler is one step.  log.Panic in a handler ends   *)
(* the process, and with it every connection of the node.                  *)
(*                                                                         *)
(* Blocks are numbered in the order they are mined, by whichever node;     *)
(* block 0 is the genesis block.  The height of a block is its place in    *)
(* the chain.  The contents of blocks are valid.                           *)
(***************************************************************************)
EXTENDS Integers, Sequences, FiniteSets, SequencesExt

CONSTANTS
    Nodes,
    MaxBlocks,      \* bound: blocks there may ever be
    Setups          \* the networks to look at; each has links, a symmetric
                    \* set of pairs of nodes; height, how much of the common
                    \* chain each node starts with; miners, the nodes that
                    \* mine; and the bounds blocks and reconnects, how many
                    \* blocks there may be and how often a connection may
                    \* break and come back

ASSUME SetupAssumption ==
    /\ Nodes # {} /\ MaxBlocks \in Nat
    /\ \A s \in Setups :
          /\ s.links \subseteq Nodes \X Nodes
          /\ \A l \in s.links : l[1] # l[2] /\ <<l[2], l[1]>> \in s.links
          /\ s.blocks \in 0..MaxBlocks /\ s.reconnects \in Nat
          /\ s.height \in [Nodes -> 0..s.blocks]
          /\ s.miners \subseteq Nodes

VARIABLES
    setup,         \* the network, which never changes
    parent,        \* the parent of each block mined so far, by number
    chain,         \* each node's blocks from the genesis block's child to "l"
    net,           \* the messages on the way, for each link
    known,         \* Peer.knownBlocks: for <<n, p>>, what n has noted of p
    inTransit,     \* blocksInTransit, one global list for each process
    inTransitSet,  \* blocksInTransitSet, global too
    alive,         \* whether the node's process runs
    reconnects     \* connections that broke so far

vars == <<setup, parent, chain, net, known, inTransit, inTransitSet, alive, reconnects>>

Blocks == 1..MaxBlocks

Links == setup.links

PeersOf(n) == {p \in Nodes : <<n, p>> \in Links}

\* GetBestHeightLastHash and GetBlock of n's chain, without the genesis block, 0.
Tip(n) == IF chain[n] = <<>> THEN 0 ELSE Last(chain[n])
GetBlock(n, b) == b \in {0} \cup ToSet(chain[n])

\* Messages.  A version states the height and the last hash of its sender.
Version(height, last) == [type |-> "version", height |-> height, last |-> last]
GetBlocks(last) == [type |-> "getblocks", last |-> last]
Inv(items) == [type |-> "inv", items |-> items]
GetData(b) == [type |-> "getdata", block |-> b]
BlockMsg(b) == [type |-> "block", block |-> b]

MyVersion(c) == Version(Len(c), IF c = <<>> THEN 0 ELSE Last(c))

\* Every pair of peers has just connected: msgHandler has sent the version.
Init ==
    /\ setup \in Setups
    /\ parent = [b \in 1..Max({setup.height[n] : n \in Nodes}) |-> b - 1]
    /\ chain = [n \in Nodes |-> [i \in 1..setup.height[n] |-> i]]
    /\ net = [l \in Links |-> <<MyVersion(chain[l[1]])>>]
    /\ known = [l \in Links |-> {}]
    /\ inTransit = [n \in Nodes |-> <<>>]
    /\ inTransitSet = [n \in Nodes |-> {}]
    /\ alive = [n \in Nodes |-> TRUE]
    /\ reconnects = 0

\* The head of the stream from p to n; nobody reads for a dead process.
Receives(n, p, type) ==
    /\ <<p, n>> \in Links
    /\ alive[n]
    /\ net[<<p, n>>] # <<>>
    /\ Head(net[<<p, n>>]).type = type

Msg(n, p) == Head(net[<<p, n>>])

\* The streams after n has taken the message from p and sent out[q] to q.
Consume(n, p, out) ==
    net' = [l \in Links |->
              CASE l = <<p, n>> -> Tail(net[l])
                [] l[1] = n /\ alive[l[2]] -> net[l] \o out[l[2]]
                [] OTHER -> net[l]]

Nothing == [q \in Nodes |-> <<>>]
Reply(p, m) == [Nothing EXCEPT ![p] = <<m>>]
ToAll(m) == [q \in Nodes |-> <<m>>]

\* log.Panic: the process of n ends.  Nobody will read what was sent to it;
\* what it has sent is still on its way.
Panic(n) ==
    /\ alive' = [alive EXCEPT ![n] = FALSE]
    /\ net' = [l \in Links |-> IF n = l[2] THEN <<>> ELSE net[l]]
    /\ UNCHANGED <<setup, parent, chain, known, inTransit, inTransitSet, reconnects>>

-----------------------------------------------------------------------------
\* handleTx: a mining node extends its chain and sends its version to all.
Mine(n) ==
    LET b == Len(parent) + 1 IN
    /\ alive[n] /\ n \in setup.miners
    /\ b <= setup.blocks
    /\ parent' = Append(parent, Tip(n))
    /\ chain' = [chain EXCEPT ![n] = Append(@, b)]
    /\ net' = [l \in Links |-> IF l[1] = n /\ alive[l[2]]
                               THEN Append(net[l], MyVersion(chain'[n])) ELSE net[l]]
    /\ UNCHANGED <<setup, known, inTransit, inTransitSet, alive, reconnects>>

\* handleVersion: the peer is ahead, ask for what follows our last block.
VersionAhead(n, p) ==
    /\ Receives(n, p, "version")
    /\ Len(chain[n]) < Msg(n, p).height
    /\ Consume(n, p, Reply(p, GetBlocks(Tip(n))))
    /\ UNCHANGED <<setup, parent, chain, known, inTransit, inTransitSet, alive, reconnects>>

\* handleVersion: the peer is level, or behind on our own chain.
VersionNotAhead(n, p) ==
    /\ Receives(n, p, "version")
    /\ \/ Len(chain[n]) = Msg(n, p).height
       \/ /\ Len(chain[n]) > Msg(n, p).height
          /\ GetBlock(n, Msg(n, p).last)
    /\ Consume(n, p, Nothing)
    /\ UNCHANGED <<setup, parent, chain, known, inTransit, inTransitSet, alive, reconnects>>

\* handleVersion: the peer is behind and its last block is not ours.  The
\* code that would send "conflict" stands after a log.Panic.
VersionConflict(n, p) ==
    /\ Receives(n, p, "version")
    /\ Len(chain[n]) > Msg(n, p).height
    /\ ~GetBlock(n, Msg(n, p).last)
    /\ Panic(n)

\* Blockchain.GetBlockHashes: from the last block back to the given one,
\* newest first; everything but the genesis block when it is not found.
GetBlockHashes(c, last) ==
    LET stop == IF last \in ToSet(c) THEN CHOOSE i \in DOMAIN c : c[i] = last ELSE 0
    IN  Reverse(SubSeq(c, stop + 1, Len(c)))

\* The items of s that are not in S, in their order: a loop that appends.
Without(s, S) ==
    LET upTo[i \in 0..Len(s)] ==
          IF i = 0 THEN <<>>
          ELSE IF s[i] \in S THEN upTo[i - 1] ELSE Append(upTo[i - 1], s[i])
    IN  upTo[Len(s)]

\* handleGetBlocks: the hashes that are not in knownBlocks are noted there
\* and announced.
HandleGetBlocks(n, p) ==
    LET new == Without(GetBlockHashes(chain[n], Msg(n, p).last), known[<<n, p>>])
    IN  /\ Receives(n, p, "getblocks")
        /\ known' = [known EXCEPT ![<<n, p>>] = @ \cup ToSet(new)]
        /\ Consume(n, p, IF new = <<>> THEN Nothing ELSE Reply(p, Inv(new)))
        /\ UNCHANGED <<setup, parent, chain, inTransit, inTransitSet, alive, reconnects>>

\* Mutants of HandleInv: the block asked for stays in the list; what the peer
\* announces is noted in knownBlocks.
InvKeepsFirst(n, p) ==
    LET items == Msg(n, p).items
        first == Last(items)
    IN  /\ Receives(n, p, "inv")
        /\ inTransit' = [inTransit EXCEPT ![n] = items]
        /\ inTransitSet' = [inTransitSet EXCEPT ![n] = (@ \cup ToSet(items)) \ {first}]
        /\ Consume(n, p, Reply(p, GetData(first)))
        /\ UNCHANGED <<setup, parent, chain, known, alive, reconnects>>

InvMarksKnown(n, p) ==
    LET items == Msg(n, p).items
        first == Last(items)
    IN  /\ Receives(n, p, "inv")
        /\ inTransit' = [inTransit EXCEPT ![n] = Without(items, {first})]
        /\ inTransitSet' = [inTransitSet EXCEPT ![n] = (@ \cup ToSet(items)) \ {first}]
        /\ known' = [known EXCEPT ![<<n, p>>] = @ \cup ToSet(items)]
        /\ Consume(n, p, Reply(p, GetData(first)))
        /\ UNCHANGED <<setup, parent, chain, alive, reconnects>>

\* handleInv: the list replaces the one there was; its last item, the oldest
\* block, is asked for and taken out.
HandleInv(n, p) ==
    LET items == Msg(n, p).items
        first == Last(items)
    IN  /\ Receives(n, p, "inv")
        /\ inTransit' = [inTransit EXCEPT ![n] = Without(items, {first})]
        /\ inTransitSet' = [inTransitSet EXCEPT ![n] = (@ \cup ToSet(items)) \ {first}]
        /\ Consume(n, p, Reply(p, GetData(first)))
        /\ UNCHANGED <<setup, parent, chain, known, alive, reconnects>>

\* handleGetData: send the block if we have it.
HandleGetData(n, p) ==
    /\ Receives(n, p, "getdata")
    /\ Consume(n, p, IF GetBlock(n, Msg(n, p).block)
                     THEN Reply(p, BlockMsg(Msg(n, p).block)) ELSE Nothing)
    /\ UNCHANGED <<setup, parent, chain, known, inTransit, inTransitSet, alive, reconnects>>

\* IsBlockValid: the next height, and the last block as the parent.
LinksToTip(n, b) == parent[b] = Tip(n)

\* handleBlock: the block is stored already; IsBlockValid panics.
BlockStored(n, p) ==
    /\ Receives(n, p, "block")
    /\ Msg(n, p).block \in ToSet(chain[n])
    /\ Panic(n)

\* handleBlock: the block does not link.  The handler returns at once: the
\* rest of blocksInTransit is not asked for.
BlockRejected(n, p) ==
    /\ Receives(n, p, "block")
    /\ Msg(n, p).block \notin ToSet(chain[n])
    /\ ~LinksToTip(n, Msg(n, p).block)
    /\ Consume(n, p, Nothing)
    /\ UNCHANGED <<setup, parent, chain, known, inTransit, inTransitSet, alive, reconnects>>

\* handleBlock: the block links.  It is added unless the peer is noted to
\* have it; then the next block is asked for, from the sender of this one,
\* or all peers are told the new height.
BlockAdded(n, p) ==
    LET b    == Msg(n, p).block
        rest == inTransit[n]
    IN  /\ Receives(n, p, "block")
        /\ b \notin ToSet(chain[n])
        /\ LinksToTip(n, b)
        /\ chain' = IF b \in known[<<n, p>>] THEN chain
                    ELSE [chain EXCEPT ![n] = Append(@, b)]
        /\ known' = [known EXCEPT ![<<n, p>>] = @ \cup {b}]
        /\ IF rest = <<>>
           THEN /\ Consume(n, p, ToAll(MyVersion(chain'[n])))
                /\ UNCHANGED <<inTransit, inTransitSet>>
           ELSE /\ inTransit' = [inTransit EXCEPT ![n] = Front(rest)]
                /\ IF Last(rest) \in inTransitSet[n]
                   THEN /\ Consume(n, p, Reply(p, GetData(Last(rest))))
                        /\ inTransitSet' = [inTransitSet EXCEPT ![n] = @ \ {b}]
                   ELSE /\ Consume(n, p, Nothing)
                        /\ UNCHANGED inTransitSet
        /\ UNCHANGED <<setup, parent, alive, reconnects>>

\* The connection breaks and is made again: what was on the way is lost,
\* both sides make a new Peer, with an empty knownBlocks, and send their
\* version.  The global lists stay.
Reconnect(n, p) ==
    /\ <<n, p>> \in Links
    /\ alive[n] /\ alive[p]
    /\ reconnects < setup.reconnects
    /\ reconnects' = reconnects + 1
    /\ net' = [net EXCEPT ![<<n, p>>] = <<MyVersion(chain[n])>>,
                          ![<<p, n>>] = <<MyVersion(chain[p])>>]
    /\ known' = [known EXCEPT ![<<n, p>>] = {}, ![<<p, n>>] = {}]
    /\ UNCHANGED <<setup, parent, chain, inTransit, inTransitSet, alive>>

\* HandleConnection.
Handle(n, p) ==
    \/ VersionAhead(n, p)
    \/ VersionNotAhead(n, p)
    \/ VersionConflict(n, p)
    \/ HandleGetBlocks(n, p)
    \/ HandleInv(n, p)
    \/ HandleGetData(n, p)
    \/ BlockStored(n, p)
    \/ BlockRejected(n, p)
    \/ BlockAdded(n, p)

Next ==
    \/ \E n \in Nodes : Mine(n)
    \/ \E n \in Nodes : \E p \in PeersOf(n) : Handle(n, p)
    \/ \E n \in Nodes : \E p \in PeersOf(n) : Reconnect(n, p)

Spec == Init /\ [][Next]_vars

\* Every goroutine goes on reading its connection.
FairSpec == Spec /\ \A n, p \in Nodes : WF_vars(Handle(n, p))

-----------------------------------------------------------------------------
Message ==
    [type : {"version"}, height : 0..MaxBlocks, last : 0..MaxBlocks]
      \cup [type : {"getblocks"}, last : 0..MaxBlocks]
      \cup [type : {"inv"}, items : Seq(Blocks) \ {<<>>}]
      \cup [type : {"getdata", "block"}, block : Blocks]

\* Types; an inventory is never empty, so handleInv may take its last item.
TypeOK ==
    /\ \A n \in Nodes : ToSet(chain[n]) \subseteq DOMAIN parent
    /\ \A l \in Links : ToSet(net[l]) \subseteq Message
    /\ \A l \in Links : known[l] \subseteq Blocks
    /\ \A n \in Nodes : ToSet(inTransit[n]) \cup inTransitSet[n] \subseteq Blocks

\* What a node notes of a peer it has itself: a block that passes
\* IsBlockValid is never skipped by the knownBlocks test of handleBlock, which
\* would update the chainstate with a block that is not stored.
KnownStored == \A l \in Links : known[l] \subseteq ToSet(chain[l[1]])

\* Every chain is a path: each block stands on its parent.
ChainsLinked ==
    \A n \in Nodes : \A i \in DOMAIN chain[n] :
        parent[chain[n][i]] = IF i = 1 THEN 0 ELSE chain[n][i - 1]

\* Only one node starts with blocks or mines, and every node hears of blocks
\* from one side only: up gives its peer on that side, for every link the one
\* end that is nearer to the source.
OneSource ==
    \E source \in Nodes :
        /\ setup.miners \cup {n \in Nodes : setup.height[n] > 0} \subseteq {source}
        /\ \E up \in [Nodes -> Nodes] :
              /\ up[source] = source
              /\ \A l \in setup.links : up[l[1]] = l[2] <=> up[l[2]] # l[1]

\* No handler panics (server.go:690, blockchain.go:458).
NoPanic == \A n \in Nodes : alive[n]

\* With one source of blocks no handler panics, whatever it mines while the
\* others catch up, and whichever connection breaks.
SourceNoPanic == NoPanic \/ ~OneSource

\* All of it: a node has what it notes, its chain is one, and nothing panics.
SyncSound == TypeOK /\ KnownStored /\ ChainsLinked /\ SourceNoPanic

\* With one source that does not mine, every node ends up, and stays, with the
\* whole chain, whichever connection breaks in the middle of the download.
CatchUp == OneSource /\ setup.miners = {} => <>[](\A n, m \in Nodes : chain[n] = chain[m])
=============================================================================
