# A TLA+ verification of blockchain_go

The program is a small blockchain node: a chain of blocks in a Bolt file, a
wallet and a command line, and a network layer taken over from go-ethereum. This
directory holds TLA+ models of its own logic, TLC configurations that check them
on small instances, and proofs checked by TLAPS. All paths are relative to the
repository.

## 1. The system

| Component | State it keeps | Operations | Hard part |
|---|---|---|---|
| priority queue, `boltqueue/` | buckets of keyed entries in a Bolt file; the last key, in memory | Enqueue, Requeue, Dequeue, key/value helpers | key drawn and entry written in two critical sections; restart forgets the last key |
| block store, `blockchain_go/blockchain.go`, `utxo_set.go` | bucket `blocks` with the entry `l`, bucket `chainstate`, the file lock | NewBlockchain, AddBlock, MineBlock, IsBlockValid, Update, Reindex | many users of one file; several transactions for one operation; death in between |
| transactions and UTXO set, `transaction.go`, `utxo_set.go` | outputs kept for each transaction hash; mempool; pending queue | NewUTXOTransaction, FindSpendableOutputs, FindUTXO, Update, VerifyTx | two algorithms for one cache; sequences of commands; deliveries that repeat |
| block synchronisation, `p2pprotocol/server.go` | `blocksInTransit`, `knownBlocks` | handleVersion, handleGetBlocks, handleInv, handleGetData, handleBlock | messages of several peers interleave on global lists; connections break |
| mining loop, `server.go` handleTx | `TxMempool`, channel `BestTd` | handleTx, handleVersion | waits on a channel with the database locked |
| peer life cycle, `p2pprotocol/peer.go` | `Peers`, timers, `queuedTxs`, `term` | msgHandler, Register, Unregister, removePeer, broadcast | two goroutines remove one peer; a timer outlives its connection |
| relay to new peers, `server.go` txsyncLoop | `pending`, `sending`, `pack` | syncTransactions, send, pick | shared pack; reports that come late |
| transaction gossip, `server.go`, `peer.go` | `knownTxs`, `queuedTxs` | BroadcastTxs, handleInv and handleGetData of `tx` | lists dropped when a queue is full |
| command line, `cli/` | none of its own | send, send -mine, createblockchain, reindexutxo, startnode, listings | shares the file with a running node |
| wallets, Base58, Merkle tree, proof of work, difficulty | wallet file | pure algorithms around a cryptographic library | edge cases of sizes and leading zeros |
| p2p server and dialler, `p2p/server.go`, `dial.go` | peers, `inboundCount`, tasks; static nodes, dials under way, dial history | Server.run, SetupConn, listenLoop, newTasks, taskDone, AddPeer, RemovePeer, Stop | two checkpoints of a connection race with other connections, dials and stopping |
| p2p peers and messages, `p2p/peer.go`, `message.go`, `protocols/` | protocol goroutines of a peer, the write token; the pipe of simulations | Peer.run, readLoop, pingLoop, ReadMsg, WriteMsg, Close | goroutines that end in any order |
| RLPx, `p2p/rlpx.go` | secrets and running MACs of both sides | encryption and protocol handshake, frames, matchProtocols | two sides must come to the same state from damaged or old packets |
| discovery v4, `p2p/discover` | buckets, replacements, address counts, bonds, node database; pending replies | add, bond, Lookup, revalidate, refresh, Close; pending, gotReply, loop | calls that wait for each other; replies late, doubled or lost; a clock set back |
| discovery v5, `p2p/discv5` | node states, timers, queries, topics, tickets, searches | Network.loop and its cases, topicTable, ticketStore | stale timers, topics that go while tickets are under way, deferred requests |
| node records, `p2p/enr` | signed, sorted pairs and a number | Set, SetSeq, SignV4, EncodeRLP, DecodeRLP | a cached encoding that must not outlive a change |
| node container, `node/` | services, p2p server, endpoints, directory lock | Start, Stop, Restart, Wait, admin calls | one service of several fails to start |
| RPC client and server, `rpc/` | pending requests, the connection, codecs, subscriptions | Call, BatchCall, Subscribe, dispatch, reconnect; ServeCodec, Stop, Notify | a call is cancelled while its answer is on the way; Stop against readers |
| simulations, `p2p/simulations` | what a network believes of its nodes and connections | Start, Stop, Connect, Disconnect, watchPeerEvents | watchers lag behind; two callers |
| netutil, metric of discovery | - | pure algorithms | byte and bit boundaries |
| NAT, metrics, ethclient, HTTP | - | operating system, routers, stateless wrappers | - |

How they interact. A node process runs one goroutine for each connected peer
(`msgHandler`). It opens the block database for every message and closes it
after the handler has returned; Bolt's file lock makes all handlers, and the
command line tools, take turns. The handlers share the globals
`blocksInTransit`, `blocksInTransitSet` and `Manager` (mempool, peers, channels)
with nothing else to protect them. A transaction enters at a wallet (`send`),
joins a mining node's mempool (`handleTx`) and is mined with the others when
there are two; the new height goes to all peers as a `version`, and peers that
are behind fetch the blocks. `log.Panic` in any goroutine ends the process.

Correctness, by component: the queue loses nothing and delivers in priority and
arrival order. The store is one chain from the genesis block to `l`, and the
chainstate follows it. Coins are spent once, by their owners, and none are made
of nothing. Nodes with one source of blocks end up with its chain. A miner's
mempool belongs to one handler at a time. The peer set forgets who has gone.
New peers are told all that is pending. The p2p server has one peer for a remote
node, keeps its limits, dials a node once at a time and static ones again and
again, and leaves no peer behind when it stops. A transaction announced once
reaches everybody. Both ends of a new connection have the same secrets and run
the same protocols; what a goroutine writes arrives whole; a peer's goroutines
end. What is asked of a remote side, over UDP or RPC, comes to an end, once. The
discovery tables keep their limits and agree with their indexes, lookups return,
tickets are taken in order. A node has all of its services, or none.

`PROJECT.json` lists the places where each of these could go wrong in a way a
unit test would hardly reach.

## 2. Modules

| Module | Models | State and actions |
|---|---|---|
| `PQueue` | `boltqueue/` | `buckets` is the file, `aKey` the generator of the process. Enqueue is two actions (`Enqueue` draws the key, `EnqueueMessage` is the transaction). `Restart` loses what is in memory. |
| `PriorityFifo` | what `boltqueue/README.md` promises | tickets in place of keys and clocks; `PQueue!ImplementsFifo` is the refinement. |
| `Blockchain` | the block store | `store`, `height`, `last` are the blocks bucket, `applied` the blocks the chainstate reflects, `owner` the file lock. Each Bolt transaction is an action; `Crash` comes between any two of them; `BlockStored` is the log.Panic on a duplicate. |
| `Ledger` | transactions, chainstate, mempool, wallets | `cache` is the chainstate. `ApplyTx`/`Update`, `ScanTx`/`FindUTXO`, `Coins`/`FindSpendableOutputs` are the algorithms; the actions are the commands and handlers. |
| `BlockSync` | block synchronisation | one action for each outcome of each handler; `net` holds a FIFO stream for each direction of a connection. |
| `Miner` | handlers of a mining node | `lock` is the file lock, `offers` the goroutines blocked on `BestTd`. |
| `PeerSet` | msgHandler and removePeer | `pc` is where a handler is, `timer` its forkDrop, `target` the peer a removePeer has looked up. |
| `TxSync` | syncTransactions, txsyncLoop | `pending`, `sending`, `pack`, `done` as in the code. |
| `DialState` | `p2p/dial.go` | a record that only the run loop touches; the methods of dialstate are operators on it. |
| `P2PServer` | `p2p/server.go` | `pc` is where `run` is, `cur` the connection it checks; `conns` holds for every connection the stage of its SetupConn (or dial task) and the status of its runPeer; `running`, `queued`, `peers`, `inboundCount` are the locals of `run`; `stop` tells who holds `srv.lock`. A case of the select is an action; checks and answer of a checkpoint are two more, since Stop may come between. |
| `TxGossip` | announcing, asking for and sending transactions | `known` are the marks, `waiting` the bounded queues, `wire` the messages; `Broadcast`, the sender goroutine, and one action for each message. |
| `ChainAlgorithms` | Merkle tree, Base58 and addresses, joined signatures, proof of work, difficulty | a state is one input; `Compute` runs the algorithm, the invariant compares it with a reference definition. |
| `NetAlgorithms` | the XOR metric, lists ordered by it, networks of addresses | likewise. |
| `PeerLink` | `p2p/peer.go`, writing of `rlpx.go`, the loop of `protocols` | one variable for each goroutine of a peer; `token` is writeStart/writeErr, `wmu` the lock of the frame writer, `wire` the parts of frames. |
| `RlpxHandshake` | `rlpx.go`, `matchProtocols`, the order of `setupConn` | symbolic secrets and MACs of both sides; packets can be damaged and the initiator can be an old node. |
| `MsgPipe` | `MsgPipe` of `message.go` | a write waits until its payload was read or the pipe is closed, which several may do. |
| `DiscTable` | `discover/table.go`, what it keeps in `database.go` | buckets and address counts, which begin as `newTable` leaves them (boot nodes and what the database holds, shuffled into the buckets); `bonds` and `lookup` are goroutines under way, `loop` is Table.loop with refresh, revalidation and Close. |
| `ReplyMatcher` | `udp.loop`, `pending`, `handleReply` | `plist`, one timer and a clock that may be set back; a pass removes at most one element, as removal ends the iteration of the list. |
| `Discv5Net` | node states, timers, queries and lookups of `net.go` | `S` is what the loop owns; `live` counts the deliveries still to come of timers that are known by their key only; `unanswered` are nodes whose last ping is past its timeout. |
| `TopicTable` | `topic.go` and the handlers that use it | indexes by node and by topic, serial numbers in the database; `taken` is the last ticket taken of a node. |
| `TicketStore` | `ticket.go`, registering side, and its cases of the loop | `pc` tells where the loop is: at the head, in the select, or stopped for good. |
| `TopicSearch` | searches of `net.go` and `ticket.go` | deferred requests and the goroutines that replay them, the blocking send of a finished lookup (`telling`), goroutines that sleep and send again (bags); `acted` are the requests the loop acted on, in its order. |
| `NodeRecord` | `p2p/enr` | the owner's record, encodings on their way, the record a peer has decoded. |
| `RpcClient` | `rpc/client.go` | callers, the dispatch goroutine, the reader of each connection, subscriptions; unbuffered exchanges are joint steps. |
| `RpcServer` | `rpc/server.go`, `subscription.go` | serveRequest of each codec, one task for each request, notifier, `Stop`. |
| `NodeContainer` | `node/node.go`, endpoints of `api.go` | operations are single steps under the lock; each chooses where it fails. `udpOpen` are the runs whose UDP socket is open, `udpLost` those nobody can close any more. |
| `SimNetwork` | `simulations/network.go`, `adapters/inproc.go` | what the network believes (`up`, `conn`) beside what is so (`run`, `link`), watchers in between. Stopping a node tears it down and then returns normally or with the error of a service, after which the network leaves `up` to the watcher. |
| `NodeConnections` | the connections of a node side by side | `RpcClient` and `NodeContainer`, and as instances `RpcServer`, `PeerLink`, `RlpxHandshake`, `ReplyMatcher` and `MsgPipe`; their safety properties joined where a run and a theorem share them. |
| `PQueueProof`, `BlockchainProof`, `BlockSyncProof`, `PeersProof`, `TxGossipProof`, `NodeContainerProof`, `P2PServerProof`, `ConnectionsProof` | - | theorems and proofs, section 4 |
| `MC...` | - | constants for TLC, and compositions |

`MCStores`, `MCChain`, `MCBlockSync`, `MCPeers`, `MCDiscovery` and `MCNode` put components of one layer
side by side: the variable `part` says which of them a behaviour follows, and the
others stay as they begin. One or two of the components are EXTENDed, which is why their
constants, variables and specifications have names of their own (`PeerInit`,
`GossipNext`, `NodeSpec`, `PeerConns`, ...), and the properties a run checks are the very
definitions the theorems are about; the other components are INSTANCEd. `MCNode` EXTENDS
`NodeConnections`, which holds the instances its theorems are about and repeats their
assumptions, so that TLC evaluates these too. The components share no variable, or only one that is
abstracted (the chain, the clock), so a product of their steps would add states and
no case; what one needs of another is stated as a property of that other.

Abstractions. A block is its hash, a transaction its hash and its inputs and
outputs; hashes are distinct. The checks of a block's content (hash, proof of
work, signatures) have either outcome in `Blockchain` and `Miner` and succeed in
`BlockSync`. In `Ledger` wallets are honest and a signature verifies when the
transactions it was made from are there, since `Verify` checks it against the key
the input carries. The transport is external: it delivers messages of a
connection in order and makes reads fail when the connection is gone. That a
remote node has one handler at a time, which `PeerSet` builds on, is
`P2PServer!PeersMatch`. In `P2PServer` a handshake yields any node's id or fails,
discovery returns any of a set of node lists, and time is two counters: the
entries of the dial history that are due, and whether the fallback interval is
over. Resolving an address anew before a second attempt is part of a dial. Pings
and findnodes of `DiscTable` succeed or fail, since `ReplyMatcher` shows that they
return. Radiuses of topics are floating point: which node is near enough is left
open in `TicketStore`. Bytes and hashes of the algorithm modules have two bits or
five values; where the code depends on a length of 20, 32 or 256, the length is a
constant. Mutated definitions (comment "Mutant of ...") stand next to the
definitions they change; they show that a property can fail.

`Blockchain` justifies an abstraction of the others: whoever has the database
open is alone with it (`HandleIsFresh`), so a handler of `BlockSync` and a command
of `Ledger` is one step.

## 3. What the runs check

| Run | Instance | Shows |
|---|---|---|
| `stores` | queue: 2 producers, 2 priorities, 3 messages, 1 restart, clock readings 0-2 apart; table of v4: 2 nodes of one bucket of 1 with 1 replacement, the first refresh beside 1 event from outside (a lookup, a ping, a revalidation, ...) and Close at any time, the database new, with a node, or with a failure | `KeysFollowTickets`, `NothingLost`, refinement of `PriorityFifo`; `NodesSound`, `EveryoneReturns` (lookup, bond and Close return) |
| `chain` | store: 3 blocks besides the first, 2 handlers, 1 tool, 2 deaths, 1 duplicate; coins: 2 wallets, three scenarios (3 uses of send -mine with 7 transactions; 3 sends each delivered once, with a reindex; 2 sends delivered up to twice, with a second miner and a reindex); gossip: 3 connected nodes, 2 transactions, queues of 1; algorithms: all small inputs | the store is one chain (`SingleChain`), all of it reached from `l` (`WalkedFromTip`), handles never stale, `l` only moves to a child, the chainstate complete unless a process died; `CacheSound` (entries belong to the chain, those of Update are within those of Reindex, mined once), `SpendsSound` (spent once and by the owner with send -mine; coins can be signed for); `GossipSound`; `AlgorithmsRight` |
| `sync` | 3 nodes; a chain of 3 fetched along a line from its end and from its middle, with 2 broken connections; a source that goes on mining, with 1; a ring of two miners. Simulation: 2 nodes, 2 callers, 2 starts and 2 connections each | `SyncSound` (a node has what it notes, chains linked, with one source no panic), `CatchUp`; `SimulationSound` |
| `peers` | 1 remote node connecting twice, queue of 2; 3 connections of 2 nodes, 2 transactions, packs of 1; 2 handlers of a miner, 3 messages besides the first versions | `PeersSound` (no registration fails, no ghost stays, broadcast goroutines are told to end), `DroppedIsRemoved`; `NothingForgotten`, `Relaying` (stability of the pack, completeness); `MessagesHandled` (an offer ends the wait, no other deadlock) |
| `server` | us and 2 nodes, 2 tasks at a time, seven configurations: static nodes added and removed; a dial that crosses an inbound connection; two inbound connections for one place; a trusted node; two dynamic dials with boot node and random nodes; static and dynamic together; two nodes found for one dynamic dial | `ServerSound` (peers map and goroutines agree, limits, inbound count, nothing left after Stop), `DialsSound` (dials tracked, one dial for a node, dynamic share), `StaticRedialled` |
| `discovery` | v5: 2 nodes, 1 lookup, timers with up to 2 deliveries to come; topic table: 3 nodes, 2 topics, 2 entries for a topic, 3 tickets, times up to 3; ticket store: 1 topic, 2 registrars, waits of 0 and 2, times 1 to 3; search: 2 topics, 1 search at a time, 2 requests for each, times up to 4, a query repeated after 3; records: 2 owners | `QueriesEnd` (what was sent, and what waits for its node to be verified, ends); `TopicsSound` (topic table and ticket store: indexes and counters agree, nothing dangles), `TicketsInOrder`, `TicketsUsed`; `SearchSound` (searches follow the requests of their users, go on, and query no node again too soon); `RecordsSound` |
| `node` | client: 1 call, 1 subscription, 2 connections; server: 1 codec, 2 messages of a set with batches and bad requests; container: 2 services, 2 ports, no UDP port, a fixed or any free one, 2 runs, 1 waiter; link: 2 events from the remote side, wire of 2 parts; handshake: all subsets of 3 protocols; UDP: 2 calls to 1 node, 1 clock change; pipe: 3 closers, 2 messages of 0 to 2 bytes | `RpcSound`, `AnswersCome`, `StopEndsAll`, `AllOrNothing`, `LinkSound` (handshakes agree, frames whole, pipe), `RunEnds`, `RepliesSound` |

Why the bounds are enough: each of these hazards needs two actors and one
interruption (a restart, a death, a broken connection, a second delivery), and
each instance has one more step than that. Three messages make a queue in which
the middle one can be requeued; three blocks make a download with a block before
and one after the one that is lost; three sends put a transaction behind a mined
block. Two nodes and one or two places are enough for the server, whose checks
look at one connection and at the number of the others; the five connection
records are never used up. Discovery and the connections of a node need one actor
that waits, one that ends the wait, and one late or second event: two calls, two
timer deliveries, two connections. A ticket with a wait of 2 that is fetched at time 1
is due at 3, within the run; a search has time for a query, the
interval after which it is repeated, and the repetition. Byte strings of two or three digits have every
combination of leading zeros and of a prefix that ends inside, at or after a byte.
`Ledger`, `BlockSync` and `P2PServer` choose a scenario, network or configuration in
the initial state, so that one run covers several.

Deadlock is not checked: commands and messages are bounded, so every instance
stops when they are used up. That handlers do not block each other is stated as
a property (`MessagesHandled`, `DroppedIsRemoved`, `EveryoneReturns`, `AnswersCome`,
`RunEnds`).

### Fairness

- `BlockSync`: each connection's goroutine goes on reading (weak fairness of
  `Handle`); breaking a connection and mining are not fair.
- `Miner`: the lock is taken by polling, which serves a handler when the others
  stop taking it (weak fairness of `Open`); a goroutine that can go on does.
- `PeerSet`: handlers, the timer's goroutine and the sender go on. `SenderEnds` is
  strongly fair because Go's select picks at random among ready cases. Timeouts,
  answers and disconnects are not fair.
- `TxSync`: loop and background goroutine go on; select serves a sender that
  stays ready.

- `P2PServer`: the run loop goes on and select serves a channel that stays ready
  (strong fairness); dials and handshakes have time limits (5 s and 15 s) and end;
  history entries expire. Peers leaving, inbound connections, calls of AddPeer,
  RemovePeer and Stop are not fair. Progress of scheduleTasks is stated as
  `[]<>(pc # "schedule")`, which says the same as weak fairness of an action that is
  always enabled there.
- `DiscTable`, `ReplyMatcher`: `Progress` is weakly fair: goroutines that can go on do,
  and the transport answers or times out. What comes from outside (calls, packets,
  Close, changes of the clock) is not fair.
- `TicketStore`: time goes on and the loop takes its turns (weak fairness of `Tick` and
  `ResetNextTicket`; without the first, a ticket that must be waited for is never used and
  `TicketsUsed` fails); a ticket whose timer has fired is one case of a select and is
  served although others are ready too (strong fairness of `Register`).
- `RpcClient`: `Progress` (dispatch, readers, writers, a server that answers what it has
  received) is weakly fair; calls, cancellations and breaking connections are not.
- `RpcServer`, `PeerLink`: goroutines and deadlines go on; Stop, messages and the remote
  side are not fair.

### Where the code differs from what it says

Five runs end in a counterexample.

- `ledger_double` - `handleTx` (server.go:597-600) verifies the arriving
  transaction once for each member of the mempool and mines them all: two
  transactions that spend one coin get into one block.
- `miner_wait` - `handleTx` (server.go:587) waits on `BestTd` with the database
  open; the `handleVersion` of another peer, which would offer a height, cannot open it.
  Two handlers: one waits for the offer, the other has the version and waits for the file.
- `peers_panic` - `removePeer` (peer.go:132-144) looks a peer up and unregisters it
  in two critical sections; of two callers the second panics.
- `server_stop` - `Stop` (p2p/server.go:353) waits for the run loop with `srv.lock`
  held. Its select may take a connection although `quit` is closed; the check
  of that connection calls `Self`, which waits for the lock. A listener all of
  whose slots are taken by connections waiting for the lock blocks `Stop` as well.
- `discv5_loop` - when a topic is registered, the loop of version 5 (net.go:481-483)
  stops the lookup timer and, if that timer had not fired, receives from its channel,
  on which nothing will come: the test is the wrong way round.

Seen while modelling, and built into the models, but without a run of their own:
the conditions in the properties are there because of them.

- With a clock set back over a restart, `atomicKey.Get` hands out a used key and
  `Enqueue` overwrites a message (`ClockRunsAhead = FALSE` violates `NothingLost`).
- `Dequeue` reports priority 0 for priorities from 128 (`Uvarint`).
- `Update` (utxo_set.go:212) deletes the unspent outputs of a transaction together
  with the spent one; `UpdateWithinReindex` is one-sided for that reason.
- `FindUTXO` (blockchain.go:204) drops spent outputs from an entry, which renumbers
  those behind them; after `reindexutxo` a payment may name an output of somebody
  else. `LocalSpends` is stated for send -mine alone.
- Two nodes that mine at the same time: `handleVersion` (server.go:690) panics where
  it says it sends a conflict message. `SourceNoPanic` is stated for one source.
- `IsUTXOAmountValid` (utxo_set.go:286) refuses payments with inputs of two
  transactions.
- `PendingIn` (transaction.go:328) removes the queue file it has written, so the
  pending queue is always empty (`PendingQueue`).
- A source that mines during a download overwrites `blocksInTransit`, and
  `knownBlocks` keeps the lost blocks from being announced again; `CatchUp` is
  stated for a source that does not mine.
- The height received from `BestTd` is compared and ignored (server.go:590).
- A timer that has fired may drop the next connection of its node (peer.go:228).
- A failed send deletes the sync of the node's next connection (server.go:1075);
  `NothingForgotten` and `Relayed` speak of a node's first connection.
- `RemovePeer` during a dial does not stop it: the node becomes a peer afterwards.
- Gossip: an announcement that finds the queue full is dropped and, the peer being
  marked, never repeated; a transaction mined before `getdata` comes is not sent.
  `SettledSpread` excepts both.
- Algorithms: the Merkle tree panics for no and for more than four transactions;
  Base58 keeps one leading zero, so a key hash that begins with a zero byte has an
  address `ValidateAddress` refuses; r and s joined without padding are split right
  only if s is as long as r or one longer; `Run` that exhausts the nonces returns one
  that does not fit its hash. `AlgorithmsRight` says of each which inputs these are.
- `VerifyTxTimeLineAndUTXOAmount` returns after the first transaction that is no coinbase;
  a received block's difficulty is not compared with `CalcDifficulty`.
- `confirmTx`, `handleConflict` and `enqueueVersion` use a queue file that is removed on
  return; the code that would send a conflict stands behind a `log.Panic`.
- `StartServer` (server.go:876) starts the node before it sets `Manager`.
- RPC client: `dispatch` waits in `closeRequestOps` for a `sync.Once` held by an
  `Unsubscribe` whose request waits for `dispatch` (client.go:609), or at `<-c.readErr`
  (client.go:578) for the reader of a connection that was replaced, which may itself be
  sending to `dispatch`; requests written to such a connection are never told.
  `CallsReturn` excepts all three.
- RPC server: `Stop` (server.go:229) does not wait `stopPendingRequestTimeout`, as its
  comment says. A misnamed request ends the connection, in a batch it fails alone.
- Node: a failed `Start` keeps the lock of the data directory; the admin calls can open
  endpoints of a stopped node. `AllOrNothing` leaves both open. A p2p server that fails
  after it opened its UDP socket (p2p/server.go:483, 500-502: a bad fallback node, the TCP
  address taken) closes neither socket nor discovery, and `Node.Start` (node.go:196-198)
  does not stop it: they run on and nobody knows them (`udpLost`). `AllOrNothing` states
  what follows: with a fixed UDP port the node never starts again.
- Discovery v4: a reply is offered to pending calls up to the first it completes; with a
  clock set back a call may wait longer, so `CallsReturn` excepts it. Two lookups that fail
  at one node both delete it, and `deleteInBucket` (table.go:814-817) gives the address back
  whether or not the node was still an entry: the counts fall below the number of
  entries, and a bucket may take more than the "2 addresses from the same /24" of
  table.go:54. `NodesSound` bounds the counts alone; with two buckets in one subnet
  neither is the table's count at least that of a bucket.
- Discovery v5: a node in `verifywait` or `contested` whose ping was sent for a ticket or
  in an earlier state may meet that ping's timeout where it is of no use; the ping stays
  unanswered, no other is sent, and `VerifyTimesOut` excepts the node (`unanswered`).
- Deferred queries are "queries that can't be sent yet" (discv5/net.go:782), but when a
  query times out (net.go:1159-1168) the next one is left deferred. It is sent when
  another query of that node is answered or the node becomes known anew; if neither
  happens it is never sent, answered or aborted, and its lookup waits. `QueriesEnd` says
  nothing of such a query.
- Topic searches: requests put off while a lookup runs are replayed by a goroutine
  (net.go:637-641). A later request of the same topic may overtake the replay, and the
  search is then on or off against its user's last wish; `SearchAsAsked` says that each
  request is acted on once and, unless that happened (`overtaken`), in order. No caller in
  the repository asks for searches and no document promises an order.
- Topic table: a ticket may be used again while its serial is the last one; it prolongs
  the entry. `TicketsInOrder` excludes older tickets and, before `noRegUntil`, newer ones.
  The server opens the database of version 5 in memory (p2p/server.go:476, 478), so the
  counters are gone with the process and a restart is a new table; its expirer deletes
  nodes `updateNode` has stored, which version 5 never calls, so no counter goes before.
- Records: `invalidate` (enr.go:132) raises the number of a record that is not signed,
  where the comments (enr.go:77, 103) speak of a signed one; numbers tell versions
  apart since `SignV4` sets two keys before it signs.
- Simulation: `Up` "tracks whether or not the node is running" (simulations/network.go:526),
  but a watcher of an earlier start that ends late (network.go:224) marks the node as
  down while its second run goes on. `UpRuns` is the other direction: what counts as up
  runs, or a caller or, where a service failed to stop and `Network.Stop` returned early,
  a watcher is about to mark it as down. A connection made before the watchers have subscribed is missed. `ConnsTrue`
  is stated for first starts and settled watchers.
- `MsgPipe`: a write that waits for its payload to be read returns nil when the pipe is
  closed, where the comment promises an error.

## 4. What is proved

`PQueueProof`, for any producers, priorities and bounds:

- `TypeCorrect`: `Spec => []TypeOK`.
- `KeysOrdered`, `NothingIsLost`, `Refinement`: `KeysFollowTickets`, `NothingLost` and
  `ImplementsFifo`, assuming `ClockRunsAhead = TRUE`. `KeysFollowTickets` is not
  inductive: it does not say that the next key exceeds all there are, nor that a
  ticket is drawn by one call only. `KeyInv` adds `NewKeysAreLargest` (`aKey` is the
  largest key ever drawn, or the clock of the process is already past it) and
  `DrawnOnce` (calls under way have different tickets). `Restart` preserves the
  first because the clock runs ahead. `EnqueueMessage` overwrites nothing because
  equal keys mean equal tickets. In the refinement, the first entry of a bucket is
  the oldest ticket by `KeysFollowTickets`, and distinct entries have distinct
  tickets.

`BlockchainProof`, for any blocks, handlers, tools and bounds:

- `TypeCorrect`, `OneChain`, `NoStaleTip`, `AllWalked`, `OnlyExtends`,
  `ChainstateFollows`: the six properties of the store in run `chain`. The inductive invariant
  ties a user's place to the lock (past "closed" means owner), an open handle's tip
  to `l`, a checked or mined block to being the child of `l`, and the chainstate to
  the store up to the block in hand (`UpdatePending`). `AllWalked` needs no
  induction over the chain: `Chain` is the least set closed under parents, and a
  step that puts a block on top of `l` adds exactly that block to it.

`BlockSyncProof`, for every set of nodes, every network, any number of blocks and of
broken connections:

- `SyncIsSound`: `SyncSound`. `AnyInv` holds in every network, whoever mines: `TypeOK`
  with types tight enough for an induction (everything is about blocks that have been
  mined, and a block's place in a chain is at most its number), `KnownStored`,
  `ChainsLinked`. That no handler panics where blocks have one source needs much more,
  `SourceInv`: there is one chain, every node has a prefix of it and is not ahead of the
  peer it hears of blocks from (`Straight`, `Behind`); a version on its way states a
  prefix of the sender's, inventories and blocks go away from the source and requests
  towards it (`AllProper`); and on every link a block is announced, listed, asked for or
  on its way in at most one of these places, once, only before it is stored, and only if
  the sender has it in `knownBlocks`, while a `getblocks` that is still under way asks
  for nothing that was stored since without being noted there (`Fresh`). The last part
  is what keeps a second `version` from making `handleGetBlocks` announce blocks again,
  and it survives `Reconnect`, which empties `knownBlocks`, because the streams are
  emptied too. `Fresh` is a predicate of two sequences, a list, a set and a number; what
  each handler does to it is a lemma about these values (`FreshTake` to `FreshStart`).
  The proof showed that an earlier form of `OneSource`, which counted links, also
  allowed a cycle of nodes beside one that is cut off; it now says that each link has
  one end that is nearer to the source.

`PeersProof`, for any connections, remote nodes and timers, transactions and size of a pack:

- `PeersAgree`: `PeersSound`. The invariant adds that a remote node has one handler at a
  time and that the peer registered for an id is a connection of that node whose
  handler is past `Register` and has not returned.
- `RelayLosesNothing`: `NothingForgotten`. The invariant adds whose sync the loop keeps
  and whose pack is on its way, that nothing is kept while nothing is sent, and that a
  reported failure is of a broken connection.
- `PackNotOverwritten`: `PackIsStable`, the safety half of `Relaying`.

`TxGossipProof`, for every connected network, any transactions and capacities:

- `GossipReaches`: `GossipSound`. The invariant adds that a mark is for a transaction
  the node was given, that what is queued, announced, asked for or sent over a link its
  sender was given and keeps until a block takes it, and that a node that was given a
  transaction has seen to each peer. That everyone is reached follows from
  connectedness, which `GossipAssumption` states as: a set of nodes that is closed under
  peers is empty or has them all.

`NodeContainerProof`, for any services, addresses, waiters and number of attempts:

- `NodeAllOrNothing`: `AllOrNothing`. The invariant adds that an endpoint that listens
  does so at its configured address; without it a `startRPC` that fails in the middle
  could close, or one that succeeds could overwrite, a socket opened before; and, of
  discovery, that the runs whose UDP socket was lost are past ones and not the present
  one (`Discovery`), so that Stop closes the socket of its own run and no other.

`P2PServerProof`, for any finite set of nodes, any `Config`, number of connections and limit on
active dials, any boot nodes and lookup results:

- `ServerIsSound`, `DialsAreSound`: `ServerSound` and `DialsSound`, from one invariant,
  `ServerInv`. A connection record is of a known shape (`ConnSound`): a peer runs only on
  one that waits for its last answer or has it, so the flags that count peers no longer
  change. The books on dials (`Books`) say whose each dial is: a mark of the dialler
  belongs to one task, which waits in the queue or runs; a connection that we dialled
  has its running task, with the same node and flag, until it is set up; a node that
  waits in the queue has no such connection. That a dynamic peer never exceeds the share
  follows, since its node was marked when it was added (`DynMarked`) and `taskDone` comes
  after. `inboundCount` and the limits are kept because the checks are repeated in the
  step that adds the peer (`RunProtoChecksStep`). After `quit` the dialler and the tasks are
  gone, which is why the books are stated only while the loop serves. What the loops of
  `newTasks` and `startTasks` do for any number of rounds is `NewTasksAre` and
  `StartTasksSound`: `newTasks` marks exactly the nodes of its tasks, each once, none of them
  connected, recent or marked, and adds no more dynamic dials than are missing;
  `startTasks` starts tasks in order and returns the rest.

`ConnectionsProof`, for the connections of a node (`NodeConnections`), each component under
its own specification:

- `RpcIsSound`: `RpcSound`, for any calls, batches, subscriptions, connections and number
  of messages. `ResponsesOnce` of the client is not inductive: `ClientInv` adds that the
  ids of an operation wait in `respWait` all together or not at all, that the slot of
  `requestOp` belongs to the operation that writes, what each place of a caller says of
  its operation, and that a subscription's quit channel is closed by the one that took
  `quitOnce`. `IdsFirst` of the server needs what a task knows about the subscriptions
  it made: it activates only those whose id it has written, and a finished task has
  left none inactive (`ServerInv`).
- `SetupSound`: `SetupAgrees`, for any protocols and versions offered. `HsInv` goes
  through the phases of the encryption handshake (nothing sent, auth sent, auth
  answered, answer opened) and says in each which secrets a side can have; after it,
  that packets and frames on each wire are numbered by what their sender has sealed and
  their receiver has opened, so an undamaged frame always has the MAC that is expected.
  That both sides give a common protocol the same version and codes is about the loop
  of `matchProtocols`: `RoundSound` is its invariant (what was matched so far has the
  latest version common to both, and offsets that follow each other).
- `FramesAreWhole`: `FramesWhole`, for any number of writers. `LinkInv`: the lock of the
  frame writer is with the goroutine that wrote a header and not yet the rest.
- `PipeIsSound`: `PipeSound`, for any writers, closers and messages. `PipeInv` adds that
  the channel is closed by the one who found the flag unset.
- `LinkIsSound`: `LinkSound`, the three together.
- `MatcherSound`: `RepliesSound`, for any number of calls and every jump of the clock.
  `UdpInv`: the list holds each waiting call once and nothing else, `nextTimeout` is its
  head, and the timer is set no later than the head's deadline while the clock has not
  jumped.

Assumptions on constants are the named `ASSUME`s of the modules proved about; a run
of every one of them evaluates its assumption.

Induction over data is used in four places, the loop that filters a list of hashes
(`Without`) and the loops of `matchProtocols`, `newTasks` and `startTasks`. The loops are recursive functions; that such
a function exists, and what it computes, is proved with an induction stated for a set of
natural numbers (`Induction`, from the least element of a set).

Only model-checked: liveness under fairness (`CatchUp`, `MessagesHandled`,
`DroppedIsRemoved`, `Relaying`, `StaticRedialled`, `TicketsUsed`, `EveryoneReturns`,
`AnswersCome`, `StopEndsAll`, `RunEnds`), for which the prover has no rules; of safety,
`SpendsSound`, `CacheSound` (`Ledger`) and `AlgorithmsRight`, whose folds and recursions over
sequences would each need an induction of their own; and `SimulationSound`, and of
discovery `QueriesEnd`, `TopicsSound`, `TicketsInOrder`, `SearchSound`, `NodesSound`
and `RecordsSound`, which are left to a next step.

## 5. Not modelled, and the plan

Modelled: every component of section 1 with concurrency or a protocol of its own.
Proved: the queue, the store, block synchronisation, the peer set, relay and gossip of
transactions, the node container, the p2p server with its dialler, and a node's connections: the RPC client and server,
the handshakes, frames and pipes of a link, and replies over UDP.

Next, in this order:

1. Theorems: `Discv5Net` (`QueriesEnd`), the network simulation, then the searches
   (`TopicSearch`).
2. The key/value helpers of the queue, snapshots and mockers of the simulation, the
   node database's expirer, subscriptions over a replaced RPC connection.

Left out of a modelled component: payments of a wallet to itself (`Ledger`; `cli_send.go`
allows them), messages with a code out of range and several pongs at a time
(`PeerLink`), payloads that fail while they are read (`MsgPipe`,
message.go:140), and the disconnect frame after a failed protocol handshake
(`RlpxHandshake`).

Left out for good: cryptography, RLP, gob and JSON coding, reflection on RPC
callbacks, HTTP, WebSocket and socket plumbing, the docker and exec adapters, NAT,
metrics, printing commands, the read-only API back end and the `ethclient`
wrappers - input and output without state of their own, or code whose correctness
is a library's. The radius estimate of topics (floating point) is out of TLC's
reach.
