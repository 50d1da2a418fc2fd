------------------------------ MODULE MCPeers ------------------------------
(***************************************************************************)
(* What a node does with its peers, for model checking: relaying pending   *)
(* transactions to new ones, the set of peers, and mining what they send.  *)
(* Each is modelled by itself: part says which one a behaviour follows,    *)
(* and the others stay as they begin.                                      *)
(***************************************************************************)
EXTENDS TxSync, PeerSet

CONSTANTS H1, H2, C1, C2, C3, Id1, Id2

VARIABLES part,
    inbox, sent, lock, minerPc, arrived, offers, minerPool, best   \* Miner

Mining == INSTANCE Miner WITH
    pc <- minerPc, mempool <- minerPool,
    Handlers <- {H1, H2}, NoHandler <- None, MaxHeight <- 1, MaxMessages <- 3

\* One node that connects twice, and another one.
TwoNodes == [c \in Conns |-> IF c = C3 THEN Id2 ELSE Id1]

\* The peer set sees one remote node that connects twice.
OneNode == [c \in PeerConns |-> Id1]

ASSUME Mining!MinerAssumption /\ PeerSetAssumption

minerVars == <<inbox, sent, lock, minerPc, arrived, offers, minerPool, best>>

MCInit ==
    /\ part \in {"miner", "peers", "relay"}
    /\ Init /\ Mining!Init /\ PeerInit
    /\ part # "miner" => \A h \in {H1, H2} : inbox[h][1].height = 0

MCNext ==
    \/ part = "relay" /\ Next /\ UNCHANGED <<part, minerVars, peerVars>>
    \/ part = "miner" /\ Mining!Next /\ UNCHANGED <<part, vars, peerVars>>
    \/ part = "peers" /\ PeerNext /\ UNCHANGED <<part, vars, minerVars>>

\* The fairness of each part; see the modules.
MCSpec ==
    /\ MCInit /\ [][MCNext]_<<part, vars, minerVars, peerVars>>
    /\ \A h \in {H1, H2} : /\ WF_minerVars(part = "miner" /\ Mining!Open(h))
                           /\ WF_minerVars(part = "miner" /\ Mining!Run(h))
    /\ \A c \in PeerConns : /\ WF_peerVars(part = "peers" /\ Handler(c))
                          /\ WF_peerVars(part = "peers" /\ RemovePeer(c, "timer"))
                          /\ SF_peerVars(part = "peers" /\ SenderEnds(c))
                          /\ WF_peerVars(part = "peers" /\ SendQueued(c))
    /\ WF_vars(part = "relay" /\ SendTransactions)
    /\ WF_vars(part = "relay" /\ Done)
    /\ \A c \in Conns : WF_vars(part = "relay" /\ Receive(c))

-----------------------------------------------------------------------------
\* handleTx and handleVersion: a handler that waits for BestTd has something to
\* mine, and every message is handled in the end, or a miner waits for an offer
\* that needs the database it has locked.
MessagesHandled == part = "miner" => []Mining!WaitingHasWork /\ Mining!MessagesHandled

\* txsyncLoop: no pack is overwritten while it is sent, and everything that was
\* pending is announced to a node that connects.
Relaying == PackIsStable /\ Relayed
=============================================================================
