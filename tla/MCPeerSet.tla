------------------------------ MODULE MCPeerSet -----------------------------
(* Instances of PeerSet: one remote node that connects once or twice.     *)
EXTENDS PeerSet

CONSTANTS c1, c2, a

OneNode == [c \in PeerConns |-> a]
=============================================================================
