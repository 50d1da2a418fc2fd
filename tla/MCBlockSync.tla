---------------------------- MODULE MCBlockSync -----------------------------
(***************************************************************************)
(* Networks of nodes, for model checking: nodes in a line, a tree and a    *)
(* ring that synchronise their chains, and two nodes of a simulation.      *)
(* part says which of them a behaviour follows.                            *)
(***************************************************************************)
EXTENDS BlockSync

CONSTANTS A, B, C, O1, O2, None

VARIABLES part,
    made, up, run, client, gen, watch, conn, link, wants, links, seen, mixed, call  \* SimNetwork

Pair == {<<A, B>>, <<B, A>>}
Line == Pair \cup {<<B, C>>, <<C, B>>}
Ring == Line \cup {<<A, C>>, <<C, A>>}

Height(a, b, c) == [n \in Nodes |-> IF n = A THEN a ELSE IF n = B THEN b ELSE c]

Setup(pairs, height, miners, blocks, breaks) ==
    [links |-> pairs, height |-> height, miners |-> miners, blocks |-> blocks,
     reconnects |-> breaks]

\* A long chain is fetched from the end of a line and from its middle; A goes
\* on mining; two miners in a ring.
Networks == {Setup(Line, Height(3, 0, 0), {}, 3, 2),
             Setup(Line, Height(0, 3, 0), {}, 3, 2),
             Setup(Line, Height(2, 0, 0), {A}, 4, 1),
             Setup(Ring, Height(2, 2, 0), {A, B}, 3, 0)}

Simulation == INSTANCE SimNetwork WITH
    Callers <- {O1, O2}, Nodes <- {A, B}, MaxStarts <- 2, MaxLinks <- 2

ASSUME Simulation!SimAssumption

simVars == <<made, up, run, client, gen, watch, conn, link, wants, links, seen, mixed, call>>

\* A simulation has no blocks; the chains stay as two miners begin.
MCInit ==
    /\ part \in {"sync", "simulation"} /\ Init /\ Simulation!Init
    /\ part = "simulation" => setup = Setup(Ring, Height(2, 2, 0), {A, B}, 3, 0)

MCNext ==
    \/ part = "sync" /\ Next /\ UNCHANGED <<part, simVars>>
    \/ part = "simulation" /\ Simulation!Next /\ UNCHANGED <<part, vars>>

MCSpec ==
    /\ MCInit /\ [][MCNext]_<<part, vars, simVars>>
    /\ \A n, p \in Nodes : WF_vars(part = "sync" /\ Handle(n, p))

\* network.go: what the network says of its nodes and connections is so, with
\* watchers that lag behind and two callers.
SimulationSound == Simulation!SimulationSound
=============================================================================
