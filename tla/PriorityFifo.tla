---------------------------- MODULE PriorityFifo ----------------------------
(***************************************************************************)
(* What package boltqueue promises (src/boltqueue/README.md): messages     *)
(* leave in priority order, 0 first, and among the messages of a priority  *)
(* in the order in which Enqueue took them in; a message that is put back  *)
(* keeps the precedence of its first arrival.                              *)
(*                                                                         *)
(* There is no clock and there are no keys here: a message is its ticket,  *)
(* the number of its arrival.                                              *)
(***************************************************************************)
EXTENDS Integers

CONSTANT Priorities

VARIABLES
    issued,     \* number of tickets handed out
    entering,   \* <<priority, ticket>> of the Enqueue calls that are under way
    waiting,    \* the tickets waiting at each priority
    taken       \* the tickets the running process has taken out

fifoVars == <<issued, entering, waiting, taken>>

Init ==
    /\ issued = 0
    /\ entering = {}
    /\ waiting = [p \in Priorities |-> {}]
    /\ taken = {}

Issue(p) ==
    /\ issued' = issued + 1
    /\ entering' = entering \cup {<<p, issued + 1>>}
    /\ UNCHANGED <<waiting, taken>>

Enter(p, t) ==
    /\ <<p, t>> \in entering
    /\ entering' = entering \ {<<p, t>>}
    /\ waiting' = [waiting EXCEPT ![p] = @ \cup {t}]
    /\ UNCHANGED <<issued, taken>>

Take(p, t) ==
    /\ t \in waiting[p]
    /\ \A q \in Priorities : q < p => waiting[q] = {}
    /\ \A u \in waiting[p] : t <= u
    /\ waiting' = [waiting EXCEPT ![p] = @ \ {t}]
    /\ taken' = taken \cup {t}
    /\ UNCHANGED <<issued, entering>>

PutBack(p, t) ==
    /\ t \in taken
    /\ waiting' = [waiting EXCEPT ![p] = @ \cup {t}]
    /\ UNCHANGED <<issued, entering, taken>>

\* The process dies: what it had taken, or was about to enter, is gone; what
\* waits is on disk and stays.
Crash ==
    /\ entering' = {}
    /\ taken' = {}
    /\ UNCHANGED <<issued, waiting>>

Next ==
    \/ \E p \in Priorities : Issue(p)
    \/ \E p \in Priorities, t \in 1..issued :
           Enter(p, t) \/ Take(p, t) \/ PutBack(p, t)
    \/ Crash

Spec == Init /\ [][Next]_fifoVars
=============================================================================
