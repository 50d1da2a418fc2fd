------------------------------- MODULE PQueue -------------------------------
(***************************************************************************)
(* Package boltqueue: a priority queue in a Bolt file.  A priority is a    *)
(* bucket, a message is an entry of its bucket under an 8-byte big-endian  *)
(* key, so a bucket is ordered by the number its keys encode.  The keys    *)
(* come from atomicKey.Get, which reads the wall clock.                    *)
(*                                                                         *)
(* Enqueue is two steps, because the key is drawn under atomicKey's mutex  *)
(* and the entry is written later by a Bolt transaction: another           *)
(* goroutine's whole Enqueue or Dequeue fits in between.  A message is     *)
(* represented by its ticket, the number of the aKey.Get call that gave    *)
(* it its key.                                                             *)
(***************************************************************************)
EXTENDS Integers, FiniteSets

CONSTANTS
    Producers,        \* goroutines that call Enqueue
    Priorities,       \* the priorities in use
    MaxEnqueues,      \* bound: Enqueue calls
    MaxRestarts,      \* bound: process restarts
    ClockRange,       \* how far apart two readings of the clock may be
    ClockRunsAhead    \* TRUE: a restarted process never reads a time at or
                      \* before a key its predecessors have used

ASSUME PrioritiesAssumption == Priorities \subseteq 0..255
ASSUME BoundsAssumption == /\ MaxEnqueues \in Nat
                           /\ MaxRestarts \in Nat
                           /\ ClockRange \in Nat
                           /\ ClockRunsAhead \in BOOLEAN

VARIABLES
    buckets,     \* priority -> set of entries [key, ticket] in the Bolt file
    aKey,        \* atomicKey.key, the last key this process handed out
    drawn,       \* Enqueue calls between aKey.Get and the Bolt transaction
    held,        \* messages Dequeue has returned to this process
    tickets,     \* number of keys drawn so far, over all processes
    written,     \* history: the tickets whose Enqueue has returned
    delivered,   \* history: the tickets some Dequeue has returned
    lastUsed,    \* history: the largest key ever drawn
    clockFloor,  \* the clock of this process reads at least this
    restarts

vars == <<buckets, aKey, drawn, held, tickets, written, delivered,
          lastUsed, clockFloor, restarts>>

Entry == [key : 1..lastUsed, ticket : written]

\* Every key in the file or in memory is one that atomicKey.Get handed out,
\* and every message one that some Enqueue took in.
TypeOK ==
    /\ buckets \in [Priorities -> SUBSET Entry]
    /\ aKey \in 0..lastUsed
    /\ drawn \subseteq [producer : Producers, priority : Priorities,
                        key : 1..lastUsed, ticket : 1..tickets]
    /\ held \subseteq [priority : 0..255, bucket : Priorities,
                       key : 1..lastUsed, ticket : delivered]
    /\ tickets \in 0..MaxEnqueues
    /\ written \subseteq 1..tickets
    /\ delivered \subseteq written
    /\ lastUsed \in Nat
    /\ clockFloor \in Nat \ {0}
    /\ restarts \in 0..MaxRestarts

Init ==
    /\ buckets = [p \in Priorities |-> {}]
    /\ aKey = 0
    /\ drawn = {}
    /\ held = {}
    /\ tickets = 0
    /\ written = {}
    /\ delivered = {}
    /\ lastUsed = 0
    /\ clockFloor = 1
    /\ restarts = 0

-----------------------------------------------------------------------------
\* Mutants of Get: a reading equal to the last key is handed out again; the
\* last key is ignored; the time is counted from the start of the process.
GetReusesEqual(t) == IF t < aKey THEN aKey + 1 ELSE t

GetIgnoresLast(t) == t

GetSinceStart(t) == IF t <= aKey THEN aKey + 1 ELSE t - clockFloor

\* atomicKey.Get: the time, or one more than the last key if the clock has
\* not moved past it.
Get(t) == IF t <= aKey THEN aKey + 1 ELSE t

\* bucket.Put: an entry replaces the one under the same key.
BucketPut(bucket, k, tk) ==
    {e \in bucket : e.key # k} \cup {[key |-> k, ticket |-> tk]}

\* binary.Uvarint on a bucket name of one byte: a byte with the top bit set
\* announces a second byte that is not there, and the result is then 0.
Uvarint(b) == IF b < 128 THEN b ELSE 0

-----------------------------------------------------------------------------
\* Enqueue, first half: PutUint64(k, aKey.Get()).
Enqueue(g, p) ==
    /\ tickets < MaxEnqueues
    /\ \A d \in drawn : d.producer # g
    /\ \E t \in clockFloor .. clockFloor + ClockRange :
         /\ aKey' = Get(t)
         /\ drawn' = drawn \cup {[producer |-> g, priority |-> p,
                                  key |-> Get(t), ticket |-> tickets + 1]}
         /\ lastUsed' = IF Get(t) > lastUsed THEN Get(t) ELSE lastUsed
    /\ tickets' = tickets + 1
    /\ UNCHANGED <<buckets, held, written, delivered, clockFloor, restarts>>

\* Enqueue, second half: the Bolt transaction of enqueueMessage.
EnqueueMessage(d) ==
    /\ drawn' = drawn \ {d}
    /\ buckets' = [buckets EXCEPT ![d.priority] = BucketPut(@, d.key, d.ticket)]
    /\ written' = written \cup {d.ticket}
    /\ UNCHANGED <<aKey, held, tickets, delivered, lastUsed, clockFloor, restarts>>

\* Requeue of a message that Dequeue returned; the caller keeps its pointer.
Requeue(p, m) ==
    /\ buckets' = [buckets EXCEPT ![p] = BucketPut(@, m.key, m.ticket)]
    /\ UNCHANGED <<aKey, drawn, held, tickets, written, delivered, lastUsed,
                   clockFloor, restarts>>

\* Mutant of FirstBucket: any bucket that holds a message will do.
AnyBucket(p) == buckets[p] # {}

\* The bucket ForEach reaches first that is not empty, and its first entry.
FirstBucket(p) ==
    /\ buckets[p] # {}
    /\ \A q \in Priorities : q < p => buckets[q] = {}

FirstEntry(p, e) == \A f \in buckets[p] : e.key <= f.key

\* Dequeue; on an empty queue it returns nil and changes nothing.
Dequeue(p, e) ==
    /\ FirstBucket(p)
    /\ FirstEntry(p, e)
    /\ buckets' = [buckets EXCEPT ![p] = @ \ {e}]
    /\ held' = held \cup {[priority |-> Uvarint(p), bucket |-> p,
                           key |-> e.key, ticket |-> e.ticket]}
    /\ delivered' = delivered \cup {e.ticket}
    /\ UNCHANGED <<aKey, drawn, tickets, written, lastUsed, clockFloor, restarts>>

\* The process ends, or dies, and another one opens the file: NewPQueue finds
\* the buckets, and a fresh atomicKey that knows none of the keys in them.
Restart ==
    /\ restarts < MaxRestarts
    /\ restarts' = restarts + 1
    /\ aKey' = 0
    /\ drawn' = {}
    /\ held' = {}
    /\ clockFloor' = IF ClockRunsAhead THEN lastUsed + 1 ELSE 1
    /\ UNCHANGED <<buckets, tickets, written, delivered, lastUsed>>

Next ==
    \/ \E g \in Producers, p \in Priorities : Enqueue(g, p)
    \/ \E d \in drawn : EnqueueMessage(d)
    \/ \E p \in Priorities : \E m \in held : Requeue(p, m)
    \/ \E p \in Priorities : \E e \in buckets[p] : Dequeue(p, e)
    \/ Restart

Spec == Init /\ [][Next]_vars
-----------------------------------------------------------------------------
\* The messages that exist: in the file, drawn, or held by the process.
AllMessages(file, calls, memory) ==
    (UNION {file[p] : p \in Priorities})
        \cup {[key |-> d.key, ticket |-> d.ticket] : d \in calls}
        \cup {[key |-> m.key, ticket |-> m.ticket] : m \in memory}

Located == AllMessages(buckets, drawn, held)

\* Keys order messages as their Enqueue calls did, whatever the clock reads
\* (atomicKey.Get, atomickey.go:13), across goroutines and restarts.
KeysFollowTickets ==
    \A a, b \in Located : (a.ticket < b.ticket) <=> (a.key < b.key)

\* No message is lost in the file: one whose Enqueue has returned waits in a
\* bucket until a Dequeue returns it (bucket.Put overwrites, pqueue.go:46).
NothingLost ==
    \A t \in written \ delivered :
        \E p \in Priorities : \E e \in buckets[p] : e.ticket = t

Abstract == INSTANCE PriorityFifo WITH
    issued <- tickets,
    entering <- {<<d.priority, d.ticket>> : d \in drawn},
    waiting <- [p \in Priorities |-> {e.ticket : e \in buckets[p]}],
    taken <- {m.ticket : m \in held}

\* boltqueue implements the queue its documentation describes: oldest message
\* of the highest priority first, Requeue keeps precedence (pqueue.go:61-71).
ImplementsFifo == Abstract!Spec
=============================================================================
