---------------------------- MODULE PQueueProof ----------------------------
(***************************************************************************)
(* Proofs about PQueue for any number of producers, any priorities, any    *)
(* number of Enqueue calls and restarts and any spread of clock readings.  *)
(***************************************************************************)
EXTENDS PQueue, TLAPS

LEMMA GetAboveLast ==
    ASSUME NEW t \in Nat, aKey \in Nat
    PROVE  Get(t) \in Nat /\ Get(t) > aKey /\ Get(t) >= t
BY DEF Get

LEMMA BucketPutType ==
    ASSUME NEW K, NEW T, NEW b \in SUBSET [key : K, ticket : T],
           NEW k \in K, NEW tk \in T
    PROVE  BucketPut(b, k, tk) \in SUBSET [key : K, ticket : T]
BY DEF BucketPut

LEMMA TypeInit == Init => TypeOK
BY BoundsAssumption DEF Init, TypeOK, Entry

LEMMA TypeStep == TypeOK /\ [Next]_vars => TypeOK'
<1> SUFFICES ASSUME TypeOK, [Next]_vars PROVE TypeOK'
  OBVIOUS
<1> USE BoundsAssumption, PrioritiesAssumption
<1>1. ASSUME NEW g \in Producers, NEW p \in Priorities, Enqueue(g, p)
      PROVE  TypeOK'
  <2>1. PICK t \in clockFloor .. clockFloor + ClockRange :
          /\ aKey' = Get(t)
          /\ drawn' = drawn \cup {[producer |-> g, priority |-> p,
                                   key |-> Get(t), ticket |-> tickets + 1]}
          /\ lastUsed' = IF Get(t) > lastUsed THEN Get(t) ELSE lastUsed
    BY <1>1 DEF Enqueue
  <2>2. t \in Nat /\ Get(t) \in 1..lastUsed'
    BY <2>1, GetAboveLast DEF TypeOK
  <2>3. lastUsed' \in Nat /\ lastUsed <= lastUsed'
    BY <2>1, <2>2 DEF TypeOK
  <2>4. tickets' = tickets + 1 /\ tickets' \in 0..MaxEnqueues
    BY <1>1 DEF Enqueue, TypeOK
  <2>5. drawn' \subseteq [producer : Producers, priority : Priorities,
                          key : 1..lastUsed', ticket : 1..tickets']
    BY <2>1, <2>2, <2>3, <2>4 DEF TypeOK
  <2>6. UNCHANGED <<buckets, held, written, delivered, clockFloor, restarts>>
    BY <1>1 DEF Enqueue
  <2>7. buckets' \in [Priorities -> SUBSET Entry'] /\ aKey' \in 0..lastUsed'
    BY <2>1, <2>2, <2>3, <2>6 DEF TypeOK, Entry
  <2>8. held' \subseteq [priority : 0..255, bucket : Priorities,
                         key : 1..lastUsed', ticket : delivered']
    BY <2>3, <2>6 DEF TypeOK
  <2>9. written' \subseteq 1..tickets' /\ delivered' \subseteq written'
    BY <2>4, <2>6 DEF TypeOK
  <2>10. clockFloor' \in Nat \ {0} /\ restarts' \in 0..MaxRestarts
    BY <2>6 DEF TypeOK
  <2> QED
    BY <2>3, <2>4, <2>5, <2>7, <2>8, <2>9, <2>10 DEF TypeOK
<1>2. ASSUME NEW d \in drawn, EnqueueMessage(d)
      PROVE  TypeOK'
  <2>1. /\ d.priority \in Priorities /\ d.key \in 1..lastUsed
        /\ d.ticket \in 1..tickets
    BY DEF TypeOK
  <2>5. written' = written \cup {d.ticket}
    BY <1>2 DEF EnqueueMessage
  <2>6. /\ d.ticket \in written' /\ written \subseteq written'
        /\ written' \subseteq 1..tickets
    <3>1. written \subseteq 1..tickets
      BY DEF TypeOK
    <3> DEFINE numbers == 1..tickets
    <3>2. d.ticket \in numbers /\ written \subseteq numbers
      BY <2>1, <3>1, Zenon
    <3> HIDE DEF numbers
    <3>3. written' \subseteq numbers
      BY <2>5, <3>2
    <3> QED
      BY <2>5, <3>3 DEF numbers
  <2>2. buckets \in [Priorities -> SUBSET Entry']
    BY <1>2, <2>6 DEF EnqueueMessage, TypeOK, Entry
  <2>3. BucketPut(buckets[d.priority], d.key, d.ticket) \in SUBSET Entry'
    BY <1>2, <2>1, <2>2, <2>6, BucketPutType DEF EnqueueMessage, Entry
  <2>4. buckets' \in [Priorities -> SUBSET Entry']
    BY <1>2, <2>1, <2>2, <2>3 DEF EnqueueMessage
  <2> QED
    BY <1>2, <2>4, <2>6 DEF EnqueueMessage, TypeOK
<1>3. ASSUME NEW p \in Priorities, NEW m \in held, Requeue(p, m)
      PROVE  TypeOK'
  <2>2. m.key \in 1..lastUsed /\ m.ticket \in written
    BY DEF TypeOK
  <2>3. BucketPut(buckets[p], m.key, m.ticket) \in SUBSET Entry
    BY <2>2, BucketPutType DEF TypeOK, Entry
  <2>1. buckets' \in [Priorities -> SUBSET Entry']
    BY <1>3, <2>3 DEF Requeue, TypeOK, Entry
  <2> QED
    BY <1>3, <2>1 DEF Requeue, TypeOK
<1>4. ASSUME NEW p \in Priorities, NEW e \in buckets[p], Dequeue(p, e)
      PROVE  TypeOK'
  <2>1. Uvarint(p) \in 0..255
    BY DEF Uvarint
  <2>2. buckets' \in [Priorities -> SUBSET Entry']
    BY <1>4 DEF Dequeue, TypeOK, Entry
  <2>3. e.key \in 1..lastUsed /\ e.ticket \in written
    BY DEF TypeOK, Entry
  <2>4. held' \subseteq [priority : 0..255, bucket : Priorities,
                         key : 1..lastUsed', ticket : delivered']
    BY <1>4, <2>1, <2>3 DEF Dequeue, TypeOK
  <2>5. delivered' \subseteq written'
    BY <1>4, <2>3 DEF Dequeue, TypeOK
  <2>6. UNCHANGED <<aKey, drawn, tickets, written, lastUsed, clockFloor, restarts>>
    BY <1>4 DEF Dequeue
  <2> QED
    BY <2>2, <2>4, <2>5, <2>6 DEF TypeOK
<1>5. CASE Restart
  BY <1>5 DEF Restart, TypeOK, Entry
<1>6. CASE UNCHANGED vars
  BY <1>6 DEF vars, TypeOK, Entry
<1> QED
  BY <1>1, <1>2, <1>3, <1>4, <1>5, <1>6 DEF Next

\* Every key in the file and in memory was handed out by atomicKey.Get, every
\* message there was taken in by an Enqueue, and what was delivered had been
\* written (enqueueMessage, Dequeue).
THEOREM TypeCorrect == Spec => []TypeOK
<1>1. TypeOK /\ [Next]_vars => TypeOK'
  BY TypeStep
<1> QED
  BY TypeInit, <1>1, PTL DEF Spec

-----------------------------------------------------------------------------
(***************************************************************************)
(* Keys follow tickets.  The invariant alone is not inductive: a new key   *)
(* must lie above every key already in the file.  This process's aKey      *)
(* gives that once it has drawn a key; before its first one, the clock     *)
(* does (ClockRunsAhead), and that is the only place the clock matters.    *)
(***************************************************************************)
NewKeysAreLargest == aKey = lastUsed \/ lastUsed < clockFloor

DrawnOnce == \A d, f \in drawn : d.ticket = f.ticket => d = f

KeyInv == TypeOK /\ KeysFollowTickets /\ NewKeysAreLargest /\ DrawnOnce

LEMMA AllMessagesMember ==
    ASSUME NEW file, NEW calls, NEW memory, NEW x
    PROVE  x \in AllMessages(file, calls, memory) <=>
             \/ \E p \in Priorities : x \in file[p]
             \/ \E d \in calls : x = [key |-> d.key, ticket |-> d.ticket]
             \/ \E m \in memory : x = [key |-> m.key, ticket |-> m.ticket]
<1> DEFINE A == UNION {file[p] : p \in Priorities}
           B == {[key |-> d.key, ticket |-> d.ticket] : d \in calls}
           C == {[key |-> m.key, ticket |-> m.ticket] : m \in memory}
<1>1. x \in A <=> \E p \in Priorities : x \in file[p]
  BY Zenon
<1>2. x \in B <=> \E d \in calls : x = [key |-> d.key, ticket |-> d.ticket]
  BY Zenon
<1>3. x \in C <=> \E m \in memory : x = [key |-> m.key, ticket |-> m.ticket]
  BY Zenon
<1>4. AllMessages(file, calls, memory) = (A \cup B) \cup C
  BY Zenon DEF AllMessages
<1> HIDE DEF A, B, C
<1> QED
  BY <1>1, <1>2, <1>3, <1>4, Zenon

\* What a step adds to the file, to the calls under way and to memory bounds
\* what it adds to the messages that exist.
LEMMA AllMessagesGrow ==
    ASSUME NEW f1, NEW c1, NEW m1, NEW f2, NEW c2, NEW m2, NEW E,
           \A p \in Priorities : \A x \in f2[p] : x \in f1[p] \/ x \in E,
           \A d \in c2 : d \in c1 \/ [key |-> d.key, ticket |-> d.ticket] \in E,
           \A m \in m2 : m \in m1 \/ [key |-> m.key, ticket |-> m.ticket] \in E
    PROVE  AllMessages(f2, c2, m2) \subseteq AllMessages(f1, c1, m1) \cup E
<1> SUFFICES ASSUME NEW x \in AllMessages(f2, c2, m2), x \notin E
             PROVE  x \in AllMessages(f1, c1, m1)
  BY Zenon
<1>1. CASE \E p \in Priorities : x \in f2[p]
  <2>1. \E p \in Priorities : x \in f1[p]
    BY <1>1, Zenon
  <2> QED
    BY <2>1, AllMessagesMember, Zenon
<1>2. CASE \E d \in c2 : x = [key |-> d.key, ticket |-> d.ticket]
  <2>1. \E d \in c1 : x = [key |-> d.key, ticket |-> d.ticket]
    BY <1>2, Zenon
  <2> QED
    BY <2>1, AllMessagesMember, Zenon
<1>3. CASE \E m \in m2 : x = [key |-> m.key, ticket |-> m.ticket]
  <2>1. \E m \in m1 : x = [key |-> m.key, ticket |-> m.ticket]
    BY <1>3, Zenon
  <2> QED
    BY <2>1, AllMessagesMember, Zenon
<1> QED
  <2>1. \/ \E p \in Priorities : x \in f2[p]
        \/ \E d \in c2 : x = [key |-> d.key, ticket |-> d.ticket]
        \/ \E m \in m2 : x = [key |-> m.key, ticket |-> m.ticket]
    BY AllMessagesMember
  <2> QED
    BY <1>1, <1>2, <1>3, <2>1, Zenon

LEMMA LocatedType ==
    ASSUME TypeOK
    PROVE  Located \subseteq [key : 1..lastUsed, ticket : 1..tickets]
<1> SUFFICES ASSUME NEW x \in Located
             PROVE  x \in [key : 1..lastUsed, ticket : 1..tickets]
  OBVIOUS
<1>0. written \subseteq 1..tickets /\ delivered \subseteq 1..tickets
  BY DEF TypeOK
<1>1. ASSUME NEW p \in Priorities, x \in buckets[p]
      PROVE  x \in [key : 1..lastUsed, ticket : 1..tickets]
  <2>1. x \in [key : 1..lastUsed, ticket : written]
    BY <1>1 DEF TypeOK, Entry
  <2> QED
    BY <1>0, <2>1
<1>2. ASSUME NEW d \in drawn, x = [key |-> d.key, ticket |-> d.ticket]
      PROVE  x \in [key : 1..lastUsed, ticket : 1..tickets]
  BY <1>2 DEF TypeOK
<1>3. ASSUME NEW m \in held, x = [key |-> m.key, ticket |-> m.ticket]
      PROVE  x \in [key : 1..lastUsed, ticket : 1..tickets]
  BY <1>0, <1>3 DEF TypeOK
<1> QED
  BY <1>1, <1>2, <1>3, AllMessagesMember DEF Located

\* Nothing but drawing a key adds to Located.
LEMMA ShrinkPreserves ==
    ASSUME KeysFollowTickets, Located' \subseteq Located
    PROVE  KeysFollowTickets'
BY DEF KeysFollowTickets

LEMMA BucketPutMember ==
    ASSUME NEW b, NEW k, NEW tk, NEW e \in BucketPut(b, k, tk)
    PROVE  e \in b \/ e = [key |-> k, ticket |-> tk]
BY DEF BucketPut

LEMMA KeyStep ==
    ASSUME ClockRunsAhead = TRUE, KeyInv, [Next]_vars
    PROVE  KeyInv'
<1> USE BoundsAssumption DEF KeyInv
<1>0. TypeOK'
  BY TypeStep
<1>a. aKey \in Nat /\ lastUsed \in Nat /\ tickets \in Nat /\ aKey <= lastUsed
      /\ clockFloor \in Nat
  BY DEF TypeOK
<1>1. ASSUME NEW g \in Producers, NEW p \in Priorities, Enqueue(g, p)
      PROVE  KeyInv'
  <2>1. PICK t \in clockFloor .. clockFloor + ClockRange :
          /\ aKey' = Get(t)
          /\ drawn' = drawn \cup {[producer |-> g, priority |-> p,
                                   key |-> Get(t), ticket |-> tickets + 1]}
          /\ lastUsed' = IF Get(t) > lastUsed THEN Get(t) ELSE lastUsed
    BY <1>1 DEF Enqueue
  <2>2. t \in Nat /\ Get(t) \in Nat /\ Get(t) > aKey /\ Get(t) >= t /\ t >= clockFloor
    BY <1>a, GetAboveLast
  <2>3. Get(t) > lastUsed /\ aKey' = lastUsed'
    BY <1>a, <2>1, <2>2 DEF NewKeysAreLargest
  <2> DEFINE new == [key |-> Get(t), ticket |-> tickets + 1]
  <2>4. Located' \subseteq Located \cup {new}
    <3>1. buckets' = buckets /\ held' = held
      BY <1>1 DEF Enqueue
    <3>2. \A d \in drawn' : d \in drawn
                            \/ [key |-> d.key, ticket |-> d.ticket] \in {new}
      BY <2>1
    <3> HIDE DEF new
    <3> QED
      BY <3>1, <3>2, AllMessagesGrow, Zenon DEF Located
  <2>5. \A a \in Located : a.key \in Nat /\ a.ticket \in Nat
                          /\ a.key < new.key /\ a.ticket < new.ticket
    BY <1>a, <2>2, <2>3, LocatedType
  <2>6. KeysFollowTickets'
    <3> SUFFICES ASSUME NEW a \in Located', NEW b \in Located'
                 PROVE  (a.ticket < b.ticket) <=> (a.key < b.key)
      BY DEF KeysFollowTickets
    <3>1. CASE a \in Located /\ b \in Located
      BY <3>1 DEF KeysFollowTickets
    <3>2. CASE a \in Located /\ b = new
      BY <3>2, <2>5
    <3>3. CASE a = new /\ b \in Located
      BY <3>3, <2>5, <2>2, <1>a
    <3>4. CASE a = new /\ b = new
      BY <3>4, <2>2, <1>a
    <3> QED
      BY <2>4, <3>1, <3>2, <3>3, <3>4
  <2>7. DrawnOnce'
    <3>1. \A d \in drawn : d.ticket \in 1..tickets
      BY DEF TypeOK
    <3> QED
      BY <1>a, <2>1, <3>1 DEF DrawnOnce
  <2> QED
    BY <1>0, <2>3, <2>6, <2>7 DEF NewKeysAreLargest
<1>2. ASSUME NEW d \in drawn, EnqueueMessage(d)
      PROVE  KeyInv'
  <2> DEFINE e == [key |-> d.key, ticket |-> d.ticket]
  <2>1. e \in Located /\ d.priority \in Priorities
    BY AllMessagesMember DEF Located, TypeOK
  <2>2. \A q \in Priorities : \A f \in buckets'[q] : f \in buckets[q] \/ f \in {e}
    BY <1>2, <2>1, BucketPutMember DEF EnqueueMessage, TypeOK
  <2>3. Located' \subseteq Located
    <3>1. drawn' \subseteq drawn /\ held' = held
      BY <1>2 DEF EnqueueMessage
    <3>2. Located' \subseteq Located \cup {e}
      <4> HIDE DEF e
      <4> QED
        BY <2>2, <3>1, AllMessagesGrow, Zenon DEF Located
    <3> QED
      BY <2>1, <3>2
  <2> QED
    BY <1>0, <1>2, <2>3, ShrinkPreserves
       DEF EnqueueMessage, NewKeysAreLargest, DrawnOnce
<1>3. ASSUME NEW p \in Priorities, NEW m \in held, Requeue(p, m)
      PROVE  KeyInv'
  <2> DEFINE e == [key |-> m.key, ticket |-> m.ticket]
  <2>1. e \in Located
    BY AllMessagesMember DEF Located
  <2>2. \A q \in Priorities : \A f \in buckets'[q] : f \in buckets[q] \/ f \in {e}
    BY <1>3, BucketPutMember DEF Requeue, TypeOK
  <2>3. Located' \subseteq Located
    <3>1. drawn' = drawn /\ held' = held
      BY <1>3 DEF Requeue
    <3>2. Located' \subseteq Located \cup {e}
      <4> HIDE DEF e
      <4> QED
        BY <2>2, <3>1, AllMessagesGrow, Zenon DEF Located
    <3> QED
      BY <2>1, <3>2
  <2> QED
    BY <1>0, <1>3, <2>3, ShrinkPreserves
       DEF Requeue, NewKeysAreLargest, DrawnOnce
<1>4. ASSUME NEW p \in Priorities, NEW e \in buckets[p], Dequeue(p, e)
      PROVE  KeyInv'
  <2>1. \A q \in Priorities : buckets'[q] \subseteq buckets[q]
    BY <1>4 DEF Dequeue, TypeOK
  <2>2. e = [key |-> e.key, ticket |-> e.ticket] /\ e \in Located
    BY AllMessagesMember DEF TypeOK, Entry, Located
  <2>3. \A m \in held' : m \in held \/ [key |-> m.key, ticket |-> m.ticket] \in {e}
    BY <1>4, <2>2 DEF Dequeue
  <2>4. Located' \subseteq Located
    <3>1. drawn' = drawn
      BY <1>4 DEF Dequeue
    <3>2. \A q \in Priorities : \A f \in buckets'[q] : f \in buckets[q] \/ f \in {e}
      BY <2>1, Zenon
    <3>3. Located' \subseteq Located \cup {e}
      BY <2>3, <3>1, <3>2, AllMessagesGrow, Zenon DEF Located
    <3> QED
      BY <2>2, <3>3
  <2> QED
    BY <1>0, <1>4, <2>4, ShrinkPreserves
       DEF Dequeue, NewKeysAreLargest, DrawnOnce
<1>5. CASE Restart
  <2>0. buckets' = buckets /\ drawn' = {} /\ held' = {}
    BY <1>5 DEF Restart
  <2>3. Located' \subseteq Located \cup {}
    BY <2>0, AllMessagesGrow, Zenon DEF Located
  <2>1. Located' \subseteq Located /\ DrawnOnce'
    BY <2>0, <2>3 DEF DrawnOnce
  <2>2. clockFloor' = lastUsed + 1 /\ lastUsed' = lastUsed
    BY <1>5 DEF Restart
  <2> QED
    BY <1>0, <1>a, <2>1, <2>2, ShrinkPreserves DEF NewKeysAreLargest
<1>6. CASE UNCHANGED vars
  <2>1. Located' = Located
    BY <1>6 DEF vars, Located
  <2> QED
    BY <1>0, <1>6, <2>1, ShrinkPreserves DEF vars, NewKeysAreLargest, DrawnOnce
<1> QED
  BY <1>1, <1>2, <1>3, <1>4, <1>5, <1>6 DEF Next

LEMMA KeyInvariant ==
    ASSUME ClockRunsAhead = TRUE
    PROVE  Spec => []KeyInv
<1>1. Init => KeyInv
  <2> SUFFICES ASSUME Init PROVE KeyInv
    OBVIOUS
  <2>1. \A x : x \notin Located
    BY AllMessagesMember DEF Init, Located
  <2> QED
    BY <2>1, TypeInit DEF Init, KeyInv, KeysFollowTickets, NewKeysAreLargest,
                          DrawnOnce
<1>2. KeyInv /\ [Next]_vars => KeyInv'
  BY KeyStep
<1> QED
  BY <1>1, <1>2, PTL DEF Spec

\* Keys order messages as their Enqueue calls did, whatever the clock reads
\* while a process runs, if no restarted process reads a time at or before
\* a key already used (atomicKey.Get).
THEOREM KeysOrdered ==
    ASSUME ClockRunsAhead = TRUE
    PROVE  Spec => []KeysFollowTickets
<1>1. KeyInv => KeysFollowTickets
  BY DEF KeyInv
<1> QED
  BY KeyInvariant, <1>1, PTL

-----------------------------------------------------------------------------
(***************************************************************************)
(* Two messages under one key are one message, so the entry a Put replaces *)
(* is the very message it writes.                                          *)
(***************************************************************************)
LEMMA SameKeySameMessage ==
    ASSUME KeyInv, NEW a \in Located, NEW b \in Located,
           a.key = b.key \/ a.ticket = b.ticket
    PROVE  a = b
<1>1. /\ a \in [key : 1..lastUsed, ticket : 1..tickets]
      /\ b \in [key : 1..lastUsed, ticket : 1..tickets]
      /\ lastUsed \in Nat /\ tickets \in Nat
  BY LocatedType, BoundsAssumption DEF KeyInv, TypeOK
<1>2. ((a.ticket < b.ticket) <=> (a.key < b.key)) /\ ((b.ticket < a.ticket) <=> (b.key < a.key))
  BY DEF KeyInv, KeysFollowTickets
<1>3. a.key = b.key /\ a.ticket = b.ticket
  BY <1>1, <1>2
<1> QED
  BY <1>1, <1>3

\* The tickets in a bucket after a Put of a message that is located somewhere.
LEMMA PutAddsTicket ==
    ASSUME KeyInv, NEW p \in Priorities, NEW k, NEW tk,
           [key |-> k, ticket |-> tk] \in Located
    PROVE  {e.ticket : e \in BucketPut(buckets[p], k, tk)}
             = {e.ticket : e \in buckets[p]} \cup {tk}
<1> DEFINE new == [key |-> k, ticket |-> tk]
<1>1. \A e \in buckets[p] : e.key = k => e.ticket = tk
  <2> SUFFICES ASSUME NEW e \in buckets[p], e.key = new.key
               PROVE  e.ticket = new.ticket
    OBVIOUS
  <2>1. e \in Located
    BY AllMessagesMember DEF Located
  <2> QED
    BY <2>1, SameKeySameMessage
<1>2. BucketPut(buckets[p], k, tk) = {e \in buckets[p] : e.key # k} \cup {new}
  BY DEF BucketPut
<1>3. new.ticket = tk
  OBVIOUS
<1> HIDE DEF new
<1> QED
  BY <1>1, <1>2, <1>3

Tickets(b) == {e.ticket : e \in b}

LEMMA TicketsMember ==
    ASSUME NEW b, NEW t
    PROVE  t \in Tickets(b) <=> \E e \in b : e.ticket = t
BY Zenon DEF Tickets

LEMMA LostStep ==
    ASSUME ClockRunsAhead = TRUE, KeyInv, NothingLost, [Next]_vars
    PROVE  NothingLost'
<1>0. \A t \in written \ delivered : \E q \in Priorities : t \in Tickets(buckets[q])
  BY TicketsMember, Zenon DEF NothingLost
<1>1. ASSUME NEW g \in Producers, NEW p \in Priorities, Enqueue(g, p)
      PROVE  NothingLost'
  BY <1>1 DEF Enqueue, NothingLost
<1>2. ASSUME NEW d \in drawn, EnqueueMessage(d)
      PROVE  NothingLost'
  <2>1. d.priority \in Priorities /\ [key |-> d.key, ticket |-> d.ticket] \in Located
    BY AllMessagesMember DEF Located, KeyInv, TypeOK
  <2>2. Tickets(buckets'[d.priority]) = Tickets(buckets[d.priority]) \cup {d.ticket}
    BY <1>2, <2>1, PutAddsTicket DEF EnqueueMessage, KeyInv, TypeOK, Tickets
  <2>3. \A q \in Priorities : Tickets(buckets[q]) \subseteq Tickets(buckets'[q])
    BY <1>2, <2>2 DEF EnqueueMessage, KeyInv, TypeOK
  <2>4. ASSUME NEW t \in written' \ delivered'
        PROVE  \E p \in Priorities : t \in Tickets(buckets'[p])
    <3>1. CASE t = d.ticket
      BY <2>1, <2>2, <3>1
    <3>2. CASE t \in written \ delivered
      BY <1>0, <2>3, <3>2
    <3> QED
      BY <1>2, <3>1, <3>2 DEF EnqueueMessage
  <2> QED
    BY <2>4, TicketsMember DEF NothingLost
<1>3. ASSUME NEW p \in Priorities, NEW m \in held, Requeue(p, m)
      PROVE  NothingLost'
  <2>1. [key |-> m.key, ticket |-> m.ticket] \in Located
    BY AllMessagesMember DEF Located
  <2>2. Tickets(buckets'[p]) = Tickets(buckets[p]) \cup {m.ticket}
    BY <1>3, <2>1, PutAddsTicket DEF Requeue, KeyInv, TypeOK, Tickets
  <2>3. \A q \in Priorities : Tickets(buckets[q]) \subseteq Tickets(buckets'[q])
    BY <1>3, <2>2 DEF Requeue, KeyInv, TypeOK
  <2>4. ASSUME NEW t \in written' \ delivered'
        PROVE  \E q \in Priorities : t \in Tickets(buckets'[q])
    BY <1>0, <1>3, <2>3 DEF Requeue
  <2> QED
    BY <2>4, TicketsMember DEF NothingLost
<1>4. ASSUME NEW p \in Priorities, NEW e \in buckets[p], Dequeue(p, e)
      PROVE  NothingLost'
  <2> SUFFICES ASSUME NEW t \in written' \ delivered'
               PROVE  \E q \in Priorities : \E f \in buckets'[q] : f.ticket = t
    BY DEF NothingLost
  <2>1. t \in written \ delivered /\ t # e.ticket
    BY <1>4 DEF Dequeue
  <2>2. PICK q \in Priorities : \E f \in buckets[q] : f.ticket = t
    BY <2>1 DEF NothingLost
  <2>3. PICK f \in buckets[q] : f.ticket = t
    BY <2>2
  <2>4. f \in buckets'[q]
    BY <1>4, <2>1, <2>3 DEF Dequeue, KeyInv, TypeOK
  <2> QED
    BY <2>3, <2>4
<1>5. CASE Restart
  BY <1>5 DEF Restart, NothingLost
<1>6. CASE UNCHANGED vars
  BY <1>6 DEF vars, NothingLost
<1> QED
  BY <1>1, <1>2, <1>3, <1>4, <1>5, <1>6 DEF Next

\* A message whose Enqueue has returned stays in the file until a Dequeue
\* returns it: no bucket.Put ever overwrites another message.
THEOREM NothingIsLost ==
    ASSUME ClockRunsAhead = TRUE
    PROVE  Spec => []NothingLost
<1>1. Init => NothingLost
  BY DEF Init, NothingLost
<1>2. KeyInv /\ NothingLost /\ [Next]_vars => NothingLost'
  BY LostStep
<1> QED
  BY KeyInvariant, <1>1, <1>2, PTL DEF Spec

-----------------------------------------------------------------------------
(***************************************************************************)
(* The refinement: each action is one step of PriorityFifo.                *)
(***************************************************************************)
LEMMA RefineInit == Init => Abstract!Init
<1> SUFFICES ASSUME Init PROVE Abstract!Init
  OBVIOUS
<1>1. {<<d.priority, d.ticket>> : d \in drawn} = {} /\ {m.ticket : m \in held} = {}
  BY DEF Init
<1>2. [p \in Priorities |-> {e.ticket : e \in buckets[p]}] = [p \in Priorities |-> {}]
  BY DEF Init
<1> QED
  BY <1>1, <1>2 DEF Init, Abstract!Init

LEMMA RefineStep ==
    ASSUME KeyInv, [Next]_vars
    PROVE  [Abstract!Next]_(Abstract!fifoVars)
<1> DEFINE entering == {<<d.priority, d.ticket>> : d \in drawn}
           waiting == [p \in Priorities |-> {e.ticket : e \in buckets[p]}]
           taken == {m.ticket : m \in held}
<1>1. ASSUME NEW g \in Producers, NEW p \in Priorities, Enqueue(g, p)
      PROVE  Abstract!Next
  <2>1. PICK t : drawn' = drawn \cup {[producer |-> g, priority |-> p,
                                       key |-> t, ticket |-> tickets + 1]}
    BY <1>1 DEF Enqueue
  <2>2. entering' = entering \cup {<<p, tickets + 1>>}
    <3> DEFINE new == [producer |-> g, priority |-> p, key |-> t, ticket |-> tickets + 1]
    <3>1. drawn' = drawn \cup {new}
      BY <2>1
    <3>2. new.priority = p /\ new.ticket = tickets + 1
      OBVIOUS
    <3> HIDE DEF new
    <3> QED
      BY <3>1, <3>2
  <2>3. waiting' = waiting /\ taken' = taken /\ tickets' = tickets + 1
    BY <1>1 DEF Enqueue
  <2>4. Abstract!Issue(p)
    BY <2>2, <2>3 DEF Abstract!Issue
  <2> QED
    BY <2>4 DEF Abstract!Next
<1>2. ASSUME NEW d \in drawn, EnqueueMessage(d)
      PROVE  Abstract!Next
  <2>1. d.priority \in Priorities /\ d.ticket \in 1..tickets
        /\ [key |-> d.key, ticket |-> d.ticket] \in Located
    BY AllMessagesMember DEF Located, KeyInv, TypeOK
  <2>2. <<d.priority, d.ticket>> \in entering
    OBVIOUS
  <2>3. entering' = entering \ {<<d.priority, d.ticket>>}
    <3>1. drawn' = drawn \ {d}
      BY <1>2 DEF EnqueueMessage
    <3>2. \A f \in drawn : f # d => <<f.priority, f.ticket>> # <<d.priority, d.ticket>>
      BY DEF KeyInv, DrawnOnce
    <3> QED
      BY <3>1, <3>2
  <2>4. waiting' = [waiting EXCEPT ![d.priority] = @ \cup {d.ticket}]
    <3>1. {e.ticket : e \in BucketPut(buckets[d.priority], d.key, d.ticket)}
            = {e.ticket : e \in buckets[d.priority]} \cup {d.ticket}
      BY <2>1, PutAddsTicket
    <3>2. buckets' = [buckets EXCEPT ![d.priority] = BucketPut(@, d.key, d.ticket)]
      BY <1>2 DEF EnqueueMessage
    <3>3. buckets \in [Priorities -> SUBSET Entry]
      BY DEF KeyInv, TypeOK
    <3> QED
      BY <2>1, <3>1, <3>2, <3>3
  <2>5. tickets' = tickets /\ taken' = taken
    BY <1>2 DEF EnqueueMessage
  <2>6. Abstract!Enter(d.priority, d.ticket)
    BY <2>2, <2>3, <2>4, <2>5 DEF Abstract!Enter
  <2> QED
    BY <2>1, <2>6 DEF Abstract!Next
<1>3. ASSUME NEW p \in Priorities, NEW m \in held, Requeue(p, m)
      PROVE  Abstract!Next
  <2>1. [key |-> m.key, ticket |-> m.ticket] \in Located /\ m.ticket \in 1..tickets
    BY AllMessagesMember DEF Located, KeyInv, TypeOK
  <2>2. m.ticket \in taken
    OBVIOUS
  <2>4. waiting' = [waiting EXCEPT ![p] = @ \cup {m.ticket}]
    <3>1. {e.ticket : e \in BucketPut(buckets[p], m.key, m.ticket)}
            = {e.ticket : e \in buckets[p]} \cup {m.ticket}
      BY <2>1, PutAddsTicket
    <3>2. buckets' = [buckets EXCEPT ![p] = BucketPut(@, m.key, m.ticket)]
      BY <1>3 DEF Requeue
    <3>3. buckets \in [Priorities -> SUBSET Entry]
      BY DEF KeyInv, TypeOK
    <3> QED
      BY <3>1, <3>2, <3>3
  <2>5. tickets' = tickets /\ taken' = taken /\ entering' = entering
    BY <1>3 DEF Requeue
  <2>6. Abstract!PutBack(p, m.ticket)
    BY <2>2, <2>4, <2>5 DEF Abstract!PutBack
  <2> QED
    BY <2>1, <2>6 DEF Abstract!Next
<1>4. ASSUME NEW p \in Priorities, NEW e \in buckets[p], Dequeue(p, e)
      PROVE  Abstract!Next
  <2>1. buckets \in [Priorities -> SUBSET Entry]
    BY DEF KeyInv, TypeOK
  <2>2. \A f \in buckets[p] : f \in Located
    BY AllMessagesMember DEF Located
  <2>3. e.ticket \in waiting[p] /\ e.ticket \in 1..tickets
    <3>1. e.ticket \in {f.ticket : f \in buckets[p]}
      OBVIOUS
    <3>2. e.ticket \in 1..tickets
      BY <2>2, LocatedType DEF KeyInv
    <3> QED
      BY <3>1, <3>2
  <2>4. \A q \in Priorities : q < p => waiting[q] = {}
    BY <1>4 DEF Dequeue, FirstBucket
  <2>5. \A u \in waiting[p] : e.ticket <= u
    <3> SUFFICES ASSUME NEW f \in buckets[p] PROVE e.ticket <= f.ticket
      OBVIOUS
    <3>1. e.key <= f.key
      BY <1>4 DEF Dequeue, FirstEntry
    <3>2. /\ e.key \in Nat /\ f.key \in Nat /\ e.ticket \in Nat /\ f.ticket \in Nat
      BY <2>2, LocatedType DEF KeyInv
    <3>3. (f.ticket < e.ticket) <=> (f.key < e.key)
      BY <2>2 DEF KeyInv, KeysFollowTickets
    <3> QED
      BY <3>1, <3>2, <3>3
  <2>6. waiting' = [waiting EXCEPT ![p] = @ \ {e.ticket}]
    <3>1. \A f \in buckets[p] : f.ticket = e.ticket => f = e
      BY <2>2, SameKeySameMessage
    <3>2. {f.ticket : f \in buckets[p] \ {e}} = {f.ticket : f \in buckets[p]} \ {e.ticket}
      BY <3>1
    <3>3. buckets' = [buckets EXCEPT ![p] = @ \ {e}]
      BY <1>4 DEF Dequeue
    <3> QED
      BY <2>1, <3>2, <3>3
  <2>7. taken' = taken \cup {e.ticket}
    <3> DEFINE new == [priority |-> Uvarint(p), bucket |-> p,
                       key |-> e.key, ticket |-> e.ticket]
    <3>1. held' = held \cup {new}
      BY <1>4 DEF Dequeue
    <3>2. new.ticket = e.ticket
      OBVIOUS
    <3> HIDE DEF new
    <3> QED
      BY <3>1, <3>2
  <2>8. tickets' = tickets /\ entering' = entering
    BY <1>4 DEF Dequeue
  <2>9. Abstract!Take(p, e.ticket)
    BY <2>3, <2>4, <2>5, <2>6, <2>7, <2>8 DEF Abstract!Take
  <2> QED
    BY <2>3, <2>9 DEF Abstract!Next
<1>5. ASSUME Restart
      PROVE  Abstract!Next
  <2>1. entering' = {} /\ taken' = {} /\ waiting' = waiting /\ tickets' = tickets
    BY <1>5 DEF Restart
  <2> QED
    BY <2>1 DEF Abstract!Next, Abstract!Crash
<1>6. ASSUME UNCHANGED vars
      PROVE  UNCHANGED Abstract!fifoVars
  BY <1>6 DEF vars, Abstract!fifoVars
<1> QED
  BY <1>1, <1>2, <1>3, <1>4, <1>5, <1>6 DEF Next

\* boltqueue implements the queue its documentation describes: Dequeue returns
\* the oldest message of the highest priority, and a message that Requeue puts
\* back keeps its precedence.
THEOREM Refinement ==
    ASSUME ClockRunsAhead = TRUE
    PROVE  Spec => ImplementsFifo
<1>1. KeyInv /\ [Next]_vars => [Abstract!Next]_(Abstract!fifoVars)
  BY RefineStep
<1> QED
  BY KeyInvariant, RefineInit, <1>1, PTL DEF Spec, ImplementsFifo, Abstract!Spec
=============================================================================
