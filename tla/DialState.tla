------------------------------ MODULE DialState -----------------------------
(***************************************************************************)
(* The dialler of the p2p server (p2p/dial.go): which nodes to dial, given *)
(* the static nodes, the dials under way, the recent dials, the boot nodes *)
(* and what discovery has found.  Its state is a record that only the      *)
(* server's run loop touches, so its methods are operators here.           *)
(*                                                                         *)
(* All entries of the history live equally long, so the heap is a queue;   *)
(* due counts the entries at its front whose time is up.  start tells how  *)
(* long ago the dialler was first used: "zero", "recent", or "long" once   *)
(* fallbackInterval has passed.  There is no NetRestrict list.             *)
(***************************************************************************)
EXTENDS Integers, Sequences, FiniteSets, SequencesExt

CONSTANTS
    Ids,   \* node ids
    Self   \* our own

ASSUME DialAssumption == Self \in Ids /\ IsFiniteSet(Ids)

DialFlags == {"dyn", "static"}

DialTask(id, flag) == [kind |-> "dial", id |-> id, flag |-> flag]
DiscoverTask == [kind |-> "discover", id |-> Self, flag |-> "dyn"]
WaitExpireTask(id) == [kind |-> "wait", id |-> id, flag |-> "dyn"]

\* newDialState.
NewDialState(static, bootNodes, ntab, maxdyn) ==
    [maxDynDials |-> maxdyn, ntab |-> ntab, lookupRunning |-> FALSE,
     dialing |-> [i \in Ids |-> "none"], lookupBuf |-> <<>>, static |-> static,
     hist |-> <<>>, due |-> 0, start |-> "zero", bootNodes |-> bootNodes]

AddStatic(d, n) == [d EXCEPT !.static = @ \cup {n}]

\* removeStatic, which forgets the last dial too, so that the application can
\* force a reconnect.
RemoveStatic(d, n) ==
    LET at == {k \in 1..Len(d.hist) : d.hist[k] = n}
        first == CHOOSE k \in at : \A j \in at : k <= j
    IN  [d EXCEPT !.static = @ \ {n},
                  !.hist = IF at = {} THEN @ ELSE RemoveAt(@, first),
                  !.due = IF at # {} /\ first <= @ THEN @ - 1 ELSE @]

\* Mutant of CheckDial: the dials under way are not looked at.
CheckDialTwice(d, n, connected) ==
    IF n \in connected THEN "already connected"
    ELSE IF d.ntab /\ n = Self THEN "is self"
    ELSE IF n \in ToSet(d.hist) THEN "recently dialed"
    ELSE "ok"

\* checkDial, in the order of its cases.  Without discovery it cannot tell
\* that a node is ourselves.
CheckDial(d, n, connected) ==
    IF d.dialing[n] # "none" THEN "already dialing"
    ELSE IF n \in connected THEN "already connected"
    ELSE IF d.ntab /\ n = Self THEN "is self"
    ELSE IF n \in ToSet(d.hist) THEN "recently dialed"
    ELSE "ok"

\* newTasks builds s: the dialler, the tasks, how many dynamic dials are still
\* needed, and how many lookup results were tried.  Here it adds one dial.
Dialled(s, n, flag) ==
    [s EXCEPT !.d = [s.d EXCEPT !.dialing = [s.d.dialing EXCEPT ![n] = flag]],
              !.tasks = Append(s.tasks, DialTask(n, flag))]

\* The loop over the static nodes: our own id is dropped from them.
TryStatic(s, n, connected) ==
    LET verdict == CheckDial(s.d, n, connected)
    IN  CASE verdict = "is self" -> [s EXCEPT !.d = [s.d EXCEPT !.static = s.d.static \ {n}]]
          [] verdict = "ok" -> Dialled(s, n, "static")
          [] OTHER -> s

\* addDial, with the count of the dynamic dials that are still needed.
TryDynamic(s, n, connected) ==
    IF CheckDial(s.d, n, connected) = "ok"
    THEN [Dialled(s, n, "dyn") EXCEPT !.need = s.need - 1]
    ELSE s

\* Items of the lookup buffer are tried while dials are needed.
TryLookup(s, n, connected) ==
    IF s.need > 0
    THEN [TryDynamic(s, n, connected) EXCEPT !.tried = s.tried + 1]
    ELSE s

\* One of the loops, over a sequence of nodes.
Try(s, loop, n, connected) ==
    CASE loop = "static" -> TryStatic(s, n, connected)
      [] loop = "random" -> TryDynamic(s, n, connected)
      [] loop = "lookup" -> TryLookup(s, n, connected)

TryAll(s, loop, nodes, connected) ==
    LET try[k \in 0..Len(nodes)] ==
          IF k = 0 THEN s ELSE Try(try[k - 1], loop, nodes[k], connected)
    IN  try[Len(nodes)]

\* How many dynamic dials are missing: dynPeers peers were dialled that way.
NeedDynDials(d, dynPeers) ==
    d.maxDynDials - dynPeers - Cardinality({i \in Ids : d.dialing[i] = "dyn"})

\* newTasks begins: the history expires, and the dials that are needed are counted.
BeginTasks(d, dynPeers) ==
    LET expired == [d EXCEPT !.hist = SubSeq(d.hist, d.due + 1, Len(d.hist)), !.due = 0,
                             !.start = IF d.start = "zero" THEN "recent" ELSE d.start]
    IN  [d |-> expired, tasks |-> <<>>, need |-> NeedDynDials(d, dynPeers), tried |-> 0]

\* A boot node, in turn, when there have been no peers for long.
RotateBootNodes(d) == [d EXCEPT !.bootNodes = Append(Tail(d.bootNodes), Head(d.bootNodes))]
TryBoot(s, connected) ==
    IF connected = {} /\ s.d.bootNodes # <<>> /\ s.need > 0 /\ s.d.start = "long"
    THEN TryDynamic([s EXCEPT !.d = RotateBootNodes(s.d)], Head(s.d.bootNodes), connected)
    ELSE s

\* The nodes, in the order of the code: the static ones in any order, a boot node,
\* random nodes for half of the dials that are needed, lookup results for the rest.
TryNodes(d, connected, dynPeers, order, random) ==
    LET s1 == TryAll(BeginTasks(d, dynPeers), "static", order, connected)
        s2 == TryBoot(s1, connected)
        half == IF s2.need \div 2 < Len(random) THEN s2.need \div 2 ELSE Len(random)
        s3 == TryAll(s2, "random", SubSeq(random, 1, half), connected)
    IN  TryAll(s3, "lookup", d.lookupBuf, connected)

\* Mutant of Timer: there is none.
NoTimer(d, nRunning, tasks) == <<>>

\* A timer, when nothing else will wake the loop before an entry expires.
Timer(d, nRunning, tasks) ==
    IF nRunning = 0 /\ tasks = <<>> /\ d.hist # <<>>
    THEN <<WaitExpireTask(Head(d.hist))>>
    ELSE <<>>

\* newTasks: dials, a lookup when the nodes at hand are not enough, and the timer.
NewTasks(d0, nRunning, connected, dynPeers, order, random) ==
    LET s == TryNodes(d0, connected, dynPeers, order, random)
        buf == SubSeq(d0.lookupBuf, s.tried + 1, Len(d0.lookupBuf))
        look == Len(buf) < s.need /\ ~s.d.lookupRunning
        tasks == IF look THEN Append(s.tasks, DiscoverTask) ELSE s.tasks
        d == [s.d EXCEPT !.lookupBuf = buf, !.lookupRunning = IF look THEN TRUE ELSE @]
    IN  [d |-> d, tasks |-> tasks \o Timer(d, nRunning, tasks)]

\* taskDone.
TaskDone(d, t, results) ==
    CASE t.kind = "dial" -> [d EXCEPT !.hist = Append(@, t.id), !.dialing = [d.dialing EXCEPT ![t.id] = "none"]]
      [] t.kind = "discover" -> [d EXCEPT !.lookupRunning = FALSE, !.lookupBuf = @ \o results]
      [] OTHER -> d
=============================================================================
