--------------------------- MODULE P2PServerProof ---------------------------
(***************************************************************************)
(* Proofs about the p2p server and its dialler, for any finite set of      *)
(* nodes, any Config, any number of connections and any limit on dials.    *)
(*                                                                         *)
(* ServerSound and DialsSound are not inductive.  ServerInv adds what they *)
(* rest on: the state of a connection record (a peer runs only on one that *)
(* waits for, or got, its last answer); a connection that we dialled has   *)
(* its running task until it is set up, and the task the same flag; a node *)
(* waits in the queue at most once, and then nothing else dials it; the    *)
(* connection that the loop holds is at its checkpoint.  The dialler and   *)
(* the tasks matter only until the loop spins down.                        *)
(*                                                                         *)
(* Lemmas are about values, D for the marks of the dialler, R for the      *)
(* running tasks, C and B for the connections before and after a step, P   *)
(* and Q for the peers map; then there is one lemma for each action.       *)
(***************************************************************************)
EXTENDS P2PServer, FiniteSetTheorems, WellFoundedInduction, TLAPS

\* Least elements, from the well-foundedness of the natural numbers.
LEMMA Least ==
    ASSUME NEW T \in SUBSET Nat, T # {}
    PROVE  \E m \in T : \A n \in T : m <= n
<1> DEFINE R == OpToRel(<, Nat)
<1>1. \E m \in T : \A n \in T : ~(<<n, m>> \in R)
  <2> HIDE DEF R
  <2>1. IsWellFoundedOn(R, Nat) BY NatLessThanWellFounded DEF R
  <2> QED BY <2>1, WFMin
<1>2. PICK m \in T : \A n \in T : ~(<<n, m>> \in R) BY <1>1
<1>3. \A n \in T : ~(n < m) BY <1>2 DEF OpToRel
<1> QED BY <1>3

\* Induction, for a set of natural numbers.
LEMMA Induction ==
    ASSUME NEW P \in SUBSET Nat, 0 \in P, \A n \in Nat : n \in P => n + 1 \in P
    PROVE  P = Nat
<1> SUFFICES ASSUME P # Nat PROVE FALSE OBVIOUS
<1> DEFINE T == Nat \ P
<1>1. PICK m \in T : \A n \in T : m <= n BY Least
<1>2. m # 0 /\ m - 1 \in Nat /\ m - 1 \notin T BY <1>1
<1> QED BY <1>2

-----------------------------------------------------------------------------
\* The dialler's record, and which of its fields an update leaves alone.
DialFields == {"maxDynDials", "ntab", "lookupRunning", "dialing", "lookupBuf",
               "static", "hist", "due", "start", "bootNodes"}
IsDial(d) == d = [f \in DialFields |-> d[f]]
Kept(d, e, F) == IsDial(e) /\ \A f \in DialFields \ F : e[f] = d[f]

\* The updates that the dialler makes.
LEMMA SetStatic ==
    ASSUME NEW d, IsDial(d), NEW x, NEW e, e = [d EXCEPT !.static = x]
    PROVE  Kept(d, e, {"static"}) /\ e.static = x
BY DEF IsDial, Kept, DialFields

\* An entry of the history expires.
LEMMA SetDue ==
    ASSUME NEW d, IsDial(d), NEW x, NEW e, e = [d EXCEPT !.due = x]
    PROVE  Kept(d, e, {"due"}) /\ e.due = x
BY DEF IsDial, Kept, DialFields

\* Time passes since the start.
LEMMA SetStart ==
    ASSUME NEW d, IsDial(d), NEW x, NEW e, e = [d EXCEPT !.start = x]
    PROVE  Kept(d, e, {"start"}) /\ e.start = x
BY DEF IsDial, Kept, DialFields

\* The dialler's types, and its history: each node in it once, and not dialled.
Dials == DialFlags \cup {"none"}
DialTyped(d) ==
    /\ IsDial(d) /\ d.static \in SUBSET Ids /\ d.hist \in Seq(Ids) /\ d.due \in 0..Len(d.hist)
    /\ d.dialing \in [Ids -> Dials] /\ d.lookupBuf \in Seq(Ids) /\ d.bootNodes \in Seq(Ids)
    /\ d.maxDynDials \in Int
Once(h) == \A j, k \in 1..Len(h) : h[j] = h[k] => j = k
HistSound(d) == Once(d.hist) /\ \A k \in 1..Len(d.hist) : d.dialing[d.hist[k]] = "none"
DialSound(d) == DialTyped(d) /\ HistSound(d)

\* A new dialler: nothing is dialled, the history is empty.
LEMMA NewDialSound ==
    ASSUME NEW st \in SUBSET Ids, NEW bn \in Seq(Ids), NEW nt, NEW m \in Int
    PROVE  /\ DialSound(NewDialState(st, bn, nt, m)) /\ NewDialState(st, bn, nt, m).maxDynDials = m
           /\ \A i \in Ids : NewDialState(st, bn, nt, m).dialing[i] = "none"
<1> DEFINE d == NewDialState(st, bn, nt, m)
<1>1. d.static = st /\ d.hist = <<>> /\ d.due = 0 /\ d.dialing = [i \in Ids |-> "none"] /\ d.lookupBuf = <<>>
      /\ d.bootNodes = bn /\ d.maxDynDials = m
  BY DEF NewDialState
<1>2. IsDial(d)
  <2>1. PICK no : no = FALSE OBVIOUS
  <2>2. d = [maxDynDials |-> m, ntab |-> nt, lookupRunning |-> no,
             dialing |-> [i \in Ids |-> "none"], lookupBuf |-> <<>>, static |-> st,
             hist |-> <<>>, due |-> 0, start |-> "zero", bootNodes |-> bn]
    BY <2>1, Zenon DEF NewDialState
  <2> HIDE DEF d
  <2> QED BY <2>2 DEF IsDial, DialFields
<1> HIDE DEF d
<1>3. DialTyped(d) BY <1>1, <1>2 DEF DialTyped, Dials
<1>4. HistSound(d) BY <1>1 DEF HistSound, Once
<1> QED BY <1>1, <1>3, <1>4 DEF DialSound, d

\* dialHistory.remove
LEMMA RemoveAtIs ==
    ASSUME NEW h \in Seq(Ids), NEW i \in 1..Len(h)
    PROVE  /\ RemoveAt(h, i) \in Seq(Ids) /\ Len(RemoveAt(h, i)) = Len(h) - 1
           /\ \A j \in 1..(Len(h) - 1) : RemoveAt(h, i)[j] = IF j < i THEN h[j] ELSE h[j + 1]
<1> DEFINE q == RemoveAt(h, i)
           n == Len(h)
           a == SubSeq(h, 1, i - 1)
           b == SubSeq(h, i + 1, n)
<1>1. n \in Nat /\ i \in 1..n OBVIOUS
<1>2. a \in Seq(Ids) /\ Len(a) = i - 1 /\ \A j \in 1..(i - 1) : a[j] = h[j] BY <1>1
<1>3. b \in Seq(Ids) /\ Len(b) = n - i /\ \A j \in 1..(n - i) : b[j] = h[i + j] BY <1>1
<1>4. q = a \o b BY DEF RemoveAt
<1> HIDE DEF a, b, q, n
<1>a. a \in Seq(Ids) /\ b \in Seq(Ids) BY <1>2, <1>3
<1>5. /\ a \o b \in Seq(Ids) /\ Len(a \o b) = Len(a) + Len(b)
      /\ \A j \in 1..(Len(a) + Len(b)) : (a \o b)[j] = IF j <= Len(a) THEN a[j] ELSE b[j - Len(a)]
  BY <1>a
<1>6. Len(a) + Len(b) = n - 1 BY <1>1, <1>2, <1>3
<1>7. ASSUME NEW j \in 1..(n - 1) PROVE q[j] = IF j < i THEN h[j] ELSE h[j + 1]
  <2>1. CASE j < i
    <3>1. j \in 1..(i - 1) /\ j <= Len(a) BY <1>1, <1>2, <2>1
    <3> QED BY <1>2, <1>4, <1>5, <1>6, <2>1, <3>1
  <2>2. CASE ~(j < i)
    <3>1. ~(j <= Len(a)) /\ j - Len(a) \in 1..(n - i) /\ i + (j - Len(a)) = j + 1 BY <1>1, <1>2, <2>2
    <3> QED BY <1>3, <1>4, <1>5, <1>6, <2>2, <3>1
  <2> QED BY <2>1, <2>2
<1> QED BY <1>4, <1>5, <1>6, <1>7 DEF q, n

\* addStatic
LEMMA AddStaticSound ==
    ASSUME NEW d, DialSound(d), NEW n \in Ids
    PROVE  LET e == AddStatic(d, n)
           IN  DialSound(e) /\ e.dialing = d.dialing /\ e.maxDynDials = d.maxDynDials
<1> DEFINE e == AddStatic(d, n)
<1>a. IsDial(d) /\ e = [d EXCEPT !.static = d.static \cup {n}] BY DEF AddStatic, DialSound, DialTyped
<1> HIDE DEF e
<1>1. Kept(d, e, {"static"}) /\ e.static = d.static \cup {n} BY <1>a, SetStatic
<1>2. e.dialing = d.dialing /\ e.maxDynDials = d.maxDynDials /\ e.hist = d.hist /\ e.due = d.due
      /\ e.lookupBuf = d.lookupBuf /\ e.bootNodes = d.bootNodes
  BY <1>1 DEF Kept, DialFields
<1>3. DialTyped(e) BY <1>1, <1>2 DEF DialSound, DialTyped, Kept
<1>4. HistSound(e) BY <1>2 DEF DialSound, HistSound
<1> QED BY <1>2, <1>3, <1>4 DEF DialSound, e

\* removeStatic
LEMMA RemoveStaticSound ==
    ASSUME NEW d, DialSound(d), NEW n \in Ids
    PROVE  LET e == RemoveStatic(d, n)
           IN  DialSound(e) /\ e.dialing = d.dialing /\ e.maxDynDials = d.maxDynDials
<1> DEFINE e == RemoveStatic(d, n)
           h == d.hist
           at == {k \in 1..Len(h) : h[k] = n}
           first == CHOOSE k \in at : \A j \in at : k <= j
           x == d.static \ {n}
           y == IF at = {} THEN h ELSE RemoveAt(h, first)
           z == IF at # {} /\ first <= d.due THEN d.due - 1 ELSE d.due
<1>1. e = [d EXCEPT !.static = x, !.hist = y, !.due = z] BY DEF RemoveStatic
<1>2. h \in Seq(Ids) /\ Len(h) \in Nat /\ d.due \in 0..Len(h) /\ Once(h)
      /\ \A k \in 1..Len(h) : d.dialing[h[k]] = "none"
  BY DEF DialSound, DialTyped, HistSound
<1>3. at # {} => first \in 1..Len(h)
  <2> HIDE DEF h
  <2>1. at \in SUBSET Nat BY <1>2
  <2>2. at # {} => \E k \in at : \A j \in at : k <= j BY <2>1, Least
  <2>3. at # {} => first \in at BY <2>2
  <2> QED BY <2>3
<1> HIDE DEF first, at
<1>4. y \in Seq(Ids) /\ z \in 0..Len(y) /\ Once(y) /\ \A k \in 1..Len(y) : d.dialing[y[k]] = "none"
  <2>1. CASE at = {} BY <1>2, <2>1
  <2>2. CASE at # {}
    <3>1. /\ y \in Seq(Ids) /\ Len(y) = Len(h) - 1
          /\ \A j \in 1..(Len(h) - 1) : y[j] = IF j < first THEN h[j] ELSE h[j + 1]
      BY <1>2, <1>3, <2>2, RemoveAtIs
    <3>2. first \in 1..Len(h) BY <1>3, <2>2
    <3> HIDE DEF y, h
    <3>3. z \in 0..Len(y) BY <1>2, <2>2, <3>1, <3>2
    <3>4. Once(y)
      <4> SUFFICES ASSUME NEW j \in 1..Len(y), NEW k \in 1..Len(y), y[j] = y[k] PROVE j = k BY DEF Once
      <4> DEFINE J == IF j < first THEN j ELSE j + 1
                 K == IF k < first THEN k ELSE k + 1
      <4>a. j \in 1..(Len(h) - 1) /\ k \in 1..(Len(h) - 1) BY <3>1
      <4>b. J \in 1..Len(h) /\ K \in 1..Len(h) BY <1>2, <3>2, <4>a
      <4>1. J \in 1..Len(h) /\ K \in 1..Len(h) /\ y[j] = h[J] /\ y[k] = h[K] BY <3>1, <4>a, <4>b
      <4>2. J = K BY <1>2, <4>1 DEF Once
      <4> QED BY <1>2, <3>1, <3>2, <4>2
    <3>5. ASSUME NEW k \in 1..Len(y) PROVE d.dialing[y[k]] = "none"
      <4> DEFINE K == IF k < first THEN k ELSE k + 1
      <4>1. K \in 1..Len(h) /\ y[k] = h[K] BY <1>2, <3>1, <3>2
      <4> QED BY <1>2, <4>1
    <3> QED BY <3>1, <3>3, <3>4, <3>5
  <2> QED BY <2>1, <2>2
<1> HIDE DEF e, x, y, z, h
<1>a. IsDial(d) BY DEF DialSound, DialTyped
<1>5. Kept(d, e, {"static", "hist", "due"}) /\ e.static = x /\ e.hist = y /\ e.due = z
  BY <1>1, <1>a DEF IsDial, Kept, DialFields
<1>6. e.dialing = d.dialing /\ e.maxDynDials = d.maxDynDials
      /\ e.lookupBuf = d.lookupBuf /\ e.bootNodes = d.bootNodes
  BY <1>5 DEF Kept, DialFields
<1>7. DialTyped(e) BY <1>4, <1>5, <1>6 DEF DialSound, DialTyped, Kept, x
<1>8. HistSound(e) BY <1>4, <1>5, <1>6 DEF HistSound
<1> QED BY <1>6, <1>7, <1>8 DEF DialSound, e

\* taskDone
LEMMA TaskDoneSound ==
    ASSUME NEW d, DialSound(d), NEW t, t.id \in Ids, NEW results \in Seq(Ids),
           t.kind = "dial" => d.dialing[t.id] # "none"
    PROVE  LET e == TaskDone(d, t, results)
           IN  /\ DialSound(e) /\ e.maxDynDials = d.maxDynDials
               /\ \A i \in Ids : e.dialing[i] = IF t.kind = "dial" /\ i = t.id THEN "none" ELSE d.dialing[i]
<1> DEFINE e == TaskDone(d, t, results)
<1>0. DialTyped(d) /\ HistSound(d) /\ IsDial(d) BY DEF DialSound, DialTyped
<1>1. CASE t.kind = "dial"
  <2> DEFINE x == Append(d.hist, t.id)
             y == [d.dialing EXCEPT ![t.id] = "none"]
  <2>1. e = [d EXCEPT !.hist = x, !.dialing = y] BY <1>1 DEF TaskDone
  <2>2. d.hist \in Seq(Ids) /\ Len(d.hist) \in Nat /\ d.dialing \in [Ids -> Dials] /\ d.due \in 0..Len(d.hist)
    BY <1>0 DEF DialTyped
  <2>3. /\ x \in Seq(Ids) /\ Len(x) = Len(d.hist) + 1 /\ x[Len(d.hist) + 1] = t.id
        /\ \A k \in 1..Len(d.hist) : x[k] = d.hist[k]
    BY <2>2
  <2>4. y \in [Ids -> Dials] /\ y[t.id] = "none" /\ \A i \in Ids : i # t.id => y[i] = d.dialing[i] BY <2>2 DEF Dials
  <2> HIDE DEF x, y, e
  <2>5. Kept(d, e, {"hist", "dialing"}) /\ e.hist = x /\ e.dialing = y BY <1>0, <2>1 DEF IsDial, Kept, DialFields
  <2>6. /\ e.maxDynDials = d.maxDynDials /\ e.static = d.static /\ e.due = d.due
        /\ e.lookupBuf = d.lookupBuf /\ e.bootNodes = d.bootNodes
    BY <2>5 DEF Kept, DialFields
  <2>7. DialTyped(e) BY <1>0, <2>2, <2>3, <2>4, <2>5, <2>6 DEF DialTyped, Kept
  <2>8. \A k \in 1..Len(d.hist) : d.hist[k] # t.id /\ d.hist[k] \in Ids BY <1>0, <1>1, <2>2 DEF HistSound
  <2>9. Once(x)
    <3> SUFFICES ASSUME NEW j \in 1..Len(x), NEW k \in 1..Len(x), x[j] = x[k] PROVE j = k BY DEF Once
    <3>1. Once(d.hist) BY <1>0 DEF HistSound
    <3>2. CASE j \in 1..Len(d.hist) /\ k \in 1..Len(d.hist) BY <2>3, <3>1, <3>2 DEF Once
    <3>3. CASE j = Len(x) /\ k \in 1..Len(d.hist) BY <2>2, <2>3, <2>8, <3>3
    <3>4. CASE k = Len(x) /\ j \in 1..Len(d.hist) BY <2>2, <2>3, <2>8, <3>4
    <3> QED BY <2>2, <2>3, <3>2, <3>3, <3>4
  <2>10. ASSUME NEW k \in 1..Len(x) PROVE y[x[k]] = "none"
    <3>1. CASE k \in 1..Len(d.hist)
      <4>1. x[k] = d.hist[k] /\ x[k] \in Ids /\ x[k] # t.id BY <2>3, <2>8, <3>1
      <4>2. d.dialing[d.hist[k]] = "none" BY <1>0, <3>1 DEF HistSound
      <4> QED BY <2>4, <4>1, <4>2
    <3>2. CASE k = Len(x) BY <2>2, <2>3, <2>4, <3>2
    <3> QED BY <2>2, <2>3, <3>1, <3>2
  <2>11. HistSound(e) BY <2>5, <2>9, <2>10 DEF HistSound
  <2> QED BY <1>1, <2>4, <2>5, <2>6, <2>7, <2>11 DEF DialSound, e
<1>2. CASE t.kind = "discover"
  <2>1. PICK no : no = FALSE OBVIOUS
  <2> DEFINE y == d.lookupBuf \o results
  <2>2. e = [d EXCEPT !.lookupRunning = no, !.lookupBuf = y]
    <3>1. e = [d EXCEPT !.lookupRunning = FALSE, !.lookupBuf = y] BY <1>2 DEF TaskDone
    <3> HIDE DEF e, y
    <3> QED BY <2>1, <3>1, Zenon
  <2>3. y \in Seq(Ids) BY <1>0 DEF DialTyped
  <2> HIDE DEF e, y
  <2>4. Kept(d, e, {"lookupRunning", "lookupBuf"}) /\ e.lookupBuf = y BY <1>0, <2>2 DEF IsDial, Kept, DialFields
  <2>5. /\ e.maxDynDials = d.maxDynDials /\ e.static = d.static /\ e.due = d.due /\ e.hist = d.hist
        /\ e.dialing = d.dialing /\ e.bootNodes = d.bootNodes
    BY <2>4 DEF Kept, DialFields
  <2>6. DialTyped(e) BY <1>0, <2>3, <2>4, <2>5 DEF DialTyped, Kept
  <2>7. HistSound(e) BY <1>0, <2>5 DEF HistSound
  <2> QED BY <1>2, <2>5, <2>6, <2>7 DEF DialSound, e
<1>3. CASE t.kind \notin {"dial", "discover"} BY <1>3 DEF TaskDone
<1> QED BY <1>1, <1>2, <1>3

\* Time passes.
LEMMA DialTimeSound ==
    ASSUME NEW d, DialSound(d)
    PROVE  /\ d.due < Len(d.hist) =>
                 LET e == [d EXCEPT !.due = @ + 1]
                 IN  DialSound(e) /\ e.dialing = d.dialing /\ e.maxDynDials = d.maxDynDials
           /\ LET e == [d EXCEPT !.start = "long"]
              IN  DialSound(e) /\ e.dialing = d.dialing /\ e.maxDynDials = d.maxDynDials
<1>0. DialTyped(d) /\ HistSound(d) /\ IsDial(d) BY DEF DialSound, DialTyped
<1>1. ASSUME NEW e, Kept(d, e, {"due", "start"}), e.due \in 0..Len(d.hist)
      PROVE  DialSound(e) /\ e.dialing = d.dialing /\ e.maxDynDials = d.maxDynDials
  <2>1. /\ e.maxDynDials = d.maxDynDials /\ e.static = d.static /\ e.hist = d.hist
        /\ e.dialing = d.dialing /\ e.bootNodes = d.bootNodes /\ e.lookupBuf = d.lookupBuf
    BY <1>1 DEF Kept, DialFields
  <2>2. DialTyped(e) BY <1>0, <1>1, <2>1 DEF DialTyped, Kept
  <2>3. HistSound(e) BY <1>0, <2>1 DEF HistSound
  <2> QED BY <2>1, <2>2, <2>3 DEF DialSound
<1>2. ASSUME d.due < Len(d.hist)
      PROVE  LET e == [d EXCEPT !.due = @ + 1]
             IN  DialSound(e) /\ e.dialing = d.dialing /\ e.maxDynDials = d.maxDynDials
  <2> DEFINE e == [d EXCEPT !.due = @ + 1]
  <2>a. e = [d EXCEPT !.due = d.due + 1] OBVIOUS
  <2> HIDE DEF e
  <2>1. Kept(d, e, {"due"}) /\ e.due = d.due + 1 BY <1>0, <2>a, SetDue
  <2>2. Kept(d, e, {"due", "start"}) BY <2>1 DEF Kept
  <2>3. e.due \in 0..Len(d.hist) BY <1>0, <1>2, <2>1 DEF DialTyped
  <2> QED BY <1>1, <2>2, <2>3 DEF e
<1>3. LET e == [d EXCEPT !.start = "long"]
      IN  DialSound(e) /\ e.dialing = d.dialing /\ e.maxDynDials = d.maxDynDials
  <2> DEFINE e == [d EXCEPT !.start = "long"]
  <2>a. e = [d EXCEPT !.start = "long"] OBVIOUS
  <2> HIDE DEF e
  <2>1. Kept(d, e, {"start"}) BY <1>0, <2>a, SetStart
  <2>2. Kept(d, e, {"due", "start"}) BY <2>1 DEF Kept
  <2>3. e.due \in 0..Len(d.hist) BY <1>0, <2>1 DEF DialTyped, Kept, DialFields
  <2> QED BY <1>1, <2>2, <2>3 DEF e
<1> QED BY <1>2, <1>3

\* Tasks, and what newTasks has built: dials of nodes that D0 did not have under
\* way, that are not connected and not in the history H, each once.
TaskSet == [kind : {"dial", "discover", "wait"}, id : Ids, flag : DialFlags]
DialsOnce(ts) ==
    \A j, k \in 1..Len(ts) : ts[j].kind = "dial" /\ ts[k].kind = "dial" /\ ts[j].id = ts[k].id => j = k
NewDials(ts, D0, D, H, con) ==
    /\ \A i \in Ids : D[i] = D0[i] \/ (D0[i] = "none" /\ i \notin con /\ \A k \in 1..Len(H) : H[k] # i)
    /\ \A j \in 1..Len(ts) : ts[j].kind = "dial" => D0[ts[j].id] = "none" /\ D[ts[j].id] = ts[j].flag
    /\ \A i \in Ids : D0[i] = "none" /\ D[i] # "none" =>
                          \E j \in 1..Len(ts) : ts[j].kind = "dial" /\ ts[j].id = i
    /\ DialsOnce(ts)
Dyn(D) == {i \in Ids : D[i] = "dyn"}

TryFields == {"d", "tasks", "need", "tried"}
IsTry(s) == s = [f \in TryFields |-> s[f]]
TrySound(s, D0, H, con) ==
    /\ IsTry(s) /\ DialTyped(s.d) /\ s.d.hist = H /\ s.tasks \in Seq(TaskSet)
    /\ s.need \in Int /\ s.tried \in Nat
    /\ NewDials(s.tasks, D0, s.d.dialing, H, con)
Goes(s, e) == /\ e.d.maxDynDials = s.d.maxDynDials /\ e.d.lookupBuf = s.d.lookupBuf
              /\ e.d.bootNodes = s.d.bootNodes
Count(s) == Cardinality(Dyn(s.d.dialing)) + s.need

\* A dial is added to the tasks.
LEMMA NewDialsAdd ==
    ASSUME NEW ts \in Seq(TaskSet), NEW D0, NEW D \in [Ids -> Dials], NEW H, NEW con, NewDials(ts, D0, D, H, con),
           NEW n \in Ids, D[n] = "none", n \notin con, \A k \in 1..Len(H) : H[k] # n,
           NEW flag \in DialFlags
    PROVE  NewDials(Append(ts, DialTask(n, flag)), D0, [D EXCEPT ![n] = flag], H, con)
<1> DEFINE t == DialTask(n, flag)
           us == Append(ts, t)
           E == [D EXCEPT ![n] = flag]
<1>1. t.kind = "dial" /\ t.id = n /\ t.flag = flag /\ t \in TaskSet BY DEF DialTask, TaskSet
<1>2. flag # "none" /\ flag \in Dials BY DEF DialFlags, Dials
<1> HIDE DEF t
<1>3. Len(ts) \in Nat /\ us \in Seq(TaskSet) /\ Len(us) = Len(ts) + 1 /\ us[Len(ts) + 1] = t
      /\ \A j \in 1..Len(ts) : us[j] = ts[j]
  BY <1>1
<1>4. E \in [Ids -> Dials] /\ E[n] = flag /\ \A i \in Ids : i # n => E[i] = D[i] BY <1>2
<1>5. \A j \in 1..Len(ts) : ts[j] \in TaskSet /\ ts[j].id \in Ids
  <2>1. \A j \in 1..Len(ts) : ts[j] \in TaskSet
    <3> HIDE DEF TaskSet
    <3> QED OBVIOUS
  <2>2. \A x \in TaskSet : x.id \in Ids BY DEF TaskSet
  <2> QED BY <2>1, <2>2
<1>6. \A j \in 1..Len(ts) : ts[j].kind = "dial" => ts[j].id # n
  <2> SUFFICES ASSUME NEW j \in 1..Len(ts), ts[j].kind = "dial" PROVE ts[j].id # n OBVIOUS
  <2>1. D[ts[j].id] = ts[j].flag BY DEF NewDials
  <2>2. ts[j].flag # "none" BY <1>5 DEF TaskSet, DialFlags
  <2> QED BY <2>1, <2>2
<1>7. D0[n] = "none" BY DEF NewDials
<1> HIDE DEF us, E
<1>8. \A i \in Ids : E[i] = D0[i] \/ (D0[i] = "none" /\ i \notin con /\ \A k \in 1..Len(H) : H[k] # i)
  BY <1>4, <1>7 DEF NewDials
<1>9. ASSUME NEW j \in 1..Len(us), us[j].kind = "dial" PROVE D0[us[j].id] = "none" /\ E[us[j].id] = us[j].flag
  <2>1. CASE j = Len(ts) + 1 BY <1>1, <1>3, <1>4, <1>7, <2>1
  <2>2. CASE j \in 1..Len(ts)
    <3>1. us[j] = ts[j] /\ ts[j].id # n /\ ts[j].id \in Ids BY <1>3, <1>5, <1>6, <1>9, <2>2
    <3>2. D0[ts[j].id] = "none" /\ D[ts[j].id] = ts[j].flag BY <1>9, <2>2, <3>1 DEF NewDials
    <3> QED BY <1>4, <3>1, <3>2
  <2> QED BY <1>3, <2>1, <2>2
<1>10. ASSUME NEW i \in Ids, D0[i] = "none", E[i] # "none"
       PROVE  \E j \in 1..Len(us) : us[j].kind = "dial" /\ us[j].id = i
  <2>1. CASE i = n BY <1>1, <1>3, <2>1
  <2>2. CASE i # n
    <3>1. D[i] # "none" BY <1>4, <1>10, <2>2
    <3>2. PICK j \in 1..Len(ts) : ts[j].kind = "dial" /\ ts[j].id = i BY <1>10, <3>1 DEF NewDials
    <3> QED BY <1>3, <3>2
  <2> QED BY <2>1, <2>2
<1>11. DialsOnce(us)
  <2> SUFFICES ASSUME NEW j \in 1..Len(us), NEW k \in 1..Len(us), us[j].kind = "dial", us[k].kind = "dial",
                      us[j].id = us[k].id
               PROVE  j = k
    BY DEF DialsOnce
  <2>1. CASE j \in 1..Len(ts) /\ k \in 1..Len(ts)
    <3>1. us[j] = ts[j] /\ us[k] = ts[k] BY <1>3, <2>1
    <3>2. DialsOnce(ts) BY DEF NewDials
    <3> QED BY <2>1, <3>1, <3>2 DEF DialsOnce
  <2>2. CASE j = Len(ts) + 1 /\ k \in 1..Len(ts) BY <1>1, <1>3, <1>6, <2>2
  <2>3. CASE k = Len(ts) + 1 /\ j \in 1..Len(ts) BY <1>1, <1>3, <1>6, <2>3
  <2> QED BY <1>3, <2>1, <2>2, <2>3
<1>12. NewDials(us, D0, E, H, con) BY <1>8, <1>9, <1>10, <1>11 DEF NewDials
<1> QED BY <1>12 DEF us, E, t

\* How many dynamic dials there are.
LEMMA DynCount ==
    ASSUME NEW D \in [Ids -> Dials], NEW n \in Ids, D[n] = "none"
    PROVE  /\ Cardinality(Dyn([D EXCEPT ![n] = "dyn"])) = Cardinality(Dyn(D)) + 1
           /\ Dyn([D EXCEPT ![n] = "static"]) = Dyn(D) /\ Cardinality(Dyn(D)) \in Nat /\ IsFiniteSet(Dyn(D))
<1>1. Dyn(D) \in SUBSET Ids BY DEF Dyn
<1>2. IsFiniteSet(Dyn(D)) /\ Cardinality(Dyn(D)) \in Nat BY <1>1, DialAssumption, FS_Subset, FS_CardinalityType
<1>3. Dyn([D EXCEPT ![n] = "dyn"]) = Dyn(D) \cup {n} /\ n \notin Dyn(D) BY DEF Dyn
<1>4. Dyn([D EXCEPT ![n] = "static"]) = Dyn(D) BY DEF Dyn
<1> QED BY <1>2, <1>3, <1>4, FS_AddElement

\* addDial
LEMMA DialledSound ==
    ASSUME NEW s, NEW D0, NEW H, NEW con, TrySound(s, D0, H, con), NEW n \in Ids, NEW flag \in DialFlags,
           CheckDial(s.d, n, con) = "ok"
    PROVE  LET e == Dialled(s, n, flag)
           IN  /\ TrySound(e, D0, H, con) /\ Goes(s, e) /\ e.need = s.need /\ e.tried = s.tried
               /\ e.d.dialing = [s.d.dialing EXCEPT ![n] = flag] /\ s.d.dialing[n] = "none"
<1> DEFINE e == Dialled(s, n, flag)
           x == [s.d.dialing EXCEPT ![n] = flag]
           y == [s.d EXCEPT !.dialing = x]
           z == Append(s.tasks, DialTask(n, flag))
<1>1. /\ IsTry(s) /\ DialTyped(s.d) /\ s.d.hist = H /\ s.tasks \in Seq(TaskSet)
      /\ s.need \in Int /\ s.tried \in Nat /\ NewDials(s.tasks, D0, s.d.dialing, H, con)
  BY DEF TrySound
<1>2. s.d.dialing[n] = "none" /\ n \notin con /\ n \notin ToSet(s.d.hist) BY DEF CheckDial
<1>3. \A k \in 1..Len(H) : H[k] # n BY <1>1, <1>2 DEF ToSet, DialTyped
<1>4. s.d.dialing \in [Ids -> Dials] /\ IsDial(s.d) BY <1>1 DEF DialTyped
<1>5. x \in [Ids -> Dials] BY <1>4 DEF Dials
<1>6. NewDials(z, D0, x, H, con) BY <1>1, <1>2, <1>3, <1>4, NewDialsAdd
<1>7. z \in Seq(TaskSet)
  <2>1. DialTask(n, flag) \in TaskSet BY DEF DialTask, TaskSet
  <2> HIDE DEF TaskSet
  <2> QED BY <1>1, <2>1
<1>8. e = [s EXCEPT !.d = y, !.tasks = z] BY DEF Dialled
<1> HIDE DEF x
<1>9. Kept(s.d, y, {"dialing"}) /\ y.dialing = x BY <1>4 DEF IsDial, Kept, DialFields
<1> HIDE DEF e, y, z
<1>10. IsTry(e) /\ e.d = y /\ e.tasks = z /\ e.need = s.need /\ e.tried = s.tried BY <1>1, <1>8 DEF IsTry, TryFields
<1>11. /\ y.maxDynDials = s.d.maxDynDials /\ y.static = s.d.static /\ y.due = s.d.due /\ y.hist = s.d.hist
       /\ y.lookupBuf = s.d.lookupBuf /\ y.bootNodes = s.d.bootNodes
  BY <1>9 DEF Kept, DialFields
<1>12. DialTyped(y) BY <1>1, <1>5, <1>9, <1>11 DEF DialTyped, Kept
<1>13. TrySound(e, D0, H, con) BY <1>1, <1>6, <1>7, <1>9, <1>10, <1>11, <1>12 DEF TrySound
<1>14. Goes(s, e) BY <1>10, <1>11 DEF Goes
<1> QED BY <1>2, <1>9, <1>10, <1>13, <1>14 DEF e, x

\* The loop over the static nodes.
LEMMA TryStaticSound ==
    ASSUME NEW s, NEW D0, NEW H, NEW con, TrySound(s, D0, H, con), NEW n \in Ids
    PROVE  LET e == TryStatic(s, n, con)
           IN  /\ TrySound(e, D0, H, con) /\ Goes(s, e) /\ e.need = s.need
               /\ Dyn(e.d.dialing) = Dyn(s.d.dialing)
<1> DEFINE e == TryStatic(s, n, con)
           v == CheckDial(s.d, n, con)
<1>0. s.d.dialing \in [Ids -> Dials] BY DEF TrySound, DialTyped
<1>1. CASE v = "is self"
  <2> DEFINE x == s.d.static \ {n}
             y == [s.d EXCEPT !.static = x]
  <2>1. e = [s EXCEPT !.d = y] BY <1>1 DEF TryStatic
  <2>2. IsTry(s) /\ DialTyped(s.d) /\ IsDial(s.d) /\ s.d.static \in SUBSET Ids BY DEF TrySound, DialTyped
  <2>3. x \in SUBSET Ids BY <2>2
  <2> HIDE DEF x
  <2>4. Kept(s.d, y, {"static"}) /\ y.static = x BY <2>2 DEF IsDial, Kept, DialFields
  <2> HIDE DEF e, y
  <2>5. IsTry(e) /\ e.d = y /\ e.tasks = s.tasks /\ e.need = s.need /\ e.tried = s.tried BY <2>1, <2>2 DEF IsTry, TryFields
  <2>6. /\ y.maxDynDials = s.d.maxDynDials /\ y.dialing = s.d.dialing /\ y.due = s.d.due /\ y.hist = s.d.hist
        /\ y.lookupBuf = s.d.lookupBuf /\ y.bootNodes = s.d.bootNodes
    BY <2>4 DEF Kept, DialFields
  <2>7. DialTyped(y) BY <2>2, <2>3, <2>4, <2>6 DEF DialTyped, Kept
  <2>8. TrySound(e, D0, H, con) BY <2>5, <2>6, <2>7 DEF TrySound
  <2> QED BY <2>5, <2>6, <2>8 DEF Goes, e
<1>2. CASE v = "ok"
  <2>1. e = Dialled(s, n, "static") BY <1>2 DEF TryStatic
  <2>2. "static" \in DialFlags BY DEF DialFlags
  <2> HIDE DEF e
  <2>3. /\ TrySound(e, D0, H, con) /\ Goes(s, e) /\ e.need = s.need
        /\ e.d.dialing = [s.d.dialing EXCEPT ![n] = "static"] /\ s.d.dialing[n] = "none"
    BY <1>2, <2>1, <2>2, DialledSound
  <2>4. Dyn(e.d.dialing) = Dyn(s.d.dialing) BY <1>0, <2>3, DynCount
  <2> QED BY <2>3, <2>4 DEF e
<1>3. CASE v \notin {"is self", "ok"}
  <2>1. e = s BY <1>3 DEF TryStatic
  <2> QED BY <2>1 DEF Goes, TrySound
<1> QED BY <1>1, <1>2, <1>3

\* A dynamic dial is tried.
LEMMA TryDynamicSound ==
    ASSUME NEW s, NEW D0, NEW H, NEW con, TrySound(s, D0, H, con), NEW n \in Ids
    PROVE  LET e == TryDynamic(s, n, con)
           IN  /\ TrySound(e, D0, H, con) /\ Goes(s, e) /\ e.need \in {s.need, s.need - 1}
               /\ e.tried = s.tried /\ Count(e) = Count(s)
<1> DEFINE e == TryDynamic(s, n, con)
<1>0. s.d.dialing \in [Ids -> Dials] /\ s.need \in Int BY DEF TrySound, DialTyped
<1>1. CASE CheckDial(s.d, n, con) = "ok"
  <2> DEFINE b == Dialled(s, n, "dyn")
             x == s.need - 1
  <2>1. e = [b EXCEPT !.need = x] BY <1>1 DEF TryDynamic
  <2>2. "dyn" \in DialFlags BY DEF DialFlags
  <2> HIDE DEF b
  <2>3. /\ TrySound(b, D0, H, con) /\ Goes(s, b) /\ b.need = s.need /\ b.tried = s.tried
        /\ b.d.dialing = [s.d.dialing EXCEPT ![n] = "dyn"] /\ s.d.dialing[n] = "none"
    BY <1>1, <2>2, DialledSound DEF b
  <2>4. IsTry(b) BY <2>3 DEF TrySound
  <2>5. x \in Int BY <1>0
  <2> HIDE DEF e, x
  <2>6. IsTry(e) /\ e.d = b.d /\ e.tasks = b.tasks /\ e.need = x /\ e.tried = b.tried BY <2>1, <2>4 DEF IsTry, TryFields
  <2>7. TrySound(e, D0, H, con) BY <2>3, <2>5, <2>6 DEF TrySound
  <2>8. Goes(s, e) BY <2>3, <2>6 DEF Goes
  <2>9. Count(e) = Count(s)
    <3>1. Cardinality(Dyn(e.d.dialing)) = Cardinality(Dyn(s.d.dialing)) + 1 /\ Cardinality(Dyn(s.d.dialing)) \in Nat
      <4> DEFINE D == s.d.dialing
      <4>1. D \in [Ids -> Dials] /\ D[n] = "none" /\ e.d.dialing = [D EXCEPT ![n] = "dyn"] BY <1>0, <2>3, <2>6
      <4> HIDE DEF D
      <4>2. Cardinality(Dyn(e.d.dialing)) = Cardinality(Dyn(D)) + 1 /\ Cardinality(Dyn(D)) \in Nat
        BY <4>1, DynCount
      <4> QED BY <4>2 DEF D
    <3> QED BY <1>0, <2>6, <3>1 DEF Count, x
  <2> QED BY <2>3, <2>6, <2>7, <2>8, <2>9 DEF e, x
<1>2. CASE CheckDial(s.d, n, con) # "ok"
  <2>1. e = s BY <1>2 DEF TryDynamic
  <2> QED BY <2>1 DEF Goes
<1> QED BY <1>1, <1>2

\* A lookup result is tried.
LEMMA TryLookupSound ==
    ASSUME NEW s, NEW D0, NEW H, NEW con, TrySound(s, D0, H, con), NEW n \in Ids
    PROVE  LET e == TryLookup(s, n, con)
           IN  /\ TrySound(e, D0, H, con) /\ Goes(s, e) /\ Count(e) = Count(s)
               /\ s.need > 0 => e.need >= 0
               /\ s.need <= 0 => e = s
<1> DEFINE e == TryLookup(s, n, con)
<1>0. s.need \in Int /\ s.tried \in Nat BY DEF TrySound
<1>1. CASE s.need > 0
  <2> DEFINE b == TryDynamic(s, n, con)
             x == s.tried + 1
  <2>1. e = [b EXCEPT !.tried = x] BY <1>1 DEF TryLookup
  <2> HIDE DEF b
  <2>2. TrySound(b, D0, H, con) /\ Goes(s, b) /\ b.need \in {s.need, s.need - 1} /\ Count(b) = Count(s)
    BY TryDynamicSound DEF b
  <2>3. IsTry(b) BY <2>2 DEF TrySound
  <2>4. x \in Nat BY <1>0
  <2> HIDE DEF e, x
  <2>5. IsTry(e) /\ e.d = b.d /\ e.tasks = b.tasks /\ e.need = b.need /\ e.tried = x BY <2>1, <2>3 DEF IsTry, TryFields
  <2>6. TrySound(e, D0, H, con) BY <2>2, <2>4, <2>5 DEF TrySound
  <2>7. Goes(s, e) BY <2>2, <2>5 DEF Goes
  <2>8. Count(e) = Count(s) BY <2>2, <2>5 DEF Count
  <2>9. e.need >= 0 BY <1>0, <1>1, <2>2, <2>5
  <2> QED BY <1>0, <1>1, <2>6, <2>7, <2>8, <2>9 DEF e
<1>2. CASE s.need <= 0
  <2>1. e = s BY <1>0, <1>2 DEF TryLookup
  <2> QED BY <1>0, <1>2, <2>1 DEF Goes
<1> QED BY <1>0, <1>1, <1>2

\* The rounds of a loop of newTasks, as a function of their number.
Tries(f, s, loop, nodes, con, n) ==
    \A k \in 0..n : f[k] = IF k = 0 THEN s ELSE Try(f[k - 1], loop, nodes[k], con)

\* A loop of newTasks has a value after each of its rounds.
LEMMA TriesRun ==
    ASSUME NEW s, NEW loop, NEW nodes, NEW con
    PROVE  \A n \in Nat : \E f : f = [k \in 0..n |-> f[k]] /\ Tries(f, s, loop, nodes, con, n)
<1> DEFINE P == {n \in Nat : \E f : f = [k \in 0..n |-> f[k]] /\ Tries(f, s, loop, nodes, con, n)}
<1>1. 0 \in P
  <2> DEFINE f == [k \in 0..0 |-> s]
  <2>1. f = [k \in 0..0 |-> f[k]] /\ Tries(f, s, loop, nodes, con, 0) BY DEF Tries
  <2> QED BY <2>1
<1>2. ASSUME NEW n \in Nat, n \in P PROVE n + 1 \in P
  <2>1. PICK f : f = [k \in 0..n |-> f[k]] /\ Tries(f, s, loop, nodes, con, n) BY <1>2
  <2> DEFINE last == Try(f[n], loop, nodes[n + 1], con)
             h == [k \in 0..(n + 1) |-> IF k = n + 1 THEN last ELSE f[k]]
  <2>2. h = [k \in 0..(n + 1) |-> h[k]] OBVIOUS
  <2>3. ASSUME NEW k \in 0..(n + 1)
        PROVE  h[k] = IF k = 0 THEN s ELSE Try(h[k - 1], loop, nodes[k], con)
    <3>1. CASE k = n + 1
      <4>1. h[n] = f[n] /\ k # 0 /\ k - 1 = n /\ h[k] = last BY <3>1
      <4> HIDE DEF h
      <4> QED BY <3>1, <4>1
    <3>2. CASE k \in 0..n
      <4>1. h[k] = f[k] /\ (k # 0 => h[k - 1] = f[k - 1]) BY <3>2
      <4>2. f[k] = IF k = 0 THEN s ELSE Try(f[k - 1], loop, nodes[k], con) BY <2>1, <3>2 DEF Tries
      <4> HIDE DEF h
      <4> QED BY <4>1, <4>2
    <3> QED BY <3>1, <3>2
  <2> HIDE DEF h
  <2>4. Tries(h, s, loop, nodes, con, n + 1) BY <2>3 DEF Tries
  <2>5. \E g : g = [k \in 0..(n + 1) |-> g[k]] /\ Tries(g, s, loop, nodes, con, n + 1) BY <2>2, <2>4
  <2> QED BY <2>5
<1> HIDE DEF P
<1>3. P = Nat
  <2>1. P \in SUBSET Nat BY DEF P
  <2> QED BY <1>1, <1>2, <2>1, Induction
<1> QED BY <1>3 DEF P

\* TryAll is the value after the last round.
LEMMA TryAllIs ==
    ASSUME NEW s, NEW loop, NEW nodes, NEW con, Len(nodes) \in Nat
    PROVE  \E f : Tries(f, s, loop, nodes, con, Len(nodes)) /\ TryAll(s, loop, nodes, con) = f[Len(nodes)]
<1> DEFINE N == Len(nodes)
           F(f) == [k \in 0..N |-> IF k = 0 THEN s ELSE Try(f[k - 1], loop, nodes[k], con)]
           try == CHOOSE f : f = F(f)
<1>1. TryAll(s, loop, nodes, con) = try[N] BY DEF TryAll
<1> HIDE DEF N
<1>0. N \in Nat BY DEF N
<1>2. \E f : f = F(f)
  <2>1. PICK f : f = [k \in 0..N |-> f[k]] /\ Tries(f, s, loop, nodes, con, N) BY <1>0, TriesRun, Zenon
  <2>2. \A k \in 0..N : f[k] = F(f)[k] BY <2>1 DEF Tries
  <2>3. f = F(f) BY <2>1, <2>2
  <2> QED BY <2>3
<1>3. try = F(try) BY <1>2
<1> HIDE DEF try
<1>4. Tries(try, s, loop, nodes, con, N)
  <2> SUFFICES ASSUME NEW k \in 0..N
               PROVE  try[k] = IF k = 0 THEN s ELSE Try(try[k - 1], loop, nodes[k], con)
    BY DEF Tries
  <2> QED BY <1>3
<1> QED BY <1>1, <1>4 DEF N

\* What a loop may do: the dials it adds are sound, and it dials no more nodes
\* dynamically than are needed.
Share(s, e) ==
    /\ Count(e) = Count(s)
    /\ s.need >= 0 => e.need >= 0
    /\ s.need < 0 => Dyn(e.d.dialing) = Dyn(s.d.dialing) /\ e.need = s.need
Tried(s, e, D0, H, con) == TrySound(e, D0, H, con) /\ Goes(s, e) /\ Share(s, e)

\* Two loops in a row respect the share.
LEMMA TriedTwice ==
    ASSUME NEW s, NEW e, NEW g, NEW D0, NEW H, NEW con, Tried(s, e, D0, H, con), Tried(e, g, D0, H, con)
    PROVE  Tried(s, g, D0, H, con)
BY DEF Tried, Goes, Share

\* The static nodes.
LEMMA StaticTried ==
    ASSUME NEW s, NEW D0, NEW H, NEW con, TrySound(s, D0, H, con), NEW nodes \in Seq(Ids)
    PROVE  Tried(s, TryAll(s, "static", nodes, con), D0, H, con)
<1> DEFINE N == Len(nodes)
           Q(e) == TrySound(e, D0, H, con) /\ Goes(s, e) /\ e.need = s.need /\ Dyn(e.d.dialing) = Dyn(s.d.dialing)
<1>0. N \in Nat /\ \A k \in 1..N : nodes[k] \in Ids OBVIOUS
<1>1. PICK f : Tries(f, s, "static", nodes, con, N) /\ TryAll(s, "static", nodes, con) = f[N] BY <1>0, TryAllIs, Zenon
<1> HIDE DEF N
<1> DEFINE P == {n \in Nat : n <= N => Q(f[n])}
<1>2. 0 \in P
  <2>1. f[0] = s BY <1>0, <1>1 DEF Tries
  <2> QED BY <2>1 DEF Goes
<1>3. ASSUME NEW n \in Nat, n \in P PROVE n + 1 \in P
  <2> SUFFICES ASSUME n + 1 <= N PROVE Q(f[n + 1]) OBVIOUS
  <2>1. f[n + 1] = Try(f[n], "static", nodes[n + 1], con) /\ nodes[n + 1] \in Ids
    <3>1. n + 1 \in 0..N /\ n + 1 \in 1..N /\ n + 1 # 0 /\ (n + 1) - 1 = n BY <1>0
    <3> QED BY <1>0, <1>1, <3>1 DEF Tries
  <2>2. Q(f[n]) BY <1>0, <1>3
  <2>3. PICK a : a = f[n] OBVIOUS
  <2>4. f[n + 1] = TryStatic(a, nodes[n + 1], con) BY <2>1, <2>3 DEF Try
  <2>d. PICK m \in Ids : m = nodes[n + 1] BY <2>1
  <2>c. TrySound(a, D0, H, con) BY <2>2, <2>3
  <2>5. PICK b : b = TryStatic(a, m, con) OBVIOUS
  <2>6. TrySound(b, D0, H, con) /\ Goes(a, b) /\ b.need = a.need /\ Dyn(b.d.dialing) = Dyn(a.d.dialing)
    BY <2>5, <2>c, TryStaticSound
  <2>7. Goes(s, b) BY <2>2, <2>3, <2>6 DEF Goes
  <2> QED BY <2>2, <2>3, <2>4, <2>5, <2>6, <2>7, <2>d
<1> HIDE DEF P
<1>4. N \in P
  <2>1. P \in SUBSET Nat BY DEF P
  <2>2. P = Nat BY <1>2, <1>3, <2>1, Induction
  <2> QED BY <1>0, <2>2
<1>5. Q(f[N]) BY <1>0, <1>4 DEF P
<1>6. Share(s, f[N])
  <2>1. s.need \in Int BY DEF TrySound
  <2> QED BY <1>5, <2>1 DEF Share, Count
<1> QED BY <1>1, <1>5, <1>6 DEF Tried

\* Random nodes, at most as many as are needed.
LEMMA RandomTried ==
    ASSUME NEW s, NEW D0, NEW H, NEW con, TrySound(s, D0, H, con), NEW nodes \in Seq(Ids),
           Len(nodes) = 0 \/ Len(nodes) <= s.need
    PROVE  Tried(s, TryAll(s, "random", nodes, con), D0, H, con)
<1> DEFINE N == Len(nodes)
           Q(e, n) == TrySound(e, D0, H, con) /\ Goes(s, e) /\ e.need >= s.need - n /\ Count(e) = Count(s)
                      /\ (n = 0 => e = s)
<1>0. N \in Nat /\ (\A k \in 1..N : nodes[k] \in Ids) /\ s.need \in Int BY DEF TrySound
<1>1. PICK f : Tries(f, s, "random", nodes, con, N) /\ TryAll(s, "random", nodes, con) = f[N] BY <1>0, TryAllIs, Zenon
<1>a. N = 0 \/ N <= s.need OBVIOUS
<1> HIDE DEF N
<1> DEFINE P == {n \in Nat : n <= N => Q(f[n], n)}
<1>2. 0 \in P
  <2>1. f[0] = s BY <1>0, <1>1 DEF Tries
  <2> QED BY <1>0, <2>1 DEF Goes
<1>3. ASSUME NEW n \in Nat, n \in P PROVE n + 1 \in P
  <2> SUFFICES ASSUME n + 1 <= N PROVE Q(f[n + 1], n + 1) OBVIOUS
  <2>1. f[n + 1] = Try(f[n], "random", nodes[n + 1], con) /\ nodes[n + 1] \in Ids
    <3>1. n + 1 \in 0..N /\ n + 1 \in 1..N /\ n + 1 # 0 /\ (n + 1) - 1 = n BY <1>0
    <3> QED BY <1>0, <1>1, <3>1 DEF Tries
  <2>2. Q(f[n], n) BY <1>0, <1>3
  <2>3. PICK a : a = f[n] OBVIOUS
  <2>4. f[n + 1] = TryDynamic(a, nodes[n + 1], con) BY <2>1, <2>3 DEF Try
  <2>c. TrySound(a, D0, H, con) BY <2>2, <2>3
  <2>5. PICK b : b = TryDynamic(a, nodes[n + 1], con) OBVIOUS
  <2>6. TrySound(b, D0, H, con) /\ Goes(a, b) /\ b.need \in {a.need, a.need - 1} /\ Count(b) = Count(a)
    BY <2>1, <2>5, <2>c, TryDynamicSound, Zenon
  <2>7. Goes(s, b) BY <2>2, <2>3, <2>6 DEF Goes
  <2>8. a.need \in Int BY <2>2, <2>3 DEF TrySound
  <2>9. b.need >= s.need - (n + 1) BY <1>0, <2>2, <2>3, <2>6, <2>8
  <2> QED BY <2>2, <2>3, <2>4, <2>5, <2>6, <2>7, <2>9
<1> HIDE DEF P
<1>4. N \in P
  <2>1. P \in SUBSET Nat BY DEF P
  <2>2. P = Nat BY <1>2, <1>3, <2>1, Induction
  <2> QED BY <1>0, <2>2
<1>5. Q(f[N], N) BY <1>0, <1>4 DEF P
<1>6. Share(s, f[N])
  <2>1. PICK e : e = f[N] OBVIOUS
  <2>2. e.need \in Int BY <1>5, <2>1 DEF TrySound
  <2>3. s.need >= 0 => e.need >= 0 BY <1>0, <1>a, <1>5, <2>1, <2>2
  <2>4. s.need < 0 => e = s BY <1>0, <1>a, <1>5, <2>1
  <2> QED BY <1>5, <2>1, <2>3, <2>4 DEF Share
<1> QED BY <1>1, <1>5, <1>6 DEF Tried

\* The results of lookups.
LEMMA LookupTried ==
    ASSUME NEW s, NEW D0, NEW H, NEW con, TrySound(s, D0, H, con), NEW nodes \in Seq(Ids)
    PROVE  Tried(s, TryAll(s, "lookup", nodes, con), D0, H, con)
<1> DEFINE N == Len(nodes)
<1>0. N \in Nat /\ (\A k \in 1..N : nodes[k] \in Ids) OBVIOUS
<1>1. PICK f : Tries(f, s, "lookup", nodes, con, N) /\ TryAll(s, "lookup", nodes, con) = f[N] BY <1>0, TryAllIs, Zenon
<1> HIDE DEF N
<1> DEFINE P == {n \in Nat : n <= N => Tried(s, f[n], D0, H, con)}
<1>2. 0 \in P
  <2>1. f[0] = s BY <1>0, <1>1 DEF Tries
  <2>2. Tried(s, s, D0, H, con) BY DEF Tried, Goes, Share
  <2> QED BY <2>1, <2>2
<1>3. ASSUME NEW n \in Nat, n \in P PROVE n + 1 \in P
  <2> SUFFICES ASSUME n + 1 <= N PROVE Tried(s, f[n + 1], D0, H, con) OBVIOUS
  <2>1. f[n + 1] = Try(f[n], "lookup", nodes[n + 1], con) /\ nodes[n + 1] \in Ids
    <3>1. n + 1 \in 0..N /\ n + 1 \in 1..N /\ n + 1 # 0 /\ (n + 1) - 1 = n BY <1>0
    <3> QED BY <1>0, <1>1, <3>1 DEF Tries
  <2>2. PICK a : a = f[n] OBVIOUS
  <2>3. Tried(s, a, D0, H, con) BY <1>0, <1>3, <2>2
  <2>4. f[n + 1] = TryLookup(a, nodes[n + 1], con) BY <2>1, <2>2 DEF Try
  <2>5. PICK b : b = TryLookup(a, nodes[n + 1], con) OBVIOUS
  <2>6. TrySound(a, D0, H, con) /\ a.need \in Int BY <2>3 DEF Tried, TrySound
  <2>7. /\ TrySound(b, D0, H, con) /\ Goes(a, b) /\ Count(b) = Count(a)
        /\ a.need > 0 => b.need >= 0
        /\ a.need <= 0 => b = a
    BY <2>1, <2>5, <2>6, TryLookupSound
  <2>8. Tried(a, b, D0, H, con)
    <3>1. CASE a.need > 0 BY <2>6, <2>7, <3>1 DEF Tried, Share
    <3>2. CASE a.need <= 0
      <4>1. b = a BY <2>7, <3>2
      <4> QED BY <2>6, <4>1 DEF Tried, Share, Goes
    <3> QED BY <2>6, <3>1, <3>2
  <2>9. Tried(s, b, D0, H, con) BY <2>3, <2>8, TriedTwice
  <2> QED BY <2>4, <2>5, <2>9
<1> HIDE DEF P
<1>4. N \in P
  <2>1. P \in SUBSET Nat BY DEF P
  <2>2. P = Nat BY <1>2, <1>3, <2>1, Induction
  <2> QED BY <1>0, <2>2
<1> QED BY <1>0, <1>1, <1>4 DEF P

\* A task that is no dial is added to the tasks.
LEMMA NewDialsOther ==
    ASSUME NEW ts \in Seq(TaskSet), NEW D0, NEW D, NEW H, NEW con, NewDials(ts, D0, D, H, con),
           NEW t \in TaskSet, t.kind # "dial", NEW us, us = Append(ts, t)
    PROVE  us \in Seq(TaskSet) /\ NewDials(us, D0, D, H, con)
<1>1. /\ Len(ts) \in Nat /\ us \in Seq(TaskSet) /\ Len(us) = Len(ts) + 1 /\ us[Len(ts) + 1] = t
      /\ \A j \in 1..Len(ts) : us[j] = ts[j]
  <2> HIDE DEF TaskSet
  <2> QED OBVIOUS
<1>2. \A j \in 1..Len(us) : us[j].kind = "dial" => j \in 1..Len(ts) /\ us[j] = ts[j]
  <2> SUFFICES ASSUME NEW j \in 1..Len(us), us[j].kind = "dial" PROVE j \in 1..Len(ts) /\ us[j] = ts[j] OBVIOUS
  <2>1. CASE j = Len(ts) + 1 BY <1>1, <2>1
  <2>2. CASE j \in 1..Len(ts) BY <1>1, <2>2
  <2> QED BY <1>1, <2>1, <2>2
<1>3. \A j \in 1..Len(us) : us[j].kind = "dial" => D0[us[j].id] = "none" /\ D[us[j].id] = us[j].flag
  BY <1>2 DEF NewDials
<1>4. ASSUME NEW i \in Ids, D0[i] = "none", D[i] # "none"
      PROVE  \E j \in 1..Len(us) : us[j].kind = "dial" /\ us[j].id = i
  <2>1. PICK j \in 1..Len(ts) : ts[j].kind = "dial" /\ ts[j].id = i BY <1>4 DEF NewDials
  <2> QED BY <1>1, <2>1
<1>5. DialsOnce(us)
  <2> SUFFICES ASSUME NEW j \in 1..Len(us), NEW k \in 1..Len(us), us[j].kind = "dial", us[k].kind = "dial",
                      us[j].id = us[k].id
               PROVE  j = k
    BY DEF DialsOnce
  <2>1. j \in 1..Len(ts) /\ us[j] = ts[j] /\ k \in 1..Len(ts) /\ us[k] = ts[k] BY <1>2
  <2>2. DialsOnce(ts) BY DEF NewDials
  <2> QED BY <2>1, <2>2 DEF DialsOnce
<1>6. \A i \in Ids : D[i] = D0[i] \/ (D0[i] = "none" /\ i \notin con /\ \A k \in 1..Len(H) : H[k] # i)
  BY DEF NewDials
<1> QED BY <1>1, <1>3, <1>4, <1>5, <1>6 DEF NewDials

\* What newTasks does: the history is shorter, the dials are new and marked, and
\* dynamic dials are added only while they are needed.
NewTasksSound(d0, con, dynPeers, n) ==
    /\ DialSound(n.d) /\ n.d.maxDynDials = d0.maxDynDials /\ n.tasks \in Seq(TaskSet)
    /\ NewDials(n.tasks, d0.dialing, n.d.dialing, n.d.hist, con)
    /\ \/ Dyn(n.d.dialing) = Dyn(d0.dialing)
       \/ dynPeers + Cardinality(Dyn(n.d.dialing)) <= d0.maxDynDials

\* newTasks begins.
LEMMA BeginTasksSound ==
    ASSUME NEW d0, DialSound(d0), NEW con, NEW dynPeers \in Nat
    PROVE  LET s == BeginTasks(d0, dynPeers)
           IN  /\ TrySound(s, d0.dialing, s.d.hist, con) /\ s.d.dialing = d0.dialing
               /\ HistSound(s.d) /\ s.d.maxDynDials = d0.maxDynDials
               /\ s.d.lookupBuf = d0.lookupBuf /\ s.d.bootNodes = d0.bootNodes
               /\ Count(s) = d0.maxDynDials - dynPeers
<1> DEFINE g == d0.hist
           due == d0.due
           h == SubSeq(g, due + 1, Len(g))
           z == IF d0.start = "zero" THEN "recent" ELSE d0.start
           d1 == [d0 EXCEPT !.hist = h, !.due = 0, !.start = z]
           need == NeedDynDials(d0, dynPeers)
           s == BeginTasks(d0, dynPeers)
<1>1. s = [d |-> d1, tasks |-> <<>>, need |-> need, tried |-> 0] BY DEF BeginTasks
<1>2. DialTyped(d0) /\ IsDial(d0) /\ HistSound(d0) BY DEF DialSound, DialTyped
<1>3. d0.hist \in Seq(Ids) /\ Len(d0.hist) \in Nat /\ d0.due \in 0..Len(d0.hist) BY <1>2 DEF DialTyped
<1>4. /\ h \in Seq(Ids) /\ Len(h) = Len(g) - due
      /\ \A k \in 1..Len(h) : h[k] = g[due + k] /\ due + k \in 1..Len(g)
  <2>1. g \in Seq(Ids) /\ Len(g) \in Nat /\ due \in 0..Len(g) BY <1>3
  <2> HIDE DEF g, due
  <2>2. h \in Seq(Ids) /\ Len(h) = Len(g) - due
    <3>1. CASE due + 1 <= Len(g)
      <4>1. \A i \in (due + 1)..Len(g) : g[i] \in Ids BY <2>1
      <4> QED BY <2>1, <3>1, <4>1
    <3>2. CASE due = Len(g) BY <2>1, <3>2
    <3> QED BY <2>1, <3>1, <3>2
  <2>3. ASSUME NEW k \in 1..Len(h) PROVE h[k] = g[due + k] /\ due + k \in 1..Len(g)
    <3>1. k \in 1..(Len(g) - due) BY <2>2
    <3>2. h[k] = g[(due + 1) + k - 1] BY <2>1, <3>1
    <3> QED BY <2>1, <3>1, <3>2
  <2> QED BY <2>2, <2>3
<1> HIDE DEF h, z, s, need
<1>5. Kept(d0, d1, {"hist", "due", "start"}) /\ d1.hist = h /\ d1.due = 0
  BY <1>2 DEF IsDial, Kept, DialFields
<1> HIDE DEF d1
<1>6. /\ d1.maxDynDials = d0.maxDynDials /\ d1.dialing = d0.dialing /\ d1.static = d0.static
      /\ d1.lookupBuf = d0.lookupBuf /\ d1.bootNodes = d0.bootNodes
  BY <1>5 DEF Kept, DialFields
<1>7. DialTyped(d1)
  <2>1. 0 \in 0..Len(h) BY <1>3, <1>4
  <2> QED BY <1>2, <1>4, <1>5, <1>6, <2>1 DEF DialTyped, Kept
<1>8. HistSound(d1)
  <2>1. Once(h)
    <3> SUFFICES ASSUME NEW j \in 1..Len(h), NEW k \in 1..Len(h), h[j] = h[k] PROVE j = k BY DEF Once
    <3>1. Once(g) BY <1>2 DEF HistSound
    <3>2. g[due + j] = g[due + k] /\ due + j \in 1..Len(g) /\ due + k \in 1..Len(g) BY <1>4
    <3>3. due + j = due + k BY <3>1, <3>2 DEF Once
    <3> QED BY <1>3, <1>4, <3>3
  <2>2. \A k \in 1..Len(h) : d0.dialing[h[k]] = "none" BY <1>2, <1>4 DEF HistSound
  <2> QED BY <1>5, <1>6, <2>1, <2>2 DEF HistSound
<1>9. need \in Int /\ Cardinality(Dyn(d0.dialing)) + need = d0.maxDynDials - dynPeers
  <2>1. Dyn(d0.dialing) \in SUBSET Ids BY DEF Dyn
  <2>2. Cardinality(Dyn(d0.dialing)) \in Nat BY <2>1, DialAssumption, FS_Subset, FS_CardinalityType
  <2>3. need = d0.maxDynDials - dynPeers - Cardinality(Dyn(d0.dialing)) BY DEF need, NeedDynDials, Dyn
  <2>4. d0.maxDynDials \in Int BY <1>2 DEF DialTyped
  <2> QED BY <2>2, <2>3, <2>4
<1>10. IsTry(s) /\ s.d = d1 /\ s.tasks = <<>> /\ s.need = need /\ s.tried = 0 BY <1>1 DEF IsTry, TryFields
<1>11. NewDials(<<>>, d0.dialing, d1.dialing, d1.hist, con) BY <1>6 DEF NewDials, DialsOnce
<1>12. s.tasks \in Seq(TaskSet)
  <2> HIDE DEF TaskSet
  <2> QED BY <1>10
<1>13. TrySound(s, d0.dialing, d1.hist, con) BY <1>7, <1>9, <1>10, <1>11, <1>12 DEF TrySound
<1> QED BY <1>6, <1>8, <1>9, <1>10, <1>13 DEF Count, s

\* A boot node.
LEMMA BootTried ==
    ASSUME NEW s, NEW D0, NEW H, NEW con, TrySound(s, D0, H, con)
    PROVE  LET e == TryBoot(s, con)
           IN  TrySound(e, D0, H, con) /\ Share(s, e) /\ e.d.maxDynDials = s.d.maxDynDials
               /\ e.d.lookupBuf = s.d.lookupBuf
<1> DEFINE e == TryBoot(s, con)
           go == con = {} /\ s.d.bootNodes # <<>> /\ s.need > 0 /\ s.d.start = "long"
<1>0. IsTry(s) /\ DialTyped(s.d) /\ IsDial(s.d) /\ s.need \in Int BY DEF TrySound, DialTyped
<1>1. CASE go
  <2> DEFINE bn == Append(Tail(s.d.bootNodes), Head(s.d.bootNodes))
             y == RotateBootNodes(s.d)
             r == [s EXCEPT !.d = y]
             m == Head(s.d.bootNodes)
  <2>1. e = TryDynamic(r, m, con) BY <1>1 DEF TryBoot
  <2>2. m \in Ids /\ bn \in Seq(Ids) BY <1>0, <1>1 DEF DialTyped
  <2>3. y = [s.d EXCEPT !.bootNodes = bn] BY DEF RotateBootNodes
  <2> HIDE DEF bn, y, m
  <2>4. Kept(s.d, y, {"bootNodes"}) /\ y.bootNodes = bn BY <1>0, <2>3 DEF IsDial, Kept, DialFields
  <2>5. /\ y.maxDynDials = s.d.maxDynDials /\ y.dialing = s.d.dialing /\ y.due = s.d.due /\ y.hist = s.d.hist
        /\ y.lookupBuf = s.d.lookupBuf /\ y.static = s.d.static
    BY <2>4 DEF Kept, DialFields
  <2>6. DialTyped(y) BY <1>0, <2>2, <2>4, <2>5 DEF DialTyped, Kept
  <2>7. IsTry(r) /\ r.d = y /\ r.tasks = s.tasks /\ r.need = s.need /\ r.tried = s.tried BY <1>0 DEF IsTry, TryFields
  <2> HIDE DEF r, e
  <2>8. TrySound(r, D0, H, con) BY <2>5, <2>6, <2>7 DEF TrySound
  <2>9. TrySound(e, D0, H, con) /\ Goes(r, e) /\ e.need \in {r.need, r.need - 1} /\ Count(e) = Count(r)
    BY <2>1, <2>2, <2>8, TryDynamicSound
  <2>10. Count(r) = Count(s) BY <2>5, <2>7 DEF Count
  <2>11. e.need >= 0 BY <1>0, <1>1, <2>7, <2>9
  <2>12. Share(s, e) BY <1>0, <1>1, <2>9, <2>10, <2>11 DEF Share
  <2> QED BY <2>5, <2>7, <2>9, <2>12 DEF Goes, e
<1>2. CASE ~go
  <2>1. e = s BY <1>2 DEF TryBoot
  <2> QED BY <2>1 DEF Share
<1> QED BY <1>1, <1>2

\* The three loops and the boot node.
LEMMA TryNodesSound ==
    ASSUME NEW d0, DialSound(d0), NEW con, NEW dynPeers \in Nat, NEW order \in Seq(Ids), NEW random \in Seq(Ids)
    PROVE  LET s == TryNodes(d0, con, dynPeers, order, random)
           IN  /\ TrySound(s, d0.dialing, s.d.hist, con) /\ HistSound(s.d)
               /\ s.d.maxDynDials = d0.maxDynDials /\ s.d.lookupBuf = d0.lookupBuf
               /\ \/ Dyn(s.d.dialing) = Dyn(d0.dialing)
                  \/ dynPeers + Cardinality(Dyn(s.d.dialing)) <= d0.maxDynDials
<1> DEFINE D0 == d0.dialing
           s1 == BeginTasks(d0, dynPeers)
           H == s1.d.hist
           s2 == TryAll(s1, "static", order, con)
           s3 == TryBoot(s2, con)
           half == IF s3.need \div 2 < Len(random) THEN s3.need \div 2 ELSE Len(random)
           some == SubSeq(random, 1, half)
           s4 == TryAll(s3, "random", some, con)
           s5 == TryAll(s4, "lookup", d0.lookupBuf, con)
           s == TryNodes(d0, con, dynPeers, order, random)
<1>0. s = s5 BY DEF TryNodes
<1> HIDE DEF s1, s2, s3, s4, s5, s
<1>1. /\ TrySound(s1, D0, H, con) /\ s1.d.dialing = D0 /\ HistSound(s1.d)
      /\ s1.d.maxDynDials = d0.maxDynDials /\ s1.d.lookupBuf = d0.lookupBuf /\ s1.d.bootNodes = d0.bootNodes
      /\ Count(s1) = d0.maxDynDials - dynPeers
  BY BeginTasksSound, Zenon DEF s1
<1> HIDE DEF H, D0
<1>a. d0.bootNodes \in Seq(Ids) /\ d0.lookupBuf \in Seq(Ids) /\ d0.maxDynDials \in Int
  BY DEF DialSound, DialTyped
<1>2. Tried(s1, s2, D0, H, con) BY <1>1, StaticTried, Zenon DEF s2
<1>3. /\ TrySound(s2, D0, H, con) /\ Share(s1, s2) /\ s2.d.maxDynDials = d0.maxDynDials
      /\ s2.d.lookupBuf = d0.lookupBuf /\ s2.d.bootNodes = d0.bootNodes
  BY <1>1, <1>2 DEF Tried, Goes
<1>4. /\ TrySound(s3, D0, H, con) /\ Share(s2, s3) /\ s3.d.maxDynDials = s2.d.maxDynDials
      /\ s3.d.lookupBuf = s2.d.lookupBuf
  BY <1>3, BootTried, Zenon DEF s3
<1>5. some \in Seq(Ids) /\ (Len(some) = 0 \/ Len(some) <= s3.need)
  <2>1. s3.need \in Int BY <1>4 DEF TrySound
  <2>2. PICK q : q = s3.need \div 2 OBVIOUS
  <2>3. q \in Int /\ (q > 0 => q <= s3.need) BY <2>1, <2>2
  <2>4. half \in Int /\ half <= q /\ half <= Len(random) BY <2>2, <2>3
  <2> HIDE DEF half
  <2>5. CASE half <= 0
    <3>1. some \in Seq(Ids) /\ Len(some) = 0 BY <2>4, <2>5
    <3> QED BY <3>1
  <2>6. CASE half > 0
    <3>1. some \in Seq(Ids) /\ Len(some) = half BY <2>4, <2>6
    <3> QED BY <2>1, <2>3, <2>4, <2>6, <3>1
  <2> QED BY <2>4, <2>5, <2>6
<1> HIDE DEF some
<1>6. Tried(s3, s4, D0, H, con) BY <1>4, <1>5, RandomTried, Zenon DEF s4
<1>7. TrySound(s4, D0, H, con) BY <1>6 DEF Tried
<1>8. Tried(s4, s5, D0, H, con) BY <1>7, <1>a, LookupTried, Zenon DEF s5
<1>9. TrySound(s5, D0, H, con) BY <1>8 DEF Tried
<1>10. /\ s5.d.hist = H /\ s5.d.maxDynDials = d0.maxDynDials /\ s5.d.lookupBuf = d0.lookupBuf
  BY <1>3, <1>4, <1>6, <1>8, <1>9 DEF Tried, Goes, TrySound
<1>11. HistSound(s5.d)
  <2>1. Once(H) /\ \A k \in 1..Len(H) : D0[H[k]] = "none" BY <1>1 DEF HistSound, H
  <2>2. H \in Seq(Ids) BY <1>1 DEF TrySound, DialTyped
  <2>3. ASSUME NEW k \in 1..Len(H) PROVE s5.d.dialing[H[k]] = "none"
    <3>1. H[k] \in Ids BY <2>2
    <3>2. NewDials(s5.tasks, D0, s5.d.dialing, H, con) BY <1>9 DEF TrySound
    <3>3. s5.d.dialing[H[k]] = D0[H[k]] BY <3>1, <3>2 DEF NewDials
    <3> QED BY <2>1, <3>3
  <2> QED BY <1>10, <2>1, <2>3 DEF HistSound
<1>12. \/ Dyn(s5.d.dialing) = Dyn(D0)
       \/ dynPeers + Cardinality(Dyn(s5.d.dialing)) <= d0.maxDynDials
  <2>1. Share(s1, s2) /\ Share(s2, s3) /\ Share(s3, s4) /\ Share(s4, s5) BY <1>3, <1>4, <1>6, <1>8 DEF Tried
  <2>2. s1.need \in Int /\ s2.need \in Int /\ s3.need \in Int /\ s4.need \in Int /\ s5.need \in Int
    BY <1>1, <1>3, <1>4, <1>7, <1>9 DEF TrySound
  <2>3. Count(s5) = d0.maxDynDials - dynPeers BY <1>1, <2>1 DEF Share
  <2>4. CASE s1.need < 0
    <3>1. Dyn(s5.d.dialing) = Dyn(s1.d.dialing) BY <2>1, <2>2, <2>4 DEF Share
    <3> QED BY <1>1, <3>1
  <2>5. CASE s1.need >= 0
    <3>1. s5.need >= 0 BY <2>1, <2>2, <2>5 DEF Share
    <3>2. Dyn(s5.d.dialing) \in SUBSET Ids BY DEF Dyn
    <3>3. Cardinality(Dyn(s5.d.dialing)) \in Nat BY <3>2, DialAssumption, FS_Subset, FS_CardinalityType
    <3> QED BY <1>a, <2>2, <2>3, <3>1, <3>3 DEF Count
  <2> QED BY <2>2, <2>4, <2>5
<1>13. /\ TrySound(s, d0.dialing, s.d.hist, con) /\ HistSound(s.d)
       /\ s.d.maxDynDials = d0.maxDynDials /\ s.d.lookupBuf = d0.lookupBuf
       /\ \/ Dyn(s.d.dialing) = Dyn(d0.dialing)
          \/ dynPeers + Cardinality(Dyn(s.d.dialing)) <= d0.maxDynDials
  BY <1>0, <1>9, <1>10, <1>11, <1>12 DEF D0
<1> QED BY <1>13, Zenon DEF s

\* newTasks.
LEMMA NewTasksAre ==
    ASSUME NEW d0, DialSound(d0), NEW con, NEW nRunning, NEW dynPeers \in Nat,
           NEW order \in Seq(Ids), NEW random \in Seq(Ids)
    PROVE  NewTasksSound(d0, con, dynPeers, NewTasks(d0, nRunning, con, dynPeers, order, random))
<1> DEFINE s == TryNodes(d0, con, dynPeers, order, random)
           lb == d0.lookupBuf
           buf == SubSeq(lb, s.tried + 1, Len(lb))
           look == Len(buf) < s.need /\ ~s.d.lookupRunning
           ts == IF look THEN Append(s.tasks, DiscoverTask) ELSE s.tasks
           run == IF look THEN TRUE ELSE s.d.lookupRunning
           d == [s.d EXCEPT !.lookupBuf = buf, !.lookupRunning = run]
           us == ts \o Timer(d, nRunning, ts)
           n == NewTasks(d0, nRunning, con, dynPeers, order, random)
<1>1. n = [d |-> d, tasks |-> us] BY DEF NewTasks
<1> HIDE DEF s, n
<1>2. /\ TrySound(s, d0.dialing, s.d.hist, con) /\ HistSound(s.d)
      /\ s.d.maxDynDials = d0.maxDynDials /\ s.d.lookupBuf = d0.lookupBuf
      /\ \/ Dyn(s.d.dialing) = Dyn(d0.dialing)
         \/ dynPeers + Cardinality(Dyn(s.d.dialing)) <= d0.maxDynDials
  BY TryNodesSound, Zenon DEF s
<1>3. /\ DialTyped(s.d) /\ IsDial(s.d) /\ s.tried \in Nat /\ s.tasks \in Seq(TaskSet)
      /\ NewDials(s.tasks, d0.dialing, s.d.dialing, s.d.hist, con)
  BY <1>2 DEF TrySound, DialTyped
<1>4. buf \in Seq(Ids)
  <2>1. lb \in Seq(Ids) /\ s.tried \in Nat BY <1>3 DEF DialSound, DialTyped
  <2> HIDE DEF lb
  <2>2. CASE s.tried + 1 <= Len(lb)
    <3>1. \A i \in (s.tried + 1)..Len(lb) : lb[i] \in Ids BY <2>1
    <3> QED BY <2>1, <2>2, <3>1
  <2>3. CASE ~(s.tried + 1 <= Len(lb)) BY <2>1, <2>3
  <2> QED BY <2>1, <2>2, <2>3
<1>5. PICK r : r = run BY Zenon
<1>6. d = [s.d EXCEPT !.lookupBuf = buf, !.lookupRunning = r] BY <1>5, Zenon
<1> HIDE DEF buf, d
<1>7. Kept(s.d, d, {"lookupBuf", "lookupRunning"}) /\ d.lookupBuf = buf BY <1>3, <1>6 DEF IsDial, Kept, DialFields
<1>8. /\ d.maxDynDials = s.d.maxDynDials /\ d.dialing = s.d.dialing /\ d.due = s.d.due /\ d.hist = s.d.hist
      /\ d.static = s.d.static /\ d.bootNodes = s.d.bootNodes
  BY <1>7 DEF Kept, DialFields
<1>9. DialTyped(d) BY <1>3, <1>4, <1>7, <1>8 DEF DialTyped, Kept
<1>10. HistSound(d) BY <1>2, <1>8 DEF HistSound
<1>11. ts \in Seq(TaskSet) /\ NewDials(ts, d0.dialing, d.dialing, d.hist, con)
  <2>1. DiscoverTask \in TaskSet /\ DiscoverTask.kind # "dial" BY DialAssumption DEF DiscoverTask, TaskSet, DialFlags
  <2>2. CASE look
    <3>1. ts = Append(s.tasks, DiscoverTask) BY <2>2
    <3> HIDE DEF ts, look
    <3>2. PICK t : t = DiscoverTask OBVIOUS
    <3>3. ts = Append(s.tasks, t) /\ t \in TaskSet /\ t.kind # "dial" BY <2>1, <3>1, <3>2
    <3>4. PICK D0, D, H, qs : D0 = d0.dialing /\ D = s.d.dialing /\ H = s.d.hist /\ qs = s.tasks OBVIOUS
    <3>5. ts \in Seq(TaskSet) /\ NewDials(ts, D0, D, H, con)
      <4>1. qs \in Seq(TaskSet) /\ NewDials(qs, D0, D, H, con) /\ ts = Append(qs, t) BY <1>3, <3>3, <3>4
      <4> QED BY <3>3, <4>1, NewDialsOther, Zenon
    <3> QED BY <1>8, <3>4, <3>5
  <2>3. CASE ~look
    <3>1. ts = s.tasks BY <2>3
    <3> QED BY <1>3, <1>8, <3>1
  <2> QED BY <2>2, <2>3
<1> HIDE DEF ts
<1>12. us \in Seq(TaskSet) /\ NewDials(us, d0.dialing, d.dialing, d.hist, con)
  <2> DEFINE go == nRunning = 0 /\ ts = <<>> /\ d.hist # <<>>
  <2>1. CASE go
    <3> DEFINE t == WaitExpireTask(Head(d.hist))
    <3>1. Timer(d, nRunning, ts) = <<t>> BY <2>1 DEF Timer
    <3>2. Head(d.hist) \in Ids BY <1>9, <2>1 DEF DialTyped
    <3>3. t \in TaskSet /\ t.kind # "dial" BY <3>2 DEF WaitExpireTask, TaskSet, DialFlags
    <3> HIDE DEF t
    <3>4. us = Append(ts, t)
      <4> HIDE DEF TaskSet
      <4> QED BY <1>11, <3>1, <3>3
    <3> HIDE DEF us
    <3>5. PICK D0, D, H : D0 = d0.dialing /\ D = d.dialing /\ H = d.hist OBVIOUS
    <3>6. us \in Seq(TaskSet) /\ NewDials(us, D0, D, H, con)
      <4>1. NewDials(ts, D0, D, H, con) BY <1>11, <3>5
      <4> QED BY <1>11, <3>3, <3>4, <4>1, NewDialsOther, Zenon
    <3> QED BY <3>5, <3>6
  <2>2. CASE ~go
    <3>1. Timer(d, nRunning, ts) = <<>> BY <2>2 DEF Timer
    <3>2. us = ts
      <4> HIDE DEF TaskSet
      <4> QED BY <1>11, <3>1
    <3> QED BY <1>11, <3>2
  <2> QED BY <2>1, <2>2
<1> HIDE DEF us
<1>13. n.d = d /\ n.tasks = us BY <1>1
<1>14. DialSound(n.d) BY <1>9, <1>10, <1>13 DEF DialSound
<1>15. NewTasksSound(d0, con, dynPeers, n) BY <1>2, <1>8, <1>12, <1>13, <1>14 DEF NewTasksSound
<1> QED BY <1>15 DEF n

-----------------------------------------------------------------------------
(* Connections.                                                            *)

Setups == {"none", "dial", "enter", "post", "postwait", "proto", "add", "addwait"}
ConnFields == {"setup", "peer", "id", "flags"}
IsConn(k) == k = [f \in ConnFields |-> k[f]]

\* A connection record: past the encryption handshake, and if we dialled, the id
\* is known; a peer runs on a connection that was or is about to be answered.
ConnSound(k) ==
    /\ IsConn(k) /\ k.setup \in Setups /\ k.peer \in {"none", "up", "leaving"}
    /\ k.id \in Ids \cup {NoId} /\ k.flags \in SUBSET ConnFlags
    /\ k.setup \notin {"none", "enter"} \/ k.peer # "none" \/ k.flags \cap DialFlags # {} => k.id \in Ids
    /\ k.peer # "none" => k.setup \in {"none", "addwait"}
    /\ k.setup = "none" /\ k.peer = "none" => k = Free
AreConns(C) == C = [c \in Conns |-> C[c]]
ConnsSound(C) == AreConns(C) /\ \A c \in Conns : ConnSound(C[c])

\* A record that no connection uses.
LEMMA FreeIs ==
    /\ ConnSound(Free) /\ Free.setup = "none" /\ Free.peer = "none" /\ Free.id = NoId /\ Free.flags = {}
BY DEF Free, ConnSound, IsConn, ConnFields, Setups, ConnFlags, DialFlags

\* The type of a sound connection record.
LEMMA ConnTyped ==
    ASSUME NEW k, ConnSound(k)
    PROVE  k \in [setup : {"none", "dial", "enter", "post", "postwait", "proto", "add", "addwait"},
                  peer : {"none", "up", "leaving"}, id : Ids \cup {NoId}, flags : SUBSET ConnFlags]
BY DEF ConnSound, IsConn, ConnFields, Setups

\* A new connection that is dialled.
Dialling(id, flag) == [setup |-> "dial", peer |-> "none", id |-> id, flags |-> {flag}]
\* Such a record is sound, and one that we dialled.
LEMMA DiallingIs ==
    ASSUME NEW i \in Ids, NEW flag \in DialFlags
    PROVE  LET k == Dialling(i, flag)
           IN  /\ ConnSound(k) /\ k.setup = "dial" /\ k.peer = "none" /\ k.id = i /\ k.flags = {flag}
               /\ k.flags \cap DialFlags = {flag} /\ k # Free
<1> DEFINE k == Dialling(i, flag)
           fs == {flag}
<1>1. fs \in SUBSET ConnFlags /\ fs \cap DialFlags = {flag} BY DEF ConnFlags, DialFlags
<1>2. k = [setup |-> "dial", peer |-> "none", id |-> i, flags |-> fs] BY DEF Dialling
<1> HIDE DEF k, fs
<1>3. IsConn(k) /\ k.setup = "dial" /\ k.peer = "none" /\ k.id = i /\ k.flags = fs BY <1>2 DEF IsConn, ConnFields
<1>4. ConnSound(k) BY <1>1, <1>3 DEF ConnSound, Setups
<1>5. k # Free BY <1>3, FreeIs
<1> QED BY <1>1, <1>3, <1>4, <1>5 DEF k, fs

\* Connections are numbered from 1.
LEMMA ConnsAre == Conns \subseteq Nat /\ 0 \notin Conns /\ MaxConns \in Nat
BY ServerAssumption DEF Conns

\* The connection that is taken next is free.
LEMMA NextConnFree ==
    ASSUME NEW C, FreeConns(C) # {}
    PROVE  NextConn(C) \in Conns /\ C[NextConn(C)] = Free
<1>1. FreeConns(C) \in SUBSET Nat BY ConnsAre DEF FreeConns
<1>2. \E c \in FreeConns(C) : \A e \in FreeConns(C) : c <= e BY <1>1, Least
<1>3. NextConn(C) \in FreeConns(C) BY <1>2 DEF NextConn
<1> QED BY <1>3 DEF FreeConns

-----------------------------------------------------------------------------
(* The dials under way, D the marks, R the running tasks, W the ids that wait in
   the queue, C the connections.                                           *)

RunSet == [task : TaskSet, c : Conns \cup {0}]
ByDial(k) == k.flags \cap DialFlags # {}

\* A dial runs or waits for a node exactly while it is marked, once; a connection
\* that we dialled belongs to its task until it is set up, and while the task waits
\* there is none.
DialBooks(D, R, W, C) ==
    /\ R \in SUBSET RunSet /\ W \in SUBSET Ids
    /\ \A r \in R : r.task.kind = "dial" => D[r.task.id] = r.task.flag /\ r.task.id \notin W
    /\ \A r, s \in R : r.task.kind = "dial" /\ s.task.kind = "dial" /\ r.task.id = s.task.id => r = s
    /\ \A i \in W : D[i] # "none"
    /\ \A i \in Ids : D[i] # "none" => i \in W \/ \E r \in R : r.task.kind = "dial" /\ r.task.id = i
    /\ \A r \in R : r.c # 0 =>
         /\ r.task.kind = "dial" /\ C[r.c].setup # "none" /\ C[r.c].id = r.task.id
         /\ C[r.c].flags \cap DialFlags = {r.task.flag}
    /\ \A c \in Conns : ByDial(C[c]) =>
         C[c].id \notin W /\ (C[c].setup # "none" => \E r \in R : r.c = c)

\* A node has one connection that we dialled.
OneDial(C) == \A b, c \in Conns : ByDial(C[b]) /\ ByDial(C[c]) /\ C[b].id = C[c].id => b = c

\* What a step that starts no dial may do to a connection: it does not become one
\* that we dialled, and one whose setup goes on keeps its id and how it came.
Stays(k, b) ==
    /\ ByDial(b) => b.id = k.id /\ b.flags \cap DialFlags = k.flags \cap DialFlags
                    /\ (b.setup # "none" => k.setup # "none")
    /\ k.setup # "none" /\ k.id \in Ids => b.setup # "none" /\ b.id = k.id
                                        /\ b.flags \cap DialFlags = k.flags \cap DialFlags

\* Such a step keeps the books on dials.
LEMMA BooksKept ==
    ASSUME NEW D, NEW R, NEW W, NEW C, NEW B, DialBooks(D, R, W, C),
           \A c \in Conns : Stays(C[c], B[c])
    PROVE  DialBooks(D, R, W, B)
<1>1. ASSUME NEW r \in R, r.c # 0
      PROVE  /\ r.task.kind = "dial" /\ B[r.c].setup # "none" /\ B[r.c].id = r.task.id
             /\ B[r.c].flags \cap DialFlags = {r.task.flag}
  <2>1. r.c \in Conns /\ r.task.id \in Ids BY <1>1 DEF DialBooks, RunSet, TaskSet
  <2>2. /\ r.task.kind = "dial" /\ C[r.c].setup # "none" /\ C[r.c].id = r.task.id
        /\ C[r.c].flags \cap DialFlags = {r.task.flag}
    BY <1>1 DEF DialBooks
  <2> QED BY <2>1, <2>2 DEF Stays
<1>2. ASSUME NEW c \in Conns, ByDial(B[c])
      PROVE  B[c].id \notin W /\ (B[c].setup # "none" => \E r \in R : r.c = c)
  <2>1. B[c].id = C[c].id /\ ByDial(C[c]) /\ (B[c].setup # "none" => C[c].setup # "none")
    BY <1>2 DEF Stays, ByDial
  <2> QED BY <2>1 DEF DialBooks
<1> QED BY <1>1, <1>2 DEF DialBooks

\* Such a step dials no node twice.
LEMMA OneDialKept ==
    ASSUME NEW C, NEW B, OneDial(C), \A c \in Conns : Stays(C[c], B[c])
    PROVE  OneDial(B)
<1> SUFFICES ASSUME NEW b \in Conns, NEW c \in Conns, ByDial(B[b]), ByDial(B[c]), B[b].id = B[c].id
             PROVE  b = c
  BY DEF OneDial
<1>1. ByDial(C[b]) /\ ByDial(C[c]) /\ C[b].id = C[c].id BY DEF Stays, ByDial
<1> QED BY <1>1 DEF OneDial

\* SetupConn of c returns: its task, if any, is done.
TaskReturns(R, c) == {[task |-> r.task, c |-> IF r.c = c THEN 0 ELSE r.c] : r \in R}
SetupReturns(C, B, c) ==
    /\ \A e \in Conns : e # c => B[e] = C[e]
    /\ B[c].setup = "none" /\ (ByDial(B[c]) => ByDial(C[c]) /\ B[c].id = C[c].id)

\* The books on dials when SetupConn returns: the task has no connection any more.
LEMMA BooksEnd ==
    ASSUME NEW D, NEW R, NEW W, NEW C, NEW B, DialBooks(D, R, W, C), NEW c \in Conns, SetupReturns(C, B, c)
    PROVE  DialBooks(D, TaskReturns(R, c), W, B)
<1> DEFINE to(r) == [task |-> r.task, c |-> IF r.c = c THEN 0 ELSE r.c]
           S == {to(r) : r \in R}
<1>0. /\ \A e \in Conns : e # c => B[e] = C[e]
      /\ B[c].setup = "none" /\ (ByDial(B[c]) => ByDial(C[c]) /\ B[c].id = C[c].id)
  BY DEF SetupReturns
<1>1. R \in SUBSET RunSet BY DEF DialBooks
<1>2. \A r \in R : /\ r.task \in TaskSet /\ r.c \in Conns \cup {0} BY <1>1 DEF RunSet
<1>3. \A r \in R : to(r).task = r.task /\ to(r).c = IF r.c = c THEN 0 ELSE r.c OBVIOUS
<1>4. \A s \in S : \E r \in R : s = to(r) /\ s.task = r.task /\ s.c = IF r.c = c THEN 0 ELSE r.c BY <1>3
<1>5. S \in SUBSET RunSet
  <2> SUFFICES ASSUME NEW r \in R PROVE to(r) \in RunSet OBVIOUS
  <2>1. r.task \in TaskSet /\ (IF r.c = c THEN 0 ELSE r.c) \in Conns \cup {0} BY <1>2
  <2> HIDE DEF TaskSet
  <2> QED BY <2>1 DEF RunSet
<1>6. \A s \in S : s.task.kind = "dial" => D[s.task.id] = s.task.flag /\ s.task.id \notin W
  BY <1>4 DEF DialBooks
<1>7. ASSUME NEW s \in S, NEW t \in S, s.task.kind = "dial", t.task.kind = "dial", s.task.id = t.task.id
      PROVE  s = t
  <2>1. PICK r \in R : s = to(r) /\ s.task = r.task BY <1>4
  <2>2. PICK q \in R : t = to(q) /\ t.task = q.task BY <1>4
  <2>3. r = q BY <1>7, <2>1, <2>2 DEF DialBooks
  <2> QED BY <2>1, <2>2, <2>3
<1>8. ASSUME NEW i \in Ids, D[i] # "none" PROVE i \in W \/ \E s \in S : s.task.kind = "dial" /\ s.task.id = i
  <2>1. CASE i \in W BY <2>1
  <2>2. CASE i \notin W
    <3>1. PICK r \in R : r.task.kind = "dial" /\ r.task.id = i BY <1>8, <2>2 DEF DialBooks
    <3>2. to(r) \in S /\ to(r).task = r.task BY <1>3
    <3> HIDE DEF S, to
    <3> QED BY <3>1, <3>2
  <2> QED BY <2>1, <2>2
<1>9. ASSUME NEW s \in S, s.c # 0
      PROVE  /\ s.task.kind = "dial" /\ B[s.c].setup # "none" /\ B[s.c].id = s.task.id
             /\ B[s.c].flags \cap DialFlags = {s.task.flag}
  <2>1. PICK r \in R : s.task = r.task /\ s.c = IF r.c = c THEN 0 ELSE r.c BY <1>4
  <2>2. r.c # 0 /\ r.c # c /\ s.c = r.c BY <1>9, <2>1
  <2>3. B[r.c] = C[r.c] BY <1>0, <1>2, <2>2
  <2>4. /\ r.task.kind = "dial" /\ C[r.c].setup # "none" /\ C[r.c].id = r.task.id
        /\ C[r.c].flags \cap DialFlags = {r.task.flag}
    BY <2>2 DEF DialBooks
  <2> QED BY <2>1, <2>2, <2>3, <2>4
<1>10. ASSUME NEW e \in Conns, ByDial(B[e])
       PROVE  B[e].id \notin W /\ (B[e].setup # "none" => \E s \in S : s.c = e)
  <2>1. CASE e = c BY <1>0, <1>10, <2>1 DEF DialBooks
  <2>2. CASE e # c
    <3>1. B[e] = C[e] BY <1>0, <2>2
    <3>2. B[e].id \notin W BY <1>10, <3>1 DEF DialBooks
    <3>3. ASSUME B[e].setup # "none" PROVE \E s \in S : s.c = e
      <4>1. PICK r \in R : r.c = e BY <1>10, <3>1, <3>3 DEF DialBooks
      <4>2. to(r) \in S /\ to(r).c = e BY <1>3, <2>2, <4>1
      <4> HIDE DEF S, to
      <4> QED BY <4>2
    <3> QED BY <3>2, <3>3
  <2> QED BY <2>1, <2>2
<1>11. W \in SUBSET Ids /\ \A i \in W : D[i] # "none" BY DEF DialBooks
<1> HIDE DEF S
<1>12. DialBooks(D, S, W, B) BY <1>5, <1>6, <1>7, <1>8, <1>9, <1>10, <1>11 DEF DialBooks
<1> QED BY <1>12 DEF S, TaskReturns

\* A dial that waits is started on a free connection.
LEMMA BooksDial ==
    ASSUME NEW D \in [Ids -> Dials], NEW R, NEW W, NEW C, DialBooks(D, R, W, C), ConnsSound(C),
           NEW t \in TaskSet, t.kind = "dial", t.id \in W, D[t.id] = t.flag,
           NEW c \in Conns, C[c] = Free, NEW B, B = [C EXCEPT ![c] = Dialling(t.id, t.flag)]
    PROVE  DialBooks(D, R \cup {[task |-> t, c |-> c]}, W \ {t.id}, B)
<1> DEFINE r == [task |-> t, c |-> c]
           S == R \cup {r}
           V == W \ {t.id}
<1>1. t.id \in Ids /\ t.flag \in DialFlags BY DEF TaskSet
<1>2. PICK k : k = Dialling(t.id, t.flag) OBVIOUS
<1>3. /\ ConnSound(k) /\ k.setup = "dial" /\ k.id = t.id /\ k.flags \cap DialFlags = {t.flag}
  BY <1>1, <1>2, DiallingIs
<1>a. B = [C EXCEPT ![c] = k] BY <1>2
<1>4. B[c] = k /\ \A e \in Conns : e # c => B[e] = C[e] BY <1>a DEF ConnsSound, AreConns
<1>5. r \in RunSet /\ r.task = t /\ r.c = c
  <2> HIDE DEF TaskSet
  <2> QED BY DEF RunSet
<1> HIDE DEF r
<1>6. R \in SUBSET RunSet /\ W \in SUBSET Ids BY DEF DialBooks
<1>7. \A s \in R : s.task \in TaskSet /\ s.c \in Conns \cup {0} BY <1>6 DEF RunSet
<1>8. \A s \in R : s.task.kind = "dial" => s.task.id # t.id BY DEF DialBooks
<1>9. \A s \in R : s.c # 0 => s.c # c
  <2> SUFFICES ASSUME NEW s \in R, s.c # 0, s.c = c PROVE FALSE OBVIOUS
  <2>1. C[c].setup # "none" BY DEF DialBooks
  <2> QED BY <2>1, FreeIs
<1>10. \A s \in S : s.task.kind = "dial" => D[s.task.id] = s.task.flag /\ s.task.id \notin V
  BY <1>5 DEF DialBooks
<1>11. \A p, s \in S : p.task.kind = "dial" /\ s.task.kind = "dial" /\ p.task.id = s.task.id => p = s
  BY <1>5, <1>8 DEF DialBooks
<1>12. \A i \in V : D[i] # "none" BY DEF DialBooks
<1>13. ASSUME NEW i \in Ids, D[i] # "none" PROVE i \in V \/ \E s \in S : s.task.kind = "dial" /\ s.task.id = i
  BY <1>5, <1>13 DEF DialBooks
<1>14. ASSUME NEW s \in S, s.c # 0
       PROVE  /\ s.task.kind = "dial" /\ B[s.c].setup # "none" /\ B[s.c].id = s.task.id
              /\ B[s.c].flags \cap DialFlags = {s.task.flag}
  <2>1. CASE s = r BY <1>3, <1>4, <1>5, <2>1
  <2>2. CASE s \in R
    <3>1. B[s.c] = C[s.c] BY <1>4, <1>7, <1>9, <1>14, <2>2
    <3> QED BY <1>14, <2>2, <3>1 DEF DialBooks
  <2> QED BY <2>1, <2>2
<1>15. ASSUME NEW e \in Conns, ByDial(B[e])
       PROVE  B[e].id \notin V /\ (B[e].setup # "none" => \E s \in S : s.c = e)
  <2>1. CASE e = c BY <1>3, <1>4, <1>5, <2>1
  <2>2. CASE e # c
    <3>1. B[e] = C[e] BY <1>4, <2>2
    <3> QED BY <1>15, <3>1 DEF DialBooks
  <2> QED BY <2>1, <2>2
<1>16. S \in SUBSET RunSet /\ V \in SUBSET Ids BY <1>5, <1>6
<1> HIDE DEF S, V
<1>17. DialBooks(D, S, V, B) BY <1>10, <1>11, <1>12, <1>13, <1>14, <1>15, <1>16 DEF DialBooks
<1> QED BY <1>17 DEF S, V, r

\* The node has no other connection that we dialled.
LEMMA OneDialMore ==
    ASSUME NEW D, NEW R, NEW W, NEW C, DialBooks(D, R, W, C), ConnsSound(C), OneDial(C),
           NEW i \in W, i \in Ids, NEW flag \in DialFlags,
           NEW c \in Conns, C[c] = Free, NEW B, B = [C EXCEPT ![c] = Dialling(i, flag)]
    PROVE  OneDial(B)
<1>1. PICK k : k = Dialling(i, flag) OBVIOUS
<1>2. ConnSound(k) /\ k.id = i BY <1>1, DiallingIs
<1>a. B = [C EXCEPT ![c] = k] BY <1>1
<1>3. B[c] = k /\ \A e \in Conns : e # c => B[e] = C[e] BY <1>a DEF ConnsSound, AreConns
<1>4. \A e \in Conns : ByDial(C[e]) => C[e].id # i BY DEF DialBooks
<1> SUFFICES ASSUME NEW a \in Conns, NEW e \in Conns, ByDial(B[a]), ByDial(B[e]), B[a].id = B[e].id
             PROVE  a = e
  BY DEF OneDial
<1>5. CASE a = c /\ e # c BY <1>2, <1>3, <1>4, <1>5
<1>6. CASE e = c /\ a # c BY <1>2, <1>3, <1>4, <1>6
<1>7. CASE e # c /\ a # c BY <1>3, <1>7 DEF OneDial
<1> QED BY <1>5, <1>6, <1>7

\* Another task is started.
LEMMA BooksOther ==
    ASSUME NEW D, NEW R, NEW W, NEW C, DialBooks(D, R, W, C), NEW t \in TaskSet, t.kind # "dial"
    PROVE  DialBooks(D, R \cup {[task |-> t, c |-> 0]}, W, C)
<1> DEFINE r == [task |-> t, c |-> 0]
           S == R \cup {r}
<1>1. r \in RunSet /\ r.task = t /\ r.c = 0
  <2> HIDE DEF TaskSet
  <2> QED BY DEF RunSet
<1> HIDE DEF r
<1>2. S \in SUBSET RunSet BY <1>1 DEF DialBooks
<1>3. ASSUME NEW e \in Conns, ByDial(C[e])
      PROVE  C[e].id \notin W /\ (C[e].setup # "none" => \E s \in S : s.c = e)
  BY <1>3 DEF DialBooks
<1>4. ASSUME NEW i \in Ids, D[i] # "none" PROVE i \in W \/ \E s \in S : s.task.kind = "dial" /\ s.task.id = i
  BY <1>4 DEF DialBooks
<1>5. \A s \in S : s.task.kind = "dial" \/ s.c # 0 => s \in R BY <1>1
<1>6. \A s \in S : s.task.kind = "dial" => D[s.task.id] = s.task.flag /\ s.task.id \notin W BY <1>5 DEF DialBooks
<1>7. \A p, s \in S : p.task.kind = "dial" /\ s.task.kind = "dial" /\ p.task.id = s.task.id => p = s
  BY <1>5 DEF DialBooks
<1>8. \A s \in S : s.c # 0 =>
         /\ s.task.kind = "dial" /\ C[s.c].setup # "none" /\ C[s.c].id = s.task.id
         /\ C[s.c].flags \cap DialFlags = {s.task.flag}
  BY <1>5 DEF DialBooks
<1>9. W \in SUBSET Ids /\ \A i \in W : D[i] # "none" BY DEF DialBooks
<1> HIDE DEF S
<1>10. DialBooks(D, S, W, C) BY <1>2, <1>3, <1>4, <1>6, <1>7, <1>8, <1>9 DEF DialBooks
<1> QED BY <1>10 DEF S, r

\* A task is done.
LEMMA BooksDone ==
    ASSUME NEW D \in [Ids -> Dials], NEW R, NEW W, NEW C, DialBooks(D, R, W, C), NEW r \in R,
           r.task.kind = "dial" => r.c = 0,
           NEW E, \A i \in Ids : E[i] = IF r.task.kind = "dial" /\ i = r.task.id THEN "none" ELSE D[i]
    PROVE  DialBooks(E, R \ {r}, W, C)
<1> DEFINE S == R \ {r}
<1>1. R \in SUBSET RunSet /\ W \in SUBSET Ids /\ S \in SUBSET RunSet BY DEF DialBooks
<1>2. \A s \in R : s.task.id \in Ids BY <1>1 DEF RunSet, TaskSet
<1>3. r.c = 0 BY DEF DialBooks
<1>4. \A s \in S : s.task.kind = "dial" /\ r.task.kind = "dial" => s.task.id # r.task.id BY DEF DialBooks
<1>5. \A s \in S : s.task.kind = "dial" => E[s.task.id] = s.task.flag /\ s.task.id \notin W
  BY <1>2, <1>4 DEF DialBooks
<1>6. \A p, s \in S : p.task.kind = "dial" /\ s.task.kind = "dial" /\ p.task.id = s.task.id => p = s
  BY DEF DialBooks
<1>7. \A i \in W : E[i] # "none" BY <1>1 DEF DialBooks
<1>8. ASSUME NEW i \in Ids, E[i] # "none" PROVE i \in W \/ \E s \in S : s.task.kind = "dial" /\ s.task.id = i
  <2>1. D[i] # "none" BY <1>8
  <2>2. CASE i \in W BY <2>2
  <2>3. CASE i \notin W
    <3>1. PICK s \in R : s.task.kind = "dial" /\ s.task.id = i BY <2>1, <2>3 DEF DialBooks
    <3>2. s # r BY <1>8, <3>1
    <3> QED BY <3>1, <3>2
  <2> QED BY <2>2, <2>3
<1>9. \A s \in S : s.c # 0 =>
         /\ s.task.kind = "dial" /\ C[s.c].setup # "none" /\ C[s.c].id = s.task.id
         /\ C[s.c].flags \cap DialFlags = {s.task.flag}
  BY DEF DialBooks
<1>10. ASSUME NEW e \in Conns, ByDial(C[e])
       PROVE  C[e].id \notin W /\ (C[e].setup # "none" => \E s \in S : s.c = e)
  <2>1. C[e].id \notin W BY <1>10 DEF DialBooks
  <2>2. ASSUME C[e].setup # "none" PROVE \E s \in S : s.c = e
    <3>1. PICK s \in R : s.c = e BY <1>10, <2>2 DEF DialBooks
    <3>2. s # r BY <1>3, <3>1, ConnsAre
    <3> QED BY <3>1, <3>2
  <2> QED BY <2>1, <2>2
<1> HIDE DEF S
<1>11. DialBooks(E, S, W, C) BY <1>1, <1>5, <1>6, <1>7, <1>8, <1>9, <1>10 DEF DialBooks
<1> QED BY <1>11 DEF S

\* newTasks marks new nodes: they wait until their tasks are started.
LEMMA BooksNew ==
    ASSUME NEW D \in [Ids -> Dials], NEW E \in [Ids -> Dials], NEW R, NEW W, NEW C, DialBooks(D, R, W, C),
           ConnsSound(C), NEW con,
           \A c \in Conns : C[c].peer # "none" => C[c].id \in con,
           \A i \in Ids : E[i] = D[i] \/ (D[i] = "none" /\ i \notin con)
    PROVE  DialBooks(E, R, W \cup {i \in Ids : D[i] # E[i]}, C)
<1> DEFINE V == W \cup {i \in Ids : D[i] # E[i]}
<1>1. R \in SUBSET RunSet /\ W \in SUBSET Ids /\ V \in SUBSET Ids BY DEF DialBooks
<1>2. \A s \in R : s.task.id \in Ids /\ s.task.flag # "none" BY <1>1 DEF RunSet, TaskSet, DialFlags
<1>3. \A i \in Ids : D[i] # "none" => E[i] = D[i] /\ (i \in V => i \in W) OBVIOUS
<1>4. \A s \in R : s.task.kind = "dial" => E[s.task.id] = s.task.flag /\ s.task.id \notin V
  BY <1>2, <1>3 DEF DialBooks
<1>5. \A i \in V : E[i] # "none" BY <1>1, <1>3 DEF DialBooks
<1>6. ASSUME NEW i \in Ids, E[i] # "none" PROVE i \in V \/ \E s \in R : s.task.kind = "dial" /\ s.task.id = i
  BY <1>6 DEF DialBooks
<1>7. ASSUME NEW e \in Conns, ByDial(C[e])
      PROVE  C[e].id \notin V /\ (C[e].setup # "none" => \E s \in R : s.c = e)
  <2>1. C[e].id \notin W /\ (C[e].setup # "none" => \E s \in R : s.c = e) BY <1>7 DEF DialBooks
  <2>2. ConnSound(C[e]) /\ C[e].id \in Ids BY <1>7 DEF ConnsSound, ConnSound, ByDial
  <2>3. CASE C[e].setup # "none"
    <3>1. PICK s \in R : s.c = e BY <2>1, <2>3
    <3>2. s.task.kind = "dial" /\ C[e].id = s.task.id BY <3>1, ConnsAre DEF DialBooks
    <3>3. D[C[e].id] # "none" BY <1>2, <3>2 DEF DialBooks
    <3> QED BY <1>3, <2>1, <2>2, <3>3
  <2>4. CASE C[e].setup = "none"
    <3>1. C[e].peer # "none" BY <1>7, <2>2, <2>4, FreeIs DEF ConnSound, ByDial
    <3>2. C[e].id \in con BY <3>1
    <3> QED BY <2>1, <2>2, <2>4, <3>2
  <2> QED BY <2>3, <2>4
<1>8. /\ \A r, s \in R : r.task.kind = "dial" /\ s.task.kind = "dial" /\ r.task.id = s.task.id => r = s
      /\ \A r \in R : r.c # 0 =>
           /\ r.task.kind = "dial" /\ C[r.c].setup # "none" /\ C[r.c].id = r.task.id
           /\ C[r.c].flags \cap DialFlags = {r.task.flag}
  BY DEF DialBooks
<1> HIDE DEF V
<1>9. DialBooks(E, R, V, C) BY <1>1, <1>4, <1>5, <1>6, <1>7, <1>8 DEF DialBooks
<1> QED BY <1>9 DEF V

\* The rounds of startTasks, as a function of their number.
Starts(f, R, C, ts, n) ==
    \A k \in 0..n : f[k] = IF k = 0 THEN [running |-> R, conns |-> C, rest |-> <<>>]
                           ELSE StartTask(f[k - 1], ts[k])

\* The loop of startTasks has a value after each of its rounds.
LEMMA StartsRun ==
    ASSUME NEW R, NEW C, NEW ts
    PROVE  \A n \in Nat : \E f : f = [k \in 0..n |-> f[k]] /\ Starts(f, R, C, ts, n)
<1> DEFINE P == {n \in Nat : \E f : f = [k \in 0..n |-> f[k]] /\ Starts(f, R, C, ts, n)}
           first == [running |-> R, conns |-> C, rest |-> <<>>]
<1>1. 0 \in P
  <2> DEFINE f == [k \in 0..0 |-> first]
  <2>1. f = [k \in 0..0 |-> f[k]] /\ Starts(f, R, C, ts, 0) BY DEF Starts
  <2> QED BY <2>1
<1>2. ASSUME NEW n \in Nat, n \in P PROVE n + 1 \in P
  <2>1. PICK f : f = [k \in 0..n |-> f[k]] /\ Starts(f, R, C, ts, n) BY <1>2
  <2> DEFINE last == StartTask(f[n], ts[n + 1])
             h == [k \in 0..(n + 1) |-> IF k = n + 1 THEN last ELSE f[k]]
  <2>2. h = [k \in 0..(n + 1) |-> h[k]] OBVIOUS
  <2>3. ASSUME NEW k \in 0..(n + 1) PROVE h[k] = IF k = 0 THEN first ELSE StartTask(h[k - 1], ts[k])
    <3>1. CASE k = n + 1
      <4>1. h[n] = f[n] /\ k # 0 /\ k - 1 = n /\ h[k] = last BY <3>1
      <4> HIDE DEF h, first
      <4> QED BY <3>1, <4>1
    <3>2. CASE k \in 0..n
      <4>1. h[k] = f[k] /\ (k # 0 => h[k - 1] = f[k - 1]) BY <3>2
      <4>2. f[k] = IF k = 0 THEN first ELSE StartTask(f[k - 1], ts[k]) BY <2>1, <3>2 DEF Starts
      <4> HIDE DEF h, first
      <4> QED BY <4>1, <4>2
    <3> QED BY <3>1, <3>2
  <2> HIDE DEF h
  <2>4. Starts(h, R, C, ts, n + 1) BY <2>3 DEF Starts
  <2>5. \E g : g = [k \in 0..(n + 1) |-> g[k]] /\ Starts(g, R, C, ts, n + 1) BY <2>2, <2>4
  <2> QED BY <2>5
<1> HIDE DEF P
<1>3. P = Nat
  <2>1. P \in SUBSET Nat BY DEF P
  <2> QED BY <1>1, <1>2, <2>1, Induction
<1> QED BY <1>3 DEF P

\* StartTasks is the value after the last round.
LEMMA StartTasksIs ==
    ASSUME NEW R, NEW C, NEW ts, Len(ts) \in Nat
    PROVE  \E f : Starts(f, R, C, ts, Len(ts)) /\ StartTasks(R, C, ts) = f[Len(ts)]
<1> DEFINE N == Len(ts)
           first == [running |-> R, conns |-> C, rest |-> <<>>]
           F(f) == [k \in 0..N |-> IF k = 0 THEN first ELSE StartTask(f[k - 1], ts[k])]
           start == CHOOSE f : f = F(f)
<1>1. StartTasks(R, C, ts) = start[N] BY DEF StartTasks
<1> HIDE DEF N
<1>0. N \in Nat BY DEF N
<1>2. \E f : f = F(f)
  <2>1. PICK f : f = [k \in 0..N |-> f[k]] /\ Starts(f, R, C, ts, N) BY <1>0, StartsRun, Zenon
  <2>2. \A k \in 0..N : f[k] = F(f)[k]
    <3> HIDE DEF first
    <3> QED BY <2>1 DEF Starts, first
  <2>3. f = F(f)
    <3> HIDE DEF first
    <3> QED BY <2>1, <2>2
  <2> QED BY <2>3
<1>3. start = F(start) BY <1>2
<1> HIDE DEF start
<1>4. Starts(start, R, C, ts, N)
  <2> SUFFICES ASSUME NEW k \in 0..N
               PROVE  start[k] = IF k = 0 THEN first ELSE StartTask(start[k - 1], ts[k])
    BY DEF Starts
  <2> HIDE DEF first
  <2> QED BY <1>3
<1> QED BY <1>1, <1>4 DEF N

-----------------------------------------------------------------------------
StartFields == {"running", "conns", "rest"}
IsStart(s) == s = [f \in StartFields |-> s[f]]

\* The ids of the dials after the m-th task.
Waits(ts, m) == {i \in Ids : \E j \in (m + 1)..Len(ts) : ts[j].kind = "dial" /\ ts[j].id = i}

\* startTasks takes free connections only, and a peer runs on none of them.
Grown(C, B) == \A c \in Conns : B[c] = C[c] \/ (C[c] = Free /\ B[c].peer = "none")

\* After k rounds of startTasks: the tasks are started in order up to the first
\* that has to wait, the rest of them in the order they came.
StartSound(s, D, W, C, ts, k) ==
    /\ IsStart(s) /\ s.rest \in Seq(TaskSet) /\ Len(s.rest) <= k
    /\ \A i \in 1..Len(s.rest) : s.rest[i] = ts[k - Len(s.rest) + i]
    /\ ConnsSound(s.conns) /\ OneDial(s.conns) /\ Grown(C, s.conns)
    /\ DialBooks(D, s.running, W \cup Waits(ts, k - Len(s.rest)), s.conns)

\* What the tasks given to startTasks are like: marked, each node once.
ToStart(D, W, ts) ==
    /\ ts \in Seq(TaskSet) /\ DialsOnce(ts)
    /\ \A j \in 1..Len(ts) : ts[j].kind = "dial" => D[ts[j].id] = ts[j].flag /\ ts[j].id \notin W

\* One round of startTasks.
LEMMA StartTaskSound ==
    ASSUME NEW D \in [Ids -> Dials], NEW W, NEW C, NEW ts, ToStart(D, W, ts), NEW k \in Nat, k + 1 <= Len(ts),
           NEW s, StartSound(s, D, W, C, ts, k)
    PROVE  StartSound(StartTask(s, ts[k + 1]), D, W, C, ts, k + 1)
<1> DEFINE t == ts[k + 1]
           e == StartTask(s, t)
           n == Len(s.rest)
<1>1. ts \in Seq(TaskSet) /\ Len(ts) \in Nat /\ k + 1 \in 1..Len(ts) BY DEF ToStart
<1>2. t \in TaskSet
  <2> HIDE DEF TaskSet
  <2> QED BY <1>1
<1>3. t.id \in Ids /\ t.flag \in DialFlags BY <1>2 DEF TaskSet
<1>b. IsStart(s) /\ s.rest \in Seq(TaskSet) /\ n <= k
      /\ (\A i \in 1..n : s.rest[i] = ts[k - n + i])
      /\ ConnsSound(s.conns) /\ OneDial(s.conns) /\ Grown(C, s.conns)
      /\ DialBooks(D, s.running, W \cup Waits(ts, k - n), s.conns)
  BY Zenon DEF StartSound
<1>c. n \in Nat BY <1>b
<1>a. IsStart(s) /\ s.rest \in Seq(TaskSet) /\ n \in Nat /\ n <= k
      /\ (\A i \in 1..n : s.rest[i] = ts[k - n + i])
      /\ ConnsSound(s.conns) /\ OneDial(s.conns) /\ Grown(C, s.conns)
      /\ DialBooks(D, s.running, W \cup Waits(ts, k - n), s.conns)
  BY <1>b, <1>c
<1> DEFINE waits == s.rest # <<>> \/ Cardinality(s.running) >= MaxActive \/ FreeConns(s.conns) = {}
<1>4. CASE waits
  <2> DEFINE q == Append(s.rest, t)
  <2>1. e = [s EXCEPT !.rest = q] BY <1>4 DEF StartTask
  <2>2. q \in Seq(TaskSet) /\ Len(q) = n + 1 /\ q[n + 1] = t /\ \A i \in 1..n : q[i] = s.rest[i]
    <3> HIDE DEF TaskSet, t
    <3> QED BY <1>2, <1>a
  <2> HIDE DEF q, e, t, waits, n
  <2>3. IsStart(e) /\ e.rest = q /\ e.running = s.running /\ e.conns = s.conns BY <1>a, <2>1 DEF IsStart, StartFields
  <2>4. (k + 1) - Len(q) = k - n /\ Len(q) <= k + 1 BY <1>a, <2>2
  <2>5. ASSUME NEW i \in 1..Len(q) PROVE q[i] = ts[(k + 1) - Len(q) + i]
    <3>1. CASE i \in 1..n BY <1>a, <2>2, <2>4, <3>1
    <3>2. CASE i = n + 1
      <4>1. (k + 1) - Len(q) + i = k + 1 BY <1>a, <2>2, <3>2
      <4> QED BY <2>2, <3>2, <4>1 DEF t
    <3> QED BY <1>a, <2>2, <3>1, <3>2
  <2>6. StartSound(e, D, W, C, ts, k + 1) BY <1>a, <2>2, <2>3, <2>4, <2>5 DEF StartSound
  <2> QED BY <2>6 DEF e, t
<1> HIDE DEF n
<1>5. CASE ~waits
  <2>1. n = 0 /\ s.rest = <<>> /\ FreeConns(s.conns) # {} BY <1>5 DEF n
  <2>2. k - n = k BY <1>a, <2>1
  <2>3. DialBooks(D, s.running, W \cup Waits(ts, k), s.conns) BY <1>a, <2>2
  <2>4. /\ k \in Nat /\ Len(<<>>) = 0 /\ (k + 1) - 0 = k + 1 OBVIOUS
  <2>5. CASE t.kind = "dial"
    <3> DEFINE c == NextConn(s.conns)
               B == [s.conns EXCEPT ![c] = Dialling(t.id, t.flag)]
               S == s.running \cup {[task |-> t, c |-> c]}
    <3>1. e = [s EXCEPT !.running = S, !.conns = B] BY <1>5, <2>5 DEF StartTask, Dialling
    <3>2. c \in Conns /\ s.conns[c] = Free BY <2>1, NextConnFree
    <3>3. D[t.id] = t.flag /\ t.id \notin W BY <1>1, <2>5 DEF ToStart
    <3> HIDE DEF c, waits
    <3>4. t.id \in Waits(ts, k)
      <4>1. k + 1 \in (k + 1)..Len(ts) BY <1>1
      <4> QED BY <1>3, <2>5, <4>1 DEF Waits
    <3>5. W \cup Waits(ts, k + 1) = (W \cup Waits(ts, k)) \ {t.id}
      <4>1. t.id \notin Waits(ts, k + 1)
        <5> SUFFICES ASSUME NEW j \in (k + 2)..Len(ts), ts[j].kind = "dial", ts[j].id = t.id PROVE FALSE
          BY DEF Waits
        <5>1. j \in 1..Len(ts) /\ j # k + 1 BY <1>1
        <5>2. DialsOnce(ts) BY DEF ToStart
        <5> QED BY <1>1, <2>5, <5>1, <5>2 DEF DialsOnce
      <4>2. ASSUME NEW i, i # t.id PROVE i \in Waits(ts, k) <=> i \in Waits(ts, k + 1)
        <5>1. ASSUME i \in Waits(ts, k) PROVE i \in Waits(ts, k + 1)
          <6>1. PICK j \in (k + 1)..Len(ts) : ts[j].kind = "dial" /\ ts[j].id = i BY <5>1 DEF Waits
          <6>2. j # k + 1 BY <4>2, <6>1
          <6>3. j \in ((k + 1) + 1)..Len(ts) BY <1>1, <6>2
          <6> QED BY <5>1, <6>1, <6>3 DEF Waits
        <5>2. ASSUME i \in Waits(ts, k + 1) PROVE i \in Waits(ts, k)
          <6>1. PICK j \in ((k + 1) + 1)..Len(ts) : ts[j].kind = "dial" /\ ts[j].id = i BY <5>2 DEF Waits
          <6>2. j \in (k + 1)..Len(ts) BY <1>1
          <6> QED BY <5>2, <6>1, <6>2 DEF Waits
        <5> QED BY <5>1, <5>2
      <4> HIDE DEF t
      <4> QED BY <3>3, <4>1, <4>2
    <3>6. PICK x, V, R : x = t /\ V = W \cup Waits(ts, k) /\ R = s.running OBVIOUS
    <3>7. PICK A : A = s.conns OBVIOUS
    <3>8. B = [A EXCEPT ![c] = Dialling(x.id, x.flag)] BY <3>6, <3>7
    <3>9. DialBooks(D, R, V, A) /\ ConnsSound(A) /\ OneDial(A) /\ A[c] = Free BY <1>a, <2>3, <3>2, <3>6, <3>7
    <3>10. /\ x \in TaskSet /\ x.kind = "dial" /\ x.id \in V /\ D[x.id] = x.flag
      BY <1>2, <2>5, <3>3, <3>4, <3>6
    <3> HIDE DEF B
    <3>11. DialBooks(D, R \cup {[task |-> x, c |-> c]}, V \ {x.id}, B) BY <3>2, <3>8, <3>9, <3>10, BooksDial
    <3>12. OneDial(B)
      <4>1. PICK i, f : i = x.id /\ f = x.flag OBVIOUS
      <4>2. i \in Ids /\ f \in DialFlags /\ i \in V /\ B = [A EXCEPT ![c] = Dialling(i, f)] BY <1>3, <3>6, <3>8, <3>10, <4>1
      <4> QED BY <3>2, <3>9, <4>2, OneDialMore
    <3>13. ConnsSound(B) /\ B[c].peer = "none" /\ \A b \in Conns : b # c => B[b] = A[b]
      <4>1. PICK d : d = Dialling(x.id, x.flag) OBVIOUS
      <4>2. ConnSound(d) /\ d.peer = "none" BY <1>3, <3>6, <4>1, DiallingIs
      <4>3. B = [A EXCEPT ![c] = d] BY <3>8, <4>1
      <4>4. B[c] = d /\ (\A b \in Conns : b # c => B[b] = A[b]) /\ B = [b \in Conns |-> B[b]]
        BY <3>2, <3>9, <4>3 DEF ConnsSound, AreConns
      <4> QED BY <3>9, <4>2, <4>4 DEF ConnsSound, AreConns
    <3>14. Grown(C, B)
      <4>1. Grown(C, A) BY <1>a, <3>7
      <4> QED BY <3>9, <3>13, <4>1, FreeIs DEF Grown
    <3>15. S = R \cup {[task |-> x, c |-> c]} /\ V \ {x.id} = W \cup Waits(ts, k + 1) BY <3>5, <3>6
    <3>16. DialBooks(D, S, W \cup Waits(ts, k + 1), B) BY <3>11, <3>15
    <3> HIDE DEF S, e, t
    <3>17. IsStart(e) /\ e.running = S /\ e.conns = B /\ e.rest = s.rest BY <1>a, <3>1 DEF IsStart, StartFields
    <3>18. e.rest = <<>> /\ Len(e.rest) = 0 /\ (k + 1) - Len(e.rest) = k + 1 /\ Len(e.rest) <= k + 1
      BY <2>1, <2>4, <3>17
    <3>19. e.rest \in Seq(TaskSet) BY <1>a, <3>17
    <3>20. \A i \in 1..Len(e.rest) : e.rest[i] = ts[(k + 1) - Len(e.rest) + i] BY <3>18
    <3>21. StartSound(e, D, W, C, ts, k + 1)
      BY <3>12, <3>13, <3>14, <3>16, <3>17, <3>18, <3>19, <3>20 DEF StartSound
    <3> QED BY <3>21 DEF e, t
  <2>6. CASE t.kind # "dial"
    <3> DEFINE S == s.running \cup {[task |-> t, c |-> 0]}
    <3>1. e = [s EXCEPT !.running = S] BY <1>5, <2>6 DEF StartTask
    <3>2. Waits(ts, k) = Waits(ts, k + 1)
      <4>1. ASSUME NEW i \in Waits(ts, k) PROVE i \in Waits(ts, k + 1)
        <5>1. PICK j \in (k + 1)..Len(ts) : ts[j].kind = "dial" /\ ts[j].id = i BY <4>1 DEF Waits
        <5>2. j # k + 1 BY <2>6, <5>1
        <5>3. j \in ((k + 1) + 1)..Len(ts) BY <1>1, <5>2
        <5> QED BY <4>1, <5>1, <5>3 DEF Waits
      <4>2. ASSUME NEW i \in Waits(ts, k + 1) PROVE i \in Waits(ts, k)
        <5>1. PICK j \in ((k + 1) + 1)..Len(ts) : ts[j].kind = "dial" /\ ts[j].id = i BY <4>2 DEF Waits
        <5>2. j \in (k + 1)..Len(ts) BY <1>1
        <5> QED BY <4>2, <5>1, <5>2 DEF Waits
      <4> QED BY <4>1, <4>2
    <3>3. PICK x, V, R, A : x = t /\ V = W \cup Waits(ts, k) /\ R = s.running /\ A = s.conns OBVIOUS
    <3>4. DialBooks(D, R \cup {[task |-> x, c |-> 0]}, V, A)
      <4>1. x \in TaskSet /\ x.kind # "dial" /\ DialBooks(D, R, V, A) BY <1>2, <2>3, <2>6, <3>3
      <4> QED BY <4>1, BooksOther
    <3>5. DialBooks(D, S, W \cup Waits(ts, k + 1), s.conns) BY <3>2, <3>3, <3>4
    <3> HIDE DEF S, e, t, waits
    <3>6. IsStart(e) /\ e.running = S /\ e.conns = s.conns /\ e.rest = s.rest BY <1>a, <3>1 DEF IsStart, StartFields
    <3>7. e.rest = <<>> /\ Len(e.rest) = 0 /\ (k + 1) - Len(e.rest) = k + 1 /\ Len(e.rest) <= k + 1
      BY <2>1, <2>4, <3>6
    <3>8. e.rest \in Seq(TaskSet) BY <1>a, <3>6
    <3>9. \A i \in 1..Len(e.rest) : e.rest[i] = ts[(k + 1) - Len(e.rest) + i] BY <3>7
    <3>10. StartSound(e, D, W, C, ts, k + 1)
      BY <1>a, <3>5, <3>6, <3>7, <3>8, <3>9 DEF StartSound
    <3> QED BY <3>10 DEF e, t
  <2> QED BY <2>5, <2>6
<1> QED BY <1>4, <1>5

\* startTasks.
LEMMA StartTasksSound ==
    ASSUME NEW D \in [Ids -> Dials], NEW R, NEW W, NEW C, NEW ts, ToStart(D, W, ts),
           ConnsSound(C), OneDial(C), DialBooks(D, R, W \cup Waits(ts, 0), C)
    PROVE  StartSound(StartTasks(R, C, ts), D, W, C, ts, Len(ts))
<1> DEFINE N == Len(ts)
<1>0. N \in Nat BY DEF ToStart
<1>1. PICK f : Starts(f, R, C, ts, N) /\ StartTasks(R, C, ts) = f[N] BY <1>0, StartTasksIs, Zenon
<1> HIDE DEF N
<1> DEFINE P == {n \in Nat : n <= N => StartSound(f[n], D, W, C, ts, n)}
<1>2. 0 \in P
  <2>1. f[0] = [running |-> R, conns |-> C, rest |-> <<>>] BY <1>0, <1>1 DEF Starts
  <2>2. PICK s : s = f[0] OBVIOUS
  <2>3. IsStart(s) /\ s.running = R /\ s.conns = C /\ s.rest = <<>> BY <2>1, <2>2 DEF IsStart, StartFields
  <2>4. s.rest \in Seq(TaskSet) /\ Len(s.rest) = 0 /\ 0 - Len(s.rest) = 0
    <3>1. <<>> \in Seq(TaskSet) /\ Len(<<>>) = 0 OBVIOUS
    <3>2. PICK q : q = s.rest OBVIOUS
    <3>3. q \in Seq(TaskSet) /\ Len(q) = 0 BY <2>3, <3>1, <3>2, Zenon
    <3> QED BY <3>2, <3>3
  <2>5. Grown(C, C) BY DEF Grown
  <2>6. StartSound(s, D, W, C, ts, 0) BY <2>3, <2>4, <2>5 DEF StartSound
  <2> QED BY <2>2, <2>6
<1>3. ASSUME NEW n \in Nat, n \in P PROVE n + 1 \in P
  <2> SUFFICES ASSUME n + 1 <= N PROVE StartSound(f[n + 1], D, W, C, ts, n + 1) OBVIOUS
  <2>1. f[n + 1] = StartTask(f[n], ts[n + 1])
    <3>1. n + 1 \in 0..N /\ n + 1 # 0 /\ (n + 1) - 1 = n BY <1>0
    <3> QED BY <1>1, <3>1 DEF Starts
  <2>2. PICK s : s = f[n] OBVIOUS
  <2>3. StartSound(s, D, W, C, ts, n) /\ n + 1 <= Len(ts) BY <1>0, <1>3, <2>2 DEF N
  <2>4. StartSound(StartTask(s, ts[n + 1]), D, W, C, ts, n + 1) BY <2>3, StartTaskSound, Zenon
  <2> QED BY <2>1, <2>2, <2>4
<1> HIDE DEF P
<1>4. N \in P
  <2>1. P \in SUBSET Nat BY DEF P
  <2>2. P = Nat BY <1>2, <1>3, <2>1, Induction
  <2> QED BY <1>0, <2>2
<1>5. StartSound(f[N], D, W, C, ts, N) BY <1>0, <1>4 DEF P
<1> QED BY <1>1, <1>5 DEF N

\* The dialler's books with the queue q.
Books(D, R, q, C) == ToStart(D, {}, q) /\ DialBooks(D, R, Waits(q, 0), C)
Connections(C) == ConnsSound(C) /\ OneDial(C)

\* What startTasks leaves are the last of the tasks.
LEMMA RestToStart ==
    ASSUME NEW D, NEW W, NEW C, NEW ts, ToStart(D, W, ts), NEW s, StartSound(s, D, W, C, ts, Len(ts))
    PROVE  ToStart(D, W, s.rest) /\ Waits(ts, Len(ts) - Len(s.rest)) = Waits(s.rest, 0)
<1> DEFINE q == s.rest
           m == Len(ts) - Len(q)
<1>1. ts \in Seq(TaskSet) /\ q \in Seq(TaskSet) /\ Len(q) <= Len(ts)
  BY DEF ToStart, StartSound
<1>2. \A i \in 1..Len(q) : q[i] = ts[m + i] BY Zenon DEF StartSound
<1> HIDE DEF q
<1>3. Len(ts) \in Nat /\ Len(q) \in Nat /\ m \in Nat /\ m + Len(q) = Len(ts)
  <2>1. Len(ts) \in Nat /\ Len(q) \in Nat
    <3> HIDE DEF TaskSet
    <3> QED BY <1>1
  <2> QED BY <1>1, <2>1
<1> HIDE DEF m
<1>4. \A i \in 1..Len(q) : m + i \in 1..Len(ts) BY <1>3
<1>5. DialsOnce(q)
  <2> SUFFICES ASSUME NEW j \in 1..Len(q), NEW k \in 1..Len(q), q[j].kind = "dial", q[k].kind = "dial",
                      q[j].id = q[k].id
               PROVE  j = k
    BY DEF DialsOnce
  <2>1. DialsOnce(ts) BY DEF ToStart
  <2>2. m + j = m + k BY <1>2, <1>4, <2>1 DEF DialsOnce
  <2> QED BY <1>3, <2>2
<1>6. \A j \in 1..Len(q) : q[j].kind = "dial" => D[q[j].id] = q[j].flag /\ q[j].id \notin W
  BY <1>2, <1>4 DEF ToStart
<1>7. ASSUME NEW i \in Waits(ts, m) PROVE i \in Waits(q, 0)
  <2>1. PICK j \in (m + 1)..Len(ts) : ts[j].kind = "dial" /\ ts[j].id = i BY <1>7 DEF Waits
  <2>2. j - m \in 1..Len(q) /\ m + (j - m) = j /\ j - m \in (0 + 1)..Len(q) BY <1>3
  <2>3. q[j - m] = ts[j] BY <1>2, <2>2
  <2> QED BY <1>7, <2>1, <2>2, <2>3 DEF Waits
<1>8. ASSUME NEW i \in Waits(q, 0) PROVE i \in Waits(ts, m)
  <2>1. PICK j \in (0 + 1)..Len(q) : q[j].kind = "dial" /\ q[j].id = i BY <1>8 DEF Waits
  <2>2. j \in 1..Len(q) /\ m + j \in (m + 1)..Len(ts) BY <1>3
  <2>3. q[j] = ts[m + j] BY <1>2, <2>2
  <2> QED BY <1>8, <2>1, <2>2, <2>3 DEF Waits
<1>9. Waits(ts, m) = Waits(q, 0) BY <1>7, <1>8
<1>10. ToStart(D, W, q) BY <1>1, <1>5, <1>6 DEF ToStart
<1> QED BY <1>9, <1>10 DEF q, m

\* The queue is started.
LEMMA QueueStarted ==
    ASSUME NEW D \in [Ids -> Dials], NEW R, NEW q, NEW C, Books(D, R, q, C), Connections(C)
    PROVE  LET s == StartTasks(R, C, q)
           IN  Books(D, s.running, s.rest, s.conns) /\ Connections(s.conns) /\ Grown(C, s.conns)
<1> DEFINE s == StartTasks(R, C, q)
<1>1. ToStart(D, {}, q) /\ ConnsSound(C) /\ OneDial(C) /\ DialBooks(D, R, {} \cup Waits(q, 0), C)
  <2>1. {} \cup Waits(q, 0) = Waits(q, 0) OBVIOUS
  <2> QED BY <2>1 DEF Books, Connections
<1>2. StartSound(s, D, {}, C, q, Len(q)) BY <1>1, StartTasksSound
<1> HIDE DEF s
<1>3. ToStart(D, {}, s.rest) /\ Waits(q, Len(q) - Len(s.rest)) = Waits(s.rest, 0) BY <1>1, <1>2, RestToStart
<1>4. /\ ConnsSound(s.conns) /\ OneDial(s.conns) /\ Grown(C, s.conns)
      /\ DialBooks(D, s.running, {} \cup Waits(q, Len(q) - Len(s.rest)), s.conns)
  BY <1>2, Zenon DEF StartSound
<1>5. {} \cup Waits(q, Len(q) - Len(s.rest)) = Waits(s.rest, 0) BY <1>3
<1>6. Books(D, s.running, s.rest, s.conns) BY <1>3, <1>4, <1>5 DEF Books
<1> QED BY <1>4, <1>6 DEF Connections, s

\* Two parts of a queue.
LEMMA QueueJoined ==
    ASSUME NEW D, NEW p, NEW q, ToStart(D, {}, p), ToStart(D, Waits(p, 0), q)
    PROVE  ToStart(D, {}, p \o q) /\ Waits(p \o q, 0) = Waits(p, 0) \cup Waits(q, 0)
<1> DEFINE u == p \o q
           m == Len(p)
           n == Len(q)
<1>1. p \in Seq(TaskSet) /\ q \in Seq(TaskSet) BY DEF ToStart
<1>2. /\ u \in Seq(TaskSet) /\ m \in Nat /\ n \in Nat /\ Len(u) = m + n
      /\ \A i \in 1..(m + n) : u[i] = IF i <= m THEN p[i] ELSE q[i - m]
  <2> HIDE DEF TaskSet
  <2> QED BY <1>1
<1> HIDE DEF u, m, n
<1>3. \A i \in 1..m : u[i] = p[i] /\ i \in 1..Len(u) BY <1>2
<1>4. \A i \in 1..n : u[m + i] = q[i] /\ m + i \in 1..Len(u)
  <2> SUFFICES ASSUME NEW i \in 1..n PROVE u[m + i] = q[i] /\ m + i \in 1..Len(u) OBVIOUS
  <2>1. m + i \in 1..(m + n) /\ ~(m + i <= m) /\ (m + i) - m = i BY <1>2
  <2> QED BY <1>2, <2>1
<1>5. \A j \in 1..Len(u) : j \in 1..m \/ \E i \in 1..n : j = m + i
  <2> SUFFICES ASSUME NEW j \in 1..Len(u), j \notin 1..m PROVE \E i \in 1..n : j = m + i OBVIOUS
  <2>1. j - m \in 1..n /\ j = m + (j - m) BY <1>2
  <2> QED BY <2>1
<1>6. \A x \in TaskSet : x.id \in Ids BY DEF TaskSet
<1>7. (\A j \in 1..m : p[j].id \in Ids) /\ (\A j \in 1..n : q[j].id \in Ids)
  <2> HIDE DEF TaskSet
  <2> QED BY <1>1, <1>6 DEF m, n
<1>8. \A j \in 1..m : p[j].kind = "dial" => p[j].id \in Waits(p, 0) /\ D[p[j].id] = p[j].flag
  BY <1>7 DEF Waits, m, ToStart
<1>9. \A j \in 1..n : q[j].kind = "dial" => q[j].id \notin Waits(p, 0) /\ D[q[j].id] = q[j].flag
  BY DEF n, ToStart
<1>10. ASSUME NEW j \in 1..Len(u), u[j].kind = "dial" PROVE D[u[j].id] = u[j].flag
  <2>1. CASE j \in 1..m BY <1>3, <1>8, <1>10, <2>1
  <2>2. CASE \E i \in 1..n : j = m + i
    <3>1. PICK i \in 1..n : j = m + i BY <2>2
    <3> QED BY <1>4, <1>9, <1>10, <3>1
  <2> QED BY <1>5, <2>1, <2>2
<1>11. DialsOnce(u)
  <2> SUFFICES ASSUME NEW j \in 1..Len(u), NEW k \in 1..Len(u), u[j].kind = "dial", u[k].kind = "dial",
                      u[j].id = u[k].id
               PROVE  j = k
    BY DEF DialsOnce
  <2>1. DialsOnce(p) /\ DialsOnce(q) BY DEF ToStart
  <2>2. CASE j \in 1..m /\ k \in 1..m BY <1>3, <2>1, <2>2 DEF DialsOnce, m
  <2>3. CASE j \in 1..m /\ \E i \in 1..n : k = m + i
    <3>1. PICK i \in 1..n : k = m + i BY <2>3
    <3>2. u[j] = p[j] /\ u[k] = q[i] BY <1>3, <1>4, <2>3, <3>1
    <3> QED BY <1>8, <1>9, <2>3, <3>2
  <2>4. CASE k \in 1..m /\ \E i \in 1..n : j = m + i
    <3>1. PICK i \in 1..n : j = m + i BY <2>4
    <3>2. u[k] = p[k] /\ u[j] = q[i] BY <1>3, <1>4, <2>4, <3>1
    <3> QED BY <1>8, <1>9, <2>4, <3>2
  <2>5. CASE (\E i \in 1..n : j = m + i) /\ (\E i \in 1..n : k = m + i)
    <3>1. PICK a \in 1..n : j = m + a BY <2>5
    <3>2. PICK b \in 1..n : k = m + b BY <2>5
    <3>3. u[j] = q[a] /\ u[k] = q[b] BY <1>4, <3>1, <3>2
    <3>4. a = b BY <2>1, <3>3 DEF DialsOnce, n
    <3> QED BY <3>1, <3>2, <3>4
  <2> QED BY <1>5, <2>2, <2>3, <2>4, <2>5
<1>12. ASSUME NEW i \in Waits(u, 0) PROVE i \in Waits(p, 0) \cup Waits(q, 0)
  <2>1. i \in Ids /\ \E j \in 1..Len(u) : u[j].kind = "dial" /\ u[j].id = i BY <1>12 DEF Waits
  <2>2. PICK j \in 1..Len(u) : u[j].kind = "dial" /\ u[j].id = i BY <2>1
  <2>3. CASE j \in 1..m BY <1>3, <1>8, <2>2, <2>3
  <2>4. CASE \E k \in 1..n : j = m + k
    <3>1. PICK k \in 1..n : j = m + k BY <2>4
    <3>2. q[k].kind = "dial" /\ q[k].id = i /\ k \in (0 + 1)..n BY <1>4, <2>2, <3>1
    <3> QED BY <2>1, <3>2 DEF Waits, n
  <2> QED BY <1>5, <2>3, <2>4
<1>13. ASSUME NEW i \in Waits(p, 0) \cup Waits(q, 0) PROVE i \in Waits(u, 0)
  <2>0. \A j \in 1..Len(u) : u[j].kind = "dial" /\ u[j].id \in Ids => u[j].id \in Waits(u, 0) BY DEF Waits
  <2>1. CASE i \in Waits(p, 0)
    <3>1. PICK j \in 1..m : p[j].kind = "dial" /\ p[j].id = i BY <2>1 DEF Waits, m
    <3>2. u[j] = p[j] /\ j \in 1..Len(u) BY <1>3
    <3> QED BY <1>7, <2>0, <3>1, <3>2
  <2>2. CASE i \in Waits(q, 0)
    <3>1. PICK j \in 1..n : q[j].kind = "dial" /\ q[j].id = i BY <2>2 DEF Waits, n
    <3>2. u[m + j] = q[j] /\ m + j \in 1..Len(u) BY <1>4
    <3> QED BY <1>7, <2>0, <3>1, <3>2
  <2> QED BY <1>13, <2>1, <2>2
<1>14. Waits(u, 0) = Waits(p, 0) \cup Waits(q, 0) BY <1>12, <1>13
<1>15. ToStart(D, {}, u) BY <1>2, <1>10, <1>11 DEF ToStart
<1> QED BY <1>14, <1>15 DEF u

\* New tasks are started.
LEMMA NewStarted ==
    ASSUME NEW D \in [Ids -> Dials], NEW E \in [Ids -> Dials], NEW R, NEW q, NEW C, Books(D, R, q, C),
           Connections(C), NEW con, \A c \in Conns : C[c].peer # "none" => C[c].id \in con,
           NEW H, NEW ts \in Seq(TaskSet), NewDials(ts, D, E, H, con)
    PROVE  LET u == StartTasks(R, C, ts)
           IN  Books(E, u.running, q \o u.rest, u.conns) /\ Connections(u.conns) /\ Grown(C, u.conns)
<1> DEFINE u == StartTasks(R, C, ts)
           W == Waits(q, 0)
           N == {i \in Ids : D[i] # E[i]}
<1>1. ToStart(D, {}, q) /\ DialBooks(D, R, W, C) /\ ConnsSound(C) /\ OneDial(C) BY DEF Books, Connections
<1>2. \A i \in Ids : E[i] = D[i] \/ (D[i] = "none" /\ i \notin con) BY DEF NewDials
<1>3. \A j \in 1..Len(ts) : ts[j] \in TaskSet
  <2> HIDE DEF TaskSet
  <2> QED OBVIOUS
<1>4. \A j \in 1..Len(ts) : ts[j].id \in Ids /\ ts[j].flag # "none" BY <1>3 DEF TaskSet, DialFlags
<1>5. \A i \in W : D[i] # "none" /\ i \in Ids BY <1>1 DEF DialBooks
<1>6. ToStart(E, W, ts)
  <2>1. ASSUME NEW j \in 1..Len(ts), ts[j].kind = "dial" PROVE E[ts[j].id] = ts[j].flag /\ ts[j].id \notin W
    <3>1. D[ts[j].id] = "none" /\ E[ts[j].id] = ts[j].flag BY <2>1 DEF NewDials
    <3> QED BY <1>5, <3>1
  <2>2. DialsOnce(ts) BY DEF NewDials
  <2> QED BY <2>1, <2>2 DEF ToStart
<1>7. N = Waits(ts, 0)
  <2>1. ASSUME NEW i \in N PROVE i \in Waits(ts, 0)
    <3>1. D[i] = "none" /\ E[i] # "none" BY <1>2, <2>1
    <3>2. PICK j \in 1..Len(ts) : ts[j].kind = "dial" /\ ts[j].id = i BY <2>1, <3>1 DEF NewDials
    <3> QED BY <2>1, <3>2 DEF Waits
  <2>2. ASSUME NEW i \in Waits(ts, 0) PROVE i \in N
    <3>1. PICK j \in 1..Len(ts) : ts[j].kind = "dial" /\ ts[j].id = i BY <2>2 DEF Waits
    <3>2. D[i] = "none" /\ E[i] = ts[j].flag BY <3>1 DEF NewDials
    <3> QED BY <1>4, <2>2, <3>1, <3>2 DEF Waits
  <2> QED BY <2>1, <2>2
<1> HIDE DEF W
<1>8. DialBooks(E, R, W \cup N, C) BY <1>1, <1>2, BooksNew
<1>9. DialBooks(E, R, W \cup Waits(ts, 0), C) BY <1>7, <1>8
<1>10. StartSound(u, E, W, C, ts, Len(ts)) BY <1>1, <1>6, <1>9, StartTasksSound
<1> HIDE DEF u, N
<1>11. ToStart(E, W, u.rest) /\ Waits(ts, Len(ts) - Len(u.rest)) = Waits(u.rest, 0) BY <1>6, <1>10, RestToStart
<1>12. /\ ConnsSound(u.conns) /\ OneDial(u.conns) /\ Grown(C, u.conns)
       /\ DialBooks(E, u.running, W \cup Waits(ts, Len(ts) - Len(u.rest)), u.conns)
  BY <1>10, Zenon DEF StartSound
<1>13. ToStart(E, {}, q)
  <2>1. ASSUME NEW j \in 1..Len(q), q[j].kind = "dial" PROVE E[q[j].id] = q[j].flag
    <3>1. D[q[j].id] = q[j].flag /\ q \in Seq(TaskSet) BY <1>1, <2>1 DEF ToStart
    <3>2. q[j] \in TaskSet
      <4> HIDE DEF TaskSet
      <4> QED BY <3>1
    <3>3. q[j].id \in Ids /\ q[j].flag # "none" BY <3>2 DEF TaskSet, DialFlags
    <3> QED BY <1>2, <3>1, <3>3
  <2>2. q \in Seq(TaskSet) /\ DialsOnce(q) BY <1>1 DEF ToStart
  <2> QED BY <2>1, <2>2 DEF ToStart
<1>14. ToStart(E, {}, q \o u.rest) /\ Waits(q \o u.rest, 0) = W \cup Waits(u.rest, 0)
  <2>1. PICK z : z = u.rest OBVIOUS
  <2>2. ToStart(E, {}, q \o z) /\ Waits(q \o z, 0) = Waits(q, 0) \cup Waits(z, 0)
    <3>1. ToStart(E, Waits(q, 0), z) BY <1>11, <2>1 DEF W
    <3> QED BY <1>13, <3>1, QueueJoined
  <2> QED BY <2>1, <2>2 DEF W
<1>15. Books(E, u.running, q \o u.rest, u.conns)
  <2>1. DialBooks(E, u.running, Waits(q \o u.rest, 0), u.conns) BY <1>11, <1>12, <1>14
  <2> QED BY <1>14, <2>1 DEF Books
<1> QED BY <1>12, <1>15 DEF Connections, u

-----------------------------------------------------------------------------
(* The peers map P beside the connections C.                               *)

Up(P) == {i \in Ids : P[i] # 0}
With(C, P, flag) == {i \in Up(P) : flag \in C[P[i]].flags}
PeersOK(C, P) ==
    /\ P \in [Ids -> Conns \cup {0}]
    /\ \A c \in Conns : C[c].peer # "none" => P[C[c].id] = c
    /\ \A i \in Up(P) : C[P[i]].id = i /\ C[P[i]].peer # "none"

\* A step leaves a connection's peer as it is, but that it may tell it to leave.
SamePeer(k, b) ==
    /\ b.peer = "none" <=> k.peer = "none"
    /\ k.peer # "none" => b.id = k.id /\ b.flags = k.flags
SamePeers(C, B) == \A c \in Conns : SamePeer(C[c], B[c])
Changed(C, B) == ConnsSound(B) /\ SamePeers(C, B) /\ \A c \in Conns : Stays(C[c], B[c])

\* Such a step keeps the peers map true.
LEMMA PeersKept ==
    ASSUME NEW C, NEW B, NEW P, SamePeers(C, B), PeersOK(C, P)
    PROVE  PeersOK(B, P) /\ \A f : With(B, P, f) = With(C, P, f)
<1>1. \A i \in Up(P) : P[i] \in Conns /\ C[P[i]].id = i /\ C[P[i]].peer # "none" BY DEF PeersOK, Up
<1>2. \A i \in Up(P) : B[P[i]].id = i /\ B[P[i]].peer # "none" /\ B[P[i]].flags = C[P[i]].flags
  BY <1>1 DEF SamePeers, SamePeer
<1>3. ASSUME NEW c \in Conns, B[c].peer # "none" PROVE P[B[c].id] = c
  <2>1. C[c].peer # "none" /\ B[c].id = C[c].id BY <1>3 DEF SamePeers, SamePeer
  <2> QED BY <2>1 DEF PeersOK
<1>4. PeersOK(B, P) BY <1>2, <1>3 DEF PeersOK
<1>5. \A f : With(B, P, f) = With(C, P, f) BY <1>2 DEF With
<1> QED BY <1>4, <1>5

\* A step that starts no dial and adds and drops no peer.
LEMMA ChangedSound ==
    ASSUME NEW C, NEW B, NEW P, Changed(C, B), Connections(C), PeersOK(C, P)
    PROVE  /\ Connections(B) /\ PeersOK(B, P) /\ \A f : With(B, P, f) = With(C, P, f)
           /\ \A D, R, q : Books(D, R, q, C) => Books(D, R, q, B)
<1>1. OneDial(B) BY OneDialKept DEF Changed, Connections
<1>2. PeersOK(B, P) /\ \A f : With(B, P, f) = With(C, P, f) BY PeersKept DEF Changed
<1>3. ASSUME NEW D, NEW R, NEW q, Books(D, R, q, C) PROVE Books(D, R, q, B)
  <2>1. PICK W : W = Waits(q, 0) OBVIOUS
  <2>2. DialBooks(D, R, W, C) BY <1>3, <2>1 DEF Books
  <2>3. DialBooks(D, R, W, B) BY <2>2, BooksKept DEF Changed
  <2> QED BY <1>3, <2>1, <2>3 DEF Books
<1> QED BY <1>1, <1>2, <1>3 DEF Changed, Connections

\* One connection changes.
Replaced(C, B, c, b) == AreConns(B) /\ B[c] = b /\ \A e \in Conns : e # c => B[e] = C[e]
\* It is such a step if the one connection changes so.
LEMMA OneChanged ==
    ASSUME NEW C, ConnsSound(C), NEW c \in Conns, NEW b, ConnSound(b), Stays(C[c], b), SamePeer(C[c], b),
           NEW B, Replaced(C, B, c, b)
    PROVE  Changed(C, B)
<1>1. B[c] = b /\ (\A e \in Conns : e # c => B[e] = C[e]) /\ AreConns(B) BY DEF Replaced
<1>2. \A e \in Conns : Stays(C[e], C[e]) /\ SamePeer(C[e], C[e]) BY DEF Stays, SamePeer
<1>3. \A e \in Conns : ConnSound(B[e]) BY <1>1 DEF ConnsSound
<1>4. \A e \in Conns : Stays(C[e], B[e]) /\ SamePeer(C[e], B[e]) BY <1>1, <1>2
<1> QED BY <1>1, <1>3, <1>4 DEF Changed, ConnsSound, SamePeers

\* A setup goes on.
LEMMA SetupMoves ==
    ASSUME NEW k, ConnSound(k), NEW x \in Setups \ {"none", "enter"}, k.setup # "none",
           x = "addwait" \/ k.peer = "none", NEW i \in Ids, k.id \in {i, NoId}, NEW fs \in SUBSET ConnFlags,
           fs \cap DialFlags = k.flags \cap DialFlags, k.peer = "none" \/ fs = k.flags,
           NEW b, IsConn(b), b.setup = x, b.peer = k.peer, b.id = i, b.flags = fs
    PROVE  ConnSound(b) /\ Stays(k, b) /\ SamePeer(k, b)
<1>1. ConnSound(b) BY DEF ConnSound
<1>2. ByDial(k) => k.id \in Ids BY DEF ConnSound, ByDial
<1>3. NoId \notin Ids BY ServerAssumption
<1>4. k.id \in Ids => b.id = k.id BY <1>3
<1>5. Stays(k, b) BY <1>2, <1>4 DEF Stays, ByDial
<1>6. k.peer # "none" => k.id \in Ids BY DEF ConnSound
<1>7. SamePeer(k, b) BY <1>4, <1>6 DEF SamePeer
<1> QED BY <1>1, <1>5, <1>7

\* Peer.Disconnect, or a peer's run returns.
LEMMA PeerLeaves ==
    ASSUME NEW k, ConnSound(k), k.peer = "up", NEW b, b = [k EXCEPT !.peer = "leaving"]
    PROVE  ConnSound(b) /\ Stays(k, b) /\ SamePeer(k, b) /\ b.setup = k.setup /\ b.peer # "none"
<1>1. IsConn(b) /\ b.peer = "leaving" /\ b.setup = k.setup /\ b.id = k.id /\ b.flags = k.flags
  BY DEF ConnSound, IsConn, ConnFields
<1>2. ConnSound(b) BY <1>1 DEF ConnSound
<1> QED BY <1>1, <1>2 DEF Stays, SamePeer, ByDial

\* Several peers are told to leave.
LEMMA Disconnected ==
    ASSUME NEW C, ConnsSound(C), NEW X,
           NEW B, B = [c \in Conns |-> IF c \in X /\ C[c].peer = "up" THEN [C[c] EXCEPT !.peer = "leaving"] ELSE C[c]]
    PROVE  Changed(C, B) /\ \A c \in Conns : B[c].setup = C[c].setup
<1>1. ASSUME NEW c \in Conns
      PROVE  ConnSound(B[c]) /\ Stays(C[c], B[c]) /\ SamePeer(C[c], B[c]) /\ B[c].setup = C[c].setup
  <2>1. ConnSound(C[c]) BY DEF ConnsSound
  <2>2. CASE c \in X /\ C[c].peer = "up"
    <3>1. PICK k : k = C[c] OBVIOUS
    <3>2. B[c] = [k EXCEPT !.peer = "leaving"] BY <2>2, <3>1
    <3> QED BY <2>1, <2>2, <3>1, <3>2, PeerLeaves
  <2>3. CASE ~(c \in X /\ C[c].peer = "up")
    <3>1. B[c] = C[c] BY <2>3
    <3> QED BY <2>1, <3>1 DEF Stays, SamePeer
  <2> QED BY <2>2, <2>3
<1>2. B = [c \in Conns |-> B[c]] OBVIOUS
<1> QED BY <1>1, <1>2 DEF Changed, ConnsSound, AreConns, SamePeers

\* SetupConn returns.
LEMMA SettledIs ==
    ASSUME NEW k, ConnSound(k), k.setup # "none", NEW b, b = Settled(k)
    PROVE  /\ ConnSound(b) /\ b.setup = "none" /\ SamePeer(k, b)
           /\ ByDial(b) => ByDial(k) /\ b.id = k.id
<1>1. CASE k.peer = "none"
  <2>1. b = Free BY <1>1 DEF Settled
  <2> QED BY <1>1, <2>1, FreeIs DEF SamePeer, ByDial
<1>2. CASE k.peer # "none"
  <2>1. b = [k EXCEPT !.setup = "none"] BY <1>2 DEF Settled
  <2>2. IsConn(b) /\ b.setup = "none" /\ b.peer = k.peer /\ b.id = k.id /\ b.flags = k.flags
    BY <2>1 DEF ConnSound, IsConn, ConnFields
  <2>3. ConnSound(b) BY <1>2, <2>2 DEF ConnSound, Setups
  <2> QED BY <2>2, <2>3 DEF SamePeer, ByDial
<1> QED BY <1>1, <1>2

\* The connections and the books when SetupConn returns.
LEMMA SetupEnded ==
    ASSUME NEW C, Connections(C), NEW P, PeersOK(C, P), NEW c \in Conns, C[c].setup # "none",
           NEW B, AreConns(B), B[c] = Settled(C[c]), \A e \in Conns : e # c => B[e] = C[e]
    PROVE  /\ Connections(B) /\ PeersOK(B, P) /\ \A f : With(B, P, f) = With(C, P, f)
           /\ \A e \in Conns : e # c => B[e] = C[e]
           /\ \A D, R, q : Books(D, R, q, C) =>
                Books(D, TaskReturns(R, c), q, B)
<1>1. PICK k, b : k = C[c] /\ b = Settled(k) OBVIOUS
<1>2. ConnSound(k) BY <1>1 DEF Connections, ConnsSound
<1>3. /\ ConnSound(b) /\ b.setup = "none" /\ SamePeer(k, b)
      /\ ByDial(b) => ByDial(k) /\ b.id = k.id
  BY <1>1, <1>2, SettledIs
<1>4. B[c] = b /\ (\A e \in Conns : e # c => B[e] = C[e]) /\ AreConns(B) BY <1>1
<1>5. ConnsSound(B) BY <1>3, <1>4 DEF ConnsSound, Connections
<1>6. SamePeers(C, B) BY <1>1, <1>3, <1>4 DEF SamePeers, SamePeer
<1>7. PeersOK(B, P) /\ \A f : With(B, P, f) = With(C, P, f) BY <1>6, PeersKept
<1>8. OneDial(B)
  <2> SUFFICES ASSUME NEW a \in Conns, NEW e \in Conns, ByDial(B[a]), ByDial(B[e]), B[a].id = B[e].id
               PROVE  a = e
    BY DEF OneDial
  <2>1. ByDial(C[a]) /\ ByDial(C[e]) /\ C[a].id = C[e].id BY <1>1, <1>3, <1>4
  <2> QED BY <2>1 DEF OneDial, Connections
<1>9. ASSUME NEW D, NEW R, NEW q, Books(D, R, q, C)
      PROVE  Books(D, TaskReturns(R, c), q, B)
  <2>1. PICK W : W = Waits(q, 0) OBVIOUS
  <2>2. DialBooks(D, R, W, C) BY <1>9, <2>1 DEF Books
  <2>3. SetupReturns(C, B, c) BY <1>1, <1>3, <1>4 DEF SetupReturns
  <2>4. DialBooks(D, TaskReturns(R, c), W, B)
    BY <2>2, <2>3, BooksEnd
  <2> QED BY <1>9, <2>1, <2>4 DEF Books
<1> QED BY <1>4, <1>5, <1>7, <1>8, <1>9 DEF Connections

\* startTasks leaves the peers alone.
LEMMA GrownPeers ==
    ASSUME NEW C, NEW B, Grown(C, B)
    PROVE  SamePeers(C, B)
BY FreeIs DEF Grown, SamePeers, SamePeer

Mapped(P, Q, i, c) == Q[i] = c /\ (\A j \in Ids : j # i => Q[j] = P[j]) /\ Q \in [Ids -> Conns \cup {0}]

\* delpeer: peer i leaves the map.
Fewer(B, Q, C, P, i) ==
    /\ i \in Up(P) /\ Up(Q) = Up(P) \ {i}
    /\ \A f : With(B, Q, f) = With(C, P, f) \ {i}

\* delpeer deletes by id: what it drops is the peer that has left.
LEMMA PeerDropped ==
    ASSUME NEW C, Connections(C), NEW P, PeersOK(C, P), NEW c \in Conns, C[c].peer = "leaving",
           NEW B, Replaced(C, B, c, Left(C[c])), NEW Q, Mapped(P, Q, C[c].id, 0)
    PROVE  /\ Connections(B) /\ PeersOK(B, Q) /\ Fewer(B, Q, C, P, C[c].id)
           /\ \A f : C[c].id \in With(C, P, f) <=> f \in C[c].flags
           /\ \A e \in Conns : e # c => B[e] = C[e]
           /\ \A D, R, q : Books(D, R, q, C) => Books(D, R, q, B)
<1>1. PICK k, b, i : k = C[c] /\ b = Left(k) /\ i = C[c].id OBVIOUS
<1>2. ConnsSound(C) /\ OneDial(C) /\ ConnSound(k) /\ k.peer = "leaving" BY <1>1 DEF Connections, ConnsSound
<1>3. i \in Ids /\ P[i] = c /\ k.id = i BY <1>1, <1>2 DEF ConnSound, PeersOK
<1>4. ConnSound(b) /\ Stays(k, b) /\ b.peer = "none"
  <2>1. CASE k.setup = "none"
    <3>1. b = Free BY <1>1, <2>1 DEF Left
    <3> QED BY <2>1, <3>1, FreeIs DEF Stays, ByDial
  <2>2. CASE k.setup # "none"
    <3>1. b = [k EXCEPT !.peer = "none"] BY <1>1, <2>2 DEF Left
    <3>2. IsConn(b) /\ b.peer = "none" /\ b.setup = k.setup /\ b.id = k.id /\ b.flags = k.flags
      BY <1>2, <3>1 DEF ConnSound, IsConn, ConnFields
    <3>3. ConnSound(b) BY <1>2, <2>2, <3>2 DEF ConnSound
    <3> QED BY <3>2, <3>3 DEF Stays, ByDial
  <2> QED BY <2>1, <2>2
<1>5. B[c] = b /\ (\A e \in Conns : e # c => B[e] = C[e]) /\ AreConns(B)
  BY <1>1 DEF Replaced
<1>6. ConnsSound(B) BY <1>2, <1>4, <1>5 DEF ConnsSound
<1>7. \A e \in Conns : Stays(C[e], B[e])
  <2>1. \A e \in Conns : Stays(C[e], C[e]) BY DEF Stays
  <2> QED BY <1>1, <1>4, <1>5, <2>1
<1>8. OneDial(B) BY <1>2, <1>7, OneDialKept
<1>9. ASSUME NEW D, NEW R, NEW q, Books(D, R, q, C) PROVE Books(D, R, q, B)
  <2>1. PICK W : W = Waits(q, 0) OBVIOUS
  <2>2. DialBooks(D, R, W, C) BY <1>9, <2>1 DEF Books
  <2>3. DialBooks(D, R, W, B) BY <1>7, <2>2, BooksKept
  <2> QED BY <1>9, <2>1, <2>3 DEF Books
<1>10. /\ P \in [Ids -> Conns \cup {0}]
       /\ \A e \in Conns : C[e].peer # "none" => P[C[e].id] = e
       /\ \A j \in Up(P) : C[P[j]].id = j /\ C[P[j]].peer # "none"
  BY DEF PeersOK
<1>11. Q[i] = 0 /\ (\A j \in Ids : j # i => Q[j] = P[j]) /\ Q \in [Ids -> Conns \cup {0}] BY <1>1 DEF Mapped
<1>12. i \in Up(P) /\ Up(Q) = Up(P) \ {i} BY <1>3, <1>11, ConnsAre DEF Up
<1>13. \A j \in Up(P) : P[j] \in Conns /\ (j # i => P[j] # c /\ B[P[j]] = C[P[j]] /\ Q[j] = P[j])
  <2> SUFFICES ASSUME NEW j \in Up(P) PROVE P[j] \in Conns /\ (j # i => P[j] # c /\ B[P[j]] = C[P[j]] /\ Q[j] = P[j])
    OBVIOUS
  <2>1. P[j] \in Conns /\ C[P[j]].id = j /\ j \in Ids BY <1>10 DEF Up
  <2>2. j # i => P[j] # c BY <1>1, <2>1
  <2> QED BY <1>5, <1>11, <2>1, <2>2
<1>14. ASSUME NEW f PROVE With(B, Q, f) = With(C, P, f) \ {i}
  <2>1. \A j \in Up(Q) : j \in Up(P) /\ j # i /\ B[Q[j]] = C[P[j]] BY <1>12, <1>13
  <2> QED BY <1>12, <2>1 DEF With
<1>15. PeersOK(B, Q)
  <2>1. ASSUME NEW e \in Conns, B[e].peer # "none" PROVE Q[B[e].id] = e
    <3>1. e # c BY <1>4, <1>5, <2>1
    <3>2. B[e] = C[e] /\ P[C[e].id] = e BY <1>5, <1>10, <2>1, <3>1
    <3>3. C[e].id \in Ids BY <1>2, <2>1, <3>2 DEF ConnsSound, ConnSound
    <3>4. C[e].id # i BY <1>3, <3>1, <3>2
    <3> QED BY <1>11, <3>2, <3>3, <3>4
  <2>2. ASSUME NEW j \in Up(Q) PROVE B[Q[j]].id = j /\ B[Q[j]].peer # "none"
    <3>1. j \in Up(P) /\ j # i BY <1>12
    <3>2. B[Q[j]] = C[P[j]] BY <1>13, <3>1
    <3> QED BY <1>10, <3>1, <3>2
  <2> QED BY <1>11, <2>1, <2>2 DEF PeersOK
<1>16. \A f : i \in With(C, P, f) <=> f \in C[c].flags BY <1>3, <1>12 DEF With
<1>17. Fewer(B, Q, C, P, i) BY <1>12, <1>14 DEF Fewer
<1> QED BY <1>1, <1>5, <1>6, <1>8, <1>9, <1>15, <1>16, <1>17 DEF Connections

\* A peer is added: connection c of node i, which has none.
More(B, Q, C, P, i, fs) ==
    /\ i \notin Up(P) /\ Up(Q) = Up(P) \cup {i}
    /\ \A f : With(B, Q, f) = IF f \in fs THEN With(C, P, f) \cup {i} ELSE With(C, P, f)

\* The peer that is added is the only one of its node.
LEMMA PeerAdded ==
    ASSUME NEW C, Connections(C), NEW P, PeersOK(C, P), NEW c \in Conns, C[c].peer = "none", C[c].setup = "addwait",
           P[C[c].id] = 0,
           NEW B, Replaced(C, B, c, [C[c] EXCEPT !.peer = "up"]), NEW Q, Mapped(P, Q, C[c].id, c)
    PROVE  /\ Connections(B) /\ PeersOK(B, Q) /\ More(B, Q, C, P, C[c].id, C[c].flags) /\ C[c].id \in Ids
           /\ B[c].setup = C[c].setup
           /\ \A D, R, q : Books(D, R, q, C) => Books(D, R, q, B)
<1>1. PICK k, b, i : k = C[c] /\ b = [k EXCEPT !.peer = "up"] /\ i = C[c].id OBVIOUS
<1>2. ConnsSound(C) /\ OneDial(C) /\ ConnSound(k) /\ k.peer = "none" BY <1>1 DEF Connections, ConnsSound
<1>3. i \in Ids /\ P[i] = 0 /\ k.id = i BY <1>1, <1>2 DEF ConnSound
<1>4. IsConn(b) /\ b.peer = "up" /\ b.setup = k.setup /\ b.id = k.id /\ b.flags = k.flags
  BY <1>1, <1>2 DEF ConnSound, IsConn, ConnFields
<1>5. ConnSound(b) /\ Stays(k, b) BY <1>1, <1>2, <1>3, <1>4 DEF ConnSound, Stays, ByDial
<1>6. B[c] = b /\ (\A e \in Conns : e # c => B[e] = C[e]) /\ AreConns(B)
  BY <1>1 DEF Replaced
<1>7. ConnsSound(B) BY <1>2, <1>5, <1>6 DEF ConnsSound
<1>8. \A e \in Conns : Stays(C[e], B[e])
  <2>1. \A e \in Conns : Stays(C[e], C[e]) BY DEF Stays
  <2> QED BY <1>1, <1>5, <1>6, <2>1
<1>9. OneDial(B) BY <1>2, <1>8, OneDialKept
<1>10. ASSUME NEW D, NEW R, NEW q, Books(D, R, q, C) PROVE Books(D, R, q, B)
  <2>1. PICK W : W = Waits(q, 0) OBVIOUS
  <2>2. DialBooks(D, R, W, C) BY <1>10, <2>1 DEF Books
  <2>3. DialBooks(D, R, W, B) BY <1>8, <2>2, BooksKept
  <2> QED BY <1>10, <2>1, <2>3 DEF Books
<1>11. /\ P \in [Ids -> Conns \cup {0}]
       /\ \A e \in Conns : C[e].peer # "none" => P[C[e].id] = e
       /\ \A j \in Up(P) : C[P[j]].id = j /\ C[P[j]].peer # "none"
  BY DEF PeersOK
<1>12. Q[i] = c /\ (\A j \in Ids : j # i => Q[j] = P[j]) /\ Q \in [Ids -> Conns \cup {0}] BY <1>1 DEF Mapped
<1>13. i \notin Up(P) /\ Up(Q) = Up(P) \cup {i} BY <1>3, <1>12, ConnsAre DEF Up
<1>14. \A j \in Up(P) : P[j] # c /\ B[P[j]] = C[P[j]] /\ Q[j] = P[j]
  <2> SUFFICES ASSUME NEW j \in Up(P) PROVE P[j] # c /\ B[P[j]] = C[P[j]] /\ Q[j] = P[j] OBVIOUS
  <2>1. P[j] \in Conns /\ C[P[j]].peer # "none" /\ j \in Ids /\ j # i BY <1>3, <1>11 DEF Up
  <2>2. P[j] # c BY <2>1
  <2> QED BY <1>6, <1>12, <2>1, <2>2
<1>15. ASSUME NEW f PROVE With(B, Q, f) = IF f \in k.flags THEN With(C, P, f) \cup {i} ELSE With(C, P, f)
  <2>1. \A j \in Up(P) : j # i /\ B[Q[j]] = C[P[j]] BY <1>13, <1>14
  <2>2. B[Q[i]].flags = k.flags BY <1>4, <1>6, <1>12
  <2> QED BY <1>13, <2>1, <2>2 DEF With
<1>16. PeersOK(B, Q)
  <2>1. ASSUME NEW e \in Conns, B[e].peer # "none" PROVE Q[B[e].id] = e
    <3>1. CASE e = c BY <1>3, <1>4, <1>6, <1>12, <3>1
    <3>2. CASE e # c
      <4>1. B[e] = C[e] /\ P[C[e].id] = e BY <1>6, <1>11, <2>1, <3>2
      <4>2. C[e].id \in Ids BY <1>2, <2>1, <4>1 DEF ConnsSound, ConnSound
      <4>3. C[e].id # i BY <1>3, <4>1, ConnsAre
      <4> QED BY <1>12, <4>1, <4>2, <4>3
    <3> QED BY <3>1, <3>2
  <2>2. ASSUME NEW j \in Up(Q) PROVE B[Q[j]].id = j /\ B[Q[j]].peer # "none"
    <3>1. CASE j = i BY <1>3, <1>4, <1>6, <1>12, <3>1
    <3>2. CASE j \in Up(P)
      <4>1. B[Q[j]] = C[P[j]] BY <1>14, <3>2
      <4> QED BY <1>11, <3>2, <4>1
    <3> QED BY <1>13, <3>1, <3>2
  <2> QED BY <1>12, <2>1, <2>2 DEF PeersOK
<1>17. More(B, Q, C, P, i, k.flags) BY <1>13, <1>15 DEF More
<1> QED BY <1>1, <1>3, <1>4, <1>6, <1>7, <1>9, <1>10, <1>16, <1>17 DEF Connections

-----------------------------------------------------------------------------
\* The limits on peers.
Limits(C, P, k) ==
    /\ Cardinality(Up(P) \ (With(C, P, "static") \cup With(C, P, "trusted"))) <= k.maxPeers
    /\ Cardinality(With(C, P, "inbound") \ With(C, P, "trusted")) <= MaxInboundConns(k)
Counted(C, P, n) == n = Cardinality(With(C, P, "inbound"))

\* The quotient of natural numbers is one, and not larger.
LEMMA Quotient ==
    ASSUME NEW m \in Nat, NEW r \in Nat, r > 0
    PROVE  m \div r \in Int /\ m \div r >= 0 /\ m \div r <= m
OBVIOUS

\* The shares of a Config: what is dialled and what comes in make up MaxPeers.
LEMMA ConfigIs ==
    ASSUME NEW k \in Configs
    PROVE  /\ k.maxPeers \in Nat /\ MaxDialedConns(k) \in Nat /\ MaxInboundConns(k) \in Nat
           /\ k.static \in SUBSET Ids /\ k.boot \in Seq(Ids) /\ k.listen \in BOOLEAN
           /\ k.operands \in SUBSET Ids /\ k.results \in SUBSET Seq(Ids)
<1>1. k.maxPeers \in Nat \ {0} /\ k.dialRatio \in Nat \ {0} BY ServerAssumption
<1>2. PICK m, r, d : m = k.maxPeers /\ r = k.dialRatio /\ d = m \div r OBVIOUS
<1>3. m \in Nat /\ r \in Nat /\ r > 0 BY <1>1, <1>2
<1>4. d \in Int /\ d >= 0 /\ d <= m BY <1>2, <1>3, Quotient
<1>5. PICK x : x = MaxDialedConns(k) OBVIOUS
<1>6. x = 0 \/ x = d BY <1>2, <1>5 DEF MaxDialedConns
<1>7. MaxInboundConns(k) = m - x BY <1>2, <1>5 DEF MaxInboundConns
<1>8. x \in Nat /\ m - x \in Nat BY <1>3, <1>4, <1>6
<1>9. k.static \in SUBSET Ids /\ k.boot \in Seq(Ids) /\ k.listen \in BOOLEAN
      /\ k.operands \in SUBSET Ids /\ k.results \in SUBSET Seq(Ids)
  BY ServerAssumption
<1> QED BY <1>2, <1>3, <1>5, <1>7, <1>8, <1>9

\* There are finitely many peers.
LEMMA UpFinite ==
    ASSUME NEW P, NEW C
    PROVE  /\ IsFiniteSet(Up(P)) /\ \A S \in SUBSET Up(P) : IsFiniteSet(S) /\ Cardinality(S) \in Nat
           /\ \A f : With(C, P, f) \in SUBSET Up(P)
<1>1. Up(P) \in SUBSET Ids BY DEF Up
<1>2. \A S \in SUBSET Up(P) : IsFiniteSet(S) /\ Cardinality(S) \in Nat
  BY <1>1, DialAssumption, FS_Subset, FS_CardinalityType
<1>3. \A f : With(C, P, f) \in SUBSET Up(P) BY DEF With
<1> QED BY <1>2, <1>3

\* The dynamic share.
ShareKept(C, P, D, k) == Cardinality(With(C, P, "dyn") \cup Dyn(D)) <= MaxDialedConns(k)

\* What holds of the books at any time, and what more while the loop serves.
Sound(k, d, P, C) ==
    /\ k \in Configs /\ DialSound(d) /\ Connections(C) /\ PeersOK(C, P)
    /\ Limits(C, P, k) /\ ShareKept(C, P, d.dialing, k)
Serving(k, d, R, q, P, n, C) ==
    /\ d.maxDynDials = MaxDialedConns(k) /\ Books(d.dialing, R, q, C) /\ Counted(C, P, n)

SameFlags(C, B, P) == \A f : With(B, P, f) = With(C, P, f)

\* The limits hold as before if the peers and their flags are the same.
LEMMA SoundSame ==
    ASSUME NEW k, NEW d, NEW P, NEW C, Sound(k, d, P, C), NEW B, Connections(B), PeersOK(B, P), SameFlags(C, B, P)
    PROVE  Sound(k, d, P, B) /\ \A n : Counted(C, P, n) => Counted(B, P, n)
<1>1. With(B, P, "static") = With(C, P, "static") /\ With(B, P, "trusted") = With(C, P, "trusted")
      /\ With(B, P, "inbound") = With(C, P, "inbound") /\ With(B, P, "dyn") = With(C, P, "dyn")
  BY DEF SameFlags
<1>2. Limits(B, P, k) BY <1>1 DEF Sound, Limits
<1>3. ShareKept(B, P, d.dialing, k) BY <1>1 DEF Sound, ShareKept
<1> QED BY <1>1, <1>2, <1>3 DEF Sound, Counted

\* There are finitely many dynamic dials and peers that came from one.
LEMMA DynFinite ==
    ASSUME NEW D, NEW C, NEW P
    PROVE  IsFiniteSet(With(C, P, "dyn")) /\ IsFiniteSet(Dyn(D)) /\ IsFiniteSet(With(C, P, "dyn") \cup Dyn(D))
<1>1. With(C, P, "dyn") \in SUBSET Ids /\ Dyn(D) \in SUBSET Ids BY DEF With, Up, Dyn
<1>2. (With(C, P, "dyn") \cup Dyn(D)) \in SUBSET Ids BY <1>1
<1> QED BY <1>1, <1>2, DialAssumption, FS_Subset

\* The share is kept if no dynamic dial is begun.
LEMMA SoundDial ==
    ASSUME NEW k, NEW d, NEW P, NEW C, Sound(k, d, P, C), NEW e, DialSound(e), Dyn(e.dialing) \in SUBSET Dyn(d.dialing)
    PROVE  Sound(k, e, P, C)
<1>1. PICK A, B : A = With(C, P, "dyn") \cup Dyn(d.dialing) /\ B = With(C, P, "dyn") \cup Dyn(e.dialing) OBVIOUS
<1>2. IsFiniteSet(A) /\ B \in SUBSET A BY <1>1, DynFinite
<1>3. Cardinality(B) <= Cardinality(A) /\ Cardinality(A) \in Nat /\ Cardinality(B) \in Nat
  BY <1>2, FS_Subset, FS_CardinalityType
<1>4. Cardinality(A) <= MaxDialedConns(k) BY <1>1 DEF Sound, ShareKept
<1>5. MaxDialedConns(k) \in Nat BY ConfigIs DEF Sound
<1>6. Cardinality(B) <= MaxDialedConns(k) BY <1>3, <1>4, <1>5
<1>7. ShareKept(C, P, e.dialing, k) BY <1>1, <1>6 DEF ShareKept
<1> QED BY <1>7 DEF Sound

\* newTasks respects the share.
LEMMA SoundNew ==
    ASSUME NEW k, NEW d, NEW P, NEW C, Sound(k, d, P, C), NEW e, DialSound(e), d.maxDynDials = MaxDialedConns(k),
           \/ Dyn(e.dialing) = Dyn(d.dialing)
           \/ Cardinality(With(C, P, "dyn")) + Cardinality(Dyn(e.dialing)) <= d.maxDynDials
    PROVE  Sound(k, e, P, C)
<1>1. CASE Dyn(e.dialing) = Dyn(d.dialing) BY <1>1, SoundDial
<1>2. CASE Cardinality(With(C, P, "dyn")) + Cardinality(Dyn(e.dialing)) <= d.maxDynDials
  <2>1. PICK A, B : A = With(C, P, "dyn") /\ B = Dyn(e.dialing) OBVIOUS
  <2>2. IsFiniteSet(A) /\ IsFiniteSet(B) BY <2>1, DynFinite
  <2>3. /\ Cardinality(A \cup B) = Cardinality(A) + Cardinality(B) - Cardinality(A \cap B)
        /\ IsFiniteSet(A \cup B) /\ IsFiniteSet(A \cap B)
    BY <2>2, FS_Union, FS_Intersection
  <2>4. Cardinality(A) \in Nat /\ Cardinality(B) \in Nat /\ Cardinality(A \cap B) \in Nat
    BY <2>2, <2>3, FS_CardinalityType
  <2>5. Cardinality(A) + Cardinality(B) <= MaxDialedConns(k) BY <1>2, <2>1
  <2>6. MaxDialedConns(k) \in Nat BY ConfigIs DEF Sound
  <2>7. Cardinality(A \cup B) <= MaxDialedConns(k) BY <2>3, <2>4, <2>5, <2>6
  <2>8. ShareKept(C, P, e.dialing, k) BY <2>1, <2>7 DEF ShareKept
  <2> QED BY <2>8 DEF Sound
<1> QED BY <1>1, <1>2

\* Fewer peers respect a limit too.
LEMMA CardSubset ==
    ASSUME NEW P, NEW S \in SUBSET Up(P), NEW T \in SUBSET S, NEW m \in Nat, Cardinality(S) <= m
    PROVE  Cardinality(T) <= m
<1>1. IsFiniteSet(S) BY UpFinite
<1>2. Cardinality(T) <= Cardinality(S) /\ Cardinality(S) \in Nat /\ Cardinality(T) \in Nat
  BY <1>1, FS_Subset, FS_CardinalityType
<1> QED BY <1>2

\* A peer leaves.
LEMMA SoundFewer ==
    ASSUME NEW k, NEW d, NEW P, NEW C, Sound(k, d, P, C), NEW B, NEW Q, NEW i, Connections(B), PeersOK(B, Q),
           Fewer(B, Q, C, P, i)
    PROVE  Sound(k, d, Q, B)
<1>1. Up(Q) = Up(P) \ {i} /\ \A f : With(B, Q, f) = With(C, P, f) \ {i} BY DEF Fewer
<1>2. PICK st, tr, inb, dy : /\ st = With(C, P, "static") /\ tr = With(C, P, "trusted")
                             /\ inb = With(C, P, "inbound") /\ dy = With(C, P, "dyn")
  OBVIOUS
<1>3. With(B, Q, "static") = st \ {i} /\ With(B, Q, "trusted") = tr \ {i} /\ With(B, Q, "inbound") = inb \ {i}
      /\ With(B, Q, "dyn") = dy \ {i}
  BY <1>1, <1>2
<1>4. PICK S1, S2, T1, T2, U : /\ S1 = Up(P) \ (st \cup tr) /\ S2 = inb \ tr /\ U = Up(P)
                            /\ T1 = (Up(P) \ {i}) \ ((st \ {i}) \cup (tr \ {i})) /\ T2 = (inb \ {i}) \ (tr \ {i})
  OBVIOUS
<1>5. S1 \in SUBSET Up(P) /\ S2 \in SUBSET Up(P) /\ T1 \in SUBSET S1 /\ T2 \in SUBSET S2
  <2>1. inb \in SUBSET Up(P) BY <1>2, UpFinite
  <2> QED BY <1>4, <2>1
<1>6. Cardinality(S1) <= k.maxPeers /\ Cardinality(S2) <= MaxInboundConns(k) BY <1>2, <1>4 DEF Sound, Limits
<1>7. k.maxPeers \in Nat /\ MaxInboundConns(k) \in Nat BY ConfigIs DEF Sound
<1>8. Cardinality(T1) <= k.maxPeers BY <1>5, <1>6, <1>7, CardSubset
<1>9. Cardinality(T2) <= MaxInboundConns(k) BY <1>5, <1>6, <1>7, CardSubset
<1>10. Limits(B, Q, k) BY <1>1, <1>3, <1>4, <1>8, <1>9 DEF Limits
<1>11. ShareKept(B, Q, d.dialing, k)
  <2>1. PICK D, X, Y : D = Dyn(d.dialing) /\ X = dy \cup D /\ Y = (dy \ {i}) \cup D OBVIOUS
  <2>2. IsFiniteSet(X) /\ Y \in SUBSET X BY <1>2, <2>1, DynFinite
  <2>3. Cardinality(Y) <= Cardinality(X) /\ Cardinality(X) \in Nat /\ Cardinality(Y) \in Nat
    BY <2>2, FS_Subset, FS_CardinalityType
  <2>4. Cardinality(X) <= MaxDialedConns(k) BY <1>2, <2>1 DEF Sound, ShareKept
  <2>5. MaxDialedConns(k) \in Nat BY ConfigIs DEF Sound
  <2>6. Cardinality(Y) <= MaxDialedConns(k) BY <2>3, <2>4, <2>5
  <2> QED BY <1>3, <2>1, <2>6 DEF ShareKept
<1> QED BY <1>10, <1>11 DEF Sound

\* The inbound count when a peer leaves.
LEMMA CountFewer ==
    ASSUME NEW P, NEW C, NEW B, NEW Q, NEW i, Fewer(B, Q, C, P, i), NEW n, Counted(C, P, n), NEW fs,
           i \in With(C, P, "inbound") <=> "inbound" \in fs
    PROVE  Counted(B, Q, n - (IF "inbound" \in fs THEN 1 ELSE 0))
<1>1. PICK S, T : S = With(C, P, "inbound") /\ T = With(B, Q, "inbound") OBVIOUS
<1>2. T = S \ {i} BY <1>1 DEF Fewer
<1>3. IsFiniteSet(S) /\ Cardinality(S) \in Nat BY <1>1, UpFinite
<1>4. CASE "inbound" \in fs
  <2>1. i \in S BY <1>1, <1>4
  <2>2. Cardinality(T) = Cardinality(S) - 1 BY <1>2, <1>3, <2>1, FS_RemoveElement
  <2> QED BY <1>1, <1>4, <2>2 DEF Counted
<1>5. CASE "inbound" \notin fs
  <2>1. T = S BY <1>1, <1>2, <1>5
  <2> QED BY <1>1, <1>3, <1>5, <2>1 DEF Counted
<1> QED BY <1>4, <1>5

\* A peer is added: the checks were passed just before.
LEMMA SoundMore ==
    ASSUME NEW k, NEW d, NEW P, NEW C, Sound(k, d, P, C), NEW B, NEW Q, NEW i, NEW fs, Connections(B), PeersOK(B, Q),
           More(B, Q, C, P, i, fs),
           fs \cap {"trusted", "static"} = {} => Cardinality(Up(P)) < k.maxPeers,
           "trusted" \notin fs /\ "inbound" \in fs => Cardinality(With(C, P, "inbound")) < MaxInboundConns(k),
           "dyn" \in fs => i \in Dyn(d.dialing)
    PROVE  Sound(k, d, Q, B)
<1>1. /\ i \notin Up(P) /\ Up(Q) = Up(P) \cup {i}
      /\ \A f : With(B, Q, f) = IF f \in fs THEN With(C, P, f) \cup {i} ELSE With(C, P, f)
  BY DEF More
<1>2. PICK st, tr, inb, dy : /\ st = With(C, P, "static") /\ tr = With(C, P, "trusted")
                             /\ inb = With(C, P, "inbound") /\ dy = With(C, P, "dyn")
  OBVIOUS
<1>3. PICK st1, tr1, inb1, dy1 : /\ st1 = With(B, Q, "static") /\ tr1 = With(B, Q, "trusted")
                                 /\ inb1 = With(B, Q, "inbound") /\ dy1 = With(B, Q, "dyn")
  OBVIOUS
<1>4. /\ st1 = IF "static" \in fs THEN st \cup {i} ELSE st
      /\ tr1 = IF "trusted" \in fs THEN tr \cup {i} ELSE tr
      /\ inb1 = IF "inbound" \in fs THEN inb \cup {i} ELSE inb
      /\ dy1 = IF "dyn" \in fs THEN dy \cup {i} ELSE dy
  BY <1>1, <1>2, <1>3
<1>5. /\ IsFiniteSet(Up(P)) /\ Cardinality(Up(P)) \in Nat
      /\ st \in SUBSET Up(P) /\ tr \in SUBSET Up(P) /\ inb \in SUBSET Up(P) /\ dy \in SUBSET Up(P)
  BY <1>2, UpFinite
<1>6. k.maxPeers \in Nat /\ MaxInboundConns(k) \in Nat /\ MaxDialedConns(k) \in Nat BY ConfigIs DEF Sound
<1>7. PICK U, V, S1, S2, T1, T2 : /\ U = Up(P) /\ V = Up(Q) /\ S1 = U \ (st \cup tr) /\ S2 = inb \ tr
                               /\ T1 = V \ (st1 \cup tr1) /\ T2 = inb1 \ tr1
  OBVIOUS
<1>8. Cardinality(S1) <= k.maxPeers /\ Cardinality(S2) <= MaxInboundConns(k) BY <1>2, <1>7 DEF Sound, Limits
<1>9. Cardinality(T1) <= k.maxPeers
  <2>1. CASE "static" \in fs \/ "trusted" \in fs
    <3>1. T1 = S1 BY <1>1, <1>4, <1>5, <1>7, <2>1
    <3> QED BY <1>8, <3>1
  <2>2. CASE "static" \notin fs /\ "trusted" \notin fs
    <3>1. Cardinality(U) < k.maxPeers BY <1>7, <2>2
    <3>2. T1 \in SUBSET V BY <1>7
    <3>a. V = U \cup {i} /\ i \notin U /\ IsFiniteSet(U) BY <1>1, <1>5, <1>7
    <3>3. IsFiniteSet(V) /\ Cardinality(V) = Cardinality(U) + 1 BY <3>a, FS_AddElement
    <3>4. Cardinality(T1) <= Cardinality(V) /\ Cardinality(T1) \in Nat BY <3>2, <3>3, FS_Subset, FS_CardinalityType
    <3> QED BY <1>5, <1>6, <1>7, <3>1, <3>3, <3>4
  <2> QED BY <2>1, <2>2
<1>10. Cardinality(T2) <= MaxInboundConns(k)
  <2>1. CASE "inbound" \notin fs \/ "trusted" \in fs
    <3>1. T2 = S2 BY <1>1, <1>4, <1>5, <1>7, <2>1
    <3> QED BY <1>8, <3>1
  <2>2. CASE "inbound" \in fs /\ "trusted" \notin fs
    <3>1. Cardinality(inb) < MaxInboundConns(k) BY <1>2, <2>2
    <3>2. inb1 = inb \cup {i} /\ T2 \in SUBSET inb1 BY <1>4, <1>7, <2>2
    <3>3. IsFiniteSet(inb) /\ Cardinality(inb) \in Nat BY <1>5, FS_Subset, FS_CardinalityType
    <3>4. i \notin inb BY <1>1, <1>5
    <3>5. IsFiniteSet(inb1) /\ Cardinality(inb1) = Cardinality(inb) + 1 BY <3>2, <3>3, <3>4, FS_AddElement
    <3>6. Cardinality(T2) <= Cardinality(inb1) /\ Cardinality(T2) \in Nat BY <3>2, <3>5, FS_Subset, FS_CardinalityType
    <3> QED BY <1>6, <3>1, <3>3, <3>5, <3>6
  <2> QED BY <2>1, <2>2
<1>11. Limits(B, Q, k) BY <1>3, <1>7, <1>9, <1>10 DEF Limits
<1>12. dy1 \cup Dyn(d.dialing) = dy \cup Dyn(d.dialing) BY <1>4
<1>13. ShareKept(B, Q, d.dialing, k) BY <1>2, <1>3, <1>12 DEF Sound, ShareKept
<1> QED BY <1>11, <1>13 DEF Sound

\* The inbound count when a peer is added.
LEMMA CountMore ==
    ASSUME NEW P, NEW C, NEW B, NEW Q, NEW i, NEW fs, More(B, Q, C, P, i, fs), NEW n, Counted(C, P, n)
    PROVE  Counted(B, Q, n + (IF "inbound" \in fs THEN 1 ELSE 0))
<1>1. PICK S, T : S = With(C, P, "inbound") /\ T = With(B, Q, "inbound") OBVIOUS
<1>2. T = (IF "inbound" \in fs THEN S \cup {i} ELSE S) /\ i \notin Up(P) BY <1>1 DEF More
<1>3. IsFiniteSet(S) /\ Cardinality(S) \in Nat /\ S \in SUBSET Up(P) BY <1>1, UpFinite
<1>4. CASE "inbound" \in fs
  <2>1. i \notin S /\ T = S \cup {i} BY <1>2, <1>3, <1>4
  <2>2. Cardinality(T) = Cardinality(S) + 1 BY <1>3, <2>1, FS_AddElement
  <2> QED BY <1>1, <1>4, <2>2 DEF Counted
<1>5. CASE "inbound" \notin fs BY <1>1, <1>2, <1>3, <1>5 DEF Counted
<1> QED BY <1>4, <1>5

\* A dynamic dial that is being set up counts as one under way.
LEMMA DynMarked ==
    ASSUME NEW D, NEW R, NEW q, NEW C, Books(D, R, q, C), NEW c \in Conns, C[c].setup # "none",
           C[c].id \in Ids, "dyn" \in C[c].flags
    PROVE  C[c].id \in Dyn(D)
<1>1. PICK W : W = Waits(q, 0) OBVIOUS
<1>2. DialBooks(D, R, W, C) BY <1>1 DEF Books
<1>3. ByDial(C[c]) BY DEF ByDial, DialFlags
<1>4. PICK r \in R : r.c = c BY <1>2, <1>3 DEF DialBooks
<1>5. r.task.kind = "dial" /\ C[c].id = r.task.id /\ C[c].flags \cap DialFlags = {r.task.flag}
  BY <1>2, <1>4, ConnsAre DEF DialBooks
<1>6. r.task.flag = "dyn" BY <1>5 DEF DialFlags
<1>7. D[C[c].id] = "dyn" BY <1>2, <1>5, <1>6 DEF DialBooks
<1> QED BY <1>7 DEF Dyn

-----------------------------------------------------------------------------
(* The invariant.                                                          *)

Phases == {"schedule", "select", "check", "answer", "spindown", "ended"}
Over == {"spindown", "ended"}

\* The connection that the loop holds waits at its checkpoint, and no peer runs on
\* it before it is checked.
CurOK(p, r, C) ==
    /\ r = [f \in {"c", "err"} |-> r[f]] /\ r.c \in Conns \cup {0}
    /\ p \in {"check", "answer"} => r.c \in Conns /\ C[r.c].setup \in {"postwait", "addwait"}
    /\ p = "check" => C[r.c].peer = "none"
Ending(p, l, s, P) ==
    /\ l \in BOOLEAN /\ s \in {"no", "waiting", "returned"}
    /\ (s = "returned" => p = "ended") /\ (p = "ended" => Up(P) = {})
Closed(d, R, q) == R = {} /\ q = <<>> /\ \A i \in Ids : d.dialing[i] = "none"

ServerInv ==
    /\ pc \in Phases /\ CurOK(pc, cur, conns) /\ Ending(pc, listening, stop, peers) /\ inboundCount \in Nat
    /\ Sound(cfg, dial, peers, conns)
    /\ pc \notin Over => Serving(cfg, dial, running, queued, peers, inboundCount, conns)
    /\ pc \in Over => Closed(dial, running, queued)

\* A step may leave all connections alone.
LEMMA Unchanged ==
    ASSUME NEW C, Connections(C)
    PROVE  Changed(C, C)
BY DEF Changed, Connections, SamePeers, SamePeer, Stays

\* Steps that neither begin nor end a setup, a peer or a dial.
LEMMA StepKeeps ==
    ASSUME ServerInv, Changed(conns, conns'), DialSound(dial'), dial'.dialing = dial.dialing,
           dial'.maxDynDials = dial.maxDynDials,
           UNCHANGED <<cfg, running, queued, peers, inboundCount>>,
           pc' \in Phases, pc' \in Over <=> pc \in Over,
           CurOK(pc', cur', conns'), Ending(pc', listening', stop', peers)
    PROVE  ServerInv'
<1> USE DEF ServerInv
<1>1. Connections(conns) /\ PeersOK(conns, peers) BY DEF Sound
<1>2. /\ Connections(conns') /\ PeersOK(conns', peers) /\ \A f : With(conns', peers, f) = With(conns, peers, f)
      /\ \A D, R, q : Books(D, R, q, conns) => Books(D, R, q, conns')
  BY <1>1, ChangedSound
<1>3. SameFlags(conns, conns', peers) BY <1>2 DEF SameFlags
<1>4. /\ Sound(cfg, dial, peers, conns')
      /\ \A n : Counted(conns, peers, n) => Counted(conns', peers, n)
  BY <1>2, <1>3, SoundSame
<1>5. Sound(cfg, dial', peers, conns') BY <1>4 DEF Sound
<1>6. pc' \notin Over => Serving(cfg, dial', running, queued, peers, inboundCount, conns')
  BY <1>2, <1>4 DEF Serving
<1>7. pc' \in Over => Closed(dial', running, queued) BY DEF Closed
<1> QED BY <1>5, <1>6, <1>7

\* SetupConn of c returns.
LEMMA EndSetupKeeps ==
    ASSUME ServerInv, NEW c \in Conns, conns[c].setup # "none", EndSetup(c),
           UNCHANGED <<cfg, dial, queued, peers, inboundCount, listening, stop>>,
           pc' \in Phases, pc' \in Over <=> pc \in Over,
           CurOK(pc', cur', conns'), Ending(pc', listening, stop, peers)
    PROVE  ServerInv'
<1> USE DEF ServerInv
<1>1. Connections(conns) /\ PeersOK(conns, peers) /\ ConnsSound(conns) BY DEF Sound, Connections
<1>2. /\ AreConns(conns') /\ conns'[c] = Settled(conns[c]) /\ \A e \in Conns : e # c => conns'[e] = conns[e]
  BY <1>1 DEF EndSetup, ConnsSound, AreConns
<1>3. running' = TaskReturns(running, c) BY DEF EndSetup, TaskReturns
<1>4. /\ Connections(conns') /\ PeersOK(conns', peers) /\ \A f : With(conns', peers, f) = With(conns, peers, f)
      /\ \A D, R, q : Books(D, R, q, conns) => Books(D, TaskReturns(R, c), q, conns')
  BY <1>1, <1>2, SetupEnded
<1>5. SameFlags(conns, conns', peers) BY <1>4 DEF SameFlags
<1>6. /\ Sound(cfg, dial, peers, conns')
      /\ \A n : Counted(conns, peers, n) => Counted(conns', peers, n)
  BY <1>4, <1>5, SoundSame
<1>7. pc' \notin Over => Serving(cfg, dial, running', queued, peers, inboundCount, conns')
  BY <1>3, <1>4, <1>6 DEF Serving
<1>8. running = {} => running' = {} BY <1>3 DEF TaskReturns
<1>9. pc' \in Over => Closed(dial, running', queued) BY <1>8 DEF Closed
<1> QED BY <1>6, <1>7, <1>9

\* No connection and no peer.
LEMMA NothingYet ==
    ASSUME NEW C, C = [c \in Conns |-> Free], NEW P, P = [i \in Ids |-> 0]
    PROVE  /\ Connections(C) /\ PeersOK(C, P) /\ Up(P) = {} /\ \A f : With(C, P, f) = {}
           /\ \A D : (\A i \in Ids : D[i] = "none") => Books(D, {}, <<>>, C)
<1>1. ConnsSound(C) BY FreeIs DEF ConnsSound, AreConns
<1>2. \A c \in Conns : C[c].peer = "none" /\ ~ByDial(C[c]) BY FreeIs DEF ByDial
<1>3. OneDial(C) BY <1>2 DEF OneDial
<1>4. Up(P) = {} BY DEF Up
<1>5. PeersOK(C, P) BY <1>2, <1>4 DEF PeersOK
<1>6. \A f : With(C, P, f) = {} BY <1>4 DEF With
<1>7. ASSUME NEW D, \A i \in Ids : D[i] = "none" PROVE Books(D, {}, <<>>, C)
  <2>1. Waits(<<>>, 0) = {} BY DEF Waits
  <2>2. ToStart(D, {}, <<>>) BY DEF ToStart, DialsOnce
  <2>3. DialBooks(D, {}, {}, C) BY <1>2, <1>7 DEF DialBooks
  <2> QED BY <2>1, <2>2, <2>3 DEF Books
<1> QED BY <1>1, <1>3, <1>4, <1>5, <1>6, <1>7 DEF Connections

\* Start.
LEMMA InitServer == Init => ServerInv
<1> SUFFICES ASSUME Init PROVE ServerInv OBVIOUS
<1>1. /\ cfg \in Configs /\ pc = "schedule" /\ cur = NoConn
      /\ dial = NewDialState(cfg.static, cfg.boot, ~cfg.noDiscovery, MaxDialedConns(cfg))
      /\ running = {} /\ queued = <<>> /\ peers = [i \in Ids |-> 0] /\ inboundCount = 0
      /\ conns = [c \in Conns |-> Free] /\ listening = cfg.listen /\ stop = "no"
  BY DEF Init
<1>2. PICK k, m, nt : k = cfg /\ m = MaxDialedConns(cfg) /\ nt = ~cfg.noDiscovery OBVIOUS
<1>3. k.static \in SUBSET Ids /\ k.boot \in Seq(Ids) /\ m \in Nat /\ k.listen \in BOOLEAN /\ k.maxPeers \in Nat
      /\ MaxInboundConns(k) \in Nat
  BY <1>1, <1>2, ConfigIs
<1>4. PICK st, bn : st = k.static /\ bn = k.boot OBVIOUS
<1>5. dial = NewDialState(st, bn, nt, m) /\ st \in SUBSET Ids /\ bn \in Seq(Ids) /\ m \in Int
  BY <1>1, <1>2, <1>3, <1>4
<1>6. DialSound(dial) /\ dial.maxDynDials = m /\ \A i \in Ids : dial.dialing[i] = "none"
  BY <1>5, NewDialSound
<1>7. /\ Connections(conns) /\ PeersOK(conns, peers) /\ Up(peers) = {} /\ \A f : With(conns, peers, f) = {}
      /\ \A D : (\A i \in Ids : D[i] = "none") => Books(D, {}, <<>>, conns)
  BY <1>1, NothingYet
<1>8. Dyn(dial.dialing) = {} BY <1>6 DEF Dyn
<1>9. Cardinality({}) = 0 BY FS_EmptySet
<1>10. Limits(conns, peers, k)
  <2>1. Up(peers) \ (With(conns, peers, "static") \cup With(conns, peers, "trusted")) = {}
        /\ With(conns, peers, "inbound") \ With(conns, peers, "trusted") = {}
    BY <1>7
  <2>2. PICK z : z = Cardinality({}) OBVIOUS
  <2>3. z = 0 /\ z <= k.maxPeers /\ z <= MaxInboundConns(k) BY <1>3, <1>9, <2>2
  <2> QED BY <2>1, <2>2, <2>3, Zenon DEF Limits
<1>11. ShareKept(conns, peers, dial.dialing, k)
  <2>1. With(conns, peers, "dyn") \cup Dyn(dial.dialing) = {} BY <1>7, <1>8
  <2>2. PICK z : z = Cardinality({}) OBVIOUS
  <2>3. z <= m /\ MaxDialedConns(k) = m BY <1>2, <1>3, <1>9, <2>2
  <2> QED BY <2>1, <2>2, <2>3, Zenon DEF ShareKept
<1>12. Sound(cfg, dial, peers, conns) BY <1>1, <1>2, <1>6, <1>7, <1>10, <1>11 DEF Sound
<1>13. Serving(cfg, dial, running, queued, peers, inboundCount, conns)
  <2>1. Counted(conns, peers, 0) BY <1>7, <1>9 DEF Counted
  <2>2. Books(dial.dialing, {}, <<>>, conns) BY <1>6, <1>7
  <2> QED BY <1>1, <1>2, <1>6, <2>1, <2>2 DEF Serving
<1>14. CurOK(pc, cur, conns) BY <1>1 DEF CurOK, NoConn
<1>15. Ending(pc, listening, stop, peers) BY <1>1, <1>2, <1>3 DEF Ending
<1> QED BY <1>1, <1>12, <1>13, <1>14, <1>15 DEF ServerInv, Phases, Over

-----------------------------------------------------------------------------
(* The steps.                                                              *)

\* AddPeer.
LEMMA RunAddStaticStep ==
    ASSUME ServerInv, NEW n \in cfg.operands, RunAddStatic(n)
    PROVE  ServerInv'
<1>1. n \in Ids BY ConfigIs DEF ServerInv, Sound
<1>2. DialSound(dial) /\ Connections(conns) BY DEF ServerInv, Sound
<1>3. DialSound(dial') /\ dial'.dialing = dial.dialing /\ dial'.maxDynDials = dial.maxDynDials
  BY <1>1, <1>2, AddStaticSound DEF RunAddStatic
<1>4. conns' = conns /\ Changed(conns, conns') BY <1>2, Unchanged DEF RunAddStatic
<1>5. CurOK(pc', cur', conns') BY <1>4 DEF RunAddStatic, ServerInv, CurOK
<1>6. Ending(pc', listening', stop', peers) BY DEF RunAddStatic, ServerInv, Ending
<1>7. UNCHANGED <<cfg, running, queued, peers, inboundCount>> /\ pc' \in Phases /\ (pc' \in Over <=> pc \in Over)
  BY DEF RunAddStatic, Phases, Over
<1> QED BY <1>3, <1>4, <1>5, <1>6, <1>7, StepKeeps

\* RemovePeer.
LEMMA RunRemoveStaticStep ==
    ASSUME ServerInv, NEW n \in cfg.operands, RunRemoveStatic(n)
    PROVE  ServerInv'
<1>1. n \in Ids BY ConfigIs DEF ServerInv, Sound
<1>2. DialSound(dial) /\ Connections(conns) /\ ConnsSound(conns) BY DEF ServerInv, Sound, Connections
<1>3. DialSound(dial') /\ dial'.dialing = dial.dialing /\ dial'.maxDynDials = dial.maxDynDials
  BY <1>1, <1>2, RemoveStaticSound DEF RunRemoveStatic
<1>4. Changed(conns, conns') BY <1>2, Disconnected DEF RunRemoveStatic, Disconnect
<1>5. CurOK(pc', cur', conns') BY <1>4 DEF RunRemoveStatic, ServerInv, CurOK
<1>6. Ending(pc', listening', stop', peers) BY DEF RunRemoveStatic, ServerInv, Ending
<1>7. UNCHANGED <<cfg, running, queued, peers, inboundCount>> /\ pc' \in Phases /\ (pc' \in Over <=> pc \in Over)
  BY DEF RunRemoveStatic, Phases, Over
<1> QED BY <1>3, <1>4, <1>5, <1>6, <1>7, StepKeeps

\* An entry of the history expires.
LEMMA HistoryExpiresStep ==
    ASSUME ServerInv, HistoryExpires
    PROVE  ServerInv'
<1>2. DialSound(dial) /\ Connections(conns) BY DEF ServerInv, Sound
<1>3. DialSound(dial') /\ dial'.dialing = dial.dialing /\ dial'.maxDynDials = dial.maxDynDials
  BY <1>2, DialTimeSound DEF HistoryExpires
<1>4. conns' = conns /\ Changed(conns, conns') BY <1>2, Unchanged DEF HistoryExpires
<1>5. CurOK(pc', cur', conns') /\ Ending(pc', listening', stop', peers) BY <1>4 DEF HistoryExpires, ServerInv
<1>6. UNCHANGED <<cfg, running, queued, peers, inboundCount>> /\ pc' \in Phases /\ (pc' \in Over <=> pc \in Over)
  BY DEF HistoryExpires, ServerInv
<1> QED BY <1>3, <1>4, <1>5, <1>6, StepKeeps

\* fallbackInterval is over.
LEMMA FallbackDueStep ==
    ASSUME ServerInv, FallbackDue
    PROVE  ServerInv'
<1>2. DialSound(dial) /\ Connections(conns) BY DEF ServerInv, Sound
<1>3. DialSound(dial') /\ dial'.dialing = dial.dialing /\ dial'.maxDynDials = dial.maxDynDials
  BY <1>2, DialTimeSound DEF FallbackDue
<1>4. conns' = conns /\ Changed(conns, conns') BY <1>2, Unchanged DEF FallbackDue
<1>5. CurOK(pc', cur', conns') /\ Ending(pc', listening', stop', peers) BY <1>4 DEF FallbackDue, ServerInv
<1>6. UNCHANGED <<cfg, running, queued, peers, inboundCount>> /\ pc' \in Phases /\ (pc' \in Over <=> pc \in Over)
  BY DEF FallbackDue, ServerInv
<1> QED BY <1>3, <1>4, <1>5, <1>6, StepKeeps

\* Steps that leave the books alone.
LEMMA QuietStep ==
    ASSUME ServerInv, UNCHANGED <<cfg, cur, dial, running, queued, peers, inboundCount, conns>>,
           pc' \in Phases, pc' \in Over <=> pc \in Over,
           CurOK(pc', cur, conns), Ending(pc', listening', stop', peers)
    PROVE  ServerInv'
<1>1. DialSound(dial) /\ Connections(conns) BY DEF ServerInv, Sound
<1>2. Changed(conns, conns') BY <1>1, Unchanged
<1>3. /\ DialSound(dial') /\ dial'.dialing = dial.dialing /\ dial'.maxDynDials = dial.maxDynDials
      /\ CurOK(pc', cur', conns')
  BY <1>1
<1> QED BY <1>2, <1>3, StepKeeps

\* listenLoop ends.
LEMMA ListenEndsStep ==
    ASSUME ServerInv, ListenEnds
    PROVE  ServerInv'
<1>1. CurOK(pc', cur, conns) BY DEF ListenEnds, ServerInv
<1>2. Ending(pc', listening', stop', peers) BY DEF ListenEnds, ServerInv, Ending
<1>3. /\ UNCHANGED <<cfg, cur, dial, running, queued, peers, inboundCount, conns>>
      /\ pc' \in Phases /\ (pc' \in Over <=> pc \in Over)
  BY DEF ListenEnds, ServerInv
<1> QED BY <1>1, <1>2, <1>3, QuietStep

\* Stop is called.
LEMMA StopStep ==
    ASSUME ServerInv, Stop
    PROVE  ServerInv'
<1>1. CurOK(pc', cur, conns) BY DEF Stop, ServerInv
<1>2. Ending(pc', listening', stop', peers) BY DEF Stop, ServerInv, Ending
<1>3. /\ UNCHANGED <<cfg, cur, dial, running, queued, peers, inboundCount, conns>>
      /\ pc' \in Phases /\ (pc' \in Over <=> pc \in Over)
  BY DEF Stop, ServerInv
<1> QED BY <1>1, <1>2, <1>3, QuietStep

\* Stop returns: run has ended, with no peer.
LEMMA StopReturnsStep ==
    ASSUME ServerInv, StopReturns
    PROVE  ServerInv'
<1>1. CurOK(pc', cur, conns) BY DEF StopReturns, ServerInv
<1>2. Ending(pc', listening', stop', peers) BY DEF StopReturns, ServerInv, Ending
<1>3. /\ UNCHANGED <<cfg, cur, dial, running, queued, peers, inboundCount, conns>>
      /\ pc' \in Phases /\ (pc' \in Over <=> pc \in Over)
  BY DEF StopReturns, ServerInv
<1> QED BY <1>1, <1>2, <1>3, QuietStep

\* run ends.
LEMMA RunEndsStep ==
    ASSUME ServerInv, RunEnds
    PROVE  ServerInv'
<1>1. CurOK(pc', cur, conns) BY DEF RunEnds, ServerInv, CurOK
<1>2. Ending(pc', listening', stop', peers) BY DEF RunEnds, ServerInv, Ending, Connected, Up
<1>3. /\ UNCHANGED <<cfg, cur, dial, running, queued, peers, inboundCount, conns>>
      /\ pc' \in Phases /\ (pc' \in Over <=> pc \in Over)
  BY DEF RunEnds, Phases, Over
<1> QED BY <1>1, <1>2, <1>3, QuietStep

\* The checks after the encryption handshake change no book.
LEMMA RunEncChecksStep ==
    ASSUME ServerInv, RunEncChecks
    PROVE  ServerInv'
<1>1. /\ pc = "check" /\ pc' = "answer" /\ conns' = conns /\ dial' = dial
      /\ cur' = [cur EXCEPT !.err = EncHandshakeChecks(conns[cur.c])]
      /\ UNCHANGED <<cfg, running, queued, peers, inboundCount, listening, stop>>
  BY DEF RunEncChecks
<1>2. DialSound(dial) /\ Connections(conns) BY DEF ServerInv, Sound
<1>3. Changed(conns, conns') BY <1>1, <1>2, Unchanged
<1>4. CurOK(pc, cur, conns) BY DEF ServerInv
<1>5. CurOK(pc', cur', conns') BY <1>1, <1>4 DEF CurOK
<1>6. Ending(pc', listening', stop', peers) BY <1>1 DEF ServerInv, Ending
<1>7. pc' \in Phases /\ (pc' \in Over <=> pc \in Over) BY <1>1 DEF Phases, Over
<1> QED BY <1>1, <1>2, <1>3, <1>5, <1>6, <1>7, StepKeeps

\* One connection changes, the loop stays where it is, and not with the connection
\* it holds.
LEMMA ConnStepKeeps ==
    ASSUME ServerInv, NEW c \in Conns, NEW b, ConnSound(b), Stays(conns[c], b), SamePeer(conns[c], b),
           conns' = [conns EXCEPT ![c] = b],
           conns[c].setup \in {"postwait", "addwait"} => b.setup = conns[c].setup,
           UNCHANGED <<cfg, pc, cur, dial, running, queued, peers, inboundCount, listening, stop>>
    PROVE  ServerInv'
<1>1. DialSound(dial) /\ ConnsSound(conns) /\ CurOK(pc, cur, conns) BY DEF ServerInv, Sound, Connections
<1>2. Changed(conns, conns') /\ conns'[c] = b /\ \A e \in Conns : e # c => conns'[e] = conns[e]
  <2>1. Replaced(conns, conns', c, b) BY <1>1 DEF Replaced, ConnsSound, AreConns
  <2>2. Changed(conns, conns') BY <1>1, <2>1, OneChanged
  <2> QED BY <2>1, <2>2 DEF Replaced
<1>3. CurOK(pc', cur', conns')
  <2>1. \A e \in Conns : conns[e].setup \in {"postwait", "addwait"} => conns'[e].setup = conns[e].setup
    BY <1>2
  <2>2. \A e \in Conns : conns[e].peer = "none" => conns'[e].peer = "none" BY <1>2 DEF Changed, SamePeers, SamePeer
  <2> QED BY <1>1, <2>1, <2>2 DEF CurOK
<1>4. Ending(pc', listening', stop', peers) BY DEF ServerInv
<1>5. pc' \in Phases /\ (pc' \in Over <=> pc \in Over) BY DEF ServerInv
<1> QED BY <1>1, <1>2, <1>3, <1>4, <1>5, StepKeeps

\* The setup of a connection goes on.
LEMMA SetSetup ==
    ASSUME NEW k, ConnSound(k), NEW x \in Setups \ {"none", "enter"}, k.setup # "none", k.id \in Ids,
           x = "addwait" \/ k.peer = "none", NEW b, b = [k EXCEPT !.setup = x]
    PROVE  ConnSound(b) /\ Stays(k, b) /\ SamePeer(k, b) /\ b.setup = x /\ b.peer = k.peer
<1>1. IsConn(b) /\ b.setup = x /\ b.peer = k.peer /\ b.id = k.id /\ b.flags = k.flags
  BY DEF ConnSound, IsConn, ConnFields
<1>2. PICK i, fs : i = k.id /\ fs = k.flags OBVIOUS
<1>3. i \in Ids /\ fs \in SUBSET ConnFlags BY <1>2 DEF ConnSound
<1> QED BY <1>1, <1>2, <1>3, SetupMoves

\* A dial reaches its node.
LEMMA DialSucceedsStep ==
    ASSUME ServerInv, NEW c \in Conns, DialSucceeds(c)
    PROVE  ServerInv'
<1>1. PICK k, b : k = conns[c] /\ b = [k EXCEPT !.setup = "enter"] OBVIOUS
<1>2. ConnSound(k) /\ k.setup = "dial" BY <1>1 DEF ServerInv, Sound, Connections, ConnsSound, DialSucceeds
<1>3. IsConn(b) /\ b.setup = "enter" /\ b.peer = k.peer /\ b.id = k.id /\ b.flags = k.flags
  BY <1>1, <1>2 DEF ConnSound, IsConn, ConnFields
<1>4. ConnSound(b) /\ Stays(k, b) /\ SamePeer(k, b)
  BY <1>2, <1>3 DEF ConnSound, Setups, Stays, ByDial, SamePeer
<1>5. conns' = [conns EXCEPT ![c] = b] BY <1>1 DEF DialSucceeds
<1>6. UNCHANGED <<cfg, pc, cur, dial, running, queued, peers, inboundCount, listening, stop>> BY DEF DialSucceeds
<1> QED BY <1>1, <1>2, <1>4, <1>5, <1>6, ConnStepKeeps

\* The encryption handshake.
LEMMA EncHandshakeStep ==
    ASSUME ServerInv, NEW c \in Conns, NEW id \in Ids, EncHandshake(c, id)
    PROVE  ServerInv'
<1>1. PICK k, b : k = conns[c] /\ b = [k EXCEPT !.setup = "post", !.id = id] OBVIOUS
<1>2. ConnSound(k) /\ k.setup = "enter" /\ k.id \in {id, NoId}
  BY <1>1 DEF ServerInv, Sound, Connections, ConnsSound, EncHandshake
<1>3. IsConn(b) /\ b.setup = "post" /\ b.peer = k.peer /\ b.id = id /\ b.flags = k.flags
  BY <1>1, <1>2 DEF ConnSound, IsConn, ConnFields
<1>4. k.peer = "none" /\ k.flags \in SUBSET ConnFlags BY <1>2 DEF ConnSound
<1>5. PICK x, fs : x = "post" /\ fs = k.flags OBVIOUS
<1>6. x \in Setups \ {"none", "enter"} BY <1>5 DEF Setups
<1>7. ConnSound(b) /\ Stays(k, b) /\ SamePeer(k, b) BY <1>2, <1>3, <1>4, <1>5, <1>6, SetupMoves
<1>8. conns' = [conns EXCEPT ![c] = b] BY <1>1 DEF EncHandshake
<1>9. UNCHANGED <<cfg, pc, cur, dial, running, queued, peers, inboundCount, listening, stop>> BY DEF EncHandshake
<1> QED BY <1>1, <1>2, <1>7, <1>8, <1>9, ConnStepKeeps

\* The protocol handshake.
LEMMA ProtoHandshakeStep ==
    ASSUME ServerInv, NEW c \in Conns, ProtoHandshake(c)
    PROVE  ServerInv'
<1>1. PICK x, k, b : x = "add" /\ k = conns[c] /\ b = [k EXCEPT !.setup = x] OBVIOUS
<1>2. ConnSound(k) /\ k.setup = "proto" BY <1>1 DEF ServerInv, Sound, Connections, ConnsSound, ProtoHandshake
<1>3. k.id \in Ids /\ k.peer = "none" BY <1>2 DEF ConnSound
<1>4. x \in Setups \ {"none", "enter"} BY <1>1 DEF Setups
<1>5. ConnSound(b) /\ Stays(k, b) /\ SamePeer(k, b) BY <1>1, <1>2, <1>3, <1>4, SetSetup
<1>6. conns' = [conns EXCEPT ![c] = b] BY <1>1 DEF ProtoHandshake
<1>7. UNCHANGED <<cfg, pc, cur, dial, running, queued, peers, inboundCount, listening, stop>> BY DEF ProtoHandshake
<1> QED BY <1>1, <1>2, <1>5, <1>6, <1>7, ConnStepKeeps

\* Peer.run returns.
LEMMA PeerReturnsStep ==
    ASSUME ServerInv, NEW c \in Conns, PeerReturns(c)
    PROVE  ServerInv'
<1>1. PICK k, b : k = conns[c] /\ b = [k EXCEPT !.peer = "leaving"] OBVIOUS
<1>2. ConnSound(k) /\ k.peer = "up" BY <1>1 DEF ServerInv, Sound, Connections, ConnsSound, PeerReturns
<1>3. ConnSound(b) /\ Stays(k, b) /\ SamePeer(k, b) /\ b.setup = k.setup BY <1>1, <1>2, PeerLeaves
<1>4. conns' = [conns EXCEPT ![c] = b] BY <1>1 DEF PeerReturns
<1>5. UNCHANGED <<cfg, pc, cur, dial, running, queued, peers, inboundCount, listening, stop>> BY DEF PeerReturns
<1> QED BY <1>1, <1>3, <1>4, <1>5, ConnStepKeeps

\* listenLoop accepts a connection.
LEMMA AcceptStep ==
    ASSUME ServerInv, Accept
    PROVE  ServerInv'
<1>1. PICK c, k, fs, b : /\ c = NextConn(conns) /\ k = Free /\ fs = {"inbound"}
                         /\ b = [k EXCEPT !.setup = "enter", !.flags = fs]
  OBVIOUS
<1>2. c \in Conns /\ conns[c] = k BY <1>1, NextConnFree DEF Accept
<1>3. ConnSound(k) /\ k.setup = "none" /\ k.peer = "none" /\ k.id = NoId BY <1>1, FreeIs
<1>4. IsConn(b) /\ b.setup = "enter" /\ b.peer = "none" /\ b.id = NoId /\ b.flags = fs
  BY <1>1, <1>3 DEF ConnSound, IsConn, ConnFields
<1>5. fs \in SUBSET ConnFlags /\ fs \cap DialFlags = {} BY <1>1 DEF ConnFlags, DialFlags
<1>6. ConnSound(b) BY <1>4, <1>5 DEF ConnSound, Setups
<1>7. Stays(k, b) /\ SamePeer(k, b) BY <1>3, <1>4, <1>5 DEF Stays, SamePeer, ByDial
<1>8. conns' = [conns EXCEPT ![c] = b] BY <1>1 DEF Accept
<1>9. UNCHANGED <<cfg, pc, cur, dial, running, queued, peers, inboundCount, listening, stop>> BY DEF Accept
<1> QED BY <1>2, <1>3, <1>6, <1>7, <1>8, <1>9, ConnStepKeeps

\* The loop takes connection c: it holds it at its checkpoint.
LEMMA TakenKeeps ==
    ASSUME ServerInv, NEW c \in Conns, NEW b, ConnSound(b), Stays(conns[c], b), SamePeer(conns[c], b),
           conns' = [conns EXCEPT ![c] = b], b.setup \in {"postwait", "addwait"}, b.peer = "none",
           pc = "select", pc' = "check", cur' = [c |-> c, err |-> "none"],
           UNCHANGED <<cfg, dial, running, queued, peers, inboundCount, listening, stop>>
    PROVE  ServerInv'
<1>1. DialSound(dial) /\ ConnsSound(conns) BY DEF ServerInv, Sound, Connections
<1>2. Replaced(conns, conns', c, b) BY <1>1 DEF Replaced, ConnsSound, AreConns
<1>3. Changed(conns, conns') BY <1>1, <1>2, OneChanged
<1>4. conns'[c] = b BY <1>2 DEF Replaced
<1>5. CurOK(pc', cur', conns') BY <1>4 DEF CurOK
<1>6. Ending(pc', listening', stop', peers) BY DEF ServerInv, Ending
<1>7. pc' \in Phases /\ (pc' \in Over <=> pc \in Over) BY DEF Phases, Over
<1> QED BY <1>1, <1>3, <1>5, <1>6, <1>7, StepKeeps

\* posthandshake: the flags change while no peer runs on the connection.
LEMMA RunPosthandshakeStep ==
    ASSUME ServerInv, NEW c \in Conns, RunPosthandshake(c)
    PROVE  ServerInv'
<1>1. PICK x, k, fs, b : /\ x = "postwait" /\ k = conns[c] /\ fs = Flagged(k)
                         /\ b = [k EXCEPT !.setup = x, !.flags = fs]
  OBVIOUS
<1>2. ConnSound(k) /\ k.setup = "post" BY <1>1 DEF ServerInv, Sound, Connections, ConnsSound, RunPosthandshake
<1>3. k.id \in Ids /\ k.peer = "none" /\ k.flags \in SUBSET ConnFlags BY <1>2 DEF ConnSound
<1>4. fs \in SUBSET ConnFlags /\ fs \cap DialFlags = k.flags \cap DialFlags
  BY <1>1, <1>3 DEF Flagged, ConnFlags, DialFlags
<1>5. IsConn(b) /\ b.setup = x /\ b.peer = k.peer /\ b.id = k.id /\ b.flags = fs
  BY <1>1, <1>2 DEF ConnSound, IsConn, ConnFields
<1>6. x \in Setups \ {"none", "enter"} BY <1>1 DEF Setups
<1>7. PICK i : i = k.id OBVIOUS
<1>8. ConnSound(b) /\ Stays(k, b) /\ SamePeer(k, b) BY <1>2, <1>3, <1>4, <1>5, <1>6, <1>7, SetupMoves
<1>9. conns' = [conns EXCEPT ![c] = b] BY <1>1 DEF RunPosthandshake
<1>10. /\ pc = "select" /\ pc' = "check" /\ cur' = [c |-> c, err |-> "none"]
       /\ UNCHANGED <<cfg, dial, running, queued, peers, inboundCount, listening, stop>>
  BY DEF RunPosthandshake
<1>11. b.setup \in {"postwait", "addwait"} /\ b.peer = "none" BY <1>1, <1>3, <1>5
<1> QED BY <1>1, <1>8, <1>9, <1>10, <1>11, TakenKeeps

\* addpeer.
LEMMA RunAddpeerStep ==
    ASSUME ServerInv, NEW c \in Conns, RunAddpeer(c)
    PROVE  ServerInv'
<1>1. PICK x, k, b : x = "addwait" /\ k = conns[c] /\ b = [k EXCEPT !.setup = x] OBVIOUS
<1>2. ConnSound(k) /\ k.setup = "add" BY <1>1 DEF ServerInv, Sound, Connections, ConnsSound, RunAddpeer
<1>3. k.id \in Ids /\ k.peer = "none" BY <1>2 DEF ConnSound
<1>4. x \in Setups \ {"none", "enter"} BY <1>1 DEF Setups
<1>5. ConnSound(b) /\ Stays(k, b) /\ SamePeer(k, b) /\ b.setup = x /\ b.peer = k.peer
  BY <1>1, <1>2, <1>3, <1>4, SetSetup
<1>6. conns' = [conns EXCEPT ![c] = b] BY <1>1 DEF RunAddpeer
<1>7. /\ pc = "select" /\ pc' = "check" /\ cur' = [c |-> c, err |-> "none"]
      /\ UNCHANGED <<cfg, dial, running, queued, peers, inboundCount, listening, stop>>
  BY DEF RunAddpeer
<1>8. b.setup \in {"postwait", "addwait"} /\ b.peer = "none" BY <1>1, <1>3, <1>5
<1> QED BY <1>1, <1>5, <1>6, <1>7, <1>8, TakenKeeps

\* The answer to SetupConn.
LEMMA RunAnswerStep ==
    ASSUME ServerInv, RunAnswer
    PROVE  ServerInv'
<1>1. pc = "answer" /\ pc' = "schedule" /\ cur' = NoConn
      /\ UNCHANGED <<cfg, dial, queued, peers, inboundCount, listening, stop>>
  BY DEF RunAnswer
<1>2. PICK c : c = cur.c OBVIOUS
<1>3. c \in Conns /\ conns[c].setup \in {"postwait", "addwait"} BY <1>1, <1>2 DEF ServerInv, CurOK
<1>4. DialSound(dial) /\ ConnsSound(conns) BY DEF ServerInv, Sound, Connections
<1>5. CurOK(pc', cur', conns') BY <1>1 DEF CurOK, NoConn
<1>6. Ending(pc', listening', stop', peers) BY <1>1 DEF ServerInv, Ending
<1>7. pc' \in Phases /\ (pc' \in Over <=> pc \in Over) BY <1>1 DEF Phases, Over
<1>8. CASE conns[c].setup = "postwait" /\ cur.err = "none"
  <2>1. PICK x, k, b : x = "proto" /\ k = conns[c] /\ b = [k EXCEPT !.setup = x] OBVIOUS
  <2>2. ConnSound(k) /\ k.setup = "postwait" BY <1>3, <1>4, <1>8, <2>1 DEF ConnsSound
  <2>3. k.id \in Ids /\ k.peer = "none" BY <2>2 DEF ConnSound
  <2>4. x \in Setups \ {"none", "enter"} BY <2>1 DEF Setups
  <2>5. ConnSound(b) /\ Stays(k, b) /\ SamePeer(k, b) BY <2>1, <2>2, <2>3, <2>4, SetSetup
  <2>6. conns' = [conns EXCEPT ![c] = b] /\ running' = running BY <1>2, <1>8, <2>1 DEF RunAnswer
  <2>7. Replaced(conns, conns', c, b) BY <1>3, <1>4, <2>6 DEF Replaced, ConnsSound, AreConns
  <2>8. Changed(conns, conns') BY <1>3, <1>4, <2>1, <2>5, <2>7, OneChanged
  <2> QED BY <1>1, <1>4, <1>5, <1>6, <1>7, <2>6, <2>8, StepKeeps
<1>9. CASE ~(conns[c].setup = "postwait" /\ cur.err = "none")
  <2>1. EndSetup(c) BY <1>2, <1>9 DEF RunAnswer
  <2>2. conns[c].setup # "none" BY <1>3
  <2> QED BY <1>1, <1>3, <1>5, <1>6, <1>7, <2>1, <2>2, EndSetupKeeps
<1> QED BY <1>8, <1>9

\* SetupConn returns for a connection that the loop does not hold.
LEMMA OtherEndSetup ==
    ASSUME ServerInv, NEW c \in Conns, conns[c].setup # "none", EndSetup(c), pc \in {"check", "answer"} => c # cur.c,
           UNCHANGED <<cfg, pc, cur, dial, queued, peers, inboundCount, listening, stop>>
    PROVE  ServerInv'
<1>1. ConnsSound(conns) /\ CurOK(pc, cur, conns) BY DEF ServerInv, Sound, Connections
<1>2. \A e \in Conns : e # c => conns'[e] = conns[e] BY <1>1 DEF EndSetup, ConnsSound, AreConns
<1>3. CurOK(pc', cur', conns') BY <1>1, <1>2 DEF CurOK
<1>4. Ending(pc', listening, stop, peers) /\ pc' \in Phases /\ (pc' \in Over <=> pc \in Over) BY DEF ServerInv
<1> QED BY <1>3, <1>4, EndSetupKeeps

\* A dial or a handshake fails.
LEMMA SetupFailsStep ==
    ASSUME ServerInv, NEW c \in Conns, SetupFails(c)
    PROVE  ServerInv'
<1>1. conns[c].setup \in {"dial", "proto", "enter"} /\ EndSetup(c)
      /\ UNCHANGED <<cfg, pc, cur, dial, queued, peers, inboundCount, listening, stop>>
  BY DEF SetupFails
<1>2. pc \in {"check", "answer"} => c # cur.c BY <1>1 DEF ServerInv, CurOK
<1> QED BY <1>1, <1>2, OtherEndSetup

\* checkpoint sees that quit is closed.
LEMMA CheckpointQuitsStep ==
    ASSUME ServerInv, NEW c \in Conns, CheckpointQuits(c)
    PROVE  ServerInv'
<1>1. conns[c].setup # "none" /\ EndSetup(c) /\ c # cur.c
      /\ UNCHANGED <<cfg, pc, cur, dial, queued, peers, inboundCount, listening, stop>>
  BY DEF CheckpointQuits
<1> QED BY <1>1, OtherEndSetup

\* delpeer.
LEMMA RunDelpeerStep ==
    ASSUME ServerInv, NEW c \in Conns, RunDelpeer(c)
    PROVE  ServerInv'
<1>1. /\ pc = "select" /\ pc' = "schedule" /\ conns[c].peer = "leaving"
      /\ peers' = [peers EXCEPT ![conns[c].id] = 0]
      /\ conns' = [conns EXCEPT ![c] = Left(conns[c])]
      /\ inboundCount' = CountPeerOut(conns[c])
      /\ UNCHANGED <<cfg, cur, dial, running, queued, listening, stop>>
  BY DEF RunDelpeer, DropPeer
<1>2. /\ Sound(cfg, dial, peers, conns) /\ Connections(conns) /\ PeersOK(conns, peers)
      /\ Serving(cfg, dial, running, queued, peers, inboundCount, conns)
  BY <1>1 DEF ServerInv, Sound, Over
<1>3. PICK C, P, B, Q, i, fs, n : /\ C = conns /\ P = peers /\ B = conns' /\ Q = peers' /\ i = conns[c].id
                               /\ fs = conns[c].flags /\ n = inboundCount
  OBVIOUS
<1>4. /\ Connections(C) /\ PeersOK(C, P) /\ C[c].peer = "leaving" /\ C[c].id = i /\ C[c].flags = fs
      /\ B = [C EXCEPT ![c] = Left(C[c])] /\ Q = [P EXCEPT ![i] = 0]
  BY <1>1, <1>2, <1>3
<1>c. Connections(C) /\ PeersOK(C, P) /\ C[c].peer = "leaving" BY <1>4
<1>a. Replaced(C, B, c, Left(C[c])) BY <1>4 DEF Replaced, Connections, ConnsSound, AreConns
<1>b. Mapped(P, Q, C[c].id, 0)
  <2>1. P \in [Ids -> Conns \cup {0}] /\ i \in Ids
    BY <1>4 DEF PeersOK, Connections, ConnsSound, ConnSound
  <2> QED BY <1>4, <2>1 DEF Mapped
<1>5. /\ Connections(B) /\ PeersOK(B, Q) /\ Fewer(B, Q, C, P, C[c].id)
      /\ \A f : C[c].id \in With(C, P, f) <=> f \in C[c].flags
      /\ \A D, R, q : Books(D, R, q, C) => Books(D, R, q, B)
  BY <1>a, <1>b, <1>c, PeerDropped
<1>6. Fewer(B, Q, C, P, i) /\ (i \in With(C, P, "inbound") <=> "inbound" \in fs) BY <1>4, <1>5
<1>7. Sound(cfg, dial, Q, B) BY <1>2, <1>3, <1>5, <1>6, SoundFewer
<1>8. Counted(B, Q, n - (IF "inbound" \in fs THEN 1 ELSE 0)) BY <1>2, <1>3, <1>6, CountFewer DEF Serving
<1>9. inboundCount' = n - (IF "inbound" \in fs THEN 1 ELSE 0) BY <1>1, <1>3 DEF CountPeerOut
<1>10. Counted(conns', peers', inboundCount') BY <1>3, <1>8, <1>9
<1>11. inboundCount' \in Nat BY <1>10, UpFinite DEF Counted
<1>12. Serving(cfg, dial, running, queued, peers', inboundCount', conns') BY <1>2, <1>3, <1>5, <1>10 DEF Serving
<1>13. CurOK(pc', cur', conns') BY <1>1 DEF ServerInv, CurOK
<1>14. Ending(pc', listening', stop', peers') BY <1>1 DEF ServerInv, Ending
<1> QED BY <1>1, <1>3, <1>7, <1>11, <1>12, <1>13, <1>14 DEF ServerInv, Phases, Over

\* delpeer, once the loop is spinning down.
LEMMA RunSpindownStep ==
    ASSUME ServerInv, NEW c \in Conns, RunSpindown(c)
    PROVE  ServerInv'
<1>1. /\ pc = "spindown" /\ pc' = pc /\ conns[c].peer = "leaving"
      /\ peers' = [peers EXCEPT ![conns[c].id] = 0]
      /\ conns' = [conns EXCEPT ![c] = Left(conns[c])]
      /\ UNCHANGED <<cfg, cur, dial, running, queued, inboundCount, listening, stop>>
  BY DEF RunSpindown, DropPeer
<1>2. /\ Sound(cfg, dial, peers, conns) /\ Connections(conns) /\ PeersOK(conns, peers)
      /\ Closed(dial, running, queued)
  BY <1>1 DEF ServerInv, Sound, Over
<1>3. PICK C, P, B, Q, i : C = conns /\ P = peers /\ B = conns' /\ Q = peers' /\ i = conns[c].id OBVIOUS
<1>4. /\ Connections(C) /\ PeersOK(C, P) /\ C[c].peer = "leaving" /\ C[c].id = i
      /\ B = [C EXCEPT ![c] = Left(C[c])] /\ Q = [P EXCEPT ![i] = 0]
  BY <1>1, <1>2, <1>3
<1>c. Connections(C) /\ PeersOK(C, P) /\ C[c].peer = "leaving" BY <1>4
<1>a. Replaced(C, B, c, Left(C[c])) BY <1>4 DEF Replaced, Connections, ConnsSound, AreConns
<1>b. Mapped(P, Q, C[c].id, 0)
  <2>1. P \in [Ids -> Conns \cup {0}] /\ i \in Ids
    BY <1>4 DEF PeersOK, Connections, ConnsSound, ConnSound
  <2> QED BY <1>4, <2>1 DEF Mapped
<1>5. Connections(B) /\ PeersOK(B, Q) /\ Fewer(B, Q, C, P, C[c].id) BY <1>a, <1>b, <1>c, PeerDropped
<1>6. Fewer(B, Q, C, P, i) BY <1>4, <1>5
<1>7. Sound(cfg, dial, Q, B) BY <1>2, <1>3, <1>5, <1>6, SoundFewer
<1>8. CurOK(pc', cur', conns') BY <1>1 DEF ServerInv, CurOK
<1>9. Ending(pc', listening', stop', peers') BY <1>1 DEF ServerInv, Ending
<1> QED BY <1>1, <1>2, <1>3, <1>7, <1>8, <1>9 DEF ServerInv, Phases, Over

\* The loop sees that quit is closed.
LEMMA RunQuitStep ==
    ASSUME ServerInv, RunQuit
    PROVE  ServerInv'
<1>1. /\ pc' = "spindown" /\ cur' = NoConn /\ pc \in {"select", "answer"}
      /\ dial' = NewDialState({}, <<>>, FALSE, 0) /\ running' = {} /\ queued' = <<>>
      /\ UNCHANGED <<cfg, peers, inboundCount, listening, stop>>
  BY DEF RunQuit
<1>2. Sound(cfg, dial, peers, conns) /\ Connections(conns) /\ ConnsSound(conns) /\ PeersOK(conns, peers)
  BY DEF ServerInv, Sound, Connections
<1>3. Changed(conns, conns')
  <2>1. PICK X : X = {peers[i] : i \in Connected} OBVIOUS
  <2>2. conns' = [c \in Conns |-> IF c \in X /\ conns[c].peer = "up" THEN [conns[c] EXCEPT !.peer = "leaving"] ELSE conns[c]]
    BY <2>1 DEF RunQuit, Disconnect
  <2> QED BY <1>2, <2>2, Disconnected
<1>4. Connections(conns') /\ PeersOK(conns', peers) /\ \A f : With(conns', peers, f) = With(conns, peers, f)
  BY <1>2, <1>3, ChangedSound
<1>5. SameFlags(conns, conns', peers) BY <1>4 DEF SameFlags
<1>6. Sound(cfg, dial, peers, conns') BY <1>2, <1>4, <1>5, SoundSame
<1>7. DialSound(dial') /\ \A i \in Ids : dial'.dialing[i] = "none"
  <2>1. PICK st, bn, nt, m : st = {} /\ bn = <<>> /\ nt = FALSE /\ m = 0 OBVIOUS
  <2>2. dial' = NewDialState(st, bn, nt, m) BY <1>1, <2>1
  <2>3. st \in SUBSET Ids /\ bn \in Seq(Ids) /\ m \in Int BY <2>1
  <2> QED BY <2>2, <2>3, NewDialSound
<1>8. Dyn(dial'.dialing) = {} BY <1>7 DEF Dyn
<1>9. PICK d : d = dial' OBVIOUS
<1>10. DialSound(d) /\ Dyn(d.dialing) \in SUBSET Dyn(dial.dialing) BY <1>7, <1>8, <1>9
<1>11. Sound(cfg, d, peers, conns') BY <1>6, <1>10, SoundDial
<1>12. CurOK(pc', cur', conns') BY <1>1 DEF CurOK, NoConn
<1>13. Ending(pc', listening', stop', peers') BY <1>1 DEF ServerInv, Ending
<1>14. Closed(dial', running', queued') BY <1>1, <1>7 DEF Closed
<1> QED BY <1>1, <1>9, <1>11, <1>12, <1>13, <1>14 DEF ServerInv, Phases, Over

\* The checks after the protocol handshake, and the new peer: the limits hold because
\* the checks are repeated in the step that adds it.
LEMMA RunProtoChecksStep ==
    ASSUME ServerInv, NEW u \in BOOLEAN, RunProtoChecks(u)
    PROVE  ServerInv'
<1>1. PICK c, k, err : c = cur.c /\ k = conns[c] /\ err = ProtoHandshakeChecks(k, u) OBVIOUS
<1>2. /\ pc = "check" /\ pc' = "answer" /\ k.setup = "addwait" /\ cur' = [cur EXCEPT !.err = err]
      /\ UNCHANGED <<cfg, dial, running, queued, listening, stop>>
  BY <1>1 DEF RunProtoChecks
<1>3. /\ Sound(cfg, dial, peers, conns) /\ Connections(conns) /\ PeersOK(conns, peers) /\ DialSound(dial)
      /\ Serving(cfg, dial, running, queued, peers, inboundCount, conns) /\ ConnsSound(conns)
  BY <1>2 DEF ServerInv, Sound, Over, Connections
<1>4. CurOK(pc, cur, conns) BY DEF ServerInv
<1>5. c \in Conns /\ k.peer = "none" /\ ConnSound(k) BY <1>1, <1>2, <1>3, <1>4 DEF CurOK, ConnsSound
<1>6. Ending(pc', listening', stop', peers') BY <1>2 DEF ServerInv, Ending
<1>7. cur'.c = c /\ cur' = [f \in {"c", "err"} |-> cur'[f]] BY <1>1, <1>2, <1>4 DEF CurOK
<1>8. CASE err # "none"
  <2>1. UNCHANGED <<conns, peers, inboundCount>> BY <1>1, <1>8 DEF RunProtoChecks
  <2>2. Changed(conns, conns') BY <1>3, <2>1, Unchanged
  <2>3. CurOK(pc', cur', conns') BY <1>1, <1>2, <1>5, <1>7, <2>1 DEF CurOK
  <2>4. pc' \in Phases /\ (pc' \in Over <=> pc \in Over) BY <1>2 DEF Phases, Over
  <2> QED BY <1>2, <1>3, <1>6, <2>1, <2>2, <2>3, <2>4, StepKeeps
<1>9. CASE err = "none"
  <2>1. /\ conns' = [conns EXCEPT ![c] = [conns[c] EXCEPT !.peer = "up"]]
        /\ peers' = [peers EXCEPT ![k.id] = c]
        /\ inboundCount' = inboundCount + (IF "inbound" \in k.flags THEN 1 ELSE 0)
    BY <1>1, <1>9 DEF RunProtoChecks
  <2>2. EncHandshakeChecks(k) = "none" BY <1>1, <1>9 DEF ProtoHandshakeChecks
  <2>3. /\ k.flags \cap {"trusted", "static"} = {} => ~(Cardinality(Connected) >= cfg.maxPeers)
        /\ "trusted" \notin k.flags /\ "inbound" \in k.flags => ~(inboundCount >= MaxInboundConns(cfg))
        /\ peers[k.id] = 0
    BY <2>2 DEF EncHandshakeChecks
  <2>4. PICK C, P, B, Q, i, fs, n : /\ C = conns /\ P = peers /\ B = conns' /\ Q = peers' /\ i = k.id
                                 /\ fs = k.flags /\ n = inboundCount
    OBVIOUS
  <2>5. /\ Connections(C) /\ PeersOK(C, P) /\ C[c].peer = "none" /\ C[c].setup = "addwait" /\ P[C[c].id] = 0
        /\ B = [C EXCEPT ![c] = [C[c] EXCEPT !.peer = "up"]] /\ Q = [P EXCEPT ![i] = c]
        /\ C[c].id = i /\ C[c].flags = fs
    BY <1>1, <1>2, <1>3, <1>5, <2>1, <2>3, <2>4
  <2>c. /\ Connections(C) /\ PeersOK(C, P) /\ C[c].peer = "none" /\ C[c].setup = "addwait" /\ P[C[c].id] = 0
        /\ c \in Conns
    BY <1>5, <2>5
  <2>a. Replaced(C, B, c, [C[c] EXCEPT !.peer = "up"])
    <3>1. PICK b : b = [C[c] EXCEPT !.peer = "up"] OBVIOUS
    <3>2. B = [C EXCEPT ![c] = b] BY <2>5, <3>1
    <3>3. Replaced(C, B, c, b) BY <1>5, <2>5, <3>2 DEF Replaced, Connections, ConnsSound, AreConns
    <3> QED BY <3>1, <3>3
  <2>b. Mapped(P, Q, C[c].id, c)
    <3>1. P \in [Ids -> Conns \cup {0}] /\ i \in Ids
      BY <1>5, <2>5 DEF PeersOK, Connections, ConnsSound, ConnSound
    <3> QED BY <1>5, <2>5, <3>1 DEF Mapped
  <2>6. /\ Connections(B) /\ PeersOK(B, Q) /\ More(B, Q, C, P, C[c].id, C[c].flags) /\ C[c].id \in Ids
        /\ B[c].setup = C[c].setup
        /\ \A D, R, q : Books(D, R, q, C) => Books(D, R, q, B)
    BY <2>a, <2>b, <2>c, PeerAdded
  <2>7. More(B, Q, C, P, i, fs) BY <2>5, <2>6
  <2>8. fs \cap {"trusted", "static"} = {} => Cardinality(Up(P)) < cfg.maxPeers
    <3>1. Connected = Up(P) BY <2>4 DEF Connected, Up
    <3>2. Cardinality(Up(P)) \in Nat /\ cfg.maxPeers \in Nat BY <1>3, UpFinite, ConfigIs DEF Sound
    <3> QED BY <2>3, <2>4, <3>1, <3>2
  <2>9. "trusted" \notin fs /\ "inbound" \in fs => Cardinality(With(C, P, "inbound")) < MaxInboundConns(cfg)
    <3>1. n = Cardinality(With(C, P, "inbound")) BY <1>3, <2>4 DEF Serving, Counted
    <3>2. n \in Nat /\ MaxInboundConns(cfg) \in Nat BY <1>3, <3>1, UpFinite, ConfigIs DEF Sound
    <3> QED BY <2>3, <2>4, <3>1, <3>2
  <2>10. "dyn" \in fs => i \in Dyn(dial.dialing)
    <3>1. Books(dial.dialing, running, queued, C) BY <1>3, <2>4 DEF Serving
    <3> QED BY <1>5, <2>5, <2>6, <3>1, DynMarked
  <2>11. Sound(cfg, dial, P, C) BY <1>3, <2>4
  <2>12. Sound(cfg, dial, Q, B) BY <2>6, <2>7, <2>8, <2>9, <2>10, <2>11, SoundMore
  <2>13. Counted(B, Q, n + (IF "inbound" \in fs THEN 1 ELSE 0)) BY <1>3, <2>4, <2>7, CountMore DEF Serving
  <2>14. Counted(conns', peers', inboundCount') BY <2>1, <2>4, <2>13
  <2>15. inboundCount' \in Nat BY <2>14, UpFinite DEF Counted
  <2>16. Serving(cfg, dial, running, queued, peers', inboundCount', conns') BY <1>3, <2>4, <2>6, <2>14 DEF Serving
  <2>17. CurOK(pc', cur', conns') BY <1>2, <1>5, <1>7, <2>4, <2>5, <2>6 DEF CurOK
  <2> QED BY <1>2, <1>6, <2>4, <2>12, <2>15, <2>16, <2>17 DEF ServerInv, Phases, Over
<1> QED BY <1>8, <1>9

\* taskDone: the queue and the connections do not notice.
LEMMA BooksTaskDone ==
    ASSUME NEW D \in [Ids -> Dials], NEW R, NEW q, NEW C, Books(D, R, q, C), NEW r \in R,
           r.task.kind = "dial" => r.c = 0,
           NEW E, \A i \in Ids : E[i] = IF r.task.kind = "dial" /\ i = r.task.id THEN "none" ELSE D[i]
    PROVE  Books(E, R \ {r}, q, C) /\ r.task.id \in Ids /\ (r.task.kind = "dial" => D[r.task.id] # "none")
<1>1. PICK W : W = Waits(q, 0) OBVIOUS
<1>2. DialBooks(D, R, W, C) /\ ToStart(D, {}, q) BY <1>1 DEF Books
<1>3. DialBooks(E, R \ {r}, W, C) BY <1>2, BooksDone
<1>4. r.task \in TaskSet BY <1>2 DEF DialBooks, RunSet
<1>5. r.task.id \in Ids /\ r.task.flag # "none" BY <1>4 DEF TaskSet, DialFlags
<1>6. r.task.kind = "dial" => D[r.task.id] = r.task.flag /\ r.task.id \notin W BY <1>2 DEF DialBooks
<1>7. q \in Seq(TaskSet) /\ DialsOnce(q)
      /\ \A j \in 1..Len(q) : q[j].kind = "dial" => D[q[j].id] = q[j].flag
  BY <1>2 DEF ToStart
<1>8. ASSUME NEW j \in 1..Len(q), q[j].kind = "dial" PROVE E[q[j].id] = q[j].flag
  <2>1. q[j] \in TaskSet BY <1>7
  <2>2. q[j].id \in Ids BY <2>1 DEF TaskSet
  <2>3. q[j].id \in W BY <1>1, <1>7, <1>8, <2>2 DEF Waits
  <2>4. ~(r.task.kind = "dial" /\ q[j].id = r.task.id) BY <1>6, <2>3
  <2>5. E[q[j].id] = D[q[j].id] BY <2>2, <2>4
  <2> QED BY <1>7, <1>8, <2>5
<1>9. ToStart(E, {}, q) BY <1>7, <1>8 DEF ToStart
<1> QED BY <1>1, <1>3, <1>5, <1>6, <1>9 DEF Books

\* taskdone.
LEMMA RunTaskDoneStep ==
    ASSUME ServerInv, NEW r \in running, NEW results \in cfg.results, RunTaskDone(r, results)
    PROVE  ServerInv'
<1>1. /\ pc = "select" /\ pc' = "schedule" /\ (r.task.kind = "dial" => r.c = 0)
      /\ dial' = TaskDone(dial, r.task, results) /\ running' = running \ {r}
      /\ UNCHANGED <<cfg, cur, queued, peers, inboundCount, conns, listening, stop>>
  BY DEF RunTaskDone
<1>2. Sound(cfg, dial, peers, conns) /\ Serving(cfg, dial, running, queued, peers, inboundCount, conns)
  BY <1>1 DEF ServerInv, Over
<1>3. DialSound(dial) /\ cfg \in Configs BY <1>2 DEF Sound
<1>4. PICK D, E, d, e, t : D = dial.dialing /\ E = dial'.dialing /\ d = dial /\ e = dial' /\ t = r.task OBVIOUS
<1>5. D \in [Ids -> Dials] /\ Books(D, running, queued, conns) BY <1>2, <1>3, <1>4 DEF DialSound, DialTyped, Serving
<1>6. results \in Seq(Ids) BY <1>3, ConfigIs
<1>7. PICK F : F = [i \in Ids |-> IF t.kind = "dial" /\ i = t.id THEN "none" ELSE D[i]] OBVIOUS
<1>8. \A i \in Ids : F[i] = IF r.task.kind = "dial" /\ i = r.task.id THEN "none" ELSE D[i] BY <1>4, <1>7
<1>9. r.task.id \in Ids /\ (r.task.kind = "dial" => D[r.task.id] # "none")
  BY <1>1, <1>5, <1>8, BooksTaskDone
<1>10. /\ DialSound(e) /\ e.maxDynDials = d.maxDynDials
       /\ \A i \in Ids : E[i] = IF t.kind = "dial" /\ i = t.id THEN "none" ELSE D[i]
  <2>1. DialSound(d) /\ t.id \in Ids /\ (t.kind = "dial" => d.dialing[t.id] # "none") BY <1>3, <1>4, <1>9
  <2>2. e = TaskDone(d, t, results) BY <1>1, <1>4
  <2>3. /\ DialSound(e) /\ e.maxDynDials = d.maxDynDials
        /\ \A i \in Ids : e.dialing[i] = IF t.kind = "dial" /\ i = t.id THEN "none" ELSE d.dialing[i]
    BY <1>6, <2>1, <2>2, TaskDoneSound
  <2> QED BY <1>4, <2>3
<1>11. \A i \in Ids : E[i] = IF r.task.kind = "dial" /\ i = r.task.id THEN "none" ELSE D[i] BY <1>4, <1>10
<1>12. Books(E, running \ {r}, queued, conns) BY <1>1, <1>5, <1>11, BooksTaskDone
<1>13. Dyn(e.dialing) \in SUBSET Dyn(d.dialing) BY <1>4, <1>10 DEF Dyn
<1>14. Sound(cfg, d, peers, conns) BY <1>2, <1>4
<1>15. Sound(cfg, e, peers, conns) BY <1>10, <1>13, <1>14, SoundDial
<1>16. Serving(cfg, e, running', queued, peers, inboundCount, conns)
  BY <1>1, <1>2, <1>4, <1>10, <1>12 DEF Serving
<1>17. CurOK(pc', cur', conns') BY <1>1 DEF ServerInv, CurOK
<1>18. Ending(pc', listening', stop', peers') BY <1>1 DEF ServerInv, Ending
<1>19. inboundCount' \in Nat BY <1>1 DEF ServerInv
<1> QED BY <1>1, <1>4, <1>15, <1>16, <1>17, <1>18, <1>19 DEF ServerInv, Phases, Over

\* An order of the static nodes is a sequence of nodes.
LEMMA OrderIs ==
    ASSUME NEW S \in SUBSET Ids, NEW o \in SetToSeqs(S)
    PROVE  o \in Seq(Ids)
<1>1. IsFiniteSet(S) /\ Cardinality(S) \in Nat BY DialAssumption, FS_Subset, FS_CardinalityType
<1>2. o \in [1..Cardinality(S) -> S] BY DEF SetToSeqs
<1>3. o \in [1..Cardinality(S) -> Ids] BY <1>2
<1> QED BY <1>1, <1>3

\* startTasks on the queue.
LEMMA ServingStarted ==
    ASSUME NEW k, NEW d, NEW R, NEW q, NEW P, NEW n, NEW C, Sound(k, d, P, C), Serving(k, d, R, q, P, n, C),
           NEW s, s = StartTasks(R, C, q)
    PROVE  /\ Sound(k, d, P, s.conns) /\ Serving(k, d, s.running, s.rest, P, n, s.conns)
           /\ SameFlags(C, s.conns, P)
<1>1. PICK D : D = d.dialing OBVIOUS
<1>2. D \in [Ids -> Dials] /\ Books(D, R, q, C) /\ Connections(C) /\ PeersOK(C, P)
  BY <1>1 DEF Sound, Serving, DialSound, DialTyped
<1>3. Books(D, s.running, s.rest, s.conns) /\ Connections(s.conns) /\ Grown(C, s.conns) BY <1>2, QueueStarted
<1>4. PICK B : B = s.conns OBVIOUS
<1>5. SamePeers(C, B) BY <1>3, <1>4, GrownPeers
<1>6. PeersOK(B, P) /\ SameFlags(C, B, P) BY <1>2, <1>5, PeersKept DEF SameFlags
<1>7. Sound(k, d, P, B) /\ \A m : Counted(C, P, m) => Counted(B, P, m) BY <1>3, <1>4, <1>6, SoundSame
<1> QED BY <1>1, <1>3, <1>4, <1>6, <1>7 DEF Serving

\* newTasks, and startTasks on the new ones.
LEMMA ServingNew ==
    ASSUME NEW k, NEW d, NEW R, NEW q, NEW P, NEW n, NEW C, Sound(k, d, P, C), Serving(k, d, R, q, P, n, C),
           NEW t, NewTasksSound(d, Up(P), Cardinality(With(C, P, "dyn")), t),
           NEW u, u = StartTasks(R, C, t.tasks)
    PROVE  Sound(k, t.d, P, u.conns) /\ Serving(k, t.d, u.running, q \o u.rest, P, n, u.conns)
<1>1. PICK D, E, H, ts, e, con : /\ D = d.dialing /\ E = t.d.dialing /\ H = t.d.hist /\ ts = t.tasks /\ e = t.d
                                 /\ con = Up(P)
  OBVIOUS
<1>2. D \in [Ids -> Dials] /\ Books(D, R, q, C) /\ Connections(C) /\ PeersOK(C, P)
  BY <1>1 DEF Sound, Serving, DialSound, DialTyped
<1>3. /\ DialSound(e) /\ e.maxDynDials = d.maxDynDials /\ ts \in Seq(TaskSet) /\ NewDials(ts, D, E, H, con)
      /\ \/ Dyn(e.dialing) = Dyn(d.dialing)
         \/ Cardinality(With(C, P, "dyn")) + Cardinality(Dyn(e.dialing)) <= d.maxDynDials
  BY <1>1 DEF NewTasksSound
<1>4. E \in [Ids -> Dials] BY <1>1, <1>3 DEF DialSound, DialTyped
<1>5. \A c \in Conns : C[c].peer # "none" => C[c].id \in con
  <2> SUFFICES ASSUME NEW c \in Conns, C[c].peer # "none" PROVE C[c].id \in con OBVIOUS
  <2>1. P[C[c].id] = c BY <1>2 DEF PeersOK
  <2>2. C[c].id \in Ids BY <1>2 DEF Connections, ConnsSound, ConnSound
  <2> QED BY <1>1, <2>1, <2>2, ConnsAre DEF Up
<1>6. u = StartTasks(R, C, ts) BY <1>1
<1>7. Books(E, u.running, q \o u.rest, u.conns) /\ Connections(u.conns) /\ Grown(C, u.conns)
  BY <1>2, <1>3, <1>4, <1>5, <1>6, NewStarted
<1>8. PICK B : B = u.conns OBVIOUS
<1>9. SamePeers(C, B) BY <1>7, <1>8, GrownPeers
<1>10. PeersOK(B, P) /\ SameFlags(C, B, P) BY <1>2, <1>9, PeersKept DEF SameFlags
<1>11. d.maxDynDials = MaxDialedConns(k) BY DEF Serving
<1>12. Sound(k, e, P, C) BY <1>3, <1>11, SoundNew
<1>13. Sound(k, e, P, B) /\ \A m : Counted(C, P, m) => Counted(B, P, m) BY <1>7, <1>8, <1>10, <1>12, SoundSame
<1> QED BY <1>1, <1>3, <1>7, <1>8, <1>13 DEF Serving

\* scheduleTasks.
LEMMA ScheduleTasksStep ==
    ASSUME ServerInv, ScheduleTasks
    PROVE  ServerInv'
<1>1. PICK s : s = StartTasks(running, conns, queued) OBVIOUS
<1>2. /\ pc = "schedule" /\ pc' = "select"
      /\ UNCHANGED <<cfg, cur, peers, inboundCount, listening, stop>>
  BY DEF ScheduleTasks
<1>3. Sound(cfg, dial, peers, conns) /\ Serving(cfg, dial, running, queued, peers, inboundCount, conns)
  BY <1>2 DEF ServerInv, Over
<1>4. /\ Sound(cfg, dial, peers, s.conns)
      /\ Serving(cfg, dial, s.running, s.rest, peers, inboundCount, s.conns)
      /\ SameFlags(conns, s.conns, peers)
  BY <1>1, <1>3, ServingStarted
<1>5. Sound(cfg, dial', peers, conns') /\ Serving(cfg, dial', running', queued', peers, inboundCount, conns')
  <2>1. CASE ~(Cardinality(s.running) < MaxActive)
    <3>1. running' = s.running /\ conns' = s.conns /\ queued' = s.rest /\ dial' = dial
      BY <1>1, <2>1 DEF ScheduleTasks
    <3> QED BY <1>4, <3>1
  <2>2. CASE Cardinality(s.running) < MaxActive
    <3>1. PICK order \in SetToSeqs(dial.static), random \in cfg.results :
            LET n == NewTasks(dial, Cardinality(s.running) + Len(s.rest), Connected, Cardinality(PeersWith("dyn")),
                              order, random)
                u == StartTasks(s.running, s.conns, n.tasks)
            IN  dial' = n.d /\ running' = u.running /\ conns' = u.conns /\ queued' = s.rest \o u.rest
      BY <1>1, <2>2 DEF ScheduleTasks
    <3>2. PICK nr, con, dyn : nr = Cardinality(s.running) + Len(s.rest) /\ con = Connected
                              /\ dyn = Cardinality(PeersWith("dyn"))
      OBVIOUS
    <3>3. PICK t : t = NewTasks(dial, nr, con, dyn, order, random) OBVIOUS
    <3>4. PICK u : u = StartTasks(s.running, s.conns, t.tasks) OBVIOUS
    <3>5. dial' = t.d /\ running' = u.running /\ conns' = u.conns /\ queued' = s.rest \o u.rest
      BY <3>1, <3>2, <3>3, <3>4
    <3>6. con = Up(peers) /\ dyn = Cardinality(With(conns, peers, "dyn"))
      <4>1. Connected = Up(peers) BY DEF Connected, Up
      <4>2. PeersWith("dyn") = With(conns, peers, "dyn") BY <4>1 DEF PeersWith, With
      <4> QED BY <3>2, <4>1, <4>2
    <3>7. dyn \in Nat BY <3>6, UpFinite
    <3>8. order \in Seq(Ids) /\ random \in Seq(Ids) /\ DialSound(dial)
      <4>1. DialSound(dial) /\ cfg \in Configs BY <1>3 DEF Sound
      <4>2. dial.static \in SUBSET Ids BY <4>1 DEF DialSound, DialTyped
      <4> QED BY <4>1, <4>2, OrderIs, ConfigIs
    <3>9. NewTasksSound(dial, con, dyn, t) BY <3>3, <3>7, <3>8, NewTasksAre
    <3>10. With(s.conns, peers, "dyn") = With(conns, peers, "dyn") BY <1>4 DEF SameFlags
    <3>11. NewTasksSound(dial, Up(peers), Cardinality(With(s.conns, peers, "dyn")), t) BY <3>6, <3>9, <3>10
    <3>12. PICK C, R, q : C = s.conns /\ R = s.running /\ q = s.rest OBVIOUS
    <3>13. /\ Sound(cfg, dial, peers, C) /\ Serving(cfg, dial, R, q, peers, inboundCount, C)
           /\ NewTasksSound(dial, Up(peers), Cardinality(With(C, peers, "dyn")), t)
           /\ u = StartTasks(R, C, t.tasks)
      BY <1>4, <3>4, <3>11, <3>12
    <3>14. Sound(cfg, t.d, peers, u.conns) /\ Serving(cfg, t.d, u.running, q \o u.rest, peers, inboundCount, u.conns)
      BY <3>13, ServingNew
    <3> QED BY <3>5, <3>12, <3>14
  <2> QED BY <2>1, <2>2
<1>6. CurOK(pc', cur', conns') BY <1>2 DEF ServerInv, CurOK
<1>7. Ending(pc', listening', stop', peers') BY <1>2 DEF ServerInv, Ending
<1>8. inboundCount' \in Nat BY <1>2 DEF ServerInv
<1> QED BY <1>2, <1>5, <1>6, <1>7, <1>8 DEF ServerInv, Phases, Over

\* Every step keeps the invariant.
LEMMA NextServer == ServerInv /\ [Next]_vars => ServerInv'
<1> SUFFICES ASSUME ServerInv, [Next]_vars PROVE ServerInv' OBVIOUS
<1>1. CASE UNCHANGED vars BY <1>1 DEF vars, ServerInv
<1>2. CASE ScheduleTasks BY <1>2, ScheduleTasksStep
<1>3. CASE RunTask BY <1>3, RunTaskDoneStep DEF RunTask
<1>4. CASE RunConn BY <1>4, RunPosthandshakeStep, RunAddpeerStep DEF RunConn
<1>5. CASE RunChecks BY <1>5, RunEncChecksStep, RunProtoChecksStep DEF RunChecks
<1>6. CASE RunAnswer BY <1>6, RunAnswerStep
<1>7. CASE RunPeers BY <1>7, RunDelpeerStep, RunSpindownStep DEF RunPeers
<1>8. CASE RunQuit BY <1>8, RunQuitStep
<1>9. CASE RunEnds BY <1>9, RunEndsStep
<1>10. CASE Caller BY <1>10, StopStep, RunAddStaticStep, RunRemoveStaticStep DEF Caller
<1>11. CASE Accept BY <1>11, AcceptStep
<1>12. CASE ListenEnds BY <1>12, ListenEndsStep
<1>13. ASSUME NEW c \in Conns, ConnStep(c) PROVE ServerInv'
  <2>1. CASE DialSucceeds(c) BY <2>1, DialSucceedsStep
  <2>2. ASSUME NEW id \in Ids, EncHandshake(c, id) PROVE ServerInv' BY <2>2, EncHandshakeStep
  <2>3. CASE ProtoHandshake(c) BY <2>3, ProtoHandshakeStep
  <2>4. CASE SetupFails(c) BY <2>4, SetupFailsStep
  <2>5. CASE CheckpointQuits(c) BY <2>5, CheckpointQuitsStep
  <2> QED BY <1>13, <2>1, <2>2, <2>3, <2>4, <2>5 DEF ConnStep
<1>14. ASSUME NEW c \in Conns, PeerReturns(c) PROVE ServerInv' BY <1>14, PeerReturnsStep
<1>15. CASE StopReturns BY <1>15, StopReturnsStep
<1>16. CASE HistoryExpires BY <1>16, HistoryExpiresStep
<1>17. CASE FallbackDue BY <1>17, FallbackDueStep
<1> QED BY <1>1, <1>2, <1>3, <1>4, <1>5, <1>6, <1>7, <1>8, <1>9, <1>10, <1>11, <1>12, <1>13, <1>14, <1>15, <1>16, <1>17
        DEF Next, RunStep

-----------------------------------------------------------------------------
(* What the invariant says of the server.                                  *)

\* The invariant implies what the server promises.
LEMMA InvServer == ServerInv => ServerSound
<1> SUFFICES ASSUME ServerInv PROVE ServerSound OBVIOUS
<1>1. Sound(cfg, dial, peers, conns) BY DEF ServerInv
<1>2. DialSound(dial) /\ Connections(conns) /\ ConnsSound(conns) /\ PeersOK(conns, peers) /\ Limits(conns, peers, cfg)
  BY <1>1 DEF Sound, Connections
<1>3. Connected = Up(peers) BY DEF Connected, Up
<1>4. ASSUME NEW f PROVE PeersWith(f) = With(conns, peers, f) BY <1>3 DEF PeersWith, With
<1>5. PeersMatch BY <1>2, <1>3 DEF PeersMatch, PeersOK
<1>6. PeerLimits
  <2>1. pc \notin {"spindown", "ended"} => inboundCount = Cardinality(PeersWith("inbound"))
    BY <1>4 DEF ServerInv, Serving, Counted, Over
  <2>2. PeersWith("static") = With(conns, peers, "static") /\ PeersWith("trusted") = With(conns, peers, "trusted")
        /\ PeersWith("inbound") = With(conns, peers, "inbound")
    BY <1>4
  <2>3. /\ Cardinality(Connected \ (PeersWith("static") \cup PeersWith("trusted"))) <= cfg.maxPeers
        /\ Cardinality(PeersWith("inbound") \ PeersWith("trusted")) <= MaxInboundConns(cfg)
    BY <1>2, <1>3, <2>2 DEF Limits
  <2> QED BY <2>1, <2>3 DEF PeerLimits
<1>7. StoppedEmpty
  <2> SUFFICES ASSUME stop = "returned", NEW c \in Conns, conns[c].peer # "none" PROVE FALSE BY DEF StoppedEmpty
  <2>1. Up(peers) = {} BY DEF ServerInv, Ending
  <2>2. peers[conns[c].id] = c /\ conns[c].id \in Ids BY <1>2 DEF PeersOK, ConnsSound, ConnSound
  <2> QED BY <2>1, <2>2, ConnsAre DEF Up
<1>8. \A r \in running : r.c \in Conns \cup {0}
  <2>1. CASE pc \in Over BY <2>1 DEF ServerInv, Closed
  <2>2. CASE pc \notin Over
    <3>1. running \in SUBSET RunSet BY <2>2 DEF ServerInv, Serving, Books, DialBooks
    <3> QED BY <3>1 DEF RunSet
  <2> QED BY <2>1, <2>2
<1>9. conns \in [Conns -> [setup : {"none", "dial", "enter", "post", "postwait", "proto", "add", "addwait"},
                           peer : {"none", "up", "leaving"}, id : Ids \cup {NoId}, flags : SUBSET ConnFlags]]
  <2>1. \A c \in Conns : conns[c] \in
           [setup : {"none", "dial", "enter", "post", "postwait", "proto", "add", "addwait"},
            peer : {"none", "up", "leaving"}, id : Ids \cup {NoId}, flags : SUBSET ConnFlags]
    BY <1>2, ConnTyped DEF ConnsSound
  <2>2. conns = [c \in Conns |-> conns[c]] BY <1>2 DEF ConnsSound, AreConns
  <2> QED BY <2>1, <2>2, Zenon
<1>10. TypeOK
  <2>1. cfg \in Configs /\ pc \in Phases /\ cur.c \in Conns \cup {0} /\ inboundCount \in Nat
        /\ listening \in BOOLEAN /\ stop \in {"no", "waiting", "returned"}
    BY <1>1 DEF ServerInv, Sound, CurOK, Ending
  <2>2. dial.static \subseteq Ids /\ dial.hist \in Seq(Ids) /\ dial.due \in 0..Len(dial.hist)
        /\ dial.dialing \in [Ids -> DialFlags \cup {"none"}]
    BY <1>2 DEF DialSound, DialTyped, Dials
  <2>3. peers \in [Ids -> Conns \cup {0}] BY <1>2 DEF PeersOK
  <2> QED BY <1>8, <1>9, <2>1, <2>2, <2>3 DEF TypeOK, Phases
<1> QED BY <1>5, <1>6, <1>7, <1>10 DEF ServerSound

\* A history without duplicates has as many nodes as entries.
LEMMA OnceCard ==
    ASSUME NEW h \in Seq(Ids), Once(h)
    PROVE  Cardinality(ToSet(h)) = Len(h)
<1>1. PICK n, S : n = Len(h) /\ S = ToSet(h) OBVIOUS
<1>2. n \in Nat /\ DOMAIN h = 1..n BY <1>1
<1>3. S = {h[i] : i \in 1..n} BY <1>1, <1>2 DEF ToSet
<1>4. h \in [1..n -> S] BY <1>2, <1>3
<1>5. \A a, b \in 1..n : h[a] = h[b] => a = b BY <1>1 DEF Once
<1>6. \A t \in S : \E a \in 1..n : h[a] = t BY <1>3
<1>7. h \in Bijection(1..n, S)
  BY <1>4, <1>5, <1>6 DEF Bijection, Injection, Surjection, IsInjective
<1>8. ExistsBijection(1..n, S) BY <1>7 DEF ExistsBijection
<1>9. IsFiniteSet(1..n) /\ Cardinality(1..n) = n BY <1>2, FS_Interval
<1>10. Cardinality(S) = Cardinality(1..n) BY <1>8, <1>9, FS_Bijection
<1> QED BY <1>1, <1>9, <1>10

\* The invariant implies what the dialler promises.
LEMMA InvDials == ServerInv => DialsSound
<1> SUFFICES ASSUME ServerInv PROVE DialsSound OBVIOUS
<1>1. Sound(cfg, dial, peers, conns) BY DEF ServerInv
<1>2. DialSound(dial) /\ OneDial(conns) /\ ShareKept(conns, peers, dial.dialing, cfg)
  BY <1>1 DEF Sound, Connections
<1>3. DynamicShare
  <2>1. PeersWith("dyn") = With(conns, peers, "dyn") BY DEF PeersWith, With, Connected, Up
  <2> QED BY <1>2, <2>1 DEF DynamicShare, ShareKept, Dyn
<1>4. OneDialPerNode
  <2> SUFFICES ASSUME NEW i \in Ids
               PROVE  Cardinality({c \in Conns : conns[c].id = i /\ conns[c].flags \cap DialFlags # {}}) <= 1
    BY DEF OneDialPerNode
  <2>1. PICK S : S = {c \in Conns : conns[c].id = i /\ conns[c].flags \cap DialFlags # {}} OBVIOUS
  <2>2. \A a, b \in S : a = b BY <1>2, <2>1 DEF OneDial, ByDial
  <2>3. CASE S = {}
    <3>1. Cardinality(S) = 0 BY <2>3, FS_EmptySet
    <3> QED BY <2>1, <3>1
  <2>4. CASE S # {}
    <3>1. PICK c : S = {c} BY <2>2, <2>4
    <3>2. Cardinality(S) = 1 BY <3>1, FS_Singleton
    <3> QED BY <2>1, <3>2
  <2> QED BY <2>3, <2>4
<1>5. ASSUME NEW i \in Ids
      PROVE  Cardinality(DialTasks(i)) + Cardinality(QueuedDials(i)) = IF dial.dialing[i] = "none" THEN 0 ELSE 1
  <2>1. PICK X, Y : X = DialTasks(i) /\ Y = QueuedDials(i) OBVIOUS
  <2>2. Cardinality({}) = 0 /\ \A x : Cardinality({x}) = 1 BY FS_EmptySet, FS_Singleton
  <2>3. CASE pc \in Over
    <3>1. X = {} /\ Y = {} /\ dial.dialing[i] = "none"
      <4>1. running = {} /\ queued = <<>> /\ dial.dialing[i] = "none" BY <2>3 DEF ServerInv, Closed
      <4> QED BY <2>1, <4>1 DEF DialTasks, QueuedDials
    <3> QED BY <2>1, <2>2, <3>1
  <2>4. CASE pc \notin Over
    <3>1. PICK D, W : D = dial.dialing /\ W = Waits(queued, 0) OBVIOUS
    <3>2. DialBooks(D, running, W, conns) /\ ToStart(D, {}, queued) BY <2>4, <3>1 DEF ServerInv, Serving, Books
    <3>3. \A r \in X : r \in running /\ r.task.kind = "dial" /\ r.task.id = i BY <2>1 DEF DialTasks
    <3>4. \A j \in Y : j \in 1..Len(queued) /\ queued[j].kind = "dial" /\ queued[j].id = i BY <2>1 DEF QueuedDials
    <3>5. \A r \in X : D[i] = r.task.flag /\ i \notin W /\ r.task.flag # "none"
      <4> SUFFICES ASSUME NEW r \in X PROVE D[i] = r.task.flag /\ i \notin W /\ r.task.flag # "none" OBVIOUS
      <4>1. D[i] = r.task.flag /\ i \notin W /\ r \in RunSet BY <3>2, <3>3 DEF DialBooks
      <4> QED BY <4>1 DEF RunSet, TaskSet, DialFlags
    <3>6. \A a, b \in X : a = b BY <3>2, <3>3 DEF DialBooks
    <3>7. \A j \in Y : i \in W /\ D[i] # "none"
      <4> SUFFICES ASSUME NEW j \in Y PROVE i \in W /\ D[i] # "none" OBVIOUS
      <4>1. Len(queued) \in Nat BY <3>2 DEF ToStart
      <4>2. i \in W BY <3>1, <3>4, <4>1 DEF Waits
      <4> QED BY <3>2, <4>2 DEF DialBooks
    <3>8. \A a, b \in Y : a = b BY <3>2, <3>4 DEF ToStart, DialsOnce
    <3>9. CASE D[i] = "none"
      <4>1. X = {} /\ Y = {} BY <3>5, <3>7, <3>9
      <4> QED BY <2>1, <2>2, <3>1, <3>9, <4>1
    <3>10. CASE D[i] # "none" /\ i \in W
      <4>1. X = {} BY <3>5, <3>10
      <4>2. \E j \in 1..Len(queued) : queued[j].kind = "dial" /\ queued[j].id = i
        BY <3>1, <3>2, <3>10 DEF Waits, ToStart
      <4>3. Y # {} BY <2>1, <4>2 DEF QueuedDials
      <4>4. PICK j : Y = {j} BY <3>8, <4>3
      <4>5. Cardinality(X) = 0 /\ Cardinality(Y) = 1 BY <2>2, <4>1, <4>4
      <4> QED BY <2>1, <3>1, <3>10, <4>5
    <3>11. CASE D[i] # "none" /\ i \notin W
      <4>1. Y = {} BY <3>7, <3>11
      <4>2. \E r \in running : r.task.kind = "dial" /\ r.task.id = i BY <3>2, <3>11 DEF DialBooks
      <4>3. X # {} BY <2>1, <4>2 DEF DialTasks
      <4>4. PICK r : X = {r} BY <3>6, <4>3
      <4>5. Cardinality(X) = 1 /\ Cardinality(Y) = 0 BY <2>2, <4>1, <4>4
      <4> QED BY <2>1, <3>1, <3>11, <4>5
    <3> QED BY <3>9, <3>10, <3>11
  <2> QED BY <2>3, <2>4
<1>6. /\ \A i \in ToSet(dial.hist) : dial.dialing[i] = "none"
      /\ Cardinality(ToSet(dial.hist)) = Len(dial.hist)
  <2>1. PICK h : h = dial.hist OBVIOUS
  <2>2. h \in Seq(Ids) /\ Once(h) /\ \A k \in 1..Len(h) : dial.dialing[h[k]] = "none"
    BY <1>2, <2>1 DEF DialSound, DialTyped, HistSound
  <2>3. \A i \in ToSet(h) : dial.dialing[i] = "none" BY <2>2 DEF ToSet
  <2>4. Cardinality(ToSet(h)) = Len(h) BY <2>2, OnceCard
  <2> QED BY <2>1, <2>3, <2>4
<1>7. DialsTracked BY <1>5, <1>6 DEF DialsTracked
<1> QED BY <1>3, <1>4, <1>7 DEF DialsSound

\* The server's books, for every finite set of nodes, every Config and every number of
\* connections: in every reachable state the peers map and the peers' goroutines agree,
\* each node has one peer, the limits on all and on inbound peers hold, inboundCount is
\* the number of inbound peers, and no peer is left once Stop has returned.
THEOREM ServerIsSound == Spec => []ServerSound
<1>1. Init => ServerInv BY InitServer
<1>2. ServerInv /\ [Next]_vars => ServerInv' BY NextServer
<1>3. ServerInv => ServerSound BY InvServer
<1> QED BY <1>1, <1>2, <1>3, PTL DEF Spec

\* The dialler's books, likewise: a node is marked as dialled exactly while one task, queued
\* or running, dials it, no node of the history is dialled, a node has one connection
\* that we dialled, and dynamic dials and peers stay within their share.
THEOREM DialsAreSound == Spec => []DialsSound
<1>1. Init => ServerInv BY InitServer
<1>2. ServerInv /\ [Next]_vars => ServerInv' BY NextServer
<1>3. ServerInv => DialsSound BY InvDials
<1> QED BY <1>1, <1>2, <1>3, PTL DEF Spec
=============================================================================
