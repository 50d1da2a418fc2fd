---------------------------- MODULE TxGossipProof ----------------------------
(***************************************************************************)
(* Proofs about TxGossip, for any connected network, any transactions and  *)
(* any capacity of the queues and of knownTxs.                             *)
(*                                                                         *)
(* GossipSound is not inductive.  That a mark may be trusted rests on who  *)
(* sets it: a node marks a peer only for a transaction it was given, and   *)
(* what is queued, announced, asked for or sent over a link is a           *)
(* transaction its sender was given and, until a block takes it, pools.    *)
(* Told is the converse of MarkedGetsIt: a node that was given a           *)
(* transaction has seen to each of its peers.                              *)
(***************************************************************************)
EXTENDS TxGossip, TLAPS

Msgs == [kind : {"inv", "getdata", "tx"}, tx : Txs]

Entries == Txs \cup {HashEntry(t) : t \in Txs}

TypeOK ==
    /\ txPool \in [Nodes -> SUBSET Txs]
    /\ had \in [Nodes -> SUBSET Txs]
    /\ mined \in [Nodes -> SUBSET Txs]
    /\ known \in [Nodes -> [Nodes -> SUBSET Entries]]
    /\ dropped \in [Nodes -> [Nodes -> SUBSET Txs]]
    /\ waiting \in [Nodes -> [Nodes -> Seq(Txs)]]
    /\ wire \in [Nodes -> [Nodes -> Seq(Msgs)]]

\* x is an element of the sequence s.
In(s, x) == \E i \in DOMAIN s : s[i] = x

\* n is bringing t to m: it is queued, announced, asked for or sent.
Underway(n, m, t) ==
    \/ In(waiting[n][m], t)
    \/ Coming(n, m, t, "inv") \/ Coming(m, n, t, "getdata") \/ Coming(n, m, t, "tx")

\* Only a peer is brought anything, and only what the node was given.
Sourced ==
    \A n, m \in Nodes : \A t \in Txs : Underway(n, m, t) => m \in Peers(n) /\ t \in had[n]

\* A mark is for a transaction the node was given.
MarksOwn == \A n, m \in Nodes : known[n][m] \cap Txs \subseteq had[n]

\* A transaction is pooled until a block takes it.
Kept == \A n \in Nodes : had[n] \subseteq txPool[n] \cup mined[n]

\* A node that was given a transaction has seen to each of its peers.
Told ==
    \A n \in Nodes : \A m \in Peers(n) : \A t \in had[n] :
        t \in had[m] \/ t \in mined[n] \/ t \in dropped[n][m] \/ Underway(n, m, t)

IInv == TypeOK /\ Sourced /\ MarksOwn /\ Kept /\ Told /\ MarkedGetsIt

-----------------------------------------------------------------------------
\* Sequences as what they hold.
LEMMA AppendIn ==
    ASSUME NEW S, NEW s \in Seq(S), NEW x \in S
    PROVE  Append(s, x) \in Seq(S) /\ \A y : In(Append(s, x), y) <=> In(s, y) \/ y = x
<1>1. Append(s, x) \in Seq(S) /\ Len(Append(s, x)) = Len(s) + 1
  OBVIOUS
<1>2. DOMAIN s = 1 .. Len(s) /\ DOMAIN Append(s, x) = 1 .. Len(s) + 1 /\ Len(s) \in Nat
  BY <1>1
<1>3. \A i \in 1 .. Len(s) : Append(s, x)[i] = s[i]
  OBVIOUS
<1>4. Append(s, x)[Len(s) + 1] = x
  OBVIOUS
<1>5. \A i \in 1 .. Len(s) + 1 : i \in 1 .. Len(s) \/ i = Len(s) + 1
  BY <1>2
<1>6. 1 .. Len(s) \subseteq 1 .. Len(s) + 1 /\ Len(s) + 1 \in 1 .. Len(s) + 1
  BY <1>2
<1> SUFFICES ASSUME NEW y
             PROVE  In(Append(s, x), y) <=> In(s, y) \/ y = x
  BY <1>1
<1> QED
  BY <1>2, <1>3, <1>4, <1>5, <1>6, Zenon DEF In

LEMMA HeadIn ==
    ASSUME NEW S, NEW s \in Seq(S), s # <<>>
    PROVE  /\ Head(s) \in S /\ Tail(s) \in Seq(S)
           /\ \A y : In(s, y) <=> In(Tail(s), y) \/ y = Head(s)
<1>1. Head(s) \in S /\ Tail(s) \in Seq(S) /\ Len(s) \in Nat \ {0} /\ Len(Tail(s)) = Len(s) - 1
  OBVIOUS
<1>2. DOMAIN s = 1 .. Len(s) /\ DOMAIN Tail(s) = 1 .. Len(s) - 1
  BY <1>1
<1>3. Head(s) = s[1] /\ 1 \in 1 .. Len(s)
  BY <1>1
<1>4. \A i \in 1 .. Len(s) - 1 : Tail(s)[i] = s[i + 1] /\ i + 1 \in 1 .. Len(s)
  BY <1>1
<1>5. \A i \in 1 .. Len(s) : i = 1 \/ (i - 1 \in 1 .. Len(s) - 1 /\ s[i] = Tail(s)[i - 1])
  BY <1>1
<1> SUFFICES ASSUME NEW y
             PROVE  In(s, y) <=> In(Tail(s), y) \/ y = Head(s)
  BY <1>1
<1>6. In(s, y) => In(Tail(s), y) \/ y = Head(s)
  BY <1>2, <1>3, <1>5, Zenon DEF In
<1>7. In(Tail(s), y) \/ y = Head(s) => In(s, y)
  BY <1>2, <1>3, <1>4, Zenon DEF In
<1> QED
  BY <1>6, <1>7

Msg(kind, t) == [kind |-> kind, tx |-> t]

Wires == [Nodes -> [Nodes -> Seq(Msgs)]]

Kinds == {"inv", "getdata", "tx"}

\* v holds what w holds, and x from n to m.
Adds(v, w, n, m, x) ==
    \A a, b \in Nodes : \A y :
        In(v[a][b], y) <=> In(w[a][b], y) \/ (a = n /\ b = m /\ y = x)

LEMMA SendIn ==
    ASSUME NEW w \in Wires, NEW n \in Nodes, NEW m \in Nodes, NEW kind \in Kinds, NEW t \in Txs
    PROVE  /\ Send(w, n, m, kind, t) \in Wires
           /\ Adds(Send(w, n, m, kind, t), w, n, m, Msg(kind, t))
<1> DEFINE x == Msg(kind, t)
           v == Send(w, n, m, kind, t)
<1>1. x \in Msgs
  BY DEF Msg, Msgs, Kinds
<1>2. w[n][m] \in Seq(Msgs) /\ w[n] \in [Nodes -> Seq(Msgs)]
  BY DEF Wires
<1>3. /\ Append(w[n][m], x) \in Seq(Msgs)
      /\ \A y : In(Append(w[n][m], x), y) <=> In(w[n][m], y) \/ y = x
  BY <1>1, <1>2, AppendIn
<1>4. v = [w EXCEPT ![n] = [w[n] EXCEPT ![m] = Append(w[n][m], x)]]
  BY <1>2 DEF Send, Msg, Wires
<1>5. v \in Wires
  BY <1>2, <1>3, <1>4 DEF Wires
<1>6. v[n][m] = Append(w[n][m], x)
  BY <1>2, <1>4 DEF Wires
<1>7. \A a, b \in Nodes : ~(a = n /\ b = m) => v[a][b] = w[a][b]
  BY <1>2, <1>4 DEF Wires
<1> HIDE DEF x, v
<1>8. Adds(v, w, n, m, x)
  BY <1>3, <1>6, <1>7, Zenon DEF Adds
<1> QED
  BY <1>5, <1>8 DEF x, v

LEMMA ReceivedIn ==
    ASSUME TypeOK, NEW n \in Nodes, NEW m \in Nodes, wire[m][n] # <<>>
    PROVE  /\ Received(m, n) \in Wires /\ Head(wire[m][n]) \in Msgs
           /\ Adds(wire, Received(m, n), m, n, Head(wire[m][n]))
<1> DEFINE v == Received(m, n)
<1>1. wire[m][n] \in Seq(Msgs) /\ wire[m] \in [Nodes -> Seq(Msgs)] /\ wire \in Wires
  BY DEF TypeOK, Wires
<1>2. /\ Head(wire[m][n]) \in Msgs /\ Tail(wire[m][n]) \in Seq(Msgs)
      /\ \A y : In(wire[m][n], y) <=> In(Tail(wire[m][n]), y) \/ y = Head(wire[m][n])
  BY <1>1, HeadIn
<1>3. v = [wire EXCEPT ![m] = [wire[m] EXCEPT ![n] = Tail(wire[m][n])]]
  BY <1>1 DEF Received, Wires
<1>4. v \in Wires
  BY <1>1, <1>2, <1>3 DEF Wires
<1>5. v[m][n] = Tail(wire[m][n])
  BY <1>1, <1>3 DEF Wires
<1>6. \A a, b \in Nodes : ~(a = m /\ b = n) => v[a][b] = wire[a][b]
  BY <1>1, <1>3 DEF Wires
<1> HIDE DEF v
<1>7. Adds(wire, v, m, n, Head(wire[m][n]))
  BY <1>2, <1>5, <1>6, Zenon DEF Adds
<1> QED
  BY <1>2, <1>4, <1>7 DEF v

-----------------------------------------------------------------------------
\* MarkTransaction adds the transaction and nothing else, whatever it evicts.
LEMMA MarkedAdds ==
    ASSUME NEW k, NEW t, NEW s \in Marked(k, t)
    PROVE  s \subseteq k \cup {t}
BY DEF Marked

\* K is known but for t, with which n has marked peers in ms.
Marks(K, n, ms, t) ==
    /\ K \in [Nodes -> [Nodes -> SUBSET Entries]]
    /\ \A a, b \in Nodes : K[a][b] \subseteq known[a][b] \cup {t}
    /\ \A a, b \in Nodes : a # n \/ b \notin ms => K[a][b] = known[a][b]

LEMMA KnownMarks ==
    ASSUME TypeOK, NEW n \in Nodes, NEW ms \in SUBSET Nodes, NEW t \in Txs,
           NEW K \in KnownAfter(n, ms, t)
    PROVE  Marks(K, n, ms, t)
<1>1. PICK k \in {f \in [ms -> UNION {Marked(known[n][q], t) : q \in ms}] :
                    \A q \in ms : f[q] \in Marked(known[n][q], t)} :
          K = [known EXCEPT ![n] = [q \in Nodes |-> IF q \in ms THEN k[q] ELSE known[n][q]]]
  BY DEF KnownAfter
<1>2. \A q \in ms : k[q] \subseteq known[n][q] \cup {t}
  BY <1>1, MarkedAdds
<1>3. known[n] \in [Nodes -> SUBSET Entries] /\ t \in Entries
  BY DEF TypeOK, Entries
<1> DEFINE r == [q \in Nodes |-> IF q \in ms THEN k[q] ELSE known[n][q]]
<1>4. \A q \in Nodes : r[q] \subseteq known[n][q] \cup {t} /\ (q \notin ms => r[q] = known[n][q])
  BY <1>2
<1>5. r \in [Nodes -> SUBSET Entries]
  BY <1>3, <1>4
<1> HIDE DEF r
<1>6. K = [known EXCEPT ![n] = r]
  BY <1>1 DEF r
<1> QED
  BY <1>4, <1>5, <1>6 DEF TypeOK, Marks

LEMMA ComingIn ==
    \A n, m, t, kind : Coming(n, m, t, kind) <=> In(wire[n][m], Msg(kind, t))
BY DEF Coming, In, Msg

LEMMA MsgEq ==
    \A k, l, t, u : Msg(k, t) = Msg(l, u) <=> k = l /\ t = u
BY DEF Msg

LEMMA MsgIs ==
    ASSUME NEW x \in Msgs
    PROVE  x = Msg(x.kind, x.tx) /\ x.tx \in Txs
BY DEF Msg, Msgs

\* MarkedGetsIt in the words of the proof.
LEMMA MarkedIs ==
    MarkedGetsIt <=>
        \A n \in Nodes : \A m \in Peers(n) : \A t \in Txs \cap known[n][m] :
            t \in had[m] \/ t \in mined[n] \/ Underway(n, m, t)
BY DEF MarkedGetsIt, Underway, In

-----------------------------------------------------------------------------
LEMMA InitInv ==
    ASSUME GossipAssumption, GossipInit
    PROVE  IInv
<1>1. TypeOK
  <2>1. <<>> \in Seq(Txs) /\ <<>> \in Seq(Msgs)
    OBVIOUS
  <2> QED
    BY <2>1 DEF GossipInit, TypeOK
<1>2. \A n, m \in Nodes : DOMAIN wire[n][m] = {} /\ DOMAIN waiting[n][m] = {}
  BY DEF GossipInit
<1>3. \A n, m \in Nodes : \A t : ~Underway(n, m, t)
  BY <1>2, Zenon DEF Underway, Coming, In
<1>4. Sourced
  BY <1>3 DEF Sourced
<1>5. MarksOwn /\ Kept /\ Told /\ MarkedGetsIt
  BY DEF GossipInit, MarksOwn, Kept, Told, MarkedGetsIt, Peers
<1> QED
  BY <1>1, <1>4, <1>5 DEF IInv

\* What is under way after a step, in terms of the queues and the wire.
UnderwayThen(n, m, t) ==
    \/ In(waiting'[n][m], t)
    \/ In(wire'[n][m], Msg("inv", t)) \/ In(wire'[m][n], Msg("getdata", t))
    \/ In(wire'[n][m], Msg("tx", t))

LEMMA UnderwayNow ==
    \A n, m, t : Underway(n, m, t) <=>
        \/ In(waiting[n][m], t)
        \/ In(wire[n][m], Msg("inv", t)) \/ In(wire[m][n], Msg("getdata", t))
        \/ In(wire[n][m], Msg("tx", t))
BY ComingIn DEF Underway

\* The invariant after a step, from what is under way then.
LEMMA InvThen ==
    ASSUME TypeOK',
           \A n, m \in Nodes : \A t \in Txs :
               UnderwayThen(n, m, t) => m \in Peers(n) /\ t \in had'[n],
           \A n, m \in Nodes : known'[n][m] \cap Txs \subseteq had'[n],
           \A n \in Nodes : had'[n] \subseteq txPool'[n] \cup mined'[n],
           \A n \in Nodes : \A m \in Peers(n) : \A t \in had'[n] :
               t \in had'[m] \/ t \in mined'[n] \/ t \in dropped'[n][m] \/ UnderwayThen(n, m, t),
           \A n \in Nodes : \A m \in Peers(n) : \A t \in Txs \cap known'[n][m] :
               t \in had'[m] \/ t \in mined'[n] \/ UnderwayThen(n, m, t)
    PROVE  IInv'
<1>1. \A n, m, t : Underway(n, m, t)' <=> UnderwayThen(n, m, t)
  BY DEF Underway, UnderwayThen, Coming, In, Msg
<1>2. Sourced'
  BY <1>1 DEF Sourced, Peers
<1>3. Told'
  BY <1>1 DEF Told, Peers
<1>4. MarkedGetsIt'
  <2>1. MarkedGetsIt' <=>
          \A n \in Nodes : \A m \in Peers(n) : \A t \in Txs \cap known'[n][m] :
              t \in had'[m] \/ t \in mined'[n] \/ Underway(n, m, t)'
    BY DEF MarkedGetsIt, Underway, In, Peers
  <2> QED
    BY <1>1, <2>1
<1> QED
  BY <1>2, <1>3, <1>4 DEF IInv, MarksOwn, Kept

\* What the invariant says of the state before a step.
LEMMA InvNow ==
    ASSUME IInv
    PROVE  /\ TypeOK
           /\ \A n, m \in Nodes : \A t \in Txs : Underway(n, m, t) => m \in Peers(n) /\ t \in had[n]
           /\ \A n, m \in Nodes : known[n][m] \cap Txs \subseteq had[n]
           /\ \A n \in Nodes : had[n] \subseteq txPool[n] \cup mined[n]
           /\ \A n \in Nodes : \A m \in Peers(n) : \A t \in had[n] :
                t \in had[m] \/ t \in mined[n] \/ t \in dropped[n][m] \/ Underway(n, m, t)
           /\ \A n \in Nodes : \A m \in Peers(n) : \A t \in Txs \cap known[n][m] :
                t \in had[m] \/ t \in mined[n] \/ Underway(n, m, t)
           /\ \A n \in Nodes : had[n] \subseteq Txs /\ Peers(n) \subseteq Nodes
BY MarkedIs DEF IInv, TypeOK, Sourced, MarksOwn, Kept, Told, Peers

\* The sending goroutine: the announcement moves from the queue to the wire.
LEMMA AnnounceInv ==
    ASSUME GossipAssumption, IInv, NEW n \in Nodes, NEW m \in Nodes, Announce(n, m)
    PROVE  IInv'
<1> DEFINE t == Head(waiting[n][m])
<1>1. waiting[n][m] \in Seq(Txs) /\ waiting[n][m] # <<>>
  BY DEF IInv, TypeOK, Announce
<1>2. /\ t \in Txs /\ Tail(waiting[n][m]) \in Seq(Txs)
      /\ \A y : In(waiting[n][m], y) <=> In(Tail(waiting[n][m]), y) \/ y = t
  BY <1>1, HeadIn
<1>3. waiting' \in [Nodes -> [Nodes -> Seq(Txs)]]
  BY <1>2 DEF IInv, TypeOK, Announce
<1>4. waiting'[n][m] = Tail(waiting[n][m])
      /\ \A a, b \in Nodes : ~(a = n /\ b = m) => waiting'[a][b] = waiting[a][b]
  BY DEF IInv, TypeOK, Announce
<1>5. Adds(waiting, waiting', n, m, t)
  BY <1>2, <1>4, Zenon DEF Adds
<1>6. wire' \in Wires /\ Adds(wire', wire, n, m, Msg("inv", t))
  <2>1. "inv" \in Kinds /\ wire \in Wires
    BY DEF IInv, TypeOK, Wires, Kinds
  <2> QED
    BY <1>2, <2>1, SendIn DEF Announce
<1>7. /\ known' \in [Nodes -> [Nodes -> SUBSET Entries]]
      /\ \A a, b \in Nodes : known'[a][b] \cap Txs = known[a][b] \cap Txs
  <2>1. HashEntry(t) \in Entries /\ HashEntry(t) \notin Txs
    BY <1>2 DEF Entries, GossipAssumption
  <2> QED
    BY <2>1 DEF IInv, TypeOK, Announce
<1>8. UNCHANGED <<txPool, had, mined, dropped>>
  BY DEF Announce
<1> HIDE DEF t
<1>9. \A a, b \in Nodes : \A x \in Txs : UnderwayThen(a, b, x) <=> Underway(a, b, x)
  <2> SUFFICES ASSUME NEW a \in Nodes, NEW b \in Nodes, NEW x \in Txs
               PROVE  UnderwayThen(a, b, x) <=> Underway(a, b, x)
    OBVIOUS
  <2>1. Msg("getdata", x) # Msg("inv", t) /\ Msg("tx", x) # Msg("inv", t)
    BY MsgEq
  <2>2. Msg("inv", x) = Msg("inv", t) <=> x = t
    BY MsgEq
  <2>3. /\ In(waiting[a][b], x) <=> In(waiting'[a][b], x) \/ (a = n /\ b = m /\ x = t)
        /\ In(wire'[a][b], Msg("inv", x)) <=>
              In(wire[a][b], Msg("inv", x)) \/ (a = n /\ b = m /\ x = t)
    BY <1>5, <1>6, <2>2, Zenon DEF Adds
  <2>4. /\ In(wire'[b][a], Msg("getdata", x)) <=> In(wire[b][a], Msg("getdata", x))
        /\ In(wire'[a][b], Msg("tx", x)) <=> In(wire[a][b], Msg("tx", x))
    BY <1>6, <2>1, Zenon DEF Adds
  <2> QED
    BY <2>3, <2>4, UnderwayNow, Zenon DEF UnderwayThen
<1>10. TypeOK'
  BY <1>3, <1>6, <1>7, <1>8 DEF IInv, TypeOK, Wires
<1> QED
  BY <1>7, <1>8, <1>9, <1>10, InvNow, InvThen

\* handleInv: a marked peer's announcement is of no use, for the node has had
\* the transaction; any other is answered by getdata.
LEMMA HandleInvInv ==
    ASSUME GossipAssumption, IInv, NEW n \in Nodes, NEW m \in Nodes, HandleInv(n, m)
    PROVE  IInv'
<1> DEFINE x == Head(wire[m][n])
           t == x.tx
           w == Received(m, n)
<1>1. wire[m][n] # <<>> /\ x.kind = "inv"
  BY DEF HandleInv, First
<1>2. w \in Wires /\ x \in Msgs /\ Adds(wire, w, m, n, x)
  BY <1>1, ReceivedIn DEF IInv
<1>3. x = Msg("inv", t) /\ t \in Txs
  BY <1>1, <1>2, MsgIs
<1>4. UNCHANGED <<txPool, known, waiting, had, mined, dropped>>
  BY DEF HandleInv
<1>5. wire' = IF t \in known[n][m] THEN w ELSE Send(w, n, m, "getdata", t)
  BY DEF HandleInv
<1> HIDE DEF x, t, w
<1>6. CASE t \in known[n][m]
  <2>1. t \in had[n]
    BY <1>3, <1>6, InvNow
  <2>2. \A a, b \in Nodes : \A y \in Txs :
          /\ UnderwayThen(a, b, y) => Underway(a, b, y)
          /\ Underway(a, b, y) => UnderwayThen(a, b, y) \/ (a = m /\ b = n /\ y = t)
    <3> SUFFICES ASSUME NEW a \in Nodes, NEW b \in Nodes, NEW y \in Txs
                 PROVE  /\ UnderwayThen(a, b, y) => Underway(a, b, y)
                        /\ Underway(a, b, y) => UnderwayThen(a, b, y) \/ (a = m /\ b = n /\ y = t)
      OBVIOUS
    <3>1. Msg("getdata", y) # x /\ Msg("tx", y) # x /\ (Msg("inv", y) = x <=> y = t)
      BY <1>3, MsgEq
    <3> QED
      BY <1>2, <1>4, <1>5, <1>6, <3>1, UnderwayNow DEF UnderwayThen, Adds
  <2>3. TypeOK'
    BY <1>2, <1>4, <1>5, <1>6 DEF IInv, TypeOK, Wires
  <2> QED
    BY <1>3, <1>4, <2>1, <2>2, <2>3, InvNow, InvThen
<1>7. CASE t \notin known[n][m]
  <2>1. "getdata" \in Kinds
    BY DEF Kinds
  <2>2. wire' \in Wires /\ Adds(wire', w, n, m, Msg("getdata", t))
    BY <1>2, <1>3, <1>5, <1>7, <2>1, SendIn
  <2>3. \A a, b \in Nodes : \A y \in Txs : UnderwayThen(a, b, y) <=> Underway(a, b, y)
    <3> SUFFICES ASSUME NEW a \in Nodes, NEW b \in Nodes, NEW y \in Txs
                 PROVE  UnderwayThen(a, b, y) <=> Underway(a, b, y)
      OBVIOUS
    <3>1. Msg("getdata", y) # x /\ Msg("tx", y) # x /\ (Msg("inv", y) = x <=> y = t)
      BY <1>3, MsgEq
    <3>2. /\ Msg("inv", y) # Msg("getdata", t) /\ Msg("tx", y) # Msg("getdata", t)
          /\ (Msg("getdata", y) = Msg("getdata", t) <=> y = t)
      BY MsgEq
    <3> QED
      BY <1>2, <1>4, <2>2, <3>1, <3>2, UnderwayNow DEF UnderwayThen, Adds
  <2>4. TypeOK'
    BY <1>4, <2>2 DEF IInv, TypeOK, Wires
  <2> QED
    BY <1>4, <2>3, <2>4, InvNow, InvThen
<1> QED
  BY <1>6, <1>7

\* handleGetData: what is pooled is sent; what is not was mined.
LEMMA HandleGetDataInv ==
    ASSUME GossipAssumption, IInv, NEW n \in Nodes, NEW m \in Nodes, HandleGetData(n, m)
    PROVE  IInv'
<1> DEFINE x == Head(wire[m][n])
           t == x.tx
           w == Received(m, n)
<1>1. wire[m][n] # <<>> /\ x.kind = "getdata"
  BY DEF HandleGetData, First
<1>2. w \in Wires /\ x \in Msgs /\ Adds(wire, w, m, n, x)
  BY <1>1, ReceivedIn DEF IInv
<1>3. x = Msg("getdata", t) /\ t \in Txs
  BY <1>1, <1>2, MsgIs
<1>4. UNCHANGED <<txPool, waiting, had, mined, dropped>>
  BY DEF HandleGetData
<1>5. IF t \in txPool[n]
      THEN wire' = Send(w, n, m, "tx", t) /\ known' \in KnownAfter(n, {m}, t)
      ELSE wire' = w /\ UNCHANGED known
  BY DEF HandleGetData, SendTx
<1> HIDE DEF x, t, w
<1>6. Underway(n, m, t)
  BY <1>2, <1>3, UnderwayNow DEF Adds
<1>7. t \in had[n]
  BY <1>3, <1>6, InvNow
<1>8. CASE t \in txPool[n]
  <2>1. "tx" \in Kinds /\ {m} \in SUBSET Nodes
    BY DEF Kinds
  <2>2. wire' \in Wires /\ Adds(wire', w, n, m, Msg("tx", t))
    BY <1>2, <1>3, <1>5, <1>8, <2>1, SendIn
  <2>3. Marks(known', n, {m}, t)
    BY <1>3, <1>5, <1>8, <2>1, KnownMarks DEF IInv
  <2>4. \A a, b \in Nodes : \A y \in Txs : UnderwayThen(a, b, y) <=> Underway(a, b, y)
    <3> SUFFICES ASSUME NEW a \in Nodes, NEW b \in Nodes, NEW y \in Txs
                 PROVE  UnderwayThen(a, b, y) <=> Underway(a, b, y)
      OBVIOUS
    <3>1. Msg("inv", y) # x /\ Msg("tx", y) # x /\ (Msg("getdata", y) = x <=> y = t)
      BY <1>3, MsgEq
    <3>2. /\ Msg("inv", y) # Msg("tx", t) /\ Msg("getdata", y) # Msg("tx", t)
          /\ (Msg("tx", y) = Msg("tx", t) <=> y = t)
      BY MsgEq
    <3> QED
      BY <1>2, <1>4, <2>2, <3>1, <3>2, UnderwayNow DEF UnderwayThen, Adds
  <2>5. TypeOK'
    BY <1>4, <2>2, <2>3 DEF IInv, TypeOK, Wires, Marks
  <2>6. \A a, b \in Nodes : known'[a][b] \cap Txs \subseteq had'[a]
    BY <1>4, <1>7, <2>3, InvNow DEF Marks
  <2>7. \A a \in Nodes : \A b \in Peers(a) : \A y \in Txs \cap known'[a][b] :
          y \in had'[b] \/ y \in mined'[a] \/ UnderwayThen(a, b, y)
    BY <1>3, <1>4, <1>6, <2>3, <2>4, InvNow DEF Marks
  <2> QED
    BY <1>4, <2>4, <2>5, <2>6, <2>7, InvNow, InvThen
<1>9. CASE t \notin txPool[n]
  <2>1. t \in mined[n]
    BY <1>7, <1>9, InvNow
  <2>2. \A a, b \in Nodes : \A y \in Txs :
          /\ UnderwayThen(a, b, y) => Underway(a, b, y)
          /\ Underway(a, b, y) => UnderwayThen(a, b, y) \/ (a = n /\ b = m /\ y = t)
    <3> SUFFICES ASSUME NEW a \in Nodes, NEW b \in Nodes, NEW y \in Txs
                 PROVE  /\ UnderwayThen(a, b, y) => Underway(a, b, y)
                        /\ Underway(a, b, y) => UnderwayThen(a, b, y) \/ (a = n /\ b = m /\ y = t)
      OBVIOUS
    <3>1. Msg("inv", y) # x /\ Msg("tx", y) # x /\ (Msg("getdata", y) = x <=> y = t)
      BY <1>3, MsgEq
    <3> QED
      BY <1>2, <1>4, <1>5, <1>9, <3>1, UnderwayNow DEF UnderwayThen, Adds
  <2>3. TypeOK'
    BY <1>2, <1>4, <1>5, <1>9 DEF IInv, TypeOK, Wires
  <2> QED
    BY <1>3, <1>4, <1>5, <1>9, <2>1, <2>2, <2>3, InvNow, InvThen
<1> QED
  BY <1>8, <1>9

\* A miner takes a transaction from the pool: it was had, and is mined now.
LEMMA MineInv ==
    ASSUME GossipAssumption, IInv, NEW n \in Nodes, NEW t \in Txs, Mine(n, t)
    PROVE  IInv'
<1>1. TypeOK'
  BY DEF IInv, TypeOK, Mine
<1>2. \A a, b \in Nodes : \A y \in Txs : UnderwayThen(a, b, y) <=> Underway(a, b, y)
  BY UnderwayNow DEF Mine, UnderwayThen
<1>3. \A a \in Nodes : mined[a] \subseteq mined'[a]
                       /\ txPool[a] \cup mined[a] \subseteq txPool'[a] \cup mined'[a]
  BY DEF IInv, TypeOK, Mine
<1>4. UNCHANGED <<known, had, dropped>>
  BY DEF Mine
<1> QED
  BY <1>1, <1>2, <1>3, <1>4, InvNow, InvThen

\* The command line gives a transaction to every peer of its node.
LEMMA SubmitInv ==
    ASSUME GossipAssumption, IInv, NEW t \in Txs, Submit(t)
    PROVE  IInv'
<1> DEFINE P == Peers(Origin)
<1>1. Origin \in Nodes /\ P \in SUBSET Nodes
  BY DEF GossipAssumption, Peers
<1>2. UNCHANGED <<waiting, mined, dropped>>
  BY DEF Submit
<1>3. /\ \A a \in Nodes : had'[a] = IF a = Origin THEN had[a] \cup {t} ELSE had[a]
      /\ \A a \in Nodes : txPool'[a] = IF a = Origin THEN txPool[a] \cup {t} ELSE txPool[a]
      /\ had' \in [Nodes -> SUBSET Txs] /\ txPool' \in [Nodes -> SUBSET Txs]
  BY DEF IInv, TypeOK, Submit
<1>4. Marks(known', Origin, P, t)
  <2>1. known' \in KnownAfter(Origin, P, t)
    BY DEF Submit
  <2> QED
    BY <1>1, <2>1, KnownMarks DEF IInv
<1>5. /\ wire' \in Wires
      /\ \A a, b \in Nodes : \A y :
            In(wire'[a][b], y) <=>
                In(wire[a][b], y) \/ (a = Origin /\ b \in P /\ y = Msg("tx", t))
  <2> DEFINE x == Msg("tx", t)
             r == [b \in Nodes |-> IF b \in P THEN Append(wire[Origin][b], x) ELSE wire[Origin][b]]
  <2>1. x \in Msgs
    BY DEF Msg, Msgs
  <2>2. wire' = [wire EXCEPT ![Origin] = r]
    BY DEF Submit, Msg
  <2>3. \A b \in Nodes : wire[Origin][b] \in Seq(Msgs)
    BY <1>1 DEF IInv, TypeOK
  <2>4. \A b \in Nodes : /\ Append(wire[Origin][b], x) \in Seq(Msgs)
                         /\ \A y : In(Append(wire[Origin][b], x), y) <=> In(wire[Origin][b], y) \/ y = x
    BY <2>1, <2>3, AppendIn
  <2> HIDE DEF x
  <2>5. r \in [Nodes -> Seq(Msgs)]
    BY <2>3, <2>4
  <2>6. \A b \in Nodes : r[b] = IF b \in P THEN Append(wire[Origin][b], x) ELSE wire[Origin][b]
    OBVIOUS
  <2> HIDE DEF r
  <2>7. wire' \in Wires
    BY <2>2, <2>5 DEF IInv, TypeOK, Wires
  <2>8. wire'[Origin] = r /\ \A a \in Nodes : a # Origin => wire'[a] = wire[a]
    BY <1>1, <2>2 DEF IInv, TypeOK
  <2>9. \A a, b \in Nodes : \A y :
            In(wire'[a][b], y) <=> In(wire[a][b], y) \/ (a = Origin /\ b \in P /\ y = x)
    BY <2>4, <2>6, <2>8, Zenon
  <2> QED
    BY <2>7, <2>9 DEF x
<1> HIDE DEF P
<1>6. \A a, b \in Nodes : \A y \in Txs :
        UnderwayThen(a, b, y) <=> Underway(a, b, y) \/ (a = Origin /\ b \in P /\ y = t)
  <2> SUFFICES ASSUME NEW a \in Nodes, NEW b \in Nodes, NEW y \in Txs
               PROVE  UnderwayThen(a, b, y) <=> Underway(a, b, y) \/ (a = Origin /\ b \in P /\ y = t)
    OBVIOUS
  <2>1. /\ Msg("inv", y) # Msg("tx", t) /\ Msg("getdata", y) # Msg("tx", t)
        /\ (Msg("tx", y) = Msg("tx", t) <=> y = t)
    BY MsgEq
  <2> QED
    BY <1>2, <1>5, <2>1, UnderwayNow DEF UnderwayThen
<1>7. TypeOK'
  BY <1>2, <1>3, <1>4, <1>5 DEF IInv, TypeOK, Wires, Marks
<1>8. \A a, b \in Nodes : \A y \in Txs :
        UnderwayThen(a, b, y) => b \in Peers(a) /\ y \in had'[a]
  BY <1>3, <1>6, InvNow DEF P
<1>9. \A a, b \in Nodes : known'[a][b] \cap Txs \subseteq had'[a]
  BY <1>3, <1>4, InvNow DEF Marks
<1>10. \A a \in Nodes : had'[a] \subseteq txPool'[a] \cup mined'[a]
  BY <1>2, <1>3, InvNow
<1>11. \A a \in Nodes : \A b \in Peers(a) : \A y \in had'[a] :
         y \in had'[b] \/ y \in mined'[a] \/ y \in dropped'[a][b] \/ UnderwayThen(a, b, y)
  BY <1>1, <1>2, <1>3, <1>6, InvNow DEF P
<1>12. \A a \in Nodes : \A b \in Peers(a) : \A y \in Txs \cap known'[a][b] :
         y \in had'[b] \/ y \in mined'[a] \/ UnderwayThen(a, b, y)
  BY <1>1, <1>2, <1>3, <1>4, <1>6, InvNow DEF P, Marks
<1> QED
  BY <1>7, <1>8, <1>9, <1>10, <1>11, <1>12, InvThen

\* handleTx: the transaction is pooled, its sender has had it, and every other
\* peer has it queued, is marked already, or has its announcement dropped.
LEMMA HandleTxInv ==
    ASSUME GossipAssumption, IInv, NEW n \in Nodes, NEW m \in Nodes, HandleTx(n, m)
    PROVE  IInv'
<1> DEFINE x == Head(wire[m][n])
           t == x.tx
           w == Received(m, n)
           ask == Without(n, t) \ {m}
           room == {q \in ask : Len(waiting[n][q]) < MaxQueuedTxs}
<1>1. wire[m][n] # <<>> /\ x.kind = "tx"
  BY DEF HandleTx, First
<1>2. w \in Wires /\ x \in Msgs /\ Adds(wire, w, m, n, x)
  BY <1>1, ReceivedIn DEF IInv
<1>3. x = Msg("tx", t) /\ t \in Txs
  BY <1>1, <1>2, MsgIs
<1>4. wire' = w /\ UNCHANGED mined /\ BroadcastTxs(n, m, t)
  BY DEF HandleTx
<1>5. /\ \A a \in Nodes : had'[a] = IF a = n THEN had[a] \cup {t} ELSE had[a]
      /\ \A a \in Nodes : txPool'[a] = IF a = n THEN txPool[a] \cup {t} ELSE txPool[a]
      /\ had' \in [Nodes -> SUBSET Txs] /\ txPool' \in [Nodes -> SUBSET Txs]
  BY <1>3 DEF IInv, TypeOK, HandleTx
<1> HIDE DEF x, t, w
<1>6. Underway(m, n, t)
  BY <1>2, <1>3, UnderwayNow DEF Adds
<1>7. t \in had[m]
  BY <1>3, <1>6, InvNow
<1>8. ask \in SUBSET Nodes /\ room \subseteq ask /\ ask \subseteq Peers(n)
      /\ \A q \in Peers(n) : q \in ask \/ q = m \/ t \in known[n][q]
  BY DEF Without, Peers
<1>9. room = {q \in ask : AsyncMarks(n, q, t)}
  BY DEF AsyncMarks
<1>10. /\ waiting' = [waiting EXCEPT ![n] =
                        [q \in Nodes |-> IF q \in room THEN Append(waiting[n][q], t) ELSE waiting[n][q]]]
       /\ dropped' = [dropped EXCEPT ![n] =
                        [q \in Nodes |-> IF q \in ask \ room THEN dropped[n][q] \cup {t} ELSE dropped[n][q]]]
       /\ known' \in KnownAfter(n, {m} \cup {q \in ask : AsyncMarks(n, q, t)}, t)
  BY <1>4 DEF BroadcastTxs
<1> HIDE DEF ask, room
<1>11. Marks(known', n, {m} \cup room, t)
  BY <1>3, <1>8, <1>9, <1>10, KnownMarks DEF IInv
<1>12. /\ dropped' \in [Nodes -> [Nodes -> SUBSET Txs]]
       /\ \A a, b \in Nodes : dropped'[a][b] =
             IF a = n /\ b \in ask \ room THEN dropped[a][b] \cup {t} ELSE dropped[a][b]
  BY <1>3, <1>10 DEF IInv, TypeOK
<1>13. /\ waiting' \in [Nodes -> [Nodes -> Seq(Txs)]]
       /\ \A a, b \in Nodes : \A y :
             In(waiting'[a][b], y) <=> In(waiting[a][b], y) \/ (a = n /\ b \in room /\ y = t)
  <2> DEFINE r == [q \in Nodes |-> IF q \in room THEN Append(waiting[n][q], t) ELSE waiting[n][q]]
  <2>1. \A b \in Nodes : waiting[n][b] \in Seq(Txs)
    BY DEF IInv, TypeOK
  <2>2. \A b \in Nodes : /\ Append(waiting[n][b], t) \in Seq(Txs)
                         /\ \A y : In(Append(waiting[n][b], t), y) <=> In(waiting[n][b], y) \/ y = t
    BY <1>3, <2>1, AppendIn
  <2>3. r \in [Nodes -> Seq(Txs)]
    BY <2>1, <2>2
  <2>4. \A b \in Nodes : r[b] = IF b \in room THEN Append(waiting[n][b], t) ELSE waiting[n][b]
    OBVIOUS
  <2>5. waiting' = [waiting EXCEPT ![n] = r]
    BY <1>10
  <2> HIDE DEF r
  <2>6. waiting' \in [Nodes -> [Nodes -> Seq(Txs)]]
    BY <2>3, <2>5 DEF IInv, TypeOK
  <2>7. waiting'[n] = r /\ \A a \in Nodes : a # n => waiting'[a] = waiting[a]
    BY <2>5 DEF IInv, TypeOK
  <2>8. \A a, b \in Nodes : \A y :
           In(waiting'[a][b], y) <=> In(waiting[a][b], y) \/ (a = n /\ b \in room /\ y = t)
    BY <2>2, <2>4, <2>7, Zenon
  <2> QED
    BY <2>6, <2>8
<1>14. \A a, b \in Nodes : \A y \in Txs :
         /\ UnderwayThen(a, b, y) => Underway(a, b, y) \/ (a = n /\ b \in room /\ y = t)
         /\ Underway(a, b, y) => UnderwayThen(a, b, y) \/ (a = m /\ b = n /\ y = t)
         /\ a = n /\ b \in room /\ y = t => UnderwayThen(a, b, y)
  <2> SUFFICES ASSUME NEW a \in Nodes, NEW b \in Nodes, NEW y \in Txs
               PROVE  /\ UnderwayThen(a, b, y) => Underway(a, b, y) \/ (a = n /\ b \in room /\ y = t)
                      /\ Underway(a, b, y) => UnderwayThen(a, b, y) \/ (a = m /\ b = n /\ y = t)
                      /\ a = n /\ b \in room /\ y = t => UnderwayThen(a, b, y)
    OBVIOUS
  <2>1. Msg("inv", y) # x /\ Msg("getdata", y) # x /\ (Msg("tx", y) = x <=> y = t)
    BY <1>3, MsgEq
  <2> QED
    BY <1>2, <1>4, <1>13, <2>1, UnderwayNow DEF UnderwayThen, Adds
<1>15. TypeOK'
  BY <1>2, <1>4, <1>5, <1>11, <1>12, <1>13 DEF IInv, TypeOK, Wires, Marks
<1>16. \A a, b \in Nodes : \A y \in Txs :
         UnderwayThen(a, b, y) => b \in Peers(a) /\ y \in had'[a]
  BY <1>5, <1>8, <1>14, InvNow
<1>17. \A a, b \in Nodes : known'[a][b] \cap Txs \subseteq had'[a]
  BY <1>5, <1>11, InvNow DEF Marks
<1>18. \A a \in Nodes : had'[a] \subseteq txPool'[a] \cup mined'[a]
  BY <1>4, <1>5, InvNow
<1>19. \A a \in Nodes : \A b \in Peers(a) : \A y \in Txs \cap known'[a][b] :
         y \in had'[b] \/ y \in mined'[a] \/ UnderwayThen(a, b, y)
  BY <1>3, <1>4, <1>5, <1>7, <1>11, <1>14, InvNow DEF Marks
<1>20. \A a \in Nodes : \A b \in Peers(a) : \A y \in had'[a] :
         y \in had'[b] \/ y \in mined'[a] \/ y \in dropped'[a][b] \/ UnderwayThen(a, b, y)
  <2> SUFFICES ASSUME NEW a \in Nodes, NEW b \in Peers(a), NEW y \in had'[a]
               PROVE  y \in had'[b] \/ y \in mined'[a] \/ y \in dropped'[a][b] \/ UnderwayThen(a, b, y)
    OBVIOUS
  <2>1. b \in Nodes /\ y \in Txs
    BY <1>5, InvNow
  <2>2. CASE y \in had[a]
    <3>1. y \in had[b] \/ y \in mined[a] \/ y \in dropped[a][b] \/ Underway(a, b, y)
      BY <2>2, InvNow
    <3>2. /\ had[b] \subseteq had'[b] /\ mined[a] \subseteq mined'[a]
          /\ dropped[a][b] \subseteq dropped'[a][b] /\ t \in had'[n]
      BY <1>4, <1>5, <1>12, <2>1
    <3>3. Underway(a, b, y) => UnderwayThen(a, b, y) \/ (b = n /\ y = t)
      BY <1>14, <2>1
    <3> QED
      BY <3>1, <3>2, <3>3
  <2>3. CASE a = n /\ y = t
    <3>1. CASE b \in room
      BY <1>14, <2>1, <2>3, <3>1
    <3>2. CASE b \in ask \ room
      BY <1>12, <2>1, <2>3, <3>2
    <3>3. CASE b = m
      BY <1>5, <1>7, <3>3, <2>3
    <3>4. CASE t \in known[n][b]
      <4>1. t \in had[b] \/ t \in mined[n] \/ Underway(n, b, t)
        BY <1>3, <2>3, <3>4, InvNow
      <4>2. Underway(n, b, t) => UnderwayThen(n, b, t) \/ b = n
        BY <1>3, <1>14, <2>1
      <4>3. had[b] \subseteq had'[b] /\ t \in had'[n] /\ mined' = mined
        BY <1>4, <1>5, <2>1
      <4> QED
        BY <2>3, <4>1, <4>2, <4>3
    <3> QED
      BY <1>8, <2>3, <3>1, <3>2, <3>3, <3>4
  <2> QED
    BY <1>5, <2>2, <2>3
<1> QED
  BY <1>15, <1>16, <1>17, <1>18, <1>19, <1>20, InvThen

-----------------------------------------------------------------------------
LEMMA StepInv ==
    ASSUME GossipAssumption, IInv, [GossipNext]_gossipVars
    PROVE  IInv'
<1>1. CASE UNCHANGED gossipVars
  <2>1. TypeOK'
    BY <1>1 DEF IInv, TypeOK, gossipVars
  <2>2. \A a, b \in Nodes : \A y \in Txs : UnderwayThen(a, b, y) <=> Underway(a, b, y)
    BY <1>1, UnderwayNow DEF gossipVars, UnderwayThen
  <2> QED
    BY <1>1, <2>1, <2>2, InvNow, InvThen DEF gossipVars
<1>2. CASE GossipNext
  BY <1>2, AnnounceInv, HandleInvInv, HandleGetDataInv, HandleTxInv, SubmitInv, MineInv
  DEF GossipNext, Handle
<1> QED
  BY <1>1, <1>2

\* When all is quiet, the nodes that were given a transaction are closed under
\* Peers, unless it was mined or dropped; the network is connected.
LEMMA InvImpliesSound ==
    ASSUME GossipAssumption, IInv
    PROVE  GossipSound
<1> SUFFICES ASSUME \A n, m \in Nodes : wire[n][m] = <<>> /\ waiting[n][m] = <<>>,
                    NEW t \in had[Origin],
                    \A n, m \in Nodes : t \notin mined[n] /\ t \notin dropped[n][m]
             PROVE  \A m \in Nodes : t \in had[m]
  BY DEF GossipSound, SettledSpread, IInv
<1> DEFINE S == {m \in Nodes : t \in had[m]}
<1>1. Origin \in S /\ S \in SUBSET Nodes
  BY DEF GossipAssumption
<1>2. \A n, m \in Nodes : ~Underway(n, m, t)
  <2>1. \A n, m \in Nodes : DOMAIN wire[n][m] = {} /\ DOMAIN waiting[n][m] = {}
    OBVIOUS
  <2> QED
    BY <2>1, Zenon DEF Underway, Coming, In
<1>3. ASSUME NEW n \in S, NEW m \in Nodes \ S, {n, m} \in Peered
      PROVE  FALSE
  <2>1. m \in Peers(n) /\ n \in Nodes /\ t \in had[n] /\ t \notin had[m]
    BY <1>3 DEF Peers
  <2> QED
    BY <1>2, <2>1, InvNow
<1> HIDE DEF S
<1>4. S = Nodes
  BY <1>1, <1>3 DEF GossipAssumption
<1> QED
  BY <1>4 DEF S

\* p2pprotocol: a peer marked as knowing a transaction gets it, and once nothing
\* is on its way every node was given it, but for a drop or a block, in every
\* connected network and whatever the queues and knownTxs hold.
THEOREM GossipReaches ==
    ASSUME GossipAssumption
    PROVE  GossipSpec => []GossipSound
<1>1. GossipInit => IInv
  BY InitInv
<1>2. IInv /\ [GossipNext]_gossipVars => IInv'
  BY StepInv
<1>3. IInv => GossipSound
  BY InvImpliesSound
<1> QED
  BY <1>1, <1>2, <1>3, PTL DEF GossipSpec
=============================================================================
