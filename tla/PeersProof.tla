----------------------------- MODULE PeersProof -----------------------------
(***************************************************************************)
(* Proofs about what a node does with its peers: the relay of transactions *)
(* to new ones (TxSync), for any number of connections, remote nodes and   *)
(* transactions and any size of a pack, and the set of peers (PeerSet),    *)
(* for any number of connections and remote nodes.                         *)
(***************************************************************************)
EXTENDS TxSync, PeerSet, SequenceTheorems, FiniteSetTheorems, TLAPS

-----------------------------------------------------------------------------
(* The relay to new peers.  NothingForgotten is not inductive: it must be  *)
(* known whose sync the loop keeps and whose pack is on its way.  Both     *)
(* belong to connections that have handed over what they had to relay; the *)
(* sync kept for an id is of a connection of that node; while nothing is   *)
(* sent nothing is kept; and a report of failure is about a connection     *)
(* that is broken.                                                         *)

Syncs == [p : Conns \cup {None}, txs : Seq(Txs)]

SyncTypeOK ==
    /\ mempool \in SUBSET Txs /\ IsFiniteSet(mempool)
    /\ phase \in [Conns -> {"new", "offering", "synced"}]
    /\ offer \in [Conns -> Seq(Txs)]
    /\ hungUp \in SUBSET Conns
    /\ pending \in [Ids -> Syncs]
    /\ sending \in BOOLEAN
    /\ pack \in Syncs
    /\ done \in {"none", "ok", "failed"}
    /\ announced \in [Conns -> Seq(Txs)]

\* The sync kept for an id is of a connection of that node.
PendingOwned ==
    \A i \in Ids :
        /\ pending[i].p = None => pending[i] = NoSync
        /\ pending[i].p # None => IdOf[pending[i].p] = i /\ phase[pending[i].p] = "synced"

\* What is sent, and when something is.
SendSound ==
    /\ done # "none" => sending
    /\ sending => pack.p \in Conns /\ phase[pack.p] = "synced"
    /\ ~sending => \A i \in Ids : pending[i] = NoSync
    /\ done = "failed" => pack.p \in hungUp

\* A connection is announced nothing before its sync is taken.
NotYet == \A c \in Conns : phase[c] # "synced" => announced[c] = <<>>

InPack(c) == IF sending /\ done = "none" /\ pack.p = c THEN pack.txs ELSE <<>>

Rest(c) == IF pending[IdOf[c]].p = c THEN pending[IdOf[c]].txs ELSE <<>>

Kept(c) ==
    phase[c] = "synced" /\ c \notin hungUp /\ OnlyOfNode(c) =>
        announced[c] \o InPack(c) \o Rest(c) = offer[c]

SyncInv == SyncTypeOK /\ PendingOwned /\ SendSound /\ NotYet /\ \A c \in Conns : Kept(c)

LEMMA KeptIsNothingForgotten == NothingForgotten <=> \A c \in Conns : Kept(c)
BY DEF NothingForgotten, Kept, InPack, Rest

LEMMA NoSyncType == NoSync \in Syncs /\ NoSync.p = None /\ NoSync.txs = <<>>
BY DEF NoSync, Sync, Syncs

\* What a sync holds is split into the pack and the rest.
LEMMA Split ==
    ASSUME NEW s \in Seq(Txs), NEW n \in 0 .. Len(s)
    PROVE  /\ SubSeq(s, 1, n) \in Seq(Txs) /\ SubSeq(s, n + 1, Len(s)) \in Seq(Txs)
           /\ SubSeq(s, 1, n) \o SubSeq(s, n + 1, Len(s)) = s
<1>1. Len(s) \in Nat /\ \A i \in 1 .. Len(s) : s[i] \in Txs
  OBVIOUS
<1>2. SubSeq(s, 1, n) \in Seq(Txs) /\ SubSeq(s, n + 1, Len(s)) \in Seq(Txs)
  <2>1. \A i \in 1 .. n : s[i] \in Txs
    BY <1>1
  <2>2. \A i \in n + 1 .. Len(s) : s[i] \in Txs
    BY <1>1
  <2>3. 1 \in Int /\ n \in Int /\ n + 1 \in Int /\ Len(s) \in Int
    BY <1>1
  <2> QED
    BY <2>1, <2>2, <2>3, SubSeqProperties
<1>3. 1 \in 1 .. Len(s) + 1 /\ n \in 1 - 1 .. Len(s) /\ Len(s) \in n .. Len(s)
  BY <1>1
<1>4. SubSeq(s, 1, n) \o SubSeq(s, n + 1, Len(s)) = SubSeq(s, 1, Len(s))
  BY <1>3, ConcatAdjacentSubSeq
<1> QED
  BY <1>2, <1>4, SubSeqFull

\* send: the pack and what is left of the sync make up the sync.
LEMMA SendPackSplits ==
    ASSUME NEW P \in [Ids -> Syncs], NEW s \in Syncs, s.p \in Conns, SendPack(P, s)
    PROVE  /\ sending' = TRUE /\ pack' \in Syncs /\ pack'.p = s.p
           /\ pending' \in [Ids -> Syncs]
           /\ \A i \in Ids : i # IdOf[s.p] => pending'[i] = P[i]
           /\ \/ pending'[IdOf[s.p]] = NoSync /\ pack'.txs = s.txs
              \/ /\ pending'[IdOf[s.p]].p = s.p
                 /\ pack'.txs \o pending'[IdOf[s.p]].txs = s.txs
<1> DEFINE n == SmallerOf(PackSize, Len(s.txs))
           rest == SubSeq(s.txs, n + 1, Len(s.txs))
           q == IF rest = <<>> THEN NoSync ELSE Sync(s.p, rest)
<1>1. s.txs \in Seq(Txs) /\ Len(s.txs) \in Nat /\ IdOf[s.p] \in Ids
  BY SyncAssumption DEF Syncs
<1>2. n \in 0 .. Len(s.txs)
  BY <1>1, SyncAssumption DEF SmallerOf
<1>3. SubSeq(s.txs, 1, n) \in Seq(Txs) /\ rest \in Seq(Txs) /\ SubSeq(s.txs, 1, n) \o rest = s.txs
  BY <1>1, <1>2, Split
<1>4. pack' = Sync(s.p, SubSeq(s.txs, 1, n)) /\ pending' = [P EXCEPT ![IdOf[s.p]] = q] /\ sending' = TRUE
  BY DEF SendPack
<1> HIDE DEF n, rest
<1>5. pack' \in Syncs /\ pack'.p = s.p /\ pack'.txs = SubSeq(s.txs, 1, n)
  BY <1>3, <1>4 DEF Sync, Syncs
<1>6. q \in Syncs
  BY <1>3, NoSyncType DEF Sync, Syncs
<1>7. pending' \in [Ids -> Syncs] /\ \A i \in Ids : i # IdOf[s.p] => pending'[i] = P[i]
  BY <1>4, <1>6
<1>8. pending'[IdOf[s.p]] = q
  BY <1>1, <1>4
<1>9. CASE rest = <<>>
  <2>1. pack'.txs = s.txs
    BY <1>3, <1>5, <1>9, ConcatEmptySeq
  <2> QED
    BY <1>4, <1>5, <1>7, <1>8, <1>9, <2>1
<1>10. CASE rest # <<>>
  <2>1. q.p = s.p /\ q.txs = rest
    BY <1>10 DEF Sync
  <2> QED
    BY <1>3, <1>4, <1>5, <1>7, <1>8, <2>1
<1> QED
  BY <1>9, <1>10

LEMMA SyncInit == Init => SyncInv
<1> SUFFICES ASSUME Init PROVE SyncInv
  OBVIOUS
<1>1. SyncTypeOK
  <2>1. IsFiniteSet({}) /\ <<>> \in Seq(Txs)
    BY FS_EmptySet
  <2> QED
    BY <2>1, NoSyncType DEF Init, SyncTypeOK
<1>2. PendingOwned /\ SendSound /\ NotYet /\ \A c \in Conns : Kept(c)
  BY NoSyncType DEF Init, PendingOwned, SendSound, NotYet, Kept
<1> QED
  BY <1>1, <1>2 DEF SyncInv

-----------------------------------------------------------------------------
\* syncTransactions: what it may offer, and nothing when nothing is pooled.
LEMMA OfferType ==
    ASSUME SyncTypeOK, NEW s \in SetToSeqs(mempool)
    PROVE  s \in Seq(Txs) /\ (mempool = {} => s = <<>>)
<1>1. Cardinality(mempool) \in Nat
  BY FS_CardinalityType DEF SyncTypeOK
<1>2. s \in [1 .. Cardinality(mempool) -> mempool]
  BY DEF SetToSeqs
<1>3. s \in Seq(mempool)
  BY <1>1, <1>2
<1>4. s \in Seq(Txs)
  <2>1. mempool \subseteq Txs
    BY DEF SyncTypeOK
  <2>2. s \in [1 .. Cardinality(mempool) -> Txs]
    BY <1>2, <2>1
  <2> QED
    BY <1>1, <2>2
<1>5. ASSUME mempool = {} PROVE s = <<>>
  <2>1. Len(s) = 0
    BY <1>1, <1>2, <1>5, FS_EmptySet
  <2> QED
    BY <1>4, <2>1
<1> QED
  BY <1>4, <1>5

LEMMA SyncTransactionsInv ==
    ASSUME SyncInv, NEW c \in Conns, SyncTransactions(c)
    PROVE  SyncInv'
<1>1. PICK s \in SetToSeqs(mempool) : offer' = [offer EXCEPT ![c] = s]
  BY DEF SyncTransactions
<1>2. s \in Seq(Txs) /\ (mempool = {} => s = <<>>)
  BY OfferType DEF SyncInv
<1>3. /\ phase[c] = "new"
      /\ phase' = [phase EXCEPT ![c] = IF mempool = {} THEN "synced" ELSE "offering"]
      /\ UNCHANGED <<mempool, hungUp, pending, sending, pack, done, announced>>
  BY DEF SyncTransactions
<1>4. SyncTypeOK'
  BY <1>1, <1>2, <1>3 DEF SyncInv, SyncTypeOK
<1>5. PendingOwned' /\ SendSound'
  BY <1>3, SyncAssumption DEF SyncInv, SyncTypeOK, PendingOwned, SendSound, Syncs
<1>6. NotYet'
  BY <1>3 DEF SyncInv, SyncTypeOK, NotYet
<1>7. ASSUME NEW d \in Conns PROVE Kept(d)'
  <2>1. InPack(d)' = InPack(d) /\ Rest(d)' = Rest(d) /\ announced'[d] = announced[d]
    BY <1>3 DEF InPack, Rest
  <2>2. CASE d = c
    <3>1. announced[c] = <<>>
      BY <1>3 DEF SyncInv, NotYet
    <3>2. InPack(c) = <<>> /\ Rest(c) = <<>>
      <4>1. pack.p # c \/ ~sending
        BY <1>3 DEF SyncInv, SendSound
      <4>2. IdOf[c] \in Ids /\ c # None
        BY SyncAssumption
      <4>3. pending[IdOf[c]].p # c
        BY <1>3, <4>2 DEF SyncInv, PendingOwned
      <4> QED
        BY <4>1, <4>3 DEF InPack, Rest
    <3>3. phase'[c] = "synced" => offer'[c] = <<>>
      BY <1>1, <1>2, <1>3 DEF SyncInv, SyncTypeOK
    <3>4. <<>> \o <<>> \o <<>> = <<>>
      BY EmptySeq, ConcatEmptySeq
    <3> QED
      BY <2>1, <2>2, <3>1, <3>2, <3>3, <3>4 DEF Kept
  <2>3. CASE d # c
    <3>1. offer'[d] = offer[d] /\ phase'[d] = phase[d]
      BY <1>1, <1>3, <2>3 DEF SyncInv, SyncTypeOK
    <3>2. OnlyOfNode(d)' => OnlyOfNode(d)
      BY <1>3 DEF SyncInv, SyncTypeOK, OnlyOfNode
    <3> QED
      BY <1>3, <2>1, <3>1, <3>2 DEF SyncInv, Kept
  <2> QED
    BY <2>2, <2>3
<1> QED
  BY <1>4, <1>5, <1>6, <1>7 DEF SyncInv

\* The loop takes a sync.  It is kept for its id, or its first pack is sent;
\* another connection of that node has had its turn before.
LEMMA ReceiveInv ==
    ASSUME SyncInv, NEW c \in Conns, Receive(c)
    PROVE  SyncInv'
<1> DEFINE s == Sync(c, offer[c])
           P == [pending EXCEPT ![IdOf[c]] = s]
<1>1. /\ phase[c] = "offering" /\ phase' = [phase EXCEPT ![c] = "synced"]
      /\ IF sending THEN pending' = P /\ UNCHANGED <<sending, pack>> ELSE SendPack(P, s)
      /\ UNCHANGED <<mempool, offer, hungUp, done, announced>>
  BY DEF Receive
<1>2. IdOf[c] \in Ids /\ offer[c] \in Seq(Txs) /\ c # None
  BY SyncAssumption DEF SyncInv, SyncTypeOK
<1>3. s \in Syncs /\ s.p = c /\ s.txs = offer[c]
  BY <1>2 DEF Sync, Syncs
<1> HIDE DEF s
<1>4. P \in [Ids -> Syncs] /\ P[IdOf[c]] = s /\ \A i \in Ids : i # IdOf[c] => P[i] = pending[i]
  BY <1>2, <1>3 DEF SyncInv, SyncTypeOK
<1> HIDE DEF P
<1>5. announced[c] = <<>>
  BY <1>1 DEF SyncInv, NotYet
<1>6. \A d \in Conns : phase'[d] = IF d = c THEN "synced" ELSE phase[d]
  BY <1>1 DEF SyncInv, SyncTypeOK
<1>7. \A d \in Conns : d # c /\ IdOf[d] = IdOf[c] => ~OnlyOfNode(d)'
  BY <1>6 DEF OnlyOfNode
<1>8. \A d \in Conns : OnlyOfNode(d)' => OnlyOfNode(d) \/ IdOf[d] = IdOf[c]
  BY <1>6 DEF OnlyOfNode
<1>9. CASE sending
  <2>1. pending' = P /\ sending' = TRUE /\ pack' = pack
    BY <1>1, <1>9 DEF SyncInv, SyncTypeOK
  <2>2. SyncTypeOK'
    BY <1>1, <1>4, <2>1 DEF SyncInv, SyncTypeOK
  <2>3. PendingOwned'
    <3>1. \A i \in Ids : i # IdOf[c] => pending'[i] = pending[i]
      BY <1>4, <2>1
    <3>2. pending'[IdOf[c]] = s
      BY <1>4, <2>1
    <3>3. \A i \in Ids : pending[i].p = None \/ pending[i].p \in Conns
      BY DEF SyncInv, SyncTypeOK, Syncs
    <3> QED
      BY <1>2, <1>3, <1>6, <3>1, <3>2, <3>3 DEF SyncInv, PendingOwned
  <2>4. SendSound' /\ NotYet'
    BY <1>1, <1>6, <1>9, <2>1 DEF SyncInv, SendSound, NotYet
  <2>5. ASSUME NEW d \in Conns PROVE Kept(d)'
    <3>1. CASE d = c
      <4>1. InPack(c)' = <<>> /\ Rest(c)' = offer[c]
        BY <1>1, <1>3, <1>4, <1>9, <2>1 DEF SyncInv, SendSound, InPack, Rest
      <4>2. <<>> \o <<>> \o offer[c] = offer[c]
        BY <1>2, EmptySeq, ConcatEmptySeq
      <4> QED
        BY <1>1, <1>5, <3>1, <4>1, <4>2 DEF Kept
    <3>2. CASE d # c /\ IdOf[d] = IdOf[c]
      BY <1>7, <3>2 DEF Kept
    <3>3. CASE IdOf[d] # IdOf[c]
      <4>1. IdOf[d] \in Ids
        BY SyncAssumption
      <4>2. InPack(d)' = InPack(d) /\ Rest(d)' = Rest(d)
        BY <1>1, <1>4, <1>9, <2>1, <3>3, <4>1 DEF InPack, Rest
      <4> QED
        BY <1>1, <1>6, <1>8, <3>3, <4>2 DEF SyncInv, Kept
    <3> QED
      BY <3>1, <3>2, <3>3
  <2> QED
    BY <2>2, <2>3, <2>4, <2>5 DEF SyncInv
<1>10. CASE ~sending
  <2>1. SendPack(P, s)
    BY <1>1, <1>10
  <2>2. /\ sending' = TRUE /\ pack' \in Syncs /\ pack'.p = c
        /\ pending' \in [Ids -> Syncs]
        /\ \A i \in Ids : i # IdOf[c] => pending'[i] = P[i]
        /\ \/ pending'[IdOf[c]] = NoSync /\ pack'.txs = offer[c]
           \/ /\ pending'[IdOf[c]].p = c
              /\ pack'.txs \o pending'[IdOf[c]].txs = offer[c]
    BY <1>3, <1>4, <2>1, SendPackSplits
  <2>3. done = "none" /\ \A i \in Ids : pending[i] = NoSync
    BY <1>10 DEF SyncInv, SyncTypeOK, SendSound
  <2>4. SyncTypeOK'
    BY <1>1, <2>2 DEF SyncInv, SyncTypeOK
  <2>5. PendingOwned'
    <3> SUFFICES ASSUME NEW i \in Ids
                 PROVE  /\ pending'[i].p = None => pending'[i] = NoSync
                        /\ pending'[i].p # None =>
                              IdOf[pending'[i].p] = i /\ phase'[pending'[i].p] = "synced"
      BY DEF PendingOwned
    <3>1. CASE i = IdOf[c]
      BY <1>2, <1>6, <2>2, <3>1, NoSyncType
    <3>2. CASE i # IdOf[c]
      BY <1>4, <2>2, <2>3, <3>2, NoSyncType
    <3> QED
      BY <3>1, <3>2
  <2>6. SendSound' /\ NotYet'
    BY <1>1, <1>6, <2>2, <2>3 DEF SyncInv, SendSound, NotYet
  <2>7. ASSUME NEW d \in Conns PROVE Kept(d)'
    <3>1. CASE d = c
      <4>1. InPack(c)' = pack'.txs /\ pack'.txs \in Seq(Txs)
        BY <1>1, <2>2, <2>3 DEF InPack, Syncs
      <4>2. pack'.txs \o Rest(c)' = offer[c]
        BY <1>2, <2>2, <4>1, NoSyncType, ConcatEmptySeq DEF Rest
      <4>3. <<>> \o pack'.txs = pack'.txs
        BY <4>1, ConcatEmptySeq
      <4> QED
        BY <1>1, <1>5, <3>1, <4>1, <4>2, <4>3 DEF Kept
    <3>2. CASE d # c /\ IdOf[d] = IdOf[c]
      BY <1>7, <3>2 DEF Kept
    <3>3. CASE IdOf[d] # IdOf[c]
      <4>1. IdOf[d] \in Ids /\ d # c
        BY <3>3, SyncAssumption
      <4>2. InPack(d)' = InPack(d) /\ Rest(d)' = Rest(d)
        BY <1>4, <1>10, <2>2, <3>3, <4>1 DEF InPack, Rest
      <4> QED
        BY <1>1, <1>6, <1>8, <3>3, <4>1, <4>2 DEF SyncInv, Kept
    <3> QED
      BY <3>1, <3>2, <3>3
  <2> QED
    BY <2>4, <2>5, <2>6, <2>7 DEF SyncInv
<1> QED
  BY <1>9, <1>10

\* The goroutine sends the pack, or finds the connection broken.
LEMMA SendTransactionsInv ==
    ASSUME SyncInv, SendTransactions
    PROVE  SyncInv'
<1> DEFINE c == pack.p
<1>1. sending /\ done = "none" /\ UNCHANGED <<mempool, phase, offer, hungUp, pending, sending, pack>>
  BY DEF SendTransactions
<1>2. c \in Conns /\ phase[c] = "synced" /\ pack.txs \in Seq(Txs) /\ IdOf[c] \in Ids
  BY <1>1, SyncAssumption DEF SyncInv, SyncTypeOK, SendSound, Syncs
<1>3. /\ c \in hungUp => done' = "failed" /\ announced' = announced
      /\ c \notin hungUp => done' = "ok" /\ announced' = [announced EXCEPT ![c] = announced[c] \o pack.txs]
  BY DEF SendTransactions
<1> HIDE DEF c
<1>4. announced[c] \in Seq(Txs) /\ announced[c] \o pack.txs \in Seq(Txs)
  BY <1>2, ConcatProperties DEF SyncInv, SyncTypeOK
<1>5. SyncTypeOK'
  BY <1>1, <1>3, <1>4 DEF SyncInv, SyncTypeOK
<1>6. PendingOwned' /\ SendSound'
  BY <1>1, <1>3 DEF SyncInv, PendingOwned, SendSound, c
<1>7. NotYet'
  BY <1>1, <1>2, <1>3 DEF SyncInv, SyncTypeOK, NotYet
<1>8. ASSUME NEW d \in Conns PROVE Kept(d)'
  <2>1. InPack(d)' = <<>> /\ Rest(d)' = Rest(d) /\ (OnlyOfNode(d)' <=> OnlyOfNode(d))
    BY <1>1, <1>3 DEF InPack, Rest, OnlyOfNode
  <2>2. Rest(d) \in Seq(Txs) /\ announced[d] \in Seq(Txs) /\ <<>> \in Seq(Txs)
    BY SyncAssumption DEF SyncInv, SyncTypeOK, Syncs, Rest
  <2>3. CASE d = c /\ c \notin hungUp
    <3>1. InPack(c) = pack.txs
      BY <1>1 DEF InPack, c
    <3>2. announced'[c] = announced[c] \o pack.txs
      BY <1>2, <1>3, <2>3 DEF SyncInv, SyncTypeOK
    <3>3. announced'[c] \o <<>> = announced[c] \o pack.txs
      BY <1>4, <3>2, ConcatEmptySeq
    <3> QED
      BY <1>1, <2>1, <2>3, <3>1, <3>3 DEF SyncInv, Kept
  <2>4. CASE d = c /\ c \in hungUp
    BY <1>1, <2>4 DEF Kept
  <2>5. CASE d # c
    <3>1. InPack(d) = <<>> /\ announced'[d] = announced[d]
      BY <1>3, <2>5 DEF InPack, SyncInv, SyncTypeOK, c
    <3> QED
      BY <1>1, <2>1, <3>1 DEF SyncInv, Kept
  <2> QED
    BY <2>3, <2>4, <2>5
<1> QED
  BY <1>5, <1>6, <1>7, <1>8 DEF SyncInv

\* The loop takes the report.  Forgetting a failed peer by its id forgets no
\* other connection whose turn it is; the next pack comes off what is kept.
LEMMA DoneInv ==
    ASSUME SyncInv, Done
    PROVE  SyncInv'
<1> DEFINE P == IF done = "failed" THEN [pending EXCEPT ![IdOf[pack.p]] = NoSync] ELSE pending
           left == {i \in Ids : P[i] # NoSync}
<1>1. /\ done # "none" /\ done' = "none"
      /\ IF left = {} THEN pending' = P /\ sending' = FALSE /\ UNCHANGED pack
         ELSE \E i \in left : SendPack(P, P[i])
      /\ UNCHANGED <<mempool, phase, offer, hungUp, announced>>
  BY DEF Done
<1>2. sending /\ pack.p \in Conns /\ phase[pack.p] = "synced" /\ IdOf[pack.p] \in Ids
  BY <1>1, SyncAssumption DEF SyncInv, SendSound
<1>3. P \in [Ids -> Syncs] /\ \A i \in Ids : P[i] = pending[i] \/ P[i] = NoSync
  BY NoSyncType DEF SyncInv, SyncTypeOK
<1>4. \A i \in Ids : P[i] # pending[i] => done = "failed" /\ i = IdOf[pack.p]
  BY DEF SyncInv, SyncTypeOK
<1> HIDE DEF P
<1> DEFINE RestP(d) == IF P[IdOf[d]].p = d THEN P[IdOf[d]].txs ELSE <<>>
<1>5. \A d \in Conns : InPack(d) = <<>>
  BY <1>1 DEF InPack
<1>6. ASSUME NEW d \in Conns, phase[d] = "synced", d \notin hungUp, OnlyOfNode(d)
      PROVE  announced[d] \o RestP(d) = offer[d]
  <2>1. IdOf[d] \in Ids /\ announced[d] \in Seq(Txs)
    BY SyncAssumption DEF SyncInv, SyncTypeOK
  <2>2. P[IdOf[d]] = pending[IdOf[d]]
    <3> SUFFICES ASSUME P[IdOf[d]] # pending[IdOf[d]] PROVE FALSE
      OBVIOUS
    <3>1. done = "failed" /\ IdOf[d] = IdOf[pack.p]
      BY <1>4, <2>1
    <3>2. d # pack.p
      BY <1>6, <3>1 DEF SyncInv, SendSound
    <3> QED
      BY <1>2, <1>6, <3>1, <3>2 DEF OnlyOfNode
  <2>3. RestP(d) = Rest(d)
    BY <2>2 DEF Rest
  <2>4. announced[d] \o <<>> \o Rest(d) = offer[d]
    BY <1>5, <1>6 DEF SyncInv, Kept
  <2> QED
    BY <2>1, <2>3, <2>4, ConcatEmptySeq
<1>7. \A i \in Ids : /\ P[i].p = None => P[i] = NoSync
                     /\ P[i].p # None => P[i].p \in Conns /\ IdOf[P[i].p] = i /\ phase[P[i].p] = "synced"
  <2>1. \A i \in Ids : pending[i].p \in Conns \cup {None}
    BY DEF SyncInv, SyncTypeOK, Syncs
  <2> QED
    BY <1>3, <2>1, NoSyncType DEF SyncInv, PendingOwned
<1>8. NotYet' /\ \A d \in Conns : OnlyOfNode(d)' <=> OnlyOfNode(d)
  BY <1>1 DEF SyncInv, NotYet, OnlyOfNode
<1>9. CASE left = {}
  <2>1. pending' = P /\ sending' = FALSE /\ pack' = pack
    BY <1>1, <1>9
  <2>2. \A i \in Ids : P[i] = NoSync
    BY <1>9
  <2>3. SyncTypeOK'
    BY <1>1, <1>3, <2>1 DEF SyncInv, SyncTypeOK
  <2>4. PendingOwned' /\ SendSound'
    BY <1>1, <2>1, <2>2, NoSyncType DEF PendingOwned, SendSound
  <2>5. ASSUME NEW d \in Conns PROVE Kept(d)'
    <3>1. InPack(d)' = <<>> /\ Rest(d)' = RestP(d) /\ announced[d] \in Seq(Txs)
      BY <1>1, <2>1 DEF InPack, Rest, SyncInv, SyncTypeOK
    <3>2. announced[d] \o <<>> = announced[d]
      BY <3>1, ConcatEmptySeq
    <3> QED
      BY <1>1, <1>6, <1>8, <3>1, <3>2 DEF Kept
  <2> QED
    BY <1>8, <2>3, <2>4, <2>5 DEF SyncInv
<1>10. CASE left # {}
  <2>1. PICK i \in left : SendPack(P, P[i])
    BY <1>1, <1>10
  <2> DEFINE e == P[i].p
  <2>2. i \in Ids /\ P[i] \in Syncs /\ e \in Conns /\ IdOf[e] = i /\ phase[e] = "synced"
    BY <1>3, <1>7, <2>1
  <2>3. /\ sending' = TRUE /\ pack' \in Syncs /\ pack'.p = e
        /\ pending' \in [Ids -> Syncs]
        /\ \A j \in Ids : j # i => pending'[j] = P[j]
        /\ \/ pending'[i] = NoSync /\ pack'.txs = P[i].txs
           \/ /\ pending'[i].p = e
              /\ pack'.txs \o pending'[i].txs = P[i].txs
    BY <1>3, <2>1, <2>2, SendPackSplits
  <2> HIDE DEF left, e
  <2>4. SyncTypeOK'
    BY <1>1, <2>3 DEF SyncInv, SyncTypeOK
  <2>5. PendingOwned'
    <3>1. \A j \in Ids : j # i => /\ pending'[j].p = None => pending'[j] = NoSync
                                  /\ pending'[j].p # None =>
                                        IdOf[pending'[j].p] = j /\ phase'[pending'[j].p] = "synced"
      BY <1>1, <1>7, <2>3
    <3>2. /\ pending'[i].p = None => pending'[i] = NoSync
          /\ pending'[i].p # None => IdOf[pending'[i].p] = i /\ phase'[pending'[i].p] = "synced"
      BY <1>1, <2>2, <2>3, NoSyncType, SyncAssumption
    <3> QED
      BY <3>1, <3>2 DEF PendingOwned
  <2>6. SendSound'
    BY <1>1, <2>2, <2>3 DEF SendSound
  <2>7. ASSUME NEW d \in Conns PROVE Kept(d)'
    <3>1. announced[d] \in Seq(Txs) /\ IdOf[d] \in Ids
      BY SyncAssumption DEF SyncInv, SyncTypeOK
    <3>2. CASE d = e
      <4>1. InPack(d)' = pack'.txs /\ pack'.txs \in Seq(Txs) /\ RestP(d) = P[i].txs
        BY <1>1, <2>2, <2>3, <3>2 DEF InPack, Syncs, e
      <4>2. Rest(d)' \in Seq(Txs) /\ pack'.txs \o Rest(d)' = P[i].txs
        <5>1. CASE pending'[i] = NoSync /\ pack'.txs = P[i].txs
          <6>1. Rest(d)' = <<>>
            BY <2>2, <3>2, <5>1, NoSyncType, SyncAssumption DEF Rest
          <6> QED
            BY <4>1, <5>1, <6>1, ConcatEmptySeq, EmptySeq
        <5>2. CASE pending'[i].p = e /\ pack'.txs \o pending'[i].txs = P[i].txs
          <6>1. Rest(d)' = pending'[i].txs /\ pending'[i].txs \in Seq(Txs)
            BY <2>2, <2>3, <3>2, <5>2 DEF Rest, Syncs
          <6> QED
            BY <5>2, <6>1
        <5> QED
          BY <2>3, <5>1, <5>2
      <4>3. (announced[d] \o pack'.txs) \o Rest(d)' = announced[d] \o (pack'.txs \o Rest(d)')
        <5>1. \A s, t, u \in Seq(Txs) : (s \o t) \o u = s \o (t \o u)
          BY ConcatAssociative
        <5> QED
          BY <3>1, <4>1, <4>2, <5>1, Zenon
      <4>4. phase[d] = "synced" /\ d \notin hungUp /\ OnlyOfNode(d) => announced[d] \o P[i].txs = offer[d]
        BY <1>6, <4>1
      <4>5. (announced[d] \o InPack(d)') \o Rest(d)' = announced[d] \o P[i].txs
        BY <4>1, <4>2, <4>3
      <4> QED
        BY <1>1, <1>8, <4>4, <4>5 DEF Kept
    <3>3. CASE d # e
      <4>1. InPack(d)' = <<>>
        BY <2>3, <3>3 DEF InPack
      <4>2. Rest(d)' = RestP(d)
        <5>1. CASE IdOf[d] = i
          <6>1. pending'[i].p # d /\ P[i].p # d
            BY <2>3, <3>3, NoSyncType, SyncAssumption DEF e
          <6> QED
            BY <5>1, <6>1 DEF Rest
        <5>2. CASE IdOf[d] # i
          BY <2>3, <3>1, <5>2 DEF Rest
        <5> QED
          BY <5>1, <5>2
      <4>3. announced[d] \o <<>> = announced[d]
        BY <3>1, ConcatEmptySeq
      <4> QED
        BY <1>1, <1>6, <1>8, <4>1, <4>2, <4>3 DEF Kept
    <3> QED
      BY <3>2, <3>3
  <2> QED
    BY <1>8, <2>4, <2>5, <2>6, <2>7 DEF SyncInv
<1> QED
  BY <1>9, <1>10

LEMMA SyncStep == SyncInv /\ [Next]_vars => SyncInv'
<1> SUFFICES ASSUME SyncInv, [Next]_vars PROVE SyncInv'
  OBVIOUS
<1>1. CASE UNCHANGED vars
  BY <1>1 DEF vars, SyncInv, SyncTypeOK, PendingOwned, SendSound, NotYet, Kept, InPack, Rest, OnlyOfNode
<1>2. ASSUME NEW t \in Txs, Pool(t) PROVE SyncInv'
  <2>1. SyncTypeOK'
    BY <1>2, FS_AddElement DEF SyncInv, SyncTypeOK, Pool
  <2>2. UNCHANGED <<phase, offer, hungUp, pending, sending, pack, done, announced>>
    BY <1>2 DEF Pool
  <2>3. PendingOwned' /\ SendSound' /\ NotYet'
    BY <2>2 DEF SyncInv, PendingOwned, SendSound, NotYet
  <2>4. \A c \in Conns : Kept(c)'
    BY <2>2 DEF SyncInv, Kept, InPack, Rest, OnlyOfNode
  <2> QED
    BY <2>1, <2>3, <2>4 DEF SyncInv
<1>3. ASSUME NEW c \in Conns, HangUp(c) PROVE SyncInv'
  <2>1. SyncTypeOK'
    BY <1>3 DEF SyncInv, SyncTypeOK, HangUp
  <2>2. /\ hungUp \subseteq hungUp'
        /\ UNCHANGED <<phase, offer, pending, sending, pack, done, announced>>
    BY <1>3 DEF HangUp
  <2>3. PendingOwned' /\ SendSound' /\ NotYet'
    BY <2>2 DEF SyncInv, PendingOwned, SendSound, NotYet
  <2>4. \A d \in Conns : Kept(d)'
    BY <2>2 DEF SyncInv, Kept, InPack, Rest, OnlyOfNode
  <2> QED
    BY <2>1, <2>3, <2>4 DEF SyncInv
<1> QED
  BY <1>1, <1>2, <1>3, SyncTransactionsInv, ReceiveInv, SendTransactionsInv, DoneInv DEF Next

\* txsyncLoop: of what the first connection of a node was to be relayed nothing
\* is lost, repeated or reordered, however many others come, fail and go.
THEOREM RelayLosesNothing == Spec => []NothingForgotten
<1>1. Init => SyncInv
  BY SyncInit
<1>2. SyncInv /\ [Next]_vars => SyncInv'
  BY SyncStep
<1>3. SyncInv => NothingForgotten
  BY KeptIsNothingForgotten DEF SyncInv
<1> QED
  BY <1>1, <1>2, <1>3, PTL DEF Spec

\* txsyncLoop: the pack the background goroutine reads is not overwritten.
THEOREM PackNotOverwritten == Spec => PackIsStable
<1>1. [Next]_vars => [sending /\ done = "none" => pack' = pack]_vars
  <2> SUFFICES ASSUME [Next]_vars, sending, done = "none" PROVE pack' = pack
    BY DEF vars
  <2> QED
    BY DEF Next, Pool, SyncTransactions, HangUp, Receive, SendTransactions, Done, vars
<1> QED
  BY <1>1, PTL DEF Spec, PackIsStable

-----------------------------------------------------------------------------
(* The set of peers.  PeersSound is not inductive: that Register finds its *)
(* id free, and that nobody registered has returned, rests on two facts    *)
(* about handlers.  A remote node has one handler at a time, and the peer  *)
(* registered for an id is a connection of that node whose handler is past *)
(* Register and has not returned.                                          *)

\* The p2p server runs one connection of a remote node at a time.
OneHandler ==
    \A c, d \in PeerConns :
        c # d /\ PeerIdOf[c] = PeerIdOf[d] /\ pc[c] \notin {"idle", "returned"}
            => pc[d] \in {"idle", "returned"}

\* Who is registered for an id is a connection of that node whose handler is
\* between Register and its end.
RegisteredAtWork ==
    \A i \in PeerIds : peers[i] # NoPeer =>
        /\ PeerIdOf[peers[i]] = i
        /\ pc[peers[i]] \in {"arming", "greeting", "reading", "removing"}

PeerSetInv == TypeOK /\ OneHandler /\ RegisteredAtWork /\ SendersAreStopped

LEMMA PeerSetInit ==
    ASSUME PeerSetAssumption, PeerInit
    PROVE  PeerSetInv
<1>1. TypeOK
  <2>1. target \in [PeerConns -> [Callers -> PeerConns \cup {NoPeer}]]
    BY DEF PeerInit
  <2>2. queued \in [PeerConns -> 0..MaxQueued]
    BY DEF PeerInit, PeerSetAssumption
  <2>3. term \in [PeerConns -> BOOLEAN] /\ panicked \in BOOLEAN
    BY DEF PeerInit
  <2> QED
    BY <2>1, <2>2, <2>3 DEF PeerInit, TypeOK, Places
<1>2. OneHandler /\ RegisteredAtWork /\ SendersAreStopped
  BY DEF PeerInit, OneHandler, RegisteredAtWork, SendersAreStopped
<1> QED
  BY <1>1, <1>2 DEF PeerSetInv

\* A connection that has a handler and is not registered finds its id free.
LEMMA InvImpliesSound ==
    ASSUME PeerSetAssumption, PeerSetInv
    PROVE  PeersSound
<1>1. RegisterSucceeds
  <2> SUFFICES ASSUME NEW c \in PeerConns, pc[c] = "registering", peers[PeerIdOf[c]] # NoPeer
               PROVE  FALSE
    BY DEF RegisterSucceeds
  <2> DEFINE d == peers[PeerIdOf[c]]
  <2>1. PeerIdOf[c] \in PeerIds /\ d \in PeerConns
    BY DEF PeerSetAssumption, PeerSetInv, TypeOK
  <2>2. PeerIdOf[d] = PeerIdOf[c] /\ pc[d] \in {"arming", "greeting", "reading", "removing"}
    BY <2>1 DEF PeerSetInv, RegisteredAtWork
  <2> QED
    BY <2>1, <2>2 DEF PeerSetInv, OneHandler
<1>2. NoGhosts
  BY DEF PeerSetInv, RegisteredAtWork, NoGhosts
<1> QED
  BY <1>1, <1>2 DEF PeersSound, PeerSetInv

\* The types, action by action.
LEMMA TypeStep ==
    ASSUME PeerSetAssumption, TypeOK, PeerNext
    PROVE  TypeOK'
<1> USE DEF PeerSetAssumption, TypeOK, At, Goto, Places
<1> PICK c \in PeerConns :
        \/ Connect(c) \/ Handler(c) \/ Answer(c) \/ PeerHangsUp(c) \/ TimeOut(c)
        \/ RemovePeer(c, "timer") \/ QueueTxs(c) \/ Broadcast(c)
  BY DEF PeerNext
<1>1. CASE Connect(c)
  BY <1>1 DEF Connect
<1>2. CASE OpenDb(c)
  BY <1>2 DEF OpenDb
<1>3. CASE Register(c)
  BY <1>3 DEF Register
<1>4. CASE ArmTimer(c)
  BY <1>4 DEF ArmTimer
<1>5. CASE Greet(c)
  BY <1>5 DEF Greet, CloseDb
<1>6. CASE Answer(c) \/ PeerHangsUp(c) \/ Leave(c) \/ TimeOut(c)
  BY <1>6 DEF Answer, PeerHangsUp, Leave, TimeOut, StopTimer
<1>7. ASSUME NEW k \in Callers, RemovePeer(c, k)
      PROVE  TypeOK'
  <2> USE DEF Finish, Callers
  <2>1. CASE RemoveNothing(c, k)
    BY <2>1 DEF RemoveNothing
  <2>2. CASE RemoveLookup(c, k)
    BY <2>2 DEF RemoveLookup
  <2>3. CASE RemoveUnregister(c, k)
    <3>1. peers' \in [PeerIds -> PeerConns \cup {NoPeer}]
      BY <2>3 DEF RemoveUnregister
    <3>2. term' \in [PeerConns -> BOOLEAN] /\ gone' \subseteq PeerConns
      BY <2>3 DEF RemoveUnregister
    <3>3. target' \in [PeerConns -> [Callers -> PeerConns \cup {NoPeer}]]
      BY <2>3 DEF RemoveUnregister
    <3>4. db' \in PeerConns \cup {NoPeer}
      BY <2>3 DEF RemoveUnregister, CloseDb
    <3>5. /\ pc' \in [PeerConns -> Places]
          /\ timer' \in [PeerConns -> {"off", "armed", "stopped", "fired", "done"}]
      BY <2>3 DEF RemoveUnregister
    <3>6. UNCHANGED <<queued, sender, panicked>>
      BY <2>3 DEF RemoveUnregister
    <3> QED
      BY <3>1, <3>2, <3>3, <3>4, <3>5, <3>6
  <2>4. CASE RemovePanics(c, k)
    BY <2>4 DEF RemovePanics
  <2> QED
    BY <1>7, <2>1, <2>2, <2>3, <2>4 DEF RemovePeer
<1>8. CASE QueueTxs(c)
  BY <1>8 DEF QueueTxs
<1>9. CASE SendQueued(c)
  <2>1. queued' \in [PeerConns -> 0..MaxQueued]
    BY <1>9 DEF SendQueued
  <2>2. sender' \in [PeerConns -> {"none", "running", "ended"}]
    BY <1>9 DEF SendQueued
  <2> QED
    BY <1>9, <2>1, <2>2 DEF SendQueued
<1>10. CASE SenderEnds(c)
  BY <1>10 DEF SenderEnds
<1> QED
  BY <1>1, <1>2, <1>3, <1>4, <1>5, <1>6, <1>7, <1>8, <1>9, <1>10
  DEF Handler, Broadcast, Callers

LEMMA PeerSetStep ==
    ASSUME PeerSetAssumption, PeerSetInv, [PeerNext]_peerVars
    PROVE  PeerSetInv'
<1>1. CASE UNCHANGED peerVars
  BY <1>1 DEF peerVars, PeerSetInv, TypeOK, OneHandler, RegisteredAtWork, SendersAreStopped
<1>2. CASE PeerNext
  <2>1. TypeOK'
    BY <1>2, TypeStep DEF PeerSetInv
  <2> USE DEF PeerSetAssumption, PeerSetInv, TypeOK, OneHandler, RegisteredAtWork,
              SendersAreStopped, At, Goto
  <2> PICK c \in PeerConns :
          \/ Connect(c) \/ Handler(c) \/ Answer(c) \/ PeerHangsUp(c) \/ TimeOut(c)
          \/ RemovePeer(c, "timer") \/ QueueTxs(c) \/ Broadcast(c)
    BY <1>2 DEF PeerNext
  <2>2. CASE Connect(c)
    BY <2>1, <2>2 DEF Connect
  <2>3. CASE OpenDb(c)
    BY <2>1, <2>3 DEF OpenDb
  <2>8. CASE ArmTimer(c)
    BY <2>1, <2>8 DEF ArmTimer
  <2>9. CASE Greet(c)
    BY <2>1, <2>9 DEF Greet
  <2>10. CASE Leave(c)
    BY <2>1, <2>10 DEF Leave
  <2>4. CASE Register(c)
    BY <2>1, <2>4 DEF Register
  <2>5. CASE Answer(c) \/ PeerHangsUp(c) \/ TimeOut(c) \/ QueueTxs(c)
    BY <2>1, <2>5 DEF Answer, PeerHangsUp, TimeOut, QueueTxs
  <2>6. ASSUME NEW k \in Callers, RemovePeer(c, k)
        PROVE  PeerSetInv'
    <3> USE DEF Finish, Callers, Calling
    <3>1. CASE RemoveNothing(c, k)
      BY <2>1, <3>1 DEF RemoveNothing
    <3>2. CASE RemoveLookup(c, k) \/ RemovePanics(c, k)
      BY <2>1, <3>2 DEF RemoveLookup, RemovePanics
    <3>3. CASE RemoveUnregister(c, k)
      <4> DEFINE d == peers[PeerIdOf[c]]
      <4>1. PeerIdOf[c] \in PeerIds /\ d \in PeerConns /\ d # NoPeer /\ PeerIdOf[d] = PeerIdOf[c]
        BY <3>3 DEF RemoveUnregister
      <4>2. peers' = [peers EXCEPT ![PeerIdOf[c]] = NoPeer] /\ term' = [term EXCEPT ![d] = TRUE]
        BY <3>3 DEF RemoveUnregister
      <4>3. OneHandler'
        BY <2>1, <3>3 DEF RemoveUnregister
      <4>5. RegisteredAtWork'
        <5> SUFFICES ASSUME NEW i \in PeerIds, peers'[i] # NoPeer
                     PROVE  /\ PeerIdOf[peers'[i]] = i
                            /\ pc'[peers'[i]] \in {"arming", "greeting", "reading", "removing"}
          OBVIOUS
        <5>1. i # PeerIdOf[c] /\ peers'[i] = peers[i]
          BY <4>1, <4>2
        <5>2. peers[i] # c /\ peers[i] \in PeerConns
          BY <5>1
        <5> QED
          BY <3>3, <5>1, <5>2 DEF RemoveUnregister
      <4>4. SendersAreStopped'
        BY <2>1, <3>3, <4>1, <4>2 DEF RemoveUnregister
      <4> QED
        BY <2>1, <4>3, <4>4, <4>5
    <3> QED
      BY <2>6, <3>1, <3>2, <3>3 DEF RemovePeer
  <2>7. CASE SendQueued(c) \/ SenderEnds(c)
    BY <2>1, <2>7 DEF SendQueued, SenderEnds
  <2> QED
    BY <2>2, <2>3, <2>4, <2>5, <2>6, <2>7, <2>8, <2>9, <2>10
    DEF Handler, Broadcast, Callers
<1> QED
  BY <1>1, <1>2

\* msgHandler, Register, Unregister and removePeer keep the peer set, the
\* handlers and the broadcast goroutines in agreement, whatever the timers do.
THEOREM PeersAgree ==
    ASSUME PeerSetAssumption
    PROVE  PeerSpec => []PeersSound
<1>1. PeerInit => PeerSetInv
  BY PeerSetInit
<1>2. PeerSetInv /\ [PeerNext]_peerVars => PeerSetInv'
  BY PeerSetStep
<1>3. PeerSetInv => PeersSound
  BY InvImpliesSound
<1> QED
  BY <1>1, <1>2, <1>3, PTL DEF PeerSpec
=============================================================================
