--------------------------- MODULE BlockSyncProof ---------------------------
(***************************************************************************)
(* Proof that the download of blocks (BlockSync) is sound: SyncSound, for  *)
(* every set of nodes, every network and every bound.                      *)
(*                                                                         *)
(* AnyInv holds in every network: it is TypeOK with tighter types, with    *)
(* KnownStored and ChainsLinked.  SourceInv holds where OneSource does.    *)
(* It says why no handler panics: there is one chain, every node has a     *)
(* prefix of it, blocks flow away from the source only, and on every link  *)
(* each block is announced, listed, asked for or sent in at most one place *)
(* at a time, and only before it is stored (Fresh).  Fresh is about two    *)
(* sequences, a list, a set and a number, and what each handler does to it *)
(* is a lemma about these values; the lemmas about handlers only have to   *)
(* find the values.                                                        *)
(***************************************************************************)
EXTENDS BlockSync, WellFoundedInduction, SequenceTheorems, TLAPS

-----------------------------------------------------------------------------
(* The loop that filters a list of hashes                                  *)

\* A set of natural numbers that is not empty has a least element.
LEMMA NatLeast ==
    ASSUME NEW T \in SUBSET Nat, T # {}
    PROVE  \E m \in T : \A n \in T : m <= n
<1> DEFINE R == OpToRel(<, Nat)
<1>1. \E m \in T : \A n \in T : ~(<<n, m>> \in R)
  <2> HIDE DEF R
  <2>1. IsWellFoundedOn(R, Nat) BY NatLessThanWellFounded DEF R
  <2> QED BY <2>1, WFMin
<1>2. PICK m \in T : \A n \in T : ~(<<n, m>> \in R) BY <1>1
<1>3. \A n \in T : ~(n < m) BY <1>2 DEF OpToRel
<1> QED BY <1>3

\* Induction, for a set of natural numbers.
LEMMA Induction ==
    ASSUME NEW P \in SUBSET Nat, 0 \in P, \A n \in Nat : n \in P => n + 1 \in P
    PROVE  P = Nat
<1> SUFFICES ASSUME P # Nat PROVE FALSE OBVIOUS
<1> DEFINE T == Nat \ P
<1>1. PICK m \in T : \A n \in T : m <= n BY NatLeast
<1>2. m # 0 /\ m - 1 \in Nat /\ m - 1 \notin T BY <1>1
<1> QED BY <1>2

\* t consists of the items of s that stand at different places below i, none of them in S.
PickedFrom(t, s, i, S) ==
    \E g \in [1..Len(t) -> 1..i] :
        /\ \A k \in 1..Len(t) : t[k] = s[g[k]] /\ t[k] \notin S
        /\ \A k, m \in 1..Len(t) : k # m => g[k] # g[m]

\* One more round of the loop of Without.
LEMMA PickedMore ==
    ASSUME NEW A, NEW s \in Seq(A), NEW S, NEW i \in 1..Len(s), NEW t \in Seq(A),
           PickedFrom(t, s, i - 1, S)
    PROVE  /\ PickedFrom(t, s, i, S)
           /\ s[i] \notin S => PickedFrom(Append(t, s[i]), s, i, S)
<1>1. PICK g \in [1..Len(t) -> 1..(i - 1)] :
        /\ \A k \in 1..Len(t) : t[k] = s[g[k]] /\ t[k] \notin S
        /\ \A k, m \in 1..Len(t) : k # m => g[k] # g[m]
  BY DEF PickedFrom
<1>2. PickedFrom(t, s, i, S)
  <2>1. g \in [1..Len(t) -> 1..i] BY <1>1
  <2> QED BY <1>1, <2>1 DEF PickedFrom
<1>3. ASSUME s[i] \notin S PROVE PickedFrom(Append(t, s[i]), s, i, S)
  <2> DEFINE u == Append(t, s[i])
             h == [k \in 1..Len(u) |-> IF k = Len(u) THEN i ELSE g[k]]
  <2>1. u \in Seq(A) /\ Len(u) = Len(t) + 1 /\ u[Len(u)] = s[i]
        /\ \A k \in 1..Len(t) : u[k] = t[k]
    BY s[i] \in A
  <2> HIDE DEF u
  <2>2. h \in [1..Len(u) -> 1..i] BY <1>1, <2>1
  <2>3. \A k \in 1..Len(u) : u[k] = s[h[k]] /\ u[k] \notin S BY <1>1, <1>3, <2>1
  <2>4. ASSUME NEW k \in 1..Len(u), NEW m \in 1..Len(u), k # m PROVE h[k] # h[m]
    <3>1. \A j \in 1..Len(t) : h[j] = g[j] /\ g[j] \in 1..(i - 1) /\ h[j] # i
      <4> SUFFICES ASSUME NEW j \in 1..Len(t)
                   PROVE  h[j] = g[j] /\ g[j] \in 1..(i - 1) /\ h[j] # i
        OBVIOUS
      <4>1. j \in 1..Len(u) /\ j # Len(u) BY <2>1
      <4>2. h[j] = g[j] BY <4>1
      <4>3. g[j] \in 1..(i - 1) BY <1>1
      <4> HIDE DEF h
      <4> QED BY <4>2, <4>3
    <3>2. h[Len(t) + 1] = i /\ Len(t) \in Nat BY <2>1
    <3>3. CASE k = Len(t) + 1 \/ m = Len(t) + 1
      <4> HIDE DEF h
      <4>1. CASE k = Len(t) + 1
        <5>1. m \in 1..Len(t) BY <2>1, <2>4, <3>2, <4>1
        <5> QED BY <3>1, <3>2, <4>1, <5>1
      <4>2. CASE m = Len(t) + 1
        <5>1. k \in 1..Len(t) BY <2>1, <2>4, <3>2, <4>2
        <5> QED BY <3>1, <3>2, <4>2, <5>1
      <4> QED BY <3>3, <4>1, <4>2
    <3>4. CASE k # Len(t) + 1 /\ m # Len(t) + 1
      <4>1. k \in 1..Len(t) /\ m \in 1..Len(t) BY <2>1, <3>4
      <4>2. g[k] # g[m] BY <1>1, <2>4, <4>1
      <4> QED BY <3>1, <4>1, <4>2
    <3> QED BY <3>3, <3>4
  <2> HIDE DEF h
  <2>5. PickedFrom(u, s, i, S) BY <2>2, <2>3, <2>4 DEF PickedFrom
  <2> QED BY <2>5 DEF u
<1> QED BY <1>2, <1>3

\* The loop of Without: what it has appended after i items of s.
Loop(f, s, S, n) ==
    \A i \in 0..n : f[i] = IF i = 0 THEN <<>>
                           ELSE IF s[i] \in S THEN f[i - 1] ELSE Append(f[i - 1], s[i])

\* The loop of Without comes to its end: a function that fits it exists.
LEMMA LoopRuns ==
    ASSUME NEW A, NEW s \in Seq(A), NEW S
    PROVE  \A n \in Nat : n <= Len(s) =>
              \E f : f = [i \in 0..n |-> f[i]] /\ Loop(f, s, S, n)
<1> DEFINE P == {n \in Nat : n <= Len(s) => \E f : f = [i \in 0..n |-> f[i]] /\ Loop(f, s, S, n)}
<1>1. 0 \in P
  <2> DEFINE f == [i \in 0..0 |-> <<>>]
  <2>1. f = [i \in 0..0 |-> f[i]] /\ Loop(f, s, S, 0) BY DEF Loop
  <2> QED BY <2>1
<1>2. ASSUME NEW n \in Nat, n \in P PROVE n + 1 \in P
  <2> SUFFICES ASSUME n + 1 <= Len(s)
               PROVE  \E h : h = [i \in 0..(n + 1) |-> h[i]] /\ Loop(h, s, S, n + 1)
    BY <1>2
  <2>1. PICK f : f = [i \in 0..n |-> f[i]] /\ Loop(f, s, S, n) BY <1>2
  <2> DEFINE h == [i \in 0..(n + 1) |->
                    IF i = n + 1 THEN IF s[i] \in S THEN f[n] ELSE Append(f[n], s[i])
                    ELSE f[i]]
  <2>2. h = [i \in 0..(n + 1) |-> h[i]] OBVIOUS
  <2>3. ASSUME NEW i \in 0..(n + 1)
        PROVE  h[i] = IF i = 0 THEN <<>>
                      ELSE IF s[i] \in S THEN h[i - 1] ELSE Append(h[i - 1], s[i])
    <3>1. CASE i = n + 1
      <4>1. h[n] = f[n] /\ i # 0 /\ i - 1 = n BY <3>1
      <4> QED BY <3>1, <4>1
    <3>2. CASE i \in 0..n
      <4>1. h[i] = f[i] /\ (i # 0 => h[i - 1] = f[i - 1]) BY <3>2
      <4> QED BY <2>1, <3>2, <4>1 DEF Loop
    <3> QED BY <3>1, <3>2
  <2> HIDE DEF h
  <2>4. Loop(h, s, S, n + 1) BY <2>3 DEF Loop
  <2> QED BY <2>2, <2>4
<1> HIDE DEF P
<1>3. P = Nat
  <2>1. P \in SUBSET Nat BY DEF P
  <2> QED BY <1>1, <1>2, <2>1, Induction
<1> QED BY <1>3 DEF P

\* Without returns items of the list, from different places, none of them in S:
\* what the loops of handleGetBlocks and handleInv leave of a list of hashes.
LEMMA WithoutPicks ==
    ASSUME NEW A, NEW s \in Seq(A), NEW S
    PROVE  Without(s, S) \in Seq(A) /\ PickedFrom(Without(s, S), s, Len(s), S)
<1> DEFINE F(f) == [i \in 0..Len(s) |-> IF i = 0 THEN <<>>
                      ELSE IF s[i] \in S THEN f[i - 1] ELSE Append(f[i - 1], s[i])]
           up == CHOOSE f : f = F(f)
<1>1. Len(s) \in Nat OBVIOUS
<1>2. \E f : f = F(f)
  <2>1. PICK f : f = [i \in 0..Len(s) |-> f[i]] /\ Loop(f, s, S, Len(s))
    <3>1. Len(s) <= Len(s) BY <1>1
    <3> QED BY <1>1, <3>1, LoopRuns, Zenon
  <2>2. \A i \in 0..Len(s) : f[i] = F(f)[i] BY <2>1 DEF Loop
  <2>3. f = F(f) BY <2>1, <2>2
  <2> QED BY <2>3
<1>3. up = F(up) BY <1>2
<1>4. Without(s, S) = up[Len(s)] BY DEF Without
<1>5. \A i \in 0..Len(s) : up[i] = IF i = 0 THEN <<>>
                      ELSE IF s[i] \in S THEN up[i - 1] ELSE Append(up[i - 1], s[i])
  BY <1>3
<1> HIDE DEF up, F
<1> DEFINE Good(i) == up[i] \in Seq(A) /\ PickedFrom(up[i], s, i, S)
           P == {i \in Nat : i <= Len(s) => Good(i)}
<1>6. 0 \in P
  <2>1. up[0] = <<>> BY <1>1, <1>5
  <2>2. PickedFrom(<<>>, s, 0, S)
    <3> DEFINE g == [k \in 1..0 |-> 1]
    <3>1. Len(<<>>) = 0 /\ 1..0 = {} OBVIOUS
    <3>2. g \in [1..Len(<<>>) -> 1..0] BY <3>1
    <3>3. \A k \in 1..Len(<<>>) : FALSE BY <3>1
    <3> HIDE DEF g
    <3> QED BY <3>2, <3>3, Zenon DEF PickedFrom
  <2>3. Good(0) BY <2>1, <2>2
  <2> HIDE DEF Good
  <2> QED BY <2>3
<1>7. ASSUME NEW n \in Nat, n \in P PROVE n + 1 \in P
  <2> SUFFICES ASSUME n + 1 <= Len(s) PROVE Good(n + 1) OBVIOUS
  <2>1. Good(n) BY <1>1, <1>7
  <2>2. n + 1 \in 1..Len(s) /\ (n + 1) - 1 = n /\ s[n + 1] \in A BY <1>1
  <2>3. up[n + 1] = IF s[n + 1] \in S THEN up[n] ELSE Append(up[n], s[n + 1])
    BY <1>1, <1>5, <2>2
  <2>4. /\ PickedFrom(up[n], s, n + 1, S)
        /\ s[n + 1] \notin S => PickedFrom(Append(up[n], s[n + 1]), s, n + 1, S)
    <3>1. up[n] \in Seq(A) /\ PickedFrom(up[n], s, (n + 1) - 1, S) BY <2>1, <2>2, Zenon
    <3> QED BY <2>2, <3>1, PickedMore, Zenon
  <2> QED BY <2>1, <2>2, <2>3, <2>4
<1> HIDE DEF P, Good
<1>8. P = Nat
  <2>1. P \in SUBSET Nat BY DEF P
  <2> QED BY <1>6, <1>7, <2>1, Induction
<1> QED BY <1>1, <1>4, <1>8 DEF P, Good

-----------------------------------------------------------------------------
(* One link, seen from the end that is further from the source             *)

\* A block is on its way, or a request for one: handleBlock will look at the list.
\* Here and below W is the stream from the peer, R the one to it, T the list
\* blocksInTransit, K what the peer has noted in knownBlocks, h the own height.
Expects(W, R) ==
    \/ \E i \in DOMAIN W : W[i].type = "block"
    \/ \E i \in DOMAIN R : R[i].type = "getdata"

\* The peer has announced b, and it is still to come.
Ahead(b, K, h) == b \in K /\ b > h

\* Whatever is sent, asked for, listed or announced is still to come.
AllAhead(W, R, T, K, h) ==
    /\ \A i \in DOMAIN W : W[i].type = "block" => Ahead(W[i].block, K, h)
    /\ \A i \in DOMAIN R : R[i].type = "getdata" => Ahead(R[i].block, K, h)
    /\ Expects(W, R) => \A i \in DOMAIN T : Ahead(T[i], K, h)
    /\ \A i \in DOMAIN W : W[i].type = "inv" =>
          \A k \in DOMAIN W[i].items : Ahead(W[i].items[k], K, h)

\* A request for hashes names a block of the own chain, and what has been added
\* since then the peer has announced already, so it will not be announced again.
Covered(R, K, h) ==
    \A i \in DOMAIN R : R[i].type = "getblocks" =>
        /\ R[i].last \in 0..h
        /\ (R[i].last + 1)..h \subseteq K

\* No block is on its way twice, be it the block or the request.
OnceSent(W, R) ==
    /\ \A i, j \in DOMAIN W : W[i].type = "block" /\ W[j].type = "block" /\ i # j =>
          W[i].block # W[j].block
    /\ \A i, j \in DOMAIN R : R[i].type = "getdata" /\ R[j].type = "getdata" /\ i # j =>
          R[i].block # R[j].block
    /\ \A i \in DOMAIN W, j \in DOMAIN R : W[i].type = "block" /\ R[j].type = "getdata" =>
          W[i].block # R[j].block

\* While a block is expected, nothing in the list is on its way too.
OnceListed(W, R, T) ==
    Expects(W, R) =>
        /\ \A i, j \in DOMAIN T : i # j => T[i] # T[j]
        /\ \A i \in DOMAIN T, j \in DOMAIN W : W[j].type = "block" => T[i] # W[j].block
        /\ \A i \in DOMAIN T, j \in DOMAIN R : R[j].type = "getdata" => T[i] # R[j].block
        /\ \A i \in DOMAIN T, j \in DOMAIN W : W[j].type = "inv" =>
              \A k \in DOMAIN W[j].items : T[i] # W[j].items[k]

\* No block is announced twice, or announced while it is on its way.
OnceAnnounced(W, R) ==
    /\ \A i \in DOMAIN W : W[i].type = "inv" =>
          \A k, m \in DOMAIN W[i].items : k # m => W[i].items[k] # W[i].items[m]
    /\ \A i, j \in DOMAIN W : W[i].type = "inv" /\ W[j].type = "inv" /\ i # j =>
          \A k \in DOMAIN W[i].items, m \in DOMAIN W[j].items : W[i].items[k] # W[j].items[m]
    /\ \A i, j \in DOMAIN W : W[i].type = "inv" /\ W[j].type = "block" =>
          \A k \in DOMAIN W[i].items : W[i].items[k] # W[j].block
    /\ \A i \in DOMAIN W, j \in DOMAIN R : W[i].type = "inv" /\ R[j].type = "getdata" =>
          \A k \in DOMAIN W[i].items : W[i].items[k] # R[j].block

\* No stored block ever comes again on this link.
Fresh(W, R, T, K, h) ==
    /\ AllAhead(W, R, T, K, h)
    /\ Covered(R, K, h)
    /\ OnceSent(W, R) /\ OnceListed(W, R, T) /\ OnceAnnounced(W, R)

\* The items of the tail of a sequence.
LEMMA SeqTail ==
    ASSUME NEW M, NEW s \in Seq(M), s # <<>>
    PROVE  /\ Tail(s) \in Seq(M) /\ DOMAIN Tail(s) = 1..(Len(s) - 1)
           /\ DOMAIN s = 1..Len(s) /\ Len(s) \in Nat \ {0} /\ Head(s) = s[1]
           /\ \A i \in DOMAIN Tail(s) : i + 1 \in DOMAIN s /\ Tail(s)[i] = s[i + 1]
OBVIOUS

\* The items of a sequence that one is appended to.
LEMMA SeqAppend ==
    ASSUME NEW M, NEW s \in Seq(M), NEW e \in M
    PROVE  /\ Append(s, e) \in Seq(M) /\ DOMAIN Append(s, e) = 1..(Len(s) + 1)
           /\ DOMAIN s = 1..Len(s) /\ Len(s) \in Nat
           /\ Append(s, e)[Len(s) + 1] = e
           /\ \A i \in DOMAIN s : Append(s, e)[i] = s[i]
           /\ \A i \in DOMAIN Append(s, e) : i \in DOMAIN s \/ i = Len(s) + 1
OBVIOUS

\* The next message from the peer is taken, and nothing comes of it.
LEMMA FreshTake ==
    ASSUME NEW M, NEW W \in Seq(M), NEW R \in Seq(M), NEW T, NEW K, NEW h,
           W # <<>>, Fresh(W, R, T, K, h)
    PROVE  Fresh(Tail(W), R, T, K, h)
<1> DEFINE V == Tail(W)
<1>1. /\ DOMAIN V \subseteq Nat
      /\ \A i \in DOMAIN V : i + 1 \in DOMAIN W /\ V[i] = W[i + 1]
      /\ \A i, j \in DOMAIN V : i # j => i + 1 # j + 1
  BY SeqTail
<1> HIDE DEF V
<1>2. Expects(V, R) => Expects(W, R) BY <1>1 DEF Expects
<1>3. AllAhead(V, R, T, K, h) BY <1>1, <1>2 DEF Fresh, AllAhead
<1>4. OnceSent(V, R) BY <1>1 DEF Fresh, OnceSent
<1>5. OnceListed(V, R, T) BY <1>1, <1>2 DEF Fresh, OnceListed
<1>6. OnceAnnounced(V, R) BY <1>1 DEF Fresh, OnceAnnounced
<1> QED BY <1>3, <1>4, <1>5, <1>6 DEF Fresh, V

\* The peer takes the next message, and nothing comes of it.
LEMMA FreshTaken ==
    ASSUME NEW M, NEW W \in Seq(M), NEW R \in Seq(M), NEW T, NEW K, NEW h,
           R # <<>>, Fresh(W, R, T, K, h)
    PROVE  Fresh(W, Tail(R), T, K, h)
<1> DEFINE Q == Tail(R)
<1>1. /\ DOMAIN Q \subseteq Nat
      /\ \A i \in DOMAIN Q : i + 1 \in DOMAIN R /\ Q[i] = R[i + 1]
      /\ \A i, j \in DOMAIN Q : i # j => i + 1 # j + 1
  BY SeqTail
<1> HIDE DEF Q
<1>2. Expects(W, Q) => Expects(W, R) BY <1>1 DEF Expects
<1>3. AllAhead(W, Q, T, K, h) BY <1>1, <1>2 DEF Fresh, AllAhead
<1>4. OnceSent(W, Q) BY <1>1 DEF Fresh, OnceSent
<1>5. OnceListed(W, Q, T) BY <1>1, <1>2 DEF Fresh, OnceListed
<1>6. OnceAnnounced(W, Q) BY <1>1 DEF Fresh, OnceAnnounced
<1>7. Covered(Q, K, h) BY <1>1 DEF Fresh, Covered
<1> QED BY <1>3, <1>4, <1>5, <1>6, <1>7 DEF Fresh, Q

\* The peer sends a version.
LEMMA FreshFromPeer ==
    ASSUME NEW M, NEW W \in Seq(M), NEW R \in Seq(M), NEW T, NEW K, NEW h,
           NEW m \in M, m.type = "version", Fresh(W, R, T, K, h)
    PROVE  Fresh(Append(W, m), R, T, K, h)
<1> DEFINE V == Append(W, m)
<1>1. \A i \in DOMAIN V : V[i].type # "version" => i \in DOMAIN W /\ V[i] = W[i]
  BY SeqAppend
<1> HIDE DEF V
<1>2. Expects(V, R) => Expects(W, R) BY <1>1 DEF Expects
<1>3. AllAhead(V, R, T, K, h) BY <1>1, <1>2 DEF Fresh, AllAhead
<1>4. OnceSent(V, R) BY <1>1 DEF Fresh, OnceSent
<1>5. OnceListed(V, R, T) BY <1>1, <1>2 DEF Fresh, OnceListed
<1>6. OnceAnnounced(V, R) BY <1>1 DEF Fresh, OnceAnnounced
<1> QED BY <1>3, <1>4, <1>5, <1>6 DEF Fresh, V

\* A version is sent to the peer, or a request for what follows height h.
LEMMA FreshToPeer ==
    ASSUME NEW M, NEW W \in Seq(M), NEW R \in Seq(M), NEW T, NEW K, NEW h \in Nat,
           NEW m \in M, m.type = "version" \/ (m.type = "getblocks" /\ m.last = h),
           Fresh(W, R, T, K, h)
    PROVE  Fresh(W, Append(R, m), T, K, h)
<1> DEFINE Q == Append(R, m)
<1>1. \A i \in DOMAIN Q : \/ i \in DOMAIN R /\ Q[i] = R[i]
                          \/ Q[i].type = "version"
                          \/ Q[i].type = "getblocks" /\ Q[i].last = h
  BY SeqAppend
<1> HIDE DEF Q
<1>2. Expects(W, Q) => Expects(W, R) BY <1>1 DEF Expects
<1>3. AllAhead(W, Q, T, K, h) BY <1>1, <1>2 DEF Fresh, AllAhead
<1>4. OnceSent(W, Q) BY <1>1 DEF Fresh, OnceSent
<1>5. OnceListed(W, Q, T) BY <1>1, <1>2 DEF Fresh, OnceListed
<1>6. OnceAnnounced(W, Q) BY <1>1 DEF Fresh, OnceAnnounced
<1>7. Covered(Q, K, h) BY <1>1 DEF Fresh, Covered
<1> QED BY <1>3, <1>4, <1>5, <1>6, <1>7 DEF Fresh, Q

\* handleGetData: the peer takes the request and sends the block.
LEMMA FreshServed ==
    ASSUME NEW M, NEW W \in Seq(M), NEW R \in Seq(M), NEW T, NEW K, NEW h \in Nat,
           R # <<>>, Head(R).type = "getdata", NEW m \in M,
           m.type = "block", m.block = Head(R).block, Fresh(W, R, T, K, h)
    PROVE  Fresh(Append(W, m), Tail(R), T, K, h)
<1> DEFINE V == Append(W, m)
           Q == Tail(R)
<1>1. \A i \in DOMAIN V : \/ i \in DOMAIN W /\ V[i] = W[i]
                          \/ i = Len(W) + 1 /\ V[i] = m
  BY SeqAppend
<1>2. /\ DOMAIN Q \subseteq Nat /\ 1 \in DOMAIN R /\ R[1] = Head(R)
      /\ \A i \in DOMAIN Q : i + 1 \in DOMAIN R /\ i + 1 # 1 /\ Q[i] = R[i + 1]
      /\ \A i, j \in DOMAIN Q : i # j => i + 1 # j + 1
  BY SeqTail
<1> HIDE DEF V, Q
<1>3. Expects(W, R) BY <1>2 DEF Expects
<1>4. AllAhead(V, Q, T, K, h)
  <2>1. \A i \in DOMAIN V : V[i].type = "block" => Ahead(V[i].block, K, h)
    BY <1>1, <1>2 DEF Fresh, AllAhead
  <2>2. \A i \in DOMAIN Q : Q[i].type = "getdata" => Ahead(Q[i].block, K, h)
    BY <1>2 DEF Fresh, AllAhead
  <2>3. \A i \in DOMAIN T : Ahead(T[i], K, h) BY <1>3 DEF Fresh, AllAhead
  <2>4. \A i \in DOMAIN V : V[i].type = "inv" =>
          \A k \in DOMAIN V[i].items : Ahead(V[i].items[k], K, h)
    BY <1>1 DEF Fresh, AllAhead
  <2> QED BY <2>1, <2>2, <2>3, <2>4 DEF AllAhead
<1>5. OnceSent(V, Q)
  <2>1. \A i, j \in DOMAIN V : V[i].type = "block" /\ V[j].type = "block" /\ i # j =>
          V[i].block # V[j].block
    BY <1>1, <1>2 DEF Fresh, OnceSent
  <2>2. \A i, j \in DOMAIN Q : Q[i].type = "getdata" /\ Q[j].type = "getdata" /\ i # j =>
          Q[i].block # Q[j].block
    BY <1>2 DEF Fresh, OnceSent
  <2>3. \A i \in DOMAIN V, j \in DOMAIN Q : V[i].type = "block" /\ Q[j].type = "getdata" =>
          V[i].block # Q[j].block
    BY <1>1, <1>2 DEF Fresh, OnceSent
  <2> QED BY <2>1, <2>2, <2>3 DEF OnceSent
<1>6. OnceListed(V, Q, T) BY <1>1, <1>2, <1>3 DEF Fresh, OnceListed
<1>7. OnceAnnounced(V, Q)
  <2>1. \A i \in DOMAIN V : V[i].type = "inv" => i \in DOMAIN W /\ V[i] = W[i] BY <1>1
  <2>2. \A i, j \in DOMAIN V : V[i].type = "inv" /\ V[j].type = "block" =>
          \A k \in DOMAIN V[i].items : V[i].items[k] # V[j].block
    BY <1>1, <1>2, <2>1 DEF Fresh, OnceAnnounced
  <2> QED BY <1>2, <2>1, <2>2 DEF Fresh, OnceAnnounced
<1>8. Covered(Q, K, h) BY <1>2 DEF Fresh, Covered
<1> QED BY <1>4, <1>5, <1>6, <1>7, <1>8 DEF Fresh, V, Q

\* handleInv: the announcement is taken, its last item is asked for, and the
\* others become the list.
LEMMA FreshInv ==
    ASSUME NEW M, NEW W \in Seq(M), NEW R \in Seq(M), NEW T, NEW K, NEW h \in Nat,
           NEW A, NEW s \in Seq(A), s # <<>>, NEW S \in Seq(A),
           W # <<>>, Head(W).type = "inv", Head(W).items = s,
           PickedFrom(S, s, Len(s), {Last(s)}), NEW m \in M,
           m.type = "getdata", m.block = Last(s), Fresh(W, R, T, K, h)
    PROVE  Fresh(Tail(W), Append(R, m), S, K, h)
<1> DEFINE V == Tail(W)
           Q == Append(R, m)
<1>1. /\ DOMAIN V \subseteq Nat /\ 1 \in DOMAIN W /\ W[1].type = "inv" /\ W[1].items = s
      /\ \A i \in DOMAIN V : i + 1 \in DOMAIN W /\ i + 1 # 1 /\ V[i] = W[i + 1]
      /\ \A i, j \in DOMAIN V : i # j => i + 1 # j + 1
  BY SeqTail
<1>2. \A i \in DOMAIN Q : \/ i \in DOMAIN R /\ Q[i] = R[i]
                          \/ i = Len(R) + 1 /\ Q[i] = m
  BY SeqAppend
<1>3. /\ Len(s) \in DOMAIN s /\ s[Len(s)] = m.block
      /\ \E g : /\ \A k \in DOMAIN S : g[k] \in DOMAIN s /\ S[k] = s[g[k]] /\ S[k] # m.block
                /\ \A k, j \in DOMAIN S : k # j => g[k] # g[j]
  <2>1. DOMAIN s = 1..Len(s) /\ DOMAIN S = 1..Len(S) /\ Len(s) \in DOMAIN s /\ Last(s) = s[Len(s)]
    BY DEF Last
  <2>2. PICK g \in [1..Len(S) -> 1..Len(s)] :
          /\ \A k \in 1..Len(S) : S[k] = s[g[k]] /\ S[k] \notin {Last(s)}
          /\ \A k, j \in 1..Len(S) : k # j => g[k] # g[j]
    BY DEF PickedFrom
  <2>3. \A k \in DOMAIN S : g[k] \in DOMAIN s /\ S[k] = s[g[k]] /\ S[k] # m.block
    BY <2>1, <2>2
  <2>4. \A k, j \in DOMAIN S : k # j => g[k] # g[j] BY <2>1, <2>2
  <2> QED BY <2>1, <2>3, <2>4, Zenon
<1>4. PICK g : /\ \A k \in DOMAIN S : g[k] \in DOMAIN s /\ S[k] = s[g[k]] /\ S[k] # m.block
               /\ \A k, j \in DOMAIN S : k # j => g[k] # g[j]
  BY <1>3
<1> DEFINE l == Len(s)
<1>5. l \in DOMAIN s /\ m.block = s[l] BY <1>3
<1> HIDE DEF V, Q, l
<1>6. \A k \in DOMAIN s : Ahead(s[k], K, h) BY <1>1 DEF Fresh, AllAhead
<1>7. \A k, j \in DOMAIN s : k # j => s[k] # s[j] BY <1>1 DEF Fresh, OnceAnnounced
<1>8. \A i \in DOMAIN V : V[i].type = "block" => \A k \in DOMAIN s : s[k] # V[i].block
  BY <1>1 DEF Fresh, OnceAnnounced
<1>9. \A i \in DOMAIN R : R[i].type = "getdata" => \A k \in DOMAIN s : s[k] # R[i].block
  BY <1>1 DEF Fresh, OnceAnnounced
<1>10. \A i \in DOMAIN V : V[i].type = "inv" =>
         \A j \in DOMAIN V[i].items, k \in DOMAIN s : s[k] # V[i].items[j]
  BY <1>1 DEF Fresh, OnceAnnounced
<1>11. AllAhead(V, Q, S, K, h)
  <2>1. \A i \in DOMAIN V : V[i].type = "block" => Ahead(V[i].block, K, h)
    BY <1>1 DEF Fresh, AllAhead
  <2>2. \A i \in DOMAIN Q : Q[i].type = "getdata" => Ahead(Q[i].block, K, h)
    BY <1>2, <1>5, <1>6 DEF Fresh, AllAhead
  <2>3. \A k \in DOMAIN S : Ahead(S[k], K, h) BY <1>4, <1>6
  <2>4. \A i \in DOMAIN V : V[i].type = "inv" =>
          \A k \in DOMAIN V[i].items : Ahead(V[i].items[k], K, h)
    BY <1>1 DEF Fresh, AllAhead
  <2> QED BY <2>1, <2>2, <2>3, <2>4 DEF AllAhead
<1>12. OnceSent(V, Q)
  <2>1. \A i, j \in DOMAIN V : V[i].type = "block" /\ V[j].type = "block" /\ i # j =>
          V[i].block # V[j].block
    BY <1>1 DEF Fresh, OnceSent
  <2>2. \A i, j \in DOMAIN Q : Q[i].type = "getdata" /\ Q[j].type = "getdata" /\ i # j =>
          Q[i].block # Q[j].block
    BY <1>2, <1>5, <1>9 DEF Fresh, OnceSent
  <2>3. \A i \in DOMAIN V, j \in DOMAIN Q : V[i].type = "block" /\ Q[j].type = "getdata" =>
          V[i].block # Q[j].block
    BY <1>1, <1>2, <1>5, <1>8 DEF Fresh, OnceSent
  <2> QED BY <2>1, <2>2, <2>3 DEF OnceSent
<1>13. OnceListed(V, Q, S)
  <2>1. \A i, j \in DOMAIN S : i # j => S[i] # S[j] BY <1>4, <1>7
  <2>2. \A i \in DOMAIN S, j \in DOMAIN V : V[j].type = "block" => S[i] # V[j].block
    BY <1>4, <1>8
  <2>3. \A i \in DOMAIN S, j \in DOMAIN Q : Q[j].type = "getdata" => S[i] # Q[j].block
    BY <1>2, <1>4, <1>9
  <2>4. \A i \in DOMAIN S, j \in DOMAIN V : V[j].type = "inv" =>
          \A k \in DOMAIN V[j].items : S[i] # V[j].items[k]
    BY <1>4, <1>10
  <2> QED BY <2>1, <2>2, <2>3, <2>4 DEF OnceListed
<1>14. OnceAnnounced(V, Q)
  <2>1. \A i \in DOMAIN V, j \in DOMAIN Q : V[i].type = "inv" /\ Q[j].type = "getdata" =>
          \A k \in DOMAIN V[i].items : V[i].items[k] # Q[j].block
    BY <1>1, <1>2, <1>5, <1>10 DEF Fresh, OnceAnnounced
  <2> QED BY <1>1, <2>1 DEF Fresh, OnceAnnounced
<1>15. Covered(Q, K, h) BY <1>2 DEF Fresh, Covered
<1> QED BY <1>11, <1>12, <1>13, <1>14, <1>15 DEF Fresh, V, Q

\* handleGetBlocks: the peer takes the request and announces blocks that it has
\* not noted yet.
LEMMA FreshAnnounced ==
    ASSUME NEW M, NEW W \in Seq(M), NEW R \in Seq(M), NEW T, NEW K, NEW h \in Nat,
           R # <<>>, Head(R).type = "getblocks",
           NEW s \in Seq(Nat), NEW m \in M, m.type = "inv", m.items = s,
           \A k \in DOMAIN s : s[k] \notin K /\ s[k] > Head(R).last,
           \A k, j \in DOMAIN s : k # j => s[k] # s[j],
           Fresh(W, R, T, K, h)
    PROVE  Fresh(Append(W, m), Tail(R), T, K \cup ToSet(s), h)
<1> DEFINE V == Append(W, m)
           Q == Tail(R)
           L == K \cup ToSet(s)
<1>1. \A i \in DOMAIN V : \/ i \in DOMAIN W /\ V[i] = W[i]
                          \/ i = Len(W) + 1 /\ V[i].type = "inv" /\ V[i].items = s
  BY SeqAppend
<1>2. /\ DOMAIN Q \subseteq Nat /\ 1 \in DOMAIN R /\ R[1] = Head(R)
      /\ \A i \in DOMAIN Q : i + 1 \in DOMAIN R /\ Q[i] = R[i + 1]
      /\ \A i, j \in DOMAIN Q : i # j => i + 1 # j + 1
  BY SeqTail
<1>3. \A k \in DOMAIN s : s[k] > h
  <2> SUFFICES ASSUME NEW k \in DOMAIN s PROVE s[k] > h OBVIOUS
  <2>1. s[k] \in Nat /\ s[k] > Head(R).last /\ s[k] \notin K OBVIOUS
  <2>2. Head(R).last \in 0..h /\ (Head(R).last + 1)..h \subseteq K BY <1>2 DEF Fresh, Covered
  <2> DEFINE b == s[k]
             last == Head(R).last
  <2>3. b \in Nat /\ b > last /\ last \in 0..h BY <2>1, <2>2
  <2> HIDE DEF b, last
  <2>4. b <= h => b \in (last + 1)..h BY <2>3
  <2>5. b > h \/ b <= h BY <2>3
  <2> USE DEF b, last
  <2> QED BY <2>1, <2>2, <2>4, <2>5
<1>4. (\A b : Ahead(b, K, h) => Ahead(b, L, h)) /\ \A k \in DOMAIN s : Ahead(s[k], L, h)
  BY <1>3 DEF Ahead, ToSet
<1>5. \A b : Ahead(b, K, h) => \A k \in DOMAIN s : s[k] # b BY DEF Ahead
<1> HIDE DEF V, Q
<1>6. Expects(V, Q) => Expects(W, R) BY <1>1, <1>2 DEF Expects
<1>7. AllAhead(V, Q, T, L, h)
  <2> HIDE DEF L
  <2>1. \A i \in DOMAIN V : V[i].type = "block" => Ahead(V[i].block, L, h)
    BY <1>1, <1>4 DEF Fresh, AllAhead
  <2>2. \A i \in DOMAIN Q : Q[i].type = "getdata" => Ahead(Q[i].block, L, h)
    BY <1>2, <1>4 DEF Fresh, AllAhead
  <2>3. Expects(V, Q) => \A i \in DOMAIN T : Ahead(T[i], L, h)
    BY <1>4, <1>6 DEF Fresh, AllAhead
  <2>4. \A i \in DOMAIN V : V[i].type = "inv" =>
          \A k \in DOMAIN V[i].items : Ahead(V[i].items[k], L, h)
    BY <1>1, <1>4 DEF Fresh, AllAhead
  <2> QED BY <2>1, <2>2, <2>3, <2>4 DEF AllAhead
<1>8. OnceSent(V, Q)
  <2>1. \A i, j \in DOMAIN V : V[i].type = "block" /\ V[j].type = "block" /\ i # j =>
           V[i].block # V[j].block
    BY <1>1 DEF Fresh, OnceSent
  <2>2. \A i, j \in DOMAIN Q : Q[i].type = "getdata" /\ Q[j].type = "getdata" /\ i # j =>
           Q[i].block # Q[j].block
    BY <1>2 DEF Fresh, OnceSent
  <2>3. \A i \in DOMAIN V, j \in DOMAIN Q : V[i].type = "block" /\ Q[j].type = "getdata" =>
           V[i].block # Q[j].block
    BY <1>1, <1>2 DEF Fresh, OnceSent
  <2> QED BY <2>1, <2>2, <2>3 DEF OnceSent
<1>9. OnceListed(V, Q, T)
  <2> SUFFICES ASSUME Expects(V, Q)
               PROVE  /\ \A i, j \in DOMAIN T : i # j => T[i] # T[j]
                      /\ \A i \in DOMAIN T, j \in DOMAIN V : V[j].type = "block" => T[i] # V[j].block
                      /\ \A i \in DOMAIN T, j \in DOMAIN Q : Q[j].type = "getdata" => T[i] # Q[j].block
                      /\ \A i \in DOMAIN T, j \in DOMAIN V : V[j].type = "inv" =>
                            \A k \in DOMAIN V[j].items : T[i] # V[j].items[k]
    BY DEF OnceListed
  <2>1. \A i \in DOMAIN T : Ahead(T[i], K, h) BY <1>6 DEF Fresh, AllAhead
  <2>2. \A i \in DOMAIN T, j \in DOMAIN V : V[j].type = "inv" =>
          \A k \in DOMAIN V[j].items : T[i] # V[j].items[k]
    BY <1>1, <1>5, <1>6, <2>1 DEF Fresh, OnceListed
  <2> QED BY <1>1, <1>2, <1>6, <2>2 DEF Fresh, OnceListed
<1>10. OnceAnnounced(V, Q)
  <2>1. \A i \in DOMAIN V : V[i].type = "inv" =>
          \A k, j \in DOMAIN V[i].items : k # j => V[i].items[k] # V[i].items[j]
    BY <1>1 DEF Fresh, OnceAnnounced
  <2>2. \A i \in DOMAIN W : W[i].type = "inv" =>
          \A j \in DOMAIN W[i].items, k \in DOMAIN s : W[i].items[j] # s[k]
    BY <1>5 DEF Fresh, AllAhead
  <2>3. \A i, j \in DOMAIN V : V[i].type = "inv" /\ V[j].type = "inv" /\ i # j =>
          \A k \in DOMAIN V[i].items, n \in DOMAIN V[j].items : V[i].items[k] # V[j].items[n]
    <3> SUFFICES ASSUME NEW i \in DOMAIN V, NEW j \in DOMAIN V,
                        V[i].type = "inv", V[j].type = "inv", i # j
                 PROVE  \A k \in DOMAIN V[i].items, n \in DOMAIN V[j].items :
                           V[i].items[k] # V[j].items[n]
      OBVIOUS
    <3>1. CASE i \in DOMAIN W /\ j \in DOMAIN W /\ V[i] = W[i] /\ V[j] = W[j]
      BY <3>1 DEF Fresh, OnceAnnounced
    <3>2. CASE i \in DOMAIN W /\ V[i] = W[i] /\ V[j].items = s
      BY <2>2, <3>2
    <3>3. CASE j \in DOMAIN W /\ V[j] = W[j] /\ V[i].items = s
      BY <2>2, <3>3
    <3> QED BY <1>1, <3>1, <3>2, <3>3
  <2>4. \A i, j \in DOMAIN V : V[i].type = "inv" /\ V[j].type = "block" =>
          \A k \in DOMAIN V[i].items : V[i].items[k] # V[j].block
    <3> SUFFICES ASSUME NEW i \in DOMAIN V, NEW j \in DOMAIN V,
                        V[i].type = "inv", V[j].type = "block"
                 PROVE  \A k \in DOMAIN V[i].items : V[i].items[k] # V[j].block
      OBVIOUS
    <3>1. j \in DOMAIN W /\ V[j] = W[j] /\ Ahead(V[j].block, K, h)
      BY <1>1 DEF Fresh, AllAhead
    <3>2. CASE i \in DOMAIN W /\ V[i] = W[i]
      BY <3>1, <3>2 DEF Fresh, OnceAnnounced
    <3>3. CASE V[i].items = s
      BY <1>5, <3>1, <3>3
    <3> QED BY <1>1, <3>2, <3>3
  <2>5. \A i \in DOMAIN V, j \in DOMAIN Q : V[i].type = "inv" /\ Q[j].type = "getdata" =>
          \A k \in DOMAIN V[i].items : V[i].items[k] # Q[j].block
    BY <1>1, <1>2, <1>5 DEF Fresh, OnceAnnounced, AllAhead
  <2> QED BY <2>1, <2>3, <2>4, <2>5 DEF OnceAnnounced
<1>11. Covered(Q, L, h) BY <1>2 DEF Fresh, Covered
<1> HIDE DEF L
<1>12. Fresh(V, Q, T, L, h) BY <1>7, <1>8, <1>9, <1>10, <1>11 DEF Fresh
<1> QED BY <1>12 DEF V, Q, L

\* handleBlock: the next block is taken and added; the one after it in the list
\* is asked for, or not.
LEMMA FreshAdded ==
    ASSUME NEW M, NEW W \in Seq(M), NEW R \in Seq(M), NEW A, NEW T \in Seq(A),
           NEW K \in SUBSET Nat, NEW h \in Nat,
           W # <<>>, Head(W).type = "block", Head(W).block = h + 1,
           Fresh(W, R, T, K, h)
    PROVE  /\ Fresh(Tail(W), R, T, K, h + 1)
           /\ T # <<>> => Fresh(Tail(W), R, Front(T), K, h + 1)
           /\ \A m \in M : T # <<>> /\ m.type = "getdata" /\ m.block = Last(T) =>
                 Fresh(Tail(W), Append(R, m), Front(T), K, h + 1)
<1> DEFINE V == Tail(W)
<1>1. /\ DOMAIN V \subseteq Nat /\ 1 \in DOMAIN W /\ W[1] = Head(W)
      /\ \A i \in DOMAIN V : i + 1 \in DOMAIN W /\ i + 1 # 1 /\ V[i] = W[i + 1]
      /\ \A i, j \in DOMAIN V : i # j => i + 1 # j + 1
  BY SeqTail
<1> HIDE DEF V
<1>2. Expects(W, R) BY <1>1 DEF Expects
<1>3. \A b : Ahead(b, K, h) /\ b # h + 1 => Ahead(b, K, h + 1) BY DEF Ahead
<1>4. h + 1 \in K BY <1>1 DEF Fresh, AllAhead, Ahead
<1>5. \A i \in DOMAIN V : V[i].type = "block" => Ahead(V[i].block, K, h + 1)
  BY <1>1, <1>3 DEF Fresh, AllAhead, OnceSent
<1>6. \A i \in DOMAIN R : R[i].type = "getdata" => Ahead(R[i].block, K, h + 1)
  BY <1>1, <1>3 DEF Fresh, AllAhead, OnceSent
<1>7. \A i \in DOMAIN T : Ahead(T[i], K, h + 1)
  BY <1>1, <1>2, <1>3 DEF Fresh, AllAhead, OnceListed
<1>8. \A i \in DOMAIN V : V[i].type = "inv" =>
         \A k \in DOMAIN V[i].items : Ahead(V[i].items[k], K, h + 1)
  BY <1>1, <1>3 DEF Fresh, AllAhead, OnceAnnounced
<1>9. Covered(R, K, h + 1)
  <2>1. \A i \in DOMAIN R : R[i].type = "getblocks" =>
          R[i].last \in 0..h /\ (R[i].last + 1)..h \subseteq K
    BY DEF Fresh, Covered
  <2> QED BY <1>4, <2>1 DEF Covered
<1>10. OnceSent(V, R) BY <1>1 DEF Fresh, OnceSent
<1>11. OnceAnnounced(V, R) BY <1>1 DEF Fresh, OnceAnnounced
<1>12. /\ \A i, j \in DOMAIN T : i # j => T[i] # T[j]
       /\ \A i \in DOMAIN T, j \in DOMAIN V : V[j].type = "block" => T[i] # V[j].block
       /\ \A i \in DOMAIN T, j \in DOMAIN R : R[j].type = "getdata" => T[i] # R[j].block
       /\ \A i \in DOMAIN T, j \in DOMAIN V : V[j].type = "inv" =>
             \A k \in DOMAIN V[j].items : T[i] # V[j].items[k]
  BY <1>1, <1>2 DEF Fresh, OnceListed
<1>13. Fresh(V, R, T, K, h + 1)
  BY <1>5, <1>6, <1>7, <1>8, <1>9, <1>10, <1>11, <1>12 DEF Fresh, AllAhead, OnceListed
<1>14. ASSUME T # <<>>
       PROVE  /\ Fresh(V, R, Front(T), K, h + 1)
              /\ \A m \in M : m.type = "getdata" /\ m.block = Last(T) =>
                    Fresh(V, Append(R, m), Front(T), K, h + 1)
  <2> DEFINE F == Front(T)
             l == Len(T)
  <2>1. /\ DOMAIN F \subseteq DOMAIN T /\ \A i \in DOMAIN F : F[i] = T[i] /\ i # l
        /\ l \in DOMAIN T /\ Last(T) = T[l]
    BY <1>14 DEF Front, Last
  <2> HIDE DEF F, l
  <2>2. /\ \A i, j \in DOMAIN F : i # j => F[i] # F[j]
        /\ \A i \in DOMAIN F, j \in DOMAIN V : V[j].type = "block" => F[i] # V[j].block
        /\ \A i \in DOMAIN F, j \in DOMAIN R : R[j].type = "getdata" => F[i] # R[j].block
        /\ \A i \in DOMAIN F, j \in DOMAIN V : V[j].type = "inv" =>
              \A k \in DOMAIN V[j].items : F[i] # V[j].items[k]
        /\ \A i \in DOMAIN F : Ahead(F[i], K, h + 1)
    BY <1>7, <1>12, <2>1
  <2>3. Fresh(V, R, F, K, h + 1)
    BY <1>5, <1>6, <1>8, <1>9, <1>10, <1>11, <2>2 DEF Fresh, AllAhead, OnceListed
  <2>4. ASSUME NEW m \in M, m.type = "getdata", m.block = Last(T)
        PROVE  Fresh(V, Append(R, m), F, K, h + 1)
    <3> DEFINE Q == Append(R, m)
    <3>1. \A i \in DOMAIN Q : \/ i \in DOMAIN R /\ Q[i] = R[i]
                              \/ i = Len(R) + 1 /\ Q[i] = m
      BY SeqAppend
    <3> HIDE DEF Q
    <3>2. AllAhead(V, Q, F, K, h + 1) BY <1>5, <1>6, <1>7, <1>8, <2>1, <2>2, <2>4, <3>1 DEF AllAhead
    <3>3. OnceSent(V, Q)
      <4>1. \A i \in DOMAIN V, j \in DOMAIN R :
               V[i].type = "block" /\ R[j].type = "getdata" => V[i].block # R[j].block
        BY <1>10 DEF OnceSent
      <4>2. \A i \in DOMAIN V : V[i].type = "block" => V[i].block # m.block
        BY <1>12, <2>1, <2>4
      <4>3. \A i \in DOMAIN R : R[i].type = "getdata" => R[i].block # m.block
        BY <1>12, <2>1, <2>4
      <4>4. \A i \in DOMAIN V, j \in DOMAIN Q :
               V[i].type = "block" /\ Q[j].type = "getdata" => V[i].block # Q[j].block
        BY <3>1, <4>1, <4>2
      <4>5. \A i, j \in DOMAIN Q :
               Q[i].type = "getdata" /\ Q[j].type = "getdata" /\ i # j => Q[i].block # Q[j].block
        BY <1>10, <3>1, <4>3 DEF OnceSent
      <4> QED BY <1>10, <4>4, <4>5 DEF OnceSent
    <3>4. OnceListed(V, Q, F)
      <4>1. \A i \in DOMAIN F, j \in DOMAIN Q : Q[j].type = "getdata" => F[i] # Q[j].block
        BY <1>12, <2>1, <2>2, <2>4, <3>1
      <4> QED BY <2>2, <4>1 DEF OnceListed
    <3>5. OnceAnnounced(V, Q)
      <4>1. \A i \in DOMAIN V, j \in DOMAIN Q : V[i].type = "inv" /\ Q[j].type = "getdata" =>
              \A k \in DOMAIN V[i].items : V[i].items[k] # Q[j].block
        BY <1>11, <1>12, <2>1, <2>4, <3>1 DEF OnceAnnounced
      <4> QED BY <1>11, <4>1 DEF OnceAnnounced
    <3>6. Covered(Q, K, h + 1) BY <1>9, <2>4, <3>1 DEF Covered
    <3> QED BY <3>2, <3>3, <3>4, <3>5, <3>6 DEF Fresh, Q
  <2> QED BY <2>3, <2>4 DEF F
<1> QED BY <1>13, <1>14 DEF V

\* A new connection: nothing but versions is on the way.
LEMMA FreshStart ==
    ASSUME NEW W, NEW R, NEW T, NEW K, NEW h,
           \A i \in DOMAIN W : W[i].type = "version",
           \A i \in DOMAIN R : R[i].type = "version"
    PROVE  Fresh(W, R, T, K, h)
BY DEF Fresh, AllAhead, Expects, Covered, OnceSent, OnceListed, OnceAnnounced

-----------------------------------------------------------------------------
(* The invariant of every network                                          *)

\* The messages about the first k blocks.
MessageOf(k) ==
    [type : {"version"}, height : 0..k, last : 0..k]
      \cup [type : {"getblocks"}, last : 0..k]
      \cup [type : {"inv"}, items : Seq(1..k) \ {<<>>}]
      \cup [type : {"getdata", "block"}, block : 1..k]

\* The blocks mined so far.
Mined == 1..Len(parent)

\* The types of the state, tight enough for an induction: everything is about
\* blocks that have been mined.
Typed ==
    /\ setup \in Setups
    /\ parent \in Seq(Nat) /\ Len(parent) <= setup.blocks
    /\ chain \in [Nodes -> Seq(Mined)]
    /\ net \in [Links -> Seq(MessageOf(Len(parent)))]
    /\ known \in [Links -> SUBSET Mined]
    /\ inTransit \in [Nodes -> Seq(Mined)]
    /\ inTransitSet \in [Nodes -> SUBSET Mined]
    /\ alive \in [Nodes -> BOOLEAN]

\* A block has a greater number than its parent, so its place in a chain is at
\* most its number.
Rising ==
    /\ \A b \in Mined : parent[b] < b
    /\ \A n \in Nodes : \A i \in DOMAIN chain[n] : chain[n][i] >= i

\* The invariant of every network, whoever mines.
AnyInv == Typed /\ Rising /\ KnownStored /\ ChainsLinked

\* Links are symmetric pairs of different nodes.
LEMMA LinkFacts ==
    ASSUME setup \in Setups, NEW n, NEW p, <<p, n>> \in Links
    PROVE  n \in Nodes /\ p \in Nodes /\ n # p /\ <<n, p>> \in Links
BY SetupAssumption DEF Links

\* Links are pairs of nodes.
LEMMA LinkPairs ==
    ASSUME setup \in Setups, NEW l \in Links
    PROVE  l = <<l[1], l[2]>> /\ l[1] \in Nodes /\ l[2] \in Nodes
BY SetupAssumption DEF Links

\* Sending nothing, or one message, to a stream.
LEMMA SeqConcat ==
    ASSUME NEW M, NEW s \in Seq(M), NEW m \in M
    PROVE  s \o <<>> = s /\ s \o <<m>> = Append(s, m)
OBVIOUS

\* What one handler does to the streams.
LEMMA NetNothing ==
    ASSUME Typed, NEW n, NEW p, NEW type, Receives(n, p, type), Consume(n, p, Nothing)
    PROVE  net' = [net EXCEPT ![<<p, n>>] = Tail(@)]
<1> DEFINE M == MessageOf(Len(parent))
<1>1. net \in [Links -> Seq(M)] /\ <<p, n>> \in Links /\ setup \in Setups BY DEF Typed, Receives
<1> HIDE DEF M
<1>2. n \in Nodes /\ p \in Nodes /\ n # p BY <1>1, LinkFacts
<1>3. \A l \in Links : l[2] \in Nodes /\ net[l] \o <<>> = net[l] BY <1>1, LinkPairs, SeqConcat
<1>4. \A q \in Nodes : Nothing[q] = <<>> BY DEF Nothing
<1>5. net' = [l \in Links |-> CASE l = <<p, n>> -> Tail(net[l])
                [] l[1] = n /\ alive[l[2]] -> net[l] \o Nothing[l[2]]
                [] OTHER -> net[l]]
  BY DEF Consume
<1>6. ASSUME NEW l \in Links
      PROVE  net'[l] = IF l = <<p, n>> THEN Tail(net[l]) ELSE net[l]
  <2>1. CASE l = <<p, n>> BY <1>2, <1>5, <2>1
  <2>2. CASE l # <<p, n>> /\ l[1] = n /\ alive[l[2]]
    <3>1. net'[l] = net[l] \o Nothing[l[2]] BY <1>5, <2>2
    <3> QED BY <1>3, <1>4, <2>2, <3>1
  <2>3. CASE l # <<p, n>> /\ ~(l[1] = n /\ alive[l[2]]) BY <1>5, <2>3
  <2> QED BY <2>1, <2>2, <2>3
<1>7. net' = [l \in Links |-> net'[l]] BY <1>5
<1> HIDE DEF Nothing
<1> QED BY <1>1, <1>6, <1>7

\* The streams after a handler has answered, to a peer that runs or does not.
LEMMA NetReply ==
    ASSUME Typed, NEW n, NEW p, NEW type, Receives(n, p, type),
           NEW m \in MessageOf(Len(parent)), Consume(n, p, Reply(p, m))
    PROVE  /\ alive[p] => net' = [net EXCEPT ![<<p, n>>] = Tail(@), ![<<n, p>>] = Append(@, m)]
           /\ ~alive[p] => net' = [net EXCEPT ![<<p, n>>] = Tail(@)]
<1> DEFINE M == MessageOf(Len(parent))
<1>1. net \in [Links -> Seq(M)] /\ <<p, n>> \in Links /\ setup \in Setups /\ m \in M
  BY DEF Typed, Receives
<1> HIDE DEF M
<1>2. n \in Nodes /\ p \in Nodes /\ n # p /\ <<n, p>> \in Links BY <1>1, LinkFacts
<1>3. \A l \in Links : /\ l = <<l[1], l[2]>> /\ l[2] \in Nodes /\ net[l] \o <<>> = net[l]
                       /\ net[l] \o <<m>> = Append(net[l], m)
  BY <1>1, LinkPairs, SeqConcat
<1>4. \A q \in Nodes : Reply(p, m)[q] = IF q = p THEN <<m>> ELSE <<>>
  BY <1>2 DEF Reply, Nothing
<1>5. net' = [l \in Links |-> CASE l = <<p, n>> -> Tail(net[l])
                [] l[1] = n /\ alive[l[2]] -> net[l] \o Reply(p, m)[l[2]]
                [] OTHER -> net[l]]
  BY DEF Consume
<1>6. ASSUME NEW l \in Links
      PROVE  net'[l] = IF l = <<p, n>> THEN Tail(net[l])
                       ELSE IF l = <<n, p>> /\ alive[p] THEN Append(net[l], m) ELSE net[l]
  <2>1. CASE l = <<p, n>> BY <1>2, <1>5, <2>1
  <2>2. CASE l # <<p, n>> /\ l[1] = n /\ alive[l[2]]
    <3>1. net'[l] = net[l] \o Reply(p, m)[l[2]] BY <1>5, <2>2
    <3>2. CASE l[2] = p BY <1>3, <1>4, <2>2, <3>1, <3>2
    <3>3. CASE l[2] # p
      <4>1. Reply(p, m)[l[2]] = <<>> /\ l # <<n, p>> BY <1>3, <1>4, <3>3
      <4> QED BY <1>3, <2>2, <3>1, <4>1
    <3> QED BY <3>2, <3>3
  <2>3. CASE l # <<p, n>> /\ ~(l[1] = n /\ alive[l[2]])
    <3>1. net'[l] = net[l] BY <1>5, <2>3
    <3>2. ~(l = <<n, p>> /\ alive[p]) BY <2>3
    <3> QED BY <2>3, <3>1, <3>2
  <2> QED BY <2>1, <2>2, <2>3
<1>7. net' = [l \in Links |-> net'[l]] BY <1>5
<1> QED BY <1>1, <1>2, <1>6, <1>7

\* The streams after a handler has sent a message to all its peers.
LEMMA NetToAll ==
    ASSUME Typed, NEW n, NEW p, NEW type, Receives(n, p, type),
           NEW m \in MessageOf(Len(parent)), Consume(n, p, ToAll(m))
    PROVE  net' = [l \in Links |-> IF l = <<p, n>> THEN Tail(net[l])
                                   ELSE IF l[1] = n /\ alive[l[2]] THEN Append(net[l], m)
                                   ELSE net[l]]
<1> DEFINE M == MessageOf(Len(parent))
<1>1. net \in [Links -> Seq(M)] /\ <<p, n>> \in Links /\ setup \in Setups /\ m \in M
  BY DEF Typed, Receives
<1> HIDE DEF M
<1>2. \A l \in Links : l[2] \in Nodes /\ net[l] \o <<m>> = Append(net[l], m)
  BY <1>1, LinkPairs, SeqConcat
<1>3. \A q \in Nodes : ToAll(m)[q] = <<m>> BY DEF ToAll
<1>4. net' = [l \in Links |-> CASE l = <<p, n>> -> Tail(net[l])
                [] l[1] = n /\ alive[l[2]] -> net[l] \o ToAll(m)[l[2]]
                [] OTHER -> net[l]]
  BY DEF Consume
<1>5. n \in Nodes /\ p \in Nodes /\ n # p BY <1>1, LinkFacts
<1>6. ASSUME NEW l \in Links
      PROVE  net'[l] = IF l = <<p, n>> THEN Tail(net[l])
                       ELSE IF l[1] = n /\ alive[l[2]] THEN Append(net[l], m) ELSE net[l]
  <2>1. CASE l = <<p, n>> BY <1>4, <1>5, <2>1
  <2>2. CASE l # <<p, n>> /\ l[1] = n /\ alive[l[2]]
    <3>1. net'[l] = net[l] \o ToAll(m)[l[2]] BY <1>4, <2>2
    <3> QED BY <1>2, <1>3, <2>2, <3>1
  <2>3. CASE l # <<p, n>> /\ ~(l[1] = n /\ alive[l[2]]) BY <1>4, <2>3
  <2> QED BY <2>1, <2>2, <2>3
<1>7. net' = [l \in Links |-> net'[l]] BY <1>4
<1> QED BY <1>6, <1>7

\* A message is taken, and others may be sent: the streams stay well typed.
LEMMA TypedNet ==
    ASSUME NEW M, NEW f \in [Links -> Seq(M)], NEW l \in Links, f[l] # <<>>, NEW k \in Links, k # l,
           NEW m \in M
    PROVE  /\ [f EXCEPT ![l] = Tail(@)] \in [Links -> Seq(M)]
           /\ [f EXCEPT ![l] = Tail(@), ![k] = Append(@, m)] \in [Links -> Seq(M)]
<1>1. Tail(f[l]) \in Seq(M) BY SeqTail
<1>2. Append(f[k], m) \in Seq(M) BY SeqAppend
<1>3. [f EXCEPT ![l] = Tail(@)] \in [Links -> Seq(M)] BY <1>1
<1>4. [f EXCEPT ![l] = Tail(@), ![k] = Append(@, m)] \in [Links -> Seq(M)] BY <1>1, <1>2
<1> QED BY <1>3, <1>4

\* More blocks, more messages.
LEMMA MessagesGrow ==
    ASSUME NEW j \in Nat, NEW k \in Nat, j <= k
    PROVE  /\ MessageOf(j) \subseteq MessageOf(k) /\ Seq(MessageOf(j)) \subseteq Seq(MessageOf(k))
           /\ Seq(1..j) \subseteq Seq(1..k)
<1>1. 0..j \subseteq 0..k /\ 1..j \subseteq 1..k OBVIOUS
<1>2. \A A, B : A \subseteq B => Seq(A) \subseteq Seq(B)
  <2> SUFFICES ASSUME NEW A, NEW B, A \subseteq B, NEW s \in Seq(A) PROVE s \in Seq(B) OBVIOUS
  <2> QED BY SeqDef
<1>3. Seq(1..j) \subseteq Seq(1..k) BY <1>1, <1>2
<1>4. MessageOf(j) \subseteq MessageOf(k)
  <2> SUFFICES ASSUME NEW m \in MessageOf(j) PROVE m \in MessageOf(k) OBVIOUS
  <2>1. CASE m \in [type : {"version"}, height : 0..j, last : 0..j] BY <1>1, <2>1 DEF MessageOf
  <2>2. CASE m \in [type : {"getblocks"}, last : 0..j] BY <1>1, <2>2 DEF MessageOf
  <2>3. CASE m \in [type : {"inv"}, items : Seq(1..j) \ {<<>>}] BY <1>3, <2>3 DEF MessageOf
  <2>4. CASE m \in [type : {"getdata", "block"}, block : 1..j] BY <1>1, <2>4 DEF MessageOf
  <2> QED BY <2>1, <2>2, <2>3, <2>4 DEF MessageOf
<1> QED BY <1>2, <1>3, <1>4

\* The fields of a message of each type.
LEMMA MessageFields ==
    ASSUME NEW k \in Nat, NEW m \in MessageOf(k)
    PROVE  /\ m.type = "version" => m.height \in 0..k /\ m.last \in 0..k
           /\ m.type = "getblocks" => m.last \in 0..k
           /\ m.type = "inv" => m.items \in Seq(1..k) /\ m.items # <<>>
           /\ m.type \in {"getdata", "block"} => m.block \in 1..k
           /\ m.type \in {"version", "getblocks", "inv", "getdata", "block"}
BY DEF MessageOf

\* How many blocks there may be.
LEMMA BlockBounds ==
    ASSUME Typed
    PROVE  /\ Len(parent) \in Nat /\ Len(parent) <= MaxBlocks /\ setup.blocks \in Nat
           /\ Links \subseteq Nodes \X Nodes
BY SetupAssumption DEF Typed, Links

\* A chain, its last block and the version its node would send.
LEMMA ChainFacts ==
    ASSUME Typed, Rising, NEW n \in Nodes
    PROVE  /\ chain[n] \in Seq(Mined) /\ Len(chain[n]) \in 0..Len(parent)
           /\ DOMAIN chain[n] = 1..Len(chain[n])
           /\ Tip(n) = IF Len(chain[n]) = 0 THEN 0 ELSE chain[n][Len(chain[n])]
           /\ Tip(n) \in 0..Len(parent) /\ Tip(n) >= Len(chain[n])
           /\ MyVersion(chain[n]) = Version(Len(chain[n]), Tip(n))
           /\ MyVersion(chain[n]) \in MessageOf(Len(parent))
<1>1. chain[n] \in Seq(Mined) /\ Len(parent) \in Nat BY DEF Typed
<1>2. /\ DOMAIN chain[n] = 1..Len(chain[n]) /\ Len(chain[n]) \in Nat
      /\ Len(chain[n]) = 0 <=> chain[n] = <<>>
      /\ \A i \in 1..Len(chain[n]) : chain[n][i] \in Mined
  BY <1>1
<1>3. Tip(n) = IF Len(chain[n]) = 0 THEN 0 ELSE chain[n][Len(chain[n])]
  BY <1>2 DEF Tip, Last
<1>4. Tip(n) \in 0..Len(parent) /\ Tip(n) >= Len(chain[n])
  <2>1. CASE Len(chain[n]) = 0 BY <1>1, <1>3, <2>1
  <2>2. CASE Len(chain[n]) # 0
    <3>1. Len(chain[n]) \in DOMAIN chain[n] BY <1>2, <2>2
    <3>2. chain[n][Len(chain[n])] \in 1..Len(parent) BY <1>2, <3>1 DEF Mined
    <3>3. chain[n][Len(chain[n])] >= Len(chain[n]) BY <3>1 DEF Rising
    <3> QED BY <1>1, <1>2, <1>3, <2>2, <3>2, <3>3
  <2> QED BY <2>1, <2>2
<1>5. MyVersion(chain[n]) = Version(Len(chain[n]), Tip(n)) BY DEF MyVersion, Tip
<1>6. Version(Len(chain[n]), Tip(n)) \in MessageOf(Len(parent))
  BY <1>1, <1>2, <1>4 DEF Version, MessageOf
<1> QED BY <1>1, <1>2, <1>3, <1>4, <1>5, <1>6

\* The message a handler takes.
LEMMA Taken ==
    ASSUME Typed, NEW n, NEW p, NEW type, Receives(n, p, type)
    PROVE  /\ n \in Nodes /\ p \in Nodes /\ n # p /\ <<n, p>> \in Links /\ <<p, n>> \in Links
           /\ net[<<p, n>>] \in Seq(MessageOf(Len(parent))) /\ net[<<p, n>>] # <<>>
           /\ Msg(n, p) = net[<<p, n>>][1] /\ 1 \in DOMAIN net[<<p, n>>]
           /\ Msg(n, p) \in MessageOf(Len(parent)) /\ Msg(n, p).type = type
<1>1. <<p, n>> \in Links /\ net[<<p, n>>] # <<>> /\ Msg(n, p).type = type
  BY DEF Receives, Msg
<1>2. n \in Nodes /\ p \in Nodes /\ n # p /\ <<n, p>> \in Links BY <1>1, LinkFacts DEF Typed
<1>3. net[<<p, n>>] \in Seq(MessageOf(Len(parent))) BY <1>1 DEF Typed
<1>4. Head(net[<<p, n>>]) = net[<<p, n>>][1] /\ 1 \in DOMAIN net[<<p, n>>]
      /\ Head(net[<<p, n>>]) \in MessageOf(Len(parent))
  BY <1>1, <1>3
<1> QED BY <1>1, <1>2, <1>3, <1>4 DEF Msg

\* A handler that answers, or not, and leaves the chains alone.
LEMMA TypedReply ==
    ASSUME Typed, NEW n, NEW p, NEW type, Receives(n, p, type)
    PROVE  /\ Consume(n, p, Nothing) => net' \in [Links -> Seq(MessageOf(Len(parent)))]
           /\ \A m \in MessageOf(Len(parent)) : Consume(n, p, Reply(p, m)) =>
                 net' \in [Links -> Seq(MessageOf(Len(parent)))]
<1> DEFINE M == MessageOf(Len(parent))
<1>1. net \in [Links -> Seq(M)] BY DEF Typed
<1>2. n # p /\ <<n, p>> \in Links /\ <<p, n>> \in Links /\ net[<<p, n>>] # <<>> /\ Msg(n, p) \in M
  BY Taken
<1>3. <<n, p>> # <<p, n>> BY <1>2
<1>4. ASSUME Consume(n, p, Nothing) PROVE net' \in [Links -> Seq(M)]
  <2>1. net' = [net EXCEPT ![<<p, n>>] = Tail(@)] BY <1>4, NetNothing
  <2> HIDE DEF M
  <2> QED BY <1>1, <1>2, <1>3, <2>1, TypedNet
<1>5. ASSUME NEW m \in M, Consume(n, p, Reply(p, m)) PROVE net' \in [Links -> Seq(M)]
  <2>1. /\ alive[p] => net' = [net EXCEPT ![<<p, n>>] = Tail(@), ![<<n, p>>] = Append(@, m)]
        /\ ~alive[p] => net' = [net EXCEPT ![<<p, n>>] = Tail(@)]
    BY <1>5, NetReply
  <2> HIDE DEF M
  <2>2. /\ [net EXCEPT ![<<p, n>>] = Tail(@)] \in [Links -> Seq(M)]
        /\ [net EXCEPT ![<<p, n>>] = Tail(@), ![<<n, p>>] = Append(@, m)] \in [Links -> Seq(M)]
    BY <1>1, <1>2, <1>3, <1>5, TypedNet
  <2> QED BY <2>1, <2>2, Zenon
<1> QED BY <1>4, <1>5

\* AnyInv is kept by a step that leaves the chains and the lists alone.
LEMMA AnyQuiet ==
    ASSUME AnyInv, net' \in [Links -> Seq(MessageOf(Len(parent)))], alive' \in [Nodes -> BOOLEAN],
           UNCHANGED <<setup, parent, chain, known, inTransit, inTransitSet>>
    PROVE  AnyInv'
BY DEF AnyInv, Typed, Rising, KnownStored, ChainsLinked, Mined, Links

\* AnyInv is kept by handleVersion.
LEMMA AnyVersion ==
    ASSUME AnyInv, NEW n, NEW p, VersionAhead(n, p) \/ VersionNotAhead(n, p)
    PROVE  AnyInv'
<1> USE DEF AnyInv
<1>1. CASE VersionAhead(n, p)
  <2>1. Receives(n, p, "version") /\ n \in Nodes BY <1>1, Taken DEF VersionAhead
  <2>2. GetBlocks(Tip(n)) \in MessageOf(Len(parent)) BY <2>1, ChainFacts DEF GetBlocks, MessageOf
  <2>3. net' \in [Links -> Seq(MessageOf(Len(parent)))] BY <1>1, <2>1, <2>2, TypedReply DEF VersionAhead
  <2> QED BY <1>1, <2>3, AnyQuiet DEF VersionAhead, Typed
<1>2. CASE VersionNotAhead(n, p)
  <2>1. net' \in [Links -> Seq(MessageOf(Len(parent)))] BY <1>2, TypedReply DEF VersionNotAhead
  <2> QED BY <1>2, <2>1, AnyQuiet DEF VersionNotAhead, Typed
<1> QED BY <1>1, <1>2

\* AnyInv is kept when a process ends.
LEMMA AnyPanic ==
    ASSUME AnyInv, NEW n, Panic(n)
    PROVE  AnyInv'
<1>1. net' \in [Links -> Seq(MessageOf(Len(parent)))]
  <2>1. <<>> \in Seq(MessageOf(Len(parent))) OBVIOUS
  <2> QED BY <2>1 DEF AnyInv, Typed, Panic
<1>2. alive' \in [Nodes -> BOOLEAN] BY DEF AnyInv, Typed, Panic
<1> QED BY <1>1, <1>2, AnyQuiet DEF Panic

\* AnyInv is kept by handleGetData.
LEMMA AnyGetData ==
    ASSUME AnyInv, NEW n, NEW p, HandleGetData(n, p)
    PROVE  AnyInv'
<1> USE DEF AnyInv
<1>1. Receives(n, p, "getdata") /\ Len(parent) \in Nat BY DEF HandleGetData, Typed
<1>2. Msg(n, p).block \in 1..Len(parent)
  <2>1. Msg(n, p) \in MessageOf(Len(parent)) /\ Msg(n, p).type = "getdata" BY <1>1, Taken
  <2> QED BY <1>1, <2>1, MessageFields
<1>3. BlockMsg(Msg(n, p).block) \in MessageOf(Len(parent)) BY <1>2 DEF BlockMsg, MessageOf
<1>4. net' \in [Links -> Seq(MessageOf(Len(parent)))] BY <1>1, <1>3, TypedReply DEF HandleGetData
<1> QED BY <1>4, AnyQuiet DEF HandleGetData, Typed

\* AnyInv is kept by handleBlock when the block does not link.
LEMMA AnyRejected ==
    ASSUME AnyInv, NEW n, NEW p, BlockRejected(n, p)
    PROVE  AnyInv'
<1>1. net' \in [Links -> Seq(MessageOf(Len(parent)))] BY TypedReply DEF BlockRejected, AnyInv
<1> QED BY <1>1, AnyQuiet DEF BlockRejected, AnyInv, Typed

\* AnyInv is kept by handleInv.
LEMMA AnyInvMsg ==
    ASSUME AnyInv, NEW n, NEW p, HandleInv(n, p)
    PROVE  AnyInv'
<1> DEFINE items == Msg(n, p).items
           first == Last(items)
<1>1. Receives(n, p, "inv") /\ Len(parent) \in Nat /\ Typed BY DEF HandleInv, AnyInv, Typed
<1>2. n \in Nodes /\ items \in Seq(Mined) /\ items # <<>> BY <1>1, Taken, MessageFields DEF Mined
<1>3. first \in Mined /\ ToSet(items) \subseteq Mined BY <1>2 DEF Last, ToSet
<1>4. Without(items, {first}) \in Seq(Mined) BY <1>2, WithoutPicks
<1> HIDE DEF items
<1>5. GetData(first) \in MessageOf(Len(parent)) BY <1>3 DEF GetData, MessageOf, Mined
<1>6. net' \in [Links -> Seq(MessageOf(Len(parent)))]
  BY <1>1, <1>5, TypedReply DEF HandleInv, items
<1>7. inTransit' \in [Nodes -> Seq(Mined)] BY <1>1, <1>2, <1>4 DEF HandleInv, Typed, items
<1>8. inTransitSet' \in [Nodes -> SUBSET Mined] BY <1>1, <1>2, <1>3 DEF HandleInv, Typed, items
<1>9. UNCHANGED <<setup, parent, chain, known, alive>> BY DEF HandleInv
<1> QED BY <1>6, <1>7, <1>8, <1>9
        DEF AnyInv, Typed, Rising, KnownStored, ChainsLinked, Mined, Links

\* What GetBlockHashes returns: blocks of the chain; on a chain that is numbered
\* through, those above the given one, each once.
LEMMA Hashes ==
    ASSUME NEW S, NEW c \in Seq(S), NEW last
    PROVE  LET H == GetBlockHashes(c, last) IN
           \E stop \in 0..Len(c) :
              /\ stop = 0 => last \notin ToSet(c)
              /\ stop > 0 => c[stop] = last
              /\ H \in Seq(S) /\ Len(H) = Len(c) - stop
              /\ \A k \in 1..Len(H) : H[k] = c[Len(c) + 1 - k]
<1> DEFINE stop == IF last \in ToSet(c) THEN CHOOSE i \in DOMAIN c : c[i] = last ELSE 0
           d == SubSeq(c, stop + 1, Len(c))
           H == Reverse(d)
<1>1. stop \in 0..Len(c) /\ (stop = 0 => last \notin ToSet(c)) /\ (stop > 0 => c[stop] = last)
  <2>1. CASE last \in ToSet(c)
    <3>1. \E i \in DOMAIN c : c[i] = last BY <2>1 DEF ToSet
    <3>2. stop \in DOMAIN c /\ c[stop] = last BY <2>1, <3>1
    <3> QED BY <3>2
  <2>2. CASE last \notin ToSet(c) BY <2>2
  <2> QED BY <2>1, <2>2
<1>2. GetBlockHashes(c, last) = H BY DEF GetBlockHashes
<1> HIDE DEF stop
<1>3. /\ d \in Seq(S) /\ Len(d) = Len(c) - stop
      /\ \A k \in 1..Len(d) : d[k] = c[stop + k]
  BY <1>1
<1> HIDE DEF d
<1>4. H = [k \in 1..Len(d) |-> d[(Len(d) - k) + 1]] BY DEF Reverse
<1>5. Len(d) \in Nat BY <1>3
<1>6. \A k \in 1..Len(d) : (Len(d) - k) + 1 \in 1..Len(d) /\ d[(Len(d) - k) + 1] \in S
  BY <1>3, <1>5
<1>7. H \in Seq(S) /\ Len(H) = Len(d)
  <2>1. H \in [1..Len(d) -> S] BY <1>4, <1>6
  <2> QED BY <1>5, <2>1
<1> HIDE DEF H
<1>8. \A k \in 1..Len(H) : H[k] = c[Len(c) + 1 - k]
  <2> SUFFICES ASSUME NEW k \in 1..Len(H) PROVE H[k] = c[Len(c) + 1 - k]
    OBVIOUS
  <2>1. k \in 1..Len(d) BY <1>7
  <2>2. H[k] = d[(Len(d) - k) + 1] BY <1>4, <2>1
  <2>3. d[(Len(d) - k) + 1] = c[stop + ((Len(d) - k) + 1)] BY <1>3, <1>6, <2>1
  <2>4. stop + ((Len(d) - k) + 1) = Len(c) + 1 - k BY <1>1, <1>3, <1>5, <2>1
  <2> QED BY <2>2, <2>3, <2>4
<1> QED BY <1>1, <1>2, <1>3, <1>7, <1>8

\* handleGetBlocks: what is announced is on the chain and not noted yet; on the
\* chain of one source it comes after the given block, each block once.
LEMMA Announced ==
    ASSUME NEW k \in Nat, NEW c \in Seq(1..k), NEW last \in Nat, NEW K
    PROVE  LET new == Without(GetBlockHashes(c, last), K) IN
           /\ new \in Seq(1..k)
           /\ \A i \in DOMAIN new : new[i] \in ToSet(c) /\ new[i] \notin K
           /\ (\A i \in DOMAIN c : c[i] = i) =>
                 /\ \A i \in DOMAIN new : last <= Len(c) => new[i] > last
                 /\ \A i, j \in DOMAIN new : i # j => new[i] # new[j]
<1> DEFINE H == GetBlockHashes(c, last)
           new == Without(H, K)
<1>1. PICK stop \in 0..Len(c) :
              /\ stop = 0 => last \notin ToSet(c)
              /\ stop > 0 => c[stop] = last
              /\ H \in Seq(1..k) /\ Len(H) = Len(c) - stop
              /\ \A i \in 1..Len(H) : H[i] = c[Len(c) + 1 - i]
  BY Hashes
<1> HIDE DEF H
<1>2. new \in Seq(1..k) /\ PickedFrom(new, H, Len(H), K) BY <1>1, WithoutPicks
<1> HIDE DEF new
<1>3. PICK g \in [1..Len(new) -> 1..Len(H)] :
        /\ \A i \in 1..Len(new) : new[i] = H[g[i]] /\ new[i] \notin K
        /\ \A i, j \in 1..Len(new) : i # j => g[i] # g[j]
  BY <1>2 DEF PickedFrom
<1>4. DOMAIN new = 1..Len(new) /\ DOMAIN c = 1..Len(c) /\ Len(c) \in Nat BY <1>2
<1>5. ASSUME NEW i \in DOMAIN new
      PROVE  /\ new[i] \notin K /\ g[i] \in 1..(Len(c) - stop)
             /\ Len(c) + 1 - g[i] \in DOMAIN c /\ Len(c) + 1 - g[i] > stop
             /\ new[i] = c[Len(c) + 1 - g[i]]
  <2> DEFINE k0 == g[i]
  <2>1. k0 \in 1..Len(H) /\ new[i] = H[k0] /\ new[i] \notin K BY <1>3, <1>4
  <2> HIDE DEF k0
  <2>2. k0 \in 1..(Len(c) - stop) BY <1>1, <2>1
  <2>3. H[k0] = c[Len(c) + 1 - k0] BY <1>1, <2>1
  <2>4. Len(c) + 1 - k0 \in 1..Len(c) /\ Len(c) + 1 - k0 > stop
    <3> DEFINE L == Len(c)
    <3>1. L \in Nat /\ stop \in Nat /\ k0 \in Nat /\ 1 <= k0 /\ k0 <= L - stop BY <1>4, <2>2
    <3> HIDE DEF L
    <3>2. L + 1 - k0 \in 1..L /\ L + 1 - k0 > stop BY <3>1
    <3> QED BY <3>2 DEF L
  <2> QED BY <1>4, <2>1, <2>2, <2>3, <2>4 DEF k0
<1>6. \A i \in DOMAIN new : new[i] \in ToSet(c) /\ new[i] \notin K BY <1>5 DEF ToSet
<1>7. ASSUME \A i \in DOMAIN c : c[i] = i
      PROVE  /\ \A i \in DOMAIN new : last <= Len(c) => new[i] > last
             /\ \A i, j \in DOMAIN new : i # j => new[i] # new[j]
  <2>1. \A i \in DOMAIN new : new[i] = Len(c) + 1 - g[i] BY <1>5, <1>7
  <2>2. \A i, j \in DOMAIN new : i # j => new[i] # new[j] BY <1>3, <1>4, <1>5, <2>1
  <2>3. last <= Len(c) => stop = last
    <3>1. CASE stop > 0
      <4>1. stop \in DOMAIN c /\ c[stop] = last BY <1>1, <1>4, <3>1
      <4> QED BY <1>7, <4>1
    <3>2. CASE stop = 0
      <4>1. last \in 1..Len(c) => last \in ToSet(c) BY <1>4, <1>7 DEF ToSet
      <4> QED BY <1>1, <3>2, <4>1
    <3> QED BY <3>1, <3>2
  <2> QED BY <1>4, <1>5, <2>1, <2>2, <2>3
<1> QED BY <1>2, <1>6, <1>7 DEF new, H

\* AnyInv is kept by handleGetBlocks.
LEMMA AnyGetBlocks ==
    ASSUME AnyInv, NEW n, NEW p, HandleGetBlocks(n, p)
    PROVE  AnyInv'
<1> DEFINE new == Without(GetBlockHashes(chain[n], Msg(n, p).last), known[<<n, p>>])
<1>1. Receives(n, p, "getblocks") /\ Len(parent) \in Nat /\ Typed BY DEF HandleGetBlocks, AnyInv, Typed
<1>2. n \in Nodes /\ <<n, p>> \in Links BY <1>1, Taken
<1>3. Msg(n, p).last \in Nat
  <2>1. Msg(n, p) \in MessageOf(Len(parent)) /\ Msg(n, p).type = "getblocks" BY <1>1, Taken
  <2> QED BY <1>1, <2>1, MessageFields
<1>4. new \in Seq(1..Len(parent)) /\ \A i \in DOMAIN new : new[i] \in ToSet(chain[n])
  <2>1. chain[n] \in Seq(1..Len(parent)) BY <1>1, <1>2 DEF Typed, Mined
  <2> QED BY <1>1, <1>3, <2>1, Announced
<1> HIDE DEF new
<1>5. new # <<>> => Inv(new) \in MessageOf(Len(parent)) BY <1>4 DEF Inv, MessageOf
<1>6. net' \in [Links -> Seq(MessageOf(Len(parent)))]
  <2>1. Consume(n, p, IF new = <<>> THEN Nothing ELSE Reply(p, Inv(new)))
    BY DEF HandleGetBlocks, new
  <2>2. CASE new = <<>> BY <1>1, <2>1, <2>2, TypedReply
  <2>3. CASE new # <<>> BY <1>1, <1>5, <2>1, <2>3, TypedReply
  <2> QED BY <2>2, <2>3
<1>7. ToSet(new) \subseteq Mined /\ ToSet(new) \subseteq ToSet(chain[n]) BY <1>4 DEF ToSet, Mined
<1>8. known' = [known EXCEPT ![<<n, p>>] = @ \cup ToSet(new)] BY DEF HandleGetBlocks, new
<1>9. UNCHANGED <<setup, parent, chain, inTransit, inTransitSet, alive>> BY DEF HandleGetBlocks
<1>10. known' \in [Links -> SUBSET Mined] BY <1>1, <1>2, <1>7, <1>8 DEF Typed
<1>11. \A l \in Links : known'[l] \subseteq ToSet(chain[l[1]])
  BY <1>1, <1>2, <1>7, <1>8 DEF Typed, AnyInv, KnownStored
<1> QED BY <1>6, <1>9, <1>10, <1>11
        DEF AnyInv, Typed, Rising, KnownStored, ChainsLinked, Mined, Links

\* A block is put on top of a chain.
LEMMA Extended ==
    ASSUME NEW S, NEW c \in Seq(S), NEW b \in S
    PROVE  /\ ToSet(Append(c, b)) = ToSet(c) \cup {b}
           /\ Append(c, b) \in Seq(S) /\ Len(Append(c, b)) = Len(c) + 1
           /\ Append(c, b)[Len(c) + 1] = b /\ DOMAIN Append(c, b) = 1..(Len(c) + 1)
           /\ \A i \in 1..Len(c) : Append(c, b)[i] = c[i] /\ c[i] \in S
           /\ Append(c, b) # <<>> /\ Last(Append(c, b)) = b
BY DEF ToSet, Last

\* What handleBlock does when it adds a block.  By KnownStored the test of
\* knownBlocks never keeps it from storing the block.
LEMMA BlockFacts ==
    ASSUME AnyInv, NEW n, NEW p, BlockAdded(n, p)
    PROVE  LET b == Msg(n, p).block IN
           /\ Receives(n, p, "block") /\ n \in Nodes /\ p \in Nodes /\ <<n, p>> \in Links
           /\ b \in Mined /\ b \notin ToSet(chain[n]) /\ parent[b] = Tip(n)
           /\ b >= Len(chain[n]) + 1
           /\ chain' = [chain EXCEPT ![n] = Append(@, b)]
           /\ known' = [known EXCEPT ![<<n, p>>] = @ \cup {b}]
           /\ MyVersion(chain'[n]) = Version(Len(chain[n]) + 1, b)
           /\ MyVersion(chain'[n]) \in MessageOf(Len(parent))
<1> DEFINE b == Msg(n, p).block
<1>1. Receives(n, p, "block") /\ Len(parent) \in Nat /\ Typed /\ Rising
  BY DEF BlockAdded, AnyInv, Typed
<1>2. n \in Nodes /\ p \in Nodes /\ <<n, p>> \in Links /\ Msg(n, p) \in MessageOf(Len(parent))
      /\ Msg(n, p).type = "block"
  BY <1>1, Taken
<1>3. b \in Mined BY <1>1, <1>2, MessageFields DEF Mined
<1>4. b \notin ToSet(chain[n]) /\ parent[b] = Tip(n) BY DEF BlockAdded, LinksToTip
<1>5. b \notin known[<<n, p>>] BY <1>2, <1>4 DEF AnyInv, KnownStored
<1>6. /\ chain' = [chain EXCEPT ![n] = Append(@, b)]
      /\ known' = [known EXCEPT ![<<n, p>>] = @ \cup {b}]
  BY <1>5 DEF BlockAdded
<1>7. /\ chain[n] \in Seq(Mined) /\ Len(chain[n]) \in Nat /\ Tip(n) \in Nat
      /\ Tip(n) >= Len(chain[n])
  BY <1>1, <1>2, ChainFacts
<1> HIDE DEF b
<1>8. b \in Nat /\ b <= Len(parent) /\ parent[b] < b BY <1>1, <1>3 DEF Mined, Rising
<1>9. b >= Len(chain[n]) + 1 BY <1>4, <1>7, <1>8
<1>10. chain'[n] = Append(chain[n], b) BY <1>1, <1>2, <1>6 DEF Typed
<1>11. MyVersion(chain'[n]) = Version(Len(chain[n]) + 1, b)
  BY <1>3, <1>7, <1>10, Extended DEF MyVersion
<1>12. Version(Len(chain[n]) + 1, b) \in MessageOf(Len(parent))
  BY <1>1, <1>7, <1>8, <1>9 DEF Version, MessageOf
<1> QED BY <1>1, <1>2, <1>3, <1>4, <1>6, <1>9, <1>11, <1>12 DEF b

\* AnyInv is kept by handleBlock when it adds the block.
LEMMA AnyAdded ==
    ASSUME AnyInv, NEW n, NEW p, BlockAdded(n, p)
    PROVE  AnyInv'
<1> DEFINE b == Msg(n, p).block
           M == MessageOf(Len(parent))
           rest == inTransit[n]
<1>1. /\ Receives(n, p, "block") /\ n \in Nodes /\ p \in Nodes /\ <<n, p>> \in Links
      /\ b \in Mined /\ b \notin ToSet(chain[n]) /\ parent[b] = Tip(n)
      /\ b >= Len(chain[n]) + 1
      /\ chain' = [chain EXCEPT ![n] = Append(@, b)]
      /\ known' = [known EXCEPT ![<<n, p>>] = @ \cup {b}]
      /\ MyVersion(chain'[n]) \in M
  BY BlockFacts
<1>2. Typed /\ Rising /\ Len(parent) \in Nat /\ rest \in Seq(Mined) BY <1>1 DEF AnyInv, Typed
<1>3. net' \in [Links -> Seq(M)]
  <2>1. CASE Consume(n, p, Nothing) BY <1>1, <1>2, <2>1, TypedReply
  <2>2. CASE rest # <<>> /\ Consume(n, p, Reply(p, GetData(Last(rest))))
    <3>1. Last(rest) \in Mined BY <1>2, <2>2 DEF Last
    <3>2. GetData(Last(rest)) \in M BY <3>1 DEF GetData, MessageOf, Mined
    <3> QED BY <1>1, <1>2, <2>2, <3>2, TypedReply
  <2>3. CASE Consume(n, p, ToAll(MyVersion(chain'[n])))
    <3> DEFINE m == MyVersion(chain'[n])
    <3>1. m \in M BY <1>1
    <3> HIDE DEF m
    <3>2. Consume(n, p, ToAll(m)) BY <2>3 DEF m
    <3>3. net' = [l \in Links |-> IF l = <<p, n>> THEN Tail(net[l])
                                   ELSE IF l[1] = n /\ alive[l[2]] THEN Append(net[l], m)
                                   ELSE net[l]]
      BY <1>1, <1>2, <3>1, <3>2, NetToAll
    <3>4. net[<<p, n>>] # <<>> BY <1>1, <1>2, Taken
    <3>5. \A l \in Links : net[l] \in Seq(M) BY <1>2 DEF Typed
    <3> HIDE DEF M
    <3>6. \A l \in Links : net'[l] \in Seq(M)
      <4> SUFFICES ASSUME NEW l \in Links PROVE net'[l] \in Seq(M) OBVIOUS
      <4>1. CASE l = <<p, n>> BY <3>3, <3>4, <3>5, <4>1
      <4>2. CASE l # <<p, n>> BY <3>1, <3>3, <3>5, <4>2
      <4> QED BY <4>1, <4>2
    <3> QED BY <3>3, <3>6
  <2> QED BY <2>1, <2>2, <2>3 DEF BlockAdded
<1>4. inTransit' \in [Nodes -> Seq(Mined)]
  <2>1. rest # <<>> => Front(rest) \in Seq(Mined) BY <1>2 DEF Front
  <2> QED BY <1>1, <1>2, <2>1 DEF Typed, BlockAdded
<1>5. inTransitSet' \in [Nodes -> SUBSET Mined]
  <2>1. inTransitSet \in [Nodes -> SUBSET Mined] BY <1>2 DEF Typed
  <2>2. \/ inTransitSet' = inTransitSet
        \/ inTransitSet' = [inTransitSet EXCEPT ![n] = @ \ {b}]
    BY DEF BlockAdded
  <2>3. inTransitSet[n] \ {b} \in SUBSET Mined BY <1>1, <2>1
  <2> QED BY <2>1, <2>2, <2>3
<1>6. UNCHANGED <<setup, parent, alive>> BY DEF BlockAdded
<1> HIDE DEF b
<1>7. chain[n] \in Seq(Mined) /\ chain'[n] = Append(chain[n], b)
      /\ \A q \in Nodes \ {n} : chain'[q] = chain[q]
  BY <1>1, <1>2 DEF Typed
<1>8. Append(chain[n], b) \in Seq(Mined) BY <1>1, <1>7, Extended
<1>9. chain' \in [Nodes -> Seq(Mined)] BY <1>1, <1>2, <1>8 DEF Typed
<1>10. known' \in [Links -> SUBSET Mined] BY <1>1, <1>2 DEF Typed
<1>11. ASSUME NEW q \in Nodes
       PROVE  \A i \in DOMAIN chain'[q] :
                 /\ chain'[q][i] >= i
                 /\ parent[chain'[q][i]] = IF i = 1 THEN 0 ELSE chain'[q][i - 1]
  <2>1. CASE q # n BY <1>2, <1>7, <2>1 DEF Rising, AnyInv, ChainsLinked
  <2>2. CASE q = n
    <3> DEFINE c == chain[n]
               k == Len(c)
    <3>1. /\ k \in Nat /\ DOMAIN Append(c, b) = 1..(k + 1) /\ DOMAIN c = 1..k
          /\ Append(c, b)[k + 1] = b /\ \A i \in 1..k : Append(c, b)[i] = c[i]
      BY <1>1, <1>7, Extended
    <3>2. parent[b] = IF k = 0 THEN 0 ELSE c[k] BY <1>1, <1>2, ChainFacts
    <3>3. \A i \in 1..k : c[i] >= i /\ parent[c[i]] = IF i = 1 THEN 0 ELSE c[i - 1]
      BY <1>1, <1>2, <3>1 DEF Rising, AnyInv, ChainsLinked
    <3>4. b >= k + 1 BY <1>1
    <3> HIDE DEF c, k
    <3>5. \A i \in 1..(k + 1) :
             /\ Append(c, b)[i] >= i
             /\ parent[Append(c, b)[i]] = IF i = 1 THEN 0 ELSE Append(c, b)[i - 1]
      <4> SUFFICES ASSUME NEW i \in 1..(k + 1)
                   PROVE  /\ Append(c, b)[i] >= i
                          /\ parent[Append(c, b)[i]] = IF i = 1 THEN 0 ELSE Append(c, b)[i - 1]
        OBVIOUS
      <4>1. CASE i = k + 1 BY <3>1, <3>2, <3>4, <4>1
      <4>2. CASE i \in 1..k BY <3>1, <3>3, <4>2
      <4> QED BY <3>1, <4>1, <4>2
    <3> QED BY <1>7, <2>2, <3>1, <3>5 DEF c
  <2> QED BY <2>1, <2>2
<1>12. \A l \in Links : known'[l] \subseteq ToSet(chain'[l[1]])
  <2> SUFFICES ASSUME NEW l \in Links PROVE known'[l] \subseteq ToSet(chain'[l[1]]) OBVIOUS
  <2>1. known[l] \subseteq ToSet(chain[l[1]]) /\ l[1] \in Nodes
    BY <1>2, LinkPairs DEF AnyInv, KnownStored, Typed
  <2>2. l[1] = n => ToSet(chain'[l[1]]) = ToSet(chain[l[1]]) \cup {b} BY <1>1, <1>7, Extended
  <2>3. l[1] # n => known'[l] = known[l] /\ chain'[l[1]] = chain[l[1]]
    BY <1>1, <1>2, <1>7, <2>1 DEF Typed
  <2>4. known'[l] \subseteq known[l] \cup {b} BY <1>1, <1>2 DEF Typed
  <2> QED BY <2>1, <2>2, <2>3, <2>4
<1> HIDE DEF M, rest
<1>13. Typed' BY <1>2, <1>3, <1>4, <1>5, <1>6, <1>9, <1>10 DEF Typed, Mined, M, Links
<1>14. Rising' BY <1>2, <1>6, <1>11 DEF Rising, Mined
<1>15. KnownStored' BY <1>6, <1>12 DEF KnownStored, Links
<1>16. ChainsLinked' BY <1>6, <1>11 DEF ChainsLinked
<1> QED BY <1>13, <1>14, <1>15, <1>16 DEF AnyInv

\* What a mining node does.
LEMMA MineFacts ==
    ASSUME AnyInv, NEW n \in Nodes, Mine(n)
    PROVE  LET b == Len(parent) + 1 IN
           /\ Len(parent) \in Nat /\ b <= setup.blocks
           /\ parent' = Append(parent, Tip(n)) /\ Len(parent') = b /\ parent' \in Seq(Nat)
           /\ chain' = [chain EXCEPT ![n] = Append(@, b)]
           /\ chain'[n] = Append(chain[n], b) /\ Append(chain[n], b) \in Seq(1..b)
           /\ MyVersion(chain'[n]) = Version(Len(chain[n]) + 1, b)
           /\ MyVersion(chain'[n]) \in MessageOf(b)
           /\ net' = [l \in Links |-> IF l[1] = n /\ alive[l[2]]
                                      THEN Append(net[l], MyVersion(chain'[n])) ELSE net[l]]
           /\ UNCHANGED <<setup, known, inTransit, inTransitSet, alive>>
<1> DEFINE b == Len(parent) + 1
<1>1. Typed /\ Rising /\ Len(parent) \in Nat /\ parent \in Seq(Nat) BY DEF AnyInv, Typed
<1>2. chain[n] \in Seq(Mined) /\ Len(chain[n]) \in 0..Len(parent) /\ Tip(n) \in 0..Len(parent)
  BY <1>1, ChainFacts
<1>3. /\ b <= setup.blocks /\ parent' = Append(parent, Tip(n))
      /\ chain' = [chain EXCEPT ![n] = Append(@, b)]
      /\ net' = [l \in Links |-> IF l[1] = n /\ alive[l[2]]
                                 THEN Append(net[l], MyVersion(chain'[n])) ELSE net[l]]
      /\ UNCHANGED <<setup, known, inTransit, inTransitSet, alive>>
  BY DEF Mine
<1>4. Len(parent') = b /\ parent' \in Seq(Nat) BY <1>1, <1>2, <1>3
<1>5. chain'[n] = Append(chain[n], b) BY <1>1, <1>3 DEF Typed
<1>6. chain[n] \in Seq(1..b) BY <1>1, <1>2, MessagesGrow DEF Mined
<1>7. Append(chain[n], b) \in Seq(1..b) /\ MyVersion(chain'[n]) = Version(Len(chain[n]) + 1, b)
  <2>1. b \in 1..b BY <1>1
  <2> HIDE DEF b
  <2>2. /\ Append(chain[n], b) \in Seq(1..b) /\ Append(chain[n], b) # <<>>
        /\ Len(Append(chain[n], b)) = Len(chain[n]) + 1 /\ Last(Append(chain[n], b)) = b
    BY <1>6, <2>1, Extended
  <2> QED BY <1>5, <2>2 DEF MyVersion
<1>8. Version(Len(chain[n]) + 1, b) \in MessageOf(b) BY <1>1, <1>2 DEF Version, MessageOf
<1> QED BY <1>1, <1>3, <1>4, <1>5, <1>7, <1>8

\* AnyInv is kept by mining.
LEMMA AnyMine ==
    ASSUME AnyInv, NEW n \in Nodes, Mine(n)
    PROVE  AnyInv'
<1> DEFINE k == Len(parent)
           b == k + 1
           m == MyVersion(chain'[n])
<1>1. /\ k \in Nat /\ b <= setup.blocks
      /\ parent' = Append(parent, Tip(n)) /\ Len(parent') = b /\ parent' \in Seq(Nat)
      /\ chain' = [chain EXCEPT ![n] = Append(@, b)]
      /\ chain'[n] = Append(chain[n], b) /\ Append(chain[n], b) \in Seq(1..b)
      /\ m \in MessageOf(b)
      /\ net' = [l \in Links |-> IF l[1] = n /\ alive[l[2]] THEN Append(net[l], m) ELSE net[l]]
      /\ UNCHANGED <<setup, known, inTransit, inTransitSet, alive>>
  BY MineFacts
<1> HIDE DEF m
<1>2. Typed /\ Rising /\ parent \in Seq(Nat) BY DEF AnyInv, Typed
<1>3. /\ Seq(MessageOf(k)) \subseteq Seq(MessageOf(b)) /\ Seq(1..k) \subseteq Seq(1..b)
      /\ 1..k \subseteq 1..b
  <2>1. k \in Nat /\ b \in Nat /\ k <= b BY <1>1
  <2> HIDE DEF k, b
  <2> QED BY <2>1, MessagesGrow
<1>4. /\ chain[n] \in Seq(1..k) /\ Len(chain[n]) \in 0..k /\ Tip(n) \in 0..k
      /\ DOMAIN chain[n] = 1..Len(chain[n])
      /\ Tip(n) = IF Len(chain[n]) = 0 THEN 0 ELSE chain[n][Len(chain[n])]
  BY <1>2, ChainFacts DEF Mined
<1>5. /\ parent'[b] = Tip(n) /\ \A i \in 1..k : parent'[i] = parent[i] /\ parent[i] \in Nat
      /\ DOMAIN parent = 1..k
  <2>1. parent \in Seq(Nat) /\ parent' = Append(parent, Tip(n)) /\ Tip(n) \in Nat
    BY <1>1, <1>2, <1>4
  <2> QED BY <2>1
<1>6. \A q \in Nodes \ {n} : chain'[q] = chain[q] BY <1>1, <1>2 DEF Typed
<1>7. chain' \in [Nodes -> Seq(1..b)]
  <2>1. \A q \in Nodes : chain[q] \in Seq(1..b) BY <1>2, <1>3 DEF Typed, Mined
  <2> QED BY <1>1, <1>2, <2>1 DEF Typed
<1>8. net' \in [Links -> Seq(MessageOf(b))]
  <2> DEFINE M == MessageOf(b)
  <2>1. \A l \in Links : net[l] \in Seq(M) BY <1>2, <1>3 DEF Typed
  <2>2. m \in M BY <1>1
  <2> HIDE DEF M
  <2>3. \A l \in Links : Append(net[l], m) \in Seq(M) BY <2>1, <2>2
  <2>4. net' \in [Links -> Seq(M)] BY <1>1, <2>1, <2>3
  <2> QED BY <2>4 DEF M
<1>9. known' \in [Links -> SUBSET (1..b)] BY <1>1, <1>2, <1>3 DEF Typed, Mined
<1>10. inTransit' \in [Nodes -> Seq(1..b)]
  <2>1. inTransit \in [Nodes -> Seq(1..k)] BY <1>2 DEF Typed, Mined
  <2> QED BY <1>1, <1>3, <2>1
<1>11. inTransitSet' \in [Nodes -> SUBSET (1..b)] BY <1>1, <1>2, <1>3 DEF Typed, Mined
<1>12. \A i \in 1..b : parent'[i] < i
  <2>1. \A i \in 1..k : parent[i] < i BY <1>2 DEF Rising, Mined
  <2> QED BY <1>1, <1>4, <1>5, <2>1
<1>13. ASSUME NEW q \in Nodes
       PROVE  \A i \in DOMAIN chain'[q] :
                 /\ chain'[q][i] >= i
                 /\ parent'[chain'[q][i]] = IF i = 1 THEN 0 ELSE chain'[q][i - 1]
  <2>1. \A i \in DOMAIN chain[q] :
           /\ chain[q][i] \in 1..k /\ chain[q][i] >= i
           /\ parent'[chain[q][i]] = IF i = 1 THEN 0 ELSE chain[q][i - 1]
    <3>1. chain[q] \in Seq(1..k) BY <1>2 DEF Typed, Mined
    <3>2. \A i \in DOMAIN chain[q] : chain[q][i] \in 1..k BY <3>1
    <3> QED BY <1>2, <1>5, <3>2 DEF Rising, AnyInv, ChainsLinked
  <2>2. CASE q # n BY <1>6, <2>1, <2>2
  <2>3. CASE q = n
    <3> DEFINE c == chain[n]
               h == Len(c)
    <3>1. /\ h \in Nat /\ h <= k /\ DOMAIN Append(c, b) = 1..(h + 1) /\ DOMAIN c = 1..h
          /\ Append(c, b)[h + 1] = b /\ \A i \in 1..h : Append(c, b)[i] = c[i]
      <4>1. c \in Seq(1..b) /\ b \in 1..b BY <1>1, <1>3, <1>4
      <4> QED BY <1>1, <1>4, <4>1, Extended
    <3>2. parent'[b] = IF h = 0 THEN 0 ELSE c[h] BY <1>4, <1>5
    <3>3. \A i \in 1..h : c[i] >= i /\ parent'[c[i]] = IF i = 1 THEN 0 ELSE c[i - 1]
      BY <2>1, <2>3, <3>1
    <3> HIDE DEF c, h
    <3>4. \A i \in 1..(h + 1) :
             /\ Append(c, b)[i] >= i
             /\ parent'[Append(c, b)[i]] = IF i = 1 THEN 0 ELSE Append(c, b)[i - 1]
      <4> SUFFICES ASSUME NEW i \in 1..(h + 1)
                   PROVE  /\ Append(c, b)[i] >= i
                          /\ parent'[Append(c, b)[i]] = IF i = 1 THEN 0 ELSE Append(c, b)[i - 1]
        OBVIOUS
      <4>1. CASE i = h + 1 BY <1>1, <3>1, <3>2, <4>1
      <4>2. CASE i \in 1..h BY <3>1, <3>3, <4>2
      <4> QED BY <3>1, <4>1, <4>2
    <3>5. chain'[q] = Append(c, b) /\ DOMAIN chain'[q] = 1..(h + 1)
      <4>1. chain'[n] = Append(chain[n], b) BY <1>1
      <4> QED BY <2>3, <3>1, <4>1 DEF c
    <3> QED BY <3>4, <3>5
  <2> QED BY <2>2, <2>3
<1>14. \A l \in Links : known[l] \subseteq ToSet(chain'[l[1]])
  <2> SUFFICES ASSUME NEW l \in Links PROVE known[l] \subseteq ToSet(chain'[l[1]]) OBVIOUS
  <2>1. known[l] \subseteq ToSet(chain[l[1]]) /\ l[1] \in Nodes
    BY <1>2, LinkPairs DEF AnyInv, KnownStored, Typed
  <2>2. ToSet(Append(chain[n], b)) = ToSet(chain[n]) \cup {b}
    <3>1. chain[n] \in Seq(1..b) /\ b \in 1..b BY <1>1, <1>3, <1>4
    <3> QED BY <3>1, Extended
  <2> QED BY <1>1, <1>6, <2>1, <2>2
<1> HIDE DEF b
<1>15. Typed'
  BY <1>1, <1>2, <1>7, <1>8, <1>9, <1>10, <1>11 DEF Typed, Mined, Links
<1>16. Rising' BY <1>1, <1>12, <1>13 DEF Rising, Mined
<1>17. KnownStored' BY <1>1, <1>14 DEF KnownStored, Links
<1>18. ChainsLinked' BY <1>13 DEF ChainsLinked
<1> QED BY <1>15, <1>16, <1>17, <1>18 DEF AnyInv

\* AnyInv is kept by a connection that breaks and is made again.
LEMMA AnyReconnect ==
    ASSUME AnyInv, NEW n, NEW p, Reconnect(n, p)
    PROVE  AnyInv'
<1>1. Typed /\ Rising /\ <<n, p>> \in Links BY DEF AnyInv, Reconnect
<1>2. n \in Nodes /\ p \in Nodes BY <1>1, LinkFacts DEF Typed
<1> DEFINE M == MessageOf(Len(parent))
<1>3. MyVersion(chain[n]) \in M /\ MyVersion(chain[p]) \in M BY <1>1, <1>2, ChainFacts
<1>4. net \in [Links -> Seq(M)] BY <1>1 DEF Typed
<1> HIDE DEF M
<1>5. <<MyVersion(chain[n])>> \in Seq(M) /\ <<MyVersion(chain[p])>> \in Seq(M) BY <1>3
<1>6. net' \in [Links -> Seq(M)] BY <1>4, <1>5 DEF Reconnect
<1>7. known' \in [Links -> SUBSET Mined] BY <1>1 DEF Typed, Reconnect
<1>8. \A l \in Links : known'[l] \subseteq known[l] BY <1>1 DEF Typed, Reconnect
<1>9. UNCHANGED <<setup, parent, chain, inTransit, inTransitSet, alive>> BY DEF Reconnect
<1>10. Typed' BY <1>1, <1>6, <1>7, <1>9 DEF Typed, M, Mined, Links
<1>11. KnownStored' BY <1>8, <1>9 DEF AnyInv, KnownStored, Links
<1> QED BY <1>9, <1>10, <1>11 DEF AnyInv, Rising, ChainsLinked, Mined

\* The greatest element of a finite range of heights.
LEMMA MaxIsGreatest ==
    ASSUME NEW k \in Nat, NEW S \in SUBSET (0..k), S # {}
    PROVE  Max(S) \in S /\ \A x \in S : x <= Max(S)
<1> DEFINE T == {k - x : x \in S}
<1>1. T \in SUBSET Nat /\ T # {}
  <2>1. \A x \in S : x \in 0..k OBVIOUS
  <2>2. \A x \in S : k - x \in Nat BY <2>1
  <2> QED BY <2>2
<1>2. PICK t \in T : \A u \in T : t <= u BY <1>1, NatLeast
<1>3. PICK x \in S : t = k - x BY <1>2
<1>4. \A y \in S : x >= y
  <2> SUFFICES ASSUME NEW y \in S PROVE x >= y OBVIOUS
  <2>1. k - y \in T OBVIOUS
  <2>2. y \in 0..k /\ x \in 0..k OBVIOUS
  <2>3. k - x <= k - y BY <1>2, <1>3, <2>1
  <2> QED BY <2>2, <2>3
<1>5. Max(S) \in S /\ \A y \in S : Max(S) >= y BY <1>4 DEF Max
<1>6. \A y \in S : y \in Int OBVIOUS
<1> QED BY <1>5, <1>6

\* The initial chains.
LEMMA InitFacts ==
    ASSUME Init
    PROVE  LET k == Len(parent) IN
           /\ setup \in Setups /\ parent = [b \in 1..k |-> b - 1] /\ k \in 0..setup.blocks
           /\ \E n \in Nodes : k = setup.height[n]
           /\ \A n \in Nodes : /\ setup.height[n] \in 0..k
                               /\ chain[n] = [i \in 1..setup.height[n] |-> i]
                               /\ chain[n] \in Seq(1..k) /\ Len(chain[n]) = setup.height[n]
<1> DEFINE H == {setup.height[n] : n \in Nodes}
           k == Max(H)
<1>1. setup \in Setups /\ setup.blocks \in Nat /\ setup.height \in [Nodes -> 0..setup.blocks]
  BY SetupAssumption DEF Init
<1>2. H \in SUBSET (0..setup.blocks) /\ H # {} BY <1>1, SetupAssumption
<1>3. k \in H /\ \A x \in H : x <= k BY <1>1, <1>2, MaxIsGreatest
<1>4. k \in 0..setup.blocks BY <1>2, <1>3
<1>5. parent = [b \in 1..k |-> b - 1] BY DEF Init
<1>6. \E n \in Nodes : k = setup.height[n] BY <1>3
<1>7. \A n \in Nodes : setup.height[n] <= k BY <1>3
<1> HIDE DEF k
<1>8. k \in Nat BY <1>1, <1>4
<1>9. parent \in Seq(Nat) /\ Len(parent) = k
  <2>1. \A b \in 1..k : b - 1 \in Nat BY <1>8
  <2>2. parent \in [1..k -> Nat] BY <1>5, <2>1
  <2> QED BY <1>8, <2>2
<1>10. ASSUME NEW n \in Nodes
       PROVE  /\ setup.height[n] \in 0..k
              /\ chain[n] = [i \in 1..setup.height[n] |-> i]
              /\ chain[n] \in Seq(1..k) /\ Len(chain[n]) = setup.height[n]
  <2> DEFINE h == setup.height[n]
  <2>1. h \in 0..k /\ h \in Nat BY <1>1, <1>7, <1>8
  <2>2. chain[n] = [i \in 1..h |-> i] BY DEF Init
  <2> HIDE DEF h
  <2> DEFINE c == chain[n]
  <2>3. c \in [1..h -> 1..k] BY <1>8, <2>1, <2>2
  <2> HIDE DEF c
  <2>4. c \in Seq(1..k) /\ Len(c) = h
    <3>1. c \in Seq(1..k) BY <2>1, <2>3, SeqDef
    <3>2. DOMAIN c = 1..h BY <2>3
    <3>3. DOMAIN c = 1..Len(c) /\ Len(c) \in Nat BY <3>1
    <3> QED BY <2>1, <3>1, <3>2, <3>3
  <2> USE DEF c
  <2> QED BY <2>1, <2>2, <2>4 DEF h
<1> QED BY <1>1, <1>4, <1>5, <1>6, <1>9, <1>10

\* AnyInv holds initially.
LEMMA AnyInit == Init => AnyInv
<1> SUFFICES ASSUME Init PROVE AnyInv OBVIOUS
<1> DEFINE k == Len(parent)
<1>1. /\ setup \in Setups /\ parent = [b \in 1..k |-> b - 1] /\ k \in 0..setup.blocks
      /\ \A n \in Nodes : /\ setup.height[n] \in 0..k
                          /\ chain[n] = [i \in 1..setup.height[n] |-> i]
                          /\ chain[n] \in Seq(1..k) /\ Len(chain[n]) = setup.height[n]
  BY InitFacts
<1>2. setup.blocks \in Nat /\ k \in Nat BY <1>1, SetupAssumption
<1> HIDE DEF k
<1>3. \A b \in 1..k : parent[b] \in Nat /\ parent[b] < b BY <1>1, <1>2
<1>4. parent \in Seq(Nat)
  <2>1. parent \in [1..k -> Nat] BY <1>1, <1>3
  <2> QED BY <1>2, <2>1
<1>5. chain \in [Nodes -> Seq(1..k)] BY <1>1 DEF Init
<1>6. ASSUME NEW n \in Nodes, NEW i \in DOMAIN chain[n]
      PROVE  chain[n][i] >= i /\ parent[chain[n][i]] = IF i = 1 THEN 0 ELSE chain[n][i - 1]
  <2> DEFINE h == setup.height[n]
  <2>1. chain[n] = [j \in 1..h |-> j] /\ h \in Nat /\ h <= k BY <1>1, <1>2
  <2> HIDE DEF h
  <2>2. i \in 1..h BY <2>1
  <2>3. chain[n][i] = i /\ (i # 1 => chain[n][i - 1] = i - 1) BY <2>1, <2>2
  <2>4. parent[i] = i - 1 BY <1>1, <1>2, <2>1, <2>2
  <2> QED BY <2>2, <2>3, <2>4
<1>7. net \in [Links -> Seq(MessageOf(k))]
  <2>1. ASSUME NEW n \in Nodes PROVE MyVersion(chain[n]) \in MessageOf(k)
    <3> DEFINE c == chain[n]
    <3>1. c \in Seq(1..k) /\ Len(c) \in 0..k BY <1>1, Zenon
    <3> HIDE DEF c
    <3>2. Len(c) \in 0..k /\ (c # <<>> => Last(c) \in 1..k) BY <1>2, <3>1 DEF Last
    <3>3. (IF c = <<>> THEN 0 ELSE Last(c)) \in 0..k BY <1>2, <3>2
    <3>4. MyVersion(c) \in MessageOf(k) BY <3>2, <3>3 DEF MyVersion, Version, MessageOf
    <3> QED BY <3>4 DEF c
  <2> DEFINE M == MessageOf(k)
  <2>2. \A l \in Links : l[1] \in Nodes /\ MyVersion(chain[l[1]]) \in M BY <1>1, <2>1, LinkPairs
  <2>3. net = [l \in Links |-> <<MyVersion(chain[l[1]])>>] BY DEF Init
  <2> HIDE DEF M
  <2>4. \A l \in Links : <<MyVersion(chain[l[1]])>> \in Seq(M) BY <2>2
  <2>5. net \in [Links -> Seq(M)] BY <2>3, <2>4
  <2> QED BY <2>5 DEF M
<1>8. known \in [Links -> SUBSET (1..k)] /\ \A l \in Links : known[l] = {} BY DEF Init
<1>9. inTransit \in [Nodes -> Seq(1..k)] BY DEF Init
<1>10. inTransitSet \in [Nodes -> SUBSET (1..k)] BY DEF Init
<1>11. alive \in [Nodes -> BOOLEAN] BY DEF Init
<1>12. Typed BY <1>1, <1>2, <1>4, <1>5, <1>7, <1>8, <1>9, <1>10, <1>11 DEF Typed, Mined, k
<1>13. Rising BY <1>3, <1>6 DEF Rising, Mined, k
<1>14. KnownStored BY <1>8 DEF KnownStored
<1>15. ChainsLinked BY <1>6 DEF ChainsLinked
<1> QED BY <1>12, <1>13, <1>14, <1>15 DEF AnyInv

\* AnyInv is inductive.
LEMMA AnyStep ==
    ASSUME AnyInv, [Next]_vars
    PROVE  AnyInv'
<1>1. ASSUME NEW n \in Nodes, NEW p, Handle(n, p) PROVE AnyInv'
  BY <1>1, AnyVersion, AnyPanic, AnyGetBlocks, AnyInvMsg, AnyGetData, AnyRejected, AnyAdded
     DEF Handle, VersionConflict, BlockStored
<1>2. CASE UNCHANGED vars
  BY <1>2 DEF vars, AnyInv, Typed, Rising, KnownStored, ChainsLinked, Mined, Links
<1> QED BY <1>1, <1>2, AnyMine, AnyReconnect DEF Next

\* What AnyInv is for.
LEMMA AnySound == AnyInv => TypeOK /\ KnownStored /\ ChainsLinked
<1> SUFFICES ASSUME AnyInv PROVE TypeOK BY DEF AnyInv
<1>1. Typed /\ Len(parent) \in Nat /\ Len(parent) <= MaxBlocks /\ MaxBlocks \in Nat
  BY BlockBounds, SetupAssumption DEF AnyInv
<1>2. Mined \subseteq Blocks BY <1>1 DEF Mined, Blocks
<1>3. MessageOf(Len(parent)) \subseteq Message
  <2>1. MessageOf(MaxBlocks) = Message BY DEF MessageOf, Message, Blocks
  <2> QED BY <1>1, <2>1, MessagesGrow
<1>4. \A n \in Nodes : ToSet(chain[n]) \subseteq DOMAIN parent
  <2>1. \A n \in Nodes : chain[n] \in Seq(Mined) /\ DOMAIN parent = Mined BY <1>1 DEF Typed, Mined
  <2> QED BY <2>1 DEF ToSet
<1>5. \A l \in Links : ToSet(net[l]) \subseteq Message
  <2>1. \A l \in Links : net[l] \in Seq(MessageOf(Len(parent))) BY <1>1 DEF Typed
  <2> QED BY <1>3, <2>1 DEF ToSet
<1>6. \A l \in Links : known[l] \subseteq Blocks BY <1>1, <1>2 DEF Typed
<1>7. \A n \in Nodes : ToSet(inTransit[n]) \cup inTransitSet[n] \subseteq Blocks
  <2>1. \A n \in Nodes : inTransit[n] \in Seq(Mined) /\ inTransitSet[n] \subseteq Mined
    BY <1>1 DEF Typed
  <2> QED BY <1>2, <2>1 DEF ToSet
<1> QED BY <1>4, <1>5, <1>6, <1>7 DEF TypeOK

-----------------------------------------------------------------------------
(* The invariant of a network with one source                              *)

\* What OneSource says, of a given source and a given up.
Tree(source, up) ==
    /\ source \in Nodes /\ up \in [Nodes -> Nodes]
    /\ setup.miners \cup {n \in Nodes : setup.height[n] > 0} \subseteq {source}
    /\ up[source] = source
    /\ \A l \in setup.links : up[l[1]] = l[2] <=> up[l[2]] # l[1]

\* There is one chain, numbered through; every node has a prefix of it, and the
\* source has it all.
Straight(source) ==
    /\ \A n \in Nodes : \A i \in DOMAIN chain[n] : chain[n][i] = i
    /\ \A b \in Mined : parent[b] = b - 1
    /\ Len(chain[source]) = Len(parent)

\* A node is never ahead of the one it hears of blocks from.
Behind(up) == \A n \in Nodes : Len(chain[n]) <= Len(chain[up[n]])

\* A message on link l, from a node of height h: a version is of a prefix of the
\* chain, and blocks go down while requests go up.
Proper(up, l, m, h) ==
    /\ m.type = "version" => m.last = m.height /\ m.height <= h
    /\ m.type \in {"inv", "block"} => up[l[2]] = l[1]
    /\ m.type \in {"getblocks", "getdata"} => up[l[1]] = l[2]

\* Every message on its way is proper.
AllProper(up) ==
    \A l \in Links : \A i \in DOMAIN net[l] : Proper(up, l, net[l][i], Len(chain[l[1]]))

\* Every link is fresh, as seen from its lower end.
AllFresh(up) ==
    \A n \in Nodes : <<up[n], n>> \in Links =>
        Fresh(net[<<up[n], n>>], net[<<n, up[n]>>], inTransit[n], known[<<up[n], n>>], Len(chain[n]))

\* The invariant of a network with one source.
SourceInv(source, up) ==
    /\ NoPanic
    /\ Straight(source) /\ Behind(up)
    /\ AllProper(up) /\ AllFresh(up)

\* What is known of a link: which of its ends is up, and what a handler finds.
LEMMA Ends ==
    ASSUME Typed, NEW source, NEW up, Tree(source, up), NEW n, NEW p, <<p, n>> \in Links
    PROVE  \/ up[n] = p /\ up[p] # n
           \/ up[p] = n /\ up[n] # p
BY LinkFacts DEF Tree, Links, Typed

\* What a chain is, when there is one source.
LEMMA Heights ==
    ASSUME AnyInv, NEW source, NEW up, Tree(source, up), SourceInv(source, up), NEW n \in Nodes
    PROVE  /\ Len(chain[n]) \in Nat /\ Len(chain[n]) <= Len(parent) /\ Tip(n) = Len(chain[n])
           /\ DOMAIN chain[n] = 1..Len(chain[n]) /\ ToSet(chain[n]) = 1..Len(chain[n])
           /\ \A i \in 1..Len(chain[n]) : chain[n][i] = i
           /\ MyVersion(chain[n]) = Version(Len(chain[n]), Len(chain[n]))
           /\ up[n] \in Nodes /\ Len(chain[n]) <= Len(chain[up[n]]) /\ Len(chain[up[n]]) \in Nat
<1>1. Typed /\ Rising /\ Len(parent) \in Nat BY DEF AnyInv, Typed
<1>2. /\ Len(chain[n]) \in 0..Len(parent) /\ DOMAIN chain[n] = 1..Len(chain[n])
      /\ Tip(n) = IF Len(chain[n]) = 0 THEN 0 ELSE chain[n][Len(chain[n])]
      /\ MyVersion(chain[n]) = Version(Len(chain[n]), Tip(n))
  BY <1>1, ChainFacts
<1>3. \A i \in 1..Len(chain[n]) : chain[n][i] = i BY <1>2 DEF SourceInv, Straight
<1>4. Tip(n) = Len(chain[n]) BY <1>1, <1>2, <1>3
<1>5. ToSet(chain[n]) = 1..Len(chain[n]) BY <1>2, <1>3 DEF ToSet
<1>6. up[n] \in Nodes BY DEF Tree
<1>7. Len(chain[up[n]]) \in Nat BY <1>1, <1>6, ChainFacts
<1> QED BY <1>1, <1>2, <1>3, <1>4, <1>5, <1>6, <1>7 DEF SourceInv, Behind

\* The streams after n has taken a message from p, and answered.
NetAfter(n, p, ms) ==
    /\ net'[<<p, n>>] = Tail(net[<<p, n>>])
    /\ net'[<<n, p>>] = net[<<n, p>>] \o ms
    /\ \A l \in Links : l # <<p, n>> /\ l # <<n, p>> => net'[l] = net[l]

\* The streams after a handler that does not answer.
LEMMA AfterNothing ==
    ASSUME Typed, NEW n, NEW p, NEW type, Receives(n, p, type), Consume(n, p, Nothing)
    PROVE  NetAfter(n, p, <<>>)
<1> DEFINE M == MessageOf(Len(parent))
<1>1. net \in [Links -> Seq(M)] BY DEF Typed
<1>2. n # p /\ <<n, p>> \in Links /\ <<p, n>> \in Links BY Taken
<1>3. net' = [net EXCEPT ![<<p, n>>] = Tail(@)] BY NetNothing
<1> HIDE DEF M
<1>4. net[<<n, p>>] \o <<>> = net[<<n, p>>] BY <1>1, <1>2
<1>5. <<n, p>> # <<p, n>> BY <1>2
<1> QED BY <1>1, <1>2, <1>3, <1>4, <1>5 DEF NetAfter

\* The streams after a handler that answers.
LEMMA AfterReply ==
    ASSUME Typed, NoPanic, NEW n, NEW p, NEW type, Receives(n, p, type),
           NEW m \in MessageOf(Len(parent)), Consume(n, p, Reply(p, m))
    PROVE  NetAfter(n, p, <<m>>)
<1> DEFINE M == MessageOf(Len(parent))
<1>1. net \in [Links -> Seq(M)] /\ m \in M BY DEF Typed
<1>2. n # p /\ <<n, p>> \in Links /\ <<p, n>> \in Links /\ p \in Nodes BY Taken
<1>3. net' = [net EXCEPT ![<<p, n>>] = Tail(@), ![<<n, p>>] = Append(@, m)]
  <2>1. alive[p] BY <1>2 DEF NoPanic
  <2> QED BY <2>1, NetReply
<1> HIDE DEF M
<1>4. net[<<n, p>>] \o <<m>> = Append(net[<<n, p>>], m) BY <1>1, <1>2, SeqConcat
<1>5. <<n, p>> # <<p, n>> BY <1>2
<1> QED BY <1>1, <1>2, <1>3, <1>4, <1>5 DEF NetAfter

\* Messages stay proper: one is taken, others are sent.
LEMMA ProperAfter ==
    ASSUME Typed, NEW up, AllProper(up), NEW n, NEW p, NEW type, Receives(n, p, type),
           NEW ms, NetAfter(n, p, ms),
           \/ ms = <<>>
           \/ \E m \in MessageOf(Len(parent)) :
                 ms = <<m>> /\ Proper(up, <<n, p>>, m, Len(chain[n]))
    PROVE  \A l \in Links : \A i \in DOMAIN net'[l] :
               Proper(up, l, net'[l][i], Len(chain[l[1]]))
<1> DEFINE M == MessageOf(Len(parent))
<1>1. \A l \in Links : net[l] \in Seq(M) BY DEF Typed
<1>2. n # p /\ <<n, p>> \in Links /\ <<p, n>> \in Links /\ net[<<p, n>>] # <<>> BY Taken
<1> SUFFICES ASSUME NEW l \in Links
             PROVE  \A i \in DOMAIN net'[l] : Proper(up, l, net'[l][i], Len(chain[l[1]]))
  OBVIOUS
<1>3. \A i \in DOMAIN net[l] : Proper(up, l, net[l][i], Len(chain[l[1]])) BY DEF AllProper
<1>4. CASE l = <<p, n>>
  <2> DEFINE s == net[l]
  <2>1. s \in Seq(M) /\ s # <<>> /\ net'[l] = Tail(s) BY <1>1, <1>2, <1>4 DEF NetAfter
  <2> HIDE DEF M, s
  <2>2. \A i \in DOMAIN Tail(s) : i + 1 \in DOMAIN s /\ Tail(s)[i] = s[i + 1] BY <2>1, SeqTail
  <2> USE DEF s
  <2> QED BY <1>3, <2>1, <2>2
<1>5. CASE l = <<n, p>>
  <2> DEFINE s == net[l]
  <2>1. s \in Seq(M) /\ net'[l] = s \o ms BY <1>1, <1>5 DEF NetAfter
  <2>2. CASE ms = <<>>
    <3> HIDE DEF M
    <3>1. s \o <<>> = s BY <2>1
    <3> QED BY <1>3, <2>1, <2>2, <3>1
  <2>3. ASSUME NEW m \in M, ms = <<m>>, Proper(up, <<n, p>>, m, Len(chain[n]))
        PROVE  \A i \in DOMAIN net'[l] : Proper(up, l, net'[l][i], Len(chain[l[1]]))
    <3> HIDE DEF M, s
    <3>1. net'[l] = Append(s, m) BY <2>1, <2>3, SeqConcat
    <3>2. \A i \in DOMAIN Append(s, m) :
             (i \in DOMAIN s /\ Append(s, m)[i] = s[i]) \/ Append(s, m)[i] = m
      BY <2>1, <2>3, SeqAppend
    <3>3. Proper(up, l, m, Len(chain[l[1]])) BY <1>5, <2>3
    <3> USE DEF s
    <3> QED BY <1>3, <3>1, <3>2, <3>3
  <2> QED BY <2>2, <2>3
<1>6. CASE l # <<p, n>> /\ l # <<n, p>> BY <1>3, <1>6 DEF NetAfter
<1> QED BY <1>4, <1>5, <1>6

\* Only the link of c to its upper end is touched.
LEMMA OneLink ==
    ASSUME Typed, NEW source, NEW up, Tree(source, up), AllFresh(up),
           NEW c \in Nodes, NEW u, u = up[c], <<u, c>> \in Links,
           \A l \in Links : l # <<u, c>> /\ l # <<c, u>> => net'[l] = net[l],
           \A q \in Nodes \ {c} : /\ inTransit'[q] = inTransit[q]
                                  /\ Len(chain'[q]) = Len(chain[q])
                                  /\ <<up[q], q>> \in Links =>
                                        known'[<<up[q], q>>] = known[<<up[q], q>>],
           setup' = setup,
           Fresh(net'[<<u, c>>], net'[<<c, u>>], inTransit'[c], known'[<<u, c>>], Len(chain'[c]))
    PROVE  AllFresh(up)'
<1> SUFFICES ASSUME NEW q \in Nodes, <<up[q], q>> \in Links
             PROVE  Fresh(net'[<<up[q], q>>], net'[<<q, up[q]>>], inTransit'[q],
                          known'[<<up[q], q>>], Len(chain'[q]))
  BY DEF AllFresh, Links
<1>1. CASE q = c BY <1>1
<1>2. CASE q # c
  <2>1. <<q, up[q]>> \in Links BY LinkFacts DEF Typed
  <2>2. up[c] = u /\ up[u] # c BY Ends
  <2>3. /\ <<up[q], q>> # <<u, c>> /\ <<up[q], q>> # <<c, u>>
        /\ <<q, up[q]>> # <<u, c>> /\ <<q, up[q]>> # <<c, u>>
    BY <1>2, <2>2
  <2>4. net'[<<up[q], q>>] = net[<<up[q], q>>] /\ net'[<<q, up[q]>>] = net[<<q, up[q]>>]
    BY <2>1, <2>3
  <2>5. /\ inTransit'[q] = inTransit[q] /\ Len(chain'[q]) = Len(chain[q])
        /\ known'[<<up[q], q>>] = known[<<up[q], q>>]
    BY <1>2
  <2>6. Fresh(net[<<up[q], q>>], net[<<q, up[q]>>], inTransit[q], known[<<up[q], q>>], Len(chain[q]))
    BY DEF AllFresh
  <2> QED BY <2>4, <2>5, <2>6
<1> QED BY <1>1, <1>2

\* A step that disturbs the streams of one link and its node's list only.
OtherLinksStay(up, u, c) ==
    /\ \A l \in Links : l # <<u, c>> /\ l # <<c, u>> => net'[l] = net[l]
    /\ \A q \in Nodes \ {c} : /\ inTransit'[q] = inTransit[q]
                              /\ Len(chain'[q]) = Len(chain[q])
                              /\ <<up[q], q>> \in Links =>
                                    known'[<<up[q], q>>] = known[<<up[q], q>>]
    /\ setup' = setup

LEMMA OneLinkOnly ==
    ASSUME Typed, NEW source, NEW up, Tree(source, up), AllFresh(up),
           NEW c \in Nodes, NEW u, u = up[c], <<u, c>> \in Links, OtherLinksStay(up, u, c),
           Fresh(net'[<<u, c>>], net'[<<c, u>>], inTransit'[c], known'[<<u, c>>], Len(chain'[c]))
    PROVE  AllFresh(up)'
BY OneLink DEF OtherLinksStay

\* The chains and the process stay as they are.
LEMMA SourceQuiet ==
    ASSUME NEW source, NEW up, SourceInv(source, up), UNCHANGED <<parent, chain, alive>>,
           AllProper(up)', AllFresh(up)'
    PROVE  SourceInv(source, up)'
<1>1. NoPanic' BY DEF SourceInv, NoPanic
<1>2. Straight(source)' BY DEF SourceInv, Straight, Mined
<1>3. Behind(up)' BY DEF SourceInv, Behind
<1> QED BY <1>1, <1>2, <1>3 DEF SourceInv

\* AllProper of the next state, when the chains stay.
LEMMA ProperStays ==
    ASSUME NEW up, UNCHANGED <<setup, chain>>,
           \A l \in Links : \A i \in DOMAIN net'[l] : Proper(up, l, net'[l][i], Len(chain[l[1]]))
    PROVE  AllProper(up)'
BY DEF AllProper, Links

\* What a handler knows of the message it takes.
LEMMA Heard ==
    ASSUME AnyInv, NEW source, NEW up, Tree(source, up), SourceInv(source, up),
           NEW n, NEW p, NEW type, Receives(n, p, type)
    PROVE  /\ n \in Nodes /\ p \in Nodes /\ n # p /\ <<n, p>> \in Links /\ <<p, n>> \in Links
           /\ net[<<n, p>>] \in Seq(MessageOf(Len(parent)))
           /\ net[<<p, n>>] \in Seq(MessageOf(Len(parent))) /\ net[<<p, n>>] # <<>>
           /\ Msg(n, p) = Head(net[<<p, n>>]) /\ Msg(n, p).type = type
           /\ Msg(n, p) \in MessageOf(Len(parent)) /\ Len(parent) \in Nat
           /\ Proper(up, <<p, n>>, Msg(n, p), Len(chain[p]))
           /\ up[n] = p => Fresh(net[<<p, n>>], net[<<n, p>>], inTransit[n], known[<<p, n>>],
                                 Len(chain[n]))
           /\ up[p] = n => Fresh(net[<<n, p>>], net[<<p, n>>], inTransit[p], known[<<n, p>>],
                                 Len(chain[p]))
<1>1. Typed /\ Len(parent) \in Nat BY DEF AnyInv, Typed
<1>2. /\ n \in Nodes /\ p \in Nodes /\ n # p /\ <<n, p>> \in Links /\ <<p, n>> \in Links
      /\ net[<<p, n>>] \in Seq(MessageOf(Len(parent))) /\ net[<<p, n>>] # <<>>
      /\ Msg(n, p) = net[<<p, n>>][1] /\ 1 \in DOMAIN net[<<p, n>>]
      /\ Msg(n, p) \in MessageOf(Len(parent)) /\ Msg(n, p).type = type
  BY <1>1, Taken
<1>3. net[<<n, p>>] \in Seq(MessageOf(Len(parent))) BY <1>1, <1>2 DEF Typed
<1>4. Proper(up, <<p, n>>, Msg(n, p), Len(chain[p]))
  <2>1. <<p, n>>[1] = p OBVIOUS
  <2> QED BY <1>2, <2>1 DEF SourceInv, AllProper
<1>5. AllFresh(up) BY DEF SourceInv
<1>6. up[n] = p => Fresh(net[<<p, n>>], net[<<n, p>>], inTransit[n], known[<<p, n>>], Len(chain[n]))
  BY <1>2, <1>5 DEF AllFresh
<1>7. up[p] = n => Fresh(net[<<n, p>>], net[<<p, n>>], inTransit[p], known[<<n, p>>], Len(chain[p]))
  BY <1>2, <1>5 DEF AllFresh
<1> QED BY <1>1, <1>2, <1>3, <1>4, <1>6, <1>7 DEF Msg

\* A message is taken and nothing comes of it.
LEMMA SourceDrop ==
    ASSUME AnyInv, NEW source, NEW up, Tree(source, up), SourceInv(source, up),
           NEW n, NEW p, NEW type, Receives(n, p, type), Consume(n, p, Nothing),
           UNCHANGED <<setup, parent, chain, inTransit, alive>>,
           known' = known
    PROVE  SourceInv(source, up)'
<1> DEFINE M == MessageOf(Len(parent))
<1>1. Typed /\ AllFresh(up) /\ AllProper(up) BY DEF AnyInv, SourceInv
<1>2. /\ n \in Nodes /\ p \in Nodes /\ n # p /\ <<n, p>> \in Links /\ <<p, n>> \in Links
      /\ net[<<n, p>>] \in Seq(M) /\ net[<<p, n>>] \in Seq(M) /\ net[<<p, n>>] # <<>>
      /\ up[n] = p => Fresh(net[<<p, n>>], net[<<n, p>>], inTransit[n], known[<<p, n>>], Len(chain[n]))
      /\ up[p] = n => Fresh(net[<<n, p>>], net[<<p, n>>], inTransit[p], known[<<n, p>>], Len(chain[p]))
  BY Heard
<1>3. NetAfter(n, p, <<>>) BY <1>1, AfterNothing
<1> HIDE DEF M
<1>4. /\ net'[<<p, n>>] = Tail(net[<<p, n>>]) /\ net'[<<n, p>>] = net[<<n, p>>]
      /\ \A l \in Links : l # <<p, n>> /\ l # <<n, p>> => net'[l] = net[l]
  <2>1. net[<<n, p>>] \o <<>> = net[<<n, p>>] BY <1>2
  <2> QED BY <1>3, <2>1 DEF NetAfter
<1>5. AllProper(up)' BY <1>1, <1>3, ProperAfter, ProperStays
<1>6. AllFresh(up)'
  <2>1. CASE up[n] = p
    <3>1. Fresh(Tail(net[<<p, n>>]), net[<<n, p>>], inTransit[n], known[<<p, n>>], Len(chain[n]))
      BY <1>2, <2>1, FreshTake
    <3>2. Fresh(net'[<<p, n>>], net'[<<n, p>>], inTransit'[n], known'[<<p, n>>], Len(chain'[n]))
      BY <1>4, <3>1
    <3> QED BY <1>1, <1>2, <1>4, <2>1, <3>2, OneLink
  <2>2. CASE up[p] = n
    <3>1. Fresh(net[<<n, p>>], Tail(net[<<p, n>>]), inTransit[p], known[<<n, p>>], Len(chain[p]))
      BY <1>2, <2>2, FreshTaken
    <3>2. Fresh(net'[<<n, p>>], net'[<<p, n>>], inTransit'[p], known'[<<n, p>>], Len(chain'[p]))
      BY <1>4, <3>1
    <3> QED BY <1>1, <1>2, <1>4, <2>2, <3>2, OneLink
  <2> QED BY <1>1, <1>2, <2>1, <2>2, Ends
<1> QED BY <1>5, <1>6, SourceQuiet

\* SourceInv is kept by handleVersion when the peer is ahead: it is the upper end.
LEMMA SourceVersionAhead ==
    ASSUME AnyInv, NEW source, NEW up, Tree(source, up), SourceInv(source, up),
           NEW n, NEW p, VersionAhead(n, p)
    PROVE  SourceInv(source, up)'
<1> DEFINE M == MessageOf(Len(parent))
           m == GetBlocks(Tip(n))
           h == Len(chain[n])
<1>1. Typed /\ Rising /\ AllFresh(up) /\ AllProper(up) /\ NoPanic BY DEF AnyInv, SourceInv
<1>2. /\ Receives(n, p, "version") /\ Consume(n, p, Reply(p, m)) /\ h < Msg(n, p).height
      /\ UNCHANGED <<setup, parent, chain, known, inTransit, inTransitSet, alive>>
  BY DEF VersionAhead
<1>3. /\ n \in Nodes /\ p \in Nodes /\ n # p /\ <<n, p>> \in Links /\ <<p, n>> \in Links
      /\ net[<<n, p>>] \in Seq(M) /\ net[<<p, n>>] \in Seq(M) /\ net[<<p, n>>] # <<>>
      /\ Msg(n, p).type = "version" /\ Msg(n, p) \in M /\ Len(parent) \in Nat
      /\ Proper(up, <<p, n>>, Msg(n, p), Len(chain[p]))
      /\ up[n] = p => Fresh(net[<<p, n>>], net[<<n, p>>], inTransit[n], known[<<p, n>>], Len(chain[n]))
  BY <1>2, Heard
<1>4. h \in Nat /\ Tip(n) = h BY <1>3, Heights
<1>5. up[n] = p
  <2>1. up[p] = n => Len(chain[p]) <= h /\ Len(chain[p]) \in Nat BY <1>3, Heights
  <2>2. Msg(n, p).height <= Len(chain[p]) /\ Msg(n, p).height \in Nat
    BY <1>3, MessageFields DEF Proper
  <2>3. up[p] # n BY <1>2, <1>4, <2>1, <2>2
  <2> QED BY <1>1, <1>3, <2>3, Ends
<1>6. m \in M BY <1>1, <1>3, ChainFacts DEF GetBlocks, MessageOf
<1>7. m.type = "getblocks" /\ m.last = h BY <1>4 DEF GetBlocks
<1> HIDE DEF m
<1>8. NetAfter(n, p, <<m>>) BY <1>1, <1>2, <1>6, AfterReply
<1>9. Proper(up, <<n, p>>, m, h) BY <1>5, <1>7 DEF Proper
<1>10. AllProper(up)' BY <1>1, <1>2, <1>6, <1>8, <1>9, ProperAfter, ProperStays
<1> HIDE DEF M
<1>11. /\ net'[<<p, n>>] = Tail(net[<<p, n>>]) /\ net'[<<n, p>>] = Append(net[<<n, p>>], m)
       /\ \A l \in Links : l # <<p, n>> /\ l # <<n, p>> => net'[l] = net[l]
  BY <1>3, <1>6, <1>8, SeqConcat DEF NetAfter
<1>12. Fresh(Tail(net[<<p, n>>]), Append(net[<<n, p>>], m), inTransit[n], known[<<p, n>>], h)
  <2>1. Fresh(Tail(net[<<p, n>>]), net[<<n, p>>], inTransit[n], known[<<p, n>>], h)
    BY <1>3, <1>5, FreshTake
  <2>2. Tail(net[<<p, n>>]) \in Seq(M) BY <1>3
  <2> QED BY <1>3, <1>4, <1>6, <1>7, <2>1, <2>2, FreshToPeer
<1>13. Fresh(net'[<<p, n>>], net'[<<n, p>>], inTransit'[n], known'[<<p, n>>], Len(chain'[n]))
  BY <1>2, <1>11, <1>12
<1>14. AllFresh(up)' BY <1>1, <1>2, <1>3, <1>5, <1>11, <1>13, OneLink
<1> QED BY <1>2, <1>10, <1>14, SourceQuiet

\* No handler panics: a peer that is behind is on the same chain, and a block that
\* comes is not stored yet.
LEMMA SourceNoConflict ==
    ASSUME AnyInv, NEW source, NEW up, Tree(source, up), SourceInv(source, up), NEW n, NEW p
    PROVE  ~VersionConflict(n, p) /\ ~BlockStored(n, p)
<1>1. ASSUME VersionConflict(n, p) PROVE FALSE
  <2>1. Receives(n, p, "version") /\ Len(chain[n]) > Msg(n, p).height /\ ~GetBlock(n, Msg(n, p).last)
    BY <1>1 DEF VersionConflict
  <2>2. /\ n \in Nodes /\ Msg(n, p).type = "version" /\ Msg(n, p) \in MessageOf(Len(parent))
        /\ Len(parent) \in Nat /\ Proper(up, <<p, n>>, Msg(n, p), Len(chain[p]))
    BY <2>1, Heard
  <2>3. Msg(n, p).last = Msg(n, p).height /\ Msg(n, p).height \in Nat
    BY <2>2, MessageFields DEF Proper
  <2>4. Len(chain[n]) \in Nat /\ ToSet(chain[n]) = 1..Len(chain[n]) BY <2>2, Heights
  <2> QED BY <2>1, <2>3, <2>4 DEF GetBlock
<1>2. ASSUME BlockStored(n, p) PROVE FALSE
  <2>1. Receives(n, p, "block") /\ Msg(n, p).block \in ToSet(chain[n]) BY <1>2 DEF BlockStored
  <2>2. /\ n \in Nodes /\ p \in Nodes /\ Msg(n, p).type = "block"
        /\ net[<<p, n>>] \in Seq(MessageOf(Len(parent))) /\ net[<<p, n>>] # <<>>
        /\ Msg(n, p) = Head(net[<<p, n>>])
        /\ Proper(up, <<p, n>>, Msg(n, p), Len(chain[p]))
        /\ up[n] = p => Fresh(net[<<p, n>>], net[<<n, p>>], inTransit[n], known[<<p, n>>], Len(chain[n]))
    BY <2>1, Heard
  <2>3. up[n] = p BY <2>2 DEF Proper
  <2>4. 1 \in DOMAIN net[<<p, n>>] /\ Msg(n, p) = net[<<p, n>>][1] BY <2>2, SeqTail
  <2>5. Msg(n, p).block > Len(chain[n]) BY <2>2, <2>3, <2>4 DEF Fresh, AllAhead, Ahead
  <2>6. Len(chain[n]) \in Nat /\ ToSet(chain[n]) = 1..Len(chain[n]) BY <2>2, Heights
  <2> QED BY <2>1, <2>5, <2>6
<1> QED BY <1>1, <1>2

\* SourceInv is kept by handleGetData.
LEMMA SourceGetData ==
    ASSUME AnyInv, NEW source, NEW up, Tree(source, up), SourceInv(source, up),
           NEW n, NEW p, HandleGetData(n, p)
    PROVE  SourceInv(source, up)'
<1> DEFINE M == MessageOf(Len(parent))
           m == BlockMsg(Msg(n, p).block)
<1>1. Typed /\ AllFresh(up) /\ AllProper(up) /\ NoPanic BY DEF AnyInv, SourceInv
<1>2. /\ Receives(n, p, "getdata")
      /\ UNCHANGED <<setup, parent, chain, known, inTransit, inTransitSet, alive>>
      /\ Consume(n, p, Nothing) \/ Consume(n, p, Reply(p, m))
  BY DEF HandleGetData
<1>3. /\ n \in Nodes /\ p \in Nodes /\ n # p /\ <<n, p>> \in Links /\ <<p, n>> \in Links
      /\ net[<<n, p>>] \in Seq(M) /\ net[<<p, n>>] \in Seq(M) /\ net[<<p, n>>] # <<>>
      /\ Msg(n, p) = Head(net[<<p, n>>])
      /\ Msg(n, p).type = "getdata" /\ Msg(n, p) \in M /\ Len(parent) \in Nat
      /\ Proper(up, <<p, n>>, Msg(n, p), Len(chain[p]))
      /\ up[p] = n => Fresh(net[<<n, p>>], net[<<p, n>>], inTransit[p], known[<<n, p>>], Len(chain[p]))
  BY <1>2, Heard
<1>4. up[p] = n BY <1>3 DEF Proper
<1>5. Msg(n, p).block \in 1..Len(parent) BY <1>3, MessageFields
<1>6. m \in M /\ m.type = "block" /\ m.block = Msg(n, p).block BY <1>5 DEF BlockMsg, MessageOf
<1> HIDE DEF m
<1>7. CASE Consume(n, p, Reply(p, m))
  <2>1. NetAfter(n, p, <<m>>) BY <1>1, <1>2, <1>6, <1>7, AfterReply
  <2>2. Proper(up, <<n, p>>, m, Len(chain[n])) BY <1>4, <1>6 DEF Proper
  <2>3. AllProper(up)' BY <1>1, <1>2, <1>6, <2>1, <2>2, ProperAfter, ProperStays
  <2> HIDE DEF M
  <2>4. /\ net'[<<p, n>>] = Tail(net[<<p, n>>]) /\ net'[<<n, p>>] = Append(net[<<n, p>>], m)
        /\ \A l \in Links : l # <<p, n>> /\ l # <<n, p>> => net'[l] = net[l]
    BY <1>3, <1>6, <2>1, SeqConcat DEF NetAfter
  <2>5. Len(chain[p]) \in Nat BY <1>3, Heights
  <2>6. Fresh(Append(net[<<n, p>>], m), Tail(net[<<p, n>>]), inTransit[p], known[<<n, p>>], Len(chain[p]))
    BY <1>3, <1>4, <1>6, <2>5, FreshServed
  <2>7. Fresh(net'[<<n, p>>], net'[<<p, n>>], inTransit'[p], known'[<<n, p>>], Len(chain'[p]))
    BY <1>2, <2>4, <2>6
  <2>8. AllFresh(up)' BY <1>1, <1>2, <1>3, <1>4, <2>4, <2>7, OneLink
  <2> QED BY <1>2, <2>3, <2>8, SourceQuiet
<1>8. CASE Consume(n, p, Nothing) BY <1>2, <1>8, SourceDrop
<1> QED BY <1>2, <1>7, <1>8

\* SourceInv is kept by handleGetBlocks: what it announces it has not announced
\* before, and the peer does not have it.
LEMMA SourceGetBlocks ==
    ASSUME AnyInv, NEW source, NEW up, Tree(source, up), SourceInv(source, up),
           NEW n, NEW p, HandleGetBlocks(n, p)
    PROVE  SourceInv(source, up)'
<1> DEFINE M == MessageOf(Len(parent))
           K == known[<<n, p>>]
           new == Without(GetBlockHashes(chain[n], Msg(n, p).last), K)
           m == Inv(new)
<1>1. Typed /\ AllFresh(up) /\ AllProper(up) /\ NoPanic BY DEF AnyInv, SourceInv
<1>2. /\ Receives(n, p, "getblocks")
      /\ UNCHANGED <<setup, parent, chain, inTransit, inTransitSet, alive>>
      /\ Consume(n, p, IF new = <<>> THEN Nothing ELSE Reply(p, m))
      /\ known' = [known EXCEPT ![<<n, p>>] = @ \cup ToSet(new)]
  BY DEF HandleGetBlocks
<1>3. /\ n \in Nodes /\ p \in Nodes /\ n # p /\ <<n, p>> \in Links /\ <<p, n>> \in Links
      /\ net[<<n, p>>] \in Seq(M) /\ net[<<p, n>>] \in Seq(M) /\ net[<<p, n>>] # <<>>
      /\ Msg(n, p) = Head(net[<<p, n>>])
      /\ Msg(n, p).type = "getblocks" /\ Msg(n, p) \in M /\ Len(parent) \in Nat
      /\ Proper(up, <<p, n>>, Msg(n, p), Len(chain[p]))
      /\ up[p] = n => Fresh(net[<<n, p>>], net[<<p, n>>], inTransit[p], K, Len(chain[p]))
  BY <1>2, Heard
<1>4. up[p] = n BY <1>3 DEF Proper
<1>5. Len(chain[p]) \in Nat /\ Len(chain[p]) <= Len(chain[n]) /\ Len(chain[n]) \in Nat
  BY <1>3, <1>4, Heights
<1>6. Msg(n, p).last \in 0..Len(chain[p])
  <2>1. 1 \in DOMAIN net[<<p, n>>] /\ Msg(n, p) = net[<<p, n>>][1] BY <1>3, SeqTail
  <2> QED BY <1>3, <1>4, <2>1 DEF Fresh, Covered
<1>7. /\ new \in Seq(1..Len(parent))
      /\ \A i \in DOMAIN new : new[i] \notin K /\ new[i] > Msg(n, p).last
      /\ \A i, j \in DOMAIN new : i # j => new[i] # new[j]
  <2>1. chain[n] \in Seq(1..Len(parent)) BY <1>1, <1>3 DEF Typed, Mined
  <2>2. \A i \in DOMAIN chain[n] : chain[n][i] = i BY <1>3 DEF SourceInv, Straight
  <2>3. Msg(n, p).last \in Nat /\ Msg(n, p).last <= Len(chain[n]) BY <1>5, <1>6
  <2> DEFINE k == Len(parent)
             c == chain[n]
             last == Msg(n, p).last
  <2> HIDE DEF k, c, last, K
  <2>4. k \in Nat /\ c \in Seq(1..k) /\ last \in Nat BY <1>3, <2>1, <2>3 DEF k, c, last
  <2>5. LET w == Without(GetBlockHashes(c, last), K) IN
           /\ w \in Seq(1..k)
           /\ \A i \in DOMAIN w : w[i] \in ToSet(c) /\ w[i] \notin K
           /\ (\A i \in DOMAIN c : c[i] = i) =>
                 /\ \A i \in DOMAIN w : last <= Len(c) => w[i] > last
                 /\ \A i, j \in DOMAIN w : i # j => w[i] # w[j]
    BY <2>4, Announced
  <2>6. new = Without(GetBlockHashes(c, last), K) BY DEF c, last
  <2> HIDE DEF new
  <2>7. (\A i \in DOMAIN c : c[i] = i) /\ last <= Len(c) BY <2>2, <2>3 DEF c, last
  <2>8. /\ new \in Seq(1..k) /\ \A i \in DOMAIN new : new[i] \notin K /\ new[i] > last
        /\ \A i, j \in DOMAIN new : i # j => new[i] # new[j]
    BY <2>5, <2>6, <2>7
  <2> QED BY <2>8 DEF k, last
<1> HIDE DEF new
<1>8. new \in Seq(Nat)
  <2>1. 1..Len(parent) \subseteq Nat OBVIOUS
  <2> QED BY <1>7, <2>1, SeqDef
<1>9. known'[<<n, p>>] = K \cup ToSet(new) /\ \A l \in Links : l # <<n, p>> => known'[l] = known[l]
  BY <1>1, <1>2, <1>3 DEF Typed
<1>10. CASE new # <<>>
  <2>1. m \in M /\ m.type = "inv" /\ m.items = new BY <1>7, <1>10 DEF Inv, MessageOf
  <2> HIDE DEF m
  <2>2. NetAfter(n, p, <<m>>) BY <1>1, <1>2, <1>10, <2>1, AfterReply
  <2>3. Proper(up, <<n, p>>, m, Len(chain[n])) BY <1>4, <2>1 DEF Proper
  <2>4. AllProper(up)' BY <1>1, <1>2, <2>1, <2>2, <2>3, ProperAfter, ProperStays
  <2> HIDE DEF M
  <2>5. /\ net'[<<p, n>>] = Tail(net[<<p, n>>]) /\ net'[<<n, p>>] = Append(net[<<n, p>>], m)
        /\ \A l \in Links : l # <<p, n>> /\ l # <<n, p>> => net'[l] = net[l]
    BY <1>3, <2>1, <2>2, SeqConcat DEF NetAfter
  <2>6. Fresh(Append(net[<<n, p>>], m), Tail(net[<<p, n>>]), inTransit[p], K \cup ToSet(new),
              Len(chain[p]))
    BY <1>3, <1>4, <1>5, <1>7, <1>8, <2>1, FreshAnnounced
  <2>7. Fresh(net'[<<n, p>>], net'[<<p, n>>], inTransit'[p], known'[<<n, p>>], Len(chain'[p]))
    BY <1>2, <1>9, <2>5, <2>6
  <2>8. \A q \in Nodes \ {p} : <<up[q], q>> \in Links =>
           known'[<<up[q], q>>] = known[<<up[q], q>>]
    BY <1>9
  <2>9. AllFresh(up)'
    <3>1. /\ \A q \in Nodes \ {p} : /\ inTransit'[q] = inTransit[q]
                                     /\ Len(chain'[q]) = Len(chain[q])
                                     /\ <<up[q], q>> \in Links =>
                                           known'[<<up[q], q>>] = known[<<up[q], q>>]
          /\ setup' = setup
      BY <1>2, <2>8
    <3>2. \A l \in Links : l # <<n, p>> /\ l # <<p, n>> => net'[l] = net[l]
      BY <2>5
    <3>3. n = up[p] /\ p \in Nodes /\ <<n, p>> \in Links
      BY <1>3, <1>4
    <3>4. OtherLinksStay(up, n, p) BY <1>2, <3>1, <3>2 DEF OtherLinksStay
    <3> QED BY <1>1, <2>7, <3>3, <3>4, OneLinkOnly
  <2> QED BY <1>2, <2>4, <2>9, SourceQuiet
<1>11. CASE new = <<>>
  <2>1. ToSet(new) = {} BY <1>11 DEF ToSet
  <2>2. known' = known BY <1>1, <1>2, <1>3, <2>1 DEF Typed
  <2> QED BY <1>2, <1>11, <2>2, SourceDrop
<1> QED BY <1>10, <1>11

\* SourceInv is kept by handleInv, though the list replaces one there may be.
LEMMA SourceHandleInv ==
    ASSUME AnyInv, NEW source, NEW up, Tree(source, up), SourceInv(source, up),
           NEW n, NEW p, HandleInv(n, p)
    PROVE  SourceInv(source, up)'
<1> DEFINE M == MessageOf(Len(parent))
           items == Msg(n, p).items
           first == Last(items)
           m == GetData(first)
<1>1. Typed /\ AllFresh(up) /\ AllProper(up) /\ NoPanic BY DEF AnyInv, SourceInv
<1>2. /\ Receives(n, p, "inv") /\ Consume(n, p, Reply(p, m))
      /\ inTransit' = [inTransit EXCEPT ![n] = Without(items, {first})]
      /\ UNCHANGED <<setup, parent, chain, known, alive>>
  BY DEF HandleInv
<1>3. /\ n \in Nodes /\ p \in Nodes /\ n # p /\ <<n, p>> \in Links /\ <<p, n>> \in Links
      /\ net[<<n, p>>] \in Seq(M) /\ net[<<p, n>>] \in Seq(M) /\ net[<<p, n>>] # <<>>
      /\ Msg(n, p) = Head(net[<<p, n>>])
      /\ Msg(n, p).type = "inv" /\ Msg(n, p) \in M /\ Len(parent) \in Nat
      /\ Proper(up, <<p, n>>, Msg(n, p), Len(chain[p]))
      /\ up[n] = p => Fresh(net[<<p, n>>], net[<<n, p>>], inTransit[n], known[<<p, n>>], Len(chain[n]))
  BY <1>2, Heard
<1>4. up[n] = p BY <1>3 DEF Proper
<1>5. items \in Seq(1..Len(parent)) /\ items # <<>> BY <1>3, MessageFields
<1>6. Head(net[<<p, n>>]).type = "inv" /\ Head(net[<<p, n>>]).items = items BY <1>3
<1> HIDE DEF items
<1>7. first \in 1..Len(parent) BY <1>5 DEF Last
<1>8. m \in M /\ m.type = "getdata" /\ m.block = first BY <1>7 DEF GetData, MessageOf
<1>9. /\ Without(items, {first}) \in Seq(1..Len(parent))
      /\ PickedFrom(Without(items, {first}), items, Len(items), {first})
  BY <1>5, WithoutPicks
<1> DEFINE T == Without(items, {first})
<1> HIDE DEF m
<1>10. NetAfter(n, p, <<m>>) BY <1>1, <1>2, <1>8, AfterReply
<1>11. Proper(up, <<n, p>>, m, Len(chain[n])) BY <1>4, <1>8 DEF Proper
<1>12. AllProper(up)' BY <1>1, <1>2, <1>8, <1>10, <1>11, ProperAfter, ProperStays
<1> HIDE DEF M
<1>13. /\ net'[<<p, n>>] = Tail(net[<<p, n>>]) /\ net'[<<n, p>>] = Append(net[<<n, p>>], m)
       /\ \A l \in Links : l # <<p, n>> /\ l # <<n, p>> => net'[l] = net[l]
  BY <1>3, <1>8, <1>10, SeqConcat DEF NetAfter
<1>14. Len(chain[n]) \in Nat BY <1>3, Heights
<1>15. inTransit'[n] = T /\ \A q \in Nodes \ {n} : inTransit'[q] = inTransit[q]
  BY <1>1, <1>2, <1>3 DEF Typed
<1> HIDE DEF T
<1>16. Fresh(Tail(net[<<p, n>>]), Append(net[<<n, p>>], m), T, known[<<p, n>>], Len(chain[n]))
  <2>1. T \in Seq(1..Len(parent)) /\ PickedFrom(T, items, Len(items), {Last(items)}) BY <1>9 DEF T
  <2>2. m.block = Last(items) BY <1>8
  <2>3. Fresh(net[<<p, n>>], net[<<n, p>>], inTransit[n], known[<<p, n>>], Len(chain[n]))
    BY <1>3, <1>4
  <2> QED BY <1>3, <1>5, <1>6, <1>8, <1>14, <2>1, <2>2, <2>3, FreshInv
<1>17. Fresh(net'[<<p, n>>], net'[<<n, p>>], inTransit'[n], known'[<<p, n>>], Len(chain'[n]))
  BY <1>2, <1>13, <1>15, <1>16
<1>18. AllFresh(up)'
  <2>1. \A q \in Nodes \ {n} : /\ inTransit'[q] = inTransit[q]
                               /\ Len(chain'[q]) = Len(chain[q])
                               /\ <<up[q], q>> \in Links =>
                                     known'[<<up[q], q>>] = known[<<up[q], q>>]
    BY <1>2, <1>15
  <2>2. \A l \in Links : l # <<p, n>> /\ l # <<n, p>> => net'[l] = net[l]
    BY <1>13
  <2>3. p = up[n] /\ n \in Nodes /\ <<p, n>> \in Links
    BY <1>3, <1>4
  <2>4. OtherLinksStay(up, p, n) BY <1>2, <2>1, <2>2 DEF OtherLinksStay
  <2> QED BY <1>1, <1>17, <2>3, <2>4, OneLinkOnly
<1> QED BY <1>2, <1>12, <1>18, SourceQuiet

\* Messages stay proper when the sender's chain grows.
LEMMA ProperGrows ==
    ASSUME NEW up, NEW l, NEW m, NEW g \in Nat, NEW h \in Nat, g <= h, NEW k \in Nat,
           m \in MessageOf(k), Proper(up, l, m, g)
    PROVE  Proper(up, l, m, h)
<1>1. m.type = "version" => m.height \in Nat BY MessageFields
<1> QED BY <1>1 DEF Proper

\* A stream keeps its messages, but for the first one if it is read, and may
\* get one more.
LEMMA ProperStream ==
    ASSUME NEW up, NEW l, NEW k \in Nat, NEW s \in Seq(MessageOf(k)), NEW t,
           NEW m \in MessageOf(k), NEW g \in Nat, NEW h \in Nat, g <= h,
           \A i \in DOMAIN s : Proper(up, l, s[i], g),
           \/ t = s
           \/ s # <<>> /\ t = Tail(s)
           \/ Proper(up, l, m, h) /\ t = Append(s, m)
    PROVE  \A i \in DOMAIN t : Proper(up, l, t[i], h)
<1> DEFINE M == MessageOf(k)
<1>1. s \in Seq(M) /\ m \in M OBVIOUS
<1>2. \A j \in DOMAIN s : Proper(up, l, s[j], h)
  <2> SUFFICES ASSUME NEW j \in DOMAIN s PROVE Proper(up, l, s[j], h) OBVIOUS
  <2>1. s[j] \in M
    <3> HIDE DEF M
    <3> QED BY <1>1
  <2>2. Proper(up, l, s[j], g) OBVIOUS
  <2> QED BY <2>1, <2>2, ProperGrows
<1> HIDE DEF M
<1>3. CASE t = s BY <1>2, <1>3
<1>4. CASE s # <<>> /\ t = Tail(s)
  <2>1. \A i \in DOMAIN t : i + 1 \in DOMAIN s /\ t[i] = s[i + 1] BY <1>1, <1>4, SeqTail
  <2> QED BY <1>2, <2>1
<1>5. CASE Proper(up, l, m, h) /\ t = Append(s, m)
  <2>1. \A i \in DOMAIN t : (i \in DOMAIN s /\ t[i] = s[i]) \/ t[i] = m
    BY <1>1, <1>5, SeqAppend
  <2> QED BY <1>2, <1>5, <2>1
<1> QED BY <1>3, <1>4, <1>5

\* The chains grow, and every stream keeps its messages but for the first one,
\* and gets at most the message of its sender.
LEMMA ProperToAll ==
    ASSUME NEW up, setup \in Setups, AllProper(up), setup' = setup,
           NEW k \in Nat, net \in [Links -> Seq(MessageOf(k))], NEW m \in MessageOf(k),
           \A q \in Nodes : /\ Len(chain[q]) \in Nat /\ Len(chain'[q]) \in Nat
                            /\ Len(chain[q]) <= Len(chain'[q]),
           \A l \in Links : \/ net'[l] = net[l]
                            \/ net[l] # <<>> /\ net'[l] = Tail(net[l])
                            \/ /\ Proper(up, l, m, Len(chain'[l[1]]))
                               /\ net'[l] = Append(net[l], m)
    PROVE  AllProper(up)'
<1>1. ASSUME NEW l \in Links
      PROVE  \A i \in DOMAIN net'[l] : Proper(up, l, net'[l][i], Len(chain'[l[1]]))
  <2>1. l[1] \in Nodes BY LinkPairs
  <2>2. net[l] \in Seq(MessageOf(k)) BY <1>1
  <2>3. \A i \in DOMAIN net[l] : Proper(up, l, net[l][i], Len(chain[l[1]])) BY DEF AllProper
  <2> DEFINE s == net[l]
             t == net'[l]
             g == Len(chain[l[1]])
             h == Len(chain'[l[1]])
  <2>4. g \in Nat /\ h \in Nat /\ g <= h BY <2>1
  <2>5. t = s \/ (s # <<>> /\ t = Tail(s)) \/ (Proper(up, l, m, h) /\ t = Append(s, m)) BY <1>1
  <2> HIDE DEF s, t, g, h
  <2>6. s \in Seq(MessageOf(k)) /\ \A i \in DOMAIN s : Proper(up, l, s[i], g)
    BY <2>2, <2>3, Zenon DEF s, g
  <2>7. \A i \in DOMAIN t : Proper(up, l, t[i], h) BY <2>4, <2>5, <2>6, ProperStream
  <2> QED BY <2>7 DEF t, h
<1>2. Links' = Links BY DEF Links
<1> QED BY <1>1, <1>2, Zenon DEF AllProper

\* SourceInv is kept by mining, which only the source does.
LEMMA SourceMine ==
    ASSUME AnyInv, NEW source, NEW up, Tree(source, up), SourceInv(source, up),
           NEW n \in Nodes, Mine(n)
    PROVE  SourceInv(source, up)'
<1> DEFINE k == Len(parent)
           b == k + 1
           h == Len(chain[n])
           m == MyVersion(chain'[n])
<1>1. Typed /\ Rising /\ AllFresh(up) /\ AllProper(up) /\ NoPanic /\ Straight(source) /\ Behind(up)
  BY DEF AnyInv, SourceInv
<1>2. n = source BY DEF Mine, Tree
<1>3. /\ k \in Nat /\ parent' = Append(parent, Tip(n)) /\ Len(parent') = b
      /\ chain' = [chain EXCEPT ![n] = Append(@, b)]
      /\ chain'[n] = Append(chain[n], b)
      /\ m = Version(h + 1, b) /\ m \in MessageOf(b)
      /\ net' = [l \in Links |-> IF l[1] = n /\ alive[l[2]] THEN Append(net[l], m) ELSE net[l]]
      /\ UNCHANGED <<setup, known, inTransit, inTransitSet, alive>>
  BY MineFacts
<1> HIDE DEF m
<1>4. h = k /\ Tip(n) = k /\ h \in Nat /\ DOMAIN chain[n] = 1..h
      /\ \A i \in 1..h : chain[n][i] = i
  BY <1>1, <1>2, Heights DEF Straight
<1>5. chain[n] \in Seq(1..k) /\ parent \in Seq(Nat) BY <1>1 DEF Typed, Mined
<1>6. /\ DOMAIN chain'[n] = 1..(h + 1) /\ Len(chain'[n]) = h + 1
      /\ \A i \in 1..(h + 1) : chain'[n][i] = i
  <2>1. chain[n] \in Seq(Nat) /\ b \in Nat
    <3>1. 1..k \subseteq Nat BY <1>3
    <3> QED BY <1>3, <1>5, <3>1, SeqDef
  <2>2. /\ DOMAIN Append(chain[n], b) = 1..(h + 1) /\ Len(Append(chain[n], b)) = h + 1
        /\ Append(chain[n], b)[h + 1] = b /\ \A i \in 1..h : Append(chain[n], b)[i] = chain[n][i]
    BY <2>1, Extended
  <2> QED BY <1>3, <1>4, <2>2
<1>7. \A q \in Nodes \ {n} : chain'[q] = chain[q] BY <1>1, <1>3 DEF Typed
<1>8. \A q \in Nodes : Len(chain[q]) \in Nat /\ up[q] \in Nodes BY <1>1, Heights
<1>9. \A q \in Nodes : /\ Len(chain'[q]) = IF q = n THEN h + 1 ELSE Len(chain[q])
                       /\ Len(chain'[q]) \in Nat /\ Len(chain[q]) <= Len(chain'[q])
  BY <1>4, <1>6, <1>7, <1>8
<1>10. Straight(source)'
  <2>1. \A q \in Nodes : \A i \in DOMAIN chain'[q] : chain'[q][i] = i
    BY <1>1, <1>6, <1>7 DEF Straight
  <2>2. parent'[b] = k /\ \A i \in 1..k : parent'[i] = parent[i] BY <1>3, <1>4, <1>5
  <2>3. \A i \in 1..b : parent'[i] = i - 1 BY <1>1, <1>3, <2>2 DEF Straight, Mined
  <2> QED BY <1>2, <1>3, <1>4, <1>6, <2>1, <2>3 DEF Straight, Mined
<1>11. Behind(up)'
  <2> SUFFICES ASSUME NEW q \in Nodes PROVE Len(chain'[q]) <= Len(chain'[up[q]]) BY DEF Behind
  <2>1. CASE q = n
    <3>1. up[q] = q BY <1>2, <2>1 DEF Tree
    <3> QED BY <1>9, <3>1
  <2>2. CASE q # n
    <3>1. Len(chain'[q]) = Len(chain[q]) /\ Len(chain[q]) <= Len(chain[up[q]]) BY <1>1, <1>7, <2>2 DEF Behind
    <3> QED BY <1>8, <1>9, <3>1
  <2> QED BY <2>1, <2>2
<1>12. NoPanic' BY <1>1, <1>3 DEF NoPanic
<1>13. m.type = "version" /\ m.height = h + 1 /\ m.last = b BY <1>3 DEF Version
<1>14. net \in [Links -> Seq(MessageOf(b))] /\ b \in Nat
  <2>1. Seq(MessageOf(k)) \subseteq Seq(MessageOf(b)) /\ b \in Nat
    <3>1. b \in Nat /\ k <= b BY <1>3
    <3> HIDE DEF k, b
    <3> QED BY <1>3, <3>1, MessagesGrow
  <2>2. net \in [Links -> Seq(MessageOf(k))] BY <1>1 DEF Typed
  <2> QED BY <2>1, <2>2
<1>15. AllProper(up)'
  <2>1. /\ setup \in Setups /\ setup' = setup /\ b \in Nat /\ m \in MessageOf(b)
        /\ net' = [l \in Links |-> IF l[1] = n /\ alive[l[2]] THEN Append(net[l], m) ELSE net[l]]
    BY <1>1, <1>3, <1>14 DEF Typed
  <2>2. \A l \in Links : l[1] = n => Proper(up, l, m, Len(chain'[l[1]]))
    BY <1>4, <1>6, <1>13 DEF Proper
  <2> HIDE DEF b, k, h
  <2>3. ASSUME NEW l \in Links
        PROVE  \/ net'[l] = net[l]
               \/ net[l] # <<>> /\ net'[l] = Tail(net[l])
               \/ /\ Proper(up, l, m, Len(chain'[l[1]]))
                  /\ net'[l] = Append(net[l], m)
    <3>1. CASE l[1] = n /\ alive[l[2]] BY <2>1, <2>2, <3>1
    <3>2. CASE ~(l[1] = n /\ alive[l[2]]) BY <2>1, <3>2
    <3> QED BY <3>1, <3>2
  <2> QED BY <1>1, <1>8, <1>9, <1>14, <2>1, <2>3, ProperToAll
<1>16. AllFresh(up)'
  <2> DEFINE M == MessageOf(b)
  <2> SUFFICES ASSUME NEW q \in Nodes, <<up[q], q>> \in Links
               PROVE  Fresh(net'[<<up[q], q>>], net'[<<q, up[q]>>], inTransit'[q],
                            known'[<<up[q], q>>], Len(chain'[q]))
    BY <1>3 DEF AllFresh, Links
  <2>1. up[q] # q /\ <<q, up[q]>> \in Links BY <1>1, LinkFacts DEF Typed
  <2>2. q # n BY <1>2, <2>1 DEF Tree
  <2>3. Fresh(net[<<up[q], q>>], net[<<q, up[q]>>], inTransit[q], known[<<up[q], q>>], Len(chain[q]))
    BY <1>1 DEF AllFresh
  <2>4. net'[<<q, up[q]>>] = net[<<q, up[q]>>] /\ Len(chain'[q]) = Len(chain[q])
    BY <1>3, <1>7, <2>1, <2>2
  <2>5. net[<<up[q], q>>] \in Seq(M) /\ net[<<q, up[q]>>] \in Seq(M) /\ m \in M
    BY <1>3, <1>14, <2>1
  <2> HIDE DEF M
  <2>6. Fresh(Append(net[<<up[q], q>>], m), net[<<q, up[q]>>], inTransit[q], known[<<up[q], q>>],
              Len(chain[q]))
    BY <1>13, <2>3, <2>5, FreshFromPeer
  <2>7. \/ net'[<<up[q], q>>] = net[<<up[q], q>>]
        \/ net'[<<up[q], q>>] = Append(net[<<up[q], q>>], m)
    BY <1>3
  <2> QED BY <1>3, <2>3, <2>4, <2>6, <2>7
<1> QED BY <1>10, <1>11, <1>12, <1>15, <1>16 DEF SourceInv

\* SourceInv is kept by a connection that breaks and is made again: knownBlocks is
\* empty, but so are both streams, and nobody looks at the list before an inv.
LEMMA SourceReconnect ==
    ASSUME AnyInv, NEW source, NEW up, Tree(source, up), SourceInv(source, up),
           NEW n, NEW p, Reconnect(n, p)
    PROVE  SourceInv(source, up)'
<1>1. Typed /\ AllFresh(up) /\ AllProper(up) BY DEF AnyInv, SourceInv
<1>2. /\ <<n, p>> \in Links
      /\ net' = [net EXCEPT ![<<n, p>>] = <<MyVersion(chain[n])>>,
                            ![<<p, n>>] = <<MyVersion(chain[p])>>]
      /\ known' = [known EXCEPT ![<<n, p>>] = {}, ![<<p, n>>] = {}]
      /\ UNCHANGED <<setup, parent, chain, inTransit, inTransitSet, alive>>
  BY DEF Reconnect
<1>3. n \in Nodes /\ p \in Nodes /\ n # p /\ <<p, n>> \in Links BY <1>1, <1>2, LinkFacts DEF Typed
<1>4. /\ net'[<<n, p>>] = <<MyVersion(chain[n])>> /\ net'[<<p, n>>] = <<MyVersion(chain[p])>>
      /\ \A l \in Links : l # <<n, p>> /\ l # <<p, n>> => net'[l] = net[l]
  <2>1. <<n, p>> # <<p, n>> BY <1>3
  <2> QED BY <1>1, <1>2, <1>3, <2>1 DEF Typed
<1>5. \A q \in Nodes : /\ Len(chain[q]) \in Nat
                       /\ MyVersion(chain[q]).type = "version"
                       /\ MyVersion(chain[q]).height = Len(chain[q])
                       /\ MyVersion(chain[q]).last = Len(chain[q])
  <2> SUFFICES ASSUME NEW q \in Nodes
               PROVE  /\ Len(chain[q]) \in Nat
                      /\ MyVersion(chain[q]).type = "version"
                      /\ MyVersion(chain[q]).height = Len(chain[q])
                      /\ MyVersion(chain[q]).last = Len(chain[q])
    OBVIOUS
  <2>1. Len(chain[q]) \in Nat /\ MyVersion(chain[q]) = Version(Len(chain[q]), Len(chain[q]))
    BY Heights
  <2> QED BY <2>1 DEF Version
<1>6. AllProper(up)'
  <2> SUFFICES ASSUME NEW l \in Links
               PROVE  \A i \in DOMAIN net'[l] : Proper(up, l, net'[l][i], Len(chain[l[1]]))
    BY <1>2, ProperStays
  <2>1. ASSUME NEW q \in Nodes, l[1] = q, net'[l] = <<MyVersion(chain[q])>>
        PROVE  \A i \in DOMAIN net'[l] : Proper(up, l, net'[l][i], Len(chain[l[1]]))
    <3>1. \A i \in DOMAIN net'[l] : net'[l][i] = MyVersion(chain[q]) BY <2>1
    <3> QED BY <1>5, <2>1, <3>1 DEF Proper
  <2>2. CASE l = <<n, p>> BY <1>3, <1>4, <2>1, <2>2
  <2>3. CASE l = <<p, n>> BY <1>3, <1>4, <2>1, <2>3
  <2>4. CASE l # <<n, p>> /\ l # <<p, n>> BY <1>1, <1>4, <2>4 DEF AllProper
  <2> QED BY <2>2, <2>3, <2>4
<1>7. ASSUME NEW c \in Nodes, NEW u, u = up[c], <<u, c>> = <<n, p>> \/ <<u, c>> = <<p, n>>
      PROVE  AllFresh(up)'
  <2>1. u \in Nodes /\ <<u, c>> \in Links BY <1>2, <1>3, <1>7
  <2>2. /\ net'[<<u, c>>] = <<MyVersion(chain[u])>> /\ net'[<<c, u>>] = <<MyVersion(chain[c])>>
        /\ \A l \in Links : l # <<u, c>> /\ l # <<c, u>> => net'[l] = net[l]
    BY <1>4, <1>7
  <2>3. Fresh(net'[<<u, c>>], net'[<<c, u>>], inTransit'[c], known'[<<u, c>>], Len(chain'[c]))
    <3>1. /\ \A i \in DOMAIN net'[<<u, c>>] : net'[<<u, c>>][i].type = "version"
          /\ \A i \in DOMAIN net'[<<c, u>>] : net'[<<c, u>>][i].type = "version"
      BY <1>5, <2>1, <2>2
    <3> QED BY <3>1, FreshStart
  <2>4. ASSUME NEW q \in Nodes \ {c}, <<up[q], q>> \in Links
        PROVE  known'[<<up[q], q>>] = known[<<up[q], q>>]
    <3>1. up[u] # c BY <1>1, <1>7, <2>1, Ends
    <3>2. <<up[q], q>> # <<n, p>> /\ <<up[q], q>> # <<p, n>> BY <1>7, <3>1
    <3>3. known \in [Links -> SUBSET Mined] BY <1>1 DEF Typed
    <3> DEFINE l == <<up[q], q>>
    <3> HIDE DEF l
    <3>4. l # <<n, p>> /\ l # <<p, n>> /\ l \in Links BY <2>4, <3>2 DEF l
    <3>5. known'[l] = known[l] BY <1>2, <1>3, <3>3, <3>4
    <3> QED BY <3>5 DEF l
  <2>5. \A q \in Nodes \ {c} : /\ inTransit'[q] = inTransit[q]
                               /\ Len(chain'[q]) = Len(chain[q])
                               /\ <<up[q], q>> \in Links =>
                                     known'[<<up[q], q>>] = known[<<up[q], q>>]
    BY <1>2, <2>4
  <2>6. setup' = setup /\ Typed /\ AllFresh(up) /\ u = up[c] BY <1>1, <1>2, <1>7
  <2>7. \A l \in Links : l # <<u, c>> /\ l # <<c, u>> => net'[l] = net[l] BY <2>2
  <2>8. <<u, c>> \in Links BY <2>1
  <2> QED BY <2>3, <2>5, <2>6, <2>7, <2>8, OneLink
<1>8. AllFresh(up)'
  <2>1. up[n] = p \/ up[p] = n BY <1>1, <1>3, Ends
  <2> QED BY <1>3, <1>7, <2>1
<1> QED BY <1>2, <1>6, <1>8, SourceQuiet

\* SourceInv holds initially.
LEMMA SourceInit ==
    ASSUME Init, NEW source, NEW up, Tree(source, up)
    PROVE  SourceInv(source, up)
<1> DEFINE k == Len(parent)
<1>1. /\ setup \in Setups /\ parent = [b \in 1..k |-> b - 1] /\ k \in 0..setup.blocks
      /\ \E n \in Nodes : k = setup.height[n]
      /\ \A n \in Nodes : /\ setup.height[n] \in 0..k
                          /\ chain[n] = [i \in 1..setup.height[n] |-> i]
                          /\ chain[n] \in Seq(1..k) /\ Len(chain[n]) = setup.height[n]
  BY InitFacts
<1>2. k \in Nat /\ source \in Nodes /\ up \in [Nodes -> Nodes] /\ up[source] = source
      /\ \A n \in Nodes : setup.height[n] > 0 => n = source
  BY <1>1, SetupAssumption DEF Tree
<1> HIDE DEF k
<1>3. setup.height[source] = k
  <2>1. PICK n \in Nodes : k = setup.height[n] BY <1>1
  <2>2. CASE k > 0
    <3>1. n = source BY <1>2, <2>1, <2>2
    <3> QED BY <2>1, <3>1
  <2>3. CASE k = 0
    <3>1. setup.height[source] \in 0..k BY <1>1, <1>2
    <3> QED BY <2>3, <3>1
  <2> QED BY <1>2, <2>2, <2>3
<1>4. Straight(source)
  <2>1. ASSUME NEW n \in Nodes, NEW i \in DOMAIN chain[n] PROVE chain[n][i] = i
    <3> DEFINE h == setup.height[n]
    <3>1. chain[n] = [j \in 1..h |-> j] BY <1>1
    <3> HIDE DEF h
    <3> QED BY <3>1
  <2>2. \A b \in 1..k : parent[b] = b - 1 BY <1>1
  <2>3. Len(chain[source]) = Len(parent) BY <1>1, <1>2, <1>3 DEF k
  <2> QED BY <2>1, <2>2, <2>3 DEF Straight, Mined, k
<1>5. Behind(up)
  <2> SUFFICES ASSUME NEW n \in Nodes PROVE Len(chain[n]) <= Len(chain[up[n]]) BY DEF Behind
  <2>1. Len(chain[n]) = setup.height[n] /\ Len(chain[up[n]]) = setup.height[up[n]]
        /\ setup.height[n] \in Nat /\ setup.height[up[n]] \in Nat
    <3>1. \A q \in Nodes : Len(chain[q]) = setup.height[q] /\ setup.height[q] \in 0..k
      BY <1>1, Zenon
    <3>2. \A q \in Nodes : setup.height[q] \in Nat BY <1>2, <3>1
    <3>3. up[n] \in Nodes BY <1>2
    <3> QED BY <3>1, <3>2, <3>3, Zenon
  <2> QED BY <1>2, <2>1
<1>6. NoPanic BY DEF Init, NoPanic
<1>7. \A n \in Nodes : /\ MyVersion(chain[n]).type = "version"
                       /\ MyVersion(chain[n]).height = Len(chain[n])
                       /\ MyVersion(chain[n]).last = Len(chain[n])
  <2> SUFFICES ASSUME NEW n \in Nodes
               PROVE  /\ MyVersion(chain[n]).type = "version"
                      /\ MyVersion(chain[n]).height = Len(chain[n])
                      /\ MyVersion(chain[n]).last = Len(chain[n])
    OBVIOUS
  <2> DEFINE c == chain[n]
  <2>1. c \in Seq(1..k) /\ \A i \in DOMAIN c : c[i] = i BY <1>1, <1>4 DEF Straight
  <2> HIDE DEF c
  <2>2. (IF c = <<>> THEN 0 ELSE Last(c)) = Len(c) BY <2>1 DEF Last
  <2>3. MyVersion(c) = Version(Len(c), Len(c)) BY <2>2 DEF MyVersion
  <2> QED BY <2>3 DEF Version, c
<1>8. \A l \in Links : l[1] \in Nodes /\ net[l] = <<MyVersion(chain[l[1]])>>
  BY <1>1, LinkPairs DEF Init
<1>9. \A n \in Nodes : Len(chain[n]) \in Nat BY <1>1, <1>2
<1>10. AllProper(up)
  <2> SUFFICES ASSUME NEW l \in Links, NEW i \in DOMAIN net[l]
               PROVE  Proper(up, l, net[l][i], Len(chain[l[1]]))
    BY DEF AllProper
  <2>1. net[l][i] = MyVersion(chain[l[1]]) /\ l[1] \in Nodes BY <1>8
  <2> QED BY <1>7, <1>9, <2>1 DEF Proper
<1>11. AllFresh(up)
  <2> SUFFICES ASSUME NEW n \in Nodes, <<up[n], n>> \in Links
               PROVE  Fresh(net[<<up[n], n>>], net[<<n, up[n]>>], inTransit[n],
                            known[<<up[n], n>>], Len(chain[n]))
    BY DEF AllFresh
  <2>1. <<n, up[n]>> \in Links BY <1>1, LinkFacts
  <2>2. \A l \in Links : \A i \in DOMAIN net[l] : net[l][i].type = "version" BY <1>7, <1>8
  <2> QED BY <2>1, <2>2, FreshStart
<1> QED BY <1>4, <1>5, <1>6, <1>10, <1>11 DEF SourceInv

\* What handleBlock finds when it adds a block.
LEMMA AddedFacts ==
    ASSUME AnyInv, NEW source, NEW up, Tree(source, up), SourceInv(source, up),
           NEW n, NEW p, BlockAdded(n, p)
    PROVE  /\ n \in Nodes /\ p \in Nodes /\ up[n] = p /\ n # source
           /\ Msg(n, p).block = Len(chain[n]) + 1
           /\ Len(chain[n]) + 1 <= Len(chain[p])
           /\ \A q \in Nodes : /\ Len(chain[q]) \in Nat
                               /\ Len(chain'[q]) = IF q = n THEN Len(chain[q]) + 1 ELSE Len(chain[q])
           /\ \A q \in Nodes : \A i \in DOMAIN chain'[q] : chain'[q][i] = i
<1> DEFINE b == Msg(n, p).block
           h == Len(chain[n])
<1>1. Typed /\ Rising BY DEF AnyInv
<1>2. /\ Receives(n, p, "block") /\ n \in Nodes /\ p \in Nodes /\ <<n, p>> \in Links
      /\ b \in Mined /\ parent[b] = Tip(n)
      /\ chain' = [chain EXCEPT ![n] = Append(@, b)]
  BY BlockFacts
<1>3. /\ n # p /\ <<p, n>> \in Links /\ Len(parent) \in Nat
      /\ net[<<p, n>>] \in Seq(MessageOf(Len(parent))) /\ net[<<p, n>>] # <<>>
      /\ Msg(n, p) = Head(net[<<p, n>>]) /\ Msg(n, p).type = "block"
      /\ Proper(up, <<p, n>>, Msg(n, p), Len(chain[p]))
      /\ up[n] = p => Fresh(net[<<p, n>>], net[<<n, p>>], inTransit[n], known[<<p, n>>], Len(chain[n]))
  BY <1>2, Heard
<1>4. up[n] = p BY <1>3 DEF Proper
<1>5. n # source BY <1>3, <1>4 DEF Tree
<1>6. \A q \in Nodes : Len(chain[q]) \in Nat BY Heights
<1>7. h \in Nat /\ Tip(n) = h BY <1>2, Heights
<1>8. b = h + 1
  <2>1. parent[b] = b - 1 /\ b \in Nat BY <1>2, <1>3 DEF SourceInv, Straight, Mined
  <2> HIDE DEF b, h
  <2> QED BY <1>2, <1>7, <2>1
<1>9. b \in known[<<p, n>>]
  <2>1. 1 \in DOMAIN net[<<p, n>>] /\ Msg(n, p) = net[<<p, n>>][1] BY <1>3, SeqTail
  <2> QED BY <1>3, <1>4, <2>1 DEF Fresh, AllAhead, Ahead
<1>10. h + 1 <= Len(chain[p])
  <2>1. known[<<p, n>>] \subseteq ToSet(chain[p])
    <3>1. <<p, n>>[1] = p OBVIOUS
    <3> QED BY <1>3, <3>1 DEF AnyInv, KnownStored
  <2>2. ToSet(chain[p]) = 1..Len(chain[p]) /\ Len(chain[p]) \in Nat BY <1>2, Heights
  <2> HIDE DEF b, h
  <2> QED BY <1>8, <1>9, <2>1, <2>2
<1> HIDE DEF b
<1>11. chain[n] \in Seq(Mined) /\ chain'[n] = Append(chain[n], b)
       /\ \A q \in Nodes \ {n} : chain'[q] = chain[q]
  BY <1>1, <1>2 DEF Typed
<1>12. /\ Len(Append(chain[n], b)) = h + 1 /\ DOMAIN Append(chain[n], b) = 1..(h + 1)
       /\ Append(chain[n], b)[h + 1] = b /\ \A i \in 1..h : Append(chain[n], b)[i] = chain[n][i]
  BY <1>2, <1>11, Extended
<1>13. \A q \in Nodes : Len(chain'[q]) = IF q = n THEN Len(chain[q]) + 1 ELSE Len(chain[q])
  BY <1>11, <1>12
<1>14. ASSUME NEW q \in Nodes, NEW i \in DOMAIN chain'[q] PROVE chain'[q][i] = i
  <2>1. \A j \in DOMAIN chain[q] : chain[q][j] = j BY DEF SourceInv, Straight
  <2>2. CASE q # n BY <1>11, <2>1, <2>2
  <2>3. CASE q = n
    <3>1. DOMAIN chain[n] = 1..h BY <1>2, Heights
    <3>2. i \in 1..(h + 1) BY <1>11, <1>12, <2>3
    <3> HIDE DEF h
    <3>3. CASE i = h + 1 BY <1>8, <1>11, <1>12, <2>3, <3>3
    <3>4. CASE i \in 1..h BY <1>11, <1>12, <2>1, <2>3, <3>1, <3>4
    <3> QED BY <1>7, <3>2, <3>3, <3>4
  <2> QED BY <2>2, <2>3
<1> QED BY <1>2, <1>4, <1>5, <1>6, <1>8, <1>10, <1>13, <1>14 DEF b

\* The chains and the processes when a block is added.
LEMMA AddedChains ==
    ASSUME AnyInv, NEW source, NEW up, Tree(source, up), SourceInv(source, up),
           NEW n, NEW p, BlockAdded(n, p)
    PROVE  NoPanic' /\ Straight(source)' /\ Behind(up)'
<1>1. /\ n \in Nodes /\ p \in Nodes /\ up[n] = p /\ n # source
      /\ Len(chain[n]) + 1 <= Len(chain[p])
      /\ \A q \in Nodes : /\ Len(chain[q]) \in Nat
                          /\ Len(chain'[q]) = IF q = n THEN Len(chain[q]) + 1 ELSE Len(chain[q])
      /\ \A q \in Nodes : \A i \in DOMAIN chain'[q] : chain'[q][i] = i
  BY AddedFacts
<1>2. UNCHANGED <<parent, alive, setup>> /\ source \in Nodes BY DEF BlockAdded, Tree
<1>3. NoPanic' BY <1>2 DEF SourceInv, NoPanic
<1>4. Straight(source)' BY <1>1, <1>2 DEF SourceInv, Straight, Mined
<1>5. Behind(up)'
  <2> SUFFICES ASSUME NEW q \in Nodes PROVE Len(chain'[q]) <= Len(chain'[up[q]]) BY DEF Behind
  <2>1. Len(chain[q]) <= Len(chain[up[q]]) /\ up[q] \in Nodes BY DEF SourceInv, Behind, Tree
  <2>2. CASE q = n
    <3>1. p # n
      <4>1. Receives(n, p, "block") BY DEF BlockAdded
      <4> QED BY <4>1, Heard
    <3> QED BY <1>1, <2>2, <3>1
  <2>3. CASE q # n BY <1>1, <2>1, <2>3
  <2> QED BY <2>2, <2>3
<1> QED BY <1>3, <1>4, <1>5

\* What handleBlock finds and leaves when it adds a block, in one place.
LEMMA AddedLinks ==
    ASSUME AnyInv, NEW source, NEW up, Tree(source, up), SourceInv(source, up),
           NEW n, NEW p, BlockAdded(n, p)
    PROVE  /\ Typed /\ AllProper(up) /\ AllFresh(up) /\ NoPanic /\ setup \in Setups /\ setup' = setup
           /\ Receives(n, p, "block") /\ <<n, p>> \in Links /\ <<p, n>> \in Links
           /\ net \in [Links -> Seq(MessageOf(Len(parent)))] /\ Len(parent) \in Nat
           /\ net[<<p, n>>] # <<>> /\ Head(net[<<p, n>>]).type = "block"
           /\ Head(net[<<p, n>>]).block = Len(chain[n]) + 1
           /\ inTransit[n] \in Seq(Mined) /\ known[<<p, n>>] \in SUBSET Nat
           /\ Fresh(net[<<p, n>>], net[<<n, p>>], inTransit[n], known[<<p, n>>], Len(chain[n]))
           /\ \A q \in Nodes : <<up[q], q>> \in Links =>
                 known'[<<up[q], q>>] = known[<<up[q], q>>]
<1>1. /\ n \in Nodes /\ p \in Nodes /\ up[n] = p /\ Msg(n, p).block = Len(chain[n]) + 1
  BY AddedFacts
<1>2. Receives(n, p, "block") /\ setup' = setup BY DEF BlockAdded
<1>3. Typed /\ AllProper(up) /\ AllFresh(up) /\ NoPanic BY DEF AnyInv, SourceInv
<1>4. /\ <<n, p>> \in Links /\ <<p, n>> \in Links /\ net[<<p, n>>] # <<>> /\ Len(parent) \in Nat
      /\ Msg(n, p) = Head(net[<<p, n>>]) /\ Msg(n, p).type = "block"
      /\ Fresh(net[<<p, n>>], net[<<n, p>>], inTransit[n], known[<<p, n>>], Len(chain[n]))
  BY <1>1, <1>2, Heard
<1>5. known \in [Links -> SUBSET Mined] /\ Mined \subseteq Nat /\ inTransit[n] \in Seq(Mined)
  BY <1>1, <1>3 DEF Typed, Mined
<1>6. known[<<p, n>>] \in SUBSET Nat BY <1>4, <1>5
<1>7. ASSUME NEW q \in Nodes, <<up[q], q>> \in Links
      PROVE  known'[<<up[q], q>>] = known[<<up[q], q>>]
  <2>1. up[p] # n BY <1>1, <1>3, <1>4, Ends
  <2>2. <<up[q], q>> # <<n, p>> BY <2>1
  <2> DEFINE l == <<up[q], q>>
             b == Msg(n, p).block
  <2>3. l \in Links /\ l # <<n, p>> BY <1>7, <2>2
  <2>4. known' = [known EXCEPT ![<<n, p>>] = @ \cup {b}] BY DEF BlockAdded
  <2> HIDE DEF l, b
  <2>5. known'[l] = known[l] BY <1>4, <1>5, <2>3, <2>4
  <2> QED BY <2>5 DEF l
<1> QED BY <1>1, <1>2, <1>3, <1>4, <1>5, <1>6, <1>7 DEF Typed

\* handleBlock, when the list is not empty: only the link to p is touched.
LEMMA SourceAddedNext ==
    ASSUME AnyInv, NEW source, NEW up, Tree(source, up), SourceInv(source, up),
           NEW n, NEW p, BlockAdded(n, p), inTransit[n] # <<>>
    PROVE  AllProper(up)' /\ AllFresh(up)'
<1> DEFINE M == MessageOf(Len(parent))
           h == Len(chain[n])
           rest == inTransit[n]
           m == GetData(Last(rest))
<1>1. /\ n \in Nodes /\ p \in Nodes /\ up[n] = p
      /\ \A q \in Nodes : /\ Len(chain[q]) \in Nat
                          /\ Len(chain'[q]) = IF q = n THEN Len(chain[q]) + 1 ELSE Len(chain[q])
  BY AddedFacts
<1>2. /\ Typed /\ AllProper(up) /\ AllFresh(up) /\ NoPanic /\ setup \in Setups /\ setup' = setup
      /\ Receives(n, p, "block") /\ <<n, p>> \in Links /\ <<p, n>> \in Links
      /\ net \in [Links -> Seq(M)] /\ Len(parent) \in Nat
      /\ net[<<p, n>>] # <<>> /\ Head(net[<<p, n>>]).type = "block"
      /\ Head(net[<<p, n>>]).block = h + 1
      /\ rest \in Seq(Mined) /\ known[<<p, n>>] \in SUBSET Nat
      /\ Fresh(net[<<p, n>>], net[<<n, p>>], rest, known[<<p, n>>], h)
      /\ \A q \in Nodes : <<up[q], q>> \in Links => known'[<<up[q], q>>] = known[<<up[q], q>>]
  BY AddedLinks
<1>3. m \in M /\ m.type = "getdata" /\ m.block = Last(rest)
  <2>1. Last(rest) \in Mined BY <1>2 DEF Last
  <2> QED BY <2>1 DEF GetData, MessageOf, Mined
<1>4. /\ inTransit' = [inTransit EXCEPT ![n] = Front(rest)]
      /\ Consume(n, p, Reply(p, m)) \/ Consume(n, p, Nothing)
  BY DEF BlockAdded
<1>5. inTransit'[n] = Front(rest) /\ \A q \in Nodes \ {n} : inTransit'[q] = inTransit[q]
  BY <1>1, <1>2, <1>4 DEF Typed
<1>6. /\ \A q \in Nodes : /\ Len(chain[q]) \in Nat /\ Len(chain'[q]) \in Nat
                          /\ Len(chain[q]) <= Len(chain'[q])
      /\ Len(chain'[n]) = h + 1 /\ h \in Nat
      /\ \A q \in Nodes \ {n} : Len(chain'[q]) = Len(chain[q])
  BY <1>1
<1> HIDE DEF m
<1>7. NetAfter(n, p, <<m>>) \/ NetAfter(n, p, <<>>)
  BY <1>2, <1>3, <1>4, AfterReply, AfterNothing
<1>8. net[<<n, p>>] \in Seq(M) /\ net[<<p, n>>] \in Seq(M) BY <1>2
<1> HIDE DEF M, h, rest
<1>9. /\ net'[<<p, n>>] = Tail(net[<<p, n>>])
      /\ net'[<<n, p>>] = net[<<n, p>>] \/ net'[<<n, p>>] = Append(net[<<n, p>>], m)
      /\ \A l \in Links : l # <<p, n>> /\ l # <<n, p>> => net'[l] = net[l]
  BY <1>3, <1>7, <1>8, SeqConcat DEF NetAfter
<1>10. AllProper(up)'
  <2>1. Proper(up, <<n, p>>, m, Len(chain'[<<n, p>>[1]])) BY <1>1, <1>3 DEF Proper
  <2>2. ASSUME NEW l \in Links
        PROVE  \/ net'[l] = net[l]
               \/ net[l] # <<>> /\ net'[l] = Tail(net[l])
               \/ /\ Proper(up, l, m, Len(chain'[l[1]]))
                  /\ net'[l] = Append(net[l], m)
    <3>1. CASE l = <<p, n>> BY <1>2, <1>9, <3>1
    <3>2. CASE l = <<n, p>> BY <1>9, <2>1, <3>2
    <3>3. CASE l # <<p, n>> /\ l # <<n, p>> BY <1>9, <3>3
    <3> QED BY <3>1, <3>2, <3>3
  <2> USE DEF M
  <2> QED BY <1>2, <1>3, <1>6, <2>2, ProperToAll
<1>11. AllFresh(up)'
  <2>1. /\ Fresh(Tail(net[<<p, n>>]), net[<<n, p>>], Front(rest), known[<<p, n>>], h + 1)
        /\ Fresh(Tail(net[<<p, n>>]), Append(net[<<n, p>>], m), Front(rest), known[<<p, n>>], h + 1)
    <3>1. rest # <<>> BY DEF rest
    <3> QED BY <1>2, <1>3, <1>6, <1>8, <3>1, FreshAdded
  <2>2. known'[<<p, n>>] = known[<<p, n>>] BY <1>1, <1>2
  <2>3. Fresh(net'[<<p, n>>], net'[<<n, p>>], inTransit'[n], known'[<<p, n>>], Len(chain'[n]))
    BY <1>5, <1>6, <1>9, <2>1, <2>2
  <2>4. \A q \in Nodes \ {n} : /\ inTransit'[q] = inTransit[q]
                               /\ Len(chain'[q]) = Len(chain[q])
                               /\ <<up[q], q>> \in Links =>
                                     known'[<<up[q], q>>] = known[<<up[q], q>>]
    BY <1>2, <1>5, <1>6
  <2>5. p = up[n] /\ <<p, n>> \in Links /\ setup' = setup BY <1>1, <1>2
  <2> QED BY <1>1, <1>2, <1>9, <2>3, <2>4, <2>5, OneLink
<1> QED BY <1>10, <1>11

\* handleBlock, when the list is empty: all peers hear of the new height.
LEMMA SourceAddedLast ==
    ASSUME AnyInv, NEW source, NEW up, Tree(source, up), SourceInv(source, up),
           NEW n, NEW p, BlockAdded(n, p), inTransit[n] = <<>>
    PROVE  AllProper(up)' /\ AllFresh(up)'
<1> DEFINE M == MessageOf(Len(parent))
           h == Len(chain[n])
           m == MyVersion(chain'[n])
<1>1. /\ n \in Nodes /\ p \in Nodes /\ up[n] = p /\ Msg(n, p).block = h + 1
      /\ \A q \in Nodes : /\ Len(chain[q]) \in Nat
                          /\ Len(chain'[q]) = IF q = n THEN Len(chain[q]) + 1 ELSE Len(chain[q])
  BY AddedFacts
<1>2. /\ Typed /\ AllProper(up) /\ AllFresh(up) /\ NoPanic /\ setup \in Setups /\ setup' = setup
      /\ Receives(n, p, "block") /\ <<n, p>> \in Links /\ <<p, n>> \in Links
      /\ net \in [Links -> Seq(M)] /\ Len(parent) \in Nat
      /\ net[<<p, n>>] # <<>> /\ Head(net[<<p, n>>]).type = "block"
      /\ Head(net[<<p, n>>]).block = h + 1
      /\ inTransit[n] \in Seq(Mined) /\ known[<<p, n>>] \in SUBSET Nat
      /\ Fresh(net[<<p, n>>], net[<<n, p>>], inTransit[n], known[<<p, n>>], h)
      /\ \A q \in Nodes : <<up[q], q>> \in Links => known'[<<up[q], q>>] = known[<<up[q], q>>]
  BY AddedLinks
<1>3. m \in M /\ m = Version(h + 1, Msg(n, p).block) BY BlockFacts
<1>4. m.type = "version" /\ m.height = h + 1 /\ m.last = h + 1 BY <1>1, <1>3 DEF Version
<1>5. inTransit' = inTransit /\ Consume(n, p, ToAll(m)) BY DEF BlockAdded
<1> HIDE DEF m
<1>6. /\ \A q \in Nodes : /\ Len(chain[q]) \in Nat /\ Len(chain'[q]) \in Nat
                          /\ Len(chain[q]) <= Len(chain'[q])
      /\ Len(chain'[n]) = h + 1 /\ h \in Nat
      /\ \A q \in Nodes \ {n} : Len(chain'[q]) = Len(chain[q])
  BY <1>1
<1>7. net' = [l \in Links |-> IF l = <<p, n>> THEN Tail(net[l])
                              ELSE IF l[1] = n /\ alive[l[2]] THEN Append(net[l], m)
                              ELSE net[l]]
  BY <1>2, <1>3, <1>5, NetToAll
<1>8. \A l \in Links : net[l] \in Seq(M) BY <1>2
<1> HIDE DEF M, h
<1>9. ASSUME NEW l \in Links
      PROVE  net'[l] = IF l = <<p, n>> THEN Tail(net[l])
                       ELSE IF l[1] = n THEN Append(net[l], m) ELSE net[l]
  <2>1. alive[l[2]] BY <1>2, LinkPairs DEF NoPanic
  <2> QED BY <1>7, <2>1
<1>10. AllProper(up)'
  <2>1. \A l : l[1] = n => Proper(up, l, m, Len(chain'[l[1]])) BY <1>4, <1>6 DEF Proper
  <2>2. ASSUME NEW l \in Links
        PROVE  \/ net'[l] = net[l]
               \/ net[l] # <<>> /\ net'[l] = Tail(net[l])
               \/ /\ Proper(up, l, m, Len(chain'[l[1]]))
                  /\ net'[l] = Append(net[l], m)
    <3>1. CASE l = <<p, n>> BY <1>2, <1>9, <3>1
    <3>2. CASE l # <<p, n>> /\ l[1] = n BY <1>9, <2>1, <3>2
    <3>3. CASE l # <<p, n>> /\ l[1] # n BY <1>9, <3>3
    <3> QED BY <3>1, <3>2, <3>3
  <2> USE DEF M
  <2> QED BY <1>2, <1>3, <1>6, <2>2, ProperToAll
<1>11. ASSUME NEW q \in Nodes, <<up[q], q>> \in Links
       PROVE  Fresh(net'[<<up[q], q>>], net'[<<q, up[q]>>], inTransit'[q],
                    known'[<<up[q], q>>], Len(chain'[q]))
  <2>1. /\ <<q, up[q]>> \in Links /\ q # up[q]
        /\ known'[<<up[q], q>>] = known[<<up[q], q>>] /\ inTransit'[q] = inTransit[q]
    BY <1>2, <1>5, <1>11, LinkFacts
  <2>2. CASE q = n
    <3>1. n # p BY <1>1, <2>1, <2>2
    <3>2. net'[<<p, n>>] = Tail(net[<<p, n>>]) /\ net'[<<n, p>>] = Append(net[<<n, p>>], m)
      <4>1. <<n, p>> # <<p, n>> /\ <<n, p>>[1] = n BY <3>1
      <4> QED BY <1>2, <1>9, <4>1
    <3>3. Fresh(Tail(net[<<p, n>>]), net[<<n, p>>], inTransit[n], known[<<p, n>>], h + 1)
      BY <1>2, <1>6, <1>8, FreshAdded
    <3>4. Tail(net[<<p, n>>]) \in Seq(M) /\ net[<<n, p>>] \in Seq(M) /\ h + 1 \in Nat
      BY <1>2, <1>6, <1>8, SeqTail
    <3>5. Fresh(Tail(net[<<p, n>>]), Append(net[<<n, p>>], m), inTransit[n], known[<<p, n>>], h + 1)
      BY <1>3, <1>4, <3>3, <3>4, FreshToPeer
    <3> QED BY <1>1, <1>6, <2>1, <2>2, <3>2, <3>5
  <2>3. CASE q # n
    <3>1. Fresh(net[<<up[q], q>>], net[<<q, up[q]>>], inTransit[q], known[<<up[q], q>>], Len(chain[q]))
      BY <1>2, <1>11 DEF AllFresh
    <3>2. Len(chain'[q]) = Len(chain[q]) BY <1>6, <2>3
    <3>3. net'[<<q, up[q]>>] = net[<<q, up[q]>>]
      <4>1. <<q, up[q]>> # <<p, n>> BY <1>1, <1>2, Ends
      <4>2. <<q, up[q]>>[1] # n BY <2>3
      <4> QED BY <1>9, <2>1, <4>1, <4>2
    <3>4. <<up[q], q>> # <<p, n>> BY <2>3
    <3>5. CASE up[q] = n
      <4>1. net'[<<up[q], q>>] = Append(net[<<up[q], q>>], m) BY <1>9, <1>11, <3>4, <3>5
      <4>2. net[<<up[q], q>>] \in Seq(M) /\ net[<<q, up[q]>>] \in Seq(M) BY <1>8, <1>11, <2>1
      <4>3. Fresh(Append(net[<<up[q], q>>], m), net[<<q, up[q]>>], inTransit[q],
                  known[<<up[q], q>>], Len(chain[q]))
        BY <1>3, <1>4, <3>1, <4>2, FreshFromPeer
      <4> QED BY <2>1, <3>2, <3>3, <4>1, <4>3
    <3>6. CASE up[q] # n
      <4>1. <<up[q], q>>[1] # n BY <3>6
      <4>2. net'[<<up[q], q>>] = net[<<up[q], q>>] BY <1>9, <1>11, <3>4, <4>1
      <4> QED BY <2>1, <3>1, <3>2, <3>3, <4>2
    <3> QED BY <3>5, <3>6
  <2> QED BY <2>2, <2>3
<1>12. AllFresh(up)'
  <2>1. Links' = Links BY <1>2 DEF Links
  <2> QED BY <1>11, <2>1 DEF AllFresh
<1> QED BY <1>10, <1>12

-----------------------------------------------------------------------------
(* The theorem                                                             *)

\* SourceInv is inductive, on top of AnyInv.
LEMMA SourceStep ==
    ASSUME AnyInv, NEW source, NEW up, Tree(source, up), SourceInv(source, up), [Next]_vars
    PROVE  SourceInv(source, up)'
<1>1. ASSUME NEW n \in Nodes, NEW p, Handle(n, p) PROVE SourceInv(source, up)'
  <2>1. CASE VersionAhead(n, p) BY <2>1, SourceVersionAhead
  <2>2. CASE VersionNotAhead(n, p) BY <2>2, SourceDrop DEF VersionNotAhead
  <2>3. CASE VersionConflict(n, p) \/ BlockStored(n, p) BY <2>3, SourceNoConflict
  <2>4. CASE HandleGetBlocks(n, p) BY <2>4, SourceGetBlocks
  <2>5. CASE HandleInv(n, p) BY <2>5, SourceHandleInv
  <2>6. CASE HandleGetData(n, p) BY <2>6, SourceGetData
  <2>7. CASE BlockRejected(n, p) BY <2>7, SourceDrop DEF BlockRejected
  <2>8. CASE BlockAdded(n, p)
    <3>1. NoPanic' /\ Straight(source)' /\ Behind(up)' BY <2>8, AddedChains
    <3>2. AllProper(up)' /\ AllFresh(up)' BY <2>8, SourceAddedNext, SourceAddedLast
    <3> QED BY <3>1, <3>2 DEF SourceInv
  <2> QED BY <1>1, <2>1, <2>2, <2>3, <2>4, <2>5, <2>6, <2>7, <2>8 DEF Handle
<1>2. ASSUME NEW n \in Nodes, Mine(n) PROVE SourceInv(source, up)' BY <1>2, SourceMine
<1>3. ASSUME NEW n, NEW p, Reconnect(n, p) PROVE SourceInv(source, up)' BY <1>3, SourceReconnect
<1>4. CASE UNCHANGED vars
  <2>1. UNCHANGED <<setup, parent, chain, net, known, inTransit, alive>> BY <1>4 DEF vars
  <2>2. AllProper(up)' BY <2>1 DEF SourceInv, AllProper, Links
  <2>3. AllFresh(up)' BY <2>1 DEF SourceInv, AllFresh, Links
  <2> QED BY <2>1, <2>2, <2>3, SourceQuiet
<1> QED BY <1>1, <1>2, <1>3, <1>4 DEF Next

\* The setup never changes.
LEMMA SetupStays ==
    ASSUME [Next]_vars
    PROVE  setup' = setup
<1>1. ASSUME NEW n, NEW p, Handle(n, p) PROVE setup' = setup
  <2>1. CASE VersionAhead(n, p) BY <2>1 DEF VersionAhead
  <2>2. CASE VersionNotAhead(n, p) BY <2>2 DEF VersionNotAhead
  <2>3. CASE VersionConflict(n, p) BY <2>3 DEF VersionConflict, Panic
  <2>4. CASE HandleGetBlocks(n, p) BY <2>4 DEF HandleGetBlocks
  <2>5. CASE HandleInv(n, p) BY <2>5 DEF HandleInv
  <2>6. CASE HandleGetData(n, p) BY <2>6 DEF HandleGetData
  <2>7. CASE BlockStored(n, p) BY <2>7 DEF BlockStored, Panic
  <2>8. CASE BlockRejected(n, p) BY <2>8 DEF BlockRejected
  <2>9. CASE BlockAdded(n, p) BY <2>9 DEF BlockAdded
  <2> QED BY <1>1, <2>1, <2>2, <2>3, <2>4, <2>5, <2>6, <2>7, <2>8, <2>9 DEF Handle
<1>2. ASSUME NEW n, Mine(n) PROVE setup' = setup BY <1>2 DEF Mine
<1>3. ASSUME NEW n, NEW p, Reconnect(n, p) PROVE setup' = setup BY <1>3 DEF Reconnect
<1>4. CASE UNCHANGED vars BY <1>4 DEF vars
<1> QED BY <1>1, <1>2, <1>3, <1>4 DEF Next

\* The inductive invariant.
SyncInv == AnyInv /\ \A source, up : Tree(source, up) => SourceInv(source, up)

\* What the inductive invariant is for.
LEMMA SyncInvSound == SyncInv => SyncSound
<1> SUFFICES ASSUME SyncInv PROVE SyncSound OBVIOUS
<1>1. TypeOK /\ KnownStored /\ ChainsLinked BY AnySound DEF SyncInv
<1>2. ASSUME OneSource PROVE NoPanic
  <2>1. PICK source \in Nodes :
          /\ setup.miners \cup {n \in Nodes : setup.height[n] > 0} \subseteq {source}
          /\ \E up \in [Nodes -> Nodes] :
                /\ up[source] = source
                /\ \A l \in setup.links : up[l[1]] = l[2] <=> up[l[2]] # l[1]
    BY <1>2 DEF OneSource
  <2>2. PICK up \in [Nodes -> Nodes] :
          /\ up[source] = source
          /\ \A l \in setup.links : up[l[1]] = l[2] <=> up[l[2]] # l[1]
    BY <2>1
  <2>3. Tree(source, up) BY <2>1, <2>2 DEF Tree
  <2> QED BY <2>3 DEF SyncInv, SourceInv
<1> QED BY <1>1, <1>2 DEF SyncSound, SourceNoPanic

\* SyncSound, for every network, every number of blocks and every number of
\* reconnects: a node has what it notes of a peer (the knownBlocks test of
\* handleBlock never skips the store), every chain is a path, and with one source
\* of blocks no handler of server.go ever reaches a log.Panic.
THEOREM SyncIsSound == Spec => []SyncSound
<1>1. Init => SyncInv BY AnyInit, SourceInit DEF SyncInv
<1>2. SyncInv /\ [Next]_vars => SyncInv'
  <2> SUFFICES ASSUME SyncInv, [Next]_vars PROVE SyncInv' OBVIOUS
  <2>1. AnyInv' BY AnyStep DEF SyncInv
  <2>2. ASSUME NEW source, NEW up, Tree(source, up)' PROVE SourceInv(source, up)'
    <3>1. Tree(source, up) BY <2>2, SetupStays DEF Tree
    <3> QED BY <3>1, SourceStep DEF SyncInv
  <2> QED BY <2>1, <2>2 DEF SyncInv
<1>3. SyncInv => SyncSound BY SyncInvSound
<1> QED BY <1>1, <1>2, <1>3, PTL DEF Spec
=============================================================================
