----------------------------- MODULE NodeRecord -----------------------------
(***************************************************************************)
(* Node records (p2p/enr): a signed, sorted list of key/value pairs with a *)
(* sequence number, which its owner changes, signs and hands out, and      *)
(* which another node decodes.  What arrives may be older than the record  *)
(* is, and its bytes may have changed on the way.  A signature is what it  *)
(* is over and whose key made it.                                          *)
(***************************************************************************)
EXTENDS Integers, Sequences, SequencesExt

CONSTANTS
    Owners,     \* private keys
    Small, Big, \* values of the other keys; two big ones are too big
    SizeLimit,  \* of a record
    MaxSeq,     \* bound on the sequence number
    MaxSets,    \* bound on the calls of Set and SetSeq
    None        \* nil

VARIABLES
    rec,      \* the owner's record
    peer,     \* the record another node has decoded
    wire,     \* encoded records on their way
    signed,   \* history: whose key signed what
    wound,    \* history: SetSeq was called
    sets

vars == <<rec, peer, wire, signed, wound, sets>>

\* What the constants must satisfy.
RecordAssumption ==
    /\ {SizeLimit, MaxSeq, MaxSets} \subseteq Nat
    /\ Small # Big /\ None \notin Owners \cup {Small, Big}

\* The keys, in their order: "id", "ip", "secp256k1", "udp".
ID == 1
IP == 2
Secp256k1 == 3
UDP == 4

\* The values a caller may set.
ValuesOf(k) == CASE k = ID -> {"v4", "other"}
                 [] k = Secp256k1 -> Owners
                 [] OTHER -> {Small, Big}

Pair(k, v) == [k |-> k, v |-> v]
Empty == [seq |-> 0, sig |-> None, raw |-> None, pairs |-> <<>>]

Init ==
    /\ rec = Empty /\ peer = Empty
    /\ wire = {} /\ signed = {} /\ wound = FALSE /\ sets = 0

-----------------------------------------------------------------------------
(* Pairs.  sort.Search finds the first pair whose key is not smaller.      *)

Search(pairs, k) ==
    LET at == {i \in DOMAIN pairs : pairs[i].k >= k}
    IN  IF at = {} THEN Len(pairs) + 1 ELSE CHOOSE i \in at : \A j \in at : i <= j

\* Load
Load(r, k) ==
    LET i == Search(r.pairs, k)
    IN  IF i <= Len(r.pairs) /\ r.pairs[i].k = k THEN r.pairs[i].v ELSE None

\* Mutant of Invalidate: the number stays.
InvalidateSame(r) == [r EXCEPT !.sig = None, !.raw = None]
\* invalidate: the number rises when the record is not signed.
Invalidate(r) ==
    [r EXCEPT !.seq = IF r.sig = None THEN @ + 1 ELSE @, !.sig = None, !.raw = None]

\* Set
Set(r, k, v) ==
    LET i == Search(r.pairs, k)
    IN  [Invalidate(r) EXCEPT
            !.pairs = IF i <= Len(@) /\ @[i].k = k THEN [@ EXCEPT ![i].v = v]
                      ELSE InsertAt(@, i, Pair(k, v))]

\* idScheme: the only scheme registered is "v4".
IdScheme(r) == IF Load(r, ID) = "v4" THEN "v4" ELSE None

\* AppendElements: what a signature is over.
Elements(r) == <<r.seq, r.pairs>>

\* v4ID.Verify
Verify(r, sig) == sig.by = Load(r, Secp256k1) /\ sig.over = Elements(r)

\* v4ID.NodeAddr
NodeAddr(r) == IF IdScheme(r) = None THEN None ELSE Load(r, Secp256k1)

\* encode
Size(pairs) == Len(pairs) + Len(SelectSeq(pairs, LAMBDA p : p.v = Big))
Encode(r, sig) == [sig |-> sig, seq |-> r.seq, pairs |-> r.pairs]

-----------------------------------------------------------------------------
(* The owner                                                               *)

CallSet(k, v) ==
    /\ sets < MaxSets /\ sets' = sets + 1
    /\ rec.seq < MaxSeq
    /\ rec' = Set(rec, k, v)
    /\ UNCHANGED <<peer, wire, signed, wound>>

SetSeq(s) ==
    /\ sets < MaxSets /\ sets' = sets + 1
    /\ rec' = [rec EXCEPT !.seq = s, !.sig = None, !.raw = None]
    /\ wound' = TRUE
    /\ UNCHANGED <<peer, wire, signed>>

\* SetSig: the signature is checked, and the record has it if it is not too big.
SetSig(r, sig) ==
    IF Verify(r, sig) /\ Size(r.pairs) <= SizeLimit
    THEN [r EXCEPT !.sig = sig, !.raw = Encode(r, sig)]
    ELSE None

\* SignV4: a copy gets the scheme and the public key and is signed; if that
\* fails the record is as it was.
SignV4(o) ==
    LET cpy == Set(Set(rec, ID, "v4"), Secp256k1, o)
        res == SetSig(cpy, [by |-> o, over |-> Elements(cpy)])
    IN  /\ rec.seq + 2 <= MaxSeq
        /\ rec' = IF res = None THEN rec ELSE res
        /\ signed' = IF res = None THEN signed ELSE signed \cup {res.sig}
        /\ UNCHANGED <<peer, wire, wound, sets>>

\* EncodeRLP, which an unsigned record refuses: the bytes of SetSig are sent.
EncodeRLP ==
    /\ rec.sig # None
    /\ wire' = wire \cup {rec.raw}
    /\ UNCHANGED <<rec, peer, signed, wound, sets>>

-----------------------------------------------------------------------------
(* The other node                                                          *)

\* What may become of encoded records: as they were sent, with another
\* number, with two pairs in the wrong order, with a pair twice, with one
\* missing, with another value, or with the signature of another one.
Arrives(w) ==
    {w} \cup {[w EXCEPT !.seq = s] : s \in 0..MaxSeq}
        \cup {[w EXCEPT !.pairs = Reverse(@)]}
        \cup {[w EXCEPT !.pairs = InsertAt(@, i, @[i])] : i \in DOMAIN w.pairs}
        \cup {[w EXCEPT !.pairs = RemoveAt(@, i)] : i \in DOMAIN w.pairs}
        \cup UNION {{[w EXCEPT !.pairs[i].v = v] : v \in ValuesOf(w.pairs[i].k)} : i \in DOMAIN w.pairs}
        \cup {[w EXCEPT !.sig = x.sig] : x \in wire}

\* DecodeRLP: nil, or the record.
Decoded(raw) ==
    LET dec == [seq |-> raw.seq, sig |-> raw.sig, raw |-> raw, pairs |-> raw.pairs]
    IN  IF /\ Size(raw.pairs) <= SizeLimit
           /\ \A i \in 1 .. Len(raw.pairs) - 1 : raw.pairs[i].k < raw.pairs[i + 1].k
           /\ IdScheme(dec) # None
           /\ Verify(dec, raw.sig)
        THEN dec ELSE None

DecodeRLP(raw) ==
    /\ peer' = IF Decoded(raw) = None THEN peer ELSE Decoded(raw)
    /\ UNCHANGED <<rec, wire, signed, wound, sets>>

Next ==
    \/ \E k \in {ID, IP, Secp256k1, UDP} : \E v \in ValuesOf(k) : CallSet(k, v)
    \/ \E s \in 0 .. MaxSeq : SetSeq(s)
    \/ \E o \in Owners : SignV4(o)
    \/ EncodeRLP
    \/ \E w \in wire : \E raw \in Arrives(w) : DecodeRLP(raw)

Spec == Init /\ [][Next]_vars

-----------------------------------------------------------------------------
\* What Load reads from a signed record is what was signed and what is sent,
\* and the node's address is that of the key it was signed with, whatever was
\* set before and after and whatever arrived (enr.go, SetSig and invalidate).
SignedAsSent ==
    \A r \in {rec, peer} :
        r.sig # None => /\ r.raw = Encode(r, r.sig)
                        /\ r.sig \in signed /\ r.sig.over = Elements(r)
                        /\ NodeAddr(r) = r.sig.by

\* Two records that one key signed under one number are the same, unless the
\* owner set the number: who keeps the higher number keeps the newer record.
\* It is the two calls of Set in SignV4 that see to it.
NumbersTell ==
    ~wound => \A x, y \in signed : x.over[1] = y.over[1] => x = y

\* Node records are what they say (enr.go, idscheme.go).
RecordsSound == SignedAsSent /\ NumbersTell
=============================================================================
