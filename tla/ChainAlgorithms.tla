-------------------------- MODULE ChainAlgorithms --------------------------
(***************************************************************************)
(* The pure algorithms of the chain (blockchain_go): Merkle trees, Base58  *)
(* addresses, signatures as joined bytes, proof of work and difficulty.    *)
(* Each job is one input; its result is compared with what the algorithm   *)
(* is for.  Bytes are digits to a small base, hashes of trees are terms    *)
(* (no collisions), and a panic of a slice index is the result <<>>.       *)
(***************************************************************************)
EXTENDS Integers, Sequences, SequencesExt

CONSTANTS
    Data,       \* what a leaf may hold
    MaxLeaves,
    Byte,       \* values of a byte (256)
    Alphabet,   \* letters of the address alphabet (58)
    HashLen,    \* bytes of a public key hash (20)
    MaxNumber,  \* numbers r, s, X, Y are 1..MaxNumber
    MaxNonce, MaxHash,
    Delays,     \* seconds between a block and its parent
    MaxDifficulty, ExpDiffPeriod, MaxHeight

VARIABLES
    job,      \* an algorithm and its input
    result,   \* what it computes
    done

vars == <<job, result, done>>

\* What the constants must satisfy.
AlgorithmsAssumption ==
    /\ {MaxLeaves, Byte, Alphabet, HashLen, MaxNumber, MaxNonce, MaxHash} \subseteq Nat
    /\ Alphabet > 1 /\ Byte > Alphabet /\ MaxNonce > 0 /\ HashLen > 0
    /\ Delays \subseteq Int /\ MaxDifficulty >= 4 /\ ExpDiffPeriod > 0 /\ MaxHeight \in Nat

Panic == <<>>

---------------------------------------------------------------------------
(* merkle_tree.go                                                          *)

NewMerkleNode(left, right) == <<"node", left, right>>

Even(s) == IF Len(s) % 2 = 0 THEN s ELSE Append(s, s[Len(s)])
PairUp(s) == [j \in 1..(Len(s) \div 2) |-> NewMerkleNode(s[2 * j - 1], s[2 * j])]

\* Mutant: one level, whatever the number of leaves.
NewMerkleTreeOneLevel(data) ==
    IF data = <<>> THEN Panic
    ELSE PairUp([i \in 1..Len(Even(data)) |-> <<"leaf", Even(data)[i]>>])[1]

\* Half as many levels as there are leaves; nodes[j+1] is past an odd level.
NewMerkleTree(data) ==
    LET nodes == [i \in 1..Len(Even(data)) |-> <<"leaf", Even(data)[i]>>]
        level[i \in Nat] ==
            IF i = 0 THEN nodes
            ELSE IF Len(level[i - 1]) % 2 # 0 THEN Panic ELSE PairUp(level[i - 1])
        last == level[Len(nodes) \div 2]
    IN IF data = <<>> \/ last = Panic THEN Panic ELSE last[1]

\* The Merkle root: levels are evened out and paired until one node is left.
MerkleRoot(data) ==
    LET up[i \in Nat] == IF i = 0 THEN [j \in 1..Len(data) |-> <<"leaf", data[j]>>]
                         ELSE PairUp(Even(up[i - 1]))
    IN up[CHOOSE i \in 1..MaxLeaves : Len(up[i]) = 1][1]

Leaves == UNION {[1..n -> Data] : n \in 0..MaxLeaves}

\* A tree, if there is one, is the Merkle tree of the leaves, and tells any two
\* lists of leaves apart that an evened out last leaf does not make the same.
\* There is one for one to four transactions: more leaves run past a level
\* (NewMerkleTree's loop), so no block holds more.
MerkleRight ==
    (job.kind = "merkle" /\ done) =>
        /\ (result = Panic) = (Len(job.of) \notin 1..4)
        /\ result # Panic =>
              /\ result = MerkleRoot(job.of)
              /\ \A d \in Leaves : NewMerkleTree(d) = result => Even(d) = Even(job.of)

---------------------------------------------------------------------------
(* base58.go, wallet.go, transaction_output.go                             *)

\* big.Int's SetBytes and Bytes, which has no leading zeros.
Value(bytes, base) == FoldLeft(LAMBDA v, d : v * base + d, 0, bytes)
Digits(x, base) ==
    LET digits[n \in Nat] == IF n = 0 THEN <<>> ELSE Append(digits[n \div base], n % base)
    IN digits[x]

\* `for b := range input` gives indices, not bytes: the loop puts one '1'
\* before any input that is not empty, and takes one off again.
Base58Encode(input) ==
    (IF input = <<>> THEN <<>> ELSE <<0>>) \o Digits(Value(input, Byte), Alphabet)

Base58Decode(input) ==
    IF input = <<>> THEN <<>> ELSE <<0>> \o Digits(Value(Tail(input), Alphabet), Byte)

\* A checksum that no two payloads of this size share by chance.
ChecksumLen == 2
Checksum(payload) ==
    <<FoldLeft(LAMBDA v, d : 2 * v + d, 1, payload) % Byte, Len(payload) % Byte>>

\* Wallet.GetAddress and GetAddressFromPubkeyHash; the version byte is zero.
GetAddress(hash) == Base58Encode(<<0>> \o hash \o Checksum(<<0>> \o hash))

ValidateAddress(address) ==
    LET full == Base58Decode(address)
        n == Len(full) - ChecksumLen
    IN n >= 1 /\ SubSeq(full, n + 1, Len(full)) = Checksum(SubSeq(full, 1, n))

\* TXOutput.Lock: the hash an address pays to.
Lock(address) ==
    LET full == Base58Decode(address) IN SubSeq(full, 2, Len(full) - ChecksumLen)

\* Every wallet's address is accepted and pays to that wallet; the one of a hash
\* with a leading zero, which Base58 loses here, is refused: no coin goes to a
\* hash nobody has.
AddressesRight ==
    (job.kind = "address" /\ done) =>
        IF job.of[1] # 0 THEN ValidateAddress(result) /\ Lock(result) = job.of
        ELSE ~ ValidateAddress(result)

---------------------------------------------------------------------------
(* transaction.go, Sign and Verify; wallet.go, newKeyPair                  *)

\* Sign: r and s of a signature, without padding.
Join(r, s) == Digits(r, Byte) \o Digits(s, Byte)

\* newKeyPair: X and Y of a public key, without padding either.
JoinKey(x, y) == Digits(x, Byte) \o Digits(y, Byte)

\* Verify splits in the middle.
Split(bytes) ==
    LET half == Len(bytes) \div 2 IN
    <<Value(SubSeq(bytes, 1, half), Byte), Value(SubSeq(bytes, half + 1, Len(bytes)), Byte)>>

\* Verify sees the numbers that were signed with, and the key they were signed
\* by, exactly when the second has as many bytes as the first, or one more:
\* others are refused though well signed.
SplitRight ==
    (job.kind \in {"signature", "key"} /\ done) =>
        (result = job.of) =
            (Len(Digits(job.of[2], Byte)) - Len(Digits(job.of[1], Byte)) \in {0, 1})

---------------------------------------------------------------------------
(* proofofwork.go; blockchain.go, calculateHash and IsBlockValid           *)

\* Run: the first nonce whose hash is below the target.  When there is none the
\* nonce is one past the hash that is returned.
Run(hash, target) ==
    LET good == {n \in 0..(MaxNonce - 1) : hash[n] < target} IN
    IF good = {} THEN <<MaxNonce, hash[MaxNonce - 1]>>
    ELSE LET n == CHOOSE n \in good : \A m \in good : n <= m IN <<n, hash[n]>>

Validate(hash, target, nonce) == hash[nonce] < target

\* calculateHash, and the two checks of IsBlockValid on it.
PowValid(hash, target, block) ==
    hash[block[1]] = block[2] /\ Validate(hash, target, block[1])

\* A mined block is accepted by every node, or no nonce below the limit solves it.
PowRight ==
    (job.kind = "pow" /\ done) =>
        PowValid(job.of, job.target, result) =
            (\E n \in 0..(MaxNonce - 1) : job.of[n] < job.target)

---------------------------------------------------------------------------
(* block.go, calcDifficultyHomestead                                       *)

Max2(a, b) == IF a < b THEN b ELSE a

CalcDifficulty(delay, parent, height) ==
    LET x == Max2(1 - (delay \div 10), -99)
        d == Max2(parent + (parent \div 2) * x, 4)
        periodCount == (height + 1) \div ExpDiffPeriod
    IN d + (IF periodCount > 1 THEN 2 ^ (periodCount - 2) ELSE 0)

\* Difficulty, a number of bits here, stays at four or more, is never higher
\* for a later block, rises after less than ten seconds and, but for the
\* exponential factor, does not after ten or more, where it stays up to twenty.
DifficultyRight ==
    (job.kind = "difficulty" /\ done) =>
        LET d == result[1]
            bomb == CalcDifficulty(10, job.of, job.height) - job.of IN
        /\ d >= 4 /\ bomb >= 0
        /\ \A t \in Delays : t > job.delay => CalcDifficulty(t, job.of, job.height) <= d
        /\ job.delay < 10 => d > job.of
        /\ job.delay >= 10 => d - bomb <= job.of
        /\ job.delay \in 10..19 => d - bomb = job.of

---------------------------------------------------------------------------

Jobs ==
    {[kind |-> "merkle", of |-> d] : d \in Leaves} \cup
    {[kind |-> "address", of |-> h] : h \in [1..HashLen -> 0..(Byte - 1)]} \cup
    {[kind |-> k, of |-> p] : k \in {"signature", "key"}, p \in (1..MaxNumber) \X (1..MaxNumber)} \cup
    {[kind |-> "pow", of |-> h, target |-> t] : h \in [0..MaxNonce -> 0..MaxHash], t \in 0..MaxHash} \cup
    {[kind |-> "difficulty", of |-> d, delay |-> t, height |-> h] :
        d \in 4..MaxDifficulty, t \in Delays, h \in {0, MaxHeight}}

Init == job \in Jobs /\ result = Panic /\ done = FALSE

Compute ==
    /\ ~ done /\ done' = TRUE
    /\ \/ job.kind = "merkle" /\ result' = NewMerkleTree(job.of)
       \/ job.kind = "address" /\ result' = GetAddress(job.of)
       \/ job.kind = "signature" /\ result' = Split(Join(job.of[1], job.of[2]))
       \/ job.kind = "key" /\ result' = Split(JoinKey(job.of[1], job.of[2]))
       \/ job.kind = "pow" /\ result' = Run(job.of, job.target)
       \/ job.kind = "difficulty" /\ result' = <<CalcDifficulty(job.delay, job.of, job.height)>>
    /\ UNCHANGED job

Spec == Init /\ [][Compute]_vars

\* Each algorithm computes what its callers rely on (blockchain_go), or the
\* inputs on which it does not are exactly those named.
AlgorithmsRight ==
    MerkleRight /\ AddressesRight /\ SplitRight /\ PowRight /\ DifficultyRight
=============================================================================
