--------------------------- MODULE NetAlgorithms ----------------------------
(***************************************************************************)
(* The pure algorithms node discovery is built on: the XOR metric          *)
(* (discover/node.go and its copy in discv5), lists ordered by it, and     *)
(* networks of IP addresses (netutil).  Each job is one input; its result  *)
(* is compared with what the algorithm is for.  Hashes and addresses are   *)
(* sequences of bytes of ByteBits bits (8 in the code).                    *)
(***************************************************************************)
EXTENDS Integers, Sequences, SequencesExt, FiniteSetsExt, Bitwise

CONSTANTS
    ByteBits,
    HashLen,        \* bytes of a hash (32)
    Buckets,        \* nBuckets of version 4 (17)
    V4Len, V6Len,   \* bytes of addresses (4, 16)
    MaxList         \* nodes put in a list

VARIABLES job, result, done

vars == <<job, result, done>>

\* What the constants must satisfy.
NetAssumption ==
    /\ {ByteBits, HashLen, Buckets, V4Len, V6Len} \subseteq Nat \ {0}
    /\ Buckets < ByteBits * HashLen /\ V4Len < V6Len /\ MaxList \in Nat

Byte == 2 ^ ByteBits
ShortHashes == [1..HashLen -> 0 .. Byte - 1]
HashBits == ByteBits * HashLen

-----------------------------------------------------------------------------
(* The metric                                                              *)

\* The first byte in which two sequences differ, or one past the last.
FirstDiff(a, b) == Min({i \in DOMAIN a : a[i] # b[i]} \cup {Len(a) + 1})

\* distcmp: the distances are compared byte by byte.
Distcmp(target, a, b) ==
    LET i == FirstDiff(a, b)
    IN  IF i > HashLen THEN 0
        ELSE IF (a[i] ^^ target[i]) > (b[i] ^^ target[i]) THEN 1 ELSE -1

\* lzcount: the leading zeros of a byte.
LzCount(x) == Min({n \in 0..ByteBits : x < 2 ^ (ByteBits - n) /\ (n = ByteBits \/ x >= 2 ^ (ByteBits - n - 1))})

\* logdist: zero bytes count in full, the first other one by the table.
Logdist(a, b) ==
    LET i == FirstDiff(a, b)
    IN  HashBits - (ByteBits * (i - 1) + (IF i > HashLen THEN 0 ELSE LzCount(a[i] ^^ b[i])))

\* hashAtDistance: one bit is flipped, and the bytes behind it are drawn, each
\* below the highest value.  The shift by byte(n%8)-1 overflows when n fills
\* bytes: the bit is then the highest one of the byte behind.
HashAtDistance(a, n) ==
    LET whole == n % ByteBits = 0
        pos == HashLen - (n \div ByteBits) + (IF whole THEN 1 ELSE 0)
        bit == IF whole THEN 2 ^ (ByteBits - 1) ELSE 2 ^ ((n % ByteBits) - 1)
    IN  IF n = 0 THEN {a}
        ELSE {SubSeq(a, 1, pos - 1) \o <<a[pos] ^^ bit>> \o tail :
                 tail \in [1 .. HashLen - pos -> 0 .. Byte - 2]}

\* Table.bucket of version 4, counted from 0: the nearest distances share one.
BucketOf(d) == LET least == HashBits - Buckets IN IF d <= least THEN 0 ELSE d - least - 1

\* The metric itself: the number whose bits are those a and b differ in.
Number(a) == FoldLeft(LAMBDA v, x : v * Byte + x, 0, a)
Bit(x, i) == (x \div 2 ^ i) % 2
Distance(a, b) ==
    SumSet({2 ^ i : i \in {j \in 0 .. HashBits - 1 : Bit(Number(a), j) # Bit(Number(b), j)}})

\* distcmp orders nodes by the metric and tells any two apart; logdist is the
\* length of the distance; and every node has its bucket, those of a nearer
\* bucket being nearer.
MetricRight ==
    (job.kind = "metric" /\ done) =>
        LET da == Distance(job.target, job.a)
            db == Distance(job.target, job.b)
        IN  /\ result = (IF da > db THEN 1 ELSE IF da < db THEN -1 ELSE 0)
            /\ result = 0 <=> job.a = job.b
            /\ \A n \in 0..HashBits :
                  Logdist(job.target, job.a) = n <=> da < 2 ^ n /\ (n = 0 \/ 2 * da >= 2 ^ n)
            /\ BucketOf(Logdist(job.target, job.a)) \in 0 .. Buckets - 1
            /\ BucketOf(Logdist(job.target, job.a)) < BucketOf(Logdist(job.target, job.b))
                  => result = -1

\* A random hash is at the distance asked for, at every edge of a byte.
RandomRight ==
    (job.kind = "random" /\ done) =>
        result # {} /\ \A b \in result : Logdist(job.a, b) = job.n

-----------------------------------------------------------------------------
(* nodesByDistance, Table.closest                                          *)

\* push: a node is put before the first that is farther; the last one falls
\* out when there is no room.
Push(list, target, n, max) ==
    LET ix == Min({i \in DOMAIN list : Distcmp(target, list[i], n) > 0} \cup {Len(list) + 1})
        put == InsertAt(list, ix, n)
    IN  IF Len(list) < max THEN put ELSE SubSeq(put, 1, Len(list))

\* closest: the entries of all buckets, in whatever order they are there.
Closest(target, nodes, max) == FoldLeft(LAMBDA l, n : Push(l, target, n, max), <<>>, nodes)

\* The list holds the nearest nodes, nearest first, in whatever order they come.
ClosestRight ==
    (job.kind = "closest" /\ done) =>
        /\ Len(result) = Min({job.max, Len(job.nodes)})
        /\ ToSet(result) \subseteq ToSet(job.nodes)
        /\ \A i, j \in DOMAIN result :
              i < j => Distance(job.target, result[i]) < Distance(job.target, result[j])
        /\ \A n \in ToSet(job.nodes) \ ToSet(result), i \in DOMAIN result :
              Distance(job.target, result[i]) < Distance(job.target, n)

-----------------------------------------------------------------------------
(* netutil: networks                                                       *)

Ips == {[v4 |-> TRUE, bytes |-> x] : x \in [1..V4Len -> 0 .. Byte - 1]}
       \cup {[v4 |-> FALSE, bytes |-> x] : x \in [1..V6Len -> 0 .. Byte - 1]}

\* The part of a byte under the mask of its first n bits.
Masked(x, n) == x - (x % 2 ^ (ByteBits - n))

\* SameNet, on the bytes of addresses of one kind: the whole bytes and the bits.
SameNet(bits, ip, other) ==
    LET nb == bits \div ByteBits
        rest == bits % ByteBits
        len == Len(ip.bytes)
    IN  /\ ip.v4 = other.v4
        /\ rest # 0 /\ nb < len => Masked(ip.bytes[nb + 1], rest) = Masked(other.bytes[nb + 1], rest)
        /\ nb <= len /\ SubSeq(ip.bytes, 1, nb) = SubSeq(other.bytes, 1, nb)

\* DistinctNetSet.key: the kind, the whole bytes and what is left of a byte.
Key(subnet, ip) ==
    LET bits == Min({subnet, Len(ip.bytes) * ByteBits})
        nb == bits \div ByteBits
        rest == bits % ByteBits
    IN  <<IF ip.v4 THEN 4 ELSE 6>> \o SubSeq(ip.bytes, 1, nb)
        \o (IF nb < Len(ip.bytes) /\ rest # 0 THEN <<Masked(ip.bytes[nb + 1], rest)>> ELSE <<>>)

\* Addresses are counted together exactly when they are of one network; a
\* network smaller than an address is that address.
KeysRight ==
    (job.kind = "key" /\ done) =>
        /\ (result = Key(job.bits, job.other)) =
              (IF job.bits <= ByteBits * Len(job.ip.bytes) THEN SameNet(job.bits, job.ip, job.other)
               ELSE job.ip = job.other)
        /\ SameNet(job.bits, job.ip, job.other) =>
              job.bits = 0 \/ SameNet(job.bits - 1, job.ip, job.other)

-----------------------------------------------------------------------------
(* netutil: addresses that are passed on.  An address is the kind it is of *)
(* (the lists of init).                                                    *)

Kinds == {"invalid", "unspecified", "multicast", "special", "loopback", "lan", "wan"}

IsSpecialNetwork(ip) == ip \in {"multicast", "special"}
IsLAN(ip) == ip \in {"loopback", "lan", "unspecified"}

\* CheckRelayIP
CheckRelayIP(sender, addr) ==
    CASE addr = "invalid" -> "invalid IP"
      [] addr = "unspecified" -> "zero address"
      [] IsSpecialNetwork(addr) -> "special network"
      [] addr = "loopback" /\ sender # "loopback" -> "loopback address from non-loopback host"
      [] OTHER -> IF IsLAN(addr) /\ ~IsLAN(sender) THEN "LAN address from WAN host" ELSE "ok"

\* No chain of hosts passes on an address that the first could not have
\* passed on itself: those of private networks stay there.
RelayRight ==
    (job.kind = "relay" /\ done) =>
        (result = "ok" /\ CheckRelayIP(job.addr, job.next) = "ok"
            => CheckRelayIP(job.sender, job.next) = "ok")

-----------------------------------------------------------------------------

Few == {h \in ShortHashes : h[1] \in {0, Byte - 1}}
Lists == {s \in UNION {[1..n -> Few] : n \in 0..MaxList} : IsInjective(s)}

Jobs ==
    {[kind |-> "metric", target |-> t, a |-> x, b |-> y] : t \in ShortHashes, x \in ShortHashes, y \in ShortHashes} \cup
    {[kind |-> "random", a |-> x, n |-> n] : x \in ShortHashes, n \in 0..HashBits} \cup
    {[kind |-> "closest", target |-> t, nodes |-> s, max |-> m] :
        t \in Few, s \in Lists, m \in 1..MaxList} \cup
    {[kind |-> "key", bits |-> n, ip |-> x, other |-> y] :
        n \in 0 .. ByteBits * V6Len + 1, x \in Ips, y \in Ips} \cup
    {[kind |-> "relay", sender |-> s, addr |-> x, next |-> y] : s \in Kinds, x \in Kinds, y \in Kinds}

Init == job \in Jobs /\ result = <<>> /\ done = FALSE

Compute ==
    /\ ~done /\ done' = TRUE
    /\ \/ job.kind = "metric" /\ result' = Distcmp(job.target, job.a, job.b)
       \/ job.kind = "random" /\ result' = HashAtDistance(job.a, job.n)
       \/ job.kind = "closest" /\ result' = Closest(job.target, job.nodes, job.max)
       \/ job.kind = "key" /\ result' = Key(job.bits, job.ip)
       \/ job.kind = "relay" /\ result' = CheckRelayIP(job.sender, job.addr)
    /\ UNCHANGED job

Spec == Init /\ [][Compute]_vars

\* What discovery relies on these algorithms for.
NetAlgorithmsRight == MetricRight /\ RandomRight /\ ClosestRight /\ KeysRight /\ RelayRight
=============================================================================
