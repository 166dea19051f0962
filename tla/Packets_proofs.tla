--------------------------- MODULE Packets_proofs ----------------------------
(***************************************************************************)
(* Proofs about packets on the wire: for any packet a program makes, that  *)
(* ReadPacket gives back what was written, whatever follows it; for any    *)
(* place in a packet where the stream breaks off, what ReadPacket makes of *)
(* the piece; and from these, for any stream of packets, what incoming     *)
(* reads of it.                                                            *)
(*                                                                         *)
(* A recursive function of the model (the digits of a length, the value of *)
(* digits, the places of a list's entries, FlattenSeq) is a CHOOSE: a      *)
(* first lemma (Recursive) shows that there is such a function, and what   *)
(* it gives is shown by induction on a bounded number.  The lemmas for     *)
(* that (UpTo), and on the least and the greatest element of a set, are    *)
(* those of Rows_proofs.                                                   *)
(***************************************************************************)
EXTENDS Packets, Rows_proofs

-----------------------------------------------------------------------------
(* Recursive functions.                                                    *)

\* The functions on S with the value D[k] at k, which looks at the function itself.
Solutions(S, V, D) == {g \in [S -> V] : \A k \in S : g[k] = D[k][g]}

\* D[k] looks only at places of a smaller rank.
LooksBelow(S, V, rank, D) ==
    \A k \in S : \A g, h \in [S -> V] :
        (\A j \in S : rank[j] < rank[k] => g[j] = h[j]) => D[k][g] = D[k][h]

\* Then there is one.
LEMMA Recursive ==
  ASSUME NEW S, NEW V, NEW v \in V, NEW n \in Nat, NEW rank \in [S -> 0..n],
         NEW D \in [S -> [[S -> V] -> V]], LooksBelow(S, V, rank, D)
  PROVE  Solutions(S, V, D) # {}
<1> DEFINE Good(m, g) == \A k \in S : rank[k] < m => g[k] = D[k][g]
           T == {m \in 0..n+1 : \E g \in [S -> V] : Good(m, g)}
<1>1. 0 \in T
  <2>1. [k \in S |-> v] \in [S -> V] /\ Good(0, [k \in S |-> v])
    OBVIOUS
  <2> QED  BY <2>1
<1>2. ASSUME NEW m \in 0..n, m \in T PROVE m + 1 \in T
  <2>1. PICK g \in [S -> V] : Good(m, g)
    BY <1>2
  <2> DEFINE h == [k \in S |-> IF rank[k] = m THEN D[k][g] ELSE g[k]]
  <2>2. h \in [S -> V]
    OBVIOUS
  <2>3. \A k \in S : rank[k] # m => h[k] = g[k]
    OBVIOUS
  <2>4. \A k \in S : rank[k] = m => h[k] = D[k][g]
    OBVIOUS
  <2> HIDE DEF h
  <2>5. ASSUME NEW k \in S, rank[k] < m + 1 PROVE h[k] = D[k][h]
    <3>1. \A j \in S : rank[j] < rank[k] => g[j] = h[j]
      BY <2>3, <2>5
    <3> rank[k] \in 0..n
      OBVIOUS
    <3>2. D[k][g] = D[k][h]
      <4>1. (\A j \in S : rank[j] < rank[k] => g[j] = h[j]) => D[k][g] = D[k][h]
        BY <2>2 DEF LooksBelow
      <4> QED  BY <3>1, <4>1
    <3>3. CASE rank[k] = m
      BY <2>4, <3>2, <3>3
    <3>4. CASE rank[k] # m
      <4>1. rank[k] < m
        <5>1. rank[k] \in Int /\ m \in Int
          OBVIOUS
        <5>2. \A x, y \in Int : x < y + 1 /\ x # y => x < y
          OBVIOUS
        <5> QED  BY <2>5, <3>4, <5>1, <5>2, Zenon
      <4>2. g[k] = D[k][g]
        BY <2>1, <4>1
      <4> QED  BY <2>3, <3>2, <3>4, <4>2
    <3> QED  BY <3>3, <3>4
  <2> QED  BY <2>2, <2>5
<1>3. n + 1 \in T
  <2> HIDE DEF T
  <2>1. \A k \in 0..n+1 : k \in T
    <3>1. \A k \in 0..(n+1)-1 : k \in T => k + 1 \in T
      BY <1>2
    <3>2. n + 1 \in Nat
      OBVIOUS
    <3> QED  BY <1>1, <3>1, <3>2, UpTo
  <2> QED  BY <2>1
<1>4. PICK g \in [S -> V] : Good(n + 1, g)
  BY <1>3
<1>5. \A k \in S : g[k] = D[k][g]
  BY <1>4
<1> QED  BY <1>5 DEF Solutions

-----------------------------------------------------------------------------
(* Bytes: numbers and strings, in front of the bytes that follow.          *)

\* One of the five flags of a byte: adding bits.
LEMMA Flags ==
  ASSUME NEW c \in 0..1, NEW w \in 0..1, NEW q \in 0..3, NEW r \in 0..1, NEW a \in 0..1,
         NEW u \in 0..1, NEW f, f = 2 * c + 4 * w + 8 * q + 32 * r + 64 * a + 128 * u
  PROVE  /\ f \in Byte
         /\ bit(f, 2) <=> c = 1
         /\ bit(f, 4) <=> w = 1
         /\ (f \div 8) % 4 = q
         /\ bit(f, 32) <=> r = 1
         /\ bit(f, 64) <=> a = 1
         /\ bit(f, 128) <=> u = 1
BY DEF bit, Byte

\* What is written in front is what is read.
LEMMA InFront ==
  ASSUME NEW a \in Seq(Byte), NEW y \in Seq(Byte)
  PROVE  /\ a \o y \in Seq(Byte) /\ Len(a \o y) = Len(a) + Len(y)
         /\ Read(a \o y, Len(a)) = a
         /\ SubSeq(a \o y, 1, Len(a)) = a
         /\ Rest(a \o y, Len(a)) = y
<1>1. a \o y \in Seq(Byte) /\ Len(a \o y) = Len(a) + Len(y)
  OBVIOUS
<1>2. \A i \in 1..Len(a) : (a \o y)[i] = a[i]
  OBVIOUS
<1>3. \A i \in 1..Len(y) : (a \o y)[Len(a) + i] = y[i]
  OBVIOUS
<1>4. Read(a \o y, Len(a)) = a
  <2>1. Read(a \o y, Len(a)) = [i \in 1..Len(a) |-> a[i]]
    BY <1>1, <1>2 DEF Read
  <2> QED  BY <2>1
<1>5. SubSeq(a \o y, 1, Len(a)) = a
  <2>1. Len(SubSeq(a \o y, 1, Len(a))) = Len(a)
    BY <1>1
  <2>2. \A i \in 1..Len(a) : SubSeq(a \o y, 1, Len(a))[i] = a[i]
    BY <1>1, <1>2
  <2>3. SubSeq(a \o y, 1, Len(a)) \in Seq(Byte)
    BY <1>1
  <2> QED  BY <2>1, <2>2, <2>3, SeqEqual
<1>6. Rest(a \o y, Len(a)) = y
  <2> DEFINE r == SubSeq(a \o y, Len(a) + 1, Len(a \o y))
  <2>1. Len(r) = Len(y) /\ r \in Seq(Byte)
    BY <1>1
  <2>2. \A i \in 1..Len(y) : r[i] = y[i]
    BY <1>1, <1>3
  <2> HIDE DEF r
  <2>3. r = y
    BY <2>1, <2>2, SeqEqual
  <2> QED  BY <2>3 DEF r, Rest
<1> QED  BY <1>1, <1>4, <1>5, <1>6

\* One byte.
LEMMA OneByte ==
  ASSUME NEW c \in Byte, NEW y \in Seq(Byte)
  PROVE  /\ <<c>> \o y \in Seq(Byte) /\ Len(<<c>> \o y) = Len(y) + 1
         /\ (<<c>> \o y)[1] = c /\ decodeByte(<<c>> \o y) = c /\ Rest(<<c>> \o y, 1) = y
<1>1. <<c>> \in Seq(Byte) /\ Len(<<c>>) = 1 /\ <<c>>[1] = c
  OBVIOUS
<1>2. <<c>> \o y \in Seq(Byte) /\ Len(<<c>> \o y) = Len(y) + 1
  BY <1>1
<1>3. (<<c>> \o y)[1] = c
  BY <1>1
<1>4. Read(<<c>> \o y, 1) = <<c>> /\ Rest(<<c>> \o y, 1) = y
  BY <1>1, InFront
<1> QED  BY <1>1, <1>2, <1>3, <1>4 DEF decodeByte

\* The two halves of a number of 16 bits.
LEMMA Halves ==
  ASSUME NEW n \in Id
  PROVE  /\ (n \div 256) % 256 \in Byte /\ n % 256 \in Byte
         /\ (256 * ((n \div 256) % 256)) + (n % 256) = n
<1>1. n \in Nat /\ n <= (256 * 256) - 1
  BY DEF Id
<1>2. n \div 256 \in 0..255 /\ n % 256 \in 0..255
  BY <1>1
<1>3. (n \div 256) % 256 = n \div 256
  BY <1>2
<1>4. n = (256 * (n \div 256)) + (n % 256)
  BY <1>1
<1> QED  BY <1>2, <1>3, <1>4 DEF Byte

\* A number of two bytes.
LEMMA Uint16 ==
  ASSUME NEW n \in Id, NEW y \in Seq(Byte)
  PROVE  /\ encodeUint16(n) \in Seq(Byte) /\ Len(encodeUint16(n)) = 2
         /\ encodeUint16(n) \o y \in Seq(Byte)
         /\ decodeUint16(encodeUint16(n) \o y) = n /\ Rest(encodeUint16(n) \o y, 2) = y
<1> DEFINE hi == (n \div 256) % 256
           lo == n % 256
<1>1. hi \in Byte /\ lo \in Byte /\ (256 * hi) + lo = n
  BY Halves
<1>2. encodeUint16(n) = <<hi, lo>>
  BY DEF encodeUint16
<1> HIDE DEF hi, lo
<1>3. <<hi, lo>> \in Seq(Byte) /\ Len(<<hi, lo>>) = 2 /\ <<hi, lo>>[1] = hi /\ <<hi, lo>>[2] = lo
  BY <1>1
<1>4. Read(<<hi, lo>> \o y, 2) = <<hi, lo>>
  BY <1>3, InFront
<1>5. decodeUint16(<<hi, lo>> \o y) = n
  BY <1>1, <1>3, <1>4 DEF decodeUint16
<1> QED  BY <1>2, <1>3, <1>5, InFront

\* A string with its length.
LEMMA StringBytes ==
  ASSUME NEW s \in String, NEW y \in Seq(Byte)
  PROVE  /\ encodeString(s) \in Seq(Byte) /\ Len(encodeString(s)) = Len(s) + 2
         /\ encodeString(s) \o y \in Seq(Byte)
         /\ decodeString(encodeString(s) \o y) = s /\ afterString(encodeString(s) \o y) = y
<1>1. s \in Seq(Byte) /\ Len(s) \in Id
  BY DEF String
<1> DEFINE u == encodeUint16(Len(s))
           b == encodeString(s) \o y
<1>2. u \in Seq(Byte) /\ Len(u) = 2
  BY <1>1, Uint16, EmptySeq
<1>3. encodeString(s) = u \o s
  BY DEF encodeString
<1>4. b = u \o (s \o y)
  <2> HIDE DEF u
  <2>1. (u \o s) \o y = u \o (s \o y)
    BY <1>1, <1>2, ConcatAssociative
  <2> QED  BY <1>3, <2>1
<1>5. s \o y \in Seq(Byte)
  BY <1>1
<1>6. decodeUint16(b) = Len(s) /\ Rest(b, 2) = s \o y
  <2> HIDE DEF b
  <2> QED  BY <1>1, <1>4, <1>5, Uint16
<1>7. encodeString(s) \in Seq(Byte) /\ Len(encodeString(s)) = Len(s) + 2
  <2> HIDE DEF u
  <2>1. u \o s \in Seq(Byte) /\ Len(u \o s) = Len(u) + Len(s)
    BY <1>1, <1>2, InFront
  <2>2. Len(s) \in Nat
    BY <1>1
  <2> QED  BY <1>2, <1>3, <2>1, <2>2
<1>8. decodeString(b) = s
  <2> HIDE DEF b
  <2> QED  BY <1>1, <1>6, InFront DEF decodeString
<1>9. afterString(b) = y
  <2>1. 2 + decodeUint16(b) = Len(encodeString(s))
    BY <1>1, <1>6, <1>7
  <2> QED  BY <1>7, <2>1, InFront DEF afterString
<1> QED  BY <1>7, <1>8, <1>9

\* The rest of a buffer.
LEMMA RestIs ==
  ASSUME NEW b \in Seq(Byte), NEW i \in Nat
  PROVE  /\ Rest(b, i) \in Seq(Byte)
         /\ Len(Rest(b, i)) = IF i <= Len(b) THEN Len(b) - i ELSE 0
         /\ \A j \in 1..Len(b) - i : Rest(b, i)[j] = b[i + j]
         /\ i >= Len(b) => Rest(b, i) = <<>>
<1>1. Len(b) \in Nat /\ \A j \in i+1..Len(b) : b[j] \in Byte
  OBVIOUS
<1>2. /\ SubSeq(b, i + 1, Len(b)) \in Seq(Byte)
      /\ Len(SubSeq(b, i + 1, Len(b))) = IF i + 1 <= Len(b) THEN Len(b) - (i + 1) + 1 ELSE 0
      /\ \A j \in 1..Len(b) - (i + 1) + 1 : SubSeq(b, i + 1, Len(b))[j] = b[(i + 1) + j - 1]
  <2>1. i + 1 \in Int /\ Len(b) \in Int
    BY <1>1
  <2> QED  BY <1>1, <2>1, SubSeqProperties
<1>3. i >= Len(b) => SubSeq(b, i + 1, Len(b)) = <<>>
  <2>1. Len(SubSeq(b, i + 1, Len(b))) = 0 => SubSeq(b, i + 1, Len(b)) = <<>>
    BY <1>2, EmptySeq
  <2> QED  BY <1>1, <1>2, <2>1
<1> QED  BY <1>1, <1>2, <1>3 DEF Rest

\* What is left after two reads.
LEMMA RestRest ==
  ASSUME NEW b \in Seq(Byte), NEW i \in Nat, NEW j \in Nat
  PROVE  Rest(Rest(b, i), j) = Rest(b, i + j)
<1> DEFINE r == Rest(b, i)
           x == Rest(r, j)
           y == Rest(b, i + j)
<1>1. /\ r \in Seq(Byte) /\ Len(r) = (IF i <= Len(b) THEN Len(b) - i ELSE 0)
      /\ \A k \in 1..Len(b) - i : r[k] = b[i + k]
  BY RestIs
<1>2. /\ y \in Seq(Byte) /\ Len(y) = (IF i + j <= Len(b) THEN Len(b) - (i + j) ELSE 0)
      /\ \A k \in 1..Len(b) - (i + j) : y[k] = b[(i + j) + k]
  <2>1. i + j \in Nat
    OBVIOUS
  <2> QED  BY <2>1, RestIs
<1> HIDE DEF r, y
<1>3. /\ x \in Seq(Byte) /\ Len(x) = (IF j <= Len(r) THEN Len(r) - j ELSE 0)
      /\ \A k \in 1..Len(r) - j : x[k] = r[j + k]
  BY <1>1, RestIs
<1> HIDE DEF x
<1>4. Len(b) \in Nat
  OBVIOUS
<1>5. Len(x) = Len(y)
  BY <1>1, <1>2, <1>3, <1>4
<1>6. ASSUME NEW k \in 1..Len(x) PROVE x[k] = y[k]
  <2>1. i + j <= Len(b) /\ k \in 1..Len(b) - (i + j) /\ k \in 1..Len(r) - j
    BY <1>1, <1>2, <1>3, <1>4, <1>5
  <2>2. j + k \in 1..Len(b) - i
    BY <1>4, <2>1
  <2>3. x[k] = r[j + k] /\ y[k] = b[(i + j) + k]
    BY <1>2, <1>3, <2>1
  <2>4. r[j + k] = b[i + (j + k)]
    BY <1>1, <2>2
  <2>5. i + (j + k) = (i + j) + k
    BY <2>1
  <2> QED  BY <2>3, <2>4, <2>5
<1> QED  BY <1>2, <1>3, <1>5, <1>6, SeqEqual DEF x, y, r

\* \o as an operator the provers know nothing of but these two lemmas.
Cat(a, b) == a \o b

\* It gives a sequence of bytes.
LEMMA CatType == ASSUME NEW a \in Seq(Byte), NEW b \in Seq(Byte) PROVE Cat(a, b) \in Seq(Byte)
BY DEF Cat

\* It does not matter which two are joined first.
LEMMA CatAssoc ==
  ASSUME NEW a \in Seq(Byte), NEW b \in Seq(Byte), NEW c \in Seq(Byte)
  PROVE  Cat(Cat(a, b), c) = Cat(a, Cat(b, c))
BY ConcatAssociative DEF Cat

\* The same for \o.
LEMMA Assoc ==
  ASSUME NEW a \in Seq(Byte), NEW b \in Seq(Byte), NEW c \in Seq(Byte)
  PROVE  (a \o b) \o c = a \o (b \o c) /\ a \o b \in Seq(Byte)
BY CatAssoc, CatType DEF Cat

\* Joining nothing.
LEMMA NoBytes == <<>> \in Seq(Byte) /\ \A a \in Seq(Byte) : a \o <<>> = a /\ <<>> \o a = a
BY EmptySeq, ConcatEmptySeq

\* A flag as a number.
LEMMA FlagByte == ASSUME NEW f \in BOOLEAN PROVE boolToByte(f) \in 0..1 /\ (boolToByte(f) = 1 <=> f)
BY DEF boolToByte

\* An optional string.
LEMMA Optional ==
  ASSUME NEW flag \in BOOLEAN, NEW s \in String, ~flag => s = <<>>, NEW y \in Seq(Byte),
         NEW x, x = IF flag THEN encodeString(s) ELSE <<>>
  PROVE  /\ x \in Seq(Byte) /\ x \o y \in Seq(Byte)
         /\ stringIf(flag, x \o y) = s /\ afterIf(flag, x \o y) = y
<1>1. CASE flag
  <2>1. x = encodeString(s)
    BY <1>1
  <2>2. x \in Seq(Byte) /\ x \o y \in Seq(Byte) /\ decodeString(x \o y) = s /\ afterString(x \o y) = y
    BY <2>1, StringBytes
  <2> QED  BY <1>1, <2>2 DEF stringIf, afterIf
<1>2. CASE ~flag
  <2>1. x = <<>> /\ s = <<>>
    BY <1>2
  <2>2. x \o y = y /\ x \in Seq(Byte)
    BY <2>1, NoBytes
  <2> QED  BY <1>2, <2>1, <2>2 DEF stringIf, afterIf
<1> QED  BY <1>1, <1>2

-----------------------------------------------------------------------------
(* The bodies: Unpack of what Write made.                                  *)

\* A CONNECT comes back with every flag and every field.
LEMMA ConnectBack ==
  ASSUME NEW p \in ConnectBody
  PROVE  writeConnect(p) \in Seq(Byte) /\ unpackConnect(writeConnect(p)) = p
<1> DEFINE N == encodeString(p.name)
           f == connectFlags(p)
           F == <<p.version, f>>
           K == encodeUint16(p.keepalive)
           C == encodeString(p.client)
           T == IF p.will THEN encodeString(p.willTopic) ELSE <<>>
           M == IF p.will THEN encodeString(p.willMessage) ELSE <<>>
           U == IF p.usernameFlag THEN encodeString(p.username) ELSE <<>>
           P == IF p.passwordFlag THEN encodeString(p.password) ELSE <<>>
           b == writeConnect(p)
           x6 == U \o P
           x5 == M \o x6
           x4 == T \o x5
           x3 == C \o x4
           x2 == K \o x3
           x1 == F \o x2
<1>1. /\ p.name \in String /\ p.version \in Byte /\ p.clean \in BOOLEAN /\ p.will \in BOOLEAN
      /\ p.willQos \in 0..3 /\ p.willRetain \in BOOLEAN /\ p.passwordFlag \in BOOLEAN
      /\ p.usernameFlag \in BOOLEAN /\ p.keepalive \in Id /\ p.client \in String
      /\ p.willTopic \in String /\ p.willMessage \in String /\ p.username \in String
      /\ p.password \in String
  BY DEF ConnectBody
<1>2. /\ ~p.will => p.willTopic = <<>> /\ p.willMessage = <<>>
      /\ ~p.usernameFlag => p.username = <<>>
      /\ ~p.passwordFlag => p.password = <<>>
  BY DEF ConnectBody
<1>3. /\ f \in Byte /\ bit(f, 2) = p.clean /\ bit(f, 4) = p.will /\ (f \div 8) % 4 = p.willQos
      /\ bit(f, 32) = p.willRetain /\ bit(f, 64) = p.passwordFlag /\ bit(f, 128) = p.usernameFlag
  <2> DEFINE c == boolToByte(p.clean)
             w == boolToByte(p.will)
             r == boolToByte(p.willRetain)
             a == boolToByte(p.passwordFlag)
             u == boolToByte(p.usernameFlag)
  <2>1. /\ c \in 0..1 /\ w \in 0..1 /\ r \in 0..1 /\ a \in 0..1 /\ u \in 0..1
        /\ (c = 1 <=> p.clean) /\ (w = 1 <=> p.will) /\ (r = 1 <=> p.willRetain)
        /\ (a = 1 <=> p.passwordFlag) /\ (u = 1 <=> p.usernameFlag)
    BY <1>1, FlagByte
  <2>2. f = 2 * c + 4 * w + 8 * p.willQos + 32 * r + 64 * a + 128 * u
    BY DEF connectFlags
  <2>3. bit(f, 2) \in BOOLEAN /\ bit(f, 4) \in BOOLEAN /\ bit(f, 32) \in BOOLEAN
        /\ bit(f, 64) \in BOOLEAN /\ bit(f, 128) \in BOOLEAN
    BY DEF bit
  <2> HIDE DEF c, w, r, a, u, f
  <2>4. /\ f \in Byte /\ (bit(f, 2) <=> c = 1) /\ (bit(f, 4) <=> w = 1) /\ (f \div 8) % 4 = p.willQos
        /\ (bit(f, 32) <=> r = 1) /\ (bit(f, 64) <=> a = 1) /\ (bit(f, 128) <=> u = 1)
    BY <1>1, <2>1, <2>2, Flags
  <2> QED  BY <1>1, <2>1, <2>3, <2>4
<1>4. /\ N \in Seq(Byte) /\ K \in Seq(Byte) /\ C \in Seq(Byte) /\ F \in Seq(Byte)
      /\ T \in Seq(Byte) /\ M \in Seq(Byte) /\ U \in Seq(Byte) /\ P \in Seq(Byte)
      /\ Len(F) = 2 /\ F = <<p.version>> \o <<f>>
  <2>1. \A s \in String : encodeString(s) \in Seq(Byte)
    BY StringBytes, NoBytes
  <2>2. K \in Seq(Byte)
    BY <1>1, Uint16, NoBytes
  <2>3. F \in Seq(Byte) /\ Len(F) = 2 /\ F = <<p.version>> \o <<f>>
    <3> HIDE DEF f
    <3> QED  BY <1>1, <1>3
  <2> QED  BY <1>1, <2>1, <2>2, <2>3, NoBytes
<1>5. /\ x6 \in Seq(Byte) /\ x5 \in Seq(Byte) /\ x4 \in Seq(Byte) /\ x3 \in Seq(Byte)
      /\ x2 \in Seq(Byte) /\ x1 \in Seq(Byte)
  <2> HIDE DEF N, F, K, C, T, M, U, P
  <2> QED  BY <1>4, Assoc
<1>6. b = N \o x1
  <2>1. b = N \o F \o K \o C \o (T \o M) \o U \o P
    <3>1. T \o M = IF p.will THEN encodeString(p.willTopic) \o encodeString(p.willMessage) ELSE <<>>
      BY NoBytes
    <3>2. b = N \o F \o K \o C
              \o (IF p.will THEN encodeString(p.willTopic) \o encodeString(p.willMessage) ELSE <<>>)
              \o U \o P
      BY DEF writeConnect
    <3> HIDE DEF N, F, K, C, T, M, U, P, b
    <3> QED  BY <3>1, <3>2
  <2> HIDE DEF N, F, K, C, T, M, U, P, b
  <2>2. Cat(Cat(Cat(Cat(Cat(Cat(N, F), K), C), Cat(T, M)), U), P)
        = Cat(N, Cat(F, Cat(K, Cat(C, Cat(T, Cat(M, Cat(U, P)))))))
    <3>0. /\ N \in Seq(Byte) /\ K \in Seq(Byte) /\ C \in Seq(Byte) /\ F \in Seq(Byte)
          /\ T \in Seq(Byte) /\ M \in Seq(Byte) /\ U \in Seq(Byte) /\ P \in Seq(Byte)
      BY <1>4
    <3> DEFINE E == Cat(U, P)
               W == Cat(T, M)
               Q == Cat(T, Cat(M, E))
               A == Cat(N, F)
               B == Cat(A, K)
               D == Cat(B, C)
    <3>1. E \in Seq(Byte) /\ W \in Seq(Byte) /\ A \in Seq(Byte)
      BY <3>0, CatType
    <3>2. B \in Seq(Byte)
      BY <3>0, <3>1, CatType
    <3>3. D \in Seq(Byte)
      BY <3>0, <3>2, CatType
    <3>4. Cat(M, E) \in Seq(Byte)
      BY <3>0, <3>1, CatType
    <3>5. Q \in Seq(Byte) /\ Cat(D, W) \in Seq(Byte)
      BY <3>0, <3>1, <3>3, <3>4, CatType
    <3>6. Cat(C, Q) \in Seq(Byte)
      BY <3>0, <3>5, CatType
    <3>7. Cat(K, Cat(C, Q)) \in Seq(Byte)
      BY <3>0, <3>6, CatType
    <3>8. Cat(W, E) = Q
      BY <3>0, <3>1, CatAssoc
    <3>9. Cat(Cat(Cat(D, W), U), P) = Cat(Cat(D, W), E)
      BY <3>0, <3>5, CatAssoc
    <3>10. Cat(Cat(D, W), E) = Cat(D, Cat(W, E))
      BY <3>0, <3>1, <3>3, CatAssoc
    <3>11. Cat(D, Q) = Cat(B, Cat(C, Q))
      BY <3>0, <3>2, <3>5, CatAssoc
    <3>12. Cat(B, Cat(C, Q)) = Cat(A, Cat(K, Cat(C, Q)))
      BY <3>0, <3>1, <3>6, CatAssoc
    <3>13. Cat(A, Cat(K, Cat(C, Q))) = Cat(N, Cat(F, Cat(K, Cat(C, Q))))
      BY <3>0, <3>7, CatAssoc
    <3>14. Cat(Cat(Cat(D, W), U), P) = Cat(N, Cat(F, Cat(K, Cat(C, Q))))
      BY <3>8, <3>9, <3>10, <3>11, <3>12, <3>13
    <3> QED  BY <3>14
  <2> QED  BY <2>1, <2>2, Zenon DEF Cat
<1>7. decodeString(b) = p.name /\ afterString(b) = x1 /\ b \in Seq(Byte)
  <2> HIDE DEF x1, b
  <2> QED  BY <1>1, <1>5, <1>6, StringBytes
<1>8. decodeByte(x1) = p.version /\ decodeByte(Rest(x1, 1)) = f /\ Rest(x1, 2) = x2
  <2> HIDE DEF f, x2
  <2>1. x1 = <<p.version>> \o (<<f>> \o x2)
    <3> HIDE DEF F
    <3>1. <<p.version>> \in Seq(Byte) /\ <<f>> \in Seq(Byte)
      BY <1>1, <1>3
    <3> QED  BY <1>4, <1>5, <3>1, Assoc
  <2>2. <<f>> \o x2 \in Seq(Byte) /\ decodeByte(<<f>> \o x2) = f
    BY <1>3, <1>5, OneByte
  <2>3. decodeByte(x1) = p.version /\ Rest(x1, 1) = <<f>> \o x2
    <3> HIDE DEF x1
    <3> QED  BY <1>1, <2>1, <2>2, OneByte
  <2>4. Rest(x1, 2) = x2
    <3> HIDE DEF F
    <3>1. Rest(F \o x2, Len(F)) = x2
      BY <1>4, <1>5, InFront
    <3> QED  BY <1>4, <3>1
  <2> QED  BY <2>2, <2>3, <2>4
<1>9. decodeUint16(x2) = p.keepalive /\ Rest(x2, 2) = x3 /\ Rest(x1, 4) = x3
  <2>1. decodeUint16(x2) = p.keepalive /\ Rest(x2, 2) = x3
    <3> HIDE DEF x3
    <3> QED  BY <1>1, <1>5, Uint16
  <2> HIDE DEF x1, x2, x3
  <2>2. Rest(Rest(x1, 2), 2) = Rest(x1, 2 + 2)
    BY <1>5, RestRest
  <2> QED  BY <1>8, <2>1, <2>2
<1>10. decodeString(x3) = p.client /\ afterString(x3) = x4
  <2> HIDE DEF x4
  <2> QED  BY <1>1, <1>5, StringBytes
<1>11. stringIf(p.will, x4) = p.willTopic /\ afterIf(p.will, x4) = x5
  <2> HIDE DEF x5
  <2> QED  BY <1>1, <1>2, <1>5, Optional
<1>12. stringIf(p.will, x5) = p.willMessage /\ afterIf(p.will, x5) = x6
  <2> HIDE DEF x6
  <2> QED  BY <1>1, <1>2, <1>5, Optional
<1>13. stringIf(p.usernameFlag, x6) = p.username /\ afterIf(p.usernameFlag, x6) = P
  <2>1. P \in Seq(Byte)
    BY <1>4
  <2> HIDE DEF P
  <2> QED  BY <1>1, <1>2, <2>1, Optional
<1>14. stringIf(p.passwordFlag, P) = p.password
  <2>1. stringIf(p.passwordFlag, P \o <<>>) = p.password
    <3>1. <<>> \in Seq(Byte) /\ P = IF p.passwordFlag THEN encodeString(p.password) ELSE <<>>
      BY NoBytes
    <3> HIDE DEF P
    <3>2. \A y \in Seq(Byte) : stringIf(p.passwordFlag, P \o y) = p.password
      BY <1>1, <1>2, <3>1, Optional
    <3> QED  BY <3>1, <3>2
  <2>2. P \o <<>> = P
    BY <1>4, NoBytes
  <2> HIDE DEF P
  <2> QED  BY <2>1, <2>2
<1> HIDE DEF b, f, x1, x2, x3, x4, x5, x6, P
<1>15. unpackConnect(b) =
         [name |-> p.name, version |-> p.version, clean |-> p.clean, will |-> p.will,
          willQos |-> p.willQos, willRetain |-> p.willRetain, passwordFlag |-> p.passwordFlag,
          usernameFlag |-> p.usernameFlag, keepalive |-> p.keepalive, client |-> p.client,
          willTopic |-> p.willTopic, willMessage |-> p.willMessage, username |-> p.username,
          password |-> p.password]
  BY <1>3, <1>7, <1>8, <1>9, <1>10, <1>11, <1>12, <1>13, <1>14 DEF unpackConnect
<1>16. p = [name |-> p.name, version |-> p.version, clean |-> p.clean, will |-> p.will,
            willQos |-> p.willQos, willRetain |-> p.willRetain, passwordFlag |-> p.passwordFlag,
            usernameFlag |-> p.usernameFlag, keepalive |-> p.keepalive, client |-> p.client,
            willTopic |-> p.willTopic, willMessage |-> p.willMessage, username |-> p.username,
            password |-> p.password]
  BY DEF ConnectBody
<1> QED  BY <1>7, <1>15, <1>16 DEF b
\* A CONNACK comes back.
LEMMA ConnackBack ==
  ASSUME NEW p \in [compression : Byte, code : Byte]
  PROVE  writeConnack(p) \in Seq(Byte) /\ unpackConnack(writeConnack(p)) = p
<1>1. p.compression \in Byte /\ p.code \in Byte
  OBVIOUS
<1>2. p = [compression |-> p.compression, code |-> p.code]
  OBVIOUS
<1> DEFINE c == p.compression
           d == p.code
<1> HIDE DEF c, d
<1>3. <<d>> \in Seq(Byte) /\ <<c>> \in Seq(Byte) /\ <<c, d>> = <<c>> \o <<d>> /\ <<d>> = <<d>> \o <<>>
  BY <1>1 DEF c, d
<1>4. \A y \in Seq(Byte) : decodeByte(<<d>> \o y) = d
  BY <1>1, OneByte DEF d
<1>5. decodeByte(<<d>>) = d
  BY <1>3, <1>4, NoBytes
<1>6. \A y \in Seq(Byte) : /\ <<c>> \o y \in Seq(Byte) /\ decodeByte(<<c>> \o y) = c
                           /\ Rest(<<c>> \o y, 1) = y
  BY <1>1, OneByte DEF c
<1>7. /\ <<c, d>> \in Seq(Byte) /\ decodeByte(<<c, d>>) = c /\ Rest(<<c, d>>, 1) = <<d>>
  BY <1>3, <1>6
<1>8. writeConnack(p) = <<c, d>>
  BY DEF writeConnack, c, d
<1>9. unpackConnack(<<c, d>>) = [compression |-> c, code |-> d]
  BY <1>5, <1>7 DEF unpackConnack
<1> QED  BY <1>2, <1>7, <1>8, <1>9 DEF c, d

\* A PUBLISH comes back, and its payload has the length that is left for it.
LEMMA PublishBack ==
  ASSUME NEW q \in 0..3, NEW p \in PublishBody(q), NEW h, h.qos = q,
         h.length = Len(writePublish(q, p))
  PROVE  /\ writePublish(q, p) \in Seq(Byte)
         /\ payloadLength(h, writePublish(q, p)) = Len(p.payload)
         /\ unpackPublish(h, writePublish(q, p)) = p
<1> DEFINE t == p.topic
           y == p.payload
           I == IF q > 0 THEN encodeUint16(p.id) ELSE <<>>
           x == I \o y
           b == writePublish(q, p)
<1>1. t \in String /\ y \in Seq(Byte) /\ (q > 0 => p.id \in Id) /\ (~(q > 0) => p.id = 0)
  BY DEF PublishBody
<1>2. p = [topic |-> t, id |-> p.id, payload |-> y]
  BY DEF PublishBody
<1>3. I \in Seq(Byte) /\ Len(I) = (IF q > 0 THEN 2 ELSE 0)
  <2>1. q > 0 => encodeUint16(p.id) \in Seq(Byte) /\ Len(encodeUint16(p.id)) = 2
    BY <1>1, NoBytes, Uint16
  <2> QED  BY <2>1, NoBytes
<1> HIDE DEF t, y
<1>4. x \in Seq(Byte) /\ Len(x) = Len(I) + Len(y)
  <2> HIDE DEF I
  <2> QED  BY <1>1, <1>3, InFront
<1>5. encodeString(t) \in Seq(Byte) /\ Len(encodeString(t)) = Len(t) + 2
  BY <1>1, NoBytes, StringBytes
<1>6. b = encodeString(t) \o x
  <2>1. b = encodeString(t) \o I \o y
    BY DEF writePublish, t, y
  <2> HIDE DEF I, b
  <2> QED  BY <1>1, <1>3, <1>5, <2>1, Assoc
<1>7. b \in Seq(Byte) /\ decodeString(b) = t /\ afterString(b) = x
  <2> HIDE DEF b, x
  <2> QED  BY <1>1, <1>4, <1>6, StringBytes
<1>8. Len(b) = (Len(t) + 2) + Len(x)
  <2> HIDE DEF b, x
  <2> QED  BY <1>4, <1>5, <1>6, InFront
<1>9. Len(t) \in Nat /\ Len(y) \in Nat
  BY <1>1 DEF String
<1>10. payloadLength(h, b) = Len(y)
  <2>1. payloadLength(h, b) = (Len(b) - Len(t)) - (IF q > 0 THEN 4 ELSE 2)
    <3> HIDE DEF b
    <3> QED  BY <1>7 DEF payloadLength, b
  <2>2. Len(b) = (Len(t) + 2) + ((IF q > 0 THEN 2 ELSE 0) + Len(y))
    <3> HIDE DEF b, I, x
    <3> QED  BY <1>3, <1>4, <1>8
  <2> DEFINE k == Len(t)
             l == Len(y)
  <2>3. k \in Nat /\ l \in Nat
    BY <1>9
  <2> HIDE DEF b, k, l
  <2>4. CASE q > 0
    <3>1. Len(b) = (k + 2) + (2 + l) /\ payloadLength(h, b) = (Len(b) - k) - 4
      BY <2>1, <2>2, <2>4 DEF k, l
    <3> QED  BY <2>3, <3>1 DEF l
  <2>5. CASE ~(q > 0)
    <3>1. Len(b) = (k + 2) + (0 + l) /\ payloadLength(h, b) = (Len(b) - k) - 2
      BY <2>1, <2>2, <2>5 DEF k, l
    <3> QED  BY <2>3, <3>1 DEF l
  <2> QED  BY <2>4, <2>5
<1>11. CASE q > 0
  <2>1. decodeUint16(x) = p.id /\ Rest(x, 2) = y
    BY <1>1, <1>11, Uint16
  <2>2. Read(y, Len(y)) = y
    BY <1>1 DEF Read
  <2> HIDE DEF b, x
  <2>3. unpackPublish(h, b) = [topic |-> t, id |-> p.id, payload |-> y]
    BY <1>7, <1>10, <1>11, <2>1, <2>2 DEF unpackPublish
  <2> QED  BY <1>2, <1>7, <1>10, <2>3 DEF b, y
<1>12. CASE ~(q > 0)
  <2>1. x = y
    BY <1>1, <1>12, NoBytes
  <2>2. Read(y, Len(y)) = y
    BY <1>1 DEF Read
  <2> HIDE DEF b, x
  <2>3. unpackPublish(h, b) = [topic |-> t, id |-> 0, payload |-> y]
    BY <1>7, <1>10, <1>12, <2>1, <2>2 DEF unpackPublish
  <2> QED  BY <1>1, <1>2, <1>7, <1>10, <1>12, <2>3 DEF b, y
<1> QED  BY <1>11, <1>12

\* A SUBACK comes back, and so does a packet that is its identifier.
LEMMA SubackBack ==
  ASSUME NEW p \in [id : Id, granted : Seq(Byte)]
  PROVE  writeSuback(p) \in Seq(Byte) /\ unpackSuback(writeSuback(p)) = p
<1>1. p.id \in Id /\ p.granted \in Seq(Byte) /\ p = [id |-> p.id, granted |-> p.granted]
  OBVIOUS
<1> DEFINE b == encodeUint16(p.id) \o p.granted
<1>2. b \in Seq(Byte) /\ decodeUint16(b) = p.id /\ Rest(b, 2) = p.granted
  BY <1>1, Uint16
<1> HIDE DEF b
<1>3. unpackSuback(b) = p
  BY <1>1, <1>2 DEF unpackSuback
<1> QED  BY <1>2, <1>3 DEF b, writeSuback

\* A packet that is only an identifier comes back.
LEMMA IdBack ==
  ASSUME NEW p \in [id : Id]
  PROVE  encodeUint16(p.id) \in Seq(Byte) /\ [id |-> decodeUint16(encodeUint16(p.id))] = p
<1>1. p.id \in Id /\ p = [id |-> p.id]
  OBVIOUS
<1>2. encodeUint16(p.id) \in Seq(Byte) /\ \A y \in Seq(Byte) : decodeUint16(encodeUint16(p.id) \o y) = p.id
  BY <1>1, NoBytes, Uint16
<1>3. decodeUint16(encodeUint16(p.id)) = p.id
  BY <1>2, NoBytes
<1> QED  BY <1>1, <1>2, <1>3

-----------------------------------------------------------------------------
(* Sequences joined one after another.                                     *)

Lists == Seq(Seq(Byte))

\* FlattenSeq joins from the left.
LEMMA FlattenIs ==
  ASSUME NEW ss \in Lists, ss # <<>>
  PROVE  \E g \in [1..Len(ss) -> Seq(Byte)] :
            /\ g[1] = ss[1] /\ \A i \in 2..Len(ss) : g[i] = g[i - 1] \o ss[i]
            /\ FlattenSeq(ss) = g[Len(ss)]
<1> DEFINE n == Len(ss)
           S == 1..n
           V == Seq(Byte)
           rank == [i \in S |-> i]
           D == [i \in S |-> [g \in [S -> V] |-> IF i = 1 THEN ss[i] ELSE g[i - 1] \o ss[i]]]
           Eq(g) == g = [i \in S |-> IF i = 1 THEN ss[i] ELSE g[i - 1] \o ss[i]]
           fl == CHOOSE g : Eq(g)
<1>1. n \in Nat /\ n # 0 /\ n > 0 /\ \A i \in S : ss[i] \in V
  BY EmptySeq DEF Lists
<1>2. D \in [S -> [[S -> V] -> V]]
  <2>1. ASSUME NEW i \in S, NEW g \in [S -> V]
        PROVE  (IF i = 1 THEN ss[i] ELSE g[i - 1] \o ss[i]) \in V
    <3>1. CASE i = 1
      BY <1>1, <3>1
    <3>2. CASE i # 1
      <4>1. i - 1 \in S /\ g[i - 1] \in V /\ ss[i] \in V
        BY <1>1, <3>2
      <4> QED  BY <3>2, <4>1, Assoc
    <3> QED  BY <3>1, <3>2
  <2> QED  BY <2>1
<1>3. rank \in [S -> 0..n]
  BY <1>1
<1>4. LooksBelow(S, V, rank, D)
  <2> SUFFICES ASSUME NEW k \in S, NEW g \in [S -> V], NEW h \in [S -> V],
                      \A j \in S : rank[j] < rank[k] => g[j] = h[j]
               PROVE  D[k][g] = D[k][h]
    BY DEF LooksBelow
  <2>1. k # 1 => k - 1 \in S /\ g[k - 1] = h[k - 1]
    OBVIOUS
  <2> QED  BY <2>1
<1>5. PICK g \in [S -> V] : \A k \in S : g[k] = D[k][g]
  <2>1. <<>> \in V
    BY EmptySeq
  <2> HIDE DEF S, V, rank, D
  <2>2. Solutions(S, V, D) # {}
    BY <1>1, <1>2, <1>3, <1>4, <2>1, Recursive
  <2> QED  BY <2>2 DEF Solutions
<1>6. Eq(g)
  <2>1. \A k \in S : g[k] = IF k = 1 THEN ss[k] ELSE g[k - 1] \o ss[k]
    BY <1>5
  <2> QED  BY <2>1
<1>7. Eq(fl)
  BY <1>6
<1>8. \A i \in S : fl[i] = IF i = 1 THEN ss[i] ELSE fl[i - 1] \o ss[i]
  <2> HIDE DEF fl
  <2> QED  BY <1>7
<1>9. FlattenSeq(ss) = fl[n]
  BY <1>1 DEF FlattenSeq
<1> HIDE DEF fl
<1>10. fl[1] = ss[1]
  BY <1>1, <1>8
<1>11. ASSUME NEW i \in S, i # 1 PROVE fl[i] = fl[i - 1] \o ss[i]
  <2>1. fl[i] = IF i = 1 THEN ss[i] ELSE fl[i - 1] \o ss[i]
    BY <1>8
  <2> QED  BY <1>11, <2>1
<1>12. fl = [i \in S |-> fl[i]]
  <2> DEFINE e(i) == IF i = 1 THEN ss[i] ELSE fl[i - 1] \o ss[i]
  <2>1. fl = [i \in S |-> e(i)]
    BY <1>7
  <2> HIDE DEF e
  <2> QED  BY <2>1
<1>13. \A i \in S : fl[i] \in V
  <2> DEFINE T == {k \in Nat : k \in S => fl[k] \in V}
  <2>1. 0 \in T
    OBVIOUS
  <2>2. \A k \in 0..n-1 : k \in T => k + 1 \in T
    <3> SUFFICES ASSUME NEW k \in 0..n-1, k \in T PROVE k + 1 \in T
      OBVIOUS
    <3>1. k + 1 \in S /\ k + 1 \in Nat /\ ss[k + 1] \in V
      BY <1>1
    <3>2. CASE k = 0
      BY <1>1, <1>8, <3>1, <3>2
    <3>3. CASE k # 0
      <4>1. fl[k] \in V /\ fl[k + 1] = fl[k] \o ss[k + 1]
        <5>1. k \in S /\ k + 1 # 1 /\ (k + 1) - 1 = k
          BY <3>3
        <5>2. fl[k + 1] = fl[(k + 1) - 1] \o ss[k + 1]
          BY <1>11, <3>1, <5>1
        <5> QED  BY <5>1, <5>2
      <4> QED  BY <3>1, <4>1, Assoc
    <3> QED  BY <3>2, <3>3
  <2>3. \A k \in 0..n : k \in T
    <3> HIDE DEF T
    <3> QED  BY <1>1, <2>1, <2>2, UpTo
  <2> QED  BY <1>1, <2>3
<1>14. fl \in [S -> V]
  BY <1>12, <1>13
<1>15. fl[1] = ss[1] /\ \A i \in 2..n : fl[i] = fl[i - 1] \o ss[i]
  <2>1. \A i \in 2..n : i \in S /\ i # 1
    BY <1>1
  <2>2. \A i \in S : i # 1 => fl[i] = fl[i - 1] \o ss[i]
    BY <1>11
  <2> QED  BY <1>10, <2>1, <2>2
<1> QED  BY <1>9, <1>14, <1>15

\* The first k of them joined.
upTo(ss, k) == FlattenSeq(SubSeq(ss, 1, k))

\* They are joined one after another.
LEMMA UpToIs ==
  ASSUME NEW ss \in Lists, NEW k \in 0..Len(ss)
  PROVE  /\ upTo(ss, k) \in Seq(Byte)
         /\ k = 0 => upTo(ss, k) = <<>>
         /\ k # 0 => upTo(ss, k) = upTo(ss, k - 1) \o ss[k]
<1>1. Len(ss) \in Nat /\ \A i \in 1..Len(ss) : ss[i] \in Seq(Byte)
  BY DEF Lists
<1>2. ASSUME NEW m \in 0..Len(ss)
      PROVE  /\ SubSeq(ss, 1, m) \in Lists /\ Len(SubSeq(ss, 1, m)) = m
             /\ \A i \in 1..m : SubSeq(ss, 1, m)[i] = ss[i]
             /\ m = 0 => SubSeq(ss, 1, m) = <<>>
  <2>1. /\ SubSeq(ss, 1, m) \in Lists /\ Len(SubSeq(ss, 1, m)) = m
        /\ \A i \in 1..m : SubSeq(ss, 1, m)[i] = ss[i]
    BY <1>1 DEF Lists
  <2>2. m = 0 => SubSeq(ss, 1, m) = <<>>
    BY <2>1, EmptySeq DEF Lists
  <2> QED  BY <2>1, <2>2
<1>3. FlattenSeq(<<>>) = <<>>
  BY DEF FlattenSeq
<1>4. CASE k = 0
  BY <1>2, <1>3, <1>4, EmptySeq DEF upTo
<1>5. CASE k = 1
  <2> DEFINE s == SubSeq(ss, 1, k)
  <2>1. /\ s \in Lists /\ Len(s) = 1 /\ s[1] = ss[1] /\ s # <<>>
    BY <1>2, <1>5
  <2> HIDE DEF s
  <2>2. FlattenSeq(s) = ss[1]
    <3>1. PICK g \in [1..Len(s) -> Seq(Byte)] : g[1] = s[1] /\ FlattenSeq(s) = g[Len(s)]
      BY <2>1, FlattenIs
    <3> QED  BY <2>1, <3>1
  <2>3. upTo(ss, k - 1) = <<>>
    <3>1. k - 1 = 0 /\ 0 \in 0..Len(ss)
      BY <1>1, <1>5
    <3>2. SubSeq(ss, 1, 0) = <<>>
      BY <1>2, <3>1
    <3>3. upTo(ss, 0) = <<>>
      BY <1>3, <3>2 DEF upTo
    <3> QED  BY <3>1, <3>3
  <2>4. ss[1] \in Seq(Byte) /\ <<>> \o ss[1] = ss[1]
    BY <1>1, <1>5, NoBytes
  <2>5. upTo(ss, k) = ss[1]
    BY <2>2 DEF upTo, s
  <2> QED  BY <1>5, <2>3, <2>4, <2>5
<1>6. CASE k > 1
  <2> DEFINE s == SubSeq(ss, 1, k)
             t == SubSeq(ss, 1, k - 1)
  <2>1. /\ s \in Lists /\ Len(s) = k /\ s # <<>> /\ \A i \in 1..k : s[i] = ss[i]
    <3>1. s \in Lists /\ Len(s) = k /\ \A i \in 1..k : s[i] = ss[i]
      BY <1>2
    <3>2. Len(<<>>) = 0
      OBVIOUS
    <3> HIDE DEF s
    <3> QED  BY <1>6, <3>1, <3>2
  <2>2. /\ t \in Lists /\ Len(t) = k - 1 /\ t # <<>> /\ \A i \in 1..k-1 : t[i] = ss[i]
    <3>1. k - 1 \in 0..Len(ss)
      BY <1>1, <1>6
    <3>2. t \in Lists /\ Len(t) = k - 1 /\ \A i \in 1..k-1 : t[i] = ss[i]
      BY <1>2, <3>1
    <3> QED  BY <1>6, <3>2
  <2> HIDE DEF s, t
  <2>3. PICK g \in [1..Len(s) -> Seq(Byte)] :
             /\ g[1] = s[1] /\ \A i \in 2..Len(s) : g[i] = g[i - 1] \o s[i]
             /\ FlattenSeq(s) = g[Len(s)]
    BY <2>1, FlattenIs
  <2>4. PICK h \in [1..Len(t) -> Seq(Byte)] :
             /\ h[1] = t[1] /\ \A i \in 2..Len(t) : h[i] = h[i - 1] \o t[i]
             /\ FlattenSeq(t) = h[Len(t)]
    BY <2>2, FlattenIs
  <2>5. \A i \in 0..k-1 : i \in {j \in Nat : j # 0 => g[j] = h[j]}
    <3> DEFINE T == {j \in Nat : j # 0 => g[j] = h[j]}
    <3>1. 0 \in T
      OBVIOUS
    <3>2. ASSUME NEW i \in 0..(k-1)-1, i \in T PROVE i + 1 \in T
      <4>1. CASE i = 0
        <5>1. g[1] = ss[1] /\ h[1] = ss[1]
          BY <1>6, <2>1, <2>2, <2>3, <2>4
        <5> QED  BY <4>1, <5>1
      <4>2. CASE i # 0
        <5>1. i + 1 \in 2..k-1 /\ i + 1 \in 2..k /\ (i + 1) - 1 = i
          BY <1>6, <4>2
        <5>2. g[i + 1] = g[(i + 1) - 1] \o s[i + 1]
          BY <2>1, <2>3, <5>1
        <5>3. h[i + 1] = h[(i + 1) - 1] \o t[i + 1]
          BY <2>2, <2>4, <5>1
        <5>4. s[i + 1] = ss[i + 1] /\ t[i + 1] = ss[i + 1]
          BY <2>1, <2>2, <5>1
        <5>5. g[i] = h[i]
          BY <3>2, <4>2
        <5>6. g[i + 1] = h[i + 1]
          BY <5>1, <5>2, <5>3, <5>4, <5>5
        <5> QED  BY <5>6
      <4> QED  BY <4>1, <4>2
    <3>3. k - 1 \in Nat
      BY <1>6
    <3> HIDE DEF T
    <3>4. \A i \in 0..k-1 : i \in T
      BY <3>1, <3>2, <3>3, UpTo
    <3> QED  BY <3>4 DEF T
  <2>6. g[k - 1] = h[k - 1]
    BY <1>6, <2>5
  <2>7. g[k] = g[k - 1] \o ss[k]
    <3>1. k \in 2..Len(s) /\ k \in 1..k
      BY <1>6, <2>1
    <3> QED  BY <2>1, <2>3, <3>1
  <2>8. FlattenSeq(s) = g[k] /\ FlattenSeq(t) = h[k - 1] /\ g[k] \in Seq(Byte)
    BY <1>6, <2>1, <2>2, <2>3, <2>4
  <2>9. upTo(ss, k) = g[k] /\ upTo(ss, k - 1) = h[k - 1]
    BY <2>8 DEF upTo, s, t
  <2>10. upTo(ss, k) \in Seq(Byte) /\ upTo(ss, k) = upTo(ss, k - 1) \o ss[k]
    BY <2>6, <2>7, <2>8, <2>9
  <2>11. k # 0
    BY <1>6
  <2> QED  BY <2>10, <2>11
<1>7. k = 0 \/ k = 1 \/ k > 1
  BY <1>1
<1> QED  BY <1>4, <1>5, <1>6, <1>7

\* All of them.
LEMMA WholeIs ==
  ASSUME NEW ss \in Lists
  PROVE  upTo(ss, Len(ss)) = FlattenSeq(ss) /\ FlattenSeq(ss) \in Seq(Byte)
<1>1. SubSeq(ss, 1, Len(ss)) = ss
  BY SubSeqFull DEF Lists
<1>2. Len(ss) \in Nat
  BY DEF Lists
<1>3. Len(ss) \in 0..Len(ss)
  BY <1>2
<1>4. upTo(ss, Len(ss)) \in Seq(Byte)
  BY <1>3, UpToIs
<1> QED  BY <1>1, <1>4 DEF upTo

\* What lies behind the first k of them.
LEMMA Behind ==
  ASSUME NEW ss \in Lists, NEW k \in 0..Len(ss), NEW m \in k..Len(ss)
  PROVE  \E y \in Seq(Byte) : upTo(ss, m) = upTo(ss, k) \o y
<1> DEFINE T == {j \in Nat : k + j <= Len(ss) => \E y \in Seq(Byte) : upTo(ss, k + j) = upTo(ss, k) \o y}
<1>1. Len(ss) \in Nat /\ \A i \in 1..Len(ss) : ss[i] \in Seq(Byte)
  BY DEF Lists
<1>2. 0 \in T
  <2>1. upTo(ss, k) = upTo(ss, k) \o <<>> /\ <<>> \in Seq(Byte)
    BY UpToIs, NoBytes
  <2>2. k + 0 = k
    OBVIOUS
  <2> QED  BY <2>1, <2>2
<1>3. ASSUME NEW j \in 0..(m - k)-1, j \in T PROVE j + 1 \in T
  <2>1. k + j \in 0..Len(ss) /\ k + (j + 1) \in 0..Len(ss) /\ k + (j + 1) # 0
        /\ (k + (j + 1)) - 1 = k + j /\ k + (j + 1) \in 1..Len(ss)
    BY <1>1
  <2>2. PICK y \in Seq(Byte) : upTo(ss, k + j) = upTo(ss, k) \o y
    BY <1>3, <2>1
  <2>3. upTo(ss, k + (j + 1)) = upTo(ss, k + j) \o ss[k + (j + 1)]
    BY <2>1, UpToIs
  <2>4. upTo(ss, k) \in Seq(Byte) /\ ss[k + (j + 1)] \in Seq(Byte)
    BY <1>1, <2>1, UpToIs
  <2>5. /\ (upTo(ss, k) \o y) \o ss[k + (j + 1)] = upTo(ss, k) \o (y \o ss[k + (j + 1)])
        /\ y \o ss[k + (j + 1)] \in Seq(Byte)
    BY <2>4, Assoc
  <2>6. upTo(ss, k + (j + 1)) = upTo(ss, k) \o (y \o ss[k + (j + 1)])
    BY <2>2, <2>3, <2>5
  <2>7. j + 1 \in Nat
    OBVIOUS
  <2> QED  BY <2>5, <2>6, <2>7
<1>4. m - k \in Nat /\ k + (m - k) = m /\ m - k \in 0..m-k
  BY <1>1
<1>5. m - k \in T
  <2> HIDE DEF T
  <2> QED  BY <1>2, <1>3, <1>4, UpTo
<1> QED  BY <1>1, <1>4, <1>5

-----------------------------------------------------------------------------
(* The entries of a SUBSCRIBE and an UNSUBSCRIBE.                          *)

\* Whatever a buffer holds, a string can be read from it.
LEMMA DecodeType ==
  ASSUME NEW b \in Seq(Byte)
  PROVE  decodeUint16(b) \in Nat /\ decodeString(b) \in Seq(Byte) /\ Len(decodeString(b)) = decodeUint16(b)
<1>1. \A c \in Seq(Byte), n \in Nat : Read(c, n) \in Seq(Byte) /\ Len(Read(c, n)) = n
  <2> SUFFICES ASSUME NEW c \in Seq(Byte), NEW n \in Nat
               PROVE  Read(c, n) \in Seq(Byte) /\ Len(Read(c, n)) = n
    OBVIOUS
  <2>1. \A i \in 1..n : (IF i <= Len(c) THEN c[i] ELSE 0) \in Byte
    <3>1. 0 \in Byte
      BY DEF Byte
    <3>2. \A i \in 1..n : i <= Len(c) => c[i] \in Byte
      OBVIOUS
    <3> QED  BY <3>1, <3>2
  <2> QED  BY <2>1 DEF Read
<1>2. Read(b, 2)[1] \in Byte /\ Read(b, 2)[2] \in Byte
  <2>1. Read(b, 2) \in Seq(Byte) /\ Len(Read(b, 2)) = 2
    BY <1>1
  <2> QED  BY <2>1
<1>3. decodeUint16(b) \in Nat
  <2> DEFINE hi == Read(b, 2)[1]
             lo == Read(b, 2)[2]
  <2>1. decodeUint16(b) = 256 * hi + lo
    BY DEF decodeUint16
  <2>2. hi \in Byte /\ lo \in Byte
    BY <1>2
  <2> HIDE DEF hi, lo
  <2>3. hi \in Nat /\ lo \in Nat
    BY <2>2 DEF Byte
  <2> QED  BY <2>1, <2>3
<1>4. Rest(b, 2) \in Seq(Byte)
  BY RestIs
<1> QED  BY <1>1, <1>3, <1>4 DEF decodeString

\* Nothing is left: nothing is read.
LEMMA NothingRead == decodeString(<<>>) = <<>>
<1>1. <<>> \in Seq(Byte) /\ Len(<<>>) = 0
  BY NoBytes
<1>2. Read(<<>>, 2)[1] = 0 /\ Read(<<>>, 2)[2] = 0
  BY <1>1 DEF Read
<1>3. decodeUint16(<<>>) = 0
  BY <1>2 DEF decodeUint16
<1>4. Len(decodeString(<<>>)) = 0 /\ decodeString(<<>>) \in Seq(Byte)
  BY <1>1, <1>3, DecodeType
<1> QED  BY <1>4, EmptySeq

\* The places where entries end.
LEMMA AfterIs ==
  ASSUME NEW b \in Seq(Byte), NEW more \in Nat
  PROVE  /\ DOMAIN after(b, more) = 0..Len(b)
         /\ after(b, more)[0] = 2
         /\ \A k \in 1..Len(b) :
              /\ after(b, more)[k - 1] \in Nat
              /\ after(b, more)[k] = after(b, more)[k - 1] + 2
                                     + Len(decodeString(Rest(b, after(b, more)[k - 1]))) + more
<1> DEFINE n == Len(b)
           S == 0..n
           step(i) == i + 2 + Len(decodeString(Rest(b, i))) + more
           rank == [k \in S |-> k]
           D == [k \in S |-> [g \in [S -> Nat] |-> IF k = 0 THEN 2 ELSE step(g[k - 1])]]
           Eq(g) == g = [k \in S |-> IF k = 0 THEN 2 ELSE step(g[k - 1])]
           at == CHOOSE g : Eq(g)
<1>1. n \in Nat
  OBVIOUS
<1>2. \A i \in Nat : step(i) \in Nat
  <2> SUFFICES ASSUME NEW i \in Nat PROVE step(i) \in Nat
    OBVIOUS
  <2>1. Rest(b, i) \in Seq(Byte)
    BY RestIs
  <2>2. Len(decodeString(Rest(b, i))) \in Nat
    BY <2>1, DecodeType
  <2> QED  BY <2>2
<1> HIDE DEF step
<1>3. D \in [S -> [[S -> Nat] -> Nat]]
  <2>1. ASSUME NEW k \in S, NEW g \in [S -> Nat] PROVE (IF k = 0 THEN 2 ELSE step(g[k - 1])) \in Nat
    <3>1. CASE k = 0
      BY <3>1
    <3>2. CASE k # 0
      <4>1. k - 1 \in S /\ g[k - 1] \in Nat
        BY <1>1, <3>2
      <4> QED  BY <1>2, <3>2, <4>1
    <3> QED  BY <3>1, <3>2
  <2> QED  BY <2>1
<1>4. rank \in [S -> 0..n]
  BY <1>1
<1>5. LooksBelow(S, Nat, rank, D)
  <2> SUFFICES ASSUME NEW k \in S, NEW g \in [S -> Nat], NEW h \in [S -> Nat],
                      \A j \in S : rank[j] < rank[k] => g[j] = h[j]
               PROVE  D[k][g] = D[k][h]
    BY DEF LooksBelow
  <2>1. k # 0 => k - 1 \in S /\ g[k - 1] = h[k - 1]
    BY <1>1
  <2> QED  BY <2>1
<1>6. PICK g \in [S -> Nat] : \A k \in S : g[k] = D[k][g]
  <2>1. 0 \in Nat
    OBVIOUS
  <2> HIDE DEF S, rank, D
  <2>2. Solutions(S, Nat, D) # {}
    BY <1>1, <1>3, <1>4, <1>5, <2>1, Recursive
  <2> QED  BY <2>2 DEF Solutions
<1>7. Eq(g)
  <2>1. \A k \in S : g[k] = IF k = 0 THEN 2 ELSE step(g[k - 1])
    BY <1>6
  <2> QED  BY <2>1
<1>8. Eq(at)
  BY <1>7
<1>9. after(b, more) = at
  BY DEF after, step
<1> HIDE DEF at
<1>10. DOMAIN at = S /\ \A k \in S : at[k] = IF k = 0 THEN 2 ELSE step(at[k - 1])
  BY <1>8
<1>11. at[0] = 2
  BY <1>1, <1>10
<1>12. ASSUME NEW k \in 1..n PROVE at[k] = step(at[k - 1])
  <2>1. k \in S /\ k # 0
    BY <1>1
  <2> QED  BY <1>10, <2>1
<1>13. \A k \in 0..n : k \in {j \in Nat : j \in S => at[j] \in Nat}
  <2> DEFINE T == {j \in Nat : j \in S => at[j] \in Nat}
  <2>1. 0 \in T
    BY <1>11
  <2>2. ASSUME NEW k \in 0..n-1, k \in T PROVE k + 1 \in T
    <3>1. k + 1 \in 1..n /\ (k + 1) - 1 = k /\ k \in S /\ k + 1 \in Nat
      BY <1>1
    <3>2. at[k + 1] = step(at[k]) /\ at[k] \in Nat
      BY <1>12, <2>2, <3>1
    <3> QED  BY <1>2, <3>1, <3>2
  <2> HIDE DEF T
  <2>3. \A k \in 0..n : k \in T
    BY <1>1, <2>1, <2>2, UpTo
  <2> QED  BY <2>3 DEF T
<1>14. ASSUME NEW k \in 1..n PROVE at[k - 1] \in Nat
  <2>1. k - 1 \in 0..n
    BY <1>1
  <2> QED  BY <1>13, <2>1
<1> QED  BY <1>9, <1>10, <1>11, <1>12, <1>14 DEF step

\* Strings one behind the other after two bytes, with so many more bytes after each.
Joined(t, more, tail, es, u) ==
    /\ t \in Seq(String) /\ more \in Nat /\ tail \in [1..Len(t) -> Seq(Byte)]
    /\ \A i \in 1..Len(t) : Len(tail[i]) = more
    /\ es \in Lists /\ Len(es) = Len(t)
    /\ \A i \in 1..Len(t) : es[i] = encodeString(t[i]) \o tail[i]
    /\ u \in Seq(Byte) /\ Len(u) = 2

\* What is found of them in buffer b.
Found(t, more, tail, b) ==
    LET at == after(b, more) IN
    /\ b \in Seq(Byte) /\ Len(t) \in 0..Len(b) /\ at[Len(t)] = Len(b)
    /\ \A k \in 0..Len(t)-1 :
         /\ at[k] \in 0..Len(b)-1
         /\ \E y \in Seq(Byte) : Rest(b, at[k]) = encodeString(t[k + 1]) \o (tail[k + 1] \o y)

\* The entries that were written, one behind the other: where each starts, and that
\* nothing is left behind the last.
LEMMA Entries ==
  ASSUME NEW t, NEW more, NEW tail, NEW es, NEW u, Joined(t, more, tail, es, u)
  PROVE  Found(t, more, tail, u \o FlattenSeq(es))
<1> DEFINE b == u \o FlattenSeq(es)
<1>0. /\ t \in Seq(String) /\ more \in Nat /\ tail \in [1..Len(t) -> Seq(Byte)]
      /\ (\A i \in 1..Len(t) : Len(tail[i]) = more) /\ es \in Lists /\ Len(es) = Len(t)
      /\ (\A i \in 1..Len(t) : es[i] = encodeString(t[i]) \o tail[i])
      /\ u \in Seq(Byte) /\ Len(u) = 2
  BY DEF Joined
<1> USE <1>0
<1> DEFINE n == Len(t)
           p(k) == upTo(es, k)
           at == after(b, more)
<1>1. n \in Nat /\ (\A i \in 1..n : t[i] \in String /\ es[i] \in Seq(Byte) /\ tail[i] \in Seq(Byte))
  <2>1. n \in Nat /\ \A i \in 1..n : t[i] \in String /\ tail[i] \in Seq(Byte)
    <3>1. n \in Nat
      BY LenProperties
    <3>2. \A i \in 1..n : t[i] \in String
      BY ElementOfSeq
    <3>3. \A i \in 1..n : tail[i] \in Seq(Byte)
      OBVIOUS
    <3> QED  BY <3>1, <3>2, <3>3
  <2>2. \A i \in 1..Len(es) : es[i] \in Seq(Byte)
    BY DEF Lists
  <2> QED  BY <2>1, <2>2
<1>2. FlattenSeq(es) = p(n) /\ FlattenSeq(es) \in Seq(Byte)
  BY WholeIs
<1>3. ASSUME NEW k \in 0..n PROVE p(k) \in Seq(Byte) /\ Len(p(k)) \in Nat
  <2>1. k \in 0..Len(es)
    BY <1>1
  <2>2. p(k) \in Seq(Byte)
    BY <2>1, UpToIs
  <2> HIDE DEF p
  <2> QED  BY <2>2
<1>4. b \in Seq(Byte) /\ Len(b) = 2 + Len(p(n)) /\ Len(b) \in Nat
  <2> DEFINE f == FlattenSeq(es)
  <2> HIDE DEF f
  <2>1. f \in Seq(Byte) /\ f = p(n) /\ b = u \o f
    BY <1>2 DEF f
  <2> HIDE DEF p
  <2>2. b \in Seq(Byte) /\ Len(b) = Len(u) + Len(f)
    <3>1. u \o f \in Seq(Byte) /\ Len(u \o f) = Len(u) + Len(f)
      BY <2>1, InFront
    <3> QED  BY <2>1, <3>1
  <2> QED  BY <2>1, <2>2
<1>5. ASSUME NEW k \in 1..n
      PROVE  /\ p(k) = p(k - 1) \o es[k]
             /\ Len(es[k]) = Len(t[k]) + 2 + more /\ Len(p(k)) = Len(p(k - 1)) + Len(es[k])
             /\ Len(t[k]) \in Nat
  <2>1. k \in 0..Len(es) /\ k - 1 \in 0..n /\ k # 0
    BY <1>1
  <2>2. p(k) = p(k - 1) \o es[k]
    BY <2>1, UpToIs
  <2>3. encodeString(t[k]) \in Seq(Byte) /\ Len(encodeString(t[k])) = Len(t[k]) + 2
    BY <1>1, NoBytes, StringBytes
  <2>4. Len(es[k]) = (Len(t[k]) + 2) + more
    BY <1>1, <2>3, InFront
  <2>5. Len(p(k)) = Len(p(k - 1)) + Len(es[k])
    BY <1>1, <1>3, <2>1, <2>2, InFront
  <2>6. Len(t[k]) \in Nat
    BY <1>1 DEF String
  <2> QED  BY <2>2, <2>4, <2>5, <2>6
<1> HIDE DEF p
<1>6. ASSUME NEW k \in 0..n-1
      PROVE  \E y \in Seq(Byte) : Rest(b, 2 + Len(p(k))) = encodeString(t[k + 1]) \o (tail[k + 1] \o y)
  <2>1. k + 1 \in 1..n /\ (k + 1) - 1 = k /\ k + 1 \in 0..Len(es) /\ Len(es) \in k+1..Len(es) /\ k \in 0..n
    BY <1>1
  <2>2. PICK y \in Seq(Byte) : upTo(es, Len(es)) = upTo(es, k + 1) \o y
    BY <2>1, Behind
  <2>3. p(n) = p(k + 1) \o y /\ p(k + 1) = p(k) \o es[k + 1]
    BY <1>5, <2>1, <2>2 DEF p
  <2> DEFINE e == es[k + 1]
             q == p(k)
  <2>4. e \in Seq(Byte) /\ q \in Seq(Byte) /\ p(n) = (q \o e) \o y
    BY <1>1, <1>3, <2>1, <2>3
  <2>5. b = u \o ((q \o e) \o y)
    BY <1>2, <2>4
  <2> DEFINE x == encodeString(t[k + 1])
             z == tail[k + 1]
  <2>6. x \in Seq(Byte) /\ z \in Seq(Byte) /\ e = x \o z
    BY <1>1, <2>1, NoBytes, StringBytes
  <2> HIDE DEF e, q, x, z
  <2>7. (q \o e) \o y = q \o (e \o y) /\ e \o y \in Seq(Byte) /\ e \o y = x \o (z \o y)
    <3>1. Cat(Cat(q, e), y) = Cat(q, Cat(e, y)) /\ Cat(e, y) \in Seq(Byte)
      BY <2>4, CatAssoc, CatType
    <3>2. Cat(Cat(x, z), y) = Cat(x, Cat(z, y))
      BY <2>6, CatAssoc
    <3> QED  BY <2>6, <3>1, <3>2 DEF Cat
  <2>8. u \o (q \o (e \o y)) = (u \o q) \o (e \o y) /\ u \o q \in Seq(Byte)
    <3> DEFINE w == e \o y
    <3>1. w \in Seq(Byte)
      BY <2>7
    <3> HIDE DEF w
    <3>2. Cat(Cat(u, q), w) = Cat(u, Cat(q, w)) /\ Cat(u, q) \in Seq(Byte)
      BY <2>4, <3>1, CatAssoc, CatType
    <3> QED  BY <3>2 DEF Cat, w
  <2>9. Len(u \o q) = 2 + Len(q)
    BY <2>4, InFront
  <2>10. Rest((u \o q) \o (e \o y), Len(u \o q)) = e \o y
    BY <2>7, <2>8, InFront
  <2>11. Rest(b, 2 + Len(q)) = x \o (z \o y)
    BY <2>5, <2>7, <2>8, <2>9, <2>10
  <2> QED  BY <2>11 DEF q, x, z
<1>7. ASSUME NEW k \in 0..n-1 PROVE decodeString(Rest(b, 2 + Len(p(k)))) = t[k + 1]
  <2>1. k + 1 \in 1..n
    BY <1>1
  <2>2. PICK y \in Seq(Byte) : Rest(b, 2 + Len(p(k))) = encodeString(t[k + 1]) \o (tail[k + 1] \o y)
    BY <1>6
  <2>3. tail[k + 1] \o y \in Seq(Byte) /\ t[k + 1] \in String
    BY <1>1, <2>1, InFront
  <2> QED  BY <2>2, <2>3, StringBytes
<1>8. p(0) = <<>> /\ Len(p(0)) = 0
  <2>1. 0 \in 0..Len(es)
    BY <1>1
  <2>2. p(0) = <<>>
    BY <2>1, UpToIs DEF p
  <2> QED  BY <2>2
<1>9. ASSUME NEW k \in 0..n PROVE Len(p(k)) <= Len(p(n))
  <2>1. Len(es) \in k..Len(es)
    BY <1>1
  <2>2. PICK y \in Seq(Byte) : upTo(es, Len(es)) = upTo(es, k) \o y
    BY <2>1, Behind
  <2>3. p(n) = p(k) \o y
    BY <2>2 DEF p
  <2>4. Len(p(n)) = Len(p(k)) + Len(y) /\ Len(y) \in Nat
    BY <1>3, <2>3, InFront
  <2> QED  BY <1>3, <2>4
<1>10. ASSUME NEW k \in 0..n-1 PROVE Len(p(k)) + 2 <= Len(p(k + 1))
  <2>1. k + 1 \in 1..n /\ (k + 1) - 1 = k /\ k \in 0..n /\ k + 1 \in 0..n
    BY <1>1
  <2>2. Len(p(k + 1)) = Len(p(k)) + (Len(t[k + 1]) + 2 + more) /\ Len(t[k + 1]) \in Nat
    BY <1>5, <2>1
  <2>3. Len(p(k)) \in Nat
    BY <1>3, <2>1
  <2> QED  BY <2>2, <2>3
<1>11. \A k \in 0..n : k \in {j \in Nat : j <= Len(p(j))}
  <2> DEFINE T == {j \in Nat : j <= Len(p(j))}
  <2>1. 0 \in T
    BY <1>8
  <2>2. ASSUME NEW k \in 0..n-1, k \in T PROVE k + 1 \in T
    <3>1. k \in 0..n /\ k + 1 \in 0..n
      BY <1>1
    <3>2. Len(p(k)) \in Nat /\ Len(p(k + 1)) \in Nat /\ k \in Nat /\ k <= Len(p(k))
      BY <1>3, <2>2, <3>1
    <3>3. Len(p(k)) + 2 <= Len(p(k + 1))
      BY <1>10
    <3>4. k + 1 <= Len(p(k + 1))
      BY <3>2, <3>3
    <3> QED  BY <3>2, <3>4
  <2> HIDE DEF T
  <2>3. \A k \in 0..n : k \in T
    BY <1>1, <2>1, <2>2, UpTo
  <2> QED  BY <2>3 DEF T
<1>12. n \in 0..Len(b)
  <2>1. n <= Len(p(n)) /\ Len(p(n)) \in Nat
    BY <1>1, <1>3, <1>11
  <2> QED  BY <1>1, <1>4, <2>1
<1>13. /\ at[0] = 2
       /\ \A k \in 1..Len(b) : at[k] = at[k - 1] + 2 + Len(decodeString(Rest(b, at[k - 1]))) + more
  BY <1>4, AfterIs
<1> HIDE DEF at
<1>14. \A k \in 0..n : k \in {j \in Nat : at[j] = 2 + Len(p(j))}
  <2> DEFINE T == {j \in Nat : at[j] = 2 + Len(p(j))}
  <2>1. 0 \in T
    BY <1>8, <1>13
  <2>2. ASSUME NEW k \in 0..n-1, k \in T PROVE k + 1 \in T
    <3>1. k \in 0..n /\ k + 1 \in 1..Len(b) /\ (k + 1) - 1 = k /\ k + 1 \in Nat /\ k + 1 \in 1..n
      BY <1>1, <1>4, <1>12
    <3>2. at[k] = 2 + Len(p(k))
      BY <2>2
    <3>3. at[k + 1] = at[k] + 2 + Len(t[k + 1]) + more
      BY <1>7, <1>13, <3>1, <3>2
    <3>4. Len(p(k + 1)) = Len(p(k)) + (Len(t[k + 1]) + 2 + more) /\ Len(t[k + 1]) \in Nat
      BY <1>5, <3>1
    <3>5. Len(p(k)) \in Nat
      BY <1>3, <3>1
    <3>6. at[k + 1] = 2 + Len(p(k + 1))
      <4> DEFINE x == Len(p(k))
                 z == Len(t[k + 1])
                 w == Len(p(k + 1))
      <4> HIDE DEF x, z, w
      <4>1. x \in Nat /\ z \in Nat /\ w = x + (z + 2 + more) /\ at[k + 1] = (2 + x) + 2 + z + more
        BY <3>2, <3>3, <3>4, <3>5 DEF x, z, w
      <4>2. at[k + 1] = 2 + w
        BY <4>1
      <4> QED  BY <4>2 DEF w
    <3> QED  BY <3>1, <3>6
  <2> HIDE DEF T
  <2>3. \A k \in 0..n : k \in T
    BY <1>1, <2>1, <2>2, UpTo
  <2> QED  BY <2>3 DEF T
<1>15. at[n] = Len(b)
  BY <1>1, <1>4, <1>14
<1>16. ASSUME NEW k \in 0..n-1
       PROVE  /\ at[k] \in 0..Len(b)-1
              /\ \E y \in Seq(Byte) : Rest(b, at[k]) = encodeString(t[k + 1]) \o (tail[k + 1] \o y)
  <2>1. k \in 0..n /\ k + 1 \in 0..n
    BY <1>1
  <2>2. at[k] = 2 + Len(p(k))
    BY <1>14, <2>1
  <2>3. Len(p(k)) \in Nat /\ Len(p(k + 1)) <= Len(p(n)) /\ Len(p(k)) + 2 <= Len(p(k + 1))
        /\ Len(p(n)) \in Nat /\ Len(p(k + 1)) \in Nat
    BY <1>1, <1>3, <1>9, <1>10, <2>1
  <2>4. at[k] \in 0..Len(b)-1
    BY <1>4, <2>2, <2>3
  <2> QED  BY <1>6, <2>2, <2>4
<1> QED  BY <1>4, <1>12, <1>15, <1>16 DEF at, Found

\* A SUBSCRIBE comes back.
LEMMA SubscribeBack ==
  ASSUME NEW p \in SubscribeBody, NEW h, h.length = Len(writeSubscribe(p))
  PROVE  writeSubscribe(p) \in Seq(Byte) /\ unpackSubscribe(h, writeSubscribe(p)) = p
<1> DEFINE t == p.topics
           q == p.qoss
           u == encodeUint16(p.id)
           es == [i \in DOMAIN t |-> encodeString(t[i]) \o <<q[i]>>]
           tail == [i \in 1..Len(t) |-> <<q[i]>>]
           b == writeSubscribe(p)
           at == after(b, 1)
           n == Len(t)
<1>1. /\ p.id \in Id /\ t \in Seq(String) /\ q \in Seq(Byte) /\ Len(t) = Len(q)
      /\ p = [id |-> p.id, topics |-> t, qoss |-> q]
  BY DEF SubscribeBody
<1> HIDE DEF t, q
<1>2. /\ n \in Nat /\ DOMAIN t = 1..n /\ (\A i \in 1..n : t[i] \in String /\ q[i] \in Byte)
      /\ t = [i \in 1..n |-> t[i]] /\ q = [i \in 1..n |-> q[i]]
  BY <1>1
<1>3. u \in Seq(Byte) /\ Len(u) = 2 /\ \A y \in Seq(Byte) : decodeUint16(u \o y) = p.id
  BY <1>1, NoBytes, Uint16
<1>4. tail \in [1..n -> Seq(Byte)] /\ \A i \in 1..n : Len(tail[i]) = 1
  BY <1>2
<1>5. es \in Lists /\ Len(es) = n /\ \A i \in 1..n : es[i] = encodeString(t[i]) \o tail[i]
  <2>1. \A i \in 1..n : es[i] = encodeString(t[i]) \o tail[i]
    BY <1>2
  <2>2. ASSUME NEW i \in 1..n PROVE encodeString(t[i]) \o tail[i] \in Seq(Byte)
    <3>1. encodeString(t[i]) \in Seq(Byte) /\ tail[i] \in Seq(Byte)
      BY <1>2, <1>4, NoBytes, StringBytes
    <3> QED  BY <3>1, InFront
  <2>3. es = [i \in 1..n |-> es[i]]
    BY <1>2
  <2> HIDE DEF es, tail
  <2>4. \A i \in 1..n : es[i] \in Seq(Byte)
    BY <2>1, <2>2
  <2>5. es \in [1..n -> Seq(Byte)]
    BY <2>3, <2>4
  <2> QED  BY <1>2, <2>1, <2>5 DEF Lists
<1>6. b = u \o FlattenSeq(es)
  BY DEF writeSubscribe, t, q
<1> HIDE DEF u, es, tail, b, n
<1>7. 1 \in Nat
  OBVIOUS
<1>8. /\ b \in Seq(Byte) /\ n \in 0..Len(b) /\ at[n] = Len(b)
      /\ \A k \in 0..n-1 :
           /\ at[k] \in 0..Len(b)-1
           /\ \E y \in Seq(Byte) : Rest(b, at[k]) = encodeString(t[k + 1]) \o (tail[k + 1] \o y)
  <2>1. Joined(t, 1, tail, es, u)
    BY <1>1, <1>3, <1>4, <1>5, <1>7 DEF Joined, n
  <2>2. Found(t, 1, tail, b)
    BY <1>6, <2>1, Entries
  <2> QED  BY <2>2 DEF Found, n
<1>9. DOMAIN at = 0..Len(b)
  BY <1>7, <1>8, AfterIs
<1> HIDE DEF at
<1>10. decodeUint16(b) = p.id
  <2>1. FlattenSeq(es) \in Seq(Byte)
    BY <1>5, WholeIs
  <2> QED  BY <1>3, <1>6, <2>1
<1> DEFINE T == {k \in DOMAIN at : at[k] >= h.length}
<1>11. Min(T) = n
  <2>1. h.length = Len(b) /\ Len(b) \in Nat
    BY <1>8 DEF b
  <2>2. T \subseteq Nat /\ n \in T
    BY <1>8, <1>9, <2>1
  <2>3. Min(T) \in T /\ \A k \in T : Min(T) <= k
    <3> HIDE DEF T
    <3> QED  BY <2>2, MinIs
  <2>4. ASSUME NEW k \in 0..n-1 PROVE k \notin T
    <3>1. at[k] \in 0..Len(b)-1
      BY <1>8
    <3>2. at[k] < Len(b)
      BY <2>1, <3>1
    <3>3. ~(at[k] >= Len(b))
      <4>1. at[k] \in Int
        BY <3>1
      <4> QED  BY <2>1, <3>2, <4>1
    <3> QED  BY <2>1, <3>3
  <2>5. Min(T) \in Nat /\ Min(T) <= n
    BY <2>2, <2>3
  <2> HIDE DEF T
  <2>6. Min(T) \notin 0..n-1
    BY <2>3, <2>4
  <2> QED  BY <1>2, <2>5, <2>6
<1>12. ASSUME NEW k \in 1..n
       PROVE  /\ decodeString(Rest(b, at[k - 1])) = t[k]
              /\ decodeByte(afterString(Rest(b, at[k - 1]))) = q[k]
  <2>1. k - 1 \in 0..n-1 /\ (k - 1) + 1 = k
    BY <1>2
  <2>2. PICK y \in Seq(Byte) : Rest(b, at[k - 1]) = encodeString(t[k]) \o (tail[k] \o y)
    BY <1>8, <2>1
  <2>3. tail[k] = <<q[k]>> /\ q[k] \in Byte /\ t[k] \in String
    BY <1>2 DEF tail, n
  <2>4. <<q[k]>> \o y \in Seq(Byte) /\ decodeByte(<<q[k]>> \o y) = q[k]
    BY <2>3, OneByte
  <2> QED  BY <2>2, <2>3, <2>4, StringBytes
<1>13. unpackSubscribe(h, b) =
         [id |-> p.id, topics |-> [k \in 1..n |-> t[k]], qoss |-> [k \in 1..n |-> q[k]]]
  <2> DEFINE m == Min(T)
  <2>1. unpackSubscribe(h, b) =
          [id |-> decodeUint16(b),
           topics |-> [k \in 1..m |-> decodeString(Rest(b, at[k - 1]))],
           qoss |-> [k \in 1..m |-> decodeByte(afterString(Rest(b, at[k - 1])))]]
    BY DEF unpackSubscribe, at
  <2>2. m = n
    BY <1>11
  <2> HIDE DEF m
  <2>3. /\ [k \in 1..m |-> decodeString(Rest(b, at[k - 1]))] = [k \in 1..n |-> t[k]]
        /\ [k \in 1..m |-> decodeByte(afterString(Rest(b, at[k - 1])))] = [k \in 1..n |-> q[k]]
    BY <1>12, <2>2
  <2> QED  BY <1>10, <2>1, <2>3
<1>14. unpackSubscribe(h, b) = p
  BY <1>1, <1>2, <1>13
<1> QED  BY <1>8, <1>14 DEF b

\* An UNSUBSCRIBE comes back if no topic is empty.
LEMMA UnsubscribeBack ==
  ASSUME NEW p \in [id : Id, topics : Seq(String \ {<<>>})]
  PROVE  writeUnsubscribe(p) \in Seq(Byte) /\ unpackUnsubscribe(writeUnsubscribe(p)) = p
<1> DEFINE t == p.topics
           u == encodeUint16(p.id)
           es == [i \in DOMAIN t |-> encodeString(t[i])]
           tail == [i \in 1..Len(t) |-> <<>>]
           b == writeUnsubscribe(p)
           at == after(b, 0)
           n == Len(t)
<1>1. p.id \in Id /\ t \in Seq(String \ {<<>>}) /\ p = [id |-> p.id, topics |-> t]
  OBVIOUS
<1> HIDE DEF t
<1>2. /\ n \in Nat /\ DOMAIN t = 1..n /\ (\A i \in 1..n : t[i] \in String /\ t[i] # <<>>)
      /\ t = [i \in 1..n |-> t[i]] /\ t \in Seq(String)
  BY <1>1
<1>3. u \in Seq(Byte) /\ Len(u) = 2 /\ \A y \in Seq(Byte) : decodeUint16(u \o y) = p.id
  BY <1>1, NoBytes, Uint16
<1>4. tail \in [1..n -> Seq(Byte)] /\ \A i \in 1..n : Len(tail[i]) = 0
  BY <1>2, NoBytes
<1>5. es \in Lists /\ Len(es) = n /\ \A i \in 1..n : es[i] = encodeString(t[i]) \o tail[i]
  <2>1. ASSUME NEW i \in 1..n PROVE encodeString(t[i]) \in Seq(Byte) /\ tail[i] = <<>>
    BY <1>2, NoBytes, StringBytes
  <2>2. \A i \in 1..n : es[i] = encodeString(t[i])
    BY <1>2
  <2>3. es = [i \in 1..n |-> es[i]]
    BY <1>2
  <2> HIDE DEF es, tail
  <2>4. \A i \in 1..n : es[i] \in Seq(Byte) /\ es[i] = encodeString(t[i]) \o tail[i]
    BY <2>1, <2>2, NoBytes
  <2>5. es \in [1..n -> Seq(Byte)]
    BY <2>3, <2>4
  <2> QED  BY <1>2, <2>4, <2>5 DEF Lists
<1>6. b = u \o FlattenSeq(es)
  BY DEF writeUnsubscribe, t
<1> HIDE DEF u, es, tail, b, n
<1>7. 0 \in Nat
  OBVIOUS
<1>8. /\ b \in Seq(Byte) /\ n \in 0..Len(b) /\ at[n] = Len(b)
      /\ \A k \in 0..n-1 :
           /\ at[k] \in 0..Len(b)-1
           /\ \E y \in Seq(Byte) : Rest(b, at[k]) = encodeString(t[k + 1]) \o (tail[k + 1] \o y)
  <2>1. Joined(t, 0, tail, es, u)
    BY <1>2, <1>3, <1>4, <1>5, <1>7 DEF Joined, n
  <2>2. Found(t, 0, tail, b)
    BY <1>6, <2>1, Entries
  <2> QED  BY <2>2 DEF Found, n
<1>9. DOMAIN at = 0..Len(b)
  BY <1>7, <1>8, AfterIs
<1> HIDE DEF at
<1>10. decodeUint16(b) = p.id
  <2>1. FlattenSeq(es) \in Seq(Byte)
    BY <1>5, WholeIs
  <2> QED  BY <1>3, <1>6, <2>1
<1>11. ASSUME NEW k \in 1..n PROVE decodeString(Rest(b, at[k - 1])) = t[k]
  <2>1. k - 1 \in 0..n-1 /\ (k - 1) + 1 = k
    BY <1>2
  <2>2. PICK y \in Seq(Byte) : Rest(b, at[k - 1]) = encodeString(t[k]) \o (tail[k] \o y)
    BY <1>8, <2>1
  <2>3. tail[k] \in Seq(Byte) /\ t[k] \in String
    BY <1>2, <1>4
  <2>4. tail[k] \o y \in Seq(Byte)
    BY <2>3, InFront
  <2> QED  BY <2>2, <2>3, <2>4, StringBytes
<1> DEFINE T == {k \in DOMAIN at : decodeString(Rest(b, at[k])) = <<>>}
<1>12. Min(T) = n
  <2>1. Rest(b, at[n]) = <<>>
    BY <1>8, RestIs
  <2>2. T \subseteq Nat /\ n \in T
    BY <1>8, <1>9, <2>1, NothingRead
  <2>3. Min(T) \in T /\ \A k \in T : Min(T) <= k
    <3> HIDE DEF T
    <3> QED  BY <2>2, MinIs
  <2>4. ASSUME NEW k \in 0..n-1 PROVE k \notin T
    <3>1. k + 1 \in 1..n /\ (k + 1) - 1 = k
      BY <1>2
    <3> QED  BY <1>2, <1>11, <3>1
  <2>5. Min(T) \in Nat /\ Min(T) <= n
    BY <2>2, <2>3
  <2> HIDE DEF T
  <2>6. Min(T) \notin 0..n-1
    BY <2>3, <2>4
  <2> QED  BY <1>2, <2>5, <2>6
<1>13. unpackUnsubscribe(b) = [id |-> p.id, topics |-> [k \in 1..n |-> t[k]]]
  <2> DEFINE m == Min(T)
  <2>1. unpackUnsubscribe(b) =
          [id |-> decodeUint16(b), topics |-> [k \in 1..m |-> decodeString(Rest(b, at[k - 1]))]]
    BY DEF unpackUnsubscribe, at
  <2>2. m = n
    BY <1>12
  <2> HIDE DEF m
  <2>3. [k \in 1..m |-> decodeString(Rest(b, at[k - 1]))] = [k \in 1..n |-> t[k]]
    BY <1>11, <2>2
  <2> QED  BY <1>10, <2>1, <2>3
<1>14. unpackUnsubscribe(b) = p
  BY <1>1, <1>2, <1>13
<1> QED  BY <1>8, <1>14 DEF b

-----------------------------------------------------------------------------
(* The remaining length.                                                   *)

\* d are the digits of m, the lowest first, and w[i] is what d[i] and the digits
\* behind it are worth.
Digits(d, w, m) ==
    /\ d \in Seq(Byte) /\ Len(d) >= 1 /\ d[Len(d)] < 128
    /\ \A i \in 1..Len(d)-1 : d[i] >= 128
    /\ w \in Seq(Nat) /\ Len(w) = Len(d) /\ w[1] = m /\ w[Len(d)] = d[Len(d)] % 128
    /\ \A i \in 1..Len(d)-1 : w[i] = (d[i] % 128) + 128 * w[i + 1]

\* A number of one digit.
LEMMA OneDigit == ASSUME NEW m \in Nat, m < 128 PROVE Digits(<<m>>, <<m>>, m)
<1>1. <<m>> \in Seq(Byte) /\ Len(<<m>>) = 1 /\ <<m>>[1] = m /\ <<m>> \in Seq(Nat)
  BY DEF Byte
<1>2. m % 128 = m
  OBVIOUS
<1> QED  BY <1>1, <1>2 DEF Digits

\* One more digit in front.
LEMMA MoreDigits ==
  ASSUME NEW m \in Nat, m >= 128, NEW d, NEW w, Digits(d, w, m \div 128)
  PROVE  Digits(<<(m % 128) + 128>> \o d, <<m>> \o w, m)
<1> DEFINE c == (m % 128) + 128
           e == <<c>> \o d
           v == <<m>> \o w
           l == Len(d)
<1>1. /\ d \in Seq(Byte) /\ Len(d) >= 1 /\ d[Len(d)] < 128
      /\ \A i \in 1..Len(d)-1 : d[i] >= 128
      /\ w \in Seq(Nat) /\ Len(w) = Len(d) /\ w[1] = m \div 128 /\ w[Len(d)] = d[Len(d)] % 128
      /\ \A i \in 1..Len(d)-1 : w[i] = (d[i] % 128) + 128 * w[i + 1]
  BY DEF Digits
<1>2. c \in Byte /\ c >= 128 /\ c % 128 = m % 128 /\ m = (m % 128) + 128 * (m \div 128)
  BY DEF Byte
<1>3. l \in Nat /\ l >= 1
  BY <1>1
<1> HIDE DEF c
<1>4. e \in Seq(Byte) /\ Len(e) = l + 1 /\ e[1] = c /\ \A i \in 1..l : e[i + 1] = d[i]
  BY <1>1, <1>2
<1>5. v \in Seq(Nat) /\ Len(v) = l + 1 /\ v[1] = m /\ \A i \in 1..l : v[i + 1] = w[i]
  BY <1>1
<1> HIDE DEF e, v
<1>6. \A i \in 2..l+1 : e[i] = d[i - 1] /\ v[i] = w[i - 1]
  <2> SUFFICES ASSUME NEW i \in 2..l+1 PROVE e[i] = d[i - 1] /\ v[i] = w[i - 1]
    OBVIOUS
  <2>1. i - 1 \in 1..l /\ (i - 1) + 1 = i
    BY <1>3
  <2> QED  BY <1>4, <1>5, <2>1
<1>7. e[l + 1] = d[l] /\ v[l + 1] = w[l]
  BY <1>3, <1>6
<1>8. ASSUME NEW i \in 1..l PROVE e[i] >= 128 /\ v[i] = (e[i] % 128) + 128 * v[i + 1]
  <2>1. CASE i = 1
    <3>1. e[1] = c /\ v[1] = m /\ v[1 + 1] = w[1]
      BY <1>3, <1>4, <1>5
    <3>2. m = (c % 128) + 128 * (m \div 128)
      BY <1>2
    <3> QED  BY <1>1, <1>2, <2>1, <3>1, <3>2
  <2>2. CASE i # 1
    <3>1. i - 1 \in 1..l-1 /\ i \in 2..l+1 /\ (i - 1) + 1 = i /\ i \in 1..l
      BY <1>3, <2>2
    <3>2. e[i] = d[i - 1] /\ v[i] = w[i - 1] /\ v[i + 1] = w[i]
      BY <1>5, <1>6, <3>1
    <3>3. w[i - 1] = (d[i - 1] % 128) + 128 * w[(i - 1) + 1] /\ d[i - 1] >= 128
      BY <1>1, <3>1
    <3>4. w[i - 1] = (d[i - 1] % 128) + 128 * w[i]
      BY <3>1, <3>3
    <3> QED  BY <3>2, <3>3, <3>4
  <2> QED  BY <2>1, <2>2
<1>9. Len(e) - 1 = l
  BY <1>3, <1>4
<1>10. \A i \in 1..Len(e)-1 : e[i] >= 128 /\ v[i] = (e[i] % 128) + 128 * v[i + 1]
  BY <1>8, <1>9
<1>11. e[Len(e)] < 128 /\ v[Len(e)] = e[Len(e)] % 128
  BY <1>1, <1>4, <1>7
<1>12. Len(e) >= 1 /\ Len(v) = Len(e)
  BY <1>3, <1>4, <1>5
<1>13. Digits(e, v, m)
  BY <1>4, <1>5, <1>10, <1>11, <1>12 DEF Digits
<1> QED  BY <1>13 DEF e, v, c

\* encodeLength writes the digits.
LEMMA EncodeIs == ASSUME NEW n \in Nat PROVE \E w : Digits(encodeLength(n), w, n)
<1> DEFINE S == 0..n
           V == Seq(Byte)
           e(m, g) == IF m < 128 THEN <<m>> ELSE <<(m % 128) + 128>> \o g[m \div 128]
           rank == [m \in S |-> m]
           D == [m \in S |-> [g \in [S -> V] |-> e(m, g)]]
           Eq(g) == g = [m \in S |-> IF m < 128 THEN <<m>> ELSE <<(m % 128) + 128>> \o g[m \div 128]]
           f == CHOOSE g : Eq(g)
<1>1. \A m \in S : m >= 128 => m \div 128 \in S /\ m \div 128 < m /\ (m % 128) + 128 \in Byte
  BY DEF Byte
<1>2. D \in [S -> [[S -> V] -> V]]
  <2>1. ASSUME NEW m \in S, NEW g \in [S -> V] PROVE e(m, g) \in V
    <3>1. CASE m < 128
      BY <3>1 DEF Byte
    <3>2. CASE ~(m < 128)
      <4>1. m >= 128
        BY <3>2
      <4>2. g[m \div 128] \in V /\ (m % 128) + 128 \in Byte
        BY <1>1, <4>1
      <4> QED  BY <3>2, <4>2, OneByte
    <3> QED  BY <3>1, <3>2
  <2> HIDE DEF e
  <2> QED  BY <2>1
<1>3. rank \in [S -> 0..n]
  OBVIOUS
<1>4. LooksBelow(S, V, rank, D)
  <2> SUFFICES ASSUME NEW m \in S, NEW g \in [S -> V], NEW h \in [S -> V],
                      \A j \in S : rank[j] < rank[m] => g[j] = h[j]
               PROVE  D[m][g] = D[m][h]
    BY DEF LooksBelow
  <2>1. ~(m < 128) => g[m \div 128] = h[m \div 128]
    <3>1. ~(m < 128) => m >= 128
      OBVIOUS
    <3> QED  BY <1>1, <3>1
  <2> QED  BY <2>1
<1>5. PICK g \in [S -> V] : \A m \in S : g[m] = D[m][g]
  <2>1. <<>> \in V
    BY EmptySeq
  <2> HIDE DEF S, V, rank, D
  <2>2. Solutions(S, V, D) # {}
    BY <1>2, <1>3, <1>4, <2>1, Recursive
  <2> QED  BY <2>2 DEF Solutions
<1>6. Eq(g)
  <2>1. \A m \in S : g[m] = e(m, g)
    BY <1>5
  <2> QED  BY <2>1
<1>7. Eq(f)
  BY <1>6
<1>8. encodeLength(n) = f[n]
  BY DEF encodeLength
<1> HIDE DEF f
<1>9. \A m \in S : f[m] = e(m, f)
  BY <1>7
<1> DEFINE Bad == {m \in S : ~ \E w : Digits(f[m], w, m)}
<1>10. Bad = {}
  <2> SUFFICES ASSUME Bad # {} PROVE FALSE
    OBVIOUS
  <2>1. PICK m \in Bad : \A k \in Bad : m <= k
    <3>1. Bad \subseteq Nat
      OBVIOUS
    <3> HIDE DEF Bad
    <3> QED  BY <3>1, Least
  <2>2. m \in S /\ m \in Nat
    OBVIOUS
  <2>3. CASE m < 128
    <3>1. f[m] = <<m>>
      BY <1>9, <2>2, <2>3
    <3> QED  BY <2>2, <2>3, <3>1, OneDigit
  <2>4. CASE ~(m < 128)
    <3>1. m >= 128
      BY <2>2, <2>4
    <3>2. m \div 128 \in S /\ m \div 128 < m
      BY <1>1, <2>2, <3>1
    <3>3. m \div 128 \notin Bad
      <4> DEFINE k == m \div 128
      <4>1. k \in Int /\ k < m
        BY <3>2
      <4> HIDE DEF k, Bad
      <4>2. k \in Bad => m <= k
        BY <2>1
      <4>3. k \notin Bad
        BY <2>2, <4>1, <4>2
      <4> QED  BY <4>3 DEF k
    <3>4. PICK w : Digits(f[m \div 128], w, m \div 128)
      BY <3>2, <3>3
    <3>5. f[m] = <<(m % 128) + 128>> \o f[m \div 128]
      BY <1>9, <2>2, <2>4
    <3>6. Digits(f[m], <<m>> \o w, m)
      BY <2>2, <3>1, <3>4, <3>5, MoreDigits
    <3> QED  BY <3>6
  <2> QED  BY <2>3, <2>4
<1>11. n \in S
  OBVIOUS
<1> QED  BY <1>8, <1>10, <1>11

\* decodeLength reads them, whatever follows.
LEMMA DecodeIs ==
  ASSUME NEW d, NEW w, NEW m, Digits(d, w, m), NEW x \in Seq(Byte)
  PROVE  decodeLength(d \o x) = [spins |-> FALSE, length |-> m, rest |-> x]
<1> DEFINE b == d \o x
           ends == {i \in DOMAIN b : b[i] < 128}
           T == ends \cup {Len(b) + 1}
           k == Len(d)
           Eq(g) == g = [i \in 1..k |-> (b[i] % 128) + (IF i = k THEN 0 ELSE 128 * g[i + 1])]
           value == CHOOSE g : Eq(g)
<1>1. /\ d \in Seq(Byte) /\ Len(d) >= 1 /\ d[Len(d)] < 128
      /\ \A i \in 1..Len(d)-1 : d[i] >= 128
      /\ w \in Seq(Nat) /\ Len(w) = Len(d) /\ w[1] = m /\ w[Len(d)] = d[Len(d)] % 128
      /\ \A i \in 1..Len(d)-1 : w[i] = (d[i] % 128) + 128 * w[i + 1]
  BY DEF Digits
<1>2. b \in Seq(Byte) /\ Len(b) = k + Len(x) /\ \A i \in 1..k : b[i] = d[i]
  BY <1>1
<1>3. Rest(b, k) = x
  BY <1>1, InFront
<1>4. k \in Nat /\ k >= 1 /\ Len(x) \in Nat /\ Len(b) \in Nat
  BY <1>1, <1>2
<1>5. DOMAIN b = 1..Len(b)
  BY <1>2
<1> HIDE DEF b
<1>6. T \subseteq Nat /\ k \in T /\ k \in ends
  BY <1>1, <1>2, <1>4, <1>5
<1>7. \A i \in 1..k-1 : i \notin T
  <2> SUFFICES ASSUME NEW i \in 1..k-1, i \in T PROVE FALSE
    OBVIOUS
  <2>1. i \in 1..k /\ b[i] = d[i] /\ d[i] >= 128 /\ d[i] \in Byte
    BY <1>1, <1>2, <1>4
  <2>2. i # Len(b) + 1
    BY <1>2, <1>4
  <2>3. b[i] < 128
    BY <2>2
  <2>4. \A c \in Byte : c >= 128 => ~(c < 128)
    BY DEF Byte
  <2> HIDE DEF T, k
  <2> QED  BY <2>1, <2>3, <2>4
<1>8. Min(T) = k
  <2>1. 0 \notin T
    BY <1>4, <1>5
  <2> HIDE DEF T
  <2>2. Min(T) \in T /\ \A i \in T : Min(T) <= i
    BY <1>6, MinIs
  <2>3. Min(T) \in Nat /\ Min(T) <= k /\ Min(T) # 0
    BY <1>6, <2>1, <2>2
  <2>4. Min(T) \notin 1..k-1
    BY <1>7, <2>2
  <2> QED  BY <1>4, <2>3, <2>4
<1> DEFINE g0 == [i \in 1..k |-> w[i]]
<1>9. Eq(g0)
  <2>1. ASSUME NEW i \in 1..k PROVE w[i] = (b[i] % 128) + (IF i = k THEN 0 ELSE 128 * g0[i + 1])
    <3>1. CASE i = k
      <4>1. w[i] = b[i] % 128 /\ w[i] \in Nat
        BY <1>1, <1>2, <1>4, <3>1
      <4> QED  BY <3>1, <4>1
    <3>2. CASE i # k
      <4>1. i \in 1..k-1 /\ i + 1 \in 1..k
        BY <1>4, <3>2
      <4>2. w[i] = (b[i] % 128) + 128 * w[i + 1] /\ g0[i + 1] = w[i + 1]
        BY <1>1, <1>2, <4>1
      <4> QED  BY <3>2, <4>2
    <3> QED  BY <3>1, <3>2
  <2> QED  BY <2>1
<1>10. Eq(value)
  BY <1>9
<1> HIDE DEF value
<1>11. \A i \in 1..k : value[i] = (b[i] % 128) + (IF i = k THEN 0 ELSE 128 * value[i + 1])
  BY <1>10
<1>12. \A j \in 0..k-1 : j \in {l \in Nat : value[k - l] = w[k - l]}
  <2> DEFINE U == {l \in Nat : value[k - l] = w[k - l]}
  <2>1. 0 \in U
    <3>1. k - 0 = k /\ k \in 1..k
      BY <1>4
    <3>2. value[k] = (b[k] % 128) + 0
      BY <1>11, <3>1
    <3>3. w[k] = b[k] % 128 /\ w[k] \in Nat
      BY <1>1, <1>2, <1>4
    <3>4. value[k] = w[k]
      BY <3>2, <3>3
    <3> QED  BY <3>1, <3>4
  <2>2. ASSUME NEW j \in 0..(k-1)-1, j \in U PROVE j + 1 \in U
    <3>1. k - (j + 1) \in 1..k-1 /\ (k - (j + 1)) + 1 = k - j /\ j + 1 \in Nat
      BY <1>4
    <3> DEFINE i == k - (j + 1)
    <3>2. i \in 1..k-1 /\ i + 1 = k - j /\ i \in 1..k /\ i # k
      <4>1. i \in 1..k-1 /\ i + 1 = k - j
        BY <3>1
      <4> HIDE DEF i, k
      <4> QED  BY <1>4, <4>1
    <3>3. value[i + 1] = w[i + 1]
      BY <2>2, <3>2
    <3> HIDE DEF i
    <3>4. value[i] = (b[i] % 128) + 128 * w[i + 1]
      BY <1>11, <3>2, <3>3
    <3>5. w[i] = (b[i] % 128) + 128 * w[i + 1]
      BY <1>1, <1>2, <3>2
    <3> QED  BY <3>1, <3>4, <3>5 DEF i
  <2>3. k - 1 \in Nat
    BY <1>4
  <2> HIDE DEF U
  <2>4. \A j \in 0..k-1 : j \in U
    BY <2>1, <2>2, <2>3, UpTo
  <2> QED  BY <2>4 DEF U
<1>13. value[1] = m
  <2>1. k - 1 \in 0..k-1 /\ k - (k - 1) = 1
    BY <1>4
  <2>2. value[k - (k - 1)] = w[k - (k - 1)]
    BY <1>12, <2>1
  <2> QED  BY <1>1, <2>1, <2>2
<1>14. ends # {}
  BY <1>6
<1> DEFINE kk == Min(T)
           valueOf(q) == CHOOSE g : g = [i \in 1..q |-> (b[i] % 128) + (IF i = q THEN 0 ELSE 128 * g[i + 1])]
<1>15. decodeLength(b) = [spins |-> ends = {} /\ b # <<>>,
                         length |-> IF ends = {} THEN 0 ELSE valueOf(kk)[1],
                         rest |-> Rest(b, kk)]
  BY DEF decodeLength
<1>16. kk = k
  BY <1>8
<1>17. valueOf(k) = value
  BY DEF value
<1> HIDE DEF valueOf, kk, ends
<1>18. decodeLength(b) = [spins |-> FALSE, length |-> m, rest |-> x]
  BY <1>3, <1>13, <1>14, <1>15, <1>16, <1>17
<1> QED  BY <1>18 DEF b

\* It does not notice that there is nothing to read.
LEMMA NoLength == decodeLength(<<>>) = [spins |-> FALSE, length |-> 0, rest |-> <<>>]
<1> DEFINE ends == {i \in DOMAIN <<>> : <<>>[i] < 128}
           kk == Min(ends \cup {Len(<<>>) + 1})
           valueOf(q) == CHOOSE g : g = [i \in 1..q |-> (<<>>[i] % 128) + (IF i = q THEN 0 ELSE 128 * g[i + 1])]
<1>1. decodeLength(<<>>) = [spins |-> ends = {} /\ <<>> # <<>>,
                         length |-> IF ends = {} THEN 0 ELSE valueOf(kk)[1],
                         rest |-> Rest(<<>>, kk)]
  BY DEF decodeLength
<1>2. ends = {}
  OBVIOUS
<1>3. kk \in Nat
  <2> DEFINE T == ends \cup {Len(<<>>) + 1}
  <2>1. T \subseteq Nat /\ T # {}
    BY <1>2
  <2> HIDE DEF T
  <2>2. Min(T) \in Nat
    BY <2>1, MinIs
  <2> QED  BY <2>2 DEF T
<1> HIDE DEF kk, ends, valueOf
<1>4. \A b \in Seq(Byte) : kk >= Len(b) => Rest(b, kk) = <<>>
  BY <1>3, RestIs
<1>5. Rest(<<>>, kk) = <<>>
  <2>1. <<>> \in Seq(Byte) /\ Len(<<>>) = 0
    BY NoBytes
  <2>2. kk >= Len(<<>>)
    BY <1>3, <2>1
  <2> QED  BY <1>4, <2>1, <2>2, Zenon
<1> QED  BY <1>1, <1>2, <1>5

\* A length that breaks off is read for ever.
LEMMA LengthSpins ==
  ASSUME NEW b \in Seq(Byte), b # <<>>, \A i \in 1..Len(b) : b[i] >= 128
  PROVE  decodeLength(b).spins
<1> DEFINE ends == {i \in DOMAIN b : b[i] < 128}
           kk == Min(ends \cup {Len(b) + 1})
           valueOf(q) == CHOOSE g : g = [i \in 1..q |-> (b[i] % 128) + (IF i = q THEN 0 ELSE 128 * g[i + 1])]
<1>1. decodeLength(b) = [spins |-> ends = {} /\ b # <<>>,
                         length |-> IF ends = {} THEN 0 ELSE valueOf(kk)[1],
                         rest |-> Rest(b, kk)]
  BY DEF decodeLength
<1>2. ends = {}
  <2>1. \A i \in 1..Len(b) : b[i] \in Byte
    OBVIOUS
  <2>2. \A c \in Byte : c >= 128 => ~(c < 128)
    BY DEF Byte
  <2>3. \A i \in 1..Len(b) : ~(b[i] < 128)
    BY <2>1, <2>2, Zenon
  <2> QED  BY <2>3
<1> HIDE DEF ends, kk, valueOf
<1> DEFINE stuck == ends = {} /\ b # <<>>
           value == IF ends = {} THEN 0 ELSE valueOf(kk)[1]
<1>3. decodeLength(b) = [spins |-> stuck, length |-> value, rest |-> Rest(b, kk)]
  BY <1>1
<1>4. stuck
  BY <1>2
<1> HIDE DEF stuck, value
<1>5. decodeLength(b).spins = stuck
  <2>1. \A s, v, r : [spins |-> s, length |-> v, rest |-> r].spins = s
    OBVIOUS
  <2> QED  BY <1>3, <2>1
<1> QED  BY <1>4, <1>5

-----------------------------------------------------------------------------
(* Whole packets.                                                          *)

\* The fixed header that unpack makes of what pack wrote.
Header(p) ==
    [type |-> p.type, dup |-> p.dup, qos |-> p.qos, retain |-> p.retain, length |-> Len(body(p))]

\* The fields of a packet.
LEMMA PacketIs ==
  ASSUME NEW p, IsPacket(p)
  PROVE  /\ p = [type |-> p.type, dup |-> p.dup, qos |-> p.qos, retain |-> p.retain, body |-> p.body]
         /\ p.type \in Types /\ p.dup \in BOOLEAN /\ p.qos \in 0..3 /\ p.retain \in BOOLEAN
         /\ p.body \in Body(p.type, p.qos)
<1>1. PICK t \in Types, q \in 0..3 : p \in ControlPackets(t, q)
  BY DEF IsPacket
<1> HIDE DEF Types
<1> DEFINE B == Body(t, q)
<1>2. p \in [type : {t}, dup : BOOLEAN, qos : {q}, retain : BOOLEAN, body : B]
  BY <1>1 DEF ControlPackets
<1> HIDE DEF B
<1>3. /\ p = [type |-> p.type, dup |-> p.dup, qos |-> p.qos, retain |-> p.retain, body |-> p.body]
      /\ p.type = t /\ p.dup \in BOOLEAN /\ p.qos = q /\ p.retain \in BOOLEAN /\ p.body \in B
  BY <1>2
<1> QED  BY <1>1, <1>3 DEF B

\* The packet types, by name and by number.
LEMMA TypesAre ==
  /\ DOMAIN PacketNames = 1..14
  /\ \A t \in Types :
       \/ t \in {"CONNECT", "CONNACK", "PUBLISH", "SUBSCRIBE", "SUBACK", "UNSUBSCRIBE"}
       \/ t \in {"PUBACK", "PUBREC", "PUBREL", "PUBCOMP", "UNSUBACK"}
       \/ t \in {"PINGREQ", "PINGRESP", "DISCONNECT"}
<1>1. DOMAIN PacketNames = 1..14
  BY DEF PacketNames
<1>2. /\ PacketNames[1] = "CONNECT" /\ PacketNames[2] = "CONNACK" /\ PacketNames[3] = "PUBLISH"
      /\ PacketNames[4] = "PUBACK" /\ PacketNames[5] = "PUBREC" /\ PacketNames[6] = "PUBREL"
      /\ PacketNames[7] = "PUBCOMP" /\ PacketNames[8] = "SUBSCRIBE" /\ PacketNames[9] = "SUBACK"
      /\ PacketNames[10] = "UNSUBSCRIBE" /\ PacketNames[11] = "UNSUBACK"
      /\ PacketNames[12] = "PINGREQ" /\ PacketNames[13] = "PINGRESP" /\ PacketNames[14] = "DISCONNECT"
  BY DEF PacketNames
<1>3. ASSUME NEW t \in Types
      PROVE  \/ t \in {"CONNECT", "CONNACK", "PUBLISH", "SUBSCRIBE", "SUBACK", "UNSUBSCRIBE"}
             \/ t \in {"PUBACK", "PUBREC", "PUBREL", "PUBCOMP", "UNSUBACK"}
             \/ t \in {"PINGREQ", "PINGRESP", "DISCONNECT"}
  <2>1. PICK n \in 1..14 : t = PacketNames[n]
    BY <1>1 DEF Types
  <2>2. n \in {1, 2, 3, 4, 5, 6, 7, 8, 9, 10, 11, 12, 13, 14}
    OBVIOUS
  <2> QED  BY <1>2, <2>1, <2>2
<1> QED  BY <1>1, <1>3

\* Every body comes back.
LEMMA BodyBack ==
  ASSUME NEW p, IsPacket(p)
  PROVE  /\ body(p) \in Seq(Byte) /\ Unpack(Header(p), body(p)) = p
         /\ p.type = "PUBLISH" => payloadLength(Header(p), body(p)) >= 0
<1> DEFINE b == body(p)
           h == Header(p)
           As(x) == [type |-> p.type, dup |-> p.dup, qos |-> p.qos, retain |-> p.retain, body |-> x]
<1>1. p = As(p.body) /\ p.type \in Types /\ p.qos \in 0..3 /\ p.body \in Body(p.type, p.qos)
  BY PacketIs
<1>2. h.type = p.type /\ h.dup = p.dup /\ h.qos = p.qos /\ h.retain = p.retain /\ h.length = Len(b)
  BY DEF Header
<1> HIDE DEF h, b
<1>3. CASE p.type = "CONNECT"
  <2>1. p.body \in ConnectBody
    BY <1>1, <1>3 DEF Body, IdOnly, Bare
  <2>2. b = writeConnect(p.body)
    BY <1>3 DEF body, b, IdOnly, Bare
  <2>3. Unpack(h, b) = As(unpackConnect(b))
    BY <1>2, <1>3 DEF Unpack, IdOnly, Bare
  <2>4. b \in Seq(Byte) /\ unpackConnect(b) = p.body
    BY <2>1, <2>2, ConnectBack
  <2> QED  BY <1>1, <1>3, <2>3, <2>4 DEF h, b
<1>4. CASE p.type = "CONNACK"
  <2>1. p.body \in [compression : Byte, code : Byte]
    BY <1>1, <1>4 DEF Body, IdOnly, Bare
  <2>2. b = writeConnack(p.body)
    BY <1>4 DEF body, b, IdOnly, Bare
  <2>3. Unpack(h, b) = As(unpackConnack(b))
    BY <1>2, <1>4 DEF Unpack, IdOnly, Bare
  <2>4. b \in Seq(Byte) /\ unpackConnack(b) = p.body
    BY <2>1, <2>2, ConnackBack
  <2> QED  BY <1>1, <1>4, <2>3, <2>4 DEF h, b
<1>5. CASE p.type = "PUBLISH"
  <2>1. p.body \in PublishBody(p.qos)
    BY <1>1, <1>5 DEF Body, IdOnly, Bare
  <2>2. b = writePublish(p.qos, p.body)
    BY <1>5 DEF body, b, IdOnly, Bare
  <2>3. Unpack(h, b) = As(unpackPublish(h, b))
    BY <1>2, <1>5 DEF Unpack, IdOnly, Bare
  <2>4. b \in Seq(Byte) /\ unpackPublish(h, b) = p.body /\ payloadLength(h, b) >= 0
    BY <1>1, <1>2, <2>1, <2>2, PublishBack
  <2> QED  BY <1>1, <2>3, <2>4 DEF h, b
<1>6. CASE p.type = "SUBSCRIBE"
  <2>1. p.body \in SubscribeBody
    BY <1>1, <1>6 DEF Body, IdOnly, Bare
  <2>2. b = writeSubscribe(p.body)
    BY <1>6 DEF body, b, IdOnly, Bare
  <2>3. Unpack(h, b) = As(unpackSubscribe(h, b))
    BY <1>2, <1>6 DEF Unpack, IdOnly, Bare
  <2>4. b \in Seq(Byte) /\ unpackSubscribe(h, b) = p.body
    BY <1>2, <2>1, <2>2, SubscribeBack
  <2> QED  BY <1>1, <1>6, <2>3, <2>4 DEF h, b
<1>7. CASE p.type = "SUBACK"
  <2>1. p.body \in [id : Id, granted : Seq(Byte)]
    BY <1>1, <1>7 DEF Body, IdOnly, Bare
  <2>2. b = writeSuback(p.body)
    BY <1>7 DEF body, b, IdOnly, Bare
  <2>3. Unpack(h, b) = As(unpackSuback(b))
    BY <1>2, <1>7 DEF Unpack, IdOnly, Bare
  <2>4. b \in Seq(Byte) /\ unpackSuback(b) = p.body
    BY <2>1, <2>2, SubackBack
  <2> QED  BY <1>1, <1>7, <2>3, <2>4 DEF h, b
<1>8. CASE p.type = "UNSUBSCRIBE"
  <2>1. p.body \in [id : Id, topics : Seq(String \ {<<>>})]
    BY <1>1, <1>8 DEF Body, IdOnly, Bare
  <2>2. b = writeUnsubscribe(p.body)
    BY <1>8 DEF body, b, IdOnly, Bare
  <2>3. Unpack(h, b) = As(unpackUnsubscribe(b))
    BY <1>2, <1>8 DEF Unpack, IdOnly, Bare
  <2>4. b \in Seq(Byte) /\ unpackUnsubscribe(b) = p.body
    BY <2>1, <2>2, UnsubscribeBack
  <2> QED  BY <1>1, <1>8, <2>3, <2>4 DEF h, b
<1>9. CASE p.type \in {"PUBACK", "PUBREC", "PUBREL", "PUBCOMP", "UNSUBACK"}
  <2>1. p.body \in [id : Id]
    BY <1>1, <1>9 DEF Body, IdOnly, Bare
  <2>2. b = encodeUint16(p.body.id)
    BY <1>9 DEF body, b, IdOnly, Bare
  <2>3. Unpack(h, b) = As([id |-> decodeUint16(b)])
    BY <1>2, <1>9
    DEF Unpack, Bare, unpackPuback, unpackPubrec, unpackPubrel, unpackPubcomp, unpackUnsuback
  <2>4. b \in Seq(Byte) /\ [id |-> decodeUint16(b)] = p.body
    BY <2>1, <2>2, IdBack
  <2> QED  BY <1>1, <1>9, <2>3, <2>4 DEF h, b
<1>10. CASE p.type \in {"PINGREQ", "PINGRESP", "DISCONNECT"}
  <2>1. p.body = <<>>
    BY <1>1, <1>10 DEF Body, IdOnly, Bare
  <2>2. b = <<>>
    BY <1>10 DEF body, b, IdOnly, Bare
  <2>3. Unpack(h, b) = As(<<>>)
    BY <1>2, <1>10 DEF Unpack, IdOnly, Bare
  <2> QED  BY <1>1, <1>10, <2>1, <2>2, <2>3, NoBytes DEF h, b
<1> QED  BY <1>1, <1>3, <1>4, <1>5, <1>6, <1>7, <1>8, <1>9, <1>10, TypesAre

\* The first byte of a packet, and the fixed header that is read from it.
firstByte(p) ==
    16 * (CHOOSE n \in DOMAIN PacketNames : PacketNames[n] = p.type) + 8 * boolToByte(p.dup)
    + 2 * p.qos + boolToByte(p.retain)

\* The header that is read is the one that was written, but for the length.
LEMMA FirstBack ==
  ASSUME NEW p, IsPacket(p), NEW b
  PROVE  /\ firstByte(p) \in Byte
         /\ unpack(firstByte(p), b) = [type |-> p.type, dup |-> p.dup, qos |-> p.qos,
                                      retain |-> p.retain, length |-> decodeLength(b).length]
<1> DEFINE n == CHOOSE n \in DOMAIN PacketNames : PacketNames[n] = p.type
           c == firstByte(p)
           d == boolToByte(p.dup)
           r == boolToByte(p.retain)
           l == decodeLength(b).length
<1>1. p.type \in Types /\ p.dup \in BOOLEAN /\ p.qos \in 0..3 /\ p.retain \in BOOLEAN
  BY PacketIs
<1>2. n \in DOMAIN PacketNames /\ PacketNames[n] = p.type
  <2>1. \E m \in DOMAIN PacketNames : PacketNames[m] = p.type
    BY <1>1 DEF Types
  <2> HIDE DEF Types
  <2> QED  BY <2>1
<1>3. n \in 1..14
  BY <1>2, TypesAre
<1>4. d \in 0..1 /\ (d = 1 <=> p.dup) /\ r \in 0..1 /\ (r = 1 <=> p.retain)
  BY <1>1, FlagByte
<1>5. c = 16 * n + 8 * d + 2 * p.qos + r
  BY DEF firstByte
<1> HIDE DEF n, c, d, r, l
<1>6. c \in Byte /\ c \div 16 = n /\ bit(c, 8) = p.dup /\ (c \div 2) % 4 = p.qos /\ bit(c, 1) = p.retain
  <2> DEFINE q == p.qos
  <2>1. n \in 1..14 /\ d \in 0..1 /\ q \in 0..3 /\ r \in 0..1 /\ c = 16 * n + 8 * d + 2 * q + r
    BY <1>1, <1>3, <1>4, <1>5
  <2> HIDE DEF q
  <2>2. /\ c \in Byte /\ c \div 16 = n /\ (bit(c, 8) <=> d = 1) /\ (c \div 2) % 4 = q
        /\ (bit(c, 1) <=> r = 1)
    BY <2>1 DEF bit, Byte
  <2>3. bit(c, 8) \in BOOLEAN /\ bit(c, 1) \in BOOLEAN
    BY DEF bit
  <2> QED  BY <1>1, <1>4, <2>2, <2>3 DEF q
<1>7. unpack(c, b) = [type |-> IF c \div 16 \in DOMAIN PacketNames THEN PacketNames[c \div 16] ELSE "none",
                      dup |-> bit(c, 8), qos |-> (c \div 2) % 4, retain |-> bit(c, 1), length |-> l]
  BY DEF unpack, l
<1>8. unpack(c, b) = [type |-> p.type, dup |-> p.dup, qos |-> p.qos, retain |-> p.retain, length |-> l]
  BY <1>2, <1>6, <1>7
<1> QED  BY <1>6, <1>8 DEF c, l

\* The bytes of a packet: the first one, the digits of the length, the body.
LEMMA WrittenIs ==
  ASSUME NEW p, IsPacket(p)
  PROVE  /\ written(p) = (<<firstByte(p)>> \o encodeLength(Len(body(p)))) \o body(p)
         /\ firstByte(p) \in Byte /\ body(p) \in Seq(Byte)
         /\ \E w : Digits(encodeLength(Len(body(p))), w, Len(body(p)))
<1> DEFINE n == Len(body(p))
           d == encodeLength(n)
<1>1. body(p) \in Seq(Byte)
  BY BodyBack
<1>2. n \in Nat
  BY <1>1
<1>3. PICK w : Digits(d, w, n)
  <2> HIDE DEF n
  <2> QED  BY <1>2, EncodeIs
<1>4. firstByte(p) \in Byte
  BY FirstBack
<1>5. written(p) = (<<firstByte(p)>> \o encodeLength(Len(body(p)))) \o body(p)
  BY DEF written, pack, firstByte
<1> QED  BY <1>1, <1>3, <1>4, <1>5

-----------------------------------------------------------------------------
(* ReadPacket.                                                             *)

\* What ReadPacket does with a first byte c and what follows it.
LEMMA ReadIs ==
  ASSUME NEW c \in Byte, NEW x \in Seq(Byte), NEW len, len = decodeLength(x),
         NEW h, h = unpack(c, x)
  PROVE  ReadPacket(<<c>> \o x) =
           IF len.spins THEN [is |-> "spins"]
           ELSE IF h.type = "none" THEN [is |-> "error"]
           ELSE IF Len(len.rest) < h.length THEN [is |-> "error"]
           ELSE LET buffer == SubSeq(len.rest, 1, h.length)
                IN  IF h.type = "PUBLISH" /\ payloadLength(h, buffer) < 0 THEN [is |-> "panics"]
                    ELSE [is |-> "packet", packet |-> Unpack(h, buffer),
                          rest |-> Rest(len.rest, h.length)]
<1> DEFINE b == <<c>> \o x
<1>1. b[1] = c /\ Rest(b, 1) = x /\ Len(b) = Len(x) + 1
  BY OneByte
<1>2. b # <<>>
  BY <1>1
<1> HIDE DEF b
<1>3. decodeLength(Rest(b, 1)) = len /\ unpack(b[1], Rest(b, 1)) = h
  BY <1>1
<1>4. ReadPacket(b) =
           IF len.spins THEN [is |-> "spins"]
           ELSE IF h.type = "none" THEN [is |-> "error"]
           ELSE IF Len(len.rest) < h.length THEN [is |-> "error"]
           ELSE LET buffer == SubSeq(len.rest, 1, h.length)
                IN  IF h.type = "PUBLISH" /\ payloadLength(h, buffer) < 0 THEN [is |-> "panics"]
                    ELSE [is |-> "packet", packet |-> Unpack(h, buffer),
                          rest |-> Rest(len.rest, h.length)]
  BY <1>2, <1>3 DEF ReadPacket
<1> QED  BY <1>4 DEF b
\* A packet that arrived whole is read as it was written, in every field, whatever
\* its type and whatever follows it.
THEOREM WrittenIsRead ==
  ASSUME NEW p, IsPacket(p), NEW y \in Seq(Byte)
  PROVE  ReadPacket(written(p) \o y) = [is |-> "packet", packet |-> p, rest |-> y]
<1> DEFINE b == body(p)
           n == Len(b)
           d == encodeLength(n)
           c == firstByte(p)
           z == b \o y
           x == d \o z
           len == decodeLength(x)
           h == unpack(c, x)
<1>1. written(p) = (<<c>> \o d) \o b /\ c \in Byte /\ b \in Seq(Byte)
  BY WrittenIs
<1>2. PICK w : Digits(d, w, n)
  BY WrittenIs
<1>3. d \in Seq(Byte) /\ <<c>> \in Seq(Byte) /\ n \in Nat
  <2>1. d \in Seq(Byte)
    BY <1>2 DEF Digits
  <2> HIDE DEF d, c
  <2> QED  BY <1>1, <2>1
<1>4. Unpack(Header(p), b) = p /\ (p.type = "PUBLISH" => payloadLength(Header(p), b) >= 0)
  BY BodyBack
<1>5. unpack(c, x) = [type |-> p.type, dup |-> p.dup, qos |-> p.qos, retain |-> p.retain, length |-> len.length]
  BY FirstBack
<1>6. p.type \in Types
  BY PacketIs
<1>7. p.type # "none"
  BY <1>6, TypesAre
<1>8. z \in Seq(Byte) /\ Len(z) = n + Len(y) /\ SubSeq(z, 1, n) = b /\ Rest(z, n) = y
  <2> HIDE DEF b
  <2> QED  BY <1>1, InFront
<1> HIDE DEF b, d, c, z
<1>9. len = [spins |-> FALSE, length |-> n, rest |-> z]
  <2> HIDE DEF n
  <2> QED  BY <1>2, <1>8, DecodeIs
<1>10. written(p) \o y = <<c>> \o x
  <2> DEFINE a == <<c>>
  <2>1. a \in Seq(Byte)
    BY <1>3
  <2> HIDE DEF a
  <2>2. Cat(Cat(Cat(a, d), b), y) = Cat(Cat(a, d), Cat(b, y)) /\ Cat(b, y) \in Seq(Byte)
    <3>1. Cat(a, d) \in Seq(Byte)
      BY <1>3, <2>1, CatType
    <3> QED  BY <1>1, <3>1, CatAssoc, CatType
  <2>3. Cat(Cat(a, d), Cat(b, y)) = Cat(a, Cat(d, Cat(b, y)))
    BY <1>3, <2>1, <2>2, CatAssoc
  <2>4. written(p) = Cat(Cat(a, d), b)
    BY <1>1 DEF Cat, a
  <2>5. written(p) \o y = Cat(a, Cat(d, Cat(b, y)))
    BY <2>2, <2>3, <2>4 DEF Cat
  <2> QED  BY <2>5 DEF Cat, a, z
<1>11. x \in Seq(Byte)
  BY <1>3, <1>8, InFront
<1>12. h = Header(p)
  BY <1>5, <1>9 DEF Header, n, b
<1> HIDE DEF x, n
<1>13. Len(y) \in Nat
  OBVIOUS
<1>14. Header(p).type = p.type /\ Header(p).length = n
  BY DEF Header, n, b
<1> DEFINE buffer == SubSeq(len.rest, 1, h.length)
<1>15. ReadPacket(<<c>> \o x) =
           IF len.spins THEN [is |-> "spins"]
           ELSE IF h.type = "none" THEN [is |-> "error"]
           ELSE IF Len(len.rest) < h.length THEN [is |-> "error"]
           ELSE IF h.type = "PUBLISH" /\ payloadLength(h, buffer) < 0 THEN [is |-> "panics"]
                ELSE [is |-> "packet", packet |-> Unpack(h, buffer), rest |-> Rest(len.rest, h.length)]
  <2>1. c \in Byte
    BY <1>1
  <2> QED  BY <1>11, <2>1, ReadIs
<1> HIDE DEF len, h
<1>16. buffer = b /\ len.rest = z /\ h.length = n /\ h.type = p.type /\ ~len.spins
  BY <1>8, <1>9, <1>12, <1>14
<1> HIDE DEF buffer
<1>17. ~(Len(len.rest) < h.length)
  BY <1>3, <1>8, <1>13, <1>16
<1>18. ~(h.type = "PUBLISH" /\ payloadLength(h, buffer) < 0)
  <2>1. h.type = "PUBLISH" => payloadLength(h, buffer) >= 0
    BY <1>4, <1>12, <1>16
  <2>2. h.type = "PUBLISH" => payloadLength(h, buffer) \in Int
    <3>1. h.qos = p.qos /\ Len(decodeString(b)) \in Nat
      BY <1>1, <1>12, DecodeType DEF Header
    <3> QED  BY <1>3, <1>16, <3>1 DEF payloadLength
  <2> DEFINE e == payloadLength(h, buffer)
  <2> HIDE DEF e
  <2> QED  BY <2>1, <2>2 DEF e
<1>19. Unpack(h, buffer) = p /\ Rest(len.rest, h.length) = y
  BY <1>4, <1>8, <1>12, <1>16
<1>20. ReadPacket(<<c>> \o x) = [is |-> "packet", packet |-> p, rest |-> y]
  BY <1>7, <1>15, <1>16, <1>17, <1>18, <1>19
<1> QED  BY <1>10, <1>20

-----------------------------------------------------------------------------
(* Packets that break off.                                                 *)

\* The first bytes of two sequences.
LEMMA PrefixIs ==
  ASSUME NEW a \in Seq(Byte), NEW b \in Seq(Byte), NEW j \in 0..Len(a)+Len(b)
  PROVE  /\ SubSeq(a \o b, 1, j) \in Seq(Byte) /\ Len(SubSeq(a \o b, 1, j)) = j
         /\ j <= Len(a) => SubSeq(a \o b, 1, j) = SubSeq(a, 1, j)
         /\ j >= Len(a) => SubSeq(a \o b, 1, j) = a \o SubSeq(b, 1, j - Len(a))
<1> DEFINE s == a \o b
           f == SubSeq(s, 1, j)
           k == Len(a)
<1>1. /\ s \in Seq(Byte) /\ Len(s) = k + Len(b) /\ (\A i \in 1..k : s[i] = a[i])
      /\ \A i \in 1..Len(b) : s[k + i] = b[i]
  OBVIOUS
<1>2. k \in Nat /\ Len(b) \in Nat
  OBVIOUS
<1> HIDE DEF s
<1>3. f \in Seq(Byte) /\ Len(f) = j /\ \A i \in 1..j : f[i] = s[i]
  <2>1. \A i \in 1..j : s[i] \in Byte
    BY <1>1, <1>2
  <2> QED  BY <1>1, <1>2, <2>1
<1> HIDE DEF f
<1>4. ASSUME j <= k PROVE f = SubSeq(a, 1, j)
  <2> DEFINE g == SubSeq(a, 1, j)
  <2>1. g \in Seq(Byte) /\ Len(g) = j /\ \A i \in 1..j : g[i] = a[i]
    <3>1. \A i \in 1..j : a[i] \in Byte
      BY <1>2, <1>4
    <3> QED  BY <1>2, <1>4, <3>1
  <2> HIDE DEF g
  <2>2. \A i \in 1..j : f[i] = g[i]
    BY <1>1, <1>2, <1>3, <1>4, <2>1
  <2>3. f = g
    BY <1>3, <2>1, <2>2, SeqEqual
  <2> QED  BY <2>3 DEF g
<1>5. ASSUME j >= k PROVE f = a \o SubSeq(b, 1, j - k)
  <2> DEFINE e == SubSeq(b, 1, j - k)
             g == a \o e
             m == j - k
  <2>1. m \in 0..Len(b)
    BY <1>2, <1>5
  <2>2. e \in Seq(Byte) /\ Len(e) = m /\ \A i \in 1..m : e[i] = b[i]
    <3>1. \A i \in 1..m : b[i] \in Byte
      BY <1>2, <2>1
    <3> QED  BY <1>2, <2>1, <3>1
  <2> HIDE DEF e
  <2>3. g \in Seq(Byte) /\ Len(g) = j /\ (\A i \in 1..k : g[i] = a[i]) /\ \A i \in 1..m : g[k + i] = e[i]
    <3>1. g \in Seq(Byte) /\ Len(g) = k + Len(e) /\ (\A i \in 1..k : g[i] = a[i]) /\ \A i \in 1..Len(e) : g[k + i] = e[i]
      BY <2>2
    <3> HIDE DEF g
    <3> QED  BY <1>2, <1>5, <2>2, <3>1
  <2> HIDE DEF g
  <2>4. ASSUME NEW i \in 1..j PROVE f[i] = g[i]
    <3>1. CASE i <= k
      <4>1. i \in 1..k
        BY <1>2, <3>1
      <4> QED  BY <1>1, <1>3, <2>3, <4>1
    <3>2. CASE i > k
      <4> DEFINE l == i - k
      <4>1. l \in 1..m /\ l \in 1..Len(b) /\ k + l = i
        BY <1>2, <2>1, <3>2
      <4> HIDE DEF l
      <4>2. s[k + l] = b[l] /\ g[k + l] = e[l] /\ e[l] = b[l]
        BY <1>1, <2>2, <2>3, <4>1
      <4> QED  BY <1>3, <4>1, <4>2
    <3> QED  BY <1>2, <3>1, <3>2
  <2>5. f = g
    BY <1>3, <2>3, <2>4, SeqEqual
  <2> QED  BY <2>5 DEF g, e
<1> QED  BY <1>3, <1>4, <1>5 DEF f, s

\* What ReadPacket makes of the first j bytes of a packet that breaks off: an error
\* only if there are none or the whole length is there.  After one byte it panics on a
\* PUBLISH and takes any other for a packet; inside the length it never returns.
THEOREM BrokenIsMisread ==
  ASSUME NEW p, IsPacket(p), NEW j \in 0..Len(written(p))-1, NEW r,
         r = ReadPacket(SubSeq(written(p), 1, j))
  PROVE  /\ j = 0 => r.is = "error"
         /\ j = 1 /\ p.type = "PUBLISH" => r.is = "panics"
         /\ j = 1 /\ p.type # "PUBLISH" => r.is = "packet" /\ r.rest = <<>>
         /\ j \in 2..Len(encodeLength(Len(body(p)))) => r.is = "spins"
         /\ j > 1 /\ j > Len(encodeLength(Len(body(p)))) => r.is = "error"
<1> DEFINE b == body(p)
           n == Len(b)
           d == encodeLength(n)
           l == Len(d)
           c == firstByte(p)
           a == <<c>> \o d
           cut == SubSeq(written(p), 1, j)
<1>1. written(p) = a \o b /\ c \in Byte /\ b \in Seq(Byte)
  BY WrittenIs
<1>2. PICK w : Digits(d, w, n)
  BY WrittenIs
<1>3. /\ d \in Seq(Byte) /\ Len(d) >= 1 /\ \A i \in 1..Len(d)-1 : d[i] >= 128
  BY <1>2 DEF Digits
<1>4. n \in Nat /\ l \in Nat
  <2> HIDE DEF d, b
  <2> QED  BY <1>1, <1>3
<1>5. p.type \in Types /\ p.type # "none"
  BY PacketIs, TypesAre
<1> HIDE DEF b, d, c
<1>6. a \in Seq(Byte) /\ Len(a) = l + 1 /\ <<c>> \in Seq(Byte) /\ Len(<<c>>) = 1
  <2>1. a \in Seq(Byte) /\ Len(a) = Len(d) + 1
    BY <1>1, <1>3, OneByte
  <2> QED  BY <1>1, <2>1
<1>7. written(p) \in Seq(Byte) /\ Len(written(p)) = (l + 1) + n
  <2> HIDE DEF a
  <2>1. Len(a \o b) = Len(a) + Len(b) /\ a \o b \in Seq(Byte)
    BY <1>1, <1>6, InFront
  <2> QED  BY <1>1, <1>6, <2>1
<1>8. j \in Nat /\ j < (l + 1) + n
  BY <1>4, <1>7
<1>9. \A x \in Seq(Byte) :
        /\ decodeLength(x).spins => ReadPacket(<<c>> \o x).is = "spins"
        /\ ~decodeLength(x).spins /\ Len(decodeLength(x).rest) < decodeLength(x).length =>
             ReadPacket(<<c>> \o x).is = "error"
  <2> SUFFICES ASSUME NEW x \in Seq(Byte)
               PROVE  /\ decodeLength(x).spins => ReadPacket(<<c>> \o x).is = "spins"
                      /\ ~decodeLength(x).spins /\ Len(decodeLength(x).rest) < decodeLength(x).length =>
                           ReadPacket(<<c>> \o x).is = "error"
    OBVIOUS
  <2> DEFINE len == decodeLength(x)
             h == unpack(c, x)
             R == ReadPacket(<<c>> \o x)
             got == LET buffer == SubSeq(len.rest, 1, h.length)
                    IN  IF h.type = "PUBLISH" /\ payloadLength(h, buffer) < 0 THEN [is |-> "panics"]
                        ELSE [is |-> "packet", packet |-> Unpack(h, buffer), rest |-> Rest(len.rest, h.length)]
  <2>1. h = [type |-> p.type, dup |-> p.dup, qos |-> p.qos, retain |-> p.retain, length |-> len.length]
    BY FirstBack DEF c
  <2>2. h.type = p.type /\ h.length = len.length
    BY <2>1
  <2>3. R = IF len.spins THEN [is |-> "spins"]
            ELSE IF h.type = "none" THEN [is |-> "error"]
            ELSE IF Len(len.rest) < h.length THEN [is |-> "error"] ELSE got
    BY <1>1, ReadIs
  <2> HIDE DEF len, h, R, got
  <2>4. len.spins => R.is = "spins"
    BY <2>3
  <2>5. ~len.spins /\ Len(len.rest) < len.length => R.is = "error"
    BY <1>5, <2>2, <2>3
  <2> QED  BY <2>4, <2>5 DEF len, R
<1>10. CASE j = 0
  <2>1. cut \in Seq(Byte) /\ Len(cut) = 0
    BY <1>1, <1>4, <1>6, <1>10, PrefixIs
  <2>2. cut = <<>>
    BY <2>1, EmptySeq
  <2>3. r = [is |-> "error"]
    BY <2>2 DEF ReadPacket
  <2> QED  BY <1>10, <2>3
<1>11. CASE j >= 1 /\ j <= l
  <2> DEFINE x == SubSeq(d, 1, j - 1)
  <2>1. cut = SubSeq(a, 1, j)
    <3>1. j \in 0..Len(a)+Len(b) /\ j <= Len(a)
      BY <1>4, <1>6, <1>8, <1>11
    <3> HIDE DEF a, n, l
    <3> QED  BY <1>1, <1>6, <3>1, PrefixIs
  <2>2. SubSeq(a, 1, j) = <<c>> \o x
    <3>1. j \in 0..Len(<<c>>)+Len(d) /\ j >= Len(<<c>>)
      BY <1>4, <1>6, <1>11
    <3>2. j - Len(<<c>>) = j - 1
      BY <1>6
    <3> QED  BY <1>3, <1>6, <3>1, <3>2, PrefixIs
  <2>3. x \in Seq(Byte) /\ Len(x) = j - 1 /\ \A i \in 1..j-1 : x[i] = d[i]
    <3>1. \A i \in 1..j-1 : d[i] \in Byte
      BY <1>3, <1>4, <1>11
    <3> QED  BY <1>3, <1>4, <1>11, <3>1
  <2> HIDE DEF x
  <2>4. r = ReadPacket(<<c>> \o x)
    BY <2>1, <2>2
  <2>5. ASSUME j > 1 PROVE r.is = "spins"
    <3>1. \A i \in 1..Len(x) : x[i] >= 128
      <4>1. \A i \in 1..j-1 : i \in 1..l-1
        BY <1>4, <1>11
      <4> QED  BY <1>3, <2>3, <4>1
    <3>2. x # <<>>
      <4>1. Len(x) # 0
        BY <1>8, <2>3, <2>5
      <4> QED  BY <4>1
    <3>3. decodeLength(x).spins
      BY <2>3, <3>1, <3>2, LengthSpins
    <3> QED  BY <1>9, <2>3, <2>4, <3>3
  <2>6. ASSUME j = 1 PROVE /\ p.type = "PUBLISH" => r.is = "panics"
                           /\ p.type # "PUBLISH" => r.is = "packet" /\ r.rest = <<>>
    <3>1. x = <<>>
      <4>1. Len(x) = 0
        BY <2>3, <2>6
      <4> QED  BY <2>3, <4>1, EmptySeq
    <3> DEFINE len == decodeLength(x)
               h == unpack(c, x)
               buffer == SubSeq(len.rest, 1, h.length)
               Rd == ReadPacket(<<c>> \o x)
    <3>2. len = [spins |-> FALSE, length |-> 0, rest |-> <<>>]
      BY <3>1, NoLength
    <3>3. h = [type |-> p.type, dup |-> p.dup, qos |-> p.qos, retain |-> p.retain, length |-> len.length]
      BY FirstBack DEF c
    <3>4. Rd =
           IF len.spins THEN [is |-> "spins"]
           ELSE IF h.type = "none" THEN [is |-> "error"]
           ELSE IF Len(len.rest) < h.length THEN [is |-> "error"]
           ELSE IF h.type = "PUBLISH" /\ payloadLength(h, buffer) < 0 THEN [is |-> "panics"]
                ELSE [is |-> "packet", packet |-> Unpack(h, buffer), rest |-> Rest(len.rest, h.length)]
      BY <1>1, <2>3, ReadIs
    <3> HIDE DEF len, h, Rd
    <3>5. len.rest = <<>> /\ ~len.spins /\ h.length = 0 /\ h.type = p.type /\ h.qos = p.qos
      BY <3>2, <3>3
    <3>6. ~(Len(len.rest) < h.length)
      BY <3>5
    <3>7. buffer = <<>>
      BY <3>5
    <3>8. Rest(len.rest, h.length) = <<>>
      BY <3>5 DEF Rest
    <3> HIDE DEF buffer
    <3>9. payloadLength(h, buffer) < 0
      BY <3>5, <3>7, NothingRead DEF payloadLength
    <3>10. CASE p.type = "PUBLISH"
      <4>1. Rd = [is |-> "panics"]
        BY <3>4, <3>5, <3>6, <3>9, <3>10
      <4> QED  BY <2>4, <3>10, <4>1 DEF Rd
    <3>11. CASE p.type # "PUBLISH"
      <4>1. Rd = [is |-> "packet", packet |-> Unpack(h, buffer), rest |-> <<>>]
        BY <1>5, <3>4, <3>5, <3>6, <3>8, <3>11
      <4> QED  BY <2>4, <3>11, <4>1 DEF Rd
    <3> QED  BY <3>10, <3>11
  <2>7. j = 1 \/ j > 1
    BY <1>8, <1>11
  <2>8. ~(j = 0) /\ ~(j > l)
    BY <1>4, <1>8, <1>11
  <2> QED  BY <2>5, <2>6, <2>7, <2>8 DEF l, d, n, b
<1>12. CASE j > l
  <2> DEFINE m == j - (l + 1)
             y == SubSeq(b, 1, m)
             x == d \o y
  <2>1. m \in 0..n-1 /\ j >= l + 1
    BY <1>4, <1>8, <1>12
  <2>2. cut = a \o y
    <3>1. j \in 0..Len(a)+Len(b) /\ j >= Len(a) /\ j - Len(a) = m
      BY <1>4, <1>6, <1>8, <2>1
    <3> HIDE DEF a, n, l, m
    <3>2. SubSeq(a \o b, 1, j) = a \o SubSeq(b, 1, j - Len(a))
      BY <1>1, <1>6, <3>1, PrefixIs
    <3> QED  BY <1>1, <3>1, <3>2
  <2>3. y \in Seq(Byte) /\ Len(y) = m
    <3>1. \A i \in 1..m : b[i] \in Byte
      BY <1>1, <1>4, <2>1
    <3> HIDE DEF m
    <3> QED  BY <1>1, <1>4, <2>1, <3>1
  <2> HIDE DEF y, m
  <2>4. cut = <<c>> \o x /\ x \in Seq(Byte)
    <3> DEFINE e == <<c>>
    <3>1. e \in Seq(Byte)
      BY <1>6
    <3> HIDE DEF e
    <3>2. (e \o d) \o y = e \o (d \o y) /\ d \o y \in Seq(Byte)
      BY <1>3, <2>3, <3>1, Assoc
    <3> QED  BY <2>2, <3>2 DEF e
  <2>5. decodeLength(x) = [spins |-> FALSE, length |-> n, rest |-> y]
    <3> HIDE DEF n
    <3> QED  BY <1>2, <2>3, DecodeIs
  <2> HIDE DEF x
  <2>6. ~decodeLength(x).spins /\ Len(decodeLength(x).rest) < decodeLength(x).length
    <3>1. Len(y) < n
      BY <1>4, <2>1, <2>3
    <3> QED  BY <2>5, <3>1
  <2>7. r.is = "error"
    BY <1>9, <2>4, <2>6
  <2>8. j # 0 /\ j # 1 /\ j \notin 2..l
    BY <1>3, <1>4, <1>8, <1>12
  <2> QED  BY <2>7, <2>8 DEF l, d, n, b
<1> QED  BY <1>4, <1>8, <1>10, <1>11, <1>12

-----------------------------------------------------------------------------
(* The stream.                                                             *)

\* What was read so far: the first k packets as they were sent, and what is unread
\* are the bytes behind them; or all that arrived and one more packet, which has only
\* its first byte.
PacketInv ==
    /\ sent \in Streams /\ broken \in 0..Len(Stream(sent))
    /\ \/ \E k \in 0..Arrived :
            /\ read = SubSeq(sent, 1, k)
            /\ unread \in Seq(Byte)
            /\ Stream(SubSeq(sent, 1, k)) \o unread = SubSeq(Stream(sent), 1, broken)
            /\ ended # "no" => k = Arrived
       \/ /\ read = Append(SubSeq(sent, 1, Arrived), read[Len(read)])
          /\ unread = <<>> /\ Over = 1 /\ Arrived < Len(sent)
          /\ sent[Arrived + 1].type # "PUBLISH"
    /\ ended = "error" => Over = 0 \/ Over > LengthBytes \/ Len(read) > Arrived
    /\ ended = "panics" => Over = 1 /\ sent[Arrived + 1].type = "PUBLISH"
    /\ ended = "spins" => Over \in 2..LengthBytes

\* The packets of a stream as sequences of bytes.
Wires(ps) == [i \in DOMAIN ps |-> written(ps[i])]

\* They are what Stream joins.
LEMMA StreamIs ==
  ASSUME NEW ps \in Streams
  PROVE  /\ ps \in Seq(Range(ps)) /\ Wires(ps) \in Lists /\ Len(Wires(ps)) = Len(ps)
         /\ \A i \in 1..Len(ps) : IsPacket(ps[i]) /\ Wires(ps)[i] = written(ps[i])
                                  /\ Wires(ps)[i] \in Seq(Byte)
         /\ \A k \in 0..Len(ps) : Stream(SubSeq(ps, 1, k)) = upTo(Wires(ps), k)
         /\ Stream(ps) = upTo(Wires(ps), Len(ps))
<1> DEFINE ws == Wires(ps)
           X == Range(ps)
           n == Len(ps)
<1>1. ps \in Seq(X) /\ \A i \in DOMAIN ps : IsPacket(ps[i])
  BY PacketsAssumption
<1> HIDE DEF X
<1>2. n \in Nat /\ DOMAIN ps = 1..n
  BY <1>1
<1>3. ASSUME NEW i \in 1..n PROVE IsPacket(ps[i]) /\ ws[i] = written(ps[i]) /\ ws[i] \in Seq(Byte)
  <2>1. IsPacket(ps[i]) /\ ws[i] = written(ps[i])
    BY <1>1, <1>2 DEF Wires
  <2>2. written(ps[i]) \in Seq(Byte)
    <3> DEFINE c == firstByte(ps[i])
               b == body(ps[i])
               d == encodeLength(Len(b))
    <3>1. written(ps[i]) = (<<c>> \o d) \o b /\ c \in Byte /\ b \in Seq(Byte)
      BY <2>1, WrittenIs
    <3>2. d \in Seq(Byte)
      BY <2>1, WrittenIs DEF Digits
    <3> HIDE DEF c, b, d
    <3>3. <<c>> \o d \in Seq(Byte)
      BY <3>1, <3>2, OneByte
    <3> DEFINE a == <<c>> \o d
    <3> HIDE DEF a
    <3>4. a \o b \in Seq(Byte)
      BY <3>1, <3>3, InFront DEF a
    <3> QED  BY <3>1, <3>4 DEF a
  <2> QED  BY <2>1, <2>2
<1>4. ws = [i \in 1..n |-> ws[i]]
  BY <1>2 DEF Wires
<1>5. ws \in Lists /\ Len(ws) = n
  <2> HIDE DEF ws
  <2>1. ws \in [1..n -> Seq(Byte)]
    BY <1>3, <1>4
  <2> QED  BY <1>2, <2>1 DEF Lists
<1>6. ASSUME NEW k \in 0..n PROVE Stream(SubSeq(ps, 1, k)) = upTo(ws, k)
  <2> DEFINE s == SubSeq(ps, 1, k)
             f == [i \in DOMAIN s |-> written(s[i])]
             g == SubSeq(ws, 1, k)
  <2>1. DOMAIN s = 1..k /\ \A i \in 1..k : s[i] = ps[i]
    BY <1>1, <1>2
  <2> HIDE DEF s
  <2>2. f = [i \in 1..k |-> written(s[i])]
    BY <2>1
  <2> HIDE DEF ws
  <2>3. g = [i \in 1..k |-> ws[i]]
    <3>1. g \in Lists /\ Len(g) = k /\ \A i \in 1..k : g[i] = ws[i]
      <4>1. \A i \in 1..k : ws[i] \in Seq(Byte)
        BY <1>2, <1>3
      <4> QED  BY <1>2, <1>5, <4>1 DEF Lists
    <3> HIDE DEF g
    <3> QED  BY <3>1 DEF Lists
  <2> HIDE DEF f, g
  <2>4. ASSUME NEW i \in 1..k PROVE written(s[i]) = ws[i]
    <3>1. i \in 1..n
      BY <1>2
    <3> QED  BY <1>3, <2>1, <3>1
  <2>5. f = g
    BY <2>2, <2>3, <2>4
  <2>6. Stream(s) = FlattenSeq(f) /\ upTo(ws, k) = FlattenSeq(g)
    BY DEF Stream, f, upTo, g
  <2> QED  BY <2>5, <2>6 DEF s
<1>7. Stream(ps) = upTo(ws, n)
  <2>1. Stream(ps) = FlattenSeq(ws)
    BY DEF Stream, Wires
  <2>2. upTo(ws, Len(ws)) = FlattenSeq(ws)
    BY <1>5, WholeIs
  <2> QED  BY <1>5, <2>1, <2>2
<1> QED  BY <1>1, <1>3, <1>5, <1>6, <1>7 DEF X

\* How many bytes the first k packets of what is sent are.
bytesOf(k) == Len(Stream(SubSeq(sent, 1, k)))

\* Which packets arrived: the last of them ends where the connection broke or before,
\* and the next one, if there is one, behind it.
LEMMA ArrivedIs ==
  ASSUME sent \in Streams, broken \in 0..Len(Stream(sent))
  PROVE  /\ Arrived \in 0..Len(sent) /\ Len(sent) \in Nat
         /\ bytesOf(Arrived) <= broken
         /\ \A k \in 0..Len(sent) :
              /\ bytesOf(k) \in Nat
              /\ k > Arrived => bytesOf(k) > broken
         /\ Over = broken - bytesOf(Arrived)
<1> DEFINE ws == Wires(sent)
           n == Len(sent)
           T == {k \in 0..n : bytesOf(k) <= broken}
<1>1. /\ sent \in Seq(Range(sent)) /\ ws \in Lists /\ Len(ws) = n
      /\ \A k \in 0..n : Stream(SubSeq(sent, 1, k)) = upTo(ws, k)
      /\ Stream(sent) = upTo(ws, n)
  BY StreamIs
<1>2. n \in Nat
  BY <1>1
<1>3. ASSUME NEW k \in 0..n PROVE bytesOf(k) \in Nat
  <2>1. upTo(ws, k) \in Seq(Byte)
    BY <1>1, UpToIs
  <2>2. Stream(SubSeq(sent, 1, k)) \in Seq(Byte)
    BY <1>1, <2>1
  <2> DEFINE s == Stream(SubSeq(sent, 1, k))
  <2> HIDE DEF s
  <2>3. Len(s) \in Nat
    BY <2>2 DEF s
  <2> QED  BY <2>3 DEF bytesOf, s
<1>4. broken \in Nat
  <2>1. n \in 0..n
    BY <1>2
  <2>2. upTo(ws, n) \in Seq(Byte)
    BY <1>1, <2>1, UpToIs
  <2> DEFINE s == Stream(sent)
  <2>3. s \in Seq(Byte)
    BY <1>1, <2>2
  <2>4. broken \in 0..Len(s)
    OBVIOUS
  <2> HIDE DEF s
  <2> QED  BY <2>3, <2>4
<1>5. 0 \in T
  <2>1. upTo(ws, 0) = <<>> /\ 0 \in 0..n
    <3>1. 0 \in 0..Len(ws)
      BY <1>1, <1>2
    <3> QED  BY <1>1, <3>1, UpToIs
  <2>2. bytesOf(0) = 0
    BY <1>1, <2>1 DEF bytesOf
  <2> QED  BY <1>4, <2>1, <2>2
<1>6. Arrived = Max(T)
  BY DEF Arrived, bytesOf
<1>7. T \subseteq 0..n /\ T # {}
  BY <1>5
<1>8. Max(T) \in T /\ \A k \in T : k <= Max(T)
  <2> HIDE DEF T
  <2> QED  BY <1>2, <1>7, MaxIs
<1>9. Arrived \in 0..n /\ bytesOf(Arrived) <= broken
  BY <1>6, <1>8
<1>10. ASSUME NEW k \in 0..n, k > Arrived PROVE bytesOf(k) > broken
  <2>1. ~(k <= Arrived) /\ k \in Nat /\ Arrived \in Nat
    BY <1>2, <1>9, <1>10
  <2>2. k \notin T
    BY <1>6, <1>8, <2>1
  <2>3. ~(bytesOf(k) <= broken)
    BY <2>2
  <2> QED  BY <1>3, <1>4, <2>3
<1>11. Over = broken - bytesOf(Arrived)
  BY DEF Over, bytesOf
<1> QED  BY <1>2, <1>3, <1>9, <1>10, <1>11

\* What is unread when the first k packets were read.
LEMMA UnreadIs ==
  ASSUME sent \in Streams, broken \in 0..Len(Stream(sent)), NEW k \in 0..Arrived,
         NEW x \in Seq(Byte), Stream(SubSeq(sent, 1, k)) \o x = SubSeq(Stream(sent), 1, broken)
  PROVE  /\ k < Arrived =>
              \E y \in Seq(Byte) :
                /\ x = written(sent[k + 1]) \o y
                /\ Stream(SubSeq(sent, 1, k + 1)) \o y = SubSeq(Stream(sent), 1, broken)
         /\ k = Arrived /\ k = Len(sent) => x = <<>> /\ Over = 0
         /\ k = Arrived /\ k < Len(sent) =>
              /\ Over \in 0..Len(written(sent[k + 1]))-1
              /\ x = SubSeq(written(sent[k + 1]), 1, Over)
<1> DEFINE ws == Wires(sent)
           n == Len(sent)
           u(i) == upTo(ws, i)
           l(i) == bytesOf(i)
           all == Stream(sent)
           B == SubSeq(all, 1, broken)
<1>1. /\ ws \in Lists /\ Len(ws) = n
      /\ \A i \in 1..n : ws[i] = written(sent[i]) /\ ws[i] \in Seq(Byte)
      /\ \A i \in 0..n : Stream(SubSeq(sent, 1, i)) = u(i)
      /\ all = u(n)
  BY StreamIs
<1>2. /\ Arrived \in 0..n /\ n \in Nat /\ l(Arrived) <= broken
      /\ \A i \in 0..n : l(i) \in Nat /\ (i > Arrived => l(i) > broken)
      /\ Over = broken - l(Arrived)
  BY ArrivedIs
<1>3. ASSUME NEW i \in 0..n PROVE u(i) \in Seq(Byte) /\ l(i) = Len(u(i))
  <2>1. u(i) \in Seq(Byte)
    BY <1>1, UpToIs
  <2>2. l(i) = Len(u(i))
    BY <1>1 DEF bytesOf
  <2> QED  BY <2>1, <2>2
<1>4. ASSUME NEW i \in 0..n-1 PROVE u(i + 1) = u(i) \o ws[i + 1]
  <2>1. i + 1 \in 0..Len(ws) /\ i + 1 # 0 /\ (i + 1) - 1 = i
    BY <1>1, <1>2
  <2> QED  BY <1>1, <2>1, UpToIs
<1>5. ASSUME NEW i \in 0..n PROVE \E z \in Seq(Byte) : all = u(i) \o z
  <2>1. i \in 0..Len(ws) /\ n \in i..Len(ws)
    BY <1>1, <1>2
  <2>2. \E z \in Seq(Byte) : upTo(ws, n) = upTo(ws, i) \o z
    BY <1>1, <2>1, Behind
  <2> QED  BY <1>1, <2>2
<1>6. k \in 0..n /\ u(k) \o x = B
  <2>1. k \in 0..n
    <3> HIDE DEF n
    <3> QED  BY <1>2
  <2> DEFINE s == Stream(SubSeq(sent, 1, k))
  <2>2. s = u(k)
    BY <1>1, <2>1
  <2>3. s \o x = B
    OBVIOUS
  <2> HIDE DEF s, u, B
  <2> QED  BY <2>1, <2>2, <2>3
<1>7. all \in Seq(Byte) /\ Len(all) = l(n) /\ broken \in Nat /\ broken <= Len(all) /\ Len(all) \in Nat
  <2>1. n \in 0..n
    BY <1>2
  <2>2. all \in Seq(Byte) /\ Len(all) = l(n)
    BY <1>1, <1>3, <2>1
  <2>3. broken \in 0..Len(all)
    OBVIOUS
  <2> HIDE DEF all, l
  <2> QED  BY <2>2, <2>3
<1> HIDE DEF all, u, l, ws, n
<1>8. Rest(B, Len(u(k))) = x
  <2>1. Rest(u(k) \o x, Len(u(k))) = x
    BY <1>3, <1>6, InFront
  <2> QED  BY <1>6, <2>1
<1>9. ASSUME k < Arrived
      PROVE  \E y \in Seq(Byte) :
                /\ x = written(sent[k + 1]) \o y
                /\ Stream(SubSeq(sent, 1, k + 1)) \o y = SubSeq(Stream(sent), 1, broken)
  <2>1. k \in 0..n-1 /\ k + 1 \in 0..n /\ k + 1 \in 1..n /\ Arrived \in k+1..n
    BY <1>2, <1>6, <1>9
  <2>2. l(k + 1) <= broken
    <3>1. \E z \in Seq(Byte) : u(Arrived) = u(k + 1) \o z
      <4>1. k + 1 \in 0..Len(ws) /\ Arrived \in k+1..Len(ws)
        BY <1>1, <2>1
      <4>2. \E z \in Seq(Byte) : upTo(ws, Arrived) = upTo(ws, k + 1) \o z
        BY <1>1, <4>1, Behind
      <4> QED  BY <4>2 DEF u
    <3>2. PICK z \in Seq(Byte) : u(Arrived) = u(k + 1) \o z
      BY <3>1
    <3>3. Len(u(Arrived)) = Len(u(k + 1)) + Len(z)
      BY <1>3, <2>1, <3>2, InFront
    <3>4. l(Arrived) = Len(u(Arrived)) /\ l(k + 1) = Len(u(k + 1)) /\ l(k + 1) \in Nat /\ Len(z) \in Nat
      <4>1. l(Arrived) = Len(u(Arrived))
        BY <1>2, <1>3
      <4>2. l(k + 1) = Len(u(k + 1)) /\ l(k + 1) \in Nat
        BY <1>2, <1>3, <2>1
      <4>3. Len(z) \in Nat
        OBVIOUS
      <4> QED  BY <4>1, <4>2, <4>3
    <3>5. l(Arrived) = l(k + 1) + Len(z)
      BY <3>3, <3>4
    <3> QED  BY <1>2, <1>7, <3>4, <3>5
  <2>3. PICK z \in Seq(Byte) : all = u(k + 1) \o z
    BY <1>5, <2>1
  <2> DEFINE v == u(k + 1)
             q == u(k)
             w == ws[k + 1]
             y == SubSeq(z, 1, broken - Len(v))
  <2>4. v \in Seq(Byte) /\ q \in Seq(Byte) /\ w \in Seq(Byte) /\ v = q \o w /\ all = v \o z
    BY <1>1, <1>3, <1>4, <1>6, <2>1, <2>3
  <2>5. broken >= Len(v) /\ Len(v) \in Nat
    BY <1>2, <1>3, <2>1, <2>2
  <2> HIDE DEF v, q, w
  <2>6. broken \in 0..Len(v)+Len(z)
    <3>1. Len(all) = Len(v) + Len(z)
      BY <2>4, InFront
    <3> QED  BY <1>7, <3>1
  <2>7. B = v \o y
    <3>1. SubSeq(v \o z, 1, broken) = v \o y
      BY <2>4, <2>5, <2>6, PrefixIs
    <3> QED  BY <2>4, <3>1
  <2>8. y \in Seq(Byte)
    <3> DEFINE m == broken - Len(v)
    <3>1. m \in 0..Len(z)
      BY <1>7, <2>5, <2>6
    <3> HIDE DEF m
    <3>2. SubSeq(z, 1, m) \in Seq(Byte)
      BY <3>1
    <3> QED  BY <3>2 DEF m
  <2> HIDE DEF y, B
  <2>9. (q \o w) \o y = q \o (w \o y) /\ w \o y \in Seq(Byte)
    <3>1. Cat(Cat(q, w), y) = Cat(q, Cat(w, y)) /\ Cat(w, y) \in Seq(Byte)
      BY <2>4, <2>8, CatAssoc, CatType
    <3> QED  BY <3>1 DEF Cat
  <2>10. Rest(q \o (w \o y), Len(q)) = w \o y
    BY <2>4, <2>9, InFront
  <2>11. B = q \o (w \o y)
    BY <2>4, <2>7, <2>9
  <2>12. x = w \o y
    BY <1>8, <2>10, <2>11 DEF q
  <2>13. w = written(sent[k + 1])
    BY <1>1, <2>1 DEF w
  <2>14. Stream(SubSeq(sent, 1, k + 1)) = v
    BY <1>1, <2>1 DEF v
  <2> QED  BY <2>7, <2>8, <2>12, <2>13, <2>14 DEF B, all
<1>10. ASSUME k = Arrived, k = n PROVE x = <<>> /\ Over = 0
  <2>1. broken = Len(all) /\ Over = 0
    BY <1>2, <1>7, <1>10
  <2>2. B = all
    BY <1>7, <2>1, SubSeqFull
  <2>3. all = u(k)
    BY <1>1, <1>10
  <2>4. Len(u(k) \o x) = Len(u(k)) + Len(x)
    BY <1>3, <1>6, InFront
  <2>5. Len(x) = 0
    <3>1. Len(u(k)) \in Nat /\ Len(x) \in Nat
      BY <1>7, <2>3
    <3>2. Len(u(k)) = Len(u(k)) + Len(x)
      BY <1>6, <2>2, <2>3, <2>4
    <3> QED  BY <3>1, <3>2
  <2>6. x = <<>>
    BY <2>5, EmptySeq
  <2> QED  BY <2>1, <2>6
<1>11. ASSUME k = Arrived, k < n
       PROVE  /\ Over \in 0..Len(written(sent[k + 1]))-1
              /\ x = SubSeq(written(sent[k + 1]), 1, Over)
  <2>1. k \in 0..n-1 /\ k + 1 \in 0..n /\ k + 1 \in 1..n /\ k + 1 > Arrived
    BY <1>2, <1>6, <1>11
  <2>2. l(k + 1) > broken /\ l(k) <= broken /\ Over = broken - l(k)
    BY <1>2, <1>11, <2>1
  <2>3. PICK z \in Seq(Byte) : all = u(k + 1) \o z
    BY <1>5, <2>1
  <2> DEFINE v == u(k + 1)
             q == u(k)
             w == ws[k + 1]
  <2>4. v \in Seq(Byte) /\ q \in Seq(Byte) /\ w \in Seq(Byte) /\ v = q \o w /\ all = v \o z
    BY <1>1, <1>3, <1>4, <1>6, <2>1, <2>3
  <2>5. Len(v) = l(k + 1) /\ Len(q) = l(k) /\ l(k) \in Nat /\ l(k + 1) \in Nat
    BY <1>2, <1>3, <1>6, <2>1
  <2> HIDE DEF v, q, w
  <2>6. Len(v) = Len(q) + Len(w) /\ Len(w) \in Nat
    BY <2>4, InFront
  <2>7. Over \in 0..Len(w)-1
    BY <1>7, <2>2, <2>5, <2>6
  <2>8. B = SubSeq(v, 1, broken)
    <3>1. broken \in 0..Len(v)+Len(z) /\ broken <= Len(v)
      <4>1. Len(z) \in Nat
        OBVIOUS
      <4> QED  BY <1>7, <2>2, <2>5, <4>1
    <3>2. SubSeq(v \o z, 1, broken) = SubSeq(v, 1, broken)
      BY <2>4, <3>1, PrefixIs
    <3> QED  BY <2>4, <3>2
  <2>9. SubSeq(v, 1, broken) = q \o SubSeq(w, 1, Over)
    <3>1. broken \in 0..Len(q)+Len(w) /\ broken >= Len(q) /\ broken - Len(q) = Over
      BY <1>7, <2>2, <2>5, <2>6
    <3>2. SubSeq(q \o w, 1, broken) = q \o SubSeq(w, 1, broken - Len(q))
      BY <2>4, <3>1, PrefixIs
    <3> QED  BY <2>4, <3>1, <3>2
  <2> DEFINE y == SubSeq(w, 1, Over)
  <2>10. y \in Seq(Byte)
    BY <2>4, <2>6, <2>7
  <2> HIDE DEF y, B
  <2>11. Rest(q \o y, Len(q)) = y
    BY <2>4, <2>10, InFront
  <2>12. x = y
    BY <1>8, <2>8, <2>9, <2>11 DEF y, q
  <2>13. w = written(sent[k + 1])
    BY <1>1, <2>1 DEF w
  <2> QED  BY <2>7, <2>12, <2>13 DEF y
<1> QED  BY <1>9, <1>10, <1>11 DEF n
\* One more packet in front of the rest of a sequence.
LEMMA FirstPackets ==
  ASSUME NEW X, NEW ps \in Seq(X), NEW k \in 0..Len(ps)
  PROVE  /\ SubSeq(ps, 1, k) \in Seq(X) /\ Len(SubSeq(ps, 1, k)) = k
         /\ \A i \in 1..k : SubSeq(ps, 1, k)[i] = ps[i]
         /\ k = 0 => SubSeq(ps, 1, k) = <<>>
         /\ k < Len(ps) => Append(SubSeq(ps, 1, k), ps[k + 1]) = SubSeq(ps, 1, k + 1)
<1>1. Len(ps) \in Nat /\ \A i \in 1..Len(ps) : ps[i] \in X
  OBVIOUS
<1>2. ASSUME NEW m \in 0..Len(ps)
      PROVE  SubSeq(ps, 1, m) \in Seq(X) /\ Len(SubSeq(ps, 1, m)) = m
             /\ \A i \in 1..m : SubSeq(ps, 1, m)[i] = ps[i]
  <2>1. \A i \in 1..m : ps[i] \in X
    BY <1>1
  <2> QED  BY <1>1, <2>1
<1>3. k = 0 => SubSeq(ps, 1, k) = <<>>
  BY <1>2, EmptySeq
<1>4. ASSUME k < Len(ps) PROVE Append(SubSeq(ps, 1, k), ps[k + 1]) = SubSeq(ps, 1, k + 1)
  <2> DEFINE s == SubSeq(ps, 1, k)
             t == SubSeq(ps, 1, k + 1)
             a == Append(s, ps[k + 1])
  <2>1. s \in Seq(X) /\ Len(s) = k /\ \A i \in 1..k : s[i] = ps[i]
    BY <1>2
  <2>2. k + 1 \in 0..Len(ps) /\ k + 1 \in 1..Len(ps) /\ k \in Nat
    BY <1>1, <1>4
  <2>3. t \in Seq(X) /\ Len(t) = k + 1 /\ \A i \in 1..k+1 : t[i] = ps[i]
    BY <1>2, <2>2
  <2> HIDE DEF s, t
  <2>4. a \in Seq(X) /\ Len(a) = k + 1 /\ (\A i \in 1..k : a[i] = s[i]) /\ a[k + 1] = ps[k + 1]
    BY <1>1, <2>1, <2>2
  <2> HIDE DEF a
  <2>5. ASSUME NEW i \in 1..k+1 PROVE a[i] = t[i]
    <3>1. i \in 1..k \/ i = k + 1
      BY <2>2
    <3> QED  BY <2>1, <2>3, <2>4, <3>1
  <2>6. a = t
    BY <2>3, <2>4, <2>5, SeqEqual
  <2> QED  BY <2>6 DEF a, s, t
<1> QED  BY <1>2, <1>3, <1>4

\* What is read when one packet more than arrived was.
LEMMA BeyondIs ==
  ASSUME sent \in Streams, broken \in 0..Len(Stream(sent)), NEW g,
         read = Append(SubSeq(sent, 1, Arrived), g)
  PROVE  /\ Len(read) = Arrived + 1 /\ DOMAIN read = 1..Arrived+1
         /\ \A i \in 1..Arrived : read[i] = sent[i]
<1> DEFINE X == Range(sent) \cup {g}
           s == SubSeq(sent, 1, Arrived)
           k == Arrived
<1>1. k \in 0..Len(sent) /\ Len(sent) \in Nat
  BY ArrivedIs
<1>2. sent \in Seq(Range(sent))
  BY StreamIs
<1>3. sent \in Seq(X) /\ g \in X
  BY <1>2
<1> HIDE DEF X, k
<1>4. s \in Seq(X) /\ Len(s) = k /\ \A i \in 1..k : s[i] = sent[i]
  BY <1>1, <1>3, FirstPackets DEF k
<1> HIDE DEF s
<1>5. read = Append(s, g)
  BY DEF s
<1>6. Len(read) = k + 1 /\ DOMAIN read = 1..k+1 /\ \A i \in 1..k : read[i] = sent[i]
  <2> DEFINE a == Append(s, g)
  <2>1. a \in Seq(X) /\ Len(a) = k + 1 /\ \A i \in 1..k : a[i] = s[i]
    BY <1>1, <1>3, <1>4
  <2> HIDE DEF a
  <2>2. DOMAIN a = 1..k+1
    BY <2>1
  <2>3. read = a
    BY <1>5 DEF a
  <2> QED  BY <1>4, <2>1, <2>2, <2>3
<1> QED  BY <1>6 DEF k

\* Nothing has been read at the start.
LEMMA PacketInvInit == PacketInit => PacketInv
<1> SUFFICES ASSUME PacketInit PROVE PacketInv
  OBVIOUS
<1>1. /\ sent \in Streams /\ broken \in 0..Len(Stream(sent))
      /\ unread = SubSeq(Stream(sent), 1, broken) /\ read = <<>> /\ ended = "no"
  BY DEF PacketInit
<1>2. Arrived \in 0..Len(sent) /\ Len(sent) \in Nat
  BY <1>1, ArrivedIs
<1>3. 0 \in 0..Arrived /\ 0 \in 0..Len(sent)
  BY <1>2
<1>4. sent \in Seq(Range(sent))
  BY <1>1, StreamIs
<1>5. SubSeq(sent, 1, 0) = <<>>
  BY <1>3, <1>4, FirstPackets
<1>6. Stream(SubSeq(sent, 1, 0)) = <<>> /\ Stream(sent) \in Seq(Byte)
  <2> DEFINE ws == Wires(sent)
  <2>1. ws \in Lists /\ Len(ws) = Len(sent) /\ Stream(SubSeq(sent, 1, 0)) = upTo(ws, 0)
        /\ Stream(sent) = upTo(ws, Len(sent))
    BY <1>1, <1>3, StreamIs
  <2>2. 0 \in 0..Len(ws) /\ Len(sent) \in 0..Len(ws)
    BY <1>2, <2>1
  <2> HIDE DEF ws
  <2>3. upTo(ws, 0) = <<>> /\ upTo(ws, Len(sent)) \in Seq(Byte)
    BY <2>1, <2>2, UpToIs
  <2> QED  BY <2>1, <2>3
<1>7. unread \in Seq(Byte)
  <2> DEFINE s == Stream(sent)
  <2>1. s \in Seq(Byte) /\ broken \in 0..Len(s)
    BY <1>1, <1>6
  <2> HIDE DEF s
  <2>2. SubSeq(s, 1, broken) \in Seq(Byte)
    <3>1. \A i \in 1..broken : s[i] \in Byte
      BY <2>1
    <3> QED  BY <2>1, <3>1
  <2> QED  BY <1>1, <2>2 DEF s
<1>8. Stream(SubSeq(sent, 1, 0)) \o unread = SubSeq(Stream(sent), 1, broken)
  BY <1>1, <1>6, <1>7, NoBytes
<1>9. \E k \in 0..Arrived :
            /\ read = SubSeq(sent, 1, k)
            /\ unread \in Seq(Byte)
            /\ Stream(SubSeq(sent, 1, k)) \o unread = SubSeq(Stream(sent), 1, broken)
            /\ ended # "no" => k = Arrived
  BY <1>1, <1>3, <1>5, <1>7, <1>8
<1> QED  BY <1>1, <1>9 DEF PacketInv

\* A packet read from nothing, or reading that came to an end.
LEMMA PacketInvStep == PacketInv /\ [PacketNext]_pvars => PacketInv'
<1> SUFFICES ASSUME PacketInv, [PacketNext]_pvars PROVE PacketInv'
  OBVIOUS
<1> DEFINE n == Len(sent)
           At(k) == /\ read = SubSeq(sent, 1, k)
                    /\ unread \in Seq(Byte)
                    /\ Stream(SubSeq(sent, 1, k)) \o unread = SubSeq(Stream(sent), 1, broken)
                    /\ ended # "no" => k = Arrived
           Beyond == /\ read = Append(SubSeq(sent, 1, Arrived), read[Len(read)])
                     /\ unread = <<>> /\ Over = 1 /\ Arrived < n
                     /\ sent[Arrived + 1].type # "PUBLISH"
           Ends == /\ ended = "error" => Over = 0 \/ Over > LengthBytes \/ Len(read) > Arrived
                   /\ ended = "panics" => Over = 1 /\ sent[Arrived + 1].type = "PUBLISH"
                   /\ ended = "spins" => Over \in 2..LengthBytes
           r == ReadPacket(unread)
<1>1. /\ sent \in Streams /\ broken \in 0..Len(Stream(sent))
      /\ (\E k \in 0..Arrived : At(k)) \/ Beyond
      /\ Ends
  BY DEF PacketInv
<1>2. CASE UNCHANGED pvars
  BY <1>2 DEF PacketInv, pvars, Arrived, Over, LengthBytes
<1>3. CASE Incoming
  <2>1. /\ ended = "no" /\ sent' = sent /\ broken' = broken
        /\ r.is = "packet" => read' = Append(read, r.packet) /\ unread' = r.rest /\ ended' = ended
        /\ r.is # "packet" => ended' = r.is /\ read' = read /\ unread' = unread
    BY <1>3 DEF Incoming
  <2>2. Arrived' = Arrived /\ Over' = Over /\ LengthBytes' = LengthBytes
    BY <2>1 DEF Arrived, Over, LengthBytes
  <2>3. Arrived \in 0..n /\ n \in Nat /\ Over = broken - bytesOf(Arrived) /\ sent \in Seq(Range(sent))
    BY <1>1, ArrivedIs, StreamIs
  <2> DEFINE X == Range(sent)
  <2>4. /\ sent' \in Streams /\ broken' \in 0..Len(Stream(sent'))
    BY <1>1, <2>1
  \* What is left to show.
  <2>5. ((\E k \in 0..Arrived : At(k)') \/ Beyond') /\ Ends' => PacketInv'
    BY <2>2, <2>4 DEF PacketInv
  <2>6. CASE \E k \in 0..Arrived : At(k)
    <3>1. PICK k \in 0..Arrived : At(k)
      BY <2>6
    <3>2. k \in 0..n /\ k \in Nat
      BY <2>3
    <3>3. /\ SubSeq(sent, 1, k) \in Seq(Range(sent)) /\ Len(SubSeq(sent, 1, k)) = k
          /\ k < n => Append(SubSeq(sent, 1, k), sent[k + 1]) = SubSeq(sent, 1, k + 1)
      <4> DEFINE Y == Range(sent)
      <4>1. sent \in Seq(Y)
        BY <2>3
      <4> HIDE DEF Y
      <4>2. /\ SubSeq(sent, 1, k) \in Seq(Y) /\ Len(SubSeq(sent, 1, k)) = k
            /\ k < n => Append(SubSeq(sent, 1, k), sent[k + 1]) = SubSeq(sent, 1, k + 1)
        BY <3>2, <4>1, FirstPackets
      <4> QED  BY <4>2 DEF Y
    <3>4. /\ k < Arrived =>
               \E y \in Seq(Byte) :
                 /\ unread = written(sent[k + 1]) \o y
                 /\ Stream(SubSeq(sent, 1, k + 1)) \o y = SubSeq(Stream(sent), 1, broken)
          /\ k = Arrived /\ k = n => unread = <<>> /\ Over = 0
          /\ k = Arrived /\ k < n =>
               /\ Over \in 0..Len(written(sent[k + 1]))-1
               /\ unread = SubSeq(written(sent[k + 1]), 1, Over)
      BY <1>1, <3>1, UnreadIs
    <3>5. CASE k < Arrived
      <4>1. PICK y \in Seq(Byte) :
                 /\ unread = written(sent[k + 1]) \o y
                 /\ Stream(SubSeq(sent, 1, k + 1)) \o y = SubSeq(Stream(sent), 1, broken)
        BY <3>4, <3>5
      <4>2. k + 1 \in 1..n /\ k + 1 \in 0..Arrived /\ k < n
        BY <2>3, <3>2, <3>5
      <4>3. IsPacket(sent[k + 1])
        BY <1>1, <4>2, StreamIs
      <4>4. r = [is |-> "packet", packet |-> sent[k + 1], rest |-> y]
        BY <4>1, <4>3, WrittenIsRead
      <4> HIDE DEF r
      <4>5. read' = SubSeq(sent, 1, k + 1) /\ unread' = y /\ ended' = "no"
        BY <2>1, <3>1, <3>3, <4>2, <4>4
      <4>6. At(k + 1)'
        BY <2>1, <2>2, <4>1, <4>5
      <4>7. Ends'
        BY <4>5
      <4> QED  BY <2>5, <4>2, <4>6, <4>7
    <3>6. CASE k = Arrived /\ k = n
      <4>1. unread = <<>> /\ Over = 0
        BY <3>4, <3>6
      <4>2. r = [is |-> "error"]
        BY <4>1 DEF ReadPacket
      <4> HIDE DEF r
      <4>3. ended' = "error" /\ read' = read /\ unread' = unread
        BY <2>1, <4>2
      <4>4. At(k)'
        BY <2>1, <2>2, <3>1, <3>6, <4>3
      <4>5. Ends'
        BY <2>2, <4>1, <4>3
      <4> QED  BY <2>5, <4>4, <4>5
    <3>7. CASE k = Arrived /\ k < n
      <4> DEFINE p == sent[k + 1]
                 l == Len(encodeLength(Len(body(p))))
      <4>1. Over \in 0..Len(written(p))-1 /\ unread = SubSeq(written(p), 1, Over)
        BY <3>4, <3>7
      <4>2. k + 1 \in 1..n
        BY <3>2, <3>7
      <4>3. IsPacket(p)
        BY <1>1, <4>2, StreamIs
      <4>4. LengthBytes = l /\ sent[Arrived + 1] = p
        BY <3>7 DEF LengthBytes
      <4> HIDE DEF p
      <4>5. /\ Over = 0 => r.is = "error"
            /\ Over = 1 /\ p.type = "PUBLISH" => r.is = "panics"
            /\ Over = 1 /\ p.type # "PUBLISH" => r.is = "packet" /\ r.rest = <<>>
            /\ Over \in 2..l => r.is = "spins"
            /\ Over > 1 /\ Over > l => r.is = "error"
        BY <4>1, <4>3, BrokenIsMisread
      <4>6. l \in Nat
        <5>1. encodeLength(Len(body(p))) \in Seq(Byte)
          BY <4>3, WrittenIs DEF Digits
        <5> DEFINE d == encodeLength(Len(body(p)))
        <5> HIDE DEF d
        <5>2. Len(d) \in Nat
          BY <5>1 DEF d
        <5> QED  BY <5>2 DEF d
      <4> HIDE DEF r, l
      <4>7. CASE Over = 1 /\ p.type # "PUBLISH"
        <5>1. read' = Append(read, r.packet) /\ unread' = <<>> /\ ended' = "no"
          BY <2>1, <4>5, <4>7
        <5> DEFINE s == SubSeq(sent, 1, k)
                   g == r.packet
                   Z == Range(sent) \cup {g}
        <5>2. s \in Seq(Range(sent)) /\ Len(s) = k /\ read = s
          BY <3>1, <3>3
        <5>3. s \in Seq(Z) /\ g \in Z
          BY <5>2
        <5> HIDE DEF s, g, Z
        <5>4. Len(Append(s, g)) = k + 1 /\ Append(s, g)[k + 1] = g
          BY <3>2, <5>2, <5>3
        <5>5. read' = Append(s, g) /\ read'[Len(read')] = g
          BY <5>1, <5>2, <5>4 DEF g
        <5>6. Beyond'
          BY <2>1, <2>2, <3>7, <4>4, <4>7, <5>1, <5>5 DEF s
        <5>7. Ends'
          BY <5>1
        <5> QED  BY <2>5, <5>6, <5>7
      <4>8. CASE ~(Over = 1 /\ p.type # "PUBLISH")
        <5>1. Over \in Nat
          BY <4>1
        <5>2. /\ r.is \in {"error", "panics", "spins"}
              /\ r.is = "error" => Over = 0 \/ Over > l
              /\ r.is = "panics" => Over = 1 /\ p.type = "PUBLISH"
              /\ r.is = "spins" => Over \in 2..l
          <6>1. Over = 0 \/ Over = 1 \/ Over \in 2..l \/ (Over > 1 /\ Over > l)
            BY <4>6, <5>1
          <6> QED  BY <4>5, <4>8, <6>1
        <5>3. ended' = r.is /\ read' = read /\ unread' = unread
          BY <2>1, <5>2
        <5>4. At(k)'
          BY <2>1, <2>2, <3>1, <3>7, <5>3
        <5>5. Ends'
          BY <2>1, <2>2, <4>4, <5>2, <5>3
        <5> QED  BY <2>5, <5>4, <5>5
      <4> QED  BY <4>7, <4>8
    <3> QED  BY <2>3, <3>2, <3>5, <3>6, <3>7
  <2>7. CASE Beyond
    <3>1. r = [is |-> "error"]
      BY <2>7 DEF ReadPacket
    <3> HIDE DEF r
    <3>2. ended' = "error" /\ read' = read /\ unread' = unread
      BY <2>1, <3>1
    <3>3. Beyond'
      BY <2>1, <2>2, <2>7, <3>2
    <3>4. Len(read) = Arrived + 1
      BY <1>1, <2>7, BeyondIs
    <3>5. Ends'
      BY <2>2, <2>3, <3>2, <3>4
    <3> QED  BY <2>5, <3>3, <3>5
  <2> QED  BY <1>1, <2>6, <2>7
<1> QED  BY <1>2, <1>3 DEF PacketNext

\* It says what is claimed.
LEMMA PacketInvReads == PacketInv => ReadsWhatWasWritten
<1> SUFFICES ASSUME PacketInv PROVE ReadsWhatWasWritten
  OBVIOUS
<1>1. /\ sent \in Streams /\ broken \in 0..Len(Stream(sent))
      /\ ended = "error" => Over = 0 \/ Over > LengthBytes \/ Len(read) > Arrived
      /\ ended = "panics" => Over = 1 /\ sent[Arrived + 1].type = "PUBLISH"
      /\ ended = "spins" => Over \in 2..LengthBytes
  BY DEF PacketInv
<1>2. Arrived \in 0..Len(sent) /\ Len(sent) \in Nat
  BY <1>1, ArrivedIs
<1> DEFINE Reads == /\ \A i \in DOMAIN read : i <= Arrived => read[i] = sent[i]
                    /\ ended # "no" => Len(read) >= Arrived
                    /\ Len(read) > Arrived =>
                         Over = 1 /\ Len(read) = Arrived + 1 /\ sent[Len(read)].type # "PUBLISH"
<1>3. ASSUME NEW k \in 0..Arrived, read = SubSeq(sent, 1, k), ended # "no" => k = Arrived PROVE Reads
  <2> DEFINE X == Range(sent)
  <2>1. sent \in Seq(X) /\ k \in 0..Len(sent)
    BY <1>1, <1>2, StreamIs
  <2> HIDE DEF X
  <2>2. read \in Seq(X) /\ Len(read) = k /\ \A i \in 1..k : read[i] = sent[i]
    BY <1>3, <2>1, FirstPackets
  <2>3. DOMAIN read = 1..k
    BY <2>2
  <2>4. k \in Nat /\ Arrived \in Nat /\ k <= Arrived
    BY <1>2
  <2>5. ~(Len(read) > Arrived)
    BY <2>2, <2>4
  <2>6. ended # "no" => Len(read) >= Arrived
    BY <1>3, <2>2, <2>4
  <2> QED  BY <2>2, <2>3, <2>5, <2>6
<1>4. ASSUME read = Append(SubSeq(sent, 1, Arrived), read[Len(read)]), Over = 1,
             sent[Arrived + 1].type # "PUBLISH"
      PROVE  Reads
  <2>1. /\ Len(read) = Arrived + 1 /\ DOMAIN read = 1..Arrived+1
        /\ \A i \in 1..Arrived : read[i] = sent[i]
    BY <1>1, <1>4, BeyondIs
  <2>2. Arrived \in Nat
    BY <1>2
  <2>3. \A i \in DOMAIN read : i <= Arrived => read[i] = sent[i]
    <3> SUFFICES ASSUME NEW i \in 1..Arrived+1, i <= Arrived PROVE read[i] = sent[i]
      BY <2>1
    <3>1. i \in 1..Arrived
      BY <2>2
    <3> QED  BY <2>1, <3>1
  <2>4. Len(read) >= Arrived
    BY <2>1, <2>2
  <2> QED  BY <1>4, <2>1, <2>3, <2>4
<1>5. Reads
  BY <1>3, <1>4 DEF PacketInv
<1> QED  BY <1>1, <1>5 DEF ReadsWhatWasWritten

\* For every stream of packets a program can make, and wherever it breaks off: the
\* packets that arrived whole are read as they were written, and reading ends, or
\* does not end, as the place of the break says.
THEOREM PacketsRead == PacketSpec => []ReadsWhatWasWritten
<1>1. PacketInit => PacketInv
  BY PacketInvInit
<1>2. PacketInv /\ [PacketNext]_pvars => PacketInv'
  BY PacketInvStep
<1>3. PacketInv => ReadsWhatWasWritten
  BY PacketInvReads
<1> QED  BY <1>1, <1>2, <1>3, PTL DEF PacketSpec
=============================================================================
