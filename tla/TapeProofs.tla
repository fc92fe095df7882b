------------------------------ MODULE TapeProofs ------------------------------
(***************************************************************************)
(* What stands on a tape after any number of saves, loads, kills and       *)
(* damaged bytes, for blocks of any size and any contents.                 *)
(***************************************************************************)
EXTENDS TapeSession, SequenceTheorems, FiniteSetTheorems, TLAPS

-----------------------------------------------------------------------------
(* The checksum.                                                           *)

Weights == {1, 2, 4, 8, 16, 32, 64, 128}
BitOf(d, w) == (d \div w) % 2

LEMMA BitIsBit == \A d \in Byte, w \in Weights : BitOf(d, w) \in {0, 1}
  BY DEF BitOf, Byte, Weights

LEMMA BitsTellBytes ==
    ASSUME NEW a \in Byte, NEW b \in Byte, \A w \in Weights : BitOf(a, w) = BitOf(b, w)
    PROVE  a = b
<1>1. \A d \in Byte :
          d = BitOf(d, 1) + 2 * BitOf(d, 2) + 4 * BitOf(d, 4) + 8 * BitOf(d, 8)
                + 16 * BitOf(d, 16) + 32 * BitOf(d, 32) + 64 * BitOf(d, 64) + 128 * BitOf(d, 128)
  BY SMTT(40) DEF BitOf, Byte
<1>2. \A w \in Weights : BitOf(a, w) \in Int
  BY DEF BitOf, Byte, Weights
<1> QED BY <1>1 DEF Weights

LEMMA OnesFinite ==
    ASSUME NEW s \in Seq(Byte), NEW w
    PROVE  IsFiniteSet(Ones(s, w)) /\ Cardinality(Ones(s, w)) \in Nat
<1>1. IsFiniteSet(1 .. Len(s))
  BY FS_Interval, LenProperties
<1>2. Ones(s, w) \in SUBSET (1 .. Len(s))
  BY LenProperties DEF Ones
<1> QED BY <1>1, <1>2, FS_Subset, FS_CardinalityType

LEMMA ParityBit ==
    ASSUME NEW s \in Seq(Byte), NEW w
    PROVE  Parity(s, w) \in {0, 1}
  BY OnesFinite DEF Parity

(* Eight bits and the sum that they make.                                  *)
Sum8(f) ==
    f[1] + 2 * f[2] + 4 * f[4] + 8 * f[8] + 16 * f[16] + 32 * f[32] + 64 * f[64] + 128 * f[128]

LEMMA SumInByte ==
    ASSUME NEW f \in [Weights -> {0, 1}]
    PROVE  Sum8(f) \in Byte
<1>1. \A w \in Weights : f[w] \in {0, 1}
  OBVIOUS
<1> QED BY <1>1 DEF Sum8, Weights, Byte

LEMMA LowBit ==
    ASSUME NEW a \in {0, 1}, NEW b \in {0, 1}, NEW x \in Int, NEW y \in Int, a + 2 * x = b + 2 * y
    PROVE  a = b /\ x = y
  OBVIOUS

LEMMA SumTellsBits ==
    ASSUME NEW f \in [Weights -> {0, 1}], NEW g \in [Weights -> {0, 1}], Sum8(f) = Sum8(g)
    PROVE  \A w \in Weights : f[w] = g[w]
<1> DEFINE a1 == f[1]    b1 == g[1]
           a2 == f[2]    b2 == g[2]
           a3 == f[4]    b3 == g[4]
           a4 == f[8]    b4 == g[8]
           a5 == f[16]    b5 == g[16]
           a6 == f[32]    b6 == g[32]
           a7 == f[64]    b7 == g[64]
           a8 == f[128]    b8 == g[128]
<1>1. \A w \in Weights : f[w] \in {0, 1} /\ g[w] \in {0, 1}
  OBVIOUS
<1>2. /\ a1 \in {0, 1} /\ a2 \in {0, 1} /\ a3 \in {0, 1} /\ a4 \in {0, 1}
      /\ a5 \in {0, 1} /\ a6 \in {0, 1} /\ a7 \in {0, 1} /\ a8 \in {0, 1}
      /\ b1 \in {0, 1} /\ b2 \in {0, 1} /\ b3 \in {0, 1} /\ b4 \in {0, 1}
      /\ b5 \in {0, 1} /\ b6 \in {0, 1} /\ b7 \in {0, 1} /\ b8 \in {0, 1}
  BY <1>1 DEF Weights
<1>3. a1 + 2 * a2 + 4 * a3 + 8 * a4 + 16 * a5 + 32 * a6 + 64 * a7 + 128 * a8
        = b1 + 2 * b2 + 4 * b3 + 8 * b4 + 16 * b5 + 32 * b6 + 64 * b7 + 128 * b8
  BY DEF Sum8
<1>4. ASSUME a1 = b1, a2 = b2, a3 = b3, a4 = b4, a5 = b5, a6 = b6, a7 = b7, a8 = b8
      PROVE  \A w \in Weights : f[w] = g[w]
  BY <1>4 DEF Weights
<1> HIDE DEF a1, b1, a2, b2, a3, b3, a4, b4, a5, b5, a6, b6, a7, b7, a8, b8
<1> DEFINE x7 == a8              y7 == b8
           x6 == a7 + 2 * x7    y6 == b7 + 2 * y7
           x5 == a6 + 2 * x6    y5 == b6 + 2 * y6
           x4 == a5 + 2 * x5    y4 == b5 + 2 * y5
           x3 == a4 + 2 * x4    y3 == b4 + 2 * y4
           x2 == a3 + 2 * x3    y2 == b3 + 2 * y3
           x1 == a2 + 2 * x2    y1 == b2 + 2 * y2
<1>5. x1 \in Int /\ x2 \in Int /\ x3 \in Int /\ x4 \in Int /\ x5 \in Int /\ x6 \in Int /\ x7 \in Int
  BY <1>2
<1>6. y1 \in Int /\ y2 \in Int /\ y3 \in Int /\ y4 \in Int /\ y5 \in Int /\ y6 \in Int /\ y7 \in Int
  BY <1>2
<1>7. a1 + 2 * x1 = b1 + 2 * y1
  BY <1>2, <1>3
<1>8. a1 = b1 /\ x1 = y1
  <2> HIDE DEF x1, y1
  <2> QED BY <1>2, <1>5, <1>6, <1>7, LowBit
<1>9. a2 = b2 /\ x2 = y2
  <2> HIDE DEF x2, y2
  <2> QED BY <1>2, <1>5, <1>6, <1>8, LowBit
<1>10. a3 = b3 /\ x3 = y3
  <2> HIDE DEF x3, y3
  <2> QED BY <1>2, <1>5, <1>6, <1>9, LowBit
<1>11. a4 = b4 /\ x4 = y4
  <2> HIDE DEF x4, y4
  <2> QED BY <1>2, <1>5, <1>6, <1>10, LowBit
<1>12. a5 = b5 /\ x5 = y5
  <2> HIDE DEF x5, y5
  <2> QED BY <1>2, <1>5, <1>6, <1>11, LowBit
<1>13. a6 = b6 /\ x6 = y6
  <2> HIDE DEF x6, y6
  <2> QED BY <1>2, <1>5, <1>6, <1>12, LowBit
<1>14. a7 = b7 /\ x7 = y7
  <2> HIDE DEF x7, y7
  <2> QED BY <1>2, <1>5, <1>6, <1>13, LowBit
<1> QED BY <1>4, <1>8, <1>9, <1>10, <1>11, <1>12, <1>13, <1>14

Parities(s) == [w \in Weights |-> Parity(s, w)]

LEMMA ChecksumIsSum ==
    ASSUME NEW s \in Seq(Byte)
    PROVE  Parities(s) \in [Weights -> {0, 1}] /\ Checksum(s) = Sum8(Parities(s))
<1>1. \A w \in Weights : Parity(s, w) \in {0, 1}
  BY ParityBit
<1>2. \A w \in Weights : Parities(s)[w] = Parity(s, w)
  BY DEF Parities
<1> QED BY <1>1, <1>2 DEF Parities, Sum8, Checksum, Weights

LEMMA ChecksumInByte == \A s \in Seq(Byte) : Checksum(s) \in Byte
  BY ChecksumIsSum, SumInByte

LEMMA ChecksumTellsParities ==
    ASSUME NEW s \in Seq(Byte), NEW t \in Seq(Byte), Checksum(s) = Checksum(t)
    PROVE  \A w \in Weights : Parity(s, w) = Parity(t, w)
<1>1. \A w \in Weights : Parities(s)[w] = Parities(t)[w]
  BY ChecksumIsSum, SumTellsBits
<1> QED BY <1>1 DEF Parities

LEMMA NextParity == \A c \in Nat : (c + 1) % 2 # c % 2
  OBVIOUS

(* One byte changed, one bit of it: the number of ones there changes by 1. *)
LEMMA ParityTellsBit ==
    ASSUME NEW s \in Seq(Byte), NEW t \in Seq(Byte), Len(s) = Len(t), NEW d \in 1 .. Len(s),
           \A i \in 1 .. Len(s) : i # d => s[i] = t[i],
           NEW w \in Weights, Parity(s, w) = Parity(t, w)
    PROVE  BitOf(s[d], w) = BitOf(t[d], w)
<1>0. DOMAIN s = 1 .. Len(s) /\ DOMAIN t = 1 .. Len(s)
  BY LenProperties
<1>1. \A i \in 1 .. Len(s) : i # d => (i \in Ones(s, w) <=> i \in Ones(t, w))
  BY <1>0 DEF Ones
<1>2. s[d] \in Byte /\ t[d] \in Byte
  BY ElementOfSeq
<1>3. BitOf(s[d], w) \in {0, 1} /\ BitOf(t[d], w) \in {0, 1}
  BY <1>2, BitIsBit
<1>4. (d \in Ones(s, w) <=> BitOf(s[d], w) = 1) /\ (d \in Ones(t, w) <=> BitOf(t[d], w) = 1)
  BY <1>0 DEF Ones, BitOf
<1>5. Ones(s, w) \subseteq 1 .. Len(s) /\ Ones(t, w) \subseteq 1 .. Len(s)
  BY <1>0 DEF Ones
<1>6. ASSUME d \in Ones(s, w), d \notin Ones(t, w) PROVE FALSE
  <2>1. Ones(s, w) = Ones(t, w) \cup {d}
    BY <1>1, <1>5, <1>6
  <2>2. Cardinality(Ones(s, w)) = Cardinality(Ones(t, w)) + 1
    BY <1>6, <2>1, OnesFinite, FS_AddElement
  <2> QED BY <2>2, OnesFinite, NextParity DEF Parity
<1>7. ASSUME d \in Ones(t, w), d \notin Ones(s, w) PROVE FALSE
  <2>1. Ones(t, w) = Ones(s, w) \cup {d}
    BY <1>1, <1>5, <1>7
  <2>2. Cardinality(Ones(t, w)) = Cardinality(Ones(s, w)) + 1
    BY <1>7, <2>1, OnesFinite, FS_AddElement
  <2> QED BY <2>2, OnesFinite, NextParity DEF Parity
<1> QED BY <1>3, <1>4, <1>6, <1>7

(* The exclusive or of a block tells any change of a single byte: the      *)
(* reason why LOAD's comparison notices one (kSaveHex and kLoadHex, $44).  *)
THEOREM OneByteDamageDetected ==
    ASSUME NEW s \in Seq(Byte), NEW t \in Seq(Byte), Len(s) = Len(t), NEW d \in 1 .. Len(s),
           s[d] # t[d], \A i \in 1 .. Len(s) : i # d => s[i] = t[i]
    PROVE  Checksum(s) # Checksum(t)
<1> SUFFICES ASSUME Checksum(s) = Checksum(t) PROVE FALSE
  OBVIOUS
<1>1. \A w \in Weights : BitOf(s[d], w) = BitOf(t[d], w)
  BY ChecksumTellsParities, ParityTellsBit
<1> QED BY <1>1, BitsTellBytes, ElementOfSeq

-----------------------------------------------------------------------------
(* Blocks on a tape.                                                       *)

Savable == {d \in Seq(Byte) : Len(d) \in 1 .. MaxLength}

LEMMA HeaderBytes ==
    \A n \in Nat : n <= MaxLength =>
        /\ n % 256 \in Byte /\ n \div 256 \in Byte
        /\ (n % 256) + 256 * (n \div 256) = n
  BY DEF Byte, MaxLength

LEMMA BlockShape ==
    ASSUME NEW data \in Savable
    PROVE  /\ Block(data) \in Seq(Byte) /\ Len(Block(data)) = Size(data)
           /\ Block(data)[1] = Len(data) % 256 /\ Block(data)[2] = Len(data) \div 256
           /\ \A i \in 1 .. Len(data) : Block(data)[i + 2] = data[i]
           /\ Block(data)[Len(data) + 3] = Checksum(data)
<1> DEFINE lo == Len(data) % 256
           hi == Len(data) \div 256
           c == Checksum(data)
<1>1. data \in Seq(Byte) /\ Len(data) \in Nat /\ Len(data) >= 1 /\ Len(data) <= MaxLength
  BY LenProperties DEF Savable
<1>2. lo \in Byte /\ hi \in Byte /\ c \in Byte
  BY <1>1, HeaderBytes, ChecksumInByte
<1>3. Block(data) = <<lo, hi>> \o data \o <<c>> /\ Size(data) = Len(data) + 3
  BY DEF Block, Size
<1> HIDE DEF lo, hi, c
<1>4. <<lo, hi>> \in Seq(Byte) /\ <<c>> \in Seq(Byte)
  BY <1>2
<1>5. /\ <<lo, hi>> \o data \in Seq(Byte)
      /\ Len(<<lo, hi>> \o data) = Len(data) + 2
      /\ (<<lo, hi>> \o data)[1] = lo /\ (<<lo, hi>> \o data)[2] = hi
      /\ \A i \in 1 .. Len(data) : (<<lo, hi>> \o data)[i + 2] = data[i]
  BY <1>1, <1>2, <1>4
<1>6. /\ Block(data) \in Seq(Byte) /\ Len(Block(data)) = Len(data) + 3
      /\ \A i \in 1 .. Len(data) + 2 : Block(data)[i] = (<<lo, hi>> \o data)[i]
      /\ Block(data)[Len(data) + 3] = c
  BY <1>1, <1>2, <1>3, <1>4, <1>5
<1>7. /\ Block(data)[1] = lo /\ Block(data)[2] = hi
      /\ \A i \in 1 .. Len(data) : Block(data)[i + 2] = data[i]
  <2>1. /\ 1 \in 1 .. Len(data) + 2 /\ 2 \in 1 .. Len(data) + 2
        /\ \A i \in 1 .. Len(data) : i + 2 \in 1 .. Len(data) + 2
    BY <1>1
  <2> QED BY <1>5, <1>6, <2>1
<1> QED BY <1>3, <1>6, <1>7 DEF lo, hi, c

(* Blocks of the same size begin with the same header.                     *)
LEMMA SameHeader ==
    ASSUME NEW a \in Savable, NEW b \in Savable, Len(a) = Len(b)
    PROVE  Size(a) = Size(b) /\ Block(a)[1] = Block(b)[1] /\ Block(a)[2] = Block(b)[2]
  BY BlockShape DEF Size

LEMMA RecordedShape ==
    ASSUME NEW t \in Seq(Byte), NEW p \in 0 .. Len(t), NEW bytes \in Seq(Byte)
    PROVE  /\ Recorded(t, p, bytes) \in Seq(Byte)
           /\ Len(Recorded(t, p, bytes)) =
                 IF p + Len(bytes) > Len(t) THEN p + Len(bytes) ELSE Len(t)
           /\ Len(Recorded(t, p, bytes)) >= Len(t)
           /\ Len(Recorded(t, p, bytes)) >= p + Len(bytes)
           /\ \A i \in 1 .. Len(bytes) : Recorded(t, p, bytes)[p + i] = bytes[i]
           /\ \A i \in 1 .. Len(t) :
                  i <= p \/ i > p + Len(bytes) => Recorded(t, p, bytes)[i] = t[i]
<1> DEFINE n == IF p + Len(bytes) > Len(t) THEN p + Len(bytes) ELSE Len(t)
           r == Recorded(t, p, bytes)
<1>1. Len(t) \in Nat /\ Len(bytes) \in Nat /\ n \in Nat /\ n >= Len(t) /\ n >= p + Len(bytes)
  BY LenProperties
<1>2. r = [i \in 1 .. n |-> IF i \in p + 1 .. p + Len(bytes) THEN bytes[i - p] ELSE t[i]]
  BY DEF Recorded
<1>3. \A i \in 1 .. n : r[i] = IF i \in p + 1 .. p + Len(bytes) THEN bytes[i - p] ELSE t[i]
  BY <1>2
<1>4. \A i \in 1 .. n : r[i] \in Byte
  <2> SUFFICES ASSUME NEW i \in 1 .. n PROVE r[i] \in Byte
    OBVIOUS
  <2>1. CASE i \in p + 1 .. p + Len(bytes)
    <3>1. i - p \in 1 .. Len(bytes) /\ r[i] = bytes[i - p]
      BY <1>1, <1>3, <2>1
    <3> QED BY <3>1, ElementOfSeq
  <2>2. CASE i \notin p + 1 .. p + Len(bytes)
    <3>1. i \in 1 .. Len(t) /\ r[i] = t[i]
      BY <1>1, <1>3, <2>2
    <3> QED BY <3>1, ElementOfSeq
  <2> QED BY <2>1, <2>2
<1>5. r \in [1 .. n -> Byte]
  BY <1>2, <1>4
<1> HIDE DEF n, r
<1>6. r \in Seq(Byte) /\ Len(r) = n
  BY <1>1, <1>5
<1>7. \A i \in 1 .. Len(bytes) : r[p + i] = bytes[i]
  BY <1>1, <1>3
<1>8. \A i \in 1 .. Len(t) : i <= p \/ i > p + Len(bytes) => r[i] = t[i]
  BY <1>1, <1>3
<1> QED BY <1>1, <1>6, <1>7, <1>8 DEF n, r

(* The bytes of b stand on t: its header always, the rest as it was saved  *)
(* if it is sound, and but for one byte if it is damaged.                  *)
End(b) == b.at + Size(b.data)
Same(t, b, i) == t[b.at + i] = Block(b.data)[i]
Standing(t, b) ==
    /\ b \in KeptBlock /\ b.data \in Savable
    /\ End(b) <= Len(t)
    /\ Same(t, b, 1) /\ Same(t, b, 2)
    /\ b.state = "sound" => \A i \in 3 .. Size(b.data) : Same(t, b, i)
    /\ b.state = "damaged" =>
           \E d \in 3 .. Size(b.data) :
               ~Same(t, b, d) /\ \A i \in 3 .. Size(b.data) : i # d => Same(t, b, i)

LEMMA BlockBounds ==
    ASSUME NEW t \in Seq(Byte), NEW b, Standing(t, b)
    PROVE  /\ b.at \in Nat /\ Len(b.data) \in Nat /\ Len(b.data) >= 1 /\ Size(b.data) = Len(b.data) + 3
           /\ End(b) = b.at + Len(b.data) + 3 /\ End(b) <= Len(t) /\ Len(t) \in Nat
  BY LenProperties DEF Standing, KeptBlock, Savable, Size, End

(* What is written elsewhere leaves a block standing.                      *)
LEMMA Untouched ==
    ASSUME NEW t \in Seq(Byte), NEW u \in Seq(Byte), NEW b, Standing(t, b),
           End(b) <= Len(u), \A i \in b.at + 1 .. End(b) : u[i] = t[i]
    PROVE  Standing(u, b)
<1>1. \A i \in 1 .. Size(b.data) : Same(u, b, i) <=> Same(t, b, i)
  BY BlockBounds, SMTT(40) DEF Same, End
<1>2. 1 \in 1 .. Size(b.data) /\ 2 \in 1 .. Size(b.data)
  BY BlockBounds
<1>3. \A i \in 3 .. Size(b.data) : i \in 1 .. Size(b.data)
  BY BlockBounds
<1> QED BY <1>1, <1>2, <1>3 DEF Standing

(* SAVE puts a sound block at the head.                                    *)
LEMMA SavedStands ==
    ASSUME NEW t \in Seq(Byte), NEW p \in 0 .. Len(t), NEW data \in Savable
    PROVE  Standing(Recorded(t, p, Block(data)), [at |-> p, data |-> data, state |-> "sound"])
<1> DEFINE b == [at |-> p, data |-> data, state |-> "sound"]
           u == Recorded(t, p, Block(data))
<1>1. Block(data) \in Seq(Byte) /\ Len(Block(data)) = Size(data) /\ Size(data) \in Nat
  BY BlockShape, LenProperties
<1>2. Len(u) >= p + Size(data) /\ \A i \in 1 .. Size(data) : u[p + i] = Block(data)[i]
  BY <1>1, RecordedShape
<1>3. b \in KeptBlock /\ b.data = data /\ b.at = p /\ b.state = "sound"
  BY LenProperties DEF KeptBlock, Savable
<1>4. Size(data) >= 3
  BY LenProperties DEF Savable, Size
<1> HIDE DEF b, u
<1>5. Same(u, b, 1) /\ Same(u, b, 2) /\ \A i \in 3 .. Size(data) : Same(u, b, i)
  BY <1>1, <1>2, <1>3, <1>4 DEF Same
<1> QED BY <1>2, <1>3, <1>5 DEF Standing, End, u, b

(* A save of the same size that is cut leaves the header.                  *)
LEMMA CutStands ==
    ASSUME NEW t \in Seq(Byte), NEW b, Standing(t, b), NEW data \in Savable,
           Len(data) = Len(b.data), NEW n \in 1 .. Size(data) - 1
    PROVE  Standing(Recorded(t, b.at, SubSeq(Block(data), 1, n)), [b EXCEPT !.state = "torn"])
<1> DEFINE c == [b EXCEPT !.state = "torn"]
           cut == SubSeq(Block(data), 1, n)
           u == Recorded(t, b.at, cut)
<1>1. b.at \in 0 .. Len(t) /\ Size(data) = Size(b.data) /\ Size(data) \in Nat
  BY BlockBounds, SameHeader DEF Standing
<1>2. /\ cut \in Seq(Byte) /\ Len(cut) = n
      /\ \A i \in 1 .. n : cut[i] = Block(data)[i]
  BY <1>1, BlockShape
<1>3. /\ c \in KeptBlock /\ c.data = b.data /\ c.at = b.at
      /\ c.state # "sound" /\ c.state # "damaged"
  BY DEF Standing, KeptBlock
<1>4. /\ Len(u) >= Len(t)
      /\ \A i \in 1 .. n : u[b.at + i] = Block(data)[i]
      /\ \A i \in 1 .. Len(t) : i <= b.at \/ i > b.at + n => u[i] = t[i]
  <2> HIDE DEF cut
  <2>1. /\ Len(u) >= Len(t)
        /\ \A i \in 1 .. Len(cut) : u[b.at + i] = cut[i]
        /\ \A i \in 1 .. Len(t) : i <= b.at \/ i > b.at + Len(cut) => u[i] = t[i]
    BY <1>1, <1>2, RecordedShape
  <2> HIDE DEF u
  <2> QED BY <1>2, <2>1
<1>5. Block(data)[1] = Block(b.data)[1] /\ Block(data)[2] = Block(b.data)[2]
  BY SameHeader DEF Standing
<1> HIDE DEF c, cut, u
<1>6. Same(u, c, 1)
  BY <1>3, <1>4, <1>5 DEF Same
<1>7. Same(u, c, 2)
  <2>1. CASE n >= 2
    BY <1>3, <1>4, <1>5, <2>1 DEF Same
  <2>2. CASE n < 2
    <3>1. b.at + 2 \in 1 .. Len(t) /\ b.at + 2 > b.at + n
      BY <2>2, BlockBounds, SMTT(40)
    <3>2. u[b.at + 2] = t[b.at + 2]
      BY <1>4, <3>1
    <3> QED BY <1>3, <3>2 DEF Same, Standing
  <2> QED BY <2>1, <2>2
<1>8. End(c) <= Len(u) /\ c.data \in Savable
  BY <1>3, <1>4, BlockBounds, SMTT(40) DEF End, Standing
<1> QED BY <1>3, <1>6, <1>7, <1>8 DEF Standing, c, u, cut

(* One byte of a sound block changed: it is damaged.                       *)
LEMMA DamagedStands ==
    ASSUME NEW t \in Seq(Byte), NEW b, Standing(t, b), b.state = "sound",
           NEW i \in 1 .. Len(b.data) + 1, NEW v \in Byte, t[b.at + 2 + i] # v
    PROVE  /\ [t EXCEPT ![b.at + 2 + i] = v] \in Seq(Byte)
           /\ Standing([t EXCEPT ![b.at + 2 + i] = v], [b EXCEPT !.state = "damaged"])
<1> DEFINE c == [b EXCEPT !.state = "damaged"]
           u == [t EXCEPT ![b.at + 2 + i] = v]
           d == i + 2
<1>0. /\ b.at \in Nat /\ Size(b.data) = Len(b.data) + 3 /\ End(b) = b.at + Size(b.data)
      /\ Len(b.data) \in Nat /\ End(b) <= Len(t) /\ Len(t) \in Nat
  BY BlockBounds, SMTT(40)
<1>1. /\ d \in 3 .. Size(b.data) /\ b.at + 2 + i = b.at + d /\ b.at + d \in 1 .. Len(t)
      /\ b.at \in Nat /\ Size(b.data) \in Nat /\ End(b) = b.at + Size(b.data)
  BY <1>0, SMTT(40)
<1>2. u \in Seq(Byte) /\ Len(u) = Len(t) /\ \A j \in 1 .. Len(t) : u[j] = IF j = b.at + d THEN v ELSE t[j]
  BY <1>1, ExceptSeq, SMTT(40)
<1>3. /\ c \in KeptBlock /\ c.data = b.data /\ c.at = b.at
      /\ c.state # "sound" /\ c.state = "damaged"
  BY DEF Standing, KeptBlock
<1>4. t[b.at + d] # v
  BY <1>1
<1> HIDE DEF c, u, d
<1>5. \A j \in 1 .. Size(b.data) : b.at + j \in 1 .. Len(t)
  BY <1>0, SMTT(40)
<1>6. \A j \in 1 .. Size(b.data) : j # d => (Same(u, c, j) <=> Same(t, b, j))
  <2> SUFFICES ASSUME NEW j \in 1 .. Size(b.data), j # d
               PROVE  u[b.at + j] = t[b.at + j]
    BY <1>3 DEF Same
  <2>1. b.at + j # b.at + d
    BY <1>1, SMTT(40)
  <2> QED BY <1>2, <1>5, <2>1
<1>7. \A j \in 3 .. Size(b.data) : Same(t, b, j)
  BY DEF Standing
<1>8. ~Same(u, c, d)
  BY <1>1, <1>2, <1>3, <1>4, <1>7 DEF Same
<1>9. Same(u, c, 1) /\ Same(u, c, 2)
  BY <1>1, <1>6, SMTT(40) DEF Standing
<1>10. \A j \in 3 .. Size(b.data) : j # d => Same(u, c, j)
  BY <1>1, <1>6, <1>7
<1>11. End(c) <= Len(u) /\ c.data \in Savable
  BY <1>2, <1>3 DEF End, Standing
<1> QED BY <1>1, <1>2, <1>3, <1>8, <1>9, <1>10, <1>11 DEF Standing, c, u

(* LOAD finds a standing block whole and of its size, and the next one     *)
(* right behind it.                                                        *)
LEMMA StandingIsRead ==
    ASSUME NEW t \in Seq(Byte), NEW b, Standing(t, b)
    PROVE  /\ WholeAt(t, b.at) /\ Wanted(t, b.at) = Len(b.data)
           /\ DataAt(t, b.at) \in Seq(Byte) /\ Len(DataAt(t, b.at)) = Len(b.data)
           /\ \A i \in 1 .. Len(b.data) : DataAt(t, b.at)[i] = t[b.at + (i + 2)]
<1> DEFINE n == Len(b.data)
<1>1. /\ b.at \in Nat /\ n \in Nat /\ n >= 1 /\ n <= MaxLength
      /\ b.at + n + 3 <= Len(t) /\ Len(t) \in Nat /\ b.data \in Savable
  BY BlockBounds DEF Standing, Savable
<1>2. t[b.at + 1] = n % 256 /\ t[b.at + 2] = n \div 256
  BY <1>1, BlockShape DEF Standing, Same
<1>3. HeaderAt(t, b.at)
  BY <1>1 DEF HeaderAt
<1>4. Wanted(t, b.at) = n
  BY <1>1, <1>2, <1>3, HeaderBytes, ZenonT(40) DEF Wanted
<1>5. WholeAt(t, b.at)
  BY <1>1, <1>3, <1>4 DEF WholeAt
<1>6. DataAt(t, b.at) = SubSeq(t, b.at + 3, b.at + 2 + n)
  <2>1. ~(b.at + 2 + n > Len(t))
    BY <1>1
  <2> QED BY <1>4, <2>1, Zenon DEF DataAt
<1>7. /\ SubSeq(t, b.at + 3, b.at + 2 + n) \in Seq(Byte)
      /\ Len(SubSeq(t, b.at + 3, b.at + 2 + n)) = n
      /\ \A i \in 1 .. n : SubSeq(t, b.at + 3, b.at + 2 + n)[i] = t[b.at + (i + 2)]
  <2> DEFINE p == b.at + 3
             q == b.at + 2 + n
  <2> HIDE DEF n
  <2>1. p \in Int /\ q \in Int /\ q - p + 1 = n /\ p <= q /\ p >= 1 /\ q <= Len(t)
    BY <1>1, SMTT(40)
  <2>2. \A i \in 1 .. n : p + i - 1 = b.at + (i + 2)
    BY <1>1, SMTT(40)
  <2> HIDE DEF p, q
  <2>3. \A i \in p .. q : t[i] \in Byte
    BY <2>1, ElementOfSeq
  <2>4. /\ SubSeq(t, p, q) \in Seq(Byte)
        /\ Len(SubSeq(t, p, q)) = n
        /\ \A i \in 1 .. n : SubSeq(t, p, q)[i] = t[p + i - 1]
    BY <2>1, <2>3, SubSeqProperties
  <2> QED BY <2>2, <2>4 DEF p, q
<1> QED BY <1>4, <1>5, <1>6, <1>7

LEMMA SoundReadsBack ==
    ASSUME NEW t \in Seq(Byte), NEW b, Standing(t, b), b.state = "sound"
    PROVE  DataAt(t, b.at) = b.data /\ ChecksumMatches(t, b.at)
<1>1. /\ b.at \in Nat /\ Len(b.data) \in Nat /\ Size(b.data) = Len(b.data) + 3
      /\ Len(b.data) >= 1 /\ b.data \in Savable /\ b.data \in Seq(Byte)
  BY BlockBounds DEF Standing, Savable
<1>2. \A i \in 3 .. Size(b.data) : t[b.at + i] = Block(b.data)[i]
  BY DEF Standing, Same
<1>3. \A i \in 1 .. Len(b.data) : DataAt(t, b.at)[i] = b.data[i]
  <2> SUFFICES ASSUME NEW i \in 1 .. Len(b.data) PROVE DataAt(t, b.at)[i] = b.data[i]
    OBVIOUS
  <2>1. DataAt(t, b.at)[i] = t[b.at + (i + 2)]
    BY StandingIsRead
  <2>2. i + 2 \in 3 .. Size(b.data)
    BY <1>1
  <2>3. Block(b.data)[i + 2] = b.data[i]
    BY <1>1, BlockShape
  <2> QED BY <1>2, <2>1, <2>2, <2>3
<1>4. DataAt(t, b.at) = b.data
  <2>1. DataAt(t, b.at) \in Seq(Byte) /\ Len(DataAt(t, b.at)) = Len(b.data)
    BY StandingIsRead
  <2> QED BY <1>1, <1>3, <2>1, SeqEqual
<1>5. t[b.at + Len(b.data) + 3] = Checksum(b.data)
  <2>0. Len(b.data) + 3 \in 3 .. Size(b.data)
    BY <1>1
  <2>1. t[b.at + (Len(b.data) + 3)] = Checksum(b.data)
    BY <1>1, <1>2, <2>0, BlockShape, ZenonT(40)
  <2> QED BY <1>1, <2>1
<1> QED BY <1>4, <1>5, StandingIsRead DEF ChecksumMatches

LEMMA DamageIsNoticed ==
    ASSUME NEW t \in Seq(Byte), NEW b, Standing(t, b), b.state = "damaged"
    PROVE  ~ChecksumMatches(t, b.at)
<1> DEFINE n == Len(b.data)
           r == DataAt(t, b.at)
<1>1. /\ b.at \in Nat /\ n \in Nat /\ n >= 1 /\ Size(b.data) = n + 3
      /\ b.data \in Savable /\ b.data \in Seq(Byte)
  BY BlockBounds DEF Standing, Savable
<1>2. PICK d \in 3 .. Size(b.data) :
          /\ t[b.at + d] # Block(b.data)[d]
          /\ \A i \in 3 .. Size(b.data) : i # d => t[b.at + i] = Block(b.data)[i]
  BY DEF Standing, Same
<1>3. /\ r \in Seq(Byte) /\ Len(r) = n /\ \A i \in 1 .. n : r[i] = t[b.at + (i + 2)]
      /\ \A i \in 1 .. n : b.data[i] = Block(b.data)[i + 2]
      /\ Block(b.data)[n + 3] = Checksum(b.data)
  BY <1>1, StandingIsRead, BlockShape, SMTT(40)
<1>4. ChecksumMatches(t, b.at) <=> Checksum(r) = t[b.at + (n + 3)]
  <2>1. b.at + n + 3 = b.at + (n + 3)
    BY <1>1
  <2> QED BY <2>1, StandingIsRead DEF ChecksumMatches
<1> HIDE DEF n, r
<1>5. CASE d = n + 3
  <2>0. \A i \in 1 .. n : i + 2 \in 3 .. Size(b.data) /\ i + 2 # d
    BY <1>1, <1>5
  <2>1. \A i \in 1 .. n : r[i] = b.data[i]
    BY <1>2, <1>3, <2>0
  <2>2. r = b.data
    BY <1>1, <1>3, <2>1, SeqEqual DEF n
  <2> QED BY <1>2, <1>3, <1>4, <1>5, <2>2
<1>6. CASE d # n + 3
  <2>1. d - 2 \in 1 .. n /\ (d - 2) + 2 = d
    BY <1>1, <1>6
  <2>2. r[d - 2] # b.data[d - 2]
    BY <1>2, <1>3, <2>1
  <2>3. \A i \in 1 .. n : i # d - 2 => r[i] = b.data[i]
    <3>1. \A i \in 1 .. n : i + 2 \in 3 .. Size(b.data) /\ (i # d - 2 => i + 2 # d)
      BY <1>1
    <3> QED BY <1>2, <1>3, <3>1
  <2>4. Checksum(r) # Checksum(b.data)
    BY <1>1, <1>3, <2>1, <2>2, <2>3, OneByteDamageDetected DEF n
  <2>5. t[b.at + (n + 3)] = Checksum(b.data)
    <3>1. n + 3 \in 3 .. Size(b.data)
      BY <1>1
    <3> QED BY <1>2, <1>3, <1>6, <3>1
  <2> QED BY <1>4, <2>4, <2>5
<1> QED BY <1>5, <1>6

-----------------------------------------------------------------------------
(* The blocks kept, one behind the other from the start of the tape.       *)

Start(ks, k) == IF k <= Len(ks) THEN ks[k].at ELSE IF k = 1 THEN 0 ELSE End(ks[k - 1])
Chained(ks) == \A k \in 1 .. Len(ks) : ks[k].at = IF k = 1 THEN 0 ELSE End(ks[k - 1])
Ordered(ks) == \A j, k \in 1 .. Len(ks) : j < k => End(ks[j]) <= ks[k].at
WellKept(t, ks) ==
    /\ ks \in Seq(KeptBlock)
    /\ \A k \in 1 .. Len(ks) : Standing(t, ks[k])
    /\ Chained(ks) /\ Ordered(ks)

LEMMA KeptBounds ==
    ASSUME NEW t \in Seq(Byte), NEW ks, WellKept(t, ks)
    PROVE  /\ Len(ks) \in Nat
           /\ \A k \in 1 .. Len(ks) :
                  /\ Standing(t, ks[k]) /\ ks[k] \in KeptBlock /\ ks[k].at \in Nat
                  /\ End(ks[k]) \in Nat /\ End(ks[k]) <= Len(t)
                  /\ ks[k].at + 4 <= End(ks[k])
<1>1. Len(ks) \in Nat
  BY LenProperties DEF WellKept
<1> SUFFICES ASSUME NEW k \in 1 .. Len(ks)
             PROVE  /\ Standing(t, ks[k]) /\ ks[k] \in KeptBlock /\ ks[k].at \in Nat
                    /\ End(ks[k]) \in Nat /\ End(ks[k]) <= Len(t)
                    /\ ks[k].at + 4 <= End(ks[k])
  BY <1>1
<1>2. Standing(t, ks[k]) /\ ks[k] \in KeptBlock
  BY DEF WellKept, Standing
<1>3. /\ ks[k].at \in Nat /\ Len(ks[k].data) \in Nat /\ Len(ks[k].data) >= 1
      /\ End(ks[k]) = ks[k].at + Len(ks[k].data) + 3 /\ End(ks[k]) <= Len(t)
  BY <1>2, BlockBounds
<1> QED BY <1>2, <1>3

LEMMA StartBounds ==
    ASSUME NEW t \in Seq(Byte), NEW ks, WellKept(t, ks), NEW k \in 1 .. Len(ks) + 1
    PROVE  /\ Start(ks, k) \in Nat /\ Start(ks, k) <= Len(t)
           /\ \A j \in 1 .. Len(ks) : j < k => End(ks[j]) <= Start(ks, k)
           /\ k # 1 => Start(ks, k) = End(ks[k - 1])
           /\ k = 1 => Start(ks, k) = 0
<1>1. Len(ks) \in Nat /\ Len(t) \in Nat /\ k \in Nat /\ k >= 1
  BY KeptBounds, LenProperties
<1>2. CASE k <= Len(ks)
  <2>1. k \in 1 .. Len(ks) /\ Start(ks, k) = ks[k].at
    BY <1>1, <1>2 DEF Start
  <2>2. ks[k].at \in Nat /\ End(ks[k]) \in Nat /\ End(ks[k]) <= Len(t) /\ ks[k].at + 4 <= End(ks[k])
    BY <2>1, KeptBounds
  <2>3. ks[k].at <= Len(t)
    BY <1>1, <2>2
  <2> QED BY <2>1, <2>2, <2>3 DEF WellKept, Chained, Ordered
<1>3. CASE k > Len(ks) /\ k = 1
  BY <1>1, <1>3 DEF Start
<1>4. CASE k > Len(ks) /\ k # 1
  <2>1. k = Len(ks) + 1 /\ Len(ks) \in 1 .. Len(ks) /\ k - 1 = Len(ks)
    BY <1>1, <1>4
  <2>2. Start(ks, k) = End(ks[Len(ks)])
    BY <1>1, <1>4, <2>1 DEF Start
  <2>3. \A j \in 1 .. Len(ks) : ks[j].at \in Nat /\ End(ks[j]) \in Nat /\ ks[j].at + 4 <= End(ks[j])
    BY KeptBounds
  <2>4. ASSUME NEW j \in 1 .. Len(ks)
        PROVE  End(ks[j]) <= End(ks[Len(ks)])
    <3>1. CASE j = Len(ks)
      BY <2>3, <3>1
    <3>2. CASE j < Len(ks)
      <4>1. End(ks[j]) <= ks[Len(ks)].at
        BY <2>1, <3>2 DEF WellKept, Ordered
      <4> QED BY <2>1, <2>3, <4>1
    <3> QED BY <1>1, <3>1, <3>2
  <2>5. End(ks[Len(ks)]) \in Nat /\ End(ks[Len(ks)]) <= Len(t)
    BY <2>1, KeptBounds
  <2> QED BY <1>4, <2>1, <2>2, <2>4, <2>5
<1> QED BY <1>1, <1>2, <1>3, <1>4

(* What is written behind the first k - 1 blocks leaves them.              *)
LEMMA FrontStays ==
    ASSUME NEW t \in Seq(Byte), NEW u \in Seq(Byte), NEW ks, WellKept(t, ks),
           NEW k \in 1 .. Len(ks) + 1, Start(ks, k) <= Len(u),
           \A i \in 1 .. Start(ks, k) : u[i] = t[i]
    PROVE  \A j \in 1 .. Len(ks) : j < k => Standing(u, ks[j])
<1> SUFFICES ASSUME NEW j \in 1 .. Len(ks), j < k PROVE Standing(u, ks[j])
  OBVIOUS
<1>1. /\ Standing(t, ks[j]) /\ ks[j].at \in Nat /\ End(ks[j]) \in Nat
      /\ Start(ks, k) \in Nat /\ End(ks[j]) <= Start(ks, k)
  BY KeptBounds, StartBounds
<1>2. Len(u) \in Nat
  BY LenProperties
<1> HIDE DEF Start
<1>3. End(ks[j]) <= Len(u) /\ \A i \in ks[j].at + 1 .. End(ks[j]) : i \in 1 .. Start(ks, k)
  BY <1>1, <1>2
<1> QED BY <1>1, <1>3, Untouched

(* The blocks from k on are given up, and one more may take their place.   *)
LEMMA CutKept ==
    ASSUME NEW t \in Seq(Byte), NEW u \in Seq(Byte), NEW ks, WellKept(t, ks),
           NEW k \in 1 .. Len(ks) + 1, Start(ks, k) <= Len(u),
           \A i \in 1 .. Start(ks, k) : u[i] = t[i]
    PROVE  /\ SubSeq(ks, 1, k - 1) \in Seq(KeptBlock) /\ Len(SubSeq(ks, 1, k - 1)) = k - 1
           /\ \A i \in 1 .. k - 1 : SubSeq(ks, 1, k - 1)[i] = ks[i]
           /\ WellKept(u, SubSeq(ks, 1, k - 1))
           /\ Start(SubSeq(ks, 1, k - 1), k) = Start(ks, k)
<1> DEFINE s == SubSeq(ks, 1, k - 1)
<1>1. Len(ks) \in Nat /\ k \in Nat /\ k >= 1 /\ k <= Len(ks) + 1 /\ ks \in Seq(KeptBlock)
  BY KeptBounds DEF WellKept
<1>2. \A i \in 1 .. k - 1 : i \in 1 .. Len(ks) /\ i < k /\ ks[i] \in KeptBlock
  BY <1>1, KeptBounds
<1>3. s \in Seq(KeptBlock) /\ Len(s) = k - 1 /\ \A i \in 1 .. k - 1 : s[i] = ks[i]
  <2> DEFINE q == k - 1
  <2>1. q \in Int /\ 1 \in Int /\ (IF 1 <= q THEN q - 1 + 1 ELSE 0) = k - 1 /\ q - 1 + 1 = q
    BY <1>1
  <2>2. \A i \in 1 .. q : 1 + i - 1 = i
    BY <1>1
  <2> HIDE DEF q
  <2>3. \A i \in 1 .. q : ks[i] \in KeptBlock
    BY <1>2 DEF q
  <2>4. /\ SubSeq(ks, 1, q) \in Seq(KeptBlock) /\ Len(SubSeq(ks, 1, q)) = k - 1
        /\ \A i \in 1 .. q : SubSeq(ks, 1, q)[i] = ks[1 + i - 1]
    BY <2>1, <2>3, SubSeqProperties
  <2> QED BY <2>2, <2>4 DEF q
<1> HIDE DEF s
<1>4. \A i \in 1 .. Len(s) : Standing(u, s[i])
  BY <1>2, <1>3, FrontStays
<1>5. Chained(s)
  <2> SUFFICES ASSUME NEW i \in 1 .. Len(s) PROVE s[i].at = IF i = 1 THEN 0 ELSE End(s[i - 1])
    BY DEF Chained
  <2>1. ks[i].at = IF i = 1 THEN 0 ELSE End(ks[i - 1])
    BY <1>2, <1>3 DEF WellKept, Chained
  <2>2. i # 1 => i - 1 \in 1 .. k - 1
    BY <1>1, <1>3
  <2> QED BY <1>3, <2>1, <2>2
<1>6. Ordered(s)
  BY <1>2, <1>3 DEF WellKept, Ordered
<1>7. Start(s, k) = Start(ks, k)
  <2>1. ~(k <= Len(s)) /\ (k # 1 => k - 1 \in 1 .. k - 1)
    BY <1>1, <1>3
  <2>2. Start(s, k) = IF k = 1 THEN 0 ELSE End(s[k - 1])
    BY <2>1 DEF Start
  <2> QED BY <1>3, <2>1, <2>2, StartBounds
<1> QED BY <1>3, <1>4, <1>5, <1>6, <1>7 DEF WellKept, s

LEMMA ExtendKept ==
    ASSUME NEW u \in Seq(Byte), NEW s, WellKept(u, s),
           NEW new, Standing(u, new), new.at = Start(s, Len(s) + 1)
    PROVE  /\ WellKept(u, Append(s, new))
           /\ Start(Append(s, new), Len(Append(s, new)) + 1) = End(new)
<1> DEFINE a == Append(s, new)
           n == Len(s)
<1>1. n \in Nat /\ n + 1 \in 1 .. n + 1 /\ s \in Seq(KeptBlock) /\ new \in KeptBlock
  BY KeptBounds DEF WellKept, Standing
<1>2. /\ a \in Seq(KeptBlock) /\ Len(a) = n + 1 /\ a[n + 1] = new
      /\ \A i \in 1 .. n : a[i] = s[i]
  BY <1>1, AppendProperties
<1>3. /\ \A j \in 1 .. n : End(s[j]) <= new.at
      /\ n + 1 # 1 => new.at = End(s[n + 1 - 1])
      /\ n + 1 = 1 => new.at = 0
  <2>1. \A j \in 1 .. n : j < n + 1
    BY <1>1
  <2> QED BY <1>1, <2>1, StartBounds
<1>4. \A i \in 1 .. n + 1 : i = n + 1 \/ i \in 1 .. n
  BY <1>1
<1>5. \A i \in 1 .. n : i # 1 => i - 1 \in 1 .. n
  BY <1>1
<1> HIDE DEF a
<1>6. \A i \in 1 .. n + 1 : Standing(u, a[i])
  BY <1>2, <1>4 DEF WellKept
<1>7. Chained(a)
  <2> SUFFICES ASSUME NEW i \in 1 .. n + 1 PROVE a[i].at = IF i = 1 THEN 0 ELSE End(a[i - 1])
    BY <1>2 DEF Chained
  <2>1. CASE i \in 1 .. n
    BY <1>2, <1>5, <2>1 DEF WellKept, Chained
  <2>2. CASE i = n + 1
    <3>1. n + 1 # 1 => n + 1 - 1 \in 1 .. n
      BY <1>1
    <3> QED BY <1>2, <1>3, <2>2, <3>1
  <2> QED BY <1>4, <2>1, <2>2
<1>8. Ordered(a)
  <2> SUFFICES ASSUME NEW i \in 1 .. n + 1, NEW j \in 1 .. n + 1, i < j
               PROVE  End(a[i]) <= a[j].at
    BY <1>2 DEF Ordered
  <2>1. i \in 1 .. n
    BY <1>1
  <2>2. CASE j \in 1 .. n
    BY <1>2, <2>1, <2>2 DEF WellKept, Ordered
  <2>3. CASE j = n + 1
    BY <1>2, <1>3, <2>1, <2>3
  <2> QED BY <1>4, <2>2, <2>3
<1>9. Start(a, Len(a) + 1) = End(new)
  <2>1. ~(n + 1 + 1 <= n + 1) /\ n + 1 + 1 # 1 /\ n + 1 + 1 - 1 = n + 1
    BY <1>1
  <2> QED BY <1>2, <2>1 DEF Start
<1> QED BY <1>2, <1>6, <1>7, <1>8, <1>9 DEF WellKept, a

(* A block takes the place of one that ends where it does.                 *)
LEMMA ReplaceKept ==
    ASSUME NEW t \in Seq(Byte), NEW u \in Seq(Byte), NEW ks, WellKept(t, ks),
           NEW k \in 1 .. Len(ks), NEW new, Standing(u, new),
           new.at = ks[k].at, End(new) = End(ks[k]), Len(u) >= Len(t),
           \A i \in 1 .. Len(t) : i <= new.at \/ i > End(new) => u[i] = t[i]
    PROVE  /\ WellKept(u, [ks EXCEPT ![k] = new])
           /\ Len([ks EXCEPT ![k] = new]) = Len(ks)
           /\ \A i \in 1 .. Len(ks) + 1 : Start([ks EXCEPT ![k] = new], i) = Start(ks, i)
<1> DEFINE r == [ks EXCEPT ![k] = new]
<1>1. Len(ks) \in Nat /\ ks \in Seq(KeptBlock) /\ new \in KeptBlock
  BY KeptBounds DEF WellKept, Standing
<1>2. /\ r \in Seq(KeptBlock) /\ Len(r) = Len(ks)
      /\ \A i \in 1 .. Len(ks) : r[i] = IF i = k THEN new ELSE ks[i]
  BY <1>1, ExceptSeq
<1> HIDE DEF r
<1>3. \A i \in 1 .. Len(ks) : r[i].at = ks[i].at /\ End(r[i]) = End(ks[i])
  BY <1>2
<1>4. \A i \in 1 .. Len(ks) : Standing(u, r[i])
  <2> SUFFICES ASSUME NEW i \in 1 .. Len(ks), i # k PROVE Standing(u, ks[i])
    BY <1>2
  <2>1. /\ Standing(t, ks[i]) /\ ks[i].at \in Nat /\ ks[k].at \in Nat
        /\ End(ks[i]) \in Nat /\ End(ks[k]) \in Nat /\ End(ks[i]) <= Len(t)
    BY KeptBounds
  <2>2. End(ks[i]) <= ks[k].at \/ End(ks[k]) <= ks[i].at
    <3>1. i < k \/ k < i
      BY <1>1
    <3> QED BY <3>1 DEF WellKept, Ordered
  <2>3. Len(t) \in Nat /\ Len(u) \in Nat
    BY LenProperties
  <2>4. End(ks[i]) <= Len(u)
    BY <2>1, <2>3
  <2>5. \A x \in ks[i].at + 1 .. End(ks[i]) : x \in 1 .. Len(t) /\ (x <= new.at \/ x > End(new))
    BY <2>1, <2>2, <2>3, SMTT(40)
  <2> QED BY <2>1, <2>4, <2>5, Untouched
<1>5. Chained(r)
  <2>1. \A i \in 1 .. Len(ks) : i # 1 => i - 1 \in 1 .. Len(ks)
    BY <1>1
  <2> QED BY <1>2, <1>3, <2>1 DEF WellKept, Chained
<1>6. Ordered(r)
  BY <1>2, <1>3 DEF WellKept, Ordered
<1>7. \A i \in 1 .. Len(ks) + 1 : Start(r, i) = Start(ks, i)
  <2>1. \A i \in 1 .. Len(ks) + 1 : /\ i <= Len(ks) => i \in 1 .. Len(ks)
                                    /\ ~(i <= Len(ks)) /\ i # 1 => i - 1 \in 1 .. Len(ks)
    BY <1>1
  <2> QED BY <1>2, <1>3, <2>1 DEF Start
<1> QED BY <1>2, <1>4, <1>5, <1>6, <1>7 DEF WellKept, r

(* What is written behind the last block leaves them all.                  *)
LEMMA AllStay ==
    ASSUME NEW t \in Seq(Byte), NEW u \in Seq(Byte), NEW ks, WellKept(t, ks),
           Start(ks, Len(ks) + 1) <= Len(u),
           \A i \in 1 .. Start(ks, Len(ks) + 1) : u[i] = t[i]
    PROVE  WellKept(u, ks)
<1>1. Len(ks) \in Nat /\ Len(ks) + 1 \in 1 .. Len(ks) + 1
  BY KeptBounds
<1>2. \A j \in 1 .. Len(ks) : j < Len(ks) + 1
  BY <1>1
<1>3. \A j \in 1 .. Len(ks) : Standing(u, ks[j])
  BY <1>1, <1>2, FrontStays
<1> QED BY <1>3 DEF WellKept

-----------------------------------------------------------------------------
(* The invariant: the head of an open deck is in front of a block, right   *)
(* behind the last one, or further on - never inside one.                  *)

HeadPlaced(t, ks, p) ==
    /\ p \in 0 .. Len(t)
    /\ \/ \E k \in 1 .. Len(ks) + 1 : Start(ks, k) = p
       \/ p > Start(ks, Len(ks) + 1)

TapeInv ==
    /\ TypeOK
    /\ WellKept(tape, kept)
    /\ mode = "off" => pos = 0
    /\ mode = "open" => HeadPlaced(tape, kept, pos)

LEMMA AtTheStart ==
    ASSUME NEW t \in Seq(Byte), NEW ks, WellKept(t, ks)
    PROVE  HeadPlaced(t, ks, 0)
<1>1. 1 \in 1 .. Len(ks) + 1 /\ 0 \in 0 .. Len(t)
  BY KeptBounds, LenProperties
<1>2. Start(ks, 1) = 0
  BY <1>1, StartBounds
<1> QED BY <1>1, <1>2 DEF HeadPlaced

(* The next block begins where one ends.                                   *)
LEMMA NextStart ==
    ASSUME NEW t \in Seq(Byte), NEW ks, WellKept(t, ks), NEW k \in 1 .. Len(ks)
    PROVE  Start(ks, k + 1) = End(ks[k])
<1>1. k + 1 \in 1 .. Len(ks) + 1 /\ k + 1 # 1 /\ k + 1 - 1 = k
  BY KeptBounds
<1>2. Start(ks, k + 1) = End(ks[k + 1 - 1])
  BY <1>1, StartBounds
<1> QED BY <1>1, <1>2

LEMMA BehindABlock ==
    ASSUME NEW t \in Seq(Byte), NEW ks, WellKept(t, ks), NEW k \in 1 .. Len(ks)
    PROVE  HeadPlaced(t, ks, End(ks[k]))
<1>1. k + 1 \in 1 .. Len(ks) + 1 /\ k + 1 # 1 /\ k + 1 - 1 = k
  BY KeptBounds
<1>2. Start(ks, k + 1) = End(ks[k])
  BY NextStart
<1>3. End(ks[k]) \in 0 .. Len(t)
  BY KeptBounds, LenProperties
<1> QED BY <1>1, <1>2, <1>3 DEF HeadPlaced

(* SAVE at the start of a block, or right behind the last one.             *)
Sound(p, data) == [at |-> p, data |-> data, state |-> "sound"]
KeptAfter(ks, k, new) ==
    IF k <= Len(ks) /\ Len(new.data) = Len(ks[k].data)
    THEN [ks EXCEPT ![k] = new] ELSE Append(SubSeq(ks, 1, k - 1), new)
LeftAfter(ks, k, data) ==
    IF k <= Len(ks) /\ Len(data) = Len(ks[k].data)
    THEN [ks EXCEPT ![k].state = "torn"] ELSE SubSeq(ks, 1, k - 1)

LEMMA SaveAtPlace ==
    ASSUME NEW t \in Seq(Byte), NEW ks, WellKept(t, ks), NEW k \in 1 .. Len(ks) + 1,
           NEW p, p = Start(ks, k), NEW data \in Savable
    PROVE  /\ WellKept(Recorded(t, p, Block(data)), KeptAfter(ks, k, Sound(p, data)))
           /\ HeadPlaced(Recorded(t, p, Block(data)), KeptAfter(ks, k, Sound(p, data)),
                         p + Size(data))
           /\ k \in 1 .. Len(KeptAfter(ks, k, Sound(p, data)))
           /\ KeptAfter(ks, k, Sound(p, data))[k] = Sound(p, data)
<1> DEFINE u == Recorded(t, p, Block(data))
           new == Sound(p, data)
           after == KeptAfter(ks, k, new)
<1>1. p \in 0 .. Len(t) /\ p \in Nat
  BY StartBounds, LenProperties
<1>2. Block(data) \in Seq(Byte) /\ Len(Block(data)) = Size(data) /\ Size(data) \in Nat
  BY BlockShape, LenProperties
<1>3. /\ u \in Seq(Byte) /\ Len(u) >= Len(t) /\ Len(u) >= p + Size(data)
      /\ \A i \in 1 .. Len(t) : i <= p \/ i > p + Size(data) => u[i] = t[i]
  BY <1>1, <1>2, RecordedShape
<1>4. Standing(u, new)
  BY <1>1, SavedStands DEF Sound
<1>5. new.at = p /\ new.data = data /\ End(new) = p + Size(data)
  BY DEF End, Sound
<1>7. after = IF k <= Len(ks) /\ Len(data) = Len(ks[k].data)
               THEN [ks EXCEPT ![k] = new] ELSE Append(SubSeq(ks, 1, k - 1), new)
  BY <1>5 DEF KeptAfter
<1> HIDE DEF u, new, after
<1>6. k \in Nat /\ Len(ks) \in Nat /\ Len(t) \in Nat /\ Len(u) \in Nat
  BY <1>3, KeptBounds, LenProperties
<1>8. CASE k <= Len(ks) /\ Len(data) = Len(ks[k].data)
  <2>1. k \in 1 .. Len(ks)
    BY <1>6, <1>8
  <2>2. ks[k].at = p
    BY <1>8 DEF Start
  <2>3. End(ks[k]) = End(new)
    BY <1>5, <1>8, <2>2 DEF End, Size
  <2>4. after = [ks EXCEPT ![k] = new]
    BY <1>7, <1>8
  <2>5. \A i \in 1 .. Len(t) : i <= new.at \/ i > End(new) => u[i] = t[i]
    BY <1>3, <1>5
  <2>6. new.at = ks[k].at
    BY <1>5, <2>2
  <2>7. WellKept(u, [ks EXCEPT ![k] = new]) /\ Len([ks EXCEPT ![k] = new]) = Len(ks)
    BY <1>3, <1>4, <2>1, <2>3, <2>5, <2>6, ReplaceKept
  <2>8. WellKept(u, after) /\ k \in 1 .. Len(after)
    BY <2>1, <2>4, <2>7
  <2>9. after[k] = new
    BY <2>1, <2>4, LenProperties DEF WellKept
  <2>10. HeadPlaced(u, after, End(after[k]))
    BY <1>3, <2>8, BehindABlock
  <2> QED BY <1>5, <2>8, <2>9, <2>10 DEF u, new, after
<1>9. CASE ~(k <= Len(ks) /\ Len(data) = Len(ks[k].data))
  <2> DEFINE s == SubSeq(ks, 1, k - 1)
  <2>1. Start(ks, k) <= Len(u) /\ \A i \in 1 .. Start(ks, k) : u[i] = t[i]
    BY <1>1, <1>3, <1>6
  <2>2. WellKept(u, s) /\ Len(s) = k - 1 /\ Start(s, k) = p /\ s \in Seq(KeptBlock)
    BY <1>3, <2>1, CutKept
  <2>3. after = Append(s, new)
    BY <1>7, <1>9
  <2> HIDE DEF s
  <2>4. Len(s) + 1 = k
    BY <1>6, <2>2
  <2>5. WellKept(u, after)
    BY <1>3, <1>4, <1>5, <2>2, <2>3, <2>4, ExtendKept
  <2>6. Len(after) = k /\ after[k] = new
    BY <1>4, <2>2, <2>3, <2>4, AppendProperties DEF Standing
  <2>7. k \in 1 .. Len(after)
    BY <1>6, <2>6
  <2>8. HeadPlaced(u, after, End(after[k]))
    BY <1>3, <2>5, <2>7, BehindABlock
  <2> QED BY <1>5, <2>5, <2>6, <2>7, <2>8 DEF u, new, after
<1> QED BY <1>8, <1>9 DEF u, new, after

(* The same for a SAVE that was cut after n bytes.                         *)
LEMMA CutAtPlace ==
    ASSUME NEW t \in Seq(Byte), NEW ks, WellKept(t, ks), NEW k \in 1 .. Len(ks) + 1,
           NEW p, p = Start(ks, k), NEW data \in Savable, NEW n \in 1 .. Size(data) - 1
    PROVE  /\ Recorded(t, p, SubSeq(Block(data), 1, n)) \in Seq(Byte)
           /\ WellKept(Recorded(t, p, SubSeq(Block(data), 1, n)), LeftAfter(ks, k, data))
<1> DEFINE cut == SubSeq(Block(data), 1, n)
           u == Recorded(t, p, cut)
           after == LeftAfter(ks, k, data)
<1>1. p \in 0 .. Len(t) /\ p \in Nat /\ Len(t) \in Nat
  BY StartBounds, LenProperties
<1>2. Block(data) \in Seq(Byte) /\ Len(Block(data)) = Size(data) /\ Size(data) \in Nat
  BY BlockShape, LenProperties
<1>3. cut \in Seq(Byte) /\ Len(cut) = n
  BY <1>2
<1> HIDE DEF cut
<1>4. /\ u \in Seq(Byte) /\ Len(u) >= Len(t)
      /\ \A i \in 1 .. Len(t) : i <= p \/ i > p + n => u[i] = t[i]
  BY <1>1, <1>3, RecordedShape
<1> HIDE DEF u, after
<1>5. k \in Nat /\ Len(ks) \in Nat /\ Len(u) \in Nat
  BY <1>4, KeptBounds, LenProperties
<1>6. CASE k <= Len(ks) /\ Len(data) = Len(ks[k].data)
  <2> DEFINE new == [ks[k] EXCEPT !.state = "torn"]
  <2>1. k \in 1 .. Len(ks)
    BY <1>5, <1>6
  <2>2. ks[k].at = p /\ Standing(t, ks[k]) /\ ks[k] \in KeptBlock
    BY <1>6, <2>1, KeptBounds DEF Start
  <2>3. Standing(u, new)
    BY <1>6, <2>2, CutStands DEF u, cut
  <2>4. new.at = p /\ new.at = ks[k].at /\ End(new) = End(ks[k])
    BY <2>2 DEF End, KeptBlock
  <2>5. End(new) = p + Size(data)
    BY <1>6, <2>2, <2>4 DEF End, Size
  <2>6. after = [ks EXCEPT ![k] = new]
    BY <1>6 DEF after, LeftAfter
  <2> HIDE DEF new
  <2>7. \A i \in 1 .. Len(t) : i <= new.at \/ i > End(new) => u[i] = t[i]
    BY <1>1, <1>2, <1>4, <2>4, <2>5
  <2>8. WellKept(u, [ks EXCEPT ![k] = new])
    <3>1. u \in Seq(Byte) /\ Len(u) >= Len(t) /\ new.at = ks[k].at /\ End(new) = End(ks[k])
      BY <1>4, <2>4
    <3> QED BY <2>1, <2>3, <2>7, <3>1, ReplaceKept
  <2> QED BY <1>4, <2>6, <2>8 DEF u, cut, after
<1>7. CASE ~(k <= Len(ks) /\ Len(data) = Len(ks[k].data))
  <2>1. Start(ks, k) <= Len(u) /\ \A i \in 1 .. Start(ks, k) : u[i] = t[i]
    BY <1>1, <1>4, <1>5
  <2>2. after = SubSeq(ks, 1, k - 1)
    BY <1>7 DEF after, LeftAfter
  <2>3. u \in Seq(Byte)
    BY <1>4
  <2>4. WellKept(u, SubSeq(ks, 1, k - 1))
    BY <2>1, <2>3, CutKept
  <2> QED BY <2>2, <2>3, <2>4 DEF u, cut, after
<1> QED BY <1>4, <1>6, <1>7 DEF u, cut, after

(* A save past the last block leaves them all.                             *)
LEMMA SaveFurther ==
    ASSUME NEW t \in Seq(Byte), NEW ks, WellKept(t, ks), NEW p \in 0 .. Len(t),
           p > Start(ks, Len(ks) + 1), NEW bytes \in Seq(Byte)
    PROVE  /\ WellKept(Recorded(t, p, bytes), ks)
           /\ HeadPlaced(Recorded(t, p, bytes), ks, p + Len(bytes))
<1> DEFINE u == Recorded(t, p, bytes)
           last == Start(ks, Len(ks) + 1)
<1>1. Len(ks) \in Nat /\ Len(ks) + 1 \in 1 .. Len(ks) + 1 /\ Len(bytes) \in Nat /\ Len(t) \in Nat
  BY KeptBounds, LenProperties
<1>2. Start(ks, Len(ks) + 1) \in Nat
  BY <1>1, StartBounds
<1>3. /\ u \in Seq(Byte) /\ Len(u) >= Len(t) /\ Len(u) >= p + Len(bytes)
      /\ \A i \in 1 .. Len(t) : i <= p \/ i > p + Len(bytes) => u[i] = t[i]
  BY RecordedShape
<1>4. Len(u) \in Nat
  BY <1>3, LenProperties
<1> HIDE DEF u, last
<1>5. /\ last <= Len(u) /\ \A i \in 1 .. last : u[i] = t[i]
      /\ p + Len(bytes) \in 0 .. Len(u) /\ p + Len(bytes) > last
  BY <1>1, <1>2, <1>3, <1>4 DEF last
<1>6. WellKept(u, ks)
  BY <1>3, <1>5, AllStay DEF last
<1> QED BY <1>5, <1>6 DEF HeadPlaced, last, u

(* What LOAD makes of any tape at all.                                     *)
LEMMA LoadShape ==
    ASSUME NEW t \in Seq(Byte), NEW p \in Nat
    PROVE  Wanted(t, p) \in Nat /\ DataAt(t, p) \in Seq(Byte)
<1>1. Len(t) \in Nat
  BY LenProperties
<1>2. Wanted(t, p) \in Nat
  <2>1. CASE HeaderAt(t, p)
    <3>1. p + 1 \in 1 .. Len(t) /\ p + 2 \in 1 .. Len(t)
      BY <1>1, <2>1 DEF HeaderAt
    <3>2. t[p + 1] \in Byte /\ t[p + 2] \in Byte
      BY <3>1, ElementOfSeq
    <3>3. \A a, b \in Byte : a + 256 * b \in Nat
      BY DEF Byte
    <3>4. t[p + 1] + 256 * t[p + 2] \in Nat
      BY <3>2, <3>3
    <3> QED BY <2>1, <3>4 DEF Wanted
  <2>2. CASE ~HeaderAt(t, p)
    BY <2>2 DEF Wanted
  <2> QED BY <2>1, <2>2
<1> DEFINE first == p + 3
           last == IF p + 2 + Wanted(t, p) > Len(t) THEN Len(t) ELSE p + 2 + Wanted(t, p)
<1>3. first \in Int /\ last \in Int /\ \A i \in first .. last : i \in 1 .. Len(t)
  BY <1>1, <1>2
<1>4. DataAt(t, p) = SubSeq(t, first, last)
  BY DEF DataAt
<1> HIDE DEF first, last
<1>5. \A i \in first .. last : t[i] \in Byte
  BY <1>3, ElementOfSeq
<1>6. SubSeq(t, first, last) \in Seq(Byte)
  BY <1>3, <1>5, SubSeqProperties
<1> QED BY <1>2, <1>4, <1>6

LEMMA StartsAgree == \A k : StartOf(k) = Start(kept, k)
  BY DEF StartOf, EndOf, Start, End

LEMMA InitInv == Init => TapeInv
<1> SUFFICES ASSUME Init PROVE TapeInv
  OBVIOUS
<1>1. TypeOK
  BY TapeAssumption DEF Init, TypeOK, Quiet
<1>2. kept \in Seq(KeptBlock) /\ 1 .. Len(kept) = {}
  BY DEF Init
<1>3. WellKept(tape, kept)
  BY <1>2 DEF WellKept, Chained, Ordered
<1> QED BY <1>1, <1>3 DEF Init, TapeInv

LEMMA SaveInv ==
    ASSUME TapeInv, NEW data \in Data, Save(data)
    PROVE  TapeInv'
<1>1. /\ data \in Savable /\ tape \in Seq(Byte) /\ pos \in Nat /\ WellKept(tape, kept)
      /\ HeadPlaced(tape, kept, pos) /\ mode = "open"
  BY TapeAssumption DEF TapeInv, TypeOK, Save, Savable
<1>2. /\ tape' = Recorded(tape, pos, Block(data)) /\ pos' = pos + Size(data)
      /\ answer' = Quiet /\ mode' = "open" /\ KeepSaved(data)
  BY DEF Save
<1>3. /\ Block(data) \in Seq(Byte) /\ Len(Block(data)) = Size(data) /\ Size(data) \in Nat
      /\ pos \in 0 .. Len(tape)
  BY <1>1, BlockShape, LenProperties DEF HeadPlaced
<1>4. tape' \in Seq(Byte)
  BY <1>1, <1>2, <1>3, RecordedShape
<1>5. WellKept(tape', kept') /\ HeadPlaced(tape', kept', pos')
  <2>1. ASSUME NEW k \in Places,
               kept' = IF Fits(k, data) THEN [kept EXCEPT ![k] = Sound(pos, data)]
                       ELSE Append(SubSeq(kept, 1, k - 1), Sound(pos, data))
        PROVE  WellKept(tape', kept') /\ HeadPlaced(tape', kept', pos')
    <3>1. k \in 1 .. Len(kept) + 1 /\ pos = Start(kept, k)
      BY StartsAgree DEF Places
    <3>2. kept' = KeptAfter(kept, k, Sound(pos, data))
      BY <2>1 DEF KeptAfter, Fits, Sound
    <3>3. /\ WellKept(Recorded(tape, pos, Block(data)), KeptAfter(kept, k, Sound(pos, data)))
          /\ HeadPlaced(Recorded(tape, pos, Block(data)), KeptAfter(kept, k, Sound(pos, data)),
                        pos + Size(data))
      BY <1>1, <3>1, SaveAtPlace
    <3> QED BY <1>2, <3>2, <3>3
  <2>2. CASE Places = {} /\ kept' = kept
    <3>1. pos > Start(kept, Len(kept) + 1)
      BY <1>1, <2>2, StartsAgree DEF HeadPlaced, Places
    <3>2. /\ WellKept(Recorded(tape, pos, Block(data)), kept)
          /\ HeadPlaced(Recorded(tape, pos, Block(data)), kept, pos + Len(Block(data)))
      BY <1>1, <1>3, <3>1, SaveFurther
    <3> QED BY <1>2, <1>3, <2>2, <3>2
  <2> QED BY <1>2, <2>1, <2>2 DEF KeepSaved, Sound
<1>6. TypeOK'
  BY <1>1, <1>2, <1>3, <1>4, <1>5 DEF TypeOK, WellKept, Quiet
<1> QED BY <1>2, <1>5, <1>6 DEF TapeInv

LEMMA KilledSavingInv ==
    ASSUME TapeInv, NEW data \in Data, NEW n \in 1 .. Size(data) - 1, KilledSaving(data, n)
    PROVE  TapeInv'
<1> DEFINE cut == SubSeq(Block(data), 1, n)
<1>1. /\ data \in Savable /\ tape \in Seq(Byte) /\ pos \in Nat /\ WellKept(tape, kept)
      /\ HeadPlaced(tape, kept, pos)
  BY TapeAssumption DEF TapeInv, TypeOK, KilledSaving, Savable
<1>2. /\ tape' = Recorded(tape, pos, cut) /\ KeepCut(data)
      /\ pos' = 0 /\ answer' = Quiet /\ mode' = "off"
  BY DEF KilledSaving, Ends
<1>3. Block(data) \in Seq(Byte) /\ Len(Block(data)) = Size(data) /\ Size(data) \in Nat
  BY <1>1, BlockShape, LenProperties
<1>4. cut \in Seq(Byte) /\ pos \in 0 .. Len(tape)
  BY <1>1, <1>3 DEF HeadPlaced
<1>5. tape' \in Seq(Byte)
  BY <1>1, <1>2, <1>4, RecordedShape
<1>6. WellKept(tape', kept')
  <2>1. ASSUME NEW k \in Places,
               kept' = IF Fits(k, data) THEN [kept EXCEPT ![k].state = "torn"]
                       ELSE SubSeq(kept, 1, k - 1)
        PROVE  WellKept(tape', kept')
    <3>1. k \in 1 .. Len(kept) + 1 /\ pos = Start(kept, k)
      BY StartsAgree DEF Places
    <3>2. kept' = LeftAfter(kept, k, data)
      BY <2>1 DEF LeftAfter, Fits
    <3>3. WellKept(Recorded(tape, pos, SubSeq(Block(data), 1, n)), LeftAfter(kept, k, data))
      BY <1>1, <3>1, CutAtPlace
    <3> QED BY <1>2, <3>2, <3>3
  <2>2. CASE Places = {} /\ kept' = kept
    <3>1. pos > Start(kept, Len(kept) + 1)
      BY <1>1, <2>2, StartsAgree DEF HeadPlaced, Places
    <3> HIDE DEF cut
    <3>2. WellKept(Recorded(tape, pos, cut), kept)
      BY <1>1, <1>4, <3>1, SaveFurther
    <3> QED BY <1>2, <2>2, <3>2
  <2> QED BY <1>2, <2>1, <2>2 DEF KeepCut
<1>7. TypeOK'
  BY <1>2, <1>5, <1>6 DEF TypeOK, WellKept, Quiet
<1> QED BY <1>2, <1>6, <1>7 DEF TapeInv

LEMMA LoadInv ==
    ASSUME TapeInv, LoadWhole \/ LoadPart
    PROVE  TapeInv'
<1>1. /\ tape \in Seq(Byte) /\ pos \in Nat /\ WellKept(tape, kept)
      /\ HeadPlaced(tape, kept, pos) /\ Len(tape) \in Nat /\ pos \in 0 .. Len(tape)
      /\ mode = "open" /\ kept \in Seq(KeptBlock)
  BY LenProperties DEF TapeInv, TypeOK, LoadWhole, LoadPart, HeadPlaced
<1>2. UNCHANGED <<tape, mode, kept>>
  BY DEF LoadWhole, LoadPart
<1>3. Wanted(tape, pos) \in Nat /\ DataAt(tape, pos) \in Seq(Byte)
  BY <1>1, LoadShape
<1> DEFINE last == Start(kept, Len(kept) + 1)
<1>4. last \in Nat
  <2>1. Len(kept) + 1 \in 1 .. Len(kept) + 1
    BY <1>1, KeptBounds
  <2> QED BY <1>1, <2>1, StartBounds
<1>5. \/ \E k \in 1 .. Len(kept) : kept[k].at = pos
      \/ pos >= last
  <2>1. CASE pos > last
    BY <1>1, <1>4, <2>1
  <2>2. ASSUME NEW k \in 1 .. Len(kept) + 1, Start(kept, k) = pos
        PROVE  \/ \E j \in 1 .. Len(kept) : kept[j].at = pos
               \/ pos >= last
    <3>1. Len(kept) \in Nat
      BY <1>1, KeptBounds
    <3>2. CASE k = Len(kept) + 1
      BY <1>1, <2>2, <3>2
    <3>3. CASE k # Len(kept) + 1
      <4>1. k \in 1 .. Len(kept) /\ k <= Len(kept)
        BY <3>1, <3>3
      <4> QED BY <2>2, <4>1 DEF Start
    <3> QED BY <3>2, <3>3
  <2> QED BY <1>1, <2>1, <2>2 DEF HeadPlaced
<1>6. \A q \in 0 .. Len(tape) : q >= last => HeadPlaced(tape, kept, q)
  <2>1. Len(kept) + 1 \in 1 .. Len(kept) + 1
    BY <1>1, KeptBounds
  <2> SUFFICES ASSUME NEW q \in 0 .. Len(tape), q >= last PROVE HeadPlaced(tape, kept, q)
    OBVIOUS
  <2>2. q = last \/ q > last
    BY <1>4
  <2> QED BY <2>1, <2>2 DEF HeadPlaced
<1>7. CASE LoadWhole
  <2>1. /\ pos' = pos + Wanted(tape, pos) + 3 /\ WholeAt(tape, pos)
        /\ answer' \in [complains : BOOLEAN, data : Seq(Byte)]
    BY <1>3, <1>7 DEF LoadWhole
  <2>2. pos' \in 0 .. Len(tape) /\ pos' >= pos
    BY <1>1, <1>3, <2>1 DEF WholeAt
  <2>3. HeadPlaced(tape, kept, pos')
    <3>1. ASSUME NEW k \in 1 .. Len(kept), kept[k].at = pos PROVE HeadPlaced(tape, kept, pos')
      <4>1. Standing(tape, kept[k]) /\ Wanted(tape, pos) = Len(kept[k].data)
        BY <1>1, <3>1, KeptBounds, StandingIsRead
      <4>2. pos' = End(kept[k])
        BY <1>1, <2>1, <3>1, <4>1, BlockBounds
      <4> QED BY <1>1, <4>2, BehindABlock
    <3>2. CASE pos >= last
      BY <1>1, <1>4, <1>6, <2>2, <3>2
    <3> QED BY <1>5, <3>1, <3>2
  <2> QED BY <1>1, <1>2, <2>1, <2>2, <2>3 DEF TapeInv, TypeOK
<1>8. CASE LoadPart
  <2>1. /\ pos' = Len(tape) /\ ~WholeAt(tape, pos)
        /\ answer' \in [complains : BOOLEAN, data : Seq(Byte)]
    BY <1>3, <1>8 DEF LoadPart
  <2>2. pos >= last
    <3>1. \A k \in 1 .. Len(kept) : kept[k].at # pos
      BY <1>1, <2>1, KeptBounds, StandingIsRead
    <3> QED BY <1>5, <3>1
  <2>3. pos' \in 0 .. Len(tape) /\ pos' >= last
    BY <1>1, <1>4, <2>1, <2>2
  <2> QED BY <1>1, <1>2, <1>6, <2>1, <2>3 DEF TapeInv, TypeOK
<1> QED BY <1>7, <1>8

LEMMA DamageInv ==
    ASSUME TapeInv, NEW k \in DOMAIN kept, NEW v \in Values,
           NEW i \in 1 .. Len(kept[k].data) + 1, Damage(k, i, v)
    PROVE  TapeInv'
<1> DEFINE at == kept[k].at + 2 + i
           new == [kept[k] EXCEPT !.state = "damaged"]
<1>1. /\ tape \in Seq(Byte) /\ WellKept(tape, kept) /\ v \in Byte /\ k \in 1 .. Len(kept)
      /\ mode = "off" /\ pos = 0 /\ kept[k].state = "sound" /\ tape[at] # v
      /\ tape' = [tape EXCEPT ![at] = v] /\ kept' = [kept EXCEPT ![k].state = "damaged"]
      /\ UNCHANGED <<mode, pos, answer>>
  BY TapeAssumption, LenProperties DEF TapeInv, TypeOK, Damage
<1>2. Standing(tape, kept[k]) /\ kept[k] \in KeptBlock
  BY <1>1, KeptBounds
<1>3. tape' \in Seq(Byte) /\ Standing(tape', new)
  BY <1>1, <1>2, DamagedStands
<1>4. kept' = [kept EXCEPT ![k] = new]
  BY <1>1
<1>5. new.at = kept[k].at /\ new.data = kept[k].data /\ End(new) = End(kept[k])
  BY <1>2 DEF KeptBlock, End
<1>6. /\ kept[k].at \in Nat /\ Len(kept[k].data) \in Nat
      /\ End(kept[k]) = kept[k].at + Len(kept[k].data) + 3 /\ End(kept[k]) <= Len(tape)
      /\ Len(tape) \in Nat
  BY <1>1, <1>2, BlockBounds, LenProperties
<1>7. at \in 1 .. Len(tape) /\ at > kept[k].at /\ at <= End(kept[k])
  BY <1>6
<1>8. Len(tape') = Len(tape) /\ \A j \in 1 .. Len(tape) : j # at => tape'[j] = tape[j]
  BY <1>1, <1>7, ExceptSeq
<1> HIDE DEF at, new
<1>9. /\ Len(tape') >= Len(tape)
      /\ \A j \in 1 .. Len(tape) : j <= new.at \/ j > End(new) => tape'[j] = tape[j]
  <2>1. \A j \in 1 .. Len(tape) : j <= new.at \/ j > End(new) => j # at
    BY <1>5, <1>6, <1>7
  <2> QED BY <1>6, <1>8, <2>1
<1>10. WellKept(tape', [kept EXCEPT ![k] = new])
  BY <1>1, <1>3, <1>5, <1>9, ReplaceKept
<1>11. TypeOK' /\ WellKept(tape', kept')
  BY <1>1, <1>3, <1>4, <1>10 DEF TapeInv, TypeOK, WellKept
<1> QED BY <1>1, <1>11 DEF TapeInv

(* Starting, ending, rewinding, and what happens without an open file.     *)
LEMMA PlainInv ==
    ASSUME TapeInv,
           \/ StartOpen \/ StartWithout \/ StartClosed \/ Killed \/ Rewind \/ NoTape
           \/ LoadFromNowhere \/ \E data \in Data : SaveToNowhere(data)
           \/ UNCHANGED vars
    PROVE  TapeInv'
<1>1. tape \in Seq(Byte) /\ WellKept(tape, kept) /\ TypeOK /\ HeadPlaced(tape, kept, 0)
  BY AtTheStart DEF TapeInv, TypeOK
<1>2. CASE StartOpen
  BY <1>1, <1>2 DEF TapeInv, TypeOK, StartOpen
<1>3. CASE StartWithout
  BY <1>1, <1>3 DEF TapeInv, TypeOK, StartWithout
<1>4. CASE StartClosed
  <2>1. CASE UNCHANGED <<tape, kept>>
    BY <1>1, <1>4, <2>1 DEF TapeInv, TypeOK, StartClosed
  <2>2. CASE tape' = <<>> /\ kept' = <<>>
    <3>1. kept' \in Seq(KeptBlock) /\ 1 .. Len(kept') = {}
      BY <2>2
    <3>2. WellKept(tape', kept')
      BY <3>1 DEF WellKept, Chained, Ordered
    <3>3. TypeOK'
      BY <1>4, <2>2, <3>1 DEF TapeInv, TypeOK, StartClosed
    <3> QED BY <1>4, <3>2, <3>3 DEF TapeInv, StartClosed
  <2> QED BY <1>4, <2>1, <2>2 DEF StartClosed
<1>5. CASE Killed
  BY <1>1, <1>5 DEF TapeInv, TypeOK, Killed, Ends, Quiet
<1>6. CASE Rewind
  BY <1>1, <1>6 DEF TapeInv, TypeOK, Rewind, Quiet
<1>7. CASE NoTape
  BY <1>1, <1>7 DEF TapeInv, TypeOK, NoTape, Complaint
<1>8. CASE LoadFromNowhere
  BY <1>1, <1>8 DEF TapeInv, TypeOK, LoadFromNowhere, Complaint
<1>9. ASSUME NEW data \in Data, SaveToNowhere(data) PROVE TapeInv'
  <2>1. Size(data) \in Nat
    BY TapeAssumption DEF Size
  <2> QED BY <1>1, <1>9, <2>1 DEF TapeInv, TypeOK, SaveToNowhere, Quiet
<1>10. CASE UNCHANGED vars
  BY <1>1, <1>10 DEF TapeInv, TypeOK, vars
<1> QED BY <1>2, <1>3, <1>4, <1>5, <1>6, <1>7, <1>8, <1>9, <1>10

LEMMA StepInv == TapeInv /\ [Next]_vars => TapeInv'
<1> SUFFICES ASSUME TapeInv, [Next]_vars PROVE TapeInv'
  OBVIOUS
<1>1. CASE SaveSome
  BY <1>1, SaveInv, PlainInv DEF SaveSome
<1>2. CASE KilledSavingSome
  BY <1>2, KilledSavingInv DEF KilledSavingSome
<1>3. CASE LoadWhole \/ LoadPart
  BY <1>3, LoadInv
<1>4. CASE DamageSome
  BY <1>4, DamageInv DEF DamageSome
<1> QED BY <1>1, <1>2, <1>3, <1>4, PlainInv DEF Next

(* The invariant holds in every state of every session.                    *)
THEOREM TapeKept == Spec => []TapeInv
  BY InitInv, StepInv, PTL DEF Spec

(* Every variable keeps to its type, whatever main, SAVE, LOAD, REWIND and *)
(* a kill do.                                                              *)
THEOREM TypeCorrect == Spec => []TypeOK
<1>1. TapeInv => TypeOK
  BY DEF TapeInv
<1> QED BY <1>1, TapeKept, PTL

(* A block that was saved and not gone over is read back as it was saved,  *)
(* for blocks of any size and any sequence of saves, loads and kills.      *)
THEOREM SavedReadBack == Spec => []SavedBlocksReadBack
<1>1. TapeInv => SavedBlocksReadBack
  <2> SUFFICES ASSUME TapeInv, NEW k \in DOMAIN kept
               PROVE  /\ kept[k].at = (IF k = 1 THEN 0 ELSE EndOf(k - 1))
                      /\ kept[k].state = "sound" =>
                             /\ WholeAt(tape, kept[k].at)
                             /\ DataAt(tape, kept[k].at) = kept[k].data
                             /\ ChecksumMatches(tape, kept[k].at)
    BY DEF SavedBlocksReadBack
  <2>1. /\ tape \in Seq(Byte) /\ WellKept(tape, kept) /\ k \in 1 .. Len(kept)
        /\ Standing(tape, kept[k])
    BY KeptBounds, LenProperties DEF TapeInv, TypeOK
  <2>2. kept[k].at = IF k = 1 THEN 0 ELSE EndOf(k - 1)
    BY <2>1 DEF WellKept, Chained, EndOf, End
  <2> QED BY <2>1, <2>2, StandingIsRead, SoundReadsBack
<1> QED BY <1>1, TapeKept, PTL

(* One byte that goes bad in the data or in the checksum of any block is   *)
(* noticed by LOAD's comparison, and the blocks behind are still found.    *)
THEOREM DamageDetected == Spec => []DamageShows
<1>1. TapeInv => DamageShows
  <2> SUFFICES ASSUME TapeInv, NEW k \in DOMAIN kept, kept[k].state = "damaged"
               PROVE  /\ WholeAt(tape, kept[k].at)
                      /\ Wanted(tape, kept[k].at) = Len(kept[k].data)
                      /\ ~ChecksumMatches(tape, kept[k].at)
    BY DEF DamageShows
  <2>1. tape \in Seq(Byte) /\ Standing(tape, kept[k])
    BY KeptBounds, LenProperties DEF TapeInv, TypeOK
  <2> QED BY <2>1, StandingIsRead, DamageIsNoticed
<1> QED BY <1>1, TapeKept, PTL

-----------------------------------------------------------------------------
(* The bytes implement the abstract tape.  What TapeStore sees of a tape t *)
(* with the blocks ks and the head at p, as operators of these three.      *)

Block1(b) == [data |-> b.data, state |-> b.state]
Blocks(ks) == [k \in DOMAIN ks |-> Block1(ks[k])]
LastEnd(ks) == Start(ks, Len(ks) + 1)
PlacesOf(ks, p) == {k \in 1 .. Len(ks) + 1 : Start(ks, k) = p}

LEMMA MappingAgrees ==
    /\ Contents = Blocks(kept) /\ Contents' = Blocks(kept')
    /\ Clean = (Len(tape) = LastEnd(kept)) /\ Clean' = (Len(tape') = LastEnd(kept'))
    /\ Places = PlacesOf(kept, pos) /\ Places' = PlacesOf(kept', pos')
BY DEF Contents, Blocks, Block1, Clean, LastEnd, Places, PlacesOf, StartOf, EndOf, Start, End

(* No two blocks begin at the same byte: the head says which one is ahead. *)
LEMMA StartsIncrease ==
    ASSUME NEW t \in Seq(Byte), NEW ks, WellKept(t, ks),
           NEW j \in 1 .. Len(ks) + 1, NEW k \in 1 .. Len(ks) + 1, j < k
    PROVE  Start(ks, j) < Start(ks, k)
<1>1. Len(ks) \in Nat /\ j \in 1 .. Len(ks) /\ j <= Len(ks)
  BY KeptBounds
<1>2. /\ ks[j].at \in Nat /\ End(ks[j]) \in Nat /\ ks[j].at + 4 <= End(ks[j])
      /\ End(ks[j]) <= Start(ks, k) /\ Start(ks, k) \in Nat
  BY <1>1, KeptBounds, StartBounds
<1>3. Start(ks, j) = ks[j].at
  BY <1>1 DEF Start
<1> QED BY <1>2, <1>3

LEMMA OnePlace ==
    ASSUME NEW t \in Seq(Byte), NEW ks, WellKept(t, ks),
           NEW k \in 1 .. Len(ks) + 1, NEW p, p = Start(ks, k)
    PROVE  PlacesOf(ks, p) = {k}
<1>1. \A i \in 1 .. Len(ks) + 1 : Start(ks, i) \in Nat /\ i \in Nat
  BY KeptBounds, StartBounds
<1>2. ASSUME NEW j \in 1 .. Len(ks) + 1, Start(ks, j) = p PROVE j = k
  <2>1. CASE j < k
    <3>1. Start(ks, j) < Start(ks, k)
      BY <2>1, StartsIncrease
    <3> QED BY <1>1, <1>2, <3>1
  <2>2. CASE k < j
    <3>1. Start(ks, k) < Start(ks, j)
      BY <2>2, StartsIncrease
    <3> QED BY <1>1, <1>2, <3>1
  <2> QED BY <1>1, <2>1, <2>2
<1> QED BY <1>2 DEF PlacesOf

LEMMA NoPlace ==
    ASSUME NEW t \in Seq(Byte), NEW ks, WellKept(t, ks), NEW p \in Nat, p > LastEnd(ks)
    PROVE  PlacesOf(ks, p) = {} /\ LastEnd(ks) < p /\ LastEnd(ks) \in Nat
<1>1. Len(ks) \in Nat /\ Len(ks) + 1 \in 1 .. Len(ks) + 1
  BY KeptBounds
<1>2. LastEnd(ks) \in Nat
  BY <1>1, StartBounds DEF LastEnd
<1>3. ASSUME NEW j \in 1 .. Len(ks) + 1 PROVE Start(ks, j) # p
  <2>1. Start(ks, j) \in Nat
    BY StartBounds
  <2>2. CASE j = Len(ks) + 1
    BY <1>2, <2>2 DEF LastEnd
  <2>3. CASE j < Len(ks) + 1
    <3>1. Start(ks, j) < LastEnd(ks)
      BY <1>1, <2>3, StartsIncrease DEF LastEnd
    <3> QED BY <1>2, <2>1, <3>1
  <2> QED BY <1>1, <2>2, <2>3
<1> QED BY <1>2, <1>3 DEF PlacesOf

(* What is ahead, in the state before a step and in the one behind it.     *)
LEMMA AheadIs ==
    /\ mode # "open" => Ahead = 0
    /\ Places = {} => Ahead = 0
    /\ \A k : mode = "open" /\ Places = {k} => Ahead = k
BY DEF Ahead

LEMMA AheadWillBe ==
    /\ mode' # "open" => Ahead' = 0
    /\ Places' = {} => Ahead' = 0
    /\ \A k : mode' = "open" /\ Places' = {k} => Ahead' = k
BY DEF Ahead

(* The list of blocks after each thing that happens to it.                 *)
BlockSeen == [data : Seq(Byte), state : {"sound", "damaged", "torn"}]

LEMMA BlocksShape ==
    ASSUME NEW ks \in Seq(KeptBlock)
    PROVE  /\ DOMAIN Blocks(ks) = 1 .. Len(ks) /\ DOMAIN ks = 1 .. Len(ks)
           /\ Len(Blocks(ks)) = Len(ks) /\ Len(ks) \in Nat
           /\ Blocks(ks) \in Seq(BlockSeen)
           /\ \A k \in 1 .. Len(ks) : Blocks(ks)[k] = Block1(ks[k])
<1>1. DOMAIN ks = 1 .. Len(ks) /\ Len(ks) \in Nat
  BY LenProperties
<1>2. \A k \in 1 .. Len(ks) : Block1(ks[k]) \in BlockSeen
  <2>1. \A b \in KeptBlock : Block1(b) \in BlockSeen
    BY DEF Block1, BlockSeen, KeptBlock
  <2> QED BY <2>1, ElementOfSeq
<1>3. Blocks(ks) \in [1 .. Len(ks) -> BlockSeen]
  BY <1>1, <1>2 DEF Blocks
<1>4. Blocks(ks) \in Seq(BlockSeen) /\ Len(Blocks(ks)) = Len(ks)
  BY <1>1, <1>3
<1> QED BY <1>1, <1>3, <1>4 DEF Blocks

(* One block put in the place of another, or marked.                       *)
Put(ks, k, new) == [ks EXCEPT ![k] = new]
Marked(ks, k, s) == [ks EXCEPT ![k].state = s]

LEMMA BlocksReplaced ==
    ASSUME NEW ks \in Seq(KeptBlock), NEW k \in 1 .. Len(ks), NEW new \in KeptBlock
    PROVE  Blocks(Put(ks, k, new)) = Put(Blocks(ks), k, Block1(new))
BY BlocksShape DEF Blocks, Put

LEMMA BlocksMarked ==
    ASSUME NEW ks \in Seq(KeptBlock), NEW k \in 1 .. Len(ks), NEW s
    PROVE  Blocks(Marked(ks, k, s)) = Marked(Blocks(ks), k, s)
<1>1. ks[k] \in KeptBlock /\ k \in DOMAIN ks
  BY BlocksShape, ElementOfSeq
<1>2. Block1([ks[k] EXCEPT !.state = s]) = [Block1(ks[k]) EXCEPT !.state = s]
  BY <1>1 DEF Block1, KeptBlock
<1> QED BY <1>1, <1>2, BlocksShape DEF Blocks, Marked

LEMMA BlocksCut ==
    ASSUME NEW ks \in Seq(KeptBlock), NEW k \in 1 .. Len(ks) + 1
    PROVE  Blocks(SubSeq(ks, 1, k - 1)) = SubSeq(Blocks(ks), 1, k - 1)
<1> DEFINE s == SubSeq(ks, 1, k - 1)
<1>1. Len(ks) \in Nat /\ Blocks(ks) \in Seq(BlockSeen) /\ Len(Blocks(ks)) = Len(ks)
  BY BlocksShape
<1>2. s \in Seq(KeptBlock) /\ Len(s) = k - 1 /\ \A i \in 1 .. k - 1 : s[i] = ks[i]
  BY <1>1
<1>3. /\ SubSeq(Blocks(ks), 1, k - 1) \in Seq(BlockSeen) /\ Len(SubSeq(Blocks(ks), 1, k - 1)) = k - 1
      /\ \A i \in 1 .. k - 1 : SubSeq(Blocks(ks), 1, k - 1)[i] = Blocks(ks)[i]
  BY <1>1
<1> HIDE DEF s
<1>4. /\ Blocks(s) \in Seq(BlockSeen) /\ Len(Blocks(s)) = k - 1
      /\ \A i \in 1 .. k - 1 : Blocks(s)[i] = Block1(s[i])
  BY <1>2, BlocksShape
<1>5. \A i \in 1 .. k - 1 : i \in 1 .. Len(ks)
  BY <1>1
<1>6. \A i \in 1 .. k - 1 : Blocks(s)[i] = SubSeq(Blocks(ks), 1, k - 1)[i]
  BY <1>2, <1>3, <1>4, <1>5, BlocksShape
<1>7. Blocks(s) = SubSeq(Blocks(ks), 1, k - 1)
  BY <1>3, <1>4, <1>6, SeqEqual
<1> QED BY <1>7 DEF s

LEMMA BlocksExtended ==
    ASSUME NEW ks \in Seq(KeptBlock), NEW new \in KeptBlock
    PROVE  Blocks(Append(ks, new)) = Append(Blocks(ks), Block1(new))
<1> DEFINE n == Len(ks)
           a == Append(ks, new)
           c == Append(Blocks(ks), Block1(new))
<1>1. /\ n \in Nat /\ Blocks(ks) \in Seq(BlockSeen) /\ Len(Blocks(ks)) = n
      /\ \A i \in 1 .. n : Blocks(ks)[i] = Block1(ks[i])
  BY BlocksShape
<1>2. Block1(new) \in BlockSeen
  BY DEF Block1, BlockSeen, KeptBlock
<1>3. a \in Seq(KeptBlock) /\ Len(a) = n + 1 /\ a[n + 1] = new /\ \A i \in 1 .. n : a[i] = ks[i]
  BY AppendProperties
<1> HIDE DEF a
<1>4. /\ Blocks(a) \in Seq(BlockSeen) /\ Len(Blocks(a)) = n + 1
      /\ \A i \in 1 .. n + 1 : Blocks(a)[i] = Block1(a[i])
  BY <1>3, BlocksShape
<1>5. /\ c \in Seq(BlockSeen) /\ Len(c) = n + 1 /\ c[n + 1] = Block1(new)
      /\ \A i \in 1 .. n : c[i] = Blocks(ks)[i]
  BY <1>1, <1>2, AppendProperties
<1> HIDE DEF c, n
<1>6. \A i \in 1 .. n + 1 : i = n + 1 \/ i \in 1 .. n
  BY <1>1
<1>7. \A i \in 1 .. n + 1 : Blocks(a)[i] = c[i]
  BY <1>1, <1>3, <1>4, <1>5, <1>6
<1>8. Blocks(a) = c
  BY <1>4, <1>5, <1>7, SeqEqual
<1> QED BY <1>8 DEF a, c

(* A block of the same size takes no more room than the one it goes over.  *)
LEMMA NoLonger ==
    ASSUME NEW t \in Seq(Byte), NEW ks, WellKept(t, ks), NEW k \in 1 .. Len(ks),
           NEW data \in Savable, Len(data) = Len(ks[k].data),
           NEW bytes \in Seq(Byte), Len(bytes) <= Size(data)
    PROVE  Len(Recorded(t, Start(ks, k), bytes)) = Len(t)
<1>1. /\ Standing(t, ks[k]) /\ ks[k].at \in Nat /\ k <= Len(ks) /\ Len(t) \in Nat
      /\ End(ks[k]) \in Nat /\ End(ks[k]) <= Len(t) /\ Len(bytes) \in Nat
  BY KeptBounds, LenProperties
<1>2. Start(ks, k) = ks[k].at
  BY <1>1 DEF Start
<1>3. Size(data) = Size(ks[k].data) /\ Size(data) \in Nat
  BY LenProperties DEF Size, Savable
<1>4. ks[k].at \in 0 .. Len(t) /\ ~(ks[k].at + Len(bytes) > Len(t))
  BY <1>1, <1>3 DEF End
<1> QED BY <1>2, <1>4, RecordedShape

LEMMA SameLastEnd ==
    ASSUME NEW ks \in Seq(KeptBlock), NEW k \in 1 .. Len(ks), NEW new \in KeptBlock,
           End(new) = End(ks[k])
    PROVE  LastEnd(Put(ks, k, new)) = LastEnd(ks)
<1> DEFINE r == Put(ks, k, new)
<1>1. Len(r) = Len(ks) /\ Len(ks) \in Nat /\ \A j \in 1 .. Len(ks) : r[j] = IF j = k THEN new ELSE ks[j]
  BY ExceptSeq, LenProperties DEF Put
<1>2. Len(ks) \in 1 .. Len(ks) /\ ~(Len(ks) + 1 <= Len(ks)) /\ Len(ks) + 1 - 1 = Len(ks) /\ Len(ks) + 1 # 1
  BY <1>1
<1> HIDE DEF r
<1>3. End(r[Len(ks)]) = End(ks[Len(ks)])
  BY <1>1, <1>2
<1>4. LastEnd(r) = End(r[Len(ks)]) /\ LastEnd(ks) = End(ks[Len(ks)])
  BY <1>1, <1>2 DEF LastEnd, Start
<1> QED BY <1>3, <1>4 DEF r

(* SAVE, at a block or behind the last one.                                *)
LEMMA SaveThere ==
    ASSUME TapeInv, TapeInv', NEW data \in Data, Save(data), NEW k \in Places,
           kept' = KeptAfter(kept, k, Sound(pos, data))
    PROVE  Promised!Save(data)
<1> DEFINE new == Sound(pos, data)
<1>1. /\ tape \in Seq(Byte) /\ WellKept(tape, kept) /\ kept \in Seq(KeptBlock) /\ pos \in Nat
      /\ tape' \in Seq(Byte) /\ WellKept(tape', kept') /\ kept' \in Seq(KeptBlock)
      /\ data \in Savable /\ Len(kept) \in Nat
  BY TapeAssumption, LenProperties DEF TapeInv, TypeOK, WellKept, Savable
<1>2. /\ mode = "open" /\ mode' = "open" /\ answer' = Quiet
      /\ tape' = Recorded(tape, pos, Block(data)) /\ pos' = pos + Size(data)
  BY DEF Save
<1>3. k \in 1 .. Len(kept) + 1 /\ pos = Start(kept, k) /\ k # 0 /\ k \in Nat
  BY <1>1, MappingAgrees DEF PlacesOf
<1>4. k \in 1 .. Len(kept') /\ kept'[k] = new
  BY <1>1, <1>3, SaveAtPlace
<1>5. Ahead = k
  BY <1>1, <1>2, <1>3, OnePlace, MappingAgrees, AheadIs
<1>12. kept \in Seq(KeptBlock) /\ Len(kept) \in Nat
  BY <1>1
<1>13. WellKept(tape', kept') /\ tape' \in Seq(Byte) /\ Start(kept', k + 1) = End(kept'[k])
  BY <1>1, <1>4, NextStart
<1>6. Ahead' = k + 1
  <2>1. k + 1 \in 1 .. Len(kept') + 1 /\ k + 1 # 1 /\ k + 1 - 1 = k
    BY <1>1, <1>4, LenProperties
  <2>4. pos' = Start(kept', k + 1)
    BY <1>2, <1>4, <1>13 DEF End, Sound
  <2>5. PlacesOf(kept', pos') = {k + 1}
    BY <1>13, <2>1, <2>4, OnePlace
  <2> QED BY <1>2, <2>5, MappingAgrees, AheadWillBe
<1>7. new \in KeptBlock /\ Block1(new) = [data |-> data, state |-> "sound"] /\ End(new) = pos + Size(data)
  BY <1>1 DEF Sound, KeptBlock, Block1, End, Savable
<1>8. Block(data) \in Seq(Byte) /\ Len(Block(data)) = Size(data) /\ Size(data) \in Nat
  BY <1>1, BlockShape, LenProperties
<1>9. /\ Contents = Blocks(kept) /\ Len(Contents) = Len(kept)
      /\ k <= Len(kept) => Contents[k].data = kept[k].data
  <2>1. k <= Len(kept) => k \in 1 .. Len(kept)
    BY <1>1, <1>3
  <2>2. Contents = Blocks(kept)
    BY MappingAgrees
  <2>3. /\ Len(Blocks(kept)) = Len(kept)
        /\ \A j \in 1 .. Len(kept) : Blocks(kept)[j] = Block1(kept[j])
    BY <1>12, BlocksShape
  <2>4. \A b : Block1(b).data = b.data
    BY DEF Block1
  <2> QED BY <2>1, <2>2, <2>3, <2>4
<1>10. CASE k <= Len(kept) /\ Len(data) = Len(kept[k].data)
  <2>1. k \in 1 .. Len(kept) /\ kept' = [kept EXCEPT ![k] = new]
    BY <1>3, <1>10 DEF KeptAfter, Sound
  <2>2. Contents' = [Contents EXCEPT ![k] = [data |-> data, state |-> "sound"]]
    <3>1. k \in 1 .. Len(kept) /\ new \in KeptBlock /\ kept' = Put(kept, k, new)
      BY <1>7, <2>1 DEF Put
    <3>2. Blocks(kept') = Put(Blocks(kept), k, Block1(new))
      <4> HIDE DEF new
      <4> QED BY <1>12, <3>1, BlocksReplaced
    <3> QED BY <1>7, <3>2, MappingAgrees DEF Put
  <2>3. Len(tape') = Len(tape)
    <3>1. Len(Block(data)) <= Size(data)
      BY <1>8
    <3> QED BY <1>1, <1>2, <1>3, <1>8, <1>10, <2>1, <3>1, NoLonger
  <2>4. End(new) = End(kept[k])
    BY <1>3, <1>7, <1>10 DEF Start, End, Size
  <2>5. LastEnd(kept') = LastEnd(kept)
    <3>1. k \in 1 .. Len(kept) /\ new \in KeptBlock /\ kept' = Put(kept, k, new)
      BY <1>7, <2>1 DEF Put
    <3> HIDE DEF new
    <3> QED BY <1>12, <2>4, <3>1, SameLastEnd
  <2>6. Clean' = Clean
    BY <2>3, <2>5, MappingAgrees
  <2>7. Promised!Replaced(k, data)
    BY <1>1, <1>3, <1>9, <1>10 DEF Promised!Replaced, Promised!Behind
  <2>8. Promised!SaveOver(k, data)
    BY <2>2, <2>6, <2>7 DEF Promised!SaveOver
  <2> QED BY <1>2, <1>3, <1>5, <1>6, <2>8 DEF Promised!Save, Promised!Quiet, Quiet
<1>11. CASE ~(k <= Len(kept) /\ Len(data) = Len(kept[k].data))
  <2>1. kept' = Append(SubSeq(kept, 1, k - 1), new)
    BY <1>11 DEF KeptAfter, Sound
  <2>2. SubSeq(kept, 1, k - 1) \in Seq(KeptBlock)
    BY <1>1, <1>3
  <2>3. Contents' = Append(SubSeq(Contents, 1, k - 1), [data |-> data, state |-> "sound"])
    <3> DEFINE cut == SubSeq(kept, 1, k - 1)
    <3>1. Blocks(cut) = SubSeq(Blocks(kept), 1, k - 1)
      BY <1>1, <1>3, BlocksCut
    <3> HIDE DEF new, cut
    <3>2. Blocks(Append(cut, new)) = Append(Blocks(cut), Block1(new))
      BY <1>7, <2>2, BlocksExtended DEF cut
    <3> QED BY <1>7, <2>1, <3>1, <3>2, MappingAgrees DEF cut
  <2>4. ~Promised!Replaced(k, data)
    BY <1>1, <1>3, <1>9, <1>11 DEF Promised!Replaced, Promised!Behind
  <2>5. ASSUME k = Len(kept) + 1, Clean PROVE Clean'
    <3>1. Len(tape) = pos
      BY <1>3, <2>5, MappingAgrees DEF LastEnd
    <3>2. pos \in 0 .. Len(tape) /\ Size(data) >= 0
      BY <1>1, <1>8, <3>1
    <3>3. Len(tape') = pos + Size(data)
      BY <1>1, <1>2, <1>8, <3>1, <3>2, RecordedShape
    <3>4. Len(kept') = k /\ k + 1 # 1 /\ k + 1 - 1 = k /\ k + 1 \in 1 .. k + 1
      <4>1. Len(SubSeq(kept, 1, k - 1)) = k - 1
        BY <1>1, <1>3
      <4> HIDE DEF new
      <4>2. Len(kept') = k - 1 + 1
        BY <1>7, <2>1, <2>2, <4>1, AppendProperties
      <4> QED BY <1>3, <4>2
    <3>6. LastEnd(kept') = pos + Size(data)
      BY <1>4, <1>7, <1>13, <3>4 DEF LastEnd
    <3> QED BY <3>3, <3>6, MappingAgrees
  <2>6. Promised!SaveLast(k, data)
    BY <1>9, <2>3, <2>4, <2>5 DEF Promised!SaveLast, Promised!Behind, Promised!Before
  <2> QED BY <1>2, <1>3, <1>5, <1>6, <2>6 DEF Promised!Save, Promised!Quiet, Quiet
<1> QED BY <1>10, <1>11

(* A head past the last block: nothing that is known of changes.           *)
LEMMA NothingKnownThere ==
    ASSUME TapeInv, TapeInv', mode = "open", Places = {}, kept' = kept, NEW bytes \in Seq(Byte),
           tape' = Recorded(tape, pos, bytes)
    PROVE  /\ pos > LastEnd(kept) /\ LastEnd(kept) \in Nat /\ pos \in Nat
           /\ Ahead = 0 /\ Contents' = Contents /\ Clean' = Clean /\ Len(bytes) \in Nat
<1>1. /\ tape \in Seq(Byte) /\ WellKept(tape, kept) /\ HeadPlaced(tape, kept, pos)
      /\ pos \in Nat /\ Len(bytes) \in Nat /\ pos \in 0 .. Len(tape) /\ Len(tape) \in Nat
  BY LenProperties DEF TapeInv, TypeOK, HeadPlaced
<1>2. pos > LastEnd(kept)
  BY <1>1, MappingAgrees DEF HeadPlaced, PlacesOf, LastEnd
<1>3. LastEnd(kept) \in Nat
  BY <1>1, <1>2, NoPlace
<1>4. Len(tape') >= Len(tape) /\ Len(tape') \in Nat
  BY <1>1, RecordedShape, LenProperties DEF TapeInv, TypeOK
<1>5. ~Clean /\ ~Clean'
  <2>1. Len(tape) # LastEnd(kept) /\ Len(tape') # LastEnd(kept)
    BY <1>1, <1>2, <1>3, <1>4
  <2> QED BY <2>1, MappingAgrees
<1>6. Clean' = Clean
  BY <1>5 DEF Clean
<1> QED BY <1>1, <1>2, <1>3, <1>6, AheadIs, MappingAgrees

LEMMA SaveRefines ==
    ASSUME TapeInv, TapeInv', NEW data \in Data, Save(data)
    PROVE  Promised!Save(data)
<1>1. CASE Places = {} /\ kept' = kept
  <2>1. data \in Savable
    BY TapeAssumption DEF Savable
  <2>2. /\ Block(data) \in Seq(Byte) /\ Len(Block(data)) = Size(data) /\ Size(data) \in Nat
        /\ tape' = Recorded(tape, pos, Block(data)) /\ mode = "open" /\ mode' = "open"
        /\ pos' = pos + Size(data) /\ answer' = Quiet
    BY <2>1, BlockShape, LenProperties DEF Save
  <2>3. /\ pos > LastEnd(kept) /\ LastEnd(kept) \in Nat /\ pos \in Nat
        /\ Ahead = 0 /\ Contents' = Contents /\ Clean' = Clean
    BY <1>1, <2>2, NothingKnownThere
  <2>4. Ahead' = 0
    <3>1. pos' \in Nat /\ pos' > LastEnd(kept')
      BY <1>1, <2>2, <2>3
    <3>2. WellKept(tape', kept') /\ tape' \in Seq(Byte)
      BY DEF TapeInv, TypeOK
    <3> QED BY <3>1, <3>2, NoPlace, MappingAgrees, AheadWillBe
  <2> QED BY <2>2, <2>3, <2>4 DEF Promised!Save, Promised!Quiet, Quiet
<1>2. ASSUME NEW k \in Places,
             kept' = IF Fits(k, data) THEN [kept EXCEPT ![k] = Sound(pos, data)]
                     ELSE Append(SubSeq(kept, 1, k - 1), Sound(pos, data))
      PROVE  Promised!Save(data)
  <2>1. kept' = KeptAfter(kept, k, Sound(pos, data))
    BY <1>2 DEF KeptAfter, Fits, Sound
  <2> QED BY <2>1, SaveThere
<1> QED BY <1>1, <1>2 DEF Save, KeepSaved, Sound

(* A SAVE that was cut, by the process being killed.                       *)
LEMMA CutThere ==
    ASSUME TapeInv, TapeInv', NEW data \in Data, NEW n \in 1 .. Size(data) - 1,
           KilledSaving(data, n), NEW k \in Places, kept' = LeftAfter(kept, k, data)
    PROVE  Promised!KilledSaving(data)
<1> DEFINE cut == SubSeq(Block(data), 1, n)
           new == [kept[k] EXCEPT !.state = "torn"]
<1>1. tape \in Seq(Byte) /\ WellKept(tape, kept) /\ data \in Savable
  BY TapeAssumption DEF TapeInv, TypeOK, Savable
<1>2. kept \in Seq(KeptBlock) /\ Len(kept) \in Nat
  BY <1>1, LenProperties DEF WellKept
<1>3. /\ mode = "open" /\ mode' = "off" /\ answer' = Quiet
      /\ tape' = Recorded(tape, pos, cut)
  BY DEF KilledSaving, Ends
<1>4. k \in 1 .. Len(kept) + 1 /\ pos = Start(kept, k) /\ k # 0 /\ k \in Nat
  BY <1>2, MappingAgrees DEF PlacesOf
<1>5. Ahead = k /\ Ahead' = 0
  <2>1. Ahead' = 0
    BY <1>3, AheadWillBe
  <2>2. PlacesOf(kept, pos) = {k}
    BY <1>1, <1>4, OnePlace
  <2> QED BY <1>3, <2>1, <2>2, MappingAgrees, AheadIs
<1>6. Promised!Stop
  BY <1>3, <1>5 DEF Promised!Stop, Promised!Quiet, Quiet
<1>7. /\ Contents = Blocks(kept) /\ Contents' = Blocks(kept') /\ Len(Contents) = Len(kept)
      /\ k \in 1 .. Len(kept) => Contents[k].data = kept[k].data
  <2>1. /\ Len(Blocks(kept)) = Len(kept)
        /\ \A j \in 1 .. Len(kept) : Blocks(kept)[j] = Block1(kept[j])
    BY <1>2, BlocksShape
  <2>2. \A b : Block1(b).data = b.data
    BY DEF Block1
  <2> QED BY <2>1, <2>2, MappingAgrees
<1>8. CASE k <= Len(kept) /\ Len(data) = Len(kept[k].data)
  <2>1. k \in 1 .. Len(kept) /\ kept' = [kept EXCEPT ![k].state = "torn"]
    BY <1>2, <1>4, <1>8 DEF LeftAfter
  <2>2. Contents' = [Contents EXCEPT ![k].state = "torn"]
    <3>1. Blocks(kept') = [Blocks(kept) EXCEPT ![k].state = "torn"]
      <4>1. kept' = Marked(kept, k, "torn") /\ k \in 1 .. Len(kept)
        BY <2>1 DEF Marked
      <4>2. Blocks(kept') = Marked(Blocks(kept), k, "torn")
        BY <1>2, <4>1, BlocksMarked
      <4> QED BY <4>2 DEF Marked
    <3> QED BY <1>7, <3>1
  <2>3. Len(tape') = Len(tape)
    <3>1. Block(data) \in Seq(Byte) /\ Len(Block(data)) = Size(data) /\ Size(data) \in Nat
      BY <1>1, BlockShape, LenProperties
    <3>2. cut \in Seq(Byte) /\ Len(cut) = n /\ n <= Size(data)
      BY <3>1
    <3> HIDE DEF cut
    <3> QED BY <1>1, <1>3, <1>4, <1>8, <2>1, <3>2, NoLonger
  <2>4. LastEnd(kept') = LastEnd(kept)
    <3>1. kept[k] \in KeptBlock
      BY <1>2, <2>1, ElementOfSeq
    <3>2. new \in KeptBlock /\ End(new) = End(kept[k]) /\ kept' = Put(kept, k, new)
      BY <2>1, <3>1 DEF End, KeptBlock, Put
    <3>3. k \in 1 .. Len(kept)
      BY <2>1
    <3> HIDE DEF new
    <3> QED BY <1>2, <3>2, <3>3, SameLastEnd
  <2>5. Clean' = Clean
    BY <2>3, <2>4, MappingAgrees
  <2>6. Promised!Replaced(k, data)
    BY <1>2, <1>7, <1>8, <2>1 DEF Promised!Replaced, Promised!Behind
  <2> QED BY <1>3, <1>4, <1>5, <1>6, <2>2, <2>5, <2>6 DEF Promised!KilledSaving
<1>9. CASE ~(k <= Len(kept) /\ Len(data) = Len(kept[k].data))
  <2>1. kept' = SubSeq(kept, 1, k - 1)
    BY <1>9 DEF LeftAfter
  <2>2. Contents' = SubSeq(Contents, 1, k - 1)
    <3>1. Blocks(SubSeq(kept, 1, k - 1)) = SubSeq(Blocks(kept), 1, k - 1)
      BY <1>2, <1>4, BlocksCut
    <3> QED BY <1>7, <2>1, <3>1
  <2>3. ~Promised!Replaced(k, data)
    <3>1. k <= Len(kept) => k \in 1 .. Len(kept)
      BY <1>2, <1>4
    <3> QED BY <1>2, <1>4, <1>7, <1>9, <3>1 DEF Promised!Replaced, Promised!Behind
  <2> QED BY <1>3, <1>4, <1>5, <1>6, <2>2, <2>3 DEF Promised!KilledSaving, Promised!Before
<1> QED BY <1>8, <1>9

LEMMA KilledSavingRefines ==
    ASSUME TapeInv, TapeInv', NEW data \in Data, NEW n \in 1 .. Size(data) - 1,
           KilledSaving(data, n)
    PROVE  Promised!KilledSaving(data)
<1>1. CASE Places = {} /\ kept' = kept
  <2> DEFINE cut == SubSeq(Block(data), 1, n)
  <2>1. data \in Savable
    BY TapeAssumption DEF Savable
  <2>2. Block(data) \in Seq(Byte) /\ Len(Block(data)) = Size(data) /\ Size(data) \in Nat
    BY <2>1, BlockShape, LenProperties
  <2>3. cut \in Seq(Byte)
    BY <2>2
  <2>4. /\ mode = "open" /\ mode' = "off" /\ answer' = Quiet /\ tape' = Recorded(tape, pos, cut)
    BY DEF KilledSaving, Ends
  <2> HIDE DEF cut
  <2>5. Ahead = 0 /\ Contents' = Contents /\ Clean' = Clean /\ Ahead' = 0
    BY <1>1, <2>3, <2>4, NothingKnownThere, AheadWillBe
  <2> QED BY <2>4, <2>5 DEF Promised!KilledSaving, Promised!Stop, Promised!Quiet, Quiet
<1>2. ASSUME NEW k \in Places,
             kept' = IF Fits(k, data) THEN [kept EXCEPT ![k].state = "torn"]
                     ELSE SubSeq(kept, 1, k - 1)
      PROVE  Promised!KilledSaving(data)
  <2>1. kept' = LeftAfter(kept, k, data)
    BY <1>2 DEF LeftAfter, Fits
  <2> QED BY <2>1, CutThere
<1> QED BY <1>1, <1>2 DEF KilledSaving, KeepCut

(* LOAD: at a block, right behind the last one, and further on.            *)
LEMMA WhereTheHeadIs ==
    ASSUME TapeInv, mode = "open"
    PROVE  /\ \/ \E k \in 1 .. Len(kept) : kept[k].at = pos /\ Ahead = k /\ k # 0
              \/ pos = LastEnd(kept) /\ Ahead = Len(kept) + 1
              \/ pos > LastEnd(kept) /\ Ahead = 0
           /\ LastEnd(kept) \in Nat /\ Len(kept) \in Nat
<1>1. /\ tape \in Seq(Byte) /\ WellKept(tape, kept) /\ HeadPlaced(tape, kept, pos) /\ pos \in Nat
      /\ kept \in Seq(KeptBlock)
  BY DEF TapeInv, TypeOK
<1>2. Len(kept) \in Nat /\ Len(kept) + 1 \in 1 .. Len(kept) + 1
  BY <1>1, LenProperties
<1>3. LastEnd(kept) \in Nat
  BY <1>1, <1>2, StartBounds DEF LastEnd
<1>4. ASSUME NEW k \in 1 .. Len(kept) + 1, Start(kept, k) = pos
      PROVE  Ahead = k /\ k # 0 /\ k \in Nat
  <2>1. PlacesOf(kept, pos) = {k}
    BY <1>1, <1>4, OnePlace
  <2> QED BY <1>2, <2>1, MappingAgrees, AheadIs
<1>5. ASSUME NEW k \in 1 .. Len(kept) + 1, Start(kept, k) = pos, k # Len(kept) + 1
      PROVE  k \in 1 .. Len(kept) /\ kept[k].at = pos
  <2>1. k \in 1 .. Len(kept) /\ k <= Len(kept)
    BY <1>2, <1>5
  <2> QED BY <1>5, <2>1 DEF Start
<1>6. ASSUME pos > LastEnd(kept) PROVE Ahead = 0
  <2>1. PlacesOf(kept, pos) = {}
    BY <1>1, <1>6, NoPlace
  <2> QED BY <2>1, MappingAgrees, AheadIs
<1> QED BY <1>1, <1>2, <1>3, <1>4, <1>5, <1>6 DEF HeadPlaced, LastEnd

LEMMA NothingFurther ==
    ASSUME TapeInv, TapeInv', mode' = "open", kept' = kept, LastEnd(kept) < pos'
    PROVE  Ahead' = 0
<1>1. WellKept(tape', kept) /\ tape' \in Seq(Byte) /\ pos' \in Nat
  BY DEF TapeInv, TypeOK
<1>2. PlacesOf(kept, pos') = {}
  BY <1>1, NoPlace
<1> QED BY <1>2, MappingAgrees, AheadWillBe

LEMMA NothingAtTheEnd ==
    ASSUME NEW t \in Seq(Byte)
    PROVE  DataAt(t, Len(t)) = <<>>
<1>1. Len(t) \in Nat /\ ~HeaderAt(t, Len(t))
  BY LenProperties DEF HeaderAt
<1>2. DataAt(t, Len(t)) = SubSeq(t, Len(t) + 3, Len(t))
  BY <1>1 DEF DataAt, Wanted
<1>3. Len(t) + 3 \in Int /\ Len(t) \in Int /\ Len(t) < Len(t) + 3
  BY <1>1
<1> QED BY <1>2, <1>3, SubSeqEmpty

LEMMA LoadRefines ==
    ASSUME TapeInv, TapeInv', LoadWhole \/ LoadPart
    PROVE  Promised!Load \/ Promised!LoadAtEnd \/ Promised!LoadLeftover
<1>1. /\ tape \in Seq(Byte) /\ WellKept(tape, kept) /\ pos \in Nat /\ Len(tape) \in Nat
      /\ pos \in 0 .. Len(tape) /\ kept \in Seq(KeptBlock) /\ WellKept(tape', kept')
      /\ tape' \in Seq(Byte) /\ pos' \in Nat
  BY LenProperties DEF TapeInv, TypeOK, HeadPlaced, LoadWhole, LoadPart
<1>2. mode = "open" /\ mode' = mode /\ kept' = kept /\ tape' = tape
  BY DEF LoadWhole, LoadPart
<1>3. Contents' = Contents /\ Clean' = Clean /\ LastEnd(kept) \in Nat /\ Len(kept) \in Nat
  BY <1>2, MappingAgrees, WhereTheHeadIs DEF Clean, Contents, StartOf, EndOf
<1>4. /\ Contents = Blocks(kept) /\ Len(Contents) = Len(kept) /\ DOMAIN Contents = 1 .. Len(kept)
      /\ \A k \in 1 .. Len(kept) : /\ Contents[k].data = kept[k].data
                                   /\ Contents[k].state = kept[k].state
  <2>1. /\ Len(Blocks(kept)) = Len(kept) /\ DOMAIN Blocks(kept) = 1 .. Len(kept)
        /\ \A j \in 1 .. Len(kept) : Blocks(kept)[j] = Block1(kept[j])
    BY <1>1, BlocksShape
  <2>2. \A b : Block1(b).data = b.data /\ Block1(b).state = b.state
    BY DEF Block1
  <2> QED BY <2>1, <2>2, MappingAgrees
<1>5. ASSUME LastEnd(kept) < pos', Ahead = 0 \/ (Ahead = Len(kept) + 1 /\ ~Clean)
      PROVE  Promised!LoadLeftover
  <2>1. Ahead' = 0
    BY <1>2, <1>5, NothingFurther
  <2> QED BY <1>2, <1>3, <1>4, <1>5, <2>1 DEF Promised!LoadLeftover, Promised!Behind
<1>6. Wanted(tape, pos) \in Nat
  BY <1>1, LoadShape
<1>7. ASSUME NEW k \in 1 .. Len(kept), kept[k].at = pos, Ahead = k
      PROVE  Promised!Load
  <2>1. Standing(tape, kept[k]) /\ kept[k] \in KeptBlock
    BY <1>1, KeptBounds
  <2>2. WholeAt(tape, pos) /\ Wanted(tape, pos) = Len(kept[k].data)
    BY <1>1, <1>7, <2>1, StandingIsRead
  <2>3. /\ pos' = pos + Wanted(tape, pos) + 3
        /\ answer' = [complains |-> ~ChecksumMatches(tape, pos), data |-> DataAt(tape, pos)]
    BY <2>2 DEF LoadWhole, LoadPart
  <2>4. Ahead' = k + 1
    <3>1. pos' = End(kept[k])
      BY <1>1, <1>7, <2>1, <2>2, <2>3, BlockBounds
    <3>2. Start(kept, k + 1) = End(kept[k])
      BY <1>1, NextStart
    <3>3. k + 1 \in 1 .. Len(kept) + 1
      BY <1>3
    <3>4. PlacesOf(kept, pos') = {k + 1}
      BY <1>1, <3>1, <3>2, <3>3, OnePlace
    <3> QED BY <1>2, <3>4, MappingAgrees, AheadWillBe
  <2>5. CASE kept[k].state = "sound"
    <3>1. answer' = [complains |-> FALSE, data |-> kept[k].data]
      BY <1>1, <1>7, <2>1, <2>3, <2>5, SoundReadsBack
    <3> QED BY <1>2, <1>3, <1>4, <1>7, <2>4, <2>5, <3>1 DEF Promised!Load
  <2>6. CASE kept[k].state = "damaged"
    <3>1. answer'.complains
      BY <1>1, <1>7, <2>1, <2>3, <2>6, DamageIsNoticed
    <3> QED BY <1>2, <1>3, <1>4, <1>7, <2>4, <2>6, <3>1 DEF Promised!Load
  <2>7. CASE kept[k].state = "torn"
    BY <1>2, <1>3, <1>4, <1>7, <2>4, <2>7 DEF Promised!Load
  <2> QED BY <2>1, <2>5, <2>6, <2>7 DEF KeptBlock
<1>8. CASE pos = LastEnd(kept) /\ Ahead = Len(kept) + 1
  <2>1. CASE Clean
    <3>1. pos = Len(tape)
      BY <1>8, <2>1, MappingAgrees
    <3>2. ~WholeAt(tape, pos)
      BY <1>1, <1>6, <3>1 DEF WholeAt, HeaderAt
    <3>3. pos' = pos /\ answer' = Complaint
      BY <1>1, <3>1, <3>2, NothingAtTheEnd DEF LoadWhole, LoadPart, Complaint
    <3>4. Ahead' = Ahead
      BY <1>2, <3>3 DEF Ahead, Places, StartOf, EndOf
    <3> QED BY <1>2, <1>3, <1>4, <1>8, <2>1, <3>3, <3>4
            DEF Promised!LoadAtEnd, Promised!Behind, Promised!Complaint, Complaint
  <2>2. CASE ~Clean
    <3>1. Len(tape) > pos
      <4>1. Len(tape) # LastEnd(kept)
        BY <2>2, MappingAgrees
      <4> QED BY <1>1, <1>8, <4>1
    <3>2. LastEnd(kept) < pos'
      BY <1>1, <1>3, <1>6, <1>8, <3>1 DEF LoadWhole, LoadPart
    <3> QED BY <1>5, <1>8, <2>2, <3>2
  <2> QED BY <2>1, <2>2
<1>9. CASE pos > LastEnd(kept) /\ Ahead = 0
  <2>1. LastEnd(kept) < pos'
    BY <1>1, <1>3, <1>6, <1>9 DEF LoadWhole, LoadPart
  <2> QED BY <1>5, <1>9, <2>1
<1> QED BY <1>2, <1>7, <1>8, <1>9, WhereTheHeadIs

(* A byte that goes bad while no process runs.                             *)
LEMMA DamageRefines ==
    ASSUME TapeInv, NEW k \in DOMAIN kept, NEW v \in Values,
           NEW i \in 1 .. Len(kept[k].data) + 1, Damage(k, i, v)
    PROVE  Promised!Damage
<1> DEFINE new == [kept[k] EXCEPT !.state = "damaged"]
<1>1. kept \in Seq(KeptBlock) /\ Len(kept) \in Nat /\ k \in 1 .. Len(kept) /\ tape \in Seq(Byte)
  BY LenProperties DEF TapeInv, TypeOK
<1>2. /\ mode = "off" /\ mode' = "off" /\ kept[k].state = "sound" /\ answer' = answer
      /\ kept' = Marked(kept, k, "damaged")
      /\ tape' = [tape EXCEPT ![kept[k].at + 2 + i] = v]
  BY DEF Damage, Marked
<1>3. Ahead' = Ahead
  BY <1>2, AheadIs, AheadWillBe
<1>4. Contents' = Marked(Contents, k, "damaged")
  BY <1>1, <1>2, BlocksMarked, MappingAgrees
<1>5. Len(tape') = Len(tape)
  BY <1>1, <1>2
<1>6. kept[k] \in KeptBlock
  BY <1>1, ElementOfSeq
<1>7. new \in KeptBlock /\ End(new) = End(kept[k]) /\ kept' = Put(kept, k, new)
  BY <1>2, <1>6 DEF End, KeptBlock, Put, Marked
<1> HIDE DEF new
<1>8. LastEnd(kept') = LastEnd(kept)
  BY <1>1, <1>7, SameLastEnd
<1>9. Clean' = Clean
  BY <1>5, <1>8, MappingAgrees
<1>10. k \in DOMAIN Contents /\ Contents[k].state = "sound"
  <2>1. DOMAIN Blocks(kept) = 1 .. Len(kept) /\ Blocks(kept)[k] = Block1(kept[k])
    BY <1>1, BlocksShape
  <2>2. \A b : Block1(b).state = b.state
    BY DEF Block1
  <2> QED BY <1>1, <1>2, <2>1, <2>2, MappingAgrees
<1> QED BY <1>2, <1>3, <1>4, <1>9, <1>10 DEF Promised!Damage, Marked

(* A process that begins, ends or rewinds, and what happens without an     *)
(* open file.                                                              *)
LEMMA SameMapping ==
    ASSUME tape' = tape, kept' = kept
    PROVE  Contents' = Contents /\ Clean' = Clean
BY DEF Contents, Clean, StartOf, EndOf

LEMMA PlainRefines ==
    ASSUME TapeInv, TapeInv',
           \/ StartOpen \/ StartWithout \/ StartClosed \/ Killed \/ Rewind \/ NoTape
           \/ LoadFromNowhere \/ \E data \in Data : SaveToNowhere(data)
    PROVE  Promised!Next
<1>1. /\ WellKept(tape', kept') /\ tape' \in Seq(Byte) /\ Len(kept') \in Nat
  BY LenProperties DEF TapeInv, TypeOK, WellKept
<1>2. ASSUME mode' = "open", pos' = 0 PROVE Ahead' = 1
  <2>1. 1 \in 1 .. Len(kept') + 1
    BY <1>1
  <2>2. 0 = Start(kept', 1)
    BY <1>1, <2>1, StartBounds
  <2>3. PlacesOf(kept', 0) = {1}
    BY <1>1, <2>1, <2>2, OnePlace
  <2> QED BY <1>2, <2>3, MappingAgrees, AheadWillBe
<1>3. CASE StartOpen
  <2>1. mode = "off" /\ mode' = "open" /\ pos' = 0 /\ answer' = answer
    BY <1>3 DEF StartOpen, TapeInv
  <2>2. Contents' = Contents /\ Clean' = Clean
    BY <1>3, SameMapping DEF StartOpen
  <2> QED BY <1>2, <2>1, <2>2 DEF Promised!Next, Promised!Insert
<1>4. CASE StartWithout
  <2>1. mode = "off" /\ mode' = "none" /\ answer' = answer /\ Ahead' = Ahead
    BY <1>4, AheadIs, AheadWillBe DEF StartWithout
  <2>2. Contents' = Contents /\ Clean' = Clean
    BY <1>4, SameMapping DEF StartWithout
  <2> QED BY <2>1, <2>2 DEF Promised!Next, Promised!InsertNothing
<1>5. CASE StartClosed
  <2>1. mode = "off" /\ mode' = "closed" /\ answer' = answer /\ Ahead' = Ahead
    BY <1>5, AheadIs, AheadWillBe DEF StartClosed
  <2>2. CASE UNCHANGED <<tape, kept>>
    <3>1. Contents' = Contents /\ Clean' = Clean
      BY <2>2, SameMapping
    <3> QED BY <2>1, <3>1 DEF Promised!Next, Promised!InsertNothing
  <2>3. CASE tape' = <<>> /\ kept' = <<>>
    <3>1. Contents' = <<>>
      <4>1. kept' \in Seq(KeptBlock) /\ Len(kept') = 0
        BY <2>3
      <4>2. Blocks(kept') \in Seq(BlockSeen) /\ Len(Blocks(kept')) = 0
        BY <4>1, BlocksShape
      <4>3. Blocks(kept') = <<>>
        BY <4>2, EmptySeq
      <4> QED BY <4>3, MappingAgrees
    <3>2. Clean'
      <4>1. Len(tape') = 0 /\ Len(kept') = 0
        BY <2>3
      <4>2. LastEnd(kept') = 0
        BY <4>1 DEF LastEnd, Start
      <4> QED BY <4>1, <4>2, MappingAgrees
    <3> QED BY <2>1, <3>1, <3>2 DEF Promised!Next, Promised!InsertNothing
  <2> QED BY <1>5, <2>2, <2>3 DEF StartClosed
<1>6. CASE Killed
  <2>1. mode # "off" /\ mode' = "off" /\ answer' = Quiet /\ Ahead' = 0
    BY <1>6, AheadWillBe DEF Killed, Ends
  <2>2. Contents' = Contents /\ Clean' = Clean
    BY <1>6, SameMapping DEF Killed
  <2> QED BY <2>1, <2>2
          DEF Promised!Next, Promised!Killed, Promised!Stop, Promised!Quiet, Quiet
<1>7. CASE Rewind
  <2>1. mode' = mode /\ pos' = 0 /\ answer' = Quiet /\ mode \in {"open", "closed"}
    BY <1>7 DEF Rewind
  <2>2. Contents' = Contents /\ Clean' = Clean
    BY <1>7, SameMapping DEF Rewind
  <2>3. CASE mode = "open"
    BY <1>2, <2>1, <2>2, <2>3 DEF Promised!Next, Promised!Rewind, Promised!Quiet, Quiet
  <2>4. CASE mode = "closed"
    <3>1. Ahead' = Ahead
      BY <2>1, <2>4, AheadIs, AheadWillBe
    <3> QED BY <2>1, <2>2, <2>4, <3>1 DEF Promised!Next, Promised!Nothing, Promised!Quiet, Quiet
  <2> QED BY <2>1, <2>3, <2>4
<1>8. CASE NoTape
  <2>1. mode = "none" /\ mode' = mode /\ answer' = Complaint /\ Ahead' = Ahead
    BY <1>8, AheadIs, AheadWillBe DEF NoTape
  <2>2. Contents' = Contents /\ Clean' = Clean
    BY <1>8, SameMapping DEF NoTape
  <2> QED BY <2>1, <2>2 DEF Promised!Next, Promised!Nothing, Promised!Complaint, Complaint
<1>9. CASE LoadFromNowhere
  <2>1. mode = "closed" /\ mode' = mode /\ answer' = Complaint /\ Ahead' = Ahead
    BY <1>9, AheadIs, AheadWillBe DEF LoadFromNowhere
  <2>2. Contents' = Contents /\ Clean' = Clean
    BY <1>9, SameMapping DEF LoadFromNowhere
  <2> QED BY <2>1, <2>2 DEF Promised!Next, Promised!Nothing, Promised!Complaint, Complaint
<1>10. ASSUME NEW data \in Data, SaveToNowhere(data) PROVE Promised!Next
  <2>1. mode = "closed" /\ mode' = mode /\ answer' = Quiet /\ Ahead' = Ahead
    BY <1>10, AheadIs, AheadWillBe DEF SaveToNowhere
  <2>2. Contents' = Contents /\ Clean' = Clean
    BY <1>10, SameMapping DEF SaveToNowhere
  <2> QED BY <2>1, <2>2 DEF Promised!Next, Promised!Nothing, Promised!Quiet, Quiet
<1> QED BY <1>3, <1>4, <1>5, <1>6, <1>7, <1>8, <1>9, <1>10

LEMMA InitRefines == Init => Promised!Init
<1> SUFFICES ASSUME Init PROVE Promised!Init
  OBVIOUS
<1>1. kept \in Seq(KeptBlock) /\ Len(kept) = 0 /\ mode = "off" /\ answer = Quiet
  BY DEF Init
<1>2. Blocks(kept) = <<>>
  <2>1. Blocks(kept) \in Seq(BlockSeen) /\ Len(Blocks(kept)) = 0
    BY <1>1, BlocksShape
  <2> QED BY <2>1, EmptySeq
<1>3. Clean \in BOOLEAN
  BY DEF Clean
<1>4. Ahead = 0
  BY <1>1, AheadIs
<1> QED BY <1>1, <1>2, <1>3, <1>4, MappingAgrees DEF Promised!Init, Promised!Quiet, Quiet

LEMMA StepRefines ==
    TapeInv /\ TapeInv' /\ [Next]_vars => [Promised!Next]_Promised!vars
<1> SUFFICES ASSUME TapeInv, TapeInv', [Next]_vars PROVE [Promised!Next]_Promised!vars
  OBVIOUS
<1>1. CASE UNCHANGED vars
  <2>1. tape' = tape /\ kept' = kept /\ mode' = mode /\ pos' = pos /\ answer' = answer
    BY <1>1 DEF vars
  <2>2. Contents' = Contents /\ Clean' = Clean
    BY <2>1, SameMapping
  <2>3. Ahead' = Ahead
    BY <2>1 DEF Ahead, Places, StartOf, EndOf
  <2> QED BY <2>1, <2>2, <2>3 DEF Promised!vars
<1>2. ASSUME NEW data \in Data, Save(data) PROVE Promised!Next
  BY <1>2, SaveRefines DEF Promised!Next
<1>3. ASSUME NEW data \in Data, NEW n \in 1 .. Size(data) - 1, KilledSaving(data, n)
      PROVE  Promised!Next
  BY <1>3, KilledSavingRefines DEF Promised!Next
<1>4. CASE LoadWhole \/ LoadPart
  BY <1>4, LoadRefines DEF Promised!Next
<1>5. ASSUME NEW k \in DOMAIN kept, NEW b \in Values,
             NEW i \in 1 .. Len(kept[k].data) + 1, Damage(k, i, b)
      PROVE  Promised!Next
  BY <1>5, DamageRefines DEF Promised!Next
<1> QED BY <1>1, <1>2, <1>3, <1>4, <1>5, PlainRefines
        DEF Next, SaveSome, KilledSavingSome, DamageSome

(* SAVE, LOAD, REWIND, a kill at any byte of a SAVE and a damaged byte do  *)
(* to the bytes of the file what TapeStore does to its list of blocks:     *)
(* repeated loads read the blocks in the order they were saved, whatever   *)
(* their sizes and however many sessions made the tape.                    *)
THEOREM TapeIsBlocks == Spec => ImplementsTapeStore
<1>1. TapeInv /\ TapeInv' /\ [Next]_vars => [Promised!Next]_Promised!vars
  BY StepRefines
<1> QED BY <1>1, InitRefines, TapeKept, PTL DEF Spec, ImplementsTapeStore, Promised!Spec
=============================================================================
