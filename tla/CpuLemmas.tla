------------------------------ MODULE CpuLemmas -------------------------------
(***************************************************************************)
(* What the pure operators of Alu and Status6502 return, and the facts     *)
(* about the dispatch tables of Opcodes6502 that the proofs about the CPU  *)
(* need: what the T-states of each handler's row are, and how many.        *)
(***************************************************************************)
EXTENDS Opcodes6502, Status6502, TLAPS

(* What masking with 0xFF or 0xFFFF leaves.                                *)
LEMMA ModByte == \A v \in Int : v % 256 \in Byte
  BY DEF Byte

LEMMA ModWord == \A v \in Int : v % 65536 \in Word
  BY DEF Word

LEMMA WordBounds == \A v \in Int : 0 <= v /\ v <= 65535 => v \in Word
<1>1. \A v \in Int : 0 <= v /\ v <= 65535 => v % 65536 = v
  OBVIOUS
<1>2. \A v \in Int : v % 65536 = v => v \in Word
  BY ModWord
<1> QED BY <1>1, <1>2

LEMMA WordRange == \A v \in Word : v \in Int /\ 0 <= v /\ v <= 65535
  BY DEF Word

LEMMA ByteInWord == \A d \in Byte : d \in Word
  BY WordBounds DEF Byte

(* A bit is 0 or 1, and a byte is the sum of its eight bits.               *)
LEMMA BitValue ==
    ASSUME NEW d \in Byte, NEW w \in {1, 2, 4, 8, 16, 32, 64, 128}
    PROVE  Bit(d, w) \in {0, 1}
  BY DEF Bit, Byte

LEMMA ByteIsItsBits ==
    ASSUME NEW d \in Byte
    PROVE  d = Bit(d, 1) + 2 * Bit(d, 2) + 4 * Bit(d, 4) + 8 * Bit(d, 8) + 16 * Bit(d, 16)
                 + 32 * Bit(d, 32) + 64 * Bit(d, 64) + 128 * Bit(d, 128)
  BY DEF Bit, Byte

(* One bit of a conjunction lies between what both bytes and what each of  *)
(* them has there.                                                         *)
LEMMA BothBounds ==
    ASSUME NEW a \in Byte, NEW b \in Byte, NEW w \in {1, 2, 4, 8, 16, 32, 64, 128}
    PROVE  /\ Both(a, b, w) \in {0, w}
           /\ Both(a, b, w) <= w * Bit(a, w)
           /\ Both(a, b, w) <= w * Bit(b, w)
           /\ w * Bit(a, w) + w * Bit(b, w) - Both(a, b, w) <= w
  BY BitValue DEF Both

(* The conjunction is at most either operand, and a + b exceeds it by a    *)
(* byte at most.                                                           *)
LEMMA AndBounds ==
    ASSUME NEW a \in Byte, NEW b \in Byte
    PROVE  And(a, b) \in Byte /\ And(a, b) <= a /\ And(a, b) <= b /\ a + b - And(a, b) <= 255
<1> DEFINE W == {1, 2, 4, 8, 16, 32, 64, 128}
<1>1. \A w \in W : Both(a, b, w) \in {0, w}
  BY BothBounds
<1>2. \A w \in W : Both(a, b, w) <= w * Bit(a, w) /\ Both(a, b, w) <= w * Bit(b, w)
  BY BothBounds
<1>3. \A w \in W : w * Bit(a, w) + w * Bit(b, w) - Both(a, b, w) <= w
  BY BothBounds
<1>4. \A w \in W : Bit(a, w) \in {0, 1} /\ Bit(b, w) \in {0, 1}
  BY BitValue
<1>5. And(a, b) \in Byte
  BY <1>1 DEF And, Byte
<1>6. a = Bit(a, 1) + 2 * Bit(a, 2) + 4 * Bit(a, 4) + 8 * Bit(a, 8) + 16 * Bit(a, 16)
            + 32 * Bit(a, 32) + 64 * Bit(a, 64) + 128 * Bit(a, 128)
  BY ByteIsItsBits
<1>7. b = Bit(b, 1) + 2 * Bit(b, 2) + 4 * Bit(b, 4) + 8 * Bit(b, 8) + 16 * Bit(b, 16)
            + 32 * Bit(b, 32) + 64 * Bit(b, 64) + 128 * Bit(b, 128)
  BY ByteIsItsBits
<1>8. And(a, b) <= a
  BY <1>1, <1>2, <1>4, <1>6 DEF And
<1>9. And(a, b) <= b
  BY <1>1, <1>2, <1>4, <1>7 DEF And
<1>10. a + b - And(a, b) <= 255
  <2>1. /\ 1 * Bit(a, 1) + 1 * Bit(b, 1) - Both(a, b, 1) <= 1
        /\ 2 * Bit(a, 2) + 2 * Bit(b, 2) - Both(a, b, 2) <= 2
        /\ 4 * Bit(a, 4) + 4 * Bit(b, 4) - Both(a, b, 4) <= 4
        /\ 8 * Bit(a, 8) + 8 * Bit(b, 8) - Both(a, b, 8) <= 8
        /\ 16 * Bit(a, 16) + 16 * Bit(b, 16) - Both(a, b, 16) <= 16
        /\ 32 * Bit(a, 32) + 32 * Bit(b, 32) - Both(a, b, 32) <= 32
        /\ 64 * Bit(a, 64) + 64 * Bit(b, 64) - Both(a, b, 64) <= 64
        /\ 128 * Bit(a, 128) + 128 * Bit(b, 128) - Both(a, b, 128) <= 128
    BY <1>3
  <2>2. \A w \in W : Bit(a, w) \in Int /\ Bit(b, w) \in Int /\ Both(a, b, w) \in Int
    <3>1. \A w \in W : w \in Int
      OBVIOUS
    <3> QED BY <1>1, <1>4, <3>1
  <2> QED BY <1>6, <1>7, <2>1, <2>2 DEF And
<1> QED BY <1>5, <1>8, <1>9, <1>10

(* So what a disjunction or an exclusive disjunction subtracts leaves a    *)
(* byte.                                                                   *)
LEMMA OverlapBytes ==
    ASSUME NEW a \in Byte, NEW b \in Byte, NEW n \in Byte, n <= a, n <= b, a + b - n <= 255
    PROVE  a + b - n \in Byte /\ a + b - 2 * n \in Byte
<1>1. a + b - n \in Byte
  BY DEF Byte
<1>2. a + b - 2 * n \in Byte
  BY DEF Byte
<1> QED BY <1>1, <1>2

(* The logical operations return bytes.                                    *)
LEMMA LogicBytes ==
    ASSUME NEW a \in Byte, NEW b \in Byte
    PROVE  And(a, b) \in Byte /\ Or(a, b) \in Byte /\ Xor(a, b) \in Byte /\ Not(a) \in Byte
<1>1. And(a, b) \in Byte /\ And(a, b) <= a /\ And(a, b) <= b /\ a + b - And(a, b) <= 255
  BY AndBounds
<1>2. a + b - And(a, b) \in Byte /\ a + b - 2 * And(a, b) \in Byte
  BY <1>1, OverlapBytes
<1>3. 255 - a \in Byte
  BY DEF Byte
<1> QED BY <1>1, <1>2, <1>3 DEF Or, Xor, Not

-----------------------------------------------------------------------------
(* ALU::execute returns a byte for every function and every operands.      *)
LEMMA AluValueByte ==
    ASSUME NEW f \in AluFunction, NEW a \in Byte, NEW b \in Byte, NEW c \in BOOLEAN
    PROVE  AluValue(f, a, b, c) \in Byte
<1>1. One(c) \in 0 .. 1
  BY DEF One
<1>2. CASE f \in {"AND", "OR", "XOR"}
  BY <1>2, LogicBytes DEF AluValue
<1>3. CASE f = "ADD"
  <2>1. a + b + One(c) \in Int
    BY <1>1 DEF Byte
  <2>2. (a + b + One(c)) % 256 \in Byte
    BY <2>1, ModByte
  <2> QED BY <1>3, <2>2 DEF AluValue
<1>4. CASE f = "SHL"
  <2>1. (2 * b) % 256 \in Byte
    BY DEF Byte
  <2> QED BY <1>4, <2>1 DEF AluValue
<1>5. CASE f = "SHR"
  <2>1. b \div 2 \in Byte
    BY DEF Byte
  <2> QED BY <1>5, <2>1 DEF AluValue
<1>6. CASE f = "ROL"
  <2>1. ((2 * b) % 256) + One(c) \in Byte
    BY <1>1 DEF Byte
  <2> QED BY <1>6, <2>1 DEF AluValue
<1>7. CASE f = "ROR"
  <2>1. (b \div 2) + 128 * One(c) \in Byte
    BY <1>1 DEF Byte
  <2> QED BY <1>7, <2>1 DEF AluValue
<1> QED BY <1>2, <1>3, <1>4, <1>5, <1>6, <1>7 DEF AluFunction

(* ... and a truth value for its carry.                                    *)
LEMMA AluCarryTruth ==
    ASSUME NEW f \in AluFunction, NEW a \in Byte, NEW b \in Byte, NEW c \in BOOLEAN
    PROVE  AluCarry(f, a, b, c) \in BOOLEAN
<1>1. One(c) \in Int /\ a \in Int /\ b \in Int
  BY DEF One, Byte
<1>2. CASE f = "ADD"
  <2>1. AluCarry(f, a, b, c) = (a + b + One(c) > 255)
    BY <1>2, Zenon DEF AluCarry
  <2>2. (a + b + One(c) > 255) \in BOOLEAN
    BY <1>1
  <2> QED BY <2>1, <2>2
<1>3. CASE f \in {"AND", "OR", "XOR"}
  <2>1. AluCarry(f, a, b, c) = FALSE
    BY <1>3 DEF AluCarry
  <2> QED BY <2>1
<1>4. CASE f \in {"SHL", "ROL"}
  <2>1. AluCarry(f, a, b, c) = (b >= 128)
    BY <1>4 DEF AluCarry
  <2>2. (b >= 128) \in BOOLEAN
    BY <1>1
  <2> QED BY <2>1, <2>2
<1>5. CASE f \in {"SHR", "ROR"}
  <2>1. AluCarry(f, a, b, c) = (b % 2 = 1)
    BY <1>5 DEF AluCarry
  <2> QED BY <2>1
<1> QED BY <1>2, <1>3, <1>4, <1>5 DEF AluFunction

(* beginBinaryAluOp and beginUnaryAluOp load the latches with values of    *)
(* their widths.                                                           *)
LEMMA BinaryLatches ==
    ASSUME NEW op \in BinaryOp, NEW m \in Byte, NEW c \in BOOLEAN
    PROVE  /\ BinaryFunction(op) \in AluFunction
           /\ BinaryB(op, m) \in Byte
           /\ BinaryCarryIn(op, c) \in BOOLEAN
<1>1. BinaryFunction(op) \in AluFunction
  BY DEF BinaryFunction, BinaryOp, AluFunction
<1>2. Not(m) \in Byte
  BY LogicBytes
<1> QED BY <1>1, <1>2 DEF BinaryB, BinaryCarryIn

LEMMA UnaryLatches ==
    ASSUME NEW op \in UnaryOp, NEW a \in Byte, NEW c \in BOOLEAN
    PROVE  /\ UnaryFunction(op) \in AluFunction
           /\ UnaryA(op, a) \in Byte
           /\ UnaryCarryIn(op, c) \in BOOLEAN
<1>1. UnaryFunction(op) \in AluFunction
  BY DEF UnaryFunction, UnaryOp, AluFunction
<1>2. 1 \in Byte /\ 255 \in Byte
  BY DEF Byte
<1> QED BY <1>1, <1>2 DEF UnaryA, UnaryCarryIn

-----------------------------------------------------------------------------
(* What the logical operations, the flag predicates and the ADD function   *)
(* of ALU::execute compute.                                                *)

Weights == {1, 2, 4, 8, 16, 32, 64, 128}

(* A byte put together from eight bits has these bits.                     *)
LEMMA Assembled ==
    ASSUME NEW x0 \in {0, 1}, NEW x1 \in {0, 1}, NEW x2 \in {0, 1}, NEW x3 \in {0, 1},
           NEW x4 \in {0, 1}, NEW x5 \in {0, 1}, NEW x6 \in {0, 1}, NEW x7 \in {0, 1},
           NEW d, d = x0 + 2 * x1 + 4 * x2 + 8 * x3 + 16 * x4 + 32 * x5 + 64 * x6 + 128 * x7
    PROVE  /\ Bit(d, 1) = x0 /\ Bit(d, 2) = x1 /\ Bit(d, 4) = x2 /\ Bit(d, 8) = x3
           /\ Bit(d, 16) = x4 /\ Bit(d, 32) = x5 /\ Bit(d, 64) = x6 /\ Bit(d, 128) = x7
  BY DEF Bit

(* A bit of the conjunction is raised when it is raised in both bytes.     *)
LEMMA AndBits ==
    ASSUME NEW a \in Byte, NEW b \in Byte, NEW w \in Weights
    PROVE  Bit(And(a, b), w) = One(Bit(a, w) = 1 /\ Bit(b, w) = 1)
<1> DEFINE m(v) == One(Bit(a, v) = 1 /\ Bit(b, v) = 1)
<1>1. \A v \in Weights : m(v) \in {0, 1}
  BY DEF One
<1>2. \A v \in Weights : Both(a, b, v) = v * m(v)
  BY DEF Both, One, Weights
<1>3. And(a, b) = m(1) + 2 * m(2) + 4 * m(4) + 8 * m(8) + 16 * m(16) + 32 * m(32)
                    + 64 * m(64) + 128 * m(128)
  <2> HIDE DEF m
  <2> QED BY <1>1, <1>2 DEF And, Weights
<1>4. /\ Bit(And(a, b), 1) = m(1) /\ Bit(And(a, b), 2) = m(2) /\ Bit(And(a, b), 4) = m(4)
      /\ Bit(And(a, b), 8) = m(8) /\ Bit(And(a, b), 16) = m(16)
      /\ Bit(And(a, b), 32) = m(32) /\ Bit(And(a, b), 64) = m(64)
      /\ Bit(And(a, b), 128) = m(128)
  <2> HIDE DEF m
  <2>1. /\ m(1) \in {0, 1} /\ m(2) \in {0, 1} /\ m(4) \in {0, 1} /\ m(8) \in {0, 1}
        /\ m(16) \in {0, 1} /\ m(32) \in {0, 1} /\ m(64) \in {0, 1} /\ m(128) \in {0, 1}
    BY <1>1 DEF Weights
  <2> QED BY <1>3, <2>1, Assembled
<1>5. Bit(And(a, b), w) = m(w)
  <2> HIDE DEF m
  <2> QED BY <1>4 DEF Weights
<1> QED BY <1>5

(* What And says of bits makes the same so for the three operations that   *)
(* are built on it: they add and subtract bit by bit with no borrow.       *)
LEMMA LogicBits ==
    ASSUME NEW a \in Byte, NEW b \in Byte, NEW w \in Weights
    PROVE  /\ Bit(Or(a, b), w) = One(Bit(a, w) = 1 \/ Bit(b, w) = 1)
           /\ Bit(Xor(a, b), w) = One(Bit(a, w) # Bit(b, w))
           /\ Bit(Not(a), w) = 1 - Bit(a, w)
<1> DEFINE n == And(a, b)
           or(v) == Bit(a, v) + Bit(b, v) - Bit(n, v)
           xor(v) == Bit(a, v) + Bit(b, v) - 2 * Bit(n, v)
           not(v) == 1 - Bit(a, v)
<1>1. n \in Byte
  BY AndBounds
<1>2. \A v \in Weights : Bit(a, v) \in {0, 1} /\ Bit(b, v) \in {0, 1} /\ Bit(n, v) \in {0, 1}
  <2> HIDE DEF n
  <2> QED BY <1>1, BitValue DEF Weights
<1>3. \A v \in Weights : Bit(n, v) = One(Bit(a, v) = 1 /\ Bit(b, v) = 1)
  BY AndBits
<1>4. \A v \in Weights :
          /\ or(v) = One(Bit(a, v) = 1 \/ Bit(b, v) = 1)
          /\ xor(v) = One(Bit(a, v) # Bit(b, v))
          /\ or(v) \in {0, 1} /\ xor(v) \in {0, 1} /\ not(v) \in {0, 1}
  <2> HIDE DEF n
  <2> QED BY <1>2, <1>3 DEF One
<1>5. a = Bit(a, 1) + 2 * Bit(a, 2) + 4 * Bit(a, 4) + 8 * Bit(a, 8) + 16 * Bit(a, 16)
            + 32 * Bit(a, 32) + 64 * Bit(a, 64) + 128 * Bit(a, 128)
  BY ByteIsItsBits
<1>6. b = Bit(b, 1) + 2 * Bit(b, 2) + 4 * Bit(b, 4) + 8 * Bit(b, 8) + 16 * Bit(b, 16)
            + 32 * Bit(b, 32) + 64 * Bit(b, 64) + 128 * Bit(b, 128)
  BY ByteIsItsBits
<1>7. n = Bit(n, 1) + 2 * Bit(n, 2) + 4 * Bit(n, 4) + 8 * Bit(n, 8) + 16 * Bit(n, 16)
            + 32 * Bit(n, 32) + 64 * Bit(n, 64) + 128 * Bit(n, 128)
  BY <1>1, ByteIsItsBits
<1>8. \A v \in Weights : Bit(a, v) \in Int /\ Bit(b, v) \in Int /\ Bit(n, v) \in Int
  <2> HIDE DEF n
  <2> QED BY <1>2
<1>9. /\ Or(a, b) = or(1) + 2 * or(2) + 4 * or(4) + 8 * or(8) + 16 * or(16) + 32 * or(32)
                      + 64 * or(64) + 128 * or(128)
      /\ Xor(a, b) = xor(1) + 2 * xor(2) + 4 * xor(4) + 8 * xor(8) + 16 * xor(16)
                       + 32 * xor(32) + 64 * xor(64) + 128 * xor(128)
      /\ Not(a) = not(1) + 2 * not(2) + 4 * not(4) + 8 * not(8) + 16 * not(16)
                    + 32 * not(32) + 64 * not(64) + 128 * not(128)
  <2>1. Or(a, b) = a + b - n /\ Xor(a, b) = a + b - 2 * n /\ Not(a) = 255 - a
    BY DEF Or, Xor, Not
  <2> HIDE DEF n
  <2> QED BY <1>5, <1>6, <1>7, <1>8, <2>1 DEF Weights
<1> HIDE DEF n, or, xor, not
<1>10. Bit(Or(a, b), w) = or(w)
  <2>1. /\ or(1) \in {0, 1} /\ or(2) \in {0, 1} /\ or(4) \in {0, 1} /\ or(8) \in {0, 1}
        /\ or(16) \in {0, 1} /\ or(32) \in {0, 1} /\ or(64) \in {0, 1} /\ or(128) \in {0, 1}
    BY <1>4 DEF Weights
  <2>2. /\ Bit(Or(a, b), 1) = or(1) /\ Bit(Or(a, b), 2) = or(2) /\ Bit(Or(a, b), 4) = or(4)
        /\ Bit(Or(a, b), 8) = or(8) /\ Bit(Or(a, b), 16) = or(16)
        /\ Bit(Or(a, b), 32) = or(32) /\ Bit(Or(a, b), 64) = or(64)
        /\ Bit(Or(a, b), 128) = or(128)
    BY <1>9, <2>1, Assembled
  <2> QED BY <2>2 DEF Weights
<1>11. Bit(Xor(a, b), w) = xor(w)
  <2>1. /\ xor(1) \in {0, 1} /\ xor(2) \in {0, 1} /\ xor(4) \in {0, 1} /\ xor(8) \in {0, 1}
        /\ xor(16) \in {0, 1} /\ xor(32) \in {0, 1} /\ xor(64) \in {0, 1} /\ xor(128) \in {0, 1}
    BY <1>4 DEF Weights
  <2>2. /\ Bit(Xor(a, b), 1) = xor(1) /\ Bit(Xor(a, b), 2) = xor(2) /\ Bit(Xor(a, b), 4) = xor(4)
        /\ Bit(Xor(a, b), 8) = xor(8) /\ Bit(Xor(a, b), 16) = xor(16)
        /\ Bit(Xor(a, b), 32) = xor(32) /\ Bit(Xor(a, b), 64) = xor(64)
        /\ Bit(Xor(a, b), 128) = xor(128)
    BY <1>9, <2>1, Assembled
  <2> QED BY <2>2 DEF Weights
<1>12. Bit(Not(a), w) = not(w)
  <2>1. /\ not(1) \in {0, 1} /\ not(2) \in {0, 1} /\ not(4) \in {0, 1} /\ not(8) \in {0, 1}
        /\ not(16) \in {0, 1} /\ not(32) \in {0, 1} /\ not(64) \in {0, 1} /\ not(128) \in {0, 1}
    BY <1>4 DEF Weights
  <2>2. /\ Bit(Not(a), 1) = not(1) /\ Bit(Not(a), 2) = not(2) /\ Bit(Not(a), 4) = not(4)
        /\ Bit(Not(a), 8) = not(8) /\ Bit(Not(a), 16) = not(16)
        /\ Bit(Not(a), 32) = not(32) /\ Bit(Not(a), 64) = not(64)
        /\ Bit(Not(a), 128) = not(128)
    BY <1>9, <2>1, Assembled
  <2> QED BY <2>2 DEF Weights
<1>13. not(w) = 1 - Bit(a, w)
  BY DEF not
<1> QED BY <1>4, <1>10, <1>11, <1>12, <1>13

(* The top bit is the sign.                                                *)
LEMMA TopBit ==
    ASSUME NEW d \in Byte
    PROVE  d >= 128 <=> Bit(d, 128) = 1
  BY DEF Bit, Byte

(* aluOverflow: the operands agree in sign and the result does not.        *)
LEMMA OverflowIsSigns ==
    ASSUME NEW a \in Byte, NEW b \in Byte, NEW d \in Byte
    PROVE  AluOverflow(a, b, d) <=> (a >= 128 <=> b >= 128) /\ ~(a >= 128 <=> d >= 128)
<1> DEFINE x == Xor(a, b)
           y == Xor(a, d)
           z == And(Not(x), y)
<1>1. x \in Byte /\ y \in Byte
  BY LogicBytes
<1>2. Not(x) \in Byte
  BY <1>1, LogicBytes
<1>3. z \in Byte
  BY <1>1, <1>2, LogicBytes
<1>4. 128 \in Weights
  BY DEF Weights
<1>5. Bit(x, 128) = One(Bit(a, 128) # Bit(b, 128)) /\ Bit(y, 128) = One(Bit(a, 128) # Bit(d, 128))
  BY <1>4, LogicBits
<1>6. Bit(Not(x), 128) = 1 - Bit(x, 128)
  BY <1>1, <1>4, LogicBits
<1>7. Bit(z, 128) = One(Bit(Not(x), 128) = 1 /\ Bit(y, 128) = 1)
  BY <1>1, <1>2, <1>4, AndBits
<1>8. Bit(a, 128) \in {0, 1} /\ Bit(b, 128) \in {0, 1} /\ Bit(d, 128) \in {0, 1}
  BY BitValue
<1>9. /\ a >= 128 <=> Bit(a, 128) = 1
      /\ b >= 128 <=> Bit(b, 128) = 1
      /\ d >= 128 <=> Bit(d, 128) = 1
      /\ z >= 128 <=> Bit(z, 128) = 1
  BY <1>3, TopBit
<1>10. AluOverflow(a, b, d) <=> z >= 128
  BY DEF AluOverflow
<1> HIDE DEF x, y, z
<1> QED BY <1>5, <1>6, <1>7, <1>8, <1>9, <1>10 DEF One

(* A number that a signed byte can hold.                                   *)
Fits(s) == s \in -128 .. 127

(* A byte and a carry that are a sum, or the difference and no borrow of a *)
(* subtraction.                                                            *)
IsSum(d, c, s) == d \in Byte /\ d = (IF s > 255 THEN s - 256 ELSE s) /\ (c <=> s > 255)
IsDifference(d, c, s) == d \in Byte /\ d = (IF s >= 0 THEN s ELSE s + 256) /\ (c <=> s >= 0)

(* ADD: value and carry together are the sum ...                           *)
LEMMA AddExact ==
    ASSUME NEW a \in Byte, NEW b \in Byte, NEW c \in BOOLEAN
    PROVE  IsSum(AluValue("ADD", a, b, c), AluCarry("ADD", a, b, c), a + b + One(c))
<1> DEFINE d == AluValue("ADD", a, b, c)
           s == a + b + One(c)
<1>1. d = s % 256
  BY DEF AluValue
<1>2. AluCarry("ADD", a, b, c) <=> s > 255
  BY DEF AluCarry
<1>3. d \in Byte
  BY AluValueByte DEF AluFunction
<1>4. s \in Int /\ 0 <= s /\ s <= 511
  <2>1. One(c) \in {0, 1}
    BY DEF One
  <2> QED BY <2>1 DEF Byte
<1> HIDE DEF d, s
<1>5. d = IF s > 255 THEN s - 256 ELSE s
  BY <1>1, <1>4
<1> QED BY <1>2, <1>3, <1>5 DEF d, s, IsSum

(* ... and the overflow flag says that the signed sum does not fit.        *)
LEMMA AddOverflow ==
    ASSUME NEW a \in Byte, NEW b \in Byte, NEW c \in BOOLEAN
    PROVE  AluOverflow(a, b, AluValue("ADD", a, b, c)) <=> ~Fits(Signed(a) + Signed(b) + One(c))
<1> DEFINE d == AluValue("ADD", a, b, c)
<1>1. One(c) \in {0, 1} /\ a \in Int /\ b \in Int /\ 0 <= a /\ a <= 255 /\ 0 <= b /\ b <= 255
  BY DEF One, Byte
<1>2. d \in Byte /\ d = IF a + b + One(c) > 255 THEN (a + b + One(c)) - 256 ELSE a + b + One(c)
  BY AddExact DEF IsSum
<1> HIDE DEF d
<1>3. AluOverflow(a, b, d) <=> (a >= 128 <=> b >= 128) /\ ~(a >= 128 <=> d >= 128)
  BY <1>2, OverflowIsSigns
<1>4. ~Fits(Signed(a) + Signed(b) + One(c))
        <=> (a >= 128 <=> b >= 128) /\ ~(a >= 128 <=> d >= 128)
  <2>1. /\ Signed(a) = IF a >= 128 THEN a - 256 ELSE a
        /\ Signed(b) = IF b >= 128 THEN b - 256 ELSE b
    BY DEF Signed
  <2>2. \A s \in Int : ~Fits(s) <=> (s < -128 \/ s > 127)
    BY DEF Fits
  <2>3. Signed(a) + Signed(b) + One(c) \in Int
    BY <1>1, <2>1
  <2> QED BY <1>1, <1>2, <2>1, <2>2, <2>3
<1> QED BY <1>3, <1>4 DEF d

(* Adding the complement subtracts: C is raised when nothing is borrowed,  *)
(* and the overflow flag when the signed difference does not fit.          *)
LEMMA SubtractExact ==
    ASSUME NEW a \in Byte, NEW b \in Byte, NEW c \in BOOLEAN
    PROVE  IsDifference(AluValue("ADD", a, Not(b), c), AluCarry("ADD", a, Not(b), c),
                        a - b - (1 - One(c)))
<1> DEFINE d == AluValue("ADD", a, Not(b), c)
           n == Not(b)
           u == a - b - (1 - One(c))
<1>1. n = 255 - b /\ n \in Byte
  BY LogicBytes DEF Not
<1>2. IsSum(d, AluCarry("ADD", a, n, c), a + n + One(c))
  BY <1>1, AddExact, Zenon
<1>3. One(c) \in Int /\ a \in Int /\ b \in Int
  BY DEF One, Byte
<1>4. u \in Int /\ a + n + One(c) = u + 256
  BY <1>1, <1>3
<1> HIDE DEF d, n, u
<1>5. d \in Byte /\ d = IF u >= 0 THEN u ELSE u + 256
  BY <1>2, <1>4 DEF IsSum
<1>6. AluCarry("ADD", a, n, c) <=> u >= 0
  BY <1>2, <1>4 DEF IsSum
<1> QED BY <1>5, <1>6 DEF d, n, u, IsDifference

LEMMA SubtractOverflow ==
    ASSUME NEW a \in Byte, NEW b \in Byte, NEW c \in BOOLEAN
    PROVE  AluOverflow(a, Not(b), AluValue("ADD", a, Not(b), c))
             <=> ~Fits(Signed(a) - Signed(b) - (1 - One(c)))
<1>1. Not(b) = 255 - b /\ Not(b) \in Byte
  BY LogicBytes DEF Not
<1>2. One(c) \in Int
  BY DEF One
<1>3. Signed(Not(b)) = -1 - Signed(b) /\ Signed(a) \in Int /\ Signed(b) \in Int
  BY <1>1 DEF Signed, Byte
<1>4. Signed(a) + Signed(Not(b)) + One(c) = Signed(a) - Signed(b) - (1 - One(c))
  BY <1>2, <1>3
<1>5. AluOverflow(a, Not(b), AluValue("ADD", a, Not(b), c))
        <=> ~Fits(Signed(a) + Signed(Not(b)) + One(c))
  BY <1>1, AddOverflow, Zenon
<1> QED BY <1>4, <1>5

-----------------------------------------------------------------------------
(* The status register reads as a byte and a byte reads as a status.       *)
LEMMA StatusIsByte ==
    ASSUME NEW p
    PROVE  StatusByte(p) \in Byte
<1>1. \A bit \in StatusBit : Raised(p, bit) \in {0, Weight(bit)}
  BY DEF Raised
<1>2. /\ Weight("C") = 1 /\ Weight("Z") = 2 /\ Weight("I") = 4 /\ Weight("D") = 8
      /\ Weight("B") = 16 /\ Weight("U") = 32 /\ Weight("V") = 64 /\ Weight("N") = 128
  BY DEF Weight
<1> QED BY <1>1, <1>2 DEF StatusByte, StatusBit, Byte

(* Addresses stay within 16 bits and their halves within 8.                *)
LEMMA Halves ==
    ASSUME NEW w \in Word
    PROVE  LowByte(w) \in Byte /\ HighByte(w) \in Byte /\ Next16(w) \in Word
<1>1. w \in Int /\ 0 <= w /\ w <= 65535
  BY DEF Word
<1>2. LowByte(w) \in Byte
  BY <1>1, ModByte DEF LowByte
<1>3. HighByte(w) \in Byte
  <2>1. w \div 256 \in Int /\ 0 <= w \div 256 /\ w \div 256 <= 255
    BY <1>1
  <2> QED BY <2>1 DEF HighByte, Byte
<1>4. Next16(w) \in Word
  <2>1. w + 1 \in Int
    BY <1>1
  <2> QED BY <2>1, ModWord DEF Next16
<1> QED BY <1>2, <1>3, <1>4

LEMMA Joined ==
    ASSUME NEW w \in Word, NEW d \in Byte
    PROVE  OrHigh(w, d) \in Word /\ SetHigh(w, d) \in Word
<1>1. ASSUME NEW high \in Byte, NEW low \in Byte
      PROVE  256 * high + low \in Word
  <2>1. 256 * high + low \in Int
    BY DEF Byte
  <2>2. 0 <= 256 * high + low /\ 256 * high + low <= 65535
    BY DEF Byte
  <2> QED BY <2>1, <2>2, WordBounds
<1>2. HighByte(w) \in Byte /\ LowByte(w) \in Byte
  BY Halves
<1>3. Or(HighByte(w), d) \in Byte
  BY <1>2, LogicBytes
<1> QED BY <1>1, <1>2, <1>3 DEF OrHigh, SetHigh

(* A high byte or-ed into an address that has none replaces it.            *)
LEMMA JoinedHalves ==
    ASSUME NEW low \in Byte, NEW high \in Byte
    PROVE  OrHigh(low, high) = low + 256 * high
<1>1. HighByte(low) = 0 /\ LowByte(low) = low
  BY DEF HighByte, LowByte, Byte
<1>2. \A w \in {1, 2, 4, 8, 16, 32, 64, 128} : Bit(0, w) = 0
  BY DEF Bit
<1>3. And(0, high) = 0
  BY <1>2 DEF And, Both
<1>4. Or(0, high) = high
  BY <1>3 DEF Or, Byte
<1> QED BY <1>1, <1>4 DEF OrHigh, Byte

LEMMA Moved ==
    ASSUME NEW w \in Word, NEW n \in Int
    PROVE  Indexed(w, n) \in Word /\ Relative(w, n) \in Word
<1>1. w + n \in Int
  BY DEF Word
<1> QED BY <1>1, ModWord DEF Indexed, Relative

LEMMA SignedRange ==
    ASSUME NEW d \in Byte
    PROVE  Signed(d) \in -128 .. 127
<1>1. d \in Int /\ 0 <= d /\ d <= 255
  BY DEF Byte
<1>2. Signed(d) \in Int /\ -128 <= Signed(d) /\ Signed(d) <= 127
  BY <1>1 DEF Signed
<1> QED BY <1>2

-----------------------------------------------------------------------------
(* The dispatch tables are well formed, read off their rows one handler at *)
(* a time.                                                                 *)

(* The commits that end an instruction (they set m_cpuStep to T0 whatever   *)
(* the state) ...                                                          *)
Finishing ==
    {"resultPC", "result", "writeBackAddr", "writeBackEff", "shiftResult",
     "incDecResult", "transferResult", "flagResult", "done", "storeAddr",
     "storeEff", "jump", "jumpEff", "jumpPast", "branchTake", "pushRegister",
     "pullRegister", "pullPCH", "jumpHalt"}

(* ... and what a row must be for no T-state to fall off its end: it has a *)
(* T1, no more than T6, and only a finishing commit may come last.         *)
Closed(row) ==
    /\ 1 \in DOMAIN row.commit /\ DOMAIN row.commit \subseteq 1 .. 6
    /\ \A i \in DOMAIN row.commit : i + 1 \in DOMAIN row.commit \/ row.commit[i] \in Finishing

(* Where a T-state that switches on the operation, or loads the            *)
(* instruction register, may stand.                                        *)
OnlyWhere(h, row) ==
    /\ \A i \in DOMAIN row.capture : row.capture[i] # "opcodeFetch"
    /\ \A i \in DOMAIN row.capture : row.capture[i] = "branchOffset" => h = "Branch"
    /\ \A i \in DOMAIN row.commit : row.commit[i] = "flagResult" => h = "ImpliedFlagOp"

(* Every handler's row is closed.                                          *)
LEMMA RowsClosed ==
    ASSUME NEW h \in Handlers \cup {"Unimplemented"}
    PROVE  Closed(Rows(h)) /\ OnlyWhere(h, Rows(h))
<1>1. CASE h = "ReadImmediate"
  <2>1. Rows(h) = ReadImmediate
    BY <1>1 DEF Rows
  <2> QED BY <1>1, <2>1 DEF ReadImmediate, Closed, OnlyWhere, Finishing
<1>2. CASE h = "ReadAbsolute"
  <2>1. Rows(h) = ReadAbsolute
    BY <1>2 DEF Rows
  <2> QED BY <1>2, <2>1 DEF ReadAbsolute, Closed, OnlyWhere, Finishing
<1>3. CASE h = "ReadZeroPage"
  <2>1. Rows(h) = ReadZeroPage
    BY <1>3 DEF Rows
  <2> QED BY <1>3, <2>1 DEF ReadZeroPage, Closed, OnlyWhere, Finishing
<1>4. CASE h = "ReadZeroPageX"
  <2>1. Rows(h) = ReadZeroPageX
    BY <1>4 DEF Rows
  <2> QED BY <1>4, <2>1 DEF ReadZeroPageX, Closed, OnlyWhere, Finishing
<1>5. CASE h = "ReadAbsoluteX"
  <2>1. Rows(h) = ReadAbsoluteX
    BY <1>5 DEF Rows
  <2> QED BY <1>5, <2>1 DEF ReadAbsoluteX, Closed, OnlyWhere, Finishing
<1>6. CASE h = "ReadAbsoluteY"
  <2>1. Rows(h) = ReadAbsoluteY
    BY <1>6 DEF Rows
  <2> QED BY <1>6, <2>1 DEF ReadAbsoluteY, Closed, OnlyWhere, Finishing
<1>7. CASE h = "ReadIndirectX"
  <2>1. Rows(h) = ReadIndirectX
    BY <1>7 DEF Rows
  <2> QED BY <1>7, <2>1 DEF ReadIndirectX, Closed, OnlyWhere, Finishing
<1>8. CASE h = "ReadIndirectY"
  <2>1. Rows(h) = ReadIndirectY
    BY <1>8 DEF Rows
  <2> QED BY <1>8, <2>1 DEF ReadIndirectY, Closed, OnlyWhere, Finishing
<1>9. CASE h = "ShiftAccumulator"
  <2>1. Rows(h) = ShiftAccumulator
    BY <1>9 DEF Rows
  <2> QED BY <1>9, <2>1 DEF ShiftAccumulator, Closed, OnlyWhere, Finishing
<1>10. CASE h = "RmwZeroPage"
  <2>1. Rows(h) = RmwZeroPage
    BY <1>10 DEF Rows
  <2> QED BY <1>10, <2>1 DEF RmwZeroPage, Closed, OnlyWhere, Finishing
<1>11. CASE h = "RmwZeroPageX"
  <2>1. Rows(h) = RmwZeroPageX
    BY <1>11 DEF Rows
  <2> QED BY <1>11, <2>1 DEF RmwZeroPageX, Closed, OnlyWhere, Finishing
<1>12. CASE h = "RmwAbsolute"
  <2>1. Rows(h) = RmwAbsolute
    BY <1>12 DEF Rows
  <2> QED BY <1>12, <2>1 DEF RmwAbsolute, Closed, OnlyWhere, Finishing
<1>13. CASE h = "RmwAbsoluteX"
  <2>1. Rows(h) = RmwAbsoluteX
    BY <1>13 DEF Rows
  <2> QED BY <1>13, <2>1 DEF RmwAbsoluteX, Closed, OnlyWhere, Finishing
<1>14. CASE h = "ImpliedIncDec"
  <2>1. Rows(h) = ImpliedIncDec
    BY <1>14 DEF Rows
  <2> QED BY <1>14, <2>1 DEF ImpliedIncDec, Closed, OnlyWhere, Finishing
<1>15. CASE h = "ImpliedTransfer"
  <2>1. Rows(h) = ImpliedTransfer
    BY <1>15 DEF Rows
  <2> QED BY <1>15, <2>1 DEF ImpliedTransfer, Closed, OnlyWhere, Finishing
<1>16. CASE h = "ImpliedFlagOp"
  <2>1. Rows(h) = ImpliedFlagOp
    BY <1>16 DEF Rows
  <2> QED BY <1>16, <2>1 DEF ImpliedFlagOp, Closed, OnlyWhere, Finishing
<1>17. CASE h = "LoadImmediate"
  <2>1. Rows(h) = LoadImmediate
    BY <1>17 DEF Rows
  <2> QED BY <1>17, <2>1 DEF LoadImmediate, Closed, OnlyWhere, Finishing
<1>18. CASE h = "LoadZeroPage"
  <2>1. Rows(h) = LoadZeroPage
    BY <1>18 DEF Rows
  <2> QED BY <1>18, <2>1 DEF LoadZeroPage, Closed, OnlyWhere, Finishing
<1>19. CASE h = "LoadZeroPageX"
  <2>1. Rows(h) = LoadZeroPageX
    BY <1>19 DEF Rows
  <2> QED BY <1>19, <2>1 DEF LoadZeroPageX, Closed, OnlyWhere, Finishing
<1>20. CASE h = "LoadZeroPageY"
  <2>1. Rows(h) = LoadZeroPageY
    BY <1>20 DEF Rows
  <2> QED BY <1>20, <2>1 DEF LoadZeroPageY, Closed, OnlyWhere, Finishing
<1>21. CASE h = "LoadAbsolute"
  <2>1. Rows(h) = LoadAbsolute
    BY <1>21 DEF Rows
  <2> QED BY <1>21, <2>1 DEF LoadAbsolute, Closed, OnlyWhere, Finishing
<1>22. CASE h = "LoadAbsoluteX"
  <2>1. Rows(h) = LoadAbsoluteX
    BY <1>22 DEF Rows
  <2> QED BY <1>22, <2>1 DEF LoadAbsoluteX, Closed, OnlyWhere, Finishing
<1>23. CASE h = "LoadAbsoluteY"
  <2>1. Rows(h) = LoadAbsoluteY
    BY <1>23 DEF Rows
  <2> QED BY <1>23, <2>1 DEF LoadAbsoluteY, Closed, OnlyWhere, Finishing
<1>24. CASE h = "LoadIndirectX"
  <2>1. Rows(h) = LoadIndirectX
    BY <1>24 DEF Rows
  <2> QED BY <1>24, <2>1 DEF LoadIndirectX, Closed, OnlyWhere, Finishing
<1>25. CASE h = "LoadIndirectY"
  <2>1. Rows(h) = LoadIndirectY
    BY <1>25 DEF Rows
  <2> QED BY <1>25, <2>1 DEF LoadIndirectY, Closed, OnlyWhere, Finishing
<1>26. CASE h = "StoreZeroPage"
  <2>1. Rows(h) = StoreZeroPage
    BY <1>26 DEF Rows
  <2> QED BY <1>26, <2>1 DEF StoreZeroPage, Closed, OnlyWhere, Finishing
<1>27. CASE h = "StoreZeroPageX"
  <2>1. Rows(h) = StoreZeroPageX
    BY <1>27 DEF Rows
  <2> QED BY <1>27, <2>1 DEF StoreZeroPageX, Closed, OnlyWhere, Finishing
<1>28. CASE h = "StoreZeroPageY"
  <2>1. Rows(h) = StoreZeroPageY
    BY <1>28 DEF Rows
  <2> QED BY <1>28, <2>1 DEF StoreZeroPageY, Closed, OnlyWhere, Finishing
<1>29. CASE h = "StoreAbsolute"
  <2>1. Rows(h) = StoreAbsolute
    BY <1>29 DEF Rows
  <2> QED BY <1>29, <2>1 DEF StoreAbsolute, Closed, OnlyWhere, Finishing
<1>30. CASE h = "StoreAbsoluteX"
  <2>1. Rows(h) = StoreAbsoluteX
    BY <1>30 DEF Rows
  <2> QED BY <1>30, <2>1 DEF StoreAbsoluteX, Closed, OnlyWhere, Finishing
<1>31. CASE h = "StoreAbsoluteY"
  <2>1. Rows(h) = StoreAbsoluteY
    BY <1>31 DEF Rows
  <2> QED BY <1>31, <2>1 DEF StoreAbsoluteY, Closed, OnlyWhere, Finishing
<1>32. CASE h = "StoreIndirectX"
  <2>1. Rows(h) = StoreIndirectX
    BY <1>32 DEF Rows
  <2> QED BY <1>32, <2>1 DEF StoreIndirectX, Closed, OnlyWhere, Finishing
<1>33. CASE h = "StoreIndirectY"
  <2>1. Rows(h) = StoreIndirectY
    BY <1>33 DEF Rows
  <2> QED BY <1>33, <2>1 DEF StoreIndirectY, Closed, OnlyWhere, Finishing
<1>34. CASE h = "Branch"
  <2>1. Rows(h) = Branch
    BY <1>34 DEF Rows
  <2> QED BY <1>34, <2>1 DEF Branch, Closed, OnlyWhere, Finishing
<1>35. CASE h = "BRK"
  <2>1. Rows(h) = BRK
    BY <1>35 DEF Rows
  <2> QED BY <1>35, <2>1 DEF BRK, Closed, OnlyWhere, Finishing
<1>36. CASE h = "JSR"
  <2>1. Rows(h) = JSR
    BY <1>36 DEF Rows
  <2> QED BY <1>36, <2>1 DEF JSR, Closed, OnlyWhere, Finishing
<1>37. CASE h = "RTS"
  <2>1. Rows(h) = RTS
    BY <1>37 DEF Rows
  <2> QED BY <1>37, <2>1 DEF RTS, Closed, OnlyWhere, Finishing
<1>38. CASE h = "JMPAbsolute"
  <2>1. Rows(h) = JMPAbsolute
    BY <1>38 DEF Rows
  <2> QED BY <1>38, <2>1 DEF JMPAbsolute, Closed, OnlyWhere, Finishing
<1>39. CASE h = "JMPIndirect"
  <2>1. Rows(h) = JMPIndirect
    BY <1>39 DEF Rows
  <2> QED BY <1>39, <2>1 DEF JMPIndirect, Closed, OnlyWhere, Finishing
<1>40. CASE h = "NOP"
  <2>1. Rows(h) = NOP
    BY <1>40 DEF Rows
  <2> QED BY <1>40, <2>1 DEF NOP, Closed, OnlyWhere, Finishing
<1>41. CASE h = "RTI"
  <2>1. Rows(h) = RTI
    BY <1>41 DEF Rows
  <2> QED BY <1>41, <2>1 DEF RTI, Closed, OnlyWhere, Finishing
<1>42. CASE h = "ImpliedPush"
  <2>1. Rows(h) = ImpliedPush
    BY <1>42 DEF Rows
  <2> QED BY <1>42, <2>1 DEF ImpliedPush, Closed, OnlyWhere, Finishing
<1>43. CASE h = "ImpliedPull"
  <2>1. Rows(h) = ImpliedPull
    BY <1>43 DEF Rows
  <2> QED BY <1>43, <2>1 DEF ImpliedPull, Closed, OnlyWhere, Finishing
<1>44. CASE h = "Unimplemented"
  <2>1. Rows(h) = Unimplemented
    BY <1>44 DEF Rows
  <2> QED BY <1>44, <2>1 DEF Unimplemented, Closed, OnlyWhere, Finishing
<1> QED
  BY <1>1, <1>2, <1>3, <1>4, <1>5, <1>6, <1>7, <1>8, <1>9, <1>10, <1>11, <1>12, <1>13, <1>14, <1>15, <1>16, <1>17, <1>18, <1>19, <1>20, <1>21, <1>22, <1>23, <1>24, <1>25, <1>26, <1>27, <1>28, <1>29, <1>30, <1>31, <1>32, <1>33, <1>34, <1>35, <1>36, <1>37, <1>38, <1>39, <1>40, <1>41, <1>42, <1>43, <1>44
     DEF Handlers

(* The dispatch of an opcode byte is one of the handlers or the default    *)
(* case, and the operation is one that the handler knows.                  *)
LEMMA Dispatch ==
    ASSUME NEW ir \in Byte
    PROVE  /\ Handler[ir] \in Handlers \cup {"Unimplemented"}
           /\ Handler[ir] # "Unimplemented" => Operation[ir] \in DOMAIN OpcodeOf[Handler[ir]]
<1> DEFINE Routes(h) == \E op \in DOMAIN OpcodeOf[h] : Implements(h, op, ir)
<1>1. CASE \E h \in Handlers : Routes(h)
  <2>1. Handler[ir] = CHOOSE h \in Handlers : Routes(h)
    BY <1>1, Zenon DEF Handler
  <2>2. Handler[ir] \in Handlers /\ Routes(Handler[ir])
    BY <1>1, <2>1, Zenon
  <2>3. "Unimplemented" \notin Handlers
    BY DEF Handlers
  <2>4. Operation[ir] = CHOOSE op \in DOMAIN OpcodeOf[Handler[ir]] : Implements(Handler[ir], op, ir)
    BY <2>2, <2>3, Zenon DEF Operation
  <2>5. Operation[ir] \in DOMAIN OpcodeOf[Handler[ir]]
    BY <2>2, <2>4, Zenon
  <2> QED BY <2>2, <2>5
<1>2. CASE ~ \E h \in Handlers : Routes(h)
  <2>1. Handler[ir] = "Unimplemented"
    BY <1>2, Zenon DEF Handler
  <2> QED BY <2>1
<1> QED BY <1>1, <1>2

(* The operations of the handlers whose T-states switch on the operation   *)
(* with no default case.                                                   *)
LEMMA OperationNames ==
    ASSUME NEW ir \in Byte
    PROVE  /\ Handler[ir] = "Branch" =>
                 Operation[ir] \in {"BPL", "BMI", "BVC", "BVS", "BCC", "BCS", "BNE", "BEQ"}
           /\ Handler[ir] = "ImpliedFlagOp" =>
                 Operation[ir] \in {"CLC", "SEC", "CLI", "SEI", "CLV", "CLD", "SED"}
           /\ Handler[ir] = "ImpliedTransfer" =>
                 Operation[ir] \in {"TAX", "TXA", "TAY", "TYA", "TSX", "TXS"}
           /\ Handler[ir] = "ShiftAccumulator" =>
                 Operation[ir] \in {"ASL", "LSR", "ROL", "ROR"}
<1>1. DOMAIN OpcodeOf["Branch"] = {"BPL", "BMI", "BVC", "BVS", "BCC", "BCS", "BNE", "BEQ"}
  BY DEF OpcodeOf
<1>2. DOMAIN OpcodeOf["ImpliedFlagOp"] = {"CLC", "SEC", "CLI", "SEI", "CLV", "CLD", "SED"}
  BY DEF OpcodeOf
<1>3. DOMAIN OpcodeOf["ImpliedTransfer"] = {"TAX", "TXA", "TAY", "TYA", "TSX", "TXS"}
  BY DEF OpcodeOf
<1>4. DOMAIN OpcodeOf["ShiftAccumulator"] = {"ASL", "LSR", "ROL", "ROR"}
  BY DEF OpcodeOf
<1>5. Handler[ir] # "Unimplemented" => Operation[ir] \in DOMAIN OpcodeOf[Handler[ir]]
  BY Dispatch
<1>6. Handler[ir] = "Branch" => Operation[ir] \in DOMAIN OpcodeOf["Branch"]
  BY <1>5
<1>7. Handler[ir] = "ImpliedFlagOp" => Operation[ir] \in DOMAIN OpcodeOf["ImpliedFlagOp"]
  BY <1>5
<1>8. Handler[ir] = "ImpliedTransfer" => Operation[ir] \in DOMAIN OpcodeOf["ImpliedTransfer"]
  BY <1>5
<1>9. Handler[ir] = "ShiftAccumulator" => Operation[ir] \in DOMAIN OpcodeOf["ShiftAccumulator"]
  BY <1>5
<1> QED BY <1>1, <1>2, <1>3, <1>4, <1>6, <1>7, <1>8, <1>9

(* What onClockLow relies on: the microprogram of every opcode byte is     *)
(* closed.                                                                 *)
LEMMA MicroprogramClosed ==
    ASSUME NEW ir \in Byte
    PROVE  Closed(Microprogram[ir]) /\ OnlyWhere(Handler[ir], Microprogram[ir])
  BY Dispatch, RowsClosed, Zenon DEF Microprogram

(* The seven T-states of the reset sequence.                               *)
LEMMA ResetRow ==
    /\ DOMAIN Reset.commit = 1 .. 7
    /\ Reset.commit[1] = "clearHalted" /\ Reset.commit[2] = "next"
    /\ Reset.commit[3] = "decrementSP" /\ Reset.commit[4] = "decrementSP"
    /\ Reset.commit[5] = "decrementSPMask" /\ Reset.commit[6] = "next"
    /\ Reset.commit[7] = "resetJump"
    /\ \A i \in 1 .. 7 : Reset.capture[i] # "branchOffset"
    /\ Reset.capture[1] = "dummyRead" /\ Reset.capture[2] = "dummyRead"
    /\ Reset.capture[3] = "idle" /\ Reset.capture[4] = "idle" /\ Reset.capture[5] = "idle"
    /\ Reset.capture[6] = "resetLow" /\ Reset.capture[7] = "resetHigh"
  BY DEF Reset

-----------------------------------------------------------------------------
(* The addressing mode each handler is written for.                        *)
HandlerMode ==
    [ReadImmediate |-> "imm", ReadAbsolute |-> "abs", ReadZeroPage |-> "zp",
     ReadZeroPageX |-> "zpX", ReadAbsoluteX |-> "absX",
     ReadAbsoluteY |-> "absY", ReadIndirectX |-> "indX",
     ReadIndirectY |-> "indY", ShiftAccumulator |-> "none",
     RmwZeroPage |-> "zp", RmwZeroPageX |-> "zpX", RmwAbsolute |-> "abs",
     RmwAbsoluteX |-> "absX", ImpliedIncDec |-> "none",
     ImpliedTransfer |-> "none", ImpliedFlagOp |-> "none",
     LoadImmediate |-> "imm", LoadZeroPage |-> "zp", LoadZeroPageX |-> "zpX",
     LoadZeroPageY |-> "zpY", LoadAbsolute |-> "abs", LoadAbsoluteX |-> "absX",
     LoadAbsoluteY |-> "absY", LoadIndirectX |-> "indX",
     LoadIndirectY |-> "indY", StoreZeroPage |-> "zp",
     StoreZeroPageX |-> "zpX", StoreZeroPageY |-> "zpY",
     StoreAbsolute |-> "abs", StoreAbsoluteX |-> "absX",
     StoreAbsoluteY |-> "absY", StoreIndirectX |-> "indX",
     StoreIndirectY |-> "indY", Branch |-> "rel", BRK |-> "none",
     JSR |-> "abs", RTS |-> "none", JMPAbsolute |-> "abs",
     JMPIndirect |-> "ind", NOP |-> "none", RTI |-> "none",
     ImpliedPush |-> "none", ImpliedPull |-> "none"]

(* What the rows of the tables have in common, by addressing mode and by   *)
(* what is done with the operand.                                          *)
Reading ==
    {"ReadImmediate", "ReadAbsolute", "ReadZeroPage", "ReadZeroPageX", "ReadAbsoluteX",
     "ReadAbsoluteY", "ReadIndirectX", "ReadIndirectY", "LoadImmediate", "LoadZeroPage",
     "LoadZeroPageX", "LoadZeroPageY", "LoadAbsolute", "LoadAbsoluteX", "LoadAbsoluteY",
     "LoadIndirectX", "LoadIndirectY"}
Rewriting == {"RmwZeroPage", "RmwZeroPageX", "RmwAbsolute", "RmwAbsoluteX"}
Storing ==
    {"StoreZeroPage", "StoreZeroPageX", "StoreZeroPageY", "StoreAbsolute", "StoreAbsoluteX",
     "StoreAbsoluteY", "StoreIndirectX", "StoreIndirectY"}
InRegisters == {"ShiftAccumulator", "ImpliedIncDec", "ImpliedTransfer"}
OnStack == {"BRK", "JSR", "RTS", "RTI", "ImpliedPush", "ImpliedPull"}

HowOf(h) == IF h = "Unimplemented" THEN "none" ELSE HandlerMode[h]
Captures(h, i) == IF i \in DOMAIN Rows(h).capture THEN Rows(h).capture[i] ELSE "idle"
Commits(h, i) == Rows(h).commit[i]
LastOf(h, n) == DOMAIN Rows(h).commit = 1 .. n

(* The captures that leave the address latches alone.                      *)
Fetches == {"operandPC", "operandAddr", "operandEff", "operandEffIfSamePage"}
Quiet == Fetches \cup {"idle"}

Addressing ==
    {"zp", "zpX", "zpY", "abs", "absX", "absY", "indX", "indY", "ind"}

AddressRow(h) ==
    LET mode == HowOf(h)
        QuietFrom(n) == \A i \in n .. 6 : Captures(h, i) \in Quiet
    IN  /\ mode \in Addressing => Captures(h, 1) = "fetchLow"
        /\ mode = "imm" => QuietFrom(1)
        /\ mode = "zp" => QuietFrom(2)
        /\ mode = "zpX" => Captures(h, 2) = "indexX" /\ QuietFrom(3)
        /\ mode = "zpY" => Captures(h, 2) = "indexY" /\ QuietFrom(3)
        /\ mode = "abs" /\ h # "JSR" => Captures(h, 2) = "fetchHigh" /\ QuietFrom(3)
        /\ mode = "absX" =>
               /\ Captures(h, 2) = IF h \in Reading THEN "fetchBaseX" ELSE "fetchFixedX"
               /\ QuietFrom(3)
        /\ mode = "absY" =>
               /\ Captures(h, 2) = IF h \in Reading THEN "fetchBaseY" ELSE "fetchFixedY"
               /\ QuietFrom(3)
        /\ mode = "indX" =>
               /\ Captures(h, 2) = "indexX" /\ Captures(h, 3) = "pointerLow"
               /\ Captures(h, 4) = "pointerHigh" /\ QuietFrom(5)
        /\ mode = "indY" =>
               /\ Captures(h, 2) = "pointerLow"
               /\ Captures(h, 3) = IF h \in Reading THEN "pointerBaseY" ELSE "pointerFixedY"
               /\ QuietFrom(4)
        /\ mode = "ind" =>
               /\ Captures(h, 2) = "fetchHigh" /\ Captures(h, 3) = "pointerLow"
               /\ Captures(h, 4) = "pointerHighInPage" /\ QuietFrom(5)

(* The T-state that reads the operand; with an indexed address of a read,  *)
(* if no page is crossed.                                                  *)
Paged(h) == h \in Reading /\ HowOf(h) \in {"absX", "absY", "indY"}
First(h) ==
    CASE HowOf(h) = "imm" -> 1
      [] HowOf(h) = "zp" -> 2
      [] HowOf(h) \in {"zpX", "zpY", "abs"} -> 3
      [] HowOf(h) \in {"absX", "absY"} -> IF h \in Reading THEN 3 ELSE 4
      [] HowOf(h) = "indX" -> 5
      [] HowOf(h) = "indY" -> 4

OperandRow(h) ==
    /\ h \notin Reading \cup Rewriting => \A i \in 1 .. 6 : Captures(h, i) \notin Fetches
    /\ h \in Reading \cup Rewriting =>
           /\ First(h) \in 1 .. 5
           /\ \A i \in 1 .. 6 :
                  i # First(h) /\ (i = First(h) + 1 => ~Paged(h)) => Captures(h, i) \notin Fetches
           /\ Captures(h, First(h)) =
                  IF HowOf(h) = "imm" THEN "operandPC"
                  ELSE IF HowOf(h) \in {"zp", "zpX", "zpY", "abs"} THEN "operandAddr"
                  ELSE IF Paged(h) THEN "operandEffIfSamePage"
                  ELSE "operandEff"
           /\ Paged(h) => Captures(h, First(h) + 1) = "operandEff"

(* The bytes of the instruction that PC has moved past before its last     *)
(* T-state.                                                                *)
Passed(h) ==
    IF h \in {"BRK", "JSR", "JMPAbsolute", "Branch"} THEN 2
    ELSE IF HowOf(h) \in {"none", "imm"} THEN 1
    ELSE IF HowOf(h) \in {"abs", "absX", "absY", "ind"} THEN 3
    ELSE 2

LastStore(h) ==
    CASE HowOf(h) = "zp" -> 2 [] HowOf(h) \in {"zpX", "zpY", "abs"} -> 3
      [] HowOf(h) \in {"absX", "absY"} -> 4 [] HowOf(h) \in {"indX", "indY"} -> 5
LastRewrite(h) ==
    CASE HowOf(h) = "zp" -> 4 [] HowOf(h) \in {"zpX", "abs"} -> 5 [] HowOf(h) = "absX" -> 6

CommitRow(h) ==
    /\ \A i \in DOMAIN Rows(h).commit :
           i < Passed(h) <=> Commits(h, i) \in {"nextPC", "branchDecide"}
    /\ h \in Reading =>
           /\ LastOf(h, First(h) + IF Paged(h) THEN 1 ELSE 0)
           /\ \A i \in 1 .. First(h) - 1 : Commits(h, i) \in {"nextPC", "next"}
           /\ Commits(h, First(h)) = IF HowOf(h) = "imm" THEN "resultPC"
                                     ELSE IF Paged(h) THEN "resultIfSamePage" ELSE "result"
           /\ Paged(h) => Commits(h, First(h) + 1) = "result"
    /\ h \in Rewriting =>
           /\ LastOf(h, LastRewrite(h)) /\ LastRewrite(h) \in 4 .. 6
           /\ First(h) < LastRewrite(h)
           /\ \A i \in 1 .. LastRewrite(h) - 1 : Commits(h, i) \in {"nextPC", "next"}
           /\ Commits(h, LastRewrite(h)) =
                  IF HowOf(h) = "absX" THEN "writeBackEff" ELSE "writeBackAddr"
    /\ h \in Storing =>
           /\ LastOf(h, LastStore(h)) /\ LastStore(h) \in 2 .. 5
           /\ \A i \in 1 .. LastStore(h) - 1 : Commits(h, i) \in {"nextPC", "next"}
           /\ Commits(h, LastStore(h)) =
                  IF HowOf(h) \in {"zp", "zpX", "zpY", "abs"} THEN "storeAddr" ELSE "storeEff"
    /\ h \in InRegisters \cup {"ImpliedFlagOp", "NOP", "Unimplemented"} => LastOf(h, 1)

(* The kinds of handlers, and the modes each comes with.                   *)
Jumps == {"JMPAbsolute", "JMPIndirect"}
Kind(h) ==
    \/ /\ h \in Reading /\ HowOf(h) \in (Addressing \ {"ind"}) \cup {"imm"}
       /\ h \notin Rewriting \cup Storing \cup InRegisters \cup Jumps \cup OnStack
       /\ h \notin {"ImpliedFlagOp", "NOP", "Unimplemented", "Branch"}
    \/ /\ h \in Rewriting /\ HowOf(h) \in {"zp", "zpX", "abs", "absX"}
       /\ h \notin Reading \cup Storing \cup InRegisters \cup Jumps \cup OnStack
       /\ h \notin {"ImpliedFlagOp", "NOP", "Unimplemented", "Branch"}
    \/ /\ h \in Storing /\ HowOf(h) \in Addressing \ {"ind"}
       /\ h \notin Reading \cup Rewriting \cup InRegisters \cup Jumps \cup OnStack
       /\ h \notin {"ImpliedFlagOp", "NOP", "Unimplemented", "Branch"}
    \/ h = "JMPAbsolute" /\ HowOf(h) = "abs"
    \/ h = "JMPIndirect" /\ HowOf(h) = "ind"
    \/ h \in InRegisters \cup {"ImpliedFlagOp", "NOP", "Unimplemented"} /\ HowOf(h) = "none"
    \/ h = "Branch" /\ HowOf(h) = "rel"
    \/ h = "JSR" /\ HowOf(h) = "abs"
    \/ h \in OnStack \ {"JSR"} /\ HowOf(h) = "none"

LEMMA Timing ==
    ASSUME NEW h \in Handlers \cup {"Unimplemented"}
    PROVE  AddressRow(h) /\ OperandRow(h) /\ CommitRow(h) /\ Kind(h)
<1> USE DEF AddressRow, OperandRow, CommitRow, Kind, Captures, Commits, LastOf, HowOf,
            HandlerMode, Addressing, First, Paged, Passed, LastStore, LastRewrite, Reading,
            Rewriting, Storing, InRegisters, Jumps, OnStack, Fetches, Quiet
<1>1. CASE h = "ReadImmediate"
  <2>1. Rows(h) = ReadImmediate
    BY <1>1 DEF Rows
  <2> QED BY <1>1, <2>1 DEF ReadImmediate
<1>2. CASE h = "ReadAbsolute"
  <2>1. Rows(h) = ReadAbsolute
    BY <1>2 DEF Rows
  <2> QED BY <1>2, <2>1 DEF ReadAbsolute
<1>3. CASE h = "ReadZeroPage"
  <2>1. Rows(h) = ReadZeroPage
    BY <1>3 DEF Rows
  <2> QED BY <1>3, <2>1 DEF ReadZeroPage
<1>4. CASE h = "ReadZeroPageX"
  <2>1. Rows(h) = ReadZeroPageX
    BY <1>4 DEF Rows
  <2> QED BY <1>4, <2>1 DEF ReadZeroPageX
<1>5. CASE h = "ReadAbsoluteX"
  <2>1. Rows(h) = ReadAbsoluteX
    BY <1>5 DEF Rows
  <2> QED BY <1>5, <2>1 DEF ReadAbsoluteX
<1>6. CASE h = "ReadAbsoluteY"
  <2>1. Rows(h) = ReadAbsoluteY
    BY <1>6 DEF Rows
  <2> QED BY <1>6, <2>1 DEF ReadAbsoluteY
<1>7. CASE h = "ReadIndirectX"
  <2>1. Rows(h) = ReadIndirectX
    BY <1>7 DEF Rows
  <2> QED BY <1>7, <2>1 DEF ReadIndirectX
<1>8. CASE h = "ReadIndirectY"
  <2>1. Rows(h) = ReadIndirectY
    BY <1>8 DEF Rows
  <2> QED BY <1>8, <2>1 DEF ReadIndirectY
<1>9. CASE h = "ShiftAccumulator"
  <2>1. Rows(h) = ShiftAccumulator
    BY <1>9 DEF Rows
  <2> QED BY <1>9, <2>1 DEF ShiftAccumulator
<1>10. CASE h = "RmwZeroPage"
  <2>1. Rows(h) = RmwZeroPage
    BY <1>10 DEF Rows
  <2> QED BY <1>10, <2>1 DEF RmwZeroPage
<1>11. CASE h = "RmwZeroPageX"
  <2>1. Rows(h) = RmwZeroPageX
    BY <1>11 DEF Rows
  <2> QED BY <1>11, <2>1 DEF RmwZeroPageX
<1>12. CASE h = "RmwAbsolute"
  <2>1. Rows(h) = RmwAbsolute
    BY <1>12 DEF Rows
  <2> QED BY <1>12, <2>1 DEF RmwAbsolute
<1>13. CASE h = "RmwAbsoluteX"
  <2>1. Rows(h) = RmwAbsoluteX
    BY <1>13 DEF Rows
  <2> QED BY <1>13, <2>1 DEF RmwAbsoluteX
<1>14. CASE h = "ImpliedIncDec"
  <2>1. Rows(h) = ImpliedIncDec
    BY <1>14 DEF Rows
  <2> QED BY <1>14, <2>1 DEF ImpliedIncDec
<1>15. CASE h = "ImpliedTransfer"
  <2>1. Rows(h) = ImpliedTransfer
    BY <1>15 DEF Rows
  <2> QED BY <1>15, <2>1 DEF ImpliedTransfer
<1>16. CASE h = "ImpliedFlagOp"
  <2>1. Rows(h) = ImpliedFlagOp
    BY <1>16 DEF Rows
  <2> QED BY <1>16, <2>1 DEF ImpliedFlagOp
<1>17. CASE h = "LoadImmediate"
  <2>1. Rows(h) = LoadImmediate
    BY <1>17 DEF Rows
  <2> QED BY <1>17, <2>1 DEF LoadImmediate
<1>18. CASE h = "LoadZeroPage"
  <2>1. Rows(h) = LoadZeroPage
    BY <1>18 DEF Rows
  <2> QED BY <1>18, <2>1 DEF LoadZeroPage
<1>19. CASE h = "LoadZeroPageX"
  <2>1. Rows(h) = LoadZeroPageX
    BY <1>19 DEF Rows
  <2> QED BY <1>19, <2>1 DEF LoadZeroPageX
<1>20. CASE h = "LoadZeroPageY"
  <2>1. Rows(h) = LoadZeroPageY
    BY <1>20 DEF Rows
  <2> QED BY <1>20, <2>1 DEF LoadZeroPageY
<1>21. CASE h = "LoadAbsolute"
  <2>1. Rows(h) = LoadAbsolute
    BY <1>21 DEF Rows
  <2> QED BY <1>21, <2>1 DEF LoadAbsolute
<1>22. CASE h = "LoadAbsoluteX"
  <2>1. Rows(h) = LoadAbsoluteX
    BY <1>22 DEF Rows
  <2> QED BY <1>22, <2>1 DEF LoadAbsoluteX
<1>23. CASE h = "LoadAbsoluteY"
  <2>1. Rows(h) = LoadAbsoluteY
    BY <1>23 DEF Rows
  <2> QED BY <1>23, <2>1 DEF LoadAbsoluteY
<1>24. CASE h = "LoadIndirectX"
  <2>1. Rows(h) = LoadIndirectX
    BY <1>24 DEF Rows
  <2> QED BY <1>24, <2>1 DEF LoadIndirectX
<1>25. CASE h = "LoadIndirectY"
  <2>1. Rows(h) = LoadIndirectY
    BY <1>25 DEF Rows
  <2> QED BY <1>25, <2>1 DEF LoadIndirectY
<1>26. CASE h = "StoreZeroPage"
  <2>1. Rows(h) = StoreZeroPage
    BY <1>26 DEF Rows
  <2> QED BY <1>26, <2>1 DEF StoreZeroPage
<1>27. CASE h = "StoreZeroPageX"
  <2>1. Rows(h) = StoreZeroPageX
    BY <1>27 DEF Rows
  <2> QED BY <1>27, <2>1 DEF StoreZeroPageX
<1>28. CASE h = "StoreZeroPageY"
  <2>1. Rows(h) = StoreZeroPageY
    BY <1>28 DEF Rows
  <2> QED BY <1>28, <2>1 DEF StoreZeroPageY
<1>29. CASE h = "StoreAbsolute"
  <2>1. Rows(h) = StoreAbsolute
    BY <1>29 DEF Rows
  <2> QED BY <1>29, <2>1 DEF StoreAbsolute
<1>30. CASE h = "StoreAbsoluteX"
  <2>1. Rows(h) = StoreAbsoluteX
    BY <1>30 DEF Rows
  <2> QED BY <1>30, <2>1 DEF StoreAbsoluteX
<1>31. CASE h = "StoreAbsoluteY"
  <2>1. Rows(h) = StoreAbsoluteY
    BY <1>31 DEF Rows
  <2> QED BY <1>31, <2>1 DEF StoreAbsoluteY
<1>32. CASE h = "StoreIndirectX"
  <2>1. Rows(h) = StoreIndirectX
    BY <1>32 DEF Rows
  <2> QED BY <1>32, <2>1 DEF StoreIndirectX
<1>33. CASE h = "StoreIndirectY"
  <2>1. Rows(h) = StoreIndirectY
    BY <1>33 DEF Rows
  <2> QED BY <1>33, <2>1 DEF StoreIndirectY
<1>34. CASE h = "Branch"
  <2>1. Rows(h) = Branch
    BY <1>34 DEF Rows
  <2> QED BY <1>34, <2>1 DEF Branch
<1>35. CASE h = "BRK"
  <2>1. Rows(h) = BRK
    BY <1>35 DEF Rows
  <2> QED BY <1>35, <2>1 DEF BRK
<1>36. CASE h = "JSR"
  <2>1. Rows(h) = JSR
    BY <1>36 DEF Rows
  <2> QED BY <1>36, <2>1 DEF JSR
<1>37. CASE h = "RTS"
  <2>1. Rows(h) = RTS
    BY <1>37 DEF Rows
  <2> QED BY <1>37, <2>1 DEF RTS
<1>38. CASE h = "JMPAbsolute"
  <2>1. Rows(h) = JMPAbsolute
    BY <1>38 DEF Rows
  <2> QED BY <1>38, <2>1 DEF JMPAbsolute
<1>39. CASE h = "JMPIndirect"
  <2>1. Rows(h) = JMPIndirect
    BY <1>39 DEF Rows
  <2> QED BY <1>39, <2>1 DEF JMPIndirect
<1>40. CASE h = "NOP"
  <2>1. Rows(h) = NOP
    BY <1>40 DEF Rows
  <2> QED BY <1>40, <2>1 DEF NOP
<1>41. CASE h = "RTI"
  <2>1. Rows(h) = RTI
    BY <1>41 DEF Rows
  <2> QED BY <1>41, <2>1 DEF RTI
<1>42. CASE h = "ImpliedPush"
  <2>1. Rows(h) = ImpliedPush
    BY <1>42 DEF Rows
  <2> QED BY <1>42, <2>1 DEF ImpliedPush
<1>43. CASE h = "ImpliedPull"
  <2>1. Rows(h) = ImpliedPull
    BY <1>43 DEF Rows
  <2> QED BY <1>43, <2>1 DEF ImpliedPull
<1>44. CASE h = "Unimplemented"
  <2>1. Rows(h) = Unimplemented
    BY <1>44 DEF Rows
  <2> QED BY <1>44, <2>1 DEF Unimplemented
<1> HIDE DEF AddressRow, OperandRow, CommitRow, Kind
<1> QED   BY <1>1, <1>2, <1>3, <1>4, <1>5, <1>6, <1>7, <1>8, <1>9, <1>10, <1>11, <1>12,
     <1>13, <1>14, <1>15, <1>16, <1>17, <1>18, <1>19, <1>20, <1>21, <1>22, <1>23, <1>24,
     <1>25, <1>26, <1>27, <1>28, <1>29, <1>30, <1>31, <1>32, <1>33, <1>34, <1>35, <1>36,
     <1>37, <1>38, <1>39, <1>40, <1>41, <1>42, <1>43, <1>44 DEF Handlers
=============================================================================
