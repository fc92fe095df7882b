------------------------------ MODULE AluProofs -------------------------------
(***************************************************************************)
(* The laws of AluMachine for every set of operand bytes.  Each follows    *)
(* from the register being a byte and the carry a truth value, which is    *)
(* inductive; the work is in what the operators of Alu compute, shown for  *)
(* all bytes by CpuLemmas.                                                 *)
(***************************************************************************)
EXTENDS AluMachine, CpuLemmas

-----------------------------------------------------------------------------
(* The machine stays well typed.                                           *)

(* What each operation returns on well-typed input.                        *)
LEMMA BinaryByte ==
    ASSUME NEW op \in BinaryOp, NEW r \in Byte, NEW m \in Byte, NEW c \in BOOLEAN
    PROVE  BinaryValue(op, r, m, c) \in Byte /\ BinaryCarry(op, r, m, c) \in BOOLEAN
<1>1. /\ BinaryFunction(op) \in AluFunction /\ BinaryB(op, m) \in Byte
      /\ BinaryCarryIn(op, c) \in BOOLEAN
  BY BinaryLatches, Zenon
<1>2. BinaryValue(op, r, m, c) \in Byte
  BY <1>1, AluValueByte, Zenon DEF BinaryValue
<1>3. BinaryCarry(op, r, m, c) \in BOOLEAN
  BY <1>1, AluCarryTruth, Zenon DEF BinaryCarry
<1> QED BY <1>2, <1>3

LEMMA UnaryByte ==
    ASSUME NEW op \in UnaryOp, NEW r \in Byte, NEW c \in BOOLEAN
    PROVE  UnaryValue(op, r, c) \in Byte /\ UnaryCarry(op, r, c) \in BOOLEAN
<1>1. 0 \in Byte
  BY DEF Byte
<1>2. /\ UnaryFunction(op) \in AluFunction /\ UnaryA(op, 0) \in Byte
      /\ UnaryCarryIn(op, c) \in BOOLEAN
  BY <1>1, UnaryLatches, Zenon
<1>3. UnaryValue(op, r, c) \in Byte
  BY <1>2, AluValueByte, Zenon DEF UnaryValue
<1>4. UnaryCarry(op, r, c) \in BOOLEAN
  BY <1>2, AluCarryTruth, Zenon DEF UnaryCarry
<1> QED BY <1>3, <1>4

(* A chain of ALU operations keeps the register a byte and the carry a     *)
(* truth value, whatever the operands (ALU::execute, TypeOK).              *)
THEOREM AluTyped == Spec => []TypeOK
<1>1. Init => TypeOK
  <2>1. 0 \in Byte
    BY DEF Byte
  <2> QED BY <2>1 DEF Init, TypeOK
<1>2. TypeOK /\ [Next]_vars => TypeOK'
  <2> SUFFICES ASSUME TypeOK, [Next]_vars PROVE TypeOK'
    OBVIOUS
  <2>1. ASSUME NEW op \in BinaryOp, NEW operand \in Operands, Binary(op, operand)
        PROVE  TypeOK'
    <3>1. operand \in Byte
      BY OperandsAssumption
    <3>2. BinaryValue(op, acc, operand, carry) \in Byte /\ BinaryCarry(op, acc, operand, carry) \in BOOLEAN
      BY <3>1, BinaryByte DEF TypeOK
    <3> QED BY <2>1, <3>2 DEF Binary, TypeOK
  <2>2. ASSUME NEW op \in UnaryOp, Unary(op)
        PROVE  TypeOK'
    <3>1. UnaryValue(op, acc, carry) \in Byte /\ UnaryCarry(op, acc, carry) \in BOOLEAN
      BY UnaryByte DEF TypeOK
    <3> QED BY <2>2, <3>1 DEF Unary, TypeOK
  <2>3. CASE UNCHANGED vars
    BY <2>3 DEF vars, TypeOK
  <2> QED BY <2>1, <2>2, <2>3 DEF Next
<1> QED BY <1>1, <1>2, PTL DEF Spec

-----------------------------------------------------------------------------
(* Addition, subtraction and comparison.                                   *)

(* ADC returns the exact 9-bit sum, and V says whether the signed sum left *)
(* -128 .. 127, for every register, operand and carry.                     *)
THEOREM AdcIsExact == Spec => []AdcExact
<1>1. TypeOK => AdcExact
  <2> SUFFICES ASSUME TypeOK, NEW m \in Byte
               PROVE  /\ 256 * One(BinaryCarry("ADC", acc, m, carry))
                           + BinaryValue("ADC", acc, m, carry) = acc + m + One(carry)
                      /\ BinaryOverflow("ADC", acc, m, carry)
                           <=> Signed(acc) + Signed(m) + One(carry) \notin -128 .. 127
    BY Zenon DEF AdcExact
  <2>1. acc \in Byte /\ carry \in BOOLEAN
    BY DEF TypeOK
  <2> DEFINE d == AluValue("ADD", acc, m, carry)
             c == AluCarry("ADD", acc, m, carry)
             s == acc + m + One(carry)
  <2>2. /\ BinaryFunction("ADC") = "ADD" /\ BinaryB("ADC", m) = m
        /\ BinaryCarryIn("ADC", carry) = carry
    BY <2>1 DEF BinaryFunction, BinaryB, BinaryCarryIn
  <2>3. /\ BinaryValue("ADC", acc, m, carry) = d
        /\ BinaryCarry("ADC", acc, m, carry) = c
        /\ BinaryOverflow("ADC", acc, m, carry) = AluOverflow(acc, m, d)
    BY <2>2, Zenon DEF BinaryValue, BinaryCarry, BinaryOverflow
  <2>4. IsSum(d, c, s)
    BY <2>1, AddExact, Zenon
  <2>5. AluOverflow(acc, m, d) <=> ~Fits(Signed(acc) + Signed(m) + One(carry))
    BY <2>1, AddOverflow, Zenon
  <2>6. 256 * One(c) + d = s
    <3>1. s \in Int
      <4>1. One(carry) \in Int
        BY DEF One
      <4> QED BY <2>1, <4>1 DEF Byte
    <3>2. One(c) = IF s > 255 THEN 1 ELSE 0
      BY <2>4 DEF IsSum, One
    <3> HIDE DEF c, d, s
    <3> QED BY <2>4, <3>1, <3>2 DEF IsSum
  <2> QED BY <2>3, <2>5, <2>6 DEF Fits
<1> QED BY <1>1, AluTyped, PTL

(* SBC is exact subtraction with borrow, C and V included.                 *)
THEOREM SbcIsExact == Spec => []SbcExact
<1>1. TypeOK => SbcExact
  <2> SUFFICES ASSUME TypeOK, NEW m \in Byte
               PROVE  /\ BinaryValue("SBC", acc, m, carry)
                           = acc - m - Negation(carry)
                               + 256 * Negation(BinaryCarry("SBC", acc, m, carry))
                      /\ BinaryOverflow("SBC", acc, m, carry)
                           <=> Signed(acc) - Signed(m) - Negation(carry) \notin -128 .. 127
    BY Zenon DEF SbcExact
  <2>1. acc \in Byte /\ carry \in BOOLEAN
    BY DEF TypeOK
  <2> DEFINE d == AluValue("ADD", acc, Not(m), carry)
             c == AluCarry("ADD", acc, Not(m), carry)
             u == acc - m - (1 - One(carry))
  <2>2. /\ BinaryFunction("SBC") = "ADD" /\ BinaryB("SBC", m) = Not(m)
        /\ BinaryCarryIn("SBC", carry) = carry
    BY <2>1 DEF BinaryFunction, BinaryB, BinaryCarryIn
  <2>3. /\ BinaryValue("SBC", acc, m, carry) = d
        /\ BinaryCarry("SBC", acc, m, carry) = c
        /\ BinaryOverflow("SBC", acc, m, carry) = AluOverflow(acc, Not(m), d)
    BY <2>2, Zenon DEF BinaryValue, BinaryCarry, BinaryOverflow
  <2>4. IsDifference(d, c, u)
    BY <2>1, SubtractExact, Zenon
  <2>5. AluOverflow(acc, Not(m), d) <=> ~Fits(Signed(acc) - Signed(m) - (1 - One(carry)))
    BY <2>1, SubtractOverflow, Zenon
  <2>6. Negation(carry) = 1 - One(carry)
    BY DEF Negation, One
  <2>7. d = u + 256 * Negation(c)
    <3>1. u \in Int
      <4>1. One(carry) \in Int
        BY DEF One
      <4> QED BY <2>1, <4>1 DEF Byte
    <3>2. Negation(c) = IF u >= 0 THEN 0 ELSE 1
      BY <2>4 DEF IsDifference, Negation
    <3> HIDE DEF c, d, u
    <3> QED BY <2>4, <3>1, <3>2 DEF IsDifference
  <2>8. BinaryOverflow("SBC", acc, m, carry)
          <=> Signed(acc) - Signed(m) - Negation(carry) \notin -128 .. 127
    BY <2>3, <2>5, <2>6 DEF Fits
  <2> QED BY <2>3, <2>6, <2>7, <2>8
<1> QED BY <1>1, AluTyped, PTL

(* CMP orders its operands whatever carry it inherits.                     *)
THEOREM CompareIsOrder == Spec => []CompareOrders
<1>1. TypeOK => CompareOrders
  <2> SUFFICES ASSUME TypeOK, NEW m \in Byte
               PROVE  /\ BinaryCarry("CMP", acc, m, carry) <=> acc >= m
                      /\ AluZero(BinaryValue("CMP", acc, m, carry)) <=> acc = m
    BY Zenon DEF CompareOrders
  <2>1. acc \in Byte /\ acc \in Int /\ m \in Int /\ acc <= 255 /\ m <= 255 /\ acc >= 0 /\ m >= 0
    BY DEF TypeOK, Byte
  <2> DEFINE d == AluValue("ADD", acc, Not(m), TRUE)
             c == AluCarry("ADD", acc, Not(m), TRUE)
             u == acc - m - (1 - One(TRUE))
  <2>2. /\ BinaryFunction("CMP") = "ADD" /\ BinaryB("CMP", m) = Not(m)
        /\ BinaryCarryIn("CMP", carry) = TRUE
    BY DEF BinaryFunction, BinaryB, BinaryCarryIn
  <2>3. BinaryValue("CMP", acc, m, carry) = d /\ BinaryCarry("CMP", acc, m, carry) = c
    BY <2>2, Zenon DEF BinaryValue, BinaryCarry
  <2>4. IsDifference(d, c, u)
    BY <2>1, SubtractExact, Zenon
  <2>5. u = acc - m
    BY <2>1 DEF One
  <2>6. (c <=> acc >= m) /\ (d = 0 <=> acc = m)
    <3> HIDE DEF c, d, u
    <3> QED BY <2>1, <2>4, <2>5 DEF IsDifference
  <2> QED BY <2>3, <2>6 DEF AluZero
<1> QED BY <1>1, AluTyped, PTL

-----------------------------------------------------------------------------
(* Shifts, rotations and steps.                                            *)

(* The latches of the shifts and rotations, and what the ALU makes of them. *)
LEMMA RolIs ==
    ASSUME NEW r \in Byte, NEW c \in BOOLEAN
    PROVE  /\ UnaryValue("ROL", r, c) = ((2 * r) % 256) + One(c)
           /\ UnaryCarry("ROL", r, c) <=> r >= 128
<1>1. UnaryFunction("ROL") = "ROL" /\ UnaryCarryIn("ROL", c) = c
  BY DEF UnaryFunction, UnaryCarryIn
<1>2. \A a : AluValue("ROL", a, r, c) = ((2 * r) % 256) + One(c)
  BY DEF AluValue
<1>3. \A a : AluCarry("ROL", a, r, c) <=> r >= 128
  BY DEF AluCarry
<1> QED BY <1>1, <1>2, <1>3, Zenon DEF UnaryValue, UnaryCarry

LEMMA RorIs ==
    ASSUME NEW r \in Byte, NEW c \in BOOLEAN
    PROVE  /\ UnaryValue("ROR", r, c) = (r \div 2) + 128 * One(c)
           /\ UnaryCarry("ROR", r, c) <=> r % 2 = 1
<1>1. UnaryFunction("ROR") = "ROR" /\ UnaryCarryIn("ROR", c) = c
  BY DEF UnaryFunction, UnaryCarryIn
<1>2. \A a : AluValue("ROR", a, r, c) = (r \div 2) + 128 * One(c)
  BY DEF AluValue
<1>3. \A a : AluCarry("ROR", a, r, c) <=> r % 2 = 1
  BY DEF AluCarry
<1> QED BY <1>1, <1>2, <1>3, Zenon DEF UnaryValue, UnaryCarry

LEMMA AslIs ==
    ASSUME NEW r \in Byte, NEW c \in BOOLEAN
    PROVE  /\ UnaryValue("ASL", r, c) = (2 * r) % 256
           /\ UnaryCarry("ASL", r, c) <=> r >= 128
<1>1. UnaryFunction("ASL") = "SHL"
  BY DEF UnaryFunction
<1>2. \A a, ci : AluValue("SHL", a, r, ci) = (2 * r) % 256
  BY DEF AluValue
<1>3. \A a, ci : AluCarry("SHL", a, r, ci) <=> r >= 128
  BY DEF AluCarry
<1> QED BY <1>1, <1>2, <1>3, Zenon DEF UnaryValue, UnaryCarry

LEMMA LsrIs ==
    ASSUME NEW r \in Byte, NEW c \in BOOLEAN
    PROVE  /\ UnaryValue("LSR", r, c) = r \div 2
           /\ UnaryCarry("LSR", r, c) <=> r % 2 = 1
<1>1. UnaryFunction("LSR") = "SHR"
  BY DEF UnaryFunction
<1>2. \A a, ci : AluValue("SHR", a, r, ci) = r \div 2
  BY DEF AluValue
<1>3. \A a, ci : AluCarry("SHR", a, r, ci) <=> r % 2 = 1
  BY DEF AluCarry
<1> QED BY <1>1, <1>2, <1>3, Zenon DEF UnaryValue, UnaryCarry

(* INC and DEC are additions of 1 and 255 with no carry.                   *)
LEMMA StepsAre ==
    ASSUME NEW r \in Byte, NEW c \in BOOLEAN
    PROVE  /\ UnaryValue("INC", r, c) = AluValue("ADD", 1, r, FALSE)
           /\ UnaryValue("DEC", r, c) = AluValue("ADD", 255, r, FALSE)
<1>1. /\ UnaryFunction("INC") = "ADD" /\ UnaryFunction("DEC") = "ADD"
      /\ UnaryA("INC", 0) = 1 /\ UnaryA("DEC", 0) = 255
  BY DEF UnaryFunction, UnaryA
<1>2. UnaryCarryIn("INC", c) = FALSE /\ UnaryCarryIn("DEC", c) = FALSE
  BY DEF UnaryCarryIn
<1> QED BY <1>1, <1>2, Zenon DEF UnaryValue

(* A ROL undoes a ROR and a ROR a ROL, bit and carry alike.                *)
THEOREM RotatesAreInverse == Spec => []RotatesUndoEachOther
<1>1. TypeOK => RotatesUndoEachOther
  <2> SUFFICES ASSUME TypeOK PROVE RotatesUndoEachOther
    OBVIOUS
  <2>1. acc \in Byte /\ carry \in BOOLEAN
    BY DEF TypeOK
  <2> DEFINE l == UnaryValue("ROL", acc, carry)
             lc == UnaryCarry("ROL", acc, carry)
             r == UnaryValue("ROR", acc, carry)
             rc == UnaryCarry("ROR", acc, carry)
  <2>2. /\ l \in Byte /\ lc \in BOOLEAN /\ r \in Byte /\ rc \in BOOLEAN
    BY <2>1, UnaryByte DEF UnaryOp
  <2>3. l = ((2 * acc) % 256) + One(carry) /\ (lc <=> acc >= 128)
    BY <2>1, RolIs, Zenon
  <2>4. r = (acc \div 2) + 128 * One(carry) /\ (rc <=> acc % 2 = 1)
    BY <2>1, RorIs, Zenon
  <2> HIDE DEF l, lc, r, rc
  <2>5. UnaryValue("ROR", l, lc) = (l \div 2) + 128 * One(lc) /\ (UnaryCarry("ROR", l, lc) <=> l % 2 = 1)
    BY <2>2, RorIs, Zenon
  <2>6. UnaryValue("ROL", r, rc) = ((2 * r) % 256) + One(rc) /\ (UnaryCarry("ROL", r, rc) <=> r >= 128)
    BY <2>2, RolIs, Zenon
  <2>7. /\ One(carry) = (IF carry THEN 1 ELSE 0)
        /\ One(lc) = (IF acc >= 128 THEN 1 ELSE 0)
        /\ One(rc) = IF acc % 2 = 1 THEN 1 ELSE 0
    BY <2>3, <2>4 DEF One
  <2>8. acc \in Int /\ 0 <= acc /\ acc <= 255 /\ One(carry) \in {0, 1}
    BY <2>1, <2>7 DEF Byte
  <2>9. (l \div 2) + 128 * One(lc) = acc
    BY <2>3, <2>7, <2>8
  <2>10. ((2 * r) % 256) + One(rc) = acc
    BY <2>4, <2>7, <2>8
  <2>11. (l % 2 = 1) <=> carry
    BY <2>3, <2>7, <2>8
  <2>12. (r >= 128) <=> carry
    BY <2>4, <2>7, <2>8
  <2>13. /\ UnaryCarry("ROR", l, lc) \in BOOLEAN /\ UnaryCarry("ROL", r, rc) \in BOOLEAN
    BY <2>2, UnaryByte DEF UnaryOp
  <2>14. UnaryCarry("ROR", l, lc) = carry /\ UnaryCarry("ROL", r, rc) = carry
    BY <2>1, <2>5, <2>6, <2>11, <2>12, <2>13, Zenon
  <2> QED BY <2>5, <2>6, <2>9, <2>10, <2>14, Zenon DEF RotatesUndoEachOther, l, lc, r, rc
<1> QED BY <1>1, AluTyped, PTL

(* ASL and LSR drop exactly the bit they put in C; INC and DEC wrap around *)
(* at the ends of a byte.                                                  *)
THEOREM ShiftsAndStepsAreExact == Spec => []ShiftsAndStepsExact
<1>1. TypeOK => ShiftsAndStepsExact
  <2> SUFFICES ASSUME TypeOK PROVE ShiftsAndStepsExact
    OBVIOUS
  <2>1. acc \in Byte /\ carry \in BOOLEAN /\ acc \in Int /\ 0 <= acc /\ acc <= 255
    BY DEF TypeOK, Byte
  <2>2. UnaryValue("ASL", acc, carry) + 256 * One(UnaryCarry("ASL", acc, carry)) = acc + acc
    <3> DEFINE d == UnaryValue("ASL", acc, carry)
               c == UnaryCarry("ASL", acc, carry)
    <3>1. d = (2 * acc) % 256 /\ (c <=> acc >= 128)
      BY <2>1, AslIs, Zenon
    <3> HIDE DEF d, c
    <3>2. One(c) = IF acc >= 128 THEN 1 ELSE 0
      BY <3>1 DEF One
    <3>3. d + 256 * One(c) = acc + acc
      BY <2>1, <3>1, <3>2
    <3> QED BY <3>3 DEF d, c
  <2>3. 2 * UnaryValue("LSR", acc, carry) + One(UnaryCarry("LSR", acc, carry)) = acc
    <3> DEFINE d == UnaryValue("LSR", acc, carry)
               c == UnaryCarry("LSR", acc, carry)
    <3>1. d = acc \div 2 /\ (c <=> acc % 2 = 1)
      BY <2>1, LsrIs, Zenon
    <3> HIDE DEF d, c
    <3>2. One(c) = IF acc % 2 = 1 THEN 1 ELSE 0
      BY <3>1 DEF One
    <3>3. 2 * d + One(c) = acc
      BY <2>1, <3>1, <3>2
    <3> QED BY <3>3 DEF d, c
  <2>4. 1 \in Byte /\ 255 \in Byte /\ One(FALSE) = 0 /\ FALSE \in BOOLEAN
    BY DEF Byte, One
  <2> DEFINE added(k) == AluValue("ADD", k, acc, FALSE)
             out(k) == AluCarry("ADD", k, acc, FALSE)
  <2>5. ASSUME NEW k \in Byte
        PROVE  IsSum(added(k), out(k), k + acc)
    <3>1. IsSum(added(k), out(k), k + acc + One(FALSE))
      BY <2>1, <2>4, AddExact, Zenon
    <3>2. k + acc + 0 = k + acc
      BY <2>1 DEF Byte
    <3> QED BY <2>4, <3>1, <3>2, Zenon
  <2> HIDE DEF added, out
  <2>6. UnaryValue("INC", acc, carry) = IF acc = 255 THEN 0 ELSE acc + 1
    <3>1. IsSum(added(1), out(1), 1 + acc)
      BY <2>4, <2>5
    <3>2. added(1) = IF acc = 255 THEN 0 ELSE acc + 1
      BY <2>1, <3>1 DEF IsSum
    <3> QED BY <2>1, <3>2, StepsAre DEF added
  <2>7. UnaryValue("DEC", acc, carry) = IF acc = 0 THEN 255 ELSE acc - 1
    <3>1. IsSum(added(255), out(255), 255 + acc)
      BY <2>4, <2>5
    <3>2. added(255) = IF acc = 0 THEN 255 ELSE acc - 1
      BY <2>1, <3>1 DEF IsSum
    <3> QED BY <2>1, <3>2, StepsAre DEF added
  <2> QED BY <2>2, <2>3, <2>6, <2>7 DEF ShiftsAndStepsExact
<1> QED BY <1>1, AluTyped, PTL

-----------------------------------------------------------------------------
(* The logical operations.                                                 *)

(* Half is a recursive function; that there is such a function is shown by *)
(* giving it, its eight levels spelt out.                                  *)
LEMMA HalfDefined ==
    Half = [i \in 0 .. 7 |-> [d \in Byte |-> IF i = 0 THEN d ELSE Half[i - 1][d] \div 2]]
<1> DEFINE h(i, d) == CASE i = 0 -> d [] i = 1 -> d \div 2 [] i = 2 -> d \div 4
                        [] i = 3 -> d \div 8 [] i = 4 -> d \div 16 [] i = 5 -> d \div 32
                        [] i = 6 -> d \div 64 [] i = 7 -> d \div 128
           g(i) == [d \in Byte |-> h(i, d)]
           H == [i \in 0 .. 7 |-> g(i)]
<1>1. \A i \in 0 .. 7 : H[i] = g(i)
  <2> HIDE DEF g
  <2> QED OBVIOUS
<1>2. \A i \in 0 .. 7 : \A d \in Byte : H[i][d] = h(i, d)
  <2>1. \A i : \A d \in Byte : g(i)[d] = h(i, d)
    <3> HIDE DEF h
    <3> QED OBVIOUS
  <2> HIDE DEF g, H
  <2> QED BY <1>1, <2>1
<1> HIDE DEF H
<1>3. ASSUME NEW i \in 0 .. 7, NEW d \in Byte
      PROVE  h(i, d) = IF i = 0 THEN d ELSE H[i - 1][d] \div 2
  <2>1. CASE i = 0
    BY <2>1
  <2>2. CASE i \in 1 .. 7
    <3>1. i - 1 \in 0 .. 7
      BY <2>2
    <3>2. H[i - 1][d] = h(i - 1, d)
      BY <1>2, <3>1
    <3>3. h(i, d) = h(i - 1, d) \div 2
      BY <2>2, SMTT(40) DEF Byte
    <3> HIDE DEF h
    <3> QED BY <2>2, <3>2, <3>3
  <2> QED BY <2>1, <2>2
<1>4. \A i \in 0 .. 7 : g(i) = [d \in Byte |-> IF i = 0 THEN d ELSE H[i - 1][d] \div 2]
  <2> HIDE DEF h
  <2> QED BY <1>3
<1>5. H = [i \in 0 .. 7 |-> [d \in Byte |-> IF i = 0 THEN d ELSE H[i - 1][d] \div 2]]
  <2> HIDE DEF g
  <2>1. H = [i \in 0 .. 7 |-> g(i)]
    BY DEF H
  <2> QED BY <1>4, <2>1, Zenon
<1> HIDE DEF g
<1> QED BY <1>5, Zenon DEF Half

(* So a position is raised exactly when the bit of its weight is.          *)
Power(i) == CASE i = 0 -> 1 [] i = 1 -> 2 [] i = 2 -> 4 [] i = 3 -> 8
              [] i = 4 -> 16 [] i = 5 -> 32 [] i = 6 -> 64 [] i = 7 -> 128

LEMMA HalfIsShift ==
    ASSUME NEW d \in Byte
    PROVE  /\ Half[0][d] = d /\ Half[1][d] = d \div 2
           /\ Half[2][d] = d \div 4 /\ Half[3][d] = d \div 8
           /\ Half[4][d] = d \div 16 /\ Half[5][d] = d \div 32
           /\ Half[6][d] = d \div 64 /\ Half[7][d] = d \div 128
<1>1. \A i \in 0 .. 7 : Half[i][d] = IF i = 0 THEN d ELSE Half[i - 1][d] \div 2
  <2> DEFINE g(i) == [e \in Byte |-> IF i = 0 THEN e ELSE Half[i - 1][e] \div 2]
  <2>1. Half = [i \in 0 .. 7 |-> g(i)]
    BY HalfDefined, Zenon
  <2>2. \A i : g(i)[d] = IF i = 0 THEN d ELSE Half[i - 1][d] \div 2
    OBVIOUS
  <2>3. \A i \in 0 .. 7 : Half[i] = g(i)
    <3> HIDE DEF g
    <3> QED BY <2>1
  <2> HIDE DEF g
  <2> QED BY <2>2, <2>3
<1> DEFINE q(i) == Half[i][d]
<1>2. /\ q(0) = d /\ q(1) = q(0) \div 2 /\ q(2) = q(1) \div 2 /\ q(3) = q(2) \div 2
      /\ q(4) = q(3) \div 2 /\ q(5) = q(4) \div 2 /\ q(6) = q(5) \div 2 /\ q(7) = q(6) \div 2
  BY <1>1
<1> HIDE DEF q
<1>3. d \in Int /\ 0 <= d /\ d <= 255
  BY DEF Byte
<1>4. /\ q(0) = d /\ q(1) = d \div 2 /\ q(2) = d \div 4 /\ q(3) = d \div 8 /\ q(4) = d \div 16
      /\ q(5) = d \div 32 /\ q(6) = d \div 64 /\ q(7) = d \div 128
  BY <1>2, <1>3
<1> QED BY <1>4 DEF q

LEMMA OnesAreBits ==
    ASSUME NEW d \in Byte, NEW i \in 0 .. 7
    PROVE  Power(i) \in Weights /\ (i \in Ones(d) <=> Bit(d, Power(i)) = 1)
<1>1. /\ Power(0) = 1 /\ Power(1) = 2 /\ Power(2) = 4 /\ Power(3) = 8
      /\ Power(4) = 16 /\ Power(5) = 32 /\ Power(6) = 64 /\ Power(7) = 128
  BY DEF Power
<1>2. /\ Half[0][d] = d \div 1 /\ Half[1][d] = d \div 2 /\ Half[2][d] = d \div 4
      /\ Half[3][d] = d \div 8 /\ Half[4][d] = d \div 16 /\ Half[5][d] = d \div 32
      /\ Half[6][d] = d \div 64 /\ Half[7][d] = d \div 128
  <2>1. d \div 1 = d
    BY DEF Byte
  <2> QED BY <2>1, HalfIsShift
<1>3. i \in Ones(d) <=> Half[i][d] % 2 = 1
  BY DEF Ones
<1>4. Half[i][d] = d \div Power(i)
  <2>1. i = 0 \/ i = 1 \/ i = 2 \/ i = 3 \/ i = 4 \/ i = 5 \/ i = 6 \/ i = 7
    OBVIOUS
  <2> QED BY <1>1, <1>2, <2>1
<1>5. Power(i) \in Weights
  BY <1>1 DEF Weights
<1> QED BY <1>3, <1>4, <1>5, Zenon DEF Bit

(* AND and BIT intersect, ORA unites and EOR takes the difference of the   *)
(* bit positions of register and operand, whatever the carry.              *)
THEOREM LogicIsOnBits == Spec => []LogicIsBitwise
<1>1. ASSUME NEW r \in Byte, NEW m \in Byte
      PROVE  /\ Ones(And(r, m)) = Ones(r) \cap Ones(m)
             /\ Ones(Or(r, m)) = Ones(r) \cup Ones(m)
             /\ Ones(Xor(r, m)) = (Ones(r) \cup Ones(m)) \ (Ones(r) \cap Ones(m))
  <2>1. And(r, m) \in Byte /\ Or(r, m) \in Byte /\ Xor(r, m) \in Byte
    BY LogicBytes
  <2>2. \A d : Ones(d) \subseteq 0 .. 7
    BY DEF Ones
  <2>3. ASSUME NEW i \in 0 .. 7
        PROVE  /\ i \in Ones(And(r, m)) <=> i \in Ones(r) /\ i \in Ones(m)
               /\ i \in Ones(Or(r, m)) <=> i \in Ones(r) \/ i \in Ones(m)
               /\ i \in Ones(Xor(r, m)) <=> (i \in Ones(r)) # (i \in Ones(m))
    <3> DEFINE w == Power(i)
    <3>1. w \in Weights
      BY OnesAreBits
    <3>2. /\ i \in Ones(r) <=> Bit(r, w) = 1
          /\ i \in Ones(m) <=> Bit(m, w) = 1
          /\ i \in Ones(And(r, m)) <=> Bit(And(r, m), w) = 1
          /\ i \in Ones(Or(r, m)) <=> Bit(Or(r, m), w) = 1
          /\ i \in Ones(Xor(r, m)) <=> Bit(Xor(r, m), w) = 1
      BY <2>1, OnesAreBits, Zenon
    <3> HIDE DEF w
    <3>3. Bit(And(r, m), w) = One(Bit(r, w) = 1 /\ Bit(m, w) = 1)
      BY <3>1, AndBits, Zenon
    <3>4. /\ Bit(Or(r, m), w) = One(Bit(r, w) = 1 \/ Bit(m, w) = 1)
          /\ Bit(Xor(r, m), w) = One(Bit(r, w) # Bit(m, w))
      BY <3>1, LogicBits, Zenon
    <3>5. Bit(r, w) \in {0, 1} /\ Bit(m, w) \in {0, 1}
      BY <3>1, BitValue DEF Weights
    <3> QED BY <3>2, <3>3, <3>4, <3>5 DEF One
  <2> QED BY <2>2, <2>3
<1>2. TypeOK => LogicIsBitwise
  <2> SUFFICES ASSUME TypeOK, NEW m \in Operands
               PROVE  /\ Ones(BinaryValue("AND", acc, m, carry)) = Ones(acc) \cap Ones(m)
                      /\ Ones(BinaryValue("BIT", acc, m, carry)) = Ones(acc) \cap Ones(m)
                      /\ Ones(BinaryValue("ORA", acc, m, carry)) = Ones(acc) \cup Ones(m)
                      /\ Ones(BinaryValue("EOR", acc, m, carry))
                           = (Ones(acc) \cup Ones(m)) \ (Ones(acc) \cap Ones(m))
    BY Zenon DEF LogicIsBitwise
  <2>1. acc \in Byte /\ m \in Byte
    BY OperandsAssumption DEF TypeOK
  <2>2. /\ BinaryFunction("AND") = "AND" /\ BinaryFunction("BIT") = "AND"
        /\ BinaryFunction("ORA") = "OR" /\ BinaryFunction("EOR") = "XOR"
        /\ BinaryB("AND", m) = m /\ BinaryB("BIT", m) = m
        /\ BinaryB("ORA", m) = m /\ BinaryB("EOR", m) = m
    BY DEF BinaryFunction, BinaryB
  <2>3. \A c : /\ AluValue("AND", acc, m, c) = And(acc, m)
                /\ AluValue("OR", acc, m, c) = Or(acc, m)
                /\ AluValue("XOR", acc, m, c) = Xor(acc, m)
    BY DEF AluValue
  <2>4. /\ BinaryValue("AND", acc, m, carry) = And(acc, m)
        /\ BinaryValue("BIT", acc, m, carry) = And(acc, m)
        /\ BinaryValue("ORA", acc, m, carry) = Or(acc, m)
        /\ BinaryValue("EOR", acc, m, carry) = Xor(acc, m)
    BY <2>2, <2>3, Zenon DEF BinaryValue
  <2>5. /\ Ones(And(acc, m)) = Ones(acc) \cap Ones(m)
        /\ Ones(Or(acc, m)) = Ones(acc) \cup Ones(m)
        /\ Ones(Xor(acc, m)) = (Ones(acc) \cup Ones(m)) \ (Ones(acc) \cap Ones(m))
    BY <1>1, <2>1
  <2> QED BY <2>4, <2>5
<1> QED BY <1>2, AluTyped, PTL

=============================================================================
