------------------------------ MODULE AluMachine ------------------------------
(***************************************************************************)
(* The ALU driven the way the CPU drives it, reduced to one 8-bit register *)
(* and the carry flag: an operation loads the input latches (captured on   *)
(* the High edge), the combinational output settles, and the result is     *)
(* written back (committed on the Low edge).  Chained operations are what  *)
(* multi-byte arithmetic is made of, so the properties relate the register *)
(* and the carry before and after whole operations, against arithmetic on  *)
(* integers and set operations on bit positions that use none of the       *)
(* definitions of Alu.                                                     *)
(***************************************************************************)
EXTENDS Alu

CONSTANT Operands           \* operand bytes offered to the binary operations

ASSUME OperandsAssumption == Operands \subseteq Byte

VARIABLES
    acc,                    \* the register
    carry                   \* the C flag

vars == <<acc, carry>>

TypeOK == acc \in Byte /\ carry \in BOOLEAN

Init == acc = 0 /\ carry = FALSE

(* One binary operation with its operand, all latches as the CPU loads     *)
(* them; CMP and BIT write nothing back, the logical operations keep C.    *)
BinaryValue(op, r, operand, c) ==
    AluValue(BinaryFunction(op), r, BinaryB(op, operand), BinaryCarryIn(op, c))
BinaryCarry(op, r, operand, c) ==
    AluCarry(BinaryFunction(op), r, BinaryB(op, operand), BinaryCarryIn(op, c))
BinaryOverflow(op, r, operand, c) ==
    AluOverflow(r, BinaryB(op, operand), BinaryValue(op, r, operand, c))
UnaryValue(op, r, c) == AluValue(UnaryFunction(op), UnaryA(op, 0), r, UnaryCarryIn(op, c))
UnaryCarry(op, r, c) == AluCarry(UnaryFunction(op), UnaryA(op, 0), r, UnaryCarryIn(op, c))

Binary(op, operand) ==
    /\ acc' = IF op \in {"CMP", "BIT"} THEN acc ELSE BinaryValue(op, acc, operand, carry)
    /\ carry' = IF op \in {"ADC", "SBC", "CMP"} THEN BinaryCarry(op, acc, operand, carry)
                                                ELSE carry

Unary(op) ==
    /\ acc' = UnaryValue(op, acc, carry)
    /\ carry' = IF op \in {"INC", "DEC"} THEN carry ELSE UnaryCarry(op, acc, carry)

Next == \/ \E op \in BinaryOp, operand \in Operands : Binary(op, operand)
        \/ \E op \in UnaryOp : Unary(op)

Spec == Init /\ [][Next]_vars

-----------------------------------------------------------------------------
Negation(n) == IF n THEN 0 ELSE 1

(* ADC is exact 9-bit addition: carry and value together are the sum, and  *)
(* V says exactly that the signed sum left -128..127 (ALU::execute ADD,    *)
(* aluOverflow).                                                           *)
AdcExact ==
    \A m \in Byte :
        LET d == BinaryValue("ADC", acc, m, carry)
            s == Signed(acc) + Signed(m) + One(carry)
        IN  /\ 256 * One(BinaryCarry("ADC", acc, m, carry)) + d = acc + m + One(carry)
            /\ BinaryOverflow("ADC", acc, m, carry) <=> s \notin -128 .. 127

(* SBC, built as an addition of the complement, is exact subtraction with  *)
(* borrow: the value is the difference modulo 256, C is raised exactly     *)
(* when nothing was borrowed, and V exactly when the signed difference is  *)
(* out of range (beginBinaryAluOp SBC).                                    *)
SbcExact ==
    \A m \in Byte :
        LET d == BinaryValue("SBC", acc, m, carry)
            c == BinaryCarry("SBC", acc, m, carry)
            u == acc - m - Negation(carry)
            s == Signed(acc) - Signed(m) - Negation(carry)
        IN  /\ d = u + 256 * Negation(c)
            /\ BinaryOverflow("SBC", acc, m, carry) <=> s \notin -128 .. 127

(* A comparison orders its operands whatever carry it inherits: C iff      *)
(* register >= operand, Z iff they are equal (beginBinaryAluOp CMP forces  *)
(* the carry in, "compare never borrows in").                              *)
CompareOrders ==
    \A m \in Byte :
        /\ BinaryCarry("CMP", acc, m, carry) <=> acc >= m
        /\ AluZero(BinaryValue("CMP", acc, m, carry)) <=> acc = m

(* The bit positions raised in d, by repeated halving rather than by Bit.  *)
Half[i \in 0 .. 7] == [d \in Byte |-> IF i = 0 THEN d ELSE Half[i - 1][d] \div 2]
Ones(d) == {i \in 0 .. 7 : Half[i][d] % 2 = 1}

(* The logical operations are intersection, union and symmetric difference *)
(* of bit positions, and do not look at the carry (ALU::execute AND, OR,   *)
(* XOR).                                                                   *)
LogicIsBitwise ==
    \A m \in Operands :
        LET r == Ones(acc)  s == Ones(m)
        IN  /\ Ones(BinaryValue("AND", acc, m, carry)) = r \cap s
            /\ Ones(BinaryValue("BIT", acc, m, carry)) = r \cap s
            /\ Ones(BinaryValue("ORA", acc, m, carry)) = r \cup s
            /\ Ones(BinaryValue("EOR", acc, m, carry)) = (r \cup s) \ (r \cap s)

(* Rotating through the carry loses nothing: a ROL undoes a ROR and the    *)
(* other way round, bit and carry alike (ALU::execute ROL, ROR with        *)
(* carry-in from C).                                                       *)
RotatesUndoEachOther ==
    /\ LET d == UnaryValue("ROL", acc, carry)  c == UnaryCarry("ROL", acc, carry)
       IN  UnaryValue("ROR", d, c) = acc /\ UnaryCarry("ROR", d, c) = carry
    /\ LET d == UnaryValue("ROR", acc, carry)  c == UnaryCarry("ROR", acc, carry)
       IN  UnaryValue("ROL", d, c) = acc /\ UnaryCarry("ROL", d, c) = carry

(* The shifts and INC/DEC against arithmetic: a shift drops exactly the    *)
(* bit it puts in C, and INC/DEC wrap around at the ends of a byte.        *)
ShiftsAndStepsExact ==
    /\ UnaryValue("ASL", acc, carry) + 256 * One(UnaryCarry("ASL", acc, carry)) = acc + acc
    /\ 2 * UnaryValue("LSR", acc, carry) + One(UnaryCarry("LSR", acc, carry)) = acc
    /\ UnaryValue("INC", acc, carry) = IF acc = 255 THEN 0 ELSE acc + 1
    /\ UnaryValue("DEC", acc, carry) = IF acc = 0 THEN 255 ELSE acc - 1
=============================================================================
