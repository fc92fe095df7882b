--------------------------------- MODULE Alu ---------------------------------
(***************************************************************************)
(* The arithmetic-logic unit of the 6502 (src/cpu/alu.cpp), the flag       *)
(* predicates read off its output, and the way an operation of the         *)
(* instruction set is put on the ALU's four input latches                  *)
(* (beginBinaryAluOp and beginUnaryAluOp of src/cpu/cpu6502.cpp).          *)
(*                                                                         *)
(* Everything here is a pure function of bytes; the latches themselves are *)
(* variables of Cpu6502.  A C++ uint8_t is a member of Byte, a uint16_t a  *)
(* member of Word.                                                         *)
(*                                                                         *)
(* Here and in the other modules an operator named XFault_... is a seeded  *)
(* fault: definition X as a slip of the programmer would have left it.     *)
(* The specification never uses one; substituting it for X must break the  *)
(* property named beside it.                                               *)
(***************************************************************************)
EXTENDS Integers

Byte == 0 .. 255
Word == 0 .. 65535

(* The value, 0 or 1, of the bit of weight w (1, 2, 4 .. 128) of byte d.   *)
Bit(d, w) == (d \div w) % 2

Both(a, b, w) == IF Bit(a, w) = 1 /\ Bit(b, w) = 1 THEN w ELSE 0

And(a, b) == Both(a, b, 1) + Both(a, b, 2) + Both(a, b, 4) + Both(a, b, 8)
               + Both(a, b, 16) + Both(a, b, 32) + Both(a, b, 64) + Both(a, b, 128)
Or(a, b)  == a + b - And(a, b)
Xor(a, b) == a + b - 2 * And(a, b)
Not(d)    == 255 - d

One(cond) == IF cond THEN 1 ELSE 0

(* Two's complement reading of a byte, as C++ converts uint8_t to int8_t.  *)
Signed(d) == IF d >= 128 THEN d - 256 ELSE d

-----------------------------------------------------------------------------
(* ALU::execute: D (value) and CO (carry), selected by the function line F. *)

AluFunction == {"ADD", "AND", "OR", "XOR", "SHL", "SHR", "ROL", "ROR"}

AluValueFault_NoMask(f, a, b, carryIn) ==       \* TypeOK
    IF f = "ADD" THEN a + b + One(carryIn) ELSE b

AluValue(f, a, b, carryIn) ==
    CASE f = "ADD" -> (a + b + One(carryIn)) % 256
      [] f = "AND" -> And(a, b)
      [] f = "OR"  -> Or(a, b)
      [] f = "XOR" -> Xor(a, b)
      [] f = "SHL" -> (2 * b) % 256
      [] f = "SHR" -> b \div 2
      [] f = "ROL" -> ((2 * b) % 256) + One(carryIn)
      [] f = "ROR" -> (b \div 2) + 128 * One(carryIn)

AluCarryFault_TopBit(f, a, b, carryIn) ==       \* RotatesUndoEachOther
    IF f = "ADD" THEN a + b + One(carryIn) > 255 ELSE b >= 128

AluCarry(f, a, b, carryIn) ==
    CASE f = "ADD" -> a + b + One(carryIn) > 255
      [] f \in {"AND", "OR", "XOR"} -> FALSE
      [] f \in {"SHL", "ROL"} -> b >= 128
      [] f \in {"SHR", "ROR"} -> b % 2 = 1

(* The flag predicates.  Overflow reads bit 7 of ~(a ^ b) & (a ^ d).       *)
AluZero(d) == d = 0
AluNegative(d) == d >= 128
AluOverflowFault_NoComplement(a, b, d) == And(Xor(a, b), Xor(a, d)) >= 128     \* AdcExact
AluOverflow(a, b, d) == And(Not(Xor(a, b)), Xor(a, d)) >= 128

-----------------------------------------------------------------------------
(* beginBinaryAluOp: what a binary operation puts on F, B and CI (A always *)
(* receives the register operand).                                         *)

BinaryOp == {"ADC", "SBC", "AND", "ORA", "EOR", "CMP", "BIT"}

BinaryFunctionFault_OraAdds(op) == IF op = "AND" \/ op = "BIT" THEN "AND" ELSE "ADD"   \* LogicIsBitwise

BinaryFunction(op) ==
    CASE op \in {"ADC", "SBC", "CMP"} -> "ADD"
      [] op \in {"AND", "BIT"} -> "AND"
      [] op = "ORA" -> "OR"
      [] op = "EOR" -> "XOR"

BinaryBFault_OnlyCmp(op, operand) == IF op = "CMP" THEN Not(operand) ELSE operand   \* SbcExact
BinaryB(op, operand) == IF op \in {"SBC", "CMP"} THEN Not(operand) ELSE operand

BinaryCarryInFault_Inherited(op, c) == c        \* CompareOrders
BinaryCarryIn(op, c) == op = "CMP" \/ c

(* beginUnaryAluOp: the operand goes to B; INC and DEC add a constant from *)
(* A, the shifts leave A as it was.                                        *)

UnaryOp == {"ASL", "LSR", "ROL", "ROR", "INC", "DEC"}

UnaryFunction(op) ==
    CASE op = "ASL" -> "SHL"
      [] op = "LSR" -> "SHR"
      [] op \in {"ROL", "ROR"} -> op
      [] op \in {"INC", "DEC"} -> "ADD"

UnaryA(op, a) == CASE op = "INC" -> 1 [] op = "DEC" -> 255 [] OTHER -> a

UnaryCarryInFault_Stale(op, c) == c             \* ShiftsAndStepsExact
UnaryCarryIn(op, c) == op \in {"ROL", "ROR"} /\ c
=============================================================================
