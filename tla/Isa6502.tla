------------------------------- MODULE Isa6502 -------------------------------
(***************************************************************************)
(* The instruction set as a programmer sees it: an abstract machine whose  *)
(* every step is one whole instruction, or one whole reset.  Nothing here  *)
(* knows of clock phases, T-states, latches or the ALU's function line,    *)
(* and the decoding follows the regular layout of the opcode byte instead  *)
(* of the dispatch switches.  Cpu6502Trace shows that the cycle-stepped    *)
(* machine of src/cpu/cpu6502.cpp implements this one, cycle counts        *)
(* included.                                                               *)
(***************************************************************************)
EXTENDS Status6502, Bus

VARIABLES
    A, X, Y, SP, PC, P,     \* the programmer's registers
    halted,                 \* a BRK was executed since the last reset
    took                    \* clock cycles of the last instruction or reset

-----------------------------------------------------------------------------
(* Decoding.  An opcode byte is a row (bits 5-7), a column (bits 2-4) and  *)
(* one of four quarters (bits 0-1); the fourth quarter is empty, and so    *)
(* are the cells named "" below.                                           *)

Row(op) == (op \div 32) + 1
Column(op) == ((op \div 4) % 8) + 1
Quarter(op) == op % 4

Control ==
    << <<"BRK", "JSR", "RTI", "RTS", "",    "LDY", "CPY", "CPX">>,
       <<"",    "BIT", "",    "",    "STY", "LDY", "CPY", "CPX">>,
       <<"PHP", "PLP", "PHA", "PLA", "DEY", "TAY", "INY", "INX">>,
       <<"",    "BIT", "JMP", "JMP", "STY", "LDY", "CPY", "CPX">>,
       <<"BPL", "BMI", "BVC", "BVS", "BCC", "BCS", "BNE", "BEQ">>,
       <<"",    "",    "",    "",    "STY", "LDY", "",    ""   >>,
       <<"CLC", "SEC", "CLI", "SEI", "TYA", "CLV", "CLD", "SED">>,
       <<"",    "",    "",    "",    "",    "LDY", "",    ""   >> >>

Accumulator == <<"ORA", "AND", "EOR", "ADC", "STA", "LDA", "CMP", "SBC">>

Shifts == <<"ASL", "ROL", "LSR", "ROR", "STX", "LDX", "DEC", "INC">>
Implied == <<"ASL", "ROL", "LSR", "ROR", "TXA", "TAX", "DEX", "NOP">>

Mnemonic(op) ==
    CASE Quarter(op) = 0 -> Control[Column(op)][Row(op)]
      [] Quarter(op) = 1 -> IF op = \h89 THEN "" ELSE Accumulator[Row(op)]
      [] Quarter(op) = 2 ->
             (CASE Column(op) = 1 -> IF op = \hA2 THEN "LDX" ELSE ""
                [] Column(op) = 3 -> Implied[Row(op)]
                [] Column(op) = 5 -> ""
                [] Column(op) = 7 -> IF op = \h9A THEN "TXS" ELSE IF op = \hBA THEN "TSX" ELSE ""
                [] OTHER -> IF op = \h9E THEN "" ELSE Shifts[Row(op)])
      [] OTHER -> ""

(* Addressing modes; "none" has no operand address.                        *)
ControlMode == <<"imm", "zp", "none", "abs", "rel", "zpX", "none", "absX">>
AccumulatorMode == <<"indX", "zp", "imm", "abs", "indY", "zpX", "absY", "absX">>
ShiftMode == <<"imm", "zp", "none", "abs", "none", "zpX", "none", "absX">>

(* STX and LDX are indexed by the other register.                          *)
ByY(mode) == CASE mode = "zpX" -> "zpY" [] mode = "absX" -> "absY" [] OTHER -> mode

Mode(op) ==
    IF Mnemonic(op) \in {"", "BRK", "RTI", "RTS"} THEN "none" ELSE
    CASE op = \h20 -> "abs"
      [] op = \h6C -> "ind"
      [] Mnemonic(op) \in {"STX", "LDX"} -> ByY(ShiftMode[Column(op)])
      [] Quarter(op) = 0 /\ op # \h6C /\ op # \h20 -> ControlMode[Column(op)]
      [] Quarter(op) = 1 -> AccumulatorMode[Column(op)]
      [] OTHER -> ShiftMode[Column(op)]

Length(mode) ==
    CASE mode = "none" -> 1 [] mode \in {"abs", "absX", "absY", "ind"} -> 3 [] OTHER -> 2

Reads == {"ADC", "SBC", "AND", "ORA", "EOR", "CMP", "CPX", "CPY", "BIT", "LDA", "LDX", "LDY"}
Stores == {"STA", "STX", "STY"}
Modifies == {"ASL", "LSR", "ROL", "ROR", "INC", "DEC"}
Branches == {"BPL", "BMI", "BVC", "BVS", "BCC", "BCS", "BNE", "BEQ"}

-----------------------------------------------------------------------------
(* Operands.                                                               *)

Plus(w, n) == (w + n) % 65536
At(n) == BusData(Plus(PC, n))
Cell16(low, high) == BusData(low) + 256 * BusData(high)

Instruction == At(0)
Name == Mnemonic(Instruction)
How == Mode(Instruction)
Arg16 == At(1) + 256 * At(2)
SamePageNext(a) == 256 * (a \div 256) + ((a + 1) % 256)
ZeroPagePointer(p) == Cell16(p, (p + 1) % 256)

(* The address an indexed mode starts from, and the address it yields.     *)
BaseAddress ==
    CASE How \in {"absX", "absY"} -> Arg16
      [] How = "indY" -> ZeroPagePointer(At(1))
      [] How = "rel" -> Plus(PC, 2)

Address ==
    CASE How = "imm" -> Plus(PC, 1)
      [] How = "zp" -> At(1)
      [] How = "zpX" -> (At(1) + X) % 256
      [] How = "zpY" -> (At(1) + Y) % 256
      [] How = "abs" -> Arg16
      [] How = "absX" -> Plus(BaseAddress, X)
      [] How \in {"absY", "indY"} -> Plus(BaseAddress, Y)
      [] How = "indX" -> ZeroPagePointer((At(1) + X) % 256)
      [] How = "rel" -> Plus(BaseAddress, Signed(At(1)))
      [] How = "ind" -> Cell16(Arg16, SamePageNext(Arg16))

Operand == BusData(Address)

OtherPage == BaseAddress \div 256 # Address \div 256

-----------------------------------------------------------------------------
(* Effects.  Each names everything it changes.                             *)

Flags(changed, raised) == P' = SetBits(P, changed, raised)
NZ(d) == If(d >= 128, "N") \cup If(d = 0, "Z")
C == IF "C" \in P THEN 1 ELSE 0

Stored(contents, addr, byte) ==
    IF addr \in Ram THEN [contents EXCEPT ![addr] = byte] ELSE contents

Keep == mem' = mem
GoOn == PC' = Plus(PC, Length(How))
GoOver == GoOn /\ Keep /\ UNCHANGED <<SP, halted>>

Load ==
    /\ Name \in {"LDA", "LDX", "LDY"}
    /\ A' = IF Name = "LDA" THEN Operand ELSE A
    /\ X' = IF Name = "LDX" THEN Operand ELSE X
    /\ Y' = IF Name = "LDY" THEN Operand ELSE Y
    /\ Flags({"N", "Z"}, NZ(Operand))
    /\ GoOver

(* Addition and subtraction with carry, as arithmetic on integers.         *)
Sum == IF Name = "ADC" THEN A + Operand + C ELSE A - Operand - (1 - C)
SignedSum == IF Name = "ADC" THEN Signed(A) + Signed(Operand) + C
                             ELSE Signed(A) - Signed(Operand) - (1 - C)
NoBorrow == IF Name = "ADC" THEN Sum > 255 ELSE Sum >= 0

Arithmetic ==
    /\ Name \in {"ADC", "SBC"}
    /\ A' = Sum % 256
    /\ Flags({"N", "V", "Z", "C"},
             NZ(Sum % 256) \cup If(NoBorrow, "C") \cup If(SignedSum \notin -128 .. 127, "V"))
    /\ UNCHANGED <<X, Y>> /\ GoOver

Logic ==
    /\ Name \in {"AND", "ORA", "EOR"}
    /\ A' = CASE Name = "AND" -> And(A, Operand) [] Name = "ORA" -> Or(A, Operand)
              [] Name = "EOR" -> Xor(A, Operand)
    /\ Flags({"N", "Z"}, NZ(A'))
    /\ UNCHANGED <<X, Y>> /\ GoOver

Compare ==
    /\ Name \in {"CMP", "CPX", "CPY"}
    /\ LET r == CASE Name = "CMP" -> A [] Name = "CPX" -> X [] Name = "CPY" -> Y
       IN  Flags({"N", "Z", "C"}, NZ((r - Operand) % 256) \cup If(r >= Operand, "C"))
    /\ UNCHANGED <<A, X, Y>> /\ GoOver

BitTest ==
    /\ Name = "BIT"
    /\ Flags({"N", "V", "Z"},
             {b \in StatusOf(Operand) : b \in {"N", "V"}} \cup If(And(A, Operand) = 0, "Z"))
    /\ UNCHANGED <<A, X, Y>> /\ GoOver

(* Shifts and steps of a byte: the new value and the bit that falls out.   *)
Modified(d) ==
    CASE Name = "ASL" -> (d + d) % 256
      [] Name = "ROL" -> (d + d + C) % 256
      [] Name = "LSR" -> d \div 2
      [] Name = "ROR" -> (d + 256 * C) \div 2
      [] Name = "INC" -> (d + 1) % 256
      [] Name = "DEC" -> (d - 1) % 256
ModifyFlags(d) ==
    IF Name \in {"INC", "DEC"} THEN Flags({"N", "Z"}, NZ(Modified(d)))
    ELSE Flags({"N", "Z", "C"},
               NZ(Modified(d))
                 \cup If(IF Name \in {"ASL", "ROL"} THEN d > 127 ELSE d % 2 = 1, "C"))

Modify ==
    /\ Name \in Modifies
    /\ \/ /\ How = "none"
          /\ A' = Modified(A) /\ ModifyFlags(A) /\ Keep
       \/ /\ How # "none"
          /\ mem' = Stored(mem, Address, Modified(Operand))
          /\ ModifyFlags(Operand) /\ UNCHANGED A
    /\ GoOn /\ UNCHANGED <<X, Y, SP, halted>>

Source == CASE Name = "STA" -> A [] Name = "STX" -> X [] Name = "STY" -> Y

StoreIt ==
    /\ Name \in Stores
    /\ mem' = Stored(mem, Address, Source)
    /\ GoOn /\ UNCHANGED <<A, X, Y, SP, P, halted>>

Transfer ==
    /\ Name \in {"TAX", "TAY", "TXA", "TYA", "TSX", "INX", "DEX", "INY", "DEY"}
    /\ A' = CASE Name = "TXA" -> X [] Name = "TYA" -> Y [] OTHER -> A
    /\ X' = CASE Name = "TAX" -> A [] Name = "TSX" -> SP
              [] Name = "INX" -> (X + 1) % 256 [] Name = "DEX" -> (X - 1) % 256 [] OTHER -> X
    /\ Y' = CASE Name = "TAY" -> A
              [] Name = "INY" -> (Y + 1) % 256 [] Name = "DEY" -> (Y - 1) % 256 [] OTHER -> Y
    /\ Flags({"N", "Z"},
             NZ(CASE Name \in {"TXA", "TYA"} -> A' [] Name \in {"TAY", "INY", "DEY"} -> Y'
                  [] OTHER -> X'))
    /\ GoOver

(* The flag instructions, TXS, NOP and the empty cells of the table.       *)
Cleared == CASE Name = "CLC" -> {"C"} [] Name = "CLI" -> {"I"} [] Name = "CLD" -> {"D"}
             [] Name = "CLV" -> {"V"} [] OTHER -> {}
Set == CASE Name = "SEC" -> {"C"} [] Name = "SEI" -> {"I"} [] Name = "SED" -> {"D"}
         [] OTHER -> {}

Simple ==
    /\ Name \in {"CLC", "SEC", "CLI", "SEI", "CLD", "SED", "CLV", "TXS", "NOP", ""}
    /\ P' = (P \ Cleared) \cup Set
    /\ SP' = IF Name = "TXS" THEN X ELSE SP
    /\ GoOn /\ Keep /\ UNCHANGED <<A, X, Y, halted>>

Condition ==
    CASE Name = "BPL" -> "N" \notin P [] Name = "BMI" -> "N" \in P
      [] Name = "BVC" -> "V" \notin P [] Name = "BVS" -> "V" \in P
      [] Name = "BCC" -> "C" \notin P [] Name = "BCS" -> "C" \in P
      [] Name = "BNE" -> "Z" \notin P [] Name = "BEQ" -> "Z" \in P

BranchIt ==
    /\ Name \in Branches
    /\ PC' = IF Condition THEN Address ELSE Plus(PC, 2)
    /\ Keep /\ UNCHANGED <<A, X, Y, SP, P, halted>>

-----------------------------------------------------------------------------
(* The stack: byte n below or above the one SP points at.                  *)

StackCell(n) == 256 + ((SP + n) % 256)
MoveSP(n) == SP' = (SP + n) % 256
Pushed1(b) == Stored(mem, StackCell(0), b)
Pushed2(b, c) == Stored(Pushed1(b), StackCell(-1), c)
Pushed3(b, c, d) == Stored(Pushed2(b, c), StackCell(-2), d)
Popped(n) == BusData(StackCell(n))

(* The B bit is raised in the register itself, not only in the pushed copy. *)
Push ==
    /\ Name \in {"PHA", "PHP"}
    /\ P' = IF Name = "PHP" THEN P \cup {"B"} ELSE P
    /\ mem' = Pushed1(IF Name = "PHA" THEN A ELSE StatusByte(P'))
    /\ MoveSP(-1) /\ GoOn /\ UNCHANGED <<A, X, Y, halted>>

Pull ==
    /\ Name \in {"PLA", "PLP"}
    /\ A' = IF Name = "PLA" THEN Popped(1) ELSE A
    /\ P' = IF Name = "PLA" THEN SetBits(P, {"N", "Z"}, NZ(Popped(1))) ELSE StatusOf(Popped(1))
    /\ MoveSP(1) /\ GoOn /\ Keep /\ UNCHANGED <<X, Y, halted>>

Jump ==
    /\ Name = "JMP"
    /\ PC' = Address
    /\ Keep /\ UNCHANGED <<A, X, Y, SP, P, halted>>

(* The return address, that of the instruction's last byte, is pushed      *)
(* before the high half of the target is read: a JSR whose last byte lies  *)
(* where it pushes jumps to a half overwritten address.                    *)
Call ==
    /\ Name = "JSR"
    /\ LET back == Plus(PC, 2)
       IN  /\ mem' = Pushed2(back \div 256, back % 256)
           /\ PC' = At(1) + 256 * (IF back \in Ram THEN mem'[back] ELSE At(2))
    /\ MoveSP(-2) /\ UNCHANGED <<A, X, Y, P, halted>>

Return ==
    /\ Name = "RTS"
    /\ PC' = Plus(Popped(1) + 256 * Popped(2), 1)
    /\ MoveSP(2) /\ Keep /\ UNCHANGED <<A, X, Y, P, halted>>

(* BRK skips a padding byte, pushes PC and P with B raised, raises I, goes *)
(* through its vector and halts the host's loop.                           *)
Break ==
    /\ Name = "BRK"
    /\ LET back == Plus(PC, 2)
       IN  mem' = Pushed3(back \div 256, back % 256, StatusByte(P \cup {"B"}))
    /\ P' = P \cup {"B", "I"}
    /\ PC' = Cell16(BRKVector, BRKVector + 1)
    /\ halted' = TRUE
    /\ MoveSP(-3) /\ UNCHANGED <<A, X, Y>>

ReturnFromBreak ==
    /\ Name = "RTI"
    /\ P' = StatusOf(Popped(1))
    /\ PC' = Popped(2) + 256 * Popped(3)
    /\ MoveSP(3) /\ Keep /\ UNCHANGED <<A, X, Y, halted>>

-----------------------------------------------------------------------------
(* Cycles.  Only a read pays for a page crossing; a store or a modify      *)
(* always spends that cycle.                                               *)

Crossing == IF OtherPage THEN 1 ELSE 0

ReadCycles ==
    CASE How = "imm" -> 2 [] How = "zp" -> 3 [] How \in {"zpX", "zpY", "abs"} -> 4
      [] How \in {"absX", "absY"} -> 4 + Crossing
      [] How = "indX" -> 6 [] How = "indY" -> 5 + Crossing
StoreCycles ==
    CASE How = "zp" -> 3 [] How \in {"zpX", "zpY", "abs"} -> 4
      [] How \in {"absX", "absY"} -> 5 [] How \in {"indX", "indY"} -> 6
ModifyCycles ==
    CASE How = "none" -> 2 [] How = "zp" -> 5 [] How \in {"zpX", "abs"} -> 6 [] How = "absX" -> 7

Cycles ==
    CASE Name \in Reads -> ReadCycles
      [] Name \in Stores -> StoreCycles
      [] Name \in Modifies -> ModifyCycles
      [] Name \in Branches -> IF Condition THEN 3 + Crossing ELSE 2
      [] Name = "BRK" -> 7
      [] Name \in {"JSR", "RTS", "RTI"} -> 6
      [] Name = "JMP" -> IF How = "abs" THEN 3 ELSE 5
      [] Name \in {"PHA", "PHP"} -> 3 [] Name \in {"PLA", "PLP"} -> 4
      [] OTHER -> 2

-----------------------------------------------------------------------------
(* The devices see one access, the operand's: a read reads it once, a      *)
(* store writes it once and does not read it.  Nothing is promised when    *)
(* the program itself, a pointer or the stack lies in the device's page,   *)
(* nor for a read-modify-write of a device register.                       *)

Pointers ==
    CASE How = "indX" -> {(At(1) + X) % 256, (At(1) + X + 1) % 256}
      [] How = "indY" -> {At(1), (At(1) + 1) % 256}
      [] How = "ind" -> {Arg16, SamePageNext(Arg16)}
      [] OTHER -> {}
Unpromised ==
    \/ ({Plus(PC, n) : n \in 0 .. 2} \cup Pointers \cup 256 .. 511) \cap TtyPage # {}
    \/ Name \in Modifies /\ How # "none" /\ Address \in TtyPage

DeviceAccess ==
    IF Name \in Reads /\ Address \in TtyPage THEN TtyRead(Address - TtyBase)
    ELSE IF Name \in Stores /\ Address \in TtyPage THEN TtyWrite(Address - TtyBase, Source)
    ELSE UNCHANGED ttyVars

Execute ==
    /\ \/ Load \/ Arithmetic \/ Logic \/ Compare \/ BitTest
       \/ Modify \/ StoreIt \/ Transfer \/ Simple \/ BranchIt
       \/ Push \/ Pull \/ Jump \/ Call \/ Return \/ Break \/ ReturnFromBreak
    /\ Unpromised \/ DeviceAccess
    /\ took' = Cycles

(* A reset takes seven cycles, moves SP as three pushes would without      *)
(* writing, raises I, goes through its vector and ends a halt.             *)
Reset ==
    /\ PC' = Cell16(ResetVector, ResetVector + 1)
    /\ MoveSP(-3)
    /\ P' = P \cup {"I"}
    /\ halted' = FALSE
    /\ took' = 7
    /\ UNCHANGED <<A, X, Y, mem>>
    /\ PC \in TtyPage \/ UNCHANGED ttyVars

Init == PC \in Word /\ halted = FALSE /\ took = 0

Next == Execute \/ Reset

Spec == Init /\ [][Next]_<<A, X, Y, SP, PC, P, halted, took, busVars>>
=============================================================================
