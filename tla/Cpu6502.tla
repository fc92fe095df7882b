------------------------------- MODULE Cpu6502 -------------------------------
(***************************************************************************)
(* The cycle-stepped 6502 (src/cpu/cpu6502.cpp) on the bus, driven by the  *)
(* host through its public interface: tick, runToClockHigh, beginReset,    *)
(* reset, executeInstruction, run, and the register setters.               *)
(*                                                                         *)
(* One tick advances the clock by one phase.  Entering High it captures:   *)
(* operands and addresses are read into latches.  Entering Low it commits: *)
(* registers, flags and memory change.  A host call is a loop of ticks     *)
(* with its own exit condition, so a call and each of its ticks are steps. *)
(*                                                                         *)
(* m_aluOutput is not a variable: tick recomputes it from the input        *)
(* latches before anything reads it, so its value at every commit is       *)
(* Settled.  The status register is the set of its raised bits.            *)
(***************************************************************************)
EXTENDS Opcodes6502, Status6502, Bus

CONSTANTS
    Starts,         \* registers, memory and TTY the host starts from
    Calls,          \* the host calls that are made; "set" stands for the
                    \* register setters, which run no tick
    RunLengths,     \* maxInstructions of the run() calls
    MaxCalls        \* bound on the number of host calls

HostCall == {"tick", "runToClockHigh", "beginReset", "reset",
             "executeInstruction", "run"}

ASSUME CpuAssumption ==
    /\ \A s \in Starts : s.A \in Byte /\ s.X \in Byte /\ s.Y \in Byte /\ s.SP \in Byte
    /\ \A s \in Starts : s.PC \in Word /\ s.P \subseteq StatusBit /\ s.mem \in Memory
    /\ \A s \in Starts : s.ready \in BOOLEAN /\ s.motor \in BOOLEAN /\ s.tape \in Seq(Byte)
    /\ Calls \subseteq HostCall \cup {"set"}
    /\ RunLengths \subseteq Nat
    /\ MaxCalls \in Nat

VARIABLES
    A, X, Y, SP, PC,                \* the programmer's registers
    P,                              \* m_pFlags, as the set of raised bits
    IR,                             \* m_IR
    step,                           \* m_cpuStep, 0 .. 6
    phase,                          \* m_clockPhase
    addr, eff, crossed,             \* m_addrLatch, m_effAddr, m_pageCrossed
    offset, taken,                  \* m_branchOffset, m_branchTaken
    aluF, aluA, aluB, aluCI,        \* the ALU's input latches
    halted, resetActive,
    call, left, calls               \* the host: the call in progress, the
                                    \* instructions a run() may still execute,
                                    \* and how many calls were made

accumulators == <<A, X, Y>>
registers == <<A, X, Y, SP, PC, P>>
address == <<addr, eff, crossed>>
branch == <<offset, taken>>
alu == <<aluF, aluA, aluB, aluCI>>
latches == <<IR, addr, eff, crossed, offset, taken, aluF, aluA, aluB, aluCI>>
host == <<call, left, calls>>
vars == <<registers, latches, step, phase, halted, resetActive, host, busVars>>

Phases == {"Low", "LowToHigh", "High", "HighToLow"}

TypeOK ==
    /\ A \in Byte /\ X \in Byte /\ Y \in Byte /\ SP \in Byte /\ PC \in Word
    /\ P \subseteq StatusBit
    /\ IR \in Byte /\ step \in 0 .. 6 /\ phase \in Phases
    /\ addr \in Word /\ eff \in Word /\ crossed \in BOOLEAN
    /\ offset \in -128 .. 127 /\ taken \in BOOLEAN
    /\ aluF \in AluFunction /\ aluA \in Byte /\ aluB \in Byte /\ aluCI \in BOOLEAN
    /\ halted \in BOOLEAN /\ resetActive \in BOOLEAN
    /\ call \in HostCall \cup {"none"} /\ left \in Nat /\ calls \in Nat
    /\ BusTypeOK

(* Power-on latches are zero (the member initialisers of cpu6502.h); the   *)
(* host has set the registers and loaded memory, and the TTY may already   *)
(* hold a byte and have its motor running.                                 *)
Init ==
    /\ \E s \in Starts :
          /\ A = s.A /\ X = s.X /\ Y = s.Y /\ SP = s.SP /\ PC = s.PC /\ P = s.P
          /\ mem = s.mem /\ rxReady = s.ready /\ motor = s.motor /\ tape = s.tape
    /\ IR = 0 /\ step = 0 /\ phase = "Low"
    /\ addr = 0 /\ eff = 0 /\ crossed = FALSE
    /\ offset = 0 /\ taken = FALSE
    /\ aluF = "ADD" /\ aluA = 0 /\ aluB = 0 /\ aluCI = FALSE
    /\ halted = FALSE /\ resetActive = FALSE
    /\ call = "none" /\ left = 0 /\ calls = 0
    /\ rxByte = 0 /\ out = <<>> /\ pos = 0 /\ eot = FALSE /\ err = FALSE

-----------------------------------------------------------------------------
Stack == 256 + SP

-----------------------------------------------------------------------------
(* Operands.                                                               *)

Op == Operation[IR]

Binary == {"ADC", "SBC", "AND", "ORA", "EOR", "CMP", "CPX", "CPY", "BIT"}

(* applyBinaryAluOp: the register and the ALU operation of an opcode.      *)
BinaryRegister == CASE Op = "CPX" -> X [] Op = "CPY" -> Y [] OTHER -> A
AluOp == IF Op \in {"CPX", "CPY"} THEN "CMP" ELSE Op

ApplyBinary(operand) ==
    /\ aluA' = BinaryRegister
    /\ aluB' = BinaryB(AluOp, operand)
    /\ aluCI' = BinaryCarryIn(AluOp, "C" \in P)
    /\ aluF' = BinaryFunction(AluOp)

(* applyUnaryAluOp, and beginUnaryAluOp as INX and the like use it.        *)
ApplyUnary(op, operand) ==
    /\ aluA' = UnaryA(op, aluA)
    /\ aluB' = operand
    /\ aluCI' = UnaryCarryIn(op, "C" \in P)
    /\ aluF' = UnaryFunction(op)

(* A load or transfer: OR with zero, the carry-in latch left as it was.    *)
PassThrough(operand) ==
    /\ aluA' = 0
    /\ aluB' = operand
    /\ aluF' = "OR"
    /\ UNCHANGED aluCI

(* What the operand byte of a memory instruction is latched for.           *)
ApplyOperand(operand) ==
    \/ Op \in Binary /\ ApplyBinary(operand)
    \/ Op \in UnaryOp /\ ApplyUnary(Op, operand)
    \/ Op \in {"LDA", "LDX", "LDY"} /\ PassThrough(operand)

TransferSource ==
    CASE Op \in {"TAX", "TAY"} -> A
      [] Op \in {"TXA", "TXS"} -> X
      [] Op = "TYA" -> Y
      [] Op = "TSX" -> SP

(* evaluateBranchCondition.                                                *)
BranchCondition ==
    CASE Op = "BPL" -> "N" \notin P [] Op = "BMI" -> "N" \in P
      [] Op = "BVC" -> "V" \notin P [] Op = "BVS" -> "V" \in P
      [] Op = "BCC" -> "C" \notin P [] Op = "BCS" -> "C" \in P
      [] Op = "BNE" -> "Z" \notin P [] Op = "BEQ" -> "Z" \in P

-----------------------------------------------------------------------------
(* The High edge.  Each action is one capture of the tables; it loads the  *)
(* latches it names and touches no register, flag or memory cell.          *)

Idle == BusIdle /\ UNCHANGED latches

(* A read whose value is discarded still happens on the bus.               *)
DummyRead == BusRead(PC) /\ UNCHANGED latches

(* captureOpcodeFetch.                                                     *)
OpcodeFetch ==
    /\ BusRead(PC) /\ IR' = BusData(PC)
    /\ UNCHANGED <<address, branch, alu>>

(* One byte read from "from" loads m_addrLatch with "value".               *)
LoadAddr(from, value) ==
    /\ BusRead(from) /\ addr' = value
    /\ UNCHANGED <<IR, eff, crossed, branch, alu>>

FetchLowFault_KeepsHigh == LoadAddr(PC, Page(addr) + BusData(PC))    \* ImplementsIsa

FetchLow == LoadAddr(PC, BusData(PC))
FetchHigh == LoadAddr(PC, OrHigh(addr, BusData(PC)))
TargetHigh == LoadAddr(PC, SetHigh(addr, BusData(PC)))
PullLow == LoadAddr(Stack, BusData(Stack))
PullHigh == LoadAddr(Stack, SetHigh(addr, BusData(Stack)))
VectorLow(vector) == LoadAddr(vector, BusData(vector))
VectorHigh(vector) == LoadAddr(vector + 1, OrHigh(addr, BusData(vector + 1)))

(* Zero-page indexing wraps within the page.                               *)
IndexZeroPage(index) ==
    /\ BusIdle /\ addr' = (addr + index) % 256
    /\ UNCHANGED <<IR, eff, crossed, branch, alu>>

(* One byte read from "from" loads m_effAddr.                              *)
LoadEff(from, value) ==
    /\ BusRead(from) /\ eff' = value
    /\ UNCHANGED <<IR, addr, crossed, branch, alu>>

(* The second byte of a zero-page pointer wraps within the zero page; that *)
(* of JMP (indirect) wraps within the pointer's own page.                  *)
PointerNext == LowByte(addr + 1)
PointerNextInPage == Page(addr) + LowByte(addr + 1)

PointerLow == LoadEff(addr, BusData(addr))
PointerHigh == LoadEff(PointerNext, OrHigh(eff, BusData(PointerNext)))
PointerHighInPage == LoadEff(PointerNextInPage, OrHigh(eff, BusData(PointerNextInPage)))

(* The indexed address of a read also decides whether the page fixup is    *)
(* due; a store or read-modify-write always pays for it and leaves         *)
(* m_pageCrossed alone.                                                    *)
LoadIndexed(from, base, index) ==
    /\ BusRead(from)
    /\ eff' = Indexed(base, index)
    /\ crossed' = PageCrossed(base, Indexed(base, index))
    /\ UNCHANGED <<IR, addr, branch, alu>>

FetchBase(index) == LoadIndexed(PC, OrHigh(addr, BusData(PC)), index)
FetchFixed(index) == LoadEff(PC, Indexed(OrHigh(addr, BusData(PC)), index))
PointerBase == LoadIndexed(PointerNext, OrHigh(eff, BusData(PointerNext)), Y)
PointerFixed == LoadEff(PointerNext, Indexed(OrHigh(eff, BusData(PointerNext)), Y))

(* The operand goes from the bus to the ALU's latches.                     *)
OperandAt(from) ==
    /\ BusRead(from) /\ ApplyOperand(BusData(from))
    /\ UNCHANGED <<IR, address, branch>>

OperandIfSamePage == IF crossed THEN Idle ELSE OperandAt(eff)

OperandInRegister ==
    /\ \/ Handler[IR] = "ShiftAccumulator" /\ ApplyUnary(Op, A)
       \/ Op = "INX" /\ ApplyUnary("INC", X)
       \/ Op = "DEX" /\ ApplyUnary("DEC", X)
       \/ Op = "INY" /\ ApplyUnary("INC", Y)
       \/ Op = "DEY" /\ ApplyUnary("DEC", Y)
       \/ Handler[IR] = "ImpliedTransfer" /\ PassThrough(TransferSource)
    /\ BusIdle /\ UNCHANGED <<IR, address, branch>>

BranchOffset ==
    /\ BusRead(PC)
    /\ offset' = Signed(BusData(PC))
    /\ taken' = BranchCondition
    /\ UNCHANGED <<IR, address, alu>>

BranchTarget ==
    /\ BusIdle
    /\ eff' = Relative(PC, offset)
    /\ crossed' = PageCrossed(PC, Relative(PC, offset))
    /\ UNCHANGED <<IR, addr, branch, alu>>

Capture(what) ==
    \/ what = "idle" /\ Idle
    \/ what = "dummyRead" /\ DummyRead
    \/ what = "opcodeFetch" /\ OpcodeFetch
    \/ what = "fetchLow" /\ FetchLow
    \/ what = "fetchHigh" /\ FetchHigh
    \/ what = "targetHigh" /\ TargetHigh
    \/ what = "pullLow" /\ PullLow
    \/ what = "pullHigh" /\ PullHigh
    \/ what = "vectorLow" /\ VectorLow(BRKVector)
    \/ what = "vectorHigh" /\ VectorHigh(BRKVector)
    \/ what = "resetLow" /\ VectorLow(ResetVector)
    \/ what = "resetHigh" /\ VectorHigh(ResetVector)
    \/ what = "indexX" /\ IndexZeroPage(X)
    \/ what = "indexY" /\ IndexZeroPage(Y)
    \/ what = "pointerLow" /\ PointerLow
    \/ what = "pointerHigh" /\ PointerHigh
    \/ what = "pointerHighInPage" /\ PointerHighInPage
    \/ what = "fetchBaseX" /\ FetchBase(X)
    \/ what = "fetchBaseY" /\ FetchBase(Y)
    \/ what = "fetchFixedX" /\ FetchFixed(X)
    \/ what = "fetchFixedY" /\ FetchFixed(Y)
    \/ what = "pointerBaseY" /\ PointerBase
    \/ what = "pointerFixedY" /\ PointerFixed
    \/ what = "operandPC" /\ OperandAt(PC)
    \/ what = "operandAddr" /\ OperandAt(addr)
    \/ what = "operandEff" /\ OperandAt(eff)
    \/ what = "operandEffIfSamePage" /\ OperandIfSamePage
    \/ what \in {"operandA", "operandXY", "transferSource"} /\ OperandInRegister
    \/ what = "branchOffset" /\ BranchOffset
    \/ what = "branchTarget" /\ BranchTarget

(* onClockHigh: the reset sequence first, then the fetch, then the handler *)
(* of the opcode.  A handler's default case captures nothing.              *)
CaptureNow ==
    IF resetActive THEN Reset.capture[step + 1]
    ELSE IF step = 0 THEN "opcodeFetch"
    ELSE IF step \in DOMAIN Microprogram[IR].capture THEN Microprogram[IR].capture[step]
    ELSE "idle"

OnClockHigh ==
    /\ Capture(CaptureNow)
    /\ UNCHANGED <<registers, step, halted, resetActive>>

-----------------------------------------------------------------------------
(* The Low edge.  Each action is one commit of the tables; it changes      *)
(* registers, flags or memory, and says which T-state comes next.          *)

Settled == AluValue(aluF, aluA, aluB, aluCI)
SettledCarry == AluCarry(aluF, aluA, aluB, aluCI)

Advance == step' = step + 1 /\ UNCHANGED <<halted, resetActive>>
Finish == step' = 0 /\ UNCHANGED <<halted, resetActive>>

(* commitOpcodeFetch, and every T-state that only moves past a byte.       *)
StepPC ==
    /\ PC' = Next16(PC) /\ Advance
    /\ BusIdle /\ UNCHANGED <<accumulators, SP, P, latches>>

StepOnly ==
    /\ Advance
    /\ BusIdle /\ UNCHANGED <<registers, latches>>

(* commitBinaryAluResult: the flags each group of operations follows.  BIT *)
(* takes N and V from the operand, still in the B latch.                   *)
BinaryStatus ==
    LET zn == ZeroNegative(Settled)
    IN  CASE Op \in {"ADC", "SBC"} ->
                 SetBits(P, {"C", "Z", "V", "N"},
                         zn \cup If(SettledCarry, "C")
                            \cup If(AluOverflow(aluA, aluB, Settled), "V"))
          [] Op \in {"AND", "ORA", "EOR"} -> SetBits(P, {"Z", "N"}, zn)
          [] Op \in {"CMP", "CPX", "CPY"} ->
                 SetBits(P, {"C", "Z", "N"}, zn \cup If(SettledCarry, "C"))
          [] Op = "BIT" ->
                 SetBits(P, {"Z", "V", "N"},
                         If(AluZero(Settled), "Z") \cup If(AluNegative(aluB), "N")
                            \cup If(Bit(aluB, 64) = 1, "V"))

BinaryResult ==
    /\ Op \in Binary
    /\ A' = IF Op \in {"ADC", "SBC", "AND", "ORA", "EOR"} THEN Settled ELSE A
    /\ P' = BinaryStatus
    /\ UNCHANGED <<X, Y>>

(* commitLoadResult.                                                       *)
LoadResult ==
    /\ Op \in {"LDA", "LDX", "LDY"}
    /\ A' = IF Op = "LDA" THEN Settled ELSE A
    /\ X' = IF Op = "LDX" THEN Settled ELSE X
    /\ Y' = IF Op = "LDY" THEN Settled ELSE Y
    /\ P' = SetBits(P, {"Z", "N"}, ZeroNegative(Settled))

Result ==
    /\ BinaryResult \/ LoadResult
    /\ Finish
    /\ BusIdle /\ UNCHANGED <<SP, latches>>

ResultPC == Result /\ PC' = Next16(PC)
ResultAlone == Result /\ UNCHANGED PC
ResultIfSamePage == IF crossed THEN StepOnly ELSE ResultAlone

(* commitUnaryAluFlags: INC and DEC leave the carry alone.                 *)
UnaryStatus ==
    IF Op \in {"INC", "DEC"}
    THEN SetBits(P, {"Z", "N"}, ZeroNegative(Settled))
    ELSE SetBits(P, {"C", "Z", "N"}, ZeroNegative(Settled) \cup If(SettledCarry, "C"))

WriteBack(to) ==
    /\ BusWrite(to, Settled)
    /\ P' = UnaryStatus
    /\ Finish
    /\ UNCHANGED <<accumulators, SP, PC, latches>>

ShiftResult ==
    /\ A' = Settled
    /\ P' = UnaryStatus
    /\ Finish
    /\ BusIdle /\ UNCHANGED <<X, Y, SP, PC, latches>>

IncDecResult ==
    /\ X' = IF Op \in {"INX", "DEX"} THEN Settled ELSE X
    /\ Y' = IF Op \in {"INY", "DEY"} THEN Settled ELSE Y
    /\ P' = SetBits(P, {"Z", "N"}, ZeroNegative(Settled))
    /\ Finish
    /\ BusIdle /\ UNCHANGED <<A, SP, PC, latches>>

(* TXS is the one transfer that leaves the flags alone.                    *)
TransferResult ==
    /\ A' = IF Op \in {"TXA", "TYA"} THEN Settled ELSE A
    /\ X' = IF Op \in {"TAX", "TSX"} THEN Settled ELSE X
    /\ Y' = IF Op = "TAY" THEN Settled ELSE Y
    /\ SP' = IF Op = "TXS" THEN Settled ELSE SP
    /\ P' = IF Op = "TXS" THEN P ELSE SetBits(P, {"Z", "N"}, ZeroNegative(Settled))
    /\ Finish
    /\ BusIdle /\ UNCHANGED <<PC, latches>>

FlagStatus ==
    CASE Op = "CLC" -> P \ {"C"} [] Op = "SEC" -> P \cup {"C"}
      [] Op = "CLI" -> P \ {"I"} [] Op = "SEI" -> P \cup {"I"}
      [] Op = "CLD" -> P \ {"D"} [] Op = "SED" -> P \cup {"D"}
      [] Op = "CLV" -> P \ {"V"}

FlagResult ==
    /\ P' = FlagStatus
    /\ Finish
    /\ BusIdle /\ UNCHANGED <<accumulators, SP, PC, latches>>

Done ==
    /\ Finish
    /\ BusIdle /\ UNCHANGED <<registers, latches>>

(* storeSourceValue.                                                       *)
StoreSource == CASE Op = "STX" -> X [] Op = "STY" -> Y [] OTHER -> A

Store(to) ==
    /\ BusWrite(to, StoreSource)
    /\ Finish
    /\ UNCHANGED <<registers, latches>>

(* PC moves to "target", with nothing else changed but the T-state.        *)
Goto(target) ==
    /\ PC' = target
    /\ Finish
    /\ BusIdle /\ UNCHANGED <<accumulators, SP, P, latches>>

BranchDecide ==
    /\ PC' = Next16(PC)
    /\ IF taken THEN Advance ELSE Finish
    /\ BusIdle /\ UNCHANGED <<accumulators, SP, P, latches>>

BranchIfSamePage == IF crossed THEN StepOnly ELSE Goto(eff)

-----------------------------------------------------------------------------
(* The stack.  SP wraps within page 1 in both directions.                  *)

PushFault_NoWrap(byte) == BusWrite(Stack, byte) /\ SP' = SP - 1     \* TypeOK

Push(byte) == BusWrite(Stack, byte) /\ SP' = (SP - 1) % 256
PopSP == SP' = (SP + 1) % 256

PushPC(byte) ==
    /\ Push(byte) /\ Advance
    /\ UNCHANGED <<accumulators, PC, P, latches>>

PushStatusFault_InterruptFirst ==                               \* ImplementsIsa
    /\ Push(StatusByte(P \cup {"B", "I"}))
    /\ P' = P \cup {"B", "I"}
    /\ Advance
    /\ UNCHANGED <<accumulators, PC, latches>>

(* BRK's third push: B is raised in the register before it is pushed, I    *)
(* only after.                                                             *)
PushStatus ==
    /\ Push(StatusByte(P \cup {"B"}))
    /\ P' = P \cup {"B", "I"}
    /\ Advance
    /\ UNCHANGED <<accumulators, PC, latches>>

PushRegister ==
    /\ Push(IF Op = "PHP" THEN StatusByte(P \cup {"B"}) ELSE A)
    /\ P' = IF Op = "PHP" THEN P \cup {"B"} ELSE P
    /\ Finish
    /\ UNCHANGED <<accumulators, PC, latches>>

IncrementSP ==
    /\ PopSP /\ Advance
    /\ BusIdle /\ UNCHANGED <<accumulators, PC, P, latches>>

PullRegister ==
    /\ IF Op = "PLA"
       THEN /\ A' = LowByte(addr)
            /\ P' = SetBits(P, {"Z", "N"}, ZeroNegative(LowByte(addr)))
       ELSE A' = A /\ P' = StatusOf(LowByte(addr))
    /\ Finish
    /\ BusIdle /\ UNCHANGED <<X, Y, SP, PC, latches>>

(* RTI reads the stack on the Low edge, unlike every other pull.           *)
PullStatus ==
    /\ BusRead(Stack) /\ P' = StatusOf(BusData(Stack))
    /\ PopSP /\ Advance
    /\ UNCHANGED <<accumulators, PC, latches>>

PullPCL ==
    /\ BusRead(Stack) /\ addr' = BusData(Stack)
    /\ PopSP /\ Advance
    /\ UNCHANGED <<accumulators, PC, P, IR, eff, crossed, branch, alu>>

PullPCH ==
    /\ BusRead(Stack) /\ addr' = OrHigh(addr, BusData(Stack))
    /\ PC' = OrHigh(addr, BusData(Stack))
    /\ Finish
    /\ UNCHANGED <<accumulators, SP, P, IR, eff, crossed, branch, alu>>

JumpHaltFault_StaysInT6 ==                                      \* CallReturns
    /\ PC' = addr
    /\ halted' = TRUE
    /\ BusIdle /\ UNCHANGED <<accumulators, SP, P, latches, resetActive, step>>

JumpHalt ==
    /\ PC' = addr
    /\ halted' = TRUE
    /\ step' = 0
    /\ BusIdle /\ UNCHANGED <<accumulators, SP, P, latches, resetActive>>

-----------------------------------------------------------------------------
(* commitReset.  The three pushes of the sequence move SP and write        *)
(* nothing.                                                                *)

ClearHalted ==
    /\ halted' = FALSE
    /\ step' = step + 1
    /\ BusIdle /\ UNCHANGED <<registers, latches, resetActive>>

PhantomPush(status) ==
    /\ SP' = (SP - 1) % 256
    /\ P' = status
    /\ Advance
    /\ BusIdle /\ UNCHANGED <<accumulators, PC, latches>>

ResetJump ==
    /\ PC' = addr
    /\ resetActive' = FALSE
    /\ step' = 0
    /\ BusIdle /\ UNCHANGED <<accumulators, SP, P, latches, halted>>

Commit(what) ==
    \/ what = "nextPC" /\ StepPC
    \/ what = "next" /\ StepOnly
    \/ what = "resultPC" /\ ResultPC
    \/ what = "result" /\ ResultAlone
    \/ what = "resultIfSamePage" /\ ResultIfSamePage
    \/ what = "writeBackAddr" /\ WriteBack(addr)
    \/ what = "writeBackEff" /\ WriteBack(eff)
    \/ what = "shiftResult" /\ ShiftResult
    \/ what = "incDecResult" /\ IncDecResult
    \/ what = "transferResult" /\ TransferResult
    \/ what = "flagResult" /\ FlagResult
    \/ what = "done" /\ Done
    \/ what = "storeAddr" /\ Store(addr)
    \/ what = "storeEff" /\ Store(eff)
    \/ what = "jump" /\ Goto(addr)
    \/ what = "jumpEff" /\ Goto(eff)
    \/ what = "jumpPast" /\ Goto(Next16(addr))
    \/ what = "branchDecide" /\ BranchDecide
    \/ what = "branchIfSamePage" /\ BranchIfSamePage
    \/ what = "branchTake" /\ Goto(eff)
    \/ what = "pushPCH" /\ PushPC(HighByte(PC))
    \/ what = "pushPCL" /\ PushPC(LowByte(PC))
    \/ what = "pushStatus" /\ PushStatus
    \/ what = "pushRegister" /\ PushRegister
    \/ what = "incrementSP" /\ IncrementSP
    \/ what = "pullRegister" /\ PullRegister
    \/ what = "pullStatus" /\ PullStatus
    \/ what = "pullPCL" /\ PullPCL
    \/ what = "pullPCH" /\ PullPCH
    \/ what = "jumpHalt" /\ JumpHalt
    \/ what = "clearHalted" /\ ClearHalted
    \/ what = "decrementSP" /\ PhantomPush(P)
    \/ what = "decrementSPMask" /\ PhantomPush(P \cup {"I"})
    \/ what = "resetJump" /\ ResetJump

(* onClockLow.  The default case of a handler's commit does nothing at     *)
(* all: the T-state would never change again.                              *)
WithinHandler == resetActive \/ step = 0 \/ step \in DOMAIN Microprogram[IR].commit

CommitNow ==
    IF resetActive THEN Reset.commit[step + 1]
    ELSE IF step = 0 THEN "nextPC"
    ELSE Microprogram[IR].commit[step]

OnClockLow ==
    IF WithinHandler THEN Commit(CommitNow)
    ELSE UNCHANGED <<registers, latches, step, halted, resetActive, busVars>>

-----------------------------------------------------------------------------
(* tick, and the loops that call it.                                       *)

NextPhase ==
    CASE phase = "Low" -> "LowToHigh"  [] phase = "LowToHigh" -> "High"
      [] phase = "High" -> "HighToLow" [] phase = "HighToLow" -> "Low"

(* LowToHigh and HighToLow only let the ALU settle.                        *)
Settle ==
    /\ NextPhase \in {"LowToHigh", "HighToLow"}
    /\ UNCHANGED <<registers, latches, step, halted, resetActive, busVars>>

Clock ==
    /\ phase' = NextPhase
    /\ \/ Settle
       \/ NextPhase = "High" /\ OnClockHigh
       \/ NextPhase = "Low" /\ OnClockLow

AtBoundary == step = 0 /\ phase = "Low"

ReturnedFault_RunIgnoresHalt ==                                 \* HaltStopsRun
    CASE call = "tick" -> TRUE
      [] call = "runToClockHigh" -> (phase = "High")'
      [] call \in {"reset", "executeInstruction"} -> AtBoundary'
      [] call = "run" -> AtBoundary' /\ left = 1

(* The exit conditions of the do-while loops, tested after the tick; run   *)
(* goes on to another executeInstruction while it may and is not halted.   *)
Returned ==
    CASE call = "tick" -> TRUE
      [] call = "runToClockHigh" -> (phase = "High")'
      [] call \in {"reset", "executeInstruction"} -> AtBoundary'
      [] call = "run" -> AtBoundary' /\ (left = 1 \/ halted')

Tick ==
    /\ call # "none"
    /\ Clock
    /\ call' = IF Returned THEN "none" ELSE call
    /\ left' = IF call = "run" /\ AtBoundary' THEN left - 1 ELSE left
    /\ UNCHANGED calls

ArmResetFault_KeepsStep == resetActive' = TRUE /\ UNCHANGED step    \* ResetSettles

(* beginReset: m_resetActive and T0, at whatever phase the clock is.       *)
ArmReset == resetActive' = TRUE /\ step' = 0

StartCall ==
    /\ call = "none" /\ calls < MaxCalls
    /\ calls' = calls + 1
    /\ UNCHANGED <<latches, phase, halted, busVars>>

CallTick(c) ==
    /\ c \in Calls \cap {"tick", "runToClockHigh", "executeInstruction"}
    /\ StartCall
    /\ call' = c
    /\ UNCHANGED <<registers, step, resetActive, left>>

CallReset(c) ==
    /\ c \in Calls \cap {"beginReset", "reset"}
    /\ StartCall
    /\ ArmReset
    /\ call' = IF c = "reset" THEN "reset" ELSE "none"
    /\ UNCHANGED <<registers, left>>

(* run returns at once when told to execute nothing or already halted.     *)
CallRun(max) ==
    /\ "run" \in Calls
    /\ StartCall
    /\ left' = max
    /\ call' = IF max = 0 \/ halted THEN "none" ELSE "run"
    /\ UNCHANGED <<registers, step, resetActive>>

(* A(val), X(val), Y(val), SP(val), PC(val) and P(val): one register, at   *)
(* any clock phase.                                                        *)
CallSet ==
    /\ "set" \in Calls
    /\ StartCall
    /\ \E s \in Starts :
           \/ A' = s.A /\ UNCHANGED <<X, Y, SP, PC, P>>
           \/ X' = s.X /\ UNCHANGED <<A, Y, SP, PC, P>>
           \/ Y' = s.Y /\ UNCHANGED <<A, X, SP, PC, P>>
           \/ SP' = s.SP /\ UNCHANGED <<A, X, Y, PC, P>>
           \/ PC' = s.PC /\ UNCHANGED <<A, X, Y, SP, P>>
           \/ P' = s.P /\ UNCHANGED <<A, X, Y, SP, PC>>
    /\ UNCHANGED <<step, resetActive, call, left>>

Next ==
    \/ Tick
    \/ \E c \in HostCall : CallTick(c) \/ CallReset(c)
    \/ \E max \in RunLengths : CallRun(max)
    \/ CallSet

(* A call is a loop on the host's own thread: once entered, it keeps        *)
(* ticking.                                                                *)
Spec == Init /\ [][Next]_vars /\ WF_vars(Tick)

-----------------------------------------------------------------------------
(* Every host call returns: no opcode byte, no operand and no moment of    *)
(* arming a reset leaves executeInstruction, reset, run or runToClockHigh  *)
(* spinning (the do-while loops end only at T0 and Low, and a commit that  *)
(* fell into its default case would never get there).                      *)
CallReturns == call # "none" ~> call = "none"

(* run() never starts an instruction on a halted CPU, whether the halt     *)
(* came from a BRK of its own or from an earlier call (run tests m_halted  *)
(* before each executeInstruction).                                        *)
HaltStopsRun == call = "run" /\ AtBoundary => ~halted /\ left > 0
=============================================================================
