---------------------------- MODULE Cpu6502Proofs ----------------------------
(***************************************************************************)
(* Proofs about the CPU on the bus, for every memory map, every starting   *)
(* state, every set of host calls and every bound.                         *)
(*                                                                         *)
(* The invariant is TypeOK together with WithinHandler, HaltStopsRun and   *)
(* RunCounts.  TypeOK is not inductive alone: the T-state stays below 7    *)
(* because it never leaves its handler's row, it never leaves the row      *)
(* because IR is replaced at T0 only and every row ends in a finishing     *)
(* commit, and a run() never counts below zero because it holds at least   *)
(* one instruction for as long as it is in progress.                       *)
(*                                                                         *)
(* For the reset sequence the invariant Resetting says, T-state by         *)
(* T-state, what has become of the state in which the reset was armed and  *)
(* what part of the vector stands in the address latch.                    *)
(*                                                                         *)
(* For the refinement of the instruction set the invariant Underway says   *)
(* the same of an instruction: what its commits have done so far           *)
(* (Committed) and what its captures have latched (Latched), both in the   *)
(* terms in which Isa6502 describes the instruction as a whole.  The parts *)
(* of the proof are the agreement of the two decoders, the invariant under *)
(* each High edge, under each Low edge that goes on, and, for each Low     *)
(* edge that ends an instruction, that it is the instruction.              *)
(***************************************************************************)
EXTENDS Cpu6502Trace, TtyLemmas, CpuLemmas

(* TypeOK by the groups that actions change together.                      *)
RegistersOK ==
    /\ A \in Byte /\ X \in Byte /\ Y \in Byte /\ SP \in Byte /\ PC \in Word
    /\ P \subseteq StatusBit

LatchesOK ==
    /\ addr \in Word /\ eff \in Word /\ crossed \in BOOLEAN
    /\ offset \in -128 .. 127 /\ taken \in BOOLEAN
    /\ aluF \in AluFunction /\ aluA \in Byte /\ aluB \in Byte /\ aluCI \in BOOLEAN

DatapathOK == RegistersOK /\ LatchesOK /\ IR \in Byte /\ BusTypeOK

ControlOK ==
    /\ step \in 0 .. 6 /\ phase \in Phases
    /\ halted \in BOOLEAN /\ resetActive \in BOOLEAN
    /\ call \in HostCall \cup {"none"} /\ left \in Nat /\ calls \in Nat

LEMMA TypeSplits == TypeOK <=> DatapathOK /\ ControlOK
  BY DEF TypeOK, DatapathOK, RegistersOK, LatchesOK, ControlOK

LEMMA TtyByteIsByte == TtyByte = Byte
  BY Zenon DEF TtyByte, Byte

-----------------------------------------------------------------------------
(* The bus returns bytes and keeps its types.                              *)
LEMMA InTtyPage ==
    ASSUME NEW a \in TtyPage
    PROVE  a - TtyBase \in Nat
<1>1. TtyBase \in Int
  BY MapAssumption, WordRange
<1>2. a \in Int /\ TtyBase <= a
  BY <1>1 DEF TtyPage
<1> QED BY <1>1, <1>2

LEMMA BusDataByte ==
    ASSUME BusTypeOK, NEW a
    PROVE  BusData(a) \in Byte
<1>1. CASE a \in Ram \cup Rom
  <2>1. mem[a] \in TtyByte
    BY <1>1 DEF BusTypeOK, Memory
  <2> QED BY <1>1, <2>1, TtyByteIsByte DEF BusData
<1>2. CASE a \notin Ram \cup Rom /\ a \in TtyPage
  <2>1. ReadValue(a - TtyBase) \in TtyByte
    BY <1>2, InTtyPage, ReadValueByte DEF BusTypeOK
  <2> QED BY <1>2, <2>1, TtyByteIsByte DEF BusData
<1>3. CASE a \notin Ram \cup Rom /\ a \notin TtyPage
  <2>1. 255 \in Byte
    BY DEF Byte
  <2> QED BY <1>3, <2>1 DEF BusData
<1> QED BY <1>1, <1>2, <1>3

LEMMA BusIdleType ==
    ASSUME BusTypeOK, BusIdle
    PROVE  BusTypeOK'
  BY DEF BusTypeOK, BusIdle, busVars, serial, deck, TtyTypeOK, Memory

LEMMA BusReadType ==
    ASSUME BusTypeOK, NEW a, BusRead(a)
    PROVE  BusTypeOK'
<1>1. mem' \in Memory
  BY DEF BusRead, BusTypeOK
<1>2. CASE a \in TtyPage
  <2>1. TtyRead(a - TtyBase)
    BY <1>2 DEF BusRead
  <2>2. TtyTypeOK'
    BY <1>2, <2>1, InTtyPage, ReadType DEF BusTypeOK
  <2> QED BY <1>1, <2>2 DEF BusTypeOK
<1>3. CASE a \notin TtyPage
  <2>1. UNCHANGED ttyVars
    BY <1>3 DEF BusRead
  <2>2. TtyTypeOK'
    BY <2>1 DEF ttyVars, TtyTypeOK, BusTypeOK
  <2> QED BY <1>1, <2>2 DEF BusTypeOK
<1> QED BY <1>2, <1>3

LEMMA BusWriteType ==
    ASSUME BusTypeOK, NEW a, NEW val \in Byte, BusWrite(a, val)
    PROVE  BusTypeOK'
<1>0. val \in TtyByte
  BY TtyByteIsByte
<1>1. mem' \in Memory
  BY <1>0 DEF BusWrite, BusTypeOK, Memory
<1>2. CASE a \in TtyPage
  <2>1. TtyWrite(a - TtyBase, val)
    BY <1>2 DEF BusWrite
  <2>2. TtyTypeOK'
    BY <1>0, <1>2, <2>1, InTtyPage, WriteType DEF BusTypeOK
  <2> QED BY <1>1, <2>2 DEF BusTypeOK
<1>3. CASE a \notin TtyPage
  <2>1. UNCHANGED ttyVars
    BY <1>3 DEF BusWrite
  <2>2. TtyTypeOK'
    BY <2>1 DEF ttyVars, TtyTypeOK, BusTypeOK
  <2> QED BY <1>1, <2>2 DEF BusTypeOK
<1> QED BY <1>2, <1>3

-----------------------------------------------------------------------------
(* The High edge: every capture loads its latches with values of their     *)
(* widths.  First the shapes that captures share.                          *)
LatchesKept == LatchesOK' /\ BusTypeOK'

LEMMA ByteIsInt == \A d \in Byte : d \in Int
  BY DEF Byte

LEMMA LoadAddrType ==
    ASSUME DatapathOK, NEW from, NEW value \in Word, LoadAddr(from, value)
    PROVE  LatchesKept /\ IR' = IR
<1>1. BusTypeOK'
  BY BusReadType DEF LoadAddr, DatapathOK
<1>2. LatchesOK' /\ IR' = IR
  BY DEF LoadAddr, DatapathOK, LatchesOK, branch, alu
<1> QED BY <1>1, <1>2 DEF LatchesKept

LEMMA LoadEffType ==
    ASSUME DatapathOK, NEW from, NEW value \in Word, LoadEff(from, value)
    PROVE  LatchesKept /\ IR' = IR
<1>1. BusTypeOK'
  BY BusReadType DEF LoadEff, DatapathOK
<1>2. LatchesOK' /\ IR' = IR
  BY DEF LoadEff, DatapathOK, LatchesOK, branch, alu
<1> QED BY <1>1, <1>2 DEF LatchesKept

LEMMA LoadIndexedType ==
    ASSUME DatapathOK, NEW from, NEW base \in Word, NEW index \in Byte,
           LoadIndexed(from, base, index)
    PROVE  LatchesKept /\ IR' = IR
<1>1. BusTypeOK'
  BY BusReadType DEF LoadIndexed, DatapathOK
<1>2. Indexed(base, index) \in Word
  BY Moved, ByteIsInt
<1>3. PageCrossed(base, Indexed(base, index)) \in BOOLEAN
  BY Zenon DEF PageCrossed
<1>4. LatchesOK' /\ IR' = IR
  BY <1>2, <1>3 DEF LoadIndexed, DatapathOK, LatchesOK, branch, alu
<1> QED BY <1>1, <1>4 DEF LatchesKept

(* A latched address stays 16 bits wide whatever byte is or-ed into it.    *)
LEMMA LatchValues ==
    ASSUME DatapathOK, NEW a
    PROVE  /\ BusData(a) \in Word
           /\ OrHigh(addr, BusData(a)) \in Word
           /\ SetHigh(addr, BusData(a)) \in Word
           /\ OrHigh(eff, BusData(a)) \in Word
<1>1. BusData(a) \in Byte
  BY BusDataByte DEF DatapathOK
<1>2. addr \in Word /\ eff \in Word
  BY DEF DatapathOK, LatchesOK
<1> QED BY <1>1, <1>2, ByteInWord, Joined

LEMMA IndexType ==
    ASSUME DatapathOK, NEW index \in Byte, IndexZeroPage(index)
    PROVE  LatchesKept /\ IR' = IR
<1>1. BusTypeOK'
  BY BusIdleType DEF IndexZeroPage, DatapathOK
<1>2. addr + index \in Int
  BY WordRange, ByteIsInt DEF DatapathOK, LatchesOK
<1>3. (addr + index) % 256 \in Word
  BY <1>2, ModByte, ByteInWord
<1>4. LatchesOK' /\ IR' = IR
  BY <1>3 DEF IndexZeroPage, DatapathOK, LatchesOK, branch, alu
<1> QED BY <1>1, <1>4 DEF LatchesKept

(* The operand of the ALU.                                                 *)
ALUInputsOK == aluF' \in AluFunction /\ aluA' \in Byte /\ aluB' \in Byte /\ aluCI' \in BOOLEAN

LEMMA ApplyBinaryType ==
    ASSUME DatapathOK, NEW operand \in Byte, Op \in Binary, ApplyBinary(operand)
    PROVE  ALUInputsOK
<1>1. AluOp \in BinaryOp
  BY DEF AluOp, Binary, BinaryOp
<1>2. ("C" \in P) \in BOOLEAN
  OBVIOUS
<1>3. BinaryRegister \in Byte
  BY DEF BinaryRegister, DatapathOK, RegistersOK
<1>4. /\ BinaryFunction(AluOp) \in AluFunction
      /\ BinaryB(AluOp, operand) \in Byte
      /\ BinaryCarryIn(AluOp, "C" \in P) \in BOOLEAN
  BY <1>1, <1>2, BinaryLatches
<1> QED BY <1>3, <1>4, Zenon DEF ApplyBinary, ALUInputsOK

LEMMA ApplyUnaryType ==
    ASSUME DatapathOK, NEW op \in UnaryOp, NEW operand \in Byte, ApplyUnary(op, operand)
    PROVE  ALUInputsOK
<1>1. ("C" \in P) \in BOOLEAN
  OBVIOUS
<1>2. aluA \in Byte
  BY DEF DatapathOK, LatchesOK
<1>3. /\ UnaryFunction(op) \in AluFunction
      /\ UnaryA(op, aluA) \in Byte
      /\ UnaryCarryIn(op, "C" \in P) \in BOOLEAN
  BY <1>1, <1>2, UnaryLatches
<1> QED BY <1>3, Zenon DEF ApplyUnary, ALUInputsOK

LEMMA PassThroughType ==
    ASSUME DatapathOK, NEW operand \in Byte, PassThrough(operand)
    PROVE  ALUInputsOK
<1>1. 0 \in Byte
  BY DEF Byte
<1>2. "OR" \in AluFunction
  BY DEF AluFunction
<1> QED BY <1>1, <1>2 DEF PassThrough, ALUInputsOK, DatapathOK, LatchesOK

LEMMA OperandAtType ==
    ASSUME DatapathOK, NEW from, OperandAt(from)
    PROVE  LatchesKept /\ IR' = IR
<1>1. BusTypeOK'
  BY BusReadType DEF OperandAt, DatapathOK
<1>2. BusData(from) \in Byte
  BY BusDataByte DEF DatapathOK
<1>3. ALUInputsOK
  BY <1>2, ApplyBinaryType, ApplyUnaryType, PassThroughType DEF OperandAt, ApplyOperand
<1>4. LatchesOK' /\ IR' = IR
  BY <1>3 DEF OperandAt, ALUInputsOK, DatapathOK, LatchesOK, branch, address
<1> QED BY <1>1, <1>4 DEF LatchesKept

LEMMA IdleType ==
    ASSUME DatapathOK, BusTypeOK', UNCHANGED latches
    PROVE  LatchesKept /\ IR' = IR
  BY DEF latches, DatapathOK, LatchesOK, LatchesKept

(* The operand of a register instruction: which register depends on the    *)
(* operation, and the operation is one of the handler's.                   *)
LEMMA OperandInRegisterType ==
    ASSUME DatapathOK, OperandInRegister
    PROVE  LatchesKept /\ IR' = IR
<1>1. IR \in Byte /\ A \in Byte /\ X \in Byte /\ Y \in Byte /\ SP \in Byte
  BY DEF DatapathOK, RegistersOK
<1>2. ALUInputsOK
  <2>1. CASE Handler[IR] = "ShiftAccumulator" /\ ApplyUnary(Op, A)
    <3>1. Op \in UnaryOp
      BY <1>1, <2>1, OperationNames DEF Op, UnaryOp
    <3> QED BY <1>1, <2>1, <3>1, ApplyUnaryType
  <2>2. CASE ApplyUnary("INC", X) \/ ApplyUnary("INC", Y) \/ ApplyUnary("DEC", X) \/ ApplyUnary("DEC", Y)
    <3>1. "INC" \in UnaryOp /\ "DEC" \in UnaryOp
      BY DEF UnaryOp
    <3> QED BY <1>1, <2>2, <3>1, ApplyUnaryType
  <2>3. CASE Handler[IR] = "ImpliedTransfer" /\ PassThrough(TransferSource)
    <3>1. Op \in {"TAX", "TXA", "TAY", "TYA", "TSX", "TXS"}
      BY <1>1, <2>3, OperationNames DEF Op
    <3>2. TransferSource \in Byte
      BY <1>1, <3>1 DEF TransferSource
    <3> QED BY <2>3, <3>2, PassThroughType
  <2> QED BY <2>1, <2>2, <2>3, Zenon DEF OperandInRegister
<1>3. BusTypeOK'
  BY BusIdleType DEF OperandInRegister, DatapathOK
<1>4. LatchesOK' /\ IR' = IR
  BY <1>2 DEF OperandInRegister, ALUInputsOK, DatapathOK, LatchesOK, branch, address
<1> QED BY <1>3, <1>4 DEF LatchesKept

LEMMA BranchOffsetType ==
    ASSUME DatapathOK, Handler[IR] = "Branch", BranchOffset
    PROVE  LatchesKept /\ IR' = IR
<1>1. BusTypeOK'
  BY BusReadType DEF BranchOffset, DatapathOK
<1>2. Signed(BusData(PC)) \in -128 .. 127
  BY BusDataByte, SignedRange DEF DatapathOK
<1>3. Op \in {"BPL", "BMI", "BVC", "BVS", "BCC", "BCS", "BNE", "BEQ"}
  BY OperationNames DEF Op, DatapathOK
<1>4. BranchCondition \in BOOLEAN
  <2>1. /\ ("N" \in P) \in BOOLEAN /\ ("V" \in P) \in BOOLEAN
        /\ ("C" \in P) \in BOOLEAN /\ ("Z" \in P) \in BOOLEAN
    OBVIOUS
  <2> QED BY <1>3, <2>1 DEF BranchCondition
<1>5. offset' \in -128 .. 127 /\ taken' \in BOOLEAN
  BY <1>2, <1>4, Zenon DEF BranchOffset
<1>6. LatchesOK' /\ IR' = IR
  BY <1>5 DEF BranchOffset, DatapathOK, LatchesOK, address, alu
<1> QED BY <1>1, <1>6 DEF LatchesKept

LEMMA BranchTargetType ==
    ASSUME DatapathOK, BranchTarget
    PROVE  LatchesKept /\ IR' = IR
<1>1. BusTypeOK'
  BY BusIdleType DEF BranchTarget, DatapathOK
<1>2. offset \in Int
  BY DEF DatapathOK, LatchesOK
<1>3. Relative(PC, offset) \in Word
  BY <1>2, Moved DEF DatapathOK, RegistersOK
<1>4. PageCrossed(PC, Relative(PC, offset)) \in BOOLEAN
  BY Zenon DEF PageCrossed
<1>5. LatchesOK' /\ IR' = IR
  BY <1>3, <1>4 DEF BranchTarget, DatapathOK, LatchesOK, branch, alu
<1> QED BY <1>1, <1>5 DEF LatchesKept

LEMMA OpcodeFetchType ==
    ASSUME DatapathOK, OpcodeFetch
    PROVE  LatchesKept /\ IR' \in Byte
<1>1. BusTypeOK'
  BY BusReadType DEF OpcodeFetch, DatapathOK
<1>2. IR' \in Byte
  BY BusDataByte DEF OpcodeFetch, DatapathOK
<1>3. LatchesOK'
  BY DEF OpcodeFetch, DatapathOK, LatchesOK, address, branch, alu
<1> QED BY <1>1, <1>2, <1>3 DEF LatchesKept

(* Every capture; only the fetch loads IR.                                 *)
LEMMA CaptureType ==
    ASSUME DatapathOK, NEW what, Capture(what), what = "branchOffset" => Handler[IR] = "Branch"
    PROVE  LatchesKept /\ IR' \in Byte /\ (what # "opcodeFetch" => IR' = IR)
<1>1. /\ A \in Byte /\ X \in Byte /\ Y \in Byte /\ SP \in Byte /\ PC \in Word
      /\ IR \in Byte /\ BusTypeOK
  BY DEF DatapathOK, RegistersOK
<1>2. CASE Idle \/ DummyRead
  <2>1. BusTypeOK'
    BY <1>1, <1>2, BusIdleType, BusReadType DEF Idle, DummyRead
  <2> QED BY <1>1, <1>2, <2>1, IdleType DEF Idle, DummyRead
<1>3. CASE what = "opcodeFetch" /\ OpcodeFetch
  BY <1>3, OpcodeFetchType
<1>4. CASE FetchLow \/ FetchHigh \/ TargetHigh \/ PullLow \/ PullHigh
  BY <1>1, <1>4, LatchValues, LoadAddrType DEF FetchLow, FetchHigh, TargetHigh, PullLow, PullHigh
<1>5. CASE \E v : VectorLow(v) \/ VectorHigh(v)
  BY <1>1, <1>5, LatchValues, LoadAddrType DEF VectorLow, VectorHigh
<1>6. CASE IndexZeroPage(X) \/ IndexZeroPage(Y)
  BY <1>1, <1>6, IndexType
<1>7. CASE PointerLow \/ PointerHigh \/ PointerHighInPage
  BY <1>1, <1>7, LatchValues, LoadEffType DEF PointerLow, PointerHigh, PointerHighInPage
<1>8. CASE FetchBase(X) \/ FetchBase(Y) \/ PointerBase
  BY <1>1, <1>8, LatchValues, LoadIndexedType DEF FetchBase, PointerBase
<1>9. CASE FetchFixed(X) \/ FetchFixed(Y) \/ PointerFixed
  <2>1. \A base \in Word : Indexed(base, X) \in Word /\ Indexed(base, Y) \in Word
    BY <1>1, ByteIsInt, Moved
  <2> QED BY <1>1, <1>9, <2>1, LatchValues, LoadEffType DEF FetchFixed, PointerFixed
<1>10. CASE OperandAt(PC) \/ OperandAt(addr) \/ OperandAt(eff)
  BY <1>1, <1>10, OperandAtType
<1>11. CASE OperandIfSamePage
  BY <1>1, <1>2, <1>10, <1>11 DEF OperandIfSamePage
<1>12. CASE OperandInRegister
  BY <1>1, <1>12, OperandInRegisterType
<1>13. CASE what = "branchOffset" /\ BranchOffset
  BY <1>1, <1>13, BranchOffsetType
<1>14. CASE BranchTarget
  BY <1>1, <1>14, BranchTargetType
<1> QED
  BY <1>2, <1>3, <1>4, <1>5, <1>6, <1>7, <1>8, <1>9, <1>10, <1>11, <1>12, <1>13, <1>14, Zenon
     DEF Capture

-----------------------------------------------------------------------------
(* The Low edge: every commit leaves registers, flags, memory and latches  *)
(* with values of their widths, and IR alone.                              *)
LEMMA SettledByte ==
    ASSUME DatapathOK
    PROVE  Settled \in Byte
  BY AluValueByte DEF Settled, DatapathOK, LatchesOK

LEMMA StatusKept ==
    ASSUME DatapathOK, NEW raised
    PROVE  /\ SetBits(P, {"Z", "N"}, raised) \subseteq StatusBit
           /\ SetBits(P, {"C", "Z", "N"}, raised) \subseteq StatusBit
           /\ SetBits(P, {"C", "Z", "V", "N"}, raised) \subseteq StatusBit
           /\ SetBits(P, {"Z", "V", "N"}, raised) \subseteq StatusBit
<1>1. P \subseteq StatusBit
  BY DEF DatapathOK, RegistersOK
<1>2. \A changed \in SUBSET StatusBit : SetBits(P, changed, raised) \subseteq StatusBit
  BY <1>1 DEF SetBits
<1>3. /\ {"Z", "N"} \subseteq StatusBit /\ {"C", "Z", "N"} \subseteq StatusBit
      /\ {"C", "Z", "V", "N"} \subseteq StatusBit /\ {"Z", "V", "N"} \subseteq StatusBit
  BY DEF StatusBit
<1> QED BY <1>2, <1>3

(* A commit that leaves the latches alone and keeps the bus is judged by   *)
(* the registers it writes.                                                *)
LEMMA CommitKeeps ==
    ASSUME DatapathOK, UNCHANGED latches, BusTypeOK', RegistersOK'
    PROVE  DatapathOK' /\ IR' = IR
  BY DEF DatapathOK, LatchesOK, latches

LEMMA RegistersAsBytes ==
    ASSUME DatapathOK
    PROVE  /\ A \in Byte /\ X \in Byte /\ Y \in Byte /\ SP \in Byte /\ PC \in Word
           /\ P \subseteq StatusBit /\ IR \in Byte /\ addr \in Word /\ eff \in Word
           /\ BusTypeOK
           /\ LowByte(PC) \in Byte /\ HighByte(PC) \in Byte /\ Next16(PC) \in Word
           /\ LowByte(addr) \in Byte /\ Next16(addr) \in Word
           /\ (SP - 1) % 256 \in Byte /\ (SP + 1) % 256 \in Byte
<1>1. /\ A \in Byte /\ X \in Byte /\ Y \in Byte /\ SP \in Byte /\ PC \in Word
      /\ P \subseteq StatusBit /\ IR \in Byte /\ addr \in Word /\ eff \in Word
      /\ BusTypeOK
  BY DEF DatapathOK, RegistersOK, LatchesOK
<1>2. SP - 1 \in Int /\ SP + 1 \in Int
  BY <1>1, ByteIsInt
<1>3. (SP - 1) % 256 \in Byte /\ (SP + 1) % 256 \in Byte
  BY <1>2, ModByte
<1> QED BY <1>1, <1>3, Halves

LEMMA ResultType ==
    ASSUME DatapathOK, Result, PC' \in Word
    PROVE  DatapathOK' /\ IR' = IR
<1>1. Settled \in Byte
  BY SettledByte
<1>2. A' \in Byte /\ X' \in Byte /\ Y' \in Byte /\ SP' \in Byte
  BY <1>1, RegistersAsBytes DEF Result, BinaryResult, LoadResult
<1>3. CASE BinaryResult
  <2>1. BinaryStatus \subseteq StatusBit
    BY <1>3, StatusKept, Zenon DEF BinaryStatus, BinaryResult, Binary
  <2>2. P' \subseteq StatusBit
    BY <1>3, <2>1 DEF BinaryResult
  <2> QED BY <1>2, <2>2, CommitKeeps, BusIdleType DEF Result, RegistersOK, DatapathOK
<1>4. CASE LoadResult
  <2>1. P' \subseteq StatusBit
    BY <1>4, StatusKept DEF LoadResult
  <2> QED BY <1>2, <2>1, CommitKeeps, BusIdleType DEF Result, RegistersOK, DatapathOK
<1> QED BY <1>3, <1>4 DEF Result

LEMMA UnaryStatusType ==
    ASSUME DatapathOK
    PROVE  UnaryStatus \subseteq StatusBit
  BY StatusKept, Zenon DEF UnaryStatus

LEMMA WriteBackType ==
    ASSUME DatapathOK, NEW to, WriteBack(to)
    PROVE  DatapathOK' /\ IR' = IR
<1>1. BusTypeOK'
  BY SettledByte, BusWriteType DEF WriteBack, DatapathOK
<1>2. RegistersOK'
  BY UnaryStatusType DEF WriteBack, DatapathOK, RegistersOK, accumulators
<1> QED BY <1>1, <1>2, CommitKeeps DEF WriteBack

LEMMA ShiftResultType ==
    ASSUME DatapathOK, ShiftResult
    PROVE  DatapathOK' /\ IR' = IR
<1>1. RegistersOK'
  BY SettledByte, UnaryStatusType DEF ShiftResult, DatapathOK, RegistersOK
<1> QED BY <1>1, CommitKeeps, BusIdleType DEF ShiftResult, DatapathOK

LEMMA IncDecType ==
    ASSUME DatapathOK, IncDecResult
    PROVE  DatapathOK' /\ IR' = IR
<1>1. RegistersOK'
  BY SettledByte, StatusKept DEF IncDecResult, DatapathOK, RegistersOK
<1> QED BY <1>1, CommitKeeps, BusIdleType DEF IncDecResult, DatapathOK

LEMMA TransferType ==
    ASSUME DatapathOK, TransferResult
    PROVE  DatapathOK' /\ IR' = IR
<1>1. RegistersOK'
  BY SettledByte, StatusKept DEF TransferResult, DatapathOK, RegistersOK
<1> QED BY <1>1, CommitKeeps, BusIdleType DEF TransferResult, DatapathOK

LEMMA FlagResultType ==
    ASSUME DatapathOK, FlagResult, Handler[IR] = "ImpliedFlagOp"
    PROVE  DatapathOK' /\ IR' = IR
<1>1. Op \in {"CLC", "SEC", "CLI", "SEI", "CLV", "CLD", "SED"}
  BY OperationNames DEF Op, DatapathOK
<1>2. P \subseteq StatusBit /\ "C" \in StatusBit /\ "I" \in StatusBit /\ "D" \in StatusBit
  BY DEF DatapathOK, RegistersOK, StatusBit
<1>3. FlagStatus \subseteq StatusBit
  BY <1>1, <1>2 DEF FlagStatus
<1>4. RegistersOK'
  BY <1>3 DEF FlagResult, DatapathOK, RegistersOK, accumulators
<1> QED BY <1>4, CommitKeeps, BusIdleType DEF FlagResult, DatapathOK

LEMMA GotoType ==
    ASSUME DatapathOK, NEW target \in Word, Goto(target)
    PROVE  DatapathOK' /\ IR' = IR
<1>1. RegistersOK'
  BY DEF Goto, DatapathOK, RegistersOK, accumulators
<1> QED BY <1>1, CommitKeeps, BusIdleType DEF Goto, DatapathOK

(* A store writes one of the registers.                                    *)
LEMMA StoreType ==
    ASSUME DatapathOK, NEW to, Store(to)
    PROVE  DatapathOK' /\ IR' = IR
<1>1. StoreSource \in Byte
  BY RegistersAsBytes DEF StoreSource
<1>2. BusTypeOK'
  BY <1>1, BusWriteType DEF Store, DatapathOK
<1>3. RegistersOK'
  BY DEF Store, DatapathOK, RegistersOK, registers
<1> QED BY <1>2, <1>3, CommitKeeps DEF Store

(* Moves between the processor and its stack.                              *)
LEMMA StatusWith == \A p \in SUBSET StatusBit :
    p \cup {"B"} \subseteq StatusBit /\ p \cup {"I"} \subseteq StatusBit /\ p \cup {"B", "I"} \subseteq StatusBit
  BY DEF StatusBit

LEMMA PushType ==
    ASSUME DatapathOK, NEW byte \in Byte, Push(byte), P' \subseteq StatusBit,
           UNCHANGED <<A, X, Y, PC, latches>>
    PROVE  DatapathOK' /\ IR' = IR
<1>1. BusTypeOK'
  BY BusWriteType DEF Push, DatapathOK
<1>2. RegistersOK'
  BY RegistersAsBytes DEF Push, RegistersOK
<1> QED BY <1>1, <1>2, CommitKeeps

LEMMA PushesType ==
    ASSUME DatapathOK,
           PushPC(HighByte(PC)) \/ PushPC(LowByte(PC)) \/ PushStatus \/ PushRegister
    PROVE  DatapathOK' /\ IR' = IR
<1>1. P \in SUBSET StatusBit
  BY RegistersAsBytes
<1>2. CASE PushPC(HighByte(PC)) \/ PushPC(LowByte(PC))
  BY <1>1, <1>2, RegistersAsBytes, PushType DEF PushPC, accumulators
<1>3. CASE PushStatus
  BY <1>1, <1>3, StatusIsByte, StatusWith, PushType DEF PushStatus, accumulators
<1>4. CASE PushRegister
  <2>1. P' \subseteq StatusBit
    BY <1>1, <1>4, StatusWith DEF PushRegister
  <2> QED BY <1>4, <2>1, RegistersAsBytes, StatusIsByte, PushType DEF PushRegister, accumulators
<1> QED BY <1>2, <1>3, <1>4

LEMMA PullsType ==
    ASSUME DatapathOK, IncrementSP \/ PullRegister \/ PullStatus
    PROVE  DatapathOK' /\ IR' = IR
<1>1. \A d : StatusOf(d) \subseteq StatusBit
  BY DEF StatusOf
<1>2. CASE IncrementSP
  <2>1. RegistersOK'
    BY <1>2, RegistersAsBytes DEF IncrementSP, PopSP, RegistersOK, accumulators
  <2> QED BY <1>2, <2>1, CommitKeeps, BusIdleType DEF IncrementSP, DatapathOK
<1>3. CASE PullRegister
  <2>1. A' \in Byte /\ P' \subseteq StatusBit
    BY <1>1, <1>3, RegistersAsBytes, StatusKept DEF PullRegister
  <2>2. RegistersOK'
    BY <1>3, <2>1, RegistersAsBytes DEF PullRegister, RegistersOK
  <2> QED BY <1>3, <2>2, CommitKeeps, BusIdleType DEF PullRegister, DatapathOK
<1>4. CASE PullStatus
  <2>1. RegistersOK'
    BY <1>1, <1>4, RegistersAsBytes DEF PullStatus, PopSP, RegistersOK, accumulators
  <2> QED BY <1>4, <2>1, CommitKeeps, BusReadType DEF PullStatus, DatapathOK
<1> QED BY <1>2, <1>3, <1>4

(* RTI pulls the return address into the address latch.                    *)
LEMMA PullPCType ==
    ASSUME DatapathOK, PullPCL \/ PullPCH
    PROVE  DatapathOK' /\ IR' = IR
<1>1. BusTypeOK'
  BY BusReadType DEF PullPCL, PullPCH, DatapathOK
<1>2. BusData(Stack) \in Word /\ OrHigh(addr, BusData(Stack)) \in Word
  BY LatchValues
<1>3. LatchesOK' /\ IR' = IR
  BY <1>2 DEF PullPCL, PullPCH, DatapathOK, LatchesOK, branch, alu
<1>4. RegistersOK'
  BY <1>2, RegistersAsBytes DEF PullPCL, PullPCH, PopSP, RegistersOK, accumulators
<1> QED BY <1>1, <1>3, <1>4 DEF DatapathOK

LEMMA ResetCommitsType ==
    ASSUME DatapathOK,
           ClearHalted \/ ResetJump \/ JumpHalt \/ PhantomPush(P) \/ PhantomPush(P \cup {"I"})
    PROVE  DatapathOK' /\ IR' = IR
<1>1. P \in SUBSET StatusBit
  BY RegistersAsBytes
<1>2. RegistersOK'
  BY <1>1, RegistersAsBytes, StatusWith
     DEF ClearHalted, ResetJump, JumpHalt, PhantomPush, RegistersOK, registers, accumulators
<1> QED
  BY <1>2, CommitKeeps, BusIdleType DEF ClearHalted, ResetJump, JumpHalt, PhantomPush, DatapathOK

LEMMA StepsType ==
    ASSUME DatapathOK, StepPC \/ StepOnly \/ Done \/ BranchDecide
    PROVE  DatapathOK' /\ IR' = IR
<1>1. RegistersOK'
  BY RegistersAsBytes DEF StepPC, StepOnly, Done, BranchDecide, RegistersOK, registers, accumulators
<1> QED BY <1>1, CommitKeeps, BusIdleType DEF StepPC, StepOnly, Done, BranchDecide, DatapathOK

LEMMA CommitType ==
    ASSUME DatapathOK, NEW what, Commit(what), what = "flagResult" => Handler[IR] = "ImpliedFlagOp"
    PROVE  DatapathOK' /\ IR' = IR
<1>1. CASE StepPC \/ StepOnly \/ Done \/ BranchDecide
  BY <1>1, StepsType
<1>2. CASE ResultPC \/ ResultAlone
  <2>1. PC' \in Word
    BY <1>2, RegistersAsBytes DEF ResultPC, ResultAlone
  <2> QED BY <1>2, <2>1, ResultType DEF ResultPC, ResultAlone
<1>3. CASE ResultIfSamePage
  BY <1>1, <1>2, <1>3 DEF ResultIfSamePage
<1>4. CASE WriteBack(addr) \/ WriteBack(eff)
  BY <1>4, WriteBackType
<1>5. CASE ShiftResult \/ IncDecResult \/ TransferResult
  BY <1>5, ShiftResultType, IncDecType, TransferType
<1>6. CASE what = "flagResult" /\ FlagResult
  BY <1>6, FlagResultType
<1>7. CASE Store(addr) \/ Store(eff)
  BY <1>7, StoreType
<1>8. CASE Goto(addr) \/ Goto(eff) \/ Goto(Next16(addr))
  BY <1>8, GotoType, RegistersAsBytes
<1>9. CASE BranchIfSamePage
  BY <1>1, <1>8, <1>9 DEF BranchIfSamePage
<1>10. CASE PushPC(HighByte(PC)) \/ PushPC(LowByte(PC)) \/ PushStatus \/ PushRegister
  BY <1>10, PushesType
<1>11. CASE IncrementSP \/ PullRegister \/ PullStatus
  BY <1>11, PullsType
<1>12. CASE PullPCL \/ PullPCH
  BY <1>12, PullPCType
<1>13. CASE ClearHalted \/ ResetJump \/ JumpHalt \/ PhantomPush(P) \/ PhantomPush(P \cup {"I"})
  BY <1>13, ResetCommitsType
<1> QED
  BY <1>1, <1>2, <1>3, <1>4, <1>5, <1>6, <1>7, <1>8, <1>9, <1>10, <1>11, <1>12, <1>13, Zenon
     DEF Commit

(* Where a commit leaves the T-state: back at T0, or one further on, and   *)
(* then it was not a finishing one.  Only the end of the reset sequence    *)
(* clears m_resetActive.                                                   *)
LEMMA CommitSteps ==
    ASSUME halted \in BOOLEAN, resetActive \in BOOLEAN, NEW what, Commit(what)
    PROVE  /\ \/ step' = 0
              \/ step' = step + 1 /\ what \notin Finishing \cup {"resetJump"}
           /\ halted' \in BOOLEAN
           /\ resetActive' = resetActive \/ (resetActive' = FALSE /\ step' = 0)
<1> USE DEF Commit, StepPC, StepOnly, ResultPC, ResultAlone, ResultIfSamePage, Result,
            WriteBack, ShiftResult, IncDecResult, TransferResult, FlagResult, Done, Store,
            Goto, BranchDecide, BranchIfSamePage, PushPC, PushStatus, PushRegister,
            IncrementSP, PullRegister, PullStatus, PullPCL, PullPCH, JumpHalt,
            ClearHalted, PhantomPush, ResetJump, Advance, Finish
<1>1. halted' \in BOOLEAN
  BY Zenon
<1>2. resetActive' = resetActive \/ (resetActive' = FALSE /\ step' = 0)
  BY Zenon
<1>3. step' = 0 \/ (step' = step + 1 /\ what \notin Finishing \cup {"resetJump"})
  BY DEF Finishing
<1> QED BY <1>1, <1>2, <1>3

-----------------------------------------------------------------------------
(* The invariant.                                                          *)
RunCounts == call = "run" => left > 0

IInv == DatapathOK /\ ControlOK /\ WithinHandler /\ HaltStopsRun /\ RunCounts

LEMMA InitIInv == Init => IInv
<1> SUFFICES ASSUME Init PROVE IInv
  OBVIOUS
<1>1. 0 \in Byte /\ 0 \in -128 .. 127
  BY DEF Byte
<1>2. 0 \in Word
  BY <1>1, ByteInWord
<1>3. RegistersOK
  BY CpuAssumption DEF Init, RegistersOK
<1>4. LatchesOK
  BY <1>1, <1>2 DEF Init, LatchesOK, AluFunction
<1>5. BusTypeOK
  <2>1. mem \in Memory /\ rxReady \in BOOLEAN /\ motor \in BOOLEAN /\ tape \in Seq(Byte)
    BY CpuAssumption, Zenon DEF Init
  <2>2. out \in Seq(TtyByte) /\ rxByte \in TtyByte /\ pos \in Nat
    BY <1>1, TtyByteIsByte DEF Init
  <2>3. eot \in BOOLEAN /\ err \in BOOLEAN
    BY Zenon DEF Init
  <2> QED BY <2>1, <2>2, <2>3, TtyByteIsByte, Zenon DEF BusTypeOK, TtyTypeOK
<1>6. DatapathOK
  BY <1>1, <1>3, <1>4, <1>5 DEF DatapathOK, Init
<1>7. ControlOK
  <2>1. step \in 0 .. 6 /\ left \in Nat /\ calls \in Nat
    BY DEF Init
  <2>2. phase \in Phases /\ call \in HostCall \cup {"none"}
    BY DEF Init, Phases
  <2>3. halted \in BOOLEAN /\ resetActive \in BOOLEAN
    BY Zenon DEF Init
  <2> QED BY <2>1, <2>2, <2>3 DEF ControlOK
<1>8. WithinHandler /\ HaltStopsRun /\ RunCounts
  BY DEF Init, WithinHandler, HaltStopsRun, RunCounts
<1> QED BY <1>6, <1>7, <1>8 DEF IInv

(* A High edge.                                                            *)
LEMMA HighEdge ==
    ASSUME IInv, OnClockHigh
    PROVE  DatapathOK' /\ WithinHandler' /\ UNCHANGED <<step, halted, resetActive>>
<1>1. DatapathOK /\ IR \in Byte /\ step \in 0 .. 6
  BY DEF IInv, DatapathOK, ControlOK
<1>2. OnlyWhere(Handler[IR], Microprogram[IR])
  BY <1>1, MicroprogramClosed
<1>3. CaptureNow = "branchOffset" => Handler[IR] = "Branch"
  <2>1. resetActive => step + 1 \in 1 .. 7
    BY <1>1
  <2> QED BY <1>2, <2>1, ResetRow DEF CaptureNow, OnlyWhere
<1>4. ~resetActive /\ step # 0 => CaptureNow # "opcodeFetch"
  BY <1>2 DEF CaptureNow, OnlyWhere
<1>5. LatchesKept /\ IR' \in Byte /\ (CaptureNow # "opcodeFetch" => IR' = IR)
  BY <1>1, <1>3, CaptureType DEF OnClockHigh
<1>6. UNCHANGED <<registers, step, halted, resetActive>>
  BY DEF OnClockHigh
<1>7. RegistersOK'
  BY <1>1, <1>6 DEF registers, RegistersOK, DatapathOK
<1>8. WithinHandler'
  BY <1>4, <1>5, <1>6 DEF WithinHandler, IInv
<1> QED BY <1>5, <1>6, <1>7, <1>8 DEF LatchesKept, DatapathOK

(* A Low edge.  The T-state moves along the row or back to T0.             *)
LEMMA LowEdge ==
    ASSUME IInv, OnClockLow
    PROVE  /\ DatapathOK' /\ WithinHandler'
           /\ step' \in 0 .. 6 /\ halted' \in BOOLEAN /\ resetActive' \in BOOLEAN
<1>1. /\ DatapathOK /\ IR \in Byte /\ WithinHandler
      /\ step \in 0 .. 6 /\ halted \in BOOLEAN /\ resetActive \in BOOLEAN
  BY DEF IInv, DatapathOK, ControlOK
<1>2. Closed(Microprogram[IR]) /\ OnlyWhere(Handler[IR], Microprogram[IR])
  BY <1>1, MicroprogramClosed
<1>3. Commit(CommitNow)
  BY <1>1 DEF OnClockLow
<1>4. CommitNow = "flagResult" => Handler[IR] = "ImpliedFlagOp"
  BY <1>1, <1>2, ResetRow DEF CommitNow, WithinHandler, OnlyWhere
<1>5. DatapathOK' /\ IR' = IR
  BY <1>1, <1>3, <1>4, CommitType
<1>6. /\ step' = 0 \/ (step' = step + 1 /\ CommitNow \notin Finishing \cup {"resetJump"})
      /\ halted' \in BOOLEAN
      /\ resetActive' = resetActive \/ (resetActive' = FALSE /\ step' = 0)
  BY <1>1, <1>3, CommitSteps
<1>7. resetActive' \in BOOLEAN
  BY <1>1, <1>6, Zenon
<1>8. CASE step' = 0
  BY <1>5, <1>6, <1>7, <1>8 DEF WithinHandler
<1>9. CASE step' = step + 1 /\ CommitNow \notin Finishing \cup {"resetJump"} /\ resetActive
  <2>1. step # 6
    BY <1>9, ResetRow DEF CommitNow
  <2>2. step' \in 0 .. 6
    BY <1>1, <1>9, <2>1
  <2>3. WithinHandler'
    BY <1>1, <1>6, <1>9 DEF WithinHandler
  <2> QED BY <1>5, <1>6, <1>7, <2>2, <2>3
<1>10. CASE step' = step + 1 /\ CommitNow \notin Finishing \cup {"resetJump"} /\ ~resetActive
  <2>1. step + 1 \in DOMAIN Microprogram[IR].commit
    <3>1. CASE step = 0
      BY <1>2, <3>1 DEF Closed
    <3>2. CASE step # 0
      BY <1>1, <1>2, <1>10, <3>2 DEF Closed, CommitNow, WithinHandler
    <3> QED BY <3>1, <3>2
  <2>2. step' \in 0 .. 6
    BY <1>2, <1>10, <2>1 DEF Closed
  <2>3. WithinHandler'
    BY <1>5, <1>10, <2>1 DEF WithinHandler
  <2> QED BY <1>5, <1>6, <1>7, <2>2, <2>3
<1> QED BY <1>6, <1>8, <1>9, <1>10

(* One tick.                                                               *)
LEMMA ClockEdge ==
    ASSUME IInv, Clock
    PROVE  /\ DatapathOK' /\ WithinHandler'
           /\ step' \in 0 .. 6 /\ phase' \in Phases
           /\ halted' \in BOOLEAN /\ resetActive' \in BOOLEAN
<1>1. /\ DatapathOK /\ WithinHandler /\ step \in 0 .. 6 /\ phase \in Phases
      /\ halted \in BOOLEAN /\ resetActive \in BOOLEAN
  BY DEF IInv, ControlOK
<1>2. phase' \in Phases
  BY <1>1 DEF Clock, NextPhase, Phases
<1>3. CASE OnClockHigh
  BY <1>1, <1>2, <1>3, HighEdge
<1>4. CASE OnClockLow
  BY <1>2, <1>4, LowEdge
<1>5. CASE Settle
  <2>1. BusTypeOK'
    BY <1>1, <1>5, BusIdleType DEF Settle, BusIdle, DatapathOK
  <2>2. DatapathOK' /\ IR' = IR
    BY <1>1, <1>5, <2>1 DEF Settle, registers, latches, DatapathOK, RegistersOK, LatchesOK
  <2>3. WithinHandler'
    BY <1>1, <1>5, <2>2 DEF Settle, WithinHandler
  <2> QED BY <1>1, <1>2, <1>5, <2>2, <2>3 DEF Settle
<1> QED BY <1>3, <1>4, <1>5 DEF Clock

LEMMA TickKeeps ==
    ASSUME IInv, Tick
    PROVE  IInv'
<1>1. ControlOK
  BY DEF IInv
<1>2. /\ DatapathOK' /\ WithinHandler'
      /\ step' \in 0 .. 6 /\ phase' \in Phases
      /\ halted' \in BOOLEAN /\ resetActive' \in BOOLEAN
  BY ClockEdge DEF Tick
<1>3. call' \in HostCall \cup {"none"} /\ calls' \in Nat
  BY <1>1 DEF Tick, ControlOK
<1>4. left \in Nat /\ (call = "run" => left > 0)
  BY <1>1 DEF ControlOK, IInv, RunCounts
<1>5. left' \in Nat
  BY <1>4 DEF Tick
<1>6. ASSUME call' = "run"
      PROVE  left' > 0 /\ (AtBoundary' => ~halted')
  <2>1. call = "run" /\ ~Returned
    BY <1>6 DEF Tick, Returned
  <2>2. AtBoundary' => left # 1 /\ ~halted'
    BY <2>1 DEF Returned
  <2> QED BY <1>4, <2>1, <2>2 DEF Tick
<1>7. HaltStopsRun' /\ RunCounts'
  BY <1>6 DEF HaltStopsRun, RunCounts
<1>8. ControlOK'
  BY <1>2, <1>3, <1>5 DEF ControlOK
<1> QED BY <1>2, <1>7, <1>8 DEF IInv

(* The entry of each host call.                                            *)
LEMMA CallKeeps ==
    ASSUME IInv, StartCall, call' \in HostCall \cup {"none"}, left' \in Nat,
           UNCHANGED <<step, resetActive>> \/ ArmReset,
           call' = "run" => left' > 0 /\ ~halted,
           RegistersOK'
    PROVE  IInv'
<1>1. DatapathOK /\ ControlOK /\ WithinHandler
  BY DEF IInv
<1>2. BusTypeOK'
  BY <1>1, BusIdleType DEF StartCall, BusIdle, DatapathOK
<1>3. DatapathOK' /\ IR' = IR
  BY <1>1, <1>2 DEF StartCall, latches, DatapathOK, LatchesOK
<1>4. step' \in 0 .. 6 /\ resetActive' \in BOOLEAN
  <2>1. CASE UNCHANGED <<step, resetActive>>
    BY <1>1, <2>1 DEF ControlOK
  <2>2. CASE ArmReset
    BY <2>2 DEF ArmReset
  <2> QED BY <2>1, <2>2
<1>5. WithinHandler'
  BY <1>1, <1>3 DEF ArmReset, WithinHandler
<1>6. calls' \in Nat
  BY <1>1 DEF StartCall, ControlOK
<1>7. ControlOK'
  BY <1>1, <1>4, <1>6 DEF StartCall, ControlOK
<1>8. HaltStopsRun' /\ RunCounts'
  BY DEF StartCall, HaltStopsRun, RunCounts
<1> QED BY <1>3, <1>5, <1>7, <1>8 DEF IInv

LEMMA RegistersKept ==
    ASSUME IInv, UNCHANGED registers
    PROVE  RegistersOK'
<1>1. RegistersOK
  BY DEF IInv, DatapathOK
<1> QED BY <1>1 DEF registers, RegistersOK

LEMMA NextKeeps ==
    ASSUME IInv, [Next]_vars
    PROVE  IInv'
<1>1. CASE Tick
  BY <1>1, TickKeeps
<1>2. ASSUME NEW c \in HostCall, CallTick(c)
      PROVE  IInv'
  <2>1. c \in HostCall \cup {"none"} /\ c # "run"
    BY <1>2 DEF CallTick
  <2>2. left' \in Nat
    BY <1>2 DEF CallTick, IInv, ControlOK
  <2>3. RegistersOK'
    BY <1>2, RegistersKept DEF CallTick
  <2> QED BY <1>2, <2>1, <2>2, <2>3, CallKeeps DEF CallTick
<1>3. ASSUME NEW c \in HostCall, CallReset(c)
      PROVE  IInv'
  <2>1. call' \in HostCall \cup {"none"} /\ call' # "run"
    BY <1>3 DEF CallReset, HostCall
  <2>2. left' \in Nat
    BY <1>3 DEF CallReset, IInv, ControlOK
  <2>3. RegistersOK'
    BY <1>3, RegistersKept DEF CallReset
  <2> QED BY <1>3, <2>1, <2>2, <2>3, CallKeeps DEF CallReset
<1>4. ASSUME NEW max \in RunLengths, CallRun(max)
      PROVE  IInv'
  <2>1. max \in Nat
    BY CpuAssumption
  <2>2. call' \in HostCall \cup {"none"}
    BY <1>4 DEF CallRun, HostCall
  <2>3. left' \in Nat
    BY <1>4, <2>1 DEF CallRun
  <2>4. call' = "run" => left' > 0 /\ ~halted
    BY <1>4, <2>1 DEF CallRun
  <2>5. RegistersOK'
    BY <1>4, RegistersKept DEF CallRun
  <2> QED BY <1>4, <2>2, <2>3, <2>4, <2>5, CallKeeps DEF CallRun
<1>5. CASE CallSet
  <2>1. RegistersOK /\ left \in Nat
    BY DEF IInv, DatapathOK, ControlOK
  <2>2. call = "none" /\ call' = "none" /\ left' \in Nat
    BY <1>5, <2>1 DEF CallSet, StartCall
  <2>3. RegistersOK'
    BY <1>5, <2>1, CpuAssumption DEF CallSet, RegistersOK
  <2> QED BY <1>5, <2>2, <2>3, CallKeeps DEF CallSet
<1>6. CASE UNCHANGED vars
  <2>1. DatapathOK /\ ControlOK /\ WithinHandler /\ HaltStopsRun /\ RunCounts
    BY DEF IInv
  <2>2. BusTypeOK'
    BY <1>6, <2>1, BusIdleType DEF vars, BusIdle, DatapathOK
  <2>3. DatapathOK' /\ IR' = IR
    BY <1>6, <2>1, <2>2 DEF vars, registers, latches, DatapathOK, RegistersOK, LatchesOK
  <2>4. ControlOK'
    BY <1>6, <2>1 DEF vars, host, ControlOK
  <2>5. WithinHandler' /\ HaltStopsRun' /\ RunCounts'
    BY <1>6, <2>1, <2>3 DEF vars, host, WithinHandler, HaltStopsRun, RunCounts, AtBoundary
  <2> QED BY <2>3, <2>4, <2>5 DEF IInv
<1> QED BY <1>1, <1>2, <1>3, <1>4, <1>5, <1>6 DEF Next

LEMMA IInvHolds == Spec => []IInv
<1>1. IInv /\ [Next]_vars => IInv'
  BY NextKeeps
<1> QED BY <1>1, InitIInv, PTL DEF Spec

-----------------------------------------------------------------------------
(* The reset sequence.  It may be armed anywhere, so its invariant         *)
(* compares every T-state with the moment of arming.                       *)

LEMMA TracedMachine ==
    /\ TraceInit => Init
    /\ [TraceNext]_traceVars => [Next]_vars
<1>1. HostCall = {"tick", "runToClockHigh", "beginReset", "reset", "executeInstruction", "run"}
  BY DEF HostCall
<1> QED
  BY Zenon DEF TraceInit, TraceNext, TraceTick, TraceReset, TraceCall, Next, traceVars

(* What happens to the bus in the sequence never shows in memory or on the *)
(* output, and the vector reads the same until the jump, also when it lies *)
(* in the device's page.                                                   *)
Vectors == {ResetVector, ResetVector + 1}

VectorInDevice == \A v \in Vectors : v \in TtyPage => ~(v - TtyBase <= TapeData)

LEMMA VectorsAreSilent == VectorInDevice
<1>1. TtyBase \in Int /\ TtyBase + 255 <= 65535
  BY MapAssumption, WordRange
<1>2. \A v \in Vectors : v \in Int /\ v >= 65532
  BY DEF Vectors, ResetVector
<1> QED BY <1>1, <1>2 DEF VectorInDevice, TapeData

LEMMA VectorSteady ==
    ASSUME NEW v \in Vectors, UNCHANGED mem
    PROVE  BusData(v)' = BusData(v)
<1>1. v \in TtyPage => ~(v - TtyBase <= TapeData)
  BY VectorsAreSilent DEF VectorInDevice
<1>2. v \in TtyPage => ~(v - TtyBase <= SerialData)
  <2>1. v \in TtyPage => v - TtyBase \in Nat
    BY InTtyPage
  <2> QED BY <1>1, <2>1 DEF TapeData, SerialData
<1>3. v \in TtyPage => ReadValue(v - TtyBase) = 0 /\ ReadValue(v - TtyBase)' = 0
  BY <1>1, <1>2, Zenon DEF ReadValue
<1> QED BY <1>3 DEF BusData

LEMMA ReadIsSilent ==
    ASSUME NEW a, BusRead(a)
    PROVE  UNCHANGED <<mem, out>>
<1>1. UNCHANGED mem
  BY DEF BusRead
<1>2. CASE a \in TtyPage
  <2>1. TtyRead(a - TtyBase)
    BY <1>2 DEF BusRead
  <2> QED BY <1>1, <2>1 DEF TtyRead, ReadSerialData, ReadTapeData, serial, ttyVars
<1>3. CASE a \notin TtyPage
  BY <1>1, <1>3 DEF BusRead, ttyVars
<1> QED BY <1>2, <1>3

(* The captures and the commits of the sequence, T-state by T-state.       *)
LEMMA ResetCaptures ==
    ASSUME resetActive, step \in 0 .. 6, OnClockHigh
    PROVE  /\ step \in {0, 1} => DummyRead
           /\ step \in {2, 3, 4} => Idle
           /\ step = 5 => VectorLow(ResetVector)
           /\ step = 6 => VectorHigh(ResetVector)
<1>1. Capture(Reset.capture[step + 1])
  BY DEF OnClockHigh, CaptureNow
<1>2. CASE step \in {0, 1}
  <2>1. Capture("dummyRead")
    BY <1>1, <1>2, ResetRow
  <2> QED BY <1>2, <2>1 DEF Capture
<1>3. CASE step \in {2, 3, 4}
  <2>1. Capture("idle")
    BY <1>1, <1>3, ResetRow
  <2> QED BY <1>3, <2>1 DEF Capture
<1>4. CASE step = 5
  <2>1. Capture("resetLow")
    BY <1>1, <1>4, ResetRow
  <2> QED BY <1>4, <2>1 DEF Capture
<1>5. CASE step = 6
  <2>1. Capture("resetHigh")
    BY <1>1, <1>5, ResetRow
  <2> QED BY <1>5, <2>1 DEF Capture
<1> QED BY <1>2, <1>3, <1>4, <1>5

LEMMA ResetCommits ==
    ASSUME resetActive, step \in 0 .. 6, OnClockLow
    PROVE  /\ step = 0 => ClearHalted
           /\ step \in {1, 5} => StepOnly
           /\ step \in {2, 3} => PhantomPush(P)
           /\ step = 4 => PhantomPush(P \cup {"I"})
           /\ step = 6 => ResetJump
<1>1. Commit(Reset.commit[step + 1])
  BY DEF OnClockLow, CommitNow, WithinHandler
<1>2. CASE step = 0
  <2>1. Commit("clearHalted")
    BY <1>1, <1>2, ResetRow
  <2> QED BY <1>2, <2>1 DEF Commit
<1>3. CASE step \in {1, 5}
  <2>1. Commit("next")
    BY <1>1, <1>3, ResetRow
  <2> QED BY <1>3, <2>1 DEF Commit
<1>4. CASE step \in {2, 3}
  <2>1. Commit("decrementSP")
    BY <1>1, <1>4, ResetRow
  <2> QED BY <1>4, <2>1 DEF Commit
<1>5. CASE step = 4
  <2>1. Commit("decrementSPMask")
    BY <1>1, <1>5, ResetRow
  <2> QED BY <1>5, <2>1 DEF Commit
<1>6. CASE step = 6
  <2>1. Commit("resetJump")
    BY <1>1, <1>6, ResetRow
  <2> QED BY <1>6, <2>1 DEF Commit
<1> QED BY <1>2, <1>3, <1>4, <1>5, <1>6

(* The invariant: what has become of the state at arming, and what the     *)
(* address latch holds of the vector.                                      *)
Pushes == IF step <= 2 THEN 0 ELSE IF step = 3 THEN 1 ELSE IF step = 4 THEN 2 ELSE 3

AsArmed ==
    /\ A = armed.A /\ X = armed.X /\ Y = armed.Y /\ mem = armed.mem /\ out = armed.out

Masked == P = IF step <= 4 THEN armed.P ELSE armed.P \cup {"I"}

Lowered == SP = (armed.SP - Pushes) % 256 /\ armed.SP \in Byte

Captured == phase \in {"High", "HighToLow"}

LowLatched ==
    (step = 5 /\ Captured) \/ (step = 6 /\ ~Captured) => addr = BusData(ResetVector)
VectorLatched ==
    step = 6 /\ Captured => addr = BusData(ResetVector) + 256 * BusData(ResetVector + 1)

Resetting ==
    resetActive =>
        /\ AsArmed /\ Masked /\ Lowered
        /\ step > 0 => ~halted
        /\ LowLatched /\ VectorLatched

(* Everything the invariant looks at besides the T-state, the phase and    *)
(* the latch.                                                              *)
Still == UNCHANGED <<A, X, Y, SP, P, mem, out, halted, armed>>

LEMMA VectorsSteady ==
    ASSUME UNCHANGED mem
    PROVE  /\ BusData(ResetVector)' = BusData(ResetVector)
           /\ BusData(ResetVector + 1)' = BusData(ResetVector + 1)
<1>1. ResetVector \in Vectors /\ ResetVector + 1 \in Vectors
  BY DEF Vectors
<1>2. (ResetVector)' = ResetVector /\ (ResetVector + 1)' = ResetVector + 1
  BY DEF ResetVector
<1> QED BY <1>1, <1>2, VectorSteady

(* A step that captures or commits nothing of the sequence.                *)
LEMMA StillKeeps ==
    ASSUME Resetting, Still, UNCHANGED <<step, addr, resetActive>>, Captured' = Captured
    PROVE  Resetting'
<1>1. UNCHANGED mem
  BY DEF Still
<1>2. /\ BusData(ResetVector)' = BusData(ResetVector)
      /\ BusData(ResetVector + 1)' = BusData(ResetVector + 1)
  BY <1>1, VectorsSteady
<1>3. AsArmed' = AsArmed /\ Masked' = Masked /\ Lowered' = Lowered
  BY DEF Still, AsArmed, Masked, Lowered, Pushes
<1>4. LowLatched' = LowLatched /\ VectorLatched' = VectorLatched
  BY <1>2 DEF LowLatched, VectorLatched
<1> QED BY <1>3, <1>4 DEF Resetting, Still

(* The High edge: only the address latch moves, and only at T5 and T6.     *)
LEMMA CaptureKeeps ==
    ASSUME Resetting, DatapathOK, resetActive, step \in 0 .. 6, OnClockHigh,
           ~Captured, Captured', UNCHANGED armed
    PROVE  Resetting'
<1>1. UNCHANGED <<registers, step, halted, resetActive>>
  BY DEF OnClockHigh
<1>2. DummyRead \/ Idle \/ VectorLow(ResetVector) \/ VectorHigh(ResetVector)
  BY ResetCaptures
<1>3. UNCHANGED <<mem, out>>
  BY <1>2, ReadIsSilent
     DEF DummyRead, Idle, BusIdle, busVars, serial, VectorLow, VectorHigh, LoadAddr
<1>4. Still
  BY <1>1, <1>3 DEF registers, Still
<1>5. AsArmed' = AsArmed /\ Masked' = Masked /\ Lowered' = Lowered
  BY <1>1, <1>4 DEF Still, AsArmed, Masked, Lowered, Pushes
<1>6. /\ BusData(ResetVector)' = BusData(ResetVector)
      /\ BusData(ResetVector + 1)' = BusData(ResetVector + 1)
  BY <1>3, VectorsSteady
<1>7. step = 5 => addr' = BusData(ResetVector)
  BY ResetCaptures DEF VectorLow, LoadAddr
<1>8. step = 6 => addr' = BusData(ResetVector) + 256 * BusData(ResetVector + 1)
  <2>1. SUFFICES ASSUME step = 6
                 PROVE  addr' = BusData(ResetVector) + 256 * BusData(ResetVector + 1)
    OBVIOUS
  <2>2. addr = BusData(ResetVector)
    BY <2>1 DEF Resetting, LowLatched
  <2>3. addr' = OrHigh(addr, BusData(ResetVector + 1))
    BY <2>1, ResetCaptures DEF VectorHigh, LoadAddr
  <2>4. BusData(ResetVector) \in Byte /\ BusData(ResetVector + 1) \in Byte
    BY BusDataByte DEF DatapathOK
  <2> QED BY <2>2, <2>3, <2>4, JoinedHalves
<1>9. LowLatched' /\ VectorLatched'
  BY <1>1, <1>6, <1>7, <1>8 DEF LowLatched, VectorLatched
<1> QED BY <1>1, <1>5, <1>9 DEF Resetting

(* Lowering SP once more, within page 1.                                   *)
LEMMA LowerAgain ==
    ASSUME NEW v \in Int
    PROVE  ((v % 256) - 1) % 256 = (v - 1) % 256
  OBVIOUS

LEMMA LowersOnce ==
    ASSUME Lowered, step \in {2, 3, 4}, SP' = (SP - 1) % 256, step' = step + 1, UNCHANGED armed
    PROVE  Lowered'
<1> DEFINE v == armed.SP - Pushes
<1>1. v \in Int /\ SP = v % 256 /\ armed.SP \in Byte
  BY ByteIsInt DEF Lowered, Pushes
<1>2. armed.SP - Pushes' = v - 1
  BY <1>1 DEF Pushes, Byte
<1>3. ((v % 256) - 1) % 256 = (v - 1) % 256
  BY <1>1, LowerAgain
<1> QED BY <1>1, <1>2, <1>3 DEF Lowered

(* The Low edge, up to the jump.                                           *)
LEMMA CommitResets ==
    ASSUME Resetting, resetActive, resetActive', step \in 0 .. 6, OnClockLow,
           Captured, ~Captured', UNCHANGED armed
    PROVE  Resetting'
<1>1. step # 6
  BY ResetCommits DEF ResetJump
<1>2. ClearHalted \/ StepOnly \/ PhantomPush(P) \/ PhantomPush(P \cup {"I"})
  BY <1>1, ResetCommits
<1>3. UNCHANGED <<A, X, Y, mem, out, addr, armed>>
  BY <1>2 DEF ClearHalted, StepOnly, PhantomPush, BusIdle, busVars, serial, registers,
              accumulators, latches
<1>4. step' = step + 1
  BY <1>2 DEF ClearHalted, StepOnly, PhantomPush, Advance
<1>5. AsArmed'
  BY <1>3 DEF Resetting, AsArmed
<1>6. ~halted'
  <2>1. CASE step = 0
    BY <2>1, ResetCommits DEF ClearHalted
  <2>2. CASE step > 0
    BY <1>1, <2>2, ResetCommits DEF Resetting, StepOnly, PhantomPush, Advance
  <2> QED BY <2>1, <2>2
<1>7. Masked'
  <2>1. Masked
    BY DEF Resetting
  <2>2. CASE step \in {0, 1, 5}
    <3>1. P' = P
      BY <2>2, ResetCommits DEF ClearHalted, StepOnly, registers
    <3> QED BY <1>3, <1>4, <2>1, <2>2, <3>1 DEF Masked
  <2>3. CASE step \in {2, 3}
    BY <1>3, <1>4, <2>1, <2>3, ResetCommits DEF Masked, PhantomPush
  <2>4. CASE step = 4
    BY <1>3, <1>4, <2>1, <2>4, ResetCommits DEF Masked, PhantomPush
  <2> QED BY <1>1, <2>2, <2>3, <2>4
<1>8. Lowered'
  <2>1. Lowered
    BY DEF Resetting
  <2>2. CASE step \in {0, 1, 5}
    <3>1. SP' = SP
      BY <2>2, ResetCommits DEF ClearHalted, StepOnly, registers
    <3> QED BY <1>3, <1>4, <2>1, <2>2, <3>1 DEF Lowered, Pushes
  <2>3. CASE step \in {2, 3, 4}
    <3>1. SP' = (SP - 1) % 256
      BY <2>3, ResetCommits DEF PhantomPush
    <3> QED BY <1>3, <1>4, <2>1, <2>3, <3>1, LowersOnce
  <2> QED BY <1>1, <2>2, <2>3
<1>9. LowLatched' /\ VectorLatched'
  <2>1. BusData(ResetVector)' = BusData(ResetVector)
    BY <1>3, VectorsSteady
  <2>2. step = 5 => addr = BusData(ResetVector)
    BY DEF Resetting, LowLatched
  <2> QED BY <1>3, <1>4, <2>1, <2>2 DEF LowLatched, VectorLatched
<1> QED BY <1>5, <1>6, <1>7, <1>8, <1>9 DEF Resetting

(* The steps of the traced machine, when no setter is called.              *)
LEMMA ViewFields ==
    ASSUME armed' = View
    PROVE  /\ armed'.A = A /\ armed'.X = X /\ armed'.Y = Y /\ armed'.SP = SP
           /\ armed'.P = P /\ armed'.mem = mem /\ armed'.out = out
  BY DEF View

LEMMA ArmingStarts ==
    ASSUME IInv, NEW c, TraceReset(c)
    PROVE  Resetting'
<1>1. CallReset(c) /\ armed' = View
  BY DEF TraceReset
<1>2. UNCHANGED <<A, X, Y, SP, P, mem, out>> /\ step' = 0
  BY <1>1 DEF CallReset, StartCall, ArmReset, registers, busVars, serial
<1>3. SP \in Byte
  BY DEF IInv, DatapathOK, RegistersOK
<1>4. AsArmed' /\ Masked'
  BY <1>1, <1>2, ViewFields DEF AsArmed, Masked
<1>5. Lowered'
  BY <1>1, <1>2, <1>3, ViewFields DEF Lowered, Pushes, Byte
<1> QED BY <1>2, <1>4, <1>5 DEF Resetting, LowLatched, VectorLatched

LEMMA TickResets ==
    ASSUME IInv, Resetting, TraceTick
    PROVE  Resetting'
<1> SUFFICES ASSUME resetActive' PROVE Resetting'
  BY DEF Resetting
<1>1. /\ DatapathOK /\ step \in 0 .. 6 /\ halted \in BOOLEAN /\ resetActive \in BOOLEAN
      /\ phase \in Phases /\ WithinHandler
  BY DEF IInv, ControlOK
<1>2. Clock /\ UNCHANGED armed
  BY DEF TraceTick, Tick
<1>3. phase' = NextPhase
  BY <1>2 DEF Clock
<1>4. CASE Settle
  <2>1. Still /\ UNCHANGED <<step, addr, resetActive>>
    BY <1>2, <1>4 DEF Settle, Still, registers, latches, busVars, serial
  <2>2. Captured' = Captured
    BY <1>1, <1>3, <1>4 DEF Settle, Captured, NextPhase, Phases
  <2> QED BY <2>1, <2>2, StillKeeps
<1>5. CASE NextPhase = "High" /\ OnClockHigh
  <2>1. resetActive
    BY <1>5 DEF OnClockHigh
  <2>2. ~Captured /\ Captured'
    BY <1>1, <1>3, <1>5 DEF Captured, NextPhase, Phases
  <2> QED BY <1>1, <1>2, <1>5, <2>1, <2>2, CaptureKeeps
<1>6. CASE NextPhase = "Low" /\ OnClockLow
  <2>1. resetActive
    <3>1. Commit(CommitNow)
      BY <1>1, <1>6 DEF OnClockLow
    <3> QED BY <1>1, <3>1, CommitSteps
  <2>2. Captured /\ ~Captured'
    BY <1>1, <1>3, <1>6 DEF Captured, NextPhase, Phases
  <2> QED BY <1>1, <1>2, <1>6, <2>1, <2>2, CommitResets
<1> QED BY <1>2, <1>4, <1>5, <1>6 DEF Clock

LEMMA TraceStepResets ==
    ASSUME IInv, Resetting, "set" \notin Calls, [TraceNext]_traceVars
    PROVE  Resetting'
<1>1. CASE TraceTick
  BY <1>1, TickResets
<1>2. CASE \E c \in HostCall : TraceReset(c)
  BY <1>2, ArmingStarts
<1>3. CASE TraceCall
  <2>1. StartCall /\ UNCHANGED <<registers, step, resetActive, armed>>
    BY <1>3 DEF TraceCall, CallTick, CallRun, CallSet
  <2>2. Still /\ UNCHANGED <<addr, phase>>
    BY <2>1 DEF StartCall, Still, registers, latches, busVars, serial
  <2>3. Captured' = Captured
    BY <2>2 DEF Captured
  <2> QED BY <2>1, <2>2, <2>3, StillKeeps
<1>4. CASE UNCHANGED traceVars
  <2>1. Still /\ UNCHANGED <<addr, phase, step, resetActive>>
    BY <1>4 DEF traceVars, vars, Still, registers, latches, busVars, serial
  <2>2. Captured' = Captured
    BY <2>1 DEF Captured
  <2> QED BY <2>1, <2>2, StillKeeps
<1> QED BY <1>1, <1>2, <1>3, <1>4 DEF TraceNext

(* The step that ends a reset is the jump of T6.                           *)
Settles ==
    resetActive /\ ~resetActive' =>
        /\ PC' = BusData(ResetVector) + 256 * BusData(ResetVector + 1)
        /\ SP' = (armed.SP - 3) % 256
        /\ P' = armed.P \cup {"I"}
        /\ <<A, X, Y, mem, out>>' = <<armed.A, armed.X, armed.Y, armed.mem, armed.out>>
        /\ ~halted' /\ AtBoundary'

LEMMA JumpSettles ==
    ASSUME IInv, Resetting, [TraceNext]_traceVars
    PROVE  Settles
<1> SUFFICES ASSUME resetActive, ~resetActive' PROVE Settles
  BY DEF Settles
<1>1. TraceTick
  <2>1. ASSUME NEW c, TraceReset(c) PROVE FALSE
    BY <2>1 DEF TraceReset, CallReset, ArmReset
  <2>2. ASSUME TraceCall PROVE FALSE
    BY <2>2 DEF TraceCall, CallTick, CallRun, CallSet
  <2>3. ASSUME UNCHANGED traceVars PROVE FALSE
    BY <2>3 DEF traceVars, vars
  <2> QED BY <2>1, <2>2, <2>3 DEF TraceNext
<1>2. step \in 0 .. 6 /\ phase \in Phases /\ Clock
  BY <1>1 DEF TraceTick, Tick, IInv, ControlOK
<1>3. NextPhase = "Low" /\ OnClockLow /\ phase' = "Low"
  BY <1>2 DEF Clock, Settle, OnClockHigh
<1>4. step = 6 /\ ResetJump
  <2>1. ASSUME step # 6 PROVE FALSE
    <3>1. ClearHalted \/ StepOnly \/ PhantomPush(P) \/ PhantomPush(P \cup {"I"})
      BY <1>2, <1>3, <2>1, ResetCommits
    <3> QED BY <3>1 DEF ClearHalted, StepOnly, PhantomPush, Advance
  <2> QED BY <1>2, <1>3, <2>1, ResetCommits
<1>5. Captured
  BY <1>2, <1>3 DEF NextPhase, Phases, Captured
<1>6. addr = BusData(ResetVector) + 256 * BusData(ResetVector + 1)
  BY <1>4, <1>5 DEF Resetting, VectorLatched
<1>7. SP = (armed.SP - 3) % 256 /\ P = armed.P \cup {"I"} /\ AsArmed /\ ~halted
  BY <1>4 DEF Resetting, Lowered, Pushes, Masked
<1>8. UNCHANGED <<A, X, Y, SP, P, mem, out, halted>> /\ PC' = addr /\ step' = 0
  BY <1>4 DEF ResetJump, accumulators, BusIdle, busVars, serial
<1> QED BY <1>3, <1>6, <1>7, <1>8 DEF Settles, AsArmed, AtBoundary

LEMMA InitResets == TraceInit => Resetting
  BY DEF TraceInit, Init, Resetting

-----------------------------------------------------------------------------
(* Every register, latch, memory cell and device register keeps its width  *)
(* for ever, the T-state stays below 7, and a run() never counts below     *)
(* zero, whatever the program does and however the host steps it.          *)
THEOREM TypeCorrect == Spec => []TypeOK
<1>1. IInv => TypeOK
  BY TypeSplits DEF IInv
<1> QED BY <1>1, IInvHolds, PTL

(* No instruction, no operand and no reset armed in the middle of one ever *)
(* leaves the CPU in a T-state that its handler has no commit for: there,  *)
(* the default case of the commit switch would leave it stuck.             *)
THEOREM NeverStuck == Spec => []WithinHandler
<1>1. IInv => WithinHandler
  BY DEF IInv
<1> QED BY <1>1, IInvHolds, PTL

(* A run() in progress never starts an instruction on a halted CPU and     *)
(* never one more than it was asked for.                                   *)
THEOREM RunStopsAtHalt == Spec => []HaltStopsRun
<1>1. IInv => HaltStopsRun
  BY DEF IInv
<1> QED BY <1>1, IInvHolds, PTL

(* ResetSettles: as long as the host leaves the registers alone, a reset   *)
(* armed at any clock phase of any instruction, or of another reset,       *)
(* completes from there: it undoes nothing and lets nothing more of the    *)
(* interrupted instruction happen, lowers SP by three within page 1,       *)
(* raises I, ends a halt and leaves the CPU at the vector's address,       *)
(* between instructions (beginReset, captureReset, commitReset).           *)
THEOREM ResetFromAnywhere == "set" \notin Calls => (TraceSpec => ResetSettles)
<1>1. IInv /\ [TraceNext]_traceVars => IInv'
  BY NextKeeps, TracedMachine
<1>2. TraceInit => IInv /\ Resetting
  BY InitIInv, InitResets, TracedMachine
<1>3. "set" \notin Calls /\ IInv /\ Resetting /\ [TraceNext]_traceVars => Resetting'
  BY TraceStepResets
<1>4. IInv /\ Resetting /\ [TraceNext]_traceVars => Settles
  BY JumpSettles
<1>5. SUFFICES ASSUME "set" \notin Calls PROVE TraceSpec => ResetSettles
  OBVIOUS
<1>6. IInv /\ Resetting /\ [TraceNext]_traceVars => Resetting'
  BY <1>3, <1>5
<1> QED BY <1>1, <1>2, <1>4, <1>6, PTL DEF TraceSpec, ResetSettles, Settles

-----------------------------------------------------------------------------
(* The two ways of decoding agree: the dispatch switches of the code and   *)
(* the layout of the opcode byte in Isa6502.                               *)
Decodes(ir, name, how) == ISA!Mnemonic(ir) = name /\ ISA!Mode(ir) = how

(* Every opcode byte that the switches name.                               *)
LEMMA Decoding ==
    ASSUME NEW h \in Handlers, NEW op \in DOMAIN OpcodeOf[h]
    PROVE  Decodes(OpcodeOf[h][op], op, HandlerMode[h])
<1> USE DEF Decodes, ISA!Mnemonic, ISA!Mode, ISA!Row, ISA!Column, ISA!Quarter, ISA!Control,
            ISA!Accumulator, ISA!Shifts, ISA!Implied, ISA!ControlMode, ISA!AccumulatorMode,
            ISA!ShiftMode, ISA!ByY
(* ReadImmediate *)
<1>1. /\ Decodes(\h69, "ADC", "imm") /\ Decodes(\hE9, "SBC", "imm")
      /\ Decodes(\h29, "AND", "imm") /\ Decodes(\h09, "ORA", "imm")
      /\ Decodes(\h49, "EOR", "imm") /\ Decodes(\hC9, "CMP", "imm")
      /\ Decodes(\hE0, "CPX", "imm") /\ Decodes(\hC0, "CPY", "imm")
  OBVIOUS
(* ReadAbsolute *)
<1>2. /\ Decodes(\h6D, "ADC", "abs") /\ Decodes(\hED, "SBC", "abs")
      /\ Decodes(\h2D, "AND", "abs") /\ Decodes(\h0D, "ORA", "abs")
      /\ Decodes(\h4D, "EOR", "abs") /\ Decodes(\hCD, "CMP", "abs")
      /\ Decodes(\hEC, "CPX", "abs") /\ Decodes(\hCC, "CPY", "abs")
      /\ Decodes(\h2C, "BIT", "abs")
  OBVIOUS
(* ReadZeroPage *)
<1>3. /\ Decodes(\h65, "ADC", "zp") /\ Decodes(\hE5, "SBC", "zp")
      /\ Decodes(\h25, "AND", "zp") /\ Decodes(\h05, "ORA", "zp")
      /\ Decodes(\h45, "EOR", "zp") /\ Decodes(\hC5, "CMP", "zp")
      /\ Decodes(\hE4, "CPX", "zp") /\ Decodes(\hC4, "CPY", "zp")
      /\ Decodes(\h24, "BIT", "zp")
  OBVIOUS
(* ReadZeroPageX *)
<1>4. /\ Decodes(\h75, "ADC", "zpX") /\ Decodes(\hF5, "SBC", "zpX")
      /\ Decodes(\h35, "AND", "zpX") /\ Decodes(\h15, "ORA", "zpX")
      /\ Decodes(\h55, "EOR", "zpX") /\ Decodes(\hD5, "CMP", "zpX")
  OBVIOUS
(* ReadAbsoluteX *)
<1>5. /\ Decodes(\h7D, "ADC", "absX") /\ Decodes(\hFD, "SBC", "absX")
      /\ Decodes(\h3D, "AND", "absX") /\ Decodes(\h1D, "ORA", "absX")
      /\ Decodes(\h5D, "EOR", "absX") /\ Decodes(\hDD, "CMP", "absX")
  OBVIOUS
(* ReadAbsoluteY *)
<1>6. /\ Decodes(\h79, "ADC", "absY") /\ Decodes(\hF9, "SBC", "absY")
      /\ Decodes(\h39, "AND", "absY") /\ Decodes(\h19, "ORA", "absY")
      /\ Decodes(\h59, "EOR", "absY") /\ Decodes(\hD9, "CMP", "absY")
  OBVIOUS
(* ReadIndirectX *)
<1>7. /\ Decodes(\h61, "ADC", "indX") /\ Decodes(\hE1, "SBC", "indX")
      /\ Decodes(\h21, "AND", "indX") /\ Decodes(\h01, "ORA", "indX")
      /\ Decodes(\h41, "EOR", "indX") /\ Decodes(\hC1, "CMP", "indX")
  OBVIOUS
(* ReadIndirectY *)
<1>8. /\ Decodes(\h71, "ADC", "indY") /\ Decodes(\hF1, "SBC", "indY")
      /\ Decodes(\h31, "AND", "indY") /\ Decodes(\h11, "ORA", "indY")
      /\ Decodes(\h51, "EOR", "indY") /\ Decodes(\hD1, "CMP", "indY")
  OBVIOUS
(* ShiftAccumulator *)
<1>9. /\ Decodes(\h0A, "ASL", "none") /\ Decodes(\h4A, "LSR", "none")
      /\ Decodes(\h2A, "ROL", "none") /\ Decodes(\h6A, "ROR", "none")
  OBVIOUS
(* RmwZeroPage *)
<1>10. /\ Decodes(\h06, "ASL", "zp") /\ Decodes(\h46, "LSR", "zp")
       /\ Decodes(\h26, "ROL", "zp") /\ Decodes(\h66, "ROR", "zp")
       /\ Decodes(\hE6, "INC", "zp") /\ Decodes(\hC6, "DEC", "zp")
  OBVIOUS
(* RmwZeroPageX *)
<1>11. /\ Decodes(\h16, "ASL", "zpX") /\ Decodes(\h56, "LSR", "zpX")
       /\ Decodes(\h36, "ROL", "zpX") /\ Decodes(\h76, "ROR", "zpX")
       /\ Decodes(\hF6, "INC", "zpX") /\ Decodes(\hD6, "DEC", "zpX")
  OBVIOUS
(* RmwAbsolute *)
<1>12. /\ Decodes(\h0E, "ASL", "abs") /\ Decodes(\h4E, "LSR", "abs")
       /\ Decodes(\h2E, "ROL", "abs") /\ Decodes(\h6E, "ROR", "abs")
       /\ Decodes(\hEE, "INC", "abs") /\ Decodes(\hCE, "DEC", "abs")
  OBVIOUS
(* RmwAbsoluteX *)
<1>13. /\ Decodes(\h1E, "ASL", "absX") /\ Decodes(\h5E, "LSR", "absX")
       /\ Decodes(\h3E, "ROL", "absX") /\ Decodes(\h7E, "ROR", "absX")
       /\ Decodes(\hFE, "INC", "absX") /\ Decodes(\hDE, "DEC", "absX")
  OBVIOUS
(* ImpliedIncDec *)
<1>14. /\ Decodes(\hE8, "INX", "none") /\ Decodes(\hCA, "DEX", "none")
       /\ Decodes(\hC8, "INY", "none") /\ Decodes(\h88, "DEY", "none")
  OBVIOUS
(* ImpliedTransfer *)
<1>15. /\ Decodes(\hAA, "TAX", "none") /\ Decodes(\h8A, "TXA", "none")
       /\ Decodes(\hA8, "TAY", "none") /\ Decodes(\h98, "TYA", "none")
       /\ Decodes(\hBA, "TSX", "none") /\ Decodes(\h9A, "TXS", "none")
  OBVIOUS
(* ImpliedFlagOp *)
<1>16. /\ Decodes(\h18, "CLC", "none") /\ Decodes(\h38, "SEC", "none")
       /\ Decodes(\h58, "CLI", "none") /\ Decodes(\h78, "SEI", "none")
       /\ Decodes(\hB8, "CLV", "none") /\ Decodes(\hD8, "CLD", "none")
       /\ Decodes(\hF8, "SED", "none")
  OBVIOUS
(* LoadImmediate *)
<1>17. /\ Decodes(\hA9, "LDA", "imm") /\ Decodes(\hA2, "LDX", "imm")
       /\ Decodes(\hA0, "LDY", "imm")
  OBVIOUS
(* LoadZeroPage *)
<1>18. /\ Decodes(\hA5, "LDA", "zp") /\ Decodes(\hA6, "LDX", "zp")
       /\ Decodes(\hA4, "LDY", "zp")
  OBVIOUS
(* LoadZeroPageX *)
<1>19. /\ Decodes(\hB5, "LDA", "zpX") /\ Decodes(\hB4, "LDY", "zpX")
  OBVIOUS
(* LoadZeroPageY *)
<1>20. Decodes(\hB6, "LDX", "zpY")
  OBVIOUS
(* LoadAbsolute *)
<1>21. /\ Decodes(\hAD, "LDA", "abs") /\ Decodes(\hAE, "LDX", "abs")
       /\ Decodes(\hAC, "LDY", "abs")
  OBVIOUS
(* LoadAbsoluteX *)
<1>22. /\ Decodes(\hBD, "LDA", "absX") /\ Decodes(\hBC, "LDY", "absX")
  OBVIOUS
(* LoadAbsoluteY *)
<1>23. /\ Decodes(\hB9, "LDA", "absY") /\ Decodes(\hBE, "LDX", "absY")
  OBVIOUS
(* LoadIndirectX *)
<1>24. Decodes(\hA1, "LDA", "indX")
  OBVIOUS
(* LoadIndirectY *)
<1>25. Decodes(\hB1, "LDA", "indY")
  OBVIOUS
(* StoreZeroPage *)
<1>26. /\ Decodes(\h85, "STA", "zp") /\ Decodes(\h86, "STX", "zp")
       /\ Decodes(\h84, "STY", "zp")
  OBVIOUS
(* StoreZeroPageX *)
<1>27. /\ Decodes(\h95, "STA", "zpX") /\ Decodes(\h94, "STY", "zpX")
  OBVIOUS
(* StoreZeroPageY *)
<1>28. Decodes(\h96, "STX", "zpY")
  OBVIOUS
(* StoreAbsolute *)
<1>29. /\ Decodes(\h8D, "STA", "abs") /\ Decodes(\h8E, "STX", "abs")
       /\ Decodes(\h8C, "STY", "abs")
  OBVIOUS
(* StoreAbsoluteX *)
<1>30. Decodes(\h9D, "STA", "absX")
  OBVIOUS
(* StoreAbsoluteY *)
<1>31. Decodes(\h99, "STA", "absY")
  OBVIOUS
(* StoreIndirectX *)
<1>32. Decodes(\h81, "STA", "indX")
  OBVIOUS
(* StoreIndirectY *)
<1>33. Decodes(\h91, "STA", "indY")
  OBVIOUS
(* Branch *)
<1>34. /\ Decodes(\h10, "BPL", "rel") /\ Decodes(\h30, "BMI", "rel")
       /\ Decodes(\h50, "BVC", "rel") /\ Decodes(\h70, "BVS", "rel")
       /\ Decodes(\h90, "BCC", "rel") /\ Decodes(\hB0, "BCS", "rel")
       /\ Decodes(\hD0, "BNE", "rel") /\ Decodes(\hF0, "BEQ", "rel")
  OBVIOUS
(* BRK *)
<1>35. Decodes(\h00, "BRK", "none")
  <2>1. ISA!Mnemonic(\h00) = "BRK"
    OBVIOUS
  <2> HIDE DEF ISA!Mnemonic
  <2> QED BY <2>1
(* JSR *)
<1>36. Decodes(\h20, "JSR", "abs")
  OBVIOUS
(* RTS *)
<1>37. Decodes(\h60, "RTS", "none")
  <2>1. ISA!Mnemonic(\h60) = "RTS"
    OBVIOUS
  <2> HIDE DEF ISA!Mnemonic
  <2> QED BY <2>1
(* JMPAbsolute *)
<1>38. Decodes(\h4C, "JMP", "abs")
  OBVIOUS
(* JMPIndirect *)
<1>39. Decodes(\h6C, "JMP", "ind")
  OBVIOUS
(* NOP *)
<1>40. Decodes(\hEA, "NOP", "none")
  OBVIOUS
(* RTI *)
<1>41. Decodes(\h40, "RTI", "none")
  <2>1. ISA!Mnemonic(\h40) = "RTI"
    OBVIOUS
  <2> HIDE DEF ISA!Mnemonic
  <2> QED BY <2>1
(* ImpliedPush *)
<1>42. /\ Decodes(\h48, "PHA", "none") /\ Decodes(\h08, "PHP", "none")
  OBVIOUS
(* ImpliedPull *)
<1>43. /\ Decodes(\h68, "PLA", "none") /\ Decodes(\h28, "PLP", "none")
  OBVIOUS
<1> HIDE DEF Decodes, ISA!Mnemonic, ISA!Mode, ISA!Row, ISA!Column, ISA!Quarter, ISA!Control,
             ISA!Accumulator, ISA!Shifts, ISA!Implied, ISA!ControlMode, ISA!AccumulatorMode,
             ISA!ShiftMode, ISA!ByY
<1>44. CASE h = "ReadImmediate"
  BY <1>1, <1>44 DEF OpcodeOf, HandlerMode
<1>45. CASE h = "ReadAbsolute"
  BY <1>2, <1>45 DEF OpcodeOf, HandlerMode
<1>46. CASE h = "ReadZeroPage"
  BY <1>3, <1>46 DEF OpcodeOf, HandlerMode
<1>47. CASE h = "ReadZeroPageX"
  BY <1>4, <1>47 DEF OpcodeOf, HandlerMode
<1>48. CASE h = "ReadAbsoluteX"
  BY <1>5, <1>48 DEF OpcodeOf, HandlerMode
<1>49. CASE h = "ReadAbsoluteY"
  BY <1>6, <1>49 DEF OpcodeOf, HandlerMode
<1>50. CASE h = "ReadIndirectX"
  BY <1>7, <1>50 DEF OpcodeOf, HandlerMode
<1>51. CASE h = "ReadIndirectY"
  BY <1>8, <1>51 DEF OpcodeOf, HandlerMode
<1>52. CASE h = "ShiftAccumulator"
  BY <1>9, <1>52 DEF OpcodeOf, HandlerMode
<1>53. CASE h = "RmwZeroPage"
  BY <1>10, <1>53 DEF OpcodeOf, HandlerMode
<1>54. CASE h = "RmwZeroPageX"
  BY <1>11, <1>54 DEF OpcodeOf, HandlerMode
<1>55. CASE h = "RmwAbsolute"
  BY <1>12, <1>55 DEF OpcodeOf, HandlerMode
<1>56. CASE h = "RmwAbsoluteX"
  BY <1>13, <1>56 DEF OpcodeOf, HandlerMode
<1>57. CASE h = "ImpliedIncDec"
  BY <1>14, <1>57 DEF OpcodeOf, HandlerMode
<1>58. CASE h = "ImpliedTransfer"
  BY <1>15, <1>58 DEF OpcodeOf, HandlerMode
<1>59. CASE h = "ImpliedFlagOp"
  BY <1>16, <1>59 DEF OpcodeOf, HandlerMode
<1>60. CASE h = "LoadImmediate"
  BY <1>17, <1>60 DEF OpcodeOf, HandlerMode
<1>61. CASE h = "LoadZeroPage"
  BY <1>18, <1>61 DEF OpcodeOf, HandlerMode
<1>62. CASE h = "LoadZeroPageX"
  BY <1>19, <1>62 DEF OpcodeOf, HandlerMode
<1>63. CASE h = "LoadZeroPageY"
  BY <1>20, <1>63 DEF OpcodeOf, HandlerMode
<1>64. CASE h = "LoadAbsolute"
  BY <1>21, <1>64 DEF OpcodeOf, HandlerMode
<1>65. CASE h = "LoadAbsoluteX"
  BY <1>22, <1>65 DEF OpcodeOf, HandlerMode
<1>66. CASE h = "LoadAbsoluteY"
  BY <1>23, <1>66 DEF OpcodeOf, HandlerMode
<1>67. CASE h = "LoadIndirectX"
  BY <1>24, <1>67 DEF OpcodeOf, HandlerMode
<1>68. CASE h = "LoadIndirectY"
  BY <1>25, <1>68 DEF OpcodeOf, HandlerMode
<1>69. CASE h = "StoreZeroPage"
  BY <1>26, <1>69 DEF OpcodeOf, HandlerMode
<1>70. CASE h = "StoreZeroPageX"
  BY <1>27, <1>70 DEF OpcodeOf, HandlerMode
<1>71. CASE h = "StoreZeroPageY"
  BY <1>28, <1>71 DEF OpcodeOf, HandlerMode
<1>72. CASE h = "StoreAbsolute"
  BY <1>29, <1>72 DEF OpcodeOf, HandlerMode
<1>73. CASE h = "StoreAbsoluteX"
  BY <1>30, <1>73 DEF OpcodeOf, HandlerMode
<1>74. CASE h = "StoreAbsoluteY"
  BY <1>31, <1>74 DEF OpcodeOf, HandlerMode
<1>75. CASE h = "StoreIndirectX"
  BY <1>32, <1>75 DEF OpcodeOf, HandlerMode
<1>76. CASE h = "StoreIndirectY"
  BY <1>33, <1>76 DEF OpcodeOf, HandlerMode
<1>77. CASE h = "Branch"
  BY <1>34, <1>77 DEF OpcodeOf, HandlerMode
<1>78. CASE h = "BRK"
  BY <1>35, <1>78 DEF OpcodeOf, HandlerMode
<1>79. CASE h = "JSR"
  BY <1>36, <1>79 DEF OpcodeOf, HandlerMode
<1>80. CASE h = "RTS"
  BY <1>37, <1>80 DEF OpcodeOf, HandlerMode
<1>81. CASE h = "JMPAbsolute"
  BY <1>38, <1>81 DEF OpcodeOf, HandlerMode
<1>82. CASE h = "JMPIndirect"
  BY <1>39, <1>82 DEF OpcodeOf, HandlerMode
<1>83. CASE h = "NOP"
  BY <1>40, <1>83 DEF OpcodeOf, HandlerMode
<1>84. CASE h = "RTI"
  BY <1>41, <1>84 DEF OpcodeOf, HandlerMode
<1>85. CASE h = "ImpliedPush"
  BY <1>42, <1>85 DEF OpcodeOf, HandlerMode
<1>86. CASE h = "ImpliedPull"
  BY <1>43, <1>86 DEF OpcodeOf, HandlerMode
<1> QED BY <1>44, <1>45, <1>46, <1>47, <1>48, <1>49, <1>50, <1>51, <1>52,
           <1>53, <1>54, <1>55, <1>56, <1>57, <1>58, <1>59, <1>60, <1>61,
           <1>62, <1>63, <1>64, <1>65, <1>66, <1>67, <1>68, <1>69, <1>70,
           <1>71, <1>72, <1>73, <1>74, <1>75, <1>76, <1>77, <1>78, <1>79,
           <1>80, <1>81, <1>82, <1>83, <1>84, <1>85, <1>86 DEF Handlers

(* The bytes they do not name, but for those of the empty quarter.         *)
Unnamed ==
    {\h02, \h04, \h0C, \h12, \h14, \h1A, \h1C, \h22, \h32, \h34, \h3A, \h3C,
     \h42, \h44, \h52, \h54, \h5A, \h5C, \h62, \h64, \h72, \h74, \h7A, \h7C,
     \h80, \h82, \h89, \h92, \h9C, \h9E, \hB2, \hC2, \hD2, \hD4, \hDA, \hDC,
     \hE2, \hF2, \hF4, \hFA, \hFC}

LEMMA UnnamedDecodes == \A ir \in Unnamed : ISA!Mnemonic(ir) = ""
<1> USE DEF ISA!Mnemonic, ISA!Row, ISA!Column, ISA!Quarter, ISA!Control, ISA!Accumulator,
            ISA!Shifts, ISA!Implied
<1>1. /\ ISA!Mnemonic(\h02) = "" /\ ISA!Mnemonic(\h04) = "" /\ ISA!Mnemonic(\h0C) = ""
      /\ ISA!Mnemonic(\h12) = "" /\ ISA!Mnemonic(\h14) = "" /\ ISA!Mnemonic(\h1A) = ""
      /\ ISA!Mnemonic(\h1C) = ""
  OBVIOUS
<1>2. /\ ISA!Mnemonic(\h22) = "" /\ ISA!Mnemonic(\h32) = "" /\ ISA!Mnemonic(\h34) = ""
      /\ ISA!Mnemonic(\h3A) = "" /\ ISA!Mnemonic(\h3C) = "" /\ ISA!Mnemonic(\h42) = ""
      /\ ISA!Mnemonic(\h44) = ""
  OBVIOUS
<1>3. /\ ISA!Mnemonic(\h52) = "" /\ ISA!Mnemonic(\h54) = "" /\ ISA!Mnemonic(\h5A) = ""
      /\ ISA!Mnemonic(\h5C) = "" /\ ISA!Mnemonic(\h62) = "" /\ ISA!Mnemonic(\h64) = ""
      /\ ISA!Mnemonic(\h72) = ""
  OBVIOUS
<1>4. /\ ISA!Mnemonic(\h74) = "" /\ ISA!Mnemonic(\h7A) = "" /\ ISA!Mnemonic(\h7C) = ""
      /\ ISA!Mnemonic(\h80) = "" /\ ISA!Mnemonic(\h82) = "" /\ ISA!Mnemonic(\h89) = ""
      /\ ISA!Mnemonic(\h92) = ""
  OBVIOUS
<1>5. /\ ISA!Mnemonic(\h9C) = "" /\ ISA!Mnemonic(\h9E) = "" /\ ISA!Mnemonic(\hB2) = ""
      /\ ISA!Mnemonic(\hC2) = "" /\ ISA!Mnemonic(\hD2) = "" /\ ISA!Mnemonic(\hD4) = ""
      /\ ISA!Mnemonic(\hDA) = ""
  OBVIOUS
<1>6. /\ ISA!Mnemonic(\hDC) = "" /\ ISA!Mnemonic(\hE2) = "" /\ ISA!Mnemonic(\hF2) = ""
      /\ ISA!Mnemonic(\hF4) = "" /\ ISA!Mnemonic(\hFA) = "" /\ ISA!Mnemonic(\hFC) = ""
  OBVIOUS
<1> HIDE DEF ISA!Mnemonic, ISA!Row, ISA!Column, ISA!Quarter, ISA!Control, ISA!Accumulator,
             ISA!Shifts, ISA!Implied
<1> SUFFICES ASSUME NEW ir \in Unnamed PROVE ISA!Mnemonic(ir) = ""
  OBVIOUS
<1>7. CASE ir \in {\h02, \h04, \h0C, \h12, \h14, \h1A, \h1C}
  BY <1>1, <1>7
<1>8. CASE ir \in {\h22, \h32, \h34, \h3A, \h3C, \h42, \h44}
  BY <1>2, <1>8
<1>9. CASE ir \in {\h52, \h54, \h5A, \h5C, \h62, \h64, \h72}
  BY <1>3, <1>9
<1>10. CASE ir \in {\h74, \h7A, \h7C, \h80, \h82, \h89, \h92}
  BY <1>4, <1>10
<1>11. CASE ir \in {\h9C, \h9E, \hB2, \hC2, \hD2, \hD4, \hDA}
  BY <1>5, <1>11
<1>12. CASE ir \in {\hDC, \hE2, \hF2, \hF4, \hFA, \hFC}
  BY <1>6, <1>12
<1>13. \/ ir \in {\h02, \h04, \h0C, \h12, \h14, \h1A, \h1C}
       \/ ir \in {\h22, \h32, \h34, \h3A, \h3C, \h42, \h44}
       \/ ir \in {\h52, \h54, \h5A, \h5C, \h62, \h64, \h72}
       \/ ir \in {\h74, \h7A, \h7C, \h80, \h82, \h89, \h92}
       \/ ir \in {\h9C, \h9E, \hB2, \hC2, \hD2, \hD4, \hDA}
       \/ ir \in {\hDC, \hE2, \hF2, \hF4, \hFA, \hFC}
  BY DEF Unnamed
<1> QED BY <1>7, <1>8, <1>9, <1>10, <1>11, <1>12, <1>13

(* The bytes the switches name.                                            *)
Named ==
    {\h00, \h01, \h05, \h06, \h08, \h09, \h0A, \h0D, \h0E, \h10, \h11, \h15,
     \h16, \h18, \h19, \h1D, \h1E, \h20, \h21, \h24, \h25, \h26, \h28, \h29,
     \h2A, \h2C, \h2D, \h2E, \h30, \h31, \h35, \h36, \h38, \h39, \h3D, \h3E,
     \h40, \h41, \h45, \h46, \h48, \h49, \h4A, \h4C, \h4D, \h4E, \h50, \h51,
     \h55, \h56, \h58, \h59, \h5D, \h5E, \h60, \h61, \h65, \h66, \h68, \h69,
     \h6A, \h6C, \h6D, \h6E, \h70, \h71, \h75, \h76, \h78, \h79, \h7D, \h7E,
     \h81, \h84, \h85, \h86, \h88, \h8A, \h8C, \h8D, \h8E, \h90, \h91, \h94,
     \h95, \h96, \h98, \h99, \h9A, \h9D, \hA0, \hA1, \hA2, \hA4, \hA5, \hA6,
     \hA8, \hA9, \hAA, \hAC, \hAD, \hAE, \hB0, \hB1, \hB4, \hB5, \hB6, \hB8,
     \hB9, \hBA, \hBC, \hBD, \hBE, \hC0, \hC1, \hC4, \hC5, \hC6, \hC8, \hC9,
     \hCA, \hCC, \hCD, \hCE, \hD0, \hD1, \hD5, \hD6, \hD8, \hD9, \hDD, \hDE,
     \hE0, \hE1, \hE4, \hE5, \hE6, \hE8, \hE9, \hEA, \hEC, \hED, \hEE, \hF0,
     \hF1, \hF5, \hF6, \hF8, \hF9, \hFD, \hFE}

LEMMA NamedOrNot ==
    ASSUME NEW ir \in Byte, ir \notin Named, ir \notin Unnamed
    PROVE  ir % 4 = 3
<1>1. ASSUME NEW low \in 0 .. 3, NEW high \in 0 .. 63, ir = 4 * high + low, low # 3
      PROVE  FALSE
  <2>1. CASE high < 16
    BY <1>1, <2>1 DEF Named, Unnamed
  <2>2. CASE high >= 16 /\ high < 32
    BY <1>1, <2>2 DEF Named, Unnamed
  <2>3. CASE high >= 32 /\ high < 48
    BY <1>1, <2>3 DEF Named, Unnamed
  <2>4. CASE high >= 48
    BY <1>1, <2>4 DEF Named, Unnamed
  <2> QED BY <2>1, <2>2, <2>3, <2>4
<1> DEFINE low == ir % 4
           high == ir \div 4
<1>2. low \in 0 .. 3 /\ high \in 0 .. 63 /\ ir = 4 * high + low
  BY DEF Byte
<1> HIDE DEF low, high
<1>3. low = 3
  BY <1>1, <1>2
<1> QED BY <1>3 DEF low

(* Each byte the switches name is one of a handler's, and no other is.     *)
LEMMA NamedIsHandled ==
    ASSUME NEW ir \in Byte, Handler[ir] = "Unimplemented"
    PROVE  ir \notin Named
<1>1. \A h \in Handlers : \A op \in DOMAIN OpcodeOf[h] : OpcodeOf[h][op] # ir
  <2>1. "Unimplemented" \notin Handlers
    BY DEF Handlers
  <2>2. ASSUME NEW h0 \in Handlers, NEW op0 \in DOMAIN OpcodeOf[h0], Implements(h0, op0, ir)
        PROVE  FALSE
    <3>1. \E h \in Handlers : \E op \in DOMAIN OpcodeOf[h] : Implements(h, op, ir)
      BY <2>2
    <3>2. Handler[ir] = CHOOSE h \in Handlers : \E op \in DOMAIN OpcodeOf[h] : Implements(h, op, ir)
      BY <3>1, Zenon DEF Handler
    <3>3. Handler[ir] \in Handlers
      BY <3>1, <3>2, Zenon
    <3> QED BY <2>1, <3>3
  <2> QED BY <2>2, Zenon DEF Implements
<1>2. ir \notin {\h69, \hE9, \h29, \h09, \h49, \hC9, \hE0, \hC0}
  BY <1>1 DEF Handlers, OpcodeOf
<1>3. ir \notin {\h6D, \hED, \h2D, \h0D, \h4D, \hCD, \hEC, \hCC, \h2C}
  BY <1>1 DEF Handlers, OpcodeOf
<1>4. ir \notin {\h65, \hE5, \h25, \h05, \h45, \hC5, \hE4, \hC4, \h24}
  BY <1>1 DEF Handlers, OpcodeOf
<1>5. ir \notin {\h75, \hF5, \h35, \h15, \h55, \hD5}
  BY <1>1 DEF Handlers, OpcodeOf
<1>6. ir \notin {\h7D, \hFD, \h3D, \h1D, \h5D, \hDD}
  BY <1>1 DEF Handlers, OpcodeOf
<1>7. ir \notin {\h79, \hF9, \h39, \h19, \h59, \hD9}
  BY <1>1 DEF Handlers, OpcodeOf
<1>8. ir \notin {\h61, \hE1, \h21, \h01, \h41, \hC1}
  BY <1>1 DEF Handlers, OpcodeOf
<1>9. ir \notin {\h71, \hF1, \h31, \h11, \h51, \hD1}
  BY <1>1 DEF Handlers, OpcodeOf
<1>10. ir \notin {\h0A, \h4A, \h2A, \h6A}
  BY <1>1 DEF Handlers, OpcodeOf
<1>11. ir \notin {\h06, \h46, \h26, \h66, \hE6, \hC6}
  BY <1>1 DEF Handlers, OpcodeOf
<1>12. ir \notin {\h16, \h56, \h36, \h76, \hF6, \hD6}
  BY <1>1 DEF Handlers, OpcodeOf
<1>13. ir \notin {\h0E, \h4E, \h2E, \h6E, \hEE, \hCE}
  BY <1>1 DEF Handlers, OpcodeOf
<1>14. ir \notin {\h1E, \h5E, \h3E, \h7E, \hFE, \hDE}
  BY <1>1 DEF Handlers, OpcodeOf
<1>15. ir \notin {\hE8, \hCA, \hC8, \h88}
  BY <1>1 DEF Handlers, OpcodeOf
<1>16. ir \notin {\hAA, \h8A, \hA8, \h98, \hBA, \h9A}
  BY <1>1 DEF Handlers, OpcodeOf
<1>17. ir \notin {\h18, \h38, \h58, \h78, \hB8, \hD8, \hF8}
  BY <1>1 DEF Handlers, OpcodeOf
<1>18. ir \notin {\hA9, \hA2, \hA0}
  BY <1>1 DEF Handlers, OpcodeOf
<1>19. ir \notin {\hA5, \hA6, \hA4}
  BY <1>1 DEF Handlers, OpcodeOf
<1>20. ir \notin {\hB5, \hB4}
  BY <1>1 DEF Handlers, OpcodeOf
<1>21. ir \notin {\hB6}
  BY <1>1 DEF Handlers, OpcodeOf
<1>22. ir \notin {\hAD, \hAE, \hAC}
  BY <1>1 DEF Handlers, OpcodeOf
<1>23. ir \notin {\hBD, \hBC}
  BY <1>1 DEF Handlers, OpcodeOf
<1>24. ir \notin {\hB9, \hBE}
  BY <1>1 DEF Handlers, OpcodeOf
<1>25. ir \notin {\hA1}
  BY <1>1 DEF Handlers, OpcodeOf
<1>26. ir \notin {\hB1}
  BY <1>1 DEF Handlers, OpcodeOf
<1>27. ir \notin {\h85, \h86, \h84}
  BY <1>1 DEF Handlers, OpcodeOf
<1>28. ir \notin {\h95, \h94}
  BY <1>1 DEF Handlers, OpcodeOf
<1>29. ir \notin {\h96}
  BY <1>1 DEF Handlers, OpcodeOf
<1>30. ir \notin {\h8D, \h8E, \h8C}
  BY <1>1 DEF Handlers, OpcodeOf
<1>31. ir \notin {\h9D}
  BY <1>1 DEF Handlers, OpcodeOf
<1>32. ir \notin {\h99}
  BY <1>1 DEF Handlers, OpcodeOf
<1>33. ir \notin {\h81}
  BY <1>1 DEF Handlers, OpcodeOf
<1>34. ir \notin {\h91}
  BY <1>1 DEF Handlers, OpcodeOf
<1>35. ir \notin {\h10, \h30, \h50, \h70, \h90, \hB0, \hD0, \hF0}
  BY <1>1 DEF Handlers, OpcodeOf
<1>36. ir \notin {\h00}
  BY <1>1 DEF Handlers, OpcodeOf
<1>37. ir \notin {\h20}
  BY <1>1 DEF Handlers, OpcodeOf
<1>38. ir \notin {\h60}
  BY <1>1 DEF Handlers, OpcodeOf
<1>39. ir \notin {\h4C}
  BY <1>1 DEF Handlers, OpcodeOf
<1>40. ir \notin {\h6C}
  BY <1>1 DEF Handlers, OpcodeOf
<1>41. ir \notin {\hEA}
  BY <1>1 DEF Handlers, OpcodeOf
<1>42. ir \notin {\h40}
  BY <1>1 DEF Handlers, OpcodeOf
<1>43. ir \notin {\h48, \h08}
  BY <1>1 DEF Handlers, OpcodeOf
<1>44. ir \notin {\h68, \h28}
  BY <1>1 DEF Handlers, OpcodeOf
<1> QED   BY <1>2, <1>3, <1>4, <1>5, <1>6, <1>7, <1>8, <1>9, <1>10, <1>11, <1>12, <1>13,
     <1>14, <1>15, <1>16, <1>17, <1>18, <1>19, <1>20, <1>21, <1>22, <1>23, <1>24, <1>25,
     <1>26, <1>27, <1>28, <1>29, <1>30, <1>31, <1>32, <1>33, <1>34, <1>35, <1>36, <1>37,
     <1>38, <1>39, <1>40, <1>41, <1>42, <1>43, <1>44 DEF Named

(* The operation is the one the opcode byte stands for.                    *)
LEMMA DispatchNames ==
    ASSUME NEW ir \in Byte, Handler[ir] # "Unimplemented"
    PROVE  OpcodeOf[Handler[ir]][Operation[ir]] = ir
<1> DEFINE Routes(h) == \E op \in DOMAIN OpcodeOf[h] : Implements(h, op, ir)
<1>1. \E h \in Handlers : Routes(h)
  BY Zenon DEF Handler
<1>2. Handler[ir] = CHOOSE h \in Handlers : Routes(h)
  BY <1>1, Zenon DEF Handler
<1>3. Routes(Handler[ir])
  BY <1>1, <1>2, Zenon
<1>4. Operation[ir] = CHOOSE op \in DOMAIN OpcodeOf[Handler[ir]] : Implements(Handler[ir], op, ir)
  BY Zenon DEF Operation
<1>5. Implements(Handler[ir], Operation[ir], ir)
  BY <1>3, <1>4, Zenon
<1> QED BY <1>5, Zenon DEF Implements

(* What the instruction set's decoder has to say of an opcode byte.        *)
NameOf(ir) == IF Handler[ir] = "Unimplemented" THEN "" ELSE Operation[ir]
ModeOf(ir) == IF Handler[ir] = "Unimplemented" THEN "none" ELSE HandlerMode[Handler[ir]]

(* The dispatch switches of the handlers (Operation, Handler) and the      *)
(* layout of the opcode byte, on which Isa6502 decodes, give each of the   *)
(* 256 bytes the same operation and addressing mode, and leave the same    *)
(* bytes without an instruction.                                           *)
THEOREM DecodersAgree ==
    ASSUME NEW ir \in Byte
    PROVE  Decodes(ir, NameOf(ir), ModeOf(ir))
<1>1. CASE Handler[ir] # "Unimplemented"
  <2>1. Handler[ir] \in Handlers /\ Operation[ir] \in DOMAIN OpcodeOf[Handler[ir]]
    BY <1>1, Dispatch
  <2>2. OpcodeOf[Handler[ir]][Operation[ir]] = ir
    BY <1>1, DispatchNames
  <2>3. Decodes(ir, Operation[ir], HandlerMode[Handler[ir]])
    BY <2>1, <2>2, Decoding, Zenon
  <2> QED BY <1>1, <2>3, Zenon DEF NameOf, ModeOf
<1>2. CASE Handler[ir] = "Unimplemented"
  <2>1. ir \notin Named
    BY <1>2, NamedIsHandled
  <2>2. ISA!Mnemonic(ir) = ""
    <3>1. CASE ir \in Unnamed
      BY <3>1, UnnamedDecodes
    <3>2. CASE ir \notin Unnamed
      <4>1. ir % 4 = 3
        BY <2>1, <3>2, NamedOrNot
      <4>2. ISA!Quarter(ir) = 3
        BY <4>1 DEF ISA!Quarter
      <4> QED BY <4>2 DEF ISA!Mnemonic
    <3> QED BY <3>1, <3>2
  <2>3. ISA!Mode(ir) = "none"
    BY <2>2 DEF ISA!Mode
  <2> QED BY <1>2, <2>2, <2>3, Zenon DEF NameOf, ModeOf, Decodes
<1> QED BY <1>1, <1>2

(* The operations of each kind of handler.                                 *)
OpsRow(h) ==
    LET ops == DOMAIN OpcodeOf[h]
    IN  /\ h \in Reading => ops \subseteq ISA!Reads
        /\ h \in Rewriting \cup {"ShiftAccumulator"} => ops \subseteq UnaryOp
        /\ h = "ShiftAccumulator" => ops \subseteq {"ASL", "LSR", "ROL", "ROR"}
        /\ h \in Storing => ops \subseteq ISA!Stores
        /\ h = "ImpliedIncDec" => ops \subseteq {"INX", "DEX", "INY", "DEY"}
        /\ h = "ImpliedTransfer" => ops \subseteq {"TAX", "TXA", "TAY", "TYA", "TSX", "TXS"}
        /\ h = "ImpliedFlagOp" => ops \subseteq {"CLC", "SEC", "CLI", "SEI", "CLV", "CLD", "SED"}
        /\ h = "Branch" => ops \subseteq ISA!Branches
        /\ h \in Jumps => ops \subseteq {"JMP"}
        /\ h \in {"BRK", "JSR", "RTS", "RTI", "NOP"} => ops \subseteq {h}
        /\ h = "ImpliedPush" => ops \subseteq {"PHA", "PHP"}
        /\ h = "ImpliedPull" => ops \subseteq {"PLA", "PLP"}

LEMMA Operations ==
    ASSUME NEW h \in Handlers
    PROVE  OpsRow(h)
<1> USE DEF OpsRow, Reading, Rewriting, Storing, Jumps, UnaryOp, ISA!Reads, ISA!Stores, ISA!Branches
<1>1. CASE h = "ReadImmediate"
  BY <1>1 DEF OpcodeOf
<1>2. CASE h = "ReadAbsolute"
  BY <1>2 DEF OpcodeOf
<1>3. CASE h = "ReadZeroPage"
  BY <1>3 DEF OpcodeOf
<1>4. CASE h = "ReadZeroPageX"
  BY <1>4 DEF OpcodeOf
<1>5. CASE h = "ReadAbsoluteX"
  BY <1>5 DEF OpcodeOf
<1>6. CASE h = "ReadAbsoluteY"
  BY <1>6 DEF OpcodeOf
<1>7. CASE h = "ReadIndirectX"
  BY <1>7 DEF OpcodeOf
<1>8. CASE h = "ReadIndirectY"
  BY <1>8 DEF OpcodeOf
<1>9. CASE h = "ShiftAccumulator"
  BY <1>9 DEF OpcodeOf
<1>10. CASE h = "RmwZeroPage"
  BY <1>10 DEF OpcodeOf
<1>11. CASE h = "RmwZeroPageX"
  BY <1>11 DEF OpcodeOf
<1>12. CASE h = "RmwAbsolute"
  BY <1>12 DEF OpcodeOf
<1>13. CASE h = "RmwAbsoluteX"
  BY <1>13 DEF OpcodeOf
<1>14. CASE h = "ImpliedIncDec"
  BY <1>14 DEF OpcodeOf
<1>15. CASE h = "ImpliedTransfer"
  BY <1>15 DEF OpcodeOf
<1>16. CASE h = "ImpliedFlagOp"
  BY <1>16 DEF OpcodeOf
<1>17. CASE h = "LoadImmediate"
  BY <1>17 DEF OpcodeOf
<1>18. CASE h = "LoadZeroPage"
  BY <1>18 DEF OpcodeOf
<1>19. CASE h = "LoadZeroPageX"
  BY <1>19 DEF OpcodeOf
<1>20. CASE h = "LoadZeroPageY"
  BY <1>20 DEF OpcodeOf
<1>21. CASE h = "LoadAbsolute"
  BY <1>21 DEF OpcodeOf
<1>22. CASE h = "LoadAbsoluteX"
  BY <1>22 DEF OpcodeOf
<1>23. CASE h = "LoadAbsoluteY"
  BY <1>23 DEF OpcodeOf
<1>24. CASE h = "LoadIndirectX"
  BY <1>24 DEF OpcodeOf
<1>25. CASE h = "LoadIndirectY"
  BY <1>25 DEF OpcodeOf
<1>26. CASE h = "StoreZeroPage"
  BY <1>26 DEF OpcodeOf
<1>27. CASE h = "StoreZeroPageX"
  BY <1>27 DEF OpcodeOf
<1>28. CASE h = "StoreZeroPageY"
  BY <1>28 DEF OpcodeOf
<1>29. CASE h = "StoreAbsolute"
  BY <1>29 DEF OpcodeOf
<1>30. CASE h = "StoreAbsoluteX"
  BY <1>30 DEF OpcodeOf
<1>31. CASE h = "StoreAbsoluteY"
  BY <1>31 DEF OpcodeOf
<1>32. CASE h = "StoreIndirectX"
  BY <1>32 DEF OpcodeOf
<1>33. CASE h = "StoreIndirectY"
  BY <1>33 DEF OpcodeOf
<1>34. CASE h = "Branch"
  BY <1>34 DEF OpcodeOf
<1>35. CASE h = "BRK"
  BY <1>35 DEF OpcodeOf
<1>36. CASE h = "JSR"
  BY <1>36 DEF OpcodeOf
<1>37. CASE h = "RTS"
  BY <1>37 DEF OpcodeOf
<1>38. CASE h = "JMPAbsolute"
  BY <1>38 DEF OpcodeOf
<1>39. CASE h = "JMPIndirect"
  BY <1>39 DEF OpcodeOf
<1>40. CASE h = "NOP"
  BY <1>40 DEF OpcodeOf
<1>41. CASE h = "RTI"
  BY <1>41 DEF OpcodeOf
<1>42. CASE h = "ImpliedPush"
  BY <1>42 DEF OpcodeOf
<1>43. CASE h = "ImpliedPull"
  BY <1>43 DEF OpcodeOf
<1> HIDE DEF OpsRow
<1> QED BY <1>1, <1>2, <1>3, <1>4, <1>5, <1>6, <1>7, <1>8, <1>9, <1>10, <1>11, <1>12,
     <1>13, <1>14, <1>15, <1>16, <1>17, <1>18, <1>19, <1>20, <1>21, <1>22, <1>23, <1>24,
     <1>25, <1>26, <1>27, <1>28, <1>29, <1>30, <1>31, <1>32, <1>33, <1>34, <1>35, <1>36,
     <1>37, <1>38, <1>39, <1>40, <1>41, <1>42, <1>43 DEF Handlers

-----------------------------------------------------------------------------
(* What the programmer sees while an instruction is under way stays what   *)
(* it was at its start.                                                    *)
LEMMA SeenOutside ==
    ASSUME AtBoundary
    PROVE  /\ Seen.A = A /\ Seen.X = X /\ Seen.Y = Y /\ Seen.SP = SP /\ Seen.PC = PC /\ Seen.P = P
           /\ Seen.halted = halted /\ Seen.took = cycles /\ Seen.mem = mem
           /\ Seen.rxByte = rxByte /\ Seen.rxReady = rxReady /\ Seen.out = out
           /\ Seen.tape = tape /\ Seen.pos = pos /\ Seen.motor = motor
           /\ Seen.eot = eot /\ Seen.err = err
<1>1. Seen = View
  BY DEF Seen
<1> QED BY <1>1 DEF View

LEMMA SeenAfter ==
    ASSUME AtBoundary'
    PROVE  /\ Seen'.A = A' /\ Seen'.X = X' /\ Seen'.Y = Y' /\ Seen'.SP = SP' /\ Seen'.PC = PC'
           /\ Seen'.P = P' /\ Seen'.halted = halted' /\ Seen'.took = cycles' /\ Seen'.mem = mem'
           /\ Seen'.rxByte = rxByte' /\ Seen'.rxReady = rxReady' /\ Seen'.out = out'
           /\ Seen'.tape = tape' /\ Seen'.pos = pos' /\ Seen'.motor = motor'
           /\ Seen'.eot = eot' /\ Seen'.err = err'
<1>1. Seen' = View'
  BY DEF Seen
<1> QED BY <1>1 DEF View

LEMMA SteadyBus ==
    ASSUME Seen' = Seen
    PROVE  \A a : ISA!BusData(a)' = ISA!BusData(a)
  BY DEF ISA!BusData, ISA!ReadValue, ISA!ReadSerial, ISA!ReadTape, ISA!TapeReadable

LEMMA SteadyFetch ==
    ASSUME Seen' = Seen
    PROVE  /\ \A n : ISA!At(n)' = ISA!At(n)
           /\ \A n : ISA!Popped(n)' = ISA!Popped(n)
           /\ \A n : ISA!StackCell(n)' = ISA!StackCell(n)
           /\ \A low, high : ISA!Cell16(low, high)' = ISA!Cell16(low, high)
           /\ \A p : ISA!ZeroPagePointer(p)' = ISA!ZeroPagePointer(p)
<1> USE SteadyBus
<1>1. \A n : ISA!At(n)' = ISA!At(n)
  BY DEF ISA!At
<1>2. \A n : ISA!StackCell(n)' = ISA!StackCell(n)
  BY DEF ISA!StackCell
<1>3. \A n : ISA!Popped(n)' = ISA!Popped(n)
  BY <1>2 DEF ISA!Popped, ISA!StackCell
<1>4. \A low, high : ISA!Cell16(low, high)' = ISA!Cell16(low, high)
  BY DEF ISA!Cell16
<1>5. \A p : ISA!ZeroPagePointer(p)' = ISA!ZeroPagePointer(p)
  BY DEF ISA!ZeroPagePointer, ISA!Cell16
<1> QED BY <1>1, <1>2, <1>3, <1>4, <1>5

LEMMA Steady ==
    ASSUME Seen' = Seen
    PROVE  /\ ISA!Instruction' = ISA!Instruction /\ ISA!Name' = ISA!Name /\ ISA!How' = ISA!How
           /\ ISA!Arg16' = ISA!Arg16 /\ ISA!BaseAddress' = ISA!BaseAddress
           /\ ISA!Address' = ISA!Address /\ ISA!Operand' = ISA!Operand
           /\ ISA!OtherPage' = ISA!OtherPage /\ ISA!Condition' = ISA!Condition
           /\ ISA!Unpromised' = ISA!Unpromised
<1> USE SteadyBus, SteadyFetch
<1>1. ISA!Instruction' = ISA!Instruction /\ ISA!Arg16' = ISA!Arg16
  BY DEF ISA!Instruction, ISA!Arg16
<1>2. ISA!Name' = ISA!Name /\ ISA!How' = ISA!How
  BY <1>1 DEF ISA!Name, ISA!How
<1>3. ISA!BaseAddress' = ISA!BaseAddress
  BY <1>1, <1>2 DEF ISA!BaseAddress
<1>4. ISA!Address' = ISA!Address
  BY <1>1, <1>2, <1>3 DEF ISA!Address
<1>5. ISA!Operand' = ISA!Operand /\ ISA!OtherPage' = ISA!OtherPage
  BY <1>3, <1>4 DEF ISA!Operand, ISA!OtherPage
<1>6. ISA!Condition' = ISA!Condition
  BY <1>2 DEF ISA!Condition
<1>7. ISA!Unpromised' = ISA!Unpromised
  BY <1>1, <1>2, <1>4 DEF ISA!Unpromised, ISA!Pointers
<1> QED BY <1>1, <1>2, <1>3, <1>4, <1>5, <1>6, <1>7

-----------------------------------------------------------------------------
(* What an instruction under way has done so far, from the instruction set *)
(* of what was seen at its start.                                          *)
SeenTyped ==
    /\ Seen.A \in Byte /\ Seen.X \in Byte /\ Seen.Y \in Byte /\ Seen.SP \in Byte
    /\ Seen.PC \in Word /\ Seen.P \subseteq StatusBit /\ Seen.mem \in Memory
    /\ Seen.rxByte \in TtyByte /\ Seen.rxReady \in BOOLEAN /\ Seen.tape \in Seq(TtyByte)
    /\ Seen.pos \in Nat /\ Seen.motor \in BOOLEAN /\ Seen.eot \in BOOLEAN
    /\ Seen.err \in BOOLEAN

H == Handler[IR]
Touching == Reading \cup Rewriting

(* The T-states whose capture is done: -1 before the fetch.                *)
Got == IF Captured THEN step ELSE step - 1

(* The cycles, the program counter and the registers.                      *)
Least(a, b) == IF a < b THEN a ELSE b
PCIs(n) == PC = ISA!Plus(Seen.PC, n)
Counted == cycles = step /\ PCIs(Least(step, Passed(H)))
AsBefore == A = Seen.A /\ X = Seen.X /\ Y = Seen.Y /\ halted = Seen.halted

(* The stack.                                                              *)
Back == ISA!Plus(Seen.PC, 2)
Shift(h, n) ==
    CASE h = "BRK" -> IF n <= 2 THEN 0 ELSE IF n = 3 THEN -1 ELSE IF n = 4 THEN -2 ELSE -3
      [] h = "JSR" -> IF n <= 3 THEN 0 ELSE IF n = 4 THEN -1 ELSE -2
      [] h = "RTS" -> IF n <= 2 THEN 0 ELSE IF n = 3 THEN 1 ELSE 2
      [] h = "RTI" -> IF n <= 2 THEN 0 ELSE IF n = 3 THEN 1 ELSE IF n = 4 THEN 2 ELSE 3
      [] h = "ImpliedPull" -> IF n <= 2 THEN 0 ELSE 1
      [] OTHER -> 0
Written(h, n) ==
    LET one == ISA!Pushed1(Back \div 256)
        two == ISA!Pushed2(Back \div 256, Back % 256)
        three == ISA!Pushed3(Back \div 256, Back % 256, StatusByte(Seen.P \cup {"B"}))
    IN  CASE h = "BRK" -> (IF n <= 2 THEN Seen.mem ELSE IF n = 3 THEN one
                           ELSE IF n = 4 THEN two ELSE three)
          [] h = "JSR" -> (IF n <= 3 THEN Seen.mem ELSE IF n = 4 THEN one ELSE two)
          [] OTHER -> Seen.mem
Status(h, n) ==
    IF h = "BRK" /\ n >= 5 THEN Seen.P \cup {"B", "I"}
    ELSE IF h = "RTI" /\ n >= 4 THEN StatusOf(ISA!Popped(1))
    ELSE Seen.P
Stacked ==
    /\ SP = (Seen.SP + Shift(H, step)) % 256
    /\ mem = Written(H, step)
    /\ P = Status(H, step)

(* A read of an indexed address stays for its page fixup only when there   *)
(* is one, a branch for its target only when it is taken.                  *)
Staying ==
    /\ Paged(H) /\ step > First(H) => ISA!OtherPage
    /\ H = "Branch" /\ step > 1 => taken
    /\ H = "Branch" /\ step > 2 => ISA!OtherPage

(* The address latches, by addressing mode and captures done.              *)
FirstByte(g) == g = 1 /\ ISA!How \in Addressing => addr = ISA!At(1)
DirectSince(g) ==
    \/ ISA!How = "zp" /\ g >= 1
    \/ ISA!How \in {"zpX", "zpY"} /\ g >= 2
    \/ ISA!How = "abs" /\ H # "JSR" /\ g >= 2
Direct(g) == DirectSince(g) => addr = ISA!Address
FixedSince(g) ==
    \/ ISA!How \in {"absX", "absY"} /\ g >= 2
    \/ ISA!How = "indX" /\ g >= 4
    \/ ISA!How = "indY" /\ g >= 3
    \/ ISA!How = "ind" /\ g >= 4
Fixed(g) == FixedSince(g) => eff = ISA!Address
Crosses(g) ==
    Paged(H) /\ g >= (IF ISA!How = "indY" THEN 3 ELSE 2) => crossed = ISA!OtherPage
Pointing(g) ==
    /\ ISA!How = "indX" /\ g \in {2, 3} => addr = (ISA!At(1) + Seen.X) % 256
    /\ ISA!How = "indX" /\ g = 3 => eff = ISA!BusData((ISA!At(1) + Seen.X) % 256)
    /\ ISA!How = "indY" /\ g = 2 => addr = ISA!At(1) /\ eff = ISA!BusData(ISA!At(1))
    /\ ISA!How = "ind" /\ g \in {2, 3} => addr = ISA!Arg16
    /\ ISA!How = "ind" /\ g = 3 => eff = ISA!BusData(ISA!Arg16)
Addressed(g) == FirstByte(g) /\ Direct(g) /\ Fixed(g) /\ Crosses(g) /\ Pointing(g)

(* What the other instructions keep in the latches.                        *)
Target == ISA!At(1) + 256 * BusData(Back)
Turning(g) ==
    H = "Branch" =>
        /\ g >= 1 => offset = Signed(ISA!At(1)) /\ taken = ISA!Condition
        /\ g >= 2 => eff = ISA!Address /\ crossed = ISA!OtherPage
Calling(g) ==
    H = "JSR" =>
        /\ g \in 1 .. 4 => addr = ISA!At(1)
        /\ g = 5 => addr = Target
Pulling(g) ==
    /\ H \in {"RTS", "ImpliedPull"} /\ g = 3 => addr = ISA!Popped(1)
    /\ H = "RTS" /\ g >= 4 => addr = ISA!Popped(1) + 256 * ISA!Popped(2)
    /\ H = "RTI" /\ step = 5 => addr = ISA!Popped(2)
Breaking(g) ==
    H = "BRK" =>
        /\ g = 5 => addr = ISA!BusData(BRKVector)
        /\ g = 6 => addr = ISA!Cell16(BRKVector, BRKVector + 1)

(* The operand in the ALU's latches.                                       *)
Doing(operand) ==
    /\ Op \in Binary =>
           /\ aluA = BinaryRegister /\ aluB = BinaryB(AluOp, operand)
           /\ aluCI = BinaryCarryIn(AluOp, "C" \in P) /\ aluF = BinaryFunction(AluOp)
    /\ Op \in UnaryOp =>
           /\ Op \in {"INC", "DEC"} => aluA = UnaryA(Op, 0)
           /\ aluB = operand
           /\ aluCI = UnaryCarryIn(Op, "C" \in P) /\ aluF = UnaryFunction(Op)
    /\ Op \in {"LDA", "LDX", "LDY"} => aluA = 0 /\ aluB = operand /\ aluF = "OR"

FixupOf(h) == IF Paged(h) /\ ISA!OtherPage THEN 1 ELSE 0
Has(g) == H \in Touching /\ g > 0 /\ g >= First(H) + FixupOf(H)
Operating(g) == Has(g) => Doing(ISA!Operand)

StepOp == CASE Op \in {"INX", "INY"} -> "INC" [] Op \in {"DEX", "DEY"} -> "DEC"
StepRegister == IF Op \in {"INX", "DEX"} THEN X ELSE Y
InRegister(g) ==
    g >= 1 =>
        /\ H = "ShiftAccumulator" => Doing(A)
        /\ H = "ImpliedTransfer" => aluA = 0 /\ aluB = TransferSource /\ aluF = "OR"
        /\ H = "ImpliedIncDec" =>
               /\ aluA = UnaryA(StepOp, 0) /\ aluB = StepRegister
               /\ aluCI = FALSE /\ aluF = "ADD"

(* The device: untouched, or read once at the operand's address.           *)
DeckSame == tape = Seen.tape /\ motor = Seen.motor
DeviceStill ==
    /\ rxByte = Seen.rxByte /\ rxReady = Seen.rxReady /\ out = Seen.out
    /\ DeckSame /\ pos = Seen.pos /\ eot = Seen.eot /\ err = Seen.err
TapeRead ==
    \/ /\ Backing = "none" \/ ~Seen.motor
       /\ err /\ pos = Seen.pos /\ eot = Seen.eot
    \/ /\ Backing # "none" /\ Seen.motor /\ ~ISA!TapeReadable
       /\ eot /\ err /\ pos = Seen.pos
    \/ /\ ISA!TapeReadable
       /\ ~eot /\ ~err /\ pos = Seen.pos + 1
ReadSince(o) ==
    \/ /\ o = SerialData
       /\ ~rxReady /\ rxByte = Seen.rxByte /\ out = Seen.out
       /\ DeckSame /\ pos = Seen.pos /\ eot = Seen.eot /\ err = Seen.err
    \/ /\ o = TapeData
       /\ rxByte = Seen.rxByte /\ rxReady = Seen.rxReady /\ out = Seen.out
       /\ DeckSame /\ TapeRead
    \/ o \notin {SerialData, TapeData} /\ DeviceStill
DeviceSo(g) ==
    IF Has(g) /\ ISA!Address \in TtyPage THEN ReadSince(ISA!Address - TtyBase) ELSE DeviceStill

Latched(g) ==
    /\ g >= 0 => IR = ISA!Instruction
    /\ Addressed(g) /\ Turning(g) /\ Calling(g) /\ Pulling(g) /\ Breaking(g)
    /\ Operating(g) /\ InRegister(g) /\ DeviceSo(g)
Committed == Counted /\ AsBefore /\ Stacked /\ Staying
Underway == ~AtBoundary /\ ~resetActive => ~ISA!Unpromised /\ Committed /\ Latched(Got)

-----------------------------------------------------------------------------
(* The bus as the instruction set sees it.                                 *)
LEMMA SamePage == ISA!TtyPage = TtyPage
  BY DEF ISA!TtyPage, TtyPage

LEMMA SameBus ==
    ASSUME mem = Seen.mem, NEW a, a \in TtyPage => DeviceStill
    PROVE  BusData(a) = ISA!BusData(a)
<1>1. CASE a \in TtyPage
  <2>1. DeviceStill
    BY <1>1
  <2>2. ReadSerial(a - TtyBase) = ISA!ReadSerial(a - TtyBase)
    BY <2>1 DEF DeviceStill, ReadSerial, ISA!ReadSerial, Flag, ISA!Flag, SerialStatus, ISA!SerialStatus
  <2>3. TapeReadable = ISA!TapeReadable
    BY <2>1 DEF DeviceStill, DeckSame, TapeReadable, ISA!TapeReadable
  <2>4. ReadTape(a - TtyBase) = ISA!ReadTape(a - TtyBase)
    BY <2>1, <2>3 DEF DeviceStill, DeckSame, ReadTape, ISA!ReadTape, Flag, ISA!Flag, TapeStatus,
       ISA!TapeStatus, TapeControl, ISA!TapeControl, TapeData, ISA!TapeData
  <2>5. ReadValue(a - TtyBase) = ISA!ReadValue(a - TtyBase)
    BY <2>2, <2>4 DEF ReadValue, ISA!ReadValue, SerialData, ISA!SerialData, TapeData, ISA!TapeData
  <2> QED BY <2>5, SamePage DEF BusData, ISA!BusData
<1>2. CASE a \notin TtyPage
  BY <1>2, SamePage DEF BusData, ISA!BusData
<1> QED BY <1>1, <1>2

LEMMA SeenData ==
    ASSUME SeenTyped, NEW a
    PROVE  ISA!BusData(a) \in Byte
<1>1. CASE a \in Ram \cup Rom
  <2>1. Seen.mem[a] \in Byte
    BY <1>1, TtyByteIsByte DEF SeenTyped, Memory
  <2> QED BY <1>1, <2>1 DEF ISA!BusData
<1>2. CASE a \notin Ram \cup Rom /\ a \notin TtyPage
  BY <1>2, SamePage DEF ISA!BusData, Byte
<1>3. CASE a \notin Ram \cup Rom /\ a \in TtyPage
  <2> DEFINE o == a - TtyBase
  <2>1. o \in Nat
    BY <1>3, InTtyPage
  <2>2. ISA!ReadSerial(o) \in Byte
    BY TtyByteIsByte DEF ISA!ReadSerial, ISA!Flag, SeenTyped, Byte
  <2>3. o = TapeStatus => ISA!ReadTape(o) \in Byte
    BY DEF ISA!ReadTape, ISA!Flag, Byte, TapeStatus, ISA!TapeStatus, ISA!TapeControl, ISA!TapeData
  <2>4. o = TapeControl => ISA!ReadTape(o) \in Byte
    BY DEF ISA!ReadTape, Byte, TapeControl, ISA!TapeStatus, ISA!TapeControl, ISA!TapeData
  <2>5. o = TapeData => ISA!ReadTape(o) \in Byte
    <3>1. ISA!TapeReadable => Seen.pos + 1 \in 1 .. Len(Seen.tape)
      BY DEF ISA!TapeReadable, SeenTyped
    <3>2. ISA!TapeReadable => Seen.tape[Seen.pos + 1] \in Byte
      BY <3>1, TtyByteIsByte DEF SeenTyped
    <3>3. 0 \in Byte
      BY DEF Byte
    <3> QED BY <3>2, <3>3 DEF ISA!ReadTape, TapeData, ISA!TapeStatus, ISA!TapeControl, ISA!TapeData
  <2>6. o <= SerialData \/ o \in {TapeStatus, TapeControl, TapeData} \/ ~(o <= TapeData)
    BY <2>1 DEF SerialData, TapeStatus, TapeControl, TapeData
  <2>7. 0 \in Byte
    BY DEF Byte
  <2> HIDE DEF o
  <2>8. ISA!ReadValue(o) \in Byte
    BY <2>1, <2>2, <2>3, <2>4, <2>5, <2>6, <2>7 DEF ISA!ReadValue, SerialData, ISA!SerialData,
       TapeData, ISA!TapeData
  <2> QED BY <1>3, <2>8, SamePage DEF ISA!BusData, o
<1> QED BY <1>1, <1>2, <1>3

(* The program counter a few bytes on.                                     *)
LEMMA PlusZero ==
    ASSUME NEW w \in Word
    PROVE  ISA!Plus(w, 0) = w
<1>1. w \in Int /\ 0 <= w /\ w <= 65535
  BY WordRange
<1>2. w + 0 = w /\ w % 65536 = w
  BY <1>1
<1> QED BY <1>2 DEF ISA!Plus

LEMMA PlusNext ==
    ASSUME NEW w \in Word, NEW n \in Int
    PROVE  Next16(ISA!Plus(w, n)) = ISA!Plus(w, n + 1) /\ ISA!Plus(w, n) \in Word
<1>1. w + n \in Int
  BY WordRange
<1> DEFINE v == w + n
<1>2. ((v % 65536) + 1) % 65536 = (v + 1) % 65536
  BY <1>1
<1>3. v % 65536 \in Word
  BY <1>1, ModWord
<1>4. v + 1 = w + (n + 1)
  BY WordRange
<1> HIDE DEF v
<1> QED BY <1>2, <1>3, <1>4 DEF Next16, ISA!Plus, v

(* A read outside the device's page changes nothing.                       *)
LEMMA QuietRead ==
    ASSUME NEW a, a \notin TtyPage, BusRead(a)
    PROVE  UNCHANGED busVars
  BY DEF BusRead, ttyVars, busVars, serial, deck

LEMMA StillBus ==
    ASSUME Seen' = Seen, UNCHANGED busVars
    PROVE  /\ DeviceStill' = DeviceStill
           /\ \A o : ReadSince(o)' = ReadSince(o)
<1>1. DeviceStill' = DeviceStill
  BY DEF DeviceStill, DeckSame, busVars, serial, deck
<1>2. TapeRead' = TapeRead
  BY DEF TapeRead, ISA!TapeReadable, busVars, serial, deck
<1> QED BY <1>1, <1>2 DEF ReadSince, DeckSame, busVars, serial, deck

(* The read of the operand's register.                                     *)
LEMMA NotedRead ==
    ASSUME Seen' = Seen, DeviceStill, NEW o, TtyRead(o)
    PROVE  ReadSince(o)'
<1>1. CASE o = SerialData /\ ReadSerialData
  BY <1>1 DEF ReadSerialData, ReadSince, DeviceStill, DeckSame, deck
<1>2. CASE o = TapeData /\ ReadTapeData
  <2>1. TapeReadable = ISA!TapeReadable
    BY DEF DeviceStill, DeckSame, TapeReadable, ISA!TapeReadable
  <2>2. ISA!TapeReadable' = ISA!TapeReadable
    BY DEF ISA!TapeReadable
  <2>3. TapeRead' /\ DeckSame'
    BY <1>2, <2>1, <2>2 DEF ReadTapeData, ReadTapeStopped, ReadTapeEnd, ReadTapeByte,
       TapeRead, DeviceStill, DeckSame
  <2> QED BY <1>2, <2>3 DEF ReadSince, ReadTapeData, DeviceStill, serial
<1>3. CASE o \notin {SerialData, TapeData} /\ UNCHANGED ttyVars
  BY <1>3 DEF ReadSince, DeviceStill, DeckSame, ttyVars
<1> QED BY <1>1, <1>2, <1>3 DEF TtyRead

(* What the promise covers.                                                *)
LEMMA Promised ==
    ASSUME ~ISA!Unpromised
    PROVE  /\ ISA!Plus(Seen.PC, 0) \notin TtyPage
           /\ ISA!Plus(Seen.PC, 1) \notin TtyPage
           /\ ISA!Plus(Seen.PC, 2) \notin TtyPage
           /\ \A a \in 256 .. 511 : a \notin TtyPage
           /\ \A a \in ISA!Pointers : a \notin TtyPage
           /\ ISA!Name \in ISA!Modifies /\ ISA!How # "none" => ISA!Address \notin TtyPage
<1>1. ({ISA!Plus(Seen.PC, n) : n \in 0 .. 2} \cup ISA!Pointers \cup 256 .. 511) \cap TtyPage = {}
  BY SamePage DEF ISA!Unpromised
<1>2. ISA!Name \in ISA!Modifies /\ ISA!How # "none" => ISA!Address \notin TtyPage
  BY SamePage DEF ISA!Unpromised
<1>3. \A n \in 0 .. 2 : ISA!Plus(Seen.PC, n) \notin TtyPage
  BY <1>1
<1>4. /\ \A a \in 256 .. 511 : a \notin TtyPage
      /\ \A a \in ISA!Pointers : a \notin TtyPage
  BY <1>1
<1> QED BY <1>2, <1>3, <1>4

-----------------------------------------------------------------------------
(* The High edges of an instruction under way.                             *)
LEMMA CaptureKeepsMemory ==
    ASSUME NEW what, Capture(what)
    PROVE  UNCHANGED mem
<1>1. ASSUME NEW a, BusRead(a) PROVE UNCHANGED mem
  BY <1>1 DEF BusRead
<1>2. ASSUME BusIdle PROVE UNCHANGED mem
  BY <1>2 DEF BusIdle, busVars
<1>3. CASE Idle \/ DummyRead \/ OpcodeFetch \/ BranchOffset \/ BranchTarget \/ OperandInRegister
  BY <1>1, <1>2, <1>3 DEF Idle, DummyRead, OpcodeFetch, BranchOffset, BranchTarget,
     OperandInRegister
<1>4. CASE \E a, v : LoadAddr(a, v)
  BY <1>1, <1>4 DEF LoadAddr
<1>5. CASE \E a, v : LoadEff(a, v)
  BY <1>1, <1>5 DEF LoadEff
<1>6. CASE \E a, b, i : LoadIndexed(a, b, i)
  BY <1>1, <1>6 DEF LoadIndexed
<1>7. CASE \E i : IndexZeroPage(i)
  BY <1>2, <1>7 DEF IndexZeroPage
<1>8. CASE \E a : OperandAt(a)
  BY <1>1, <1>8 DEF OperandAt
<1>9. CASE OperandIfSamePage
  BY <1>3, <1>8, <1>9 DEF OperandIfSamePage
<1>10. CASE FetchLow \/ FetchHigh \/ TargetHigh \/ PullLow \/ PullHigh
  BY <1>4, <1>10, Zenon DEF FetchLow, FetchHigh, TargetHigh, PullLow, PullHigh
<1>11. CASE \E v : VectorLow(v) \/ VectorHigh(v)
  BY <1>4, <1>11, Zenon DEF VectorLow, VectorHigh
<1>12. CASE PointerLow \/ PointerHigh \/ PointerHighInPage
  BY <1>5, <1>12, Zenon DEF PointerLow, PointerHigh, PointerHighInPage
<1>13. CASE FetchBase(X) \/ FetchBase(Y) \/ PointerBase
  BY <1>6, <1>13, Zenon DEF FetchBase, PointerBase
<1>14. CASE FetchFixed(X) \/ FetchFixed(Y) \/ PointerFixed
  BY <1>5, <1>14, Zenon DEF FetchFixed, PointerFixed
<1> QED BY <1>3, <1>7, <1>8, <1>9, <1>10, <1>11, <1>12, <1>13, <1>14, Zenon DEF Capture

AtCapture ==
    /\ IInv /\ SeenTyped /\ ~ISA!Unpromised /\ Committed /\ Latched(step - 1)
    /\ ~resetActive /\ step \in 1 .. 6 /\ OnClockHigh /\ Seen' = Seen

(* The instruction set decodes as the handler does.                        *)
LEMMA SameDecoding ==
    ASSUME IR \in Byte, IR = ISA!Instruction
    PROVE  /\ H \in Handlers \cup {"Unimplemented"}
           /\ ISA!How = HowOf(H)
           /\ ISA!Name = IF H = "Unimplemented" THEN "" ELSE Op
           /\ H # "Unimplemented" => Op \in DOMAIN OpcodeOf[H] /\ OpsRow(H)
<1>1. Decodes(IR, NameOf(IR), ModeOf(IR))
  BY DecodersAgree
<1>2. ISA!Mnemonic(IR) = NameOf(IR) /\ ISA!Mode(IR) = ModeOf(IR)
  BY <1>1, Zenon DEF Decodes
<1>3. ISA!Name = NameOf(IR) /\ ISA!How = ModeOf(IR)
  BY <1>2 DEF ISA!Name, ISA!How
<1>4. H \in Handlers \cup {"Unimplemented"}
  BY Dispatch DEF H
<1>5. H # "Unimplemented" => Op \in DOMAIN OpcodeOf[H]
  BY Dispatch DEF H, Op
<1>6. H # "Unimplemented" => OpsRow(H)
  BY <1>4, Operations
<1>7. ModeOf(IR) = HowOf(H)
  BY Zenon DEF ModeOf, HowOf, H
<1>8. NameOf(IR) = IF H = "Unimplemented" THEN "" ELSE Op
  BY Zenon DEF NameOf, H, Op
<1> QED BY <1>3, <1>4, <1>5, <1>6, <1>7, <1>8

CaptureView ==
    /\ IR \in Byte /\ IR = ISA!Instruction /\ H \in Handlers \cup {"Unimplemented"}
    /\ ISA!How = HowOf(H) /\ step \in DOMAIN Rows(H).commit /\ Capture(Captures(H, step))
    /\ UNCHANGED <<A, X, Y, SP, PC, P, step, halted, resetActive, mem>>
    /\ IR' = IR /\ H' = H
    /\ PC = ISA!Plus(Seen.PC, Least(step, Passed(H)))

LEMMA CaptureFacts ==
    ASSUME AtCapture
    PROVE  CaptureView
<1>1. IR \in Byte /\ DatapathOK /\ WithinHandler /\ step \in 1 .. 6
  BY DEF AtCapture, IInv, DatapathOK
<1>2. IR = ISA!Instruction
  <2>1. step - 1 >= 0
    BY <1>1
  <2> QED BY <2>1 DEF AtCapture, Latched
<1>3. H \in Handlers \cup {"Unimplemented"} /\ ISA!How = HowOf(H)
  BY <1>1, <1>2, SameDecoding
<1>4. Microprogram[IR] = Rows(H)
  BY <1>1 DEF Microprogram, H
<1>5. step \in DOMAIN Rows(H).commit
  BY <1>1, <1>4 DEF AtCapture, WithinHandler
<1>6. Capture(Captures(H, step))
  <2>1. CaptureNow = Captures(H, step)
    BY <1>1, <1>4 DEF AtCapture, CaptureNow, Captures
  <2> QED BY <2>1 DEF AtCapture, OnClockHigh
<1>7. UNCHANGED mem
  BY <1>6, CaptureKeepsMemory
<1>8. UNCHANGED <<A, X, Y, SP, PC, P, step, halted, resetActive>>
  BY DEF AtCapture, OnClockHigh, registers
<1>9. IR' = IR
  <2>1. OnlyWhere(H, Rows(H))
    BY <1>3, RowsClosed
  <2>2. Captures(H, step) # "opcodeFetch" /\ (Captures(H, step) = "branchOffset" => H = "Branch")
    BY <2>1 DEF OnlyWhere, Captures
  <2> QED BY <1>1, <1>6, <2>2, CaptureType DEF H
<1>10. H' = H
  BY <1>9 DEF H
<1>11. PC = ISA!Plus(Seen.PC, Least(step, Passed(H)))
  BY DEF AtCapture, Committed, Counted, PCIs
<1> QED BY <1>1, <1>2, <1>3, <1>5, <1>6, <1>7, <1>8, <1>9, <1>10, <1>11 DEF CaptureView

(* The bytes of the instruction that come through PC.                      *)
LEMMA ProgramByte ==
    ASSUME AtCapture, CaptureView, NEW n \in 0 .. 2, Least(step, Passed(H)) = n,
           H \notin {"JSR", "BRK"}
    PROVE  PC \notin TtyPage /\ BusData(PC) = ISA!At(n) /\ ISA!At(n) \in Byte
<1>1. PC = ISA!Plus(Seen.PC, n)
  BY DEF CaptureView
<1>2. PC \notin TtyPage
  BY <1>1, Promised DEF AtCapture
<1>3. mem = Seen.mem
  BY DEF AtCapture, Committed, Stacked, Written
<1>4. BusData(PC) = ISA!BusData(PC)
  BY <1>2, <1>3, SameBus
<1>5. ISA!BusData(PC) \in Byte
  BY SeenData DEF AtCapture
<1> QED BY <1>1, <1>2, <1>4, <1>5 DEF ISA!At

(* A capture that only touches the ALU leaves the addresses.               *)
LEMMA QuietCapture ==
    ASSUME NEW what \in Quiet, Capture(what)
    PROVE  /\ UNCHANGED <<addr, eff, crossed, offset, taken>>
           /\ what \notin Fetches => UNCHANGED <<aluF, aluA, aluB, aluCI>> /\ BusIdle
<1>1. Idle \/ OperandAt(PC) \/ OperandAt(addr) \/ OperandAt(eff) \/ OperandIfSamePage
  BY DEF Capture, Quiet, Fetches
<1>2. what \notin Fetches => Idle
  BY DEF Capture, Quiet, Fetches
<1> QED BY <1>1, <1>2 DEF Idle, OperandAt, OperandIfSamePage, latches, address, branch

(* The address, mode by mode.                                              *)
HeldAddress == Addressed(step)' /\ (Captures(H, step) \notin Fetches => UNCHANGED busVars)

SteadyNames ==
    /\ ISA!How' = ISA!How /\ ISA!Address' = ISA!Address /\ ISA!OtherPage' = ISA!OtherPage
    /\ ISA!Arg16' = ISA!Arg16 /\ ISA!At(1)' = ISA!At(1) /\ Seen'.X = Seen.X
    /\ \A a : ISA!BusData(a)' = ISA!BusData(a)
    /\ step' = step /\ H' = H /\ Paged(H)' = Paged(H)

LEMMA CaptureSteady ==
    ASSUME AtCapture, CaptureView
    PROVE  SteadyNames
<1>1. Seen' = Seen /\ H' = H /\ step' = step
  BY DEF AtCapture, CaptureView
<1>2. Paged(H)' = Paged(H)
  BY <1>1 DEF Paged, HowOf
<1> QED BY <1>1, <1>2, Steady, SteadyFetch, SteadyBus DEF SteadyNames

LEMMA PassedBytes ==
    ASSUME NEW h, HowOf(h) \in Addressing, h # "JSR", Kind(h)
    PROVE  /\ Least(1, Passed(h)) = 1
           /\ HowOf(h) \in {"abs", "absX", "absY", "ind"} => Least(2, Passed(h)) = 2
<1>1. h # "BRK" /\ h # "Branch"
  BY DEF Kind, Addressing, OnStack
<1>2. Passed(h) \in {2, 3} /\ HowOf(h) \notin {"none", "imm"}
  BY <1>1 DEF Passed, Addressing
<1> QED BY <1>2 DEF Least

(* T1 fetches the first operand byte in every mode that forms an address.  *)
LEMMA FirstFetch ==
    ASSUME AtCapture, CaptureView, ISA!How \in Addressing, H # "JSR", step = 1
    PROVE  /\ addr' = ISA!At(1) /\ UNCHANGED <<eff, crossed, busVars>>
           /\ FirstByte(step)'
<1>1. H \in Handlers \cup {"Unimplemented"} /\ HowOf(H) = ISA!How
  BY DEF CaptureView
<1>2. Captures(H, 1) = "fetchLow"
  BY <1>1, Timing DEF AddressRow
<1>3. FetchLow
  <2>1. Capture("fetchLow")
    BY <1>2 DEF CaptureView
  <2> QED BY <2>1 DEF Capture
<1>4. Least(1, Passed(H)) = 1 /\ H # "BRK"
  <2>1. Kind(H)
    BY <1>1, Timing
  <2> QED BY <1>1, <2>1, PassedBytes DEF Kind, Addressing, OnStack
<1>5. PC \notin TtyPage /\ BusData(PC) = ISA!At(1)
  BY <1>4, ProgramByte
<1>6. addr' = ISA!At(1) /\ UNCHANGED <<eff, crossed>> /\ BusRead(PC)
  BY <1>3, <1>5 DEF FetchLow, LoadAddr
<1>7. UNCHANGED busVars
  BY <1>5, <1>6, QuietRead
<1> QED BY <1>6, <1>7, CaptureSteady DEF FirstByte, SteadyNames

(* What the later T-states of a mode have in common.                       *)
ModeView ==
    /\ H \in Handlers \cup {"Unimplemented"} /\ HowOf(H) = ISA!How /\ H # "JSR" /\ H # "BRK"
    /\ AddressRow(H) /\ Kind(H) /\ step \in 1 .. 6 /\ Addressed(step - 1) /\ SteadyNames
    /\ A = Seen.A /\ X = Seen.X /\ Y = Seen.Y /\ X \in Byte /\ Y \in Byte /\ SeenTyped
    /\ \A n : ISA!At(n) \in Byte

LEMMA ModeFacts ==
    ASSUME AtCapture, CaptureView, ISA!How \in Addressing, H # "JSR"
    PROVE  ModeView
<1>1. H \in Handlers \cup {"Unimplemented"} /\ HowOf(H) = ISA!How
  BY DEF CaptureView
<1>2. AddressRow(H) /\ Kind(H)
  BY <1>1, Timing
<1>3. H # "BRK"
  BY <1>1, <1>2 DEF Kind, Addressing, OnStack
<1>4. step \in 1 .. 6 /\ Addressed(step - 1) /\ A = Seen.A /\ X = Seen.X /\ Y = Seen.Y /\ SeenTyped
  BY DEF AtCapture, Latched, Committed, AsBefore
<1>5. X \in Byte /\ Y \in Byte
  BY DEF AtCapture, IInv, DatapathOK, RegistersOK
<1>6. \A n : ISA!At(n) \in Byte
  BY <1>4, SeenData DEF ISA!At
<1> QED BY <1>1, <1>2, <1>3, <1>4, <1>5, <1>6, CaptureSteady DEF ModeView

LEMMA MemoryByte ==
    ASSUME AtCapture, H \notin {"JSR", "BRK"}, NEW a, a \notin TtyPage
    PROVE  /\ BusData(a) = ISA!BusData(a) /\ BusData(a) \in Byte
           /\ BusRead(a) => UNCHANGED busVars
<1>1. mem = Seen.mem
  BY DEF AtCapture, Committed, Stacked, Written
<1>2. BusData(a) = ISA!BusData(a)
  BY <1>1, SameBus
<1>3. ISA!BusData(a) \in Byte
  BY SeenData DEF AtCapture
<1> QED BY <1>2, <1>3, QuietRead

(* Once the address stands, it stays.                                      *)
LEMMA AddressStays ==
    ASSUME CaptureView, ModeView, Captures(H, step) \in Quiet, step >= 2,
           ISA!How \in {"zpX", "zpY", "abs", "absX", "absY"} => step >= 3,
           ISA!How \in {"indX", "ind"} => step >= 5,
           ISA!How = "indY" => step >= 4
    PROVE  HeldAddress
<1>1. Capture(Captures(H, step))
  BY DEF CaptureView
<1>2. UNCHANGED <<addr, eff, crossed>> /\ (Captures(H, step) \notin Fetches => UNCHANGED busVars)
  BY <1>1, QuietCapture DEF BusIdle
<1>3. step \in 1 .. 6 /\ H # "JSR" /\ SteadyNames
  BY DEF ModeView
<1>4. FirstByte(step)' /\ Pointing(step)'
  BY <1>3 DEF FirstByte, Pointing, SteadyNames
<1>5. DirectSince(step)' => DirectSince(step - 1)
  BY <1>3 DEF DirectSince, SteadyNames
<1>6. FixedSince(step)' => FixedSince(step - 1)
  BY <1>3 DEF FixedSince, SteadyNames
<1>7. Paged(H) /\ step >= (IF ISA!How = "indY" THEN 3 ELSE 2)
          => step - 1 >= (IF ISA!How = "indY" THEN 3 ELSE 2)
  <2>1. Paged(H) => ISA!How \in {"absX", "absY", "indY"}
    BY DEF Paged, ModeView
  <2> QED BY <1>3, <2>1
<1>8. Direct(step)' /\ Fixed(step)' /\ Crosses(step)'
  BY <1>2, <1>3, <1>5, <1>6, <1>7 DEF ModeView, Addressed, Direct, Fixed, Crosses, SteadyNames
<1> QED BY <1>2, <1>4, <1>8 DEF HeldAddress, Addressed

(* T1, where nothing but the first byte is known.                          *)
LEMMA AddressBegins ==
    ASSUME AtCapture, CaptureView, ModeView, ISA!How \in Addressing, step = 1
    PROVE  HeldAddress
<1>1. addr' = ISA!At(1) /\ UNCHANGED busVars /\ FirstByte(step)' /\ SteadyNames
  BY FirstFetch DEF ModeView
<1>2. ISA!How = "zp" => ISA!Address = ISA!At(1)
  BY DEF ISA!Address
<1> QED BY <1>1, <1>2 DEF HeldAddress, SteadyNames, Addressed, Direct, DirectSince, Fixed,
           FixedSince, Crosses, Pointing

LEMMA IndexedZeroPageHeld ==
    ASSUME AtCapture, CaptureView, ModeView, ISA!How \in {"zpX", "zpY"}
    PROVE  HeldAddress
<1>1. HowOf(H) = ISA!How /\ AddressRow(H) /\ step \in 1 .. 6 /\ Addressed(step - 1) /\ SteadyNames
  BY DEF ModeView
<1>2. CASE step = 1
  BY <1>2, AddressBegins DEF Addressing
<1>3. CASE step = 2
  <2>1. IndexZeroPage(IF ISA!How = "zpX" THEN X ELSE Y)
    <3>1. Capture(IF ISA!How = "zpX" THEN "indexX" ELSE "indexY")
      BY <1>1, <1>3 DEF AddressRow, CaptureView
    <3> QED BY <3>1 DEF Capture
  <2>2. addr = ISA!At(1)
    BY <1>1, <1>3 DEF Addressed, FirstByte, Addressing
  <2>3. addr' = ISA!Address /\ UNCHANGED busVars
    BY <2>1, <2>2 DEF IndexZeroPage, BusIdle, ISA!Address, ModeView
  <2>4. ~Paged(H)
    BY <1>1 DEF Paged
  <2> QED BY <1>1, <1>3, <2>3, <2>4 DEF HeldAddress, SteadyNames, Addressed, FirstByte, Direct,
             Fixed, FixedSince, Crosses, Pointing
<1>4. CASE step >= 3
  <2>1. Captures(H, step) \in Quiet
    BY <1>1, <1>4 DEF AddressRow
  <2> QED BY <1>1, <1>4, <2>1, AddressStays
<1> QED BY <1>1, <1>2, <1>3, <1>4

(* The two bytes of an absolute address.                                   *)
LEMMA SecondFetch ==
    ASSUME AtCapture, CaptureView, ModeView, step = 2,
           ISA!How \in {"abs", "absX", "absY", "ind"}
    PROVE  /\ OrHigh(addr, BusData(PC)) = ISA!Arg16 /\ ISA!Arg16 \in Word
           /\ BusRead(PC) => UNCHANGED busVars
<1>1. Least(2, Passed(H)) = 2
  BY PassedBytes DEF ModeView, Addressing
<1>2. PC \notin TtyPage /\ BusData(PC) = ISA!At(2)
  BY <1>1, ProgramByte DEF ModeView
<1>3. addr = ISA!At(1)
  BY DEF ModeView, Addressed, FirstByte, Addressing
<1>4. ISA!At(1) \in Byte /\ ISA!At(2) \in Byte
  BY DEF ModeView
<1>5. OrHigh(addr, BusData(PC)) = ISA!Arg16
  BY <1>2, <1>3, <1>4, JoinedHalves DEF ISA!Arg16
<1>6. ISA!Arg16 \in Word
  BY <1>2, <1>3, <1>4, <1>5, Joined, ByteInWord
<1> QED BY <1>2, <1>5, <1>6, QuietRead

LEMMA AbsoluteHeld ==
    ASSUME AtCapture, CaptureView, ModeView, ISA!How = "abs"
    PROVE  HeldAddress
<1>1. HowOf(H) = "abs" /\ H # "JSR" /\ AddressRow(H) /\ step \in 1 .. 6 /\ SteadyNames
  BY DEF ModeView
<1>2. CASE step = 1
  BY <1>2, AddressBegins DEF Addressing
<1>3. CASE step = 2
  <2>1. FetchHigh
    <3>1. Capture("fetchHigh")
      BY <1>1, <1>3 DEF AddressRow, CaptureView
    <3> QED BY <3>1 DEF Capture
  <2>2. addr' = ISA!Address /\ UNCHANGED busVars
    BY <1>3, <2>1, SecondFetch DEF FetchHigh, LoadAddr, ISA!Address
  <2>3. ~Paged(H)
    BY <1>1 DEF Paged
  <2> QED BY <1>1, <1>3, <2>2, <2>3 DEF HeldAddress, SteadyNames, Addressed, FirstByte, Direct,
             Fixed, FixedSince, Crosses, Pointing
<1>4. CASE step >= 3
  <2>1. Captures(H, step) \in Quiet
    BY <1>1, <1>4 DEF AddressRow
  <2> QED BY <1>1, <1>4, <2>1, AddressStays
<1> QED BY <1>1, <1>2, <1>3, <1>4

LEMMA ZeroPageHeld ==
    ASSUME AtCapture, CaptureView, ModeView, ISA!How = "zp"
    PROVE  HeldAddress
<1>1. HowOf(H) = "zp" /\ AddressRow(H) /\ step \in 1 .. 6
  BY DEF ModeView
<1>2. CASE step = 1
  BY <1>2, AddressBegins DEF Addressing
<1>3. CASE step >= 2
  <2>1. Captures(H, step) \in Quiet
    BY <1>1, <1>3 DEF AddressRow
  <2> QED BY <1>1, <1>3, <2>1, AddressStays
<1> QED BY <1>1, <1>2, <1>3

(* Indexed absolute addresses: a read notes the page crossing.             *)
LEMMA IndexingAgrees ==
    ASSUME ModeView, ISA!How \in {"absX", "absY", "indY"},
           NEW base, base = ISA!BaseAddress,
           NEW index, index = IF ISA!How = "absX" THEN X ELSE Y
    PROVE  /\ Indexed(base, index) = ISA!Address
           /\ PageCrossed(base, Indexed(base, index)) = ISA!OtherPage
<1>1. Indexed(base, index) = ISA!Address
  BY DEF ModeView, Indexed, ISA!Address, ISA!Plus
<1> QED BY <1>1, Zenon DEF PageCrossed, ISA!OtherPage, HighByte

LEMMA IndexedHeld ==
    ASSUME AtCapture, CaptureView, ModeView, ISA!How \in {"absX", "absY"}
    PROVE  HeldAddress
<1>1. HowOf(H) = ISA!How /\ AddressRow(H) /\ step \in 1 .. 6 /\ SteadyNames
  BY DEF ModeView
<1>2. CASE step = 1
  BY <1>2, AddressBegins DEF Addressing
<1>3. CASE step = 2
  <2> DEFINE index == IF ISA!How = "absX" THEN X ELSE Y
  <2>1. IF H \in Reading THEN FetchBase(index) ELSE FetchFixed(index)
    <3>1. Capture(IF H \in Reading THEN (IF ISA!How = "absX" THEN "fetchBaseX" ELSE "fetchBaseY")
                  ELSE (IF ISA!How = "absX" THEN "fetchFixedX" ELSE "fetchFixedY"))
      BY <1>1, <1>3 DEF AddressRow, CaptureView
    <3> QED BY <3>1 DEF Capture
  <2>2. OrHigh(addr, BusData(PC)) = ISA!BaseAddress
    BY <1>3, SecondFetch DEF ISA!BaseAddress
  <2>3. /\ Indexed(OrHigh(addr, BusData(PC)), index) = ISA!Address
        /\ PageCrossed(OrHigh(addr, BusData(PC)), Indexed(OrHigh(addr, BusData(PC)), index))
             = ISA!OtherPage
    BY <2>2, IndexingAgrees
  <2>4. eff' = ISA!Address /\ (H \in Reading => crossed' = ISA!OtherPage) /\ BusRead(PC)
    BY <2>1, <2>3 DEF FetchBase, FetchFixed, LoadIndexed, LoadEff
  <2>5. UNCHANGED busVars
    BY <1>3, <2>4, SecondFetch
  <2>6. Paged(H) => H \in Reading
    BY DEF Paged
  <2> QED BY <1>1, <1>3, <2>4, <2>5, <2>6 DEF HeldAddress, SteadyNames, Addressed, FirstByte,
             Direct, DirectSince, Fixed, Crosses, Pointing
<1>4. CASE step >= 3
  <2>1. Captures(H, step) \in Quiet
    BY <1>1, <1>4 DEF AddressRow
  <2> QED BY <1>1, <1>4, <2>1, AddressStays
<1> QED BY <1>1, <1>2, <1>3, <1>4

(* The two bytes of a pointer.                                             *)
LEMMA PointerBytes ==
    ASSUME AtCapture, H \notin {"JSR", "BRK"}, NEW p \in ISA!Pointers
    PROVE  /\ BusData(p) = ISA!BusData(p) /\ BusData(p) \in Byte
           /\ BusRead(p) => UNCHANGED busVars
<1>1. p \notin TtyPage
  BY Promised DEF AtCapture
<1> QED BY <1>1, MemoryByte

LEMMA NextInPage ==
    ASSUME NEW v \in Int
    PROVE  ((v % 256) + 1) % 256 = (v + 1) % 256
  OBVIOUS

LEMMA IndirectXHeld ==
    ASSUME AtCapture, CaptureView, ModeView, ISA!How = "indX"
    PROVE  HeldAddress
<1> DEFINE p == (ISA!At(1) + Seen.X) % 256
           q == (p + 1) % 256
<1>1. HowOf(H) = "indX" /\ AddressRow(H) /\ step \in 1 .. 6 /\ Addressed(step - 1) /\ SteadyNames
  BY DEF ModeView
<1>2. p \in ISA!Pointers /\ q \in ISA!Pointers
  <2>1. ISA!At(1) + Seen.X \in Int
    BY ByteIsInt DEF ModeView
  <2>2. q = (ISA!At(1) + Seen.X + 1) % 256
    BY <2>1, NextInPage
  <2> QED BY <2>2 DEF ISA!Pointers
<1>3. ISA!Address = ISA!BusData(p) + 256 * ISA!BusData(q)
  BY DEF ISA!Address, ISA!ZeroPagePointer, ISA!Cell16
<1>4. ~Paged(H) /\ H \notin {"JSR", "BRK"}
  BY <1>1 DEF Paged, ModeView
<1>5. \A a \in {p, q} : /\ BusData(a) = ISA!BusData(a) /\ BusData(a) \in Byte
                        /\ BusRead(a) => UNCHANGED busVars
  BY <1>2, <1>4, PointerBytes
<1> HIDE DEF q
<1>6. CASE step = 1
  BY <1>6, AddressBegins DEF Addressing
<1>7. CASE step = 2
  <2>1. IndexZeroPage(X)
    <3>1. Capture("indexX")
      BY <1>1, <1>7 DEF AddressRow, CaptureView
    <3> QED BY <3>1 DEF Capture
  <2>2. addr = ISA!At(1)
    BY <1>1, <1>7 DEF Addressed, FirstByte, Addressing
  <2>3. addr' = p /\ UNCHANGED busVars
    BY <2>1, <2>2 DEF IndexZeroPage, BusIdle, ModeView
  <2> QED BY <1>1, <1>4, <1>7, <2>3 DEF HeldAddress, SteadyNames, Addressed, FirstByte, Direct,
             DirectSince, Fixed, FixedSince, Crosses, Pointing
<1>8. CASE step = 3
  <2>1. PointerLow
    <3>1. Capture("pointerLow")
      BY <1>1, <1>8 DEF AddressRow, CaptureView
    <3> QED BY <3>1 DEF Capture
  <2>2. addr = p
    BY <1>1, <1>8 DEF Addressed, Pointing
  <2>3. addr' = p /\ eff' = ISA!BusData(p) /\ UNCHANGED busVars
    BY <1>5, <2>1, <2>2 DEF PointerLow, LoadEff
  <2> QED BY <1>1, <1>4, <1>8, <2>3 DEF HeldAddress, SteadyNames, Addressed, FirstByte, Direct,
             DirectSince, Fixed, FixedSince, Crosses, Pointing
<1>9. CASE step = 4
  <2>1. PointerHigh
    <3>1. Capture("pointerHigh")
      BY <1>1, <1>9 DEF AddressRow, CaptureView
    <3> QED BY <3>1 DEF Capture
  <2>2. addr = p /\ eff = ISA!BusData(p)
    BY <1>1, <1>9 DEF Addressed, Pointing
  <2>3. PointerNext = q
    BY <2>2 DEF PointerNext, LowByte, q
  <2>4. eff' = OrHigh(eff, BusData(q)) /\ UNCHANGED busVars
    BY <1>5, <2>1, <2>3 DEF PointerHigh, LoadEff
  <2>5. eff' = ISA!Address
    BY <1>3, <1>5, <2>2, <2>4, JoinedHalves
  <2> QED BY <1>1, <1>4, <1>9, <2>4, <2>5 DEF HeldAddress, SteadyNames, Addressed, FirstByte,
             Direct, DirectSince, Fixed, Crosses, Pointing
<1>10. CASE step >= 5
  <2>1. Captures(H, step) \in Quiet
    BY <1>1, <1>10 DEF AddressRow
  <2> QED BY <1>1, <1>10, <2>1, AddressStays
<1> QED BY <1>1, <1>6, <1>7, <1>8, <1>9, <1>10

LEMMA IndirectYHeld ==
    ASSUME AtCapture, CaptureView, ModeView, ISA!How = "indY"
    PROVE  HeldAddress
<1> DEFINE p == ISA!At(1)
           q == (p + 1) % 256
<1>1. HowOf(H) = "indY" /\ AddressRow(H) /\ step \in 1 .. 6 /\ Addressed(step - 1) /\ SteadyNames
  BY DEF ModeView
<1>2. p \in ISA!Pointers /\ q \in ISA!Pointers
  BY DEF ISA!Pointers
<1>3. ISA!BaseAddress = ISA!BusData(p) + 256 * ISA!BusData(q)
  BY DEF ISA!BaseAddress, ISA!ZeroPagePointer, ISA!Cell16
<1>4. H \notin {"JSR", "BRK"} /\ (Paged(H) => H \in Reading)
  BY DEF Paged, ModeView
<1>5. \A a \in {p, q} : /\ BusData(a) = ISA!BusData(a) /\ BusData(a) \in Byte
                        /\ BusRead(a) => UNCHANGED busVars
  BY <1>2, <1>4, PointerBytes
<1> HIDE DEF p, q
<1>6. CASE step = 1
  BY <1>6, AddressBegins DEF Addressing
<1>7. CASE step = 2
  <2>1. PointerLow
    <3>1. Capture("pointerLow")
      BY <1>1, <1>7 DEF AddressRow, CaptureView
    <3> QED BY <3>1 DEF Capture
  <2>2. addr = p
    BY <1>1, <1>7 DEF Addressed, FirstByte, Addressing, p
  <2>3. addr' = p /\ eff' = ISA!BusData(p) /\ UNCHANGED busVars
    BY <1>5, <2>1, <2>2 DEF PointerLow, LoadEff
  <2> QED BY <1>1, <1>4, <1>7, <2>3 DEF HeldAddress, SteadyNames, Addressed, FirstByte, Direct,
             DirectSince, Fixed, FixedSince, Crosses, Pointing, p
<1>8. CASE step = 3
  <2>1. IF H \in Reading THEN PointerBase ELSE PointerFixed
    <3>1. Capture(IF H \in Reading THEN "pointerBaseY" ELSE "pointerFixedY")
      BY <1>1, <1>8 DEF AddressRow, CaptureView
    <3> QED BY <3>1 DEF Capture
  <2>2. addr = p /\ eff = ISA!BusData(p)
    BY <1>1, <1>8 DEF Addressed, Pointing, p
  <2>3. PointerNext = q
    BY <2>2 DEF PointerNext, LowByte, q
  <2>4. OrHigh(eff, BusData(PointerNext)) = ISA!BaseAddress
    BY <1>3, <1>5, <2>2, <2>3, JoinedHalves
  <2>5. /\ Indexed(OrHigh(eff, BusData(PointerNext)), Y) = ISA!Address
        /\ PageCrossed(OrHigh(eff, BusData(PointerNext)),
                       Indexed(OrHigh(eff, BusData(PointerNext)), Y)) = ISA!OtherPage
    BY <2>4, IndexingAgrees
  <2>6. eff' = ISA!Address /\ (H \in Reading => crossed' = ISA!OtherPage) /\ BusRead(PointerNext)
    BY <2>1, <2>5 DEF PointerBase, PointerFixed, LoadIndexed, LoadEff
  <2>7. UNCHANGED busVars
    BY <1>5, <2>3, <2>6
  <2> QED BY <1>1, <1>4, <1>8, <2>6, <2>7 DEF HeldAddress, SteadyNames, Addressed, FirstByte,
             Direct, DirectSince, Fixed, Crosses, Pointing
<1>9. CASE step >= 4
  <2>1. Captures(H, step) \in Quiet
    BY <1>1, <1>9 DEF AddressRow
  <2> QED BY <1>1, <1>9, <2>1, AddressStays
<1> QED BY <1>1, <1>6, <1>7, <1>8, <1>9

LEMMA IndirectHeld ==
    ASSUME AtCapture, CaptureView, ModeView, ISA!How = "ind"
    PROVE  HeldAddress
<1> DEFINE p == ISA!Arg16
           q == ISA!SamePageNext(p)
<1>1. HowOf(H) = "ind" /\ AddressRow(H) /\ step \in 1 .. 6 /\ Addressed(step - 1) /\ SteadyNames
  BY DEF ModeView
<1>2. p \in ISA!Pointers /\ q \in ISA!Pointers
  BY DEF ISA!Pointers
<1>3. ISA!Address = ISA!BusData(p) + 256 * ISA!BusData(q)
  BY DEF ISA!Address, ISA!Cell16
<1>4. ~Paged(H) /\ H \notin {"JSR", "BRK"}
  BY <1>1 DEF Paged, ModeView
<1>5. \A a \in {p, q} : /\ BusData(a) = ISA!BusData(a) /\ BusData(a) \in Byte
                        /\ BusRead(a) => UNCHANGED busVars
  BY <1>2, <1>4, PointerBytes
<1> HIDE DEF p, q
<1>6. CASE step = 1
  BY <1>6, AddressBegins DEF Addressing
<1>7. CASE step = 2
  <2>1. FetchHigh
    <3>1. Capture("fetchHigh")
      BY <1>1, <1>7 DEF AddressRow, CaptureView
    <3> QED BY <3>1 DEF Capture
  <2>2. addr' = p /\ UNCHANGED busVars
    BY <1>7, <2>1, SecondFetch DEF FetchHigh, LoadAddr, p
  <2> QED BY <1>1, <1>4, <1>7, <2>2 DEF HeldAddress, SteadyNames, Addressed, FirstByte, Direct,
             DirectSince, Fixed, FixedSince, Crosses, Pointing, p
<1>8. CASE step = 3
  <2>1. PointerLow
    <3>1. Capture("pointerLow")
      BY <1>1, <1>8 DEF AddressRow, CaptureView
    <3> QED BY <3>1 DEF Capture
  <2>2. addr = p
    BY <1>1, <1>8 DEF Addressed, Pointing, p
  <2>3. addr' = p /\ eff' = ISA!BusData(p) /\ UNCHANGED busVars
    BY <1>5, <2>1, <2>2 DEF PointerLow, LoadEff
  <2> QED BY <1>1, <1>4, <1>8, <2>3 DEF HeldAddress, SteadyNames, Addressed, FirstByte, Direct,
             DirectSince, Fixed, FixedSince, Crosses, Pointing, p
<1>9. CASE step = 4
  <2>1. PointerHighInPage
    <3>1. Capture("pointerHighInPage")
      BY <1>1, <1>9 DEF AddressRow, CaptureView
    <3> QED BY <3>1 DEF Capture
  <2>2. addr = p /\ eff = ISA!BusData(p)
    BY <1>1, <1>9 DEF Addressed, Pointing, p
  <2>3. PointerNextInPage = q
    <3>1. p \in Int
      BY <2>2, WordRange DEF AtCapture, IInv, DatapathOK, LatchesOK
    <3>2. p - (p % 256) = 256 * (p \div 256)
      BY <3>1
    <3> QED BY <2>2, <3>2 DEF PointerNextInPage, Page, LowByte, ISA!SamePageNext, q
  <2>4. eff' = OrHigh(eff, BusData(q)) /\ UNCHANGED busVars
    BY <1>5, <2>1, <2>3 DEF PointerHighInPage, LoadEff
  <2>5. eff' = ISA!Address
    BY <1>3, <1>5, <2>2, <2>4, JoinedHalves
  <2> QED BY <1>1, <1>4, <1>9, <2>4, <2>5 DEF HeldAddress, SteadyNames, Addressed, FirstByte,
             Direct, DirectSince, Fixed, Crosses, Pointing
<1>10. CASE step >= 5
  <2>1. Captures(H, step) \in Quiet
    BY <1>1, <1>10 DEF AddressRow
  <2> QED BY <1>1, <1>10, <2>1, AddressStays
<1> QED BY <1>1, <1>6, <1>7, <1>8, <1>9, <1>10

(* Every mode that forms an address.                                       *)
LEMMA AddressHeld ==
    ASSUME AtCapture, CaptureView, ISA!How \in Addressing, H # "JSR"
    PROVE  HeldAddress
<1>1. ModeView
  BY ModeFacts
<1> QED BY <1>1, ZeroPageHeld, IndexedZeroPageHeld, AbsoluteHeld, IndexedHeld, IndirectXHeld,
           IndirectYHeld, IndirectHeld DEF Addressing

-----------------------------------------------------------------------------
(* The operand: read once, when its address stands, into the ALU.          *)
TouchView ==
    /\ H \in Touching /\ HowOf(H) = ISA!How /\ HowOf(H) \in Addressing \cup {"imm"}
    /\ H \notin {"JSR", "BRK"}
    /\ step \in 1 .. 6 /\ First(H) \in 1 .. 5 /\ FixupOf(H) \in {0, 1}
    /\ OperandRow(H) /\ AddressRow(H) /\ SteadyNames
    /\ Paged(H) /\ step > First(H) => ISA!OtherPage
    /\ DeviceSo(step - 1) /\ Operating(step - 1) /\ Addressed(step - 1)
    /\ First(H)' = First(H) /\ FixupOf(H)' = FixupOf(H) /\ Seen' = Seen

LEMMA TouchFacts ==
    ASSUME AtCapture, CaptureView, H \in Touching
    PROVE  TouchView
<1>1. H \in Handlers \cup {"Unimplemented"} /\ HowOf(H) = ISA!How /\ H' = H
  BY DEF CaptureView
<1>2. OperandRow(H) /\ AddressRow(H) /\ Kind(H)
  BY <1>1, Timing
<1>3. HowOf(H) \in Addressing \cup {"imm"} /\ H \notin {"JSR", "BRK"}
  <2>1. CASE H \in Reading
    BY <1>2, <2>1 DEF Kind, Reading, Rewriting, Storing, Addressing, Jumps, OnStack, InRegisters
  <2>2. CASE H \in Rewriting
    BY <1>2, <2>2 DEF Kind, Reading, Rewriting, Storing, Addressing, Jumps, OnStack, InRegisters
  <2> QED BY <2>1, <2>2 DEF Touching
<1>4. First(H) \in 1 .. 5 /\ FixupOf(H) \in {0, 1}
  BY <1>2 DEF OperandRow, Touching, FixupOf
<1>5. First(H)' = First(H)
  BY <1>1 DEF First, HowOf
<1>6. SteadyNames
  BY CaptureSteady
<1>7. FixupOf(H)' = FixupOf(H)
  BY <1>6 DEF FixupOf, SteadyNames
<1>8. /\ step \in 1 .. 6 /\ Seen' = Seen
      /\ Paged(H) /\ step > First(H) => ISA!OtherPage
      /\ DeviceSo(step - 1) /\ Operating(step - 1) /\ Addressed(step - 1)
  BY DEF AtCapture, Committed, Staying, Latched
<1> QED BY <1>1, <1>2, <1>3, <1>4, <1>5, <1>6, <1>7, <1>8 DEF TouchView

OperandHeld == Operating(step)' /\ DeviceSo(step)'

LEMMA DoingSteady ==
    ASSUME CaptureView, UNCHANGED <<aluF, aluA, aluB, aluCI>>, NEW v, Doing(v)
    PROVE  Doing(v)'
<1>1. Op' = Op /\ BinaryRegister' = BinaryRegister /\ AluOp' = AluOp
  BY DEF CaptureView, Op, BinaryRegister, AluOp
<1> QED BY <1>1 DEF CaptureView, Doing

LEMMA OperandTaken ==
    ASSUME CaptureView, TouchView, step = First(H) + FixupOf(H), OperandAt(ISA!Address),
           DeviceStill, BusData(ISA!Address) = ISA!Operand
    PROVE  OperandHeld
<1>1. ApplyOperand(ISA!Operand)
  BY DEF OperandAt
<1>2. Op' = Op /\ BinaryRegister' = BinaryRegister /\ AluOp' = AluOp /\ P' = P
  BY DEF CaptureView, Op, BinaryRegister, AluOp
<1>3. Doing(ISA!Operand)'
  <2>1. ISA!Operand' = ISA!Operand
    BY Steady DEF TouchView
  <2>2. Op \in {"INC", "DEC"} => UnaryA(Op, aluA) = UnaryA(Op, 0)
    BY DEF UnaryA
  <2> QED BY <1>1, <1>2, <2>1, <2>2 DEF ApplyOperand, ApplyBinary, ApplyUnary, PassThrough,
             Doing, Binary, UnaryOp
<1>4. DeviceSo(step)'
  <2>1. Has(step)'
    BY DEF TouchView, Has, SteadyNames
  <2>2. ISA!Address' = ISA!Address /\ BusRead(ISA!Address)
    BY DEF TouchView, SteadyNames, OperandAt
  <2>3. CASE ISA!Address \in TtyPage
    <3>1. TtyRead(ISA!Address - TtyBase)
      BY <2>2, <2>3 DEF BusRead
    <3>2. \A o : TtyRead(o) => ReadSince(o)'
      BY NotedRead DEF TouchView
    <3> QED BY <2>1, <2>2, <2>3, <3>1, <3>2 DEF DeviceSo
  <2>4. CASE ISA!Address \notin TtyPage
    <3>1. DeviceStill'
      BY <2>2, <2>4, QuietRead, StillBus DEF TouchView
    <3> QED BY <2>2, <2>4, <3>1 DEF DeviceSo
  <2> QED BY <2>3, <2>4
<1> QED BY <1>3, <1>4 DEF OperandHeld, Operating

LEMMA OperandWaits ==
    ASSUME AtCapture, CaptureView, TouchView, step < First(H) + FixupOf(H), UNCHANGED busVars
    PROVE  OperandHeld
<1>1. ~Has(step - 1) /\ ~Has(step)'
  BY DEF TouchView, Has, SteadyNames
<1>2. DeviceStill'
  BY <1>1, StillBus DEF TouchView, DeviceSo
<1> QED BY <1>1, <1>2 DEF OperandHeld, Operating, DeviceSo

LEMMA OperandKept ==
    ASSUME CaptureView, TouchView, step > First(H) + FixupOf(H),
           UNCHANGED <<aluF, aluA, aluB, aluCI, busVars>>
    PROVE  OperandHeld
<1>1. Has(step - 1) /\ Has(step)'
  BY DEF TouchView, Has, SteadyNames
<1>2. ISA!Operand' = ISA!Operand /\ ISA!Address' = ISA!Address
  BY Steady DEF TouchView
<1>3. Doing(ISA!Operand)'
  BY <1>1, <1>2, DoingSteady DEF TouchView, Operating
<1>4. DeviceSo(step)'
  BY <1>1, <1>2, StillBus DEF TouchView, DeviceSo
<1> QED BY <1>3, <1>4 DEF OperandHeld, Operating

(* From the operand's T-state on the address latches rest.                 *)
LEMMA RestsFromFirst ==
    ASSUME TouchView, step >= First(H)
    PROVE  Captures(H, step) \in Quiet
<1>1. /\ HowOf(H) = "imm" => First(H) = 1
      /\ HowOf(H) = "zp" => First(H) = 2
      /\ HowOf(H) \in {"zpX", "zpY", "abs"} => First(H) = 3
      /\ HowOf(H) \in {"absX", "absY"} => First(H) \in {3, 4}
      /\ HowOf(H) = "indX" => First(H) = 5
      /\ HowOf(H) = "indY" => First(H) = 4
  BY DEF First
<1>2. HowOf(H) # "ind"
  <2>1. H \notin Jumps
    BY DEF TouchView, Touching, Reading, Rewriting, Jumps
  <2> QED BY DEF TouchView, Touching, HowOf, HandlerMode, Reading, Rewriting
<1> QED BY <1>1, <1>2 DEF TouchView, AddressRow, Addressing

LEMMA OperandBus ==
    ASSUME AtCapture, TouchView, ~Has(step - 1)
    PROVE  DeviceStill /\ BusData(ISA!Address) = ISA!Operand
<1>1. DeviceStill
  BY DEF TouchView, DeviceSo
<1>2. mem = Seen.mem
  BY DEF AtCapture, TouchView, Committed, Stacked, Written
<1> QED BY <1>1, <1>2, SameBus DEF ISA!Operand

LEMMA OperandLatched ==
    ASSUME AtCapture, CaptureView, H \in Touching,
           Captures(H, step) \notin Fetches => UNCHANGED busVars
    PROVE  OperandHeld
<1>1. TouchView
  BY TouchFacts
<1>2. Capture(Captures(H, step)) /\ step \in 1 .. 6 /\ First(H) \in 1 .. 5 /\ FixupOf(H) \in {0, 1}
  BY <1>1 DEF CaptureView, TouchView
<1>3. CASE step < First(H)
  <2>1. Captures(H, step) \notin Fetches
    BY <1>1, <1>2, <1>3 DEF TouchView, OperandRow, Touching
  <2> QED BY <1>1, <1>2, <1>3, <2>1, OperandWaits
<1>4. CASE step = First(H)
  <2>1. ~Has(step - 1)
    BY <1>2, <1>4 DEF Has
  <2>2. DeviceStill /\ BusData(ISA!Address) = ISA!Operand
    BY <1>1, <2>1, OperandBus
  <2>3. Captures(H, step) =
            IF HowOf(H) = "imm" THEN "operandPC"
            ELSE IF HowOf(H) \in {"zp", "zpX", "zpY", "abs"} THEN "operandAddr"
            ELSE IF Paged(H) THEN "operandEffIfSamePage"
            ELSE "operandEff"
    BY <1>1, <1>4 DEF TouchView, OperandRow, Touching
  <2>4. CASE HowOf(H) = "imm"
    <3>1. OperandAt(PC)
      BY <1>2, <2>3, <2>4 DEF Capture
    <3>2. PC = ISA!Address
      <4>1. Passed(H) = 1
        BY <1>1, <2>4 DEF TouchView, Passed, Touching, Reading, Rewriting
      <4>2. step = 1
        BY <1>4, <2>4 DEF First
      <4>3. PC = ISA!Plus(Seen.PC, 1)
        BY <4>1, <4>2 DEF CaptureView, Least
      <4> QED BY <1>1, <2>4, <4>3 DEF TouchView, ISA!Address
    <3>3. FixupOf(H) = 0
      BY <2>4 DEF FixupOf, Paged
    <3> QED BY <1>1, <1>2, <1>4, <2>2, <3>1, <3>2, <3>3, OperandTaken
  <2>5. CASE HowOf(H) \in {"zp", "zpX", "zpY", "abs"}
    <3>1. OperandAt(addr)
      BY <1>2, <2>3, <2>5 DEF Capture
    <3>2. addr = ISA!Address
      BY <1>1, <1>4, <2>5 DEF TouchView, Addressed, Direct, DirectSince, First
    <3>3. FixupOf(H) = 0
      BY <2>5 DEF FixupOf, Paged
    <3> QED BY <1>1, <1>2, <1>4, <2>2, <3>1, <3>2, <3>3, OperandTaken
  <2>6. CASE HowOf(H) \in {"absX", "absY", "indX", "indY"}
    <3>1. eff = ISA!Address /\ (Paged(H) => crossed = ISA!OtherPage)
      BY <1>1, <1>4, <2>6 DEF TouchView, Addressed, Fixed, FixedSince, Crosses, First
    <3>2. CASE Paged(H) /\ ISA!OtherPage
      <4>1. Idle
        BY <1>2, <2>3, <2>6, <3>1, <3>2 DEF Capture, OperandIfSamePage, Paged
      <4>2. FixupOf(H) = 1
        BY <3>2 DEF FixupOf
      <4> QED BY <1>1, <1>2, <1>4, <4>1, <4>2, OperandWaits DEF Idle, BusIdle
    <3>3. CASE ~(Paged(H) /\ ISA!OtherPage)
      <4>1. OperandAt(eff)
        BY <1>2, <2>3, <2>6, <3>1, <3>3 DEF Capture, OperandIfSamePage, Paged
      <4>2. FixupOf(H) = 0
        BY <3>3 DEF FixupOf
      <4> QED BY <1>1, <1>2, <1>4, <2>2, <3>1, <4>1, <4>2, OperandTaken
    <3> QED BY <3>2, <3>3
  <2>7. HowOf(H) # "ind"
    BY <1>1 DEF TouchView, Touching, HowOf, HandlerMode, Reading, Rewriting
  <2> QED BY <1>1, <2>4, <2>5, <2>6, <2>7 DEF TouchView, Addressing
<1>5. CASE step = First(H) + 1 /\ Paged(H)
  <2>1. FixupOf(H) = 1
    BY <1>1, <1>2, <1>5 DEF TouchView, FixupOf
  <2>2. OperandAt(eff)
    <3>1. Captures(H, step) = "operandEff"
      BY <1>1, <1>5 DEF TouchView, OperandRow, Touching
    <3> QED BY <1>2, <3>1 DEF Capture
  <2>3. eff = ISA!Address
    BY <1>1, <1>5 DEF TouchView, Addressed, Fixed, FixedSince, First, Paged
  <2>4. ~Has(step - 1)
    BY <1>2, <1>5, <2>1 DEF Has
  <2> QED BY <1>1, <1>5, <2>1, <2>2, <2>3, <2>4, OperandBus, OperandTaken
<1>6. CASE step > First(H) /\ ~(step = First(H) + 1 /\ Paged(H))
  <2>1. Captures(H, step) \notin Fetches
    BY <1>1, <1>2, <1>6 DEF TouchView, OperandRow, Touching
  <2>2. Captures(H, step) \in Quiet
    BY <1>1, <1>2, <1>6, RestsFromFirst
  <2>3. UNCHANGED <<aluF, aluA, aluB, aluCI>>
    BY <1>2, <2>1, <2>2, QuietCapture
  <2>4. step > First(H) + FixupOf(H)
    BY <1>2, <1>6 DEF FixupOf
  <2> QED BY <1>1, <2>1, <2>3, <2>4, OperandKept
<1> QED BY <1>2, <1>3, <1>4, <1>5, <1>6

-----------------------------------------------------------------------------
(* The latches of every instruction after a High edge.                     *)
LEMMA Untouched ==
    ASSUME AtCapture, CaptureView, H \notin Touching, UNCHANGED busVars
    PROVE  Operating(step)' /\ DeviceSo(step)'
<1>1. ~Has(step - 1) /\ ~Has(step)' /\ Seen' = Seen
  BY DEF CaptureView, AtCapture, Has
<1>2. DeviceStill'
  BY <1>1, StillBus DEF AtCapture, Latched, DeviceSo
<1> QED BY <1>1, <1>2 DEF Operating, DeviceSo

Elsewhere(g) == Turning(g) /\ Calling(g) /\ Pulling(g) /\ Breaking(g) /\ InRegister(g)

LEMMA NothingElse ==
    ASSUME CaptureView, H \notin OnStack \cup InRegisters \cup {"Branch"}
    PROVE  Elsewhere(step)'
<1>1. H' \notin {"BRK", "JSR", "RTS", "RTI", "ImpliedPull", "Branch"} \cup InRegisters
  BY DEF CaptureView, OnStack
<1> QED BY <1>1 DEF Elsewhere, Turning, Calling, Pulling, Breaking, InRegister, InRegisters

LEMMA NotAddressed ==
    ASSUME CaptureView, SteadyNames, ISA!How \notin Addressing
    PROVE  Addressed(step)'
<1>1. ISA!How' \notin Addressing /\ ~Paged(H)'
  BY DEF CaptureView, SteadyNames, Paged, Addressing
<1> QED BY <1>1 DEF Addressed, FirstByte, Direct, DirectSince, Fixed, FixedSince, Crosses, Pointing,
           Addressing

LEMMA SameInstruction ==
    ASSUME AtCapture, CaptureView
    PROVE  IR' = ISA!Instruction'
  BY Steady DEF AtCapture, CaptureView

(* The instructions with an operand address.                               *)
LEMMA AddressLatched ==
    ASSUME AtCapture, CaptureView, ISA!How \in Addressing \cup {"imm"}, H # "JSR"
    PROVE  Latched(step)'
<1>1. H \in Handlers \cup {"Unimplemented"} /\ HowOf(H) = ISA!How /\ SteadyNames
  BY CaptureSteady DEF CaptureView
<1>2. OperandRow(H) /\ AddressRow(H) /\ Kind(H) /\ step \in 1 .. 6
  BY <1>1, Timing DEF AtCapture
<1>3. H \notin OnStack \cup InRegisters \cup {"Branch"}
  BY <1>1, <1>2 DEF Kind, Addressing, OnStack, InRegisters
<1>4. Addressed(step)' /\ (Captures(H, step) \notin Fetches => UNCHANGED busVars)
  <2>1. CASE ISA!How \in Addressing
    BY <2>1, AddressHeld DEF HeldAddress
  <2>2. CASE ISA!How = "imm"
    <3>1. Captures(H, step) \in Quiet /\ Capture(Captures(H, step))
      BY <1>1, <1>2, <2>2 DEF AddressRow, CaptureView
    <3>2. Captures(H, step) \notin Fetches => UNCHANGED busVars
      BY <3>1, QuietCapture DEF BusIdle
    <3> QED BY <1>1, <2>2, <3>2, NotAddressed DEF Addressing
  <2> QED BY <2>1, <2>2
<1>5. Operating(step)' /\ DeviceSo(step)'
  <2>1. CASE H \in Touching
    BY <1>4, <2>1, OperandLatched DEF OperandHeld
  <2>2. CASE H \notin Touching
    BY <1>2, <1>4, <2>2, Untouched DEF OperandRow, Touching
  <2> QED BY <2>1, <2>2
<1>6. Elsewhere(step)'
  BY <1>3, NothingElse
<1> QED BY <1>4, <1>5, <1>6, SameInstruction DEF Latched, Elsewhere

(* The operand in a register, and the instructions with none.              *)
LEMMA RegisterLatched ==
    ASSUME AtCapture, CaptureView, H \in InRegisters \cup {"ImpliedFlagOp", "NOP", "Unimplemented"}
    PROVE  Latched(step)'
<1>1. H \in Handlers \cup {"Unimplemented"} /\ HowOf(H) = ISA!How /\ SteadyNames /\ H' = H
  BY CaptureSteady DEF CaptureView
<1>2. CommitRow(H) /\ Kind(H)
  BY <1>1, Timing
<1>3. step = 1
  BY <1>2 DEF CommitRow, LastOf, CaptureView
<1>4. ISA!How = "none" /\ H \notin Touching
  BY <1>1, <1>2 DEF Kind, Touching, Reading, Rewriting, Storing, Jumps, OnStack, InRegisters
<1>5. Capture(Captures(H, 1))
  BY <1>3 DEF CaptureView
<1>6. IF H \in InRegisters THEN OperandInRegister ELSE Idle
  <2>1. CASE H = "ShiftAccumulator"
    <3>1. Captures(H, 1) = "operandA"
      BY <2>1 DEF Captures, Rows, ShiftAccumulator
    <3> QED BY <1>5, <2>1, <3>1 DEF Capture, InRegisters
  <2>2. CASE H = "ImpliedIncDec"
    <3>1. Captures(H, 1) = "operandXY"
      BY <2>2 DEF Captures, Rows, ImpliedIncDec
    <3> QED BY <1>5, <2>2, <3>1 DEF Capture, InRegisters
  <2>3. CASE H = "ImpliedTransfer"
    <3>1. Captures(H, 1) = "transferSource"
      BY <2>3 DEF Captures, Rows, ImpliedTransfer
    <3> QED BY <1>5, <2>3, <3>1 DEF Capture, InRegisters
  <2>4. CASE H \in {"ImpliedFlagOp", "NOP", "Unimplemented"}
    <3>1. Captures(H, 1) = "idle"
      BY <2>4 DEF Captures, Rows, ImpliedFlagOp, NOP, Unimplemented
    <3> QED BY <1>5, <2>4, <3>1 DEF Capture, InRegisters
  <2> QED BY <2>1, <2>2, <2>3, <2>4 DEF InRegisters
<1>7. UNCHANGED busVars
  BY <1>6 DEF OperandInRegister, Idle, BusIdle
<1>8. InRegister(step)'
  <2>1. Op' = Op /\ TransferSource' = TransferSource /\ StepOp' = StepOp /\ StepRegister' = StepRegister
    BY DEF CaptureView, Op, TransferSource, StepOp, StepRegister
  <2>2. H \in InRegisters => Op \in DOMAIN OpcodeOf[H] /\ OpsRow(H)
    BY SameDecoding DEF CaptureView, InRegisters
  <2>3. CASE H = "ShiftAccumulator"
    <3>1. Op \in {"ASL", "LSR", "ROL", "ROR"}
      BY <2>2, <2>3 DEF OpsRow, InRegisters
    <3>2. ApplyUnary(Op, A)
      BY <1>6, <2>3, <3>1 DEF OperandInRegister, InRegisters, H
    <3> QED BY <1>1, <2>1, <2>3, <3>1, <3>2 DEF InRegister, Doing, ApplyUnary, Binary, UnaryOp,
               CaptureView
  <2>4. CASE H = "ImpliedIncDec"
    <3>1. Op \in {"INX", "DEX", "INY", "DEY"}
      BY <2>2, <2>4 DEF OpsRow, InRegisters
    <3>2. ApplyUnary(StepOp, StepRegister)
      BY <1>6, <2>4, <3>1 DEF OperandInRegister, InRegisters, H, StepOp, StepRegister
    <3>3. StepOp \in {"INC", "DEC"}
      BY <3>1 DEF StepOp
    <3>4. /\ aluA' = UnaryA(StepOp, 0) /\ aluB' = StepRegister
          /\ aluCI' = FALSE /\ aluF' = "ADD"
      BY <3>2, <3>3 DEF ApplyUnary, UnaryA, UnaryCarryIn, UnaryFunction
    <3> QED BY <1>1, <2>1, <2>4, <3>4 DEF InRegister
  <2>5. CASE H = "ImpliedTransfer"
    <3>1. Op \in {"TAX", "TXA", "TAY", "TYA", "TSX", "TXS"}
      BY <2>2, <2>5 DEF OpsRow, InRegisters
    <3>2. PassThrough(TransferSource)
      BY <1>6, <2>5, <3>1 DEF OperandInRegister, InRegisters, H
    <3> QED BY <1>1, <2>1, <2>5, <3>2 DEF InRegister, PassThrough
  <2>6. CASE H \notin InRegisters
    BY <1>1, <2>6 DEF InRegister, InRegisters
  <2> QED BY <2>3, <2>4, <2>5, <2>6 DEF InRegisters
<1>9. Turning(step)' /\ Calling(step)' /\ Pulling(step)' /\ Breaking(step)'
  BY <1>1 DEF Turning, Calling, Pulling, Breaking, InRegisters
<1> QED BY <1>1, <1>4, <1>7, <1>8, <1>9, NotAddressed, Untouched, SameInstruction
        DEF Latched, Addressing

(* Branches: the offset and the decision, then the target.                 *)
LEMMA BranchLatched ==
    ASSUME AtCapture, CaptureView, H = "Branch"
    PROVE  Latched(step)'
<1>1. ISA!How = "rel" /\ SteadyNames /\ H' = H /\ step \in 1 .. 6 /\ H \notin Touching
  BY CaptureSteady DEF CaptureView, HowOf, HandlerMode, AtCapture, Touching, Reading, Rewriting
<1>2. Passed(H) = 2 /\ Rows(H) = Branch
  BY DEF Passed, Rows
<1>3. Captures(H, 1) = "branchOffset" /\ Captures(H, 2) = "branchTarget"
      /\ \A i \in 3 .. 6 : Captures(H, i) = "idle"
  BY <1>2 DEF Captures, Branch
<1>4. Turning(step - 1) /\ Seen' = Seen
  BY DEF AtCapture, Latched
<1>5. ISA!Condition' = ISA!Condition
  BY <1>4, Steady
<1>6. CASE step = 1
  <2>1. BranchOffset
    <3>1. Capture("branchOffset")
      BY <1>3, <1>6 DEF CaptureView
    <3> QED BY <3>1 DEF Capture
  <2>2. PC \notin TtyPage /\ BusData(PC) = ISA!At(1)
    BY <1>2, <1>6, ProgramByte DEF Least
  <2>3. UNCHANGED busVars
    BY <2>1, <2>2, QuietRead DEF BranchOffset
  <2>4. BranchCondition = ISA!Condition
    <3>1. ISA!Name = Op
      BY SameDecoding DEF CaptureView
    <3>2. P = Seen.P
      BY DEF AtCapture, Committed, Stacked, Status
    <3> QED BY <3>1, <3>2 DEF BranchCondition, ISA!Condition
  <2>5. Turning(step)'
    BY <1>1, <1>5, <1>6, <2>1, <2>2, <2>4 DEF Turning, BranchOffset, SteadyNames
  <2> QED BY <1>1, <2>3, <2>5, NotAddressed, Untouched, SameInstruction
          DEF Latched, Addressing, Calling, Pulling, Breaking, InRegister
<1>7. CASE step = 2
  <2>1. BranchTarget
    <3>1. Capture("branchTarget")
      BY <1>3, <1>7 DEF CaptureView
    <3> QED BY <3>1 DEF Capture
  <2>2. PC = ISA!BaseAddress
    BY <1>1, <1>2, <1>7 DEF CaptureView, Least, ISA!BaseAddress
  <2>3. offset = Signed(ISA!At(1))
    BY <1>4, <1>7 DEF Turning
  <2>4. Relative(PC, offset) = ISA!Address
    BY <1>1, <2>2, <2>3 DEF Relative, ISA!Address, ISA!Plus, Signed, ISA!Signed
  <2>5. PageCrossed(PC, Relative(PC, offset)) = ISA!OtherPage
    BY <2>2, <2>4, Zenon DEF PageCrossed, ISA!OtherPage, HighByte
  <2>6. Turning(step)'
    BY <1>1, <1>4, <1>5, <1>7, <2>1, <2>4, <2>5 DEF Turning, BranchTarget, SteadyNames, branch
  <2> QED BY <1>1, <2>1, <2>6, NotAddressed, Untouched, SameInstruction
          DEF Latched, Addressing, Calling, Pulling, Breaking, InRegister, BranchTarget, BusIdle
<1>8. CASE step > 2
  <2>1. Idle
    <3>1. Capture("idle")
      BY <1>1, <1>3, <1>8 DEF CaptureView
    <3> QED BY <3>1 DEF Capture
  <2>2. Turning(step)'
    BY <1>1, <1>4, <1>5, <1>8, <2>1 DEF Turning, Idle, latches, SteadyNames
  <2> QED BY <1>1, <2>1, <2>2, NotAddressed, Untouched, SameInstruction
          DEF Latched, Addressing, Calling, Pulling, Breaking, InRegister, Idle, BusIdle
<1> QED BY <1>1, <1>6, <1>7, <1>8

(* The other instructions that move PC or SP, T-state by T-state.          *)
LEMMA JSRRow ==
    /\ Captures("JSR", 1) = "fetchLow" /\ Captures("JSR", 2) = "idle"
    /\ Captures("JSR", 3) = "idle" /\ Captures("JSR", 4) = "idle"
    /\ Captures("JSR", 5) = "targetHigh"
    /\ Commits("JSR", 1) = "nextPC" /\ Commits("JSR", 2) = "next"
    /\ Commits("JSR", 3) = "pushPCH" /\ Commits("JSR", 4) = "pushPCL"
    /\ Commits("JSR", 5) = "jump"
    /\ LastOf("JSR", 5)
<1>1. Rows("JSR") = JSR
  BY DEF Rows
<1> QED BY <1>1 DEF JSR, Captures, Commits, LastOf

LEMMA BRKRow ==
    /\ Captures("BRK", 1) = "dummyRead" /\ Captures("BRK", 2) = "idle"
    /\ Captures("BRK", 3) = "idle" /\ Captures("BRK", 4) = "idle"
    /\ Captures("BRK", 5) = "vectorLow" /\ Captures("BRK", 6) = "vectorHigh"
    /\ Commits("BRK", 1) = "nextPC" /\ Commits("BRK", 2) = "pushPCH"
    /\ Commits("BRK", 3) = "pushPCL" /\ Commits("BRK", 4) = "pushStatus"
    /\ Commits("BRK", 5) = "next" /\ Commits("BRK", 6) = "jumpHalt"
    /\ LastOf("BRK", 6)
<1>1. Rows("BRK") = BRK
  BY DEF Rows
<1> QED BY <1>1 DEF BRK, Captures, Commits, LastOf

LEMMA RTSRow ==
    /\ Captures("RTS", 1) = "idle" /\ Captures("RTS", 2) = "idle"
    /\ Captures("RTS", 3) = "pullLow" /\ Captures("RTS", 4) = "pullHigh"
    /\ Captures("RTS", 5) = "idle"
    /\ Commits("RTS", 1) = "next" /\ Commits("RTS", 2) = "incrementSP"
    /\ Commits("RTS", 3) = "incrementSP" /\ Commits("RTS", 4) = "next"
    /\ Commits("RTS", 5) = "jumpPast"
    /\ LastOf("RTS", 5)
<1>1. Rows("RTS") = RTS
  BY DEF Rows
<1> QED BY <1>1 DEF RTS, Captures, Commits, LastOf

LEMMA RTIRow ==
    /\ Captures("RTI", 1) = "dummyRead" /\ Captures("RTI", 2) = "idle"
    /\ Captures("RTI", 3) = "idle" /\ Captures("RTI", 4) = "idle"
    /\ Captures("RTI", 5) = "idle"
    /\ Commits("RTI", 1) = "next" /\ Commits("RTI", 2) = "incrementSP"
    /\ Commits("RTI", 3) = "pullStatus" /\ Commits("RTI", 4) = "pullPCL"
    /\ Commits("RTI", 5) = "pullPCH"
    /\ LastOf("RTI", 5)
<1>1. Rows("RTI") = RTI
  BY DEF Rows
<1> QED BY <1>1 DEF RTI, Captures, Commits, LastOf

LEMMA ImpliedPushRow ==
    /\ Captures("ImpliedPush", 1) = "dummyRead" /\ Captures("ImpliedPush", 2) = "idle"
    /\ Commits("ImpliedPush", 1) = "next" /\ Commits("ImpliedPush", 2) = "pushRegister"
    /\ LastOf("ImpliedPush", 2)
<1>1. Rows("ImpliedPush") = ImpliedPush
  BY DEF Rows
<1> QED BY <1>1 DEF ImpliedPush, Captures, Commits, LastOf

LEMMA ImpliedPullRow ==
    /\ Captures("ImpliedPull", 1) = "dummyRead" /\ Captures("ImpliedPull", 2) = "idle"
    /\ Captures("ImpliedPull", 3) = "pullLow"
    /\ Commits("ImpliedPull", 1) = "next" /\ Commits("ImpliedPull", 2) = "incrementSP"
    /\ Commits("ImpliedPull", 3) = "pullRegister"
    /\ LastOf("ImpliedPull", 3)
<1>1. Rows("ImpliedPull") = ImpliedPull
  BY DEF Rows
<1> QED BY <1>1 DEF ImpliedPull, Captures, Commits, LastOf

LEMMA BranchRow ==
    /\ Captures("Branch", 1) = "branchOffset" /\ Captures("Branch", 2) = "branchTarget"
    /\ Captures("Branch", 3) = "idle"
    /\ Commits("Branch", 1) = "branchDecide" /\ Commits("Branch", 2) = "branchIfSamePage"
    /\ Commits("Branch", 3) = "branchTake"
    /\ LastOf("Branch", 3)
<1>1. Rows("Branch") = Branch
  BY DEF Rows
<1> QED BY <1>1 DEF Branch, Captures, Commits, LastOf

LEMMA JMPAbsoluteRow ==
    /\ Captures("JMPAbsolute", 1) = "fetchLow" /\ Captures("JMPAbsolute", 2) = "fetchHigh"
    /\ Commits("JMPAbsolute", 1) = "nextPC" /\ Commits("JMPAbsolute", 2) = "jump"
    /\ LastOf("JMPAbsolute", 2)
<1>1. Rows("JMPAbsolute") = JMPAbsolute
  BY DEF Rows
<1> QED BY <1>1 DEF JMPAbsolute, Captures, Commits, LastOf

LEMMA JMPIndirectRow ==
    /\ Captures("JMPIndirect", 1) = "fetchLow" /\ Captures("JMPIndirect", 2) = "fetchHigh"
    /\ Captures("JMPIndirect", 3) = "pointerLow" /\ Captures("JMPIndirect", 4) = "pointerHighInPage"
    /\ Commits("JMPIndirect", 1) = "nextPC" /\ Commits("JMPIndirect", 2) = "nextPC"
    /\ Commits("JMPIndirect", 3) = "next" /\ Commits("JMPIndirect", 4) = "jumpEff"
    /\ LastOf("JMPIndirect", 4)
<1>1. Rows("JMPIndirect") = JMPIndirect
  BY DEF Rows
<1> QED BY <1>1 DEF JMPIndirect, Captures, Commits, LastOf

LEMMA OnStackApart ==
    ASSUME NEW h \in OnStack
    PROVE  h \notin Touching \cup InRegisters \cup {"Branch"}
  BY DEF OnStack, Touching, Reading, Rewriting, InRegisters

(* The stack as the instruction set sees it: page 1, never the device's.   *)
LEMMA StackCells ==
    ASSUME SeenTyped, NEW n \in Int
    PROVE  ISA!StackCell(n) \in 256 .. 511
<1>1. Seen.SP \in Int
  BY ByteIsInt DEF SeenTyped
<1>2. (Seen.SP + n) % 256 \in Byte
  BY <1>1, ModByte
<1>3. \A d \in Byte : 256 + d \in 256 .. 511
  BY DEF Byte
<1> QED BY <1>2, <1>3 DEF ISA!StackCell

LEMMA StackByte ==
    ASSUME SeenTyped, ~ISA!Unpromised, mem = Seen.mem, NEW n \in Int,
           SP = (Seen.SP + n) % 256
    PROVE  /\ Stack = ISA!StackCell(n)
           /\ BusData(Stack) = ISA!Popped(n) /\ ISA!Popped(n) \in Byte
           /\ BusRead(Stack) => UNCHANGED busVars
<1>1. Stack = ISA!StackCell(n)
  BY DEF Stack, ISA!StackCell
<1>2. Stack \notin TtyPage
  BY <1>1, StackCells, Promised
<1>3. BusData(Stack) = ISA!BusData(Stack)
  BY <1>2, SameBus
<1>4. ISA!Popped(n) \in Byte
  BY SeenData DEF ISA!Popped
<1> QED BY <1>1, <1>2, <1>3, <1>4, QuietRead DEF ISA!Popped

(* What the pushes leave alone.                                            *)
LEMMA StoredAway ==
    ASSUME NEW m \in Memory, NEW c, NEW b \in Byte
    PROVE  /\ ISA!Stored(m, c, b) \in Memory
           /\ \A a \in Ram \cup Rom : a # c => ISA!Stored(m, c, b)[a] = m[a]
  BY TtyByteIsByte DEF ISA!Stored, Memory

LEMMA BackType ==
    ASSUME SeenTyped
    PROVE  Back \in Word /\ Back \div 256 \in Byte /\ Back % 256 \in Byte
<1>1. Back \in Word
  BY WordRange, ModWord DEF Back, ISA!Plus, SeenTyped
<1> QED BY <1>1, Halves DEF HighByte, LowByte

LEMMA WrittenAway ==
    ASSUME SeenTyped, NEW h, NEW n
    PROVE  /\ Written(h, n) \in Memory
           /\ \A a \in Ram \cup Rom : a \notin 256 .. 511 => Written(h, n)[a] = Seen.mem[a]
<1> DEFINE one == ISA!Pushed1(Back \div 256)
           two == ISA!Pushed2(Back \div 256, Back % 256)
           three == ISA!Pushed3(Back \div 256, Back % 256, StatusByte(Seen.P \cup {"B"}))
           Away(m) == m \in Memory
                      /\ \A a \in Ram \cup Rom : a \notin 256 .. 511 => m[a] = Seen.mem[a]
<1>1. /\ ISA!StackCell(0) \in 256 .. 511 /\ ISA!StackCell(-1) \in 256 .. 511
      /\ ISA!StackCell(-2) \in 256 .. 511
  BY StackCells
<1>2. Away(Seen.mem)
  BY DEF SeenTyped
<1>3. Away(one)
  BY <1>1, <1>2, BackType, StoredAway DEF ISA!Pushed1
<1>4. Away(two)
  <2>1. two = ISA!Stored(one, ISA!StackCell(-1), Back % 256)
    BY DEF ISA!Pushed2
  <2> HIDE DEF one, two
  <2> QED BY <1>1, <1>3, <2>1, BackType, StoredAway
<1>5. Away(three)
  <2>1. three = ISA!Stored(two, ISA!StackCell(-2), StatusByte(Seen.P \cup {"B"}))
    BY DEF ISA!Pushed3
  <2> HIDE DEF two, three
  <2> QED BY <1>1, <1>4, <2>1, StatusIsByte, StoredAway
<1>6. Written(h, n) \in {Seen.mem, one, two, three}
  BY DEF Written
<1> HIDE DEF one, two, three
<1> QED BY <1>2, <1>3, <1>4, <1>5, <1>6

BreakVectors == {BRKVector, BRKVector + 1}
SilentThere == \A v \in BreakVectors : v \in TtyPage => ~(v - TtyBase <= TapeData)

LEMMA BreakIsSilent == SilentThere
<1>1. TtyBase \in Int /\ TtyBase + 255 <= 65535
  BY MapAssumption, WordRange
<1>2. \A v \in BreakVectors : v \in Int /\ v >= 65532
  BY DEF BreakVectors, BRKVector
<1> QED BY <1>1, <1>2 DEF SilentThere, TapeData

LEMMA BreakVectorByte ==
    ASSUME SeenTyped, NEW h, NEW n, mem = Written(h, n), NEW v \in BreakVectors
    PROVE  /\ BusData(v) = ISA!BusData(v) /\ ISA!BusData(v) \in Byte
           /\ BusRead(v) => UNCHANGED busVars
<1>1. v \notin 256 .. 511
  BY DEF BreakVectors, BRKVector
<1>2. v \in TtyPage => ~(v - TtyBase <= TapeData) /\ ~(v - TtyBase <= SerialData)
  <2>1. v \in TtyPage => v - TtyBase \in Int
    BY InTtyPage
  <2> QED BY <2>1, BreakIsSilent DEF SilentThere, TapeData, SerialData
<1>3. v \in Ram \cup Rom => mem[v] = Seen.mem[v]
  BY <1>1, WrittenAway
<1>4. BusData(v) = ISA!BusData(v)
  <2>1. CASE v \in Ram \cup Rom
    BY <1>3, <2>1 DEF BusData, ISA!BusData
  <2>2. CASE v \notin Ram \cup Rom
    <3>1. v \in TtyPage => ReadValue(v - TtyBase) = 0 /\ ISA!ReadValue(v - TtyBase) = 0
      BY <1>2 DEF ReadValue, ISA!ReadValue, SerialData, ISA!SerialData, TapeData, ISA!TapeData
    <3> QED BY <2>2, <3>1, SamePage DEF BusData, ISA!BusData
  <2> QED BY <2>1, <2>2
<1>5. BusRead(v) => UNCHANGED busVars
  <2>1. v \in TtyPage => v - TtyBase \notin {SerialData, TapeData}
    BY <1>2, InTtyPage DEF SerialData, TapeData
  <2> QED BY <2>1 DEF BusRead, TtyRead, SerialData, TapeData, ttyVars, busVars, serial, deck
<1> QED BY <1>4, <1>5, SeenData

(* What every T-state of these instructions leaves as it was.              *)
LEMMA StackLatched ==
    ASSUME AtCapture, CaptureView, H \in OnStack, UNCHANGED busVars,
           Calling(step)', Pulling(step)', Breaking(step)', H = "JSR" => FirstByte(step)'
    PROVE  Latched(step)'
<1>1. H' = H /\ H \notin Touching \cup InRegisters \cup {"Branch"} /\ SteadyNames
  BY OnStackApart, CaptureSteady DEF CaptureView
<1>2. ISA!How' = ISA!How /\ ISA!How = (IF H = "JSR" THEN "abs" ELSE "none")
  BY <1>1 DEF SteadyNames, CaptureView, HowOf, HandlerMode, OnStack
<1>3. ~Paged(H)'
  BY <1>1 DEF Paged, Touching
<1>4. Addressed(step)'
  BY <1>1, <1>2, <1>3 DEF Addressed, FirstByte, Direct, DirectSince, Fixed, FixedSince, Crosses,
     Pointing, Addressing
<1>5. Turning(step)' /\ InRegister(step)'
  BY <1>1 DEF Turning, InRegister, InRegisters
<1> QED BY <1>1, <1>4, <1>5, Untouched, SameInstruction DEF Latched

LEMMA IdleCapture ==
    ASSUME CaptureView, Captures(H, step) = "idle"
    PROVE  UNCHANGED busVars /\ UNCHANGED latches
<1>1. Capture("idle")
  BY DEF CaptureView
<1> QED BY <1>1 DEF Capture, Idle, BusIdle

LEMMA DummyCapture ==
    ASSUME AtCapture, CaptureView, Captures(H, step) = "dummyRead", step = 1
    PROVE  UNCHANGED busVars /\ UNCHANGED latches
<1>1. Capture("dummyRead")
  BY DEF CaptureView
<1>2. DummyRead
  BY <1>1 DEF Capture
<1>3. PC = ISA!Plus(Seen.PC, 1)
  <2>1. Passed(H) \in {1, 2, 3}
    BY DEF Passed
  <2> QED BY <2>1 DEF CaptureView, Least
<1>4. PC \notin TtyPage
  BY <1>3, Promised DEF AtCapture
<1> QED BY <1>2, <1>4, QuietRead DEF DummyRead

LEMMA SetHalves ==
    ASSUME NEW low \in Byte, NEW high \in Byte
    PROVE  SetHigh(low, high) = low + 256 * high
  BY DEF SetHigh, LowByte, Byte

LEMMA CallLatched ==
    ASSUME AtCapture, CaptureView, H = "JSR"
    PROVE  Latched(step)'
<1>1. step \in 1 .. 5 /\ H \in OnStack /\ Passed(H) = 2
  BY JSRRow DEF CaptureView, LastOf, OnStack, Passed
<1>2. SteadyNames /\ H' = H /\ Calling(step - 1) /\ SeenTyped /\ ~ISA!Unpromised
  BY CaptureSteady DEF CaptureView, AtCapture, Latched
<1>3. Pulling(step)' /\ Breaking(step)'
  BY <1>2 DEF Pulling, Breaking
<1>4. ISA!At(1) \in Byte
  BY <1>2, SeenData DEF ISA!At
<1>5. CASE step = 1
  <2>1. FetchLow
    <3>1. Capture("fetchLow")
      BY <1>5, JSRRow DEF CaptureView
    <3> QED BY <3>1 DEF Capture
  <2>2. PC = ISA!Plus(Seen.PC, 1) /\ PC \notin TtyPage
    BY <1>1, <1>2, <1>5, Promised DEF CaptureView, Least
  <2>3. mem = Seen.mem
    BY <1>5 DEF AtCapture, Committed, Stacked, Written
  <2>4. BusData(PC) = ISA!At(1)
    BY <2>2, <2>3, SameBus DEF ISA!At
  <2>5. addr' = ISA!At(1) /\ UNCHANGED busVars
    BY <2>1, <2>2, <2>4, QuietRead DEF FetchLow, LoadAddr
  <2>6. FirstByte(step)' /\ Calling(step)'
    BY <1>2, <1>5, <2>5 DEF FirstByte, Calling, SteadyNames
  <2> QED BY <1>1, <1>3, <2>5, <2>6, StackLatched
<1>6. CASE step \in 2 .. 4
  <2>1. Captures(H, step) = "idle"
    BY <1>6, JSRRow
  <2>2. UNCHANGED busVars /\ addr' = addr
    BY <2>1, IdleCapture DEF latches
  <2>3. FirstByte(step)' /\ Calling(step)'
    BY <1>2, <1>6, <2>2 DEF FirstByte, Calling, SteadyNames
  <2> QED BY <1>1, <1>3, <2>2, <2>3, StackLatched
<1>7. CASE step = 5
  <2>1. TargetHigh
    <3>1. Capture("targetHigh")
      BY <1>7, JSRRow DEF CaptureView
    <3> QED BY <3>1 DEF Capture
  <2>2. PC = Back /\ PC \notin TtyPage
    BY <1>1, <1>2, <1>7, Promised DEF CaptureView, Least, Back
  <2>3. addr = ISA!At(1)
    BY <1>2, <1>7 DEF Calling
  <2>4. SetHigh(addr, BusData(PC)) = Target
    <3>1. BusData(PC) \in Byte
      BY BusDataByte DEF AtCapture, IInv, DatapathOK
    <3> QED BY <1>4, <2>2, <2>3, <3>1, SetHalves DEF Target
  <2>5. addr' = Target /\ UNCHANGED busVars
    BY <2>1, <2>2, <2>4, QuietRead DEF TargetHigh, LoadAddr
  <2>6. Target' = Target
    <3>1. Back' = Back
      BY DEF AtCapture, Back
    <3>2. BusData(Back)' = BusData(Back)
      BY <2>2, <2>5, <3>1 DEF BusData, busVars
    <3> QED BY <1>2, <3>2 DEF Target, SteadyNames
  <2>7. FirstByte(step)' /\ Calling(step)'
    BY <1>2, <1>7, <2>5, <2>6 DEF FirstByte, Calling, SteadyNames
  <2> QED BY <1>1, <1>3, <2>5, <2>7, StackLatched
<1> QED BY <1>1, <1>5, <1>6, <1>7

LEMMA BreakLatched ==
    ASSUME AtCapture, CaptureView, H = "BRK"
    PROVE  Latched(step)'
<1>1. step \in 1 .. 6 /\ H \in OnStack
  BY BRKRow DEF CaptureView, LastOf, OnStack
<1>2. SteadyNames /\ H' = H /\ Breaking(step - 1) /\ SeenTyped /\ mem = Written(H, step)
  BY CaptureSteady DEF CaptureView, AtCapture, Latched, Committed, Stacked
<1>3. Pulling(step)' /\ Calling(step)'
  BY <1>2 DEF Pulling, Calling
<1>4. CASE step \in 1 .. 4
  <2>1. UNCHANGED busVars
    BY <1>4, BRKRow, IdleCapture, DummyCapture
  <2>2. Breaking(step)'
    BY <1>2, <1>4 DEF Breaking, SteadyNames
  <2> QED BY <1>1, <1>2, <1>3, <2>1, <2>2, StackLatched
<1>5. CASE step = 5
  <2>1. VectorLow(BRKVector)
    <3>1. Capture("vectorLow")
      BY <1>5, BRKRow DEF CaptureView
    <3> QED BY <3>1 DEF Capture
  <2>2. addr' = ISA!BusData(BRKVector) /\ UNCHANGED busVars
    BY <1>2, <2>1, BreakVectorByte DEF VectorLow, LoadAddr, BreakVectors
  <2>3. Breaking(step)'
    BY <1>2, <1>5, <2>2 DEF Breaking, SteadyNames
  <2> QED BY <1>1, <1>2, <1>3, <2>2, <2>3, StackLatched
<1>6. CASE step = 6
  <2>1. VectorHigh(BRKVector)
    <3>1. Capture("vectorHigh")
      BY <1>6, BRKRow DEF CaptureView
    <3> QED BY <3>1 DEF Capture
  <2>2. addr = ISA!BusData(BRKVector)
    BY <1>2, <1>6 DEF Breaking
  <2>3. /\ ISA!BusData(BRKVector) \in Byte /\ ISA!BusData(BRKVector + 1) \in Byte
        /\ BusData(BRKVector + 1) = ISA!BusData(BRKVector + 1)
        /\ BusRead(BRKVector + 1) => UNCHANGED busVars
    BY <1>2, BreakVectorByte DEF BreakVectors
  <2>4. OrHigh(addr, BusData(BRKVector + 1)) = ISA!Cell16(BRKVector, BRKVector + 1)
    BY <2>2, <2>3, JoinedHalves DEF ISA!Cell16
  <2>5. addr' = ISA!Cell16(BRKVector, BRKVector + 1) /\ UNCHANGED busVars
    BY <2>1, <2>3, <2>4 DEF VectorHigh, LoadAddr
  <2>6. ISA!Cell16(BRKVector, BRKVector + 1)' = ISA!Cell16(BRKVector, BRKVector + 1)
    BY SteadyFetch DEF AtCapture
  <2>7. Breaking(step)'
    BY <1>2, <1>6, <2>5, <2>6 DEF Breaking, SteadyNames
  <2> QED BY <1>1, <1>2, <1>3, <2>5, <2>7, StackLatched
<1> QED BY <1>1, <1>4, <1>5, <1>6

(* The rest only read the stack, or nothing.                               *)
LEMMA PullLatched ==
    ASSUME AtCapture, CaptureView, H \in {"RTS", "ImpliedPull", "RTI", "ImpliedPush"}
    PROVE  Latched(step)'
<1>1. H \in OnStack /\ H # "JSR" /\ H # "BRK" /\ step \in 1 .. 5
      /\ (H = "ImpliedPull" => step <= 3) /\ (H = "ImpliedPush" => step <= 2)
  BY RTSRow, RTIRow, ImpliedPullRow, ImpliedPushRow DEF CaptureView, LastOf, OnStack
<1>2. SteadyNames /\ H' = H /\ step' = step /\ Pulling(step - 1) /\ SeenTyped /\ ~ISA!Unpromised
  BY CaptureSteady DEF CaptureView, AtCapture, Latched
<1>3. mem = Seen.mem
  BY <1>1 DEF AtCapture, Committed, Stacked, Written
<1>4. Breaking(step)' /\ Calling(step)'
  BY <1>1, <1>2 DEF Breaking, Calling
<1>5. ISA!Popped(1)' = ISA!Popped(1) /\ ISA!Popped(2)' = ISA!Popped(2)
  BY SteadyFetch DEF AtCapture
<1>6. CASE step = 3 /\ H \in {"RTS", "ImpliedPull"}
  <2>1. PullLow
    <3>1. Capture("pullLow")
      BY <1>6, RTSRow, ImpliedPullRow DEF CaptureView
    <3> QED BY <3>1 DEF Capture
  <2>2. SP = (Seen.SP + 1) % 256
    BY <1>6 DEF AtCapture, Committed, Stacked, Shift
  <2>3. BusData(Stack) = ISA!Popped(1) /\ (BusRead(Stack) => UNCHANGED busVars)
    BY <1>2, <1>3, <2>2, StackByte
  <2>4. addr' = ISA!Popped(1) /\ UNCHANGED busVars
    BY <2>1, <2>3 DEF PullLow, LoadAddr
  <2>5. Pulling(step)'
    BY <1>2, <1>5, <1>6, <2>4 DEF Pulling
  <2> QED BY <1>1, <1>4, <2>4, <2>5, StackLatched
<1>7. CASE step = 4 /\ H = "RTS"
  <2>1. PullHigh
    <3>1. Capture("pullHigh")
      BY <1>7, RTSRow DEF CaptureView
    <3> QED BY <3>1 DEF Capture
  <2>2. SP = (Seen.SP + 2) % 256
    BY <1>7 DEF AtCapture, Committed, Stacked, Shift
  <2>3. /\ BusData(Stack) = ISA!Popped(2) /\ (BusRead(Stack) => UNCHANGED busVars)
        /\ ISA!Popped(1) \in Byte
    BY <1>2, <1>3, <2>2, StackByte, SeenData DEF ISA!Popped
  <2>4. addr = ISA!Popped(1)
    BY <1>2, <1>7 DEF Pulling
  <2>5. SetHigh(addr, BusData(Stack)) = ISA!Popped(1) + 256 * ISA!Popped(2)
    <3>1. ISA!Popped(2) \in Byte
      BY <1>2, SeenData DEF ISA!Popped
    <3> QED BY <2>3, <2>4, <3>1, SetHalves
  <2>6. addr' = ISA!Popped(1) + 256 * ISA!Popped(2) /\ UNCHANGED busVars
    BY <2>1, <2>3, <2>5 DEF PullHigh, LoadAddr
  <2>7. Pulling(step)'
    BY <1>2, <1>5, <1>7, <2>6 DEF Pulling
  <2> QED BY <1>1, <1>4, <2>6, <2>7, StackLatched
<1>8. CASE ~(step = 3 /\ H \in {"RTS", "ImpliedPull"}) /\ ~(step = 4 /\ H = "RTS")
  <2>1. Captures(H, step) = "idle" \/ (Captures(H, step) = "dummyRead" /\ step = 1)
    <3>1. CASE H = "RTS"
      BY <1>1, <1>8, <3>1, RTSRow
    <3>2. CASE H = "RTI"
      BY <1>1, <1>8, <3>2, RTIRow
    <3>3. CASE H = "ImpliedPull"
      BY <1>1, <1>8, <3>3, ImpliedPullRow
    <3>4. CASE H = "ImpliedPush"
      BY <1>1, <1>8, <3>4, ImpliedPushRow
    <3> QED BY <3>1, <3>2, <3>3, <3>4
  <2>2. UNCHANGED busVars /\ addr' = addr
    BY <2>1, IdleCapture, DummyCapture DEF latches
  <2>3. Pulling(step)'
    <3>1. CASE H = "RTS" /\ step = 5
      BY <1>2, <1>5, <2>2, <3>1 DEF Pulling
    <3>2. CASE H = "RTI" /\ step = 5
      BY <1>2, <1>5, <2>2, <3>2 DEF Pulling
    <3>3. CASE ~(H \in {"RTS", "RTI"} /\ step = 5)
      BY <1>1, <1>2, <1>8, <3>3 DEF Pulling
    <3> QED BY <3>1, <3>2, <3>3
  <2> QED BY <1>1, <1>4, <2>2, <2>3, StackLatched
<1> QED BY <1>6, <1>7, <1>8

(* Every instruction.                                                      *)
LEMMA CaptureLatched ==
    ASSUME AtCapture
    PROVE  Latched(step)' /\ CaptureView
<1>1. CaptureView
  BY CaptureFacts
<1>2. H \in Handlers \cup {"Unimplemented"} /\ HowOf(H) = ISA!How
  BY <1>1 DEF CaptureView
<1>3. Kind(H)
  BY <1>2, Timing
<1>4. \/ ISA!How \in Addressing \cup {"imm"} /\ H # "JSR"
      \/ H \in InRegisters \cup {"ImpliedFlagOp", "NOP", "Unimplemented"}
      \/ H = "Branch" \/ H \in OnStack
  BY <1>2, <1>3 DEF Kind, Addressing, OnStack
<1>5. H \in OnStack => H \in {"JSR", "BRK"} \cup {"RTS", "ImpliedPull", "RTI", "ImpliedPush"}
  BY DEF OnStack
<1> QED BY <1>1, <1>4, <1>5, AddressLatched, RegisterLatched, BranchLatched, CallLatched,
          BreakLatched, PullLatched

-----------------------------------------------------------------------------
(* A High edge keeps what the commits did.                                 *)
SeenStatus == StatusByte(Seen.P \cup {"B"})

PushesSteady ==
    /\ ISA!Pushed1(Back \div 256)' = ISA!Pushed1(Back \div 256)
    /\ ISA!Pushed2(Back \div 256, Back % 256)' = ISA!Pushed2(Back \div 256, Back % 256)
    /\ ISA!Pushed3(Back \div 256, Back % 256, SeenStatus)'
         = ISA!Pushed3(Back \div 256, Back % 256, SeenStatus)

LEMMA PushesStay ==
    ASSUME Seen' = Seen
    PROVE  PushesSteady
<1>1. Back' = Back
  BY DEF Back
<1>2. ISA!Pushed1(Back \div 256)' = ISA!Pushed1(Back \div 256)
  BY <1>1 DEF ISA!Pushed1, ISA!Stored, ISA!StackCell
<1>3. ISA!Pushed2(Back \div 256, Back % 256)' = ISA!Pushed2(Back \div 256, Back % 256)
  BY <1>1 DEF ISA!Pushed1, ISA!Pushed2, ISA!Stored, ISA!StackCell
<1>4. SeenStatus' = SeenStatus
  BY DEF SeenStatus
<1>5. ISA!Pushed3(Back \div 256, Back % 256, SeenStatus)'
        = ISA!Pushed3(Back \div 256, Back % 256, SeenStatus)
  BY <1>1, <1>4 DEF ISA!Pushed1, ISA!Pushed2, ISA!Pushed3, ISA!Stored, ISA!StackCell
<1> QED BY <1>2, <1>3, <1>5 DEF PushesSteady

LEMMA WrittenSteady ==
    ASSUME Seen' = Seen, H' = H, step' = step
    PROVE  Written(H, step)' = Written(H, step)
  BY PushesStay DEF PushesSteady, Written, SeenStatus

LEMMA HighEdgeCommitted ==
    ASSUME AtCapture, cycles' = cycles
    PROVE  Committed' /\ Latched(step)'
<1>1. Latched(step)' /\ CaptureView
  BY CaptureLatched
<1>2. Seen' = Seen /\ Committed /\ H' = H /\ step' = step
  BY <1>1 DEF AtCapture, CaptureView
<1>3. UNCHANGED <<A, X, Y, SP, PC, P, halted, mem>>
  BY <1>1 DEF CaptureView
<1>4. Counted'
  <2>1. Passed(H)' = Passed(H)
    BY <1>2 DEF Passed, HowOf
  <2> QED BY <1>2, <1>3, <2>1 DEF Committed, Counted, PCIs, Least, ISA!Plus
<1>5. AsBefore'
  BY <1>2, <1>3 DEF Committed, AsBefore
<1>6. Stacked'
  <2>1. Shift(H, step)' = Shift(H, step) /\ Status(H, step)' = Status(H, step)
    BY <1>2, SteadyFetch DEF Shift, Status
  <2>3. Written(H, step)' = Written(H, step)
    BY <1>2, WrittenSteady
  <2> QED BY <1>2, <1>3, <2>1, <2>3 DEF Committed, Stacked
<1>7. Staying'
  <2>1. Paged(H)' = Paged(H) /\ First(H)' = First(H) /\ ISA!OtherPage' = ISA!OtherPage
    BY <1>2, Steady DEF Paged, First, HowOf
  <2>2. H = "Branch" /\ step > 1 => taken'
    <3>1. SUFFICES ASSUME H = "Branch", step > 1 PROVE taken'
      OBVIOUS
    <3>2. taken /\ Turning(step - 1) /\ step \in 1 .. 6
      BY <1>2, <3>1 DEF Committed, Staying, AtCapture, Latched
    <3>3. ISA!Condition' = ISA!Condition
      BY <1>2, Steady
    <3>4. taken = ISA!Condition
      <4>1. step - 1 >= 1
        BY <3>1, <3>2
      <4> QED BY <3>1, <3>2, <4>1, Zenon DEF Turning
    <3>5. taken' = ISA!Condition'
      BY <1>1, <1>2, <3>1, <3>2 DEF Latched, Turning
    <3> QED BY <3>2, <3>3, <3>4, <3>5, Zenon
  <2> QED BY <1>2, <2>1, <2>2 DEF Committed, Staying
<1> QED BY <1>1, <1>4, <1>5, <1>6, <1>7 DEF Committed

(* T0: the opcode comes from where the instruction set fetches it.         *)
AtFetch ==
    /\ IInv /\ SeenTyped /\ ~ISA!Unpromised /\ Committed /\ DeviceStill
    /\ ~resetActive /\ step = 0 /\ OnClockHigh /\ Seen' = Seen

LEMMA NothingYet ==
    ASSUME step' = 0, cycles' = 0, PC' = Seen'.PC, PC' \in Word, SP' = Seen'.SP, SP' \in Byte,
           mem' = Seen'.mem, P' = Seen'.P, AsBefore'
    PROVE  Committed'
<1>1. Least(step, Passed(H))' = 0
  BY DEF Least, Passed
<1>2. PC' = ISA!Plus(PC', 0)
  BY PlusZero
<1>3. Counted'
  BY <1>1, <1>2 DEF Counted, PCIs
<1>4. Stacked'
  <2>1. SP' = (SP' + 0) % 256
    BY DEF Byte
  <2> QED BY <2>1 DEF Stacked, Shift, Written, Status
<1>5. Staying'
  <2>1. Paged(H)' => First(H)' \in {3, 4}
    BY DEF Paged, First
  <2> QED BY <2>1 DEF Staying
<1> QED BY <1>3, <1>4, <1>5 DEF Committed

LEMMA NothingLatched ==
    ASSUME step' = 0, NEW g \in {-1, 0}, g = 0 => IR' = ISA!Instruction', DeviceStill'
    PROVE  Latched(g)'
<1>1. Addressed(g)'
  BY DEF Addressed, FirstByte, Direct, DirectSince, Fixed, FixedSince, Crosses, Pointing
<1>2. Turning(g)' /\ Calling(g)' /\ Pulling(g)' /\ Breaking(g)' /\ InRegister(g)'
  BY DEF Turning, Calling, Pulling, Breaking, InRegister
<1>3. ~Has(g)'
  BY DEF Has
<1>4. Operating(g)' /\ DeviceSo(g)'
  BY <1>3 DEF Operating, DeviceSo
<1> QED BY <1>1, <1>2, <1>4 DEF Latched

LEMMA FetchCommitted ==
    ASSUME AtFetch, cycles' = cycles
    PROVE  Committed' /\ Latched(step)'
<1>1. OpcodeFetch /\ UNCHANGED <<A, X, Y, SP, PC, P, step, halted>>
  <2>1. Capture("opcodeFetch")
    BY DEF AtFetch, OnClockHigh, CaptureNow
  <2> QED BY <2>1 DEF AtFetch, OnClockHigh, registers, Capture
<1>2. PC = Seen.PC /\ Seen.PC \in Word
  <2>1. Least(step, Passed(H)) = 0
    BY DEF AtFetch, Least, Passed
  <2> QED BY <2>1, PlusZero DEF AtFetch, Committed, Counted, PCIs, SeenTyped
<1>3. SP = Seen.SP /\ mem = Seen.mem /\ P = Seen.P
  <2>1. Seen.SP \in Byte
    BY DEF AtFetch, SeenTyped
  <2>2. (Seen.SP + 0) % 256 = Seen.SP
    BY <2>1 DEF Byte
  <2> QED BY <2>2 DEF AtFetch, Committed, Stacked, Shift, Written, Status
<1>4. PC = ISA!Plus(Seen.PC, 0) /\ PC \notin TtyPage
  BY <1>2, PlusZero, Promised DEF AtFetch
<1>5. IR' = ISA!Instruction /\ UNCHANGED busVars
  BY <1>1, <1>3, <1>4, SameBus, QuietRead DEF OpcodeFetch, ISA!Instruction, ISA!At
<1>6. ISA!Instruction' = ISA!Instruction /\ Seen' = Seen /\ AsBefore /\ cycles = 0 /\ step = 0
  BY Steady DEF AtFetch, Committed, Counted
<1>7. DeviceStill'
  BY <1>5, StillBus DEF AtFetch
<1>8. Committed'
  <2>1. SP \in Byte
    BY DEF AtFetch, IInv, DatapathOK, RegistersOK
  <2>2. AsBefore'
    BY <1>1, <1>6 DEF AsBefore
  <2> QED BY <1>1, <1>2, <1>3, <1>5, <1>6, <2>1, <2>2, NothingYet DEF busVars
<1>9. Latched(0)'
  BY <1>1, <1>5, <1>6, <1>7, NothingLatched
<1>10. step' = 0
  BY <1>1, <1>6
<1> QED BY <1>8, <1>9, <1>10

-----------------------------------------------------------------------------
(* The Low edges that go on to the next T-state.                           *)
AtCommit ==
    /\ IInv /\ SeenTyped /\ ~ISA!Unpromised /\ Committed /\ Latched(step)
    /\ ~resetActive /\ step \in 0 .. 6 /\ OnClockLow /\ cycles' = cycles + 1

CommitView ==
    /\ IR \in Byte /\ IR = ISA!Instruction /\ H \in Handlers \cup {"Unimplemented"}
    /\ ISA!How = HowOf(H) /\ step \in 1 .. 6 /\ step \in DOMAIN Rows(H).commit
    /\ Commit(Commits(H, step)) /\ CommitRow(H) /\ Kind(H)
    /\ PC = ISA!Plus(Seen.PC, Least(step, Passed(H)))

LEMMA CommitFacts ==
    ASSUME AtCommit, step # 0
    PROVE  CommitView
<1>1. IR \in Byte /\ WithinHandler /\ step \in 1 .. 6
  BY DEF AtCommit, IInv, DatapathOK
<1>2. IR = ISA!Instruction
  <2>1. step >= 0
    BY <1>1
  <2> QED BY <2>1 DEF AtCommit, Latched
<1>3. H \in Handlers \cup {"Unimplemented"} /\ ISA!How = HowOf(H)
  BY <1>1, <1>2, SameDecoding
<1>4. Microprogram[IR] = Rows(H)
  BY <1>1 DEF Microprogram, H
<1>5. step \in DOMAIN Rows(H).commit
  BY <1>1, <1>4 DEF AtCommit, WithinHandler
<1>6. Commit(Commits(H, step))
  <2>1. CommitNow = Commits(H, step)
    BY <1>1, <1>4 DEF AtCommit, CommitNow, Commits
  <2> QED BY <1>1, <2>1 DEF AtCommit, OnClockLow
<1>7. CommitRow(H) /\ Kind(H)
  BY <1>3, Timing
<1>8. PC = ISA!Plus(Seen.PC, Least(step, Passed(H)))
  BY DEF AtCommit, Committed, Counted, PCIs
<1> QED BY <1>1, <1>2, <1>3, <1>5, <1>6, <1>7, <1>8 DEF CommitView

Advancing == step' = step + 1 /\ Seen' = Seen /\ IR' = IR /\ H' = H

LEMMA PassedRange ==
    ASSUME NEW h
    PROVE  Passed(h) \in {1, 2, 3}
  BY DEF Passed

LEMMA AdvanceCounted ==
    ASSUME AtCommit, Advancing, PC' = IF step < Passed(H) THEN Next16(PC) ELSE PC
    PROVE  Counted'
<1>1. Seen.PC \in Word /\ step \in 0 .. 6 /\ cycles = step
      /\ PC = ISA!Plus(Seen.PC, Least(step, Passed(H)))
  BY DEF AtCommit, SeenTyped, Committed, Counted, PCIs
<1>2. Passed(H) \in {1, 2, 3} /\ Passed(H)' = Passed(H)
  BY PassedRange DEF Advancing, Passed, HowOf
<1>3. PC' = ISA!Plus(Seen.PC, Least(step + 1, Passed(H)))
  <2>1. CASE step < Passed(H)
    <3>1. Least(step, Passed(H)) = step /\ Least(step + 1, Passed(H)) = step + 1
      BY <1>1, <1>2, <2>1 DEF Least
    <3> QED BY <1>1, <2>1, <3>1, PlusNext
  <2>2. CASE ~(step < Passed(H))
    <3>1. Least(step, Passed(H)) = Least(step + 1, Passed(H))
      BY <1>1, <1>2, <2>2 DEF Least
    <3> QED BY <1>1, <2>2, <3>1
  <2> QED BY <2>1, <2>2
<1>4. ISA!Plus(Seen.PC, Least(step + 1, Passed(H))) = ISA!Plus(Seen'.PC, Least(step', Passed(H)'))
  BY <1>2 DEF Advancing
<1>5. PCIs(Least(step, Passed(H)))'
  BY <1>3, <1>4 DEF PCIs
<1> QED BY <1>1, <1>5 DEF Counted, AtCommit, Advancing

LEMMA StillDevice ==
    ASSUME Seen' = Seen, UNCHANGED <<serial, deck>>
    PROVE  /\ DeviceStill' = DeviceStill
           /\ \A o : ReadSince(o)' = ReadSince(o)
<1>1. DeviceStill' = DeviceStill
  BY DEF DeviceStill, DeckSame, serial, deck
<1>2. TapeRead' = TapeRead
  BY DEF TapeRead, ISA!TapeReadable, serial, deck
<1> QED BY <1>1, <1>2 DEF ReadSince, DeckSame, serial, deck

LEMMA AdvanceLatched ==
    ASSUME AtCommit, Advancing, UNCHANGED <<A, X, Y, latches, serial, deck>>,
           H \notin OnStack => UNCHANGED P, H = "JSR" => step < 5, H = "RTI" => step # 4,
           H \in InRegisters => step = 0
    PROVE  Latched(step - 1)'
<1>1. Latched(step) /\ step \in 0 .. 6 /\ step' - 1 = step
  BY DEF AtCommit, Advancing
<1>2. UNCHANGED <<addr, eff, crossed, offset, taken, aluF, aluA, aluB, aluCI>>
  BY DEF latches
<1>3. /\ ISA!How' = ISA!How /\ ISA!Address' = ISA!Address /\ ISA!OtherPage' = ISA!OtherPage
      /\ ISA!Arg16' = ISA!Arg16 /\ ISA!At(1)' = ISA!At(1) /\ Seen'.X = Seen.X
      /\ ISA!Operand' = ISA!Operand /\ ISA!Condition' = ISA!Condition
      /\ ISA!Instruction' = ISA!Instruction
      /\ \A a : ISA!BusData(a)' = ISA!BusData(a)
      /\ \A n : ISA!Popped(n)' = ISA!Popped(n)
      /\ \A low, high : ISA!Cell16(low, high)' = ISA!Cell16(low, high)
  BY Steady, SteadyFetch, SteadyBus DEF Advancing
<1>4. H' = H /\ IR' = IR /\ Paged(H)' = Paged(H) /\ First(H)' = First(H)
  BY DEF Advancing, Paged, First, HowOf
<1>5. Addressed(step - 1)'
  <2>1. Addressed(step)
    BY <1>1 DEF Latched
  <2>2. FirstByte(step - 1)'
    BY <1>1, <1>2, <1>3, <1>4, <2>1 DEF FirstByte, Addressed
  <2>3. Direct(step - 1)' /\ Fixed(step - 1)'
    BY <1>1, <1>2, <1>3, <1>4, <2>1 DEF Direct, DirectSince, Fixed, FixedSince, Addressed
  <2>4. Crosses(step - 1)'
    BY <1>1, <1>2, <1>3, <1>4, <2>1 DEF Crosses, Addressed
  <2>5. Pointing(step - 1)'
    BY <1>1, <1>2, <1>3, <1>4, <2>1 DEF Pointing, Addressed
  <2> QED BY <2>2, <2>3, <2>4, <2>5 DEF Addressed
<1>6. Turning(step - 1)'
  BY <1>1, <1>2, <1>3, <1>4 DEF Turning, Latched
<1>7. Calling(step - 1)'
  BY <1>1, <1>2, <1>3, <1>4 DEF Calling, Latched
<1>8. Pulling(step - 1)'
  BY <1>1, <1>2, <1>3, <1>4 DEF Pulling, Latched
<1>9. Breaking(step - 1)'
  BY <1>1, <1>2, <1>3, <1>4 DEF Breaking, Latched
<1>10. InRegister(step - 1)'
  BY <1>1, <1>4 DEF InRegister, InRegisters
<1>11. Has(step - 1)' = Has(step) /\ (Has(step) => H \in Touching)
  <2>1. FixupOf(H)' = FixupOf(H)
    BY <1>3, <1>4 DEF FixupOf
  <2> QED BY <1>1, <1>4, <2>1 DEF Has
<1>12. Operating(step - 1)'
  <2>1. SUFFICES ASSUME Has(step) PROVE Doing(ISA!Operand)'
    BY <1>11 DEF Operating
  <2>2. Doing(ISA!Operand)
    BY <1>1, <2>1 DEF Latched, Operating
  <2>3. P' = P
    BY <1>11, <2>1, OnStackApart
  <2>4. Op' = Op /\ BinaryRegister' = BinaryRegister /\ AluOp' = AluOp
    BY <1>4 DEF Op, BinaryRegister, AluOp
  <2> QED BY <1>2, <1>3, <2>2, <2>3, <2>4 DEF Doing
<1>13. DeviceSo(step - 1)'
  <2>1. /\ DeviceStill' = DeviceStill
        /\ \A o : ReadSince(o)' = ReadSince(o)
    BY StillDevice DEF Advancing
  <2> QED BY <1>1, <1>3, <1>11, <2>1 DEF DeviceSo, Latched
<1> QED BY <1>1, <1>3, <1>4, <1>5, <1>6, <1>7, <1>8, <1>9, <1>10, <1>12, <1>13 DEF Latched

(* A T-state that changes nothing but PC keeps the rest.                   *)
LEMMA PlainCommitted ==
    ASSUME AtCommit, Advancing, UNCHANGED <<A, X, Y, SP, P, halted, mem>>,
           PC' = IF step < Passed(H) THEN Next16(PC) ELSE PC,
           Shift(H, step + 1) = Shift(H, step), Written(H, step + 1) = Written(H, step),
           Status(H, step + 1) = Status(H, step), Staying'
    PROVE  Committed'
<1>1. Counted'
  BY AdvanceCounted
<1>2. AsBefore'
  BY DEF AtCommit, Committed, AsBefore, Advancing
<1>3. Stacked'
  <2>1. Written(H, step)' = Written(H, step + 1)
    BY PushesStay DEF PushesSteady, Written, SeenStatus, Advancing
  <2>2. Status(H, step)' = Status(H, step + 1)
    BY SteadyFetch DEF Status, Advancing
  <2>3. Shift(H, step)' = Shift(H, step + 1) /\ Seen' = Seen
    BY DEF Advancing
  <2> QED BY <2>1, <2>2, <2>3 DEF AtCommit, Committed, Stacked
<1> QED BY <1>1, <1>2, <1>3 DEF Committed

(* T0.                                                                     *)
LEMMA FetchAdvances ==
    ASSUME AtCommit, step = 0, Seen' = Seen
    PROVE  step' = 1 /\ Committed' /\ Latched(step - 1)'
<1>1. StepPC
  <2>1. Commit("nextPC")
    BY DEF AtCommit, OnClockLow, WithinHandler, CommitNow
  <2> QED BY <2>1 DEF Commit
<1>2. /\ PC' = Next16(PC) /\ step' = 1 /\ IR' = IR
      /\ UNCHANGED <<A, X, Y, SP, P, halted, mem, latches, serial, deck>>
  BY <1>1 DEF StepPC, Advance, BusIdle, busVars, accumulators, latches
<1>3. Advancing
  BY <1>2 DEF Advancing, H
<1>4. /\ Shift(H, 1) = Shift(H, 0) /\ Written(H, 1) = Written(H, 0)
      /\ Status(H, 1) = Status(H, 0)
  BY DEF Shift, Written, Status
<1>5. Staying'
  <2>1. Paged(H)' => First(H)' \in {3, 4}
    BY DEF Paged, First
  <2> QED BY <1>2, <2>1 DEF Staying
<1>6. step < Passed(H) /\ step + 1 = 1
  BY PassedRange
<1>7. Committed'
  BY <1>2, <1>3, <1>4, <1>5, <1>6, PlainCommitted
<1>8. Latched(step - 1)'
  BY <1>2, <1>3, AdvanceLatched
<1> QED BY <1>2, <1>7, <1>8

AtAdvance == AtCommit /\ CommitView /\ step' # 0 /\ Seen' = Seen

LEMMA AdvanceFacts ==
    ASSUME AtAdvance
    PROVE  Advancing /\ Commits(H, step) \notin Finishing
<1>1. halted \in BOOLEAN /\ resetActive \in BOOLEAN /\ DatapathOK
  BY DEF AtAdvance, AtCommit, IInv, ControlOK
<1>2. Commit(Commits(H, step)) /\ step' # 0
  BY DEF AtAdvance, CommitView
<1>3. step' = step + 1 /\ Commits(H, step) \notin Finishing
  BY <1>1, <1>2, CommitSteps
<1>4. Commits(H, step) = "flagResult" => FALSE
  BY <1>3 DEF Finishing
<1>5. IR' = IR
  BY <1>1, <1>2, <1>4, CommitType
<1> QED BY <1>3, <1>5 DEF Advancing, H, AtAdvance

(* Outside the stack instructions only three kinds of T-state go on.       *)
GoesOn ==
    \/ Commits(H, step) \in {"nextPC", "next"} /\ (Paged(H) => step < First(H)) /\ H # "Branch"
    \/ Commits(H, step) = "resultIfSamePage" /\ Paged(H) /\ step = First(H)
    \/ Commits(H, step) = "branchDecide" /\ H = "Branch" /\ step = 1
    \/ Commits(H, step) = "branchIfSamePage" /\ H = "Branch" /\ step = 2

LEMMA WhatGoesOn ==
    ASSUME AtAdvance, H \notin OnStack
    PROVE  GoesOn /\ (H \in InRegisters => FALSE)
<1>1. /\ step \in 1 .. 6 /\ step \in DOMAIN Rows(H).commit /\ CommitRow(H) /\ Kind(H)
      /\ Commits(H, step) \notin Finishing
  BY AdvanceFacts DEF AtAdvance, CommitView
<1>2. CASE H \in Reading
  <2>1. LastOf(H, First(H) + IF Paged(H) THEN 1 ELSE 0) /\ First(H) \in 1 .. 5
    <3>1. OperandRow(H)
      BY Timing DEF AtAdvance, CommitView
    <3> QED BY <1>1, <1>2, <3>1 DEF CommitRow, OperandRow
  <2>2. step < First(H) \/ step = First(H) \/ (Paged(H) /\ step = First(H) + 1)
    BY <1>1, <2>1 DEF LastOf
  <2>3. H # "Branch" /\ H \notin InRegisters
    BY <1>2 DEF Reading, InRegisters
  <2>4. CASE step < First(H)
    BY <1>1, <1>2, <2>1, <2>3, <2>4 DEF CommitRow, GoesOn
  <2>5. CASE step = First(H)
    BY <1>1, <1>2, <2>3, <2>5 DEF CommitRow, GoesOn, Finishing
  <2>6. CASE Paged(H) /\ step = First(H) + 1
    BY <1>1, <1>2, <2>6 DEF CommitRow, Finishing
  <2> QED BY <2>2, <2>4, <2>5, <2>6, <2>3
<1>3. CASE H \in Rewriting \cup Storing
  <2>1. ~Paged(H) /\ H # "Branch" /\ H \notin InRegisters
    BY <1>3 DEF Paged, Reading, Rewriting, Storing, InRegisters
  <2>2. CASE H \in Rewriting
    <3>1. step < LastRewrite(H) \/ step = LastRewrite(H)
      BY <1>1, <2>2 DEF CommitRow, LastOf
    <3> QED BY <1>1, <2>1, <2>2, <3>1 DEF CommitRow, GoesOn, Finishing
  <2>3. CASE H \in Storing
    <3>1. step < LastStore(H) \/ step = LastStore(H)
      BY <1>1, <2>3 DEF CommitRow, LastOf
    <3> QED BY <1>1, <2>1, <2>3, <3>1 DEF CommitRow, GoesOn, Finishing
  <2> QED BY <1>3, <2>2, <2>3
<1>4. CASE H \in Jumps
  <2>1. ~Paged(H) /\ H \notin InRegisters
    BY <1>4 DEF Paged, Reading, Jumps, InRegisters
  <2>2. CASE H = "JMPAbsolute"
    BY <1>1, <2>1, <2>2, JMPAbsoluteRow DEF LastOf, GoesOn, Finishing
  <2>3. CASE H = "JMPIndirect"
    BY <1>1, <2>1, <2>3, JMPIndirectRow DEF LastOf, GoesOn, Finishing
  <2> QED BY <1>4, <2>2, <2>3 DEF Jumps
<1>5. CASE H = "Branch"
  BY <1>1, <1>5, BranchRow DEF LastOf, GoesOn, Finishing, InRegisters
<1>6. CASE H \in InRegisters \cup {"ImpliedFlagOp", "NOP", "Unimplemented"}
  <2>1. step = 1
    BY <1>1, <1>6 DEF CommitRow, LastOf
  <2>2. Commits(H, 1) \in Finishing
    <3>1. CASE H = "ShiftAccumulator"
      <4>1. Rows(H) = ShiftAccumulator
        BY <3>1 DEF Rows
      <4> QED BY <4>1 DEF Commits, ShiftAccumulator, Finishing
    <3>2. CASE H = "ImpliedIncDec"
      <4>1. Rows(H) = ImpliedIncDec
        BY <3>2 DEF Rows
      <4> QED BY <4>1 DEF Commits, ImpliedIncDec, Finishing
    <3>3. CASE H = "ImpliedTransfer"
      <4>1. Rows(H) = ImpliedTransfer
        BY <3>3 DEF Rows
      <4> QED BY <4>1 DEF Commits, ImpliedTransfer, Finishing
    <3>4. CASE H = "ImpliedFlagOp"
      <4>1. Rows(H) = ImpliedFlagOp
        BY <3>4 DEF Rows
      <4> QED BY <4>1 DEF Commits, ImpliedFlagOp, Finishing
    <3>5. CASE H = "NOP"
      <4>1. Rows(H) = NOP
        BY <3>5 DEF Rows
      <4> QED BY <4>1 DEF Commits, NOP, Finishing
    <3>6. CASE H = "Unimplemented"
      <4>1. Rows(H) = Unimplemented
        BY <3>6 DEF Rows
      <4> QED BY <4>1 DEF Commits, Unimplemented, Finishing
    <3> QED BY <1>6, <3>1, <3>2, <3>3, <3>4, <3>5, <3>6 DEF InRegisters
  <2> QED BY <1>1, <2>1, <2>2
<1> QED BY <1>1, <1>2, <1>3, <1>4, <1>5, <1>6 DEF Kind, Jumps, OnStack

LEMMA PlainAdvances ==
    ASSUME AtAdvance, H \notin OnStack
    PROVE  Committed' /\ Latched(step - 1)'
<1>1. Advancing /\ GoesOn /\ H \notin InRegisters
  BY AdvanceFacts, WhatGoesOn
<1>2. /\ step \in 1 .. 6 /\ step \in DOMAIN Rows(H).commit /\ CommitRow(H)
      /\ Commit(Commits(H, step)) /\ step' = step + 1 /\ AtCommit
  BY <1>1 DEF AtAdvance, CommitView, Advancing
<1>3. \/ Commits(H, step) \in {"nextPC", "branchDecide"} /\ PC' = Next16(PC)
      \/ Commits(H, step) \notin {"nextPC", "branchDecide"} /\ PC' = PC
  BY <1>1, <1>2 DEF GoesOn, Commit, StepPC, StepOnly, ResultIfSamePage, ResultAlone, Result,
     Finish, BranchDecide, BranchIfSamePage, Goto, registers
<1>4. PC' = IF step < Passed(H) THEN Next16(PC) ELSE PC
  BY <1>2, <1>3 DEF CommitRow
<1>5. /\ UNCHANGED <<A, X, Y, SP, P, halted, mem, latches, serial, deck>>
      /\ Commits(H, step) = "resultIfSamePage" => crossed
      /\ Commits(H, step) = "branchDecide" => taken
      /\ Commits(H, step) = "branchIfSamePage" => crossed
  BY <1>1, <1>2 DEF GoesOn, Commit, StepPC, StepOnly, ResultIfSamePage, ResultAlone, Result,
     Finish, Advance, BranchDecide, BranchIfSamePage, Goto, BusIdle, busVars, registers,
     accumulators
<1>6. /\ Shift(H, step + 1) = Shift(H, step) /\ Written(H, step + 1) = Written(H, step)
      /\ Status(H, step + 1) = Status(H, step)
  BY DEF Shift, Written, Status, OnStack
<1>7. Staying'
  <2>1. /\ H' = H /\ Paged(H)' = Paged(H) /\ First(H)' = First(H) /\ taken' = taken
        /\ ISA!OtherPage' = ISA!OtherPage
    BY <1>1, <1>5, Steady DEF Advancing, Paged, First, HowOf, latches
  <2>2. Paged(H) /\ step + 1 > First(H) => ISA!OtherPage
    <3>1. SUFFICES ASSUME Paged(H), step + 1 > First(H) PROVE ISA!OtherPage
      OBVIOUS
    <3>2. First(H) \in {3, 4} /\ H # "Branch" /\ HowOf(H) \in {"absX", "absY", "indY"}
          /\ (HowOf(H) = "indY" => First(H) = 4) /\ (HowOf(H) # "indY" => First(H) = 3)
      BY <3>1 DEF Paged, First, Reading
    <3>3. step = First(H) /\ Commits(H, step) = "resultIfSamePage"
      BY <1>1, <1>2, <3>1, <3>2 DEF GoesOn
    <3>4. crossed = ISA!OtherPage
      <4>1. Crosses(step) /\ ISA!How = HowOf(H)
        BY DEF AtAdvance, AtCommit, CommitView, Latched, Addressed
      <4> QED BY <1>2, <3>1, <3>2, <3>3, <4>1 DEF Crosses
    <3> QED BY <1>5, <3>3, <3>4, Zenon
  <2>3. H = "Branch" /\ step + 1 > 1 => taken
    <3>1. H = "Branch" => ~Paged(H) /\ step \in {1, 2}
      BY <1>1 DEF GoesOn, Paged, Reading
    <3>2. H = "Branch" /\ step = 1 => taken
      BY <1>1, <1>5, <3>1 DEF GoesOn
    <3>3. H = "Branch" /\ step = 2 => taken
      BY DEF AtAdvance, AtCommit, Committed, Staying
    <3> QED BY <3>1, <3>2, <3>3
  <2>4. H = "Branch" /\ step + 1 > 2 => ISA!OtherPage
    <3>1. SUFFICES ASSUME H = "Branch", step + 1 > 2 PROVE ISA!OtherPage
      OBVIOUS
    <3>2. step = 2 /\ Commits(H, step) = "branchIfSamePage"
      BY <1>1, <1>2, <3>1 DEF GoesOn, Paged, Reading
    <3>3. Turning(step) /\ step >= 2
      BY <3>2 DEF AtAdvance, AtCommit, Latched
    <3>4. crossed = ISA!OtherPage
      BY <3>1, <3>3, Zenon DEF Turning
    <3> QED BY <1>5, <3>2, <3>4, Zenon
  <2> QED BY <1>2, <2>1, <2>2, <2>3, <2>4 DEF Staying
<1>8. Committed'
  BY <1>1, <1>2, <1>4, <1>5, <1>6, <1>7, PlainCommitted
<1>9. Latched(step - 1)'
  <2>1. H # "JSR" /\ H # "RTI"
    BY DEF OnStack
  <2> QED BY <1>1, <1>2, <1>5, <2>1, AdvanceLatched
<1> QED BY <1>8, <1>9

-----------------------------------------------------------------------------
(* The T-states of the stack instructions that go on.                      *)

(* What a T-state has to reach.                                            *)
LEMMA MovedCommitted ==
    ASSUME AtCommit, Advancing, H \in OnStack, UNCHANGED <<A, X, Y, halted>>,
           PC' = IF step < Passed(H) THEN Next16(PC) ELSE PC,
           SP' = (Seen.SP + Shift(H, step + 1)) % 256, mem' = Written(H, step + 1),
           P' = Status(H, step + 1)
    PROVE  Committed'
<1>1. Counted'
  BY AdvanceCounted
<1>2. AsBefore'
  BY DEF AtCommit, Committed, AsBefore, Advancing
<1>3. Stacked'
  <2>1. Written(H, step)' = Written(H, step + 1)
    BY PushesStay DEF PushesSteady, Written, SeenStatus, Advancing
  <2>2. Status(H, step)' = Status(H, step + 1)
    BY SteadyFetch DEF Status, Advancing
  <2>3. Shift(H, step)' = Shift(H, step + 1) /\ Seen' = Seen
    BY DEF Advancing
  <2> QED BY <2>1, <2>2, <2>3 DEF Stacked
<1>4. Staying'
  <2>1. H \notin Reading /\ H # "Branch" /\ H' = H
    BY OnStackApart DEF Touching, Advancing
  <2> QED BY <2>1 DEF Staying, Paged
<1> QED BY <1>1, <1>2, <1>3, <1>4 DEF Committed

(* SP one up or one down from where the instruction has moved it.          *)
LEMMA ShiftedOnce ==
    ASSUME SeenTyped, NEW n \in Int, SP = (Seen.SP + n) % 256
    PROVE  /\ (SP - 1) % 256 = (Seen.SP + (n - 1)) % 256
           /\ (SP + 1) % 256 = (Seen.SP + (n + 1)) % 256
<1> DEFINE v == Seen.SP + n
<1>1. Seen.SP \in Int /\ v \in Int
  BY ByteIsInt DEF SeenTyped
<1>2. ((v % 256) - 1) % 256 = (v - 1) % 256 /\ ((v % 256) + 1) % 256 = (v + 1) % 256
  BY <1>1, LowerAgain, NextInPage
<1>3. v - 1 = Seen.SP + (n - 1) /\ v + 1 = Seen.SP + (n + 1)
  BY <1>1
<1> QED BY <1>2, <1>3

(* A push lands in page 1.                                                 *)
LEMMA PushLands ==
    ASSUME SeenTyped, ~ISA!Unpromised, NEW n \in Int, SP = (Seen.SP + n) % 256,
           NEW byte, Push(byte)
    PROVE  /\ mem' = ISA!Stored(mem, ISA!StackCell(n), byte)
           /\ SP' = (Seen.SP + (n - 1)) % 256
           /\ UNCHANGED <<serial, deck>>
<1>1. Stack = ISA!StackCell(n) /\ Stack \notin TtyPage
  BY StackCells, Promised DEF Stack, ISA!StackCell
<1>2. SP' = (Seen.SP + (n - 1)) % 256
  BY ShiftedOnce DEF Push
<1> QED BY <1>1, <1>2 DEF Push, BusWrite, ISA!Stored, ttyVars, serial, deck

StackAt(n) == SP = (Seen.SP + n) % 256

StackView ==
    /\ AtAdvance /\ Advancing /\ AtCommit /\ H \in OnStack /\ SeenTyped /\ ~ISA!Unpromised
    /\ Commit(Commits(H, step)) /\ step \in 1 .. 6 /\ step \in DOMAIN Rows(H).commit
    /\ Commits(H, step) \notin Finishing
    /\ SP = (Seen.SP + Shift(H, step)) % 256 /\ mem = Written(H, step) /\ P = Status(H, step)
    /\ PC = ISA!Plus(Seen.PC, Least(step, Passed(H)))
    /\ Passed(H) = IF H \in {"JSR", "BRK"} THEN 2 ELSE 1

LEMMA StackFacts ==
    ASSUME AtAdvance, H \in OnStack
    PROVE  StackView
<1>1. Advancing /\ AtCommit /\ Commits(H, step) \notin Finishing
  BY AdvanceFacts DEF AtAdvance
<1>2. SeenTyped /\ ~ISA!Unpromised /\ Stacked
  BY <1>1 DEF AtCommit, Committed
<1>3. Commit(Commits(H, step)) /\ step \in 1 .. 6 /\ step \in DOMAIN Rows(H).commit
      /\ PC = ISA!Plus(Seen.PC, Least(step, Passed(H)))
  BY DEF AtAdvance, CommitView
<1>4. Passed(H) = IF H \in {"JSR", "BRK"} THEN 2 ELSE 1
  BY DEF AtAdvance, CommitView, Kind, OnStack, Passed, Reading, Rewriting, Storing, InRegisters
<1> QED BY <1>1, <1>2, <1>3, <1>4 DEF StackView, Stacked

LEMMA StackPasses ==
    ASSUME StackView, Commits(H, step) \in {"next", "nextPC"},
           Commits(H, step) = "nextPC" <=> step < Passed(H),
           Shift(H, step + 1) = Shift(H, step), Written(H, step + 1) = Written(H, step),
           Status(H, step + 1) = Status(H, step),
           H = "JSR" => step < 5, H = "RTI" => step # 4
    PROVE  Committed' /\ Latched(step - 1)'
<1>1. /\ PC' = IF step < Passed(H) THEN Next16(PC) ELSE PC
      /\ UNCHANGED <<A, X, Y, SP, P, halted, mem, latches, serial, deck>>
  BY DEF StackView, Commit, StepPC, StepOnly, Advance, BusIdle, busVars, registers, accumulators
<1>2. Committed'
  BY <1>1, MovedCommitted DEF StackView
<1>3. Latched(step - 1)'
  BY <1>1, AdvanceLatched, OnStackApart DEF StackView
<1> QED BY <1>2, <1>3

LEMMA StackPushes ==
    ASSUME StackView, NEW n \in {0, -1, -2}, NEW byte, Push(byte), Shift(H, step) = n,
           Shift(H, step + 1) = n - 1,
           Written(H, step + 1) = ISA!Stored(Written(H, step), ISA!StackCell(n), byte),
           P' = Status(H, step + 1), UNCHANGED <<A, X, Y, PC, halted, latches>>,
           Passed(H) <= step, H = "JSR" => step < 5, H # "RTI"
    PROVE  Committed' /\ Latched(step - 1)'
<1>1. /\ mem' = ISA!Stored(mem, ISA!StackCell(n), byte)
      /\ SP' = (Seen.SP + (n - 1)) % 256
      /\ UNCHANGED <<serial, deck>>
  BY PushLands DEF StackView
<1>2. ~(step < Passed(H))
  BY DEF StackView
<1>3. Committed'
  BY <1>1, <1>2, MovedCommitted DEF StackView
<1>4. Latched(step - 1)'
  BY <1>1, AdvanceLatched, OnStackApart DEF StackView
<1> QED BY <1>3, <1>4

LEMMA StackPops ==
    ASSUME StackView, NEW n \in {0, 1, 2}, PopSP, Shift(H, step) = n,
           Shift(H, step + 1) = n + 1, Written(H, step + 1) = Seen.mem,
           P' = Status(H, step + 1),
           UNCHANGED <<A, X, Y, PC, halted, latches, mem, serial, deck>>,
           mem = Seen.mem, Passed(H) <= step, H # "JSR", H = "RTI" => step # 4
    PROVE  Committed' /\ Latched(step - 1)'
<1>1. SP' = (Seen.SP + (n + 1)) % 256
  BY ShiftedOnce DEF StackView, PopSP
<1>2. ~(step < Passed(H))
  BY DEF StackView
<1>3. Committed'
  BY <1>1, <1>2, MovedCommitted DEF StackView
<1>4. Latched(step - 1)'
  BY AdvanceLatched, OnStackApart DEF StackView
<1> QED BY <1>3, <1>4

LEMMA CallAdvances ==
    ASSUME StackView, H = "JSR"
    PROVE  Committed' /\ Latched(step - 1)'
<1>1. step \in 1 .. 4 /\ Passed(H) = 2
  BY JSRRow DEF StackView, LastOf, Finishing
<1>2. CASE step \in {1, 2}
  <2>1. Commits(H, step) \in {"next", "nextPC"} /\ (Commits(H, step) = "nextPC" <=> step < 2)
    BY <1>2, JSRRow
  <2>2. /\ Shift(H, step + 1) = Shift(H, step) /\ Written(H, step + 1) = Written(H, step)
        /\ Status(H, step + 1) = Status(H, step)
    BY <1>2 DEF Shift, Written, Status
  <2> QED BY <1>1, <1>2, <2>1, <2>2, StackPasses
<1>3. CASE step \in {3, 4}
  <2> DEFINE byte == IF step = 3 THEN Back \div 256 ELSE Back % 256
             n == IF step = 3 THEN 0 ELSE -1
  <2>1. PC = Back
    BY <1>1, <1>3 DEF StackView, Least, Back
  <2>2. Push(byte) /\ UNCHANGED <<A, X, Y, PC, P, halted, latches>>
    <3>1. CASE step = 3
      <4>1. PushPC(HighByte(PC))
        BY <3>1, JSRRow DEF StackView, Commit
      <4> QED BY <2>1, <3>1, <4>1 DEF PushPC, HighByte, Advance, accumulators
    <3>2. CASE step = 4
      <4>1. PushPC(LowByte(PC))
        BY <3>2, JSRRow DEF StackView, Commit
      <4> QED BY <2>1, <3>2, <4>1 DEF PushPC, LowByte, Advance, accumulators
    <3> QED BY <1>3, <3>1, <3>2
  <2>3. Shift(H, step) = n /\ Shift(H, step + 1) = n - 1 /\ n \in {0, -1, -2}
    BY <1>3 DEF Shift
  <2>4. P' = Status(H, step + 1)
    BY <1>3, <2>2 DEF StackView, Status
  <2>5. Written(H, step + 1) = ISA!Stored(Written(H, step), ISA!StackCell(n), byte)
    <3>1. CASE step = 3
      BY <3>1 DEF Written, ISA!Pushed1
    <3>2. CASE step = 4
      BY <3>2 DEF Written, ISA!Pushed2
    <3> QED BY <1>3, <3>1, <3>2
  <2> HIDE DEF byte, n
  <2> QED BY <1>1, <1>3, <2>2, <2>3, <2>4, <2>5, StackPushes
<1> QED BY <1>1, <1>2, <1>3

LEMMA BreakAdvances ==
    ASSUME StackView, H = "BRK"
    PROVE  Committed' /\ Latched(step - 1)'
<1>1. step \in 1 .. 5 /\ Passed(H) = 2
  BY BRKRow DEF StackView, LastOf, Finishing
<1>2. CASE step \in {1, 5}
  <2>1. Commits(H, step) \in {"next", "nextPC"} /\ (Commits(H, step) = "nextPC" <=> step < 2)
    BY <1>2, BRKRow
  <2>2. /\ Shift(H, step + 1) = Shift(H, step) /\ Written(H, step + 1) = Written(H, step)
        /\ Status(H, step + 1) = Status(H, step)
    BY <1>2 DEF Shift, Written, Status
  <2> QED BY <1>1, <1>2, <2>1, <2>2, StackPasses
<1>3. CASE step \in {2, 3, 4}
  <2> DEFINE byte == IF step = 2 THEN Back \div 256 ELSE IF step = 3 THEN Back % 256
                     ELSE StatusByte(Seen.P \cup {"B"})
             n == IF step = 2 THEN 0 ELSE IF step = 3 THEN -1 ELSE -2
  <2>1. PC = Back /\ P = Seen.P
    BY <1>1, <1>3 DEF StackView, Least, Back, Status
  <2>2. Push(byte) /\ P' = Status(H, step + 1) /\ UNCHANGED <<A, X, Y, PC, halted, latches>>
    <3>1. CASE step = 2
      <4>1. PushPC(HighByte(PC))
        BY <3>1, BRKRow DEF StackView, Commit
      <4> QED BY <2>1, <3>1, <4>1 DEF PushPC, HighByte, Advance, accumulators, Status
    <3>2. CASE step = 3
      <4>1. PushPC(LowByte(PC))
        BY <3>2, BRKRow DEF StackView, Commit
      <4> QED BY <2>1, <3>2, <4>1 DEF PushPC, LowByte, Advance, accumulators, Status
    <3>3. CASE step = 4
      <4>1. PushStatus
        BY <3>3, BRKRow DEF StackView, Commit
      <4> QED BY <2>1, <3>3, <4>1 DEF PushStatus, Advance, accumulators, Status
    <3> QED BY <1>3, <3>1, <3>2, <3>3
  <2>3. Shift(H, step) = n /\ Shift(H, step + 1) = n - 1 /\ n \in {0, -1, -2}
    BY <1>3 DEF Shift
  <2>4. Written(H, step + 1) = ISA!Stored(Written(H, step), ISA!StackCell(n), byte)
    <3>1. CASE step = 2
      BY <3>1 DEF Written, ISA!Pushed1
    <3>2. CASE step = 3
      BY <3>2 DEF Written, ISA!Pushed2
    <3>3. CASE step = 4
      BY <3>3 DEF Written, ISA!Pushed3
    <3> QED BY <1>3, <3>1, <3>2, <3>3
  <2> HIDE DEF byte, n
  <2> QED BY <1>1, <1>3, <2>2, <2>3, <2>4, StackPushes
<1> QED BY <1>1, <1>2, <1>3

LEMMA PullAdvances ==
    ASSUME StackView, H \in {"RTS", "RTI", "ImpliedPush", "ImpliedPull"}
    PROVE  Committed' /\ Latched(step - 1)'
<1>1. /\ Passed(H) = 1 /\ mem = Seen.mem /\ Written(H, step + 1) = Written(H, step)
      /\ Written(H, step + 1) = Seen.mem
  BY DEF StackView, Written
<1>2. /\ H = "RTS" => step \in 1 .. 4
      /\ H = "RTI" => step \in 1 .. 4
      /\ H = "ImpliedPush" => step = 1
      /\ H = "ImpliedPull" => step \in 1 .. 2
  BY RTSRow, RTIRow, ImpliedPushRow, ImpliedPullRow DEF StackView, LastOf, Finishing
<1>3. CASE step = 1 \/ (H = "RTS" /\ step = 4)
  <2>1. Commits(H, step) = "next"
    BY <1>2, <1>3, RTSRow, RTIRow, ImpliedPushRow, ImpliedPullRow
  <2>2. Shift(H, step + 1) = Shift(H, step) /\ Status(H, step + 1) = Status(H, step)
    BY <1>3 DEF Shift, Status
  <2>3. ~(step < Passed(H)) /\ (H = "RTI" => step # 4)
    BY <1>1, <1>2, <1>3
  <2> QED BY <1>1, <2>1, <2>2, <2>3, StackPasses
<1>4. CASE step = 2 \/ (H = "RTS" /\ step = 3)
  <2>1. IncrementSP
    <3>1. Commits(H, step) = "incrementSP"
      BY <1>2, <1>4, RTSRow, RTIRow, ImpliedPullRow
    <3> QED BY <3>1 DEF StackView, Commit
  <2>2. PopSP /\ UNCHANGED <<A, X, Y, PC, P, halted, latches, mem, serial, deck>>
    BY <2>1 DEF IncrementSP, Advance, BusIdle, busVars, accumulators
  <2>3. /\ Shift(H, step) = step - 2 /\ Shift(H, step + 1) = step - 1
        /\ P' = Status(H, step + 1) /\ step - 2 \in {0, 1, 2}
    BY <1>2, <1>4, <2>2 DEF StackView, Shift, Status
  <2>4. step - 1 = (step - 2) + 1 /\ Passed(H) <= step /\ (H = "RTI" => step # 4)
    BY <1>1, <1>4
  <2> QED BY <1>1, <2>2, <2>3, <2>4, StackPops
<1>5. CASE H = "RTI" /\ step = 3
  <2>1. PullStatus
    <3>1. Commits(H, step) = "pullStatus"
      BY <1>5, RTIRow
    <3> QED BY <3>1 DEF StackView, Commit
  <2>2. SP = (Seen.SP + 1) % 256
    BY <1>5 DEF StackView, Shift
  <2>3. BusData(Stack) = ISA!Popped(1) /\ (BusRead(Stack) => UNCHANGED busVars)
    BY <1>1, <2>2, StackByte DEF StackView
  <2>4. /\ PopSP /\ P' = StatusOf(ISA!Popped(1))
        /\ UNCHANGED <<A, X, Y, PC, halted, latches, mem, serial, deck>>
    BY <2>1, <2>3 DEF PullStatus, Advance, busVars, accumulators
  <2>5. Shift(H, step) = 1 /\ Shift(H, step + 1) = 2 /\ P' = Status(H, step + 1)
    BY <1>5, <2>4 DEF Shift, Status
  <2>6. 2 = 1 + 1 /\ 1 \in {0, 1, 2} /\ Passed(H) <= step /\ step # 4
    BY <1>1, <1>5
  <2> QED BY <1>1, <1>5, <2>4, <2>5, <2>6, StackPops
<1>6. CASE H = "RTI" /\ step = 4
  <2>1. PullPCL
    <3>1. Commits(H, step) = "pullPCL"
      BY <1>6, RTIRow
    <3> QED BY <3>1 DEF StackView, Commit
  <2>2. SP = (Seen.SP + 2) % 256
    BY <1>6 DEF StackView, Shift
  <2>3. BusData(Stack) = ISA!Popped(2) /\ (BusRead(Stack) => UNCHANGED busVars)
    BY <1>1, <2>2, StackByte DEF StackView
  <2>4. /\ addr' = ISA!Popped(2) /\ UNCHANGED <<A, X, Y, PC, P, halted, busVars, IR>>
        /\ SP' = (SP + 1) % 256
    BY <2>1, <2>3 DEF PullPCL, PopSP, Advance, accumulators
  <2>5. SP' = (Seen.SP + Shift(H, step + 1)) % 256
    <3>1. Shift(H, step + 1) = 3 /\ 2 + 1 = 3
      BY <1>6 DEF Shift
    <3>2. SP' = (Seen.SP + (2 + 1)) % 256
      BY <2>2, <2>4, ShiftedOnce DEF StackView
    <3> QED BY <3>1, <3>2
  <2>6. P' = Status(H, step + 1) /\ mem' = Written(H, step + 1) /\ ~(step < Passed(H))
    BY <1>1, <1>6, <2>4 DEF StackView, Status, busVars
  <2>7. Committed'
    BY <2>4, <2>5, <2>6, MovedCommitted DEF StackView
  <2>8. Latched(step - 1)'
    <3>1. /\ step' = 5 /\ step' - 1 = 4 /\ H' = H /\ H \notin Touching \cup InRegisters \cup {"Branch"}
          /\ Latched(step) /\ ISA!How = "none" /\ Seen' = Seen
      BY <1>6, OnStackApart DEF StackView, Advancing, AtCommit, AtAdvance, CommitView, HowOf,
         HandlerMode
    <3>2. ISA!How' = ISA!How /\ ISA!Popped(2)' = ISA!Popped(2)
          /\ ISA!Instruction' = ISA!Instruction
      BY <3>1, Steady, SteadyFetch
    <3>3. Addressed(4)'
      BY <3>1, <3>2 DEF Addressed, FirstByte, Direct, DirectSince, Fixed, FixedSince, Crosses,
         Pointing, Paged, Addressing, Touching
    <3>4. Turning(4)' /\ Calling(4)' /\ Breaking(4)' /\ InRegister(4)' /\ Pulling(4)'
      BY <1>6, <2>4, <3>1, <3>2 DEF Turning, Calling, Breaking, InRegister, InRegisters, Pulling
    <3>5. ~Has(4)' /\ ~Has(step)
      BY <3>1 DEF Has
    <3>6. Operating(4)' /\ DeviceSo(4)'
      BY <2>4, <3>1, <3>5, StillBus DEF Operating, DeviceSo, Latched
    <3>7. IR' = ISA!Instruction'
      BY <1>6, <2>4, <3>1, <3>2 DEF Latched
    <3> QED BY <3>1, <3>3, <3>4, <3>6, <3>7 DEF Latched
  <2> QED BY <2>7, <2>8
<1> QED BY <1>2, <1>3, <1>4, <1>5, <1>6 DEF StackView

(* Every T-state that goes on.                                             *)
LEMMA Advances ==
    ASSUME AtAdvance
    PROVE  Committed' /\ Latched(step - 1)'
<1>1. CASE H \notin OnStack
  BY <1>1, PlainAdvances
<1>2. CASE H \in OnStack
  <2>1. StackView
    BY <1>2, StackFacts
  <2> QED BY <1>2, <2>1, CallAdvances, BreakAdvances, PullAdvances DEF OnStack
<1> QED BY <1>1, <1>2

-----------------------------------------------------------------------------
(* The Low edges that end an instruction.                                  *)
AtFinish == AtCommit /\ CommitView /\ step' = 0 /\ phase' = "Low"

After ==
    /\ Seen'.A = A' /\ Seen'.X = X' /\ Seen'.Y = Y' /\ Seen'.SP = SP' /\ Seen'.PC = PC'
    /\ Seen'.P = P' /\ Seen'.halted = halted' /\ Seen'.mem = mem'
    /\ Seen'.rxByte = rxByte' /\ Seen'.rxReady = rxReady' /\ Seen'.out = out'
    /\ Seen'.tape = tape' /\ Seen'.pos = pos' /\ Seen'.motor = motor'
    /\ Seen'.eot = eot' /\ Seen'.err = err'

FinishView ==
    /\ After /\ Seen'.took = step + 1 /\ AsBefore /\ SeenTyped /\ ~ISA!Unpromised
    /\ Latched(step) /\ Staying /\ DatapathOK /\ IR \in Byte
    /\ Commit(Commits(H, step)) /\ step \in 1 .. 6 /\ step \in DOMAIN Rows(H).commit
    /\ step' = 0 /\ CommitRow(H) /\ Kind(H) /\ ISA!How = HowOf(H)
    /\ H \in Handlers \cup {"Unimplemented"}
    /\ ISA!Name = (IF H = "Unimplemented" THEN "" ELSE Op)
    /\ H # "Unimplemented" => Op \in DOMAIN OpcodeOf[H] /\ OpsRow(H)
    /\ SP = (Seen.SP + Shift(H, step)) % 256 /\ mem = Written(H, step) /\ P = Status(H, step)
    /\ PC = ISA!Plus(Seen.PC, Least(step, Passed(H)))

LEMMA FinishFacts ==
    ASSUME AtFinish
    PROVE  FinishView
<1>1. After /\ Seen'.took = cycles'
  BY SeenAfter DEF AtFinish, AtBoundary, After
<1>2. cycles' = step + 1
  BY DEF AtFinish, AtCommit, Committed, Counted
<1>3. /\ AsBefore /\ SeenTyped /\ ~ISA!Unpromised /\ Latched(step) /\ Staying /\ Stacked
      /\ DatapathOK
  BY DEF AtFinish, AtCommit, Committed, IInv
<1>4. CommitView
  BY DEF AtFinish
<1>5. /\ ISA!Name = (IF H = "Unimplemented" THEN "" ELSE Op)
      /\ H # "Unimplemented" => Op \in DOMAIN OpcodeOf[H] /\ OpsRow(H)
  BY <1>4, SameDecoding DEF CommitView
<1>6. step' = 0
  BY DEF AtFinish
<1>7. /\ SP = (Seen.SP + Shift(H, step)) % 256 /\ mem = Written(H, step) /\ P = Status(H, step)
  BY <1>3 DEF Stacked
<1> QED BY <1>1, <1>2, <1>3, <1>4, <1>5, <1>6, <1>7 DEF FinishView, CommitView

(* An instruction that leaves the stack alone ends with the stack, the     *)
(* memory and the status it began with.                                    *)
Plain == SP = Seen.SP /\ mem = Seen.mem /\ P = Seen.P

LEMMA PlainFacts ==
    ASSUME FinishView, H \notin OnStack
    PROVE  Plain
<1>1. Shift(H, step) = 0 /\ Written(H, step) = Seen.mem /\ Status(H, step) = Seen.P
  BY DEF Shift, Written, Status, OnStack
<1>2. Seen.SP \in Byte
  BY DEF FinishView, SeenTyped
<1>3. (Seen.SP + 0) % 256 = Seen.SP
  BY <1>2 DEF Byte
<1> QED BY <1>1, <1>3 DEF FinishView, Plain

LEMMA SeenBytes ==
    ASSUME FinishView
    PROVE  /\ A \in Byte /\ X \in Byte /\ Y \in Byte /\ SP \in Byte /\ PC \in Word
           /\ P \subseteq StatusBit /\ ISA!Operand \in Byte
           /\ A = Seen.A /\ X = Seen.X /\ Y = Seen.Y /\ halted = Seen.halted
  BY SeenData DEF FinishView, DatapathOK, RegistersOK, AsBefore, ISA!Operand

(* PC ends past the bytes of the instruction.                              *)
Moved16 == PC' = ISA!Plus(Seen.PC, ISA!Length(ISA!How))

LEMMA EndsPast ==
    ASSUME FinishView, H \notin OnStack \cup Jumps \cup {"Branch"}, Commits(H, step) # "nextPC",
           Commits(H, step) # "branchDecide", PC' = IF ISA!How = "imm" THEN Next16(PC) ELSE PC
    PROVE  Moved16
<1>1. Passed(H) = IF ISA!How = "imm" THEN 1 ELSE ISA!Length(ISA!How)
  BY DEF FinishView, Passed, ISA!Length, Kind, Addressing, OnStack, Jumps
<1>2. ~(step < Passed(H))
  BY DEF FinishView, CommitRow
<1>3. Passed(H) \in {1, 2, 3}
  BY PassedRange
<1>4. Least(step, Passed(H)) = Passed(H)
  BY <1>2, <1>3 DEF FinishView, Least
<1>5. Seen.PC \in Word /\ PC = ISA!Plus(Seen.PC, Passed(H))
  BY <1>4 DEF FinishView, SeenTyped
<1>6. CASE ISA!How = "imm"
  <2>1. PC' = ISA!Plus(Seen.PC, 1 + 1)
    BY <1>1, <1>5, <1>6, PlusNext
  <2>2. ISA!Length(ISA!How) = 1 + 1
    BY <1>6 DEF ISA!Length
  <2> QED BY <2>1, <2>2 DEF Moved16
<1>7. CASE ISA!How # "imm"
  BY <1>1, <1>5, <1>7 DEF Moved16
<1> QED BY <1>6, <1>7

(* The device at the end of an instruction, as the instruction set has it. *)
LEMMA DeviceKept ==
    ASSUME After, DeviceStill, UNCHANGED <<serial, deck>>
    PROVE  UNCHANGED ISA!ttyVars
  BY DEF After, DeviceStill, DeckSame, serial, deck, ISA!ttyVars

LEMMA DeviceRead ==
    ASSUME After, NEW o, ReadSince(o), UNCHANGED <<serial, deck>>
    PROVE  ISA!TtyRead(o)
<1>1. CASE o = SerialData
  BY <1>1 DEF After, ReadSince, DeckSame, serial, deck, ISA!TtyRead, ISA!SerialData, SerialData,
     TapeData, ISA!TapeData, ISA!ReadSerialData, ISA!deck
<1>2. CASE o = TapeData
  <2>1. TapeRead /\ DeckSame /\ UNCHANGED ISA!serial
    BY <1>2 DEF After, ReadSince, serial, deck, SerialData, TapeData, ISA!serial
  <2>2. ISA!ReadTapeStopped \/ ISA!ReadTapeEnd \/ ISA!ReadTapeByte
    BY <2>1 DEF After, TapeRead, DeckSame, serial, deck, ISA!ReadTapeStopped, ISA!ReadTapeEnd,
       ISA!ReadTapeByte
  <2> QED BY <1>2, <2>1, <2>2 DEF ISA!TtyRead, ISA!ReadTapeData, TapeData, ISA!TapeData
<1>3. CASE o \notin {SerialData, TapeData}
  <2>1. UNCHANGED ISA!ttyVars
    BY <1>3, DeviceKept DEF ReadSince
  <2> QED BY <1>3, <2>1 DEF ISA!TtyRead, SerialData, TapeData, ISA!SerialData, ISA!TapeData
<1> QED BY <1>1, <1>2, <1>3

LEMMA DeviceWritten ==
    ASSUME After, DeviceStill, NEW o, NEW val, TtyWrite(o, val)
    PROVE  ISA!TtyWrite(o, val)
<1>1. CASE o = SerialData /\ WriteSerialData(val)
  BY <1>1 DEF After, DeviceStill, DeckSame, WriteSerialData, deck, ISA!TtyWrite, ISA!SerialData,
     SerialData, ISA!WriteSerialData, ISA!deck
<1>2. CASE o = TapeControl /\ WriteTapeControl(val)
  BY <1>2 DEF After, DeviceStill, DeckSame, WriteTapeControl, serial, ISA!TtyWrite,
     ISA!TapeControl, TapeControl, ISA!WriteTapeControl, ISA!serial
<1>3. CASE o = TapeData /\ WriteTapeData(val)
  <2>1. Punch(val) = ISA!Punch(val)
    BY DEF Punch, ISA!Punch, DeviceStill, DeckSame
  <2>2. (ISA!WriteTapeStopped \/ ISA!WriteTapeByte(val)) /\ UNCHANGED ISA!serial
    BY <1>3, <2>1 DEF After, DeviceStill, DeckSame, WriteTapeData, WriteTapeStopped,
       WriteTapeByte, serial, ISA!WriteTapeStopped, ISA!WriteTapeByte, ISA!serial
  <2> QED BY <1>3, <2>2 DEF ISA!TtyWrite, ISA!TapeData, TapeData, ISA!WriteTapeData
<1>4. CASE o \notin {SerialData, TapeControl, TapeData} /\ UNCHANGED ttyVars
  <2>1. UNCHANGED <<serial, deck>>
    BY <1>4 DEF ttyVars, serial, deck
  <2>2. UNCHANGED ISA!ttyVars
    BY <2>1, DeviceKept
  <2> QED BY <1>4, <2>2 DEF ISA!TtyWrite, SerialData, TapeControl, TapeData, ISA!SerialData,
          ISA!TapeControl, ISA!TapeData
<1> QED BY <1>1, <1>2, <1>3, <1>4 DEF TtyWrite

(* What both machines compute alike.                                       *)
LEMMA SameLogic ==
    /\ \A a, b : ISA!And(a, b) = And(a, b)
    /\ \A a, b : ISA!Or(a, b) = Or(a, b)
    /\ \A a, b : ISA!Xor(a, b) = Xor(a, b)
    /\ \A d : ISA!Signed(d) = Signed(d)
<1>1. \A a, b : ISA!And(a, b) = And(a, b)
  BY DEF ISA!And, And, ISA!Both, Both, ISA!Bit, Bit
<1>2. \A a, b : ISA!Or(a, b) = Or(a, b)
  BY <1>1 DEF ISA!Or, Or
<1>3. \A a, b : ISA!Xor(a, b) = Xor(a, b)
  BY <1>1 DEF ISA!Xor, Xor
<1>4. \A d : ISA!Signed(d) = Signed(d)
  BY DEF ISA!Signed, Signed
<1> QED BY <1>1, <1>2, <1>3, <1>4

LEMMA SameStatus ==
    /\ \A p : ISA!StatusByte(p) = StatusByte(p)
    /\ \A d : ISA!StatusOf(d) = StatusOf(d)
    /\ \A p, c, r : ISA!SetBits(p, c, r) = SetBits(p, c, r)
<1>1. \A p : ISA!StatusByte(p) = StatusByte(p)
  BY DEF ISA!StatusByte, StatusByte, ISA!Raised, Raised, ISA!Weight, Weight
<1>2. \A d : ISA!StatusOf(d) = StatusOf(d)
  BY DEF ISA!StatusOf, StatusOf, ISA!StatusBit, StatusBit, ISA!Bit, Bit, ISA!Weight, Weight
<1>3. \A p, c, r : ISA!SetBits(p, c, r) = SetBits(p, c, r)
  BY DEF ISA!SetBits, SetBits
<1> QED BY <1>1, <1>2, <1>3

LEMMA SameFlags ==
    /\ \A c, b : ISA!If(c, b) = If(c, b)
    /\ \A d : ISA!NZ(d) = ZeroNegative(d)
<1>1. \A c, b : ISA!If(c, b) = If(c, b)
  BY DEF ISA!If, If
<1>2. \A d : ISA!NZ(d) = ZeroNegative(d)
  BY <1>1 DEF ISA!NZ, ZeroNegative, AluZero, AluNegative
<1> QED BY <1>1, <1>2

LEMMA CarryIsOne == ISA!C = One("C" \in Seen.P)
  BY DEF ISA!C, One

-----------------------------------------------------------------------------
(* The instructions that read their operand.                               *)
ReadEnd ==
    /\ FinishView /\ Plain /\ H \in Reading /\ (BinaryResult \/ LoadResult)
    /\ Moved16 /\ Doing(ISA!Operand) /\ ISA!Name = Op /\ step = First(H) + FixupOf(H)
    /\ UNCHANGED <<SP, mem, halted, serial, deck>>

LEMMA ReadEnds ==
    ASSUME FinishView, H \in Reading
    PROVE  ReadEnd
<1>0. step \in 1 .. 6 /\ step' = 0 /\ Staying
  BY DEF FinishView
<1>1. /\ H \notin OnStack \cup Jumps \cup {"Branch", "Unimplemented"}
      /\ H \in Handlers
  BY DEF FinishView, Reading, OnStack, Jumps
<1>2. /\ LastOf(H, First(H) + IF Paged(H) THEN 1 ELSE 0) /\ First(H) \in 1 .. 5
      /\ CommitRow(H)
  <2>1. OperandRow(H)
    BY <1>1, Timing
  <2> QED BY <1>1, <2>1 DEF CommitRow, OperandRow, FinishView
<1>3. step < First(H) \/ step = First(H) \/ (Paged(H) /\ step = First(H) + 1)
  <2>1. step \in DOMAIN Rows(H).commit
    BY DEF FinishView
  <2> QED BY <1>0, <1>2, <2>1 DEF LastOf
<1>4. ~(step < First(H))
  <2>1. step < First(H) => Commits(H, step) \in {"nextPC", "next"}
    BY <1>0, <1>2 DEF CommitRow
  <2>2. Commits(H, step) \in {"nextPC", "next"} => step' = step + 1
    BY DEF FinishView, Commit, StepPC, StepOnly, Advance
  <2> QED BY <1>0, <2>1, <2>2
<1>5. ISA!How = HowOf(H) /\ Addressed(step)
  BY DEF FinishView, Latched
<1>6. Paged(H) => crossed = ISA!OtherPage
  <2>1. Paged(H) => step >= (IF ISA!How = "indY" THEN 3 ELSE 2)
    BY <1>3, <1>4, <1>5 DEF Paged, First
  <2> QED BY <1>5, <2>1 DEF Addressed, Crosses
<1>7. /\ Commits(H, step) \in {"resultPC", "result", "resultIfSamePage"}
      /\ Commits(H, step) = "resultPC" <=> ISA!How = "imm"
      /\ Commits(H, step) = "resultIfSamePage" <=> Paged(H) /\ step = First(H)
  <2>1. CASE step = First(H)
    BY <1>2, <1>5, <2>1 DEF CommitRow, Paged
  <2>2. CASE Paged(H) /\ step = First(H) + 1
    <3>1. Commits(H, step) = "result" /\ ISA!How # "imm" /\ step # First(H)
      BY <1>2, <1>5, <2>2 DEF CommitRow, Paged
    <3> QED BY <3>1
  <2> QED BY <1>3, <1>4, <2>1, <2>2
<1>8. /\ Result /\ PC' = IF ISA!How = "imm" THEN Next16(PC) ELSE PC
      /\ Commits(H, step) = "resultIfSamePage" => ~crossed
  <2>1. Commits(H, step) = "resultPC" => ResultPC
    BY DEF FinishView, Commit
  <2>2. Commits(H, step) = "result" => ResultAlone
    BY DEF FinishView, Commit
  <2>3. Commits(H, step) = "resultIfSamePage" => ResultAlone /\ ~crossed
    <3>1. Commits(H, step) = "resultIfSamePage" => ResultIfSamePage
      BY DEF FinishView, Commit
    <3>2. ~StepOnly
      BY <1>0 DEF StepOnly, Advance
    <3> QED BY <3>1, <3>2 DEF ResultIfSamePage
  <2> QED BY <1>7, <2>1, <2>2, <2>3 DEF ResultPC, ResultAlone
<1>9. step = First(H) + FixupOf(H)
  <2>1. CASE step = First(H)
    <3>1. Paged(H) => ~ISA!OtherPage
      <4>1. Paged(H) => ~crossed
        BY <1>7, <1>8, <2>1
      <4> QED BY <1>6, <4>1, Zenon
    <3> QED BY <1>2, <2>1, <3>1 DEF FixupOf
  <2>2. CASE Paged(H) /\ step = First(H) + 1
    <3>1. step > First(H) /\ Staying
      BY <1>0, <1>2, <2>2
    <3>2. ISA!OtherPage
      BY <2>2, <3>1 DEF Staying
    <3> QED BY <2>2, <3>2 DEF FixupOf
  <2> QED BY <1>3, <1>4, <2>1, <2>2
<1>10. Moved16
  BY <1>1, <1>7, <1>8, EndsPast
<1>11. Doing(ISA!Operand)
  <2>1. Has(step)
    BY <1>0, <1>9 DEF Has, Touching
  <2> QED BY <2>1 DEF FinishView, Latched, Operating
<1>12. Plain /\ ISA!Name = Op
  BY <1>1, PlainFacts DEF FinishView
<1>13. BinaryResult \/ LoadResult
  BY <1>8 DEF Result
<1>14. UNCHANGED <<SP, mem, halted, serial, deck>>
  BY <1>8 DEF Result, Finish, BusIdle, busVars
<1> QED BY <1>9, <1>10, <1>11, <1>12, <1>13, <1>14 DEF ReadEnd

LEMMA OrNothing ==
    ASSUME NEW d \in Byte, NEW c
    PROVE  AluValue("OR", 0, d, c) = d
<1>1. 0 \in Byte
  BY DEF Byte
<1>2. And(0, d) \in Byte /\ And(0, d) <= 0
  BY <1>1, AndBounds
<1>3. And(0, d) = 0
  BY <1>2 DEF Byte
<1>4. 0 + d - And(0, d) = d
  BY <1>3 DEF Byte
<1>5. Or(0, d) = d
  BY <1>4, Zenon DEF Or
<1> QED BY <1>5 DEF AluValue

(* Past the instruction, and nothing changed but registers and flags.      *)
LEMMA GoneOver ==
    ASSUME FinishView, Plain, Moved16, UNCHANGED <<SP, mem, halted>>
    PROVE  ISA!GoOver
<1>1. Seen'.PC = ISA!Plus(Seen.PC, ISA!Length(ISA!How))
  BY DEF FinishView, After, Moved16
<1> QED BY <1>1, SeenBytes DEF FinishView, After, Plain, ISA!GoOver, ISA!GoOn, ISA!Keep

LEMMA LoadEnds ==
    ASSUME ReadEnd, Op \in {"LDA", "LDX", "LDY"}
    PROVE  ISA!Load
<1>1. ISA!GoOver
  BY GoneOver DEF ReadEnd
<1>2. LoadResult
  BY DEF ReadEnd, BinaryResult, Binary
<1>3. aluA = 0 /\ aluB = ISA!Operand /\ aluF = "OR"
  BY DEF ReadEnd, Doing
<1>4. Settled = ISA!Operand
  BY <1>3, OrNothing, SeenBytes DEF ReadEnd, Settled
<1>5. P' = ISA!SetBits(Seen.P, {"N", "Z"}, ISA!NZ(ISA!Operand))
  <2>1. {"Z", "N"} = {"N", "Z"}
    OBVIOUS
  <2> QED BY <1>2, <1>4, <2>1, SameStatus, SameFlags DEF LoadResult, ReadEnd, Plain
<1>6. /\ Seen'.A = A' /\ Seen'.X = X' /\ Seen'.Y = Y' /\ Seen'.P = P'
      /\ A = Seen.A /\ X = Seen.X /\ Y = Seen.Y /\ ISA!Name = Op
  BY SeenBytes DEF ReadEnd, FinishView, After
<1> QED BY <1>1, <1>2, <1>4, <1>5, <1>6 DEF LoadResult, ISA!Load, ISA!Flags

(* The ALU's inputs for the others.                                        *)
LEMMA BinaryDone ==
    ASSUME ReadEnd, Op \in Binary
    PROVE  /\ BinaryResult
           /\ aluA = BinaryRegister /\ aluB = BinaryB(AluOp, ISA!Operand)
           /\ aluCI = BinaryCarryIn(AluOp, "C" \in Seen.P) /\ aluF = BinaryFunction(AluOp)
           /\ Seen'.A = A' /\ Seen'.P = P' /\ UNCHANGED <<Seen.X, Seen.Y>>
           /\ A = Seen.A /\ X = Seen.X /\ Y = Seen.Y /\ P = Seen.P /\ ISA!Name = Op
           /\ A \in Byte /\ X \in Byte /\ Y \in Byte /\ ISA!Operand \in Byte
<1>1. BinaryResult
  BY DEF ReadEnd, LoadResult, Binary
<1>2. /\ aluA = BinaryRegister /\ aluB = BinaryB(AluOp, ISA!Operand)
      /\ aluCI = BinaryCarryIn(AluOp, "C" \in P) /\ aluF = BinaryFunction(AluOp)
  BY DEF ReadEnd, Doing
<1>3. /\ P = Seen.P /\ ISA!Name = Op /\ Seen'.A = A' /\ Seen'.P = P'
      /\ Seen'.X = X' /\ Seen'.Y = Y'
  BY DEF ReadEnd, Plain, FinishView, After
<1>4. /\ A = Seen.A /\ X = Seen.X /\ Y = Seen.Y /\ A \in Byte /\ X \in Byte /\ Y \in Byte
      /\ ISA!Operand \in Byte
  BY SeenBytes DEF ReadEnd
<1>5. X' = X /\ Y' = Y
  BY <1>1 DEF BinaryResult
<1> QED BY <1>1, <1>2, <1>3, <1>4, <1>5

LEMMA LogicEnds ==
    ASSUME ReadEnd, Op \in {"AND", "ORA", "EOR"}
    PROVE  ISA!Logic
<1>1. ISA!GoOver
  BY GoneOver DEF ReadEnd
<1>2. /\ BinaryResult /\ aluA = BinaryRegister /\ aluB = BinaryB(AluOp, ISA!Operand)
      /\ aluF = BinaryFunction(AluOp)
      /\ Seen'.A = A' /\ Seen'.P = P' /\ UNCHANGED <<Seen.X, Seen.Y>>
      /\ A = Seen.A /\ P = Seen.P /\ ISA!Name = Op
  BY BinaryDone DEF Binary
<1>3. AluOp = Op /\ BinaryRegister = A
  BY DEF AluOp, BinaryRegister
<1>4. aluB = ISA!Operand
  BY <1>2, <1>3 DEF BinaryB
<1>5. Settled = CASE Op = "AND" -> ISA!And(Seen.A, ISA!Operand)
                  [] Op = "ORA" -> ISA!Or(Seen.A, ISA!Operand)
                  [] Op = "EOR" -> ISA!Xor(Seen.A, ISA!Operand)
  BY <1>2, <1>3, <1>4, SameLogic DEF Settled, AluValue, BinaryFunction
<1>6. A' = Settled /\ P' = SetBits(P, {"Z", "N"}, ZeroNegative(Settled))
  BY <1>2 DEF BinaryResult, BinaryStatus
<1>7. ISA!Flags({"N", "Z"}, ISA!NZ(Seen'.A))
  <2>1. {"Z", "N"} = {"N", "Z"}
    OBVIOUS
  <2> QED BY <1>2, <1>6, <2>1, SameStatus, SameFlags DEF ISA!Flags
<1> QED BY <1>1, <1>2, <1>5, <1>6, <1>7 DEF ISA!Logic

(* Addition and subtraction: carries are integers.                         *)
LEMMA SumOf ==
    ASSUME NEW s \in Int, s >= -256, s <= 511
    PROVE  /\ s > 255 => s % 256 = s - 256
           /\ s >= 0 /\ s <= 255 => s % 256 = s
           /\ s < 0 => s % 256 = s + 256
  OBVIOUS

ArithmeticOf(carry) ==
    /\ Settled = ISA!Sum % 256
    /\ SettledCarry <=> ISA!NoBorrow
    /\ AluOverflow(aluA, aluB, Settled) <=> ISA!SignedSum \notin -128 .. 127

LEMMA AddsExactly ==
    ASSUME ISA!Name = "ADC", NEW a \in Byte, NEW m \in Byte, NEW c \in BOOLEAN,
           a = Seen.A, m = ISA!Operand, ISA!C = One(c),
           aluF = "ADD", aluA = a, aluB = m, aluCI = c
    PROVE  ArithmeticOf(c)
<1> DEFINE s == a + m + One(c)
<1>1. ISA!Sum = s /\ (ISA!NoBorrow <=> s > 255)
  BY DEF ISA!Sum, ISA!NoBorrow
<1>2. ISA!SignedSum = Signed(a) + Signed(m) + One(c)
  BY SameLogic DEF ISA!SignedSum
<1>3. IsSum(Settled, SettledCarry, s)
  BY AddExact DEF Settled, SettledCarry
<1>4. AluOverflow(aluA, aluB, Settled) <=> ~Fits(Signed(a) + Signed(m) + One(c))
  BY AddOverflow DEF Settled
<1>5. s \in Int /\ s >= 0 /\ s <= 511
  BY DEF One, Byte
<1> HIDE DEF s
<1>6. Settled = s % 256 /\ (SettledCarry <=> s > 255)
  BY <1>3, <1>5, SumOf DEF IsSum
<1> QED BY <1>1, <1>2, <1>4, <1>6 DEF ArithmeticOf, Fits

LEMMA SubtractsExactly ==
    ASSUME ISA!Name = "SBC", NEW a \in Byte, NEW m \in Byte, NEW c \in BOOLEAN,
           a = Seen.A, m = ISA!Operand, ISA!C = One(c),
           aluF = "ADD", aluA = a, aluB = Not(m), aluCI = c
    PROVE  ArithmeticOf(c)
<1> DEFINE s == a - m - (1 - One(c))
<1>1. ISA!Sum = s /\ (ISA!NoBorrow <=> s >= 0)
  BY DEF ISA!Sum, ISA!NoBorrow
<1>2. ISA!SignedSum = Signed(a) - Signed(m) - (1 - One(c))
  BY SameLogic DEF ISA!SignedSum
<1>3. IsDifference(Settled, SettledCarry, s)
  BY SubtractExact DEF Settled, SettledCarry
<1>4. AluOverflow(aluA, aluB, Settled) <=> ~Fits(Signed(a) - Signed(m) - (1 - One(c)))
  BY SubtractOverflow DEF Settled
<1>5. s \in Int /\ s >= -256 /\ s <= 255
  BY DEF One, Byte
<1> HIDE DEF s
<1>6. Settled = s % 256 /\ (SettledCarry <=> s >= 0)
  BY <1>3, <1>5, SumOf DEF IsDifference
<1> QED BY <1>1, <1>2, <1>4, <1>6 DEF ArithmeticOf, Fits

LEMMA ArithmeticEnds ==
    ASSUME ReadEnd, Op \in {"ADC", "SBC"}
    PROVE  ISA!Arithmetic
<1>1. ISA!GoOver
  BY GoneOver DEF ReadEnd
<1>2. /\ BinaryResult /\ aluA = BinaryRegister /\ aluB = BinaryB(AluOp, ISA!Operand)
      /\ aluF = BinaryFunction(AluOp) /\ aluCI = BinaryCarryIn(AluOp, "C" \in Seen.P)
      /\ Seen'.A = A' /\ Seen'.P = P' /\ UNCHANGED <<Seen.X, Seen.Y>>
      /\ A = Seen.A /\ P = Seen.P /\ ISA!Name = Op /\ A \in Byte /\ ISA!Operand \in Byte
  BY BinaryDone DEF Binary
<1>3. AluOp = Op /\ BinaryRegister = A
  BY DEF AluOp, BinaryRegister
<1>4. aluF = "ADD" /\ aluCI = ("C" \in Seen.P)
      /\ aluB = IF Op = "ADC" THEN ISA!Operand ELSE Not(ISA!Operand)
  BY <1>2, <1>3 DEF BinaryB, BinaryFunction, BinaryCarryIn
<1>5. ArithmeticOf("C" \in Seen.P)
  <2>1. ("C" \in Seen.P) \in BOOLEAN /\ aluA = A /\ A \in Byte /\ ISA!Operand \in Byte
        /\ A = Seen.A
    BY <1>2, <1>3
  <2>2. CASE Op = "ADC"
    <3>1. aluB = ISA!Operand /\ ISA!Name = "ADC"
      BY <1>2, <1>4, <2>2
    <3> QED BY <1>4, <2>1, <3>1, CarryIsOne, AddsExactly, Zenon
  <2>3. CASE Op = "SBC"
    <3>1. aluB = Not(ISA!Operand) /\ ISA!Name = "SBC"
      BY <1>2, <1>4, <2>3
    <3> QED BY <1>4, <2>1, <3>1, CarryIsOne, SubtractsExactly, Zenon
  <2> QED BY <2>2, <2>3
<1>6. A' = Settled /\ P' = SetBits(P, {"C", "Z", "V", "N"},
            ZeroNegative(Settled) \cup If(SettledCarry, "C")
              \cup If(AluOverflow(aluA, aluB, Settled), "V"))
  BY <1>2 DEF BinaryResult, BinaryStatus
<1>7. /\ If(SettledCarry, "C") = ISA!If(ISA!NoBorrow, "C")
      /\ If(AluOverflow(aluA, aluB, Settled), "V") = ISA!If(ISA!SignedSum \notin -128 .. 127, "V")
      /\ ZeroNegative(Settled) = ISA!NZ(ISA!Sum % 256)
  BY <1>5, SameFlags DEF ArithmeticOf, If
<1>8. {"C", "Z", "V", "N"} = {"N", "V", "Z", "C"}
  OBVIOUS
<1>9. Seen'.A = ISA!Sum % 256
  BY <1>2, <1>5, <1>6 DEF ArithmeticOf
<1>10. ISA!Flags({"N", "V", "Z", "C"},
                 ISA!NZ(ISA!Sum % 256) \cup ISA!If(ISA!NoBorrow, "C")
                   \cup ISA!If(ISA!SignedSum \notin -128 .. 127, "V"))
  BY <1>2, <1>6, <1>7, <1>8, SameStatus DEF ISA!Flags
<1> QED BY <1>1, <1>2, <1>9, <1>10 DEF ISA!Arithmetic

LEMMA ComparesExactly ==
    ASSUME NEW r \in Byte, NEW m \in Byte
    PROVE  /\ AluValue("ADD", r, Not(m), TRUE) = (r - m) % 256
           /\ AluCarry("ADD", r, Not(m), TRUE) <=> r >= m
<1> DEFINE d == AluValue("ADD", r, Not(m), TRUE)
           s == r - m - (1 - One(TRUE))
<1>1. IsDifference(d, AluCarry("ADD", r, Not(m), TRUE), s)
  BY SubtractExact
<1>2. s = r - m /\ s \in Int /\ s >= -256 /\ s <= 255
  BY DEF One, Byte
<1> HIDE DEF d, s
<1>3. d = s % 256 /\ (AluCarry("ADD", r, Not(m), TRUE) <=> s >= 0)
  <2>1. s \in Int /\ s >= -256 /\ s <= 511
    BY <1>2
  <2>2. /\ s >= 0 /\ s <= 255 => s % 256 = s
        /\ s < 0 => s % 256 = s + 256
    BY <2>1, SumOf
  <2>3. /\ s >= 0 => d = s
        /\ ~(s >= 0) => d = s + 256
        /\ AluCarry("ADD", r, Not(m), TRUE) <=> s >= 0
    BY <1>1 DEF IsDifference
  <2>4. CASE s >= 0
    BY <1>2, <2>2, <2>3, <2>4
  <2>5. CASE ~(s >= 0)
    <3>1. s < 0
      BY <2>1, <2>5
    <3> QED BY <2>2, <2>3, <2>5, <3>1
  <2> QED BY <2>4, <2>5
<1>4. r - m >= 0 <=> r >= m
  BY DEF Byte
<1> QED BY <1>2, <1>3, <1>4 DEF d

LEMMA CompareEnds ==
    ASSUME ReadEnd, Op \in {"CMP", "CPX", "CPY"}
    PROVE  ISA!Compare
<1>1. ISA!GoOver
  BY GoneOver DEF ReadEnd
<1>2. /\ BinaryResult /\ aluA = BinaryRegister /\ aluB = BinaryB(AluOp, ISA!Operand)
      /\ aluF = BinaryFunction(AluOp) /\ aluCI = BinaryCarryIn(AluOp, "C" \in Seen.P)
      /\ Seen'.A = A' /\ Seen'.P = P' /\ UNCHANGED <<Seen.X, Seen.Y>>
      /\ A = Seen.A /\ X = Seen.X /\ Y = Seen.Y /\ P = Seen.P /\ ISA!Name = Op
      /\ A \in Byte /\ X \in Byte /\ Y \in Byte /\ ISA!Operand \in Byte
  BY BinaryDone DEF Binary
<1> DEFINE r == CASE Op = "CMP" -> Seen.A [] Op = "CPX" -> Seen.X [] Op = "CPY" -> Seen.Y
<1>3. AluOp = "CMP" /\ BinaryRegister = r /\ r \in Byte
  BY <1>2 DEF AluOp, BinaryRegister
<1>4. aluF = "ADD" /\ aluCI = TRUE /\ aluB = Not(ISA!Operand) /\ aluA = r
  BY <1>2, <1>3 DEF BinaryB, BinaryFunction, BinaryCarryIn
<1> HIDE DEF r
<1>5. Settled = (r - ISA!Operand) % 256 /\ (SettledCarry <=> r >= ISA!Operand)
  BY <1>2, <1>3, <1>4, ComparesExactly, ZenonT(30) DEF Settled, SettledCarry
<1>6. /\ A' = A
      /\ P' = SetBits(P, {"C", "Z", "N"}, ZeroNegative(Settled) \cup If(SettledCarry, "C"))
  BY <1>2 DEF BinaryResult, BinaryStatus
<1>7. {"C", "Z", "N"} = {"N", "Z", "C"}
  OBVIOUS
<1>8. /\ If(SettledCarry, "C") = ISA!If(r >= ISA!Operand, "C")
      /\ ZeroNegative(Settled) = ISA!NZ((r - ISA!Operand) % 256)
  BY <1>5, SameFlags DEF If
<1>9. ISA!Flags({"N", "Z", "C"},
                ISA!NZ((r - ISA!Operand) % 256) \cup ISA!If(r >= ISA!Operand, "C"))
  BY <1>2, <1>6, <1>7, <1>8, SameStatus DEF ISA!Flags
<1> QED BY <1>1, <1>2, <1>6, <1>9 DEF ISA!Compare, r

LEMMA BitTestEnds ==
    ASSUME ReadEnd, Op = "BIT"
    PROVE  ISA!BitTest
<1>1. ISA!GoOver
  BY GoneOver DEF ReadEnd
<1>2. /\ BinaryResult /\ aluA = BinaryRegister /\ aluB = BinaryB(AluOp, ISA!Operand)
      /\ aluF = BinaryFunction(AluOp)
      /\ Seen'.A = A' /\ Seen'.P = P' /\ UNCHANGED <<Seen.X, Seen.Y>>
      /\ A = Seen.A /\ P = Seen.P /\ ISA!Name = Op /\ ISA!Operand \in Byte
  BY BinaryDone DEF Binary
<1> DEFINE m == ISA!Operand
<1>3. AluOp = "BIT" /\ BinaryRegister = A
  BY DEF AluOp, BinaryRegister
<1>4. aluF = "AND" /\ aluB = m
  BY <1>2, <1>3 DEF BinaryB, BinaryFunction
<1>5. Settled = ISA!And(Seen.A, m)
  BY <1>2, <1>3, <1>4, SameLogic DEF Settled, AluValue
<1>6. /\ A' = A
      /\ P' = SetBits(P, {"Z", "V", "N"},
                 If(AluZero(Settled), "Z") \cup If(AluNegative(m), "N")
                   \cup If(Bit(m, 64) = 1, "V"))
  BY <1>2, <1>4 DEF BinaryResult, BinaryStatus
<1>7. {"Z", "V", "N"} = {"N", "V", "Z"}
  OBVIOUS
<1>8. If(AluNegative(m), "N") \cup If(Bit(m, 64) = 1, "V")
        = {b \in ISA!StatusOf(m) : b \in {"N", "V"}}
  <2>1. AluNegative(m) <=> Bit(m, 128) = 1
    BY <1>2, TopBit DEF AluNegative
  <2>2. /\ "N" \in StatusOf(m) <=> Bit(m, 128) = 1
        /\ "V" \in StatusOf(m) <=> Bit(m, 64) = 1
    BY DEF StatusOf, StatusBit, Weight
  <2> HIDE DEF m
  <2> QED BY <2>1, <2>2, SameStatus DEF If
<1>9. If(AluZero(Settled), "Z") = ISA!If(ISA!And(Seen.A, m) = 0, "Z")
  BY <1>5, SameFlags DEF AluZero
<1> HIDE DEF m
<1>10. ISA!Flags({"N", "V", "Z"},
                 {b \in ISA!StatusOf(m) : b \in {"N", "V"}}
                   \cup ISA!If(ISA!And(Seen.A, m) = 0, "Z"))
  <2> DEFINE zero == If(AluZero(Settled), "Z")
             rest == If(AluNegative(m), "N") \cup If(Bit(m, 64) = 1, "V")
  <2>1. P' = SetBits(P, {"Z", "V", "N"}, rest \cup zero)
    BY <1>6 DEF SetBits
  <2>2. ISA!Flags({"N", "V", "Z"}, rest \cup zero)
    <3> HIDE DEF rest, zero
    <3> QED BY <1>2, <1>7, <2>1, SameStatus DEF ISA!Flags
  <2> QED BY <1>8, <1>9, <2>2
<1> QED BY <1>1, <1>2, <1>6, <1>10 DEF ISA!BitTest, m

(* The cycles and the one access to the device.                            *)
LEMMA ReadTakes ==
    ASSUME ReadEnd
    PROVE  ISA!Name \in ISA!Reads /\ Seen'.took = ISA!Cycles
<1>1. /\ H \in Reading /\ H \in Handlers /\ Op \in ISA!Reads /\ ISA!Name = Op
      /\ Seen'.took = First(H) + FixupOf(H) + 1
      /\ ISA!How = HowOf(H) /\ HowOf(H) \in (Addressing \ {"ind"}) \cup {"imm"}
  <2>1. H \in Handlers /\ H # "Unimplemented"
    BY DEF ReadEnd, FinishView, Reading
  <2>2. Op \in ISA!Reads
    BY <2>1 DEF ReadEnd, FinishView, OpsRow
  <2>3. HowOf(H) \in (Addressing \ {"ind"}) \cup {"imm"}
    BY DEF ReadEnd, FinishView, Kind, Reading, Rewriting, Storing, Jumps, OnStack, InRegisters
  <2> QED BY <2>1, <2>2, <2>3 DEF ReadEnd, FinishView
<1>2. ISA!Cycles = ISA!ReadCycles
  <2>1. ISA!Name \in ISA!Reads
    BY <1>1
  <2>2. /\ ISA!Name \notin ISA!Stores \cup ISA!Modifies \cup ISA!Branches
        /\ ISA!Name \notin {"BRK", "JSR", "RTS", "RTI", "JMP", "PHA", "PHP", "PLA", "PLP"}
    BY <2>1 DEF ISA!Reads, ISA!Stores, ISA!Modifies, ISA!Branches
  <2> QED BY <2>1, <2>2 DEF ISA!Cycles
<1>3. ISA!ReadCycles = First(H) + FixupOf(H) + 1
  BY <1>1 DEF ISA!ReadCycles, ISA!Crossing, First, FixupOf, Paged, Addressing
<1> QED BY <1>1, <1>2, <1>3

LEMMA ReadAccess ==
    ASSUME ReadEnd
    PROVE  ISA!DeviceAccess
<1>1. ISA!Name \in ISA!Reads /\ DeviceSo(step) /\ After /\ UNCHANGED <<serial, deck>>
  BY ReadTakes DEF ReadEnd, FinishView, Latched
<1>2. Has(step)
  <2>1. step \in 1 .. 6 /\ step = First(H) + FixupOf(H) /\ H \in Reading
    BY DEF ReadEnd, FinishView
  <2> QED BY <2>1 DEF Has, Touching
<1>3. ISA!Name \notin ISA!Stores
  BY <1>1 DEF ISA!Reads, ISA!Stores
<1>4. CASE ISA!Address \in TtyPage
  <2>1. ISA!TtyRead(ISA!Address - TtyBase)
    BY <1>1, <1>2, <1>4, DeviceRead DEF DeviceSo
  <2> QED BY <1>1, <1>4, <2>1, SamePage DEF ISA!DeviceAccess
<1>5. CASE ISA!Address \notin TtyPage
  <2>1. UNCHANGED ISA!ttyVars
    BY <1>1, <1>5, DeviceKept DEF DeviceSo
  <2> QED BY <1>1, <1>5, <2>1, SamePage DEF ISA!DeviceAccess
<1> QED BY <1>4, <1>5

LEMMA ReadExecutes ==
    ASSUME FinishView, H \in Reading
    PROVE  ISA!Execute
<1>1. ReadEnd
  BY ReadEnds
<1>2. Op \in Binary \cup {"LDA", "LDX", "LDY"}
  BY <1>1 DEF ReadEnd, BinaryResult, LoadResult
<1>3. ISA!Load \/ ISA!Arithmetic \/ ISA!Logic \/ ISA!Compare \/ ISA!BitTest
  BY <1>1, <1>2, LoadEnds, LogicEnds, ArithmeticEnds, CompareEnds, BitTestEnds DEF Binary
<1> QED BY <1>1, <1>3, ReadTakes, ReadAccess DEF ISA!Execute


-----------------------------------------------------------------------------
(* The instructions that modify their operand.                             *)
ShiftsAlike(d, c) ==
    /\ (2 * d) % 256 = (d + d) % 256
    /\ ((2 * d) % 256) + c = (d + d + c) % 256
    /\ (d \div 2) + (128 * c) = (d + (256 * c)) \div 2
    /\ (1 + d + 0) % 256 = (d + 1) % 256
    /\ (255 + d + 0) % 256 = (d - 1) % 256
    /\ d >= 128 <=> d > 127

LEMMA UnaryArithmetic ==
    ASSUME NEW d \in Byte, NEW c \in {0, 1}
    PROVE  ShiftsAlike(d, c)
  BY DEF Byte, ShiftsAlike

UnaryIn(d) ==
    /\ Op \in UnaryOp /\ ISA!Name = Op /\ d \in Byte /\ P = Seen.P
    /\ Op \in {"INC", "DEC"} => aluA = UnaryA(Op, 0)
    /\ aluB = d /\ aluCI = UnaryCarryIn(Op, "C" \in P) /\ aluF = UnaryFunction(Op)

Falling(d) == IF ISA!Name \in {"ASL", "ROL"} THEN d > 127 ELSE d % 2 = 1

LEMMA ModifiesExactly ==
    ASSUME NEW d, UnaryIn(d)
    PROVE  /\ Settled = ISA!Modified(d)
           /\ Op \notin {"INC", "DEC"} => (SettledCarry <=> Falling(d))
<1>1. ISA!C = One("C" \in P) /\ ISA!C \in {0, 1} /\ One(FALSE) = 0
  BY CarryIsOne DEF UnaryIn, One
<1>2. /\ (2 * d) % 256 = (d + d) % 256
      /\ ((2 * d) % 256) + ISA!C = (d + d + ISA!C) % 256
      /\ (d \div 2) + (128 * ISA!C) = (d + (256 * ISA!C)) \div 2
      /\ (1 + d + 0) % 256 = (d + 1) % 256
      /\ (255 + d + 0) % 256 = (d - 1) % 256
      /\ d >= 128 <=> d > 127
  <2>1. d \in Byte /\ ISA!C \in {0, 1}
    BY <1>1 DEF UnaryIn
  <2>2. ShiftsAlike(d, ISA!C)
    BY <2>1, UnaryArithmetic, Zenon
  <2> QED BY <2>2 DEF ShiftsAlike
<1>3. CASE Op = "ASL"
  <2>1. aluF = "SHL" /\ aluB = d /\ ISA!Name = "ASL"
    BY <1>3 DEF UnaryIn, UnaryFunction
  <2>2. Settled = (2 * d) % 256 /\ (SettledCarry <=> d >= 128)
    BY <2>1 DEF Settled, AluValue, SettledCarry, AluCarry
  <2>3. ISA!Modified(d) = (d + d) % 256 /\ (Falling(d) <=> d > 127)
    BY <2>1 DEF ISA!Modified, Falling
  <2> QED BY <1>2, <2>2, <2>3
<1>4. CASE Op = "ROL"
  <2>1. aluF = "ROL" /\ aluB = d /\ ISA!Name = "ROL" /\ aluCI = ("C" \in P)
    BY <1>4 DEF UnaryIn, UnaryFunction, UnaryCarryIn
  <2>2. Settled = ((2 * d) % 256) + One("C" \in P) /\ (SettledCarry <=> d >= 128)
    BY <2>1 DEF Settled, AluValue, SettledCarry, AluCarry
  <2>3. ISA!Modified(d) = (d + d + ISA!C) % 256 /\ (Falling(d) <=> d > 127)
    BY <2>1 DEF ISA!Modified, Falling
  <2>4. Settled = ((2 * d) % 256) + ISA!C
    BY <1>1, <2>2, Zenon
  <2> QED BY <1>2, <2>2, <2>3, <2>4
<1>5. CASE Op = "LSR"
  <2>1. aluF = "SHR" /\ aluB = d /\ ISA!Name = "LSR"
    BY <1>5 DEF UnaryIn, UnaryFunction
  <2>2. Settled = d \div 2 /\ (SettledCarry <=> d % 2 = 1)
    BY <2>1 DEF Settled, AluValue, SettledCarry, AluCarry
  <2>3. ISA!Modified(d) = d \div 2 /\ (Falling(d) <=> d % 2 = 1)
    BY <2>1 DEF ISA!Modified, Falling
  <2> QED BY <2>2, <2>3
<1>6. CASE Op = "ROR"
  <2>1. aluF = "ROR" /\ aluB = d /\ ISA!Name = "ROR" /\ aluCI = ("C" \in P)
    BY <1>6 DEF UnaryIn, UnaryFunction, UnaryCarryIn
  <2>2. Settled = (d \div 2) + (128 * One("C" \in P)) /\ (SettledCarry <=> d % 2 = 1)
    BY <2>1 DEF Settled, AluValue, SettledCarry, AluCarry
  <2>3. ISA!Modified(d) = (d + (256 * ISA!C)) \div 2 /\ (Falling(d) <=> d % 2 = 1)
    BY <2>1 DEF ISA!Modified, Falling
  <2>4. Settled = (d \div 2) + (128 * ISA!C)
    BY <1>1, <2>2, Zenon
  <2> QED BY <1>2, <2>2, <2>3, <2>4
<1>7. CASE Op = "INC"
  <2>1. aluF = "ADD" /\ aluB = d /\ ISA!Name = "INC" /\ aluCI = FALSE /\ aluA = 1
    BY <1>7 DEF UnaryIn, UnaryFunction, UnaryCarryIn, UnaryA
  <2>2. Settled = (1 + d + 0) % 256
    BY <1>1, <2>1 DEF Settled, AluValue
  <2>3. ISA!Modified(d) = (d + 1) % 256
    BY <2>1 DEF ISA!Modified
  <2> QED BY <1>2, <1>7, <2>2, <2>3
<1>8. CASE Op = "DEC"
  <2>1. aluF = "ADD" /\ aluB = d /\ ISA!Name = "DEC" /\ aluCI = FALSE /\ aluA = 255
    BY <1>8 DEF UnaryIn, UnaryFunction, UnaryCarryIn, UnaryA
  <2>2. Settled = (255 + d + 0) % 256
    BY <1>1, <2>1 DEF Settled, AluValue
  <2>3. ISA!Modified(d) = (d - 1) % 256
    BY <2>1 DEF ISA!Modified
  <2> QED BY <1>2, <1>8, <2>2, <2>3
<1> QED BY <1>3, <1>4, <1>5, <1>6, <1>7, <1>8 DEF UnaryIn, UnaryOp

LEMMA ModifyStatus ==
    ASSUME NEW d, UnaryIn(d), P' = UnaryStatus, Seen'.P = P'
    PROVE  ISA!ModifyFlags(d)
<1>1. /\ Settled = ISA!Modified(d) /\ ISA!Name = Op /\ P = Seen.P
      /\ Op \notin {"INC", "DEC"} => (SettledCarry <=> Falling(d))
  BY ModifiesExactly DEF UnaryIn
<1>2. {"Z", "N"} = {"N", "Z"} /\ {"C", "Z", "N"} = {"N", "Z", "C"}
  OBVIOUS
<1>3. ZeroNegative(Settled) = ISA!NZ(ISA!Modified(d))
  BY <1>1, SameFlags
<1>4. CASE Op \in {"INC", "DEC"}
  <2>1. Seen'.P = SetBits(Seen.P, {"N", "Z"}, ISA!NZ(ISA!Modified(d)))
    BY <1>1, <1>2, <1>3, <1>4 DEF UnaryStatus
  <2>2. ISA!Flags({"N", "Z"}, ISA!NZ(ISA!Modified(d)))
    BY <2>1, SameStatus DEF ISA!Flags
  <2> QED BY <1>1, <1>4, <2>2 DEF ISA!ModifyFlags
<1>5. CASE Op \notin {"INC", "DEC"}
  <2>1. If(SettledCarry, "C") = ISA!If(Falling(d), "C")
    BY <1>1, <1>5, SameFlags DEF If
  <2>2. Seen'.P = SetBits(Seen.P, {"N", "Z", "C"},
                          ISA!NZ(ISA!Modified(d)) \cup ISA!If(Falling(d), "C"))
    BY <1>1, <1>2, <1>3, <1>5, <2>1 DEF UnaryStatus
  <2>3. ISA!Flags({"N", "Z", "C"}, ISA!NZ(ISA!Modified(d)) \cup ISA!If(Falling(d), "C"))
    BY <2>2, SameStatus DEF ISA!Flags
  <2> QED BY <1>1, <1>5, <2>3 DEF ISA!ModifyFlags, Falling
<1> QED BY <1>4, <1>5

(* In memory.                                                              *)
RewriteEnd ==
    /\ FinishView /\ Plain /\ Moved16 /\ step = LastRewrite(H) /\ WriteBack(ISA!Address)
    /\ UnaryIn(ISA!Operand) /\ ISA!How # "none" /\ ISA!Address \notin TtyPage /\ DeviceStill

LEMMA RewriteEnds ==
    ASSUME FinishView, H \in Rewriting
    PROVE  RewriteEnd
<1>0. step \in 1 .. 6 /\ step' = 0 /\ step \in DOMAIN Rows(H).commit
  BY DEF FinishView
<1>1. /\ H \notin OnStack \cup Jumps \cup {"Branch", "Unimplemented"} /\ H # "JSR"
      /\ H \in Handlers /\ ~Paged(H) /\ HowOf(H) \in {"zp", "zpX", "abs", "absX"}
  BY DEF FinishView, Kind, Rewriting, OnStack, Jumps, Paged, Reading, Storing, InRegisters
<1>2. /\ LastOf(H, LastRewrite(H)) /\ LastRewrite(H) \in 4 .. 6
      /\ First(H) < LastRewrite(H) /\ First(H) \in 1 .. 5
      /\ \A i \in 1 .. LastRewrite(H) - 1 : Commits(H, i) \in {"nextPC", "next"}
      /\ Commits(H, LastRewrite(H)) =
             IF HowOf(H) = "absX" THEN "writeBackEff" ELSE "writeBackAddr"
  <2>1. OperandRow(H)
    BY <1>1, Timing
  <2> QED BY <2>1 DEF FinishView, CommitRow, OperandRow
<1>3. step = LastRewrite(H)
  <2>1. step <= LastRewrite(H)
    BY <1>0, <1>2 DEF LastOf
  <2>2. step < LastRewrite(H) => Commits(H, step) \in {"nextPC", "next"}
    BY <1>0, <1>2
  <2>3. Commits(H, step) \in {"nextPC", "next"} => step' = step + 1
    BY DEF FinishView, Commit, StepPC, StepOnly, Advance
  <2> QED BY <1>0, <1>2, <2>1, <2>2, <2>3
<1>4. ISA!How = HowOf(H) /\ Addressed(step) /\ Operating(step) /\ DeviceSo(step)
  BY DEF FinishView, Latched
<1>5. WriteBack(ISA!Address)
  <2>1. CASE HowOf(H) = "absX"
    <3>1. eff = ISA!Address
      <4>1. FixedSince(step)
        BY <1>2, <1>3, <1>4, <2>1 DEF FixedSince
      <4> QED BY <1>4, <4>1 DEF Addressed, Fixed
    <3>2. WriteBack(eff)
      <4>1. Commits(H, step) = "writeBackEff"
        BY <1>2, <1>3, <2>1
      <4> QED BY <4>1 DEF FinishView, Commit
    <3> QED BY <3>1, <3>2
  <2>2. CASE HowOf(H) # "absX"
    <3>1. addr = ISA!Address
      <4>1. DirectSince(step)
        BY <1>1, <1>2, <1>3, <1>4, <2>2 DEF DirectSince
      <4> QED BY <1>4, <4>1 DEF Addressed, Direct
    <3>2. WriteBack(addr)
      <4>1. Commits(H, step) = "writeBackAddr"
        BY <1>2, <1>3, <2>2
      <4> QED BY <4>1 DEF FinishView, Commit
    <3> QED BY <3>1, <3>2
  <2> QED BY <2>1, <2>2
<1>6. Has(step)
  BY <1>0, <1>1, <1>2, <1>3 DEF Has, Touching, FixupOf
<1>7. Plain /\ ISA!Name = Op /\ Op \in UnaryOp /\ ISA!Operand \in Byte
  BY <1>1, PlainFacts, SeenBytes DEF FinishView, OpsRow
<1>8. UnaryIn(ISA!Operand)
  BY <1>4, <1>6, <1>7 DEF UnaryIn, Plain, Operating, Doing
<1>9. ISA!Address \notin TtyPage /\ ISA!How # "none"
  <2>1. ISA!Name \in ISA!Modifies /\ ISA!How # "none"
    BY <1>1, <1>4, <1>7 DEF UnaryOp, ISA!Modifies
  <2>2. ~ISA!Unpromised
    BY DEF FinishView
  <2> QED BY <2>1, <2>2, Promised
<1>10. DeviceStill
  BY <1>4, <1>9 DEF DeviceSo
<1>11. Moved16
  <2>1. PC' = PC
    BY <1>5 DEF WriteBack
  <2>2. Commits(H, step) \notin {"nextPC", "branchDecide"} /\ ISA!How # "imm"
    BY <1>1, <1>2, <1>3, <1>4
  <2> QED BY <1>1, <2>1, <2>2, EndsPast
<1> QED BY <1>3, <1>5, <1>7, <1>8, <1>9, <1>10, <1>11 DEF RewriteEnd

LEMMA GoneOn ==
    ASSUME FinishView, Moved16
    PROVE  ISA!GoOn
  BY DEF FinishView, After, Moved16, ISA!GoOn

LEMMA RewriteExecutes ==
    ASSUME FinishView, H \in Rewriting
    PROVE  ISA!Execute
<1>1. RewriteEnd
  BY RewriteEnds
<1>2. /\ Seen'.A = A' /\ Seen'.X = X' /\ Seen'.Y = Y' /\ Seen'.SP = SP' /\ Seen'.P = P'
      /\ Seen'.halted = halted' /\ Seen'.mem = mem' /\ Seen'.took = step + 1 /\ After
      /\ A = Seen.A /\ X = Seen.X /\ Y = Seen.Y /\ SP = Seen.SP /\ halted = Seen.halted
      /\ mem = Seen.mem
  BY <1>1, SeenBytes DEF FinishView, After, RewriteEnd, Plain
<1>3. Settled = ISA!Modified(ISA!Operand)
  BY <1>1, ModifiesExactly DEF RewriteEnd
<1>4. ISA!ModifyFlags(ISA!Operand)
  BY <1>1, <1>2, ModifyStatus DEF RewriteEnd, WriteBack
<1>5. mem' = ISA!Stored(Seen.mem, ISA!Address, ISA!Modified(ISA!Operand))
  BY <1>1, <1>2, <1>3 DEF RewriteEnd, WriteBack, BusWrite, ISA!Stored
<1>6. UNCHANGED <<A, X, Y, SP, halted, serial, deck>>
  BY <1>1 DEF RewriteEnd, WriteBack, BusWrite, ttyVars, serial, deck, accumulators, Finish
<1>7. ISA!Name \in ISA!Modifies /\ ISA!How # "none"
  BY <1>1 DEF RewriteEnd, UnaryIn, UnaryOp, ISA!Modifies
<1>8. ISA!GoOn
  BY <1>1, GoneOn DEF RewriteEnd
<1>9. ISA!Modify
  BY <1>2, <1>4, <1>5, <1>6, <1>7, <1>8 DEF ISA!Modify
<1>10. /\ ISA!Name \notin ISA!Reads /\ ISA!Name \notin ISA!Stores
       /\ ISA!Name \notin ISA!Branches
       /\ ISA!Name \notin {"BRK", "JSR", "RTS", "RTI", "JMP", "PHA", "PHP", "PLA", "PLP"}
  BY <1>7 DEF ISA!Reads, ISA!Stores, ISA!Modifies, ISA!Branches
<1>11. ISA!DeviceAccess
  <2>1. UNCHANGED ISA!ttyVars
    BY <1>1, <1>2, <1>6, DeviceKept DEF RewriteEnd
  <2> QED BY <1>10, <2>1 DEF ISA!DeviceAccess
<1>12. Seen'.took = ISA!Cycles
  <2>1. ISA!Cycles = ISA!ModifyCycles
    BY <1>7, <1>10 DEF ISA!Cycles
  <2>2. H \in Rewriting /\ ISA!How = HowOf(H) /\ HowOf(H) \in {"zp", "zpX", "abs", "absX"}
    BY DEF FinishView, Kind, Rewriting, OnStack, Jumps, Reading, Storing, InRegisters
  <2>3. step = LastRewrite(H)
    BY <1>1 DEF RewriteEnd
  <2>4. LastRewrite(H) + 1 = ISA!ModifyCycles
    BY <2>2 DEF ISA!ModifyCycles, LastRewrite
  <2> QED BY <1>2, <2>1, <2>3, <2>4
<1> QED BY <1>9, <1>11, <1>12 DEF ISA!Execute


-----------------------------------------------------------------------------
(* The stores.                                                             *)
LEMMA StoreExecutes ==
    ASSUME FinishView, H \in Storing
    PROVE  ISA!Execute
<1>0. step \in 1 .. 6 /\ step' = 0 /\ step \in DOMAIN Rows(H).commit
  BY DEF FinishView
<1>1. /\ H \notin OnStack \cup Jumps \cup {"Branch", "Unimplemented"} /\ H # "JSR"
      /\ H \notin Touching /\ H \in Handlers /\ HowOf(H) \in Addressing \ {"ind"}
  BY DEF FinishView, Kind, Storing, OnStack, Jumps, Touching, Reading, Rewriting, InRegisters
<1>2. /\ LastOf(H, LastStore(H)) /\ LastStore(H) \in 2 .. 5
      /\ \A i \in 1 .. LastStore(H) - 1 : Commits(H, i) \in {"nextPC", "next"}
      /\ Commits(H, LastStore(H)) =
             IF HowOf(H) \in {"zp", "zpX", "zpY", "abs"} THEN "storeAddr" ELSE "storeEff"
  BY DEF FinishView, CommitRow
<1>3. step = LastStore(H)
  <2>1. step <= LastStore(H)
    BY <1>0, <1>2 DEF LastOf
  <2>2. step < LastStore(H) => Commits(H, step) \in {"nextPC", "next"}
    BY <1>0, <1>2
  <2>3. Commits(H, step) \in {"nextPC", "next"} => step' = step + 1
    BY DEF FinishView, Commit, StepPC, StepOnly, Advance
  <2> QED BY <1>0, <1>2, <2>1, <2>2, <2>3
<1>4. ISA!How = HowOf(H) /\ Addressed(step) /\ DeviceSo(step)
  BY DEF FinishView, Latched
<1>5. Store(ISA!Address)
  <2>1. CASE HowOf(H) \in {"absX", "absY", "indX", "indY"}
    <3>1. eff = ISA!Address
      <4>1. FixedSince(step)
        BY <1>2, <1>3, <1>4, <2>1 DEF FixedSince, LastStore
      <4> QED BY <1>4, <4>1 DEF Addressed, Fixed
    <3>2. Store(eff)
      <4>1. Commits(H, step) = "storeEff"
        BY <1>2, <1>3, <2>1
      <4> QED BY <4>1 DEF FinishView, Commit
    <3> QED BY <3>1, <3>2
  <2>2. CASE HowOf(H) \in {"zp", "zpX", "zpY", "abs"}
    <3>1. addr = ISA!Address
      <4>1. DirectSince(step)
        BY <1>1, <1>2, <1>3, <1>4, <2>2 DEF DirectSince, LastStore
      <4> QED BY <1>4, <4>1 DEF Addressed, Direct
    <3>2. Store(addr)
      <4>1. Commits(H, step) = "storeAddr"
        BY <1>2, <1>3, <2>2
      <4> QED BY <4>1 DEF FinishView, Commit
    <3> QED BY <3>1, <3>2
  <2> QED BY <1>1, <2>1, <2>2 DEF Addressing
<1>6. DeviceStill
  BY <1>1, <1>4 DEF DeviceSo, Has
<1>7. Plain /\ ISA!Name = Op /\ ISA!Name \in ISA!Stores
  BY <1>1, PlainFacts DEF FinishView, OpsRow
<1>8. /\ Seen'.A = A' /\ Seen'.X = X' /\ Seen'.Y = Y' /\ Seen'.SP = SP' /\ Seen'.P = P'
      /\ Seen'.halted = halted' /\ Seen'.mem = mem' /\ Seen'.took = step + 1 /\ After
      /\ A = Seen.A /\ X = Seen.X /\ Y = Seen.Y /\ SP = Seen.SP /\ halted = Seen.halted
      /\ mem = Seen.mem /\ P = Seen.P
  BY <1>7, SeenBytes DEF FinishView, After, Plain
<1>9. UNCHANGED <<A, X, Y, SP, P, PC, halted>>
  BY <1>5 DEF Store, registers, Finish
<1>10. StoreSource = ISA!Source
  BY <1>7, <1>8 DEF StoreSource, ISA!Source, ISA!Stores
<1>11. mem' = ISA!Stored(Seen.mem, ISA!Address, ISA!Source)
  BY <1>5, <1>8, <1>10 DEF Store, BusWrite, ISA!Stored
<1>12. ISA!GoOn
  <2>1. Commits(H, step) \notin {"nextPC", "branchDecide"} /\ ISA!How # "imm"
    BY <1>1, <1>2, <1>3, <1>4 DEF Addressing
  <2>2. Moved16
    BY <1>1, <1>9, <2>1, EndsPast
  <2> QED BY <2>2, GoneOn
<1>13. ISA!StoreIt
  BY <1>7, <1>8, <1>9, <1>11, <1>12 DEF ISA!StoreIt
<1>14. /\ ISA!Name \notin ISA!Reads /\ ISA!Name \notin ISA!Modifies
       /\ ISA!Name \notin ISA!Branches
       /\ ISA!Name \notin {"BRK", "JSR", "RTS", "RTI", "JMP", "PHA", "PHP", "PLA", "PLP"}
  BY <1>7 DEF ISA!Reads, ISA!Stores, ISA!Modifies, ISA!Branches
<1>15. ISA!DeviceAccess
  <2>1. CASE ISA!Address \in TtyPage
    <3>1. TtyWrite(ISA!Address - TtyBase, ISA!Source)
      BY <1>5, <1>10, <2>1 DEF Store, BusWrite
    <3>2. ISA!TtyWrite(ISA!Address - TtyBase, ISA!Source)
      BY <1>6, <1>8, <3>1, DeviceWritten
    <3> QED BY <1>7, <1>14, <2>1, <3>2, SamePage DEF ISA!DeviceAccess
  <2>2. CASE ISA!Address \notin TtyPage
    <3>1. UNCHANGED <<serial, deck>>
      BY <1>5, <2>2 DEF Store, BusWrite, ttyVars, serial, deck
    <3>2. UNCHANGED ISA!ttyVars
      BY <1>6, <1>8, <3>1, DeviceKept
    <3> QED BY <1>14, <2>2, <3>2, SamePage DEF ISA!DeviceAccess
  <2> QED BY <2>1, <2>2
<1>16. Seen'.took = ISA!Cycles
  <2>1. ISA!Cycles = ISA!StoreCycles
    BY <1>7, <1>14 DEF ISA!Cycles
  <2>2. LastStore(H) + 1 = ISA!StoreCycles
    BY <1>1, <1>4 DEF ISA!StoreCycles, LastStore, Addressing
  <2> QED BY <1>3, <1>8, <2>1, <2>2
<1> QED BY <1>13, <1>15, <1>16 DEF ISA!Execute

-----------------------------------------------------------------------------
(* The instructions that end in T1 without an operand.                     *)
Single == InRegisters \cup {"ImpliedFlagOp", "NOP", "Unimplemented"}

LEMMA SingleRows ==
    /\ Commits("ShiftAccumulator", 1) = "shiftResult"
    /\ Commits("ImpliedIncDec", 1) = "incDecResult"
    /\ Commits("ImpliedTransfer", 1) = "transferResult"
    /\ Commits("ImpliedFlagOp", 1) = "flagResult"
    /\ Commits("NOP", 1) = "done"
    /\ Commits("Unimplemented", 1) = "done"
  BY DEF Commits, Rows, ShiftAccumulator, ImpliedIncDec, ImpliedTransfer, ImpliedFlagOp, NOP,
     Unimplemented

SingleEnd ==
    /\ FinishView /\ After /\ Plain /\ step = 1 /\ ISA!How = "none" /\ DeviceStill
    /\ InRegister(1) /\ Commit(Commits(H, 1)) /\ H \in Single
    /\ Seen'.took = 2
    /\ UNCHANGED <<PC, halted, mem, serial, deck>>
    /\ A = Seen.A /\ X = Seen.X /\ Y = Seen.Y /\ halted = Seen.halted
    /\ A \in Byte /\ X \in Byte /\ Y \in Byte /\ SP \in Byte

LEMMA SingleEnds ==
    ASSUME FinishView, H \in Single
    PROVE  SingleEnd
<1>0. step \in 1 .. 6 /\ step \in DOMAIN Rows(H).commit /\ Seen'.took = step + 1
      /\ ISA!How = HowOf(H) /\ DeviceSo(step) /\ InRegister(step)
  BY DEF FinishView, Latched
<1>1. H \notin OnStack /\ H \notin Touching /\ HowOf(H) = "none"
  BY DEF FinishView, Kind, Single, Storing, OnStack, Jumps, Touching, Reading, Rewriting,
     InRegisters
<1>2. LastOf(H, 1)
  BY DEF FinishView, CommitRow, Single
<1>3. step = 1
  BY <1>0, <1>2 DEF LastOf
<1>4. Commit(Commits(H, 1))
  BY <1>3 DEF FinishView
<1>5. Commits(H, 1) \in {"shiftResult", "incDecResult", "transferResult", "flagResult", "done"}
  BY SingleRows DEF Single, InRegisters
<1>6. UNCHANGED <<PC, halted, mem, serial, deck>>
  BY <1>4, <1>5 DEF Commit, ShiftResult, IncDecResult, TransferResult, FlagResult, Done, Finish,
     BusIdle, busVars, registers
<1>7. DeviceStill
  BY <1>0, <1>1 DEF DeviceSo, Has
<1>8. Plain /\ After
  BY <1>1, PlainFacts DEF FinishView
<1> QED BY <1>0, <1>1, <1>3, <1>4, <1>6, <1>7, <1>8, SeenBytes DEF SingleEnd

LEMMA SingleRest ==
    ASSUME SingleEnd
    PROVE  ISA!GoOn /\ UNCHANGED ISA!ttyVars
<1>1. FinishView /\ step = 1 /\ H \in Single /\ PC' = PC /\ ISA!How = "none"
  BY DEF SingleEnd
<1>2. /\ H \notin OnStack \cup Jumps \cup {"Branch"}
      /\ Commits(H, step) \notin {"nextPC", "branchDecide"}
  BY <1>1, SingleRows DEF Single, InRegisters, OnStack, Jumps
<1>3. Moved16
  BY <1>1, <1>2, EndsPast
<1>4. UNCHANGED ISA!ttyVars
  BY DeviceKept DEF SingleEnd
<1> QED BY <1>1, <1>3, <1>4, GoneOn

LEMMA SingleTakes ==
    ASSUME SingleEnd,
           ISA!Name \in {"TAX", "TAY", "TXA", "TYA", "TSX", "INX", "DEX", "INY", "DEY",
                         "CLC", "SEC", "CLI", "SEI", "CLD", "SED", "CLV", "TXS", "NOP", ""}
    PROVE  ISA!DeviceAccess /\ Seen'.took = ISA!Cycles
<1>1. /\ ISA!Name \notin ISA!Reads /\ ISA!Name \notin ISA!Modifies
      /\ ISA!Name \notin ISA!Branches /\ ISA!Name \notin ISA!Stores
      /\ ISA!Name \notin {"BRK", "JSR", "RTS", "RTI", "JMP", "PHA", "PHP", "PLA", "PLP"}
  BY DEF ISA!Reads, ISA!Stores, ISA!Modifies, ISA!Branches
<1>2. ISA!Cycles = 2
  BY <1>1 DEF ISA!Cycles
<1>3. ISA!DeviceAccess
  BY <1>1, SingleRest DEF ISA!DeviceAccess
<1> QED BY <1>2, <1>3 DEF SingleEnd

LEMMA ShiftExecutes ==
    ASSUME FinishView, H = "ShiftAccumulator"
    PROVE  ISA!Execute
<1>1. SingleEnd
  BY SingleEnds DEF Single, InRegisters
<1>2. ShiftResult
  BY <1>1, SingleRows DEF SingleEnd, Commit
<1>3. ISA!Name = Op /\ Op \in UnaryOp /\ Op \in {"ASL", "LSR", "ROL", "ROR"}
  BY DEF FinishView, OpsRow
<1>4. UnaryIn(A)
  BY <1>1, <1>3 DEF UnaryIn, SingleEnd, Plain, InRegister, Doing
<1>5. /\ Seen'.A = A' /\ Seen'.X = X' /\ Seen'.Y = Y' /\ Seen'.SP = SP' /\ Seen'.P = P'
      /\ Seen'.halted = halted' /\ Seen'.mem = mem'
      /\ A = Seen.A /\ X = Seen.X /\ Y = Seen.Y /\ SP = Seen.SP /\ halted = Seen.halted
      /\ mem = Seen.mem /\ UNCHANGED <<halted, mem>>
  BY <1>1 DEF SingleEnd, After, Plain
<1>6. Settled = ISA!Modified(Seen.A) /\ ISA!ModifyFlags(Seen.A)
  <2>1. Settled = ISA!Modified(A)
    BY <1>4, ModifiesExactly
  <2>2. ISA!ModifyFlags(A)
    BY <1>2, <1>4, <1>5, ModifyStatus DEF ShiftResult
  <2> QED BY <1>5, <2>1, <2>2
<1>7. ISA!Name \in ISA!Modifies /\ ISA!How = "none"
  BY <1>1, <1>3 DEF SingleEnd, UnaryOp, ISA!Modifies
<1>8. ISA!Modify
  BY <1>1, <1>2, <1>5, <1>6, <1>7, SingleRest DEF ISA!Modify, ISA!Keep, ShiftResult
<1>9. /\ ISA!Name \notin ISA!Reads /\ ISA!Name \notin ISA!Branches /\ ISA!Name \notin ISA!Stores
      /\ ISA!Name \notin {"BRK", "JSR", "RTS", "RTI", "JMP", "PHA", "PHP", "PLA", "PLP"}
  BY <1>7 DEF ISA!Reads, ISA!Stores, ISA!Modifies, ISA!Branches
<1>10. ISA!Cycles = 2
  BY <1>7, <1>9 DEF ISA!Cycles, ISA!ModifyCycles
<1>11. ISA!DeviceAccess
  BY <1>1, <1>9, SingleRest DEF ISA!DeviceAccess
<1> QED BY <1>1, <1>8, <1>10, <1>11 DEF ISA!Execute, SingleEnd

LEMMA StepsExactly ==
    ASSUME NEW d \in Byte
    PROVE  /\ AluValue("ADD", UnaryA("INC", 0), d, FALSE) = (d + 1) % 256
           /\ AluValue("ADD", UnaryA("DEC", 0), d, FALSE) = (d - 1) % 256
<1>1. ShiftsAlike(d, 0)
  BY UnaryArithmetic
<1> QED BY <1>1 DEF ShiftsAlike, AluValue, UnaryA, One

LEMMA IncDecExecutes ==
    ASSUME FinishView, H = "ImpliedIncDec"
    PROVE  ISA!Execute
<1>1. SingleEnd
  BY SingleEnds DEF Single, InRegisters
<1>2. IncDecResult
  BY <1>1, SingleRows DEF SingleEnd, Commit
<1>3. ISA!Name = Op /\ Op \in {"INX", "DEX", "INY", "DEY"}
  BY DEF FinishView, OpsRow
<1>4. aluA = UnaryA(StepOp, 0) /\ aluB = StepRegister /\ aluCI = FALSE /\ aluF = "ADD"
  BY <1>1 DEF SingleEnd, InRegister
<1>5. /\ Seen'.A = A' /\ Seen'.X = X' /\ Seen'.Y = Y' /\ Seen'.SP = SP' /\ Seen'.P = P'
      /\ Seen'.halted = halted' /\ Seen'.mem = mem'
      /\ A = Seen.A /\ X = Seen.X /\ Y = Seen.Y /\ SP = Seen.SP /\ halted = Seen.halted
      /\ mem = Seen.mem /\ P = Seen.P /\ X \in Byte /\ Y \in Byte /\ UNCHANGED <<halted, mem>>
  BY <1>1 DEF SingleEnd, After, Plain
<1>6. Settled = CASE Op = "INX" -> (Seen.X + 1) % 256 [] Op = "DEX" -> (Seen.X - 1) % 256
                  [] Op = "INY" -> (Seen.Y + 1) % 256 [] Op = "DEY" -> (Seen.Y - 1) % 256
  <2>1. /\ AluValue("ADD", UnaryA("INC", 0), X, FALSE) = (X + 1) % 256
        /\ AluValue("ADD", UnaryA("DEC", 0), X, FALSE) = (X - 1) % 256
        /\ AluValue("ADD", UnaryA("INC", 0), Y, FALSE) = (Y + 1) % 256
        /\ AluValue("ADD", UnaryA("DEC", 0), Y, FALSE) = (Y - 1) % 256
    BY <1>5, StepsExactly
  <2>2. Settled = AluValue("ADD", UnaryA(StepOp, 0), StepRegister, FALSE)
    BY <1>4 DEF Settled
  <2>3. /\ StepOp = IF Op \in {"INX", "INY"} THEN "INC" ELSE "DEC"
        /\ StepRegister = IF Op \in {"INX", "DEX"} THEN X ELSE Y
    BY <1>3 DEF StepOp, StepRegister
  <2> QED BY <1>3, <1>5, <2>1, <2>2, <2>3
<1>7. /\ Seen'.A = Seen.A /\ Seen'.SP = Seen.SP
      /\ Seen'.X = IF Op \in {"INX", "DEX"} THEN Settled ELSE Seen.X
      /\ Seen'.Y = IF Op \in {"INY", "DEY"} THEN Settled ELSE Seen.Y
      /\ Seen'.P = SetBits(Seen.P, {"N", "Z"}, ZeroNegative(Settled))
  <2>1. {"Z", "N"} = {"N", "Z"}
    OBVIOUS
  <2> QED BY <1>2, <1>5, <2>1 DEF IncDecResult
<1>8. ISA!Flags({"N", "Z"}, ISA!NZ(Settled))
  BY <1>7, SameStatus, SameFlags DEF ISA!Flags
<1>9. ISA!GoOver
  BY <1>1, <1>5, <1>7, SingleRest DEF ISA!GoOver, ISA!Keep
<1>10. ISA!Transfer
  <2>1. CASE Op = "INX"
    BY <1>3, <1>6, <1>7, <1>8, <1>9, <2>1 DEF ISA!Transfer
  <2>2. CASE Op = "DEX"
    BY <1>3, <1>6, <1>7, <1>8, <1>9, <2>2 DEF ISA!Transfer
  <2>3. CASE Op = "INY"
    BY <1>3, <1>6, <1>7, <1>8, <1>9, <2>3 DEF ISA!Transfer
  <2>4. CASE Op = "DEY"
    BY <1>3, <1>6, <1>7, <1>8, <1>9, <2>4 DEF ISA!Transfer
  <2> QED BY <1>3, <2>1, <2>2, <2>3, <2>4
<1> QED BY <1>1, <1>3, <1>10, SingleTakes DEF ISA!Execute

LEMMA TransferExecutes ==
    ASSUME FinishView, H = "ImpliedTransfer"
    PROVE  ISA!Execute
<1>1. SingleEnd
  BY SingleEnds DEF Single, InRegisters
<1>2. TransferResult
  BY <1>1, SingleRows DEF SingleEnd, Commit
<1>3. ISA!Name = Op /\ Op \in {"TAX", "TXA", "TAY", "TYA", "TSX", "TXS"}
  BY DEF FinishView, OpsRow
<1>4. aluA = 0 /\ aluB = TransferSource /\ aluF = "OR"
  BY <1>1 DEF SingleEnd, InRegister
<1>5. /\ Seen'.A = A' /\ Seen'.X = X' /\ Seen'.Y = Y' /\ Seen'.SP = SP' /\ Seen'.P = P'
      /\ Seen'.halted = halted' /\ Seen'.mem = mem'
      /\ A = Seen.A /\ X = Seen.X /\ Y = Seen.Y /\ SP = Seen.SP /\ halted = Seen.halted
      /\ mem = Seen.mem /\ P = Seen.P /\ UNCHANGED <<halted, mem>>
      /\ A \in Byte /\ X \in Byte /\ Y \in Byte /\ SP \in Byte
  BY <1>1 DEF SingleEnd, After, Plain
<1>6. Settled = CASE Op \in {"TAX", "TAY"} -> Seen.A [] Op \in {"TXA", "TXS"} -> Seen.X
                  [] Op = "TYA" -> Seen.Y [] Op = "TSX" -> Seen.SP
  <2>1. TransferSource \in Byte
    BY <1>3, <1>5 DEF TransferSource
  <2>2. Settled = TransferSource
    BY <1>4, <2>1, OrNothing DEF Settled
  <2> QED BY <1>3, <1>5, <2>2 DEF TransferSource
<1>7. /\ Seen'.A = IF Op \in {"TXA", "TYA"} THEN Settled ELSE Seen.A
      /\ Seen'.X = IF Op \in {"TAX", "TSX"} THEN Settled ELSE Seen.X
      /\ Seen'.Y = IF Op = "TAY" THEN Settled ELSE Seen.Y
      /\ Seen'.SP = IF Op = "TXS" THEN Settled ELSE Seen.SP
      /\ Seen'.P = IF Op = "TXS" THEN Seen.P
                   ELSE SetBits(Seen.P, {"N", "Z"}, ZeroNegative(Settled))
  <2>1. {"Z", "N"} = {"N", "Z"}
    OBVIOUS
  <2> QED BY <1>2, <1>5, <2>1 DEF TransferResult
<1>8. CASE Op = "TXS"
  <2>1. ISA!Cleared = {} /\ ISA!Set = {}
    BY <1>3, <1>8 DEF ISA!Cleared, ISA!Set
  <2>2. ISA!Simple
    BY <1>1, <1>3, <1>5, <1>6, <1>7, <1>8, <2>1, SingleRest DEF ISA!Simple, ISA!Keep
  <2> QED BY <1>1, <1>3, <1>8, <2>2, SingleTakes DEF ISA!Execute
<1>9. CASE Op # "TXS"
  <2>1. ISA!Flags({"N", "Z"}, ISA!NZ(Settled))
    BY <1>7, <1>9, SameStatus, SameFlags DEF ISA!Flags
  <2>2. ISA!GoOver
    BY <1>1, <1>5, <1>7, <1>9, SingleRest DEF ISA!GoOver, ISA!Keep
  <2>3. Op = "TAX" => ISA!Transfer
    BY <1>3, <1>6, <1>7, <2>1, <2>2 DEF ISA!Transfer
  <2>4. Op = "TXA" => ISA!Transfer
    BY <1>3, <1>6, <1>7, <2>1, <2>2 DEF ISA!Transfer
  <2>5. Op = "TAY" => ISA!Transfer
    BY <1>3, <1>6, <1>7, <2>1, <2>2 DEF ISA!Transfer
  <2>6. Op = "TYA" => ISA!Transfer
    BY <1>3, <1>6, <1>7, <2>1, <2>2 DEF ISA!Transfer
  <2>7. Op = "TSX" => ISA!Transfer
    BY <1>3, <1>6, <1>7, <2>1, <2>2 DEF ISA!Transfer
  <2>8. ISA!Transfer
    BY <1>3, <1>9, <2>3, <2>4, <2>5, <2>6, <2>7
  <2> QED BY <1>1, <1>3, <1>9, <2>8, SingleTakes DEF ISA!Execute
<1> QED BY <1>8, <1>9

LEMMA FlagExecutes ==
    ASSUME FinishView, H \in {"ImpliedFlagOp", "NOP", "Unimplemented"}
    PROVE  ISA!Execute
<1>1. SingleEnd
  BY SingleEnds DEF Single
<1>2. IF H = "ImpliedFlagOp" THEN FlagResult ELSE Done
  BY <1>1, SingleRows DEF SingleEnd, Commit
<1>3. /\ H = "ImpliedFlagOp" => ISA!Name = Op
      /\ H = "ImpliedFlagOp" => Op \in {"CLC", "SEC", "CLI", "SEI", "CLV", "CLD", "SED"}
      /\ H # "ImpliedFlagOp" => ISA!Name \in {"NOP", ""}
  BY DEF FinishView, OpsRow
<1>4. /\ Seen'.A = A' /\ Seen'.X = X' /\ Seen'.Y = Y' /\ Seen'.SP = SP' /\ Seen'.P = P'
      /\ Seen'.halted = halted' /\ Seen'.mem = mem'
      /\ A = Seen.A /\ X = Seen.X /\ Y = Seen.Y /\ SP = Seen.SP /\ halted = Seen.halted
      /\ mem = Seen.mem /\ P = Seen.P /\ UNCHANGED <<halted, mem>>
  BY <1>1 DEF SingleEnd, After, Plain
<1>5. UNCHANGED <<A, X, Y, SP>> /\ P' = IF H = "ImpliedFlagOp" THEN FlagStatus ELSE P
  BY <1>2 DEF FlagResult, Done, accumulators, registers
<1>6. Seen'.P = (Seen.P \ ISA!Cleared) \cup ISA!Set
  <2>1. CASE H # "ImpliedFlagOp"
    <3>1. ISA!Cleared = {} /\ ISA!Set = {}
      BY <1>3, <2>1 DEF ISA!Cleared, ISA!Set
    <3> QED BY <1>4, <1>5, <2>1, <3>1
  <2>2. CASE H = "ImpliedFlagOp" /\ Op \in {"CLC", "CLI", "CLD", "CLV"}
    <3>1. ISA!Set = {} /\ P' = P \ ISA!Cleared
      BY <1>3, <1>5, <2>2 DEF ISA!Cleared, ISA!Set, FlagStatus
    <3> QED BY <1>4, <3>1
  <2>3. CASE H = "ImpliedFlagOp" /\ Op \in {"SEC", "SEI", "SED"}
    <3>1. ISA!Cleared = {} /\ P' = P \cup ISA!Set
      BY <1>3, <1>5, <2>3 DEF ISA!Cleared, ISA!Set, FlagStatus
    <3> QED BY <1>4, <3>1
  <2> QED BY <1>3, <2>1, <2>2, <2>3
<1>7. ISA!Simple
  BY <1>1, <1>3, <1>4, <1>5, <1>6, SingleRest DEF ISA!Simple, ISA!Keep
<1> QED BY <1>1, <1>3, <1>7, SingleTakes DEF ISA!Execute


-----------------------------------------------------------------------------
(* Branches and jumps.                                                     *)
LEMMA DeviceRests ==
    ASSUME FinishView, H \notin Touching, UNCHANGED <<serial, deck>>,
           ISA!Name \notin ISA!Reads \cup ISA!Stores
    PROVE  ISA!DeviceAccess
<1>1. DeviceStill
  BY DEF FinishView, Latched, DeviceSo, Has
<1>2. UNCHANGED ISA!ttyVars
  BY <1>1, DeviceKept DEF FinishView
<1> QED BY <1>2 DEF ISA!DeviceAccess

LEMMA BranchExecutes ==
    ASSUME FinishView, H = "Branch"
    PROVE  ISA!Execute
<1>0. /\ step \in 1 .. 6 /\ step' = 0 /\ step \in DOMAIN Rows(H).commit
      /\ Seen'.took = step + 1 /\ ISA!How = HowOf(H) /\ After
      /\ Commit(Commits(H, step)) /\ Staying /\ Turning(step)
      /\ PC = ISA!Plus(Seen.PC, Least(step, Passed(H))) /\ Seen.PC \in Word
      /\ Seen'.PC = PC'
  BY DEF FinishView, Latched, SeenTyped, After
<1>1. /\ H \notin OnStack /\ H \notin Touching /\ HowOf(H) = "rel" /\ Passed(H) = 2
  BY DEF FinishView, Kind, Storing, OnStack, Jumps, Touching, Reading, Rewriting, InRegisters,
     Passed
<1>2. step \in 1 .. 3
  BY <1>0, BranchRow DEF LastOf
<1>3. /\ ISA!Name = Op /\ ISA!Name \in ISA!Branches
  BY DEF FinishView, OpsRow
<1>4. Plain
  BY <1>1, PlainFacts
<1>5. taken = ISA!Condition /\ (step >= 2 => eff = ISA!Address /\ crossed = ISA!OtherPage)
  BY <1>0, <1>2 DEF Turning
<1>6. /\ taken <=> step > 1
      /\ taken => (ISA!OtherPage <=> step = 3)
      /\ PC' = IF taken THEN eff ELSE Next16(PC)
      /\ UNCHANGED <<A, X, Y, SP, P, halted, mem, serial, deck>>
  <2>1. CASE step = 1
    <3>1. BranchDecide
      BY <1>0, <2>1, BranchRow DEF Commit
    <3>2. ~taken
      BY <1>0, <2>1, <3>1 DEF BranchDecide, Advance
    <3> QED BY <2>1, <3>1, <3>2 DEF BranchDecide, Finish, BusIdle, busVars, accumulators
  <2>2. CASE step = 2
    <3>1. BranchIfSamePage
      BY <1>0, <2>2, BranchRow DEF Commit
    <3>2. Goto(eff) /\ ~crossed
      BY <1>0, <2>2, <3>1 DEF BranchIfSamePage, StepOnly, Advance
    <3>3. taken
      BY <1>0, <2>2 DEF Staying
    <3>4. ~ISA!OtherPage
      <4>1. crossed = ISA!OtherPage
        BY <1>5, <2>2
      <4> QED BY <3>2, <4>1, Zenon
    <3> QED BY <2>2, <3>2, <3>3, <3>4 DEF Goto, Finish, BusIdle, busVars, accumulators
  <2>3. CASE step = 3
    <3>1. Goto(eff)
      BY <1>0, <2>3, BranchRow DEF Commit
    <3>2. taken /\ ISA!OtherPage
      BY <1>0, <2>3 DEF Staying
    <3> QED BY <2>3, <3>1, <3>2 DEF Goto, Finish, BusIdle, busVars, accumulators
  <2> QED BY <1>2, <2>1, <2>2, <2>3
<1>7. /\ Seen'.A = A' /\ Seen'.X = X' /\ Seen'.Y = Y' /\ Seen'.SP = SP' /\ Seen'.P = P'
      /\ Seen'.halted = halted' /\ Seen'.mem = mem' /\ Seen'.PC = PC'
      /\ A = Seen.A /\ X = Seen.X /\ Y = Seen.Y /\ SP = Seen.SP /\ halted = Seen.halted
      /\ mem = Seen.mem /\ P = Seen.P
  BY <1>4, SeenBytes DEF FinishView, After, Plain
<1>8. Seen'.PC = IF ISA!Condition THEN ISA!Address ELSE ISA!Plus(Seen.PC, 2)
  <2>1. CASE taken
    <3>1. ISA!Condition
      BY <1>5, <2>1, Zenon
    <3>2. step >= 2
      BY <1>2, <1>6, <2>1
    <3> QED BY <1>0, <1>5, <1>6, <2>1, <3>1, <3>2
  <2>2. CASE ~taken
    <3>1. ~ISA!Condition
      BY <1>5, <2>2, Zenon
    <3>2. step = 1
      BY <1>2, <1>6, <2>2
    <3>3. PC = ISA!Plus(Seen.PC, 1)
      BY <1>0, <1>1, <3>2 DEF Least
    <3>4. Next16(PC) = ISA!Plus(Seen.PC, 1 + 1)
      BY <1>0, <3>3, PlusNext
    <3> QED BY <1>0, <1>6, <2>2, <3>1, <3>4
  <2> QED BY <2>1, <2>2
<1>9. ISA!BranchIt
  BY <1>3, <1>6, <1>7, <1>8 DEF ISA!BranchIt, ISA!Keep
<1>10. /\ ISA!Name \notin ISA!Reads /\ ISA!Name \notin ISA!Stores
       /\ ISA!Name \notin ISA!Modifies
       /\ ISA!Name \notin {"BRK", "JSR", "RTS", "RTI", "JMP", "PHA", "PHP", "PLA", "PLP"}
  BY <1>3 DEF ISA!Reads, ISA!Stores, ISA!Modifies, ISA!Branches
<1>11. ISA!DeviceAccess
  BY <1>1, <1>6, <1>10, DeviceRests
<1>12. Seen'.took = ISA!Cycles
  <2>1. ISA!Cycles = IF ISA!Condition THEN 3 + ISA!Crossing ELSE 2
    BY <1>3, <1>10 DEF ISA!Cycles
  <2>2. CASE taken
    <3>1. ISA!Condition
      BY <1>5, <2>2, Zenon
    <3>2. step \in {2, 3} /\ (ISA!OtherPage <=> step = 3)
      BY <1>2, <1>6, <2>2
    <3>3. ISA!Crossing = IF step = 3 THEN 1 ELSE 0
      BY <3>2 DEF ISA!Crossing
    <3> QED BY <1>0, <2>1, <3>1, <3>2, <3>3
  <2>3. CASE ~taken
    <3>1. ~ISA!Condition
      BY <1>5, <2>3, Zenon
    <3>2. step = 1
      BY <1>2, <1>6, <2>3
    <3> QED BY <1>0, <2>1, <3>1, <3>2
  <2> QED BY <2>2, <2>3
<1> QED BY <1>9, <1>11, <1>12 DEF ISA!Execute

LEMMA JumpExecutes ==
    ASSUME FinishView, H \in Jumps
    PROVE  ISA!Execute
<1>0. /\ step \in 1 .. 6 /\ step' = 0 /\ step \in DOMAIN Rows(H).commit
      /\ Seen'.took = step + 1 /\ ISA!How = HowOf(H) /\ After
      /\ Commit(Commits(H, step)) /\ Addressed(step) /\ Seen'.PC = PC'
  BY DEF FinishView, Latched, After
<1>1. H \notin OnStack /\ H \notin Touching /\ H # "JSR"
      /\ HowOf(H) = (IF H = "JMPAbsolute" THEN "abs" ELSE "ind")
  BY DEF FinishView, Kind, Storing, OnStack, Jumps, Touching, Reading, Rewriting, InRegisters
<1>2. step = (IF H = "JMPAbsolute" THEN 2 ELSE 4)
  <2>1. Commits(H, step) \in {"nextPC", "next"} => step' = step + 1
    BY <1>0 DEF Commit, StepPC, StepOnly, Advance
  <2>2. Commits(H, step) \notin {"nextPC", "next"}
    BY <1>0, <2>1
  <2>3. CASE H = "JMPAbsolute"
    BY <1>0, <2>2, <2>3, JMPAbsoluteRow DEF LastOf
  <2>4. CASE H = "JMPIndirect"
    BY <1>0, <2>2, <2>4, JMPIndirectRow DEF LastOf
  <2> QED BY <2>3, <2>4 DEF Jumps
<1>3. Goto(ISA!Address)
  <2>1. CASE H = "JMPAbsolute"
    <3>1. addr = ISA!Address
      BY <1>0, <1>1, <1>2, <2>1 DEF Addressed, Direct, DirectSince
    <3>2. Goto(addr)
      BY <1>0, <1>2, <2>1, JMPAbsoluteRow DEF Commit
    <3> QED BY <3>1, <3>2
  <2>2. CASE H = "JMPIndirect"
    <3>1. eff = ISA!Address
      BY <1>0, <1>1, <1>2, <2>2 DEF Addressed, Fixed, FixedSince
    <3>2. Goto(eff)
      BY <1>0, <1>2, <2>2, JMPIndirectRow DEF Commit
    <3> QED BY <3>1, <3>2
  <2> QED BY <2>1, <2>2 DEF Jumps
<1>4. /\ PC' = ISA!Address /\ UNCHANGED <<A, X, Y, SP, P, halted, mem, serial, deck>>
  BY <1>3 DEF Goto, Finish, BusIdle, busVars, accumulators
<1>5. ISA!Name = "JMP"
  BY DEF FinishView, OpsRow, Jumps
<1>6. Plain
  BY <1>1, PlainFacts
<1>7. /\ Seen'.A = A' /\ Seen'.X = X' /\ Seen'.Y = Y' /\ Seen'.SP = SP' /\ Seen'.P = P'
      /\ Seen'.halted = halted' /\ Seen'.mem = mem' /\ Seen'.PC = PC'
      /\ A = Seen.A /\ X = Seen.X /\ Y = Seen.Y /\ SP = Seen.SP /\ halted = Seen.halted
      /\ mem = Seen.mem /\ P = Seen.P
  BY <1>6, SeenBytes DEF FinishView, After, Plain
<1>8. ISA!Jump
  BY <1>4, <1>5, <1>7 DEF ISA!Jump, ISA!Keep
<1>9. ISA!Name \notin ISA!Reads \cup ISA!Stores \cup ISA!Modifies \cup ISA!Branches
  BY <1>5 DEF ISA!Reads, ISA!Stores, ISA!Modifies, ISA!Branches
<1>10. ISA!DeviceAccess
  BY <1>1, <1>4, <1>9, DeviceRests
<1>11. ISA!Cycles = IF ISA!How = "abs" THEN 3 ELSE 5
  BY <1>5, <1>9 DEF ISA!Cycles
<1>12. Seen'.took = ISA!Cycles
  BY <1>0, <1>1, <1>2, <1>11 DEF Jumps
<1> QED BY <1>8, <1>10, <1>12 DEF ISA!Execute

-----------------------------------------------------------------------------
(* The instructions on the stack.                                          *)
StackEnd ==
    /\ FinishView /\ After /\ H \in OnStack /\ H \notin Touching
    /\ step \in 1 .. 6 /\ step' = 0 /\ step \in DOMAIN Rows(H).commit
    /\ Seen'.took = step + 1 /\ Commit(Commits(H, step)) /\ Commits(H, step) \in Finishing
    /\ SeenTyped /\ ~ISA!Unpromised
    /\ ISA!Name = Op /\ Op \in DOMAIN OpcodeOf[H] /\ OpsRow(H)
    /\ SP = (Seen.SP + Shift(H, step)) % 256 /\ mem = Written(H, step) /\ P = Status(H, step)
    /\ PC = ISA!Plus(Seen.PC, Least(step, Passed(H)))
    /\ A = Seen.A /\ X = Seen.X /\ Y = Seen.Y /\ halted = Seen.halted
    /\ Seen'.A = A' /\ Seen'.X = X' /\ Seen'.Y = Y' /\ Seen'.SP = SP' /\ Seen'.P = P'
    /\ Seen'.halted = halted' /\ Seen'.mem = mem' /\ Seen'.PC = PC'

LEMMA StackEnds ==
    ASSUME FinishView, H \in OnStack
    PROVE  StackEnd
<1>1. H \notin Touching /\ H # "Unimplemented"
  BY OnStackApart DEF OnStack
<1>2. Commits(H, step) \in Finishing
  <2>1. Closed(Rows(H)) /\ step' = 0 /\ step \in 1 .. 6 /\ Commit(Commits(H, step))
    BY RowsClosed DEF FinishView
  <2>2. Commits(H, step) \in Finishing \cup
          {"nextPC", "next", "pushPCH", "pushPCL", "pushStatus", "incrementSP", "pullStatus",
           "pullPCL"}
    <3>1. CASE H = "JSR"
      BY <3>1, JSRRow DEF FinishView, LastOf, Finishing
    <3>2. CASE H = "BRK"
      BY <3>2, BRKRow DEF FinishView, LastOf, Finishing
    <3>3. CASE H = "RTS"
      BY <3>3, RTSRow DEF FinishView, LastOf, Finishing
    <3>4. CASE H = "RTI"
      BY <3>4, RTIRow DEF FinishView, LastOf, Finishing
    <3>5. CASE H = "ImpliedPush"
      BY <3>5, ImpliedPushRow DEF FinishView, LastOf, Finishing
    <3>6. CASE H = "ImpliedPull"
      BY <3>6, ImpliedPullRow DEF FinishView, LastOf, Finishing
    <3> QED BY <3>1, <3>2, <3>3, <3>4, <3>5, <3>6 DEF OnStack
  <2>3. Commits(H, step) \in
          {"nextPC", "next", "pushPCH", "pushPCL", "pushStatus", "incrementSP", "pullStatus",
           "pullPCL"} => step' = step + 1
    BY <2>1 DEF Commit, StepPC, StepOnly, PushPC, PushStatus, IncrementSP, PullStatus, PullPCL,
       Advance
  <2> QED BY <2>1, <2>2, <2>3
<1>3. /\ After /\ step \in 1 .. 6 /\ step' = 0 /\ step \in DOMAIN Rows(H).commit
      /\ Seen'.took = step + 1 /\ Commit(Commits(H, step))
      /\ SeenTyped /\ ~ISA!Unpromised
      /\ ISA!Name = Op /\ Op \in DOMAIN OpcodeOf[H] /\ OpsRow(H)
  BY <1>1 DEF FinishView
<1>4. /\ SP = (Seen.SP + Shift(H, step)) % 256 /\ mem = Written(H, step) /\ P = Status(H, step)
      /\ PC = ISA!Plus(Seen.PC, Least(step, Passed(H)))
  BY DEF FinishView
<1>5. /\ Seen'.A = A' /\ Seen'.X = X' /\ Seen'.Y = Y' /\ Seen'.SP = SP' /\ Seen'.P = P'
      /\ Seen'.halted = halted' /\ Seen'.mem = mem' /\ Seen'.PC = PC'
  BY <1>3 DEF After
<1> QED BY <1>1, <1>2, <1>3, <1>4, <1>5, SeenBytes DEF StackEnd


StackNames == {"BRK", "JSR", "RTS", "RTI", "PHA", "PHP", "PLA", "PLP"}

LEMMA StackTakes ==
    ASSUME StackEnd, UNCHANGED <<serial, deck>>
    PROVE  /\ ISA!Name \in StackNames /\ ISA!DeviceAccess
           /\ ISA!Cycles = CASE H = "BRK" -> 7 [] H \in {"JSR", "RTS", "RTI"} -> 6
                             [] H = "ImpliedPush" -> 3 [] H = "ImpliedPull" -> 4
           /\ H \in {"BRK", "JSR", "RTS", "RTI"} => ISA!Name = H
           /\ H = "ImpliedPush" => ISA!Name \in {"PHA", "PHP"}
           /\ H = "ImpliedPull" => ISA!Name \in {"PLA", "PLP"}
<1>1. /\ H \in {"BRK", "JSR", "RTS", "RTI"} => ISA!Name = H
      /\ H = "ImpliedPush" => ISA!Name \in {"PHA", "PHP"}
      /\ H = "ImpliedPull" => ISA!Name \in {"PLA", "PLP"}
      /\ H \in OnStack
  BY DEF StackEnd, OpsRow
<1>2. ISA!Name \in StackNames
  BY <1>1 DEF StackNames, OnStack
<1>3. ISA!Name \notin ISA!Reads \cup ISA!Stores \cup ISA!Modifies \cup ISA!Branches
  BY <1>2 DEF StackNames, ISA!Reads, ISA!Stores, ISA!Modifies, ISA!Branches
<1>4. ISA!DeviceAccess
  BY <1>3, DeviceRests DEF StackEnd
<1>5. ISA!Cycles = CASE H = "BRK" -> 7 [] H \in {"JSR", "RTS", "RTI"} -> 6
                     [] H = "ImpliedPush" -> 3 [] H = "ImpliedPull" -> 4
  <2>1. H = "BRK" => ISA!Cycles = 7
    BY <1>1, <1>3 DEF ISA!Cycles
  <2>2. H \in {"JSR", "RTS", "RTI"} => ISA!Cycles = 6
    BY <1>1, <1>3 DEF ISA!Cycles
  <2>3. H = "ImpliedPush" => ISA!Cycles = 3
    BY <1>1, <1>3 DEF ISA!Cycles
  <2>4. H = "ImpliedPull" => ISA!Cycles = 4
    BY <1>1, <1>3 DEF ISA!Cycles
  <2> QED BY <1>1, <2>1, <2>2, <2>3, <2>4 DEF OnStack
<1> QED BY <1>1, <1>2, <1>4, <1>5

(* JSR's second operand byte is read back from where the pushes may have   *)
(* left another value.                                                     *)
LEMMA BackAfterPushes ==
    ASSUME SeenTyped, ~ISA!Unpromised, mem = Written("JSR", 5)
    PROVE  BusData(Back) = IF Back \in Ram THEN mem[Back] ELSE ISA!At(2)
<1>1. Back \notin TtyPage
  BY Promised DEF Back
<1>2. CASE Back \in Ram
  BY <1>2 DEF BusData
<1>3. CASE Back \in Rom /\ Back \notin Ram
  <2>1. ISA!At(2) = Seen.mem[Back]
    BY <1>3 DEF ISA!At, ISA!BusData, Back
  <2>2. Written("JSR", 5)[Back] = Seen.mem[Back]
    <3> DEFINE one == ISA!Pushed1(Back \div 256)
    <3>1. Written("JSR", 5) = ISA!Stored(one, ISA!StackCell(-1), Back % 256)
      BY DEF Written, ISA!Pushed2
    <3>2. one = ISA!Stored(Seen.mem, ISA!StackCell(0), Back \div 256)
      BY DEF ISA!Pushed1
    <3> HIDE DEF one
    <3>3. \A m \in Memory : \A c, b : ISA!Stored(m, c, b)[Back] = m[Back]
      BY <1>3 DEF ISA!Stored, Memory
    <3>4. one \in Memory /\ Seen.mem \in Memory
      BY <3>2, StoredAway, BackType DEF SeenTyped
    <3> QED BY <3>1, <3>2, <3>3, <3>4
  <2> QED BY <1>3, <2>1, <2>2 DEF BusData
<1>4. CASE Back \notin Rom /\ Back \notin Ram
  BY <1>1, <1>4, SamePage DEF BusData, ISA!At, ISA!BusData, Back
<1> QED BY <1>2, <1>3, <1>4

LEMMA CallExecutes ==
    ASSUME StackEnd, H = "JSR"
    PROVE  ISA!Execute
<1>1. step = 5 /\ Goto(addr) /\ addr = Target
  <2>1. step = 5
    BY JSRRow DEF StackEnd, LastOf, Finishing
  <2>2. Goto(addr)
    BY <2>1, JSRRow DEF StackEnd, Commit
  <2>3. Calling(step)
    BY DEF StackEnd, FinishView, Latched
  <2> QED BY <2>1, <2>2, <2>3 DEF Calling
<1>2. UNCHANGED <<A, X, Y, SP, P, halted, mem, serial, deck>> /\ PC' = Target
  BY <1>1 DEF Goto, Finish, BusIdle, busVars, accumulators
<1>3. /\ mem = Written("JSR", 5) /\ P = Seen.P /\ SP = (Seen.SP + (-2)) % 256
      /\ mem = ISA!Pushed2(Back \div 256, Back % 256)
  BY <1>1 DEF StackEnd, Written, Status, Shift
<1>4. PC' = ISA!At(1) + (256 * (IF Back \in Ram THEN mem[Back] ELSE ISA!At(2)))
  BY <1>2, <1>3, BackAfterPushes DEF StackEnd, Target
<1>5. /\ Seen'.mem = ISA!Pushed2(Back \div 256, Back % 256)
      /\ Seen'.PC = ISA!At(1) + (256 * (IF Back \in Ram THEN (Seen'.mem)[Back] ELSE ISA!At(2)))
      /\ Seen'.A = Seen.A /\ Seen'.X = Seen.X /\ Seen'.Y = Seen.Y /\ Seen'.P = Seen.P
      /\ Seen'.halted = Seen.halted /\ Seen'.SP = (Seen.SP + (-2)) % 256
      /\ Seen'.took = 6
  BY <1>1, <1>2, <1>3, <1>4 DEF StackEnd
<1>6. ISA!Name = "JSR" /\ ISA!DeviceAccess /\ ISA!Cycles = 6
  BY <1>2, StackTakes
<1>7. ISA!Call
  BY <1>5, <1>6 DEF ISA!Call, ISA!MoveSP, Back
<1> QED BY <1>5, <1>6, <1>7 DEF ISA!Execute

LEMMA BreakExecutes ==
    ASSUME StackEnd, H = "BRK"
    PROVE  ISA!Execute
<1>1. step = 6 /\ JumpHalt /\ addr = ISA!Cell16(BRKVector, BRKVector + 1)
  <2>1. step = 6
    BY BRKRow DEF StackEnd, LastOf, Finishing
  <2>2. JumpHalt
    BY <2>1, BRKRow DEF StackEnd, Commit
  <2>3. Breaking(step)
    BY DEF StackEnd, FinishView, Latched
  <2> QED BY <2>1, <2>2, <2>3 DEF Breaking
<1>2. /\ UNCHANGED <<A, X, Y, SP, P, mem, serial, deck>> /\ halted'
      /\ PC' = ISA!Cell16(BRKVector, BRKVector + 1)
  BY <1>1 DEF JumpHalt, BusIdle, busVars, accumulators
<1>3. /\ mem = ISA!Pushed3(Back \div 256, Back % 256, StatusByte(Seen.P \cup {"B"}))
      /\ P = Seen.P \cup {"B", "I"} /\ SP = (Seen.SP + (-3)) % 256
  BY <1>1 DEF StackEnd, Written, Status, Shift
<1>4. /\ Seen'.mem = ISA!Pushed3(Back \div 256, Back % 256, ISA!StatusByte(Seen.P \cup {"B"}))
      /\ Seen'.PC = ISA!Cell16(ISA!BRKVector, ISA!BRKVector + 1)
      /\ Seen'.A = Seen.A /\ Seen'.X = Seen.X /\ Seen'.Y = Seen.Y
      /\ Seen'.P = Seen.P \cup {"B", "I"}
      /\ Seen'.halted = TRUE /\ Seen'.SP = (Seen.SP + (-3)) % 256 /\ Seen'.took = 7
  <2>1. ISA!BRKVector = BRKVector
    BY DEF ISA!BRKVector, BRKVector
  <2>2. Seen'.halted = TRUE
    BY <1>1 DEF StackEnd, JumpHalt
  <2>3. Seen'.mem = ISA!Pushed3(Back \div 256, Back % 256, ISA!StatusByte(Seen.P \cup {"B"}))
    BY <1>2, <1>3, SameStatus DEF StackEnd
  <2> QED BY <1>1, <1>2, <1>3, <2>1, <2>2, <2>3 DEF StackEnd
<1>5. ISA!Name = "BRK" /\ ISA!DeviceAccess /\ ISA!Cycles = 7
  BY <1>2, StackTakes
<1>6. ISA!Break
  BY <1>4, <1>5 DEF ISA!Break, ISA!MoveSP, Back
<1> QED BY <1>4, <1>5, <1>6 DEF ISA!Execute

LEMMA ReturnExecutes ==
    ASSUME StackEnd, H = "RTS"
    PROVE  ISA!Execute
<1>1. step = 5 /\ Goto(Next16(addr)) /\ addr = ISA!Popped(1) + 256 * ISA!Popped(2)
  <2>1. step = 5
    BY RTSRow DEF StackEnd, LastOf, Finishing
  <2>2. Goto(Next16(addr))
    BY <2>1, RTSRow DEF StackEnd, Commit
  <2>3. Pulling(step)
    BY DEF StackEnd, FinishView, Latched
  <2> QED BY <2>1, <2>2, <2>3 DEF Pulling
<1>2. UNCHANGED <<A, X, Y, SP, P, halted, mem, serial, deck>> /\ PC' = Next16(addr)
  BY <1>1 DEF Goto, Finish, BusIdle, busVars, accumulators
<1>3. mem = Seen.mem /\ P = Seen.P /\ SP = (Seen.SP + 2) % 256
  BY <1>1 DEF StackEnd, Written, Status, Shift
<1>4. PC' = ISA!Plus(ISA!Popped(1) + 256 * ISA!Popped(2), 1)
  BY <1>1, <1>2 DEF Next16, ISA!Plus
<1>5. /\ Seen'.mem = Seen.mem
      /\ Seen'.PC = ISA!Plus(ISA!Popped(1) + 256 * ISA!Popped(2), 1)
      /\ Seen'.A = Seen.A /\ Seen'.X = Seen.X /\ Seen'.Y = Seen.Y /\ Seen'.P = Seen.P
      /\ Seen'.halted = Seen.halted /\ Seen'.SP = (Seen.SP + 2) % 256
      /\ Seen'.took = 6
  BY <1>1, <1>2, <1>3, <1>4 DEF StackEnd
<1>6. ISA!Name = "RTS" /\ ISA!DeviceAccess /\ ISA!Cycles = 6
  BY <1>2, StackTakes
<1>7. ISA!Return
  BY <1>5, <1>6 DEF ISA!Return, ISA!MoveSP, ISA!Keep
<1> QED BY <1>5, <1>6, <1>7 DEF ISA!Execute

LEMMA ReturnFromBreakExecutes ==
    ASSUME StackEnd, H = "RTI"
    PROVE  ISA!Execute
<1>1. step = 5 /\ PullPCH /\ addr = ISA!Popped(2)
  <2>1. step = 5
    BY RTIRow DEF StackEnd, LastOf, Finishing
  <2>2. PullPCH
    BY <2>1, RTIRow DEF StackEnd, Commit
  <2>3. Pulling(step)
    BY DEF StackEnd, FinishView, Latched
  <2> QED BY <2>1, <2>2, <2>3 DEF Pulling
<1>2. mem = Seen.mem /\ P = StatusOf(ISA!Popped(1)) /\ SP = (Seen.SP + 3) % 256
  BY <1>1 DEF StackEnd, Written, Status, Shift
<1>3. /\ BusData(Stack) = ISA!Popped(3) /\ ISA!Popped(3) \in Byte
      /\ BusRead(Stack) => UNCHANGED busVars
  BY <1>2, StackByte DEF StackEnd
<1>4. ISA!Popped(2) \in Byte
  BY SeenData DEF StackEnd, ISA!Popped
<1>5. PC' = ISA!Popped(2) + 256 * ISA!Popped(3)
  BY <1>1, <1>3, <1>4, JoinedHalves DEF PullPCH
<1>6. UNCHANGED <<A, X, Y, SP, P, halted, mem, serial, deck>>
  BY <1>1, <1>3 DEF PullPCH, Finish, busVars, accumulators
<1>7. /\ Seen'.mem = Seen.mem /\ Seen'.PC = ISA!Popped(2) + 256 * ISA!Popped(3)
      /\ Seen'.A = Seen.A /\ Seen'.X = Seen.X /\ Seen'.Y = Seen.Y
      /\ Seen'.P = ISA!StatusOf(ISA!Popped(1))
      /\ Seen'.halted = Seen.halted /\ Seen'.SP = (Seen.SP + 3) % 256
      /\ Seen'.took = 6
  BY <1>1, <1>2, <1>5, <1>6, SameStatus DEF StackEnd
<1>8. ISA!Name = "RTI" /\ ISA!DeviceAccess /\ ISA!Cycles = 6
  BY <1>6, StackTakes
<1>9. ISA!ReturnFromBreak
  BY <1>7, <1>8 DEF ISA!ReturnFromBreak, ISA!MoveSP, ISA!Keep
<1> QED BY <1>7, <1>8, <1>9 DEF ISA!Execute

(* PHA, PHP, PLA and PLP go on behind their one byte.                      *)
LEMMA OneByteOn ==
    ASSUME StackEnd, H \in {"ImpliedPush", "ImpliedPull"}, PC' = PC
    PROVE  ISA!GoOn
<1>1. ISA!How = "none" /\ Passed(H) = 1 /\ step \in 1 .. 6
  <2>1. ISA!How = HowOf(H) /\ Kind(H) /\ step \in 1 .. 6
    BY DEF StackEnd, FinishView
  <2>2. HowOf(H) = "none"
    BY <2>1 DEF Kind, Reading, Rewriting, Storing, Jumps, InRegisters, OnStack
  <2>3. Passed(H) = 1
    BY <2>2 DEF Passed, Jumps
  <2> QED BY <2>1, <2>2, <2>3
<1>2. PC = ISA!Plus(Seen.PC, 1)
  BY <1>1 DEF StackEnd, Least
<1>3. ISA!Length(ISA!How) = 1
  BY <1>1 DEF ISA!Length
<1> QED BY <1>2, <1>3 DEF StackEnd, ISA!GoOn

LEMMA PushExecutes ==
    ASSUME StackEnd, H = "ImpliedPush"
    PROVE  ISA!Execute
<1>1. step = 2 /\ PushRegister
  <2>1. step = 2
    BY ImpliedPushRow DEF StackEnd, LastOf, Finishing
  <2> QED BY <2>1, ImpliedPushRow DEF StackEnd, Commit
<1>2. mem = Seen.mem /\ P = Seen.P /\ SP = (Seen.SP + 0) % 256
  BY <1>1 DEF StackEnd, Written, Status, Shift
<1> DEFINE byte == IF Op = "PHP" THEN StatusByte(P \cup {"B"}) ELSE A
<1>3. Push(byte) /\ P' = (IF Op = "PHP" THEN P \cup {"B"} ELSE P)
      /\ UNCHANGED <<A, X, Y, PC, halted>>
  BY <1>1 DEF PushRegister, Finish, accumulators
<1> HIDE DEF byte
<1>4. /\ mem' = ISA!Stored(mem, ISA!StackCell(0), byte)
      /\ SP' = (Seen.SP + (0 - 1)) % 256 /\ UNCHANGED <<serial, deck>>
  BY <1>2, <1>3, PushLands DEF StackEnd
<1>5. ISA!Name \in {"PHA", "PHP"} /\ ISA!Name = Op /\ ISA!DeviceAccess /\ ISA!Cycles = 3
  BY <1>4, StackTakes DEF StackEnd
<1>6. /\ Seen'.A = Seen.A /\ Seen'.X = Seen.X /\ Seen'.Y = Seen.Y
      /\ Seen'.halted = Seen.halted /\ Seen'.SP = (Seen.SP + (-1)) % 256
      /\ Seen'.took = 3 /\ Seen'.P = (IF Op = "PHP" THEN Seen.P \cup {"B"} ELSE Seen.P)
  BY <1>1, <1>2, <1>3, <1>4 DEF StackEnd
<1>7. byte = IF ISA!Name = "PHA" THEN Seen.A ELSE ISA!StatusByte(Seen'.P)
  <2>1. CASE Op = "PHP"
    BY <1>2, <1>5, <1>6, <2>1, SameStatus DEF byte
  <2>2. CASE Op = "PHA"
    BY <1>5, <2>2 DEF byte, StackEnd
  <2> QED BY <1>5, <2>1, <2>2
<1>8. Seen'.mem = ISA!Pushed1(IF ISA!Name = "PHA" THEN Seen.A ELSE ISA!StatusByte(Seen'.P))
  BY <1>2, <1>4, <1>7 DEF StackEnd, ISA!Pushed1
<1>9. ISA!GoOn
  BY <1>3, OneByteOn
<1>10. ISA!Push
  BY <1>5, <1>6, <1>8, <1>9 DEF ISA!Push, ISA!MoveSP
<1> QED BY <1>5, <1>6, <1>10 DEF ISA!Execute

LEMMA PullExecutes ==
    ASSUME StackEnd, H = "ImpliedPull"
    PROVE  ISA!Execute
<1>1. step = 3 /\ PullRegister /\ addr = ISA!Popped(1)
  <2>1. step = 3
    BY ImpliedPullRow DEF StackEnd, LastOf, Finishing
  <2>2. PullRegister
    BY <2>1, ImpliedPullRow DEF StackEnd, Commit
  <2>3. Pulling(step)
    BY DEF StackEnd, FinishView, Latched
  <2> QED BY <2>1, <2>2, <2>3 DEF Pulling
<1>2. mem = Seen.mem /\ P = Seen.P /\ SP = (Seen.SP + 1) % 256
  BY <1>1 DEF StackEnd, Written, Status, Shift
<1>3. LowByte(addr) = ISA!Popped(1)
  <2>1. ISA!Popped(1) \in Byte
    BY SeenData DEF StackEnd, ISA!Popped
  <2>2. \A d \in Byte : d % 256 = d
    BY DEF Byte
  <2> QED BY <1>1, <2>1, <2>2 DEF LowByte
<1>4. UNCHANGED <<X, Y, SP, PC, halted, mem, serial, deck>>
  BY <1>1 DEF PullRegister, Finish, BusIdle, busVars
<1>5. ISA!Name \in {"PLA", "PLP"} /\ ISA!Name = Op /\ ISA!DeviceAccess /\ ISA!Cycles = 4
  BY <1>4, StackTakes DEF StackEnd
<1>6. /\ Seen'.A = IF Op = "PLA" THEN ISA!Popped(1) ELSE Seen.A
      /\ Seen'.P = IF Op = "PLA" THEN SetBits(Seen.P, {"N", "Z"}, ZeroNegative(ISA!Popped(1)))
                   ELSE StatusOf(ISA!Popped(1))
  <2>1. {"Z", "N"} = {"N", "Z"}
    OBVIOUS
  <2> QED BY <1>1, <1>2, <1>3, <2>1 DEF PullRegister, StackEnd
<1>7. /\ Seen'.X = Seen.X /\ Seen'.Y = Seen.Y /\ Seen'.mem = Seen.mem
      /\ Seen'.halted = Seen.halted /\ Seen'.SP = (Seen.SP + 1) % 256
      /\ Seen'.took = 4
  BY <1>1, <1>2, <1>4 DEF StackEnd
<1>8. ISA!GoOn
  BY <1>4, OneByteOn
<1>9. Seen'.P = IF ISA!Name = "PLA"
                THEN ISA!SetBits(Seen.P, {"N", "Z"}, ISA!NZ(ISA!Popped(1)))
                ELSE ISA!StatusOf(ISA!Popped(1))
  BY <1>5, <1>6, SameStatus, SameFlags
<1>10. ISA!Pull
  BY <1>5, <1>6, <1>7, <1>8, <1>9 DEF ISA!Pull, ISA!MoveSP, ISA!Keep
<1> QED BY <1>5, <1>7, <1>10 DEF ISA!Execute

(* Every instruction.                                                      *)
LEMMA Executes ==
    ASSUME AtFinish
    PROVE  ISA!Execute
<1>1. FinishView
  BY FinishFacts
<1>2. Kind(H)
  BY <1>1 DEF FinishView
<1>3. H \in Reading \cup Rewriting \cup Storing \cup Jumps \cup OnStack \cup {"Branch"}
           \cup {"ShiftAccumulator", "ImpliedIncDec", "ImpliedTransfer"}
           \cup {"ImpliedFlagOp", "NOP", "Unimplemented"}
  BY <1>2 DEF Kind, InRegisters, Jumps, OnStack
<1>4. H \in OnStack => ISA!Execute
  BY <1>1, StackEnds, CallExecutes, BreakExecutes, ReturnExecutes, ReturnFromBreakExecutes,
     PushExecutes, PullExecutes DEF OnStack
<1> QED BY <1>1, <1>3, <1>4, ReadExecutes, RewriteExecutes, StoreExecutes, JumpExecutes,
        BranchExecutes, ShiftExecutes, IncDecExecutes, TransferExecutes, FlagExecutes

-----------------------------------------------------------------------------
(* LowToHigh and HighToLow carry everything along.                         *)
AtRest ==
    /\ Seen' = Seen /\ Captured' = Captured
    /\ UNCHANGED <<registers, latches, step, halted, resetActive, busVars, cycles>>

LEMMA RestCommitted ==
    ASSUME AtRest, Committed
    PROVE  Committed'
<1>1. /\ Seen' = Seen /\ H' = H /\ step' = step
      /\ UNCHANGED <<A, X, Y, SP, PC, P, halted, mem, cycles, taken>>
  BY DEF AtRest, registers, latches, busVars, H
<1>2. Passed(H)' = Passed(H) /\ Paged(H)' = Paged(H) /\ First(H)' = First(H)
  BY <1>1 DEF Passed, Paged, First, HowOf
<1>3. Counted'
  BY <1>1, <1>2 DEF Committed, Counted, PCIs, Least, ISA!Plus
<1>4. AsBefore'
  BY <1>1 DEF Committed, AsBefore
<1>5. Stacked'
  <2>1. Shift(H, step)' = Shift(H, step) /\ Status(H, step)' = Status(H, step)
    BY <1>1, SteadyFetch DEF Shift, Status
  <2>2. Written(H, step)' = Written(H, step)
    BY <1>1, WrittenSteady
  <2> QED BY <1>1, <2>1, <2>2 DEF Committed, Stacked
<1>6. Staying'
  <2>1. ISA!OtherPage' = ISA!OtherPage
    BY <1>1, Steady
  <2> QED BY <1>1, <1>2, <2>1 DEF Committed, Staying
<1> QED BY <1>3, <1>4, <1>5, <1>6 DEF Committed

LEMMA RestLatched ==
    ASSUME AtRest, Latched(Got)
    PROVE  Latched(Got)'
<1>1. /\ Seen' = Seen /\ H' = H /\ IR' = IR /\ step' = step /\ Got' = Got
      /\ UNCHANGED <<A, X, Y, P, addr, eff, crossed, offset, taken, aluF, aluA, aluB, aluCI>>
      /\ UNCHANGED busVars
  <2>1. Got' = Got
    BY DEF AtRest, Got
  <2>2. Seen' = Seen /\ IR' = IR /\ H' = H /\ step' = step /\ UNCHANGED busVars
    BY DEF AtRest, latches, H
  <2>3. UNCHANGED <<A, X, Y, P, addr, eff, crossed, offset, taken, aluF, aluA, aluB, aluCI>>
    BY DEF AtRest, registers, latches
  <2> QED BY <2>1, <2>2, <2>3
<1>2. /\ ISA!How' = ISA!How /\ ISA!Address' = ISA!Address /\ ISA!OtherPage' = ISA!OtherPage
      /\ ISA!Arg16' = ISA!Arg16 /\ ISA!At(1)' = ISA!At(1) /\ Seen'.X = Seen.X
      /\ ISA!Operand' = ISA!Operand /\ ISA!Condition' = ISA!Condition
      /\ ISA!Instruction' = ISA!Instruction
      /\ \A a : ISA!BusData(a)' = ISA!BusData(a)
      /\ \A n : ISA!Popped(n)' = ISA!Popped(n)
      /\ \A low, high : ISA!Cell16(low, high)' = ISA!Cell16(low, high)
  BY <1>1, Steady, SteadyFetch, SteadyBus
<1>3. Paged(H)' = Paged(H) /\ First(H)' = First(H) /\ FixupOf(H)' = FixupOf(H)
  BY <1>1, <1>2 DEF Paged, First, HowOf, FixupOf
<1>4. /\ FirstByte(Got) /\ Direct(Got) /\ Fixed(Got) /\ Crosses(Got) /\ Pointing(Got)
      /\ Turning(Got) /\ Calling(Got) /\ Pulling(Got) /\ Breaking(Got)
      /\ Operating(Got) /\ InRegister(Got) /\ DeviceSo(Got)
      /\ Got >= 0 => IR = ISA!Instruction
  BY DEF Latched, Addressed
<1>5. Addressed(Got)'
  <2>1. FirstByte(Got)'
    BY <1>1, <1>2, <1>4 DEF FirstByte
  <2>2. Direct(Got)' /\ Fixed(Got)'
    BY <1>1, <1>2, <1>4 DEF Direct, DirectSince, Fixed, FixedSince
  <2>3. Crosses(Got)'
    BY <1>1, <1>2, <1>3, <1>4 DEF Crosses
  <2>4. Pointing(Got)'
    BY <1>1, <1>2, <1>4 DEF Pointing
  <2> QED BY <2>1, <2>2, <2>3, <2>4 DEF Addressed
<1>6. Turning(Got)'
  BY <1>1, <1>2, <1>4 DEF Turning
<1>7. BusData(Back)' = BusData(Back)
  BY <1>1 DEF Back, BusData, ReadValue, ReadSerial, ReadTape, TapeReadable, busVars, serial, deck
<1>8. Calling(Got)'
  BY <1>1, <1>2, <1>4, <1>7 DEF Calling, Target
<1>9. Pulling(Got)'
  BY <1>1, <1>2, <1>4 DEF Pulling
<1>10. Breaking(Got)'
  BY <1>1, <1>2, <1>4 DEF Breaking
<1>11. /\ Op' = Op /\ BinaryRegister' = BinaryRegister /\ AluOp' = AluOp
       /\ Doing(ISA!Operand)' = Doing(ISA!Operand) /\ Doing(A)' = Doing(A)
  <2>1. Op' = Op
    BY <1>1 DEF Op
  <2>2. BinaryRegister' = BinaryRegister /\ AluOp' = AluOp
    BY <1>1, <2>1 DEF BinaryRegister, AluOp
  <2>3. Doing(ISA!Operand)' = Doing(ISA!Operand)
    BY <1>1, <1>2, <2>1, <2>2 DEF Doing
  <2>4. Doing(A)' = Doing(A)
    BY <1>1, <2>1, <2>2 DEF Doing
  <2> QED BY <2>1, <2>2, <2>3, <2>4
<1>12. Has(Got)' = Has(Got)
  BY <1>1, <1>3 DEF Has
<1>13. Operating(Got)'
  BY <1>4, <1>11, <1>12 DEF Operating
<1>14. InRegister(Got)'
  <2>1. SP' = SP
    BY DEF AtRest, registers
  <2> QED BY <1>1, <1>4, <1>11, <2>1 DEF InRegister, StepOp, StepRegister, TransferSource
<1>15. DeviceSo(Got)'
  <2>1. /\ DeviceStill' = DeviceStill
        /\ \A o : ReadSince(o)' = ReadSince(o)
    BY <1>1, StillBus
  <2> QED BY <1>2, <1>4, <1>12, <2>1 DEF DeviceSo
<1> QED BY <1>1, <1>2, <1>4, <1>5, <1>6, <1>8, <1>9, <1>10, <1>13, <1>14, <1>15 DEF Latched

(* The four phases: two edges, and two ticks that let the ALU settle.      *)
Rests ==
    /\ phase \in {"Low", "High"} /\ phase' \in {"LowToHigh", "HighToLow"}
    /\ UNCHANGED <<registers, latches, step, halted, resetActive, busVars>>
    /\ Captured' = Captured
Rises == phase = "LowToHigh" /\ phase' = "High" /\ OnClockHigh
Falls == phase = "HighToLow" /\ phase' = "Low" /\ OnClockLow

LEMMA TickPhases ==
    ASSUME IInv, TraceTick
    PROVE  Rests \/ Rises \/ Falls
<1>1. phase \in Phases /\ Clock /\ phase' = NextPhase
  BY DEF IInv, ControlOK, TraceTick, Tick, Clock
<1>2. CASE Settle
  <2>1. phase \in {"Low", "High"}
    BY <1>1, <1>2 DEF Settle, NextPhase, Phases
  <2> QED BY <1>1, <1>2, <2>1 DEF Settle, NextPhase, Rests, Captured
<1>3. CASE NextPhase = "High" /\ OnClockHigh
  BY <1>1, <1>3 DEF NextPhase, Phases, Rises
<1>4. CASE NextPhase = "Low" /\ OnClockLow
  BY <1>1, <1>4 DEF NextPhase, Phases, Falls
<1> QED BY <1>1, <1>2, <1>3, <1>4 DEF Clock

(* What is seen changes only when a boundary is reached.                   *)
LEMMA SeenStays ==
    ASSUME TraceTick, ~AtBoundary'
    PROVE  Seen' = Seen
  BY DEF TraceTick, Seen

LEMMA TickCounts ==
    ASSUME TraceTick, step \in 0 .. 6, ~AtBoundary => cycles = step,
           Rests \/ Rises \/ Falls
    PROVE  cycles' = IF phase' = "Low" THEN step + 1 ELSE step
<1>1. CASE AtBoundary
  BY <1>1 DEF AtBoundary, TraceTick, Rests, Rises, Falls, MaxCycles
<1>2. CASE ~AtBoundary
  BY <1>2 DEF TraceTick, MaxCycles
<1> QED BY <1>1, <1>2

-----------------------------------------------------------------------------
(* The trace's invariant.  The host makes whole calls: a reset is armed    *)
(* between instructions only, and no call returns anywhere else.           *)
WholeCalls == Calls \subseteq {"executeInstruction", "reset", "run"}

CallShape ==
    /\ call \in {"none", "executeInstruction", "run", "reset"}
    /\ resetActive <=> call = "reset"
    /\ call = "none" => AtBoundary

(* A reset under way, besides what Resetting says of it.                   *)
FromReset ==
    resetActive =>
        /\ armed = Seen /\ PC = Seen.PC
        /\ ~AtBoundary => cycles = step
        /\ Seen.PC \notin TtyPage => DeviceStill

TInv == IInv /\ Resetting /\ CallShape /\ SeenTyped /\ FromReset /\ Underway

(* The instruction about to start is one of which the instruction set      *)
(* promises everything.                                                    *)
OrdinaryProgram ==
    AtBoundary /\ call \in {"executeInstruction", "run"} => ~ISA!Unpromised

(* A tick that starts an instruction, or goes on with one.                 *)
LEMMA TickStarts ==
    ASSUME TInv, OrdinaryProgram, TraceTick, ~resetActive, AtBoundary
    PROVE  Seen' = Seen /\ Underway'
<1>1. /\ step = 0 /\ phase = "Low" /\ step \in 0 .. 6 /\ IInv
      /\ RegistersOK
  BY DEF TInv, AtBoundary, IInv, DatapathOK
<1>2. Rests /\ phase' = "LowToHigh" /\ cycles' = 0
  <2>1. Rests
    BY <1>1, TickPhases DEF Rises, Falls
  <2>2. phase' = "LowToHigh"
    BY <1>1, <2>1 DEF TraceTick, Tick, Clock, NextPhase
  <2> QED BY <2>1, <2>2 DEF TraceTick
<1>3. /\ UNCHANGED <<A, X, Y, SP, PC, P, halted>> /\ UNCHANGED busVars /\ step' = 0
  BY <1>1, <1>2 DEF Rests, registers
<1>4. ~AtBoundary' /\ Seen' = Seen
  BY <1>2, SeenStays DEF AtBoundary
<1>5. Seen = View
  BY DEF Seen
<1>6. /\ Seen.A = A /\ Seen.X = X /\ Seen.Y = Y /\ Seen.SP = SP /\ Seen.PC = PC /\ Seen.P = P
      /\ Seen.halted = halted /\ Seen.mem = mem
      /\ Seen.rxByte = rxByte /\ Seen.rxReady = rxReady /\ Seen.out = out
      /\ Seen.tape = tape /\ Seen.pos = pos /\ Seen.motor = motor
      /\ Seen.eot = eot /\ Seen.err = err
  BY <1>5 DEF View
<1>7. ~ISA!Unpromised'
  <2>1. call \in {"executeInstruction", "run"}
    BY DEF TInv, CallShape, TraceTick, Tick
  <2>2. ~ISA!Unpromised
    BY <2>1 DEF OrdinaryProgram
  <2> QED BY <1>4, <2>2, Steady
<1>8. DeviceStill'
  <2>1. DeviceStill
    BY <1>6 DEF DeviceStill, DeckSame
  <2> QED BY <1>3, <1>4, <2>1, StillBus
<1>9. Committed'
  <2>1. AsBefore'
    BY <1>3, <1>4, <1>6 DEF AsBefore
  <2>2. PC' \in Word /\ SP' \in Byte
    BY <1>1, <1>3 DEF RegistersOK
  <2>3. mem' = mem
    BY <1>3 DEF busVars
  <2> QED BY <1>2, <1>3, <1>4, <1>6, <2>1, <2>2, <2>3, NothingYet
<1>10. Latched(Got)'
  <2>1. Latched(-1)'
    BY <1>3, <1>8, NothingLatched
  <2>2. Got' = -1
    BY <1>2, <1>3 DEF Got, Captured
  <2> QED BY <2>1, <2>2 DEF Latched, Addressed, FirstByte, Direct, DirectSince, Fixed,
          FixedSince, Crosses, Pointing, Turning, Calling, Pulling, Breaking, Operating, Has,
          InRegister, DeviceSo
<1> QED BY <1>4, <1>7, <1>9, <1>10 DEF Underway

LEMMA TickRests ==
    ASSUME TInv, TraceTick, ~resetActive, ~AtBoundary, Rests
    PROVE  Seen' = Seen /\ Underway'
<1>1. Underway /\ ~ISA!Unpromised /\ Committed /\ Latched(Got)
  BY DEF TInv, Underway
<1>2. step \in 0 .. 6 /\ cycles = step
  BY <1>1 DEF TInv, IInv, ControlOK, Committed, Counted
<1>3. ~AtBoundary'
  BY DEF AtBoundary, Rests
<1>4. Seen' = Seen
  BY <1>3, SeenStays
<1>5. cycles' = cycles
  BY <1>2, TickCounts DEF Rests
<1>6. AtRest
  BY <1>4, <1>5 DEF AtRest, Rests
<1>7. ~ISA!Unpromised'
  BY <1>1, <1>4, Steady
<1> QED BY <1>1, <1>4, <1>6, <1>7, RestCommitted, RestLatched DEF Underway

LEMMA TickRises ==
    ASSUME TInv, TraceTick, ~resetActive, Rises
    PROVE  Seen' = Seen /\ Underway'
<1>1. ~AtBoundary /\ ~AtBoundary'
  BY DEF AtBoundary, Rises
<1>2. /\ IInv /\ SeenTyped /\ ~ISA!Unpromised /\ Committed /\ Latched(step - 1)
      /\ step \in 0 .. 6 /\ cycles = step
  <2>1. Got = step - 1
    BY DEF Got, Captured, Rises
  <2>2. ~ISA!Unpromised /\ Committed /\ Latched(Got)
    BY <1>1 DEF TInv, Underway
  <2> QED BY <2>1, <2>2 DEF TInv, IInv, ControlOK, Committed, Counted
<1>3. Seen' = Seen /\ OnClockHigh /\ step' = step
  BY <1>1, SeenStays DEF Rises, OnClockHigh
<1>4. cycles' = cycles
  BY <1>1, <1>2, TickCounts DEF Rises
<1>5. Committed' /\ Latched(step)'
  <2>1. CASE step = 0
    <3>1. DeviceStill
      <4>1. ~Has(step - 1)
        BY <2>1 DEF Has
      <4> QED BY <1>2, <4>1 DEF Latched, DeviceSo
    <3>2. AtFetch
      BY <1>2, <1>3, <2>1, <3>1 DEF AtFetch
    <3> QED BY <1>4, <3>2, FetchCommitted
  <2>2. CASE step # 0
    <3>1. AtCapture
      BY <1>2, <1>3, <2>2 DEF AtCapture
    <3> QED BY <1>4, <3>1, HighEdgeCommitted
  <2> QED BY <2>1, <2>2
<1>6. Got' = step'
  BY DEF Got, Captured, Rises
<1>7. ~ISA!Unpromised'
  BY <1>2, <1>3, Steady
<1> QED BY <1>3, <1>5, <1>6, <1>7 DEF Underway

(* A Low edge goes on with the instruction or ends it.                     *)
LEMMA TickFalls ==
    ASSUME TInv, TraceTick, ~resetActive, Falls
    PROVE  \/ Seen' = Seen /\ Underway'
           \/ AtBoundary' /\ ISA!Execute
<1>1. ~AtBoundary
  BY DEF AtBoundary, Falls
<1>2. /\ IInv /\ SeenTyped /\ ~ISA!Unpromised /\ Committed /\ Latched(step)
      /\ step \in 0 .. 6 /\ cycles = step /\ OnClockLow
  <2>1. Got = step
    BY DEF Got, Captured, Falls
  <2>2. ~ISA!Unpromised /\ Committed /\ Latched(Got)
    BY <1>1 DEF TInv, Underway
  <2> QED BY <2>1, <2>2 DEF TInv, IInv, ControlOK, Committed, Counted, Falls
<1>3. cycles' = cycles + 1
  BY <1>1, <1>2, TickCounts DEF Falls
<1>4. AtCommit
  BY <1>2, <1>3 DEF AtCommit
<1>5. Got' = step' - 1
  BY DEF Got, Captured, Falls
<1>6. ASSUME step' # 0 PROVE Seen' = Seen /\ ~ISA!Unpromised'
  <2>1. Seen' = Seen
    BY <1>6, SeenStays DEF AtBoundary
  <2> QED BY <1>2, <2>1, Steady
<1>7. CASE step = 0
  <2>1. step' = 1
    <3>1. Commit("nextPC")
      BY <1>2, <1>7 DEF OnClockLow, WithinHandler, CommitNow
    <3> QED BY <1>7, <3>1 DEF Commit, StepPC, Advance
  <2>2. Committed' /\ Latched(step - 1)'
    BY <1>4, <1>6, <1>7, <2>1, FetchAdvances
  <2> QED BY <1>5, <1>6, <2>1, <2>2 DEF Underway
<1>8. CASE step # 0 /\ step' # 0
  <2>1. AtAdvance
    BY <1>4, <1>6, <1>8, CommitFacts DEF AtAdvance
  <2>2. Committed' /\ Latched(step - 1)'
    BY <2>1, Advances
  <2> QED BY <1>5, <1>6, <1>8, <2>2 DEF Underway
<1>9. CASE step # 0 /\ step' = 0
  <2>1. AtFinish
    BY <1>4, <1>9, CommitFacts DEF AtFinish, Falls
  <2> QED BY <1>9, <2>1, Executes DEF AtBoundary, Falls
<1> QED BY <1>7, <1>8, <1>9

-----------------------------------------------------------------------------
(* A reset from a boundary.  The vector reads the same all the way.        *)
LEMMA VectorsSeen ==
    ASSUME mem = Seen.mem, NEW v \in Vectors
    PROVE  ISA!BusData(v) = BusData(v)
<1>1. CASE v \in TtyPage
  <2>1. ~(v - TtyBase <= TapeData)
    BY <1>1, VectorsAreSilent DEF VectorInDevice
  <2>2. v - TtyBase \in Int
    <3>1. v \in Int /\ TtyBase \in Int
      BY MapAssumption, WordRange DEF Vectors, ResetVector
    <3> QED BY <3>1
  <2>3. ReadValue(v - TtyBase) = 0 /\ ISA!ReadValue(v - TtyBase) = 0
    BY <2>1, <2>2 DEF ReadValue, ISA!ReadValue, TapeData, ISA!TapeData, SerialData,
       ISA!SerialData
  <2> QED BY <2>3, SamePage DEF BusData, ISA!BusData
<1>2. CASE v \notin TtyPage
  BY <1>2, SamePage DEF BusData, ISA!BusData
<1> QED BY <1>1, <1>2

(* The dummy reads are of the program counter; a vector's registers are    *)
(* none of those that a read changes.                                      *)
LEMMA ResetReads ==
    ASSUME resetActive, step \in 0 .. 6, PC \notin TtyPage, OnClockHigh
    PROVE  UNCHANGED busVars
<1>1. CASE step \in {0, 1}
  BY <1>1, ResetCaptures, QuietRead DEF DummyRead
<1>2. CASE step \in {2, 3, 4}
  BY <1>2, ResetCaptures DEF Idle, BusIdle
<1>3. CASE step \in {5, 6}
  <2>1. PICK v \in Vectors : BusRead(v)
    BY <1>3, ResetCaptures DEF VectorLow, VectorHigh, LoadAddr, Vectors
  <2>2. CASE v \in TtyPage
    <3>1. v - TtyBase \notin {SerialData, TapeData}
      <4>1. ~(v - TtyBase <= TapeData)
        BY <2>2, VectorsAreSilent DEF VectorInDevice
      <4> QED BY <4>1 DEF SerialData, TapeData
    <3> QED BY <2>1, <2>2, <3>1 DEF BusRead, TtyRead, ttyVars, busVars, serial, deck
  <2>3. CASE v \notin TtyPage
    BY <2>1, <2>3, QuietRead
  <2> QED BY <2>2, <2>3
<1> QED BY <1>1, <1>2, <1>3

LEMMA ResetCommitsIdle ==
    ASSUME resetActive, step \in 0 .. 6, OnClockLow
    PROVE  /\ UNCHANGED busVars
           /\ step' = IF step = 6 THEN 0 ELSE step + 1
           /\ step # 6 => resetActive' /\ PC' = PC
           /\ step = 6 => ~resetActive'
<1>1. CASE step = 0
  BY <1>1, ResetCommits DEF ClearHalted, BusIdle, registers
<1>2. CASE step \in {1, 5}
  <2>1. StepOnly
    BY <1>2, ResetCommits
  <2>2. UNCHANGED busVars /\ step' = step + 1 /\ PC' = PC /\ resetActive' = resetActive
    BY <2>1 DEF StepOnly, Advance, BusIdle, registers
  <2>3. resetActive'
    BY <2>2, Zenon
  <2> QED BY <1>2, <2>2, <2>3
<1>3. CASE step \in {2, 3, 4}
  <2>1. \E p : PhantomPush(p)
    BY <1>3, ResetCommits
  <2>2. UNCHANGED busVars /\ step' = step + 1 /\ PC' = PC /\ resetActive' = resetActive
    BY <2>1 DEF PhantomPush, Advance, BusIdle
  <2>3. resetActive'
    BY <2>2, Zenon
  <2> QED BY <1>3, <2>2, <2>3
<1>4. CASE step = 6
  BY <1>4, ResetCommits DEF ResetJump, BusIdle
<1> QED BY <1>1, <1>2, <1>3, <1>4

(* A tick of the sequence.                                                 *)
LEMMA ResetTicks ==
    ASSUME TInv, TraceTick, resetActive
    PROVE  \/ Seen' = Seen /\ FromReset' /\ resetActive' /\ ~AtBoundary'
           \/ /\ AtBoundary' /\ ~resetActive' /\ Seen'.took = 7
              /\ Seen.PC \notin TtyPage => DeviceStill /\ UNCHANGED busVars
<1>1. /\ step \in 0 .. 6 /\ armed = Seen /\ PC = Seen.PC
      /\ ~AtBoundary => cycles = step
      /\ Seen.PC \notin TtyPage => DeviceStill
  BY DEF TInv, IInv, ControlOK, FromReset
<1>2. Rests \/ Rises \/ Falls
  BY TickPhases DEF TInv
<1>3. cycles' = IF phase' = "Low" THEN step + 1 ELSE step
  BY <1>1, <1>2, TickCounts
<1>4. armed' = armed
  BY DEF TraceTick
<1>5. ASSUME step' = step, PC' = PC, phase' # "Low", resetActive',
             Seen.PC \notin TtyPage => UNCHANGED busVars
      PROVE  Seen' = Seen /\ FromReset' /\ ~AtBoundary'
  <2>1. Seen' = Seen
    BY <1>5, SeenStays DEF AtBoundary
  <2>2. cycles' = step'
    BY <1>3, <1>5
  <2>3. Seen'.PC \notin TtyPage => DeviceStill'
    BY <1>1, <1>5, <2>1, StillBus
  <2>4. armed' = Seen' /\ PC' = Seen'.PC
    BY <1>1, <1>4, <1>5, <2>1
  <2> QED BY <1>5, <2>1, <2>2, <2>3, <2>4 DEF FromReset, AtBoundary
<1>6. CASE Rests
  <2>1. step' = step /\ PC' = PC /\ phase' # "Low" /\ resetActive' /\ UNCHANGED busVars
    BY <1>6 DEF Rests, registers
  <2> QED BY <1>5, <2>1
<1>7. CASE Rises
  <2>1. step' = step /\ PC' = PC /\ phase' # "Low" /\ resetActive' /\ OnClockHigh
    BY <1>7 DEF Rises, OnClockHigh, registers
  <2>2. Seen.PC \notin TtyPage => UNCHANGED busVars
    BY <1>1, <2>1, ResetReads
  <2> QED BY <1>5, <2>1, <2>2
<1>8. CASE Falls
  <2>1. phase' = "Low" /\ OnClockLow /\ cycles' = step + 1
    BY <1>3, <1>8 DEF Falls
  <2>2. /\ UNCHANGED busVars /\ step' = IF step = 6 THEN 0 ELSE step + 1
        /\ step # 6 => resetActive' /\ PC' = PC
        /\ step = 6 => ~resetActive'
    BY <1>1, <2>1, ResetCommitsIdle
  <2>3. CASE step = 6
    <3>1. AtBoundary' /\ ~resetActive' /\ cycles' = 7
      BY <2>1, <2>2, <2>3 DEF AtBoundary
    <3>2. Seen'.took = 7
      BY <3>1, SeenAfter
    <3> QED BY <1>1, <2>2, <3>1, <3>2
  <2>4. CASE step # 6
    <3>1. step' = step + 1 /\ step' # 0 /\ resetActive' /\ PC' = PC
      BY <1>1, <2>2, <2>4
    <3>2. Seen' = Seen
      BY <3>1, SeenStays DEF AtBoundary
    <3>3. Seen'.PC \notin TtyPage => DeviceStill'
      BY <1>1, <2>2, <3>2, StillBus
    <3>4. armed' = Seen' /\ PC' = Seen'.PC /\ cycles' = step'
      BY <1>1, <1>4, <2>1, <3>1, <3>2
    <3> QED BY <3>1, <3>2, <3>3, <3>4 DEF FromReset, AtBoundary
  <2> QED BY <2>3, <2>4
<1> QED BY <1>2, <1>6, <1>7, <1>8

(* The tick that ends the sequence is the instruction set's reset.         *)
LEMMA ResetEnds ==
    ASSUME TInv, TraceTick, resetActive, AtBoundary', ~resetActive', Seen'.took = 7,
           Seen.PC \notin TtyPage => DeviceStill /\ UNCHANGED busVars
    PROVE  ISA!Reset
<1>1. armed = Seen /\ AsArmed
  BY DEF TInv, FromReset, Resetting
<1>2. Settles
  BY JumpSettles DEF TInv, TraceNext
<1>3. /\ PC' = BusData(ResetVector) + 256 * BusData(ResetVector + 1)
      /\ SP' = (Seen.SP - 3) % 256 /\ P' = Seen.P \cup {"I"}
      /\ A' = Seen.A /\ X' = Seen.X /\ Y' = Seen.Y /\ mem' = Seen.mem
      /\ ~halted'
  BY <1>1, <1>2 DEF Settles
<1>4. halted' = FALSE
  <2>1. IInv'
    BY NextKeeps, TracedMachine DEF TInv, TraceNext
  <2> QED BY <1>3, <2>1 DEF IInv, ControlOK
<1>5. After
  BY SeenAfter DEF After
<1>6. PC' = ISA!Cell16(ISA!ResetVector, ISA!ResetVector + 1)
  <2>1. mem = Seen.mem
    BY <1>1 DEF AsArmed
  <2>2. ISA!ResetVector = ResetVector
    BY DEF ISA!ResetVector, ResetVector
  <2>3. \A v \in Vectors : ISA!BusData(v) = BusData(v)
    BY <2>1, VectorsSeen
  <2> QED BY <1>3, <2>2, <2>3 DEF ISA!Cell16, Vectors
<1>7. Seen'.SP = (Seen.SP + (-3)) % 256
  <2>1. Seen.SP \in Byte
    BY DEF TInv, SeenTyped
  <2>2. (Seen.SP - 3) % 256 = (Seen.SP + (-3)) % 256
    BY <2>1 DEF Byte
  <2> QED BY <1>3, <1>5, <2>2 DEF After
<1>8. Seen.PC \notin ISA!TtyPage => UNCHANGED ISA!ttyVars
  <2>1. SUFFICES ASSUME Seen.PC \notin ISA!TtyPage PROVE UNCHANGED ISA!ttyVars
    OBVIOUS
  <2>2. DeviceStill /\ UNCHANGED <<serial, deck>>
    BY <2>1, SamePage DEF busVars
  <2> QED BY <1>5, <2>2, DeviceKept
<1> QED BY <1>3, <1>4, <1>5, <1>6, <1>7, <1>8 DEF After, ISA!Reset, ISA!MoveSP

-----------------------------------------------------------------------------
(* The invariant, step by step.                                            *)
LEMMA ViewTyped ==
    ASSUME IInv', AtBoundary'
    PROVE  SeenTyped'
<1>1. /\ A' \in Byte /\ X' \in Byte /\ Y' \in Byte /\ SP' \in Byte /\ PC' \in Word
      /\ P' \subseteq StatusBit /\ mem' \in Memory
      /\ rxByte' \in TtyByte /\ rxReady' \in BOOLEAN /\ tape' \in Seq(TtyByte)
      /\ pos' \in Nat /\ motor' \in BOOLEAN /\ eot' \in BOOLEAN /\ err' \in BOOLEAN
  BY DEF IInv, DatapathOK, RegistersOK, BusTypeOK, TtyTypeOK
<1> QED BY <1>1, SeenAfter DEF SeenTyped

LEMMA SeenTypedStays ==
    ASSUME SeenTyped, Seen' = Seen
    PROVE  SeenTyped'
  BY DEF SeenTyped, Memory

(* A tick's call goes on until a boundary.                                 *)
LEMMA TickShape ==
    ASSUME CallShape, TraceTick, resetActive' <=> (resetActive /\ ~AtBoundary')
    PROVE  CallShape'
<1>1. call' = IF AtBoundary' /\ (call = "run" => left = 1 \/ halted') THEN "none" ELSE call
  <2>1. call \in {"executeInstruction", "run", "reset"}
    BY DEF CallShape, TraceTick, Tick
  <2> QED BY <2>1 DEF TraceTick, Tick, Returned
<1>2. call \in {"executeInstruction", "run", "reset"} /\ (resetActive <=> call = "reset")
  BY DEF CallShape, TraceTick, Tick
<1>3. call' \in {"none", "executeInstruction", "run", "reset"}
  BY <1>1, <1>2
<1>4. resetActive' <=> call' = "reset"
  <2>1. CASE call = "reset"
    BY <1>1, <1>2, <2>1
  <2>2. CASE call # "reset"
    BY <1>1, <1>2, <2>2
  <2> QED BY <2>1, <2>2
<1>5. call' = "none" => AtBoundary'
  BY <1>1, <1>2
<1> QED BY <1>3, <1>4, <1>5, Zenon DEF CallShape

LEMMA NoResetArises ==
    ASSUME IInv, TraceTick, ~resetActive
    PROVE  ~resetActive'
<1>1. Rests \/ Rises \/ Falls
  BY TickPhases
<1>2. CASE Rests
  BY <1>2, Zenon DEF Rests
<1>3. CASE Rises
  BY <1>3 DEF Rises, OnClockHigh
<1>4. CASE Falls
  <2>1. Commit(CommitNow) /\ halted \in BOOLEAN /\ resetActive \in BOOLEAN
    BY <1>4 DEF Falls, OnClockLow, IInv, ControlOK
  <2> QED BY <2>1, CommitSteps
<1> QED BY <1>1, <1>2, <1>3, <1>4

(* A step of an instruction or of a reset is a step of the instruction set *)
(* or none, and keeps the invariant.                                       *)
ISAvars == <<Seen.A, Seen.X, Seen.Y, Seen.SP, Seen.PC, Seen.P, Seen.halted, Seen.took,
             ISA!busVars>>

LEMMA TickKeepsTrace ==
    ASSUME TInv, OrdinaryProgram, TraceTick
    PROVE  /\ CallShape' /\ SeenTyped' /\ FromReset' /\ Underway'
           /\ ISA!Next \/ Seen' = Seen
<1>1. IInv'
  BY NextKeeps, TracedMachine DEF TInv, TraceNext
<1>2. CASE resetActive
  <2>1. CASE Seen' = Seen /\ FromReset' /\ resetActive' /\ ~AtBoundary'
    <3>2. CallShape'
      BY <1>2, <2>1, TickShape DEF TInv
    <3>3. SeenTyped'
      BY <2>1, SeenTypedStays DEF TInv
    <3>4. Underway'
      BY <2>1 DEF Underway
    <3> QED BY <2>1, <3>2, <3>3, <3>4
  <2>2. CASE /\ AtBoundary' /\ ~resetActive' /\ Seen'.took = 7
             /\ Seen.PC \notin TtyPage => DeviceStill /\ UNCHANGED busVars
    <3>1. ISA!Reset
      BY <1>2, <2>2, ResetEnds
    <3>2. CallShape'
      BY <1>2, <2>2, TickShape DEF TInv
    <3>3. SeenTyped'
      BY <1>1, <2>2, ViewTyped
    <3>4. Underway' /\ FromReset'
      BY <2>2 DEF Underway, FromReset
    <3> QED BY <3>1, <3>2, <3>3, <3>4 DEF ISA!Next
  <2> QED BY <1>2, <2>1, <2>2, ResetTicks
<1>3. CASE ~resetActive
  <2>1. ~resetActive'
    BY <1>3, NoResetArises DEF TInv
  <2>2. CallShape'
    BY <1>3, <2>1, TickShape DEF TInv
  <2>3. FromReset'
    BY <2>1 DEF FromReset
  <2>4. \/ Seen' = Seen /\ Underway'
        \/ AtBoundary' /\ ISA!Execute
    <3>1. Rests \/ Rises \/ Falls
      BY TickPhases DEF TInv
    <3> QED BY <1>3, <3>1, TickStarts, TickRests, TickRises, TickFalls
  <2>5. CASE Seen' = Seen /\ Underway'
    BY <2>2, <2>3, <2>5, SeenTypedStays DEF TInv
  <2>6. CASE AtBoundary' /\ ISA!Execute
    BY <1>1, <2>2, <2>3, <2>6, ViewTyped DEF Underway, ISA!Next
  <2> QED BY <2>4, <2>5, <2>6
<1> QED BY <1>2, <1>3

(* A host call comes at a boundary and changes nothing that is seen.       *)
LEMMA CallKeepsTrace ==
    ASSUME TInv, WholeCalls, (\E c \in HostCall : TraceReset(c)) \/ TraceCall
    PROVE  /\ CallShape' /\ SeenTyped' /\ FromReset' /\ Underway'
           /\ Seen' = Seen
<1>1. /\ StartCall /\ UNCHANGED <<registers, cycles>>
      /\ \/ call' \in {"none", "executeInstruction", "run"} /\ UNCHANGED <<step, resetActive>>
         \/ call' = "reset" /\ ArmReset /\ armed' = View
  <2>1. CASE \E c \in HostCall : TraceReset(c)
    <3>1. PICK c \in HostCall : TraceReset(c)
      BY <2>1
    <3>2. c = "reset"
      BY <3>1 DEF TraceReset, CallReset, WholeCalls
    <3> QED BY <3>1, <3>2 DEF TraceReset, CallReset
  <2>2. CASE TraceCall
    <3>1. ~CallSet
      BY DEF CallSet, WholeCalls
    <3>2. CASE \E c \in HostCall : CallTick(c)
      BY <2>2, <3>2 DEF TraceCall, CallTick, WholeCalls
    <3>3. CASE \E max \in RunLengths : CallRun(max)
      BY <2>2, <3>3 DEF TraceCall, CallRun
    <3> QED BY <2>2, <3>1, <3>2, <3>3 DEF TraceCall
  <2> QED BY <2>1, <2>2
<1>2. call = "none" /\ AtBoundary /\ ~resetActive
  BY <1>1 DEF StartCall, TInv, CallShape
<1>3. AtBoundary' /\ UNCHANGED <<A, X, Y, SP, PC, P, halted, cycles>> /\ UNCHANGED busVars
  BY <1>1, <1>2 DEF StartCall, ArmReset, AtBoundary, registers
<1>4. View' = View
  BY <1>3 DEF View, busVars, serial, deck
<1>5. Seen' = Seen /\ Seen = View
  BY <1>2, <1>3, <1>4 DEF Seen
<1>6. CallShape'
  BY <1>1, <1>2, <1>3 DEF CallShape, ArmReset
<1>7. SeenTyped'
  BY <1>5, SeenTypedStays DEF TInv
<1>8. FromReset'
  <2>1. SUFFICES ASSUME resetActive' PROVE FromReset'
    BY DEF FromReset
  <2>2. armed' = View
    BY <1>1, <1>2, <2>1
  <2>3. DeviceStill'
    BY <1>3, SeenAfter DEF DeviceStill, DeckSame
  <2>4. PC' = Seen'.PC
    BY <1>3, SeenAfter
  <2> QED BY <1>3, <1>5, <2>2, <2>3, <2>4 DEF FromReset
<1> QED BY <1>3, <1>5, <1>6, <1>7, <1>8 DEF Underway

LEMMA TraceKeeps ==
    ASSUME TInv, WholeCalls, OrdinaryProgram, [TraceNext]_traceVars
    PROVE  TInv' /\ (ISA!Next \/ Seen' = Seen)
<1>1. IInv'
  BY NextKeeps, TracedMachine DEF TInv
<1>2. Resetting'
  BY TraceStepResets DEF TInv, WholeCalls
<1>3. CASE TraceTick
  BY <1>1, <1>2, <1>3, TickKeepsTrace DEF TInv
<1>4. CASE (\E c \in HostCall : TraceReset(c)) \/ TraceCall
  BY <1>1, <1>2, <1>4, CallKeepsTrace DEF TInv
<1>5. CASE UNCHANGED traceVars
  <2>1. /\ AtRest /\ phase' = phase /\ call' = call /\ armed' = armed /\ last' = last
        /\ Seen' = Seen /\ PC' = PC /\ AtBoundary' = AtBoundary /\ cycles' = cycles
        /\ step' = step /\ resetActive' = resetActive /\ UNCHANGED busVars
    <3>1. phase' = phase /\ step' = step /\ last' = last /\ UNCHANGED <<registers, latches, busVars>>
          /\ UNCHANGED <<halted, resetActive, call, armed, cycles>>
      BY <1>5 DEF traceVars, vars, host
    <3>2. AtBoundary' = AtBoundary /\ Captured' = Captured
      BY <3>1 DEF AtBoundary, Captured
    <3>3. View' = View
      BY <3>1 DEF View, registers, busVars, serial, deck
    <3>4. Seen' = Seen
      BY <3>1, <3>2, <3>3 DEF Seen
    <3> QED BY <3>1, <3>2, <3>4 DEF AtRest, registers
  <2>2. CallShape'
    BY <2>1 DEF TInv, CallShape
  <2>3. SeenTyped'
    BY <2>1, SeenTypedStays DEF TInv
  <2>4. FromReset'
    BY <2>1, StillBus DEF TInv, FromReset
  <2>5. Underway'
    BY <2>1, Steady, RestCommitted, RestLatched DEF TInv, Underway
  <2> QED BY <1>1, <1>2, <2>1, <2>2, <2>3, <2>4, <2>5 DEF TInv
<1> QED BY <1>3, <1>4, <1>5 DEF TraceNext

LEMMA TraceStarts ==
    ASSUME TraceInit
    PROVE  TInv /\ ISA!Init
<1>1. IInv /\ Resetting
  BY InitIInv, InitResets, TracedMachine
<1>2. AtBoundary /\ ~resetActive /\ call = "none" /\ ~halted /\ halted = FALSE /\ cycles = 0
  BY DEF TraceInit, Init, AtBoundary
<1>3. Seen = View
  BY <1>2 DEF Seen
<1>4. SeenTyped
  BY <1>1, <1>3 DEF SeenTyped, View, IInv, DatapathOK, RegistersOK, BusTypeOK, TtyTypeOK
<1>5. CallShape /\ FromReset /\ Underway
  BY <1>2 DEF CallShape, FromReset, Underway
<1>6. ISA!Init
  <2>1. Seen.PC \in Word /\ Seen.halted = FALSE /\ Seen.took = 0
    BY <1>1, <1>2, <1>3 DEF View, IInv, DatapathOK, RegistersOK
  <2>2. ISA!Word = Word
    BY DEF ISA!Word, Word
  <2> QED BY <2>1, <2>2 DEF ISA!Init
<1> QED BY <1>1, <1>4, <1>5, <1>6 DEF TInv

-----------------------------------------------------------------------------
(* ImplementsIsa, for every memory map, every starting state, every number *)
(* of calls and every run length: driven by reset, executeInstruction and  *)
(* run, the cycle-stepped machine does what the instruction set says, one  *)
(* whole instruction or reset at a time: its registers, flags and memory,  *)
(* the one access of the operand that the device sees, and the cycles it   *)
(* takes.  Every opcode byte is covered.  The programs are those whose     *)
(* code, pointers and stack lie outside the device's page and that make no *)
(* read-modify-write of a device register (Unpromised).                    *)
THEOREM ImplementsInstructionSet ==
    WholeCalls => (TraceSpec /\ []OrdinaryProgram => ImplementsIsa)
<1> SUFFICES ASSUME WholeCalls PROVE TraceSpec /\ []OrdinaryProgram => ImplementsIsa
  OBVIOUS
<1>1. TraceInit => TInv /\ ISA!Init
  BY TraceStarts
<1>2. TInv /\ OrdinaryProgram /\ [TraceNext]_traceVars => TInv' /\ [ISA!Next]_ISAvars
  <2>1. SUFFICES ASSUME TInv, OrdinaryProgram, [TraceNext]_traceVars
                 PROVE  TInv' /\ [ISA!Next]_ISAvars
    OBVIOUS
  <2>2. TInv' /\ (ISA!Next \/ Seen' = Seen)
    BY <2>1, TraceKeeps
  <2> QED BY <2>2 DEF ISAvars, ISA!busVars, ISA!serial, ISA!deck
<1> QED BY <1>1, <1>2, PTL DEF TraceSpec, ImplementsIsa, ISA!Spec, ISAvars
=============================================================================
