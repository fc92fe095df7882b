------------------------------ MODULE Opcodes6502 ------------------------------
(***************************************************************************)
(* The instruction set of src/cpu/cpu6502.cpp as tables: which handler the *)
(* dispatch switches of onClockHigh and onClockLow route an opcode to, and *)
(* what each handler does in each T-state.                                 *)
(*                                                                         *)
(* A handler is a pair of member functions, captureX and commitX, that     *)
(* switch on m_cpuStep.  Here it is a pair of rows: entry i of "capture"   *)
(* names what captureX does on the High edge of T-state i, entry i of      *)
(* "commit" what commitX does on the Low edge.  A T-state beyond a row is  *)
(* the default case of that switch.  Cpu6502 gives the names their         *)
(* meaning, one action each.                                               *)
(***************************************************************************)
EXTENDS Alu, Sequences

(* Binary-ALU family: ADC SBC AND ORA EOR CMP CPX CPY BIT.                 *)

ReadImmediate ==
    [capture |-> <<"operandPC">>,
     commit  |-> <<"resultPC">>]
ReadAbsolute ==
    [capture |-> <<"fetchLow", "fetchHigh", "operandAddr">>,
     commit  |-> <<"nextPC", "nextPC", "result">>]
ReadZeroPage ==
    [capture |-> <<"fetchLow", "operandAddr">>,
     commit  |-> <<"nextPC", "result">>]
ReadZeroPageX ==
    [capture |-> <<"fetchLow", "indexX", "operandAddr">>,
     commit  |-> <<"nextPC", "next", "result">>]
ReadAbsoluteX ==
    [capture |-> <<"fetchLow", "fetchBaseX", "operandEffIfSamePage",
                 "operandEff">>,
     commit  |-> <<"nextPC", "nextPC", "resultIfSamePage", "result">>]
ReadAbsoluteY ==
    [capture |-> <<"fetchLow", "fetchBaseY", "operandEffIfSamePage",
                 "operandEff">>,
     commit  |-> <<"nextPC", "nextPC", "resultIfSamePage", "result">>]
ReadIndirectX ==
    [capture |-> <<"fetchLow", "indexX", "pointerLow", "pointerHigh",
                 "operandEff">>,
     commit  |-> <<"nextPC", "next", "next", "next", "result">>]
ReadIndirectY ==
    [capture |-> <<"fetchLow", "pointerLow", "pointerBaseY",
                 "operandEffIfSamePage", "operandEff">>,
     commit  |-> <<"nextPC", "next", "next", "resultIfSamePage", "result">>]

(* Unary-ALU family: ASL LSR ROL ROR INC DEC.  The idle T-states stand in  *)
(* for the dummy write-back of the hardware.                               *)

ShiftAccumulator ==
    [capture |-> <<"operandA">>,
     commit  |-> <<"shiftResult">>]
RmwZeroPage ==
    [capture |-> <<"fetchLow", "operandAddr", "idle", "idle">>,
     commit  |-> <<"nextPC", "next", "next", "writeBackAddr">>]
RmwZeroPageX ==
    [capture |-> <<"fetchLow", "indexX", "operandAddr", "idle", "idle">>,
     commit  |-> <<"nextPC", "next", "next", "next", "writeBackAddr">>]
RmwAbsolute ==
    [capture |-> <<"fetchLow", "fetchHigh", "operandAddr", "idle", "idle">>,
     commit  |-> <<"nextPC", "nextPC", "next", "next", "writeBackAddr">>]
RmwAbsoluteX ==
    [capture |-> <<"fetchLow", "fetchFixedX", "idle", "operandEff", "idle",
                 "idle">>,
     commit  |-> <<"nextPC", "nextPC", "next", "next", "next", "writeBackEff">>]

(* Register and flag operations without a memory operand.                  *)

ImpliedIncDec ==
    [capture |-> <<"operandXY">>,
     commit  |-> <<"incDecResult">>]
ImpliedTransfer ==
    [capture |-> <<"transferSource">>,
     commit  |-> <<"transferResult">>]
ImpliedFlagOp ==
    [capture |-> <<"idle">>,
     commit  |-> <<"flagResult">>]

(* Loads: the byte passes through the ALU (OR with 0).                     *)

LoadImmediate ==
    [capture |-> <<"operandPC">>,
     commit  |-> <<"resultPC">>]
LoadZeroPage ==
    [capture |-> <<"fetchLow", "operandAddr">>,
     commit  |-> <<"nextPC", "result">>]
LoadZeroPageX ==
    [capture |-> <<"fetchLow", "indexX", "operandAddr">>,
     commit  |-> <<"nextPC", "next", "result">>]
LoadZeroPageY ==
    [capture |-> <<"fetchLow", "indexY", "operandAddr">>,
     commit  |-> <<"nextPC", "next", "result">>]
LoadAbsolute ==
    [capture |-> <<"fetchLow", "fetchHigh", "operandAddr">>,
     commit  |-> <<"nextPC", "nextPC", "result">>]
LoadAbsoluteX ==
    [capture |-> <<"fetchLow", "fetchBaseX", "operandEffIfSamePage",
                 "operandEff">>,
     commit  |-> <<"nextPC", "nextPC", "resultIfSamePage", "result">>]
LoadAbsoluteY ==
    [capture |-> <<"fetchLow", "fetchBaseY", "operandEffIfSamePage",
                 "operandEff">>,
     commit  |-> <<"nextPC", "nextPC", "resultIfSamePage", "result">>]
LoadIndirectX ==
    [capture |-> <<"fetchLow", "indexX", "pointerLow", "pointerHigh",
                 "operandEff">>,
     commit  |-> <<"nextPC", "next", "next", "next", "result">>]
LoadIndirectY ==
    [capture |-> <<"fetchLow", "pointerLow", "pointerBaseY",
                 "operandEffIfSamePage", "operandEff">>,
     commit  |-> <<"nextPC", "next", "next", "resultIfSamePage", "result">>]

(* Stores.  The capture side of the three indexed stores that always pay   *)
(* for the page fixup stops one T-state before the commit side does.       *)

StoreZeroPage ==
    [capture |-> <<"fetchLow", "idle">>,
     commit  |-> <<"nextPC", "storeAddr">>]
StoreZeroPageX ==
    [capture |-> <<"fetchLow", "indexX", "idle">>,
     commit  |-> <<"nextPC", "next", "storeAddr">>]
StoreZeroPageY ==
    [capture |-> <<"fetchLow", "indexY", "idle">>,
     commit  |-> <<"nextPC", "next", "storeAddr">>]
StoreAbsolute ==
    [capture |-> <<"fetchLow", "fetchHigh", "idle">>,
     commit  |-> <<"nextPC", "nextPC", "storeAddr">>]
StoreAbsoluteX ==
    [capture |-> <<"fetchLow", "fetchFixedX", "idle">>,
     commit  |-> <<"nextPC", "nextPC", "next", "storeEff">>]
StoreAbsoluteYFault_NoT4 ==                         \* WithinHandler
    [capture |-> <<"fetchLow", "fetchFixedY", "idle">>,
     commit  |-> <<"nextPC", "nextPC", "next">>]
StoreAbsoluteY ==
    [capture |-> <<"fetchLow", "fetchFixedY", "idle">>,
     commit  |-> <<"nextPC", "nextPC", "next", "storeEff">>]
StoreIndirectX ==
    [capture |-> <<"fetchLow", "indexX", "pointerLow", "pointerHigh", "idle">>,
     commit  |-> <<"nextPC", "next", "next", "next", "storeEff">>]
StoreIndirectY ==
    [capture |-> <<"fetchLow", "pointerLow", "pointerFixedY", "idle">>,
     commit  |-> <<"nextPC", "next", "next", "next", "storeEff">>]

(* Control transfer and the stack.                                         *)

Branch ==
    [capture |-> <<"branchOffset", "branchTarget", "idle">>,
     commit  |-> <<"branchDecide", "branchIfSamePage", "branchTake">>]
BRK ==
    [capture |-> <<"dummyRead", "idle", "idle", "idle", "vectorLow",
                 "vectorHigh">>,
     commit  |-> <<"nextPC", "pushPCH", "pushPCL", "pushStatus", "next",
                 "jumpHalt">>]
JSR ==
    [capture |-> <<"fetchLow", "idle", "idle", "idle", "targetHigh">>,
     commit  |-> <<"nextPC", "next", "pushPCH", "pushPCL", "jump">>]
RTS ==
    [capture |-> <<"idle", "idle", "pullLow", "pullHigh", "idle">>,
     commit  |-> <<"next", "incrementSP", "incrementSP", "next", "jumpPast">>]
JMPAbsolute ==
    [capture |-> <<"fetchLow", "fetchHigh">>,
     commit  |-> <<"nextPC", "jump">>]
JMPIndirect ==
    [capture |-> <<"fetchLow", "fetchHigh", "pointerLow", "pointerHighInPage">>,
     commit  |-> <<"nextPC", "nextPC", "next", "jumpEff">>]
NOP ==
    [capture |-> <<"idle">>,
     commit  |-> <<"done">>]
RTI ==
    [capture |-> <<"dummyRead", "idle", "idle", "idle", "idle">>,
     commit  |-> <<"next", "incrementSP", "pullStatus", "pullPCL", "pullPCH">>]
ImpliedPush ==
    [capture |-> <<"dummyRead", "idle">>,
     commit  |-> <<"next", "pushRegister">>]
ImpliedPull ==
    [capture |-> <<"dummyRead", "idle", "pullLow">>,
     commit  |-> <<"next", "incrementSP", "pullRegister">>]

(* The reset sequence, T0 to T6, which replaces fetch and dispatch while   *)
(* m_resetActive is set; and the default case of the two dispatch          *)
(* switches.                                                               *)

Reset ==
    [capture |-> <<"dummyRead", "dummyRead", "idle", "idle", "idle", "resetLow",
                 "resetHigh">>,
     commit  |-> <<"clearHalted", "next", "decrementSP", "decrementSP",
                 "decrementSPMask", "next", "resetJump">>]
Unimplemented ==
    [capture |-> <<"idle">>,
     commit  |-> <<"done">>]

-----------------------------------------------------------------------------
(* The dispatch of onClockHigh and onClockLow, by handler and operation:   *)
(* the opcode constants as the two switches group them.                    *)

Handlers ==
    {"ReadImmediate", "ReadAbsolute", "ReadZeroPage", "ReadZeroPageX",
     "ReadAbsoluteX", "ReadAbsoluteY", "ReadIndirectX", "ReadIndirectY",
     "ShiftAccumulator", "RmwZeroPage", "RmwZeroPageX", "RmwAbsolute",
     "RmwAbsoluteX", "ImpliedIncDec", "ImpliedTransfer", "ImpliedFlagOp",
     "LoadImmediate", "LoadZeroPage", "LoadZeroPageX", "LoadZeroPageY",
     "LoadAbsolute", "LoadAbsoluteX", "LoadAbsoluteY", "LoadIndirectX",
     "LoadIndirectY", "StoreZeroPage", "StoreZeroPageX", "StoreZeroPageY",
     "StoreAbsolute", "StoreAbsoluteX", "StoreAbsoluteY",
     "StoreIndirectX", "StoreIndirectY", "Branch", "BRK", "JSR", "RTS",
     "JMPAbsolute", "JMPIndirect", "NOP", "RTI", "ImpliedPush",
     "ImpliedPull"}

OpcodeOf ==
    [ ReadImmediate    |-> [ADC |-> \h69, SBC |-> \hE9, AND |-> \h29, ORA |-> \h09,
                            EOR |-> \h49, CMP |-> \hC9, CPX |-> \hE0, CPY |-> \hC0],
      ReadAbsolute     |-> [ADC |-> \h6D, SBC |-> \hED, AND |-> \h2D, ORA |-> \h0D,
                            EOR |-> \h4D, CMP |-> \hCD, CPX |-> \hEC, CPY |-> \hCC,
                            BIT |-> \h2C],
      ReadZeroPage     |-> [ADC |-> \h65, SBC |-> \hE5, AND |-> \h25, ORA |-> \h05,
                            EOR |-> \h45, CMP |-> \hC5, CPX |-> \hE4, CPY |-> \hC4,
                            BIT |-> \h24],
      ReadZeroPageX    |-> [ADC |-> \h75, SBC |-> \hF5, AND |-> \h35, ORA |-> \h15,
                            EOR |-> \h55, CMP |-> \hD5],
      ReadAbsoluteX    |-> [ADC |-> \h7D, SBC |-> \hFD, AND |-> \h3D, ORA |-> \h1D,
                            EOR |-> \h5D, CMP |-> \hDD],
      ReadAbsoluteY    |-> [ADC |-> \h79, SBC |-> \hF9, AND |-> \h39, ORA |-> \h19,
                            EOR |-> \h59, CMP |-> \hD9],
      ReadIndirectX    |-> [ADC |-> \h61, SBC |-> \hE1, AND |-> \h21, ORA |-> \h01,
                            EOR |-> \h41, CMP |-> \hC1],
      ReadIndirectY    |-> [ADC |-> \h71, SBC |-> \hF1, AND |-> \h31, ORA |-> \h11,
                            EOR |-> \h51, CMP |-> \hD1],
      ShiftAccumulator |-> [ASL |-> \h0A, LSR |-> \h4A, ROL |-> \h2A, ROR |-> \h6A],
      RmwZeroPage      |-> [ASL |-> \h06, LSR |-> \h46, ROL |-> \h26, ROR |-> \h66,
                            INC |-> \hE6, DEC |-> \hC6],
      RmwZeroPageX     |-> [ASL |-> \h16, LSR |-> \h56, ROL |-> \h36, ROR |-> \h76,
                            INC |-> \hF6, DEC |-> \hD6],
      RmwAbsolute      |-> [ASL |-> \h0E, LSR |-> \h4E, ROL |-> \h2E, ROR |-> \h6E,
                            INC |-> \hEE, DEC |-> \hCE],
      RmwAbsoluteX     |-> [ASL |-> \h1E, LSR |-> \h5E, ROL |-> \h3E, ROR |-> \h7E,
                            INC |-> \hFE, DEC |-> \hDE],
      ImpliedIncDec    |-> [INX |-> \hE8, DEX |-> \hCA, INY |-> \hC8, DEY |-> \h88],
      ImpliedTransfer  |-> [TAX |-> \hAA, TXA |-> \h8A, TAY |-> \hA8, TYA |-> \h98,
                            TSX |-> \hBA, TXS |-> \h9A],
      ImpliedFlagOp    |-> [CLC |-> \h18, SEC |-> \h38, CLI |-> \h58, SEI |-> \h78,
                            CLV |-> \hB8, CLD |-> \hD8, SED |-> \hF8],
      LoadImmediate    |-> [LDA |-> \hA9, LDX |-> \hA2, LDY |-> \hA0],
      LoadZeroPage     |-> [LDA |-> \hA5, LDX |-> \hA6, LDY |-> \hA4],
      LoadZeroPageX    |-> [LDA |-> \hB5, LDY |-> \hB4],
      LoadZeroPageY    |-> [LDX |-> \hB6],
      LoadAbsolute     |-> [LDA |-> \hAD, LDX |-> \hAE, LDY |-> \hAC],
      LoadAbsoluteX    |-> [LDA |-> \hBD, LDY |-> \hBC],
      LoadAbsoluteY    |-> [LDA |-> \hB9, LDX |-> \hBE],
      LoadIndirectX    |-> [LDA |-> \hA1],
      LoadIndirectY    |-> [LDA |-> \hB1],
      StoreZeroPage    |-> [STA |-> \h85, STX |-> \h86, STY |-> \h84],
      StoreZeroPageX   |-> [STA |-> \h95, STY |-> \h94],
      StoreZeroPageY   |-> [STX |-> \h96],
      StoreAbsolute    |-> [STA |-> \h8D, STX |-> \h8E, STY |-> \h8C],
      StoreAbsoluteX   |-> [STA |-> \h9D],
      StoreAbsoluteY   |-> [STA |-> \h99],
      StoreIndirectX   |-> [STA |-> \h81],
      StoreIndirectY   |-> [STA |-> \h91],
      Branch           |-> [BPL |-> \h10, BMI |-> \h30, BVC |-> \h50, BVS |-> \h70,
                            BCC |-> \h90, BCS |-> \hB0, BNE |-> \hD0, BEQ |-> \hF0],
      BRK              |-> [BRK |-> \h00],
      JSR              |-> [JSR |-> \h20],
      RTS              |-> [RTS |-> \h60],
      JMPAbsolute      |-> [JMP |-> \h4C],
      JMPIndirect      |-> [JMP |-> \h6C],
      NOP              |-> [NOP |-> \hEA],
      RTI              |-> [RTI |-> \h40],
      ImpliedPush      |-> [PHA |-> \h48, PHP |-> \h08],
      ImpliedPull      |-> [PLA |-> \h68, PLP |-> \h28] ]

Implements(h, op, ir) == OpcodeOf[h][op] = ir

Handler ==
    [ir \in Byte |->
        IF \E h \in Handlers : \E op \in DOMAIN OpcodeOf[h] : Implements(h, op, ir)
        THEN CHOOSE h \in Handlers : \E op \in DOMAIN OpcodeOf[h] : Implements(h, op, ir)
        ELSE "Unimplemented"]

(* The operation an opcode selects within its handler (the switches on     *)
(* m_IR in applyBinaryAluOp, commitBinaryAluResult, storeSourceValue ...). *)
Operation ==
    [ir \in Byte |->
        IF Handler[ir] = "Unimplemented" THEN "none"
        ELSE CHOOSE op \in DOMAIN OpcodeOf[Handler[ir]] : Implements(Handler[ir], op, ir)]

Rows(h) ==
    CASE h = "ReadImmediate" -> ReadImmediate
      [] h = "ReadAbsolute" -> ReadAbsolute
      [] h = "ReadZeroPage" -> ReadZeroPage
      [] h = "ReadZeroPageX" -> ReadZeroPageX
      [] h = "ReadAbsoluteX" -> ReadAbsoluteX
      [] h = "ReadAbsoluteY" -> ReadAbsoluteY
      [] h = "ReadIndirectX" -> ReadIndirectX
      [] h = "ReadIndirectY" -> ReadIndirectY
      [] h = "ShiftAccumulator" -> ShiftAccumulator
      [] h = "RmwZeroPage" -> RmwZeroPage
      [] h = "RmwZeroPageX" -> RmwZeroPageX
      [] h = "RmwAbsolute" -> RmwAbsolute
      [] h = "RmwAbsoluteX" -> RmwAbsoluteX
      [] h = "ImpliedIncDec" -> ImpliedIncDec
      [] h = "ImpliedTransfer" -> ImpliedTransfer
      [] h = "ImpliedFlagOp" -> ImpliedFlagOp
      [] h = "LoadImmediate" -> LoadImmediate
      [] h = "LoadZeroPage" -> LoadZeroPage
      [] h = "LoadZeroPageX" -> LoadZeroPageX
      [] h = "LoadZeroPageY" -> LoadZeroPageY
      [] h = "LoadAbsolute" -> LoadAbsolute
      [] h = "LoadAbsoluteX" -> LoadAbsoluteX
      [] h = "LoadAbsoluteY" -> LoadAbsoluteY
      [] h = "LoadIndirectX" -> LoadIndirectX
      [] h = "LoadIndirectY" -> LoadIndirectY
      [] h = "StoreZeroPage" -> StoreZeroPage
      [] h = "StoreZeroPageX" -> StoreZeroPageX
      [] h = "StoreZeroPageY" -> StoreZeroPageY
      [] h = "StoreAbsolute" -> StoreAbsolute
      [] h = "StoreAbsoluteX" -> StoreAbsoluteX
      [] h = "StoreAbsoluteY" -> StoreAbsoluteY
      [] h = "StoreIndirectX" -> StoreIndirectX
      [] h = "StoreIndirectY" -> StoreIndirectY
      [] h = "Branch" -> Branch
      [] h = "BRK" -> BRK
      [] h = "JSR" -> JSR
      [] h = "RTS" -> RTS
      [] h = "JMPAbsolute" -> JMPAbsolute
      [] h = "JMPIndirect" -> JMPIndirect
      [] h = "NOP" -> NOP
      [] h = "RTI" -> RTI
      [] h = "ImpliedPush" -> ImpliedPush
      [] h = "ImpliedPull" -> ImpliedPull
      [] OTHER -> Unimplemented

Microprogram == [ir \in Byte |-> Rows(Handler[ir])]
=============================================================================
