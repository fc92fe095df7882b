------------------------------ MODULE MCCpu6502 ------------------------------
(***************************************************************************)
(* Small machines for TLC.  Memory is a few cells of each page the         *)
(* programs touch; every other address floats, which the bus allows.  The  *)
(* program sits across a page boundary ($02FE), its operands are chosen so *)
(* that every indexed mode crosses a page with one set of registers and    *)
(* not with the other, zero-page indices and pointers wrap ($FF to $00),   *)
(* the stack wraps, and the data address hits the TTY.                     *)
(***************************************************************************)
EXTENDS Cpu6502Trace

MCRam == (0 .. 2) \cup {255} \cup (256 .. 258) \cup (509 .. 511)
           \cup (\h02FB .. \h0303) \cup (\h03FF .. \h0401) \cup {\h0500}
MCRom == {\hC000} \cup (\hFFFC .. \hFFFF)
MCTtyBase == \h8000

(* Pointers: $FF/$00 to SERIAL_DATA, $00/$01 to $7F80; vectors: reset to   *)
(* $02FE, BRK to $0300.                                                    *)
Contents ==
    [a \in MCRam \cup MCRom |->
        CASE a = 0 -> \h80 [] a = 1 -> \h7F [] a = 2 -> \h03 [] a = 255 -> \h01
          [] a \in {256, 510} -> \h42 [] a \in {257, 511} -> \h02 [] a = 258 -> \hC3
          [] a = \h03FF -> \h81 [] a = \h0400 -> \h7F [] a = \h0401 -> \h00
          [] a = \hFFFC -> \hFE [] a = \hFFFD -> \h02 [] a = \hFFFE -> \h00
          [] a = \hFFFF -> \h03 [] OTHER -> \hEA]

(* A program at "origin".                                                   *)
Loaded(origin, program) ==
    [a \in MCRam \cup MCRom |->
        IF a - origin + 1 \in DOMAIN program THEN program[a - origin + 1] ELSE Contents[a]]

Low == [A |-> \h80, X |-> 1, Y |-> 255, SP |-> 0, P |-> {}]
High == [A |-> \h7F, X |-> 255, Y |-> 1, SP |-> 255, P |-> StatusBit]

Start(r, origin, program) ==
    [A |-> r.A, X |-> r.X, Y |-> r.Y, SP |-> r.SP, P |-> r.P, PC |-> origin,
     mem |-> Loaded(origin, program), ready |-> TRUE, motor |-> TRUE, tape |-> <<7, 9>>]

(* Every opcode the dispatch names and three it does not.                  *)
Implemented == {ir \in Byte : Handler[ir] # "Unimplemented"}
EveryOpcode == Implemented \cup {\h02, \h89, \hFF}

(* The operand word: $03FF, SERIAL_DATA, TAPE_DATA.                        *)
OperandWords == {<<\hFF, \h03>>, <<\h01, \h80>>, <<\h04, \h80>>}

(* Every instruction, followed by a PHP.                                   *)
EveryInstruction ==
    {Start(r, \h02FE, <<op>> \o w \o <<\h08>>) :
        r \in {Low, High}, op \in EveryOpcode, w \in OperandWords}

(* Every instruction after one that leaves a latch full: LDA $03FF,X       *)
(* crosses a page and keeps the indexed address, ROL $03FF,X the carry-in  *)
(* and both ALU inputs, JMP $02FE a whole address.                         *)
Prefixes == {<<\hBD, \hFF, \h03>>, <<\h3E, \hFF, \h03>>, <<\h4C, \hFE, \h02>>}
EveryInstructionAfterAnother ==
    {Start(r, \h02FB, before \o <<op>> \o w \o <<\hEA>>) :
        r \in {Low, High}, op \in EveryOpcode, w \in OperandWords, before \in Prefixes}
InstructionStarts == EveryInstruction \cup EveryInstructionAfterAnother

(* Programs for a host that stops the clock anywhere: a read-modify-write, *)
(* a call, a return, an indexed store to the TTY, a branch, a push and a   *)
(* pull of the status, BRK with an RTI at its vector.                      *)
SteppedPrograms ==
    {Start(Low, \h02FE, program) :
        program \in {<<\hFE, \hFF, \h03>>, <<\h20, \h00, \h03>>, <<\h60>>, <<\h9D, \h00, \h80>>,
                     <<\h10, \hFF>>, <<\h08, \h28>>, <<\h00, \hEA, \h40>>}}

(* The ones of them that a reset can catch with memory half changed.       *)
InterruptedPrograms ==
    {Start(Low, \h02FE, program) :
        program \in {<<\hFE, \hFF, \h03>>, <<\h20, \h00, \h03>>, <<\h00, \hEA, \h40>>}}
=============================================================================
