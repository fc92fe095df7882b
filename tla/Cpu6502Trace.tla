----------------------------- MODULE Cpu6502Trace -----------------------------
(***************************************************************************)
(* Cpu6502 with history variables, to compare it with what it promises.    *)
(* A boundary is the point between two instructions: T0 with the clock     *)
(* Low.  "last" is the programmer's view at the last boundary left, which  *)
(* stays in force until the next one is reached; "cycles" counts the clock *)
(* cycles since, and "armed" is the view when a reset was last armed,      *)
(* wherever in an instruction that was.                                    *)
(***************************************************************************)
EXTENDS Cpu6502

VARIABLES last, cycles, armed

traceVars == <<vars, last, cycles, armed>>

View ==
    [A |-> A, X |-> X, Y |-> Y, SP |-> SP, PC |-> PC, P |-> P, halted |-> halted,
     took |-> cycles, mem |-> mem, rxByte |-> rxByte, rxReady |-> rxReady, out |-> out,
     tape |-> tape, pos |-> pos, motor |-> motor, eot |-> eot, err |-> err]

TraceInit ==
    /\ Init
    /\ cycles = 0
    /\ last = View /\ armed = View

(* No instruction and no reset takes as many cycles as that; the count     *)
(* stops there.                                                            *)
MaxCycles == 9

TraceTick ==
    /\ Tick
    /\ last' = IF AtBoundary THEN View ELSE last
    /\ cycles' = LET n == IF AtBoundary THEN 0 ELSE cycles
                 IN  IF phase' = "Low" /\ n < MaxCycles THEN n + 1 ELSE n
    /\ UNCHANGED armed

TraceReset(c) ==
    /\ CallReset(c)
    /\ armed' = View
    /\ UNCHANGED <<last, cycles>>

TraceCall ==
    /\ \/ \E c \in HostCall : CallTick(c)
       \/ \E max \in RunLengths : CallRun(max)
       \/ CallSet
    /\ UNCHANGED <<last, cycles, armed>>

TraceNext == TraceTick \/ (\E c \in HostCall : TraceReset(c)) \/ TraceCall

TraceSpec == TraceInit /\ [][TraceNext]_traceVars /\ WF_traceVars(TraceTick)

-----------------------------------------------------------------------------
(* The refinement mapping: in the middle of an instruction the programmer  *)
(* still sees the last boundary, and the whole instruction takes effect on *)
(* the tick that ends it.                                                  *)

Seen == IF AtBoundary THEN View ELSE last

ISA == INSTANCE Isa6502 WITH
           A <- Seen.A, X <- Seen.X, Y <- Seen.Y, SP <- Seen.SP, PC <- Seen.PC, P <- Seen.P,
           halted <- Seen.halted, took <- Seen.took, mem <- Seen.mem,
           rxByte <- Seen.rxByte, rxReady <- Seen.rxReady, out <- Seen.out,
           tape <- Seen.tape, pos <- Seen.pos, motor <- Seen.motor,
           eot <- Seen.eot, err <- Seen.err

(* Driven by whole calls (reset, executeInstruction, run), the             *)
(* cycle-stepped machine implements the instruction set: registers, flags, *)
(* memory, device accesses and cycle counts, for every opcode byte.        *)
ImplementsIsa == ISA!Spec

-----------------------------------------------------------------------------
(* A reset completes from wherever it was armed, in the middle of an       *)
(* instruction, of a bus cycle or of another reset: of the interrupted     *)
(* instruction nothing more happens than had happened at that moment, SP   *)
(* moves by three, I is raised and the CPU is left at the vector, not      *)
(* halted, between instructions (beginReset, commitReset).                 *)
ResetSettles ==
    [][resetActive /\ ~resetActive' =>
           /\ PC' = BusData(ResetVector) + 256 * BusData(ResetVector + 1)
           /\ SP' = (armed.SP - 3) % 256
           /\ P' = armed.P \cup {"I"}
           /\ <<A, X, Y, mem, out>>' = <<armed.A, armed.X, armed.Y, armed.mem, armed.out>>
           /\ ~halted' /\ AtBoundary']_traceVars
=============================================================================
