-------------------------------- MODULE System --------------------------------
(***************************************************************************)
(* The whole machine (src/system/system.cpp): the CPU as its programmer    *)
(* sees it (Isa6502, which Cpu6502 implements), the bus with RAM, the ROM  *)
(* that holds the monitor and the TTY, and a terminal somebody types at.   *)
(* System::run is one reset and then step() for ever; step() is two        *)
(* actions here, Poll and Instruct, taken in turn.  The process ends when  *)
(* it is killed, and another one may be started with the same tape.        *)
(***************************************************************************)
EXTENDS Isa6502, Firmware

CONSTANTS
    Scenarios,      \* what is typed, at the first process and at those after it,
                    \* and what the tape file holds to begin with
    Pasted          \* TRUE: every byte is waiting before it is asked for

ASSUME SystemAssumption ==
    /\ Scenarios \subseteq
           [typed : Seq(TtyByte), later : Seq(Seq(TtyByte)), tape : Seq(TtyByte)]
    /\ 0 \in Ram               \* where the registers point before the reset

VARIABLES
    keyboard,       \* the bytes still to be typed at this process
    later,          \* the texts for the processes after it
    turn            \* what the loop does next: "reset", "poll" or "execute"

registers == <<A, X, Y, SP, PC, P, halted, took>>
systemVars == <<registers, busVars, keyboard, later, turn>>

(* System::System: the devices are attached, the ROM is loaded, and RAM    *)
(* and registers are zero.                                                 *)
Memory0 == [a \in Ram \cup Rom |-> IF a \in Rom THEN FirmwareRom[a] ELSE 0]

PowerOn ==
    /\ A = 0 /\ X = 0 /\ Y = 0 /\ SP = 0 /\ PC = 0 /\ P = {}
    /\ halted = FALSE /\ took = 0
    /\ mem = Memory0
    /\ TtyInit
    /\ \E s \in Scenarios : keyboard = s.typed /\ later = s.later /\ tape = s.tape
    /\ turn = "reset"

(* The process is killed between two instructions and another one started: *)
(* all that is left of it is the tape file, every byte of which was        *)
(* flushed.                                                                *)
Restart ==
    /\ later # <<>>
    /\ A' = 0 /\ X' = 0 /\ Y' = 0 /\ SP' = 0 /\ PC' = 0 /\ P' = {}
    /\ halted' = FALSE /\ took' = 0
    /\ mem' = Memory0
    /\ rxByte' = 0 /\ rxReady' = FALSE /\ out' = <<>>
    /\ pos' = 0 /\ motor' = FALSE /\ eot' = FALSE /\ err' = FALSE
    /\ keyboard' = Head(later) /\ later' = Tail(later)
    /\ turn' = "reset"
    /\ UNCHANGED tape

SystemReset ==
    /\ turn = "reset"
    /\ Reset
    /\ turn' = "poll"
    /\ UNCHANGED <<keyboard, later>>

(* tryReadByte finds nothing while nothing was typed; a pasted text is all *)
(* there at once.                                                          *)
TerminalGives == keyboard # <<>>
TerminalSilent == keyboard = <<>> \/ ~Pasted

PollNothing ==
    /\ rxReady \/ TerminalSilent
    /\ UNCHANGED <<ttyVars, keyboard>>

PollByteFault_Always ==                                   \* NothingTypedIsLost
    /\ TerminalGives
    /\ Receive(Head(keyboard))
    /\ keyboard' = Tail(keyboard)

PollByte ==
    /\ ~rxReady /\ TerminalGives
    /\ Receive(Head(keyboard))
    /\ keyboard' = Tail(keyboard)

Poll ==
    /\ turn = "poll"
    /\ PollByte \/ PollNothing
    /\ turn' = "execute"
    /\ UNCHANGED <<registers, mem, later>>

Instruct ==
    /\ turn = "execute"
    /\ Execute
    /\ turn' = "poll"
    /\ UNCHANGED <<keyboard, later>>
=============================================================================
