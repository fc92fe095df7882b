----------------------------- MODULE MonitorTrace -----------------------------
(***************************************************************************)
(* System with history variables, to compare the ROM's code with Monitor.  *)
(* The comparison is made at MAIN_LOOP, before the prompt is printed:      *)
(* "typed" is what the program read from the terminal since the last one,  *)
(* "last" what a person could see there.                                   *)
(***************************************************************************)
EXTENDS System

VARIABLES typed, last, delivered

traceVars == <<systemVars, typed, last, delivered>>

StackPage == 256 .. 511
PrivateAddr == WorkArea \cup StackPage \cup TtyPage
UserCells == Ram \ PrivateAddr

AtPrompt == PC = kMainLoopAddr

(* Without the carriage return that ended it.                              *)
LineTyped == SubSeq(typed, 1, Len(typed) - 1)

View ==
    [line |-> LineTyped, store |-> [a \in UserCells |-> mem[a]], out |-> out,
     tape |-> tape, pos |-> pos, motor |-> motor, eot |-> eot, err |-> err]

TraceInit ==
    /\ PowerOn
    /\ typed = <<>> /\ delivered = <<>>
    /\ last = View

(* A byte is delivered by the read that empties the holding register.      *)
TraceInstruct ==
    /\ Instruct
    /\ LET new == IF rxReady /\ ~rxReady' THEN <<rxByte>> ELSE <<>>
       IN  /\ typed' = (IF AtPrompt THEN <<>> ELSE typed) \o new
           /\ delivered' = delivered \o new
    /\ last' = IF AtPrompt THEN View ELSE last

TracePoll == Poll /\ UNCHANGED <<typed, last, delivered>>

TraceReset == SystemReset /\ UNCHANGED <<typed, last, delivered>>

(* The line that a kill interrupts, if it had been read to its end.        *)
Interrupted ==
    IF AtPrompt \/ typed = <<>> \/ typed[Len(typed)] # 13 THEN <<>> ELSE LineTyped

TraceRestart ==
    /\ Restart
    /\ typed' = <<>> /\ delivered' = <<>>
    /\ last' = [View' EXCEPT !.line = Interrupted]

TraceRun == TraceInstruct \/ TracePoll \/ TraceReset

TraceNext == TraceRun \/ TraceRestart

(* The loop runs for ever on one thread, and somebody who has begun to     *)
(* type goes on typing: a step that asks often enough gets the next byte.  *)
(* Nobody has to kill the process.                                         *)
TraceSpec ==
    /\ TraceInit /\ [][TraceNext]_traceVars
    /\ WF_traceVars(TraceRun)
    /\ SF_traceVars(TracePoll /\ PollByte)

-----------------------------------------------------------------------------
(* The refinement mapping: until the monitor is back at MAIN_LOOP a line   *)
(* has not been answered yet.                                              *)

Seen == IF AtPrompt THEN View ELSE last

Promised == INSTANCE Monitor WITH
    Lines <- Seq(TtyByte), Fixed <- FirmwareRom, Private <- PrivateAddr,
    HasTape <- Backing # "none",
    line <- Seen.line, store <- Seen.store, out <- Seen.out, tape <- Seen.tape,
    pos <- Seen.pos, motor <- Seen.motor, eot <- Seen.eot, err <- Seen.err

(* The machine code of the ROM, run by the CPU on the TTY and fed by the   *)
(* step loop, does for every line what the monitor promises: what it       *)
(* echoes and prints, what it puts in memory, what it does with the tape,  *)
(* and what a kill at any instruction leaves on the tape.                  *)
ImplementsMonitor == Promised!Spec

-----------------------------------------------------------------------------
(* Every byte typed is read by the program, once and in order, or waits in *)
(* the holding register or at the terminal: step() does not take a byte it *)
(* has no room for (System::step, TTY::receive).                           *)
Held == IF rxReady THEN <<rxByte>> ELSE <<>>
Texts == UNION {{s.typed} \cup {s.later[i] : i \in DOMAIN s.later} : s \in Scenarios}
NothingTypedIsLost == delivered \o Held \o keyboard \in Texts

(* However slowly it is typed, every line is read to its end and answered, *)
(* and the monitor is back at a prompt (GETCHAR's wait, READ_LINE).        *)
EveryLineAnswered == <>[](keyboard = <<>> /\ ~rxReady /\ typed = <<>>)

(* Whatever the commands were, and programs that return included, the      *)
(* stack is at every prompt where the reset or the last BRK put it:        *)
(* routines, tail calls, error exits and RUN's trampoline balance it.      *)
StackBalanced == AtPrompt => SP \in {\hFD, \hFF}

(* The monitor stores only into its own variables, the devices and, where  *)
(* a command says so, through ADDR (the STA ($F0),Y of POKE and LOAD).     *)
FirmwareKeepsToItself ==
    turn = "execute" /\ PC \in LoadedAddr /\ Name \in Stores \cup Modifies /\ How # "none"
        => How = "indY" \/ Address \in WorkArea \cup TtyPage

-----------------------------------------------------------------------------
(* "LIST ($CB00): prints START ($F0/$F1) through END ($F2/$F3) inclusive": *)
(* the bytes it reads are those of the range that was typed.               *)
Cursor == mem[\hF0] + 256 * mem[\hF1]
ListStaysInRange ==
    PC = kListReadAddr =>
        \E l \in {Promised!Edited(LineTyped).text} :
            Promised!From(l) <= Cursor /\ Cursor <= Promised!To(l)

(* "An unrecognized line prints `?` and returns to the prompt without      *)
(* changing memory" (README): one that is not in the table of commands,    *)
(* such as a poke with something else than byte tokens.                    *)
IsPokeLine(l) ==
    \A i \in Promised!DigitsEnd(l, 1) + 1 .. Len(l) : l[i] = 32 \/ Promised!IsHex(l[i])
UnrecognizedLineChangesNothing ==
    [][\A l \in {Promised!Edited(Seen'.line).text} :
           Promised!Verb(l) = "poke" /\ ~IsPokeLine(l) => Seen'.store = Seen.store]_Seen
=============================================================================
