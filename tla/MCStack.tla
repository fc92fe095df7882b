-------------------------------- MODULE MCStack --------------------------------
(***************************************************************************)
(* The stack of the monitor's ROM for TLC: the sessions of MCMonitor, and  *)
(* others with programs that return, that call, push and pull, or that end *)
(* in a BRK, with loads that fail half way and with lines that go wrong.   *)
(***************************************************************************)
EXTENDS MCMonitor, MonitorCode

StackRam == MCRam \cup StackPage

(* RTS; PHA, PLA, RTS; a subroutine of its own; zeroes.                    *)
Pushing == PokeLine(\hA8, \h48, \h68) \o PokeLine(\hAA, \h60, 0)
Calling == PokeLine(\hA8, \h20, \hAC) \o PokeLine(\hAA, 0, \h60) \o PokeLine(\hAC, \h60, 0)
Programs == {PokeLine(\hA8, \h60, 0), Pushing, Calling, <<>>}
ProgramSessions == {p \o RunLine(\hA8) \o RunLine(\hA8) \o PeekLine(\hA8) : p \in Programs}

(* A poke below the stack in use, and what is not a command.               *)
OddLines ==
    {PokeLine(\h01C0, 1, 2), Enter(<<48, 48, 48, 122>>), Enter(Addr(\hA8) \o <<58, 32, 90>>),
     ListLine(\h02FE, \h0301), Enter(TooLong \o <<8, 127>>)}
StackScenarios ==
    CommandScenarios \cup OnTape(ProgramSessions \cup OddLines, Empty)
      \cup OnTape({LoadLine(\hA8) \o RunLine(\hA8) \o RewindLine(\hA8)}, FoundTapes)

-----------------------------------------------------------------------------
(* The frames found from the top of the stack on: each address popped is   *)
(* where a caller goes on.                                                 *)
WorksAt(a) == {r \in Routines : a \in r.starts}
RECURSIVE FramesFrom(_)
FramesFrom(x) ==
    IF x.at \in MAIN_LOOP.starts \/ WorksAt(x.at) = {} THEN <<x>>
    ELSE LET s == x.sp + Own(CHOOSE r \in WorksAt(x.at) : TRUE, x.at)
         IN  IF s + 2 > 255 THEN <<x>>
             ELSE <<x>> \o FramesFrom([at |-> ReturnAt(s), sp |-> s + 2])

(* StackInv: whatever the ROM or a program is doing, the stack is a chain  *)
(* of calls down to the main loop, with in each routine its own byte on    *)
(* top or none, and READ_LINE's count of characters is within its buffer.  *)
(* (Without RomStands, which takes TLC too long to look up.)               *)
StackStands ==
    /\ turn = "reset" => SP = 0 /\ PC = 0
    /\ turn # "reset" =>
           /\ TrampolineOK
           /\ \/ AtWarmStart
              \/ LET s == FramesFrom(Here)
                     n == Len(s) - 1
                     f == [i \in 0 .. n |-> s[i + 1]]
                 IN  Chain(n, f) /\ LineLengthKept(n, f)

(* SparesStack, Behaves: no command stores into the stack in use, and a    *)
(* program that RUN starts comes back to its caller, by its RTS with the   *)
(* stack as it was, or by a BRK.                                           *)
ProgramsComeBack == [][SparesStack /\ Behaves]_<<traceVars, entry>>
=============================================================================
