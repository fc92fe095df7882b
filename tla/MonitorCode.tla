------------------------------ MODULE MonitorCode ------------------------------
(***************************************************************************)
(* The control flow of the monitor's ROM (monitor_firmware.cpp), and the   *)
(* invariant that its routines keep the stack in order.                    *)
(*                                                                         *)
(* A routine is where its instructions start, before which of them a byte  *)
(* of its own is on the stack, where its callers go on, those of a routine *)
(* that jumps to it included, and a rank: callers have a lower one.  The   *)
(* stack is read as a chain of frames, from the instruction that comes     *)
(* next to the main loop; every frame but the last is called by the next.  *)
(*                                                                         *)
(* A program that RUN starts uses the stack as it likes, below the frame   *)
(* of the trampoline; "entry" is where SP was when it was called.          *)
(***************************************************************************)
EXTENDS MonitorTrace

VARIABLE entry      \* history: SP at the last JSR of RUN's trampoline

GETCHAR ==
    [starts |-> {\hC000, \hC003, \hC005, \hC007, \hC00A},
     pushing |-> {}, rank |-> 4,
     returns |-> {\hC405}]

PUTCHAR ==
    [starts |-> {\hC100, \hC103},
     pushing |-> {}, rank |-> 4,
     returns |-> {\hC208, \hC20E, \hC309, \hC41A, \hC428, \hC42D, \hC432, \hC43A, \hC43F,
                 \hC88D, \hC892, \hC897, \hCA0F, \hCA14, \hCA20, \hCA25, \hCB27, \hCB2C,
                 \hCB38, \hCB4B, \hCB50, \hCB60, \hCB65, \hCF33, \hCF38, \hCF3D, \hD075,
                 \hD07A, \hD07F, \hD163, \hD168, \hD16D, \hD215, \hD21A, \hD21F}]

PRINT_HEX_BYTE ==
    [starts |-> {\hC200, \hC201, \hC202, \hC203, \hC204, \hC205, \hC208, \hC209, \hC20B,
                \hC20E},
     pushing |-> \hC201 .. \hC208, rank |-> 2,
     returns |-> {\hCA05, \hCA0A, \hCA1B, \hCB1D, \hCB22, \hCB33}]

PRINT_NIBBLE ==
    [starts |-> {\hC220, \hC222, \hC224, \hC226, \hC229, \hC22B},
     pushing |-> {}, rank |-> 3,
     returns |-> {\hC208, \hC20E}]

PRINT_STRING ==
    [starts |-> {\hC300, \hC302, \hC304, \hC306, \hC309, \hC30A, \hC30D},
     pushing |-> {}, rank |-> 1,
     returns |-> {\hCF0B, \hCF1C}]

READ_LINE ==
    [starts |-> {\hC400, \hC402, \hC405, \hC407, \hC409, \hC40B, \hC40D, \hC40F, \hC411,
                \hC413, \hC415, \hC417, \hC41A, \hC41B, \hC41E, \hC420, \hC422, \hC423,
                \hC425, \hC428, \hC42A, \hC42D, \hC42F, \hC432, \hC435, \hC437, \hC43A,
                \hC43C, \hC43F, \hC441},
     pushing |-> {}, rank |-> 1,
     returns |-> {\hCF1F}]

PARSE_ADDR ==
    [starts |-> {\hC500, \hC502, \hC504, \hC506, \hC508, \hC50A, \hC50C, \hC50E, \hC510,
                \hC513, \hC515, \hC516, \hC518, \hC51A, \hC51C, \hC51E, \hC520, \hC522,
                \hC524, \hC526, \hC527, \hC529, \hC52B, \hC52D, \hC52F, \hC532, \hC534,
                \hC536, \hC537, \hC538, \hC539},
     pushing |-> \hC516 .. \hC526, rank |-> 2,
     returns |-> {\hC829, \hCF26}]

PARSE_BYTE ==
    [starts |-> {\hC600, \hC602, \hC604, \hC606, \hC608, \hC60A, \hC60C, \hC60E, \hC610,
                \hC612, \hC614, \hC617, \hC619, \hC61A, \hC61C, \hC61E, \hC620, \hC622,
                \hC623, \hC625, \hC627, \hC629, \hC62B, \hC62E, \hC630, \hC632, \hC633,
                \hC634, \hC635},
     pushing |-> \hC61A .. \hC622, rank |-> 2,
     returns |-> {\hCC16}]

HEXVAL ==
    [starts |-> {\hC700, \hC702, \hC704, \hC706, \hC708, \hC709, \hC70B, \hC70C, \hC70D,
                \hC70F, \hC711, \hC713, \hC715, \hC716, \hC718, \hC719, \hC71A, \hC71C,
                \hC71E, \hC720, \hC722, \hC723, \hC725, \hC726, \hC727, \hC728},
     pushing |-> {}, rank |-> 3,
     returns |-> {\hC513, \hC617}]

DISPATCH ==
    [starts |-> {\hC800, \hC802, \hC804, \hC806, \hC809, \hC80B, \hC80D, \hC80F, \hC811,
                \hC813, \hC815, \hC817, \hC819, \hC81C, \hC81E, \hC820, \hC822, \hC824,
                \hC826, \hC829, \hC82B, \hC82D, \hC82F, \hC831, \hC833, \hC835, \hC837,
                \hC839, \hC83B, \hC83D, \hC83F, \hC841, \hC843, \hC845, \hC847, \hC849,
                \hC84C, \hC84E, \hC850, \hC852, \hC854, \hC855, \hC857, \hC859, \hC85B,
                \hC85D, \hC85F, \hC862, \hC864, \hC867, \hC869, \hC86A, \hC86C, \hC86E,
                \hC870, \hC872, \hC874, \hC876, \hC878, \hC87A, \hC87C, \hC87F, \hC882,
                \hC885, \hC888, \hC88A, \hC88D, \hC88F, \hC892, \hC894, \hC897},
     pushing |-> {}, rank |-> 1,
     returns |-> {\hCF2B}]

PEEK ==
    [starts |-> {\hCA00, \hCA02, \hCA05, \hCA07, \hCA0A, \hCA0C, \hCA0F, \hCA11, \hCA14,
                \hCA16, \hCA18, \hCA1B, \hCA1D, \hCA20, \hCA22, \hCA25},
     pushing |-> {}, rank |-> 1,
     returns |-> {\hCF2B}]

LIST ==
    [starts |-> {\hCB00, \hCB02, \hCB04, \hCB06, \hCB08, \hCB0A, \hCB0C, \hCB0E, \hCB10,
                \hCB12, \hCB14, \hCB16, \hCB18, \hCB1A, \hCB1D, \hCB1F, \hCB22, \hCB24,
                \hCB27, \hCB29, \hCB2C, \hCB2E, \hCB30, \hCB33, \hCB35, \hCB38, \hCB3A,
                \hCB3C, \hCB3E, \hCB40, \hCB42, \hCB44, \hCB46, \hCB48, \hCB4B, \hCB4D,
                \hCB50, \hCB52, \hCB54, \hCB57, \hCB59, \hCB5B, \hCB5D, \hCB60, \hCB62,
                \hCB65},
     pushing |-> {}, rank |-> 1,
     returns |-> {\hCF2B}]

POKE ==
    [starts |-> {\hCC00, \hCC02, \hCC04, \hCC06, \hCC08, \hCC0A, \hCC0C, \hCC0E, \hCC10,
                \hCC13, \hCC16, \hCC18, \hCC1A, \hCC1C, \hCC1E, \hCC20, \hCC22, \hCC24,
                \hCC27},
     pushing |-> {}, rank |-> 1,
     returns |-> {\hCF2B}]

RUN ==
    [starts |-> {\hCD00, \hCD02, \hCD04, \hCD06, \hCD08, \hCD0A, \hCD0C, \hCD0E, \hCD10,
                \hCD13},
     pushing |-> {}, rank |-> 1,
     returns |-> {\hCF2B}]

MAIN_LOOP ==
    [starts |-> {\hCF00, \hCF02, \hCF04, \hCF06, \hCF08, \hCF0B, \hCF11, \hCF13, \hCF15,
                \hCF17, \hCF19, \hCF1C, \hCF1F, \hCF21, \hCF23, \hCF26, \hCF28, \hCF2B,
                \hCF2E, \hCF30, \hCF33, \hCF35, \hCF38, \hCF3A, \hCF3D},
     pushing |-> {}, rank |-> 0,
     returns |-> {}]

SAVE ==
    [starts |-> {\hD000, \hD003, \hD005, \hD007, \hD00A, \hD00C, \hD00E, \hD010, \hD012,
                \hD014, \hD016, \hD018, \hD01B, \hD01D, \hD020, \hD021, \hD023, \hD025,
                \hD027, \hD029, \hD02B, \hD02D, \hD02F, \hD031, \hD033, \hD035, \hD037,
                \hD039, \hD03C, \hD03E, \hD041, \hD043, \hD045, \hD047, \hD049, \hD04B,
                \hD04D, \hD04F, \hD051, \hD053, \hD055, \hD058, \hD05A, \hD05C, \hD05E,
                \hD060, \hD062, \hD065, \hD067, \hD06A, \hD06C, \hD06F, \hD070, \hD072,
                \hD075, \hD077, \hD07A, \hD07C, \hD07F},
     pushing |-> {}, rank |-> 1,
     returns |-> {\hCF2B}]

LOAD ==
    [starts |-> {\hD100, \hD103, \hD105, \hD107, \hD10A, \hD10C, \hD10F, \hD112, \hD114,
                \hD116, \hD119, \hD11B, \hD11D, \hD11F, \hD121, \hD123, \hD125, \hD127,
                \hD12A, \hD12C, \hD12D, \hD12F, \hD131, \hD132, \hD134, \hD136, \hD138,
                \hD13A, \hD13C, \hD13E, \hD140, \hD142, \hD144, \hD147, \hD14A, \hD14C,
                \hD14E, \hD150, \hD152, \hD155, \hD158, \hD15A, \hD15D, \hD15E, \hD160,
                \hD163, \hD165, \hD168, \hD16A, \hD16D},
     pushing |-> \hD12D .. \hD131, rank |-> 1,
     returns |-> {\hCF2B}]

READ_TAPE_BYTE ==
    [starts |-> {\hD16E, \hD171, \hD172, \hD175, \hD177, \hD179, \hD17A, \hD17B, \hD17C,
                \hD17D, \hD17E},
     pushing |-> {\hD172, \hD175, \hD177, \hD179, \hD17C}, rank |-> 2,
     returns |-> {\hD112, \hD119, \hD12A, \hD14A}]

REWIND ==
    [starts |-> {\hD200, \hD203, \hD205, \hD207, \hD20A, \hD20C, \hD20F, \hD210, \hD212,
                \hD215, \hD217, \hD21A, \hD21C, \hD21F},
     pushing |-> {}, rank |-> 1,
     returns |-> {\hCF2B}]

(* RUN's trampoline in page zero: JSR to the program, RTS.                 *)
kTrampoline == \hF8
kReturn == \hFB
TRAMPOLINE ==
    [starts |-> {kTrampoline, kReturn}, pushing |-> {}, rank |-> 2, returns |-> {\hCD13}]

Routines ==
    {GETCHAR, PUTCHAR, PRINT_HEX_BYTE, PRINT_NIBBLE, PRINT_STRING, READ_LINE, PARSE_ADDR, PARSE_BYTE,
     HEXVAL, DISPATCH, PEEK, LIST, POKE, RUN, MAIN_LOOP, SAVE, LOAD, READ_TAPE_BYTE,
     REWIND, TRAMPOLINE}

(* WARM_START, to which a BRK goes: it sets SP and falls into MAIN_LOOP.   *)
kWarmStartAddr == \hCF0E
WarmStart == {kWarmStartAddr, kWarmStartAddr + 2}

-----------------------------------------------------------------------------
(* Frames.                                                                 *)

Own(r, a) == IF a \in r.pushing THEN 1 ELSE 0
ReturnAt(s) == mem[257 + s] + 256 * mem[258 + s] + 1

(* At x a routine is at work that goes on at y when it returns.            *)
CalledFrom(r, x, y) ==
    /\ r \in Routines
    /\ x.at \in r.starts /\ y.at \in r.returns
    /\ y.sp = x.sp + Own(r, x.at) + 2
    /\ ReturnAt(x.sp + Own(r, x.at)) = y.at
    /\ x.sp + Own(r, x.at) >= \hFD - 3 * r.rank

Frame == [at : Nat, sp : 0 .. 255]

Chain(n, f) ==
    /\ n \in Nat /\ f \in [0 .. n -> Frame]
    /\ \A i \in 0 .. n : \A j \in i .. n : f[i].sp <= f[j].sp
    /\ \A i \in 0 .. n - 1 : \E r \in Routines : CalledFrom(r, f[i], f[i + 1])
    /\ f[n].at \in MAIN_LOOP.starts /\ f[n].sp \in {\hFD, \hFF}

(* A program is running that RUN has started.                              *)
Elsewhere == LoadedAddr \cup TRAMPOLINE.starts
InProgram == turn # "reset" /\ PC \notin Elsewhere

Here == IF InProgram THEN [at |-> kReturn, sp |-> entry] ELSE [at |-> PC, sp |-> SP]
-----------------------------------------------------------------------------
(* READ_LINE keeps X, the number of characters in LINEBUF, within it:      *)
(* below the limit where a character is stored and above zero where one is *)
(* taken back; the carry and the zero flag say so after the comparisons.   *)
LineLengthOK(a) ==
    /\ a \in READ_LINE.starts \ {\hC400} => X \in 0 .. LineLimit
    /\ a \in \hC415 .. \hC41A \cup \hC423 .. \hC432 => X < LineLimit
    /\ a = \hC413 => ("C" \in P <=> X >= LineLimit)
    /\ a = \hC420 => ("Z" \in P <=> X = 0)
    /\ a = \hC422 => X > 0

(* Only routines that leave X alone are called from READ_LINE.             *)
Untouching == GETCHAR.starts \cup PUTCHAR.starts
LineLengthKept(n, f) ==
    /\ LineLengthOK(f[0].at)
    /\ \A i \in 1 .. n : f[i].at \in READ_LINE.starts =>
           i = 1 /\ f[0].at \in Untouching /\ LineLengthOK(f[1].at)

(* RUN writes JSR and RTS around the program's address.                    *)
TrampolineOK ==
    /\ PC = \hCD02 => A = \h20
    /\ PC \in \hCD04 .. \hCD10 \cup {kTrampoline} => mem[kTrampoline] = \h20
    /\ PC = \hCD0E => A = \h60
    /\ PC \in {\hCD10, kTrampoline, kReturn} \/ InProgram => mem[kReturn] = \h60

Standing ==
    \E n \in Nat : \E f \in [0 .. n -> Frame] :
        Chain(n, f) /\ f[0] = Here /\ LineLengthKept(n, f)

RomStands ==
    DOMAIN mem = Ram \cup Rom /\ \A a \in LoadedAddr : mem[a] = FirmwareRom[a]

AtWarmStart == PC \in WarmStart /\ (PC # kWarmStartAddr => X = \hFF)

StackInv ==
    /\ RomStands
    /\ turn = "reset" => SP = 0 /\ PC = 0
    /\ turn # "reset" =>
           /\ TrampolineOK
           /\ Standing \/ AtWarmStart

-----------------------------------------------------------------------------
(* What the monitor relies on.                                             *)

(* The memory map of System: ROM under the code, RAM under its variables   *)
(* and the stack, the TTY where the code looks for it.                     *)
MonitorsMap ==
    LoadedAddr \subseteq Rom /\ WorkArea \cup StackPage \subseteq Ram /\ TtyBase = \h8000

(* POKE and LOAD are not told to store into the stack in use.              *)
SparesStack ==
    turn = "execute" /\ PC \in LoadedAddr /\ Name \in Stores /\ How = "indY"
        => Address \notin 257 + SP .. 511

(* A program that RUN starts is none of the monitor's code; it leaves the  *)
(* stack above where it was called and the trampoline's RTS alone, and     *)
(* comes back by that RTS, with SP as it was, or by a BRK.                 *)
Behaves ==
    turn = "execute" /\ turn' = "poll" =>
        /\ PC = kTrampoline => PC' \notin Elsewhere
        /\ InProgram =>
               /\ \A c \in 257 + entry .. 511 \cup {kReturn} : mem'[c] = mem[c]
               /\ \/ PC' \notin Elsewhere
                  \/ PC' = kReturn /\ SP' = entry
                  \/ PC' = kWarmStartAddr

Recorded == entry' = IF turn = "execute" /\ PC = kTrampoline THEN SP ELSE entry

StackSpec ==
    /\ TraceInit /\ entry = 0
    /\ [][TraceNext /\ Recorded]_<<traceVars, entry>>
=============================================================================
