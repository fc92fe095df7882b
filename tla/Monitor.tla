-------------------------------- MODULE Monitor --------------------------------
(***************************************************************************)
(* What the monitor promises a person at the terminal: every line typed is *)
(* one step, from one prompt to the next.  No machine code, no zero page,  *)
(* no registers: a line is edited, its first characters are an address,    *)
(* what follows names a command, and the command prints, changes memory or *)
(* moves the tape.  A process that is killed leaves the tape and nothing   *)
(* else.  MonitorTrace compares the machine running the ROM of             *)
(* src/system/monitor_firmware.cpp with this.                              *)
(***************************************************************************)
EXTENDS TapeBlocks

CONSTANTS
    Lines,          \* what may be typed before a carriage return
    Fixed,          \* the ROM: a function from its addresses to bytes
    Private,        \* addresses the monitor needs for itself, and the devices'
    HasTape         \* whether a tape file was given

VARIABLES
    line,           \* the bytes typed for the last prompt, without the CR
    store,          \* the user's RAM, by address
    out,            \* everything printed
    tape, pos, motor, eot, err      \* the tape deck

deck == <<tape, pos, motor, eot, err>>

LOCAL INSTANCE SequencesExt

-----------------------------------------------------------------------------
(* Text.                                                                   *)

NewLine == <<13, 10>>
Banner == <<115, 121, 115, 54, 32, 109, 111, 110, 105, 116, 111, 114>> \o NewLine
Prompt == <<62, 32>>
Complaint == <<63>> \o NewLine

HexChar(d) == IF d < 10 THEN 48 + d ELSE 55 + d
HexByte(b) == <<HexChar(b \div 16), HexChar(b % 16)>>
HexWord(w) == HexByte(w \div 256) \o HexByte(w % 256)

IsHex(c) == c \in (48 .. 57) \cup (65 .. 70) \cup (97 .. 102)
HexValue(c) == CASE c <= 57 -> c - 48 [] c \in 65 .. 70 -> c - 55 [] OTHER -> c - 87

(* Typing: either erase key takes back the last character and its echo; a  *)
(* 65th character is dropped.                                              *)
Typed(e, c) ==
    CASE c \in {8, 127} /\ e.text = <<>> -> e
      [] c \in {8, 127} /\ e.text # <<>> ->
             [text |-> Front(e.text), echo |-> e.echo \o <<8, 32, 8>>]
      [] c \notin {8, 127} /\ Len(e.text) = 64 -> e
      [] OTHER -> [text |-> Append(e.text, c), echo |-> Append(e.echo, c)]
Edited(keys) == FoldLeft(Typed, [text |-> <<>>, echo |-> <<>>], keys)

-----------------------------------------------------------------------------
(* The grammar of a line.                                                  *)

(* The end of the hex digits that start at i, and their value as a word.   *)
DigitsEnd(l, i) ==
    CHOOSE j \in i .. Len(l) + 1 :
        /\ \A k \in i .. j - 1 : IsHex(l[k])
        /\ j <= Len(l) => ~IsHex(l[j])
Number(l, i, j) ==
    LET digit(k) == IF k < i THEN 0 ELSE HexValue(l[k])
    IN  digit(j - 1) + 16 * digit(j - 2) + 256 * digit(j - 3) + 4096 * digit(j - 4)

At(l, i) == IF i <= Len(l) THEN l[i] ELSE 0

(* ":" 58, "." 46, " " 32, "R" 82, "L" 76, "W" 87, "S" 83.                 *)
Verb(l) ==
    LET i == DigitsEnd(l, 1)
        j == DigitsEnd(l, i + 1)
    IN  CASE i = 1 -> "?"
          [] i > Len(l) -> "peek"
          [] At(l, i) = 58 -> "poke"
          [] At(l, i) = 32 /\ At(l, i + 1) = 82 -> "run"
          [] At(l, i) = 32 /\ At(l, i + 1) = 76 -> "load"
          [] At(l, i) = 32 /\ At(l, i + 1) = 87 -> "rewind"
          [] At(l, i) = 46 /\ j > i + 1 /\ j > Len(l) -> "list"
          [] At(l, i) = 46 /\ j > i + 1 /\ At(l, j) = 32 /\ At(l, j + 1) = 83 -> "save"
          [] OTHER -> "?"

From(l) == Number(l, 1, DigitsEnd(l, 1))
To(l) == LET i == DigitsEnd(l, 1) + 1 IN Number(l, i, DigitsEnd(l, i))

(* The bytes a poke names: tokens of at most two digits, spaces between    *)
(* them or not, up to the first character that is neither.                 *)
Poked(l) ==
    LET bytes[i \in 1 .. Len(l) + 1] ==
            LET j == DigitsEnd(l, i)
                end == IF j > i + 2 THEN i + 2 ELSE j
            IN  IF i <= Len(l) /\ l[i] = 32 THEN bytes[i + 1]
                ELSE IF j = i THEN <<>>
                ELSE <<Number(l, i, end)>> \o bytes[end]
    IN  bytes[DigitsEnd(l, 1) + 1]

-----------------------------------------------------------------------------
(* Memory.                                                                 *)

Cell(a) ==
    IF a \in DOMAIN store THEN store[a] ELSE IF a \in DOMAIN Fixed THEN Fixed[a] ELSE 255

(* Bytes put from address a on; what is not RAM ignores them.              *)
Put(a, bytes) ==
    [c \in DOMAIN store |->
        IF (c - a) % 65536 < Len(bytes) THEN bytes[((c - a) % 65536) + 1] ELSE store[c]]

(* The rows of a list: an address before every 16th byte, a new line after *)
(* it and after the last.                                                  *)
Listing(from, to) ==
    LET entry(a) ==
            (IF (a - from) % 16 = 0 THEN HexWord(a) \o <<58, 32>> ELSE <<>>)
              \o HexByte(Cell(a)) \o <<32>>
              \o (IF (a - from) % 16 = 15 \/ a = to THEN NewLine ELSE <<>>)
    IN  FlattenSeq([k \in 1 .. to - from + 1 |-> entry(from + k - 1)])

-----------------------------------------------------------------------------
(* The commands.  "l" is the edited line.                                  *)

Says(text) ==
    out' = out \o Prompt \o Edited(line').echo \o NewLine \o text
Quietly == UNCHANGED <<store, deck>>

Reject(l) == Verb(l) = "?" /\ Says(Complaint) /\ Quietly

Peek(l) ==
    /\ Verb(l) = "peek"
    /\ Says(HexWord(From(l)) \o <<58, 32>> \o HexByte(Cell(From(l))) \o NewLine)
    /\ Quietly

List(l) == Verb(l) = "list" /\ Says(Listing(From(l), To(l))) /\ Quietly

Poke(l) ==
    /\ Verb(l) = "poke"
    /\ Says(<<>>)
    /\ store' = Put(From(l), Poked(l))
    /\ UNCHANGED deck

(* A program that does nothing but return, by RTS or by BRK, leaves        *)
(* everything as it was; of others nothing is promised.                    *)
RunsProgram(l) == Verb(l) = "run" /\ Cell(From(l)) \notin {0, 96}
Run(l) ==
    /\ Verb(l) = "run"
    /\ RunsProgram(l) \/ (Says(<<>>) /\ Quietly)

NoTape(l) ==
    /\ Verb(l) \in {"save", "load", "rewind"} /\ ~HasTape
    /\ Says(Complaint) /\ Quietly

SaveBackwards(l) ==
    /\ Verb(l) = "save" /\ HasTape /\ To(l) < From(l)
    /\ Says(Complaint) /\ Quietly

(* The block goes where the head is, over what is there.                   *)
Saves(l) == Verb(l) = "save" /\ HasTape /\ To(l) >= From(l)
SavedBlock(l) == Block([k \in 1 .. To(l) - From(l) + 1 |-> Cell(From(l) + k - 1)])
Save(l) ==
    /\ Saves(l)
    /\ \E block \in {SavedBlock(l)} :
           tape' = Recorded(tape, pos, block) /\ pos' = pos + Len(block)
    /\ motor' = FALSE /\ eot' = FALSE /\ err' = FALSE
    /\ Says(<<>>)
    /\ UNCHANGED store

LoadWhole(l) ==
    /\ Verb(l) = "load" /\ HasTape /\ WholeAt(tape, pos)
    /\ store' = Put(From(l), DataAt(tape, pos))
    /\ pos' = pos + Wanted(tape, pos) + 3
    /\ motor' = FALSE /\ eot' = FALSE /\ err' = FALSE
    /\ Says(IF ChecksumMatches(tape, pos) THEN <<>> ELSE Complaint)
    /\ UNCHANGED tape

(* The tape ends in the middle: the bytes there are stay loaded.           *)
LoadPart(l) ==
    /\ Verb(l) = "load" /\ HasTape /\ ~WholeAt(tape, pos)
    /\ store' = Put(From(l), DataAt(tape, pos))
    /\ pos' = Len(tape)
    /\ motor' = FALSE /\ eot' = TRUE /\ err' = TRUE
    /\ Says(Complaint)
    /\ UNCHANGED tape

Rewind(l) ==
    /\ Verb(l) = "rewind" /\ HasTape
    /\ pos' = 0 /\ motor' = FALSE /\ eot' = FALSE /\ err' = FALSE
    /\ Says(<<>>)
    /\ UNCHANGED <<tape, store>>

-----------------------------------------------------------------------------
(* Nothing is promised of a command that reaches into the monitor's own    *)
(* variables, the stack or the devices, nor of a range that ends at $FFFF. *)

Reached(l) ==
    CASE Verb(l) = "peek" -> {From(l)}
      [] Verb(l) \in {"list", "save"} -> From(l) .. To(l)
      [] Verb(l) = "poke" -> {(From(l) + k) % 65536 : k \in 0 .. Len(Poked(l)) - 1}
      [] Verb(l) = "load" -> {(From(l) + k) % 65536 : k \in 0 .. Len(DataAt(tape, pos)) - 1}
      [] OTHER -> {}
Unpromised(l) ==
    \/ Reached(l) \cap Private # {}
    \/ Verb(l) \in {"list", "save"} /\ 65535 \in Reached(l)

Answer(l) ==
    \/ Reject(l) \/ Peek(l) \/ List(l) \/ Poke(l) \/ Run(l)
    \/ NoTape(l) \/ SaveBackwards(l) \/ Save(l) \/ LoadWhole(l) \/ LoadPart(l) \/ Rewind(l)

Greet ==
    /\ out = <<>> /\ out' = Banner
    /\ line' = <<>>
    /\ Quietly

Serve ==
    /\ out # <<>> /\ out' # out
    /\ line' \in Lines
    /\ \E l \in {Edited(line').text} : Unpromised(l) \/ Answer(l)

(* The process is killed and another one started with the same tape: what  *)
(* was in memory is gone, and of a save a part may be on the tape.         *)
CutSave(l) ==
    /\ Saves(l)
    /\ \E block \in {SavedBlock(l)} : \E n \in 1 .. Len(block) :
           tape' = Recorded(tape, pos, SubSeq(block, 1, n))

Restart ==
    /\ out' = <<>> /\ line' \in Lines
    /\ store' = [a \in DOMAIN store |-> 0]
    /\ pos' = 0 /\ motor' = FALSE /\ eot' = FALSE /\ err' = FALSE
    /\ \/ UNCHANGED tape
       \/ \E l \in {Edited(line').text} : CutSave(l) \/ Unpromised(l) \/ RunsProgram(l)

Init ==
    /\ line = <<>> /\ out = <<>>
    /\ pos = 0 /\ motor = FALSE /\ eot = FALSE /\ err = FALSE

Spec == Init /\ [][Greet \/ Serve \/ Restart]_<<line, store, out, deck>>
=============================================================================
