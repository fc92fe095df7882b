------------------------------ MODULE TapeSession ------------------------------
(***************************************************************************)
(* The tape file through any number of processes: each opens it in main    *)
(* (src/system/monitor_main.cpp), saves, loads and rewinds, and ends when  *)
(* it is killed, for System::run has no exit - at a prompt or between any  *)
(* two bytes of a SAVE, each of which the TTY flushes.  A command is one   *)
(* action; that the ROM does just this is what MonitorTrace shows.  In     *)
(* between a byte of the file may go bad.                                  *)
(***************************************************************************)
EXTENDS TapeBlocks

CONSTANTS
    Data,               \* what may be saved: the bytes of a range
    Found,              \* what the file may hold to begin with
    Values,             \* what a byte that goes bad may turn into
    MaxTape             \* bound on the length of the file

Byte == 0 .. 255
MaxLength == 65535      \* what two bytes can say

ASSUME TapeAssumption ==
    /\ \A d \in Data : d \in Seq(Byte) /\ Len(d) \in 1 .. MaxLength
    /\ Found \subseteq Seq(Byte)
    /\ Values \subseteq Byte
    /\ MaxTape \in Nat

VARIABLES
    tape,       \* the contents of the file; empty too if there is none
    mode,       \* "off", or the backing of the process: "none", "open", "closed"
    pos,        \* m_tapePosition
    answer,     \* of the last command: a "?" printed, the bytes loaded
    kept        \* history: the blocks saved and not gone over since, in order

vars == <<tape, mode, pos, answer, kept>>

KeptBlock == [at : Nat, data : Seq(Byte), state : {"sound", "damaged", "torn"}]

TypeOK ==
    /\ tape \in Seq(Byte)
    /\ mode \in {"off", "none", "open", "closed"}
    /\ pos \in Nat
    /\ answer \in [complains : BOOLEAN, data : Seq(Byte)]
    /\ kept \in Seq(KeptBlock)

Quiet == [complains |-> FALSE, data |-> <<>>]
Complaint == [complains |-> TRUE, data |-> <<>>]

Init ==
    /\ tape \in Found
    /\ mode = "off" /\ pos = 0 /\ answer = Quiet
    /\ kept = <<>>

-----------------------------------------------------------------------------
(* main: the file is opened to read and write, or created and opened; with *)
(* no path there is no backing.                                            *)
StartOpen ==
    /\ mode = "off" /\ mode' = "open"
    /\ UNCHANGED <<tape, pos, answer, kept>>

StartWithout ==
    /\ mode = "off" /\ mode' = "none"
    /\ UNCHANGED <<tape, pos, answer, kept>>

(* The first open fails, and so does the second: there is nothing to       *)
(* create, or the attempt to create it has emptied a file that may be      *)
(* written and not read.                                                   *)
StartClosed ==
    /\ mode = "off" /\ mode' = "closed"
    /\ \/ UNCHANGED <<tape, kept>>
       \/ tape' = <<>> /\ kept' = <<>>
    /\ UNCHANGED <<pos, answer>>

-----------------------------------------------------------------------------
(* Where block k begins, and where the one behind the last would.          *)
EndOf(k) == kept[k].at + Size(kept[k].data)
StartOf(k) ==
    IF k <= Len(kept) THEN kept[k].at ELSE IF k = 1 THEN 0 ELSE EndOf(k - 1)

Places == {k \in 1 .. Len(kept) + 1 : StartOf(k) = pos}
Fits(k, data) == k <= Len(kept) /\ Len(data) = Len(kept[k].data)

(* The history of a save, and of one that was cut: over a block of the     *)
(* same size, over anything else, and past what is known.                  *)
KeepSaved(data) ==
    \/ \E k \in Places :
          LET new == [at |-> pos, data |-> data, state |-> "sound"]
          IN  kept' = IF Fits(k, data) THEN [kept EXCEPT ![k] = new]
                                       ELSE Append(SubSeq(kept, 1, k - 1), new)
    \/ Places = {} /\ UNCHANGED kept

KeepCut(data) ==
    \/ \E k \in Places :
          kept' = IF Fits(k, data) THEN [kept EXCEPT ![k].state = "torn"]
                                   ELSE SubSeq(kept, 1, k - 1)
    \/ Places = {} /\ UNCHANGED kept

(* SAVE: the stream takes every byte and the head moves past the block.    *)
Save(data) ==
    /\ mode = "open" /\ pos + Size(data) <= MaxTape
    /\ tape' = Recorded(tape, pos, Block(data))
    /\ pos' = pos + Size(data)
    /\ answer' = Quiet
    /\ KeepSaved(data)
    /\ UNCHANGED mode

(* A stream that never opened takes nothing, and nobody notices.           *)
SaveToNowhere(data) ==
    /\ mode = "closed" /\ pos + Size(data) <= MaxTape
    /\ pos' = pos + Size(data)
    /\ answer' = Quiet
    /\ UNCHANGED <<tape, mode, kept>>

(* The process is killed, at a prompt or with n bytes of a block written:  *)
(* what it held is gone, the file stays.                                   *)
Ends == mode' = "off" /\ pos' = 0 /\ answer' = Quiet

Killed ==
    /\ mode # "off" /\ Ends
    /\ UNCHANGED <<tape, kept>>

KilledSaving(data, n) ==
    /\ mode = "open" /\ pos + Size(data) <= MaxTape /\ Ends
    /\ tape' = Recorded(tape, pos, SubSeq(Block(data), 1, n))
    /\ KeepCut(data)

-----------------------------------------------------------------------------
(* LOAD: a whole block, checked when it is too late, or what there is of   *)
(* one; READ_TAPE_BYTE fails at the end of the file or without one.        *)
LoadWholeFault_LeavesChecksum ==                          \* ImplementsTapeStore
    /\ mode = "open" /\ WholeAt(tape, pos)
    /\ pos' = pos + Wanted(tape, pos) + 2
    /\ answer' = [complains |-> ~ChecksumMatches(tape, pos), data |-> DataAt(tape, pos)]
    /\ UNCHANGED <<tape, mode, kept>>
LoadWhole ==
    /\ mode = "open" /\ WholeAt(tape, pos)
    /\ pos' = pos + Wanted(tape, pos) + 3
    /\ answer' = [complains |-> ~ChecksumMatches(tape, pos), data |-> DataAt(tape, pos)]
    /\ UNCHANGED <<tape, mode, kept>>

LoadPartFault_StepsBack ==                                \* TypeOK
    /\ mode = "open" /\ ~WholeAt(tape, pos)
    /\ pos' = pos - 1
    /\ answer' = [complains |-> TRUE, data |-> DataAt(tape, pos)]
    /\ UNCHANGED <<tape, mode, kept>>
LoadPart ==
    /\ mode = "open" /\ ~WholeAt(tape, pos)
    /\ pos' = Len(tape)
    /\ answer' = [complains |-> TRUE, data |-> DataAt(tape, pos)]
    /\ UNCHANGED <<tape, mode, kept>>

LoadFromNowhere ==
    /\ mode = "closed" /\ answer' = Complaint
    /\ UNCHANGED <<tape, mode, pos, kept>>

Rewind ==
    /\ mode \in {"open", "closed"}
    /\ pos' = 0 /\ answer' = Quiet
    /\ UNCHANGED <<tape, mode, kept>>

(* Without a deck every tape command complains.                            *)
NoTape ==
    /\ mode = "none" /\ answer' = Complaint
    /\ UNCHANGED <<tape, mode, pos, kept>>

(* A byte of the data or of the checksum turns into another.               *)
Damage(k, i, b) ==
    /\ mode = "off" /\ kept[k].state = "sound"
    /\ tape[kept[k].at + 2 + i] # b
    /\ tape' = [tape EXCEPT ![kept[k].at + 2 + i] = b]
    /\ kept' = [kept EXCEPT ![k].state = "damaged"]
    /\ UNCHANGED <<mode, pos, answer>>

-----------------------------------------------------------------------------
SaveSome == \E data \in Data : Save(data) \/ SaveToNowhere(data)
KilledSavingSome ==
    \E data \in Data : \E n \in 1 .. Size(data) - 1 : KilledSaving(data, n)
DamageSome ==
    \E k \in DOMAIN kept, b \in Values : \E i \in 1 .. Len(kept[k].data) + 1 : Damage(k, i, b)

Next ==
    \/ StartOpen \/ StartWithout \/ StartClosed
    \/ SaveSome \/ KilledSavingSome \/ Killed
    \/ LoadWhole \/ LoadPart \/ LoadFromNowhere \/ Rewind \/ NoTape
    \/ DamageSome

Spec == Init /\ [][Next]_vars

-----------------------------------------------------------------------------
(* Whatever was saved over whatever, and wherever a process was killed:    *)
(* a block that was saved and not gone over stands on the tape where the   *)
(* loads before it leave the head, and is read back as it was saved (SAVE  *)
(* and LOAD, the put and flush of TTY::writeTape).                         *)
SavedBlocksReadBack ==
    \A k \in DOMAIN kept :
        /\ kept[k].at = (IF k = 1 THEN 0 ELSE EndOf(k - 1))
        /\ kept[k].state = "sound" =>
               /\ WholeAt(tape, kept[k].at)
               /\ DataAt(tape, kept[k].at) = kept[k].data
               /\ ChecksumMatches(tape, kept[k].at)

(* One byte that goes bad in the data or in the checksum is noticed, and   *)
(* the blocks behind are still found (LOAD's comparison with $44).         *)
DamageShows ==
    \A k \in DOMAIN kept :
        kept[k].state = "damaged" =>
            /\ WholeAt(tape, kept[k].at)
            /\ Wanted(tape, kept[k].at) = Len(kept[k].data)
            /\ ~ChecksumMatches(tape, kept[k].at)

(* The file, its bytes and its blocks implement the abstract tape.         *)
Contents == [k \in DOMAIN kept |-> [data |-> kept[k].data, state |-> kept[k].state]]
Clean == Len(tape) = StartOf(Len(kept) + 1)
Ahead ==
    IF mode # "open" \/ Places = {} THEN 0 ELSE CHOOSE k \in Places : TRUE
Promised == INSTANCE TapeStore WITH
    kept <- Contents, head <- Ahead, clean <- Clean, deck <- mode

ImplementsTapeStore == Promised!Spec
=============================================================================
