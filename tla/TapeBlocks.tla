------------------------------ MODULE TapeBlocks ------------------------------
(***************************************************************************)
(* The blocks SAVE writes and LOAD reads (src/system/monitor_firmware.cpp) *)
(* on a tape, a sequence of bytes with a head in front of byte p + 1:      *)
(* a length of two bytes, low byte first, the data, and the exclusive or   *)
(* of the data.                                                            *)
(***************************************************************************)
EXTENDS Integers, Sequences, FiniteSets

(* Exclusive or, bit by bit: whether an odd number of bytes has the bit of *)
(* that weight.                                                            *)
OnesFault_StartsLate(bytes, w) ==                                \* DamageShows
    {i \in DOMAIN bytes : i > 1 /\ (bytes[i] \div w) % 2 = 1}
Ones(bytes, w) == {i \in DOMAIN bytes : (bytes[i] \div w) % 2 = 1}
Parity(bytes, w) == Cardinality(Ones(bytes, w)) % 2

Checksum(bytes) ==
    Parity(bytes, 1) + 2 * Parity(bytes, 2) + 4 * Parity(bytes, 4) + 8 * Parity(bytes, 8)
      + 16 * Parity(bytes, 16) + 32 * Parity(bytes, 32) + 64 * Parity(bytes, 64)
      + 128 * Parity(bytes, 128)

Size(data) == Len(data) + 3
BlockFault_LengthNotRaised(data) ==                              \* SavedBlocksReadBack
    <<(Len(data) - 1) % 256, (Len(data) - 1) \div 256>> \o data \o <<Checksum(data)>>
Block(data) ==
    <<Len(data) % 256, Len(data) \div 256>> \o data \o <<Checksum(data)>>

(* Bytes put one after the other from p on go over what is there, and past *)
(* the end they lengthen the tape.                                         *)
Recorded(tape, p, bytes) ==
    [i \in 1 .. (IF p + Len(bytes) > Len(tape) THEN p + Len(bytes) ELSE Len(tape)) |->
        IF i \in p + 1 .. p + Len(bytes) THEN bytes[i - p] ELSE tape[i]]

(* What LOAD makes of the tape from p on: how many data bytes it wants,    *)
(* those of them that are there, and whether it gets as far as comparing   *)
(* the checksum.                                                           *)
HeaderAt(tape, p) == Len(tape) >= p + 2
Wanted(tape, p) == IF HeaderAt(tape, p) THEN tape[p + 1] + 256 * tape[p + 2] ELSE 0
WholeAt(tape, p) == HeaderAt(tape, p) /\ Len(tape) >= p + Wanted(tape, p) + 3
DataAt(tape, p) ==
    LET last == p + 2 + Wanted(tape, p)
    IN  SubSeq(tape, p + 3, IF last > Len(tape) THEN Len(tape) ELSE last)
ChecksumMatches(tape, p) == Checksum(DataAt(tape, p)) = tape[p + Wanted(tape, p) + 3]
=============================================================================
