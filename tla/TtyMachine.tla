------------------------------ MODULE TtyMachine ------------------------------
(***************************************************************************)
(* The TTY alone, between a host that offers bytes at any moment and a     *)
(* program that reads and writes its registers in any order, the motor on  *)
(* or off, the head anywhere.  Two history variables record what the host  *)
(* got accepted and what the program was given.                            *)
(***************************************************************************)
EXTENDS Tty

CONSTANTS
    Bytes,          \* bytes the host types and the program writes
    Controls,       \* values the program writes to TAPE_CONTROL
    MaxTape,        \* bound on the head and the tape
    MaxSerial       \* bound on the bytes received and on those put out

ASSUME MachineAssumption ==
    /\ Bytes \subseteq TtyByte /\ Controls \subseteq TtyByte
    /\ MaxTape \in Nat /\ MaxSerial \in Nat

VARIABLES
    accepted,       \* bytes latched by receive()
    delivered       \* bytes read from SERIAL_DATA while RXRDY was up

vars == <<rxByte, rxReady, out, tape, pos, motor, eot, err, accepted, delivered>>

Offsets == SerialStatus .. TapeData + 1

TypeOK ==
    /\ TtyTypeOK
    /\ accepted \in Seq(TtyByte)
    /\ delivered \in Seq(TtyByte)

Init ==
    /\ TtyInit
    /\ tape = <<>>
    /\ accepted = <<>> /\ delivered = <<>>

Read(offset) ==
    /\ TtyRead(offset)
    /\ delivered' = IF offset = SerialData /\ rxReady
                    THEN Append(delivered, ReadValue(offset)) ELSE delivered
    /\ UNCHANGED accepted

Write(offset, val) ==
    /\ offset = SerialData => Len(out) < MaxSerial
    /\ offset = TapeData => pos < MaxTape
    /\ TtyWrite(offset, val)
    /\ UNCHANGED <<accepted, delivered>>

Offer(byte) ==
    /\ Len(accepted) < MaxSerial
    /\ Receive(byte)
    /\ accepted' = IF rxReady THEN accepted ELSE Append(accepted, byte)
    /\ UNCHANGED delivered

Next ==
    \/ \E offset \in Offsets : Read(offset)
    \/ \E offset \in Offsets \ {TapeControl}, val \in Bytes : Write(offset, val)
    \/ \E val \in Controls : Write(TapeControl, val)
    \/ \E byte \in Bytes : Offer(byte)

Spec == Init /\ [][Next]_vars

-----------------------------------------------------------------------------
(* Every byte the port accepted reaches the program exactly once and in    *)
(* order, however reads, status polls and further offers interleave: what  *)
(* was accepted is what was delivered plus the byte still held             *)
(* (TTY::receive drops only when the register is full, readSerial clears   *)
(* RXRDY as it hands the byte over).                                       *)
NoByteLostOrRepeated ==
    accepted = delivered \o (IF rxReady THEN <<rxByte>> ELSE <<>>)

(* The head never leaves the recorded tape: it is on a byte or just behind *)
(* the last one, so a write never leaves a gap (readTape and writeTape     *)
(* advance m_tapePosition).                                                *)
HeadOnTape == Backing = "open" => pos <= Len(tape)

(* The EOT flag is never stale: while it is up the head really is behind   *)
(* the last byte, and ERROR is up with it, whatever rewinds, writes and    *)
(* motor changes came since the read that raised it.                       *)
EotMeansAtEnd == eot => err /\ (Backing = "open" => pos = Len(tape))

(* After an access to TAPE_DATA the ERROR flag tells the program whether   *)
(* the head moved: it is up exactly when the access did nothing (readTape, *)
(* writeTape).                                                             *)
DataAccessReports ==
    [][\A val \in Bytes : ReadTapeData \/ WriteTapeData(val) => (err' <=> pos' = pos)]_vars

(* A byte the program writes to the tape is on the tape, just behind the   *)
(* head, or ERROR is up: no write is lost in silence (writeTape; TAPE      *)
(* STATUS bit 3 "is set whenever the most recent tape operation failed").  *)
FailedWriteReported ==
    [][\A val \in Bytes : WriteTapeData(val) =>
           err' \/ (pos' \in DOMAIN tape' /\ tape'[pos'] = val)]_vars

(* Without the motor the tape and its head stand still, except that a      *)
(* rewind brings the head home (writeTape, TAPE_CONTROL bit 1).            *)
StoppedTapeStandsStill ==
    [][~motor => tape' = tape /\ pos' \in {pos, 0}]_vars
=============================================================================
