------------------------------ MODULE TtyLemmas ------------------------------
(***************************************************************************)
(* The operations of the TTY return bytes and keep its types.  Cited by    *)
(* the proofs about the device alone and about the CPU on the bus.         *)
(***************************************************************************)
EXTENDS Tty, SequenceTheorems, TLAPS

(* Every register reads as a byte.                                         *)
LEMMA ReadValueByte ==
    ASSUME TtyTypeOK, NEW offset \in Nat
    PROVE  ReadValue(offset) \in TtyByte
<1>1. ReadSerial(offset) \in TtyByte
  BY DEF ReadSerial, Flag, TtyTypeOK, TtyByte
<1>2. CASE offset \in {TapeStatus, TapeControl, TapeData}
  <2>1. offset = TapeStatus => ReadTape(offset) \in TtyByte
    BY DEF ReadTape, Flag, TtyTypeOK, TtyByte, TapeStatus, TapeControl, TapeData
  <2>2. offset = TapeControl => ReadTape(offset) \in TtyByte
    BY DEF ReadTape, TtyByte, TapeStatus, TapeControl, TapeData
  <2>3. offset = TapeData => ReadTape(offset) \in TtyByte
    <3>1. TapeReadable => pos + 1 \in 1 .. Len(tape)
      BY DEF TapeReadable, TtyTypeOK
    <3>2. TapeReadable => tape[pos + 1] \in TtyByte
      BY <3>1 DEF TtyTypeOK
    <3>3. 0 \in TtyByte
      BY DEF TtyByte
    <3> QED BY <3>2, <3>3 DEF ReadTape, TapeStatus, TapeControl, TapeData
  <2>4. ReadTape(offset) \in TtyByte
    BY <1>2, <2>1, <2>2, <2>3
  <2> QED
    BY <1>2, <2>4 DEF ReadValue, SerialData, TapeStatus, TapeControl, TapeData
<1>3. CASE offset \notin {TapeStatus, TapeControl, TapeData}
  BY <1>1, <1>3 DEF ReadValue, SerialData, TapeStatus, TapeControl, TapeData, TtyByte
<1> QED BY <1>2, <1>3

-----------------------------------------------------------------------------
(* Each operation of the device keeps its types.  The flags are Booleans   *)
(* because every assignment is a truth value.                              *)
LEMMA PunchType ==
    ASSUME TtyTypeOK, NEW val \in TtyByte
    PROVE  Punch(val) \in Seq(TtyByte)
<1>1. CASE pos < Len(tape)
  <2>1. [tape EXCEPT ![pos + 1] = val] \in Seq(TtyByte)
    BY <1>1, ExceptSeq DEF TtyTypeOK
  <2> QED BY <1>1, <2>1 DEF Punch, TtyTypeOK
<1>2. CASE ~(pos < Len(tape))
  <2>1. Append(tape, val) \in Seq(TtyByte)
    BY DEF TtyTypeOK
  <2> QED BY <1>2, <2>1 DEF Punch, TtyTypeOK
<1> QED BY <1>1, <1>2

LEMMA ReadType ==
    ASSUME TtyTypeOK, NEW offset \in Nat, TtyRead(offset)
    PROVE  TtyTypeOK'
<1>1. CASE ReadSerialData
  BY <1>1 DEF ReadSerialData, TtyTypeOK, deck
<1>2. CASE ReadTapeData
  <2>0. rxByte' \in TtyByte /\ rxReady' \in BOOLEAN /\ out' \in Seq(TtyByte)
    BY <1>2 DEF ReadTapeData, TtyTypeOK, serial
  <2>1. CASE ReadTapeStopped
    BY <2>0, <2>1 DEF ReadTapeStopped, TtyTypeOK
  <2>2. CASE ReadTapeEnd
    BY <2>0, <2>2 DEF ReadTapeEnd, TtyTypeOK
  <2>3. CASE ReadTapeByte
    <3>1. pos' \in Nat
      BY <2>3 DEF ReadTapeByte, TtyTypeOK
    <3>2. tape' \in Seq(TtyByte) /\ motor' \in BOOLEAN /\ eot' \in BOOLEAN /\ err' \in BOOLEAN
      BY <2>3, Zenon DEF ReadTapeByte, TtyTypeOK
    <3> QED BY <2>0, <3>1, <3>2 DEF TtyTypeOK
  <2> QED BY <1>2, <2>1, <2>2, <2>3 DEF ReadTapeData
<1>3. CASE UNCHANGED ttyVars
  BY <1>3 DEF ttyVars, TtyTypeOK
<1> QED BY <1>1, <1>2, <1>3 DEF TtyRead

LEMMA WriteType ==
    ASSUME TtyTypeOK, NEW offset \in Nat, NEW val \in TtyByte, TtyWrite(offset, val)
    PROVE  TtyTypeOK'
<1>1. CASE WriteSerialData(val)
  BY <1>1 DEF WriteSerialData, TtyTypeOK, deck
<1>2. CASE WriteTapeControl(val)
  <2>1. motor' \in BOOLEAN
    BY <1>2 DEF WriteTapeControl
  <2>2. pos' \in Nat
    BY <1>2 DEF WriteTapeControl, TtyTypeOK
  <2>4. eot' \in BOOLEAN /\ err' \in BOOLEAN
    <3>1. CASE eot' = FALSE /\ err' = FALSE
      BY <3>1
    <3>2. CASE UNCHANGED <<pos, eot, err>>
      BY <3>2 DEF TtyTypeOK
    <3> QED BY <1>2, <3>1, <3>2, Zenon DEF WriteTapeControl
  <2>3. /\ rxByte' \in TtyByte /\ rxReady' \in BOOLEAN /\ out' \in Seq(TtyByte)
        /\ tape' \in Seq(TtyByte)
    BY <1>2 DEF WriteTapeControl, TtyTypeOK, serial
  <2> QED BY <2>1, <2>2, <2>3, <2>4 DEF TtyTypeOK
<1>3. CASE WriteTapeData(val)
  <2>0. rxByte' \in TtyByte /\ rxReady' \in BOOLEAN /\ out' \in Seq(TtyByte)
    BY <1>3 DEF WriteTapeData, TtyTypeOK, serial
  <2>1. CASE WriteTapeStopped
    BY <2>0, <2>1 DEF WriteTapeStopped, TtyTypeOK
  <2>2. CASE WriteTapeByte(val)
    <3>1. tape' \in Seq(TtyByte)
      BY <2>2, PunchType DEF WriteTapeByte
    <3>2. pos' \in Nat
      BY <2>2 DEF WriteTapeByte, TtyTypeOK
    <3>3. motor' \in BOOLEAN /\ eot' \in BOOLEAN /\ err' \in BOOLEAN
      BY <2>2, Zenon DEF WriteTapeByte, TtyTypeOK
    <3> QED BY <2>0, <3>1, <3>2, <3>3 DEF TtyTypeOK
  <2> QED BY <1>3, <2>1, <2>2 DEF WriteTapeData
<1>4. CASE UNCHANGED ttyVars
  BY <1>4 DEF ttyVars, TtyTypeOK
<1> QED BY <1>1, <1>2, <1>3, <1>4 DEF TtyWrite

LEMMA ReceiveType ==
    ASSUME TtyTypeOK, NEW byte \in TtyByte, Receive(byte)
    PROVE  TtyTypeOK'
  BY DEF Receive, TtyTypeOK, deck
=============================================================================
