------------------------------- MODULE TtyProofs -------------------------------
(***************************************************************************)
(* What TtyMachine's runs check on a small tape, for every backing, every  *)
(* set of bytes and every bound.                                           *)
(***************************************************************************)
EXTENDS TtyMachine, TtyLemmas

(* The registers hold values of their types in every reachable state.      *)
THEOREM TypeCorrect == Spec => []TypeOK
<1>1. Init => TypeOK
  <2>1. <<>> \in Seq(TtyByte)
    OBVIOUS
  <2>2. 0 \in TtyByte /\ 0 \in Nat
    BY DEF TtyByte
  <2> QED BY <2>1, <2>2, Zenon DEF Init, TtyInit, TypeOK, TtyTypeOK
<1>2. TypeOK /\ [Next]_vars => TypeOK'
  <2> SUFFICES ASSUME TypeOK, [Next]_vars PROVE TypeOK'
    OBVIOUS
  <2>0. TtyTypeOK
    BY DEF TypeOK
  <2>1. ASSUME NEW offset \in Offsets, Read(offset) PROVE TypeOK'
    <3>1. offset \in Nat
      BY <2>1 DEF Offsets, SerialStatus, TapeData
    <3>2. TtyTypeOK'
      BY <2>0, <2>1, <3>1, ReadType DEF Read
    <3>3. ReadValue(offset) \in TtyByte
      BY <2>0, <3>1, ReadValueByte
    <3>4. accepted' \in Seq(TtyByte) /\ delivered' \in Seq(TtyByte)
      BY <2>1, <3>3 DEF Read, TypeOK
    <3> QED BY <3>2, <3>4 DEF TypeOK
  <2>2. ASSUME NEW offset \in Offsets, NEW val \in Bytes \cup Controls, Write(offset, val)
        PROVE  TypeOK'
    <3>1. offset \in Nat /\ val \in TtyByte
      BY <2>2, MachineAssumption DEF Offsets, SerialStatus, TapeData
    <3>2. TtyTypeOK'
      BY <2>0, <2>2, <3>1, WriteType DEF Write
    <3> QED BY <2>2, <3>2 DEF Write, TypeOK
  <2>3. ASSUME NEW byte \in Bytes, Offer(byte) PROVE TypeOK'
    <3>1. byte \in TtyByte
      BY <2>3, MachineAssumption
    <3>2. TtyTypeOK'
      BY <2>0, <2>3, <3>1, ReceiveType DEF Offer
    <3> QED BY <2>3, <3>1, <3>2 DEF Offer, TypeOK
  <2>4. CASE UNCHANGED vars
    BY <2>4 DEF vars, TypeOK, TtyTypeOK
  <2>5. TapeControl \in Offsets
    BY DEF Offsets, SerialStatus, TapeControl, TapeData
  <2> QED BY <2>1, <2>2, <2>3, <2>4, <2>5 DEF Next
<1> QED BY <1>1, <1>2, PTL DEF Spec

-----------------------------------------------------------------------------
(* The head stays on the tape, for any tape and any sequence of accesses:  *)
(* inductive as it stands, since only a successful access moves the head,  *)
(* by one, and a write at the end lengthens the tape first.                *)
LEMMA PunchLength ==
    ASSUME TtyTypeOK, HeadOnTape, Backing = "open", NEW val \in TtyByte
    PROVE  pos + 1 <= Len(Punch(val))
<1>1. CASE pos < Len(tape)
  <2>1. Len([tape EXCEPT ![pos + 1] = val]) = Len(tape)
    BY <1>1, ExceptSeq DEF TtyTypeOK
  <2> QED BY <1>1, <2>1 DEF Punch, TtyTypeOK
<1>2. CASE ~(pos < Len(tape))
  <2>1. Len(Append(tape, val)) = Len(tape) + 1
    BY DEF TtyTypeOK
  <2> QED BY <1>2, <2>1 DEF Punch, TtyTypeOK, HeadOnTape
<1> QED BY <1>1, <1>2

THEOREM HeadStaysOnTape == Spec => []HeadOnTape
<1>1. Init => HeadOnTape
  BY DEF Init, TtyInit, HeadOnTape
<1>2. TypeOK /\ HeadOnTape /\ [Next]_vars => HeadOnTape'
  <2> SUFFICES ASSUME TtyTypeOK, HeadOnTape, [Next]_vars, Backing = "open"
               PROVE  pos' <= Len(tape')
    BY DEF TypeOK, HeadOnTape
  <2>1. CASE UNCHANGED <<tape, pos>>
    BY <2>1 DEF HeadOnTape
  <2>2. ASSUME NEW offset \in Offsets, Read(offset) PROVE pos' <= Len(tape')
    <3>1. CASE ReadTapeByte
      BY <3>1 DEF ReadTapeByte, TapeReadable, TtyTypeOK
    <3> QED BY <2>1, <2>2, <3>1 DEF Read, TtyRead, ReadSerialData, ReadTapeData,
                ReadTapeStopped, ReadTapeEnd, deck, ttyVars
  <2>3. ASSUME NEW offset \in Offsets, NEW val \in Bytes \cup Controls, Write(offset, val)
        PROVE  pos' <= Len(tape')
    <3>1. CASE WriteTapeByte(val)
      <4>1. val \in TtyByte
        BY MachineAssumption
      <4> QED BY <3>1, <4>1, PunchLength DEF WriteTapeByte
    <3>2. CASE WriteTapeControl(val)
      BY <3>2 DEF WriteTapeControl, HeadOnTape, TtyTypeOK
    <3> QED BY <2>1, <2>3, <3>1, <3>2 DEF Write, TtyWrite, WriteSerialData, WriteTapeData,
                WriteTapeStopped, deck, ttyVars
  <2>4. ASSUME NEW byte \in Bytes, Offer(byte) PROVE pos' <= Len(tape')
    BY <2>1, <2>4 DEF Offer, Receive, deck
  <2>5. TapeControl \in Offsets
    BY DEF Offsets, SerialStatus, TapeControl, TapeData
  <2> QED BY <2>1, <2>2, <2>3, <2>4, <2>5 DEF Next, vars
<1> QED BY <1>1, <1>2, TypeCorrect, PTL DEF Spec

(* EOT is never stale.  Relies on HeadOnTape: a read that finds nothing    *)
(* then stands exactly behind the last byte.                               *)
THEOREM EotIsExact == Spec => []EotMeansAtEnd
<1>1. Init => EotMeansAtEnd
  BY DEF Init, TtyInit, EotMeansAtEnd
<1>2. TypeOK /\ HeadOnTape /\ EotMeansAtEnd /\ [Next]_vars => EotMeansAtEnd'
  <2> SUFFICES ASSUME TtyTypeOK, HeadOnTape, EotMeansAtEnd, [Next]_vars
               PROVE  EotMeansAtEnd'
    BY DEF TypeOK
  <2>1. CASE UNCHANGED deck
    BY <2>1 DEF EotMeansAtEnd, deck
  <2>2. CASE ReadTapeStopped \/ WriteTapeStopped
    BY <2>2, Zenon DEF ReadTapeStopped, WriteTapeStopped, EotMeansAtEnd
  <2>3. CASE ~eot'
    BY <2>3 DEF EotMeansAtEnd
  <2>4. CASE ReadTapeEnd
    <3>1. Backing = "open" => pos = Len(tape)
      BY <2>4 DEF ReadTapeEnd, TapeReadable, HeadOnTape, TtyTypeOK
    <3>2. err' /\ UNCHANGED <<tape, pos>>
      BY <2>4 DEF ReadTapeEnd
    <3> QED BY <3>1, <3>2 DEF EotMeansAtEnd
  <2>5. ASSUME NEW offset \in Offsets, Read(offset) PROVE EotMeansAtEnd'
    <3>1. CASE ReadTapeByte
      BY <2>3, <3>1 DEF ReadTapeByte
    <3>2. UNCHANGED ttyVars => UNCHANGED deck
      BY DEF ttyVars, deck
    <3> QED BY <2>1, <2>2, <2>4, <2>5, <3>1, <3>2, Zenon
            DEF Read, TtyRead, ReadSerialData, ReadTapeData
  <2>6. ASSUME NEW offset \in Offsets, NEW val \in Bytes \cup Controls, Write(offset, val)
        PROVE  EotMeansAtEnd'
    <3>1. CASE WriteTapeByte(val)
      BY <2>3, <3>1 DEF WriteTapeByte
    <3>2. CASE WriteTapeControl(val)
      <4>1. ~eot' \/ UNCHANGED <<tape, pos, eot, err>>
        BY <3>2, Zenon DEF WriteTapeControl
      <4> QED BY <2>3, <4>1 DEF EotMeansAtEnd
    <3>3. UNCHANGED ttyVars => UNCHANGED deck
      BY DEF ttyVars, deck
    <3> QED BY <2>1, <2>2, <2>6, <3>1, <3>2, <3>3, Zenon
            DEF Write, TtyWrite, WriteSerialData, WriteTapeData
  <2>7. ASSUME NEW byte \in Bytes, Offer(byte) PROVE EotMeansAtEnd'
    BY <2>1, <2>7 DEF Offer, Receive
  <2>8. TapeControl \in Offsets
    BY DEF Offsets, SerialStatus, TapeControl, TapeData
  <2>9. CASE UNCHANGED vars
    BY <2>1, <2>9 DEF vars, deck
  <2> QED BY <2>5, <2>6, <2>7, <2>8, <2>9 DEF Next
<1> QED BY <1>1, <1>2, TypeCorrect, HeadStaysOnTape, PTL DEF Spec

(* No byte is lost or handed over twice, for any number of bytes: the      *)
(* histories agree up to the byte still held, whatever the program reads   *)
(* in between.                                                             *)
THEOREM ExactlyOnce == Spec => []NoByteLostOrRepeated
<1>1. Init => NoByteLostOrRepeated
  <2>1. <<>> \o <<>> = <<>>
    OBVIOUS
  <2> QED BY <2>1 DEF Init, TtyInit, NoByteLostOrRepeated
<1>2. TypeOK /\ NoByteLostOrRepeated /\ [Next]_vars => NoByteLostOrRepeated'
  <2> SUFFICES ASSUME TypeOK, NoByteLostOrRepeated, [Next]_vars
               PROVE  NoByteLostOrRepeated'
    OBVIOUS
  <2>1. CASE UNCHANGED <<rxByte, rxReady, accepted, delivered>>
    BY <2>1 DEF NoByteLostOrRepeated
  <2>2. ASSUME Read(SerialData), rxReady PROVE NoByteLostOrRepeated'
    <3>1. ReadValue(SerialData) = rxByte
      BY DEF ReadValue, ReadSerial, SerialData, SerialStatus
    <3>2. delivered' = Append(delivered, rxByte) /\ UNCHANGED accepted
      BY <2>2, <3>1, Zenon DEF Read
    <3>3. ~rxReady'
      BY <2>2 DEF Read, TtyRead, ReadSerialData, SerialData, TapeData
    <3>4. accepted = delivered \o <<rxByte>>
      BY <2>2 DEF NoByteLostOrRepeated
    <3>5. delivered \in Seq(TtyByte) /\ rxByte \in TtyByte
      BY DEF TypeOK, TtyTypeOK
    <3>6. Append(delivered, rxByte) = delivered \o <<rxByte>>
      BY <3>5, AppendIsConcat
    <3>7. Append(delivered, rxByte) \o <<>> = Append(delivered, rxByte)
      BY <3>5
    <3> QED BY <3>2, <3>3, <3>4, <3>6, <3>7 DEF NoByteLostOrRepeated
  <2>3. ASSUME NEW offset \in Offsets, Read(offset) PROVE NoByteLostOrRepeated'
    <3>1. CASE offset = SerialData /\ ~rxReady
      <4>1. UNCHANGED <<rxByte, accepted, delivered>>
        BY <2>3, <3>1 DEF Read, TtyRead, ReadSerialData, SerialData, TapeData
      <4>2. ~rxReady'
        BY <2>3, <3>1 DEF Read, TtyRead, ReadSerialData, SerialData, TapeData
      <4> QED BY <3>1, <4>1, <4>2 DEF NoByteLostOrRepeated
    <3>2. CASE offset # SerialData
      BY <2>1, <2>3, <3>2 DEF Read, TtyRead, ReadTapeData, serial, ttyVars
    <3> QED BY <2>2, <2>3, <3>1, <3>2
  <2>4. ASSUME NEW offset \in Offsets, NEW val \in Bytes \cup Controls, Write(offset, val)
        PROVE  NoByteLostOrRepeated'
    BY <2>1, <2>4 DEF Write, TtyWrite, WriteSerialData, WriteTapeControl, WriteTapeData,
           serial, ttyVars
  <2>5. ASSUME NEW byte \in Bytes, Offer(byte) PROVE NoByteLostOrRepeated'
    <3>1. CASE rxReady
      BY <2>1, <2>5, <3>1 DEF Offer, Receive
    <3>2. CASE ~rxReady
      <4>1. /\ rxByte' = byte /\ rxReady' = TRUE
            /\ accepted' = Append(accepted, byte) /\ UNCHANGED delivered
        BY <2>5, <3>2 DEF Offer, Receive
      <4>2. accepted = delivered \o <<>> /\ delivered \in Seq(TtyByte) /\ byte \in TtyByte
        BY <3>2, MachineAssumption DEF NoByteLostOrRepeated, TypeOK
      <4>3. accepted = delivered
        BY <4>2
      <4>4. Append(delivered, byte) = delivered \o <<byte>>
        BY <4>2, AppendIsConcat
      <4> QED BY <4>1, <4>3, <4>4 DEF NoByteLostOrRepeated
    <3> QED BY <3>1, <3>2
  <2>6. TapeControl \in Offsets
    BY DEF Offsets, SerialStatus, TapeControl, TapeData
  <2>7. CASE UNCHANGED vars
    BY <2>1, <2>7 DEF vars
  <2> QED BY <2>3, <2>4, <2>5, <2>6, <2>7 DEF Next
<1> QED BY <1>1, <1>2, TypeCorrect, PTL DEF Spec
-----------------------------------------------------------------------------
(* What a step may never do.                                               *)

(* ERROR tells whether an access to TAPE_DATA moved the head, for every     *)
(* backing and every state of the deck.                                    *)
THEOREM AccessIsReported == Spec => DataAccessReports
<1>1. TypeOK /\ [Next]_vars =>
          [\A val \in Bytes : ReadTapeData \/ WriteTapeData(val) => (err' <=> pos' = pos)]_vars
  <2> SUFFICES ASSUME TypeOK, NEW val \in Bytes, ReadTapeData \/ WriteTapeData(val)
               PROVE  err' <=> pos' = pos
    BY Zenon
  <2>1. pos + 1 # pos
    BY DEF TypeOK, TtyTypeOK
  <2>2. CASE ReadTapeStopped \/ ReadTapeEnd \/ WriteTapeStopped
    BY <2>2, Zenon DEF ReadTapeStopped, ReadTapeEnd, WriteTapeStopped
  <2>3. CASE ReadTapeByte \/ WriteTapeByte(val)
    BY <2>1, <2>3, Zenon DEF ReadTapeByte, WriteTapeByte
  <2> QED BY <2>2, <2>3, Zenon DEF ReadTapeData, WriteTapeData
<1> QED BY <1>1, TypeCorrect, PTL DEF Spec, DataAccessReports

(* Unless the backing stream never opened, a byte written to the tape is   *)
(* on it or ERROR is up.  Relies on HeadOnTape: a head behind the end      *)
(* would append the byte somewhere else than where it stood.               *)
THEOREM WriteIsReported == Backing # "closed" => (Spec => FailedWriteReported)
<1> SUFFICES ASSUME Backing # "closed" PROVE Spec => FailedWriteReported
  OBVIOUS
<1>1. TypeOK /\ HeadOnTape /\ [Next]_vars =>
          [\A val \in Bytes : WriteTapeData(val) =>
               err' \/ (pos' \in DOMAIN tape' /\ tape'[pos'] = val)]_vars
  <2> SUFFICES ASSUME TypeOK, HeadOnTape, NEW val \in Bytes, WriteTapeData(val), ~err'
               PROVE  pos' \in DOMAIN tape' /\ tape'[pos'] = val
    BY Zenon
  <2>1. WriteTapeByte(val)
    BY DEF WriteTapeData, WriteTapeStopped
  <2>2. Backing = "open"
    BY <2>1, BackingAssumption DEF WriteTapeByte
  <2>3. tape \in Seq(TtyByte) /\ pos \in Nat /\ val \in TtyByte /\ pos <= Len(tape)
    BY <2>2, MachineAssumption DEF TypeOK, TtyTypeOK, HeadOnTape
  <2>4. pos' = pos + 1 /\ tape' = Punch(val)
    BY <2>1 DEF WriteTapeByte
  <2>5. CASE pos < Len(tape)
    <3>1. tape' = [tape EXCEPT ![pos + 1] = val]
      BY <2>2, <2>4, <2>5 DEF Punch
    <3>2. pos + 1 \in DOMAIN tape
      BY <2>3, <2>5
    <3> QED BY <2>4, <3>1, <3>2
  <2>6. CASE ~(pos < Len(tape))
    <3>1. tape' = Append(tape, val) /\ pos + 1 = Len(tape) + 1
      BY <2>2, <2>3, <2>4, <2>6 DEF Punch
    <3>2. Append(tape, val)[Len(tape) + 1] = val /\ Len(tape) + 1 \in DOMAIN Append(tape, val)
      BY <2>3
    <3> QED BY <2>4, <3>1, <3>2
  <2> QED BY <2>5, <2>6
<1> QED BY <1>1, TypeCorrect, HeadStaysOnTape, PTL DEF Spec, FailedWriteReported

(* Without the motor nothing but a rewind touches tape or head.            *)
THEOREM StoppedTapeIsStill == Spec => StoppedTapeStandsStill
<1>1. [Next]_vars => [~motor => tape' = tape /\ pos' \in {pos, 0}]_vars
  <2> SUFFICES ASSUME Next, ~motor PROVE tape' = tape /\ pos' \in {pos, 0}
    BY Zenon
  <2>1. CASE UNCHANGED <<tape, pos>>
    BY <2>1
  <2>2. ASSUME NEW offset, Read(offset) PROVE UNCHANGED <<tape, pos>>
    BY <2>2 DEF Read, TtyRead, ReadSerialData, ReadTapeData, ReadTapeStopped, ReadTapeEnd,
           ReadTapeByte, TapeReadable, deck, ttyVars
  <2>3. ASSUME NEW offset, NEW val, Write(offset, val) PROVE tape' = tape /\ pos' \in {pos, 0}
    BY <2>3 DEF Write, TtyWrite, WriteSerialData, WriteTapeControl, WriteTapeData,
           WriteTapeStopped, WriteTapeByte, deck, ttyVars
  <2>4. ASSUME NEW byte, Offer(byte) PROVE UNCHANGED <<tape, pos>>
    BY <2>4 DEF Offer, Receive, deck
  <2> QED BY <2>1, <2>2, <2>3, <2>4 DEF Next
<1> QED BY <1>1, PTL DEF Spec, StoppedTapeStandsStill

=============================================================================
