--------------------------------- MODULE Tty ---------------------------------
(***************************************************************************)
(* The TTY peripheral (src/peripherals/tty.cpp): a serial port with one    *)
(* holding register, and a tape deck whose single head serves both reads   *)
(* and writes.  This module holds its state and its operations as the bus  *)
(* sees them; TtyMachine closes it with a driver, Bus maps it into the     *)
(* address space.                                                          *)
(*                                                                         *)
(* Reading the device is an action: DATA reads clear RXRDY and TAPE_DATA   *)
(* reads move the head, which is why m_rxReady, m_tapePosition and the two *)
(* error flags are "mutable" in the C++ class.                             *)
(***************************************************************************)
EXTENDS Integers, Sequences

CONSTANT
    Backing         \* m_tapeBacking: "none" (nullptr), "open" (a readable and
                    \* writable file) or "closed" (a stream that never opened,
                    \* as monitor_main passes for a path it cannot create)

ASSUME BackingAssumption == Backing \in {"none", "closed", "open"}

VARIABLES
    rxByte,         \* m_rxByte, the serial holding register
    rxReady,        \* m_rxReady
    out,            \* the bytes put on m_out so far
    tape,           \* the contents of the backing file
    pos,            \* m_tapePosition, 0 for the first byte
    motor,          \* m_tapeMotorOn
    eot,            \* m_tapeEot
    err             \* m_tapeError

serial == <<rxByte, rxReady, out>>
deck == <<tape, pos, motor, eot, err>>
ttyVars == <<rxByte, rxReady, out, tape, pos, motor, eot, err>>

TtyByte == 0 .. 255

TtyTypeOK ==
    /\ rxByte \in TtyByte
    /\ rxReady \in BOOLEAN
    /\ out \in Seq(TtyByte)
    /\ tape \in Seq(TtyByte)
    /\ pos \in Nat
    /\ motor \in BOOLEAN
    /\ eot \in BOOLEAN
    /\ err \in BOOLEAN

TtyInit ==
    /\ rxByte = 0 /\ rxReady = FALSE /\ out = <<>>
    /\ pos = 0 /\ motor = FALSE /\ eot = FALSE /\ err = FALSE

(* Register offsets in the device's 256-byte page.                         *)
SerialStatus == 0
SerialData   == 1
TapeStatus   == 2
TapeControl  == 3
TapeData     == 4

-----------------------------------------------------------------------------
(* What the registers read as.                                             *)

Flag(cond, weight) == IF cond THEN weight ELSE 0

TapeReadableFault_IgnoresMotor == Backing = "open" /\ pos < Len(tape)   \* StoppedTapeStandsStill
TapeReadable == Backing = "open" /\ motor /\ pos < Len(tape)

ReadSerial(offset) ==
    IF offset = SerialStatus THEN 2 + Flag(rxReady, 1) ELSE rxByte

ReadTape(offset) ==
    CASE offset = TapeStatus ->
             Flag(Backing # "none", 1) + Flag(motor, 2) + Flag(eot, 4) + Flag(err, 8)
      [] offset = TapeControl -> 0
      [] offset = TapeData -> IF TapeReadable THEN tape[pos + 1] ELSE 0

ReadValue(offset) ==
    IF offset <= SerialData THEN ReadSerial(offset)
    ELSE IF offset <= TapeData THEN ReadTape(offset)
    ELSE 0

-----------------------------------------------------------------------------
(* TTY::read: the side effects of reading a register.                      *)

ReadSerialDataFault_StaysReady == UNCHANGED <<serial, deck>>     \* NoByteLostOrRepeated

ReadSerialData ==
    /\ rxReady' = FALSE
    /\ UNCHANGED <<rxByte, out, deck>>

(* An absent deck or a stopped motor is an error but not an end of tape.   *)
ReadTapeStopped ==
    /\ Backing = "none" \/ ~motor
    /\ err' = TRUE
    /\ UNCHANGED <<tape, pos, motor, eot>>

ReadTapeEnd ==
    /\ Backing # "none" /\ motor /\ ~TapeReadable
    /\ eot' = TRUE /\ err' = TRUE
    /\ UNCHANGED <<tape, pos, motor>>

ReadTapeByte ==
    /\ TapeReadable
    /\ eot' = FALSE /\ err' = FALSE
    /\ pos' = pos + 1
    /\ UNCHANGED <<tape, motor>>

ReadTapeData == (ReadTapeStopped \/ ReadTapeEnd \/ ReadTapeByte) /\ UNCHANGED serial

TtyRead(offset) ==
    \/ offset = SerialData /\ ReadSerialData
    \/ offset = TapeData /\ ReadTapeData
    \/ offset \notin {SerialData, TapeData} /\ UNCHANGED ttyVars

-----------------------------------------------------------------------------
(* TTY::write.                                                             *)

WriteSerialData(val) ==
    /\ out' = Append(out, val)
    /\ UNCHANGED <<rxByte, rxReady, deck>>

WriteTapeControlFault_StepsBack(val) ==                          \* TypeOK
    /\ motor' = (val % 2 = 1)
    /\ IF (val \div 2) % 2 = 1
       THEN pos' = pos - 1 /\ eot' = FALSE /\ err' = FALSE
       ELSE UNCHANGED <<pos, eot, err>>
    /\ UNCHANGED <<serial, tape>>

WriteTapeControlFault_KeepsEot(val) ==                           \* EotMeansAtEnd
    /\ motor' = (val % 2 = 1)
    /\ IF (val \div 2) % 2 = 1 THEN pos' = 0 /\ err' = FALSE
                               ELSE UNCHANGED <<pos, err>>
    /\ UNCHANGED <<serial, tape, eot>>

WriteTapeControl(val) ==
    /\ motor' = (val % 2 = 1)
    /\ IF (val \div 2) % 2 = 1
       THEN pos' = 0 /\ eot' = FALSE /\ err' = FALSE
       ELSE UNCHANGED <<pos, eot, err>>
    /\ UNCHANGED <<serial, tape>>

WriteTapeStopped ==
    /\ Backing = "none" \/ ~motor
    /\ err' = TRUE
    /\ UNCHANGED <<tape, pos, motor, eot>>

PunchFault_NeverExtends(val) ==                                  \* FailedWriteReported
    IF pos < Len(tape) THEN [tape EXCEPT ![pos + 1] = val] ELSE tape

(* The head advances and the flags clear whether or not the stream took    *)
(* the byte: put() and flush() are not checked, so a stream that never     *)
(* opened swallows it.                                                     *)
Punch(val) ==
    IF Backing # "open" THEN tape
    ELSE IF pos < Len(tape) THEN [tape EXCEPT ![pos + 1] = val]
    ELSE Append(tape, val)

WriteTapeByteFault_Overruns(val) ==                              \* HeadOnTape
    /\ Backing # "none" /\ motor
    /\ tape' = Punch(val)
    /\ pos' = pos + 2
    /\ eot' = FALSE /\ err' = FALSE
    /\ UNCHANGED motor

WriteTapeByteFault_NoClear(val) ==                               \* DataAccessReports
    /\ Backing # "none" /\ motor
    /\ tape' = Punch(val)
    /\ pos' = pos + 1
    /\ UNCHANGED <<motor, eot, err>>

WriteTapeByte(val) ==
    /\ Backing # "none" /\ motor
    /\ tape' = Punch(val)
    /\ pos' = pos + 1
    /\ eot' = FALSE /\ err' = FALSE
    /\ UNCHANGED motor

WriteTapeData(val) == (WriteTapeStopped \/ WriteTapeByte(val)) /\ UNCHANGED serial

TtyWrite(offset, val) ==
    \/ offset = SerialData /\ WriteSerialData(val)
    \/ offset = TapeControl /\ WriteTapeControl(val)
    \/ offset = TapeData /\ WriteTapeData(val)
    \/ offset \notin {SerialData, TapeControl, TapeData} /\ UNCHANGED ttyVars

-----------------------------------------------------------------------------
(* TTY::receive: a byte offered by the host is latched only when the       *)
(* holding register is free, and silently dropped otherwise.               *)
Receive(byte) ==
    /\ IF rxReady THEN UNCHANGED <<rxByte, rxReady>>
                  ELSE rxByte' = byte /\ rxReady' = TRUE
    /\ UNCHANGED <<out, deck>>
=============================================================================
