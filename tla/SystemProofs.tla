----------------------------- MODULE SystemProofs -----------------------------
(***************************************************************************)
(* The step loop loses nothing that is typed, whatever is typed, at        *)
(* whatever pace, and whatever program the machine runs, the monitor's ROM *)
(* or one that RUN started.                                                *)
(*                                                                         *)
(* The monitor's ROM keeps its stack and its memory in order.  First, byte *)
(* by byte of the ROM, how each instruction of each routine flows          *)
(* (...Code, ...Flows); then what an instruction that flows so does to the *)
(* chain of frames; then StackInv, and what it says at the prompt.         *)
(***************************************************************************)
EXTENDS MonitorCode, TtyLemmas

(* The only thing an instruction can do to the serial port is to take what *)
(* the holding register holds.                                             *)
TakesOrLeaves == rxByte' = rxByte /\ rxReady' \in {rxReady, FALSE}

LEMMA ReadTakes ==
    ASSUME rxReady \in BOOLEAN, NEW offset, TtyRead(offset)
    PROVE  TakesOrLeaves
<1>1. CASE ReadSerialData
  BY <1>1 DEF ReadSerialData, TakesOrLeaves
<1>2. CASE ReadTapeData
  BY <1>2 DEF ReadTapeData, serial, TakesOrLeaves
<1>3. CASE UNCHANGED ttyVars
  BY <1>3 DEF ttyVars, TakesOrLeaves
<1> QED BY <1>1, <1>2, <1>3 DEF TtyRead

LEMMA WriteLeaves ==
    ASSUME rxReady \in BOOLEAN, NEW offset, NEW val, TtyWrite(offset, val)
    PROVE  TakesOrLeaves
<1>1. CASE WriteSerialData(val)
  BY <1>1 DEF WriteSerialData, TakesOrLeaves
<1>2. CASE WriteTapeControl(val)
  BY <1>2 DEF WriteTapeControl, serial, TakesOrLeaves
<1>3. CASE WriteTapeData(val)
  BY <1>3 DEF WriteTapeData, serial, TakesOrLeaves
<1>4. CASE UNCHANGED ttyVars
  BY <1>4 DEF ttyVars, TakesOrLeaves
<1> QED BY <1>1, <1>2, <1>3, <1>4 DEF TtyWrite

LEMMA DeviceAccessTakes ==
    ASSUME rxReady \in BOOLEAN, DeviceAccess
    PROVE  TakesOrLeaves
<1>1. ASSUME TtyRead(Address - TtyBase) PROVE TakesOrLeaves
  BY <1>1, ReadTakes
<1>2. ASSUME TtyWrite(Address - TtyBase, Source) PROVE TakesOrLeaves
  BY <1>2, WriteLeaves
<1>3. ASSUME UNCHANGED ttyVars PROVE TakesOrLeaves
  BY <1>3 DEF ttyVars, TakesOrLeaves
<1> QED BY <1>1, <1>2, <1>3, Zenon DEF DeviceAccess

-----------------------------------------------------------------------------
(* What the loss-freedom needs to be inductive: the types of the serial    *)
(* side, and that the CPU still stands where power-on put it - in RAM, not *)
(* in the device - when the reset is due.                                  *)
SerialOK ==
    /\ rxByte \in TtyByte /\ rxReady \in BOOLEAN
    /\ keyboard \in Seq(TtyByte) /\ delivered \in Seq(TtyByte)
    /\ later \in Seq(Texts)

DeliveryInv == SerialOK /\ NothingTypedIsLost /\ (turn = "reset" => PC = 0)

(* Isa6502 says nothing of an instruction that lies in the device's page,  *)
(* finds a pointer or the stack there or modifies a device register.       *)
OrdinaryProgram == turn = "execute" => ~Unpromised

LEMMA TextsAreTyped ==
    /\ Texts \subseteq Seq(TtyByte)
    /\ \A s \in Scenarios : s.typed \in Texts /\ s.later \in Seq(Texts)
<1>1. \A s \in Scenarios :
          s.typed \in Seq(TtyByte) /\ s.later \in Seq(Seq(TtyByte)) /\ s.tape \in Seq(TtyByte)
  BY SystemAssumption
<1>2. \A s \in Scenarios : \A i \in DOMAIN s.later : s.later[i] \in Seq(TtyByte)
  BY <1>1
<1>3. Texts \subseteq Seq(TtyByte)
  BY <1>1, <1>2 DEF Texts
<1>4. \A s \in Scenarios : s.typed \in Texts /\ \A i \in DOMAIN s.later : s.later[i] \in Texts
  BY DEF Texts
<1>5. \A s \in Scenarios : s.later \in Seq(Texts)
  <2> SUFFICES ASSUME NEW s \in Scenarios PROVE s.later \in Seq(Texts)
    OBVIOUS
  <2> DEFINE texts == s.later
  <2>1. texts \in Seq(Seq(TtyByte)) /\ \A i \in DOMAIN texts : texts[i] \in Texts
    BY <1>1, <1>4
  <2> HIDE DEF texts
  <2>2. Len(texts) \in Nat /\ DOMAIN texts = 1 .. Len(texts) /\ texts = [i \in 1 .. Len(texts) |-> texts[i]]
    BY <2>1
  <2>3. texts \in Seq(Texts)
    BY <2>1, <2>2
  <2> QED BY <2>3 DEF texts
<1> QED BY <1>3, <1>4, <1>5

LEMMA HeldIsSeq ==
    ASSUME SerialOK
    PROVE  Held \in Seq(TtyByte)
  BY DEF SerialOK, Held

LEMMA DeliveryInit == TraceInit => DeliveryInv
<1> SUFFICES ASSUME TraceInit PROVE DeliveryInv
  OBVIOUS
<1>1. delivered = <<>> /\ rxReady = FALSE /\ rxByte = 0 /\ PC = 0
  BY DEF TraceInit, PowerOn, TtyInit
<1>2. keyboard \in Seq(TtyByte) /\ keyboard \in Texts /\ later \in Seq(Texts)
  <2>1. PICK s \in Scenarios : keyboard = s.typed /\ later = s.later /\ tape = s.tape
    BY DEF TraceInit, PowerOn
  <2> QED BY <2>1, TextsAreTyped
<1>3. SerialOK
  <2>1. <<>> \in Seq(TtyByte)
    OBVIOUS
  <2>2. 0 \in TtyByte
    BY DEF TtyByte
  <2> QED BY <1>1, <1>2, <2>1, <2>2, Zenon DEF SerialOK
<1>4. <<>> \o <<>> \o keyboard = keyboard
  BY <1>2, ConcatEmptySeq
<1>5. NothingTypedIsLost
  BY <1>1, <1>2, <1>4 DEF NothingTypedIsLost, Held
<1> QED BY <1>1, <1>3, <1>5 DEF DeliveryInv

(* A byte polled moves from the front of the keyboard into the register,   *)
(* which was empty.                                                        *)
LEMMA PollKeeps ==
    ASSUME DeliveryInv, TracePoll
    PROVE  DeliveryInv'
<1>0. SerialOK /\ NothingTypedIsLost /\ delivered' = delivered /\ turn' = "execute"
      /\ later' = later
  BY DEF DeliveryInv, TracePoll, Poll
<1>1. CASE PollNothing
  BY <1>0, <1>1 DEF PollNothing, ttyVars, DeliveryInv, SerialOK, NothingTypedIsLost, Held
<1>2. CASE PollByte
  <2> DEFINE c == Head(keyboard)
             rest == Tail(keyboard)
  <2>1. c \in TtyByte /\ rest \in Seq(TtyByte)
    BY <1>0, <1>2, HeadTailProperties DEF PollByte, TerminalGives, SerialOK
  <2>2. rxByte' = c /\ rxReady' = TRUE /\ keyboard' = rest /\ ~rxReady
    BY <1>2 DEF PollByte, Receive
  <2>3. SerialOK'
    BY <1>0, <2>1, <2>2 DEF SerialOK
  <2>4. keyboard = <<c>> \o rest
    <3> HIDE DEF c, rest
    <3>1. keyboard = <<Head(keyboard)>> \o Tail(keyboard)
      BY <1>0, <1>2 DEF PollByte, TerminalGives, SerialOK
    <3> QED BY <3>1 DEF c, rest
  <2>5. delivered \o Held \o keyboard = delivered \o (<<c>> \o rest)
    BY <1>0, <2>2, <2>4, ConcatEmptySeq DEF Held, SerialOK
  <2>6. (delivered \o Held \o keyboard)' = (delivered \o <<c>>) \o rest
    BY <1>0, <2>2 DEF Held
  <2>7. <<c>> \in Seq(TtyByte)
    BY <2>1
  <2>8. (delivered \o <<c>>) \o rest = delivered \o (<<c>> \o rest)
    BY <1>0, <2>1, <2>7, ConcatAssociative DEF SerialOK
  <2>9. NothingTypedIsLost'
    BY <1>0, <2>5, <2>6, <2>8 DEF NothingTypedIsLost
  <2> QED BY <1>0, <2>3, <2>9 DEF DeliveryInv
<1> QED BY <1>1, <1>2 DEF TracePoll, Poll

(* A byte the instruction takes moves from the register to the end of what *)
(* was delivered.                                                          *)
LEMMA InstructKeeps ==
    ASSUME DeliveryInv, OrdinaryProgram, TraceInstruct
    PROVE  DeliveryInv'
<1>0. SerialOK /\ NothingTypedIsLost /\ keyboard' = keyboard /\ turn' = "poll"
      /\ later' = later
  BY DEF DeliveryInv, TraceInstruct, Instruct
<1>1. DeviceAccess
  BY DEF TraceInstruct, Instruct, Execute, OrdinaryProgram
<1>2. TakesOrLeaves
  BY <1>0, <1>1, DeviceAccessTakes DEF SerialOK
<1>3. delivered' = delivered \o (IF rxReady /\ ~rxReady' THEN <<rxByte>> ELSE <<>>)
  BY DEF TraceInstruct
<1>4. CASE rxReady /\ ~rxReady'
  <2>1. delivered' = delivered \o Held /\ Held' = <<>>
    BY <1>3, <1>4 DEF Held
  <2>2. delivered' \in Seq(TtyByte)
    BY <1>0, <2>1, HeldIsSeq, ConcatProperties DEF SerialOK
  <2>3. delivered' \o Held' = delivered \o Held
    BY <2>1, <2>2, ConcatEmptySeq
  <2> QED
    BY <1>0, <1>2, <2>2, <2>3 DEF DeliveryInv, SerialOK, NothingTypedIsLost, TakesOrLeaves
<1>5. CASE ~(rxReady /\ ~rxReady')
  <2>1. rxReady' = rxReady
    BY <1>0, <1>2, <1>5 DEF TakesOrLeaves, SerialOK
  <2>2. delivered' = delivered
    BY <1>0, <1>3, <1>5, ConcatEmptySeq DEF SerialOK
  <2>3. Held' = Held
    BY <1>2, <2>1 DEF Held, TakesOrLeaves
  <2> QED
    BY <1>0, <1>2, <2>1, <2>2, <2>3
    DEF DeliveryInv, SerialOK, NothingTypedIsLost, TakesOrLeaves
<1> QED BY <1>4, <1>5

LEMMA ResetKeeps ==
    ASSUME DeliveryInv, TraceReset
    PROVE  DeliveryInv'
<1>1. PC = 0 /\ turn' = "poll" /\ Reset /\ keyboard' = keyboard /\ delivered' = delivered
      /\ later' = later
  BY DEF DeliveryInv, TraceReset, SystemReset
<1>2. PC \notin TtyPage
  BY <1>1, MapAssumption, SystemAssumption
<1>3. UNCHANGED <<rxByte, rxReady>>
  BY <1>1, <1>2 DEF Reset, ttyVars
<1> QED
  BY <1>1, <1>3 DEF DeliveryInv, SerialOK, NothingTypedIsLost, Held

(* A new process begins with a text of its own, of which nothing has been  *)
(* read.                                                                   *)
LEMMA RestartKeeps ==
    ASSUME DeliveryInv, TraceRestart
    PROVE  DeliveryInv'
<1>1. /\ rxByte' = 0 /\ rxReady' = FALSE /\ PC' = 0 /\ delivered' = <<>>
      /\ keyboard' = Head(later) /\ later' = Tail(later) /\ later # <<>> /\ later \in Seq(Texts)
  BY DEF TraceRestart, Restart, DeliveryInv, SerialOK
<1>2. keyboard' \in Texts /\ later' \in Seq(Texts)
  BY <1>1, HeadTailProperties
<1>3. keyboard' \in Seq(TtyByte)
  BY <1>2, TextsAreTyped
<1>4. rxByte' \in TtyByte /\ delivered' \in Seq(TtyByte)
  BY <1>1 DEF TtyByte
<1>5. SerialOK'
  BY <1>1, <1>2, <1>3, <1>4, Zenon DEF SerialOK
<1>6. <<>> \o <<>> \o keyboard' = keyboard'
  BY <1>3, ConcatEmptySeq
<1>7. NothingTypedIsLost'
  BY <1>1, <1>2, <1>6 DEF NothingTypedIsLost, Held
<1> QED BY <1>1, <1>5, <1>7 DEF DeliveryInv

(* NothingTypedIsLost: for every script, tape, memory map and program, and *)
(* every interleaving of typing with instructions and restarts, each byte  *)
(* typed at a process is read once and in order, or still waits            *)
(* (System::step, TTY::receive).                                           *)
THEOREM StepLosesNothing == TraceSpec /\ []OrdinaryProgram => []NothingTypedIsLost
<1>1. DeliveryInv /\ OrdinaryProgram /\ [TraceNext]_traceVars => DeliveryInv'
  <2> SUFFICES ASSUME DeliveryInv, OrdinaryProgram, [TraceNext]_traceVars
               PROVE  DeliveryInv'
    OBVIOUS
  <2>1. CASE TraceInstruct
    BY <2>1, InstructKeeps
  <2>2. CASE TracePoll
    BY <2>2, PollKeeps
  <2>3. CASE TraceReset
    BY <2>3, ResetKeeps
  <2>4. CASE TraceRestart
    BY <2>4, RestartKeeps
  <2>5. CASE UNCHANGED traceVars
    BY <2>5 DEF traceVars, systemVars, registers, busVars, serial, deck, DeliveryInv,
                SerialOK, NothingTypedIsLost, Held
  <2> QED BY <2>1, <2>2, <2>3, <2>4, <2>5 DEF TraceNext, TraceRun
<1>2. DeliveryInv => NothingTypedIsLost
  BY DEF DeliveryInv
<1> QED BY DeliveryInit, <1>1, <1>2, PTL DEF TraceSpec

-----------------------------------------------------------------------------
(* The instructions by what they do to the stack, to memory and to the     *)
(* flow of control: opcodes of one, two and three bytes that only compute, *)
(* those that store into page zero, and the branches.                      *)
Computes1 == {\h18, \h38, \h4A, \hC8, \hCA, \hE8}
Computes2 ==
    {\h05, \h29, \h45, \h69, \hA0, \hA2, \hA5, \hA6, \hA9, \hB1, \hB5, \hC5, \hC9, \hE0,
     \hE4, \hE5, \hE9}
Stores2 == {\h06, \h26, \h85, \h86, \hC6, \hE6}
Branches2 == {\h90, \hB0, \hD0, \hF0}

Op(a) == FirmwareRom[a]
Operand16(a) == FirmwareRom[a + 1] + 256 * FirmwareRom[a + 2]
Loaded2(a) == a \in LoadedAddr /\ a + 1 \in LoadedAddr
Loaded3(a) == Loaded2(a) /\ a + 2 \in LoadedAddr

(* b goes on where a is in the routine, with the same byte pushed or none. *)
Within(r, b, a) == b \in r.starts /\ Own(r, b) = Own(r, a)

Computes(r, a) ==
    \/ a \in LoadedAddr /\ Op(a) \in Computes1 /\ Within(r, a + 1, a)
    \/ Loaded2(a) /\ Op(a) \in Computes2 /\ Within(r, a + 2, a)
    \/ Loaded3(a) /\ Op(a) = \hAD /\ Within(r, a + 3, a)

(* A store into the work area, into the device's page, through ADDR or,    *)
(* READ_LINE's, into LINEBUF.                                              *)
Keeps(r, a) ==
    \/ Loaded2(a) /\ Op(a) \in Stores2 /\ Op(a + 1) \in WorkArea /\ Within(r, a + 2, a)
    \/ /\ Loaded3(a) /\ Op(a) = \h8D /\ Within(r, a + 3, a)
       /\ Operand16(a) \in Nat /\ \h8000 <= Operand16(a) /\ Operand16(a) < \h8100
    \/ Loaded2(a) /\ Op(a) = \h91 /\ Within(r, a + 2, a)
    \/ Loaded2(a) /\ Op(a) = \h95 /\ Op(a + 1) = 0 /\ a = \hC415 /\ Within(r, a + 2, a)

Forks(r, a) ==
    /\ Loaded2(a) /\ Op(a) \in Branches2
    /\ Within(r, a + 2, a) /\ Within(r, a + 2 + Signed(Op(a + 1)), a)

JumpsWithin(r, a) == Loaded3(a) /\ Op(a) = \h4C /\ Within(r, Operand16(a), a)

(* A routine is entered at its first instruction.  A tail call: the other  *)
(* routine returns to this one's callers.                                  *)
Enters(t, a) ==
    /\ Operand16(a) \in t.starts /\ \A b \in t.starts : Operand16(a) <= b
    /\ Own(t, Operand16(a)) = 0
JumpsTo(r, a, t) ==
    /\ Loaded3(a) /\ Op(a) = \h4C /\ Enters(t, a) /\ Own(r, a) = 0
    /\ r.rank > 0 /\ r.rank <= t.rank /\ r.returns \subseteq t.returns

Calls(r, a, t) ==
    /\ Loaded3(a) /\ Op(a) = \h20 /\ Enters(t, a)
    /\ Within(r, a + 3, a) /\ a + 3 \in t.returns /\ r.rank < t.rank

Returns(r, a) == a \in LoadedAddr /\ Op(a) = \h60 /\ Own(r, a) = 0 /\ r.rank > 0

Pushes(r, a) ==
    /\ a \in LoadedAddr /\ Op(a) = \h48
    /\ Own(r, a) = 0 /\ a + 1 \in r.starts /\ Own(r, a + 1) = 1
Pulls(r, a) ==
    /\ a \in LoadedAddr /\ Op(a) = \h68
    /\ Own(r, a) = 1 /\ a + 1 \in r.starts /\ Own(r, a + 1) = 0

Flows(r, a) ==
    \/ Computes(r, a) \/ Keeps(r, a) \/ Forks(r, a) \/ JumpsWithin(r, a)
    \/ \E t \in Routines : JumpsTo(r, a, t) \/ Calls(r, a, t)
    \/ Returns(r, a) \/ Pushes(r, a) \/ Pulls(r, a)
(* Where a routine that holds an address begins: at its page's first byte, *)
(* but for PRINT_NIBBLE, which shares one, and the vectors.                *)
BeginsAt(s, a) ==
    /\ \hC000 <= a /\ a < \hD300 => s[1] = a - (a % 256) \/ s[1] = \hC220
    /\ \hC220 <= a /\ a < \hC300 => s[1] = \hC220
    /\ s[1] = \hC220 => \hC220 <= a /\ a < \hC300
    /\ \hFFFC <= a /\ a < \hFFFE => s[1] = \hFFFC

LEMMA Beginning ==
    ASSUME NEW s \in Installed, NEW a \in Extent(s)
    PROVE  BeginsAt(s, a)
<1>1. CASE s = <<\hC000, kGetCharHex>>
  <2>1. Extent(<<\hC000, kGetCharHex>>) = \hC000 .. \hC00A
    BY DEF Extent, kGetCharHex
  <2>2. a \in \hC000 .. \hC00A
    BY <1>1, <2>1
  <2>3. s[1] = \hC000
    BY <1>1
  <2> QED BY <2>2, <2>3 DEF BeginsAt
<1>2. CASE s = <<\hC100, kPutCharHex>>
  <2>1. Extent(<<\hC100, kPutCharHex>>) = \hC100 .. \hC103
    BY DEF Extent, kPutCharHex
  <2>2. a \in \hC100 .. \hC103
    BY <1>2, <2>1
  <2>3. s[1] = \hC100
    BY <1>2
  <2> QED BY <2>2, <2>3 DEF BeginsAt
<1>3. CASE s = <<\hC200, kPrintHexByteHex>>
  <2>1. Extent(<<\hC200, kPrintHexByteHex>>) = \hC200 .. \hC20E
    BY DEF Extent, kPrintHexByteHex
  <2>2. a \in \hC200 .. \hC20E
    BY <1>3, <2>1
  <2>3. s[1] = \hC200
    BY <1>3
  <2> QED BY <2>2, <2>3 DEF BeginsAt
<1>4. CASE s = <<\hC220, kPrintNibbleHex>>
  <2>1. Extent(<<\hC220, kPrintNibbleHex>>) = \hC220 .. \hC22D
    BY DEF Extent, kPrintNibbleHex
  <2>2. a \in \hC220 .. \hC22D
    BY <1>4, <2>1
  <2>3. s[1] = \hC220
    BY <1>4
  <2> QED BY <2>2, <2>3 DEF BeginsAt
<1>5. CASE s = <<\hC300, kPrintStringHex>>
  <2>1. Extent(<<\hC300, kPrintStringHex>>) = \hC300 .. \hC30D
    BY DEF Extent, kPrintStringHex
  <2>2. a \in \hC300 .. \hC30D
    BY <1>5, <2>1
  <2>3. s[1] = \hC300
    BY <1>5
  <2> QED BY <2>2, <2>3 DEF BeginsAt
<1>6. CASE s = <<\hC400, kReadLineHex>>
  <2>1. Extent(<<\hC400, kReadLineHex>>) = \hC400 .. \hC441
    BY DEF Extent, kReadLineHex
  <2>2. a \in \hC400 .. \hC441
    BY <1>6, <2>1
  <2>3. s[1] = \hC400
    BY <1>6
  <2> QED BY <2>2, <2>3 DEF BeginsAt
<1>7. CASE s = <<\hC500, kParseAddrHex>>
  <2>1. Extent(<<\hC500, kParseAddrHex>>) = \hC500 .. \hC539
    BY DEF Extent, kParseAddrHex
  <2>2. a \in \hC500 .. \hC539
    BY <1>7, <2>1
  <2>3. s[1] = \hC500
    BY <1>7
  <2> QED BY <2>2, <2>3 DEF BeginsAt
<1>8. CASE s = <<\hC600, kParseByteHex>>
  <2>1. Extent(<<\hC600, kParseByteHex>>) = \hC600 .. \hC635
    BY DEF Extent, kParseByteHex
  <2>2. a \in \hC600 .. \hC635
    BY <1>8, <2>1
  <2>3. s[1] = \hC600
    BY <1>8
  <2> QED BY <2>2, <2>3 DEF BeginsAt
<1>9. CASE s = <<\hC700, kHexValHex>>
  <2>1. Extent(<<\hC700, kHexValHex>>) = \hC700 .. \hC728
    BY DEF Extent, kHexValHex
  <2>2. a \in \hC700 .. \hC728
    BY <1>9, <2>1
  <2>3. s[1] = \hC700
    BY <1>9
  <2> QED BY <2>2, <2>3 DEF BeginsAt
<1>10. CASE s = <<\hC800, kDispatchHex>>
  <2>1. Extent(<<\hC800, kDispatchHex>>) = \hC800 .. \hC897
    BY DEF Extent, kDispatchHex
  <2>2. a \in \hC800 .. \hC897
    BY <1>10, <2>1
  <2>3. s[1] = \hC800
    BY <1>10
  <2> QED BY <2>2, <2>3 DEF BeginsAt
<1>11. CASE s = <<\hCA00, kPeekHex>>
  <2>1. Extent(<<\hCA00, kPeekHex>>) = \hCA00 .. \hCA25
    BY DEF Extent, kPeekHex
  <2>2. a \in \hCA00 .. \hCA25
    BY <1>11, <2>1
  <2>3. s[1] = \hCA00
    BY <1>11
  <2> QED BY <2>2, <2>3 DEF BeginsAt
<1>12. CASE s = <<\hCB00, kListHex>>
  <2>1. Extent(<<\hCB00, kListHex>>) = \hCB00 .. \hCB65
    BY DEF Extent, kListHex
  <2>2. a \in \hCB00 .. \hCB65
    BY <1>12, <2>1
  <2>3. s[1] = \hCB00
    BY <1>12
  <2> QED BY <2>2, <2>3 DEF BeginsAt
<1>13. CASE s = <<\hCC00, kPokeHex>>
  <2>1. Extent(<<\hCC00, kPokeHex>>) = \hCC00 .. \hCC27
    BY DEF Extent, kPokeHex
  <2>2. a \in \hCC00 .. \hCC27
    BY <1>13, <2>1
  <2>3. s[1] = \hCC00
    BY <1>13
  <2> QED BY <2>2, <2>3 DEF BeginsAt
<1>14. CASE s = <<\hCD00, kRunHex>>
  <2>1. Extent(<<\hCD00, kRunHex>>) = \hCD00 .. \hCD13
    BY DEF Extent, kRunHex
  <2>2. a \in \hCD00 .. \hCD13
    BY <1>14, <2>1
  <2>3. s[1] = \hCD00
    BY <1>14
  <2> QED BY <2>2, <2>3 DEF BeginsAt
<1>15. CASE s = <<\hCE00, kDataHex>>
  <2>1. Extent(<<\hCE00, kDataHex>>) = \hCE00 .. \hCE11
    BY DEF Extent, kDataHex
  <2>2. a \in \hCE00 .. \hCE11
    BY <1>15, <2>1
  <2>3. s[1] = \hCE00
    BY <1>15
  <2> QED BY <2>2, <2>3 DEF BeginsAt
<1>16. CASE s = <<\hCF00, kMainHex>>
  <2>1. Extent(<<\hCF00, kMainHex>>) = \hCF00 .. \hCF3F
    BY DEF Extent, kMainHex
  <2>2. a \in \hCF00 .. \hCF3F
    BY <1>16, <2>1
  <2>3. s[1] = \hCF00
    BY <1>16
  <2> QED BY <2>2, <2>3 DEF BeginsAt
<1>17. CASE s = <<\hD000, kSaveHex>>
  <2>1. Extent(<<\hD000, kSaveHex>>) = \hD000 .. \hD07F
    BY DEF Extent, kSaveHex
  <2>2. a \in \hD000 .. \hD07F
    BY <1>17, <2>1
  <2>3. s[1] = \hD000
    BY <1>17
  <2> QED BY <2>2, <2>3 DEF BeginsAt
<1>18. CASE s = <<\hD100, kLoadHex>>
  <2>1. Extent(<<\hD100, kLoadHex>>) = \hD100 .. \hD17E
    BY DEF Extent, kLoadHex
  <2>2. a \in \hD100 .. \hD17E
    BY <1>18, <2>1
  <2>3. s[1] = \hD100
    BY <1>18
  <2> QED BY <2>2, <2>3 DEF BeginsAt
<1>19. CASE s = <<\hD200, kRewindHex>>
  <2>1. Extent(<<\hD200, kRewindHex>>) = \hD200 .. \hD21F
    BY DEF Extent, kRewindHex
  <2>2. a \in \hD200 .. \hD21F
    BY <1>19, <2>1
  <2>3. s[1] = \hD200
    BY <1>19
  <2> QED BY <2>2, <2>3 DEF BeginsAt
<1>20. CASE s = <<\hFFFA, <<\h0E, \hCF>> >>
  <2>1. Extent(<<\hFFFA, <<\h0E, \hCF>> >>) = \hFFFA .. \hFFFB
    BY DEF Extent
  <2>2. a \in \hFFFA .. \hFFFB
    BY <1>20, <2>1
  <2>3. s[1] = \hFFFA
    BY <1>20
  <2> QED BY <2>2, <2>3 DEF BeginsAt
<1>21. CASE s = <<\hFFFC, <<\h00, \hCF>> >>
  <2>1. Extent(<<\hFFFC, <<\h00, \hCF>> >>) = \hFFFC .. \hFFFD
    BY DEF Extent
  <2>2. a \in \hFFFC .. \hFFFD
    BY <1>21, <2>1
  <2>3. s[1] = \hFFFC
    BY <1>21
  <2> QED BY <2>2, <2>3 DEF BeginsAt
<1>22. CASE s = <<\hFFFE, <<\h0E, \hCF>> >>
  <2>1. Extent(<<\hFFFE, <<\h0E, \hCF>> >>) = \hFFFE .. \hFFFF
    BY DEF Extent
  <2>2. a \in \hFFFE .. \hFFFF
    BY <1>22, <2>1
  <2>3. s[1] = \hFFFE
    BY <1>22
  <2> QED BY <2>2, <2>3 DEF BeginsAt
<1> QED BY <1>1, <1>2, <1>3, <1>4, <1>5, <1>6, <1>7, <1>8, <1>9, <1>10, <1>11, <1>12, <1>13,
           <1>14, <1>15, <1>16, <1>17, <1>18, <1>19, <1>20, <1>21, <1>22 DEF Installed

(* No two routines overlap: what an address holds is what the one that     *)
(* was loaded there has.                                                   *)
LEMMA InstalledOnce ==
    ASSUME NEW s \in Installed, NEW t \in Installed, s[1] = t[1]
    PROVE  s[2] = t[2]
<1> QED BY DEF Installed

LEMMA RomBytes ==
    ASSUME NEW s \in Installed, NEW a \in Extent(s),
           (\hC000 <= a /\ a < \hD300) \/ (\hFFFC <= a /\ a < \hFFFE)
    PROVE  a \in LoadedAddr /\ FirmwareRom[a] = s[2][a - s[1] + 1]
<1>1. a \in LoadedAddr
  BY DEF LoadedAddr
<1> DEFINE t == CHOOSE r \in Installed : a \in Extent(r)
<1>2. t \in Installed /\ a \in Extent(t)
  OBVIOUS
<1>3. FirmwareRom[a] = t[2][a - t[1] + 1]
  BY <1>1 DEF FirmwareRom
<1> HIDE DEF t
<1>4. BeginsAt(s, a) /\ BeginsAt(t, a)
  BY <1>2, Beginning
<1>5. t[1] = s[1]
  BY <1>4 DEF BeginsAt
<1>6. t[2] = s[2]
  BY <1>2, <1>5, InstalledOnce
<1> QED BY <1>1, <1>3, <1>5, <1>6

LEMMA GetcharCode ==
    \A a \in \hC000 .. \hC00A : a \in LoadedAddr /\ FirmwareRom[a] = kGetCharHex[a - \hC000 + 1]
<1> DEFINE s == <<\hC000, kGetCharHex>>
<1>1. s \in Installed /\ s[1] = \hC000 /\ s[2] = kGetCharHex
  BY DEF Installed
<1>2. Extent(s) = \hC000 .. \hC00A
  BY DEF Extent, kGetCharHex
<1> HIDE DEF s
<1> QED BY <1>1, <1>2, RomBytes

LEMMA PutcharCode ==
    \A a \in \hC100 .. \hC103 : a \in LoadedAddr /\ FirmwareRom[a] = kPutCharHex[a - \hC100 + 1]
<1> DEFINE s == <<\hC100, kPutCharHex>>
<1>1. s \in Installed /\ s[1] = \hC100 /\ s[2] = kPutCharHex
  BY DEF Installed
<1>2. Extent(s) = \hC100 .. \hC103
  BY DEF Extent, kPutCharHex
<1> HIDE DEF s
<1> QED BY <1>1, <1>2, RomBytes

LEMMA PrintHexByteCode ==
    \A a \in \hC200 .. \hC20E :
        a \in LoadedAddr /\ FirmwareRom[a] = kPrintHexByteHex[a - \hC200 + 1]
<1> DEFINE s == <<\hC200, kPrintHexByteHex>>
<1>1. s \in Installed /\ s[1] = \hC200 /\ s[2] = kPrintHexByteHex
  BY DEF Installed
<1>2. Extent(s) = \hC200 .. \hC20E
  BY DEF Extent, kPrintHexByteHex
<1> HIDE DEF s
<1> QED BY <1>1, <1>2, RomBytes

LEMMA PrintNibbleCode ==
    \A a \in \hC220 .. \hC22D :
        a \in LoadedAddr /\ FirmwareRom[a] = kPrintNibbleHex[a - \hC220 + 1]
<1> DEFINE s == <<\hC220, kPrintNibbleHex>>
<1>1. s \in Installed /\ s[1] = \hC220 /\ s[2] = kPrintNibbleHex
  BY DEF Installed
<1>2. Extent(s) = \hC220 .. \hC22D
  BY DEF Extent, kPrintNibbleHex
<1> HIDE DEF s
<1> QED BY <1>1, <1>2, RomBytes

LEMMA PrintStringCode ==
    \A a \in \hC300 .. \hC30D :
        a \in LoadedAddr /\ FirmwareRom[a] = kPrintStringHex[a - \hC300 + 1]
<1> DEFINE s == <<\hC300, kPrintStringHex>>
<1>1. s \in Installed /\ s[1] = \hC300 /\ s[2] = kPrintStringHex
  BY DEF Installed
<1>2. Extent(s) = \hC300 .. \hC30D
  BY DEF Extent, kPrintStringHex
<1> HIDE DEF s
<1> QED BY <1>1, <1>2, RomBytes

LEMMA ReadLineCode ==
    \A a \in \hC400 .. \hC441 : a \in LoadedAddr /\ FirmwareRom[a] = kReadLineHex[a - \hC400 + 1]
<1> DEFINE s == <<\hC400, kReadLineHex>>
<1>1. s \in Installed /\ s[1] = \hC400 /\ s[2] = kReadLineHex
  BY DEF Installed
<1>2. Extent(s) = \hC400 .. \hC441
  BY DEF Extent, kReadLineHex
<1> HIDE DEF s
<1> QED BY <1>1, <1>2, RomBytes

LEMMA ParseAddrCode ==
    \A a \in \hC500 .. \hC539 : a \in LoadedAddr /\ FirmwareRom[a] = kParseAddrHex[a - \hC500 + 1]
<1> DEFINE s == <<\hC500, kParseAddrHex>>
<1>1. s \in Installed /\ s[1] = \hC500 /\ s[2] = kParseAddrHex
  BY DEF Installed
<1>2. Extent(s) = \hC500 .. \hC539
  BY DEF Extent, kParseAddrHex
<1> HIDE DEF s
<1> QED BY <1>1, <1>2, RomBytes

LEMMA ParseByteCode ==
    \A a \in \hC600 .. \hC635 : a \in LoadedAddr /\ FirmwareRom[a] = kParseByteHex[a - \hC600 + 1]
<1> DEFINE s == <<\hC600, kParseByteHex>>
<1>1. s \in Installed /\ s[1] = \hC600 /\ s[2] = kParseByteHex
  BY DEF Installed
<1>2. Extent(s) = \hC600 .. \hC635
  BY DEF Extent, kParseByteHex
<1> HIDE DEF s
<1> QED BY <1>1, <1>2, RomBytes

LEMMA HexvalCode ==
    \A a \in \hC700 .. \hC728 : a \in LoadedAddr /\ FirmwareRom[a] = kHexValHex[a - \hC700 + 1]
<1> DEFINE s == <<\hC700, kHexValHex>>
<1>1. s \in Installed /\ s[1] = \hC700 /\ s[2] = kHexValHex
  BY DEF Installed
<1>2. Extent(s) = \hC700 .. \hC728
  BY DEF Extent, kHexValHex
<1> HIDE DEF s
<1> QED BY <1>1, <1>2, RomBytes

LEMMA DispatchCode ==
    \A a \in \hC800 .. \hC897 : a \in LoadedAddr /\ FirmwareRom[a] = kDispatchHex[a - \hC800 + 1]
<1> DEFINE s == <<\hC800, kDispatchHex>>
<1>1. s \in Installed /\ s[1] = \hC800 /\ s[2] = kDispatchHex
  BY DEF Installed
<1>2. Extent(s) = \hC800 .. \hC897
  BY DEF Extent, kDispatchHex
<1> HIDE DEF s
<1> QED BY <1>1, <1>2, RomBytes

LEMMA PeekCode ==
    \A a \in \hCA00 .. \hCA25 : a \in LoadedAddr /\ FirmwareRom[a] = kPeekHex[a - \hCA00 + 1]
<1> DEFINE s == <<\hCA00, kPeekHex>>
<1>1. s \in Installed /\ s[1] = \hCA00 /\ s[2] = kPeekHex
  BY DEF Installed
<1>2. Extent(s) = \hCA00 .. \hCA25
  BY DEF Extent, kPeekHex
<1> HIDE DEF s
<1> QED BY <1>1, <1>2, RomBytes

LEMMA ListCode ==
    \A a \in \hCB00 .. \hCB65 : a \in LoadedAddr /\ FirmwareRom[a] = kListHex[a - \hCB00 + 1]
<1> DEFINE s == <<\hCB00, kListHex>>
<1>1. s \in Installed /\ s[1] = \hCB00 /\ s[2] = kListHex
  BY DEF Installed
<1>2. Extent(s) = \hCB00 .. \hCB65
  BY DEF Extent, kListHex
<1> HIDE DEF s
<1> QED BY <1>1, <1>2, RomBytes

LEMMA PokeCode ==
    \A a \in \hCC00 .. \hCC27 : a \in LoadedAddr /\ FirmwareRom[a] = kPokeHex[a - \hCC00 + 1]
<1> DEFINE s == <<\hCC00, kPokeHex>>
<1>1. s \in Installed /\ s[1] = \hCC00 /\ s[2] = kPokeHex
  BY DEF Installed
<1>2. Extent(s) = \hCC00 .. \hCC27
  BY DEF Extent, kPokeHex
<1> HIDE DEF s
<1> QED BY <1>1, <1>2, RomBytes

LEMMA RunCode ==
    \A a \in \hCD00 .. \hCD13 : a \in LoadedAddr /\ FirmwareRom[a] = kRunHex[a - \hCD00 + 1]
<1> DEFINE s == <<\hCD00, kRunHex>>
<1>1. s \in Installed /\ s[1] = \hCD00 /\ s[2] = kRunHex
  BY DEF Installed
<1>2. Extent(s) = \hCD00 .. \hCD13
  BY DEF Extent, kRunHex
<1> HIDE DEF s
<1> QED BY <1>1, <1>2, RomBytes

LEMMA MainLoopCode ==
    \A a \in \hCF00 .. \hCF3F : a \in LoadedAddr /\ FirmwareRom[a] = kMainHex[a - \hCF00 + 1]
<1> DEFINE s == <<\hCF00, kMainHex>>
<1>1. s \in Installed /\ s[1] = \hCF00 /\ s[2] = kMainHex
  BY DEF Installed
<1>2. Extent(s) = \hCF00 .. \hCF3F
  BY DEF Extent, kMainHex
<1> HIDE DEF s
<1> QED BY <1>1, <1>2, RomBytes

LEMMA SaveCode ==
    \A a \in \hD000 .. \hD07F : a \in LoadedAddr /\ FirmwareRom[a] = kSaveHex[a - \hD000 + 1]
<1> DEFINE s == <<\hD000, kSaveHex>>
<1>1. s \in Installed /\ s[1] = \hD000 /\ s[2] = kSaveHex
  BY DEF Installed
<1>2. Extent(s) = \hD000 .. \hD07F
  BY DEF Extent, kSaveHex
<1> HIDE DEF s
<1> QED BY <1>1, <1>2, RomBytes

LEMMA LoadCode ==
    \A a \in \hD100 .. \hD17E : a \in LoadedAddr /\ FirmwareRom[a] = kLoadHex[a - \hD100 + 1]
<1> DEFINE s == <<\hD100, kLoadHex>>
<1>1. s \in Installed /\ s[1] = \hD100 /\ s[2] = kLoadHex
  BY DEF Installed
<1>2. Extent(s) = \hD100 .. \hD17E
  BY DEF Extent, kLoadHex
<1> HIDE DEF s
<1> QED BY <1>1, <1>2, RomBytes

LEMMA RewindCode ==
    \A a \in \hD200 .. \hD21F : a \in LoadedAddr /\ FirmwareRom[a] = kRewindHex[a - \hD200 + 1]
<1> DEFINE s == <<\hD200, kRewindHex>>
<1>1. s \in Installed /\ s[1] = \hD200 /\ s[2] = kRewindHex
  BY DEF Installed
<1>2. Extent(s) = \hD200 .. \hD21F
  BY DEF Extent, kRewindHex
<1> HIDE DEF s
<1> QED BY <1>1, <1>2, RomBytes

LEMMA GetcharFlows == \A a \in GETCHAR.starts : Flows(GETCHAR, a)
<1>1. \A a \in {\hC000, \hC003, \hC007} : Computes(GETCHAR, a)
  BY GetcharCode DEF Computes, Computes1, Computes2, Loaded2, Loaded3, Op, Within, Own,
     GETCHAR, kGetCharHex
<1>2. \A a \in {\hC005} : Forks(GETCHAR, a)
  BY GetcharCode DEF Forks, Branches2, Loaded2, Op, Signed, Within, Own, GETCHAR,
     kGetCharHex
<1>3. \A a \in {\hC00A} : Returns(GETCHAR, a)
  BY GetcharCode DEF Returns, Op, Own, GETCHAR, kGetCharHex
<1> QED BY <1>1, <1>2, <1>3 DEF Flows, GETCHAR

LEMMA PutcharFlows == \A a \in PUTCHAR.starts : Flows(PUTCHAR, a)
<1>1. \A a \in {\hC100} : Keeps(PUTCHAR, a)
  BY PutcharCode DEF Keeps, Stores2, Loaded2, Loaded3, Op, Operand16, WorkArea, Within,
     Own, PUTCHAR, kPutCharHex
<1>2. \A a \in {\hC103} : Returns(PUTCHAR, a)
  BY PutcharCode DEF Returns, Op, Own, PUTCHAR, kPutCharHex
<1> QED BY <1>1, <1>2 DEF Flows, PUTCHAR

LEMMA PrintHexByteFlows == \A a \in PRINT_HEX_BYTE.starts : Flows(PRINT_HEX_BYTE, a)
<1>1. \A a \in {\hC200} : Pushes(PRINT_HEX_BYTE, a)
  BY PrintHexByteCode DEF Pushes, Op, Own, PRINT_HEX_BYTE, kPrintHexByteHex
<1>2. \A a \in {\hC201, \hC202, \hC203, \hC204, \hC209} : Computes(PRINT_HEX_BYTE, a)
  BY PrintHexByteCode DEF Computes, Computes1, Computes2, Loaded2, Loaded3, Op, Within,
     Own, PRINT_HEX_BYTE, kPrintHexByteHex
<1>3. \A a \in {\hC205, \hC20B} : Calls(PRINT_HEX_BYTE, a, PRINT_NIBBLE)
  BY PrintHexByteCode DEF Calls, Enters, Loaded2, Loaded3, Op, Operand16, Within, Own,
     PRINT_HEX_BYTE, PRINT_NIBBLE, kPrintHexByteHex
<1>4. \A a \in {\hC208} : Pulls(PRINT_HEX_BYTE, a)
  BY PrintHexByteCode DEF Pulls, Op, Own, PRINT_HEX_BYTE, kPrintHexByteHex
<1>5. \A a \in {\hC20E} : Returns(PRINT_HEX_BYTE, a)
  BY PrintHexByteCode DEF Returns, Op, Own, PRINT_HEX_BYTE, kPrintHexByteHex
<1> QED BY <1>1, <1>2, <1>3, <1>4, <1>5 DEF Flows, PRINT_HEX_BYTE, Routines

LEMMA PrintNibbleFlows == \A a \in PRINT_NIBBLE.starts : Flows(PRINT_NIBBLE, a)
<1>1. \A a \in {\hC220, \hC224, \hC229} : Computes(PRINT_NIBBLE, a)
  BY PrintNibbleCode DEF Computes, Computes1, Computes2, Loaded2, Loaded3, Op, Within,
     Own, PRINT_NIBBLE, kPrintNibbleHex
<1>2. \A a \in {\hC222} : Forks(PRINT_NIBBLE, a)
  BY PrintNibbleCode DEF Forks, Branches2, Loaded2, Op, Signed, Within, Own,
     PRINT_NIBBLE, kPrintNibbleHex
<1>3. \A a \in {\hC226, \hC22B} : JumpsTo(PRINT_NIBBLE, a, PUTCHAR)
  BY PrintNibbleCode DEF JumpsTo, Enters, Loaded2, Loaded3, Op, Operand16, Own,
     PRINT_NIBBLE, PUTCHAR, kPrintNibbleHex
<1> QED BY <1>1, <1>2, <1>3 DEF Flows, PRINT_NIBBLE, Routines

LEMMA PrintStringFlows == \A a \in PRINT_STRING.starts : Flows(PRINT_STRING, a)
<1>1. \A a \in {\hC300, \hC302, \hC309} : Computes(PRINT_STRING, a)
  BY PrintStringCode DEF Computes, Computes1, Computes2, Loaded2, Loaded3, Op, Within,
     Own, PRINT_STRING, kPrintStringHex
<1>2. \A a \in {\hC304} : Forks(PRINT_STRING, a)
  BY PrintStringCode DEF Forks, Branches2, Loaded2, Op, Signed, Within, Own,
     PRINT_STRING, kPrintStringHex
<1>3. \A a \in {\hC306} : Calls(PRINT_STRING, a, PUTCHAR)
  BY PrintStringCode DEF Calls, Enters, Loaded2, Loaded3, Op, Operand16, Within, Own,
     PRINT_STRING, PUTCHAR, kPrintStringHex
<1>4. \A a \in {\hC30A} : JumpsWithin(PRINT_STRING, a)
  BY PrintStringCode DEF JumpsWithin, Loaded2, Loaded3, Op, Operand16, Within, Own,
     PRINT_STRING, kPrintStringHex
<1>5. \A a \in {\hC30D} : Returns(PRINT_STRING, a)
  BY PrintStringCode DEF Returns, Op, Own, PRINT_STRING, kPrintStringHex
<1> QED BY <1>1, <1>2, <1>3, <1>4, <1>5 DEF Flows, PRINT_STRING, Routines

LEMMA ReadLineFlows == \A a \in READ_LINE.starts : Flows(READ_LINE, a)
<1>1. \A a \in {\hC400, \hC405, \hC409, \hC40D, \hC411, \hC41A, \hC41E, \hC422} :
          Computes(READ_LINE, a)
  BY ReadLineCode DEF Computes, Computes1, Computes2, Loaded2, Loaded3, Op, Within, Own,
     READ_LINE, kReadLineHex, LineLimit
<1>2. \A a \in {\hC423, \hC428, \hC42D, \hC435, \hC43A} : Computes(READ_LINE, a)
  BY ReadLineCode DEF Computes, Computes1, Computes2, Loaded2, Loaded3, Op, Within, Own,
     READ_LINE, kReadLineHex, LineLimit
<1>3. \A a \in {\hC402} : Calls(READ_LINE, a, GETCHAR)
  BY ReadLineCode DEF Calls, Enters, Loaded2, Loaded3, Op, Operand16, Within, Own,
     READ_LINE, GETCHAR, kReadLineHex, LineLimit
<1>4. \A a \in {\hC407, \hC40B, \hC40F, \hC413, \hC420} : Forks(READ_LINE, a)
  BY ReadLineCode DEF Forks, Branches2, Loaded2, Op, Signed, Within, Own, READ_LINE,
     kReadLineHex, LineLimit
<1>5. \A a \in {\hC415, \hC43F} : Keeps(READ_LINE, a)
  BY ReadLineCode DEF Keeps, Stores2, Loaded2, Loaded3, Op, Operand16, WorkArea, Within,
     Own, READ_LINE, kReadLineHex, LineLimit
<1>6. \A a \in {\hC417, \hC425, \hC42A, \hC42F, \hC437, \hC43C} : Calls(READ_LINE, a, PUTCHAR)
  BY ReadLineCode DEF Calls, Enters, Loaded2, Loaded3, Op, Operand16, Within, Own,
     READ_LINE, PUTCHAR, kReadLineHex, LineLimit
<1>7. \A a \in {\hC41B, \hC432} : JumpsWithin(READ_LINE, a)
  BY ReadLineCode DEF JumpsWithin, Loaded2, Loaded3, Op, Operand16, Within, Own,
     READ_LINE, kReadLineHex, LineLimit
<1>8. \A a \in {\hC441} : Returns(READ_LINE, a)
  BY ReadLineCode DEF Returns, Op, Own, READ_LINE, kReadLineHex, LineLimit
<1> QED BY <1>1, <1>2, <1>3, <1>4, <1>5, <1>6, <1>7, <1>8 DEF Flows, READ_LINE, Routines

LEMMA ParseAddrFlows == \A a \in PARSE_ADDR.starts : Flows(PARSE_ADDR, a)
<1>1. \A a \in {\hC500, \hC508, \hC50A, \hC50E, \hC527, \hC532, \hC536, \hC538} :
          Computes(PARSE_ADDR, a)
  BY ParseAddrCode DEF Computes, Computes1, Computes2, Loaded2, Loaded3, Op, Within,
     Own, PARSE_ADDR, kParseAddrHex
<1>2. \A a \in {\hC502, \hC504, \hC506, \hC516, \hC518, \hC51A, \hC51C, \hC51E} :
          Keeps(PARSE_ADDR, a)
  BY ParseAddrCode DEF Keeps, Stores2, Loaded2, Loaded3, Op, Operand16, WorkArea,
     Within, Own, PARSE_ADDR, kParseAddrHex
<1>3. \A a \in {\hC520, \hC522, \hC524, \hC529, \hC52B, \hC52D} : Keeps(PARSE_ADDR, a)
  BY ParseAddrCode DEF Keeps, Stores2, Loaded2, Loaded3, Op, Operand16, WorkArea,
     Within, Own, PARSE_ADDR, kParseAddrHex
<1>4. \A a \in {\hC50C, \hC513, \hC534} : Forks(PARSE_ADDR, a)
  BY ParseAddrCode DEF Forks, Branches2, Loaded2, Op, Signed, Within, Own, PARSE_ADDR,
     kParseAddrHex
<1>5. \A a \in {\hC510} : Calls(PARSE_ADDR, a, HEXVAL)
  BY ParseAddrCode DEF Calls, Enters, Loaded2, Loaded3, Op, Operand16, Within, Own,
     PARSE_ADDR, HEXVAL, kParseAddrHex
<1>6. \A a \in {\hC515} : Pushes(PARSE_ADDR, a)
  BY ParseAddrCode DEF Pushes, Op, Own, PARSE_ADDR, kParseAddrHex
<1>7. \A a \in {\hC526} : Pulls(PARSE_ADDR, a)
  BY ParseAddrCode DEF Pulls, Op, Own, PARSE_ADDR, kParseAddrHex
<1>8. \A a \in {\hC52F} : JumpsWithin(PARSE_ADDR, a)
  BY ParseAddrCode DEF JumpsWithin, Loaded2, Loaded3, Op, Operand16, Within, Own,
     PARSE_ADDR, kParseAddrHex
<1>9. \A a \in {\hC537, \hC539} : Returns(PARSE_ADDR, a)
  BY ParseAddrCode DEF Returns, Op, Own, PARSE_ADDR, kParseAddrHex
<1> QED BY <1>1, <1>2, <1>3, <1>4, <1>5, <1>6, <1>7, <1>8, <1>9 DEF Flows, PARSE_ADDR,
    Routines

LEMMA ParseByteFlows == \A a \in PARSE_BYTE.starts : Flows(PARSE_BYTE, a)
<1>1. \A a \in {\hC600, \hC606, \hC608, \hC60C, \hC60E, \hC612, \hC623, \hC62E} :
          Computes(PARSE_BYTE, a)
  BY ParseByteCode DEF Computes, Computes1, Computes2, Loaded2, Loaded3, Op, Within,
     Own, PARSE_BYTE, kParseByteHex
<1>2. \A a \in {\hC632, \hC634} : Computes(PARSE_BYTE, a)
  BY ParseByteCode DEF Computes, Computes1, Computes2, Loaded2, Loaded3, Op, Within,
     Own, PARSE_BYTE, kParseByteHex
<1>3. \A a \in {\hC602, \hC604, \hC61A, \hC61C, \hC61E, \hC620, \hC625, \hC627} :
          Keeps(PARSE_BYTE, a)
  BY ParseByteCode DEF Keeps, Stores2, Loaded2, Loaded3, Op, Operand16, WorkArea,
     Within, Own, PARSE_BYTE, kParseByteHex
<1>4. \A a \in {\hC629} : Keeps(PARSE_BYTE, a)
  BY ParseByteCode DEF Keeps, Stores2, Loaded2, Loaded3, Op, Operand16, WorkArea,
     Within, Own, PARSE_BYTE, kParseByteHex
<1>5. \A a \in {\hC60A, \hC610, \hC617, \hC630} : Forks(PARSE_BYTE, a)
  BY ParseByteCode DEF Forks, Branches2, Loaded2, Op, Signed, Within, Own, PARSE_BYTE,
     kParseByteHex
<1>6. \A a \in {\hC614} : Calls(PARSE_BYTE, a, HEXVAL)
  BY ParseByteCode DEF Calls, Enters, Loaded2, Loaded3, Op, Operand16, Within, Own,
     PARSE_BYTE, HEXVAL, kParseByteHex
<1>7. \A a \in {\hC619} : Pushes(PARSE_BYTE, a)
  BY ParseByteCode DEF Pushes, Op, Own, PARSE_BYTE, kParseByteHex
<1>8. \A a \in {\hC622} : Pulls(PARSE_BYTE, a)
  BY ParseByteCode DEF Pulls, Op, Own, PARSE_BYTE, kParseByteHex
<1>9. \A a \in {\hC62B} : JumpsWithin(PARSE_BYTE, a)
  BY ParseByteCode DEF JumpsWithin, Loaded2, Loaded3, Op, Operand16, Within, Own,
     PARSE_BYTE, kParseByteHex
<1>10. \A a \in {\hC633, \hC635} : Returns(PARSE_BYTE, a)
  BY ParseByteCode DEF Returns, Op, Own, PARSE_BYTE, kParseByteHex
<1> QED BY <1>1, <1>2, <1>3, <1>4, <1>5, <1>6, <1>7, <1>8, <1>9, <1>10 DEF Flows,
    PARSE_BYTE, Routines

LEMMA HexvalFlows == \A a \in HEXVAL.starts : Flows(HEXVAL, a)
<1>1. \A a \in {\hC700, \hC704, \hC708, \hC709, \hC70B, \hC70D, \hC711, \hC715} :
          Computes(HEXVAL, a)
  BY HexvalCode DEF Computes, Computes1, Computes2, Loaded2, Loaded3, Op, Within, Own,
     HEXVAL, kHexValHex
<1>2. \A a \in {\hC716, \hC718, \hC71A, \hC71E, \hC722, \hC723, \hC725, \hC727} :
          Computes(HEXVAL, a)
  BY HexvalCode DEF Computes, Computes1, Computes2, Loaded2, Loaded3, Op, Within, Own,
     HEXVAL, kHexValHex
<1>3. \A a \in {\hC702, \hC706, \hC70F, \hC713, \hC71C} : Forks(HEXVAL, a)
  BY HexvalCode DEF Forks, Branches2, Loaded2, Op, Signed, Within, Own, HEXVAL,
     kHexValHex
<1>4. \A a \in {\hC720} : Forks(HEXVAL, a)
  BY HexvalCode DEF Forks, Branches2, Loaded2, Op, Signed, Within, Own, HEXVAL,
     kHexValHex
<1>5. \A a \in {\hC70C, \hC719, \hC726, \hC728} : Returns(HEXVAL, a)
  BY HexvalCode DEF Returns, Op, Own, HEXVAL, kHexValHex
<1> QED BY <1>1, <1>2, <1>3, <1>4, <1>5 DEF Flows, HEXVAL

LEMMA DispatchFlows == \A a \in DISPATCH.starts : Flows(DISPATCH, a)
<1>1. \A a \in {\hC800, \hC802, \hC809, \hC80B, \hC80D, \hC811, \hC815, \hC81E} :
          Computes(DISPATCH, a)
  BY DispatchCode DEF Computes, Computes1, Computes2, Loaded2, Loaded3, Op, Within, Own,
     DISPATCH, kDispatchHex
<1>2. \A a \in {\hC822, \hC82B, \hC82F, \hC833, \hC837, \hC83B, \hC83F, \hC843} :
          Computes(DISPATCH, a)
  BY DispatchCode DEF Computes, Computes1, Computes2, Loaded2, Loaded3, Op, Within, Own,
     DISPATCH, kDispatchHex
<1>3. \A a \in {\hC845, \hC84C, \hC84E, \hC850, \hC854, \hC855, \hC859, \hC85B} :
          Computes(DISPATCH, a)
  BY DispatchCode DEF Computes, Computes1, Computes2, Loaded2, Loaded3, Op, Within, Own,
     DISPATCH, kDispatchHex
<1>4. \A a \in {\hC867, \hC869, \hC86A, \hC86E, \hC870, \hC874, \hC878, \hC888} :
          Computes(DISPATCH, a)
  BY DispatchCode DEF Computes, Computes1, Computes2, Loaded2, Loaded3, Op, Within, Own,
     DISPATCH, kDispatchHex
<1>5. \A a \in {\hC88D, \hC892} : Computes(DISPATCH, a)
  BY DispatchCode DEF Computes, Computes1, Computes2, Loaded2, Loaded3, Op, Within, Own,
     DISPATCH, kDispatchHex
<1>6. \A a \in {\hC804, \hC80F, \hC813, \hC817, \hC829} : Forks(DISPATCH, a)
  BY DispatchCode DEF Forks, Branches2, Loaded2, Op, Signed, Within, Own, DISPATCH,
     kDispatchHex
<1>7. \A a \in {\hC847, \hC852, \hC857, \hC85D, \hC86C} : Forks(DISPATCH, a)
  BY DispatchCode DEF Forks, Branches2, Loaded2, Op, Signed, Within, Own, DISPATCH,
     kDispatchHex
<1>8. \A a \in {\hC872, \hC876, \hC87A} : Forks(DISPATCH, a)
  BY DispatchCode DEF Forks, Branches2, Loaded2, Op, Signed, Within, Own, DISPATCH,
     kDispatchHex
<1>9. \A a \in {\hC806} : JumpsTo(DISPATCH, a, PEEK)
  BY DispatchCode DEF JumpsTo, Enters, Loaded2, Loaded3, Op, Operand16, Own, DISPATCH,
     PEEK, kDispatchHex
<1>10. \A a \in {\hC819, \hC87C} : JumpsWithin(DISPATCH, a)
  BY DispatchCode DEF JumpsWithin, Loaded2, Loaded3, Op, Operand16, Within, Own,
     DISPATCH, kDispatchHex
<1>11. \A a \in {\hC81C, \hC820, \hC824, \hC82D, \hC831, \hC835, \hC839, \hC83D} :
           Keeps(DISPATCH, a)
  BY DispatchCode DEF Keeps, Stores2, Loaded2, Loaded3, Op, Operand16, WorkArea, Within,
     Own, DISPATCH, kDispatchHex
<1>12. \A a \in {\hC841, \hC862} : Keeps(DISPATCH, a)
  BY DispatchCode DEF Keeps, Stores2, Loaded2, Loaded3, Op, Operand16, WorkArea, Within,
     Own, DISPATCH, kDispatchHex
<1>13. \A a \in {\hC826} : Calls(DISPATCH, a, PARSE_ADDR)
  BY DispatchCode DEF Calls, Enters, Loaded2, Loaded3, Op, Operand16, Within, Own,
     DISPATCH, PARSE_ADDR, kDispatchHex
<1>14. \A a \in {\hC849} : JumpsTo(DISPATCH, a, LIST)
  BY DispatchCode DEF JumpsTo, Enters, Loaded2, Loaded3, Op, Operand16, Own, DISPATCH,
     LIST, kDispatchHex
<1>15. \A a \in {\hC85F} : JumpsTo(DISPATCH, a, SAVE)
  BY DispatchCode DEF JumpsTo, Enters, Loaded2, Loaded3, Op, Operand16, Own, DISPATCH,
     SAVE, kDispatchHex
<1>16. \A a \in {\hC864} : JumpsTo(DISPATCH, a, POKE)
  BY DispatchCode DEF JumpsTo, Enters, Loaded2, Loaded3, Op, Operand16, Own, DISPATCH,
     POKE, kDispatchHex
<1>17. \A a \in {\hC87F} : JumpsTo(DISPATCH, a, RUN)
  BY DispatchCode DEF JumpsTo, Enters, Loaded2, Loaded3, Op, Operand16, Own, DISPATCH,
     RUN, kDispatchHex
<1>18. \A a \in {\hC882} : JumpsTo(DISPATCH, a, LOAD)
  BY DispatchCode DEF JumpsTo, Enters, Loaded2, Loaded3, Op, Operand16, Own, DISPATCH,
     LOAD, kDispatchHex
<1>19. \A a \in {\hC885} : JumpsTo(DISPATCH, a, REWIND)
  BY DispatchCode DEF JumpsTo, Enters, Loaded2, Loaded3, Op, Operand16, Own, DISPATCH,
     REWIND, kDispatchHex
<1>20. \A a \in {\hC88A, \hC88F, \hC894} : Calls(DISPATCH, a, PUTCHAR)
  BY DispatchCode DEF Calls, Enters, Loaded2, Loaded3, Op, Operand16, Within, Own,
     DISPATCH, PUTCHAR, kDispatchHex
<1>21. \A a \in {\hC897} : Returns(DISPATCH, a)
  BY DispatchCode DEF Returns, Op, Own, DISPATCH, kDispatchHex
<1> QED BY <1>1, <1>2, <1>3, <1>4, <1>5, <1>6, <1>7, <1>8, <1>9, <1>10, <1>11, <1>12,
    <1>13, <1>14, <1>15, <1>16, <1>17, <1>18, <1>19, <1>20, <1>21 DEF Flows, DISPATCH,
    Routines

LEMMA PeekFlows == \A a \in PEEK.starts : Flows(PEEK, a)
<1>1. \A a \in {\hCA00, \hCA05, \hCA0A, \hCA0F, \hCA14, \hCA16, \hCA1B, \hCA20} :
          Computes(PEEK, a)
  BY PeekCode DEF Computes, Computes1, Computes2, Loaded2, Loaded3, Op, Within, Own,
     PEEK, kPeekHex
<1>2. \A a \in {\hCA02, \hCA07, \hCA18} : Calls(PEEK, a, PRINT_HEX_BYTE)
  BY PeekCode DEF Calls, Enters, Loaded2, Loaded3, Op, Operand16, Within, Own, PEEK,
     PRINT_HEX_BYTE, kPeekHex
<1>3. \A a \in {\hCA0C, \hCA11, \hCA1D, \hCA22} : Calls(PEEK, a, PUTCHAR)
  BY PeekCode DEF Calls, Enters, Loaded2, Loaded3, Op, Operand16, Within, Own, PEEK,
     PUTCHAR, kPeekHex
<1>4. \A a \in {\hCA25} : Returns(PEEK, a)
  BY PeekCode DEF Returns, Op, Own, PEEK, kPeekHex
<1> QED BY <1>1, <1>2, <1>3, <1>4 DEF Flows, PEEK, Routines

LEMMA ListFlows == \A a \in LIST.starts : Flows(LIST, a)
<1>1. \A a \in {\hCB00, \hCB04, \hCB06, \hCB0C, \hCB0E, \hCB14, \hCB18, \hCB1D} :
          Computes(LIST, a)
  BY ListCode DEF Computes, Computes1, Computes2, Loaded2, Loaded3, Op, Within, Own,
     LIST, kListHex
<1>2. \A a \in {\hCB22, \hCB27, \hCB2C, \hCB2E, \hCB33, \hCB40, \hCB42, \hCB46} :
          Computes(LIST, a)
  BY ListCode DEF Computes, Computes1, Computes2, Loaded2, Loaded3, Op, Within, Own,
     LIST, kListHex
<1>3. \A a \in {\hCB4B, \hCB50, \hCB57, \hCB5B, \hCB60} : Computes(LIST, a)
  BY ListCode DEF Computes, Computes1, Computes2, Loaded2, Loaded3, Op, Within, Own,
     LIST, kListHex
<1>4. \A a \in {\hCB02, \hCB38, \hCB3C, \hCB3E, \hCB52} : Keeps(LIST, a)
  BY ListCode DEF Keeps, Stores2, Loaded2, Loaded3, Op, Operand16, WorkArea, Within,
     Own, LIST, kListHex
<1>5. \A a \in {\hCB08, \hCB0A, \hCB10, \hCB12, \hCB16} : Forks(LIST, a)
  BY ListCode DEF Forks, Branches2, Loaded2, Op, Signed, Within, Own, LIST, kListHex
<1>6. \A a \in {\hCB3A, \hCB44, \hCB59} : Forks(LIST, a)
  BY ListCode DEF Forks, Branches2, Loaded2, Op, Signed, Within, Own, LIST, kListHex
<1>7. \A a \in {\hCB1A, \hCB1F, \hCB30} : Calls(LIST, a, PRINT_HEX_BYTE)
  BY ListCode DEF Calls, Enters, Loaded2, Loaded3, Op, Operand16, Within, Own, LIST,
     PRINT_HEX_BYTE, kListHex
<1>8. \A a \in {\hCB24, \hCB29, \hCB35, \hCB48, \hCB4D, \hCB5D, \hCB62} : Calls(LIST, a, PUTCHAR)
  BY ListCode DEF Calls, Enters, Loaded2, Loaded3, Op, Operand16, Within, Own, LIST,
     PUTCHAR, kListHex
<1>9. \A a \in {\hCB54} : JumpsWithin(LIST, a)
  BY ListCode DEF JumpsWithin, Loaded2, Loaded3, Op, Operand16, Within, Own, LIST,
     kListHex
<1>10. \A a \in {\hCB65} : Returns(LIST, a)
  BY ListCode DEF Returns, Op, Own, LIST, kListHex
<1> QED BY <1>1, <1>2, <1>3, <1>4, <1>5, <1>6, <1>7, <1>8, <1>9, <1>10 DEF Flows, LIST,
    Routines

LEMMA PokeFlows == \A a \in POKE.starts : Flows(POKE, a)
<1>1. \A a \in {\hCC00, \hCC02, \hCC06, \hCC08, \hCC0A, \hCC18, \hCC1A} : Computes(POKE, a)
  BY PokeCode DEF Computes, Computes1, Computes2, Loaded2, Loaded3, Op, Within, Own,
     POKE, kPokeHex
<1>2. \A a \in {\hCC04, \hCC0C, \hCC16, \hCC20} : Forks(POKE, a)
  BY PokeCode DEF Forks, Branches2, Loaded2, Op, Signed, Within, Own, POKE, kPokeHex
<1>3. \A a \in {\hCC0E, \hCC1C, \hCC1E, \hCC22} : Keeps(POKE, a)
  BY PokeCode DEF Keeps, Stores2, Loaded2, Loaded3, Op, Operand16, WorkArea, Within,
     Own, POKE, kPokeHex
<1>4. \A a \in {\hCC10, \hCC24} : JumpsWithin(POKE, a)
  BY PokeCode DEF JumpsWithin, Loaded2, Loaded3, Op, Operand16, Within, Own, POKE,
     kPokeHex
<1>5. \A a \in {\hCC13} : Calls(POKE, a, PARSE_BYTE)
  BY PokeCode DEF Calls, Enters, Loaded2, Loaded3, Op, Operand16, Within, Own, POKE,
     PARSE_BYTE, kPokeHex
<1>6. \A a \in {\hCC27} : Returns(POKE, a)
  BY PokeCode DEF Returns, Op, Own, POKE, kPokeHex
<1> QED BY <1>1, <1>2, <1>3, <1>4, <1>5, <1>6 DEF Flows, POKE, Routines

LEMMA RunFlows == \A a \in RUN.starts : Flows(RUN, a)
<1>1. \A a \in {\hCD00, \hCD04, \hCD08, \hCD0C} : Computes(RUN, a)
  BY RunCode DEF Computes, Computes1, Computes2, Loaded2, Loaded3, Op, Within, Own, RUN,
     kRunHex
<1>2. \A a \in {\hCD02, \hCD06, \hCD0A, \hCD0E} : Keeps(RUN, a)
  BY RunCode DEF Keeps, Stores2, Loaded2, Loaded3, Op, Operand16, WorkArea, Within, Own,
     RUN, kRunHex
<1>3. \A a \in {\hCD10} : Calls(RUN, a, TRAMPOLINE)
  BY RunCode DEF Calls, Enters, Loaded2, Loaded3, Op, Operand16, Within, Own, RUN,
     TRAMPOLINE, kRunHex, kTrampoline, kReturn
<1>4. \A a \in {\hCD13} : Returns(RUN, a)
  BY RunCode DEF Returns, Op, Own, RUN, kRunHex
<1> QED BY <1>1, <1>2, <1>3, <1>4 DEF Flows, RUN, Routines

LEMMA MainLoopFlows == \A a \in MAIN_LOOP.starts : Flows(MAIN_LOOP, a)
<1>1. \A a \in {\hCF00, \hCF04, \hCF11, \hCF15, \hCF1F, \hCF2E, \hCF33, \hCF38} :
          Computes(MAIN_LOOP, a)
  BY MainLoopCode DEF Computes, Computes1, Computes2, Loaded2, Loaded3, Op, Within, Own,
     MAIN_LOOP, kMainHex
<1>2. \A a \in {\hCF02, \hCF06, \hCF13, \hCF17, \hCF21} : Keeps(MAIN_LOOP, a)
  BY MainLoopCode DEF Keeps, Stores2, Loaded2, Loaded3, Op, Operand16, WorkArea, Within,
     Own, MAIN_LOOP, kMainHex
<1>3. \A a \in {\hCF08, \hCF19} : Calls(MAIN_LOOP, a, PRINT_STRING)
  BY MainLoopCode DEF Calls, Enters, Loaded2, Loaded3, Op, Operand16, Within, Own,
     MAIN_LOOP, PRINT_STRING, kMainHex
<1>4. \A a \in {\hCF0B, \hCF2B, \hCF3D} : JumpsWithin(MAIN_LOOP, a)
  BY MainLoopCode DEF JumpsWithin, Loaded2, Loaded3, Op, Operand16, Within, Own,
     MAIN_LOOP, kMainHex
<1>5. \A a \in {\hCF1C} : Calls(MAIN_LOOP, a, READ_LINE)
  BY MainLoopCode DEF Calls, Enters, Loaded2, Loaded3, Op, Operand16, Within, Own,
     MAIN_LOOP, READ_LINE, kMainHex
<1>6. \A a \in {\hCF23} : Calls(MAIN_LOOP, a, PARSE_ADDR)
  BY MainLoopCode DEF Calls, Enters, Loaded2, Loaded3, Op, Operand16, Within, Own,
     MAIN_LOOP, PARSE_ADDR, kMainHex
<1>7. \A a \in {\hCF26} : Forks(MAIN_LOOP, a)
  BY MainLoopCode DEF Forks, Branches2, Loaded2, Op, Signed, Within, Own, MAIN_LOOP,
     kMainHex
<1>8. \A a \in {\hCF28} : Calls(MAIN_LOOP, a, DISPATCH)
  BY MainLoopCode DEF Calls, Enters, Loaded2, Loaded3, Op, Operand16, Within, Own,
     MAIN_LOOP, DISPATCH, kMainHex
<1>9. \A a \in {\hCF30, \hCF35, \hCF3A} : Calls(MAIN_LOOP, a, PUTCHAR)
  BY MainLoopCode DEF Calls, Enters, Loaded2, Loaded3, Op, Operand16, Within, Own,
     MAIN_LOOP, PUTCHAR, kMainHex
<1> QED BY <1>1, <1>2, <1>3, <1>4, <1>5, <1>6, <1>7, <1>8, <1>9 DEF Flows, MAIN_LOOP,
    Routines

LEMMA SaveFlows == \A a \in SAVE.starts : Flows(SAVE, a)
<1>1. \A a \in {\hD000, \hD003, \hD00A, \hD00C, \hD012, \hD014, \hD01B, \hD020} :
          Computes(SAVE, a)
  BY SaveCode DEF Computes, Computes1, Computes2, Loaded2, Loaded3, Op, Within, Own,
     SAVE, kSaveHex
<1>2. \A a \in {\hD021, \hD023, \hD027, \hD029, \hD033, \hD037, \hD03C, \hD041} :
          Computes(SAVE, a)
  BY SaveCode DEF Computes, Computes1, Computes2, Loaded2, Loaded3, Op, Within, Own,
     SAVE, kSaveHex
<1>3. \A a \in {\hD043, \hD049, \hD04B, \hD051, \hD053, \hD058, \hD065, \hD06A} :
          Computes(SAVE, a)
  BY SaveCode DEF Computes, Computes1, Computes2, Loaded2, Loaded3, Op, Within, Own,
     SAVE, kSaveHex
<1>4. \A a \in {\hD070, \hD075, \hD07A} : Computes(SAVE, a)
  BY SaveCode DEF Computes, Computes1, Computes2, Loaded2, Loaded3, Op, Within, Own,
     SAVE, kSaveHex
<1>5. \A a \in {\hD005, \hD00E, \hD010, \hD016, \hD02F} : Forks(SAVE, a)
  BY SaveCode DEF Forks, Branches2, Loaded2, Op, Signed, Within, Own, SAVE, kSaveHex
<1>6. \A a \in {\hD045, \hD047, \hD04D, \hD04F, \hD05E} : Forks(SAVE, a)
  BY SaveCode DEF Forks, Branches2, Loaded2, Op, Signed, Within, Own, SAVE, kSaveHex
<1>7. \A a \in {\hD007, \hD018, \hD062} : JumpsWithin(SAVE, a)
  BY SaveCode DEF JumpsWithin, Loaded2, Loaded3, Op, Operand16, Within, Own, SAVE,
     kSaveHex
<1>8. \A a \in {\hD01D, \hD025, \hD02B, \hD02D, \hD031, \hD035, \hD039, \hD03E} : Keeps(SAVE, a)
  BY SaveCode DEF Keeps, Stores2, Loaded2, Loaded3, Op, Operand16, WorkArea, Within,
     Own, SAVE, kSaveHex
<1>9. \A a \in {\hD055, \hD05A, \hD05C, \hD060, \hD067, \hD06C} : Keeps(SAVE, a)
  BY SaveCode DEF Keeps, Stores2, Loaded2, Loaded3, Op, Operand16, WorkArea, Within,
     Own, SAVE, kSaveHex
<1>10. \A a \in {\hD06F, \hD07F} : Returns(SAVE, a)
  BY SaveCode DEF Returns, Op, Own, SAVE, kSaveHex
<1>11. \A a \in {\hD072, \hD077, \hD07C} : Calls(SAVE, a, PUTCHAR)
  BY SaveCode DEF Calls, Enters, Loaded2, Loaded3, Op, Operand16, Within, Own, SAVE,
     PUTCHAR, kSaveHex
<1> QED BY <1>1, <1>2, <1>3, <1>4, <1>5, <1>6, <1>7, <1>8, <1>9, <1>10, <1>11 DEF Flows,
    SAVE, Routines

LEMMA LoadFlows == \A a \in LOAD.starts : Flows(LOAD, a)
<1>1. \A a \in {\hD100, \hD103, \hD10A, \hD11D, \hD121, \hD123, \hD12D, \hD132} :
          Computes(LOAD, a)
  BY LoadCode DEF Computes, Computes1, Computes2, Loaded2, Loaded3, Op, Within, Own,
     LOAD, kLoadHex
<1>2. \A a \in {\hD13C, \hD14C, \hD150, \hD158, \hD15E, \hD163, \hD168} : Computes(LOAD, a)
  BY LoadCode DEF Computes, Computes1, Computes2, Loaded2, Loaded3, Op, Within, Own,
     LOAD, kLoadHex
<1>3. \A a \in {\hD105, \hD112, \hD119, \hD125, \hD12A} : Forks(LOAD, a)
  BY LoadCode DEF Forks, Branches2, Loaded2, Op, Signed, Within, Own, LOAD, kLoadHex
<1>4. \A a \in {\hD138, \hD13E, \hD14A, \hD14E} : Forks(LOAD, a)
  BY LoadCode DEF Forks, Branches2, Loaded2, Op, Signed, Within, Own, LOAD, kLoadHex
<1>5. \A a \in {\hD107, \hD144, \hD155} : JumpsWithin(LOAD, a)
  BY LoadCode DEF JumpsWithin, Loaded2, Loaded3, Op, Operand16, Within, Own, LOAD,
     kLoadHex
<1>6. \A a \in {\hD10C, \hD114, \hD11B, \hD11F, \hD12F, \hD134, \hD136, \hD13A} : Keeps(LOAD, a)
  BY LoadCode DEF Keeps, Stores2, Loaded2, Loaded3, Op, Operand16, WorkArea, Within,
     Own, LOAD, kLoadHex
<1>7. \A a \in {\hD140, \hD142, \hD152, \hD15A} : Keeps(LOAD, a)
  BY LoadCode DEF Keeps, Stores2, Loaded2, Loaded3, Op, Operand16, WorkArea, Within,
     Own, LOAD, kLoadHex
<1>8. \A a \in {\hD10F, \hD116, \hD127, \hD147} : Calls(LOAD, a, READ_TAPE_BYTE)
  BY LoadCode DEF Calls, Enters, Loaded2, Loaded3, Op, Operand16, Within, Own, LOAD,
     READ_TAPE_BYTE, kLoadHex
<1>9. \A a \in {\hD12C} : Pushes(LOAD, a)
  BY LoadCode DEF Pushes, Op, Own, LOAD, kLoadHex
<1>10. \A a \in {\hD131} : Pulls(LOAD, a)
  BY LoadCode DEF Pulls, Op, Own, LOAD, kLoadHex
<1>11. \A a \in {\hD15D, \hD16D} : Returns(LOAD, a)
  BY LoadCode DEF Returns, Op, Own, LOAD, kLoadHex
<1>12. \A a \in {\hD160, \hD165, \hD16A} : Calls(LOAD, a, PUTCHAR)
  BY LoadCode DEF Calls, Enters, Loaded2, Loaded3, Op, Operand16, Within, Own, LOAD,
     PUTCHAR, kLoadHex
<1> QED BY <1>1, <1>2, <1>3, <1>4, <1>5, <1>6, <1>7, <1>8, <1>9, <1>10, <1>11, <1>12 DEF
    Flows, LOAD, Routines

LEMMA ReadTapeByteFlows == \A a \in READ_TAPE_BYTE.starts : Flows(READ_TAPE_BYTE, a)
<1>1. \A a \in {\hD16E, \hD172, \hD175, \hD17A, \hD17D} : Computes(READ_TAPE_BYTE, a)
  BY LoadCode DEF Computes, Computes1, Computes2, Loaded2, Loaded3, Op, Within, Own,
     READ_TAPE_BYTE, kLoadHex
<1>2. \A a \in {\hD171} : Pushes(READ_TAPE_BYTE, a)
  BY LoadCode DEF Pushes, Op, Own, READ_TAPE_BYTE, kLoadHex
<1>3. \A a \in {\hD177} : Forks(READ_TAPE_BYTE, a)
  BY LoadCode DEF Forks, Branches2, Loaded2, Op, Signed, Within, Own, READ_TAPE_BYTE,
     kLoadHex
<1>4. \A a \in {\hD179, \hD17C} : Pulls(READ_TAPE_BYTE, a)
  BY LoadCode DEF Pulls, Op, Own, READ_TAPE_BYTE, kLoadHex
<1>5. \A a \in {\hD17B, \hD17E} : Returns(READ_TAPE_BYTE, a)
  BY LoadCode DEF Returns, Op, Own, READ_TAPE_BYTE, kLoadHex
<1> QED BY <1>1, <1>2, <1>3, <1>4, <1>5 DEF Flows, READ_TAPE_BYTE

LEMMA RewindFlows == \A a \in REWIND.starts : Flows(REWIND, a)
<1>1. \A a \in {\hD200, \hD203, \hD20A, \hD210, \hD215, \hD21A} : Computes(REWIND, a)
  BY RewindCode DEF Computes, Computes1, Computes2, Loaded2, Loaded3, Op, Within, Own,
     REWIND, kRewindHex
<1>2. \A a \in {\hD205} : Forks(REWIND, a)
  BY RewindCode DEF Forks, Branches2, Loaded2, Op, Signed, Within, Own, REWIND,
     kRewindHex
<1>3. \A a \in {\hD207} : JumpsWithin(REWIND, a)
  BY RewindCode DEF JumpsWithin, Loaded2, Loaded3, Op, Operand16, Within, Own, REWIND,
     kRewindHex
<1>4. \A a \in {\hD20C} : Keeps(REWIND, a)
  BY RewindCode DEF Keeps, Stores2, Loaded2, Loaded3, Op, Operand16, WorkArea, Within,
     Own, REWIND, kRewindHex
<1>5. \A a \in {\hD20F, \hD21F} : Returns(REWIND, a)
  BY RewindCode DEF Returns, Op, Own, REWIND, kRewindHex
<1>6. \A a \in {\hD212, \hD217, \hD21C} : Calls(REWIND, a, PUTCHAR)
  BY RewindCode DEF Calls, Enters, Loaded2, Loaded3, Op, Operand16, Within, Own, REWIND,
     PUTCHAR, kRewindHex
<1> QED BY <1>1, <1>2, <1>3, <1>4, <1>5, <1>6 DEF Flows, REWIND, Routines

LEMMA VectorCode ==
    /\ \hFFFC \in LoadedAddr /\ FirmwareRom[\hFFFC] = 0
    /\ \hFFFD \in LoadedAddr /\ FirmwareRom[\hFFFD] = \hCF
<1> DEFINE s == <<\hFFFC, <<\h00, \hCF>> >>
<1>1. s \in Installed /\ s[1] = \hFFFC /\ s[2] = <<\h00, \hCF>>
  BY DEF Installed
<1>2. Extent(s) = \hFFFC .. \hFFFD
  BY DEF Extent
<1> HIDE DEF s
<1> QED BY <1>1, <1>2, RomBytes

-----------------------------------------------------------------------------
(* The opcodes the ROM's code consists of.                                 *)
Is(op, name, how) == Mnemonic(op) = name /\ Mode(op) = how

LEMMA OpcodesUsed ==
    /\ Is(\h05, "ORA", "zp") /\ Is(\h06, "ASL", "zp") /\ Is(\h18, "CLC", "none")
    /\ Is(\h20, "JSR", "abs") /\ Is(\h26, "ROL", "zp") /\ Is(\h29, "AND", "imm")
    /\ Is(\h38, "SEC", "none") /\ Is(\h45, "EOR", "zp") /\ Is(\h48, "PHA", "none")
    /\ Is(\h4A, "LSR", "none") /\ Is(\h4C, "JMP", "abs") /\ Is(\h60, "RTS", "none")
    /\ Is(\h68, "PLA", "none") /\ Is(\h69, "ADC", "imm") /\ Is(\h85, "STA", "zp")
    /\ Is(\h86, "STX", "zp") /\ Is(\h8D, "STA", "abs") /\ Is(\h90, "BCC", "rel")
    /\ Is(\h91, "STA", "indY") /\ Is(\h95, "STA", "zpX") /\ Is(\h9A, "TXS", "none")
    /\ Is(\hA0, "LDY", "imm") /\ Is(\hA2, "LDX", "imm") /\ Is(\hA5, "LDA", "zp")
    /\ Is(\hA6, "LDX", "zp") /\ Is(\hA9, "LDA", "imm") /\ Is(\hAD, "LDA", "abs")
    /\ Is(\hB0, "BCS", "rel") /\ Is(\hB1, "LDA", "indY") /\ Is(\hB5, "LDA", "zpX")
    /\ Is(\hC5, "CMP", "zp") /\ Is(\hC6, "DEC", "zp") /\ Is(\hC8, "INY", "none")
    /\ Is(\hC9, "CMP", "imm") /\ Is(\hCA, "DEX", "none") /\ Is(\hD0, "BNE", "rel")
    /\ Is(\hE0, "CPX", "imm") /\ Is(\hE4, "CPX", "zp") /\ Is(\hE5, "SBC", "zp")
    /\ Is(\hE6, "INC", "zp") /\ Is(\hE8, "INX", "none") /\ Is(\hE9, "SBC", "imm")
    /\ Is(\hF0, "BEQ", "rel")
<1> USE DEF Is, Mnemonic, Mode, Row, Column, Quarter, Control, Accumulator, Shifts, Implied,
            ControlMode, AccumulatorMode, ShiftMode, ByY
<1>1. /\ Is(\h05, "ORA", "zp") /\ Is(\h06, "ASL", "zp") /\ Is(\h18, "CLC", "none")
      /\ Is(\h20, "JSR", "abs") /\ Is(\h26, "ROL", "zp") /\ Is(\h29, "AND", "imm")
  OBVIOUS
<1>2. /\ Is(\h38, "SEC", "none") /\ Is(\h45, "EOR", "zp") /\ Is(\h48, "PHA", "none")
      /\ Is(\h4A, "LSR", "none") /\ Is(\h4C, "JMP", "abs") /\ Is(\h60, "RTS", "none")
  OBVIOUS
<1>3. /\ Is(\h68, "PLA", "none") /\ Is(\h69, "ADC", "imm") /\ Is(\h85, "STA", "zp")
      /\ Is(\h86, "STX", "zp") /\ Is(\h8D, "STA", "abs") /\ Is(\h90, "BCC", "rel")
  OBVIOUS
<1>4. /\ Is(\h91, "STA", "indY") /\ Is(\h95, "STA", "zpX") /\ Is(\h9A, "TXS", "none")
      /\ Is(\hA0, "LDY", "imm") /\ Is(\hA2, "LDX", "imm") /\ Is(\hA5, "LDA", "zp")
  OBVIOUS
<1>5. /\ Is(\hA6, "LDX", "zp") /\ Is(\hA9, "LDA", "imm") /\ Is(\hAD, "LDA", "abs")
      /\ Is(\hB0, "BCS", "rel") /\ Is(\hB1, "LDA", "indY") /\ Is(\hB5, "LDA", "zpX")
  OBVIOUS
<1>6. /\ Is(\hC5, "CMP", "zp") /\ Is(\hC6, "DEC", "zp") /\ Is(\hC8, "INY", "none")
      /\ Is(\hC9, "CMP", "imm") /\ Is(\hCA, "DEX", "none") /\ Is(\hD0, "BNE", "rel")
  OBVIOUS
<1>7. /\ Is(\hE0, "CPX", "imm") /\ Is(\hE4, "CPX", "zp") /\ Is(\hE5, "SBC", "zp")
      /\ Is(\hE6, "INC", "zp") /\ Is(\hE8, "INX", "none") /\ Is(\hE9, "SBC", "imm")
  OBVIOUS
<1>8. /\ Is(\hF0, "BEQ", "rel")
  OBVIOUS
<1> QED BY <1>1, <1>2, <1>3, <1>4, <1>5, <1>6, <1>7, <1>8

ComputingNames ==
    {"LDA", "LDX", "LDY", "ADC", "SBC", "AND", "ORA", "EOR", "CMP", "CPX", "INX", "DEX", "INY",
     "CLC", "SEC"}

LEMMA ClassNames ==
    /\ \A op \in Computes1 : Mode(op) = "none" /\ Mnemonic(op) \in ComputingNames \cup {"LSR"}
    /\ \A op \in Computes2 : Length(Mode(op)) = 2 /\ Mnemonic(op) \in ComputingNames
    /\ \A op \in (Computes1 \cup Computes2) \ {\hA2, \hA6, \hE8, \hCA} :
           Mnemonic(op) \notin {"LDX", "INX", "DEX"}
    /\ \A op \in Stores2 :
           Mode(op) = "zp" /\ Mnemonic(op) \in {"STA", "STX", "ASL", "ROL", "INC", "DEC"}
    /\ \A op \in Branches2 : Mode(op) = "rel" /\ Mnemonic(op) \in Branches
<1>1. \A op \in Computes1 : Mode(op) = "none" /\ Mnemonic(op) \in ComputingNames \cup {"LSR"}
  BY OpcodesUsed DEF Is, Computes1, ComputingNames
<1>2. \A op \in Computes2 : Mnemonic(op) \in ComputingNames
  BY OpcodesUsed DEF Is, Computes2, ComputingNames
<1>3. \A op \in Computes2 : Mode(op) \in {"imm", "zp", "zpX", "indY"}
  BY OpcodesUsed DEF Is, Computes2
<1>4. \A how \in {"imm", "zp", "zpX", "indY"} : Length(how) = 2
  BY DEF Length
<1>5. \A op \in (Computes1 \cup Computes2) \ {\hA2, \hA6, \hE8, \hCA} :
          Mnemonic(op) \notin {"LDX", "INX", "DEX"}
  BY OpcodesUsed DEF Is, Computes1, Computes2
<1>6. \A op \in Stores2 :
          Mode(op) = "zp" /\ Mnemonic(op) \in {"STA", "STX", "ASL", "ROL", "INC", "DEC"}
  BY OpcodesUsed DEF Is, Stores2
<1>7. \A op \in Branches2 : Mode(op) = "rel" /\ Mnemonic(op) \in Branches
  BY OpcodesUsed DEF Is, Branches2, Branches
<1> QED BY <1>1, <1>2, <1>3, <1>4, <1>5, <1>6, <1>7

(* Which effect an instruction's name selects.                             *)
LEMMA NamesOfEffects ==
    /\ Load => Name \in {"LDA", "LDX", "LDY"}
    /\ Arithmetic => Name \in {"ADC", "SBC"}
    /\ Logic => Name \in {"AND", "ORA", "EOR"}
    /\ Compare => Name \in {"CMP", "CPX", "CPY"}
    /\ BitTest => Name = "BIT"
    /\ Modify => Name \in Modifies
    /\ StoreIt => Name \in Stores
    /\ Transfer => Name \in {"TAX", "TAY", "TXA", "TYA", "TSX", "INX", "DEX", "INY", "DEY"}
    /\ Simple => Name \in {"CLC", "SEC", "CLI", "SEI", "CLD", "SED", "CLV", "TXS", "NOP", ""}
    /\ BranchIt => Name \in Branches
    /\ Push => Name \in {"PHA", "PHP"}
    /\ Pull => Name \in {"PLA", "PLP"}
    /\ Jump => Name = "JMP"
    /\ Call => Name = "JSR"
    /\ Return => Name = "RTS"
    /\ Break => Name = "BRK"
    /\ ReturnFromBreak => Name = "RTI"
<1>1. Load => Name \in {"LDA", "LDX", "LDY"}
  BY DEF Load
<1>2. Arithmetic => Name \in {"ADC", "SBC"}
  BY DEF Arithmetic
<1>3. Logic => Name \in {"AND", "ORA", "EOR"}
  BY DEF Logic
<1>4. Compare => Name \in {"CMP", "CPX", "CPY"}
  BY DEF Compare
<1>5. BitTest => Name = "BIT"
  BY DEF BitTest
<1>6. Modify => Name \in Modifies
  BY DEF Modify
<1>7. StoreIt => Name \in Stores
  BY DEF StoreIt
<1>8. Transfer => Name \in {"TAX", "TAY", "TXA", "TYA", "TSX", "INX", "DEX", "INY", "DEY"}
  BY DEF Transfer
<1>9. Simple => Name \in {"CLC", "SEC", "CLI", "SEI", "CLD", "SED", "CLV", "TXS", "NOP", ""}
  BY DEF Simple
<1>10. BranchIt => Name \in Branches
  BY DEF BranchIt
<1>11. Push => Name \in {"PHA", "PHP"}
  BY DEF Push
<1>12. Pull => Name \in {"PLA", "PLP"}
  BY DEF Pull
<1>13. Jump => Name = "JMP"
  BY DEF Jump
<1>14. Call => Name = "JSR"
  BY DEF Call
<1>15. Return => Name = "RTS"
  BY DEF Return
<1>16. Break => Name = "BRK"
  BY DEF Break
<1>17. ReturnFromBreak => Name = "RTI"
  BY DEF ReturnFromBreak
<1> QED
  BY <1>1, <1>2, <1>3, <1>4, <1>5, <1>6, <1>7, <1>8, <1>9, <1>10, <1>11, <1>12, <1>13, <1>14,
     <1>15, <1>16, <1>17, Zenon

LEMMA EffectOfName ==
    ASSUME Execute
    PROVE  /\ Name \in {"LDA", "LDX", "LDY"} => Load
           /\ Name \in {"ADC", "SBC"} => Arithmetic
           /\ Name \in {"AND", "ORA", "EOR"} => Logic
           /\ Name \in {"CMP", "CPX"} => Compare
           /\ Name \in {"ASL", "LSR", "ROL", "INC", "DEC"} => Modify
           /\ Name \in {"STA", "STX"} => StoreIt
           /\ Name \in {"INX", "DEX", "INY"} => Transfer
           /\ Name \in {"CLC", "SEC", "TXS"} => Simple
           /\ Name \in Branches => BranchIt
           /\ Name = "PHA" => Push
           /\ Name = "PLA" => Pull
           /\ Name = "JMP" => Jump
           /\ Name = "JSR" => Call
           /\ Name = "RTS" => Return
<1>1. \/ Load \/ Arithmetic \/ Logic \/ Compare \/ BitTest
      \/ Modify \/ StoreIt \/ Transfer \/ Simple \/ BranchIt
      \/ Push \/ Pull \/ Jump \/ Call \/ Return \/ Break \/ ReturnFromBreak
  BY DEF Execute
<1> QED BY <1>1, NamesOfEffects DEF Modifies, Stores, Branches

(* What the instructions do to memory, to the stack pointer, to X and to   *)
(* the program counter.                                                    *)
Steady == mem' = mem /\ SP' = SP
LEMMA Computing ==
    ASSUME Execute, Name \in ComputingNames
    PROVE  /\ Steady /\ PC' = Plus(PC, Length(How))
           /\ Name \notin {"LDX", "INX", "DEX"} => X' = X
<1>1. CASE Name \in {"LDA", "LDX", "LDY"}
  BY <1>1, EffectOfName DEF Load, GoOver, GoOn, Keep, Steady
<1>2. CASE Name \in {"ADC", "SBC"}
  BY <1>2, EffectOfName DEF Arithmetic, GoOver, GoOn, Keep, Steady
<1>3. CASE Name \in {"AND", "ORA", "EOR"}
  BY <1>3, EffectOfName DEF Logic, GoOver, GoOn, Keep, Steady
<1>4. CASE Name \in {"CMP", "CPX"}
  BY <1>4, EffectOfName DEF Compare, GoOver, GoOn, Keep, Steady
<1>5. CASE Name \in {"INX", "DEX", "INY"}
  BY <1>5, EffectOfName DEF Transfer, GoOver, GoOn, Keep, Steady
<1>6. CASE Name \in {"CLC", "SEC"}
  BY <1>6, EffectOfName DEF Simple, GoOn, Keep, Steady
<1> QED BY <1>1, <1>2, <1>3, <1>4, <1>5, <1>6 DEF ComputingNames

LEMMA Shifting ==
    ASSUME Execute, Name = "LSR", How = "none"
    PROVE  Steady /\ X' = X /\ PC' = Plus(PC, Length(How))
  BY EffectOfName DEF Modify, GoOn, Keep, Steady

LEMMA Storing ==
    ASSUME Execute, Name \in {"STA", "STX", "ASL", "ROL", "INC", "DEC"}, How # "none"
    PROVE  /\ \E v : mem' = Stored(mem, Address, v)
           /\ SP' = SP /\ X' = X /\ PC' = Plus(PC, Length(How))
<1>1. CASE Name \in {"STA", "STX"}
  BY <1>1, EffectOfName DEF StoreIt, GoOn
<1>2. CASE Name \in {"ASL", "ROL", "INC", "DEC"}
  BY <1>2, EffectOfName DEF Modify, GoOn
<1> QED BY <1>1, <1>2

LEMMA Branching ==
    ASSUME Execute, Name \in Branches
    PROVE  /\ Steady /\ X' = X /\ PC' = IF Condition THEN Address ELSE Plus(PC, 2)
  BY EffectOfName DEF BranchIt, Keep, Steady

LEMMA Jumping ==
    ASSUME Execute, Name = "JMP"
    PROVE  Steady /\ X' = X /\ PC' = Address
  BY EffectOfName DEF Jump, Keep, Steady

-----------------------------------------------------------------------------
(* Where the routines lie.                                                 *)
LEMMA Regions ==
    ASSUME NEW r \in Routines
    PROVE  /\ r.rank \in 0 .. 4
           /\ \A a \in r.starts \cup r.returns : a \in Nat /\ a < \hD300
           /\ r = MAIN_LOOP \/ (r.rank > 0 /\ \A a \in r.starts : a < \hCF00 \/ a >= \hD000)
           /\ \/ r = RUN \/ r = TRAMPOLINE
              \/ \A a \in r.starts : a >= \hC000 /\ (a < \hCD00 \/ a >= \hCE00)
           /\ r = TRAMPOLINE \/ \A a \in r.returns : a # \hCD13
           /\ r = TRAMPOLINE \/ r = MAIN_LOOP \/ \E a \in r.returns : TRUE
           /\ r = READ_LINE \/ \A a \in r.starts : a < \hC400 \/ a >= \hC500
           /\ r = TRAMPOLINE \/ \A a \in r.starts : a >= \hC000
           /\ \A a \in r.returns : a >= \hC000 /\ (a < \hCD00 \/ a = \hCD13 \/ a >= \hCE00)
           /\ \A a \in r.returns : a # \hC413 /\ a # \hC420
           /\ \/ r = GETCHAR \/ r = PUTCHAR
              \/ /\ \A a \in r.starts : a < \hC000 \/ a >= \hC200
                 /\ \A a \in r.returns : a < \hC400 \/ a >= \hC500
<1>1. CASE r = DISPATCH
  BY <1>1 DEF DISPATCH
<1>2. CASE r = GETCHAR
  BY <1>2 DEF GETCHAR
<1>3. CASE r = HEXVAL
  BY <1>3 DEF HEXVAL
<1>4. CASE r = LIST
  BY <1>4 DEF LIST
<1>5. CASE r = LOAD
  BY <1>5 DEF LOAD
<1>6. CASE r = MAIN_LOOP
  BY <1>6 DEF MAIN_LOOP
<1>7. CASE r = PARSE_ADDR
  BY <1>7 DEF PARSE_ADDR
<1>8. CASE r = PARSE_BYTE
  BY <1>8 DEF PARSE_BYTE
<1>9. CASE r = PEEK
  BY <1>9 DEF PEEK
<1>10. CASE r = POKE
  BY <1>10 DEF POKE
<1>11. CASE r = PRINT_HEX_BYTE
  BY <1>11 DEF PRINT_HEX_BYTE
<1>12. CASE r = PRINT_NIBBLE
  BY <1>12 DEF PRINT_NIBBLE
<1>13. CASE r = PRINT_STRING
  BY <1>13 DEF PRINT_STRING
<1>14. CASE r = PUTCHAR
  BY <1>14 DEF PUTCHAR
<1>15. CASE r = READ_LINE
  BY <1>15 DEF READ_LINE
<1>16. CASE r = READ_TAPE_BYTE
  BY <1>16 DEF READ_TAPE_BYTE
<1>17. CASE r = REWIND
  BY <1>17 DEF REWIND
<1>18. CASE r = RUN
  BY <1>18 DEF RUN
<1>19. CASE r = SAVE
  BY <1>19 DEF SAVE
<1>20. CASE r = TRAMPOLINE
  BY <1>20 DEF TRAMPOLINE, kTrampoline, kReturn
<1> QED
  BY <1>1, <1>2, <1>3, <1>4, <1>5, <1>6, <1>7, <1>8, <1>9, <1>10, <1>11, <1>12, <1>13, <1>14,
     <1>15, <1>16, <1>17, <1>18, <1>19, <1>20 DEF Routines

LEMMA OwnIsBit == \A r, a : Own(r, a) \in {0, 1}
  BY DEF Own

LEMMA FrameStack == \A x \in Frame : x.sp \in Int /\ 0 <= x.sp /\ x.sp <= 255
  BY DEF Frame

LEMMA FrameOf == \A a \in Nat : \A s \in 0 .. 255 : [at |-> a, sp |-> s] \in Frame
  BY DEF Frame

-----------------------------------------------------------------------------
(* The chain of frames, as its top changes.                                *)

(* The bytes of a frame's return address lie above what is pushed in it.   *)
Above(s) == \A c \in Int : 257 + s <= c /\ c <= 511 => mem'[c] = mem[c]

(* The routine at work in the top frame.                                   *)
OnTop(r, n, f) ==
    /\ r \in Routines /\ f[0].at \in r.starts
    /\ n = 0 => r = MAIN_LOOP
    /\ n > 0 => CalledFrom(r, f[0], f[1])

LEMMA SomeRoutineOnTop ==
    ASSUME NEW n \in Nat, NEW f \in [0 .. n -> Frame], Chain(n, f)
    PROVE  \E r \in Routines : OnTop(r, n, f)
<1>1. CASE n = 0
  <2>1. MAIN_LOOP \in Routines
    BY DEF Routines
  <2> QED BY <1>1, <2>1 DEF OnTop, Chain
<1>2. CASE n > 0
  <2>1. PICK r \in Routines : CalledFrom(r, f[0], f[1])
    BY <1>2 DEF Chain
  <2> QED BY <1>2, <2>1 DEF OnTop, CalledFrom
<1> QED BY <1>1, <1>2

LEMMA CallStands ==
    ASSUME NEW r, NEW x \in Frame, NEW y \in Frame, CalledFrom(r, x, y),
           NEW s \in Int, s <= x.sp + Own(r, x.at), Above(s)
    PROVE  CalledFrom(r, x, y)'
<1> DEFINE t == x.sp + Own(r, x.at)
<1>1. t \in Int /\ s <= t /\ y.sp = t + 2 /\ y.sp <= 255 /\ x.sp \in 0 .. 255
  BY OwnIsBit DEF CalledFrom, Frame
<1>2. mem'[257 + t] = mem[257 + t] /\ mem'[258 + t] = mem[258 + t]
  BY <1>1 DEF Above
<1>3. ReturnAt(t)' = ReturnAt(t)
  BY <1>2 DEF ReturnAt
<1> QED BY <1>3 DEF CalledFrom

(* The top frame gives way to another one, and no byte above either of     *)
(* them changes.                                                           *)
LEMMA TopChanges ==
    ASSUME NEW n \in Nat, NEW f \in [0 .. n -> Frame], Chain(n, f),
           NEW x \in Frame, NEW s \in Int, x.sp <= s, f[0].sp <= s, Above(s),
           n = 0 => x.at \in MAIN_LOOP.starts /\ x.sp = f[0].sp,
           n > 0 => s < f[1].sp /\ \E q \in Routines : CalledFrom(q, x, f[1])'
    PROVE  \E g \in [0 .. n -> Frame] :
               Chain(n, g)' /\ g[0] = x /\ \A i \in 1 .. n : g[i] = f[i]
<1> DEFINE g == [i \in 0 .. n |-> IF i = 0 THEN x ELSE f[i]]
<1>1. g \in [0 .. n -> Frame] /\ g[0] = x /\ \A i \in 1 .. n : g[i] = f[i]
  OBVIOUS
<1> HIDE DEF g
<1>2. x.sp \in Int /\ 0 \in 0 .. n /\ \A i \in 0 .. n : f[i] \in Frame /\ f[i].sp \in Int
  BY FrameStack
<1>3. \A i \in 1 .. n : f[1].sp <= f[i].sp
  BY DEF Chain
<1>4. \A i \in 0 .. n : \A j \in i .. n : g[i].sp <= g[j].sp
  <2> SUFFICES ASSUME NEW i \in 0 .. n, NEW j \in i .. n PROVE g[i].sp <= g[j].sp
    OBVIOUS
  <2>1. CASE i = 0 /\ j = 0
    BY <1>1, <1>2, <2>1
  <2>2. CASE i = 0 /\ j # 0
    <3>1. f[1].sp <= f[j].sp /\ f[1].sp \in Int /\ f[j].sp \in Int /\ s < f[1].sp
      BY <1>2, <1>3, <2>2
    <3> QED BY <1>1, <1>2, <2>2, <3>1
  <2>3. CASE i # 0
    BY <1>1, <2>3 DEF Chain
  <2> QED BY <2>1, <2>2, <2>3
<1>5. \A i \in 0 .. n - 1 : \E q \in Routines : CalledFrom(q, g[i], g[i + 1])'
  <2> SUFFICES ASSUME NEW i \in 0 .. n - 1
               PROVE  \E q \in Routines : CalledFrom(q, g[i], g[i + 1])'
    OBVIOUS
  <2>1. CASE i = 0
    BY <1>1, <2>1
  <2>2. CASE i # 0
    <3>1. PICK q \in Routines : CalledFrom(q, f[i], f[i + 1])
      BY DEF Chain
    <3>2. f[i] \in Frame /\ f[i + 1] \in Frame /\ s <= f[i].sp + Own(q, f[i].at)
      <4>1. f[1].sp <= f[i].sp /\ f[1].sp \in Int /\ f[i].sp \in Int /\ s < f[1].sp
        BY <1>2, <1>3, <2>2
      <4>2. Own(q, f[i].at) \in {0, 1}
        BY OwnIsBit
      <4> QED BY <1>2, <4>1, <4>2
    <3>3. CalledFrom(q, f[i], f[i + 1])'
      BY <3>1, <3>2, CallStands
    <3> QED BY <1>1, <2>2, <3>3
  <2> QED BY <2>1, <2>2
<1>6. g[n].at \in MAIN_LOOP.starts /\ g[n].sp \in {\hFD, \hFF}
  <2>1. CASE n = 0
    BY <1>1, <2>1 DEF Chain
  <2>2. CASE n > 0
    BY <1>1, <2>2 DEF Chain
  <2> QED BY <2>1, <2>2
<1>7. Chain(n, g)'
  BY <1>1, <1>4, <1>5, <1>6 DEF Chain
<1> QED BY <1>1, <1>7

(* The routine at work goes on at another instruction, perhaps with a byte *)
(* pushed or pulled.                                                       *)
LEMMA TopMoves ==
    ASSUME NEW n \in Nat, NEW f \in [0 .. n -> Frame], Chain(n, f),
           NEW r, OnTop(r, n, f),
           NEW x \in Frame, x.at \in r.starts,
           x.sp + Own(r, x.at) = f[0].sp + Own(r, f[0].at),
           Above(f[0].sp + Own(r, f[0].at))
    PROVE  \E g \in [0 .. n -> Frame] :
               Chain(n, g)' /\ g[0] = x /\ \A i \in 1 .. n : g[i] = f[i]
<1> DEFINE s == f[0].sp + Own(r, f[0].at)
<1>1. x.sp \in Int /\ 0 \in 0 .. n /\ \A i \in 0 .. n : f[i] \in Frame /\ f[i].sp \in Int
  BY FrameStack
<1>2. Own(r, x.at) \in {0, 1} /\ Own(r, f[0].at) \in {0, 1}
  BY OwnIsBit
<1>3. s \in Int /\ x.sp <= s /\ f[0].sp <= s
  BY <1>1, <1>2
<1>4. n = 0 => x.at \in MAIN_LOOP.starts /\ x.sp = f[0].sp
  <2>1. \A a : Own(MAIN_LOOP, a) = 0
    BY DEF Own, MAIN_LOOP
  <2> QED BY <1>1, <2>1 DEF OnTop
<1>5. n > 0 => s < f[1].sp /\ \E q \in Routines : CalledFrom(q, x, f[1])'
  <2> SUFFICES ASSUME n > 0
               PROVE  s < f[1].sp /\ \E q \in Routines : CalledFrom(q, x, f[1])'
    OBVIOUS
  <2>1. CalledFrom(r, f[0], f[1]) /\ r \in Routines
    BY DEF OnTop
  <2>2. CalledFrom(r, f[0], f[1])'
    BY <1>1, <1>3, <2>1, CallStands
  <2>3. CalledFrom(r, x, f[1])'
    BY <2>2 DEF CalledFrom
  <2>4. f[1].sp = s + 2
    BY <2>1 DEF CalledFrom
  <2> QED BY <1>3, <2>1, <2>3, <2>4
<1> HIDE DEF s
<1>6. Above(s)
  BY DEF s
<1> QED BY <1>3, <1>4, <1>5, <1>6, TopChanges

(* A routine is called: its frame comes on top.                            *)
LEMMA TopCalls ==
    ASSUME NEW n \in Nat, NEW f \in [0 .. n -> Frame], Chain(n, f)',
           NEW t \in Routines, NEW x \in Frame, CalledFrom(t, x, f[0])'
    PROVE  \E g \in [0 .. n + 1 -> Frame] :
               Chain(n + 1, g)' /\ g[0] = x /\ \A i \in 1 .. n + 1 : g[i] = f[i - 1]
<1> DEFINE g == [i \in 0 .. n + 1 |-> IF i = 0 THEN x ELSE f[i - 1]]
<1>1. g \in [0 .. n + 1 -> Frame] /\ g[0] = x /\ \A i \in 1 .. n + 1 : g[i] = f[i - 1]
  OBVIOUS
<1> HIDE DEF g
<1>2. x.sp \in Int /\ \A i \in 0 .. n : f[i] \in Frame /\ f[i].sp \in Int
  BY FrameStack
<1>3. x.sp <= f[0].sp /\ f[0].sp \in Int
  <2>1. f[0].sp = x.sp + Own(t, x.at) + 2
    BY DEF CalledFrom
  <2>2. Own(t, x.at) \in {0, 1}
    BY OwnIsBit
  <2> QED BY <1>2, <2>1, <2>2
<1>4. \A i \in 0 .. n + 1 : \A j \in i .. n + 1 : g[i].sp <= g[j].sp
  <2> SUFFICES ASSUME NEW i \in 0 .. n + 1, NEW j \in i .. n + 1 PROVE g[i].sp <= g[j].sp
    OBVIOUS
  <2>1. CASE i = 0 /\ j = 0
    BY <1>1, <1>2, <2>1
  <2>2. CASE i = 0 /\ j # 0
    <3>1. f[0].sp <= f[j - 1].sp /\ f[j - 1].sp \in Int
      BY <1>2, <2>2 DEF Chain
    <3> QED BY <1>1, <1>2, <1>3, <2>2, <3>1
  <2>3. CASE i # 0
    <3>1. f[i - 1].sp <= f[j - 1].sp
      BY <2>3 DEF Chain
    <3> QED BY <1>1, <2>3, <3>1
  <2> QED BY <2>1, <2>2, <2>3
<1>5. \A i \in 0 .. n : \E q \in Routines : CalledFrom(q, g[i], g[i + 1])'
  <2> SUFFICES ASSUME NEW i \in 0 .. n
               PROVE  \E q \in Routines : CalledFrom(q, g[i], g[i + 1])'
    OBVIOUS
  <2>1. CASE i = 0
    BY <1>1, <2>1
  <2>2. CASE i # 0
    <3>1. PICK q \in Routines : CalledFrom(q, f[i - 1], f[(i - 1) + 1])'
      BY <2>2 DEF Chain
    <3> QED BY <1>1, <2>2, <3>1
  <2> QED BY <2>1, <2>2
<1>6. g[n + 1] = f[n]
  BY <1>1
<1>7. Chain(n + 1, g)'
  BY <1>1, <1>4, <1>5, <1>6 DEF Chain
<1> QED BY <1>1, <1>7

(* It returns: its frame is gone.                                          *)
LEMMA TopReturns ==
    ASSUME NEW n \in Nat, n > 0, NEW f \in [0 .. n -> Frame], Chain(n, f), mem' = mem
    PROVE  \E g \in [0 .. n - 1 -> Frame] :
               Chain(n - 1, g)' /\ \A i \in 0 .. n - 1 : g[i] = f[i + 1]
<1> DEFINE g == [i \in 0 .. n - 1 |-> f[i + 1]]
<1>1. g \in [0 .. n - 1 -> Frame] /\ \A i \in 0 .. n - 1 : g[i] = f[i + 1]
  OBVIOUS
<1> HIDE DEF g
<1>2. \A i \in 0 .. n - 1 : \A j \in i .. n - 1 : g[i].sp <= g[j].sp
  BY <1>1 DEF Chain
<1>3. \A i \in 0 .. (n - 1) - 1 : \E q \in Routines : CalledFrom(q, g[i], g[i + 1])'
  <2> SUFFICES ASSUME NEW i \in 0 .. (n - 1) - 1
               PROVE  \E q \in Routines : CalledFrom(q, g[i], g[i + 1])'
    OBVIOUS
  <2>1. PICK q \in Routines : CalledFrom(q, f[i + 1], f[(i + 1) + 1])
    BY DEF Chain
  <2>2. CalledFrom(q, f[i + 1], f[(i + 1) + 1])'
    BY <2>1 DEF CalledFrom, ReturnAt
  <2> QED BY <1>1, <2>2
<1>4. g[n - 1] = f[n] /\ n - 1 \in Nat
  BY <1>1
<1>5. Chain(n - 1, g)'
  BY <1>1, <1>2, <1>3, <1>4 DEF Chain
<1> QED BY <1>1, <1>5

-----------------------------------------------------------------------------
(* What the CPU fetches from the ROM.                                      *)
LEMMA Words == \A a \in Word : a \in Int /\ 0 <= a /\ a < 65536
  BY DEF Word

LEMMA Reading ==
    ASSUME MonitorsMap, RomStands
    PROVE  /\ \A a \in LoadedAddr :
                  a \in Int /\ 0 <= a /\ a < 65536 /\ a \notin Ram /\ BusData(a) = FirmwareRom[a]
           /\ \A a \in WorkArea \cup StackPage : a \in Ram /\ BusData(a) = mem[a]
           /\ \A a \in Ram : a \in Int /\ 0 <= a /\ a < 65536 /\ a \notin LoadedAddr
<1>1. \A a \in LoadedAddr : a \in Rom /\ a \in Word /\ a \notin Ram
  BY MapAssumption DEF MonitorsMap
<1>2. \A a \in LoadedAddr : BusData(a) = FirmwareRom[a]
  BY <1>1 DEF BusData, RomStands
<1>3. \A a \in WorkArea \cup StackPage : a \in Ram /\ BusData(a) = mem[a]
  BY DEF MonitorsMap, BusData
<1>4. \A a \in Ram : a \in Word /\ a \notin LoadedAddr
  BY <1>1, MapAssumption
<1>5. \A a \in LoadedAddr : a \in Int /\ 0 <= a /\ a < 65536
  BY <1>1, Words
<1>6. \A a \in Ram : a \in Int /\ 0 <= a /\ a < 65536
  BY <1>4, Words
<1> QED BY <1>1, <1>2, <1>3, <1>4, <1>5, <1>6

LEMMA Fetching ==
    ASSUME MonitorsMap, RomStands, PC \in LoadedAddr
    PROVE  /\ PC \in Int /\ Instruction = Op(PC)
           /\ Name = Mnemonic(Op(PC)) /\ How = Mode(Op(PC))
           /\ \A n \in {1, 2, 3} : PC + n < 65536 => Plus(PC, n) = PC + n
           /\ \A n \in {1, 2} : PC + n \in LoadedAddr => At(n) = FirmwareRom[PC + n]
<1>1. PC \in Int /\ 0 <= PC /\ PC < 65536 /\ BusData(PC) = FirmwareRom[PC]
  BY Reading
<1>2. \A n \in {0, 1, 2, 3} : PC + n < 65536 => Plus(PC, n) = PC + n
  BY <1>1 DEF Plus
<1>3. Plus(PC, 0) = PC
  BY <1>1, <1>2
<1>4. Instruction = Op(PC)
  BY <1>1, <1>3 DEF Instruction, At, Op
<1>5. \A n \in {1, 2} : PC + n \in LoadedAddr => At(n) = FirmwareRom[PC + n]
  <2> SUFFICES ASSUME NEW n \in {1, 2}, PC + n \in LoadedAddr
               PROVE  At(n) = FirmwareRom[PC + n]
    OBVIOUS
  <2>1. PC + n < 65536 /\ BusData(PC + n) = FirmwareRom[PC + n]
    BY Reading
  <2> QED BY <1>2, <2>1 DEF At
<1> QED BY <1>1, <1>2, <1>4, <1>5 DEF Name, How

-----------------------------------------------------------------------------
(* One instruction of a routine at work.                                   *)

AtWork(r, n, f) ==
    Chain(n, f) /\ r # TRAMPOLINE /\ OnTop(r, n, f) /\ f[0] = [at |-> PC, sp |-> SP]

NextTop == [at |-> PC', sp |-> SP']

(* The routine goes on, another takes its place, it is suspended by a call *)
(* or it returns.                                                          *)
Continues(n, f) ==
    \E g \in [0 .. n -> Frame] :
        Chain(n, g)' /\ g[0] = NextTop /\ \A i \in 1 .. n : g[i] = f[i]
Suspended(n, f) ==
    \E g \in [0 .. n + 1 -> Frame] :
        /\ Chain(n + 1, g)' /\ g[0] = NextTop /\ g[1] = [at |-> PC + 3, sp |-> SP]
        /\ \A i \in 2 .. n + 1 : g[i] = f[i - 1]
Finishes(n, f) ==
    /\ n > 0 /\ f[1] = NextTop
    /\ \E g \in [0 .. n - 1 -> Frame] : Chain(n - 1, g)' /\ \A i \in 0 .. n - 1 : g[i] = f[i + 1]

LEMMA WorkPC ==
    ASSUME NEW n \in Nat, NEW f \in [0 .. n -> Frame], NEW r, AtWork(r, n, f)
    PROVE  r \in Routines /\ PC \in r.starts /\ PC \in Int /\ PC < \hD300 /\ PC >= \hC000
<1>1. r \in Routines /\ PC \in r.starts /\ r # TRAMPOLINE
  BY DEF AtWork, OnTop
<1> QED BY <1>1, Regions

LEMMA WorkFrame ==
    ASSUME NEW n \in Nat, NEW f \in [0 .. n -> Frame], NEW r, AtWork(r, n, f)
    PROVE  /\ n > 0 => CalledFrom(r, f[0], f[1]) /\ f[1] \in Frame
           /\ n = 0 => r = MAIN_LOOP
           /\ r.rank > 0 => n > 0
           /\ f[0].at = PC /\ f[0].sp = SP /\ f[0] \in Frame
<1>1. MAIN_LOOP.rank = 0
  BY DEF MAIN_LOOP
<1> QED BY <1>1 DEF AtWork, OnTop

(* The depth of the stack at a routine of that rank.                       *)
LEMMA WorkDepth ==
    ASSUME NEW n \in Nat, NEW f \in [0 .. n -> Frame], NEW r, AtWork(r, n, f)
    PROVE  SP + Own(r, PC) >= \hFD - 3 * r.rank
<1>0. (n = 0 => r = MAIN_LOOP) /\ f[0].sp = SP
  BY WorkFrame
<1>1. CASE n = 0
  <2>1. MAIN_LOOP.rank = 0 /\ Own(MAIN_LOOP, PC) = 0
    BY DEF MAIN_LOOP, Own
  <2>2. r.rank = 0 /\ Own(r, PC) = 0 /\ f[0].sp = SP
    BY <1>0, <1>1, <2>1
  <2>3. SP \in {\hFD, \hFF}
    BY <1>1, <2>2 DEF AtWork, Chain
  <2> QED BY <2>2, <2>3
<1>2. CASE n > 0
  <2>1. CalledFrom(r, f[0], f[1]) /\ f[0].at = PC /\ f[0].sp = SP
    BY <1>2, WorkFrame
  <2> QED BY <2>1 DEF CalledFrom
<1> QED BY <1>1, <1>2

LEMMA WorkSP ==
    ASSUME NEW n \in Nat, NEW f \in [0 .. n -> Frame], NEW r, AtWork(r, n, f)
    PROVE  SP \in Int /\ 240 <= SP /\ SP <= 255
<1>1. SP \in Int /\ SP <= 255
  BY WorkFrame, FrameStack
<1>2. Own(r, PC) \in {0, 1}
  BY OwnIsBit
<1>3. r.rank \in 0 .. 4
  BY WorkPC, Regions
<1>4. PICK rank \in 0 .. 4 : rank = r.rank
  BY <1>3
<1>5. PICK own \in {0, 1} : own = Own(r, PC)
  BY <1>2
<1>6. SP + own >= \hFD - 3 * rank
  BY <1>4, <1>5, WorkDepth
<1> QED BY <1>1, <1>6

LEMMA GoesOn ==
    ASSUME NEW n \in Nat, NEW f \in [0 .. n -> Frame], NEW r, AtWork(r, n, f),
           PC' \in r.starts, SP' \in 0 .. 255, SP' + Own(r, PC') = SP + Own(r, PC),
           Above(SP + Own(r, PC))
    PROVE  Continues(n, f)
<1>0. PICK x : x = NextTop
  OBVIOUS
<1>1. x \in Frame /\ x.at = PC' /\ x.sp = SP'
  <2>1. PC' \in Nat
    BY WorkPC, Regions
  <2> QED BY <1>0, <2>1, Zenon DEF Frame, NextTop
<1>2. f[0].at = PC /\ f[0].sp = SP /\ Chain(n, f) /\ OnTop(r, n, f)
  BY DEF AtWork
<1>3. \E g \in [0 .. n -> Frame] : Chain(n, g)' /\ g[0] = x /\ \A i \in 1 .. n : g[i] = f[i]
  BY <1>1, <1>2, TopMoves
<1> QED BY <1>0, <1>3 DEF Continues

LEMMA GoesOnSteady ==
    ASSUME NEW n \in Nat, NEW f \in [0 .. n -> Frame], NEW r, AtWork(r, n, f),
           Within(r, PC', PC), SP' = SP, Above(SP + Own(r, PC))
    PROVE  Continues(n, f) /\ PC' \in r.starts
<1>1. PC' \in r.starts /\ Own(r, PC') = Own(r, PC)
  BY DEF Within
<1>2. SP \in Int /\ 0 <= SP /\ SP <= 255
  BY WorkSP
<1>3. SP' \in 0 .. 255
  BY <1>2
<1> QED BY <1>1, <1>3, GoesOn

LEMMA ComputesOn ==
    ASSUME MonitorsMap, RomStands, Execute,
           NEW n \in Nat, NEW f \in [0 .. n -> Frame], NEW r, AtWork(r, n, f), Computes(r, PC)
    PROVE  Continues(n, f) /\ PC' \in r.starts
<1>0. PC \in LoadedAddr /\ PC \in Int /\ PC < \hD300
  BY WorkPC DEF Computes, Loaded2, Loaded3
<1>1. Name = Mnemonic(Op(PC)) /\ How = Mode(Op(PC))
      /\ \A k \in {1, 2, 3} : Plus(PC, k) = PC + k
  BY <1>0, Fetching
<1>2. Length("none") = 1 /\ Length("abs") = 3
  BY DEF Length
<1>3. CASE Op(PC) \in Computes1 /\ Within(r, PC + 1, PC)
  <2>1. How = "none" /\ Name \in ComputingNames \cup {"LSR"}
    BY <1>1, <1>3, ClassNames
  <2>2. Steady /\ PC' = PC + 1
    BY <1>1, <1>2, <2>1, Computing, Shifting
  <2> QED BY <1>3, <2>2, GoesOnSteady DEF Steady, Above
<1>4. CASE Op(PC) \in Computes2 /\ Within(r, PC + 2, PC)
  <2>1. Length(How) = 2 /\ Name \in ComputingNames
    BY <1>1, <1>4, ClassNames
  <2>2. Steady /\ PC' = PC + 2
    BY <1>1, <2>1, Computing
  <2> QED BY <1>4, <2>2, GoesOnSteady DEF Steady, Above
<1>5. CASE Op(PC) = \hAD /\ Within(r, PC + 3, PC)
  <2>1. How = "abs" /\ Name \in ComputingNames
    BY <1>1, <1>5, OpcodesUsed DEF Is, ComputingNames
  <2>2. Steady /\ PC' = PC + 3
    BY <1>1, <1>2, <2>1, Computing
  <2> QED BY <1>5, <2>2, GoesOnSteady DEF Steady, Above
<1> QED BY <1>3, <1>4, <1>5 DEF Computes

-----------------------------------------------------------------------------
LEMMA Forking ==
    ASSUME MonitorsMap, RomStands, Execute, PC < \hD300, NEW r \in Routines, Forks(r, PC)
    PROVE  /\ Name = Mnemonic(Op(PC)) /\ Steady /\ X' = X
           /\ PC' = IF Condition THEN PC + 2 + Signed(Op(PC + 1)) ELSE PC + 2
<1> DEFINE to == PC + 2 + Signed(Op(PC + 1))
<1>1. /\ PC \in LoadedAddr /\ PC + 1 \in LoadedAddr
      /\ Op(PC) \in Branches2 /\ to \in r.starts
  BY DEF Forks, Loaded2, Within
<1>2. How = "rel" /\ Name \in Branches /\ Plus(PC, 2) = PC + 2 /\ At(1) = Op(PC + 1)
      /\ Name = Mnemonic(Op(PC)) /\ PC \in Int
  BY <1>1, Fetching, ClassNames DEF Op
<1>3. to \in Int /\ 0 <= to /\ to < 65536
  BY <1>1, Regions
<1>4. Address = to
  <2>1. Address = Plus(PC + 2, Signed(Op(PC + 1)))
    BY <1>2 DEF Address, BaseAddress
  <2> QED BY <1>3, <2>1 DEF Plus
<1> HIDE DEF to
<1>5. Steady /\ X' = X /\ PC' = IF Condition THEN to ELSE PC + 2
  BY <1>2, <1>4, Branching
<1> QED BY <1>2, <1>5 DEF to

LEMMA ForksOn ==
    ASSUME MonitorsMap, RomStands, Execute,
           NEW n \in Nat, NEW f \in [0 .. n -> Frame], NEW r, AtWork(r, n, f), Forks(r, PC)
    PROVE  Continues(n, f) /\ PC' \in r.starts
<1>1. PC < \hD300 /\ r \in Routines
  BY WorkPC
<1>2. Steady /\ (PC' = PC + 2 + Signed(Op(PC + 1)) \/ PC' = PC + 2)
  BY <1>1, Forking
<1>3. Within(r, PC', PC)
  BY <1>2 DEF Forks
<1> QED BY <1>2, <1>3, GoesOnSteady DEF Steady, Above

LEMMA Jumps ==
    ASSUME MonitorsMap, RomStands, Execute, Loaded3(PC), Op(PC) = \h4C
    PROVE  Steady /\ X' = X /\ PC' = Operand16(PC)
<1>1. Name = "JMP" /\ How = "abs" /\ At(1) = FirmwareRom[PC + 1] /\ At(2) = FirmwareRom[PC + 2]
  BY Fetching, OpcodesUsed DEF Loaded2, Loaded3, Is
<1>2. Address = Operand16(PC)
  BY <1>1 DEF Address, Arg16, Operand16
<1> QED BY <1>1, <1>2, Jumping

LEMMA JumpsOn ==
    ASSUME MonitorsMap, RomStands, Execute,
           NEW n \in Nat, NEW f \in [0 .. n -> Frame], NEW r, AtWork(r, n, f), JumpsWithin(r, PC)
    PROVE  Continues(n, f) /\ PC' \in r.starts
<1>1. Steady /\ PC' = Operand16(PC) /\ Within(r, Operand16(PC), PC)
  BY Jumps DEF JumpsWithin
<1> QED BY <1>1, GoesOnSteady DEF Steady, Above

(* The other routine is at work in the same frame.                         *)
LEMMA TailCalls ==
    ASSUME MonitorsMap, RomStands, Execute,
           NEW n \in Nat, NEW f \in [0 .. n -> Frame], NEW r, AtWork(r, n, f),
           NEW t \in Routines, JumpsTo(r, PC, t)
    PROVE  Continues(n, f) /\ PC' = Operand16(PC) /\ PC' \in t.starts
<1>0. PICK x : x = NextTop
  OBVIOUS
<1>1. /\ Steady /\ PC' = Operand16(PC) /\ Operand16(PC) \in t.starts
      /\ Own(t, Operand16(PC)) = 0 /\ Own(r, PC) = 0
      /\ r.rank > 0 /\ r.rank <= t.rank /\ r.returns \subseteq t.returns
  BY Jumps DEF JumpsTo, Enters
<1>2. SP \in Int /\ 0 <= SP /\ SP <= 255 /\ n > 0 /\ CalledFrom(r, f[0], f[1])
  BY <1>1, WorkSP, WorkFrame
<1>3. x \in Frame /\ x.at = PC' /\ x.sp = SP
  <2>1. PC' \in Nat /\ SP \in 0 .. 255
    BY <1>1, <1>2, Regions
  <2> QED BY <1>0, <1>1, <2>1, Zenon DEF Frame, Steady, NextTop
<1>4. f[0].at = PC /\ f[0].sp = SP /\ f[0] \in Frame /\ 0 \in 0 .. n /\ 1 \in 0 .. n /\ Chain(n, f)
  BY <1>2 DEF AtWork
<1>5. CalledFrom(t, x, f[1])'
  <2>1. r.rank \in 0 .. 4 /\ t.rank \in 0 .. 4
    BY Regions DEF AtWork, OnTop
  <2>2. Own(t, x.at) = 0 /\ x.at \in t.starts
    BY <1>1, <1>3
  <2>3. f[1].at \in t.returns /\ f[1].sp = SP + 2 /\ ReturnAt(SP) = f[1].at
        /\ SP >= \hFD - 3 * r.rank
    BY <1>1, <1>2, <1>4 DEF CalledFrom
  <2>4. ReturnAt(x.sp)' = f[1].at /\ x.sp + Own(t, x.at) = x.sp
    BY <1>1, <1>2, <1>3, <2>2, <2>3 DEF ReturnAt, Steady
  <2>5. SP >= \hFD - 3 * t.rank
    BY <1>1, <1>2, <2>1, <2>3
  <2> QED BY <1>2, <1>3, <2>2, <2>3, <2>4, <2>5 DEF CalledFrom
<1>6. Above(SP) /\ SP \in Int /\ SP < f[1].sp
  <2>1. f[1].sp = SP + 2
    BY <1>1, <1>2, <1>4 DEF CalledFrom
  <2> QED BY <1>1, <1>2, <2>1 DEF Above, Steady
<1>7. \E g \in [0 .. n -> Frame] : Chain(n, g)' /\ g[0] = x /\ \A i \in 1 .. n : g[i] = f[i]
  BY <1>2, <1>3, <1>4, <1>5, <1>6, TopChanges
<1> QED BY <1>0, <1>1, <1>7 DEF Continues

LEMMA Finishing ==
    ASSUME MonitorsMap, RomStands, Execute, Name = "RTS",
           NEW n \in Nat, NEW f \in [0 .. n -> Frame], Chain(n, f), n > 0,
           NEW r \in Routines, CalledFrom(r, f[0], f[1]), Own(r, PC) = 0,
           f[0] = [at |-> PC, sp |-> SP]
    PROVE  Finishes(n, f) /\ X' = X /\ mem' = mem
<1>1. Return
  BY EffectOfName
<1>2. f[1] \in Frame /\ f[0] \in Frame /\ f[1].sp \in Int /\ f[0].sp \in Int /\ f[0].sp >= 0
      /\ f[1].sp <= 255 /\ f[0].at = PC /\ f[0].sp = SP
  <2>1. 0 \in 0 .. n /\ 1 \in 0 .. n
    OBVIOUS
  <2> QED BY <2>1, FrameStack
<1>3. f[1].sp = SP + 2 /\ ReturnAt(SP) = f[1].at /\ f[1].at \in r.returns
  BY <1>2 DEF CalledFrom
<1>4. f[1].at \in Nat /\ f[1].at < \hD300
  BY <1>3, Regions
<1>5. SP' = f[1].sp
  BY <1>1, <1>2, <1>3 DEF Return, MoveSP
<1>a. SP \in Int /\ 0 <= SP /\ SP + 2 <= 255
  BY <1>2, <1>3
<1>6. StackCell(1) = 257 + SP /\ StackCell(2) = 258 + SP
  BY <1>a DEF StackCell
<1>7. Popped(1) = mem[257 + SP] /\ Popped(2) = mem[258 + SP]
  <2>1. 257 + SP \in StackPage /\ 258 + SP \in StackPage
    BY <1>a DEF StackPage
  <2> QED BY <1>6, <2>1, Reading DEF Popped
<1>8. PC' = f[1].at
  <2>1. PC' = (ReturnAt(SP)) % 65536
    BY <1>1, <1>7 DEF Return, Plus, ReturnAt
  <2> QED BY <1>3, <1>4, <2>1
<1>9. mem' = mem /\ X' = X
  BY <1>1 DEF Return, Keep
<1>10. f[1] = NextTop
  BY <1>2, <1>5, <1>8, Zenon DEF Frame, NextTop
<1> QED BY <1>9, <1>10, TopReturns DEF Finishes

LEMMA ReturnsNow ==
    ASSUME MonitorsMap, RomStands, Execute,
           NEW n \in Nat, NEW f \in [0 .. n -> Frame], NEW r, AtWork(r, n, f), Returns(r, PC)
    PROVE  Finishes(n, f) /\ X' = X
<1>1. Name = "RTS"
  BY Fetching, OpcodesUsed DEF Returns, Is
<1>2. n > 0 /\ CalledFrom(r, f[0], f[1]) /\ Own(r, PC) = 0 /\ r \in Routines
  BY WorkFrame, WorkPC DEF Returns
<1> QED BY <1>1, <1>2, Finishing DEF AtWork

-----------------------------------------------------------------------------
(* Bytes pushed and pulled.                                                *)
LEMMA Pushing ==
    ASSUME MonitorsMap, SP \in 1 .. 255, NEW b
    PROVE  Pushed1(b) = [mem EXCEPT ![256 + SP] = b] /\ 256 + SP \in Ram
<1>1. StackCell(0) = 256 + SP
  BY DEF StackCell
<1>2. 256 + SP \in StackPage
  BY DEF StackPage
<1>3. 256 + SP \in Ram
  BY <1>2 DEF MonitorsMap
<1> QED BY <1>1, <1>3 DEF Pushed1, Stored

LEMMA Pushing2 ==
    ASSUME MonitorsMap, RomStands, SP \in 2 .. 255, NEW b, NEW c
    PROVE  /\ Pushed2(b, c)[256 + SP] = b /\ Pushed2(b, c)[255 + SP] = c
           /\ \A a \in Ram : a # 256 + SP /\ a # 255 + SP => Pushed2(b, c)[a] = mem[a]
<1>1. Pushed1(b) = [mem EXCEPT ![256 + SP] = b] /\ 256 + SP \in Ram
  BY Pushing
<1>2. StackCell(-1) = 255 + SP
  BY DEF StackCell
<1>3. 255 + SP \in StackPage
  BY DEF StackPage
<1>4. 255 + SP \in Ram
  BY <1>3 DEF MonitorsMap
<1>5. Pushed2(b, c) = [Pushed1(b) EXCEPT ![255 + SP] = c]
  BY <1>2, <1>4 DEF Pushed2, Stored
<1>6. 256 + SP \in DOMAIN mem /\ 255 + SP \in DOMAIN mem /\ 256 + SP # 255 + SP
      /\ Ram \subseteq DOMAIN mem
  BY <1>1, <1>4 DEF RomStands
<1>7. Pushed2(b, c) = [[mem EXCEPT ![256 + SP] = b] EXCEPT ![255 + SP] = c]
  BY <1>1, <1>5
<1> QED BY <1>6, <1>7

LEMMA PushesOn ==
    ASSUME MonitorsMap, RomStands, Execute,
           NEW n \in Nat, NEW f \in [0 .. n -> Frame], NEW r, AtWork(r, n, f), Pushes(r, PC)
    PROVE  Continues(n, f) /\ PC' \in r.starts
<1>1. Name = "PHA" /\ How = "none" /\ Plus(PC, 1) = PC + 1
      /\ Own(r, PC) = 0 /\ PC + 1 \in r.starts /\ Own(r, PC + 1) = 1
  <2>1. PC \in LoadedAddr /\ Op(PC) = \h48 /\ PC < \hD300
    BY WorkPC DEF Pushes
  <2>2. Plus(PC, 1) = PC + 1 /\ Name = Mnemonic(Op(PC)) /\ How = Mode(Op(PC))
    BY <2>1, Fetching
  <2>3. Name = "PHA" /\ How = "none"
    BY <2>1, <2>2, OpcodesUsed DEF Is
  <2> QED BY <2>2, <2>3 DEF Pushes
<1>2. Push
  BY <1>1, EffectOfName
<1>3. SP \in Int /\ 1 <= SP /\ SP <= 255
  BY WorkSP
<1>4. SP' = SP - 1 /\ mem' = [mem EXCEPT ![256 + SP] = A]
  <2>1. SP' = (SP - 1) % 256 /\ mem' = Pushed1(A)
    BY <1>1, <1>2 DEF Push, MoveSP
  <2>2. mem' = [mem EXCEPT ![256 + SP] = A]
    BY <1>3, <2>1, Pushing
  <2> QED BY <1>3, <2>1, <2>2
<1>5. PC' = PC + 1
  BY <1>1, <1>2 DEF Push, GoOn, Length
<1>6. SP' \in 0 .. 255 /\ SP' + 1 = SP + 0
  BY <1>3, <1>4
<1>7. Above(SP + 0)
  BY <1>3, <1>4 DEF Above
<1> QED BY <1>1, <1>5, <1>6, <1>7, GoesOn

LEMMA PullsOn ==
    ASSUME MonitorsMap, RomStands, Execute,
           NEW n \in Nat, NEW f \in [0 .. n -> Frame], NEW r, AtWork(r, n, f), Pulls(r, PC)
    PROVE  Continues(n, f) /\ PC' \in r.starts
<1>1. Name = "PLA" /\ How = "none" /\ Plus(PC, 1) = PC + 1
      /\ Own(r, PC) = 1 /\ PC + 1 \in r.starts /\ Own(r, PC + 1) = 0
  <2>1. PC \in LoadedAddr /\ Op(PC) = \h68 /\ PC < \hD300
    BY WorkPC DEF Pulls
  <2>2. Plus(PC, 1) = PC + 1 /\ Name = Mnemonic(Op(PC)) /\ How = Mode(Op(PC))
    BY <2>1, Fetching
  <2>3. Name = "PLA" /\ How = "none"
    BY <2>1, <2>2, OpcodesUsed DEF Is
  <2> QED BY <2>2, <2>3 DEF Pulls
<1>2. Pull
  BY <1>1, EffectOfName
<1>3. SP \in Int /\ 0 <= SP /\ SP + 3 <= 255
  <2>1. n > 0
    <3>1. Own(MAIN_LOOP, PC) = 0
      BY DEF Own, MAIN_LOOP
    <3> QED BY <1>1, <3>1 DEF AtWork, OnTop
  <2>2. CalledFrom(r, f[0], f[1]) /\ f[0].at = PC /\ f[0].sp = SP
    BY <2>1 DEF AtWork, OnTop
  <2>3. f[1].sp = SP + 1 + 2
    BY <1>1, <2>2 DEF CalledFrom
  <2>4. f[1] \in Frame
    BY <2>1
  <2>5. f[1].sp <= 255 /\ f[1].sp \in Int /\ SP \in Int /\ 0 <= SP
    BY <2>4, FrameStack, WorkSP
  <2> QED BY <2>3, <2>5
<1>4. SP' = SP + 1 /\ mem' = mem
  <2>1. SP' = (SP + 1) % 256 /\ mem' = mem
    BY <1>1, <1>2 DEF Pull, MoveSP, Keep
  <2> QED BY <1>3, <2>1
<1>5. PC' = PC + 1
  BY <1>1, <1>2 DEF Pull, GoOn, Length
<1>6. SP' \in 0 .. 255 /\ SP' + 0 = SP + 1
  BY <1>3, <1>4
<1>7. Above(SP + 1)
  BY <1>4 DEF Above
<1> QED BY <1>1, <1>5, <1>6, <1>7, GoesOn

-----------------------------------------------------------------------------
(* Where the ROM's code stores.                                            *)
LEMMA Keeping ==
    ASSUME MonitorsMap, RomStands, LineLengthOK(PC), NEW r, Keeps(r, PC), PC < \hD300
    PROVE  /\ Name \in {"STA", "STX", "ASL", "ROL", "INC", "DEC"} /\ How # "none"
           /\ How = "indY" => Name \in Stores
           /\ How = "indY" \/ Address \in WorkArea \/ Address \in TtyPage
           /\ \E k \in {2, 3} : Length(How) = k /\ Plus(PC, k) = PC + k /\ Within(r, PC + k, PC)
<1>0. PC \in LoadedAddr /\ PC \in Int
  <2>1. PC \in LoadedAddr
    BY DEF Keeps, Loaded2, Loaded3
  <2> QED BY <2>1, Reading
<1>1. Name = Mnemonic(Op(PC)) /\ How = Mode(Op(PC))
      /\ Plus(PC, 2) = PC + 2 /\ Plus(PC, 3) = PC + 3
      /\ (PC + 1 \in LoadedAddr => At(1) = Op(PC + 1))
      /\ (PC + 2 \in LoadedAddr => At(2) = Op(PC + 2))
  BY <1>0, Fetching DEF Op
<1>2. Length("zp") = 2 /\ Length("abs") = 3 /\ Length("indY") = 2 /\ Length("zpX") = 2
  BY DEF Length
<1>3. CASE Loaded2(PC) /\ Op(PC) \in Stores2 /\ Op(PC + 1) \in WorkArea /\ Within(r, PC + 2, PC)
  <2>1. How = "zp" /\ Name \in {"STA", "STX", "ASL", "ROL", "INC", "DEC"}
    BY <1>1, <1>3, ClassNames
  <2>2. Address = Op(PC + 1)
    BY <1>1, <1>3, <2>1 DEF Address, Loaded2
  <2> QED BY <1>1, <1>2, <1>3, <2>1, <2>2
<1>4. CASE /\ Loaded3(PC) /\ Op(PC) = \h8D /\ Within(r, PC + 3, PC)
           /\ Operand16(PC) \in Nat /\ \h8000 <= Operand16(PC) /\ Operand16(PC) < \h8100
  <2>1. How = "abs" /\ Name = "STA"
    BY <1>1, <1>4, OpcodesUsed DEF Is
  <2>2. Address = Operand16(PC)
    BY <1>1, <1>4, <2>1 DEF Address, Arg16, Operand16, Loaded2, Loaded3, Op
  <2>3. Address \in TtyPage
    BY <1>4, <2>2 DEF TtyPage, MonitorsMap
  <2> QED BY <1>1, <1>2, <1>4, <2>1, <2>3
<1>5. CASE Loaded2(PC) /\ Op(PC) = \h91 /\ Within(r, PC + 2, PC)
  <2>1. How = "indY" /\ Name = "STA"
    BY <1>1, <1>5, OpcodesUsed DEF Is
  <2> QED BY <1>1, <1>2, <1>5, <2>1 DEF Stores
<1>6. CASE Loaded2(PC) /\ Op(PC) = \h95 /\ Op(PC + 1) = 0 /\ PC = \hC415 /\ Within(r, PC + 2, PC)
  <2>1. How = "zpX" /\ Name = "STA"
    BY <1>1, <1>6, OpcodesUsed DEF Is
  <2>2. Address = (0 + X) % 256
    BY <1>1, <1>6, <2>1 DEF Address, Loaded2
  <2>3. X \in Int /\ 0 <= X /\ X < 64
    <3>1. \hC415 \in READ_LINE.starts \ {\hC400} /\ \hC415 \in \hC415 .. \hC41A
      BY DEF READ_LINE
    <3> QED BY <1>6, <3>1 DEF LineLengthOK, LineLimit
  <2>4. Address = X /\ X \in WorkArea
    BY <2>2, <2>3 DEF WorkArea
  <2> QED BY <1>1, <1>2, <1>6, <2>1, <2>4
<1> QED BY <1>3, <1>4, <1>5, <1>6 DEF Keeps

LEMMA KeepsOn ==
    ASSUME MonitorsMap, RomStands, Execute, SparesStack, turn = "execute", LineLengthOK(PC),
           NEW n \in Nat, NEW f \in [0 .. n -> Frame], NEW r, AtWork(r, n, f), Keeps(r, PC)
    PROVE  Continues(n, f) /\ PC' \in r.starts
<1>0. PC \in LoadedAddr /\ PC < \hD300
  BY WorkPC DEF Keeps, Loaded2, Loaded3
<1>1. /\ Name \in {"STA", "STX", "ASL", "ROL", "INC", "DEC"} /\ How # "none"
      /\ How = "indY" => Name \in Stores
      /\ How = "indY" \/ Address \in WorkArea \/ Address \in TtyPage
  BY <1>0, Keeping
<1>2. PICK v : mem' = Stored(mem, Address, v)
  BY <1>1, Storing
<1>3. SP' = SP /\ PC' = Plus(PC, Length(How))
  BY <1>1, Storing
<1>4. PICK k \in {2, 3} : Length(How) = k /\ Plus(PC, k) = PC + k /\ Within(r, PC + k, PC)
  BY <1>0, Keeping
<1>5. Address \notin Ram \/ \A c \in Int : 257 + SP <= c /\ c <= 511 => c # Address
  <2>1. CASE How = "indY"
    BY <1>0, <1>1, <2>1, WorkSP DEF SparesStack
  <2>2. CASE Address \in WorkArea
    BY <2>2, WorkSP DEF WorkArea
  <2>3. CASE Address \in TtyPage
    BY <2>3, MapAssumption
  <2> QED BY <1>1, <2>1, <2>2, <2>3
<1>6. \A c \in Int : 257 + SP <= c /\ c <= 511 => mem'[c] = mem[c]
  <2> SUFFICES ASSUME NEW c \in Int, 257 + SP <= c, c <= 511 PROVE mem'[c] = mem[c]
    OBVIOUS
  <2>1. c \in DOMAIN mem
    <3>1. c \in StackPage
      BY WorkSP DEF StackPage
    <3> QED BY <3>1 DEF MonitorsMap, RomStands
  <2>2. CASE Address \notin Ram
    BY <1>2, <2>2 DEF Stored
  <2>3. CASE c # Address
    BY <1>2, <2>1, <2>3 DEF Stored
  <2> QED BY <1>5, <2>2, <2>3
<1>7. Above(SP + Own(r, PC))
  <2>1. SP \in Int /\ Own(r, PC) \in {0, 1}
    BY WorkSP, OwnIsBit
  <2> QED BY <1>6, <2>1 DEF Above
<1>8. Within(r, PC', PC)
  BY <1>3, <1>4
<1> QED BY <1>3, <1>7, <1>8, GoesOnSteady

-----------------------------------------------------------------------------
(* A call pushes the address it returns to, less one.                      *)
LEMMA Calling ==
    ASSUME MonitorsMap, RomStands, Execute, Name = "JSR", PC \in Int, SP \in 2 .. 255,
           Plus(PC, 2) = PC + 2, PC + 2 >= 0
    PROVE  /\ X' = X /\ SP' = SP - 2
           /\ mem'[256 + SP] = (PC + 2) \div 256 /\ mem'[255 + SP] = (PC + 2) % 256
           /\ \A a \in Ram : a # 256 + SP /\ a # 255 + SP => mem'[a] = mem[a]
           /\ PC + 2 \notin Ram => PC' = At(1) + 256 * At(2)
<1>1. Call
  BY EffectOfName
<1>2. mem' = Pushed2((PC + 2) \div 256, (PC + 2) % 256) /\ X' = X
      /\ (PC + 2 \notin Ram => PC' = At(1) + 256 * At(2))
  BY <1>1 DEF Call
<1>3. SP' = SP - 2
  <2>1. SP' = (SP + -2) % 256
    BY <1>1 DEF Call, MoveSP
  <2> QED BY <2>1
<1> QED BY <1>2, <1>3, Pushing2

LEMMA StackIsRam ==
    ASSUME MonitorsMap
    PROVE  \A c \in Int : 256 <= c /\ c <= 511 => c \in Ram
<1>1. \A c \in Int : 256 <= c /\ c <= 511 => c \in StackPage
  BY DEF StackPage
<1> QED BY <1>1 DEF MonitorsMap

LEMMA CallsNow ==
    ASSUME MonitorsMap, RomStands, Execute,
           NEW n \in Nat, NEW f \in [0 .. n -> Frame], NEW r, AtWork(r, n, f),
           NEW t \in Routines, Calls(r, PC, t)
    PROVE  /\ Suspended(n, f) /\ X' = X
           /\ PC' = Operand16(PC) /\ PC' \in t.starts /\ \A a \in Ram : a < 256 => mem'[a] = mem[a]
<1>0. PC \in LoadedAddr /\ PC + 1 \in LoadedAddr /\ PC + 2 \in LoadedAddr
      /\ PC \in Int /\ PC < \hD300 /\ PC >= \hC000 /\ r \in Routines
  BY WorkPC DEF Calls, Loaded2, Loaded3
<1>1. Name = "JSR" /\ At(1) = FirmwareRom[PC + 1] /\ At(2) = FirmwareRom[PC + 2]
      /\ Plus(PC, 2) = PC + 2
  <2>1. /\ Name = Mnemonic(Op(PC)) /\ At(1) = FirmwareRom[PC + 1] /\ At(2) = FirmwareRom[PC + 2]
        /\ Plus(PC, 2) = PC + 2
    BY <1>0, Fetching
  <2> QED BY <2>1, OpcodesUsed DEF Calls, Is
<1>2. SP \in Int /\ 240 <= SP /\ SP <= 255
  BY WorkSP
<1>3. /\ X' = X /\ SP' = SP - 2
      /\ mem'[256 + SP] = (PC + 2) \div 256 /\ mem'[255 + SP] = (PC + 2) % 256
      /\ \A a \in Ram : a # 256 + SP /\ a # 255 + SP => mem'[a] = mem[a]
      /\ PC' = At(1) + 256 * At(2)
  <2>1. PC + 2 \notin Ram /\ SP \in 2 .. 255 /\ PC + 2 >= 0
    BY <1>0, <1>2, Reading
  <2> QED BY <1>0, <1>1, <2>1, Calling
<1>4. /\ PC' = Operand16(PC) /\ PC' \in t.starts /\ Own(t, PC') = 0
      /\ Own(r, PC + 3) = Own(r, PC) /\ PC + 3 \in r.starts /\ PC + 3 \in t.returns
      /\ r.rank < t.rank
  BY <1>1, <1>3 DEF Operand16, Calls, Enters, Within
<1>5. PICK p \in Nat, s \in 0 .. 255 : p = PC' /\ s = SP'
  <2>1. PC' \in Nat
    BY <1>4, Regions
  <2>2. SP - 2 \in 0 .. 255
    BY <1>2
  <2> QED BY <1>3, <2>1, <2>2
<1>6. PICK q \in Nat, z \in 2 .. 255 : q = PC /\ z = SP
  BY <1>0, <1>2
<1>7. [at |-> p, sp |-> s] \in Frame /\ [at |-> q + 3, sp |-> z] \in Frame /\ s = z - 2
  <2>1. q + 3 \in Nat /\ z \in 0 .. 255
    OBVIOUS
  <2>2. [at |-> q + 3, sp |-> z] \in Frame
    BY <2>1, FrameOf
  <2>3. [at |-> p, sp |-> s] \in Frame
    BY FrameOf
  <2> QED BY <1>3, <1>5, <1>6, <2>2, <2>3
<1>8. \E g \in [0 .. n -> Frame] :
          Chain(n, g)' /\ g[0] = [at |-> q + 3, sp |-> z] /\ \A i \in 1 .. n : g[i] = f[i]
  <2>1. f[0].at = q /\ f[0].sp = z /\ Chain(n, f) /\ OnTop(r, n, f)
    BY <1>6, WorkFrame DEF AtWork
  <2>2. q + 3 \in r.starts /\ Own(r, q + 3) = Own(r, q) /\ Own(r, q) \in {0, 1}
    BY <1>4, <1>6, OwnIsBit
  <2>3. Above(z + Own(r, q))
    <3> SUFFICES ASSUME NEW c \in Int, 257 + (z + Own(r, q)) <= c, c <= 511
                 PROVE  mem'[c] = mem[c]
      BY DEF Above
    <3>1. 257 + z <= c
      BY <2>2
    <3>2. c \in Ram /\ c # 256 + SP /\ c # 255 + SP
      BY <1>6, <3>1, StackIsRam
    <3> QED BY <1>3, <3>2
  <2>4. PICK x \in Frame : x = [at |-> q + 3, sp |-> z]
    BY <1>7
  <2>5. x.at = q + 3 /\ x.sp = z
    BY <2>4
  <2>6. x.at \in r.starts /\ x.sp + Own(r, x.at) = f[0].sp + Own(r, f[0].at)
    BY <2>1, <2>2, <2>5
  <2>7. Above(f[0].sp + Own(r, f[0].at))
    BY <2>1, <2>3
  <2>8. \E g \in [0 .. n -> Frame] : Chain(n, g)' /\ g[0] = x /\ \A i \in 1 .. n : g[i] = f[i]
    BY <2>1, <2>6, <2>7, TopMoves
  <2> QED BY <2>4, <2>8
<1>9. CalledFrom(t, [at |-> p, sp |-> s], [at |-> q + 3, sp |-> z])'
  <2>1. ReturnAt(s)' = q + 3
    <3>1. mem'[257 + s] = (q + 2) % 256 /\ mem'[258 + s] = (q + 2) \div 256
      BY <1>3, <1>6, <1>7
    <3>2. ((q + 2) % 256) + 256 * ((q + 2) \div 256) = q + 2
      OBVIOUS
    <3> QED BY <3>1, <3>2 DEF ReturnAt
  <2>2. s >= \hFD - 3 * t.rank
    <3>1. PICK i \in 0 .. 4, j \in 0 .. 4 : i = r.rank /\ j = t.rank
      BY <1>0, Regions
    <3>2. PICK own \in {0, 1} : own = Own(r, PC)
      BY OwnIsBit
    <3>3. z + own >= \hFD - 3 * i
      BY <1>6, <3>1, <3>2, WorkDepth
    <3>4. i < j
      BY <1>4, <3>1
    <3>5. s >= \hFD - 3 * j
      BY <1>7, <3>3, <3>4
    <3> QED BY <3>1, <3>5
  <2>3. p \in t.starts /\ Own(t, p) = 0 /\ q + 3 \in t.returns
    BY <1>4, <1>5, <1>6
  <2>4. s + 0 = s /\ z = s + 0 + 2
    BY <1>7
  <2> QED BY <2>1, <2>2, <2>3, <2>4 DEF CalledFrom
<1>10. \E g \in [0 .. n + 1 -> Frame] :
          /\ Chain(n + 1, g)' /\ g[0] = [at |-> p, sp |-> s] /\ g[1] = [at |-> q + 3, sp |-> z]
          /\ \A i \in 2 .. n + 1 : g[i] = f[i - 1]
  <2>1. PICK g \in [0 .. n -> Frame] :
          Chain(n, g)' /\ g[0] = [at |-> q + 3, sp |-> z] /\ \A i \in 1 .. n : g[i] = f[i]
    BY <1>8
  <2>2. CalledFrom(t, [at |-> p, sp |-> s], g[0])'
    BY <1>9, <2>1
  <2>3. PICK h \in [0 .. n + 1 -> Frame] :
          Chain(n + 1, h)' /\ h[0] = [at |-> p, sp |-> s] /\ \A i \in 1 .. n + 1 : h[i] = g[i - 1]
    BY <1>7, <2>1, <2>2, TopCalls
  <2>4. h[1] = g[0] /\ \A i \in 2 .. n + 1 : h[i] = f[i - 1]
    BY <2>1, <2>3
  <2> QED BY <2>1, <2>3, <2>4
<1>11. Suspended(n, f)
  BY <1>5, <1>6, <1>10 DEF Suspended, NextTop
<1>12. \A a \in Ram : a < 256 => mem'[a] = mem[a]
  BY <1>2, <1>3, Reading
<1> QED BY <1>3, <1>4, <1>11, <1>12

-----------------------------------------------------------------------------
(* Every instruction of a routine flows in it.                             *)
LEMMA RoutineFlows ==
    ASSUME NEW r \in Routines, r # TRAMPOLINE, NEW a \in r.starts
    PROVE  Flows(r, a) /\ a \in LoadedAddr
<1>1. r = GETCHAR => Flows(r, a)
  BY GetcharFlows
<1>2. r = PUTCHAR => Flows(r, a)
  BY PutcharFlows
<1>3. r = PRINT_HEX_BYTE => Flows(r, a)
  BY PrintHexByteFlows
<1>4. r = PRINT_NIBBLE => Flows(r, a)
  BY PrintNibbleFlows
<1>5. r = PRINT_STRING => Flows(r, a)
  BY PrintStringFlows
<1>6. r = READ_LINE => Flows(r, a)
  BY ReadLineFlows
<1>7. r = PARSE_ADDR => Flows(r, a)
  BY ParseAddrFlows
<1>8. r = PARSE_BYTE => Flows(r, a)
  BY ParseByteFlows
<1>9. r = HEXVAL => Flows(r, a)
  BY HexvalFlows
<1>10. r = DISPATCH => Flows(r, a)
  BY DispatchFlows
<1>11. r = PEEK => Flows(r, a)
  BY PeekFlows
<1>12. r = LIST => Flows(r, a)
  BY ListFlows
<1>13. r = POKE => Flows(r, a)
  BY PokeFlows
<1>14. r = RUN => Flows(r, a)
  BY RunFlows
<1>15. r = MAIN_LOOP => Flows(r, a)
  BY MainLoopFlows
<1>16. r = SAVE => Flows(r, a)
  BY SaveFlows
<1>17. r = LOAD => Flows(r, a)
  BY LoadFlows
<1>18. r = READ_TAPE_BYTE => Flows(r, a)
  BY ReadTapeByteFlows
<1>19. r = REWIND => Flows(r, a)
  BY RewindFlows
<1>20. Flows(r, a)
  BY <1>1, <1>2, <1>3, <1>4, <1>5, <1>6, <1>7, <1>8, <1>9, <1>10,
     <1>11, <1>12, <1>13, <1>14, <1>15, <1>16, <1>17, <1>18, <1>19 DEF Routines
<1>21. a \in LoadedAddr
  BY <1>20 DEF Flows, Computes, Keeps, Forks, JumpsWithin, JumpsTo, Calls, Returns, Pushes, Pulls,
              Loaded2, Loaded3
<1> QED BY <1>20, <1>21

LEMMA StartsElsewhere ==
    ASSUME NEW r \in Routines, NEW a \in r.starts
    PROVE  a \in Elsewhere
  BY RoutineFlows DEF Elsewhere

(* What a routine's instruction does: it stays in the routine, ...         *)
StaysIn(r) ==
    \/ Computes(r, PC) \/ Keeps(r, PC) \/ Forks(r, PC) \/ JumpsWithin(r, PC)
    \/ Pushes(r, PC) \/ Pulls(r, PC)

LEMMA StaysOn ==
    ASSUME MonitorsMap, RomStands, Execute, SparesStack, turn = "execute", LineLengthOK(PC),
           NEW n \in Nat, NEW f \in [0 .. n -> Frame], NEW r, AtWork(r, n, f), StaysIn(r)
    PROVE  Continues(n, f) /\ PC' \in r.starts
  BY ComputesOn, KeepsOn, ForksOn, JumpsOn, PushesOn, PullsOn DEF StaysIn

LEMMA StepKinds ==
    ASSUME NEW n \in Nat, NEW f \in [0 .. n -> Frame], NEW r, AtWork(r, n, f)
    PROVE  \/ StaysIn(r)
           \/ \E t \in Routines : JumpsTo(r, PC, t)
           \/ \E t \in Routines : Calls(r, PC, t)
           \/ Returns(r, PC)
<1>1. r \in Routines /\ r # TRAMPOLINE /\ PC \in r.starts
  BY WorkPC DEF AtWork
<1>2. Flows(r, PC)
  BY <1>1, RoutineFlows
<1> QED BY <1>2 DEF Flows, StaysIn

-----------------------------------------------------------------------------
(* The length of the line.                                                 *)
LEMMA OutsideReadLine ==
    ASSUME NEW r \in Routines, r # READ_LINE, NEW a \in r.starts
    PROVE  a \notin READ_LINE.starts /\ LineLengthOK(a) /\ LineLengthOK(a)'
<1>1. a \in Nat /\ (a < \hC400 \/ a >= \hC500)
  BY Regions
<1>2. a \notin READ_LINE.starts
  BY <1>1 DEF READ_LINE
<1> QED BY <1>1, <1>2 DEF LineLengthOK

(* Where a routine is entered nothing is asked yet.                        *)
LEMMA EntersClear ==
    ASSUME NEW t \in Routines, NEW a, Enters(t, a)
    PROVE  LineLengthOK(Operand16(a))'
<1> DEFINE to == Operand16(a)
<1>1. to \in t.starts /\ \A b \in t.starts : to <= b
  BY DEF Enters
<1> HIDE DEF to
<1>2. CASE t = READ_LINE
  <2>1. to = \hC400
    BY <1>1, <1>2 DEF READ_LINE
  <2>2. LineLengthOK(to)'
    BY <2>1 DEF LineLengthOK
  <2> QED BY <2>2 DEF to
<1>3. CASE t # READ_LINE
  <2>1. LineLengthOK(to)'
    BY <1>1, <1>3, OutsideReadLine
  <2> QED BY <2>1 DEF to
<1> QED BY <1>2, <1>3

(* GETCHAR and PUTCHAR.                                                    *)
LEMMA Leaves ==
    ASSUME NEW a \in Untouching
    PROVE  a \in LoadedAddr /\ Op(a) \in {\hAD, \h29, \hF0, \h8D, \h60}
<1>1. CASE a \in GETCHAR.starts
  BY <1>1, GetcharCode DEF GETCHAR, Op, kGetCharHex
<1>2. CASE a \in PUTCHAR.starts
  BY <1>2, PutcharCode DEF PUTCHAR, Op, kPutCharHex
<1> QED BY <1>1, <1>2 DEF Untouching

LEMMA LeavesKeepX ==
    ASSUME MonitorsMap, RomStands, Execute, PC \in Untouching
    PROVE  X' = X
<1>1. Op(PC) \in {\hAD, \h29, \hF0, \h8D, \h60} /\ Name = Mnemonic(Op(PC)) /\ How = Mode(Op(PC))
  BY Leaves, Fetching
<1>2. \/ Name \in {"LDA", "AND"}
      \/ Name = "BEQ"
      \/ Name = "STA" /\ How = "abs"
      \/ Name = "RTS"
  <2>1. /\ Mnemonic(\hAD) = "LDA" /\ Mnemonic(\h29) = "AND" /\ Mnemonic(\hF0) = "BEQ"
        /\ Mnemonic(\h8D) = "STA" /\ Mode(\h8D) = "abs" /\ Mnemonic(\h60) = "RTS"
    BY OpcodesUsed DEF Is
  <2>2. PICK op : op = Op(PC)
    OBVIOUS
  <2>3. op \in {\hAD, \h29, \hF0, \h8D, \h60} /\ Name = Mnemonic(op) /\ How = Mode(op)
    BY <1>1, <2>2
  <2> QED BY <2>1, <2>3
<1>3. CASE Name \in {"LDA", "AND"}
  <2>1. Name \in ComputingNames /\ Name \notin {"LDX", "INX", "DEX"}
    BY <1>3 DEF ComputingNames
  <2> QED BY <2>1, Computing
<1>4. CASE Name = "BEQ"
  BY <1>4, Branching DEF Branches
<1>5. CASE Name = "STA" /\ How = "abs"
  BY <1>5, Storing
<1>6. CASE Name = "RTS"
  BY <1>6, EffectOfName DEF Return
<1> QED BY <1>2, <1>3, <1>4, <1>5, <1>6

LEMMA LeavesStay ==
    ASSUME NEW r \in Routines, PC \in Untouching, PC \in r.starts
    PROVE  /\ \A a \in r.starts : a \in Untouching
           /\ \A t \in Routines : ~JumpsTo(r, PC, t) /\ ~Calls(r, PC, t)
<1>1. PC \in Nat /\ \hC000 <= PC /\ PC < \hC200
  BY DEF Untouching, GETCHAR, PUTCHAR
<1>2. r = GETCHAR \/ r = PUTCHAR
  BY <1>1, Regions
<1>3. Op(PC) # \h4C /\ Op(PC) # \h20
  BY Leaves
<1> QED BY <1>2, <1>3 DEF Untouching, JumpsTo, Calls

-----------------------------------------------------------------------------
(* No instruction of any program changes the ROM.                          *)
OnlyRam == DOMAIN mem' = DOMAIN mem /\ \A a \in DOMAIN mem \ Ram : mem'[a] = mem[a]

LEMMA StoredOnlyRam ==
    ASSUME NEW m, NEW a, NEW v
    PROVE  /\ DOMAIN Stored(m, a, v) = DOMAIN m
           /\ \A b \in DOMAIN m \ Ram : Stored(m, a, v)[b] = m[b]
  BY DEF Stored

LEMMA StoresOnlyRam == Execute => OnlyRam
<1> SUFFICES ASSUME Execute PROVE OnlyRam
  OBVIOUS
<1>0. mem' = mem => OnlyRam
  BY DEF OnlyRam
<1>1. \/ Load \/ Arithmetic \/ Logic \/ Compare \/ BitTest
      \/ Modify \/ StoreIt \/ Transfer \/ Simple \/ BranchIt
      \/ Push \/ Pull \/ Jump \/ Call \/ Return \/ Break \/ ReturnFromBreak
  BY DEF Execute
<1>2. CASE Load \/ Arithmetic \/ Logic \/ Compare \/ BitTest \/ Transfer
  <2>1. GoOver
    BY <1>2 DEF Load, Arithmetic, Logic, Compare, BitTest, Transfer
  <2> QED BY <1>0, <2>1 DEF GoOver, Keep
<1>3. CASE Simple \/ BranchIt \/ Pull \/ Jump \/ Return \/ ReturnFromBreak
  <2>1. Keep
    BY <1>3 DEF Simple, BranchIt, Pull, Jump, Return, ReturnFromBreak
  <2> QED BY <1>0, <2>1 DEF Keep
<1>4. CASE Modify
  <2>1. Keep \/ mem' = Stored(mem, Address, Modified(Operand))
    BY <1>4 DEF Modify
  <2> QED BY <1>0, <2>1, StoredOnlyRam DEF Keep, OnlyRam
<1>5. CASE StoreIt
  <2>1. mem' = Stored(mem, Address, Source)
    BY <1>5 DEF StoreIt
  <2> QED BY <2>1, StoredOnlyRam DEF OnlyRam
<1>6. CASE Push
  <2>1. \E b : mem' = Pushed1(b)
    BY <1>6 DEF Push
  <2> QED BY <2>1, StoredOnlyRam DEF OnlyRam, Pushed1
<1>7. CASE Call
  <2>1. PICK b, c : mem' = Pushed2(b, c)
    BY <1>7 DEF Call
  <2>2. DOMAIN Pushed1(b) = DOMAIN mem /\ \A a \in DOMAIN mem \ Ram : Pushed1(b)[a] = mem[a]
    BY StoredOnlyRam DEF Pushed1
  <2>3. /\ DOMAIN Pushed2(b, c) = DOMAIN mem
        /\ \A a \in DOMAIN mem \ Ram : Pushed2(b, c)[a] = mem[a]
    BY <2>2, StoredOnlyRam DEF Pushed2
  <2> QED BY <2>1, <2>3 DEF OnlyRam
<1>8. CASE Break
  <2>1. PICK b, c, d : mem' = Pushed3(b, c, d)
    BY <1>8 DEF Break
  <2>2. DOMAIN Pushed1(b) = DOMAIN mem /\ \A a \in DOMAIN mem \ Ram : Pushed1(b)[a] = mem[a]
    BY StoredOnlyRam DEF Pushed1
  <2>3. /\ DOMAIN Pushed2(b, c) = DOMAIN mem
        /\ \A a \in DOMAIN mem \ Ram : Pushed2(b, c)[a] = mem[a]
    BY <2>2, StoredOnlyRam DEF Pushed2
  <2>4. /\ DOMAIN Pushed3(b, c, d) = DOMAIN mem
        /\ \A a \in DOMAIN mem \ Ram : Pushed3(b, c, d)[a] = mem[a]
    BY <2>3, StoredOnlyRam DEF Pushed3
  <2> QED BY <2>1, <2>4 DEF OnlyRam
<1> QED BY <1>1, <1>2, <1>3, <1>4, <1>5, <1>6, <1>7, <1>8

LEMMA RomKept ==
    ASSUME MonitorsMap, RomStands, Execute
    PROVE  RomStands'
<1>1. OnlyRam
  BY StoresOnlyRam
<1>2. \A a \in LoadedAddr : a \in DOMAIN mem \ Ram
  BY Reading DEF RomStands, MonitorsMap
<1>3. DOMAIN mem' = Ram \cup Rom /\ \A a \in LoadedAddr : mem'[a] = FirmwareRom[a]
  BY <1>1, <1>2 DEF RomStands, OnlyRam
<1> QED BY <1>3 DEF RomStands

-----------------------------------------------------------------------------
(* The instructions of READ_LINE that look at X or change it.              *)
LEMMA Immediate ==
    ASSUME MonitorsMap, RomStands, PC \in LoadedAddr, PC < \hD300, PC + 1 \in LoadedAddr,
           How = "imm"
    PROVE  Operand = Op(PC + 1) /\ Plus(PC, Length(How)) = PC + 2
<1>1. PC \in Int /\ 0 <= PC
  BY Reading
<1>2. BusData(PC + 1) = FirmwareRom[PC + 1]
  BY Reading
<1>3. Plus(PC, 1) = PC + 1 /\ Plus(PC, 2) = PC + 2
  BY <1>1 DEF Plus
<1>4. Operand = Op(PC + 1)
  BY <1>2, <1>3 DEF Operand, Address, Op
<1> QED BY <1>3, <1>4 DEF Length

(* The line's length stays as it has to be within READ_LINE.               *)
LEMMA LineStep ==
    ASSUME MonitorsMap, RomStands, Execute, PC \in READ_LINE.starts, LineLengthOK(PC),
           StaysIn(READ_LINE), NEW b, b = PC'
    PROVE  LineLengthOK(b)'
<1>0. READ_LINE \in Routines
  BY DEF Routines
<1>1. PC \in Int /\ PC \in \hC400 .. \hC441 /\ PC < \hD300
  BY DEF READ_LINE
<1>2. PC \in LoadedAddr /\ Op(PC) = kReadLineHex[PC - \hC400 + 1]
  BY <1>1, ReadLineCode DEF Op
<1>3. Name = Mnemonic(Op(PC)) /\ How = Mode(Op(PC)) /\ Plus(PC, 1) = PC + 1 /\ Plus(PC, 2) = PC + 2
  BY <1>1, <1>2, Fetching
<1>4. PC < \hC441 => PC + 1 \in LoadedAddr /\ Op(PC + 1) = kReadLineHex[PC + 1 - \hC400 + 1]
  <2> SUFFICES ASSUME PC < \hC441
               PROVE  PC + 1 \in LoadedAddr /\ Op(PC + 1) = kReadLineHex[PC + 1 - \hC400 + 1]
    OBVIOUS
  <2>1. PICK q : q = PC + 1
    OBVIOUS
  <2>2. q \in \hC400 .. \hC441
    BY <1>1, <2>1
  <2>3. q \in LoadedAddr /\ FirmwareRom[q] = kReadLineHex[q - \hC400 + 1]
    BY <2>2, ReadLineCode
  <2>4. q - \hC400 + 1 = PC + 1 - \hC400 + 1
    BY <1>1, <2>1
  <2>5. PC + 1 \in LoadedAddr /\ Op(PC + 1) = kReadLineHex[q - \hC400 + 1]
    BY <2>1, <2>3 DEF Op
  <2> QED BY <2>4, <2>5
<1>5. CASE PC \in {\hC405, \hC409, \hC40D, \hC423, \hC428, \hC42D, \hC435, \hC43A}
  <2>1. Op(PC) \in {\hA9, \hC9}
    BY <1>2, <1>5 DEF kReadLineHex
  <2>2. How = "imm" /\ Name \in {"LDA", "CMP"}
    BY <1>3, <2>1, OpcodesUsed DEF Is
  <2>3. Plus(PC, Length(How)) = PC + 2
    BY <1>1, <1>2, <1>4, <1>5, <2>2, Immediate
  <2>4. X' = X /\ b = PC + 2
    BY <2>2, <2>3, Computing DEF ComputingNames
  <2> QED BY <1>5, <2>4 DEF LineLengthOK, READ_LINE
<1>6. CASE PC \in {\hC407, \hC40B, \hC40F}
  <2>1. Forks(READ_LINE, PC) /\ Op(PC) = \hF0
    BY <1>2, <1>6, ReadLineCode DEF Forks, Branches2, Loaded2, Op, Signed, Within, Own, READ_LINE,
       kReadLineHex, LineLimit
  <2>2. X' = X /\ b \in {PC + 2 + Signed(Op(PC + 1)), PC + 2}
    BY <1>0, <1>1, <2>1, Forking
  <2>3. b \in {\hC435, \hC409, \hC41E, \hC40D, \hC411}
    BY <1>4, <1>6, <2>2 DEF kReadLineHex, Signed
  <2> QED BY <1>6, <2>2, <2>3 DEF LineLengthOK, READ_LINE
<1>7. CASE PC \in {\hC41B, \hC432}
  <2>1. Loaded3(PC) /\ Op(PC) = \h4C /\ Operand16(PC) = \hC402
    BY <1>7, ReadLineCode DEF Loaded2, Loaded3, Op, Operand16, kReadLineHex
  <2>2. X' = X /\ b = \hC402
    BY <2>1, Jumps
  <2> QED BY <1>7, <2>2 DEF LineLengthOK, READ_LINE
<1>8. CASE PC \in {\hC415, \hC43F}
  <2>1. Op(PC) \in {\h95, \h86}
    BY <1>2, <1>8 DEF kReadLineHex
  <2>2. How \in {"zpX", "zp"} /\ Name \in {"STA", "STX"}
    BY <1>3, <2>1, OpcodesUsed DEF Is
  <2>3. X' = X /\ b = PC + 2
    BY <1>3, <2>2, Storing DEF Length
  <2> QED BY <1>8, <2>3 DEF LineLengthOK, READ_LINE
<1>9. CASE PC = \hC400
  <2>1. Op(PC) = \hA2 /\ Op(PC + 1) = 0
    BY <1>2, <1>4, <1>9 DEF kReadLineHex
  <2>2. How = "imm" /\ Name = "LDX"
    BY <1>3, <2>1, OpcodesUsed DEF Is
  <2>3. Operand = 0 /\ Plus(PC, Length(How)) = PC + 2
    BY <1>1, <1>2, <1>4, <1>9, <2>1, <2>2, Immediate
  <2>4. X' = 0 /\ b = \hC402
    BY <1>9, <2>2, <2>3, EffectOfName DEF Load, GoOver, GoOn
  <2>5. X' \in 0 .. LineLimit /\ X' < LineLimit
    BY <2>4 DEF LineLimit
  <2>6. b # \hC413 /\ b # \hC420 /\ b # \hC422
    BY <2>4
  <2> QED BY <2>5, <2>6 DEF LineLengthOK
<1>10. CASE PC \in {\hC411, \hC41E}
  <2>1. Op(PC) = \hE0 /\ Op(PC + 1) = IF PC = \hC411 THEN LineLimit ELSE 0
    BY <1>2, <1>4, <1>10 DEF kReadLineHex
  <2>2. How = "imm" /\ Name = "CPX"
    BY <1>3, <2>1, OpcodesUsed DEF Is
  <2>3. Operand = Op(PC + 1) /\ Plus(PC, Length(How)) = PC + 2
    BY <1>1, <1>2, <1>4, <1>10, <2>2, Immediate
  <2>4. X' = X /\ b = PC + 2
    BY <2>2, <2>3, EffectOfName DEF Compare, GoOver, GoOn
  <2>5. P' = SetBits(P, {"N", "Z", "C"}, NZ((X - Operand) % 256) \cup If(X >= Operand, "C"))
    BY <2>2, EffectOfName DEF Compare, Flags
  <2>6. /\ "C" \in P' <=> X >= Operand
        /\ "Z" \in P' <=> (X - Operand) % 256 = 0
    BY <2>5 DEF SetBits, NZ, If
  <2>7. X \in Int /\ 0 <= X /\ X <= 64
    BY <1>10 DEF LineLengthOK, READ_LINE, LineLimit
  <2>8. CASE PC = \hC411
    BY <2>1, <2>3, <2>4, <2>6, <2>7, <2>8 DEF LineLengthOK, READ_LINE, LineLimit
  <2>9. CASE PC = \hC41E
    <3>1. "Z" \in P' <=> X = 0
      <4>1. Operand = 0
        BY <2>1, <2>3, <2>9
      <4>2. (X - 0) % 256 = X
        BY <2>7
      <4>3. (X - Operand) % 256 = X
        BY <4>1, <4>2
      <4> QED BY <2>6, <4>3
    <3> QED BY <2>4, <2>7, <2>9, <3>1 DEF LineLengthOK, READ_LINE, LineLimit
  <2> QED BY <1>10, <2>8, <2>9
<1>11. CASE PC \in {\hC413, \hC420}
  <2>1. Forks(READ_LINE, PC) /\ Op(PC) = IF PC = \hC413 THEN \hB0 ELSE \hF0
    BY <1>2, <1>11, ReadLineCode DEF Forks, Branches2, Loaded2, Op, Signed, Within, Own,
       READ_LINE,
       kReadLineHex, LineLimit
  <2>2. Name = IF PC = \hC413 THEN "BCS" ELSE "BEQ"
    BY <1>3, <2>1, OpcodesUsed DEF Is
  <2>3. X' = X /\ b = IF Condition THEN PC + 2 + Signed(Op(PC + 1)) ELSE PC + 2
    BY <1>0, <1>1, <2>1, Forking
  <2>4. b = IF Condition THEN \hC402 ELSE PC + 2
    BY <1>4, <1>11, <2>3 DEF kReadLineHex, Signed
  <2>5. /\ Name = "BCS" => (Condition <=> "C" \in P)
        /\ Name = "BEQ" => (Condition <=> "Z" \in P)
    BY DEF Condition
  <2>6. X \in Int /\ 0 <= X /\ X <= 64
    BY <1>11 DEF LineLengthOK, READ_LINE, LineLimit
  <2>7. CASE PC = \hC413
    BY <2>2, <2>3, <2>4, <2>5, <2>6, <2>7 DEF LineLengthOK, READ_LINE, LineLimit
  <2>8. CASE PC = \hC420
    BY <2>2, <2>3, <2>4, <2>5, <2>6, <2>8 DEF LineLengthOK, READ_LINE, LineLimit
  <2> QED BY <1>11, <2>7, <2>8
<1>12. CASE PC \in {\hC41A, \hC422}
  <2>1. Op(PC) = IF PC = \hC41A THEN \hE8 ELSE \hCA
    BY <1>2, <1>12 DEF kReadLineHex
  <2>2. How = "none" /\ Name = IF PC = \hC41A THEN "INX" ELSE "DEX"
    <3>1. Is(\hE8, "INX", "none") /\ Is(\hCA, "DEX", "none")
      BY OpcodesUsed
    <3> QED BY <1>3, <2>1, <3>1 DEF Is
  <2>3. Transfer
    BY <2>2, EffectOfName
  <2>4. b = PC + 1 /\ X' = IF PC = \hC41A THEN (X + 1) % 256 ELSE (X - 1) % 256
    BY <1>3, <2>2, <2>3 DEF Transfer, GoOver, GoOn, Length
  <2>5. X \in Int /\ 0 <= X /\ X <= 64 /\ (PC = \hC41A => X < 64) /\ (PC = \hC422 => X > 0)
    BY <1>12 DEF LineLengthOK, READ_LINE, LineLimit
  <2> QED BY <1>12, <2>4, <2>5 DEF LineLengthOK, READ_LINE, LineLimit
<1>13. CASE PC \in {\hC402, \hC417, \hC425, \hC42A, \hC42F, \hC437, \hC43C, \hC441}
  <2>1. Op(PC) \in {\h20, \h60}
    BY <1>2, <1>13 DEF kReadLineHex
  <2> QED BY <2>1 DEF StaysIn, Computes, Keeps, Forks, JumpsWithin, Pushes, Pulls, Computes1,
                    Computes2, Stores2, Branches2
<1> QED
  BY <1>5, <1>6, <1>7, <1>8, <1>9, <1>10, <1>11, <1>12, <1>13 DEF READ_LINE

-----------------------------------------------------------------------------
(* The line's length across calls and returns.                             *)
LEMMA SameLength ==
    ASSUME X' = X, NEW a, LineLengthOK(a), a # \hC413, a # \hC420
    PROVE  LineLengthOK(a)'
  BY DEF LineLengthOK

LEMMA NextTopIs == NextTop.at = PC' /\ NextTop.sp = SP'
  BY DEF NextTop

LEMMA ReadLineCalls ==
    ASSUME NEW a \in READ_LINE.starts, Op(a) = \h20
    PROVE  /\ a \in {\hC402, \hC417, \hC425, \hC42A, \hC42F, \hC437, \hC43C}
           /\ Operand16(a) \in {\hC000, \hC100}
<1>1. a \in \hC400 .. \hC441
  BY DEF READ_LINE
<1>2. Op(a) = kReadLineHex[a - \hC400 + 1]
  BY <1>1, ReadLineCode DEF Op
<1>3. a \in {\hC402, \hC417, \hC425, \hC42A, \hC42F, \hC437, \hC43C}
  BY <1>2 DEF READ_LINE, kReadLineHex, LineLimit
<1>4. Operand16(a) \in {\hC000, \hC100}
  BY <1>3, ReadLineCode DEF Operand16, kReadLineHex
<1> QED BY <1>3, <1>4

LEMMA LineStays ==
    ASSUME MonitorsMap, RomStands, Execute,
           NEW n \in Nat, NEW f \in [0 .. n -> Frame], NEW r, AtWork(r, n, f),
           LineLengthKept(n, f), StaysIn(r), PC' \in r.starts,
           NEW g \in [0 .. n -> Frame], g[0] = NextTop, \A i \in 1 .. n : g[i] = f[i]
    PROVE  LineLengthKept(n, g)'
<1>1. r \in Routines /\ PC \in r.starts /\ f[0].at = PC /\ (n > 0 => CalledFrom(r, f[0], f[1]))
  BY WorkPC, WorkFrame
<1>2. PICK b : b = PC'
  OBVIOUS
<1>3. g[0].at = b
  BY <1>2, NextTopIs
<1>4. LineLengthOK(b)'
  <2>1. CASE r = READ_LINE
    <3>1. PC \in READ_LINE.starts /\ StaysIn(READ_LINE) /\ LineLengthOK(PC)
      BY <1>1, <2>1 DEF LineLengthKept
    <3> QED BY <1>2, <3>1, LineStep
  <2>2. CASE r # READ_LINE
    BY <1>1, <1>2, <2>2, OutsideReadLine
  <2> QED BY <2>1, <2>2
<1>5. ASSUME NEW i \in 1 .. n, f[i].at \in READ_LINE.starts
      PROVE  i = 1 /\ b \in Untouching /\ LineLengthOK(f[1].at)'
  <2>1. i = 1 /\ PC \in Untouching /\ LineLengthOK(f[1].at)
    BY <1>1, <1>5 DEF LineLengthKept
  <2>2. b \in Untouching
    BY <1>1, <1>2, <2>1, LeavesStay
  <2>3. f[1].at \in r.returns
    BY <1>1, <2>1 DEF CalledFrom
  <2>4. f[1].at # \hC413 /\ f[1].at # \hC420
    BY <1>1, <2>3, Regions
  <2>5. X' = X
    BY <2>1, LeavesKeepX
  <2>6. LineLengthOK(f[1].at)'
    BY <2>1, <2>4, <2>5, SameLength
  <2> QED BY <2>1, <2>2, <2>6
<1>6. \A i \in 1 .. n : g[i].at \in READ_LINE.starts =>
          i = 1 /\ b \in Untouching /\ LineLengthOK(g[1].at)'
  BY <1>5
<1> QED BY <1>3, <1>4, <1>6 DEF LineLengthKept

(* No frame of READ_LINE is left under a routine that jumps away or calls. *)
LEMMA NoLineBelow ==
    ASSUME NEW n \in Nat, NEW f \in [0 .. n -> Frame], NEW r, AtWork(r, n, f),
           LineLengthKept(n, f), NEW t \in Routines, JumpsTo(r, PC, t) \/ Calls(r, PC, t),
           NEW i \in 1 .. n
    PROVE  f[i].at \notin READ_LINE.starts
<1>1. r \in Routines /\ PC \in r.starts /\ f[0].at = PC
  BY WorkPC, WorkFrame
<1>2. PC \notin Untouching
  BY <1>1, LeavesStay
<1> QED BY <1>1, <1>2 DEF LineLengthKept

LEMMA LineTailCalls ==
    ASSUME NEW n \in Nat, NEW f \in [0 .. n -> Frame], NEW r, AtWork(r, n, f),
           LineLengthKept(n, f), NEW t \in Routines, JumpsTo(r, PC, t), PC' = Operand16(PC),
           NEW g \in [0 .. n -> Frame], g[0] = NextTop, \A i \in 1 .. n : g[i] = f[i]
    PROVE  LineLengthKept(n, g)'
<1>1. PICK b : b = PC' /\ b = Operand16(PC)
  OBVIOUS
<1>2. PICK a : a = PC
  OBVIOUS
<1>3. g[0].at = b
  BY <1>1, NextTopIs
<1>4. LineLengthOK(b)'
  <2>1. Enters(t, a) /\ b = Operand16(a)
    BY <1>1, <1>2 DEF JumpsTo
  <2> QED BY <2>1, EntersClear
<1>5. \A i \in 1 .. n : g[i].at \notin READ_LINE.starts
  BY NoLineBelow
<1> QED BY <1>3, <1>4, <1>5 DEF LineLengthKept

LEMMA LineCalls ==
    ASSUME MonitorsMap, RomStands,
           NEW n \in Nat, NEW f \in [0 .. n -> Frame], NEW r, AtWork(r, n, f),
           LineLengthKept(n, f), NEW t \in Routines, Calls(r, PC, t),
           PC' = Operand16(PC), X' = X,
           NEW g \in [0 .. n + 1 -> Frame],
           g[0] = NextTop, g[1] = [at |-> PC + 3, sp |-> SP],
           \A i \in 2 .. n + 1 : g[i] = f[i - 1]
    PROVE  LineLengthKept(n + 1, g)'
<1>1. PICK b : b = PC' /\ b = Operand16(PC)
  OBVIOUS
<1>2. PICK a : a = PC
  OBVIOUS
<1>3. g[0].at = b /\ g[1].at = a + 3 /\ f[0].at = a /\ a \in r.starts /\ r \in Routines
  <2>1. g[0].at = b /\ g[1].at = a + 3
    BY <1>1, <1>2, NextTopIs
  <2>2. f[0].at = a /\ a \in r.starts /\ r \in Routines
    BY <1>2, WorkPC, WorkFrame
  <2> QED BY <2>1, <2>2
<1>4. LineLengthOK(b)'
  <2>1. Enters(t, a) /\ b = Operand16(a)
    BY <1>1, <1>2 DEF Calls
  <2> QED BY <2>1, EntersClear
<1>5. a + 3 \in READ_LINE.starts => b \in Untouching /\ LineLengthOK(a + 3)'
  <2> SUFFICES ASSUME a + 3 \in READ_LINE.starts
               PROVE  b \in Untouching /\ LineLengthOK(a + 3)'
    OBVIOUS
  <2>1. a + 3 \in r.starts /\ Op(a) = \h20
    BY <1>2 DEF Calls, Within
  <2>2. r = READ_LINE
    BY <1>3, <2>1, OutsideReadLine
  <2>3. a \in {\hC402, \hC417, \hC425, \hC42A, \hC42F, \hC437, \hC43C}
        /\ b \in {\hC000, \hC100}
    BY <1>1, <1>2, <1>3, <2>1, <2>2, ReadLineCalls
  <2>4. LineLengthOK(a)
    BY <1>3 DEF LineLengthKept
  <2>5. LineLengthOK(a + 3)
    <3>1. a + 3 # \hC413 /\ a + 3 # \hC420 /\ a + 3 # \hC422
      BY <2>3
    <3>2. a \in READ_LINE.starts \ {\hC400}
      BY <1>3, <2>2, <2>3
    <3>3. X \in 0 .. LineLimit
      BY <2>4, <3>2 DEF LineLengthOK
    <3>4. a + 3 \in \hC415 .. \hC41A \cup \hC423 .. \hC432 =>
              a \in \hC415 .. \hC41A \cup \hC423 .. \hC432
      BY <2>3
    <3> QED BY <2>4, <3>1, <3>3, <3>4 DEF LineLengthOK
  <2>6. LineLengthOK(a + 3)'
    <3>1. a + 3 # \hC413 /\ a + 3 # \hC420
      BY <2>3
    <3> QED BY <2>5, <3>1, SameLength
  <2>7. b \in Untouching
    BY <2>3 DEF Untouching, GETCHAR, PUTCHAR
  <2> QED BY <2>6, <2>7
<1>6. \A i \in 2 .. n + 1 : g[i].at \notin READ_LINE.starts
  <2>1. \A i \in 1 .. n : f[i].at \notin READ_LINE.starts
    BY NoLineBelow
  <2> SUFFICES ASSUME NEW i \in 2 .. n + 1 PROVE g[i].at \notin READ_LINE.starts
    OBVIOUS
  <2>2. i - 1 \in 1 .. n /\ g[i] = f[i - 1]
    OBVIOUS
  <2> QED BY <2>1, <2>2
<1> QED BY <1>3, <1>4, <1>5, <1>6 DEF LineLengthKept

LEMMA LineReturns ==
    ASSUME NEW n \in Nat, NEW f \in [0 .. n -> Frame], n > 0, LineLengthKept(n, f), X' = X,
           NEW r \in Routines, CalledFrom(r, f[0], f[1]),
           NEW g \in [0 .. n - 1 -> Frame], Chain(n - 1, g)',
           \A i \in 0 .. n - 1 : g[i] = f[i + 1]
    PROVE  LineLengthKept(n - 1, g)'
<1>1. g[0] = f[1] /\ f[1].at \in r.returns
  BY DEF CalledFrom
<1>2. LineLengthOK(f[1].at)'
  <2>1. CASE f[1].at \in READ_LINE.starts
    <3>1. LineLengthOK(f[1].at) /\ f[1].at # \hC413 /\ f[1].at # \hC420
      BY <1>1, <2>1, Regions DEF LineLengthKept
    <3> QED BY <3>1, SameLength
  <2>2. CASE f[1].at \notin READ_LINE.starts
    <3>1. PICK q \in Routines : f[1].at \in q.starts
      <4>1. CASE n = 1
        <5>1. f[1].at \in MAIN_LOOP.starts
          BY <1>1, <4>1 DEF Chain
        <5> QED BY <5>1 DEF Routines
      <4>2. CASE n > 1
        <5>1. \E q \in Routines : CalledFrom(q, g[0], g[0 + 1])'
          BY <4>2 DEF Chain
        <5> QED BY <1>1, <5>1 DEF CalledFrom
      <4> QED BY <4>1, <4>2
    <3> QED BY <2>2, <3>1, OutsideReadLine
  <2> QED BY <2>1, <2>2
<1>3. \A i \in 1 .. n - 1 : g[i].at \notin READ_LINE.starts
  <2> SUFFICES ASSUME NEW i \in 1 .. n - 1 PROVE g[i].at \notin READ_LINE.starts
    OBVIOUS
  <2>1. i + 1 \in 1 .. n /\ i + 1 # 1 /\ g[i] = f[i + 1]
    OBVIOUS
  <2> QED BY <2>1 DEF LineLengthKept
<1> QED BY <1>1, <1>2, <1>3 DEF LineLengthKept

-----------------------------------------------------------------------------
(* RUN's trampoline is written before it is called, and only there.        *)
LEMMA ToTrampoline ==
    ASSUME NEW r \in Routines, r # TRAMPOLINE, NEW a \in Int
    PROVE  ~JumpsTo(r, a, TRAMPOLINE) /\ (Calls(r, a, TRAMPOLINE) => a = \hCD10)
<1>1. ASSUME JumpsTo(r, a, TRAMPOLINE) PROVE FALSE
  <2>1. r.returns \subseteq TRAMPOLINE.returns /\ r.rank > 0
    BY <1>1 DEF JumpsTo
  <2>2. TRAMPOLINE.returns = {\hCD13} /\ MAIN_LOOP.rank = 0
    BY DEF TRAMPOLINE, MAIN_LOOP
  <2>3. PICK b \in r.returns : b # \hCD13
    BY <2>1, <2>2, Regions
  <2> QED BY <2>1, <2>2, <2>3
<1>2. ASSUME Calls(r, a, TRAMPOLINE) PROVE a = \hCD10
  <2>1. a + 3 \in TRAMPOLINE.returns
    BY <1>2 DEF Calls
  <2> QED BY <2>1 DEF TRAMPOLINE
<1> QED BY <1>1, <1>2

LEMMA FarFromTrampoline ==
    ASSUME PC' \in Elsewhere, PC' \in Int, \hC000 <= PC', PC' <= \hCD00 \/ \hCD13 <= PC'
    PROVE  TrampolineOK'
  BY DEF TrampolineOK, InProgram, kTrampoline, kReturn, Elsewhere

LEMMA RunStep ==
    ASSUME MonitorsMap, RomStands, Execute, PC \in RUN.starts, TrampolineOK, StaysIn(RUN),
           PC' \in Elsewhere
    PROVE  TrampolineOK'
<1>1. PC \in Int /\ PC \in \hCD00 .. \hCD13 /\ PC < \hD300
  BY DEF RUN
<1>2. PC \in LoadedAddr /\ Op(PC) = kRunHex[PC - \hCD00 + 1]
  BY <1>1, RunCode DEF Op
<1>3. Name = Mnemonic(Op(PC)) /\ How = Mode(Op(PC)) /\ Plus(PC, 2) = PC + 2
      /\ (PC + 1 \in LoadedAddr => At(1) = Op(PC + 1))
  BY <1>1, <1>2, Fetching DEF Op
<1>4. PC < \hCD13 => PC + 1 \in LoadedAddr /\ Op(PC + 1) = kRunHex[PC + 1 - \hCD00 + 1]
  <2> SUFFICES ASSUME PC < \hCD13
               PROVE  PC + 1 \in LoadedAddr /\ Op(PC + 1) = kRunHex[PC + 1 - \hCD00 + 1]
    OBVIOUS
  <2>1. PICK q : q = PC + 1
    OBVIOUS
  <2>2. q \in \hCD00 .. \hCD13
    BY <1>1, <2>1
  <2>3. q \in LoadedAddr /\ FirmwareRom[q] = kRunHex[q - \hCD00 + 1]
    BY <2>2, RunCode
  <2>4. q - \hCD00 + 1 = PC + 1 - \hCD00 + 1
    BY <1>1, <2>1
  <2>5. PC + 1 \in LoadedAddr /\ Op(PC + 1) = kRunHex[q - \hCD00 + 1]
    BY <2>1, <2>3 DEF Op
  <2> QED BY <2>4, <2>5
<1>5. /\ PC = \hCD02 => A = \h20
      /\ PC \in {\hCD04, \hCD06, \hCD08, \hCD0A, \hCD0C, \hCD0E} => mem[\hF8] = \h20
      /\ PC = \hCD0E => A = \h60
  BY DEF TrampolineOK, kTrampoline
<1>6. /\ PC' = \hCD02 => A' = \h20
      /\ PC' \in {\hCD04, \hCD06, \hCD08, \hCD0A, \hCD0C, \hCD0E, \hCD10} => mem'[\hF8] = \h20
      /\ PC' = \hCD0E => A' = \h60
      /\ PC' = \hCD10 => mem'[\hFB] = \h60
      /\ PC' \in Int /\ PC' \in {\hCD02, \hCD04, \hCD06, \hCD08, \hCD0A, \hCD0C, \hCD0E, \hCD10}
  <2>1. CASE PC \in {\hCD00, \hCD0C}
    <3>1. Op(PC) = \hA9 /\ Op(PC + 1) = IF PC = \hCD00 THEN \h20 ELSE \h60
      BY <1>2, <1>4, <2>1 DEF kRunHex
    <3>2. How = "imm" /\ Name = "LDA"
      BY <1>3, <3>1, OpcodesUsed DEF Is
    <3>3. Operand = Op(PC + 1) /\ Plus(PC, Length(How)) = PC + 2
      BY <1>1, <1>2, <1>4, <2>1, <3>2, Immediate
    <3>4. A' = Operand /\ PC' = PC + 2 /\ mem' = mem
      BY <3>2, <3>3, EffectOfName DEF Load, GoOver, GoOn, Keep
    <3> QED BY <1>5, <2>1, <3>1, <3>3, <3>4
  <2>2. CASE PC \in {\hCD04, \hCD08}
    <3>1. Op(PC) = \hA5
      BY <1>2, <2>2 DEF kRunHex
    <3>2. How = "zp" /\ Name = "LDA"
      BY <1>3, <3>1, OpcodesUsed DEF Is
    <3>3. PC' = PC + 2 /\ mem' = mem
      BY <1>3, <3>2, EffectOfName DEF Load, GoOver, GoOn, Keep, Length
    <3> QED BY <1>5, <2>2, <3>3
  <2>3. CASE PC \in {\hCD02, \hCD06, \hCD0A, \hCD0E}
    <3>1. Op(PC) = \h85 /\ At(1) = CASE PC = \hCD02 -> \hF8 [] PC = \hCD06 -> \hF9
                                     [] PC = \hCD0A -> \hFA [] PC = \hCD0E -> \hFB
      BY <1>2, <1>3, <1>4, <2>3 DEF kRunHex
    <3>2. How = "zp" /\ Name = "STA"
      BY <1>3, <3>1, OpcodesUsed DEF Is
    <3>3. PC' = PC + 2 /\ mem' = Stored(mem, At(1), A)
      BY <1>3, <3>2, EffectOfName DEF StoreIt, GoOn, Length, Address, Source
    <3>4. \A a \in {\hF8, \hF9, \hFA, \hFB} : a \in Ram /\ a \in DOMAIN mem
      BY DEF MonitorsMap, WorkArea, RomStands
    <3>5. mem' = [mem EXCEPT ![At(1)] = A]
      BY <2>3, <3>1, <3>3, <3>4 DEF Stored
    <3> QED BY <1>5, <2>3, <3>1, <3>3, <3>4, <3>5
  <2>4. CASE PC \in {\hCD10, \hCD13}
    <3>1. Op(PC) \in {\h20, \h60}
      BY <1>2, <2>4 DEF kRunHex
    <3> QED BY <3>1 DEF StaysIn, Computes, Keeps, Forks, JumpsWithin, Pushes, Pulls, Computes1,
                      Computes2, Stores2, Branches2
  <2> QED BY <2>1, <2>2, <2>3, <2>4 DEF RUN
<1> QED BY <1>6 DEF TrampolineOK, InProgram, kTrampoline, kReturn

-----------------------------------------------------------------------------
(* One instruction of a routine leaves the stack in order.                 *)
StandsNext ==
    \E m \in Nat : \E g \in [0 .. m -> Frame] :
        Chain(m, g)' /\ g[0] = NextTop /\ LineLengthKept(m, g)'

LEMMA Entered ==
    ASSUME NEW t \in Routines, t # TRAMPOLINE, NEW a, Enters(t, a), PC' = Operand16(a)
    PROVE  PC' \in Elsewhere /\ TrampolineOK'
<1>1. PICK b : b = PC'
  OBVIOUS
<1>2. b \in t.starts /\ \A c \in t.starts : b <= c
  BY <1>1 DEF Enters
<1>3. b \in Elsewhere
  BY <1>2, StartsElsewhere
<1>4. b \in Int /\ \hC000 <= b
  BY <1>2, Regions
<1>5. b <= \hCD00 \/ \hCD13 <= b
  <2>1. CASE t = RUN
    BY <1>2, <2>1 DEF RUN
  <2>2. CASE t # RUN
    BY <1>2, <2>2, Regions
  <2> QED BY <2>1, <2>2
<1> QED BY <1>1, <1>3, <1>4, <1>5, FarFromTrampoline

LEMMA RoutineStays ==
    ASSUME MonitorsMap, RomStands, Execute, SparesStack, turn = "execute", TrampolineOK,
           NEW n \in Nat, NEW f \in [0 .. n -> Frame], NEW r, AtWork(r, n, f),
           LineLengthKept(n, f), StaysIn(r)
    PROVE  StandsNext /\ PC' \in Elsewhere /\ TrampolineOK'
<1>1. r \in Routines /\ r # TRAMPOLINE /\ PC \in r.starts /\ f[0].at = PC
  BY WorkPC, WorkFrame DEF AtWork
<1>2. LineLengthOK(PC)
  BY <1>1 DEF LineLengthKept
<1>3. Continues(n, f) /\ PC' \in r.starts
  BY <1>2, StaysOn
<1>4. PICK g \in [0 .. n -> Frame] :
          Chain(n, g)' /\ g[0] = NextTop /\ \A i \in 1 .. n : g[i] = f[i]
  BY <1>3 DEF Continues
<1>5. LineLengthKept(n, g)'
  BY <1>3, <1>4, LineStays
<1>6. PC' \in Elsewhere
  BY <1>1, <1>3, StartsElsewhere
<1>7. TrampolineOK'
  <2>1. CASE r = RUN
    BY <1>1, <1>6, <2>1, RunStep
  <2>2. CASE r # RUN
    <3>1. PC' \in Int /\ \hC000 <= PC' /\ (PC' <= \hCD00 \/ \hCD13 <= PC')
      BY <1>1, <1>3, <2>2, Regions
    <3> QED BY <1>6, <3>1, FarFromTrampoline
  <2> QED BY <2>1, <2>2
<1> QED BY <1>4, <1>5, <1>6, <1>7 DEF StandsNext

LEMMA RoutineTailCalls ==
    ASSUME MonitorsMap, RomStands, Execute,
           NEW n \in Nat, NEW f \in [0 .. n -> Frame], NEW r, AtWork(r, n, f),
           LineLengthKept(n, f), NEW t \in Routines, JumpsTo(r, PC, t)
    PROVE  StandsNext /\ PC' \in Elsewhere /\ TrampolineOK'
<1>1. r \in Routines /\ r # TRAMPOLINE /\ PC \in Int
  BY WorkPC DEF AtWork
<1>2. Continues(n, f) /\ PC' = Operand16(PC)
  BY TailCalls
<1>3. PICK g \in [0 .. n -> Frame] :
          Chain(n, g)' /\ g[0] = NextTop /\ \A i \in 1 .. n : g[i] = f[i]
  BY <1>2 DEF Continues
<1>4. LineLengthKept(n, g)'
  BY <1>2, <1>3, LineTailCalls
<1>5. t # TRAMPOLINE
  BY <1>1, ToTrampoline
<1>6. PC' \in Elsewhere /\ TrampolineOK'
  BY <1>2, <1>5, Entered DEF JumpsTo
<1> QED BY <1>3, <1>4, <1>6 DEF StandsNext

LEMMA RoutineCalls ==
    ASSUME MonitorsMap, RomStands, Execute, TrampolineOK,
           NEW n \in Nat, NEW f \in [0 .. n -> Frame], NEW r, AtWork(r, n, f),
           LineLengthKept(n, f), NEW t \in Routines, Calls(r, PC, t)
    PROVE  StandsNext /\ PC' \in Elsewhere /\ TrampolineOK'
<1>1. r \in Routines /\ r # TRAMPOLINE /\ PC \in Int
  BY WorkPC DEF AtWork
<1>2. /\ Suspended(n, f) /\ X' = X
      /\ PC' = Operand16(PC) /\ PC' \in t.starts /\ \A a \in Ram : a < 256 => mem'[a] = mem[a]
  BY CallsNow
<1>3. PICK g \in [0 .. n + 1 -> Frame] :
          /\ Chain(n + 1, g)' /\ g[0] = NextTop /\ g[1] = [at |-> PC + 3, sp |-> SP]
          /\ \A i \in 2 .. n + 1 : g[i] = f[i - 1]
  BY <1>2 DEF Suspended
<1>4. LineLengthKept(n + 1, g)'
  BY <1>2, <1>3, LineCalls
<1>5. PC' \in Elsewhere /\ TrampolineOK'
  <2>1. CASE t = TRAMPOLINE
    <3>1. PC = \hCD10
      BY <1>1, <2>1, ToTrampoline
    <3>2. mem[\hF8] = \h20 /\ mem[\hFB] = \h60
      BY <3>1 DEF TrampolineOK, kTrampoline, kReturn
    <3>3. \hF8 \in Ram /\ \hFB \in Ram
      BY DEF MonitorsMap, WorkArea
    <3>4. mem'[\hF8] = \h20 /\ mem'[\hFB] = \h60
      BY <1>2, <3>2, <3>3
    <3>5. PC' \in {\hF8, \hFB}
      BY <1>2, <2>1 DEF TRAMPOLINE, kTrampoline, kReturn
    <3>6. PC' \in Elsewhere
      BY <1>2, StartsElsewhere
    <3> QED BY <3>4, <3>5, <3>6 DEF TrampolineOK, InProgram, kTrampoline, kReturn, Elsewhere
  <2>2. CASE t # TRAMPOLINE
    BY <1>2, <2>2, Entered DEF Calls
  <2> QED BY <2>1, <2>2
<1> QED BY <1>3, <1>4, <1>5 DEF StandsNext

(* A frame that a routine returns to.                                      *)
LEMMA Returned ==
    ASSUME NEW n \in Nat, NEW f \in [0 .. n -> Frame], n > 0, LineLengthKept(n, f), X' = X,
           NEW r \in Routines, CalledFrom(r, f[0], f[1]), Finishes(n, f)
    PROVE  StandsNext /\ PC' \in Elsewhere /\ TrampolineOK'
<1>1. PICK g \in [0 .. n - 1 -> Frame] :
          Chain(n - 1, g)' /\ \A i \in 0 .. n - 1 : g[i] = f[i + 1]
  BY DEF Finishes
<1>2. g[0] = NextTop /\ n - 1 \in Nat
  BY <1>1 DEF Finishes
<1>3. LineLengthKept(n - 1, g)'
  BY <1>1, LineReturns
<1>4. PC' \in r.returns
  BY NextTopIs DEF CalledFrom, Finishes
<1>5. PC' \in Int /\ \hC000 <= PC' /\ (PC' <= \hCD00 \/ \hCD13 <= PC')
  BY <1>4, Regions
<1>6. PC' \in Elsewhere
  <2>1. PICK q \in Routines : g[0].at \in q.starts
    <3>1. CASE n = 1
      <4>1. g[0].at \in MAIN_LOOP.starts
        BY <1>1, <3>1 DEF Chain
      <4> QED BY <4>1 DEF Routines
    <3>2. CASE n > 1
      <4>1. \E q \in Routines : CalledFrom(q, g[0], g[0 + 1])'
        BY <1>1, <3>2 DEF Chain
      <4> QED BY <4>1 DEF CalledFrom
    <3> QED BY <3>1, <3>2
  <2> QED BY <1>2, <2>1, NextTopIs, StartsElsewhere
<1>7. TrampolineOK'
  BY <1>5, <1>6, FarFromTrampoline
<1> QED BY <1>1, <1>2, <1>3, <1>6, <1>7 DEF StandsNext

LEMMA RoutineStep ==
    ASSUME MonitorsMap, RomStands, Execute, SparesStack, turn = "execute", TrampolineOK,
           NEW n \in Nat, NEW f \in [0 .. n -> Frame], NEW r, AtWork(r, n, f),
           LineLengthKept(n, f)
    PROVE  StandsNext /\ PC' \in Elsewhere /\ TrampolineOK'
<1>1. CASE StaysIn(r)
  BY <1>1, RoutineStays
<1>2. CASE \E t \in Routines : JumpsTo(r, PC, t)
  BY <1>2, RoutineTailCalls
<1>3. CASE \E t \in Routines : Calls(r, PC, t)
  BY <1>3, RoutineCalls
<1>4. CASE Returns(r, PC)
  <2>1. r \in Routines /\ n > 0 /\ CalledFrom(r, f[0], f[1])
    BY <1>4, WorkPC, WorkFrame DEF Returns
  <2>2. Finishes(n, f) /\ X' = X
    BY <1>4, ReturnsNow
  <2> QED BY <2>1, <2>2, Returned
<1> QED BY <1>1, <1>2, <1>3, <1>4, StepKinds

-----------------------------------------------------------------------------
(* Every step of the machine leaves the stack in order.                    *)
LEMMA StandsThen ==
    ASSUME StandsNext, PC' \in Elsewhere
    PROVE  Standing'
<1>1. Here' = NextTop
  BY DEF Here, InProgram, NextTop
<1> QED BY <1>1 DEF Standing, StandsNext

(* The main loop with nothing on the stack.                                *)
LEMMA AtBottom ==
    ASSUME NEW a \in MAIN_LOOP.starts, NEW s \in {\hFD, \hFF}, PC' = a, SP' = s
    PROVE  Standing' /\ TrampolineOK'
<1>0. MAIN_LOOP \in Routines /\ MAIN_LOOP # READ_LINE
  <2>1. MAIN_LOOP.rank # READ_LINE.rank
    BY DEF MAIN_LOOP, READ_LINE
  <2> QED BY <2>1 DEF Routines
<1> DEFINE x == [at |-> a, sp |-> s]
<1>1. x \in Frame
  <2>1. a \in Nat /\ s \in 0 .. 255
    BY <1>0, Regions
  <2> QED BY <2>1, FrameOf
<1>2. x.at = a /\ x.sp = s /\ x = NextTop
  BY DEF NextTop
<1> HIDE DEF x
<1> DEFINE g == [i \in 0 .. 0 |-> x]
<1>3. g \in [0 .. 0 -> Frame] /\ g[0] = x
  BY <1>1
<1> HIDE DEF g
<1>4. Chain(0, g)'
  <2>1. \A i \in 0 .. 0 : \A j \in i .. 0 : g[i].sp <= g[j].sp
    BY <1>2, <1>3
  <2> QED BY <1>2, <1>3, <2>1 DEF Chain
<1>5. LineLengthOK(a)'
  BY <1>0, OutsideReadLine
<1>6. LineLengthKept(0, g)'
  BY <1>2, <1>3, <1>5 DEF LineLengthKept
<1>7. PC' \in Elsewhere
  BY <1>0, StartsElsewhere
<1>8. Standing'
  <2>1. StandsNext
    BY <1>2, <1>3, <1>4, <1>6 DEF StandsNext
  <2> QED BY <1>7, <2>1, StandsThen
<1>9. PC' \in Int /\ \hCD13 <= PC' /\ \hC000 <= PC'
  BY DEF MAIN_LOOP
<1> QED BY <1>7, <1>8, <1>9, FarFromTrampoline

LEMMA TrampolineFrame ==
    ASSUME NEW n \in Nat, NEW f \in [0 .. n -> Frame], LineLengthKept(n, f),
           f[0].at \in TRAMPOLINE.starts,
           NEW g \in [0 .. n -> Frame], g[0].at \in TRAMPOLINE.starts,
           \A i \in 1 .. n : g[i] = f[i]
    PROVE  LineLengthKept(n, g)'
<1>0. TRAMPOLINE \in Routines /\ TRAMPOLINE # READ_LINE
  <2>1. TRAMPOLINE.rank # READ_LINE.rank
    BY DEF TRAMPOLINE, READ_LINE
  <2> QED BY <2>1 DEF Routines
<1>1. f[0].at \notin Untouching
  BY DEF TRAMPOLINE, kTrampoline, kReturn, Untouching, GETCHAR, PUTCHAR
<1>2. \A i \in 1 .. n : g[i].at \notin READ_LINE.starts
  BY <1>1 DEF LineLengthKept
<1>3. LineLengthOK(g[0].at)'
  BY <1>0, OutsideReadLine
<1> QED BY <1>2, <1>3 DEF LineLengthKept

LEMMA TrampolineWork ==
    ASSUME NEW n \in Nat, NEW f \in [0 .. n -> Frame], Chain(n, f), OnTop(TRAMPOLINE, n, f)
    PROVE  /\ n > 0 /\ CalledFrom(TRAMPOLINE, f[0], f[1]) /\ TRAMPOLINE \in Routines
           /\ f[0].sp \in Int /\ 2 <= f[0].sp /\ f[0].sp <= 255 /\ \A a : Own(TRAMPOLINE, a) = 0
<1>1. TRAMPOLINE # MAIN_LOOP
  <2>1. TRAMPOLINE.rank # MAIN_LOOP.rank
    BY DEF TRAMPOLINE, MAIN_LOOP
  <2> QED BY <2>1
<1>2. n > 0 /\ CalledFrom(TRAMPOLINE, f[0], f[1]) /\ TRAMPOLINE \in Routines
  BY <1>1 DEF OnTop
<1>3. (\A a : Own(TRAMPOLINE, a) = 0) /\ TRAMPOLINE.rank = 2
  BY DEF Own, TRAMPOLINE
<1>4. f[0].sp \in Int /\ f[0].sp <= 255
  <2>1. f[0] \in Frame
    OBVIOUS
  <2> QED BY <2>1, FrameStack
<1>5. f[0].sp + 0 >= \hFD - 3 * 2
  BY <1>2, <1>3 DEF CalledFrom
<1> QED BY <1>2, <1>3, <1>4, <1>5

(* The instruction in page zero.                                           *)
LEMMA InPageZero ==
    ASSUME MonitorsMap, RomStands, PC \in TRAMPOLINE.starts
    PROVE  Name = Mnemonic(mem[PC]) /\ Plus(PC, 2) = PC + 2 /\ PC \in Int /\ PC + 2 >= 0
<1>1. PC \in WorkArea /\ PC \in Int /\ 0 <= PC /\ PC < 256
  BY DEF TRAMPOLINE, kTrampoline, kReturn, WorkArea
<1>2. BusData(PC) = mem[PC]
  BY <1>1, Reading
<1>3. Plus(PC, 0) = PC /\ Plus(PC, 2) = PC + 2
  BY <1>1 DEF Plus
<1> QED BY <1>1, <1>2, <1>3 DEF Name, Instruction, At

(* RUN's own code is the monitor's.                                        *)
LEMMA RunElsewhere == \A a \in \hCD02 .. \hCD10 : a \in Elsewhere
<1> SUFFICES ASSUME NEW a \in \hCD02 .. \hCD10 PROVE a \in LoadedAddr
  BY DEF Elsewhere
<1>1. a \in \hCD00 .. \hCD13
  OBVIOUS
<1> QED BY <1>1, RunCode

(* RUN's trampoline calls the program ...                                  *)
LEMMA TrampolineCalls ==
    ASSUME MonitorsMap, RomStands, Execute, TrampolineOK, Behaves, turn = "execute",
           turn' = "poll", Recorded, PC = kTrampoline,
           NEW n \in Nat, NEW f \in [0 .. n -> Frame], Chain(n, f), OnTop(TRAMPOLINE, n, f),
           f[0] = [at |-> PC, sp |-> SP], LineLengthKept(n, f)
    PROVE  Standing' /\ TrampolineOK'
<1>1. /\ SP \in Int /\ 2 <= SP /\ SP <= 255 /\ f[0].sp = SP /\ f[0].at = PC
      /\ \A a : Own(TRAMPOLINE, a) = 0
  BY TrampolineWork
<1>2. mem[kTrampoline] = \h20 /\ mem[kReturn] = \h60
  BY DEF TrampolineOK
<1>3. PC \in TRAMPOLINE.starts /\ kReturn \in TRAMPOLINE.starts
  BY DEF TRAMPOLINE
<1>4. Name = "JSR" /\ Plus(PC, 2) = PC + 2 /\ PC \in Int /\ PC + 2 >= 0
  <2>1. Mnemonic(\h20) = "JSR"
    BY OpcodesUsed DEF Is
  <2> QED BY <1>2, <1>3, <2>1, InPageZero
<1>5. /\ SP' = SP - 2
      /\ \A a \in Ram : a # 256 + SP /\ a # 255 + SP => mem'[a] = mem[a]
  <2>1. SP \in 2 .. 255
    BY <1>1
  <2> QED BY <1>4, <2>1, Calling
<1>6. PC' \notin Elsewhere /\ entry' = SP
  BY DEF Behaves, Recorded
<1>7. InProgram' /\ Here' = [at |-> kReturn, sp |-> SP]
  <2>1. InProgram'
    BY <1>6 DEF InProgram
  <2> QED BY <1>6, <2>1 DEF Here
<1>8. PICK s \in 0 .. 255 : s = SP
  BY <1>1
<1> DEFINE x == [at |-> kReturn, sp |-> s]
<1>9. x \in Frame /\ x.at = kReturn /\ x.sp = s
  <2>1. kReturn \in Nat
    BY DEF kReturn
  <2> QED BY <2>1, FrameOf
<1>10. x = Here'
  BY <1>7, <1>8
<1> HIDE DEF x
<1>11. Above(SP + 0)
  <2> SUFFICES ASSUME NEW c \in Int, 257 + (SP + 0) <= c, c <= 511 PROVE mem'[c] = mem[c]
    BY DEF Above
  <2>1. c \in Ram /\ c # 256 + SP /\ c # 255 + SP
    BY <1>1, StackIsRam
  <2> QED BY <1>5, <2>1
<1>12. \E g \in [0 .. n -> Frame] : Chain(n, g)' /\ g[0] = x /\ \A i \in 1 .. n : g[i] = f[i]
  <2>1. PICK r : r = TRAMPOLINE
    OBVIOUS
  <2>2. Own(r, x.at) = 0 /\ Own(r, f[0].at) = 0
    BY <1>1, <2>1
  <2>3. x.sp + Own(r, x.at) = f[0].sp + Own(r, f[0].at)
    BY <1>1, <1>8, <1>9, <2>2
  <2>4. Above(f[0].sp + Own(r, f[0].at))
    BY <1>1, <1>11, <2>2
  <2>5. OnTop(r, n, f) /\ x.at \in r.starts
    BY <1>3, <1>9, <2>1
  <2> QED BY <1>9, <2>3, <2>4, <2>5, TopMoves
<1>13. PICK g \in [0 .. n -> Frame] : Chain(n, g)' /\ g[0] = x /\ \A i \in 1 .. n : g[i] = f[i]
  BY <1>12
<1>14. LineLengthKept(n, g)'
  BY <1>1, <1>3, <1>9, <1>13, TrampolineFrame
<1>15. Standing'
  BY <1>10, <1>13, <1>14 DEF Standing
<1>16. mem'[kReturn] = \h60
  <2>1. kReturn \in Ram /\ kReturn # 256 + SP /\ kReturn # 255 + SP
    BY <1>1 DEF MonitorsMap, WorkArea, kReturn
  <2> QED BY <1>2, <1>5, <2>1
<1>17. TrampolineOK'
  <2>1. PC' # kTrampoline /\ PC' # kReturn
    BY <1>3, <1>6 DEF Elsewhere
  <2>2. PC' \notin \hCD02 .. \hCD10
    BY <1>6, RunElsewhere
  <2> QED BY <1>16, <2>1, <2>2 DEF TrampolineOK
<1> QED BY <1>15, <1>17

(* ... and returns to RUN.                                                 *)
LEMMA TrampolineReturns ==
    ASSUME MonitorsMap, RomStands, Execute, TrampolineOK, PC = kReturn,
           NEW n \in Nat, NEW f \in [0 .. n -> Frame], Chain(n, f), OnTop(TRAMPOLINE, n, f),
           f[0] = [at |-> PC, sp |-> SP], LineLengthKept(n, f)
    PROVE  Standing' /\ TrampolineOK'
<1>1. /\ n > 0 /\ CalledFrom(TRAMPOLINE, f[0], f[1]) /\ TRAMPOLINE \in Routines
      /\ Own(TRAMPOLINE, PC) = 0
  BY TrampolineWork
<1>2. Name = "RTS"
  <2>1. mem[PC] = \h60 /\ PC \in TRAMPOLINE.starts
    BY DEF TrampolineOK, TRAMPOLINE
  <2>2. Mnemonic(\h60) = "RTS"
    BY OpcodesUsed DEF Is
  <2> QED BY <2>1, <2>2, InPageZero
<1>3. Finishes(n, f) /\ X' = X
  BY <1>1, <1>2, Finishing
<1>4. StandsNext /\ PC' \in Elsewhere /\ TrampolineOK'
  BY <1>1, <1>3, Returned
<1> QED BY <1>4, StandsThen

(* One instruction of the program.                                         *)
LEMMA ProgramStep ==
    ASSUME MonitorsMap, TrampolineOK, Behaves, turn = "execute", turn' = "poll", Recorded,
           InProgram, Standing
    PROVE  (Standing \/ AtWarmStart)' /\ TrampolineOK'
<1>1. /\ \A c \in 257 + entry .. 511 \cup {kReturn} : mem'[c] = mem[c]
      /\ \/ PC' \notin Elsewhere
         \/ PC' = kReturn /\ SP' = entry
         \/ PC' = kWarmStartAddr
  BY DEF Behaves
<1>2. PICK n \in Nat : \E f \in [0 .. n -> Frame] :
          Chain(n, f) /\ f[0] = Here /\ LineLengthKept(n, f)
  BY DEF Standing
<1>3. PICK f \in [0 .. n -> Frame] : Chain(n, f) /\ f[0] = Here /\ LineLengthKept(n, f)
  BY <1>2
<1>4. f[0] = [at |-> kReturn, sp |-> entry]
  BY <1>3 DEF Here
<1>5. f[0] \in Frame /\ f[0].at = kReturn /\ f[0].sp = entry /\ entry \in Int
  <2>1. f[0] \in Frame
    OBVIOUS
  <2> QED BY <1>4, <2>1, FrameStack
<1>6. kReturn \in TRAMPOLINE.starts /\ kTrampoline \in TRAMPOLINE.starts
  BY DEF TRAMPOLINE
<1>7. entry' = entry
  BY <1>6 DEF Recorded, InProgram, Elsewhere
<1>8. PICK r \in Routines : OnTop(r, n, f)
  BY <1>3, SomeRoutineOnTop
<1>9. Above(f[0].sp + Own(r, f[0].at))
  <2>1. Own(r, f[0].at) \in {0, 1}
    BY OwnIsBit
  <2>2. \A c \in Int : 257 + (entry + Own(r, f[0].at)) <= c /\ c <= 511 => c \in 257 + entry .. 511
    BY <1>5, <2>1
  <2> QED BY <1>1, <1>5, <2>2 DEF Above
<1>10. PICK g \in [0 .. n -> Frame] : Chain(n, g)' /\ g[0] = f[0] /\ \A i \in 1 .. n : g[i] = f[i]
  <2>1. f[0].at \in r.starts
    BY <1>8 DEF OnTop
  <2> QED BY <1>3, <1>5, <1>8, <1>9, <2>1, TopMoves
<1>11. LineLengthKept(n, g)'
  BY <1>3, <1>5, <1>6, <1>10, TrampolineFrame
<1>12. mem'[kReturn] = \h60
  <2>1. mem[kReturn] = \h60
    BY DEF TrampolineOK
  <2> QED BY <1>1, <2>1
<1>13. CASE PC' \notin Elsewhere
  <2>1. InProgram'
    BY <1>13 DEF InProgram
  <2>2. Here' = f[0]
    BY <1>4, <1>7, <2>1 DEF Here
  <2>3. Standing'
    BY <1>10, <1>11, <2>2 DEF Standing
  <2>4. TrampolineOK'
    <3>1. PC' # kTrampoline /\ PC' # kReturn
      BY <1>6, <1>13 DEF Elsewhere
    <3>2. PC' \notin \hCD02 .. \hCD10
      BY <1>13, RunElsewhere
    <3> QED BY <1>12, <3>1, <3>2 DEF TrampolineOK
  <2> QED BY <2>3, <2>4
<1>14. CASE PC' = kReturn /\ SP' = entry
  <2>1. Here' = f[0]
    BY <1>4, <1>6, <1>14 DEF Here, InProgram, Elsewhere
  <2>2. Standing'
    BY <1>10, <1>11, <2>1 DEF Standing
  <2>3. TrampolineOK'
    BY <1>12, <1>14 DEF TrampolineOK, kReturn, kTrampoline
  <2> QED BY <2>2, <2>3
<1>15. CASE PC' = kWarmStartAddr
  <2>1. AtWarmStart'
    BY <1>15 DEF AtWarmStart, WarmStart
  <2>2. PC' \in Elsewhere
    BY <1>15, MainLoopCode DEF Elsewhere, kWarmStartAddr
  <2>3. TrampolineOK'
    BY <1>15, <2>2, FarFromTrampoline DEF kWarmStartAddr
  <2> QED BY <2>1, <2>3
<1> QED BY <1>1, <1>13, <1>14, <1>15

(* After a BRK the main loop starts over.                                  *)
LEMMA WarmStep ==
    ASSUME MonitorsMap, RomStands, Execute, AtWarmStart
    PROVE  (Standing \/ AtWarmStart)' /\ TrampolineOK'
<1>1. CASE PC = kWarmStartAddr
  <2>1. /\ PC \in LoadedAddr /\ PC + 1 \in LoadedAddr /\ PC < \hD300
        /\ Op(PC) = \hA2 /\ Op(PC + 1) = \hFF
    BY <1>1, MainLoopCode DEF kWarmStartAddr, kMainHex, Op
  <2>2. How = "imm" /\ Name = "LDX"
    BY <2>1, Fetching, OpcodesUsed DEF Is
  <2>3. Operand = \hFF /\ Plus(PC, Length(How)) = PC + 2
    BY <2>1, <2>2, Immediate
  <2>4. X' = \hFF /\ PC' = PC + 2
    BY <2>2, <2>3, EffectOfName DEF Load, GoOver, GoOn
  <2>5. PC' = \hCF10 /\ \hCF10 \in Elsewhere
    BY <1>1, <2>4, MainLoopCode DEF kWarmStartAddr, Elsewhere
  <2>6. AtWarmStart'
    BY <2>4, <2>5 DEF AtWarmStart, WarmStart, kWarmStartAddr
  <2>7. TrampolineOK'
    BY <2>5, FarFromTrampoline
  <2> QED BY <2>6, <2>7
<1>2. CASE PC = kWarmStartAddr + 2
  <2>0. X = \hFF /\ PC = \hCF10
    BY <1>2 DEF AtWarmStart, kWarmStartAddr
  <2>1. PC \in LoadedAddr /\ Op(PC) = \h9A
    BY <2>0, MainLoopCode DEF kMainHex, Op
  <2>2. How = "none" /\ Name = "TXS" /\ Plus(PC, 1) = PC + 1
    <3>1. Plus(PC, 1) = PC + 1 /\ Name = Mnemonic(Op(PC)) /\ How = Mode(Op(PC))
      BY <2>0, <2>1, Fetching
    <3> QED BY <2>1, <3>1, OpcodesUsed DEF Is
  <2>3. SP' = \hFF /\ PC' = \hCF11
    BY <2>0, <2>2, EffectOfName DEF Simple, GoOn, Length
  <2>4. \hCF11 \in MAIN_LOOP.starts
    BY DEF MAIN_LOOP
  <2> QED BY <2>3, <2>4, AtBottom
<1> QED BY <1>1, <1>2 DEF AtWarmStart, WarmStart

-----------------------------------------------------------------------------
(* The invariant is kept by every step.                                    *)

(* The poll changes neither memory nor registers.                          *)
LEMMA SameState ==
    ASSUME StackInv, UNCHANGED <<mem, PC, SP, A, X, P, entry>>, turn # "reset" <=> turn' # "reset"
    PROVE  StackInv'
<1>1. \A r, x, y : CalledFrom(r, x, y)' <=> CalledFrom(r, x, y)
  BY DEF CalledFrom, ReturnAt
<1>2. \A n, f : Chain(n, f)' <=> Chain(n, f)
  BY <1>1 DEF Chain
<1>3. \A a : LineLengthOK(a)' <=> LineLengthOK(a)
  BY DEF LineLengthOK
<1>4. \A n, f : LineLengthKept(n, f)' <=> LineLengthKept(n, f)
  BY <1>3 DEF LineLengthKept
<1>5. (InProgram' <=> InProgram) /\ Here' = Here
  BY DEF InProgram, Here
<1>6. Standing' <=> Standing
  BY <1>2, <1>4, <1>5 DEF Standing
<1>7. TrampolineOK' <=> TrampolineOK
  BY <1>5 DEF TrampolineOK
<1>8. (RomStands' <=> RomStands) /\ (AtWarmStart' <=> AtWarmStart)
  BY DEF RomStands, AtWarmStart
<1> QED BY <1>6, <1>7, <1>8 DEF StackInv

(* One instruction.                                                        *)
LEMMA TopStep ==
    ASSUME MonitorsMap, RomStands, Execute, SparesStack, Behaves, Recorded, TrampolineOK,
           turn = "execute", turn' = "poll", ~InProgram, Standing
    PROVE  Standing' /\ TrampolineOK'
<1>1. PICK n \in Nat : \E f \in [0 .. n -> Frame] :
          Chain(n, f) /\ f[0] = Here /\ LineLengthKept(n, f)
  BY DEF Standing
<1>2. PICK f \in [0 .. n -> Frame] : Chain(n, f) /\ f[0] = Here /\ LineLengthKept(n, f)
  BY <1>1
<1>3. f[0] = [at |-> PC, sp |-> SP]
  BY <1>2 DEF Here
<1>4. PICK r \in Routines : OnTop(r, n, f)
  BY <1>2, SomeRoutineOnTop
<1>5. CASE r = TRAMPOLINE
  <2>1. OnTop(TRAMPOLINE, n, f)
    BY <1>4, <1>5
  <2>2. PC \in TRAMPOLINE.starts
    BY <1>3, <2>1 DEF OnTop
  <2>3. PC = kTrampoline \/ PC = kReturn
    BY <2>2 DEF TRAMPOLINE
  <2>4. CASE PC = kTrampoline
    BY <1>2, <1>3, <2>1, <2>4, TrampolineCalls
  <2>5. CASE PC = kReturn
    BY <1>2, <1>3, <2>1, <2>5, TrampolineReturns
  <2> QED BY <2>3, <2>4, <2>5
<1>6. CASE r # TRAMPOLINE
  <2>1. AtWork(r, n, f)
    BY <1>2, <1>3, <1>4, <1>6 DEF AtWork
  <2>2. StandsNext /\ PC' \in Elsewhere /\ TrampolineOK'
    BY <1>2, <2>1, RoutineStep
  <2> QED BY <2>2, StandsThen
<1> QED BY <1>5, <1>6

LEMMA ExecuteKeeps ==
    ASSUME MonitorsMap, StackInv, Execute, SparesStack, Behaves, Recorded,
           turn = "execute", turn' = "poll"
    PROVE  StackInv'
<1>1. RomStands /\ TrampolineOK /\ (Standing \/ AtWarmStart)
  BY DEF StackInv
<1>2. RomStands'
  BY <1>1, RomKept
<1>3. (Standing \/ AtWarmStart)' /\ TrampolineOK'
  <2>1. CASE AtWarmStart
    BY <1>1, <2>1, WarmStep
  <2>2. CASE Standing /\ InProgram
    BY <1>1, <2>2, ProgramStep
  <2>3. CASE Standing /\ ~InProgram
    BY <1>1, <2>3, TopStep
  <2> QED BY <1>1, <2>1, <2>2, <2>3
<1> QED BY <1>2, <1>3 DEF StackInv

(* The reset goes through its vector to MAIN, with SP at FD.               *)
LEMMA ResetKeepsStack ==
    ASSUME MonitorsMap, StackInv, TraceReset
    PROVE  StackInv'
<1>1. RomStands /\ SP = 0 /\ turn' = "poll" /\ Reset
  BY DEF StackInv, TraceReset, SystemReset
<1>2. SP' = \hFD
  <2>1. SP' = (SP + (-3)) % 256
    BY <1>1 DEF Reset, MoveSP
  <2>2. \A w \in Int : w % 256 \in Int /\ 0 <= w % 256 /\ w % 256 < 256
    OBVIOUS
  <2>3. \A w \in Int : w = 256 * (w \div 256) + (w % 256) /\ w \div 256 \in Int
    OBVIOUS
  <2>4. PICK w \in Int : w = SP + (-3)
    BY <1>1
  <2>5. w = 0 - 3
    BY <1>1, <2>4
  <2>6. PICK q, m : q = w \div 256 /\ m = w % 256
    OBVIOUS
  <2>7. q \in Int /\ m \in Int /\ 0 <= m /\ m < 256 /\ w = 256 * q + m
    BY <2>2, <2>3, <2>6
  <2>8. m = \hFD
    BY <2>5, <2>7
  <2> QED BY <2>1, <2>4, <2>6, <2>8
<1>3. PC' = \hCF00
  <2>1. BusData(\hFFFC) = 0 /\ BusData(\hFFFD) = \hCF
    BY <1>1, VectorCode, Reading
  <2> QED BY <1>1, <2>1 DEF Reset, ResetVector, Cell16
<1>4. \hCF00 \in MAIN_LOOP.starts
  BY DEF MAIN_LOOP
<1>5. Standing' /\ TrampolineOK'
  BY <1>2, <1>3, <1>4, AtBottom
<1>6. RomStands'
  BY <1>1 DEF Reset, RomStands
<1> QED BY <1>1, <1>5, <1>6 DEF StackInv

(* Power on, at the first process and at those after it.                   *)
LEMMA RomAtPowerOn ==
    ASSUME MonitorsMap
    PROVE  DOMAIN Memory0 = Ram \cup Rom /\ \A a \in LoadedAddr : Memory0[a] = FirmwareRom[a]
  BY DEF MonitorsMap, Memory0

LEMMA StackInit == MonitorsMap /\ TraceInit => StackInv
  BY RomAtPowerOn DEF TraceInit, PowerOn, StackInv, RomStands

LEMMA RestartKeepsStack ==
    ASSUME MonitorsMap, TraceRestart
    PROVE  StackInv'
<1>1. mem' = Memory0 /\ SP' = 0 /\ PC' = 0 /\ turn' = "reset"
  BY DEF TraceRestart, Restart
<1>2. RomStands'
  BY <1>1, RomAtPowerOn DEF RomStands
<1> QED BY <1>1, <1>2 DEF StackInv

LEMMA StackStep ==
    ASSUME MonitorsMap, StackInv, SparesStack,
           [TraceNext /\ Recorded]_<<traceVars, entry>>, [Behaves]_<<traceVars, entry>>
    PROVE  StackInv'
<1>1. CASE UNCHANGED <<traceVars, entry>>
  <2>1. UNCHANGED <<mem, PC, SP, A, X, P, entry, turn>>
    BY <1>1 DEF traceVars, systemVars, registers, busVars
  <2> QED BY <2>1, SameState
<1>2. CASE TraceInstruct /\ Behaves /\ Recorded
  <2>1. Execute /\ turn = "execute" /\ turn' = "poll"
    BY <1>2 DEF TraceInstruct, Instruct
  <2> QED BY <1>2, <2>1, ExecuteKeeps
<1>3. CASE TracePoll /\ Recorded
  <2>1. turn = "poll" /\ turn' = "execute" /\ UNCHANGED <<mem, PC, SP, A, X, P>>
    BY <1>3 DEF TracePoll, Poll, registers
  <2>2. entry' = entry
    BY <1>3, <2>1 DEF Recorded
  <2> QED BY <2>1, <2>2, SameState
<1>4. CASE TraceReset
  BY <1>4, ResetKeepsStack
<1>5. CASE TraceRestart
  BY <1>5, RestartKeepsStack
<1> QED BY <1>1, <1>2, <1>3, <1>4, <1>5 DEF TraceNext, TraceRun

-----------------------------------------------------------------------------
(* What the invariant says at the prompt and of the code's stores.         *)
LEMMA BalancedThere == StackInv => StackBalanced
<1> SUFFICES ASSUME StackInv, PC = \hCF11
             PROVE  SP \in {\hFD, \hFF}
  BY DEF StackBalanced, AtPrompt, kMainLoopAddr
<1>1. Standing
  BY DEF StackInv, AtWarmStart, WarmStart, kWarmStartAddr
<1>2. PICK n \in Nat : \E f \in [0 .. n -> Frame] : Chain(n, f) /\ f[0] = Here
  BY <1>1 DEF Standing
<1>3. PICK f \in [0 .. n -> Frame] : Chain(n, f) /\ f[0] = Here
  BY <1>2
<1>4. f[0].at = \hCF11 /\ f[0].sp = SP
  <2>1. ~InProgram
    BY MainLoopCode DEF InProgram, Elsewhere
  <2> QED BY <1>3, <2>1 DEF Here
<1>5. PICK r \in Routines : OnTop(r, n, f)
  BY <1>3, SomeRoutineOnTop
<1>6. r = MAIN_LOOP
  <2>1. \hCF11 \in r.starts
    BY <1>4, <1>5 DEF OnTop
  <2>2. r = MAIN_LOOP \/ \A a \in r.starts : a < \hCF00 \/ a >= \hD000
    BY Regions
  <2> QED BY <2>1, <2>2
<1>7. n = 0
  <2>1. MAIN_LOOP.returns = {}
    BY DEF MAIN_LOOP
  <2> QED BY <1>5, <1>6, <2>1 DEF OnTop, CalledFrom
<1> QED BY <1>3, <1>4, <1>7 DEF Chain

(* Of the instructions that change a byte of memory the code has those of  *)
(* Keeps.                                                                  *)
LEMMA OnlyKeeps ==
    ASSUME MonitorsMap, RomStands, NEW r \in Routines, r # TRAMPOLINE, PC \in r.starts,
           Name \in Stores \cup Modifies, How # "none"
    PROVE  Keeps(r, PC)
<1>1. Flows(r, PC) /\ PC \in LoadedAddr
  BY RoutineFlows
<1>2. Name = Mnemonic(Op(PC)) /\ How = Mode(Op(PC))
  BY <1>1, Fetching
<1>3. PICK op : op = Op(PC)
  OBVIOUS
<1>4. op \notin Computes1 \cup Computes2 \cup Branches2
  <2>1. op \in Computes1 => How = "none"
    BY <1>2, <1>3, ClassNames
  <2>2. op \in Computes2 => Name \in ComputingNames
    BY <1>2, <1>3, ClassNames
  <2>3. op \in Branches2 => Name \in Branches
    BY <1>2, <1>3, ClassNames
  <2> QED BY <2>1, <2>2, <2>3 DEF ComputingNames, Branches, Stores, Modifies
<1>5. op \notin {\hAD, \h4C, \h20, \h60, \h48, \h68}
  <2>1. /\ Mnemonic(\hAD) = "LDA" /\ Mnemonic(\h4C) = "JMP" /\ Mnemonic(\h20) = "JSR"
        /\ Mnemonic(\h60) = "RTS" /\ Mnemonic(\h48) = "PHA" /\ Mnemonic(\h68) = "PLA"
    BY OpcodesUsed DEF Is
  <2> QED BY <1>2, <1>3, <2>1 DEF Stores, Modifies
<1> QED BY <1>1, <1>3, <1>4, <1>5
        DEF Flows, Computes, Forks, JumpsWithin, JumpsTo, Calls, Returns, Pushes, Pulls

LEMMA KeepsToItself == MonitorsMap /\ StackInv => FirmwareKeepsToItself
<1> SUFFICES ASSUME MonitorsMap, StackInv, turn = "execute", PC \in LoadedAddr,
                    Name \in Stores \cup Modifies, How # "none"
             PROVE  How = "indY" \/ Address \in WorkArea \cup TtyPage
  BY DEF FirmwareKeepsToItself
<1>1. RomStands
  BY DEF StackInv
<1>2. ~AtWarmStart
  <2> SUFFICES ASSUME PC = \hCF0E \/ PC = \hCF10 PROVE FALSE
    BY DEF AtWarmStart, WarmStart, kWarmStartAddr
  <2>1. Op(\hCF0E) = \hA2 /\ Op(\hCF10) = \h9A
    BY MainLoopCode DEF kMainHex, Op
  <2>2. Name = "LDX" \/ Name = "TXS"
    BY <1>1, <2>1, Fetching, OpcodesUsed DEF Is
  <2> QED BY <2>2 DEF Stores, Modifies
<1>3. PICK n \in Nat : \E f \in [0 .. n -> Frame] :
          Chain(n, f) /\ f[0] = Here /\ LineLengthKept(n, f)
  BY <1>2 DEF StackInv, Standing
<1>4. PICK f \in [0 .. n -> Frame] : Chain(n, f) /\ f[0] = Here /\ LineLengthKept(n, f)
  BY <1>3
<1>5. f[0].at = PC
  <2>1. ~InProgram
    BY DEF InProgram, Elsewhere
  <2> QED BY <1>4, <2>1 DEF Here
<1>6. PICK r \in Routines : OnTop(r, n, f)
  BY <1>4, SomeRoutineOnTop
<1>7. PC \in r.starts
  BY <1>5, <1>6 DEF OnTop
<1>8. r # TRAMPOLINE
  <2>1. \hF8 \in Ram /\ \hFB \in Ram
    BY DEF MonitorsMap, WorkArea
  <2>2. \hF8 \notin LoadedAddr /\ \hFB \notin LoadedAddr
    BY <1>1, <2>1, Reading
  <2> QED BY <1>7, <2>2 DEF TRAMPOLINE, kTrampoline, kReturn
<1>9. Keeps(r, PC)
  BY <1>1, <1>7, <1>8, OnlyKeeps
<1>10. PC < \hD300
  BY <1>7, Regions
<1>11. LineLengthOK(PC)
  BY <1>4, <1>5 DEF LineLengthKept
<1> QED BY <1>1, <1>9, <1>10, <1>11, Keeping

LEMMA StackInvariant ==
    ASSUME MonitorsMap
    PROVE  StackSpec /\ []SparesStack /\ [][Behaves]_<<traceVars, entry>> => []StackInv
<1>1. /\ StackInv /\ SparesStack
      /\ [TraceNext /\ Recorded]_<<traceVars, entry>> /\ [Behaves]_<<traceVars, entry>>
      => StackInv'
  BY StackStep
<1>2. TraceInit => StackInv
  BY StackInit
<1> QED BY <1>1, <1>2, PTL DEF StackSpec

(* StackBalanced: at every prompt SP is where the reset or the last BRK    *)
(* put it, after any lines, commands, tapes and kills, and after any       *)
(* programs that come back (monitor_firmware.cpp: tail calls, error exits, *)
(* the byte PARSE_ADDR, PARSE_BYTE, PRINT_HEX_BYTE, LOAD and               *)
(* READ_TAPE_BYTE have on the stack, RUN's trampoline).                    *)
THEOREM StackStaysBalanced ==
    ASSUME MonitorsMap
    PROVE  StackSpec /\ []SparesStack /\ [][Behaves]_<<traceVars, entry>> => []StackBalanced
BY StackInvariant, BalancedThere, PTL

(* FirmwareKeepsToItself: the monitor's own instructions store into its    *)
(* variables, the device or through ADDR; that READ_LINE stays within      *)
(* LINEBUF is why the store indexed by X does.                             *)
THEOREM FirmwareStoresAreItsOwn ==
    ASSUME MonitorsMap
    PROVE  StackSpec /\ []SparesStack /\ [][Behaves]_<<traceVars, entry>>
               => []FirmwareKeepsToItself
<1>1. StackInv => FirmwareKeepsToItself
  BY KeepsToItself
<1> QED BY <1>1, StackInvariant, PTL
=============================================================================
