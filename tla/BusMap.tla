-------------------------------- MODULE BusMap --------------------------------
(***************************************************************************)
(* Building a machine: Bus::attach and the search behind Bus::read and     *)
(* Bus::write (src/memory/bus.cpp), the RAM and ROM devices                *)
(* (src/memory/ram.cpp, rom.cpp), and the two ways of filling them with    *)
(* hex text, loadProgram (src/utils/program_loader.cpp) and loadRoutine    *)
(* (src/system/monitor_firmware.cpp).  Devices are attached, filled and    *)
(* used in any order.                                                      *)
(*                                                                         *)
(* A character of a text is 0 .. 15, the hex digits in either case, or one *)
(* of Space and Other.                                                     *)
(***************************************************************************)
EXTENDS Integers, Sequences

CONSTANTS
    Device, Rom,    \* the devices of a machine, and those that are ROMs
    Size,           \* MemoryDevice::size of each
    Count,          \* how many addresses there are, 65536: uint16_t wraps there
    RomBase,        \* kRomBase, the bus address loadRoutine counts from
    Values, Texts   \* the bytes written and the texts loaded in a run

Address == 0 .. Count - 1
Byte == 0 .. 255
Space == 16
Other == 17
Done == -1
Refused == -2
Calls == {"attach", "read", "write", "loadProgram", "loadRoutine"}

ASSUME BusMapAssumption ==
    /\ Rom \subseteq Device
    /\ Size \in [Device -> Nat]
    /\ Count \in Nat \ {0}
    /\ RomBase \in Address
    /\ Values \subseteq Byte
    /\ Texts \subseteq Seq(0 .. Other)

VARIABLES
    mappings,       \* m_mappings
    data,           \* m_data of every device
    result          \* the last call, and the byte it returned, Done, or Refused if
                    \* it threw

vars == <<mappings, data, result>>

Mapping == [start : Address, end : Address, device : Device]
Offsets(d) == {o \in Address : o < Size[d]}

TypeOK ==
    /\ mappings \in Seq(Mapping)
    /\ \A d \in Device : data[d] \in [Offsets(d) -> Byte]
    /\ result \in Calls \X ({Done, Refused} \cup Byte)

(* A ROM is built with its contents, of which the zeroed one is typical.   *)
Init ==
    /\ mappings = <<>>
    /\ data = [d \in Device |-> [o \in Offsets(d) |-> 0]]
    /\ result = <<"write", Done>>

Refuse(call) == result' = <<call, Refused>> /\ UNCHANGED <<mappings, data>>

-----------------------------------------------------------------------------
(* Bus::attach.  The size is compared in size_t: a device of 65536 cells   *)
(* fits the range 0 .. 65535.                                              *)

SizeMatches(start, end, d) == end - start + 1 = Size[d]

OverlapsFault_Touching(start, end, m) == start < m.end /\ end > m.start   \* EveryMappingHolds
Overlaps(start, end, m) == start <= m.end /\ end >= m.start

AttachRefused(start, end, d) ==
    \/ end < start
    \/ ~SizeMatches(start, end, d)
    \/ \E i \in DOMAIN mappings : Overlaps(start, end, mappings[i])

Attach(start, end, d) ==
    /\ ~AttachRefused(start, end, d)
    /\ mappings' = Append(mappings, [start |-> start, end |-> end, device |-> d])
    /\ result' = <<"attach", Done>>
    /\ UNCHANGED data

-----------------------------------------------------------------------------
(* Bus::findMapping: the first range in the order of attachment.           *)

Covers(m, addr) == addr >= m.start /\ addr <= m.end
Mapped(addr) == \E i \in DOMAIN mappings : Covers(mappings[i], addr)
FindMapping(addr) ==
    mappings[CHOOSE i \in DOMAIN mappings :
                 /\ Covers(mappings[i], addr)
                 /\ \A j \in 1 .. i - 1 : ~Covers(mappings[j], addr)]

(* The device, and the offset in it, that answers for a mapped address.    *)
Resolve(addr) ==
    LET m == FindMapping(addr) IN <<m.device, (addr - m.start) % Count>>

Read(addr) ==
    /\ result' = <<"read", IF Mapped(addr)
                            THEN LET c == Resolve(addr) IN data[c[1]][c[2]]
                            ELSE 255>>
    /\ UNCHANGED <<mappings, data>>

StoredFault_EveryDevice(contents, d, offset, val) ==              \* ImplementsAddressSpace
    [contents EXCEPT ![d][offset] = val]

(* MemoryDevice::write: a ROM ignores it.                                  *)
Stored(contents, d, offset, val) ==
    IF d \in Rom THEN contents ELSE [contents EXCEPT ![d][offset] = val]

Write(addr, val) ==
    /\ data' = IF Mapped(addr)
               THEN LET c == Resolve(addr) IN Stored(data, c[1], c[2], val)
               ELSE data
    /\ result' = <<"write", Done>>
    /\ UNCHANGED mappings

-----------------------------------------------------------------------------
(* loadProgram and loadRoutine.  "progress" is where the loop stands: the  *)
(* contents so far, the next offset, and whether a bad character ended it. *)

DigitsOf(text) ==
    LET digits[n \in 0 .. Len(text)] ==
            IF n = 0 THEN <<>>
            ELSE IF text[n] = Space THEN digits[n - 1]
            ELSE Append(digits[n - 1], text[n])
    IN  digits[Len(text)]

PairsOf(digits) == [k \in 1 .. Len(digits) \div 2 |-> <<digits[2 * k - 1], digits[2 * k]>>]

BadPairFault_Unchecked(pair) == FALSE                             \* TypeOK
BadPair(pair) == pair[1] = Other \/ pair[2] = Other

Put(call, contents, d, offset, val) ==
    IF call = "loadRoutine" THEN [contents EXCEPT ![d][offset] = val]
                            ELSE Stored(contents, d, offset, val)

LoadPair(call, d, progress, pair) ==
    IF progress.thrown THEN progress
    ELSE IF BadPair(pair) THEN [progress EXCEPT !.thrown = TRUE]
    ELSE [contents |-> Put(call, progress.contents, d, progress.at, 16 * pair[1] + pair[2]),
          at |-> (progress.at + 1) % Count, thrown |-> FALSE]

LoadPairs(call, d, from, pairs) ==
    LET after[n \in 0 .. Len(pairs)] ==
            IF n = 0 THEN [contents |-> data, at |-> from, thrown |-> FALSE]
            ELSE LoadPair(call, d, after[n - 1], pairs[n])
    IN  after[Len(pairs)]

(* Neither checks that the device has the offset: the caller sees to it.   *)
CallerFits(d, from, text) ==
    \A k \in 1 .. Len(DigitsOf(text)) \div 2 : (from + k - 1) % Count < Size[d]

OddDigits(text) == Len(DigitsOf(text)) % 2 # 0

Load(call, d, from, text) ==
    /\ ~OddDigits(text) /\ CallerFits(d, from, text)
    /\ \E end \in {LoadPairs(call, d, from, PairsOf(DigitsOf(text)))} :
           /\ data' = end.contents
           /\ result' = <<call, IF end.thrown THEN Refused ELSE Done>>
    /\ UNCHANGED mappings

(* Through MemoryDevice::write, at an offset in the device.                *)
LoadProgram(d, startAddress, text) == Load("loadProgram", d, startAddress, text)

(* Through ROM::load, which does change a ROM, at a bus address.           *)
LoadRoutine(d, busAddr, text) ==
    d \in Rom /\ Load("loadRoutine", d, (busAddr - RomBase) % Count, text)

-----------------------------------------------------------------------------
AttachSome == \E start, end \in Address, d \in Device : Attach(start, end, d)

AttachThrows ==
    /\ \E start, end \in Address, d \in Device : AttachRefused(start, end, d)
    /\ Refuse("attach")

Use == \E addr \in Address : Read(addr) \/ \E val \in Values : Write(addr, val)

LoadSome ==
    \E d \in Device, addr \in Address, text \in Texts :
        LoadProgram(d, addr, text) \/ LoadRoutine(d, addr, text)

LoadThrows ==
    /\ \E text \in Texts : OddDigits(text)
    /\ Refuse("loadProgram") \/ Refuse("loadRoutine")

Next == AttachSome \/ AttachThrows \/ Use \/ LoadSome \/ LoadThrows

Spec == Init /\ [][Next]_vars

-----------------------------------------------------------------------------
(* Every range that attach accepted is served by its own device, from its  *)
(* first cell to its last: no earlier range hides an address of it, and no *)
(* address leads past the device's vector, which read and write index      *)
(* unchecked (Bus::attach's throws, against findMapping and the devices).  *)
EveryMappingHolds ==
    \A i \in DOMAIN mappings :
        \A a \in mappings[i].start .. mappings[i].end :
            /\ Resolve(a) = <<mappings[i].device, a - mappings[i].start>>
            /\ a - mappings[i].start < Size[mappings[i].device]

(* What every claimed address means, and what every cell holds.            *)
Meaning == [a \in {b \in Address : Mapped(b)} |-> Resolve(a)]
Cells == {c \in Device \X Address : c[2] < Size[c[1]]}
Content == [c \in Cells |-> data[c[1]][c[2]]]

(* Attaching, searching and loading implement the abstract address space.  *)
Promised == INSTANCE AddressSpace WITH
    ReadOnly <- Rom, Byte <- Values, Start <- RomBase,
    meaning <- Meaning, content <- Content

ImplementsAddressSpace == Promised!Spec
=============================================================================
