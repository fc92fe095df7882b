--------------------------------- MODULE Bus ---------------------------------
(***************************************************************************)
(* The system bus (src/memory/bus.cpp) with RAM, ROM and the TTY attached  *)
(* to disjoint address ranges, as the CPU sees it: the value a read        *)
(* returns, and the effect a read or a write has on the devices.           *)
(*                                                                         *)
(* A RAM or ROM cell is addressed here by its bus address: Bus::attach     *)
(* rejects overlapping ranges and passes addr - start to the device, so    *)
(* the two ways of naming a cell are one to one.                           *)
(***************************************************************************)
EXTENDS Alu, Tty

CONSTANTS
    Ram, Rom,       \* the addresses mapped to RAM and to ROM
    TtyBase         \* the first of the 256 addresses mapped to the TTY

TtyPage == TtyBase .. TtyBase + 255

ASSUME MapAssumption ==
    /\ Ram \subseteq Word /\ Rom \subseteq Word
    /\ TtyBase \in Word /\ TtyBase + 255 \in Word
    /\ Ram \cap Rom = {} /\ (Ram \cup Rom) \cap TtyPage = {}

VARIABLE mem        \* m_data of the RAM and ROM devices, by bus address

busVars == <<mem, serial, deck>>

Memory == [Ram \cup Rom -> TtyByte]

BusTypeOK == mem \in Memory /\ TtyTypeOK

(* Bus::read: an address no device claims floats high.                     *)
BusData(addr) ==
    IF addr \in Ram \cup Rom THEN mem[addr]
    ELSE IF addr \in TtyPage THEN ReadValue(addr - TtyBase)
    ELSE 255

BusRead(addr) ==
    /\ IF addr \in TtyPage THEN TtyRead(addr - TtyBase) ELSE UNCHANGED ttyVars
    /\ UNCHANGED mem

(* Bus::write: a write to ROM or to no device is ignored.                  *)
BusWrite(addr, val) ==
    /\ mem' = IF addr \in Ram THEN [mem EXCEPT ![addr] = val] ELSE mem
    /\ IF addr \in TtyPage THEN TtyWrite(addr - TtyBase, val) ELSE UNCHANGED ttyVars

BusIdle == UNCHANGED busVars
=============================================================================
