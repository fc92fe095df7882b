# sys6 in TLA+

A verification project for sys6, a cycle-stepped MOS 6502 with a bus, RAM, ROM,
a TTY with a tape deck, and a monitor in ROM. All paths below are relative to
the repository.

## 1. The system

| Part | Source | State | Operations |
|---|---|---|---|
| ALU | `src/cpu/alu.cpp` | none (combinational); its input latches belong to the CPU | `execute(a, b, function, carryIn)` |
| CPU6502 | `src/cpu/cpu6502.cpp`, `.h` | registers A X Y SP PC P, IR, T-state `m_cpuStep`, clock phase, address/branch/ALU latches, `m_halted`, `m_resetActive` | `tick`, `runToClockHigh`, `beginReset`, `reset`, `executeInstruction`, `run`, register setters |
| Bus | `src/memory/bus.cpp` | list of disjoint address ranges with their devices | `attach` (throws on an empty, unfitting or overlapping range), `read`, `write` |
| RAM, ROM | `src/memory/ram.cpp`, `rom.cpp` | bytes | `read`, `write` (ROM ignores it), `load` (ROM only) |
| TTY | `src/peripherals/tty.cpp` | serial holding register and RXRDY; tape stream, head, motor, EOT, ERROR | register reads and writes, `receive` |
| System | `src/system/system.cpp` | wires the above together | `reset`, `step`, `run` |
| Monitor | `src/system/monitor_firmware.cpp` | 6502 code in ROM, variables in page zero | the command loop and PEEK, LIST, POKE, RUN, SAVE, LOAD, REWIND |
| Program loader | `src/utils/program_loader.cpp`; `loadRoutine` in `monitor_firmware.cpp` | none | hex text to memory, through `write` or into a ROM |
| Monitor main | `src/system/monitor_main.cpp` | the tape file, which outlives the process | opens or creates the file, `System::run` |
| Terminal | `src/system/posix_terminal_io.cpp` | terminal settings | `tryReadByte` |
| Demo main, logger | `src/main.cpp`, `src/utils/log.cpp` | none | pure output |

How they interact: the host calls the CPU; every call is a loop of `tick()`. A
tick lets the ALU settle, advances the clock by one of four phases, and on
entering High *captures* (bus reads into latches) or on entering Low *commits*
(registers, flags, memory, next T-state). A bus read or write reaches exactly
one device or none. Reading a TTY register can change the TTY. `System::step`
moves one byte from the terminal into the TTY when the holding register is free
and then executes one instruction. `System::run` has no exit: the monitor ends
when its process is killed, and what is left is the tape file, of which the TTY
flushes every byte.

There is one thread. What is hard here is not concurrency but:

* an instruction is spread over up to 7 T-states of 4 phases each, with a
  capture half and a commit half that keep separate lists of T-states, and the
  latches between them are never cleared;
* the host may stop at any phase, arm a reset there, set a register there, or
  finish the instruction with a different call;
* the loops of `executeInstruction` and `reset` end only at T0 and Low, so one
  wrong T-state in one of 256 opcodes is an endless loop;
* widths: SP, page-zero addresses, PC and indexed addresses wrap differently;
* device registers whose reads have side effects, one tape head for reads and
  writes, flags that persist between accesses;
* unchecked stream operations in the tape deck;
* a tape without marks: a block is found only because the head stands at its
  first byte, any SAVE goes over what is there, a kill can cut it anywhere, and a
  new process starts at the first block;
* devices that index their vector unchecked, so that `attach` alone keeps reads
  and writes inside it; loaders that write as they parse;
* the monitor is a thousand bytes of machine code without types or bounds checks: its
  routines share a few page-zero cells, compare and count 16-bit numbers by hand,
  and leave by tail calls, jumps and a trampoline in RAM;
* typed bytes arrive between any two instructions, into a one-byte register.

`PROJECT.json` lists each of these at its line ("hazards") with the properties
that cover it.

What makes each part correct: the ALU computes the arithmetic it names; the CPU
implements the instruction set with the documented cycle counts, every call
returns, a reset settles from anywhere; the TTY delivers each accepted byte once
and reports every tape access that did nothing; the system loses no typed byte;
the monitor answers every line as the command language says, whatever the lines
before it were, and comes back to the prompt; a block that was saved and not gone
over can be loaded again, whatever else was saved and whenever the process was
killed; every address range keeps the device it was given to.

## 2. Modules

| Module | Models | Notes |
|---|---|---|
| `Alu` | `ALU::execute`, the flag predicates, `beginBinaryAluOp`, `beginUnaryAluOp` | pure operators on bytes, defined by arithmetic on single bits |
| `AluMachine` | chained ALU operations on one register and the carry | closes `Alu` for TLC |
| `Status6502` | status byte, 16-bit address helpers, `indexedAddress`, `relativeAddress` | the status register is the set of raised bits |
| `Tty` | the TTY's state and one action per register access and `receive` | no driver of its own |
| `TtyMachine` | a host that offers bytes and a program that accesses any register | history: `accepted`, `delivered` |
| `Bus` | `Bus::read`/`write` with RAM, ROM, the TTY and unmapped addresses | `MapAssumption` is what `attach` enforces |
| `BusMap` | `attach`, the search of the mappings, `read` and `write` on RAM and ROM, `loadProgram`, `loadRoutine` | devices are attached, filled and used in any order; `Bus` is the finished map |
| `AddressSpace` | what a bus promises: a partial function from addresses to cells | abstract specification of `BusMap` |
| `MCBusMap` | a machine of three addresses for TLC | |
| `Opcodes6502` | the opcode constants, the two dispatch switches, and per handler what is captured and committed in each T-state | tables; `Cpu6502` gives the entries meaning |
| `Cpu6502` | clock, captures, commits, reset sequence, host calls | one action per capture or commit |
| `Isa6502` | what a programmer is promised: one step per instruction or reset | abstract specification; decodes by the regular layout of the opcode byte, computes with integers, not with `Opcodes6502` or the ALU's function line |
| `Cpu6502Trace` | `Cpu6502` with history variables, the refinement mapping to `Isa6502` | `last`: the view at the last instruction boundary |
| `MCCpu6502` | small memories and programs for TLC | |
| `Firmware` | the contents of the ROM: `kXxxHex`, `install`, `loadRoutine` | data: the bytes of the source, under the source's names |
| `System` | `System::System`, `reset`, `step` over `Isa6502`, the bus, the TTY and a keyboard | `step` is two actions taken in turn, `Poll` and `Instruct`; `Restart` is a kill and the next process |
| `TapeBlocks` | the blocks SAVE writes and LOAD reads | operators on byte sequences, used by `Monitor` and `TapeSession` |
| `Monitor` | what the monitor promises at the terminal: one step per line typed | abstract specification; knows no machine code, page zero or registers |
| `MonitorTrace` | `System` with history variables, the refinement mapping to `Monitor` | `typed`: read since the last prompt; `last`: what could be seen there; `delivered`: all bytes read |
| `MonitorCode` | the ROM's routines: where their instructions start, which of them have a byte of their own on the stack, where their callers go on; the stack as a chain of frames | the inductive invariant `StackInv` and the hypotheses of the theorems about it; history: `entry`, SP when RUN's program was called |
| `MCMonitor`, `MCStack` | sessions, tapes and programs for TLC | |
| `TapeSession` | one tape file through any number of processes: how `main` opens it, SAVE, LOAD, REWIND, a kill between any two bytes, a byte that goes bad | a command is one action; history: `kept`, the blocks saved and not gone over |
| `TapeStore` | what a tape promises: a list of blocks | abstract specification of `TapeSession`; no bytes, lengths or checksums |
| `MCTapeSession` | a few blocks for TLC | |
| `CpuLemmas`, `TtyLemmas` | lemmas | widths and exactness of the ALU's operators, what the opcode tables are and the T-states of each handler; what an access to the TTY keeps |
| `AluProofs`, `TtyProofs`, `Cpu6502Proofs`, `SystemProofs`, `BusProofs`, `TapeProofs` | theorems | |

Correspondence of names: `A X Y SP PC` are `m_A` .. `m_PC`; `P` is `m_pFlags`;
`IR` is `m_IR`; `step` is `m_cpuStep` (0 for T0); `phase` is `m_clockPhase`;
`addr`, `eff`, `crossed` are `m_addrLatch`, `m_effAddr`, `m_pageCrossed`;
`offset`, `taken` are `m_branchOffset`, `m_branchTaken`; `aluF aluA aluB aluCI`
are the ALU's input latches. `m_aluOutput` is not a variable: `tick` recomputes
it from the latches before every capture and commit, and latches change only on
the High edge, so what a commit reads is `AluValue` of the latches (`Settled`).
`call`, `left`, `calls` are the host's program counter: the call in progress,
the instructions a `run` has left, and how many calls were made. `PC` is 16 bits
wide, everything the code holds in `uint8_t` is a byte, and each `%` in the
model is at the width of the C++ type it stands for.

A handler `captureX`/`commitX` is a row `X` of `Opcodes6502`: entry *i* names
what the switch does in T*i*. The bodies that handlers share (fetch the low byte
of an address, read the operand, take the result) are one action each in
`Cpu6502`. The default case of a commit switch leaves the T-state where it is;
that is `OnClockLow` outside `WithinHandler`.

`Tty` has three kinds of backing stream (`Backing`): absent, open, and a stream
object that never opened, which `monitor_main.cpp:17` passes when the file
cannot be created.

The three layers fit together like this: `Cpu6502` implements `Isa6502`;
`System` runs the ROM on `Isa6502`, because a line typed takes thousands of
instructions and tens of thousands of clock phases; the ROM on `System`
implements `Monitor`. The monitor's routines are not translated into actions one
by one: the program is the byte string the source installs, and the instruction
set gives it its meaning, so a wrong branch offset in the source would be a wrong
branch in the model.

`MonitorTrace` compares at MAIN_LOOP ($CF11), before the prompt is printed.
Everything the machine does from there to the next time it is there is one step
of `Monitor`: the line is what was read, `out` grows by the prompt, the echo and
the answer. What is compared is what a person can get at: the output, the user's
RAM (all but the cells the monitor needs, the stack and the TTY's page), the tape,
its head and flags. `Monitor` promises nothing of a command that reaches into
those cells (README.md:46 warns of it), of a range that ends at $FFFF (see 6),
nor of a program started by RUN that does more than return (`Unpromised`, `Run`).
Addresses of more than four digits keep their last four, as PARSE_ADDR's shifts do.

A kill (`Restart`) may come between any two instructions. `Monitor` says what it
may leave: the tape as it was, or with a part of the block of the SAVE that was
interrupted, and nothing of memory. `TapeSession` takes that up at the level of
whole commands, where blocks of several sizes saved over each other, several
kills and damaged bytes can be combined, and relates the bytes to `TapeStore`: a
list in which a save at block *k* replaces it if the sizes agree and cuts the list
there if they do not, and a save that is killed leaves a torn block or the
shorter list. `clean` says that nothing but the blocks is on the tape, so that a
load at their end must complain; behind a shorter block put over a longer one the
tail is still there and a load may make anything of it.

In `BusMap` a character of a text is a digit value, a space or something else;
`MemoryDevice` is its size and contents, `Rom` the set of those that ignore
`write`. An offset that a device does not have is undefined behaviour in the code
(`m_data[offset]`): `EveryMappingHolds` says that the bus never produces one, and
`CallerFits` is the duty that `loadProgram` and `loadRoutine` leave to their
callers. `result` is the last call and what it returned or that it threw.

Operators named `XFault_...` are seeded faults. No specification uses them: each
is definition `X` as a programmer's slip would have left it, and substituting it
breaks the property named beside it. They show that the properties have teeth.

## 3. What is checked

| Run | Question | Bounds |
|---|---|---|
| `alu` | Is arithmetic exact? From every reachable (register, carry) - all 512 - ADC, SBC and comparisons with every operand byte, logic with eight operands, shifts and steps; rotates undo each other. | none on the register; `Operands` drives only the logic and the transitions |
| `tty_open` | Under any interleaving of typed bytes, serial and tape accesses: no byte lost or repeated, head on the tape, EOT never stale, ERROR up exactly when a data access did nothing, every written byte on the tape, no movement with the motor off. | tape and head up to 3 bytes, 2 serial bytes each way, 2 byte values, all 4 control values: enough to write, rewind, overwrite, run off the end and write again |
| `tty_unopened` | (violated, see 6) | same |
| `cpu_isa` | Does every opcode, legal or not, behave as one step of the instruction set, with the documented cycle count, under `executeInstruction` and `reset`? Does any instruction depend on latches left by the one before it? | 151 opcodes and 3 unassigned ones, 2 register sets, 3 operand words; each as the first instruction, and after `LDA abs,X` (crossing), `ROL abs,X` and `JMP`, which leave the latches full; two calls |
| `cpu_host` | Any mix of the six calls and the register setters at any phase: does every call return, does `run` respect a halt? | 5 calls, 7 programs covering a read-modify-write, calls and returns, stores to the TTY, branches, pushes, BRK and RTI |
| `cpu_reset` | Does a reset settle from wherever it was armed, including another reset? | 17 calls: more than the phases of the longest instruction with `runToClockHigh` among them |
| `bus` | Is every accepted range served by its own device, cell by cell? Does a bus with its devices behave as one flat address space, through writes that a ROM ignores, loads, bad texts and attaches that are refused? | three addresses, a device of one cell, a ROM of two and a RAM of the whole space; every start and end, in every order; texts with spaces, an odd digit, a bad character at once and after bytes were written, and longer than the space |
| `tape` | Is a saved block read back until it is gone over, is one bad byte noticed, do loads go through the list of blocks that `TapeStore` promises? | files up to 10 bytes, empty or with a stray byte pair that reads as a header; blocks of one and two bytes that fit over each other or do not, one of which reads like a header itself; any number of processes, kills after every byte |
| `monitor_commands` | Does the ROM do what `Monitor` says, line by line, and is the stack balanced at every prompt? After every instruction, of the ROM or of a program: is the stack a chain of calls down to the main loop, with in each routine its own byte on top or none, and the count of characters within LINEBUF (`StackStands`)? Do programs come back as the theorems in 4 suppose (`ProgramsComeBack`)? | every line of an optional address and up to two of eight characters, of a range and up to two of four, every poke of up to three of four; any two of seven commands after a poke; two blocks saved one after or over the other and loaded back; loads from eight tapes, cut off at every point, damaged and empty, each of which leaves by another exit; four programs run twice: RTS; push, pull, RTS; a subroutine of its own; BRK; a poke of a stack cell not in use; kills at any instruction while a block is saved to a new tape, over a block of its size with another one behind it, over a longer one, and a second and third process that load; the whole stack page is RAM |
| `monitor_typing` | With a byte arriving before any instruction or none: is every byte read once, every line answered, also when it is erased or longer than the buffer? Does the firmware store only where it may? What do the tape commands do without a tape? | seven texts, the longest 77 bytes for a buffer of 64; a kill anywhere in an eighth, and a new process that types a line of its own; `Backing` "none" |
| `monitor_list_end` | (violated, see 6) | |
| `monitor_bad_poke` | (violated, see 6) | |

The CPU's memory in `MCCpu6502` is a handful of cells in each page that matters;
the programs sit across a page boundary; the two register sets make every
indexed mode cross a page with one and not with the other, wrap page-zero
indices and pointers, wrap the stack in both directions, and set all flags or
none; the operand words hit RAM, the serial data register and the tape data
register. An address without a device floats to $FF, as in the code.

In `MCMonitor` RAM is the monitor's page-zero cells, 24 bytes of stack, a stretch
of user cells longer than one row of a list, and four cells across a page
boundary; the ROM is complete. `Pasted` chooses the pace: TRUE lets every byte
wait at the terminal (one interleaving, many texts), FALSE lets it come before
any instruction (every interleaving, few texts). The firmware looks at the
keyboard in one place only (GETCHAR), which is why a few texts are enough there.

Fairness of the CPU: `WF_traceVars(TraceTick)`. A host call is a loop of `tick()` on the caller's own
thread, which nothing in the program can suspend, so a call in progress keeps
ticking. Starting a call is never fair: the host may stop calling, which is why
the CPU runs switch TLC's deadlock check off.

Fairness of the system: `WF(TraceRun)` (the reset and the step loop, not the
kill, which nobody has to do), since `System::run` is a loop without an
exit on the program's only thread, and `SF(TracePoll /\ PollByte)`, the typist's:
who has begun a text goes on typing it, so a loop that asks again and again is
given the next byte. The second is an assumption about a person, not about the
code; without it nothing can be said about a line that is never finished. It must
be strong, because the poll is enabled only in every other step and only while
the register is empty.

`ImplementsIsa` is a refinement: `Cpu6502Trace` maps the middle of an
instruction to the view at its start, so that the tick that ends an instruction
is one `Isa6502` step and every other tick stutters. It therefore compares the
complete programmer's state, memory, device state and cycle count after every
instruction. `Isa6502` promises nothing about devices when the code, a pointer
or the stack itself lies in the device's page, nor for a read-modify-write of a
device register (`Unpromised`).

## 4. What is proved

All proofs are checked by TLAPS for every value of the constants: any program,
any memory map that satisfies `MapAssumption`, any sequence of host calls.

* `Cpu6502Proofs`: `TypeCorrect` (every register, latch, cell keeps its width),
  `NeverStuck` (`WithinHandler`: no handler is ever in a T-state its commit does
  not have - the safety half of "every call returns"), `RunStopsAtHalt`.
  The inductive invariant is
  `DatapathOK /\ ControlOK /\ WithinHandler /\ HaltStopsRun /\ RunCounts`.
  `TypeOK` is not inductive alone: a commit advances `step`, and 6 bounds it only
  because the T-state lies in the opcode's row, which in turn needs IR not to
  change after T0 and `beginReset` to put `step` back to T0. `RunCounts` (a run
  in progress has instructions left) is what makes `left - 1` a natural number.
  The proof has one lemma per group of captures and commits; `CpuLemmas`
  establishes once what the tables are: every row ends in a commit that returns
  to T0, every earlier entry is one that may advance.
  `ResetFromAnywhere` (`ResetSettles`) needs one more invariant, `Resetting`:
  while a reset is active, every T-state of it says what has become of the state
  at the moment it was armed, and once the vector has been fetched what stands in
  the address latch. Its hypothesis, that the host does not set registers
  (`"set" \notin Calls`), is that of the property: a register written between
  arming and completion is not the one the interrupted instruction left.
  `ImplementsInstructionSet` is the refinement `ImplementsIsa`, for every memory
  map, program, starting state and number of calls: every instruction of every
  opcode byte ends in exactly the registers, flags, memory, device state and cycle
  count that `Isa6502` gives it, and every tick before its last changes nothing
  the programmer sees. It has two hypotheses. `WholeCalls` restricts the host to
  `executeInstruction`, `run` and `reset`: a host that ticks by hand can stop within
  an instruction, or reset or set registers there, which no instruction set
  describes; `ResetFromAnywhere` and the invariants cover such hosts.
  `[]OrdinaryProgram` excludes the instructions about whose device accesses
  `Isa6502` promises nothing (`Unpromised`).
  The invariant added is `Underway`. `Committed` says what the commits so far have
  done, T-state by T-state: PC, SP, P, memory, registers and cycles as a function
  of the view at the last boundary. `Latched` says what the captures hold: the
  opcode is the byte at that PC, the address latches are the operand's address or
  the part of it read so far, the operand is the value there, and a device
  register has been read once, or not at all. Neither is enough alone: a commit of
  a later T-state uses latches filled two or three T-states earlier, and those are
  what `Isa6502` means only as long as memory is still the one the instruction
  started with. The argument: `DecodersAgree` (the `switch` statements and the bit
  layout of the opcode, by which `Isa6502` decodes, agree on all 256 bytes); every
  High edge fills the latches as `Latched` says; a Low edge that goes on keeps
  both; a Low edge that finishes makes one step of `Isa6502`, with its cycles; and
  a reset armed between instructions is `Isa6502`'s `Reset` seven cycles later.
  `Latched` and `Committed` were checked with TLC on the run `cpu_isa` before they
  were proved.
* `TtyProofs`: `TypeCorrect`, `ExactlyOnce`, `HeadStaysOnTape`, `EotIsExact`, and
  of every step `AccessIsReported` (`DataAccessReports`), `StoppedTapeIsStill`
  (`StoppedTapeStandsStill`) and `WriteIsReported` (`FailedWriteReported`), for
  every backing, byte set and bound. `WriteIsReported` excludes the stream that
  never opened, for which the property is false (see 6).
* `SystemProofs`: `StepLosesNothing` (`NothingTypedIsLost`), for every text and
  pace, every map, tape and program, any number of restarts. The inductive invariant adds the types of
  the serial side and that PC is still 0, in RAM, when the reset is due (a reset
  on a PC in the device's page reads it). The lemma behind it is that an
  instruction can only take the byte in the holding register or leave it. The
  hypothesis `[]OrdinaryProgram` excludes instructions about whose device access
  `Isa6502` says nothing: those that lie in the TTY's page, have a pointer or the
  stack there, or modify a register in place. That the device itself loses
  nothing under any sequence of accesses whatever is `ExactlyOnce`.

  `StackStaysBalanced` (`StackBalanced`) and `FirmwareStoresAreItsOwn`
  (`FirmwareKeepsToItself`) are about the ROM, for every text at every pace, every
  tape, restart and program. Neither is inductive: SP at the prompt follows from what
  is on the stack in the middle of every routine, and that the one store
  indexed by X stays in LINEBUF follows from what READ_LINE knows of X at each of
  its instructions and from its callees leaving X alone. `StackInv` says all of it.
  The stack is a chain of frames (`Chain`): an address in a routine and the SP there,
  the return address above it in memory that of a caller of this routine, and so on
  to the main loop, at FD or FF. A routine has a rank above its callers', so at most
  five frames are on the stack, which is why it never wraps; `LineLengthKept` and
  `TrampolineOK` say what X, the carry and zero flags and the trampoline's bytes are
  where it matters.
  The argument has two halves. First, from the bytes of `Firmware` alone, what each
  of the some 500 instructions is (`Flows`): it computes, stores into the work area,
  the device or through ADDR, branches within the routine, calls or jumps to the
  first instruction of a routine that returns where it must, pushes, pulls, or
  returns with nothing of its own on the stack. Then, for each of these kinds and any
  routine, what `Isa6502` makes of it: the chain continues, grows by a frame or loses
  one. TLC checked the invariant first (`monitor_commands`).
  The hypotheses, none of which the code enforces: `MonitorsMap`, the ROM, RAM and
  device are where `System::System` attaches them; `[]SparesStack`, no POKE and no
  LOAD is told to store into the stack in use - such a line can replace a return
  address, and nothing in the code prevents it; `[][Behaves]`, a program that RUN starts
  lies outside the monitor's code, leaves the stack above its own frame and the
  trampoline's RTS alone, and comes back by its RTS, with SP as it was, or by a BRK.
  What it does otherwise, below its frame and elsewhere in memory, is free. Programs
  that call the monitor's routines are not covered. The run `monitor_commands` shows
  both hypotheses to hold in its sessions (`ProgramsComeBack`).
* `BusProofs`: `AttachedServes` (`EveryMappingHolds`) and `AttachEstablishesMap`
  (no address is served by two devices), for any devices, any number of addresses
  and any order of calls. The invariant is that the ranges accepted are proper,
  of their device's size and pairwise disjoint; from it follows that the search
  can find only one of them, so that the order of attachment is irrelevant, and
  that an offset is always inside the device. `AttachEstablishesMap` is what the
  disjointness in `MapAssumption`, on which the CPU, system and monitor rest, comes
  from. `TypeCorrect` adds the contents of the devices, and `MapIsAddressSpace`
  is the refinement `ImplementsAddressSpace`: an attach adds the device's cells to
  the flat space or is refused by both, a write that finds a mapping reaches the
  cell the flat space has at that address, and a load is the same sequence of
  writes as in the flat space.
* `TapeProofs`: `TypeCorrect`, `SavedReadBack` (`SavedBlocksReadBack`) and
  `DamageDetected` (`DamageShows`), for blocks of any contents and any size up to
  65535, tapes of any length and any order of commands, kills and damage; and
  `OneByteDamageDetected`, the property of the checksum they use: a byte in which
  two sequences differ has a bit whose count changes parity, and the checksum
  tells the parities. The invariant `TapeInv` adds to the types what the three
  properties do not say: of every kept block, torn ones included, the header
  stands on the tape (otherwise the blocks behind a torn one would be out of
  reach); the blocks lie one behind the other without overlap; and the head of an
  open deck is in front of a block, right behind the last one or further on -
  never inside one, where a save would ruin it unseen. One lemma each shows that a
  save at a block of the same size, elsewhere, and beyond the last block keep
  the others standing, and the same for a save that was cut. On `TapeInv` rests
  `TapeIsBlocks`, the refinement `ImplementsTapeStore`: every command is one step
  of the list of blocks, and a load finds what the list says it must.
* `AluProofs`: all the laws of the run `alu`, for every set of operand bytes:
  `AluTyped`, `AdcIsExact`, `SbcIsExact`, `CompareIsOrder`, `RotatesAreInverse`,
  `ShiftsAndStepsAreExact`, `LogicIsOnBits`. They follow from what the operators
  of `Alu` compute on any byte, which `CpuLemmas` shows, bit by bit for the
  logical ones (which is why `Alu` defines them by single bits and not recursively).

A loader's and a load's loop over a text is a recursive function in the model.
The library's induction theorems take an operator as a parameter and cannot be
used here; what such a loop computes is proved instead from the least-element
property of a well-founded relation (`WFMin`): were there a length at which the
claim fails, there would be a least one, and it holds one step before.

Assumptions: `MapAssumption` (disjoint ranges inside 16 bits, what `attach`
throws on otherwise), `CpuAssumption` (the host's initial registers and memory
are bytes and words, `Calls` are calls), `BackingAssumption`,
`MachineAssumption`, `SystemAssumption` (what is typed and what is on the tape
are bytes; RAM starts at 0, as `System::System` attaches it), `BusMapAssumption`
(devices have sizes, values are bytes, texts are characters), `TapeAssumption`
(what is saved are one to 65535 bytes, the length two bytes can say). TLC
evaluates them in every run.

## 5. Only model-checked, not modelled

Only model-checked: `ImplementsIsa` for programs that are not `OrdinaryProgram`
(registers, flags, memory and cycles of instructions whose code, pointer or stack
is in the device's page), `CallReturns` and `EveryLineAnswered` (liveness, out of
the prover's reach), `ImplementsMonitor` (what the ROM computes, not only where it
goes, line by line), `StackStands` (the form of `StackInv` that TLC can evaluate: it
finds the frames, by a recursive operator, where `StackInv` says that there are
some) and `ProgramsComeBack` (the hypotheses about programs, for those of one run).

Not modelled: the logger and the terminal set-up (no state the rest depends on),
`src/main.cpp` (it resets a CPU on empty memory, executes one instruction and
logs), `Tracing`/`Debug` switches (they only add log lines), failures of an
open tape file such as a full disk, `NMI` and `IRQ` (the code has none). Of the
disk, `TapeSession` assumes that a byte flushed survives the process. Damage to
the length of a block is not promised to be noticed, and two bad bytes are not:
the checksum is a plain exclusive or.

## 6. Disagreements found

* `tty_unopened`: the design says ERROR is set when the last tape operation
  failed; a write to a stream that never opened reports success
  (`tty.cpp:109-114`).
* `monitor_list_end`: LIST "prints START through END inclusive"
  (`monitor_firmware.cpp:289`); with END = $FFFF it wraps to $0000 and never ends.
  SAVE has the same loop.
* `monitor_bad_poke`: a line that is not understood prints `?` and changes nothing
  (`README.md:43`, `2026-08-08-system-monitor-design.md:225`); a poke with a bad token
  keeps the bytes before it and prints nothing, as the comment above POKE says.

Without a run of its own: the manual says that nothing in the emulator reacts to
reads (`docs/6502-manual.md:174`); the TTY does (`tty.cpp:33, 79-87`), and
`Isa6502` says exactly which instructions read it.

## 7. Plan

Done: ALU, TTY, bus with `attach` and the loaders, CPU with its abstract
specification, system with restarts, monitor, tape sessions.

1. Sessions that RUN longer user programs, ones that call the monitor's routines
   among them.
2. Proofs: all safety properties of the code are proved but the refinement
   `ImplementsMonitor`, for which the argument about the stack would have to be
   repeated with what every routine computes. What could be added before it is a
   theorem that composes the layers: `System` over `Cpu6502` instead of `Isa6502`, by
   `ImplementsInstructionSet`.
