\* Every opcode, alone and after an instruction that leaves its latches behind,
\* then another instruction or a reset, against the instruction set.
SPECIFICATION TraceSpec
CONSTANTS
    Backing = "open"
    Ram <- MCRam
    Rom <- MCRom
    TtyBase <- MCTtyBase
    Starts <- InstructionStarts
    Calls = {"executeInstruction", "reset"}
    RunLengths = {}
    MaxCalls = 2
INVARIANTS
    TypeOK
    WithinHandler
PROPERTIES
    ImplementsIsa
\* The host stops calling after MaxCalls calls.
CHECK_DEADLOCK FALSE
