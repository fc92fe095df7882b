\* Lines typed at any pace, with erasures and longer than the buffer, and kills; no tape.
SPECIFICATION TraceSpec
CONSTANTS
    Backing = "none"
    Ram <- MCRam
    Rom <- MCRom
    TtyBase <- MCTtyBase
    Scenarios <- TypingScenarios
    Pasted = FALSE
INVARIANTS
    NothingTypedIsLost
    FirmwareKeepsToItself
PROPERTIES
    ImplementsMonitor
    EveryLineAnswered
