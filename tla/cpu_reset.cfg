\* A reset armed at any clock phase of an instruction or of a reset.
SPECIFICATION TraceSpec
CONSTANTS
    Backing = "open"
    Ram <- MCRam
    Rom <- MCRom
    TtyBase <- MCTtyBase
    Starts <- InterruptedPrograms
    Calls = {"tick", "runToClockHigh", "beginReset"}
    RunLengths = {}
    MaxCalls = 17
PROPERTIES
    ResetSettles
\* The host stops calling after MaxCalls calls.
CHECK_DEADLOCK FALSE
