\* A host that mixes every call, stopping the clock at any phase.
SPECIFICATION TraceSpec
CONSTANTS
    Backing = "open"
    Ram <- MCRam
    Rom <- MCRom
    TtyBase <- MCTtyBase
    Starts <- SteppedPrograms
    Calls = {"tick", "runToClockHigh", "beginReset", "reset", "executeInstruction", "run",
             "set"}
    RunLengths = {0, 2}
    MaxCalls = 5
INVARIANTS
    HaltStopsRun
PROPERTIES
    CallReturns
\* The host stops calling after MaxCalls calls.
CHECK_DEADLOCK FALSE
