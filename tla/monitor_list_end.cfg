\* A list whose last address is $FFFF.
SPECIFICATION TraceSpec
CONSTANTS
    Backing = "open"
    Ram <- MCRam
    Rom <- MCRom
    TtyBase <- MCTtyBase
    Scenarios <- ListToTheEnd
    Pasted = TRUE
INVARIANTS
    ListStaysInRange
