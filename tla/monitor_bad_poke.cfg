\* A poke with a token that is not a byte.
SPECIFICATION TraceSpec
CONSTANTS
    Backing = "open"
    Ram <- MCRam
    Rom <- MCRom
    TtyBase <- MCTtyBase
    Scenarios <- BadPoke
    Pasted = TRUE
PROPERTIES
    UnrecognizedLineChangesNothing
