\* Lines well formed or not, alone and one after another, on tapes whole and damaged;
\* programs that return, call, push and BRK; kills; the whole stack page.
SPECIFICATION StackSpec
CONSTANTS
    Backing = "open"
    Ram <- StackRam
    Rom <- MCRom
    TtyBase <- MCTtyBase
    Scenarios <- StackScenarios
    Pasted = TRUE
INVARIANTS
    StackBalanced
    StackStands
PROPERTIES
    ProgramsComeBack
    ImplementsMonitor
