\* Saves, loads, kills and damage on one tape file, through any number of processes.
SPECIFICATION Spec
CONSTANTS
    Data <- MCData
    Found <- MCFound
    Values = {3}
    MaxTape = 10
INVARIANTS
    TypeOK
    SavedBlocksReadBack
    DamageShows
PROPERTIES
    ImplementsTapeStore
