\* Attaching, using and filling a small machine in any order.
SPECIFICATION Spec
CONSTANTS
    Device <- MCDevice
    Rom = {"rom"}
    Size <- MCSize
    Count = 3
    RomBase = 1
    Values = {26}
    Texts <- MCTexts
INVARIANTS
    TypeOK
    EveryMappingHolds
PROPERTIES
    ImplementsAddressSpace
