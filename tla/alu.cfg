\* Every register value and carry, every operand in the laws of ADC, SBC and
\* CMP; the operations themselves are applied with eight boundary operands.
SPECIFICATION Spec
CONSTANT Operands = {0, 1, 15, 85, 127, 128, 170, 255}
INVARIANTS
    TypeOK
    AdcExact
    SbcExact
    CompareOrders
    LogicIsBitwise
    RotatesUndoEachOther
    ShiftsAndStepsExact
