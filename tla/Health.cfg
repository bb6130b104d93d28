CONSTANTS
    Window = 4
    Threshold = 4
    MaxPerTick = 6

SPECIFICATION Spec
VIEW View
INVARIANTS
    TicksCountVerdicts
PROPERTIES
    ContractSpec
