CONSTANTS
    Regs = {"x0", "x19"}
    CalleeSaved = {"x19"}
    Programs <- ThreeFunctions
    Starts <- StartsOfThree
    MaxRounds = 3
    MaxCalls = 2
SPECIFICATION Spec
CHECK_DEADLOCK FALSE
INVARIANTS
    AccessIsSeen
PROPERTIES
    ScanEnds
