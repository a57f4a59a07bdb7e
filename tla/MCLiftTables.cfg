CONSTANTS
    Programs <- Instances
    MaxEntries = 3
    LastSpan = 2
SPECIFICATION Spec
CHECK_DEADLOCK FALSE
INVARIANTS
    SwitchLands
    OnlyTableTargets
PROPERTIES
    LiftEnds
