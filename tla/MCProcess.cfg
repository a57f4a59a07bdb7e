SPECIFICATION Spec
CONSTANTS
    Threads = {m, w}
    Main = m
    Rounds = 3
    Capacity = 1
    MaxActs = 4
    MaxActsFlagged = 3
INVARIANTS
    IvarsFit
    GuestMemoryIsLive
    NothingLeaks
    DestructorsRunInOrder
PROPERTY
    EndIsReached
CHECK_DEADLOCK FALSE
