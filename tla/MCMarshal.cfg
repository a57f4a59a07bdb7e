CONSTANTS
    None = None
    Fault = Fault
    Byte = 2
    HostWords = 256
    GuestWords = 65536
    Sentinels = 4
    Slots = 2
    MaxActs = 2
    OpaqueRecords = {"mutex"}
    CountNames = {"count", "n"}
    Programs <- MCPrograms
    Variables <- MCVariables
    CallbackTypes <- MCCallbackTypes
    HostInts <- MCHostInts
    GuestInts <- MCGuestInts
    GuestWrites <- MCGuestWrites
SPECIFICATION Spec
INVARIANTS
    ValuesArrive
    WritesComeBack
    CallbackIsTheFunction
CHECK_DEADLOCK FALSE
