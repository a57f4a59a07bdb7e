CONSTANTS
    t1 = t1  t2 = t2
    s1 = s1  s2 = s2  s3 = s3
    h1 = h1  h2 = h2  g0 = g0
    w1 = w1  w2 = w2
    None = None
    Threads = {t1, t2}
    Slots = {s1, s3}
    Owner <- OwnerOfEach
    Stack = {g1}
    Heap = {h1, h2}
    Global = {g0}
    GlobalUsers <- UsedByOne
    Wrappers = {w1, w2}
    DirectThreads = {t2}
    MaxCount = 5
    Profile = {"retainStack", "autorelease"}
SPECIFICATION FairSpec
INVARIANTS
    WrapperOwnsGuest
PROPERTIES
    CallsReturn
CHECK_DEADLOCK FALSE
