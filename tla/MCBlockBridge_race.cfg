\* The first half of Disciplined holds and the second does not.  The same
\* property fails the other way round: DirectThreads = {t1, t2}, Global = {}
\* and GlobalUsers <- UsedByNone.
CONSTANTS
    t1 = t1  t2 = t2
    s1 = s1  s2 = s2  s3 = s3
    h1 = h1  h2 = h2  g0 = g0
    w1 = w1  w2 = w2
    None = None
    Threads = {t1, t2}
    Slots = {s1, s2, s3}
    Owner <- OwnerOfThree
    Stack = {g1}
    Heap = {h1, h2}
    Global = {g0}
    GlobalUsers <- UsedByBoth
    Wrappers = {w1, w2}
    DirectThreads = {}
    MaxCount = 5
    Profile = {}
SYMMETRY Symmetry
SPECIFICATION Spec
INVARIANTS
    HeldWrapperIsLive
