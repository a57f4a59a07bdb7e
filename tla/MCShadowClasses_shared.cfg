CONSTANTS
    base = base  sub = sub  dyn = dyn  stub = stub
    None = None
    Threads = {t1, t2}
    Classes = {base, sub, dyn}
    Static = {base, sub}
    Listed = {}
    Super <- SuperOfThree
    Touch <- TouchesMeta
    Stubs = {stub}
    StubOf <- StubOfDyn
    Hosts = {h1, h2, h3}
SPECIFICATION Spec
SYMMETRY Symmetry
INVARIANTS
    OneShadow
    SuperIsShadow
PROPERTIES
    ShadowIsForever
CHECK_DEADLOCK FALSE
