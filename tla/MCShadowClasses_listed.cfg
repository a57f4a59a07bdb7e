CONSTANTS
    base = base  sub = sub  dyn = dyn  stub = stub
    None = None
    Threads = {t1}
    Classes = {base, sub, dyn}
    Static = {base, sub}
    Listed = {base, sub}
    Super <- SuperOfThree
    Touch <- TouchesMeta
    Stubs = {stub}
    StubOf <- StubOfDyn
    Hosts = {h1, h2, h3}
SPECIFICATION FairSpec
INVARIANTS
    NoCrash
    NamesComeOutAsGuest
    ListedAreRegistered
PROPERTIES
    CallsReturn
