CONSTANTS
    Projects <- AllProjects
    Libraries <- Names
    Symbols <- SymbolSet
    None = None
    MaxReexportDepth = 8
    MaxClassDepth = 4
SPECIFICATION Spec
INVARIANTS
    BinaryIsConsistent
    BindsTakeTheirLibrary
    NothingIsLeftOut
    WeakStaysUnbound
    LayoutsDoNotMix
PROPERTIES
    BinaryIsOfItsInputs
