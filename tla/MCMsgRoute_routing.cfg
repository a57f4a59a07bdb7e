CONSTANTS
    main = main  worker = worker
    view = view  mine = mine  gone = gone  base = base  leaf = leaf
    draw = draw  value = value  each = each  text = text  make = make  odd = odd  mute = mute
    hDraw = hDraw  gDraw = gDraw  hValue = hValue  gValue = gValue
    hEach = hEach  hText = hText  hOdd = hOdd  gLeaf = gLeaf
    plain = plain  other = other
    None = None
    Threads = {main, worker}
    MaxDepth <- DepthOf
    Classes = {view, mine, gone, base, leaf}
    SuperOf <- SuperOfFive
    Above <- AboveOfFive
    Initializer <- InitOfFive
    Shadowed = {base, leaf}
    Sels = {draw, value, each, text, make, odd, mute}
    Imps = {hDraw, gDraw, hValue, gValue, hEach, hText, hOdd, gLeaf}
    Find <- FindInClass
    GuestImps = {gDraw, gValue, gLeaf}
    Definer <- DefinedBy
    Encs = {plain, other}
    Enc <- EncOfImp
    Votes <- VotesFor
    Supported <- AllDeclared
    Manual = {each}
    Format = {text}
    Variadic = {make}
    Sends <- SendsOf
    SuperSels = {draw, odd, mute}
    NeutralClasses = {gone}
    NeutralSels = {mute}
    Marshalled = {hOdd}
SPECIFICATION Spec
CHECK_DEADLOCK FALSE
INVARIANTS
    RightMethod
    SuperClassIsTaken
    
    ReturnsToSender
    SignatureMatches
