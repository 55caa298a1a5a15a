SPECIFICATION FairSpec
CONSTANTS
    c1 = c1
    c2 = c2
    a = a
    b = b
    k1 = k1
    k2 = k2
    None = None
    Hole = Hole
    NoKey = NoKey
    Padding = Padding
    Junk = Junk
    Path = {x, y}
    Ino = {1, 2, 3}
    AttrName = {user}
    UserName = user
    Holder <- MCHolder
    Client <- MCClient
    Cell <- MCCell
    Modes = {{"r"}, {"r", "w"}}
    WriteBound = 2
    OtherBound = 1
    BLOCKSIZE = 2
    Key = {k1, k2}
    InitialData <- MCInitialData
    InitialAttr <- MCInitialAttr
INVARIANTS
    SameFile
    NoDescriptorLeaks
    SilentMeansComplete
    PaddingTells
PROPERTIES
    PrintsWhatIsThere
    ToolsEnd
