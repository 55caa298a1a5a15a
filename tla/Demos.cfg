SPECIFICATION FairSpec
CONSTANTS
    NUL = NUL
    Males = {m1, m2, m3}
    Females = {f1, f2}
    Matchmakers = {k1, k2}
    Inputs = {0, 3, 5}
    Olds = {0, 4}
    PIPE_SIZE = 2
    ParentBuffer = 3
    ChildBuffer = 2
    MAX_PROC = 2
    blocksize = 2
    transfersize = 4
    InputSizes = {2, 3, 5}
    Processes = 2
    Transfer = 3
    NumberSize = 2
    MaxFailures = 2
INVARIANTS
    OutcomeIsRight
    CopyIsFaithful
    BlocksAreShared
    NoOrphans
    TotalsAreOfTheTest
    WorkIsDone
PROPERTIES
    KeepsPromise
    DemosEnd
\* Programs end, and some wait for what cannot come.
CHECK_DEADLOCK FALSE
