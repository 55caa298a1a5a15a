SPECIFICATION FairSpec
CONSTANTS
    NULL = NULL
    NUM_NAME_FILES = 2
    MAX_RESOLVER_THREADS = 2
    FileLength <- TwoAndOne
    MaxFailures = 1
INVARIANTS
    ExactlyOnePlace
    PushNeverRefused
    NullOnlyWhenFinished
    LineMatchesName
    NoWriteAfterClose
    OnlyQueuedNamesLost
PROPERTIES
    ImplementsFifo
    Termination
