SPECIFICATION Spec
CONSTANTS
    NULL = NULL
    NUM_NAME_FILES = 2
    MAX_RESOLVER_THREADS = 2
    FileLength <- TwoAndOne
    MaxFailures = 0

INVARIANTS
    AllNamesServiced
