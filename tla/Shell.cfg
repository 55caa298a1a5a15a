SPECIFICATION ShellFairSpec
CONSTANTS
    NUL = NUL
    NL = NL
    Unset = Unset
    None = None
    Lines <- MCLines
    Garbage <- MCGarbage
    Pid = {p1, p2}
    MAX_LINE = 6
    MAX_COMMANDS = 2
    LineBound = 4
INVARIANTS
    HistoryIsLog
    RunsWhatItShows
    ForegroundIsOver
PROPERTY
    EndsWithInput
