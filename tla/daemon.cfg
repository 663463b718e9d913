SPECIFICATION Spec
CONSTANTS
    MaxMessages = 2
    MaxConnects = 2
    Pieces = 2
    Md5s <- TwoMd5s
    MaxRounds = 3
    Pids = {1, 2}
    Every = 2
    Total = 3
    Wipe = "wipe"
    Updates = {"update"}
    FileSize = 2
    MaxCalls = 3
    Empty = "empty"
    Torn = "torn"
    NoFile = "none"
\* Messages, connections, rounds and calls are bounded.
CHECK_DEADLOCK FALSE
INVARIANTS
    FramesAreMessages
    InOrderOnce
    CheckIsRight
    SlowsForCast
    RunsTheLatest
PROPERTY
    GoesOn
