SPECIFICATION FairSpec
CONSTANTS
    mainT = mainT
    checkerT = checkerT
    serverT = serverT
    upOk = upOk
    upBad = upBad
    sysStatus = sysStatus
    dlOk = dlOk
    null = null
    free = free
    stale = stale
    Threads <- MCThreads
    Messages <- MCMessages
    InitialLocks <- MCLocks
    NULL = null
    Free = free
    Stale = stale
    Main = mainT
    Checker = checkerT
    Server = serverT
    UpgradeSuccess = upOk
    UpgradeFail = upBad
    Status = sysStatus
    Capacity = 3
    MaxNotices = 6
    MaxConnects = 3
    WaitErrors = FALSE
\* The process may end: a thread cannot be created, or SIGPIPE.
CHECK_DEADLOCK FALSE
INVARIANTS
    TypeOK
    InOrder
    ServerNeverMisled
    SleepsNearCapacity
    ServerSleepsOnlyOnFull
    StatusPerReconnect
PROPERTIES
    StuckForGood
    OutboxSpec
    EverythingSent
    CheckerResumes
