SPECIFICATION Spec
CONSTANTS
    p1 = p1
    p2 = p2
    taker = taker
    m1 = m1
    m2 = m2
    null = null
    free = free
    stale = stale
    Threads <- MCThreads
    Messages <- MCMessages
    InitialLocks <- MCLocks
    NULL = null
    Free = free
    Stale = stale
    Consumer = taker
    Capacity = 2
    WaitErrors = FALSE
    MaxAccepted = 4
CHECK_DEADLOCK FALSE
PROPERTY PopWakesPusher
