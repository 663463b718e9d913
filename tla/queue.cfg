SPECIFICATION Spec
CONSTANTS
    p1 = p1
    p2 = p2
    taker = taker
    m1 = m1
    m2 = m2
    null = null
    free = free
    stale = stale
    Threads <- MCThreads
    Messages <- MCMessages
    InitialLocks <- MCLocks
    NULL = null
    Free = free
    Stale = stale
    Consumer = taker
    Capacity = 2
    WaitErrors = TRUE
    MaxAccepted = 4
SYMMETRY Alike
\* A Pop of an empty queue, or a mutex that starts out locked, stops everyone.
CHECK_DEADLOCK FALSE
INVARIANTS
    QueueTypeOK
    Fifo
    WithinCapacity
    NoForgottenConsumer
