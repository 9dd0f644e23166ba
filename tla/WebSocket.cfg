\* Three incoming messages, one of them malformed; room for two answers; three connections.
CONSTANTS
    m1 = m1
    m2 = m2
    m3 = m3
    NoMsg = NoMsg
    Msgs <- ThreeMsgs
    Malformed <- LastMalformed
    Capacity = 2
    MaxConn = 3
    OwnerMayStop = TRUE
SPECIFICATION FairSpec
INVARIANTS
    OneReaderOneWriter
    NothingLostOrDoubled
    FailureIsSignalled
    CloseCauseIsCurrent
    PanicOnlyAtShutdown
PROPERTIES
    OutboxSpec
    SessionSpec
    WaitCountsDown
    ResetEnds
    CancelEndsRun
