\* Three sessions, two attempts; every program that runs the loop;
\* cancellation at any point.
CONSTANTS
    e1 = e1
    MaxAttempts = 2
    MaxTries = 2
    MaxSessions = 3
    Events <- OneEvent
    Programs <- EveryProgram
SPECIFICATION FairSpec
INVARIANTS
    EveryClientIsHeard
    GivesUpOnlyForLostResets
    ClosedOutChOnlyAtStreamEnd
PROPERTIES
    CancelledRunCountsDown
    CancelEndsRun
    ExpiryIsHandled
