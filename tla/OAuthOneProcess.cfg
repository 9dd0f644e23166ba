\* Three requests of one process; the API honours tokens to their expiry.
CONSTANTS
    p1 = p1
    t1 = t1
    t2 = t2
    t3 = t3
    Free = Free
    Procs <- OneProc
    Threads <- ThreeThreads
    ProcOf <- AllInOne
    MaxToken = 4
    Rejects = FALSE
    Unauthorized = FALSE
    Terse = FALSE
    Faults = FALSE
SPECIFICATION FairSpec
INVARIANTS
    SessionSurvives
PROPERTIES
    EveryRequestEnds
\* The requests may all have ended.
CHECK_DEADLOCK FALSE
