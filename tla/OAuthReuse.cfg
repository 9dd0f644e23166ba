\* Two requests of one process.
CONSTANTS
    p1 = p1
    t1 = t1
    t2 = t2
    t3 = t3
    Free = Free
    Procs <- OneProc
    Threads <- TwoThreads
    ProcOf <- AllInOne
    MaxToken = 3
    Rejects = FALSE
    Unauthorized = FALSE
    Terse = FALSE
    Faults = FALSE
SPECIFICATION Spec
PROPERTIES
    OthersReuseResult
\* The requests may all have ended.
CHECK_DEADLOCK FALSE
