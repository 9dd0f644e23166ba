\* Two requests of one process; tokens are rejected at their expiry.
CONSTANTS
    p1 = p1
    t1 = t1
    t2 = t2
    t3 = t3
    Free = Free
    Procs <- OneProc
    Threads <- TwoThreads
    ProcOf <- AllInOne
    MaxToken = 3
    Rejects = TRUE
    Unauthorized = FALSE
    Terse = FALSE
    Faults = FALSE
SPECIFICATION Spec
INVARIANTS
    OneAtTheEndpoint
\* The requests may all have ended.
CHECK_DEADLOCK FALSE
