\* Two processes of one thread each; failures and crashes anywhere, tokens rejected at expiry.
CONSTANTS
    p1 = p1
    t1 = t1
    t2 = t2
    t3 = t3
    Free = Free
    Procs <- TwoThreads
    Threads <- TwoThreads
    ProcOf <- OneEach
    MaxToken = 4
    Rejects = TRUE
    Unauthorized = FALSE
    Terse = TRUE
    Faults = TRUE
SPECIFICATION Spec
SYMMETRY ThreadSymmetry
INVARIANTS
    MutexIsPassedOn
    AccessSavedFirst
PROPERTIES
    TokensMoveForward
\* The requests may all have ended.
CHECK_DEADLOCK FALSE
