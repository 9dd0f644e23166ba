\* A connected session among those Run gives up after.
CONSTANTS
    e1 = e1
    MaxAttempts = 3
    MaxTries = 1
    MaxSessions = 4
    Events <- OneEvent
    Programs <- OnlyListener
SPECIFICATION Spec
INVARIANTS
    GivesUpOnlyAfterFailures
