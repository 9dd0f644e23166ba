\* The Listen of the RPC service.
CONSTANTS
    e1 = e1
    MaxAttempts = 3
    MaxTries = 1
    MaxSessions = 1
    Events <- OneEvent
    Programs <- OnlyRPCListener
SPECIFICATION Spec
INVARIANTS
    ListenIsServed
