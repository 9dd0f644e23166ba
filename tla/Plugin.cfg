\* Three versions, every fault, four commands.
CONSTANTS
    Versions <- ThreeVersions
    Cached <- OldReleases
    None <- NoFile
    Garbled <- HalfFile
    Faults = TRUE
    MaxCommands = 4
SPECIFICATION Spec
INVARIANTS
    KeepsABinary
    FailureIsUndone
    ReportsAreTrue
\* Four commands, and nobody runs another.
CHECK_DEADLOCK FALSE
