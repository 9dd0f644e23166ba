\* Nothing fails, commands are killed.
CONSTANTS
    Versions <- ThreeVersions
    Cached <- OldReleases
    None <- NoFile
    Garbled <- HalfFile
    Faults = FALSE
    MaxCommands = 4
SPECIFICATION Spec
INVARIANTS
    CleansOthers
\* Four commands, and nobody runs another.
CHECK_DEADLOCK FALSE
