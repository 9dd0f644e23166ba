\* Nothing fails, commands are killed.
CONSTANTS
    Versions <- ThreeVersions
    Cached <- OldReleases
    None <- NoFile
    Garbled <- HalfFile
    Faults = FALSE
    MaxCommands = 2
SPECIFICATION Spec
INVARIANTS
    InstalledIsComplete
\* Two commands, and nobody runs another.
CHECK_DEADLOCK FALSE
