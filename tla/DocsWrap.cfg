\* The width of the page after a resize: what a comment says, refuted.
CONSTANTS
    Queries <- OneQuery
    Widths <- TwoWidths
    None = None
    Unrenderable = {}
    MaxEvents = 3
SPECIFICATION Spec
INVARIANTS
    WrappedToWindow
\* The user pauses.
CHECK_DEADLOCK FALSE
