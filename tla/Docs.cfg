\* One query, two widths, five keys or resizes.
CONSTANTS
    Queries <- OneQuery
    Widths <- TwoWidths
    None = None
    Unrenderable <- ThirdPage
    MaxEvents = 5
SPECIFICATION Spec
INVARIANTS
    SettledIsCurrent
    ShownIsDoc
    SpinnerHasCause
PROPERTIES
    Settles
\* The user pauses.
CHECK_DEADLOCK FALSE
