\* Two messages of any content and every combination of forward flags.
CONSTANTS
    m1 = m1
    m2 = m2
    Msgs <- TwoMsgs
    Types <- TwoTypes
    Events <- OnlyCharge
    ThinEvents <- OnlyCharge
    Endpoints <- AccountEndpoints
    Unparsable <- BadURLs
    UseLatest = FALSE
SPECIFICATION Spec
SYMMETRY MsgSymmetry
INVARIANTS
    ForwardedWhereAsked
    AckedOnceThenAnswered
    ToldAfterShown
    EveryPostIsReported
