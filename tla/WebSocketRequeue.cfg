\* More answers than the buffer has room for.
CONSTANTS
    m1 = m1
    m2 = m2
    m3 = m3
    NoMsg = NoMsg
    Msgs <- ThreeMsgs
    Malformed = {}
    Capacity = 1
    MaxConn = 2
    OwnerMayStop = FALSE
SPECIFICATION Spec
INVARIANT RequeueCanFinish
