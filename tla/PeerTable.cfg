\* Two outbound addresses compete for one permit; a banned host keeps connecting.
CONSTANTS
    o1 = o1
    o2 = o2
    i1 = i1
    i2 = i2
    None = None
    OutPeers = {o1, o2}
    InPeers = {i1}
    Banned = {i1}
    MaxOut = 1
    MinOut = 1
    Hysteresis = 0
    MaxIn = 1
    MaxTries = 3
    MaxMsgQueue = 2
    SemInBound = 2
SPECIFICATION Spec
SYMMETRY Symmetry
INVARIANTS TypeOK PermitsConserved OutboundBound BannedNotServed
PROPERTY DestroyedIsInert
CHECK_DEADLOCK FALSE
