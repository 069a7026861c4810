\* One outbound peer is enough for an iterator to dangle.
CONSTANTS
    o1 = o1
    o2 = o2
    i1 = i1
    i2 = i2
    None = None
    OutPeers = {o1}
    InPeers = {}
    Banned = {}
    MaxOut = 1
    MinOut = 1
    Hysteresis = 1
    MaxIn = 1
    MaxTries = 2
    MaxMsgQueue = 1
    SemInBound = 2
SPECIFICATION Spec
INVARIANT NoUseAfterErase
CHECK_DEADLOCK FALSE
