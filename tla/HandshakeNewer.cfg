\* A newer and an older node, a perfect network and no Maintainer.
CONSTANTS
    Dialer = Dialer
    Acceptor = Acceptor
    Pairs <- MCPairs
    OtherPeers = {{}, {"fn", "client"}}
    MaxMsgQueue = 10
    MayBreak = FALSE
    MaxRounds = 0
SPECIFICATION Spec
PROPERTY InformedBeforeDisconnect
CHECK_DEADLOCK FALSE
