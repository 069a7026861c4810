\* Four pairs of nodes, a network that may fail, two rounds of Maintainer.
CONSTANTS
    Dialer = Dialer
    Acceptor = Acceptor
    Pairs <- MCPairs
    OtherPeers = {{}, {"fn", "client"}}
    MaxMsgQueue = 10
    MayBreak = TRUE
    MaxRounds = 2
SPECIFICATION FairSpec
INVARIANTS TypeOK NetworksNeverMix ValidMeansSameVersion TickerHonest
PROPERTIES HandshakeCompletes  OlderDialerLearns
CHECK_DEADLOCK FALSE
