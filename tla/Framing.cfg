SPECIFICATION FairSpec
CONSTANTS
    n1 = n1
    n2 = n2
    Node <- MCNode
    PayloadLens <- MCPayloadLens
    WrongLens <- MCWrongLens
    MaxPayload = 2
    MaxQueue = 1
    Capacity = 4
    Noise = Noise
    MaxParts = 2
    MaxMessages <- MCMaxMessages
INVARIANTS TypeOK PayloadsInOrder ExactUntilDisturbed
PROPERTIES SentUnlessBothFull
CHECK_DEADLOCK FALSE
