\* Blocks of up to three transactions; no sum of values reaches the modulus.
CONSTANTS
    A = A
    B = B
    Keys = {A, B}
    Null = Null
    Txs <- MCTxs
    Modulus = 64
    ReadLimit = 4
    MaxTxs = 3
    MaxBlocks = 3
SPECIFICATION Spec
INVARIANTS TypeOK  HeightNotAhead
PROPERTY LedgerSpec
CHECK_DEADLOCK FALSE
