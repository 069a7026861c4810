\* One block is enough.
CONSTANTS
    A = A
    B = B
    Keys = {A, B}
    Null = Null
    Txs <- MCTxs
    Modulus = 64
    ReadLimit = 4
    MaxTxs = 3
    MaxBlocks = 3
SPECIFICATION Spec
INVARIANT AccountListsUnspent
CHECK_DEADLOCK FALSE
