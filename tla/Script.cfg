SPECIFICATION Spec
CONSTANTS
    MaxNum = 3
    MaxOps = 5
    MaxStack = 9
    MaxPubkeys = 4
    FlagSets <- MCFlagSets
    Verifies <- MCVerifies
    Literals <- MCLiterals
    Unlocking <- MCUnlocking
    Opcodes <- MCOpcodes
    MaxLen <- MCMaxLen
INVARIANTS TypeOK SigOpsCounted ArithmeticFits
PROPERTIES SkippedHasNoEffect MultisigIsComplete
CHECK_DEADLOCK FALSE
