SPECIFICATION Spec
CONSTANTS
    Symbol <- MCSymbol
    KeyOrder <- PlainOrder
    Tx <- PlainTx
    Proposal <- PlainProposal
    FaultyOps = {"SaveMeta"}
    SeparateProcs = FALSE
    MaxHeight = 3
    MaxCrashes = 2
INVARIANTS
    QueryReturnsLatest
    HaltLosesNothing
    RecoveryInv
\* A refused handshake and the bound MaxHeight both really stop the node.
CHECK_DEADLOCK FALSE
