SPECIFICATION Spec
CONSTANTS
    Symbol <- MCSymbol
    KeyOrder <- PlainOrder
    Tx <- PlainTx
    Proposal <- PlainProposal
    FaultyOps = {}
    SeparateProcs = TRUE
    MaxHeight = 2
    MaxCrashes = 1
INVARIANTS
    QueryReturnsLatest
\* A refused handshake and the bound MaxHeight both really stop the node.
CHECK_DEADLOCK FALSE
