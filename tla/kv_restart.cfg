SPECIFICATION Spec
CONSTANTS
    Symbol <- MCSymbol
    KeyOrder <- PlainOrder
    Tx <- PlainTx
    Proposal <- PlainProposal
    FaultyOps = {}
    SeparateProcs = FALSE
    MaxHeight = 2
    MaxCrashes = 1
INVARIANTS
    RestartResumes
\* A refused handshake and the bound MaxHeight both really stop the node.
CHECK_DEADLOCK FALSE
