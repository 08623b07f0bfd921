SPECIFICATION Spec
CONSTANTS
    Symbol <- MCSymbol
    KeyOrder <- ReservedOrder
    Tx <- ReservedTx
    Proposal <- ReservedProposal
    FaultyOps = {"BatchSet", "SaveMeta"}
    SeparateProcs = TRUE
    MaxHeight = 3
    MaxCrashes = 2
INVARIANTS
    TypeOK
    QueryOnlyCommitted

    
\* A refused handshake and the bound MaxHeight both really stop the node.
CHECK_DEADLOCK FALSE
