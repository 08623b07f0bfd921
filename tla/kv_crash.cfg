SPECIFICATION FairSpec
CONSTANTS
    Symbol <- MCSymbol
    KeyOrder <- PlainOrder
    Tx <- PlainTx
    Proposal <- PlainProposal
    FaultyOps = {}
    SeparateProcs = FALSE
    MaxHeight = 3
    MaxCrashes = 3
INVARIANTS
    StoredHashMatchesHeight
PROPERTIES
    ImplementsReplicatedMap
    DecidedIsCommitted
\* A refused handshake and the bound MaxHeight both really stop the node.
CHECK_DEADLOCK FALSE
