SPECIFICATION PutSpec
CONSTANTS
    Symbol <- MCSymbol
    KeyOrder <- MCOrder
    Tx <- MCTx
    Proposal <- MCProposal
    FaultyOps = {"SaveMeta"}
    SeparateProcs = FALSE
    MaxHeight = 3
    MaxCrashes = 2
    Request = {r1, r2}
    KeyArg <- PlainKeys
    ValueArg <- MCValues
SYMMETRY Clients
INVARIANTS
    PutTypeOK
    PutIsDurable
\* A refused handshake and the bound MaxHeight both really stop the node.
CHECK_DEADLOCK FALSE
