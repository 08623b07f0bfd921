SPECIFICATION Spec
CONSTANTS
    Message <- MCMessage
    Unknown <- MCUnknown
    MayBeCut = TRUE
INVARIANTS
    SizeFits
    ConsumedIsDecoded
    DecodedIsSent
    DescriptorsAgree
    SignerIsActor
\* The calls are independent of each other: a behaviour is one call and stops.
CHECK_DEADLOCK FALSE
