SPECIFICATION Spec
CONSTANTS
    Account = {alice, bob}
    NoOne = NoOne
    NoTitle = NoTitle
    Title = {t, NoTitle}
    Genesis <- MCGenesis
    Payload <- MCPayload
    IdSpace = 16
    MaxId = 5
    IntSpace = 16
INVARIANTS
    TypeOK
    IdsFresh
    AssigneeMatchesStatus
    ExportRoundTrip
    PagesCoverTasks
PROPERTIES
    OnlyForward
    Authorized
