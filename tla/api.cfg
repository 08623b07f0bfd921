SPECIFICATION ApiFairSpec
CONSTANTS
    Account = {admin, worker}
    Admin = admin
    NoOne = NoOne
    NoTitle = NoTitle
    Title = {t, NoTitle}
    Genesis <- MCGenesis
    Payload <- MCPayload
    Call <- MCCall
    IdSpace = 16
    MaxId = 8
    Request = {r1, r2}
    Cli = {s1}
    CallsMayFail = TRUE
    MaxRestarts = 1
INVARIANTS
    ApiTypeOK
    OnePending
    AcceptedRuns
PROPERTIES
    ExecutedOnce
    EveryRequestAnswered
    AcceptedIsExecuted
\* Once every request is answered and every block executed nothing is left to do.
CHECK_DEADLOCK FALSE
