SPECIFICATION BackendSpec
CONSTANTS
    Account = {admin, alice}
    Contract = contract
    Admin = admin
    stake = stake
    Denom = {stake}
    TaskId = {0, 7}
    Funds <- MCFunds
    FeePct = {10}
    MultiplierPct = {100}
    Supply <- MCSupply
    MaxUint128 = 10000
    DefaultLimit = 1
    MaxLimit = 2
    Request = {r1}
    NotACoin = notACoin
    NoAnswer = noAnswer
    DeployFee = 10
    WaitTries = 2
    LookupTries = 3
    MaxFailures = 2
    MaxSlow = 1
    MaxScripts = 4
    MaxStarts = 2
\* Everything may be done: all services up, no request left, no run left.
CHECK_DEADLOCK FALSE
INVARIANTS
    ExactlyLocked
    ListingComplete
PROPERTIES
    
    LookupFinds
    DeployConverges
