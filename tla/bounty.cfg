SPECIFICATION Spec
CONSTANTS
    Account = {alice, bob}
    Contract = contract
    stake = stake
    token = token
    Denom = {stake, token}
    TaskId = {0, 2}
    Funds <- MCFunds
    FeePct = {0, 50, 100, 101}
    MultiplierPct = {50, 100}
    Supply <- MCSupply
    MaxUint128 = 1000
    DefaultLimit = 1
    MaxLimit = 2
SYMMETRY Users
INVARIANTS
    TypeOK
    Solvent
    Claimable
    PagesCoverBounties
PROPERTIES
    OnlyClaimsPay
    ClaimIsFinal
