SPECIFICATION TrackerSpec
CONSTANTS
    alice = alice
    bob = bob
    brrr = brrr
    other = other
    Accounts = {alice, bob}
    NoAccount = NoAccount
    DepositTokens = {brrr, other}
    Brrr = brrr
    PRECISION = 4
    ShareUnit = 6
    Holdings <- MCHoldings
    Amounts = {1}
    Rates = {0, 2}
    Fundings = {3}
    DepositSettings = {TRUE, FALSE}
    MaxFunding = 3
    MaxTime = 3
CHECK_DEADLOCK FALSE
INVARIANTS
    StakesAddUp
    RewardsBacked
    UpdatesNeverRevert
    ProRata
    WithinSchedule
