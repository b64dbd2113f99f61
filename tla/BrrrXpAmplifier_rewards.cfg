SPECIFICATION Spec
CONSTANTS
    alice = alice
    bob = bob
    brrr = brrr
    Amplifier = Amplifier
    Gov = Gov
    NoAccount = NoAccount
    DepositTokens = {brrr}
    Brrr = brrr
    Accounts = {alice, bob, Amplifier, Gov}
    PRECISION = 2
    ShareUnit = 2
    Holdings <- MCHoldings2
    Amounts = {1}
    Rates = {2}
    Fundings = {2}
    DepositSettings = {}
    MaxFunding = 2
    MaxTime = 2
    Durations <- MCShort
    Multipliers <- MCPlain
    AmplifierPrecision = 2
    FirstSeasonEnd = 3
    MinSeasonEnd = 2
    LockAmounts = {1}
    SeasonEnds = {2}
    TrackerCallers = {bob}
    MaxPositions = 2
CHECK_DEADLOCK FALSE
INVARIANTS
    LockRewardsBacked
