SPECIFICATION Spec
CONSTANTS
    alice = alice
    bob = bob
    brrr = brrr
    Amplifier = Amplifier
    Gov = Gov
    NoAccount = NoAccount
    DepositTokens = {brrr}
    Brrr = brrr
    Accounts = {alice, Amplifier, Gov}
    PRECISION = 6
    ShareUnit = 6
    Holdings <- MCHoldings1
    Amounts = {1}
    Rates = {}
    Fundings = {}
    DepositSettings = {}
    MaxFunding = 0
    MaxTime = 4
    Durations <- MCDurations
    Multipliers <- MCMultipliers
    AmplifierPrecision = 6
    FirstSeasonEnd = 2
    MinSeasonEnd = 2
    LockAmounts = {1}
    SeasonEnds = {}
    TrackerCallers = {alice}
    MaxPositions = 3
CHECK_DEADLOCK FALSE
INVARIANTS
    CallableAtAnyTime
