SPECIFICATION Spec
CONSTANTS
    eth = eth
    usd = usd
    Index = eth
    Stable = usd
    Accounts = {a1, a2}
    a1 = a1
    a2 = a2
    UNIT = 4
    BPS = 10
    FundingPrecision = 10
    MarginFeeBps = 1
    SwapFeeBps = 1
    MintBurnFeeBps = 1
    LiquidationFeeUsd = 1
    MaxLeverage = 50
    MinProfitTime = 0
    MinProfitBps = 0
    FundingInterval = 1
    FundingRateFactor = 5
    MaxUsdp = 0
    MaxGlobalShort = 0
    BufferAmount <- MCBuffer
    Prices <- MCLongPrices
    Deposits <- MCDeposits
    SizeDeltas = {4}
    CollateralDeltas = {0, 2}
    UsdpAmounts = {4}
    UsdpSettings = {0}
    LeverageSettings = {}
    Donations <- MCDonations
    MaxInflow <- MCLongInflow
    StartTime = 1
    MaxTime = 2
CHECK_DEADLOCK FALSE
INVARIANTS
    ReservedMatches
    GuaranteedMatches
    ReservesCover
    HealthyCanClose
SYMMETRY AccountSymmetry
