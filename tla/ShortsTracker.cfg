SPECIFICATION TradingSpec
CONSTANTS
    eth = eth
    usd = usd
    Index = eth
    Stable = usd
    Accounts = {a1, a2}
    a1 = a1
    a2 = a2
    UNIT = 1000
    BPS = 10
    FundingPrecision = 10
    MarginFeeBps = 1
    SwapFeeBps = 1
    MintBurnFeeBps = 1
    LiquidationFeeUsd = 250
    MaxLeverage = 50
    MinProfitTime = 0
    MinProfitBps = 4
    FundingInterval = 1
    FundingRateFactor = 5
    MaxUsdp = 1
    MaxGlobalShort = 0
    BufferAmount <- MCBuffer
    Prices <- MCPrices
    Deposits <- MCDeposits
    SizeDeltas = {0, 1000}
    CollateralDeltas = {0}
    UsdpAmounts = {}
    UsdpSettings = {}
    LeverageSettings = {}
    Donations <- MCDonations
    MaxInflow <- MCInflow
    StartTime = 1
    MaxTime = 1
    shouldToggleIsLeverageEnabled = TRUE
    averagePriceUpdateDelay = 1
    maxAveragePriceChange = 6
    AveragePrices = {1500}
    ReadySettings = {TRUE, FALSE}
    MaxTrades = 5
    Tolerance = 10
CHECK_DEADLOCK FALSE
INVARIANTS
    ShortSizesMatch
    TrackedShortsMatch
    TrackerNeverBlocks
SYMMETRY AccountSymmetry
