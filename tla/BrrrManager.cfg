SPECIFICATION LiquiditySpec
CONSTANTS
    eth = eth
    usd = usd
    Index = eth
    Stable = usd
    Accounts = {a1}
    a1 = a1
    UNIT = 1000
    BPS = 100
    FundingPrecision = 10
    MarginFeeBps = 10
    SwapFeeBps = 1
    MintBurnFeeBps = 1
    LiquidationFeeUsd = 10
    MaxLeverage = 500
    MinProfitTime = 0
    MinProfitBps = 0
    FundingInterval = 1
    FundingRateFactor = 5
    MaxUsdp = 1200
    MaxGlobalShort = 400
    BufferAmount <- MCBuffer
    Prices <- MCPrices
    Deposits <- MCDeposits
    SizeDeltas = {200, 400}
    CollateralDeltas = {0}
    UsdpAmounts = {200}
    UsdpSettings = {}
    LeverageSettings = {TRUE}
    Donations <- MCDonations
    MaxInflow <- MCInflow
    StartTime = 1
    MaxTime = 2
    shouldToggleIsLeverageEnabled = TRUE
    averagePriceUpdateDelay = 1
    maxAveragePriceChange = 60
    AveragePrices = {1500}
    ReadySettings = {}
    MaxTrades = 2
    Tolerance = 5
    LiquidityAmounts <- MCLiquidity
    BrrrAmounts = {200}
    AverageWeights = {100}
    CooldownSettings = {1}
    AumAdjustments <- MCAdjustments
    UsdpBalances = {0}
    RedeemedUsdp = {100}
    MaxCalls = 4
    inManagerMode = FALSE
CHECK_DEADLOCK FALSE
INVARIANTS
    TypeOK
    DebtCoversSupply
    ReservedBacked
    Solvent
PROPERTIES
    SharesKeepValue
    TradesKeepAum
