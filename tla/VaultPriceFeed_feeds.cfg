SPECIFICATION Spec
CONSTANTS
    t1 = t1
    w1 = w1
    Tokens = {t1}
    Watchers = {w1}
    MinAuthorizations = 1
    BPS = 10
    DeltaPrecision = 10
    MaxCumulativeDelta = 11
    MaxCumulativeDeltaDiff = 4
    MaxDeviationBps = 4
    PriceDuration = 0
    MaxPriceUpdateDelay = 1
    SpreadIfInactiveBps = 1
    SpreadIfChainErrorBps = 5
    MinBlockInterval = 1
    MaxTimeDeviation = 2
    SampleSpace = 2
    FastPrices = {0, 4, 6}
    Answers = {4, 8}
    Intervals = {2}
    Stamps = {3}
    StartTime = 3
    MaxTime = 5
    ONE = 5
    Settings <- MCSettings
    AmmPrices = {0, 6}
CHECK_DEADLOCK FALSE
INVARIANTS
    QuotesAsAssumed
    StaleOnlyIfLeftOut
    UpdatesNotStuck
PROPERTY NewestPriceWins
