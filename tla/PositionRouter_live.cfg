\* Both queues under fair keepers.
SPECIFICATION FairSpec
CONSTANTS
    alice = alice
    bob = bob
    keeper = keeper
    weth = weth
    usdc = usdc
    good = good
    evil = evil
    Accounts = {alice}
    Keepers = {keeper}
    Tokens = {weth, usdc}
    WETH = weth
    RefusingTokens = {}
    CallbackTargets = {evil}
    NoTarget = NoTarget
    NoKey = NoKey
    NoRequest = NoRequest
    Paths <- MCOnePath
    Amounts = {1}
    SwapOutputs = {1}
    ExecutionFees = {1}
    BPS = 10
    DepositFee = 3
    InitialConfig <- MCConfigCallbacks
    MinFees = {}
    DelayValues = {}
    GasLimits = {}
    StartValues = {}
    MaxIndex = 2
    MaxTime = 2
    MaxBlock = 1
    Horizon = 0
    MaxAdminOps = 0
INVARIANTS
    NothingLeftBehind
PROPERTIES
    OnlyFailedCancelStrands
    QueueDrains
    BenignRequestsSettle
CHECK_DEADLOCK FALSE
