\* Funds and events: swaps, deposit fees, callbacks, refusing tokens, an admin call.
SPECIFICATION Spec
CONSTANTS
    alice = alice
    bob = bob
    keeper = keeper
    weth = weth
    usdc = usdc
    good = good
    evil = evil
    Accounts = {alice}
    Keepers = {keeper}
    Tokens = {weth, usdc}
    WETH = weth
    RefusingTokens = {usdc}
    CallbackTargets = {evil}
    NoTarget = NoTarget
    NoKey = NoKey
    NoRequest = NoRequest
    Paths <- MCIncreasePaths
    Amounts = {0, 2}
    SwapOutputs = {2, 3}
    ExecutionFees = {1}
    BPS = 10
    DepositFee = 3
    InitialConfig <- MCConfigCallbacks
    MinFees = {2}
    DelayValues <- MCOtherDelays
    GasLimits = {0}
    StartValues = {0, 2}
    MaxIndex = 2
    MaxTime = 2
    MaxBlock = 1
    Horizon = 2
    MaxAdminOps = 1
INVARIANTS
    EscrowBacked
    RequestsMatchEvents
PROPERTIES
    ImplementsEscrow
CHECK_DEADLOCK FALSE
