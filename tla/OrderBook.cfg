SPECIFICATION Spec
CONSTANTS
    alice = alice
    weth = weth
    usdc = usdc
    Accounts = {alice}
    Tokens = {weth, usdc}
    WETH = weth
    IndexToken = weth
    NoOrder = NoOrder
    Paths <- MCPaths
    Collaterals = {weth}
    Amounts = {2}
    SwapOutputs = {3}
    ExecutionFees = {3}
    MinFees = {3}
    Triggers <- MCTriggers
    Quotes <- MCQuotes
    PRICE_PRECISION = 1
    InitialMinFee = 0
    MaxIndex <- MCMaxIndex
    MaxDonated <- MCMaxDonated
CHECK_DEADLOCK FALSE
INVARIANTS
    FundsExact
    OrdersMatchEvents
PROPERTIES
    ImplementsEscrow
    ExecutedAtTrigger
