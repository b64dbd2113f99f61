------------------------------ MODULE OrderBook ------------------------------
(***************************************************************************)
(* OrderBook.sol: swap, increase and decrease orders that wait for a price. *)
(* An order holds its collateral and its execution fee in the contract's    *)
(* one balance per token (ETH is wrapped); its owner may update or cancel   *)
(* it, and anybody may execute it for the fee once the price has come.      *)
(*                                                                          *)
(* An execution also needs the vault, the router's plugins and receivers    *)
(* that take the payment, and a cancellation such a receiver.  Any of them  *)
(* may refuse, which reverts the call; here the call is then not made.      *)
(* PositionManager and OrderExecutor add who may execute.                   *)
(***************************************************************************)
EXTENDS Integers, FiniteSets, Sums

CONSTANTS
    Accounts, Tokens, WETH, IndexToken,
    NoOrder,          \* a deleted entry (account = address(0))
    Paths,            \* by kind: the <<path[0], path[last]>> of an order
    Collaterals,      \* the collateralToken of increase orders
    Amounts, SwapOutputs, ExecutionFees, MinFees,
    Triggers,         \* [price, above] of an order
    Quotes,           \* <<min, max>> prices the vault may report
    PRICE_PRECISION,
    InitialMinFee,
    MaxIndex,         \* bound: orders of an account, by kind
    MaxDonated        \* bound: what is sent outside a call, by token

Kinds == {"swap", "increase", "decrease"}
Id == UNION {{k} \X Accounts \X (0..MaxIndex[k] - 1) : k \in Kinds}
Trigger == [price : Nat, above : BOOLEAN]
Order == [token : Tokens,       \* path[0], purchaseToken
          amount : Nat,         \* amountIn, purchaseTokenAmount
          outToken : Tokens,    \* path[last], collateralToken
          isLong : BOOLEAN, trigger : Trigger, executionFee : Nat]

ASSUME OrderBookAssumption ==
    /\ {WETH, IndexToken} \subseteq Tokens /\ NoOrder \notin Order
    /\ IsFiniteSet(Accounts)                                  \* addresses have 160 bits
    /\ Paths \in [Kinds -> SUBSET (Tokens \X Tokens)]
    /\ Collaterals \subseteq Tokens
    /\ Amounts \subseteq Nat \ {0} /\ SwapOutputs \subseteq Nat
    /\ ExecutionFees \subseteq Nat /\ MinFees \subseteq Nat /\ InitialMinFee \in Nat
    /\ Triggers \subseteq Trigger /\ Quotes \subseteq (Nat \ {0}) \X Nat
    /\ PRICE_PRECISION \in Nat \ {0} /\ MaxIndex \in [Kinds -> Nat]
    /\ MaxDonated \in [Tokens -> Nat]

VARIABLES
    orders,           \* swap-, increase- and decreaseOrders, by kind, account and index
    ordersIndex,      \* swap-, increase- and decreaseOrdersIndex
    held,             \* token balances of the contract
    minExecutionFee,
    quote,            \* what the vault's price feed reports for each token
    status,           \* history: the last event of an order
    donated           \* history: what was sent to the contract outside a call

vars == <<orders, ordersIndex, held, minExecutionFee, quote, status, donated>>

Open(id) == orders[id] # NoOrder
Escrowed(o, t) == (IF t = o.token THEN o.amount ELSE 0) + (IF t = WETH THEN o.executionFee ELSE 0)
EscrowOf(ids, t) == Sum([id \in ids |-> Escrowed(orders[id], t)], ids)

-----------------------------------------------------------------------------
(* Triggers.                                                               *)

MinPrice(t) == quote[t][1]
MaxPrice(t) == quote[t][2]

\* validatePositionOrderPrice
PriceReached(o, maximize) ==
    LET price == IF maximize THEN MaxPrice(IndexToken) ELSE MinPrice(IndexToken)
    IN IF o.trigger.above THEN price > o.trigger.price ELSE price < o.trigger.price

\* validateSwapOrderPriceWithTriggerAboveThreshold
RatioReached(o) ==
    (MaxPrice(o.outToken) * PRICE_PRECISION) \div MinPrice(o.token) > o.trigger.price

-----------------------------------------------------------------------------
Init ==
    /\ orders = [id \in Id |-> NoOrder]
    /\ ordersIndex = [k \in Kinds |-> [a \in Accounts |-> 0]]
    /\ held = [t \in Tokens |-> 0]
    /\ minExecutionFee = InitialMinFee
    /\ quote \in [Tokens -> Quotes]
    /\ status = [id \in Id |-> "none"]
    /\ donated = [t \in Tokens |-> 0]

\* mutant: the index is not moved, so the next order takes the same place
StoreInPlace(k, a, o) ==
    LET id == <<k, a, ordersIndex[k][a]>> IN
    /\ ordersIndex[k][a] < MaxIndex[k]                        \* bound
    /\ orders' = [orders EXCEPT ![id] = o]
    /\ held' = [t \in Tokens |-> held[t] + Escrowed(o, t)]
    /\ status' = [status EXCEPT ![id] = "created"]
    /\ UNCHANGED <<ordersIndex, minExecutionFee, quote, donated>>

\* _createSwapOrder, _createIncreaseOrder, _createDecreaseOrder
Store(k, a, o) ==
    LET id == <<k, a, ordersIndex[k][a]>> IN
    /\ ordersIndex[k][a] < MaxIndex[k]                        \* bound
    /\ ordersIndex' = [ordersIndex EXCEPT ![k][a] = @ + 1]
    /\ orders' = [orders EXCEPT ![id] = o]
    /\ held' = [t \in Tokens |-> held[t] + Escrowed(o, t)]
    /\ status' = [status EXCEPT ![id] = "created"]
    /\ UNCHANGED <<minExecutionFee, quote, donated>>

CreateSwapOrder(a, path, amountIn, trigger, fee) ==
    /\ path[1] # path[2] /\ fee >= minExecutionFee
    /\ Store("swap", a, [token |-> path[1], amount |-> amountIn, outToken |-> path[2],
                         isLong |-> FALSE, trigger |-> trigger, executionFee |-> fee])

\* a path of several tokens is swapped first, and the order keeps what came out
CreateIncreaseOrder(a, path, amountIn, amountOut, collateral, isLong, trigger, fee) ==
    /\ fee >= minExecutionFee
    /\ Store("increase", a,
             [token |-> path[2], amount |-> IF path[1] = path[2] THEN amountIn ELSE amountOut,
              outToken |-> collateral, isLong |-> isLong, trigger |-> trigger,
              executionFee |-> fee])

CreateDecreaseOrder(a, collateral, isLong, trigger, fee) ==
    /\ fee > minExecutionFee
    /\ Store("decrease", a,
             [token |-> collateral, amount |-> 0, outToken |-> collateral,
              isLong |-> isLong, trigger |-> trigger, executionFee |-> fee])

\* updateSwapOrder, updateIncreaseOrder, updateDecreaseOrder: the sizes and minOut
\* that they change too are the vault's business
UpdateOrder(id, trigger) ==
    /\ Open(id)
    /\ orders' = [orders EXCEPT ![id].trigger = trigger]
    /\ UNCHANGED <<ordersIndex, held, minExecutionFee, quote, status, donated>>

\* mutant: the execution fee is not paid out
CloseKeepingFee(ids, event) ==
    /\ \A id \in ids : Open(id)
    /\ \A t \in Tokens : held[t] >= EscrowOf(ids, t)
    /\ orders' = [id \in Id |-> IF id \in ids THEN NoOrder ELSE orders[id]]
    /\ held' = [t \in Tokens |->
                  held[t] - Sum([id \in ids |-> IF t = orders[id].token
                                                 THEN orders[id].amount ELSE 0], ids)]
    /\ status' = [id \in Id |-> IF id \in ids THEN event ELSE status[id]]
    /\ UNCHANGED <<ordersIndex, minExecutionFee, quote, donated>>

\* mutant: the orders are paid out but not deleted
CloseWithoutDelete(ids, event) ==
    /\ \A id \in ids : Open(id)
    /\ \A t \in Tokens : held[t] >= EscrowOf(ids, t)
    /\ held' = [t \in Tokens |-> held[t] - EscrowOf(ids, t)]
    /\ status' = [id \in Id |-> IF id \in ids THEN event ELSE status[id]]
    /\ UNCHANGED <<orders, ordersIndex, minExecutionFee, quote, donated>>

\* the orders are deleted and what they hold is paid out; what the vault pays into
\* the contract on the way is passed on in the same call
Close(ids, event) ==
    /\ \A id \in ids : Open(id)
    /\ \A t \in Tokens : held[t] >= EscrowOf(ids, t)
    /\ orders' = [id \in Id |-> IF id \in ids THEN NoOrder ELSE orders[id]]
    /\ held' = [t \in Tokens |-> held[t] - EscrowOf(ids, t)]
    /\ status' = [id \in Id |-> IF id \in ids THEN event ELSE status[id]]
    /\ UNCHANGED <<ordersIndex, minExecutionFee, quote, donated>>

CancelOrder(id) == Close({id}, "cancelled")

\* one transaction, which reverts if an index is repeated or names no order
CancelMultiple(a, ids) ==
    /\ ids # {} /\ \A id \in ids : id[2] = a
    /\ Close(ids, "cancelled")

\* a swap order without a threshold relies on its minOut
ExecuteSwapOrder(id) ==
    /\ id[1] = "swap" /\ Open(id)
    /\ orders[id].trigger.above => RatioReached(orders[id])
    /\ Close({id}, "executed")

ExecuteIncreaseOrder(id) ==
    /\ id[1] = "increase" /\ Open(id)
    /\ PriceReached(orders[id], orders[id].isLong)
    /\ Close({id}, "executed")

\* mutant: the side of the quote that an increase uses
ExecuteDecreaseOrderOtherSide(id) ==
    /\ id[1] = "decrease" /\ Open(id)
    /\ PriceReached(orders[id], orders[id].isLong)
    /\ Close({id}, "executed")

ExecuteDecreaseOrder(id) ==
    /\ id[1] = "decrease" /\ Open(id)
    /\ PriceReached(orders[id], ~orders[id].isLong)
    /\ Close({id}, "executed")

SetMinExecutionFee(fee) ==
    /\ minExecutionFee' = fee
    /\ UNCHANGED <<orders, ordersIndex, held, quote, status, donated>>

SetQuote(t, q) ==
    /\ quote' = [quote EXCEPT ![t] = q]
    /\ UNCHANGED <<orders, ordersIndex, held, minExecutionFee, status, donated>>

\* a plain transfer of tokens, which no function of the contract notices
Donate(t, amount) ==
    /\ donated[t] + amount <= MaxDonated[t]                   \* bound
    /\ held' = [u \in Tokens |-> held[u] + (IF u = t THEN amount ELSE 0)]
    /\ donated' = [donated EXCEPT ![t] = @ + amount]
    /\ UNCHANGED <<orders, ordersIndex, minExecutionFee, quote, status>>

Create ==
    \E a \in Accounts, trigger \in Triggers, fee \in ExecutionFees :
        \/ \E path \in Paths["swap"], amountIn \in Amounts :
             CreateSwapOrder(a, path, amountIn, trigger, fee)
        \/ \E path \in Paths["increase"], amountIn \in Amounts, amountOut \in SwapOutputs,
              collateral \in Collaterals, isLong \in BOOLEAN :
             CreateIncreaseOrder(a, path, amountIn, amountOut, collateral, isLong, trigger, fee)
        \/ \E path \in Paths["decrease"], isLong \in BOOLEAN :
             CreateDecreaseOrder(a, path[2], isLong, trigger, fee)

Next ==
    \/ Create
    \/ \E id \in Id :
          \/ \E trigger \in Triggers : UpdateOrder(id, trigger)
          \/ CancelOrder(id)
          \/ ExecuteSwapOrder(id)
          \/ ExecuteIncreaseOrder(id)
          \/ ExecuteDecreaseOrder(id)
    \/ \E a \in Accounts, ids \in SUBSET {id \in Id : Open(id)} : CancelMultiple(a, ids)
    \/ \E fee \in MinFees : SetMinExecutionFee(fee)
    \/ \E t \in Tokens, q \in Quotes : SetQuote(t, q)
    \/ \E t \in Tokens : \E amount \in 1..MaxDonated[t] : Donate(t, amount)

Spec == Init /\ [][Next]_vars

-----------------------------------------------------------------------------
(* Properties.                                                             *)

\* The type of every field of the contract.
TypeOK ==
    /\ orders \in [Id -> Order \cup {NoOrder}]
    /\ \A k \in Kinds : ordersIndex[k] \in [Accounts -> 0..MaxIndex[k]]
    /\ held \in [Tokens -> Nat]
    /\ minExecutionFee \in Nat
    /\ quote \in [Tokens -> Quotes]
    /\ status \in [Id -> {"none", "created", "cancelled", "executed"}]
    /\ donated \in [Tokens -> Nat]

\* The balance is what the open orders hold and what was sent to the contract
\* directly, to the last token: nobody's cancellation lacks funds, nothing is left
\* behind and nobody is paid from a donation, although collateral in WETH, execution
\* fees and tokens on their way share it.
FundsExact ==
    \A t \in Tokens : held[t] = EscrowOf({id \in Id : Open(id)}, t) + donated[t]

\* An order is open exactly between its creation and its one cancellation or
\* execution, and no index is used twice.
OrdersMatchEvents ==
    \A id \in Id :
        /\ Open(id) <=> status[id] = "created"
        /\ status[id] = "none" <=> id[3] >= ordersIndex[id[1]][id[2]]

\* The contract keeps the promise of RequestEscrow, as PositionRouter does: however
\* orders are created, changed, executed and cancelled alone or several at once,
\* each is closed at most once and takes out of the pot exactly what it put in.
Promise == INSTANCE RequestEscrow WITH
    Token <- Tokens,
    state <- [id \in Id |-> IF status[id] = "created" THEN "pending" ELSE status[id]],
    deposit <- [id \in Id |->
                  [t \in Tokens |-> IF Open(id) THEN Escrowed(orders[id], t) ELSE 0]],
    pot <- [t \in Tokens |-> held[t] - donated[t]],
    retained <- [t \in Tokens |-> 0]
ImplementsEscrow == Promise!Spec

\* The price the vault will trade at has reached the order's last trigger: the
\* vault opens longs and closes shorts at the maximum, the others at the minimum.
TradePrice(id) ==
    IF orders[id].isLong = (id[1] = "increase") THEN MaxPrice(IndexToken) ELSE MinPrice(IndexToken)
ExecutedAtTrigger ==
    [][\A id \in Id :
         id[1] # "swap" /\ status[id] = "created" /\ status'[id] = "executed" =>
             IF orders[id].trigger.above THEN TradePrice(id) > orders[id].trigger.price
             ELSE TradePrice(id) < orders[id].trigger.price]_vars
=============================================================================
