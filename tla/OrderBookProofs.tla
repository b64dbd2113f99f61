--------------------------- MODULE OrderBookProofs ---------------------------
(* Theorems about OrderBook: its orders, their triggers and their funds.    *)
EXTENDS OrderBook, SumTheorems

\* The type of the orders.
OrdersType ==
    /\ orders \in [Id -> Order \cup {NoOrder}]
    /\ ordersIndex \in [Kinds -> [Accounts -> Nat]]
    /\ status \in [Id -> {"none", "created", "cancelled", "executed"}]
    /\ donated \in [Tokens -> Nat]

IInv == OrdersType /\ OrdersMatchEvents

\* An id is a kind, an account and an index below the bound.
LEMMA IdParts ==
    ASSUME NEW id \in Id
    PROVE  /\ id[1] \in Kinds /\ id[2] \in Accounts /\ id[3] \in Nat
           /\ id = <<id[1], id[2], id[3]>>
BY OrderBookAssumption DEF OrderBookAssumption, Id

LEMMA IdMade ==
    ASSUME NEW k \in Kinds, NEW a \in Accounts, NEW i \in Nat, i < MaxIndex[k]
    PROVE  <<k, a, i>> \in Id
<1>1. MaxIndex[k] \in Nat
  BY OrderBookAssumption DEF OrderBookAssumption
<1>2. i \in 0..MaxIndex[k] - 1
  BY <1>1
<1> QED  BY <1>2 DEF Id

\* What a step does to the orders: it stores one at the next index, changes the
\* trigger of an open one, closes some, or leaves them alone; tokens may be sent to
\* the contract without any.
Stores(k, a, o) ==
    LET id == <<k, a, ordersIndex[k][a]>> IN
    /\ id \in Id
    /\ ordersIndex' = [ordersIndex EXCEPT ![k][a] = @ + 1]
    /\ orders' = [orders EXCEPT ![id] = o]
    /\ status' = [status EXCEPT ![id] = "created"]
    /\ held' = [t \in Tokens |-> held[t] + Escrowed(o, t)]
    /\ UNCHANGED donated
Updates(id, trigger) ==
    /\ Open(id)
    /\ orders' = [orders EXCEPT ![id].trigger = trigger]
    /\ UNCHANGED <<ordersIndex, status, held, donated>>
Closes(ids, event) ==
    /\ ids # {} /\ \A id \in ids : Open(id)
    /\ orders' = [id \in Id |-> IF id \in ids THEN NoOrder ELSE orders[id]]
    /\ status' = [id \in Id |-> IF id \in ids THEN event ELSE status[id]]
    /\ held' = [t \in Tokens |-> held[t] - EscrowOf(ids, t)]
    /\ UNCHANGED <<ordersIndex, donated>>
Donates(t, amount) ==
    /\ held' = [u \in Tokens |-> held[u] + (IF u = t THEN amount ELSE 0)]
    /\ donated' = [donated EXCEPT ![t] = @ + amount]
    /\ UNCHANGED <<orders, ordersIndex, status>>

LEMMA StoreStores ==
    ASSUME OrdersType, NEW k \in Kinds, NEW a \in Accounts, NEW o \in Order, Store(k, a, o)
    PROVE  Stores(k, a, o)
<1>1. ordersIndex[k][a] \in Nat
  BY DEF OrdersType
<1>2. <<k, a, ordersIndex[k][a]>> \in Id
  BY <1>1, IdMade DEF Store
<1> QED  BY <1>2 DEF Store, Stores

LEMMA CreateStores ==
    ASSUME OrdersType, Create
    PROVE  \E k \in Kinds, a \in Accounts, o \in Order : Stores(k, a, o)
<1>0. /\ Amounts \subseteq Nat /\ SwapOutputs \subseteq Nat /\ ExecutionFees \subseteq Nat
      /\ Triggers \subseteq Trigger /\ Collaterals \subseteq Tokens
      /\ \A k \in Kinds : Paths[k] \subseteq Tokens \X Tokens
  BY OrderBookAssumption DEF OrderBookAssumption
<1>1. PICK a \in Accounts, trigger \in Triggers, fee \in ExecutionFees :
        \/ \E path \in Paths["swap"], amountIn \in Amounts :
             CreateSwapOrder(a, path, amountIn, trigger, fee)
        \/ \E path \in Paths["increase"], amountIn \in Amounts, amountOut \in SwapOutputs,
              collateral \in Collaterals, isLong \in BOOLEAN :
             CreateIncreaseOrder(a, path, amountIn, amountOut, collateral, isLong, trigger, fee)
        \/ \E path \in Paths["decrease"], isLong \in BOOLEAN :
             CreateDecreaseOrder(a, path[2], isLong, trigger, fee)
  BY DEF Create
<1>2. CASE \E path \in Paths["swap"], amountIn \in Amounts :
             CreateSwapOrder(a, path, amountIn, trigger, fee)
  <2>1. PICK path \in Paths["swap"], amountIn \in Amounts :
          CreateSwapOrder(a, path, amountIn, trigger, fee)
    BY <1>2
  <2> DEFINE o == [token |-> path[1], amount |-> amountIn, outToken |-> path[2],
                   isLong |-> FALSE, trigger |-> trigger, executionFee |-> fee]
  <2>2. o \in Order
    BY <1>0 DEF Order, Kinds
  <2>3. Store("swap", a, o)
    BY <2>1 DEF CreateSwapOrder
  <2> QED  BY <2>2, <2>3, StoreStores DEF Kinds
<1>3. CASE \E path \in Paths["increase"], amountIn \in Amounts, amountOut \in SwapOutputs,
              collateral \in Collaterals, isLong \in BOOLEAN :
             CreateIncreaseOrder(a, path, amountIn, amountOut, collateral, isLong, trigger, fee)
  <2>1. PICK path \in Paths["increase"], amountIn \in Amounts, amountOut \in SwapOutputs,
             collateral \in Collaterals, isLong \in BOOLEAN :
          CreateIncreaseOrder(a, path, amountIn, amountOut, collateral, isLong, trigger, fee)
    BY <1>3
  <2> DEFINE o == [token |-> path[2],
                   amount |-> IF path[1] = path[2] THEN amountIn ELSE amountOut,
                   outToken |-> collateral, isLong |-> isLong, trigger |-> trigger,
                   executionFee |-> fee]
  <2>2. o \in Order
    BY <1>0 DEF Order, Kinds
  <2>3. Store("increase", a, o)
    BY <2>1 DEF CreateIncreaseOrder
  <2> QED  BY <2>2, <2>3, StoreStores DEF Kinds
<1>4. CASE \E path \in Paths["decrease"], isLong \in BOOLEAN :
             CreateDecreaseOrder(a, path[2], isLong, trigger, fee)
  <2>1. PICK path \in Paths["decrease"], isLong \in BOOLEAN :
          CreateDecreaseOrder(a, path[2], isLong, trigger, fee)
    BY <1>4
  <2> DEFINE o == [token |-> path[2], amount |-> 0, outToken |-> path[2],
                   isLong |-> isLong, trigger |-> trigger, executionFee |-> fee]
  <2>2. o \in Order
    BY <1>0 DEF Order, Kinds
  <2>3. Store("decrease", a, o)
    BY <2>1 DEF CreateDecreaseOrder
  <2> QED  BY <2>2, <2>3, StoreStores DEF Kinds
<1> QED  BY <1>1, <1>2, <1>3, <1>4

Events == {"cancelled", "executed"}

LEMMA StepCases ==
    ASSUME OrdersType, [Next]_vars
    PROVE  \/ \E k \in Kinds, a \in Accounts, o \in Order : Stores(k, a, o)
           \/ \E id \in Id, trigger \in Triggers : Updates(id, trigger)
           \/ \E ids \in SUBSET Id, event \in Events : Closes(ids, event)
           \/ \E t \in Tokens, amount \in Nat : Donates(t, amount)
           \/ UNCHANGED <<orders, ordersIndex, status, held, donated>>
<1>1. CASE Create
  BY <1>1, CreateStores
<1>2. CASE \E id \in Id, trigger \in Triggers : UpdateOrder(id, trigger)
  BY <1>2 DEF UpdateOrder, Updates
<1>3. ASSUME NEW id \in Id,
             CancelOrder(id) \/ ExecuteSwapOrder(id) \/ ExecuteIncreaseOrder(id)
               \/ ExecuteDecreaseOrder(id)
      PROVE  \E ids \in SUBSET Id, event \in Events : Closes(ids, event)
  <2>1. \E event \in Events : Close({id}, event)
    BY <1>3 DEF CancelOrder, ExecuteSwapOrder, ExecuteIncreaseOrder, ExecuteDecreaseOrder, Events
  <2> QED  BY <2>1 DEF Close, Closes
<1>4. ASSUME NEW a \in Accounts, NEW ids \in SUBSET {id \in Id : Open(id)},
             CancelMultiple(a, ids)
      PROVE  \E S \in SUBSET Id, event \in Events : Closes(S, event)
  BY <1>4 DEF CancelMultiple, Close, Closes, Events
<1>5. CASE \/ \E fee \in MinFees : SetMinExecutionFee(fee)
           \/ \E t \in Tokens, q \in Quotes : SetQuote(t, q)
           \/ UNCHANGED vars
  BY <1>5 DEF SetMinExecutionFee, SetQuote, vars
<1>6. CASE \E t \in Tokens : \E amount \in 1..MaxDonated[t] : Donate(t, amount)
  <2>1. PICK t \in Tokens, amount \in Nat : Donate(t, amount)
    BY <1>6, OrderBookAssumption
  <2> QED BY <2>1 DEF Donate, Donates
<1> QED  BY <1>1, <1>2, <1>3, <1>4, <1>5, <1>6 DEF Next

-----------------------------------------------------------------------------
LEMMA InitHolds == Init => IInv
<1> SUFFICES ASSUME Init PROVE IInv
  OBVIOUS
<1>1. OrdersType
  BY DEF Init, OrdersType
<1>2. \A id \in Id : id[1] \in Kinds /\ id[2] \in Accounts /\ id[3] \in Nat
  BY IdParts
<1>3. OrdersMatchEvents
  BY <1>2 DEF Init, OrdersMatchEvents, Open
<1> QED  BY <1>1, <1>3 DEF IInv

LEMMA StoreKeeps ==
    ASSUME IInv, NEW k \in Kinds, NEW a \in Accounts, NEW o \in Order, Stores(k, a, o)
    PROVE  IInv'
<1> DEFINE new == <<k, a, ordersIndex[k][a]>>
<1>0. ordersIndex[k][a] \in Nat /\ NoOrder # o
  BY OrderBookAssumption DEF IInv, OrdersType, OrderBookAssumption
<1>1. OrdersType'
  BY <1>0 DEF IInv, OrdersType, Stores
<1>2. ASSUME NEW id \in Id
      PROVE  /\ Open(id)' <=> status'[id] = "created"
             /\ status'[id] = "none" <=> id[3] >= ordersIndex'[id[1]][id[2]]
  <2>1. /\ id[1] \in Kinds /\ id[2] \in Accounts /\ id[3] \in Nat
        /\ id = <<id[1], id[2], id[3]>>
    BY <1>2, IdParts
  <2>2. /\ Open(id) <=> status[id] = "created"
        /\ status[id] = "none" <=> id[3] >= ordersIndex[id[1]][id[2]]
    BY DEF IInv, OrdersMatchEvents
  <2>3. CASE id = new
    <3>1. id[1] = k /\ id[2] = a /\ id[3] = ordersIndex[k][a]
      BY <2>3
    <3>2. ordersIndex'[k][a] = ordersIndex[k][a] + 1
      BY DEF Stores, IInv, OrdersType
    <3>3. orders'[id] = o /\ status'[id] = "created"
      BY <2>3 DEF Stores, IInv, OrdersType
    <3> QED  BY <3>1, <3>2, <3>3, <1>0 DEF Open
  <2>4. CASE id # new
    <3>1. orders'[id] = orders[id] /\ status'[id] = status[id]
      BY <2>4 DEF Stores, IInv, OrdersType
    <3>2. CASE id[1] = k /\ id[2] = a
      <4>1. id[3] # ordersIndex[k][a]
        BY <2>1, <2>4, <3>2
      <4>2. ordersIndex'[k][a] = ordersIndex[k][a] + 1
        BY DEF Stores, IInv, OrdersType
      <4> QED  BY <3>1, <3>2, <4>1, <4>2, <2>1, <2>2, <1>0 DEF Open
    <3>3. CASE ~(id[1] = k /\ id[2] = a)
      <4>1. ordersIndex'[id[1]][id[2]] = ordersIndex[id[1]][id[2]]
        BY <2>1, <3>3 DEF Stores, IInv, OrdersType
      <4> QED  BY <3>1, <4>1, <2>2 DEF Open
    <3> QED  BY <3>2, <3>3
  <2> QED  BY <2>3, <2>4
<1>3. OrdersMatchEvents'
  BY <1>2 DEF OrdersMatchEvents
<1> QED  BY <1>1, <1>3 DEF IInv

LEMMA UpdateKeeps ==
    ASSUME IInv, NEW id \in Id, NEW trigger \in Triggers, Updates(id, trigger)
    PROVE  IInv'
<1>1. orders[id] \in Order /\ trigger \in Trigger
  BY OrderBookAssumption DEF IInv, OrdersType, Updates, Open, OrderBookAssumption
<1>2. [orders[id] EXCEPT !.trigger = trigger] \in Order
  BY <1>1 DEF Order
<1>3. /\ orders' = [orders EXCEPT ![id] = [orders[id] EXCEPT !.trigger = trigger]]
      /\ status' = status /\ ordersIndex' = ordersIndex /\ donated' = donated
  BY DEF Updates, IInv, OrdersType
<1>4. OrdersType'
  BY <1>2, <1>3 DEF IInv, OrdersType
<1>5. \A x \in Id : Open(x)' <=> Open(x)
  BY <1>2, <1>3, OrderBookAssumption DEF Open, Updates, IInv, OrdersType, OrderBookAssumption
<1>6. OrdersMatchEvents'
  BY <1>3, <1>5 DEF IInv, OrdersMatchEvents
<1> QED  BY <1>4, <1>6 DEF IInv

LEMMA CloseKeeps ==
    ASSUME IInv, NEW ids \in SUBSET Id, NEW event \in Events, Closes(ids, event)
    PROVE  IInv'
<1>1. OrdersType'
  BY DEF IInv, OrdersType, Closes, Events
<1>2. ASSUME NEW id \in Id
      PROVE  /\ Open(id)' <=> status'[id] = "created"
             /\ status'[id] = "none" <=> id[3] >= ordersIndex'[id[1]][id[2]]
  <2>1. /\ Open(id) <=> status[id] = "created"
        /\ status[id] = "none" <=> id[3] >= ordersIndex[id[1]][id[2]]
    BY DEF IInv, OrdersMatchEvents
  <2>2. /\ orders'[id] = IF id \in ids THEN NoOrder ELSE orders[id]
        /\ status'[id] = IF id \in ids THEN event ELSE status[id]
        /\ ordersIndex' = ordersIndex
    BY DEF Closes
  <2>3. id \in ids => Open(id)
    BY DEF Closes
  <2> QED  BY <2>1, <2>2, <2>3 DEF Open, Events
<1>3. OrdersMatchEvents'
  BY <1>2 DEF OrdersMatchEvents
<1> QED  BY <1>1, <1>3 DEF IInv

LEMMA StepKeeps == IInv /\ [Next]_vars => IInv'
<1> SUFFICES ASSUME IInv, [Next]_vars PROVE IInv'
  OBVIOUS
<1>1. CASE UNCHANGED <<orders, ordersIndex, status, held, donated>>
  BY <1>1 DEF IInv, OrdersType, OrdersMatchEvents, Open
<1>2. OrdersType
  BY DEF IInv
<1>3. ASSUME NEW t \in Tokens, NEW amount \in Nat, Donates(t, amount)
      PROVE  IInv'
  BY <1>3 DEF IInv, OrdersType, OrdersMatchEvents, Open, Donates
<1> QED  BY <1>1, <1>2, <1>3, StepCases, StoreKeeps, UpdateKeeps, CloseKeeps

LEMMA Invariant == Spec => []IInv
BY InitHolds, StepKeeps, PTL DEF Spec

\* Every order is open exactly between its creation and its one settlement and no
\* index is used twice: createX, cancelX, cancelMultiple and executeX together.
THEOREM EventsCorrect == Spec => []OrdersMatchEvents
<1>1. IInv => OrdersMatchEvents
  BY DEF IInv
<1> QED  BY <1>1, Invariant, PTL

-----------------------------------------------------------------------------
LEMMA StepAtTrigger ==
    ASSUME IInv, [Next]_vars, NEW id \in Id,
           id[1] # "swap", status[id] = "created", status'[id] = "executed"
    PROVE  IF orders[id].trigger.above THEN TradePrice(id) > orders[id].trigger.price
           ELSE TradePrice(id) < orders[id].trigger.price
<1>0. OrdersType
  BY DEF IInv
<1>1. orders[id] \in Order
  BY OrderBookAssumption DEF IInv, OrdersType, OrdersMatchEvents, Open, OrderBookAssumption
<1>2. \/ ExecuteIncreaseOrder(id)
      \/ ExecuteDecreaseOrder(id)
  <2>1. CASE Create
    BY <1>0, <2>1, CreateStores DEF Stores, OrdersType
  <2>2. ASSUME NEW x \in Id,
               ExecuteSwapOrder(x) \/ ExecuteIncreaseOrder(x) \/ ExecuteDecreaseOrder(x)
        PROVE  x = id
    BY <2>2 DEF ExecuteSwapOrder, ExecuteIncreaseOrder, ExecuteDecreaseOrder, Close
  <2>3. ASSUME NEW x \in Id, NEW trigger \in Triggers, UpdateOrder(x, trigger)
        PROVE  FALSE
    BY <2>3 DEF UpdateOrder
  <2>4. ASSUME NEW x \in Id, CancelOrder(x)
        PROVE  FALSE
    BY <2>4 DEF CancelOrder, Close
  <2>5. ASSUME NEW a \in Accounts, NEW ids, CancelMultiple(a, ids)
        PROVE  FALSE
    BY <2>5 DEF CancelMultiple, Close
  <2>6. CASE \/ \E fee \in MinFees : SetMinExecutionFee(fee)
             \/ \E t \in Tokens, q \in Quotes : SetQuote(t, q)
             \/ UNCHANGED vars
    BY <2>6 DEF SetMinExecutionFee, SetQuote, vars
  <2>8. CASE \E t \in Tokens : \E amount \in 1..MaxDonated[t] : Donate(t, amount)
    BY <2>8 DEF Donate
  <2>7. ~ExecuteSwapOrder(id)
    BY DEF ExecuteSwapOrder
  <2> QED  BY <2>1, <2>2, <2>3, <2>4, <2>5, <2>6, <2>7, <2>8 DEF Next
<1>3. orders[id].isLong \in BOOLEAN /\ orders[id].trigger.above \in BOOLEAN
  BY <1>1 DEF Order, Trigger
<1>4. CASE ExecuteIncreaseOrder(id)
  BY <1>3, <1>4 DEF ExecuteIncreaseOrder, PriceReached, TradePrice
<1>5. CASE ExecuteDecreaseOrder(id)
  BY <1>3, <1>5 DEF ExecuteDecreaseOrder, PriceReached, TradePrice
<1> QED  BY <1>2, <1>4, <1>5

\* An increase or decrease order is executed only when the side of the quote the
\* vault trades at has passed the order's latest trigger.
THEOREM TriggersRespected == Spec => ExecutedAtTrigger
<1>1. IInv /\ [Next]_vars =>
        [\A id \in Id :
           id[1] # "swap" /\ status[id] = "created" /\ status'[id] = "executed" =>
             IF orders[id].trigger.above THEN TradePrice(id) > orders[id].trigger.price
             ELSE TradePrice(id) < orders[id].trigger.price]_vars
  BY StepAtTrigger
<1> QED  BY <1>1, Invariant, PTL DEF Spec, ExecutedAtTrigger
-----------------------------------------------------------------------------
(* The funds.  With the types and the events of the orders, that the balance *)
(* is exactly what the open orders hold is inductive as it stands.          *)

OpenIds == {id \in Id : Open(id)}
FundsInv == IInv /\ FundsExact

\* There are finitely many orders.
LEMMA IdFinite == IsFiniteSet(Id)
<1>1. ASSUME NEW k \in Kinds
      PROVE  IsFiniteSet({k} \X Accounts \X (0..MaxIndex[k] - 1))
  <2>1. IsFiniteSet({k}) /\ IsFiniteSet(Accounts)
    BY FS_Singleton, OrderBookAssumption
  <2>2. 0 \in Int /\ MaxIndex[k] - 1 \in Int
    BY OrderBookAssumption
  <2>3. IsFiniteSet(0..MaxIndex[k] - 1)
    BY <2>2, FS_Interval
  <2> QED BY <2>1, <2>3, TriplesFinite
<1> DEFINE Of(k) == {k} \X Accounts \X (0..MaxIndex[k] - 1)
<1>2. Id = (Of("swap") \cup Of("increase")) \cup Of("decrease")
  <2> HIDE DEF Of
  <2>1. Id = UNION {Of(k) : k \in Kinds}
    BY DEF Id, Of
  <2> QED BY <2>1 DEF Kinds
<1>3. IsFiniteSet(Of("swap")) /\ IsFiniteSet(Of("increase")) /\ IsFiniteSet(Of("decrease"))
  BY <1>1 DEF Kinds
<1> HIDE DEF Of
<1> QED BY <1>2, <1>3, FS_Union

\* What an order holds of a token.
LEMMA EscrowedNat ==
    ASSUME NEW o \in Order, NEW t \in Tokens
    PROVE  Escrowed(o, t) \in Nat
BY DEF Escrowed, Order

\* The orders of a set hold a sum.
LEMMA EscrowOfInt ==
    ASSUME OrdersType, NEW ids \in SUBSET OpenIds, NEW t \in Tokens
    PROVE  /\ IsFiniteSet(ids) /\ EscrowOf(ids, t) \in Int
           /\ \A id \in ids : orders[id] \in Order
<1>1. \A id \in ids : orders[id] \in Order
  BY DEF OrdersType, OpenIds, Open
<1>2. IsFiniteSet(ids)
  BY IdFinite, FS_Subset DEF OpenIds
<1> DEFINE f == [id \in ids |-> Escrowed(orders[id], t)]
<1>3. \A id \in ids : f[id] \in Int
  BY <1>1, EscrowedNat
<1> HIDE DEF f
<1>4. Sum(f, ids) \in Int
  BY <1>2, <1>3, SumInt
<1> QED BY <1>1, <1>2, <1>4 DEF f, EscrowOf

\* A new order brings what it holds.
LEMMA StoreFunds ==
    ASSUME FundsInv, IInv', NEW k \in Kinds, NEW a \in Accounts, NEW o \in Order,
           Stores(k, a, o)
    PROVE  FundsExact'
<1> SUFFICES ASSUME NEW t \in Tokens
             PROVE  held'[t] = EscrowOf(OpenIds, t)' + donated'[t]
  BY DEF FundsExact, OpenIds
<1> DEFINE new == <<k, a, ordersIndex[k][a]>>
           f == [id \in OpenIds |-> Escrowed(orders[id], t)]
           g == [id \in OpenIds \cup {new} |-> Escrowed(orders'[id], t)]
<1>1. /\ new \in Id /\ orders' = [orders EXCEPT ![new] = o] /\ DOMAIN orders = Id
      /\ held'[t] = held[t] + Escrowed(o, t) /\ o # NoOrder /\ donated' = donated
  BY OrderBookAssumption DEF Stores, FundsInv, IInv, OrdersType
<1>2. new \notin OpenIds
  <2>1. ordersIndex[k][a] \in Nat
    BY DEF FundsInv, IInv, OrdersType
  <2>2. status[new] = "none" <=> new[3] >= ordersIndex[new[1]][new[2]]
    BY <1>1 DEF FundsInv, IInv, OrdersMatchEvents
  <2>3. status[new] = "none"
    BY <2>1, <2>2
  <2> QED BY <1>1, <2>3 DEF FundsInv, IInv, OrdersMatchEvents, OpenIds
<1>3. OpenIds' = OpenIds \cup {new}
  BY <1>1 DEF OpenIds, Open
<1>4. /\ IsFiniteSet(OpenIds) /\ \A id \in OpenIds : orders[id] \in Order
      /\ held[t] = EscrowOf(OpenIds, t) + donated[t] /\ donated[t] \in Nat
  BY EscrowOfInt DEF FundsInv, IInv, OrdersType, FundsExact, OpenIds
<1>5. Escrowed(o, t) \in Int /\ \A id \in OpenIds : Escrowed(orders[id], t) \in Int
  BY <1>4, EscrowedNat
<1> HIDE DEF new
<1>6. /\ \A id \in OpenIds : f[id] \in Int /\ g[id] = f[id]
      /\ g[new] = Escrowed(o, t)
  BY <1>1, <1>2, <1>5 DEF OpenIds
<1>7. EscrowOf(OpenIds, t) = Sum(f, OpenIds)
  BY DEF EscrowOf
<1>8. EscrowOf(OpenIds, t)' = Sum(g, OpenIds \cup {new})
  BY <1>3 DEF EscrowOf
<1> HIDE DEF f, g
<1>9. Sum(g, OpenIds) = Sum(f, OpenIds) /\ Sum(f, OpenIds) \in Int
  BY <1>4, <1>6, SumSame, SumInt
<1>10. Sum(g, OpenIds \cup {new}) = Sum(g, OpenIds) + g[new]
  <2>1. \A id \in OpenIds : g[id] \in Int
    BY <1>6
  <2>2. g[new] \in Int
    BY <1>5, <1>6
  <2> QED BY <1>2, <1>4, <2>1, <2>2, SumAdd
<1>11. EscrowOf(OpenIds, t)' = EscrowOf(OpenIds, t) + Escrowed(o, t)
  BY <1>6, <1>7, <1>8, <1>9, <1>10
<1>12. EscrowOf(OpenIds, t) \in Int
  BY <1>7, <1>9
<1>13. held'[t] = held[t] + Escrowed(o, t) /\ donated'[t] = donated[t]
  BY <1>1
<1> QED BY <1>4, <1>5, <1>11, <1>12, <1>13

\* A changed trigger holds no other amount.
LEMMA UpdateFunds ==
    ASSUME FundsInv, IInv', NEW id \in Id, NEW trigger \in Triggers, Updates(id, trigger)
    PROVE  FundsExact'
<1> SUFFICES ASSUME NEW t \in Tokens
             PROVE  held'[t] = EscrowOf(OpenIds, t)' + donated'[t]
  BY DEF FundsExact, OpenIds
<1> DEFINE f == [x \in OpenIds |-> Escrowed(orders[x], t)]
           g == [x \in OpenIds |-> Escrowed(orders'[x], t)]
<1>1. /\ orders[id] \in Order
      /\ orders' = [orders EXCEPT ![id] = [orders[id] EXCEPT !.trigger = trigger]]
      /\ held' = held /\ donated' = donated
  BY DEF Updates, FundsInv, IInv, OrdersType, Open
<1>2. orders'[id] \in Order /\ NoOrder \notin Order
  <2>1. Open(id)
    BY DEF Updates
  <2>2. trigger \in Trigger
    BY OrderBookAssumption
  <2>3. [orders[id] EXCEPT !.trigger = trigger] \in Order
    BY <1>1, <2>2 DEF Order
  <2> QED BY <1>1, <2>3, OrderBookAssumption DEF FundsInv, IInv, OrdersType
<1>3. OpenIds' = OpenIds
  BY <1>1, <1>2 DEF OpenIds, Open, Updates, FundsInv, IInv, OrdersType
<1>4. \A x \in OpenIds : Escrowed(orders'[x], t) = Escrowed(orders[x], t)
  <2> TAKE x \in OpenIds
  <2>1. orders'[id].token = orders[id].token /\ orders'[id].amount = orders[id].amount
        /\ orders'[id].executionFee = orders[id].executionFee
    BY <1>1 DEF Order, FundsInv, IInv, OrdersType
  <2>2. x # id => orders'[x] = orders[x]
    BY <1>1 DEF OpenIds, FundsInv, IInv, OrdersType
  <2> QED BY <2>1, <2>2 DEF Escrowed
<1>5. /\ IsFiniteSet(OpenIds) /\ \A x \in OpenIds : orders[x] \in Order
      /\ held[t] = EscrowOf(OpenIds, t) + donated[t] /\ donated[t] \in Nat
  BY EscrowOfInt DEF FundsInv, IInv, OrdersType, FundsExact, OpenIds
<1>6. \A x \in OpenIds : f[x] \in Int /\ g[x] = f[x]
  BY <1>4, <1>5, EscrowedNat
<1>7. EscrowOf(OpenIds, t) = Sum(f, OpenIds) /\ EscrowOf(OpenIds, t)' = Sum(g, OpenIds)
  BY <1>3 DEF EscrowOf
<1> HIDE DEF f, g
<1> QED BY <1>1, <1>5, <1>6, <1>7, SumSame

\* Closed orders take what they held.
LEMMA CloseFunds ==
    ASSUME FundsInv, IInv', NEW ids \in SUBSET Id, NEW event \in Events, Closes(ids, event)
    PROVE  FundsExact'
<1> SUFFICES ASSUME NEW t \in Tokens
             PROVE  held'[t] = EscrowOf(OpenIds, t)' + donated'[t]
  BY DEF FundsExact, OpenIds
<1> DEFINE f == [x \in OpenIds |-> Escrowed(orders[x], t)]
           rest == OpenIds \ ids
           of == [x \in ids |-> Escrowed(orders[x], t)]
           left == [x \in rest |-> Escrowed(orders'[x], t)]
<1>1. /\ \A x \in Id : orders'[x] = IF x \in ids THEN NoOrder ELSE orders[x]
      /\ held'[t] = held[t] - EscrowOf(ids, t) /\ donated' = donated
  BY DEF Closes
<1>2. ids \in SUBSET OpenIds /\ rest \in SUBSET OpenIds /\ OpenIds \ ids = rest
  BY DEF Closes, OpenIds
<1>3. OpenIds' = rest
  BY <1>1 DEF OpenIds, Open
<1>4. /\ IsFiniteSet(OpenIds) /\ \A x \in OpenIds : orders[x] \in Order
      /\ held[t] = EscrowOf(OpenIds, t) + donated[t] /\ donated[t] \in Nat
  BY EscrowOfInt DEF FundsInv, IInv, OrdersType, FundsExact, OpenIds
<1>5. IsFiniteSet(ids) /\ IsFiniteSet(rest)
  BY <1>2, <1>4, FS_Subset
<1>6. /\ \A x \in OpenIds : f[x] \in Int
      /\ \A x \in ids : f[x] \in Int /\ of[x] = f[x]
      /\ \A x \in rest : f[x] \in Int /\ left[x] = f[x]
  <2>1. \A x \in OpenIds : f[x] \in Int
    BY <1>4, EscrowedNat
  <2>2. \A x \in rest : orders'[x] = orders[x]
    BY <1>1 DEF OpenIds
  <2> QED BY <1>2, <2>1, <2>2
<1>7. EscrowOf(OpenIds, t) = Sum(f, OpenIds) /\ EscrowOf(ids, t) = Sum(of, ids)
  BY DEF EscrowOf
<1>8. EscrowOf(OpenIds, t)' = Sum(left, rest)
  BY <1>3 DEF EscrowOf
<1> HIDE DEF f, of, left, rest
<1>9. Sum(of, ids) = Sum(f, ids) /\ Sum(left, rest) = Sum(f, rest)
  BY <1>5, <1>6, SumSame
<1>10. Sum(f, OpenIds) = Sum(f, ids) + Sum(f, rest)
  BY <1>2, <1>4, <1>6, SumSplit
<1>11. Sum(f, ids) \in Int /\ Sum(f, rest) \in Int
  BY <1>5, <1>6, SumInt
<1>12. held[t] = Sum(f, OpenIds) + donated[t] /\ EscrowOf(ids, t) = Sum(f, ids)
  BY <1>4, <1>7, <1>9
<1>13. held'[t] = held[t] - EscrowOf(ids, t) /\ donated'[t] = donated[t]
  BY <1>1
<1>14. held'[t] = Sum(f, rest) + donated[t]
  BY <1>4, <1>10, <1>11, <1>12, <1>13
<1> QED BY <1>8, <1>9, <1>13, <1>14

LEMMA InitFunds == Init => FundsInv
<1> SUFFICES ASSUME Init PROVE FundsExact
  BY InitHolds DEF FundsInv
<1> SUFFICES ASSUME NEW t \in Tokens
             PROVE  held[t] = EscrowOf(OpenIds, t) + donated[t]
  BY DEF FundsExact, OpenIds
<1>1. OpenIds = {} /\ held[t] = 0 /\ donated[t] = 0
  BY DEF Init, OpenIds, Open
<1> QED BY <1>1, SumEmpty DEF EscrowOf

\* A donation adds the same to both.
LEMMA DonateFunds ==
    ASSUME FundsInv, NEW t \in Tokens, NEW amount \in Nat, Donates(t, amount)
    PROVE  FundsExact'
<1> SUFFICES ASSUME NEW u \in Tokens
             PROVE  held'[u] = EscrowOf(OpenIds, u)' + donated'[u]
  BY DEF FundsExact, OpenIds
<1>1. EscrowOf(OpenIds, u)' = EscrowOf(OpenIds, u)
  BY DEF EscrowOf, OpenIds, Open, Donates
<1>2. /\ held[u] = EscrowOf(OpenIds, u) + donated[u] /\ donated[u] \in Nat
      /\ EscrowOf(OpenIds, u) \in Int
  BY EscrowOfInt DEF FundsInv, IInv, OrdersType, FundsExact, OpenIds
<1> DEFINE more == IF u = t THEN amount ELSE 0
<1>3. held'[u] = held[u] + more
  BY DEF Donates
<1>4. donated'[u] = donated[u] + more
  BY <1>2 DEF Donates, FundsInv, IInv, OrdersType
<1>5. more \in Nat
  OBVIOUS
<1> HIDE DEF more
<1> QED BY <1>1, <1>2, <1>3, <1>4, <1>5

LEMMA StepFunds == FundsInv /\ [Next]_vars => FundsInv'
<1> SUFFICES ASSUME FundsInv, [Next]_vars PROVE FundsExact'
  BY StepKeeps DEF FundsInv
<1>1. IInv' /\ OrdersType
  BY StepKeeps DEF FundsInv, IInv
<1>2. CASE UNCHANGED <<orders, ordersIndex, status, held, donated>>
  BY <1>2 DEF FundsInv, FundsExact, EscrowOf, Open
<1> QED BY <1>1, <1>2, StepCases, StoreFunds, UpdateFunds, CloseFunds, DonateFunds

\* For any mix of creations, updates, cancellations of several orders at once and
\* executions: the balance of each token is what the open orders hold, collateral in
\* WETH and execution fees together, and what was sent to the contract directly.
THEOREM FundsAlwaysExact == Spec => []FundsExact
<1>1. FundsInv => FundsExact
  BY DEF FundsInv
<1> QED BY <1>1, InitFunds, StepFunds, PTL DEF Spec

-----------------------------------------------------------------------------
(* The contract implements RequestEscrow: a creation opens a request, a     *)
(* cancellation or execution closes some, and nothing else is visible.      *)

State == [id \in Id |-> IF status[id] = "created" THEN "pending" ELSE status[id]]
Pot == [t \in Tokens |-> held[t] - donated[t]]
Deposit == [id \in Id |-> [t \in Tokens |-> IF Open(id) THEN Escrowed(orders[id], t) ELSE 0]]

\* The sums of the abstract module are the sums of this one.
LEMMA PromiseSum == \A f, S : Promise!Sum(f, S) = Sum(f, S)
BY DEF Promise!Sum, Sum, Promise!MapThenSumSet, MapThenSumSet, Promise!MapThenFoldSet,
       MapThenFoldSet

\* Balances and donations are integers.
LEMMA FundsInt ==
    ASSUME FundsInv, NEW t \in Tokens
    PROVE  held[t] \in Int /\ donated[t] \in Nat
<1>1. OrdersType /\ OpenIds \in SUBSET OpenIds
  BY DEF FundsInv, IInv
<1>2. EscrowOf(OpenIds, t) \in Int
  BY <1>1, EscrowOfInt
<1>3. held[t] = EscrowOf(OpenIds, t) + donated[t] /\ donated[t] \in Nat
  BY DEF FundsInv, IInv, OrdersType, FundsExact, OpenIds
<1> QED BY <1>2, <1>3

\* A new order opens a request with its collateral and its fee.
LEMMA StoreOpens ==
    ASSUME FundsInv, NEW k \in Kinds, NEW a \in Accounts, NEW o \in Order, Stores(k, a, o)
    PROVE  Promise!Next
<1>1. ordersIndex[k][a] \in Nat /\ <<k, a, ordersIndex[k][a]>> \in Id
  BY OrderBookAssumption DEF Stores, FundsInv, IInv, OrdersType
<1> PICK new \in Id : new = <<k, a, ordersIndex[k][a]>>
  BY <1>1
<1> DEFINE has == [t \in Tokens |-> Escrowed(o, t)]
<1>2. /\ o # NoOrder
      /\ \A id \in Id : /\ orders'[id] = IF id = new THEN o ELSE orders[id]
                        /\ status'[id] = IF id = new THEN "created" ELSE status[id]
      /\ held' = [t \in Tokens |-> held[t] + Escrowed(o, t)]
      /\ donated' = donated
  BY OrderBookAssumption DEF Stores, FundsInv, IInv, OrdersType
<1>3. status[new] = "none"
  <2>1. status[new] = "none" <=> new[3] >= ordersIndex[new[1]][new[2]]
    BY DEF FundsInv, IInv, OrdersMatchEvents
  <2> QED BY <1>1, <2>1
<1>4. State[new] = "none" /\ State' = [State EXCEPT ![new] = "pending"]
  BY <1>2, <1>3 DEF State
<1>5. has \in [Tokens -> Nat]
  BY EscrowedNat
<1>6. Deposit'[new] = has /\ Deposit' = [Deposit EXCEPT ![new] = has]
  BY <1>2 DEF Deposit, Open
<1>7. Pot' = [t \in Tokens |-> Pot[t] + Deposit'[new][t]]
  <2>1. ASSUME NEW t \in Tokens
        PROVE  held'[t] - donated'[t] = (held[t] - donated[t]) + Deposit'[new][t]
    <3>1. held'[t] = held[t] + has[t] /\ donated'[t] = donated[t]
      BY <1>2
    <3>2. held[t] \in Int /\ donated[t] \in Int
      BY FundsInt
    <3>3. has[t] \in Int /\ Deposit'[new][t] = has[t]
      BY <1>5, <1>6
    <3> HIDE DEF has
    <3> QED BY <3>1, <3>2, <3>3
  <2> QED BY <2>1 DEF Pot
<1>8. [t \in Tokens |-> 0]' = [t \in Tokens |-> 0]
  OBVIOUS
<1> HIDE DEF has
<1>9. Promise!Open(new)
  BY <1>4, <1>5, <1>6, <1>7, <1>8 DEF Promise!Open, State, Deposit, Pot
<1> QED BY <1>9 DEF Promise!Next

\* Changing a trigger is not visible.
LEMMA UpdateStutters ==
    ASSUME FundsInv, NEW id \in Id, NEW trigger \in Triggers, Updates(id, trigger)
    PROVE  UNCHANGED Promise!escrowVars
<1>1. /\ orders[id] \in Order
      /\ orders' = [orders EXCEPT ![id] = [orders[id] EXCEPT !.trigger = trigger]]
      /\ held' = held /\ status' = status /\ donated' = donated
  BY DEF Updates, FundsInv, IInv, OrdersType, Open
<1>2. orders'[id] \in Order /\ NoOrder \notin Order
  <2>1. trigger \in Trigger
    BY OrderBookAssumption
  <2>2. [orders[id] EXCEPT !.trigger = trigger] \in Order
    BY <1>1, <2>1 DEF Order
  <2> QED BY <1>1, <2>2, OrderBookAssumption DEF FundsInv, IInv, OrdersType
<1>3. ASSUME NEW x \in Id, NEW t \in Tokens
      PROVE  /\ Open(x)' <=> Open(x)
             /\ Open(x) => Escrowed(orders'[x], t) = Escrowed(orders[x], t)
  <2>1. CASE x = id
    <3>1. /\ orders'[id].token = orders[id].token /\ orders'[id].amount = orders[id].amount
          /\ orders'[id].executionFee = orders[id].executionFee
      BY <1>1 DEF Order, FundsInv, IInv, OrdersType
    <3> QED BY <1>1, <1>2, <2>1, <3>1 DEF Open, Escrowed
  <2>2. CASE x # id
    BY <1>1, <2>2 DEF Open, FundsInv, IInv, OrdersType
  <2> QED BY <2>1, <2>2
<1>4. Deposit' = Deposit
  BY <1>3 DEF Deposit
<1>5. State' = State
  BY <1>1 DEF State
<1> QED BY <1>1, <1>4, <1>5 DEF Promise!escrowVars, State, Deposit

\* Nor is what somebody sends to the contract.
LEMMA DonateStutters ==
    ASSUME FundsInv, NEW t \in Tokens, NEW amount \in Nat, Donates(t, amount)
    PROVE  UNCHANGED Promise!escrowVars
<1>1. orders' = orders /\ status' = status
  BY DEF Donates
<1>2. ASSUME NEW u \in Tokens
      PROVE  held'[u] - donated'[u] = held[u] - donated[u]
  <2> DEFINE more == IF u = t THEN amount ELSE 0
  <2>1. held'[u] = held[u] + more
    BY DEF Donates
  <2>2. donated'[u] = donated[u] + more
    BY FundsInt DEF Donates, FundsInv, IInv, OrdersType
  <2>3. more \in Nat /\ held[u] \in Int /\ donated[u] \in Int
    BY FundsInt
  <2> HIDE DEF more
  <2> QED BY <2>1, <2>2, <2>3
<1>3. Pot' = Pot
  BY <1>2 DEF Pot
<1>4. Deposit' = Deposit /\ State' = State
  BY <1>1 DEF Deposit, State, Open
<1> QED BY <1>3, <1>4 DEF Promise!escrowVars, State, Deposit, Pot

\* Closing orders takes their deposits out of the pot.
LEMMA CloseCloses ==
    ASSUME FundsInv, NEW ids \in SUBSET Id, NEW event \in Events, Closes(ids, event)
    PROVE  Promise!Next
<1>1. /\ ids # {} /\ \A id \in ids : Open(id)
      /\ \A id \in Id : /\ orders'[id] = IF id \in ids THEN NoOrder ELSE orders[id]
                        /\ status'[id] = IF id \in ids THEN event ELSE status[id]
      /\ held' = [t \in Tokens |-> held[t] - EscrowOf(ids, t)] /\ donated' = donated
  BY DEF Closes
<1>2. \A id \in ids : status[id] = "created"
  BY <1>1 DEF FundsInv, IInv, OrdersMatchEvents
<1>3. ids \in SUBSET Promise!Pending
  BY <1>2 DEF Promise!Pending
<1>4. State' = [id \in Id |-> IF id \in ids THEN event ELSE State[id]]
  BY <1>1 DEF State, Events
<1>5. Deposit' = [id \in Id |-> IF id \in ids THEN [t \in Tokens |-> 0] ELSE Deposit[id]]
  BY <1>1 DEF Deposit, Open
<1>6. ASSUME NEW t \in Tokens
      PROVE  /\ Promise!DepositOf(ids, t) = EscrowOf(ids, t)
             /\ EscrowOf(ids, t) \in Int /\ held[t] \in Int /\ donated[t] \in Int
  <2>1. ids \in SUBSET OpenIds /\ OrdersType
    BY <1>1 DEF OpenIds, FundsInv, IInv
  <2>2. EscrowOf(ids, t) \in Int
    BY <2>1, EscrowOfInt
  <2>3. held[t] \in Int /\ donated[t] \in Int
    BY FundsInt
  <2>4. [id \in ids |-> Deposit[id][t]] = [id \in ids |-> Escrowed(orders[id], t)]
    BY <1>1 DEF Deposit
  <2>5. Promise!DepositOf(ids, t) = Sum([id \in ids |-> Deposit[id][t]], ids)
    BY PromiseSum DEF Promise!DepositOf, Deposit
  <2> QED BY <2>2, <2>3, <2>4, <2>5 DEF EscrowOf
<1>7. Pot' = [t \in Tokens |-> Pot[t] - Promise!DepositOf(ids, t) + (0 - 0)]
  <2>1. ASSUME NEW t \in Tokens
        PROVE  held'[t] - donated'[t]
                 = (held[t] - donated[t]) - Promise!DepositOf(ids, t) + (0 - 0)
    <3>1. held'[t] = held[t] - EscrowOf(ids, t) /\ donated'[t] = donated[t]
      BY <1>1
    <3> QED BY <1>6, <3>1
  <2> QED BY <2>1 DEF Pot
<1>8. Promise!Close(ids, event)
  BY <1>1, <1>3, <1>4, <1>5, <1>7 DEF Promise!Close, Promise!NoDeposit, State, Deposit, Pot
<1>9. Promise!Execute(ids) \/ Promise!Cancel(ids)
  BY <1>8 DEF Promise!Execute, Promise!Cancel, Events
<1> QED BY <1>3, <1>9 DEF Promise!Next

\* Every step of the order book is a step of RequestEscrow or a stutter.
LEMMA PromiseStep == FundsInv /\ [Next]_vars => [Promise!Next]_(Promise!escrowVars)
<1> SUFFICES ASSUME FundsInv, [Next]_vars
             PROVE  [Promise!Next]_(Promise!escrowVars)
  OBVIOUS
<1>1. OrdersType
  BY DEF FundsInv, IInv
<1>2. CASE UNCHANGED <<orders, ordersIndex, status, held, donated>>
  BY <1>2 DEF Promise!escrowVars, Open
<1> QED BY <1>1, <1>2, StepCases, StoreOpens, UpdateStutters, CloseCloses,
          DonateStutters

\* OrderBook implements RequestEscrow: no order is settled twice, and its settlement, alone
\* or with others in one transaction, takes out of the pot exactly what it put in.
THEOREM Implementation == Spec => ImplementsEscrow
<1>1. Init => Promise!Init
  BY DEF Init, Promise!Init, Promise!NoDeposit, Open
<1>2. FundsInv /\ [Next]_vars => [Promise!Next]_(Promise!escrowVars)
  BY PromiseStep
<1>3. Spec => []FundsInv
  BY InitFunds, StepFunds, PTL DEF Spec
<1> QED BY <1>1, <1>2, <1>3, PTL DEF Spec, ImplementsEscrow, Promise!Spec
=============================================================================
