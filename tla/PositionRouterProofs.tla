------------------------ MODULE PositionRouterProofs ------------------------
(* Theorems about PositionRouter, for every value of its constants.        *)
EXTENDS PositionRouter, SumTheorems

\* The deposit fee on an amount is a natural number within it (_collectFees).
LEMMA DepositFeeNat ==
    ASSUME NEW amount \in Nat
    PROVE  DepositFeeOf(amount) \in Nat
<1> DEFINE m == BPS - DepositFee
           q == (amount * m) \div BPS
<1>1. BPS \in Nat /\ BPS > 0 /\ m \in Nat /\ m <= BPS
  BY RouterAssumption
<1>2. amount * m \in Nat /\ amount * m <= amount * BPS
  BY <1>1
<1>3. q \in Int /\ BPS * q <= amount * m
  BY <1>1, <1>2
<1>4. q <= amount
  <2>1. ASSUME q >= amount + 1 PROVE FALSE
    <3>1. BPS * (amount + 1) <= BPS * q
      BY <1>1, <1>3, <2>1
    <3>2. BPS * (amount + 1) = amount * BPS + BPS
      BY <1>1
    <3> QED BY <1>1, <1>2, <1>3, <3>1, <3>2
  <2> QED BY <1>3, <2>1
<1> QED BY <1>3, <1>4 DEF DepositFeeOf

\* So is every fee an execution may leave in the contract.
LEMMA KeptFeesNat ==
    ASSUME NEW r \in Request, NEW kept \in KeptFees(r)
    PROVE  kept \in Nat
<1>1. r.amountIn \in Nat
  BY DEF Request
<1>2. SwapOutputs \subseteq Nat
  BY RouterAssumption
<1> DEFINE Arriving == IF r.amountIn = 0 THEN {}
                       ELSE IF r.token = r.outToken THEN {r.amountIn} ELSE SwapOutputs
<1>3. Arriving \subseteq Nat
  BY <1>1, <1>2
<1>4. kept \in {0} \cup {DepositFeeOf(amount) : amount \in Arriving}
  BY DEF KeptFees
<1>5. \A amount \in Arriving : DepositFeeOf(amount) \in Nat
  BY <1>3, DepositFeeNat
<1> HIDE DEF Arriving
<1> QED BY <1>4, <1>5

\* A request's escrow of a token is a natural number.
LEMMA EscrowedNat ==
    ASSUME NEW r \in Request, NEW t \in Tokens
    PROVE  Escrowed(r, t) \in Nat
BY DEF Escrowed, Request

\* The parts of the state that settling a request changes keep their types.
LEMMA SettleType ==
    ASSUME TypeOK, NEW k \in Kinds, NEW key \in Key, NEW kept \in Nat,
           NEW outcome \in Status, Pending(k, key), Settle(k, key, outcome, kept)
    PROVE  /\ requests' \in [Kinds -> [Key -> Request \cup {NoRequest}]]
           /\ status' \in [Kinds -> [Key -> Status]]
           /\ held' \in [Tokens -> Int]
           /\ feeReserves' \in [Tokens -> Nat]
<1> DEFINE r == requests[k][key]
<1>1. r \in Request
  BY DEF TypeOK, Pending
<1>2. r.outToken \in Tokens
  BY <1>1 DEF Request
<1>3. \A t \in Tokens : Escrowed(r, t) \in Nat
  BY <1>1, EscrowedNat
<1>4. requests' \in [Kinds -> [Key -> Request \cup {NoRequest}]]
  BY DEF TypeOK, Settle
<1>5. status' \in [Kinds -> [Key -> Status]]
  BY DEF TypeOK, Settle
<1>6. held' \in [Tokens -> Int]
  BY <1>3 DEF TypeOK, Settle
<1>7. feeReserves' \in [Tokens -> Nat]
  BY <1>2 DEF TypeOK, Settle
<1> QED BY <1>4, <1>5, <1>6, <1>7

\* The same for the two ways a request is settled.
LEMMA ExecuteType ==
    ASSUME TypeOK, NEW k \in Kinds, NEW key \in Key, Pending(k, key),
           Execute(k, key) \/ Cancel(k, key)
    PROVE  /\ requests' \in [Kinds -> [Key -> Request \cup {NoRequest}]]
           /\ status' \in [Kinds -> [Key -> Status]]
           /\ held' \in [Tokens -> Int]
           /\ feeReserves' \in [Tokens -> Nat]
<1>1. requests[k][key] \in Request
  BY DEF TypeOK, Pending
<1>2. CASE Execute(k, key)
  <2>1. PICK kept \in KeptFees(requests[k][key]) : Settle(k, key, "executed", kept)
    BY <1>2 DEF Execute
  <2>2. kept \in Nat
    BY <1>1, KeptFeesNat
  <2> QED BY <2>1, <2>2, SettleType DEF Status
<1>3. CASE Cancel(k, key)
  BY <1>3, SettleType DEF Cancel, Status
<1> QED BY <1>2, <1>3

\* Appending a new request.
LEMMA StoreType ==
    ASSUME TypeOK, Idle, NEW k \in Kinds, NEW a \in Accounts, NEW r \in Request, Store(k, a, r)
    PROVE  TypeOK'
<1> DEFINE index == NextIndex(k, a)
           key == <<a, index>>
<1>1. index \in 1..MaxIndex /\ key \in Key
  BY RouterAssumption DEF TypeOK, Store, NextIndex, Key
<1>2. \A t \in Tokens : Escrowed(r, t) \in Nat
  BY EscrowedNat
<1>3. requests' \in [Kinds -> [Key -> Request \cup {NoRequest}]]
  BY <1>1 DEF TypeOK, Store
<1>4. keys' \in [Kinds -> Seq(Key \cup {NoKey})]
  BY <1>1 DEF TypeOK, Store
<1>5. status' \in [Kinds -> [Key -> Status]]
  BY <1>1 DEF TypeOK, Store, Status
<1>6. positionsIndex' \in [Kinds -> [Accounts -> 0..MaxIndex]]
  BY <1>1, RouterAssumption DEF TypeOK, Store
<1>7. held' \in [Tokens -> Int]
  BY <1>2 DEF TypeOK, Store
<1> QED BY <1>3, <1>4, <1>5, <1>6, <1>7
        DEF TypeOK, Store, Idle, NoLoop, Kinds, adminVars, clockVars

\* A create call builds a well-formed request.
LEMMA NewRequestType ==
    ASSUME TypeOK, NEW k \in Kinds, NEW path \in Paths[k], NEW amountIn \in Nat,
           NEW fee \in ExecutionFees, NEW inETH \in BOOLEAN,
           NEW target \in CallbackTargets \cup {NoTarget}
    PROVE  NewRequest(path, amountIn, fee, inETH, target) \in Request
BY RouterAssumption DEF TypeOK, NewRequest, Request

\* The three create calls keep the types.
LEMMA CreateType ==
    ASSUME TypeOK, NEW a \in Accounts,
           \/ CreateIncreasePosition(a)
           \/ CreateIncreasePositionETH(a)
           \/ CreateDecreasePosition(a)
    PROVE  /\ Idle
           /\ \E k \in Kinds, r \in Request : Store(k, a, r)
<1>1. CASE CreateIncreasePosition(a)
  BY <1>1, NewRequestType, RouterAssumption DEF CreateIncreasePosition, Kinds
<1>2. CASE CreateIncreasePositionETH(a)
  BY <1>2, NewRequestType, RouterAssumption DEF CreateIncreasePositionETH, Kinds
<1>3. CASE CreateDecreasePosition(a)
  BY <1>3, NewRequestType, RouterAssumption DEF CreateDecreasePosition, Kinds
<1> QED BY <1>1, <1>2, <1>3

\* A running loop is at a slot of its queue, and a pending slot holds a key.
LEMMA LoopFacts ==
    ASSUME TypeOK, NEW k \in Kinds, InLoop(k)
    PROVE  /\ loop.index + 1 \in DOMAIN keys[k]
           /\ CurrentKey(k) \in Key \cup {NoKey}
           /\ CurrentPending(k) => CurrentKey(k) \in Key /\ Pending(k, CurrentKey(k))
<1>1. loop.index + 1 \in 1..Len(keys[k]) /\ keys[k] \in Seq(Key \cup {NoKey})
  BY DEF TypeOK, InLoop
<1>2. loop.index + 1 \in DOMAIN keys[k] /\ CurrentKey(k) \in Key \cup {NoKey}
  BY <1>1 DEF CurrentKey
<1> QED BY <1>2 DEF CurrentPending

\* The loop's counter moves on and the slot it leaves is cleared.
LEMMA AdvanceType ==
    ASSUME TypeOK, NEW k \in Kinds, InLoop(k), Advance(k)
    PROVE  /\ keys' \in [Kinds -> Seq(Key \cup {NoKey})]
           /\ \A q \in Kinds : Len(keys'[q]) = Len(keys[q])
           /\ loop' \in [kind : Kinds \cup {"none"}, index : Nat, end : Nat]
           /\ \A q \in Kinds : loop'.kind = q => loop'.index <= loop'.end /\ loop'.end <= Len(keys'[q])
           /\ start' \in [Kinds -> Nat]
           /\ positionsIndex' \in [Kinds -> [Accounts -> 0..MaxIndex]]
           /\ config' \in Config /\ isPositionKeeper' \subseteq Senders
           /\ adminOps' \in Nat /\ block' \in Nat /\ now' \in Nat
<1>1. /\ keys' = [keys EXCEPT ![k] = [@ EXCEPT ![loop.index + 1] = NoKey]]
      /\ loop' = [kind |-> k, index |-> loop.index + 1, end |-> loop.end]
  BY DEF Advance
<1>2. loop.index + 1 \in 1..Len(keys[k]) /\ keys[k] \in Seq(Key \cup {NoKey})
  BY DEF TypeOK, InLoop
<1>3. [keys[k] EXCEPT ![loop.index + 1] = NoKey] \in Seq(Key \cup {NoKey})
      /\ Len([keys[k] EXCEPT ![loop.index + 1] = NoKey]) = Len(keys[k])
  BY <1>2
<1>4. keys' \in [Kinds -> Seq(Key \cup {NoKey})] /\ \A q \in Kinds : Len(keys'[q]) = Len(keys[q])
  BY <1>1, <1>3 DEF TypeOK
<1>5. /\ loop' \in [kind : Kinds \cup {"none"}, index : Nat, end : Nat]
      /\ loop'.kind = k /\ loop'.index = loop.index + 1 /\ loop'.end = loop.end
  BY <1>1 DEF TypeOK, InLoop
<1>6. loop'.index <= loop'.end /\ loop'.end <= Len(keys'[k])
  BY <1>4, <1>5 DEF TypeOK, InLoop
<1> QED BY <1>4, <1>5, <1>6 DEF Advance, TypeOK, adminVars, clockVars

\* Every step of the specification keeps the types.
LEMMA TypeStep == TypeOK /\ [Next]_vars => TypeOK'
<1> SUFFICES ASSUME TypeOK, [Next]_vars PROVE TypeOK'
  OBVIOUS
<1>1. ASSUME NEW a \in Accounts,
             CreateIncreasePosition(a) \/ CreateIncreasePositionETH(a) \/ CreateDecreasePosition(a)
      PROVE  TypeOK'
  BY <1>1, CreateType, StoreType
<1>2. ASSUME NEW sender \in Senders, NEW k \in Kinds, NEW key \in Key,
             ExecutePosition(sender, k, key) \/ CancelPosition(sender, k, key)
      PROVE  TypeOK'
  <2>1. /\ requests' \in [Kinds -> [Key -> Request \cup {NoRequest}]]
        /\ status' \in [Kinds -> [Key -> Status]]
        /\ held' \in [Tokens -> Int]
        /\ feeReserves' \in [Tokens -> Nat]
    BY <1>2, ExecuteType DEF ExecutePosition, CancelPosition
  <2>2. UNCHANGED <<keys, start, positionsIndex, config, isPositionKeeper, adminOps, block, now, loop>>
    BY <1>2 DEF ExecutePosition, CancelPosition, adminVars, clockVars
  <2> QED BY <2>1, <2>2 DEF TypeOK
<1>3. ASSUME NEW sender \in Senders, NEW k \in Kinds, NEW end \in 1..(Len(keys[k]) + 1),
             ExecutePositions(sender, k, end)
      PROVE  TypeOK'
  <2>1. Len(keys[k]) \in Nat
    BY DEF TypeOK
  <2> DEFINE e == IF end > Len(keys[k]) THEN Len(keys[k]) ELSE end
  <2>2. /\ e \in Nat /\ e <= Len(keys[k]) /\ start[k] \in Nat /\ start[k] <= e
        /\ loop' = [kind |-> k, index |-> start[k], end |-> e]
    BY <1>3, <2>1 DEF ExecutePositions, TypeOK
  <2> HIDE DEF e
  <2> QED BY <1>3, <2>2 DEF ExecutePositions, TypeOK, queueVars, fundVars, adminVars, clockVars
<1>4. ASSUME NEW k \in Kinds, LoopStep(k)
      PROVE  TypeOK'
  <2>1. CASE LoopSkip(k) \/ LoopDrop(k)
    <3>1. InLoop(k) /\ Advance(k) /\ UNCHANGED <<requests, status, held, feeReserves>>
      BY <2>1 DEF LoopSkip, LoopDrop, fundVars
    <3> QED BY <3>1, AdvanceType DEF TypeOK
  <2>2. CASE LoopExecute(k) \/ LoopCancel(k)
    <3>1. /\ InLoop(k) /\ Advance(k) /\ CurrentKey(k) \in Key /\ Pending(k, CurrentKey(k))
          /\ Execute(k, CurrentKey(k)) \/ Cancel(k, CurrentKey(k))
      BY <2>2, LoopFacts DEF LoopExecute, LoopCancel, CurrentReady
    <3> QED BY <3>1, AdvanceType, ExecuteType DEF TypeOK
  <2>3. CASE LoopEnd(k)
    BY <2>3 DEF LoopEnd, TypeOK, NoLoop, Kinds, fundVars, adminVars, clockVars
  <2> QED BY <1>4, <2>1, <2>2, <2>3 DEF LoopStep
<1>5. ASSUME Admin PROVE TypeOK'
  <2>1. ASSUME NEW c \in Config, SetConfig(c) PROVE TypeOK'
    BY <2>1 DEF SetConfig, AdminCall, TypeOK, queueVars, fundVars, clockVars
  <2>2. ASSUME NEW fee \in MinFees, SetMinExecutionFee(fee) PROVE TypeOK'
    BY <2>1, <2>2, RouterAssumption DEF SetMinExecutionFee, TypeOK, Config
  <2>3. ASSUME NEW b \in BOOLEAN, SetIsLeverageEnabled(b) PROVE TypeOK'
    BY <2>1, <2>3 DEF SetIsLeverageEnabled, TypeOK, Config
  <2>4. ASSUME NEW d \in DelayValues, SetDelayValues(d) PROVE TypeOK'
    BY <2>1, <2>4, RouterAssumption DEF SetDelayValues, TypeOK, Config
  <2>5. ASSUME NEW gas \in GasLimits, SetCallbackGasLimit(gas) PROVE TypeOK'
    BY <2>1, <2>5, RouterAssumption DEF SetCallbackGasLimit, TypeOK, Config
  <2>6. ASSUME NEW target \in CallbackTargets, NEW gas \in GasLimits,
               SetCustomCallbackGasLimit(target, gas) PROVE TypeOK'
    BY <2>1, <2>6, RouterAssumption DEF SetCustomCallbackGasLimit, TypeOK, Config
  <2>7. ASSUME NEW a \in Senders, NEW b \in BOOLEAN, SetPositionKeeper(a, b) PROVE TypeOK'
    BY <2>7 DEF SetPositionKeeper, AdminCall, TypeOK, queueVars, fundVars, clockVars
  <2>8. ASSUME NEW i \in StartValues, NEW d \in StartValues,
               SetRequestKeysStartValues(i, d) PROVE TypeOK'
    BY <2>8, RouterAssumption
       DEF SetRequestKeysStartValues, AdminCall, TypeOK, fundVars, clockVars
  <2> QED BY <1>5, <2>2, <2>3, <2>4, <2>5, <2>6, <2>7, <2>8 DEF Admin
<1>6. ASSUME NEW t \in Tokens, WithdrawFees(t) PROVE TypeOK'
  BY <1>6 DEF WithdrawFees, TypeOK, queueVars, adminVars, clockVars
<1>7. ASSUME NextBlock PROVE TypeOK'
  BY <1>7 DEF NextBlock, TypeOK, queueVars, fundVars, adminVars
<1>8. CASE UNCHANGED vars
  BY <1>8 DEF vars, TypeOK, queueVars, fundVars, adminVars, clockVars
<1> QED BY <1>1, <1>2, <1>3, <1>4, <1>5, <1>6, <1>7, <1>8 DEF Next

LEMMA TypeInit == Init => TypeOK
  BY RouterAssumption DEF Init, TypeOK, NoLoop, Status, Senders, Kinds

\* Type correctness, with the loop's counter inside the array (the variables of
\* PositionRouter.sol, for any traders, keepers, tokens, limits and bounds).
THEOREM TypeCorrect == Spec => []TypeOK
<1> QED BY TypeInit, TypeStep, PTL DEF Spec

-----------------------------------------------------------------------------
(* The steps of the specification, as seen by the requests: one is stored,  *)
(* one is settled, or none of them changes.                                 *)

Settles(k, key) ==
    /\ Pending(k, key)
    /\ Execute(k, key) \/ Cancel(k, key)
    /\ UNCHANGED positionsIndex
LeavesRequests == UNCHANGED <<requests, status, positionsIndex>>

\* Every step opens one request, closes one, or leaves requests and events alone.
LEMMA StepCases ==
    ASSUME TypeOK, [Next]_vars
    PROVE  \/ \E k \in Kinds, a \in Accounts, r \in Request : Store(k, a, r)
           \/ \E k \in Kinds, key \in Key : Settles(k, key)
           \/ LeavesRequests /\ UNCHANGED <<held, feeReserves>>
           \/ LeavesRequests /\ \E t \in Tokens : WithdrawFees(t)
<1>1. ASSUME NEW a \in Accounts,
             CreateIncreasePosition(a) \/ CreateIncreasePositionETH(a) \/ CreateDecreasePosition(a)
      PROVE  \E k \in Kinds, r \in Request : Store(k, a, r)
  BY <1>1, CreateType
<1>2. ASSUME NEW sender \in Senders, NEW k \in Kinds, NEW key \in Key,
             ExecutePosition(sender, k, key) \/ CancelPosition(sender, k, key)
      PROVE  Settles(k, key)
  BY <1>2 DEF ExecutePosition, CancelPosition, Settles
<1>3. ASSUME NEW sender \in Senders, NEW k \in Kinds, NEW end \in 1..(Len(keys[k]) + 1),
             ExecutePositions(sender, k, end)
      PROVE  LeavesRequests /\ UNCHANGED <<held, feeReserves>>
  BY <1>3 DEF ExecutePositions, LeavesRequests, queueVars, fundVars
<1>4. ASSUME NEW k \in Kinds, LoopStep(k)
      PROVE  \/ \E key \in Key : Settles(k, key)
             \/ LeavesRequests /\ UNCHANGED <<held, feeReserves>>
  <2>1. CASE LoopSkip(k) \/ LoopDrop(k) \/ LoopEnd(k)
    BY <2>1 DEF LoopSkip, LoopDrop, LoopEnd, Advance, LeavesRequests, fundVars
  <2>2. CASE LoopExecute(k) \/ LoopCancel(k)
    BY <2>2, LoopFacts DEF LoopExecute, LoopCancel, CurrentReady, Advance, Settles
  <2> QED BY <1>4, <2>1, <2>2 DEF LoopStep
<1>5. Admin => LeavesRequests /\ UNCHANGED <<held, feeReserves>>
  BY DEF Admin, SetMinExecutionFee, SetIsLeverageEnabled, SetDelayValues, SetCallbackGasLimit,
         SetCustomCallbackGasLimit, SetConfig, SetPositionKeeper, SetRequestKeysStartValues,
         LeavesRequests, queueVars, fundVars
<1>6. ASSUME NEW t \in Tokens, WithdrawFees(t) PROVE LeavesRequests
  BY <1>6 DEF WithdrawFees, LeavesRequests, queueVars
<1>7. NextBlock \/ UNCHANGED vars => LeavesRequests /\ UNCHANGED <<held, feeReserves>>
  BY DEF NextBlock, LeavesRequests, vars, queueVars, fundVars
<1> QED BY <1>1, <1>2, <1>3, <1>4, <1>5, <1>6, <1>7 DEF Next

\* Every step keeps the mapping and the events in agreement.
LEMMA EventsStep == TypeOK /\ RequestsMatchEvents /\ [Next]_vars => RequestsMatchEvents'
<1> SUFFICES ASSUME TypeOK, RequestsMatchEvents, [Next]_vars,
                    NEW k \in Kinds, NEW key \in Key
             PROVE  /\ Pending(k, key)' <=> status'[k][key] = "pending"
                    /\ status'[k][key] = "none" <=> key[2] > positionsIndex'[k][key[1]]
  BY DEF RequestsMatchEvents
<1>0. /\ Pending(k, key) <=> status[k][key] = "pending"
      /\ status[k][key] = "none" <=> key[2] > positionsIndex[k][key[1]]
      /\ key[1] \in Accounts /\ key[2] \in 1..MaxIndex
  BY DEF RequestsMatchEvents, Key
<1>1. ASSUME NEW q \in Kinds, NEW a \in Accounts, NEW r \in Request, Store(q, a, r)
      PROVE  /\ Pending(k, key)' <=> status'[k][key] = "pending"
             /\ status'[k][key] = "none" <=> key[2] > positionsIndex'[k][key[1]]
  <2> DEFINE index == positionsIndex[q][a] + 1
  <2>1. /\ requests' = [requests EXCEPT ![q][<<a, index>>] = r]
        /\ status' = [status EXCEPT ![q][<<a, index>>] = "pending"]
        /\ positionsIndex' = [positionsIndex EXCEPT ![q][a] = index]
        /\ index \in 1..MaxIndex /\ <<a, index>> \in Key
    BY <1>1, RouterAssumption DEF Store, NextIndex, Key, TypeOK
  <2>2. r # NoRequest
    BY RouterAssumption
  <2>3. CASE k = q /\ key = <<a, index>>
    <3>1. requests'[k][key] = r /\ status'[k][key] = "pending" /\ positionsIndex'[k][key[1]] = index
      BY <2>1, <2>3 DEF TypeOK
    <3> QED BY <2>1, <2>2, <2>3, <3>1 DEF Pending
  <2>4. CASE k = q /\ key[1] = a /\ key[2] # index
    <3>1. requests'[k][key] = requests[k][key] /\ status'[k][key] = status[k][key]
          /\ positionsIndex'[k][key[1]] = index
      BY <2>1, <2>4 DEF TypeOK
    <3>2. positionsIndex[k][key[1]] \in Nat
      BY <1>0, RouterAssumption DEF TypeOK
    <3>3. key[2] > positionsIndex[k][key[1]] <=> key[2] > index
      BY <1>0, <2>1, <2>4, <3>2
    <3> QED BY <1>0, <3>1, <3>3 DEF Pending
  <2>5. CASE k # q \/ key[1] # a
    <3>1. requests'[k][key] = requests[k][key] /\ status'[k][key] = status[k][key]
          /\ positionsIndex'[k][key[1]] = positionsIndex[k][key[1]]
      BY <1>0, <2>1, <2>5 DEF TypeOK
    <3> QED BY <1>0, <3>1 DEF Pending
  <2>6. key = <<key[1], key[2]>>
    BY DEF Key
  <2> QED BY <2>3, <2>4, <2>5, <2>6
<1>2. ASSUME NEW q \in Kinds, NEW c \in Key, Settles(q, c)
      PROVE  /\ Pending(k, key)' <=> status'[k][key] = "pending"
             /\ status'[k][key] = "none" <=> key[2] > positionsIndex'[k][key[1]]
  <2>1. PICK outcome \in {"executed", "cancelled"} :
          /\ requests' = [requests EXCEPT ![q][c] = NoRequest]
          /\ status' = [status EXCEPT ![q][c] = outcome]
    BY <1>2 DEF Settles, Execute, Cancel, Settle
  <2>2. positionsIndex' = positionsIndex /\ status[q][c] = "pending"
    BY <1>2 DEF Settles, RequestsMatchEvents
  <2>3. CASE k = q /\ key = c
    <3>1. requests'[k][key] = NoRequest /\ status'[k][key] = outcome
      BY <2>1, <2>3 DEF TypeOK
    <3> QED BY <1>0, <2>1, <2>2, <2>3, <3>1 DEF Pending
  <2>4. CASE k # q \/ key # c
    <3>1. requests'[k][key] = requests[k][key] /\ status'[k][key] = status[k][key]
      BY <2>1, <2>4 DEF TypeOK
    <3> QED BY <1>0, <2>2, <3>1 DEF Pending
  <2> QED BY <2>3, <2>4
<1>3. CASE LeavesRequests
  BY <1>0, <1>3 DEF LeavesRequests, Pending
<1> QED BY <1>1, <1>2, <1>3, StepCases

LEMMA EventsInit == Init => RequestsMatchEvents
  BY DEF Init, RequestsMatchEvents, Pending, Key

\* A request is stored exactly while it is created and not settled, and only
\* issued keys have ever been used (the two mappings of PositionRouter.sol).
THEOREM EventsCorrect == Spec => []RequestsMatchEvents
<1> QED BY EventsInit, EventsStep, TypeCorrect, PTL DEF Spec

-----------------------------------------------------------------------------
(* The contract implements RequestEscrow: a store opens a request, a        *)
(* settlement closes it, the withdrawal of fees collects them, and nothing  *)
(* else is visible.                                                         *)

\* Adding a deposit to one request that had none opens it in RequestEscrow.
LEMMA OpenStep ==
    ASSUME TypeOK, NEW k \in Kinds, NEW key \in Key, NEW r \in Request,
           status[k][key] = "none", ~Pending(k, key),
           requests' = [requests EXCEPT ![k][key] = r],
           status' = [status EXCEPT ![k][key] = "pending"],
           held' = [t \in Tokens |-> held[t] + Escrowed(r, t)],
           feeReserves' = feeReserves
    PROVE  Promise!Next
<1> DEFINE id == <<k, key>>
           dep == [j \in Kinds \X Key |-> [t \in Tokens |-> Deposited(j, t)]]
<1>1. r # NoRequest /\ id \in Kinds \X Key
  BY RouterAssumption
<1>2. ASSUME NEW j \in Kinds \X Key
      PROVE  /\ status'[j[1]][j[2]] = IF j = id THEN "pending" ELSE status[j[1]][j[2]]
             /\ requests'[j[1]][j[2]] = IF j = id THEN r ELSE requests[j[1]][j[2]]
  BY DEF TypeOK
<1>3. [j \in Kinds \X Key |-> status'[j[1]][j[2]]]
      = [[j \in Kinds \X Key |-> status[j[1]][j[2]]] EXCEPT ![id] = "pending"]
  BY <1>1, <1>2
<1>4. dep' = [j \in Kinds \X Key |->
                IF j = id THEN [t \in Tokens |-> Escrowed(r, t)] ELSE dep[j]]
  BY <1>1, <1>2 DEF Deposited, Pending
<1>5. dep'[id] = [t \in Tokens |-> Escrowed(r, t)] /\ dep'[id] \in [Tokens -> Nat]
  <2>1. [t \in Tokens |-> Escrowed(r, t)] \in [Tokens -> Nat]
    BY EscrowedNat
  <2>2. dep'[id] = [t \in Tokens |-> Escrowed(r, t)]
    <3> HIDE DEF dep
    <3> QED BY <1>1, <1>4
  <2> QED BY <2>1, <2>2
<1>6. dep' = [dep EXCEPT ![id] = dep'[id]]
  BY <1>1, <1>4, <1>5
<1>7. held' = [t \in Tokens |-> held[t] + dep'[id][t]]
  BY <1>5
<1>8. Promise!Open(id)
  BY <1>1, <1>3, <1>5, <1>6, <1>7 DEF Promise!Open, Deposited
<1> QED BY <1>1, <1>8 DEF Promise!Next

\* _store*PositionRequest opens a request of RequestEscrow.
LEMMA StoreOpens ==
    ASSUME TypeOK, RequestsMatchEvents, NEW k \in Kinds, NEW a \in Accounts,
           NEW r \in Request, Store(k, a, r)
    PROVE  Promise!Next
<1> DEFINE index == positionsIndex[k][a] + 1
           key == <<a, index>>
<1>1. index \in 1..MaxIndex /\ key \in Key
  BY RouterAssumption DEF Store, NextIndex, Key, TypeOK
<1>2. /\ requests' = [requests EXCEPT ![k][key] = r]
      /\ status' = [status EXCEPT ![k][key] = "pending"]
      /\ held' = [t \in Tokens |-> held[t] + Escrowed(r, t)]
      /\ feeReserves' = feeReserves
  BY <1>1 DEF Store, NextIndex
<1>3. status[k][key] = "none" /\ ~Pending(k, key)
  <2>1. key[2] > positionsIndex[k][key[1]]
    BY RouterAssumption DEF TypeOK
  <2> QED BY <1>1, <2>1 DEF RequestsMatchEvents
<1> HIDE DEF key
<1> QED BY <1>1, <1>2, <1>3, OpenStep

\* The sums of the abstract module are the sums of this one.
LEMMA PromiseSum == \A f, S : Promise!Sum(f, S) = Sum(f, S)
BY DEF Promise!Sum, Sum, Promise!MapThenSumSet, MapThenSumSet, Promise!MapThenFoldSet,
       MapThenFoldSet

\* Settling a request closes it in RequestEscrow and takes its deposit out.
LEMMA SettleCloses ==
    ASSUME TypeOK, RequestsMatchEvents, NEW k \in Kinds, NEW key \in Key, Settles(k, key)
    PROVE  Promise!Next
<1> DEFINE id == <<k, key>>
           r == requests[k][key]
           dep == [j \in Kinds \X Key |-> [t \in Tokens |-> Deposited(j, t)]]
<1>1. PICK outcome \in {"executed", "cancelled"}, kept \in KeptFees(r) :
        Settle(k, key, outcome, kept) /\ (outcome = "cancelled" => kept = 0)
  BY DEF Settles, Execute, Cancel, KeptFees
<1>2. id \in Kinds \X Key /\ Pending(k, key) /\ status[k][key] = "pending"
  BY DEF Settles, RequestsMatchEvents
<1>3. r \in Request /\ r.outToken \in Tokens /\ kept \in Nat
  BY <1>2, KeptFeesNat DEF TypeOK, Pending, Request
<1>4. /\ requests' = [requests EXCEPT ![k][key] = NoRequest]
      /\ status' = [status EXCEPT ![k][key] = outcome]
      /\ held' = [t \in Tokens |-> held[t] - Escrowed(r, t) + (IF t = r.outToken THEN kept ELSE 0)]
      /\ feeReserves' = [feeReserves EXCEPT ![r.outToken] = @ + kept]
  BY <1>1 DEF Settle
<1>5. ASSUME NEW j \in Kinds \X Key
      PROVE  /\ status'[j[1]][j[2]] = IF j = id THEN outcome ELSE status[j[1]][j[2]]
             /\ requests'[j[1]][j[2]] = IF j = id THEN NoRequest ELSE requests[j[1]][j[2]]
  BY <1>4 DEF TypeOK
<1>6. [j \in Kinds \X Key |-> status'[j[1]][j[2]]]
      = [j \in Kinds \X Key |-> IF j \in {id} THEN outcome
                                ELSE [i \in Kinds \X Key |-> status[i[1]][i[2]]][j]]
  BY <1>2, <1>5
<1>7. dep' = [j \in Kinds \X Key |-> IF j \in {id} THEN [t \in Tokens |-> 0] ELSE dep[j]]
  BY <1>2, <1>5 DEF Deposited, Pending
<1>8. ASSUME NEW t \in Tokens
      PROVE  Promise!DepositOf({id}, t) = Escrowed(r, t)
  <2> DEFINE f == [j \in {id} |-> dep[j][t]]
  <2>1. f[id] = Escrowed(r, t) /\ Escrowed(r, t) \in Nat
    BY <1>2, <1>3, EscrowedNat DEF Deposited
  <2>2. Promise!DepositOf({id}, t) = Sum(f, {id})
    BY PromiseSum DEF Promise!DepositOf
  <2> HIDE DEF f
  <2>3. \A j \in {id} : f[j] \in Int
    BY <2>1
  <2>4. Sum(f, {id}) = f[id]
    BY <2>3, SumOne
  <2> QED BY <2>1, <2>2, <2>4
<1>9. \A t \in Tokens : feeReserves'[t] - feeReserves[t] = IF t = r.outToken THEN kept ELSE 0
  BY <1>3, <1>4 DEF TypeOK
<1>10. held' = [t \in Tokens |-> held[t] - Promise!DepositOf({id}, t)
                                     + (feeReserves'[t] - feeReserves[t])]
  BY <1>4, <1>8, <1>9
<1>11. {id} \in SUBSET Promise!Pending
  BY <1>2 DEF Promise!Pending
<1>12. Promise!Close({id}, outcome)
  BY <1>6, <1>7, <1>10, <1>11 DEF Promise!Close, Promise!NoDeposit, Deposited
<1>13. \A t \in Tokens : feeReserves'[t] >= feeReserves[t]
  BY <1>3, <1>4 DEF TypeOK
<1>14. outcome = "cancelled" => feeReserves' = feeReserves
  BY <1>1, <1>3, <1>4 DEF TypeOK
<1>15. Promise!Execute({id}) \/ Promise!Cancel({id})
  BY <1>12, <1>13, <1>14 DEF Promise!Execute, Promise!Cancel
<1> QED BY <1>11, <1>15 DEF Promise!Next

\* Every step of the router is a step of RequestEscrow or a stutter.
LEMMA PromiseStep ==
    TypeOK /\ RequestsMatchEvents /\ [Next]_vars => [Promise!Next]_(Promise!escrowVars)
<1> SUFFICES ASSUME TypeOK, RequestsMatchEvents, [Next]_vars
             PROVE  [Promise!Next]_(Promise!escrowVars)
  OBVIOUS
<1>1. ASSUME NEW k \in Kinds, NEW a \in Accounts, NEW r \in Request, Store(k, a, r)
      PROVE  Promise!Next
  BY <1>1, StoreOpens
<1>2. ASSUME NEW k \in Kinds, NEW key \in Key, Settles(k, key)
      PROVE  Promise!Next
  BY <1>2, SettleCloses
<1>3. CASE LeavesRequests /\ UNCHANGED <<held, feeReserves>>
  BY <1>3 DEF LeavesRequests, Promise!escrowVars, Deposited, Pending
<1>4. ASSUME LeavesRequests, NEW t \in Tokens, WithdrawFees(t)
      PROVE  Promise!Next
  BY <1>4 DEF LeavesRequests, WithdrawFees, Promise!Next, Promise!CollectFees, Deposited, Pending
<1> QED BY <1>1, <1>2, <1>3, <1>4, StepCases

\* PositionRouter implements RequestEscrow: whatever the order of keeper loops,
\* direct calls, failed cancellations and moved pointers, no request is settled
\* twice and a settlement takes out of the pot exactly what its request put in.
THEOREM Implementation == Spec => ImplementsEscrow
<1>1. Init => Promise!Init
  BY DEF Init, Promise!Init, Promise!NoDeposit, Deposited, Pending
<1>2. TypeOK /\ RequestsMatchEvents /\ [Next]_vars => [Promise!Next]_(Promise!escrowVars)
  BY PromiseStep
<1> QED BY <1>1, <1>2, TypeCorrect, EventsCorrect, PTL
     DEF Spec, ImplementsEscrow, Promise!Spec

-----------------------------------------------------------------------------
(* The funds.  What a request has in the contract depends on its mapping    *)
(* entry alone, and a step changes one entry at most, so that one term of   *)
(* the sum changes: by what the step moves into the contract or out of it.  *)

Ids == Kinds \X Key
Deposits(t) == [id \in Ids |-> Deposited(id, t)]

\* There are finitely many requests.
LEMMA IdsFinite == IsFiniteSet(Ids)
<1>1. IsFiniteSet({"increase"} \cup {"decrease"})
  BY FS_Singleton, FS_Union
<1>2. IsFiniteSet(Kinds)
  <2>1. Kinds = {"increase"} \cup {"decrease"}
    BY DEF Kinds
  <2> QED BY <1>1, <2>1
<1>3. 1 \in Int /\ MaxIndex \in Int
  BY RouterAssumption
<1>4. IsFiniteSet(1..MaxIndex)
  BY <1>3, FS_Interval
<1>5. IsFiniteSet(Key)
  BY <1>4, RouterAssumption, FS_Product DEF Key
<1> QED BY <1>2, <1>5, FS_Product DEF Ids

\* What a request has in the contract is a natural number.
LEMMA DepositsNat ==
    ASSUME TypeOK, NEW t \in Tokens
    PROVE  \A id \in Ids : Deposits(t)[id] \in Nat
<1> SUFFICES ASSUME NEW id \in Ids
             PROVE  Deposited(id, t) \in Nat
  BY DEF Deposits
<1>1. requests[id[1]][id[2]] \in Request \cup {NoRequest}
  BY DEF TypeOK, Ids
<1> QED BY <1>1, EscrowedNat DEF Deposited, Pending

\* One entry of the mapping changes: so does one term of the sum.
LEMMA DepositChanges ==
    ASSUME TypeOK, TypeOK', NEW t \in Tokens, NEW k \in Kinds, NEW key \in Key, NEW r,
           requests' = [requests EXCEPT ![k][key] = r]
    PROVE  Sum(Deposits(t)', Ids) = Sum(Deposits(t), Ids)
                + Deposited(<<k, key>>, t)' - Deposited(<<k, key>>, t)
<1> DEFINE id == <<k, key>>
           f == Deposits(t)
           g == Deposits(t)'
<1>1. id \in Ids
  BY DEF Ids
<1>2. \A x \in Ids : f[x] \in Nat
  BY DepositsNat
<1>3. \A x \in Ids : g[x] \in Nat
  <2>1. ASSUME NEW x \in Ids
        PROVE  Deposited(x, t)' \in Nat
    <3>1. requests'[x[1]][x[2]] \in Request \cup {NoRequest}
      <4>1. requests' \in [Kinds -> [Key -> Request \cup {NoRequest}]]
        BY DEF TypeOK
      <4>2. x[1] \in Kinds /\ x[2] \in Key
        BY DEF Ids
      <4> QED BY <4>1, <4>2
    <3> QED BY <3>1, EscrowedNat DEF Deposited, Pending
  <2> QED BY <2>1 DEF Deposits, Ids
<1>4. ASSUME NEW x \in Ids \ {id}
      PROVE  g[x] = f[x]
  <2>1. requests'[x[1]][x[2]] = requests[x[1]][x[2]]
    BY DEF TypeOK, Ids
  <2>2. g[x] = Deposited(x, t)' /\ f[x] = Deposited(x, t)
    BY DEF Deposits, Ids
  <2> QED BY <2>1, <2>2 DEF Deposited, Pending
<1>5. g[id] = Deposited(<<k, key>>, t)' /\ f[id] = Deposited(<<k, key>>, t)
  BY <1>1 DEF Deposits, Ids
<1>6. \A x \in Ids : f[x] \in Int /\ g[x] \in Int
  BY <1>2, <1>3
<1> HIDE DEF f, g, id
<1>7. Sum(g, Ids) = Sum(f, Ids) + g[id] - f[id]
  BY <1>1, <1>4, <1>6, IdsFinite, SumChange
<1> QED BY <1>5, <1>7 DEF f, g

\* The invariant: a new request's entry was empty, which the events tell.
FundsInv == TypeOK /\ RequestsMatchEvents /\ EscrowBacked

\* The property, in the terms of the proof.
LEMMA BackedAs ==
    /\ EscrowBacked <=> \A t \in Tokens : held[t] = feeReserves[t] + Sum(Deposits(t), Ids)
    /\ EscrowBacked' <=> \A t \in Tokens : held'[t] = feeReserves'[t] + Sum(Deposits(t)', Ids)
  BY DEF EscrowBacked, Deposits, Ids

\* Creating a request brings in what its entry holds from then on.
LEMMA StoreBacked ==
    ASSUME FundsInv, TypeOK', NEW k \in Kinds, NEW a \in Accounts, NEW r \in Request,
           Store(k, a, r)
    PROVE  EscrowBacked'
<1> SUFFICES ASSUME NEW t \in Tokens
             PROVE  held'[t] = feeReserves'[t] + Sum(Deposits(t)', Ids)
  BY BackedAs
<1>1. PICK key \in Key : key = <<a, positionsIndex[k][a] + 1>>
  <2>1. positionsIndex[k][a] + 1 \in 1..MaxIndex
    <3>1. positionsIndex[k][a] \in 0..MaxIndex
      BY DEF FundsInv, TypeOK
    <3>2. positionsIndex[k][a] + 1 <= MaxIndex
      BY DEF Store, NextIndex
    <3>3. MaxIndex \in Nat
      BY RouterAssumption
    <3> QED BY <3>1, <3>2, <3>3
  <2> QED BY <2>1 DEF Key
<1>2. /\ requests' = [requests EXCEPT ![k][key] = r]
      /\ held'[t] = held[t] + Escrowed(r, t)
      /\ feeReserves' = feeReserves
  BY <1>1 DEF Store, NextIndex
<1>3. ~Pending(k, key)
  <2>1. key[2] > positionsIndex[k][key[1]]
    <3>1. positionsIndex[k][a] \in Nat
      BY RouterAssumption DEF TypeOK, FundsInv
    <3>2. key[1] = a /\ key[2] = positionsIndex[k][a] + 1
      BY <1>1
    <3> QED BY <3>1, <3>2
  <2> QED BY <1>1, <2>1 DEF RequestsMatchEvents, FundsInv
<1>4. Deposited(<<k, key>>, t) = 0
  BY <1>3 DEF Deposited
<1>5. Deposited(<<k, key>>, t)' = Escrowed(r, t)
  <2>1. requests'[k][key] = r /\ r # NoRequest
    BY <1>1, <1>2, RouterAssumption DEF TypeOK, FundsInv
  <2> QED BY <2>1 DEF Deposited, Pending
<1>6. Sum(Deposits(t)', Ids) = Sum(Deposits(t), Ids) + Escrowed(r, t) - 0
  BY <1>1, <1>2, <1>4, <1>5, DepositChanges DEF FundsInv
<1>7. /\ held[t] = feeReserves[t] + Sum(Deposits(t), Ids) /\ feeReserves[t] \in Nat
      /\ Sum(Deposits(t), Ids) \in Int /\ Escrowed(r, t) \in Nat
  <2>1. \A x \in Ids : Deposits(t)[x] \in Int
    BY DepositsNat DEF FundsInv
  <2> QED BY <2>1, BackedAs, IdsFinite, SumInt, EscrowedNat DEF FundsInv, TypeOK
<1> QED BY <1>2, <1>6, <1>7

\* Settling one takes out what its entry held; the fee kept back is withdrawable.
LEMMA SettleBacked ==
    ASSUME FundsInv, TypeOK', NEW k \in Kinds, NEW key \in Key, Settles(k, key)
    PROVE  EscrowBacked'
<1> SUFFICES ASSUME NEW t \in Tokens
             PROVE  held'[t] = feeReserves'[t] + Sum(Deposits(t)', Ids)
  BY BackedAs
<1> DEFINE r == requests[k][key]
<1>1. PICK outcome \in {"executed", "cancelled"}, kept \in KeptFees(r) :
        Settle(k, key, outcome, kept)
  BY DEF Settles, Execute, Cancel, KeptFees
<1>2. Pending(k, key) /\ r \in Request /\ r.outToken \in Tokens
  BY DEF Settles, FundsInv, TypeOK, Pending, Request
<1>3. kept \in Nat /\ Escrowed(r, t) \in Nat
  BY <1>2, KeptFeesNat, EscrowedNat
<1> DEFINE gain == IF t = r.outToken THEN kept ELSE 0
<1>4. /\ requests' = [requests EXCEPT ![k][key] = NoRequest]
      /\ held'[t] = held[t] - Escrowed(r, t) + gain
      /\ feeReserves'[t] = feeReserves[t] + gain
      /\ gain \in Nat
  <2>1. /\ requests' = [requests EXCEPT ![k][key] = NoRequest]
        /\ held' = [x \in Tokens |-> held[x] - Escrowed(r, x) + (IF x = r.outToken THEN kept ELSE 0)]
        /\ feeReserves' = [feeReserves EXCEPT ![r.outToken] = @ + kept]
    BY <1>1 DEF Settle
  <2>2. feeReserves \in [Tokens -> Nat]
    BY DEF FundsInv, TypeOK
  <2>3. held'[t] = held[t] - Escrowed(r, t) + gain
    BY <2>1
  <2> HIDE DEF r
  <2>4. feeReserves'[t] = feeReserves[t] + gain
    BY <1>2, <1>3, <2>1, <2>2
  <2>5. gain \in Nat
    BY <1>3
  <2> QED BY <2>1, <2>3, <2>4, <2>5
<1>5. Deposited(<<k, key>>, t) = Escrowed(r, t)
  BY <1>2 DEF Deposited
<1>6. Deposited(<<k, key>>, t)' = 0
  <2>1. requests'[k][key] = NoRequest
    BY <1>4 DEF FundsInv, TypeOK
  <2> QED BY <2>1 DEF Deposited, Pending
<1> HIDE DEF r, gain
<1>7. Sum(Deposits(t)', Ids) = Sum(Deposits(t), Ids) + 0 - Escrowed(r, t)
  BY <1>4, <1>5, <1>6, DepositChanges DEF FundsInv
<1>8. /\ held[t] = feeReserves[t] + Sum(Deposits(t), Ids) /\ feeReserves[t] \in Nat
      /\ Sum(Deposits(t), Ids) \in Int
  <2>1. \A x \in Ids : Deposits(t)[x] \in Int
    BY DepositsNat DEF FundsInv
  <2> QED BY <2>1, BackedAs, IdsFinite, SumInt DEF FundsInv, TypeOK
<1> QED BY <1>3, <1>4, <1>7, <1>8

\* Every step keeps the funds exact.
LEMMA FundsStep == FundsInv /\ [Next]_vars => FundsInv'
<1> SUFFICES ASSUME FundsInv, [Next]_vars PROVE EscrowBacked'
  BY TypeStep, EventsStep DEF FundsInv
<1>1. TypeOK /\ TypeOK'
  BY TypeStep DEF FundsInv
<1>2. CASE LeavesRequests /\ UNCHANGED <<held, feeReserves>>
  BY <1>2 DEF LeavesRequests, FundsInv, EscrowBacked, Deposited, Pending
<1>3. ASSUME LeavesRequests, NEW token \in Tokens, WithdrawFees(token)
      PROVE  EscrowBacked'
  <2> SUFFICES ASSUME NEW t \in Tokens
               PROVE  held'[t] = feeReserves'[t] + Sum(Deposits(t)', Ids)
    BY BackedAs
  <2>1. Deposits(t)' = Deposits(t)
    BY <1>3 DEF LeavesRequests, Deposits, Ids, Deposited, Pending
  <2>2. /\ held[t] = feeReserves[t] + Sum(Deposits(t), Ids) /\ feeReserves[t] \in Nat
        /\ Sum(Deposits(t), Ids) \in Int
    <3>1. \A x \in Ids : Deposits(t)[x] \in Int
      BY <1>1, DepositsNat
    <3> QED BY <3>1, <1>1, BackedAs, IdsFinite, SumInt DEF FundsInv, TypeOK
  <2>3. \/ held'[t] = held[t] /\ feeReserves'[t] = feeReserves[t]
        \/ held'[t] = held[t] - feeReserves[t] /\ feeReserves'[t] = 0
    BY <1>1, <1>3 DEF WithdrawFees, TypeOK
  <2> QED BY <2>1, <2>2, <2>3
<1> QED BY <1>1, <1>2, <1>3, StoreBacked, SettleBacked, StepCases

\* Whatever was settled, cancelled, stranded or withdrawn, and in whatever order:
\* what the contract holds of each token is what the stored requests put in plus
\* the withdrawable deposit fees (_transferIn and _transferOut, PositionRouter.sol).
THEOREM EscrowAlwaysBacked == Spec => []EscrowBacked
<1>1. Init => FundsInv
  <2> SUFFICES ASSUME Init PROVE EscrowBacked
    BY TypeInit, EventsInit DEF FundsInv
  <2> SUFFICES ASSUME NEW t \in Tokens
               PROVE  held[t] = feeReserves[t] + Sum(Deposits(t), Ids)
    BY BackedAs
  <2>1. \A id \in Ids : Deposits(t)[id] = 0
    BY DEF Init, Deposits, Ids, Deposited, Pending
  <2>2. Sum(Deposits(t), Ids) = 0
    BY <2>1, IdsFinite, SumZero
  <2> QED BY <2>2 DEF Init
<1>2. FundsInv => EscrowBacked
  BY DEF FundsInv
<1> QED BY <1>1, <1>2, FundsStep, PTL DEF Spec

-----------------------------------------------------------------------------
(* The steps of the specification, as seen by the queues: a key is appended *)
(* between loops, the loop clears the slot it leaves, or no slot changes.   *)

\* The cases of a step as the queues see it.
LEMMA QueueCases ==
    ASSUME TypeOK, [Next]_vars
    PROVE  \/ Idle /\ \E k \in Kinds, a \in Accounts, r \in Request : Store(k, a, r)
           \/ \E k \in Kinds : InLoop(k) /\ Advance(k)
           \/ /\ UNCHANGED <<keys, positionsIndex>>
              /\ StartValues = {} => \A k \in Kinds : Cursor(k)' = Cursor(k)
<1>1. ASSUME NEW a \in Accounts,
             CreateIncreasePosition(a) \/ CreateIncreasePositionETH(a) \/ CreateDecreasePosition(a)
      PROVE  Idle /\ \E k \in Kinds, r \in Request : Store(k, a, r)
  BY <1>1, CreateType
<1>2. ASSUME NEW sender \in Senders, NEW k \in Kinds, NEW key \in Key,
             ExecutePosition(sender, k, key) \/ CancelPosition(sender, k, key)
      PROVE  UNCHANGED <<keys, positionsIndex, loop, start>>
  BY <1>2 DEF ExecutePosition, CancelPosition
<1>3. ASSUME NEW sender \in Senders, NEW k \in Kinds, NEW end \in 1..(Len(keys[k]) + 1),
             ExecutePositions(sender, k, end)
      PROVE  UNCHANGED <<keys, positionsIndex>> /\ \A q \in Kinds : Cursor(q)' = Cursor(q)
  BY <1>3 DEF ExecutePositions, Idle, NoLoop, Cursor, queueVars, Kinds
<1>4. ASSUME NEW k \in Kinds, LoopStep(k)
      PROVE  \/ InLoop(k) /\ Advance(k)
             \/ UNCHANGED <<keys, positionsIndex>> /\ \A q \in Kinds : Cursor(q)' = Cursor(q)
  <2>1. CASE LoopSkip(k) \/ LoopDrop(k) \/ LoopExecute(k) \/ LoopCancel(k)
    BY <2>1 DEF LoopSkip, LoopDrop, LoopExecute, LoopCancel
  <2>2. CASE LoopEnd(k)
    BY <2>2 DEF LoopEnd, NoLoop, Cursor, Kinds, TypeOK
  <2> QED BY <1>4, <2>1, <2>2 DEF LoopStep
<1>5. Admin => UNCHANGED <<keys, positionsIndex>> /\ (StartValues = {} => UNCHANGED <<loop, start>>)
  BY DEF Admin, SetMinExecutionFee, SetIsLeverageEnabled, SetDelayValues, SetCallbackGasLimit,
         SetCustomCallbackGasLimit, SetConfig, SetPositionKeeper, SetRequestKeysStartValues,
         queueVars
<1>6. ASSUME NEW t \in Tokens, WithdrawFees(t)
      PROVE  UNCHANGED <<keys, positionsIndex, loop, start>>
  BY <1>6 DEF WithdrawFees, queueVars
<1>7. NextBlock \/ UNCHANGED vars => UNCHANGED <<keys, positionsIndex, loop, start>>
  BY DEF NextBlock, vars, queueVars
<1>8. UNCHANGED <<loop, start>> => \A k \in Kinds : Cursor(k)' = Cursor(k)
  BY DEF Cursor
<1> QED BY <1>1, <1>2, <1>3, <1>4, <1>5, <1>6, <1>7, <1>8 DEF Next

\* What the loop's step does to the slots of the queues.
LEMMA AdvanceSlots ==
    ASSUME TypeOK, NEW k \in Kinds, InLoop(k), Advance(k)
    PROVE  /\ loop.index + 1 \in DOMAIN keys[k]
           /\ \A q \in Kinds : DOMAIN keys'[q] = DOMAIN keys[q] /\ Len(keys'[q]) = Len(keys[q])
           /\ \A q \in Kinds : \A i \in DOMAIN keys[q] :
                keys'[q][i] = IF q = k /\ i = loop.index + 1 THEN NoKey ELSE keys[q][i]
<1>1. loop.index + 1 \in 1..Len(keys[k]) /\ keys[k] \in Seq(Key \cup {NoKey})
  BY DEF TypeOK, InLoop
<1>2. keys' = [keys EXCEPT ![k] = [@ EXCEPT ![loop.index + 1] = NoKey]]
  BY DEF Advance
<1> QED BY <1>1, <1>2 DEF TypeOK

\* What a store does to them.
LEMMA StoreSlots ==
    ASSUME TypeOK, NEW k \in Kinds, NEW a \in Accounts, NEW r \in Request, Store(k, a, r)
    PROVE  \E key \in Key :
              /\ key = <<a, positionsIndex[k][a] + 1>>
              /\ positionsIndex' = [positionsIndex EXCEPT ![k][a] = positionsIndex[k][a] + 1]
              /\ \A q \in Kinds :
                   /\ keys'[q] \in Seq(Key \cup {NoKey})
                   /\ Len(keys'[q]) = IF q = k THEN Len(keys[q]) + 1 ELSE Len(keys[q])
                   /\ \A i \in DOMAIN keys'[q] :
                        keys'[q][i] = IF q = k /\ i = Len(keys[q]) + 1 THEN key ELSE keys[q][i]
<1> DEFINE index == positionsIndex[k][a] + 1
           key == <<a, index>>
<1>1. index \in 1..MaxIndex /\ key \in Key
  BY RouterAssumption DEF Store, NextIndex, Key, TypeOK
<1>2. keys' = [keys EXCEPT ![k] = Append(@, key)] /\ positionsIndex' = [positionsIndex EXCEPT ![k][a] = index]
  BY <1>1 DEF Store, NextIndex
<1>3. key = <<a, index>>
  OBVIOUS
<1> HIDE DEF key
<1>4. ASSUME NEW q \in Kinds
      PROVE  /\ keys'[q] \in Seq(Key \cup {NoKey})
             /\ Len(keys'[q]) = IF q = k THEN Len(keys[q]) + 1 ELSE Len(keys[q])
             /\ \A i \in DOMAIN keys'[q] :
                  keys'[q][i] = IF q = k /\ i = Len(keys[q]) + 1 THEN key ELSE keys[q][i]
  <2>1. keys[q] \in Seq(Key \cup {NoKey})
    BY DEF TypeOK
  <2>2. CASE q = k
    <3>1. keys'[q] = Append(keys[q], key)
      BY <1>2, <2>2 DEF TypeOK
    <3> QED BY <1>1, <2>1, <2>2, <3>1
  <2>3. CASE q # k
    <3>1. keys'[q] = keys[q]
      BY <1>2, <2>3 DEF TypeOK
    <3> QED BY <2>1, <2>3, <3>1
  <2> QED BY <2>2, <2>3
<1> QED BY <1>1, <1>2, <1>3, <1>4

\* Every step keeps the queues cleared up to the cursor and full from there on.
LEMMA NothingLeftStep == TypeOK /\ NothingLeftBehind /\ [Next]_vars => NothingLeftBehind'
<1> SUFFICES ASSUME TypeOK, NothingLeftBehind, [Next]_vars, StartValues = {}, NEW q \in Kinds
             PROVE  /\ Cursor(q)' <= Len(keys'[q])
                    /\ \A i \in DOMAIN keys'[q] : keys'[q][i] = NoKey <=> i <= Cursor(q)'
  BY DEF NothingLeftBehind
<1>0. /\ Cursor(q) <= Len(keys[q]) /\ Cursor(q) \in Nat /\ keys[q] \in Seq(Key \cup {NoKey})
      /\ \A i \in DOMAIN keys[q] : keys[q][i] = NoKey <=> i <= Cursor(q)
  BY DEF NothingLeftBehind, TypeOK, Cursor
<1>1. ASSUME Idle, NEW k \in Kinds, NEW a \in Accounts, NEW r \in Request, Store(k, a, r)
      PROVE  /\ Cursor(q)' <= Len(keys'[q])
             /\ \A i \in DOMAIN keys'[q] : keys'[q][i] = NoKey <=> i <= Cursor(q)'
  <2>1. Cursor(q)' = Cursor(q)
    BY <1>1 DEF Store, Cursor
  <2>2. PICK key \in Key :
          /\ keys'[q] \in Seq(Key \cup {NoKey})
          /\ Len(keys'[q]) = IF q = k THEN Len(keys[q]) + 1 ELSE Len(keys[q])
          /\ \A i \in DOMAIN keys'[q] :
               keys'[q][i] = IF q = k /\ i = Len(keys[q]) + 1 THEN key ELSE keys[q][i]
    BY <1>1, StoreSlots
  <2>3. key # NoKey
    BY RouterAssumption
  <2> QED BY <1>0, <2>1, <2>2, <2>3
<1>2. ASSUME NEW k \in Kinds, InLoop(k), Advance(k)
      PROVE  /\ Cursor(q)' <= Len(keys'[q])
             /\ \A i \in DOMAIN keys'[q] : keys'[q][i] = NoKey <=> i <= Cursor(q)'
  <2>1. /\ DOMAIN keys'[q] = DOMAIN keys[q] /\ Len(keys'[q]) = Len(keys[q])
        /\ \A i \in DOMAIN keys[q] :
             keys'[q][i] = IF q = k /\ i = loop.index + 1 THEN NoKey ELSE keys[q][i]
    BY <1>2, AdvanceSlots
  <2>2. CASE q = k
    <3>1. Cursor(q) = loop.index /\ Cursor(q)' = loop.index + 1 /\ loop.index < loop.end
          /\ loop.end <= Len(keys[q]) /\ loop.index \in Nat /\ loop.end \in Nat
      BY <1>2, <2>2 DEF InLoop, Advance, Cursor, TypeOK
    <3> QED BY <1>0, <2>1, <2>2, <3>1
  <2>3. CASE q # k
    <3>1. Cursor(q)' = Cursor(q)
      BY <1>2, <2>3 DEF InLoop, Advance, Cursor
    <3> QED BY <1>0, <2>1, <2>3, <3>1
  <2> QED BY <2>2, <2>3
<1>3. CASE UNCHANGED <<keys, positionsIndex>> /\ \A k \in Kinds : Cursor(k)' = Cursor(k)
  BY <1>0, <1>3
<1> QED BY <1>1, <1>2, <1>3, QueueCases

\* When the admin leaves the pointers alone, the keeper's loops go through each
\* queue in creation order and leave no unprocessed slot behind the pointer.
THEOREM QueueInOrder == Spec => []NothingLeftBehind
<1>1. Init => NothingLeftBehind
  BY DEF Init, NothingLeftBehind, Cursor, NoLoop, Kinds
<1>2. TypeOK /\ NothingLeftBehind /\ [Next]_vars => NothingLeftBehind'
  BY NothingLeftStep
<1> QED BY <1>1, <1>2, TypeCorrect, PTL DEF Spec

\* Every step keeps the keys of a queue distinct and issued.
LEMMA KeysStep == TypeOK /\ KeysIssuedOnce /\ [Next]_vars => KeysIssuedOnce'
<1> SUFFICES ASSUME TypeOK, KeysIssuedOnce, [Next]_vars, NEW q \in Kinds,
                    NEW i \in DOMAIN keys'[q], keys'[q][i] # NoKey
             PROVE  /\ keys'[q][i][2] <= positionsIndex'[q][keys'[q][i][1]]
                    /\ \A j \in DOMAIN keys'[q] : keys'[q][j] = keys'[q][i] => j = i
  BY DEF KeysIssuedOnce
<1>0. /\ keys[q] \in Seq(Key \cup {NoKey})
      /\ \A j \in DOMAIN keys[q] : keys[q][j] # NoKey =>
           /\ keys[q][j] \in Key /\ keys[q][j][1] \in Accounts
           /\ keys[q][j][2] <= positionsIndex[q][keys[q][j][1]]
           /\ \A l \in DOMAIN keys[q] : keys[q][l] = keys[q][j] => l = j
  BY DEF KeysIssuedOnce, TypeOK, Key
<1>1. ASSUME NEW k \in Kinds, NEW a \in Accounts, NEW r \in Request, Store(k, a, r)
      PROVE  /\ keys'[q][i][2] <= positionsIndex'[q][keys'[q][i][1]]
             /\ \A j \in DOMAIN keys'[q] : keys'[q][j] = keys'[q][i] => j = i
  <2> DEFINE index == positionsIndex[k][a] + 1
             new == Len(keys[q]) + 1
  <2>0. PICK key \in Key :
          /\ key = <<a, index>>
          /\ positionsIndex' = [positionsIndex EXCEPT ![k][a] = index]
          /\ keys'[q] \in Seq(Key \cup {NoKey})
          /\ Len(keys'[q]) = IF q = k THEN new ELSE Len(keys[q])
          /\ \A j \in DOMAIN keys'[q] : keys'[q][j] = IF q = k /\ j = new THEN key ELSE keys[q][j]
    BY <1>1, StoreSlots
  <2>1. /\ key \in Key /\ index \in Nat /\ positionsIndex[k][a] \in Nat
        /\ positionsIndex' = [positionsIndex EXCEPT ![k][a] = index]
        /\ \A j \in DOMAIN keys'[q] : keys'[q][j] = IF q = k /\ j = new THEN key ELSE keys[q][j]
        /\ Len(keys'[q]) = IF q = k THEN new ELSE Len(keys[q])
        /\ keys'[q] \in Seq(Key \cup {NoKey})
        /\ Len(keys[q]) \in Nat
    <3>1. positionsIndex[k][a] \in Nat /\ index \in Nat
      BY RouterAssumption DEF TypeOK
    <3>2. Len(keys[q]) \in Nat
      BY <1>0
    <3> HIDE DEF index, new
    <3> QED BY <2>0, <3>1, <3>2
  <2>2. \A j \in DOMAIN keys[q] : keys[q][j] # NoKey /\ q = k => keys[q][j] # key
    BY <1>0, <2>0, <2>1
  <2>3. ASSUME NEW b \in Accounts PROVE positionsIndex[q][b] <= positionsIndex'[q][b]
    <3>1. positionsIndex[q][b] \in Nat
      BY RouterAssumption DEF TypeOK
    <3>2. positionsIndex'[q][b] = IF q = k /\ b = a THEN positionsIndex[q][b] + 1 ELSE positionsIndex[q][b]
      BY <2>1 DEF TypeOK
    <3> QED BY <3>1, <3>2
  <2>4. DOMAIN keys'[q] = IF q = k THEN (DOMAIN keys[q]) \cup {new} ELSE DOMAIN keys[q]
    <3>1. DOMAIN keys'[q] = 1..Len(keys'[q]) /\ DOMAIN keys[q] = 1..Len(keys[q])
      BY <1>0, <2>1
    <3>2. 1..new = (1..Len(keys[q])) \cup {new}
      BY <2>1
    <3>3. Len(keys'[q]) = IF q = k THEN new ELSE Len(keys[q])
      BY <2>1
    <3> QED BY <3>1, <3>2, <3>3
  <2>5. CASE q = k /\ i = new
    <3>1. keys'[q][i] = key /\ positionsIndex'[q][a] = index
      BY <2>1, <2>5 DEF TypeOK
    <3>2. \A j \in DOMAIN keys'[q] : keys'[q][j] = key => j = new
      <4> SUFFICES ASSUME NEW j \in DOMAIN keys'[q], keys'[q][j] = key, j # new PROVE FALSE
        OBVIOUS
      <4>1. j \in DOMAIN keys[q] /\ keys[q][j] = key /\ key # NoKey
        BY <2>1, <2>4, RouterAssumption
      <4> QED BY <2>2, <2>5, <4>1
    <3> QED BY <2>0, <2>1, <2>5, <3>1, <3>2
  <2>6. CASE ~(q = k /\ i = new)
    <3>1. i \in DOMAIN keys[q] /\ keys'[q][i] = keys[q][i]
      BY <2>1, <2>4, <2>6
    <3>2. keys[q][i][2] <= positionsIndex'[q][keys[q][i][1]]
      <4>1. positionsIndex[q][keys[q][i][1]] \in Nat /\ positionsIndex'[q][keys[q][i][1]] \in Nat
        <5>1. keys[q][i][1] \in Accounts
          BY <1>0, <3>1 DEF Key
        <5>2. /\ positionsIndex \in [Kinds -> [Accounts -> Nat]]
              /\ positionsIndex' \in [Kinds -> [Accounts -> Nat]]
          BY <2>1, RouterAssumption DEF TypeOK
        <5> QED BY <1>0, <5>1, <5>2
      <4>2. keys[q][i][2] \in Nat
        BY <1>0, <3>1 DEF Key
      <4> QED BY <1>0, <2>3, <3>1, <4>1, <4>2
    <3>3. \A j \in DOMAIN keys'[q] : keys'[q][j] = keys'[q][i] => j = i
      BY <1>0, <2>1, <2>2, <2>4, <3>1
    <3> QED BY <3>1, <3>2, <3>3
  <2> QED BY <2>5, <2>6
<1>2. ASSUME NEW k \in Kinds, InLoop(k), Advance(k)
      PROVE  /\ keys'[q][i][2] <= positionsIndex'[q][keys'[q][i][1]]
             /\ \A j \in DOMAIN keys'[q] : keys'[q][j] = keys'[q][i] => j = i
  <2>1. /\ DOMAIN keys'[q] = DOMAIN keys[q]
        /\ \A j \in DOMAIN keys[q] :
             keys'[q][j] = IF q = k /\ j = loop.index + 1 THEN NoKey ELSE keys[q][j]
    BY <1>2, AdvanceSlots
  <2>2. positionsIndex' = positionsIndex
    BY <1>2 DEF Advance
  <2>3. keys'[q][i] = keys[q][i] /\ \A j \in DOMAIN keys[q] : keys'[q][j] \in {NoKey, keys[q][j]}
    BY <2>1
  <2> QED BY <1>0, <2>1, <2>2, <2>3
<1>3. CASE UNCHANGED <<keys, positionsIndex>>
  BY <1>0, <1>3
<1> QED BY <1>1, <1>2, <1>3, QueueCases

\* A key is issued to one request only and stands in one slot only, so no loop
\* meets a request twice, also after the admin has moved a pointer back.
THEOREM KeysUnique == Spec => []KeysIssuedOnce
<1>1. Init => KeysIssuedOnce
  BY DEF Init, KeysIssuedOnce, Kinds
<1>2. TypeOK /\ KeysIssuedOnce /\ [Next]_vars => KeysIssuedOnce'
  BY KeysStep
<1> QED BY <1>1, <1>2, TypeCorrect, PTL DEF Spec
-----------------------------------------------------------------------------
(* What the loop may leave behind.                                         *)

\* A key leaves a queue only when the loop passes its slot.
LEMMA LeavesAtCursor ==
    ASSUME TypeOK, [Next]_vars, NEW k \in Kinds, NEW key \in Key,
           InQueue(k, key), ~InQueue(k, key)'
    PROVE  LoopStep(k) /\ InLoop(k) /\ CurrentKey(k) = key
<1>1. PICK i \in DOMAIN keys[k] : keys[k][i] = key
  BY DEF InQueue
<1>2. ~\E j \in DOMAIN keys'[k] : keys'[k][j] = key
  BY DEF InQueue
<1>3. keys[k] \in Seq(Key \cup {NoKey}) /\ key # NoKey
  BY RouterAssumption DEF TypeOK
<1>4. ASSUME NEW q \in Kinds, NEW a \in Accounts, NEW r \in Request, Store(q, a, r)
      PROVE  FALSE
  <2>1. PICK new \in Key :
          /\ keys'[k] \in Seq(Key \cup {NoKey})
          /\ Len(keys'[k]) = IF k = q THEN Len(keys[k]) + 1 ELSE Len(keys[k])
          /\ \A j \in DOMAIN keys'[k] :
               keys'[k][j] = IF k = q /\ j = Len(keys[k]) + 1 THEN new ELSE keys[k][j]
    BY <1>4, StoreSlots
  <2>2. i \in 1..Len(keys[k]) /\ Len(keys[k]) \in Nat
    BY <1>1, <1>3
  <2>3. i \in DOMAIN keys'[k] /\ i # Len(keys[k]) + 1
    BY <2>1, <2>2
  <2> QED BY <1>1, <1>2, <2>1, <2>3
<1>5. CASE UNCHANGED keys
  BY <1>1, <1>2, <1>5
<1>6. ASSUME NEW q \in Kinds, InLoop(q), Advance(q)
      PROVE  q = k /\ CurrentKey(k) = key
  <2>1. /\ DOMAIN keys'[k] = DOMAIN keys[k]
        /\ \A j \in DOMAIN keys[k] :
             keys'[k][j] = IF k = q /\ j = loop.index + 1 THEN NoKey ELSE keys[k][j]
    BY <1>6, AdvanceSlots
  <2>2. k = q /\ i = loop.index + 1
    BY <1>1, <1>2, <2>1
  <2> QED BY <1>1, <2>2 DEF CurrentKey
<1>7. ASSUME NEW q \in Kinds, LoopStep(q)
      PROVE  InLoop(q) /\ Advance(q)
  BY <1>5, <1>7, <1>1, <1>2
     DEF LoopStep, LoopSkip, LoopExecute, LoopCancel, LoopDrop, LoopEnd
<1>8. (\E q \in Kinds : LoopStep(q)) \/ (\E q \in Kinds, a \in Accounts, r \in Request : Store(q, a, r))
      \/ UNCHANGED keys
  <2>1. ASSUME NEW a \in Accounts,
               CreateIncreasePosition(a) \/ CreateIncreasePositionETH(a) \/ CreateDecreasePosition(a)
        PROVE  \E q \in Kinds, r \in Request : Store(q, a, r)
    BY <2>1, CreateType
  <2>2. ASSUME NEW sender \in Senders, NEW q \in Kinds, NEW c \in Key,
               ExecutePosition(sender, q, c) \/ CancelPosition(sender, q, c)
        PROVE  UNCHANGED keys
    BY <2>2 DEF ExecutePosition, CancelPosition
  <2>3. ASSUME NEW sender \in Senders, NEW q \in Kinds, NEW end \in 1..(Len(keys[q]) + 1),
               ExecutePositions(sender, q, end)
        PROVE  UNCHANGED keys
    BY <2>3 DEF ExecutePositions, queueVars
  <2>4. Admin => UNCHANGED keys
    BY DEF Admin, SetMinExecutionFee, SetIsLeverageEnabled, SetDelayValues, SetCallbackGasLimit,
           SetCustomCallbackGasLimit, SetConfig, SetPositionKeeper, SetRequestKeysStartValues,
           queueVars
  <2>5. ASSUME NEW t \in Tokens, WithdrawFees(t) PROVE UNCHANGED keys
    BY <2>5 DEF WithdrawFees, queueVars
  <2>6. NextBlock \/ UNCHANGED vars => UNCHANGED keys
    BY DEF NextBlock, vars, queueVars
  <2> QED BY <2>1, <2>2, <2>3, <2>4, <2>5, <2>6 DEF Next
<1> QED BY <1>4, <1>5, <1>6, <1>7, <1>8

\* Whatever the order of executions, errors, expiries and pointers: the keeper's
\* loop forgets a request that is still stored only if its cancellation could
\* revert (the empty catch of executeIncreasePositions, executeDecreasePositions).
THEOREM StrandsOnlyFailed == Spec => OnlyFailedCancelStrands
<1>1. ASSUME TypeOK, [Next]_vars, NEW k \in Kinds, NEW key \in Key,
             InQueue(k, key), ~InQueue(k, key)', Pending(k, key)'
      PROVE  CancelMayRevert(k, requests[k][key])
  <2>1. LoopStep(k) /\ InLoop(k) /\ CurrentKey(k) = key
    BY <1>1, LeavesAtCursor
  <2>2. CASE LoopSkip(k)
    BY <1>1, <2>1, <2>2, RouterAssumption DEF LoopSkip, CurrentPending, Pending
  <2>3. CASE LoopExecute(k) \/ LoopCancel(k)
    <3>1. requests' = [requests EXCEPT ![k][key] = NoRequest]
      BY <2>1, <2>3 DEF LoopExecute, LoopCancel, Execute, Cancel, Settle
    <3>2. requests'[k][key] = NoRequest
      BY <1>1, <3>1 DEF TypeOK
    <3> QED BY <1>1, <3>2 DEF Pending
  <2>4. CASE LoopDrop(k)
    BY <2>1, <2>4 DEF LoopDrop
  <2>5. CASE LoopEnd(k)
    BY <1>1, <2>5 DEF LoopEnd, InQueue
  <2> QED BY <2>1, <2>2, <2>3, <2>4, <2>5 DEF LoopStep
<1>2. TypeOK /\ [Next]_vars =>
        [\A k \in Kinds, key \in Key :
           InQueue(k, key) /\ ~InQueue(k, key)' /\ Pending(k, key)'
              => CancelMayRevert(k, requests[k][key])]_vars
  BY <1>1
<1> QED BY <1>2, TypeCorrect, PTL DEF Spec, OnlyFailedCancelStrands
=============================================================================
