--------------------------- MODULE PositionRouter ---------------------------
(***************************************************************************)
(* The two request queues of PositionRouter.sol and the funds that          *)
(* BasePositionManager.sol holds for them.                                  *)
(*                                                                          *)
(* A trader pays collateral and an execution fee into the contract when a   *)
(* request is created.  A keeper drains a queue from its start pointer with *)
(* a loop of try/catch calls; the owner may settle the request directly     *)
(* after a public delay.  The loop is one transaction: `loop` holds its     *)
(* program counter and every other action waits until it has ended.         *)
(*                                                                          *)
(* "increase" and "decrease" are the two copies of the code; a decrease     *)
(* request escrows no collateral (amountIn = 0) and its execution passes    *)
(* the vault's output straight through.  Whether the vault, the router, the *)
(* swap or the price check accepts an execution is outside this module, so  *)
(* an execution may always revert.                                          *)
(***************************************************************************)
EXTENDS Integers, Sequences, FiniteSets, Sums

CONSTANTS
    Accounts,         \* traders
    Keepers,          \* addresses the admin makes position keepers
    Tokens, WETH,     \* collateral tokens, WETH among them
    RefusingTokens,   \* tokens whose transfer to a trader may revert
    CallbackTargets,  \* contracts a request may name as callbackTarget
    NoTarget,         \* callbackTarget = address(0)
    NoKey,            \* bytes32(0), what a deleted array slot holds
    NoRequest,        \* a deleted mapping entry (account = address(0))
    Paths,            \* by kind: the <<path[0], path[last]>> a request may name
    Amounts,          \* collateral amounts a trader may send
    SwapOutputs,      \* what the vault may return for a two-token path
    ExecutionFees,    \* execution fees a trader may offer
    BPS, DepositFee,  \* BASIS_POINTS_DIVISOR and depositFee
    InitialConfig,    \* the configuration after deployment
    MinFees, DelayValues, GasLimits, StartValues,  \* what the admin may set
    MaxIndex,         \* bound: requests per account and kind
    MaxTime, MaxBlock,\* bounds: the clock and the block number
    Horizon,          \* bound: no request is created after it
    MaxAdminOps       \* bound: calls the admin makes

Kinds == {"increase", "decrease"}
Senders == Accounts \cup Keepers
Key == Accounts \X (1..MaxIndex)          \* getRequestKey(account, index)
Status == {"none", "pending", "executed", "cancelled"}

DelayConfig == [minBlockDelayKeeper : Nat, minTimeDelayPublic : Nat, maxTimeDelay : Nat]

Config == [minExecutionFee : Nat, delays : DelayConfig, isLeverageEnabled : BOOLEAN,
           callbackGasLimit : Nat, customCallbackGasLimits : [CallbackTargets -> Nat]]

Request == [token : Tokens,               \* path[0]
            outToken : Tokens,            \* path[path.length - 1]
            amountIn : Nat, executionFee : Nat,
            blockNumber : Nat, blockTime : Nat,
            hasCollateralInETH : BOOLEAN,
            callbackTarget : CallbackTargets \cup {NoTarget}]

ASSUME RouterAssumption ==
    /\ IsFiniteSet(Accounts)
    /\ WETH \in Tokens /\ RefusingTokens \subseteq Tokens
    /\ Paths \in [Kinds -> SUBSET (Tokens \X Tokens)]
    /\ NoTarget \notin CallbackTargets /\ NoKey \notin Key /\ NoRequest \notin Request
    /\ Amounts \subseteq Nat /\ SwapOutputs \subseteq Nat /\ ExecutionFees \subseteq Nat
    /\ BPS \in Nat \ {0} /\ DepositFee \in 0..BPS
    /\ InitialConfig \in Config
    /\ MinFees \subseteq Nat /\ DelayValues \subseteq DelayConfig
    /\ GasLimits \subseteq Nat /\ StartValues \subseteq Nat
    /\ MaxIndex \in Nat /\ MaxTime \in Nat /\ MaxBlock \in Nat
    /\ Horizon \in Nat /\ MaxAdminOps \in Nat

VARIABLES
    requests,         \* increase/decreasePositionRequests, by kind and key
    keys,             \* increase/decreasePositionRequestKeys
    start,            \* increase/decreasePositionRequestKeysStart
    positionsIndex,   \* increase/decreasePositionsIndex
    held,             \* token balances of the contract
    feeReserves,      \* deposit fees not yet withdrawn
    config, isPositionKeeper,
    block, now,       \* block.number and block.timestamp
    loop,             \* the keeper's running loop, or NoLoop
    status,           \* the events emitted for a key: created, executed, cancelled
    adminOps          \* calls the admin has made (bounded by MaxAdminOps)

queueVars == <<requests, keys, start, positionsIndex, status>>
fundVars  == <<held, feeReserves>>
adminVars == <<config, isPositionKeeper, adminOps>>
clockVars == <<block, now>>
vars == <<queueVars, fundVars, adminVars, clockVars, loop>>

NoLoop == [kind |-> "none", index |-> 0, end |-> 0]
Idle == loop = NoLoop
Pending(k, key) == requests[k][key] # NoRequest

-----------------------------------------------------------------------------
(* What a request puts into the contract, and what an execution leaves.    *)

Escrowed(r, t) == (IF t = r.token THEN r.amountIn ELSE 0)
                + (IF t = WETH THEN r.executionFee ELSE 0)

\* _collectFees: the fee on an amount, when shouldDeductFee answers true
DepositFeeOf(amount) == amount - (amount * (BPS - DepositFee)) \div BPS

\* the fees an execution may leave behind: none, or the fee on the amount that
\* arrives, swapped first when the path has two tokens
KeptFees(r) ==
    {0} \cup {DepositFeeOf(amount) :
                amount \in IF r.amountIn = 0 THEN {}
                           ELSE IF r.token = r.outToken THEN {r.amountIn}
                           ELSE SwapOutputs}

-----------------------------------------------------------------------------
(* The checks of _validateExecution and _validateExecutionOrCancellation.  *)

BlockReady(r) == r.blockNumber + config.delays.minBlockDelayKeeper <= block
Expired(r)    == r.blockTime + config.delays.maxTimeDelay <= now

\* a direct call by `sender` passes _validateExecutionOrCancellation
MaySettle(sender, key, r) ==
    IF sender \in isPositionKeeper
    THEN BlockReady(r)
    ELSE /\ config.isLeverageEnabled
         /\ sender = key[1]
         /\ r.blockTime + config.delays.minTimeDelayPublic <= now

\* _callRequestCallback reaches the target, whose revert reverts the caller
CallbackRuns(r) ==
    /\ r.callbackTarget # NoTarget
    /\ \/ config.callbackGasLimit > 0
       \/ config.customCallbackGasLimits[r.callbackTarget] > 0

\* cancel* can revert: in the callback, or refunding a token that refuses
CancelMayRevert(k, r) ==
    \/ CallbackRuns(r)
    \/ k = "increase" /\ ~r.hasCollateralInETH /\ r.token \in RefusingTokens

-----------------------------------------------------------------------------
Init ==
    /\ requests = [k \in Kinds |-> [key \in Key |-> NoRequest]]
    /\ keys = [k \in Kinds |-> <<>>]
    /\ start = [k \in Kinds |-> 0]
    /\ positionsIndex = [k \in Kinds |-> [a \in Accounts |-> 0]]
    /\ status = [k \in Kinds |-> [key \in Key |-> "none"]]
    /\ held = [t \in Tokens |-> 0]
    /\ feeReserves = [t \in Tokens |-> 0]
    /\ config = InitialConfig
    /\ isPositionKeeper = Keepers
    /\ adminOps = 0
    /\ block = 0 /\ now = 0
    /\ loop = NoLoop

\* the index of the account's next request, and a mutant whose key
\* depends on the account alone
NextIndexStale(k, a) == 1
NextIndex(k, a) == positionsIndex[k][a] + 1

\* _store*PositionRequest, after the transfers in
Store(k, a, r) ==
    LET index == NextIndex(k, a)
        key == <<a, index>>
    IN /\ index <= MaxIndex /\ now <= Horizon /\ block <= Horizon    \* bounds
       /\ positionsIndex' = [positionsIndex EXCEPT ![k][a] = index]
       /\ requests' = [requests EXCEPT ![k][key] = r]
       /\ keys' = [keys EXCEPT ![k] = Append(@, key)]
       /\ status' = [status EXCEPT ![k][key] = "pending"]
       /\ held' = [t \in Tokens |-> held[t] + Escrowed(r, t)]
       /\ UNCHANGED <<start, feeReserves, adminVars, clockVars, loop>>

NewRequest(path, amountIn, fee, inETH, target) ==
    [token |-> path[1], outToken |-> path[2], amountIn |-> amountIn,
     executionFee |-> fee, blockNumber |-> block, blockTime |-> now,
     hasCollateralInETH |-> inETH, callbackTarget |-> target]

CreateIncreasePosition(a) ==
    /\ Idle
    /\ \E path \in Paths["increase"], amountIn \in Amounts, fee \in ExecutionFees,
          target \in CallbackTargets \cup {NoTarget} :
         /\ fee >= config.minExecutionFee
         /\ Store("increase", a, NewRequest(path, amountIn, fee, FALSE, target))

\* msg.value pays the fee and the WETH collateral
CreateIncreasePositionETH(a) ==
    /\ Idle
    /\ \E path \in Paths["increase"], amountIn \in Amounts, fee \in ExecutionFees,
          target \in CallbackTargets \cup {NoTarget} :
         /\ fee >= config.minExecutionFee
         /\ path[1] = WETH
         /\ Store("increase", a, NewRequest(path, amountIn, fee, TRUE, target))

CreateDecreasePosition(a) ==
    /\ Idle
    /\ \E path \in Paths["decrease"], fee \in ExecutionFees,
          target \in CallbackTargets \cup {NoTarget} :
         /\ fee >= config.minExecutionFee
         /\ Store("decrease", a, NewRequest(path, 0, fee, FALSE, target))

-----------------------------------------------------------------------------
(* Settling one request: the mapping entry is deleted, the escrow leaves   *)
(* (to the vault or back to the trader, the execution fee to the receiver) *)
(* and only a deposit fee stays.                                           *)

\* mutant: the mapping entry is not deleted
SettleWithoutDelete(k, key, outcome, kept) ==
    LET r == requests[k][key]
    IN /\ UNCHANGED requests
       /\ status' = [status EXCEPT ![k][key] = outcome]
       /\ held' = [t \in Tokens |->
                     held[t] - Escrowed(r, t) + (IF t = r.outToken THEN kept ELSE 0)]
       /\ feeReserves' = [feeReserves EXCEPT ![r.outToken] = @ + kept]

\* mutant: the fee is credited to the first token of the path
SettleFeeInPathToken(k, key, outcome, kept) ==
    LET r == requests[k][key]
    IN /\ requests' = [requests EXCEPT ![k][key] = NoRequest]
       /\ status' = [status EXCEPT ![k][key] = outcome]
       /\ held' = [t \in Tokens |->
                     held[t] - Escrowed(r, t) + (IF t = r.outToken THEN kept ELSE 0)]
       /\ feeReserves' = [feeReserves EXCEPT ![r.token] = @ + kept]

Settle(k, key, outcome, kept) ==
    LET r == requests[k][key]
    IN /\ requests' = [requests EXCEPT ![k][key] = NoRequest]
       /\ status' = [status EXCEPT ![k][key] = outcome]
       /\ held' = [t \in Tokens |->
                     held[t] - Escrowed(r, t) + (IF t = r.outToken THEN kept ELSE 0)]
       /\ feeReserves' = [feeReserves EXCEPT ![r.outToken] = @ + kept]

Execute(k, key) ==
    /\ ~Expired(requests[k][key])
    /\ \E kept \in KeptFees(requests[k][key]) : Settle(k, key, "executed", kept)

Cancel(k, key) == Settle(k, key, "cancelled", 0)

\* a direct call; one that reverts, returns false or finds no request changes nothing
ExecutePosition(sender, k, key) ==
    /\ Idle /\ Pending(k, key) /\ MaySettle(sender, key, requests[k][key])
    /\ Execute(k, key)
    /\ UNCHANGED <<keys, start, positionsIndex, adminVars, clockVars, loop>>

CancelPosition(sender, k, key) ==
    /\ Idle /\ Pending(k, key) /\ MaySettle(sender, key, requests[k][key])
    /\ Cancel(k, key)
    /\ UNCHANGED <<keys, start, positionsIndex, adminVars, clockVars, loop>>

-----------------------------------------------------------------------------
(* execute*Positions: the keeper's loop.  Inside it msg.sender is the      *)
(* contract itself, so the keeper rule applies to every request.           *)

\* an empty queue returns early, an _endIndex past the array is clamped, one
\* at or before the start pointer changes nothing
ExecutePositions(sender, k, end) ==
    /\ Idle /\ sender \in isPositionKeeper
    /\ start[k] < Len(keys[k]) /\ start[k] < end
    /\ loop' = [kind |-> k, index |-> start[k],
                end |-> IF end > Len(keys[k]) THEN Len(keys[k]) ELSE end]
    /\ UNCHANGED <<queueVars, fundVars, adminVars, clockVars>>

InLoop(k) == loop.kind = k /\ loop.index < loop.end
CurrentKey(k) == keys[k][loop.index + 1]
CurrentPending(k) == CurrentKey(k) # NoKey /\ Pending(k, CurrentKey(k))
CurrentReady(k) == CurrentPending(k) /\ BlockReady(requests[k][CurrentKey(k)])

\* delete keys[index]; index++
Advance(k) ==
    /\ keys' = [keys EXCEPT ![k][loop.index + 1] = NoKey]
    /\ loop' = [kind |-> k, index |-> loop.index + 1, end |-> loop.end]
    /\ UNCHANGED <<start, positionsIndex, adminVars, clockVars>>

\* mutant: a request that is not ready is passed over instead of ending the loop
LoopSkipNotReady(k) ==
    /\ InLoop(k) /\ ~CurrentReady(k)
    /\ Advance(k)
    /\ UNCHANGED <<requests, status, fundVars>>

\* already settled, or a slot the loop cleared before: true without effect
LoopSkip(k) ==
    /\ InLoop(k) /\ ~CurrentPending(k)
    /\ Advance(k)
    /\ UNCHANGED <<requests, status, fundVars>>

LoopExecute(k) ==
    /\ InLoop(k) /\ CurrentReady(k)
    /\ Execute(k, CurrentKey(k))
    /\ Advance(k)

\* the execution reverted, the cancellation went through
LoopCancel(k) ==
    /\ InLoop(k) /\ CurrentReady(k)
    /\ Cancel(k, CurrentKey(k))
    /\ Advance(k)

\* mutant: a cancellation that reverts ends the loop
LoopDropBreaks(k) ==
    /\ InLoop(k) /\ CurrentReady(k)
    /\ CancelMayRevert(k, requests[k][CurrentKey(k)])
    /\ start' = [start EXCEPT ![k] = loop.index]
    /\ loop' = NoLoop
    /\ UNCHANGED <<requests, keys, positionsIndex, status, fundVars, adminVars, clockVars>>

\* mutant: a failed execution is not followed by a cancellation
LoopDropUncancelled(k) ==
    /\ InLoop(k) /\ CurrentReady(k)
    /\ Advance(k)
    /\ UNCHANGED <<requests, status, fundVars>>

\* the execution and the cancellation reverted: the empty catch
LoopDrop(k) ==
    /\ InLoop(k) /\ CurrentReady(k)
    /\ CancelMayRevert(k, requests[k][CurrentKey(k)])
    /\ Advance(k)
    /\ UNCHANGED <<requests, status, fundVars>>

\* mutant: a break still moves the start pointer to the end of the range
LoopEndAtRange(k) ==
    /\ loop.kind = k
    /\ \/ loop.index = loop.end
       \/ InLoop(k) /\ CurrentPending(k) /\ ~BlockReady(requests[k][CurrentKey(k)])
    /\ start' = [start EXCEPT ![k] = loop.end]
    /\ loop' = NoLoop
    /\ UNCHANGED <<requests, keys, positionsIndex, status, fundVars, adminVars, clockVars>>

\* break on a request that is not ready, or the end of the range
LoopEnd(k) ==
    /\ loop.kind = k
    /\ \/ loop.index = loop.end
       \/ InLoop(k) /\ CurrentPending(k) /\ ~BlockReady(requests[k][CurrentKey(k)])
    /\ start' = [start EXCEPT ![k] = loop.index]
    /\ loop' = NoLoop
    /\ UNCHANGED <<requests, keys, positionsIndex, status, fundVars, adminVars, clockVars>>

LoopStep(k) == LoopSkip(k) \/ LoopExecute(k) \/ LoopCancel(k) \/ LoopDrop(k) \/ LoopEnd(k)

-----------------------------------------------------------------------------
(* The admin's calls.                                                      *)

AdminCall == Idle /\ adminOps < MaxAdminOps /\ adminOps' = adminOps + 1

SetConfig(c) ==
    /\ AdminCall
    /\ config' = c
    /\ UNCHANGED <<queueVars, fundVars, isPositionKeeper, clockVars, loop>>

SetMinExecutionFee(fee) == SetConfig([config EXCEPT !.minExecutionFee = fee])
SetIsLeverageEnabled(b) == SetConfig([config EXCEPT !.isLeverageEnabled = b])
SetDelayValues(d) == SetConfig([config EXCEPT !.delays = d])
SetCallbackGasLimit(gas) == SetConfig([config EXCEPT !.callbackGasLimit = gas])
SetCustomCallbackGasLimit(target, gas) ==
    SetConfig([config EXCEPT !.customCallbackGasLimits[target] = gas])

SetPositionKeeper(a, isActive) ==
    /\ AdminCall
    /\ isPositionKeeper' = IF isActive THEN isPositionKeeper \cup {a}
                           ELSE isPositionKeeper \ {a}
    /\ UNCHANGED <<queueVars, fundVars, config, clockVars, loop>>

\* both pointers are written, without a check against the arrays
SetRequestKeysStartValues(i, d) ==
    /\ AdminCall
    /\ start' = [k \in Kinds |-> IF k = "increase" THEN i ELSE d]
    /\ UNCHANGED <<requests, keys, positionsIndex, status, fundVars,
                   config, isPositionKeeper, clockVars, loop>>

WithdrawFees(t) ==
    /\ Idle /\ feeReserves[t] # 0
    /\ feeReserves' = [feeReserves EXCEPT ![t] = 0]
    /\ held' = [held EXCEPT ![t] = @ - feeReserves[t]]
    /\ UNCHANGED <<queueVars, adminVars, clockVars, loop>>

-----------------------------------------------------------------------------
\* a new block: its number, its timestamp or both move on (a rollup may keep
\* either over several blocks)
NextBlock ==
    /\ Idle
    /\ \E b \in {block, block + 1}, n \in {now, now + 1} :
         /\ <<b, n>> # <<block, now>>
         /\ b <= MaxBlock /\ n <= MaxTime       \* bounds
         /\ block' = b /\ now' = n
    /\ UNCHANGED <<queueVars, fundVars, adminVars, loop>>

Admin ==
    \/ \E fee \in MinFees : SetMinExecutionFee(fee)
    \/ \E b \in BOOLEAN : SetIsLeverageEnabled(b)
    \/ \E d \in DelayValues : SetDelayValues(d)
    \/ \E gas \in GasLimits : SetCallbackGasLimit(gas)
    \/ \E target \in CallbackTargets, gas \in GasLimits : SetCustomCallbackGasLimit(target, gas)
    \/ \E a \in Senders, b \in BOOLEAN : SetPositionKeeper(a, b)
    \/ \E i, d \in StartValues : SetRequestKeysStartValues(i, d)

Next ==
    \/ \E a \in Accounts : \/ CreateIncreasePosition(a)
                           \/ CreateIncreasePositionETH(a)
                           \/ CreateDecreasePosition(a)
    \/ \E sender \in Senders, k \in Kinds, key \in Key :
          ExecutePosition(sender, k, key) \/ CancelPosition(sender, k, key)
    \/ \E sender \in Senders, k \in Kinds : \E end \in 1..(Len(keys[k]) + 1) :
          ExecutePositions(sender, k, end)
    \/ \E k \in Kinds : LoopStep(k)
    \/ Admin
    \/ \E t \in Tokens : WithdrawFees(t)
    \/ NextBlock

Spec == Init /\ [][Next]_vars

(***************************************************************************)
(* Fairness.  Blocks keep coming; they do so between transactions, and a    *)
(* keeper may start one in every block, hence strong fairness.  A keeper    *)
(* keeps calling both loops over the whole queue (with every price update,  *)
(* FastPriceFeed.setPricesWithBitsAndExecute does), and a transaction that  *)
(* has begun runs to its end.  The two loops take turns, hence strong       *)
(* fairness for starting one.                                               *)
(***************************************************************************)
KeeperCall(k) == \E sender \in Keepers : ExecutePositions(sender, k, Len(keys[k]))

Fairness ==
    /\ SF_vars(NextBlock)
    /\ \A k \in Kinds : SF_vars(KeeperCall(k)) /\ WF_vars(LoopStep(k))

FairSpec == Spec /\ Fairness

-----------------------------------------------------------------------------
(* Properties.                                                             *)

\* Every variable has its type; the loop's counter stays inside the array
\* (executeIncreasePositions indexes it without a check of its own).
TypeOK ==
    /\ requests \in [Kinds -> [Key -> Request \cup {NoRequest}]]
    /\ keys \in [Kinds -> Seq(Key \cup {NoKey})]
    /\ start \in [Kinds -> Nat]
    /\ positionsIndex \in [Kinds -> [Accounts -> 0..MaxIndex]]
    /\ status \in [Kinds -> [Key -> Status]]
    /\ held \in [Tokens -> Int]
    /\ feeReserves \in [Tokens -> Nat]
    /\ config \in Config
    /\ isPositionKeeper \subseteq Senders
    /\ adminOps \in Nat /\ block \in Nat /\ now \in Nat
    /\ loop \in [kind : Kinds \cup {"none"}, index : Nat, end : Nat]
    /\ \A k \in Kinds : loop.kind = k => loop.index <= loop.end /\ loop.end <= Len(keys[k])

\* what request `id` still has in the contract
Deposited(id, t) == IF Pending(id[1], id[2]) THEN Escrowed(requests[id[1]][id[2]], t) ELSE 0

\* What the contract holds of each token is exactly what the pending requests
\* put in plus the deposit fees it reports as withdrawable, so every pending
\* request can be paid out whatever was settled, cancelled or withdrawn before
\* (the transfers of execute*, cancel* and withdrawFees, all out of one pot).
EscrowBacked ==
    \A t \in Tokens :
        held[t] = feeReserves[t] + Sum([id \in Kinds \X Key |-> Deposited(id, t)], Kinds \X Key)

\* A key is issued once: no two slots of a queue hold the same key, and a key
\* in a queue was issued by the account's counter (_store*PositionRequest).
KeysIssuedOnce ==
    \A k \in Kinds : \A i \in DOMAIN keys[k] :
        keys[k][i] # NoKey =>
            /\ keys[k][i][2] <= positionsIndex[k][keys[k][i][1]]
            /\ \A j \in DOMAIN keys[k] : keys[k][j] = keys[k][i] => j = i

\* The mapping and the emitted events agree: a request is stored exactly while
\* it is created and neither executed nor cancelled, and only issued keys ever
\* saw an event.
RequestsMatchEvents ==
    \A k \in Kinds, key \in Key :
        /\ Pending(k, key) <=> status[k][key] = "pending"
        /\ status[k][key] = "none" <=> key[2] > positionsIndex[k][key[1]]

\* The loop leaves nothing behind: unless the admin moved a pointer, all slots
\* before the start pointer (or before the running loop's counter) are deleted
\* and no slot from there on is, so the keeper settles in creation order and a
\* later call resumes exactly at the first unprocessed request.
Cursor(k) == IF loop.kind = k THEN loop.index ELSE start[k]
NothingLeftBehind ==
    StartValues = {} =>
        \A k \in Kinds : /\ Cursor(k) <= Len(keys[k])
                         /\ \A i \in DOMAIN keys[k] : keys[k][i] = NoKey <=> i <= Cursor(k)

\* The keeper forgets a request that is still stored only when its cancellation
\* could revert (its callback runs, or its refund is refused): no other order of
\* errors, expiry and delays loses a request.
InQueue(k, key) == \E i \in DOMAIN keys[k] : keys[k][i] = key
OnlyFailedCancelStrands ==
    [][\A k \in Kinds, key \in Key :
         InQueue(k, key) /\ ~InQueue(k, key)' /\ Pending(k, key)'
            => CancelMayRevert(k, requests[k][key])]_vars

\* The contract keeps the promise of RequestEscrow: through direct calls, keeper
\* loops, rewound pointers and stranded requests, a request is settled at most
\* once and is paid out of the pot exactly what it put in.
Promise == INSTANCE RequestEscrow WITH
    Id <- Kinds \X Key,
    Token <- Tokens,
    state <- [id \in Kinds \X Key |-> status[id[1]][id[2]]],
    deposit <- [id \in Kinds \X Key |-> [t \in Tokens |-> Deposited(id, t)]],
    pot <- held,
    retained <- feeReserves
ImplementsEscrow == Promise!Spec

\* No request blocks the queue: every key leaves its queue, also when its
\* cancellation always reverts ("to prevent invalid cancels from blocking the
\* loop", executeIncreasePositions).
QueueDrains == \A k \in Kinds, key \in Key : InQueue(k, key) ~> ~InQueue(k, key)

\* A request with no callback and a well-behaved collateral token is executed
\* or cancelled in the end, whatever the requests around it do.
Benign(k, key) ==
    /\ Pending(k, key)
    /\ requests[k][key].callbackTarget = NoTarget
    /\ requests[k][key].token \notin RefusingTokens
BenignRequestsSettle ==
    \A k \in Kinds, key \in Key : Benign(k, key) ~> status[k][key] \in {"executed", "cancelled"}
=============================================================================
