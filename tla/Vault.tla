------------------------------- MODULE Vault --------------------------------
(***************************************************************************)
(* The accounting of Vault.sol and VaultUtils.sol: the liquidity pool, its  *)
(* reserves and fees, leveraged positions, funding, liquidation, and the    *)
(* USDP debt, over one volatile index token and one stable token.  A long   *)
(* has the index token as collateral, a short the stable token              *)
(* (_validateTokens).                                                       *)
(*                                                                          *)
(* An external call is one action.  A failed _validate or an arithmetic     *)
(* underflow reverts the call, so each is a conjunct of the action.  Prices *)
(* come from the price feed, which may change between any two calls.        *)
(***************************************************************************)
EXTENDS Sums

CONSTANTS
    Accounts,
    Index, Stable,            \* the two whitelisted tokens
    UNIT,                     \* 10 ** decimals, the same for prices and tokens
    BPS, FundingPrecision,    \* BASIS_POINTS_DIVISOR, FUNDING_RATE_PRECISION
    MarginFeeBps, SwapFeeBps, MintBurnFeeBps,
    LiquidationFeeUsd, MaxLeverage, MinProfitTime, MinProfitBps,
    FundingInterval, FundingRateFactor,
    MaxUsdp, MaxGlobalShort,  \* caps; 0 is none
    BufferAmount,             \* bufferAmounts, by token
    Prices,                   \* by token: the <<min, max>> quotes of the feed
    Deposits, Donations,      \* by token: amounts sent with a call, and without
    SizeDeltas, CollateralDeltas, UsdpAmounts, UsdpSettings, LeverageSettings,
    MaxInflow,                \* bound, by token: no more is ever sent in
    StartTime, MaxTime        \* bounds of the clock

Token == {Index, Stable}

ASSUME VaultAssumption ==
    /\ Index # Stable /\ IsFiniteSet(Accounts)          \* addresses have 160 bits
    /\ UNIT \in Nat \ {0} /\ BPS \in Nat \ {0} /\ FundingPrecision \in Nat \ {0}
    /\ MarginFeeBps \in 0..BPS /\ SwapFeeBps \in 0..BPS /\ MintBurnFeeBps \in 0..BPS
    /\ LiquidationFeeUsd \in Nat /\ MaxLeverage \in Nat
    /\ MinProfitTime \in Nat /\ MinProfitBps \in Nat
    /\ FundingInterval \in Nat \ {0} /\ FundingRateFactor \in Nat
    /\ MaxUsdp \in Nat /\ MaxGlobalShort \in Nat /\ BufferAmount \in [Token -> Nat]
    /\ Prices \in [Token -> SUBSET ((Nat \ {0}) \X (Nat \ {0}))]
    /\ \A t \in Token : Prices[t] # {} /\ \A quote \in Prices[t] : quote[1] <= quote[2]
    /\ Deposits \in [Token -> SUBSET (Nat \ {0})] /\ Donations \in [Token -> SUBSET (Nat \ {0})]
    /\ SizeDeltas \subseteq Nat /\ CollateralDeltas \subseteq Nat
    /\ UsdpAmounts \subseteq Nat /\ UsdpSettings \subseteq Nat
    /\ LeverageSettings \subseteq BOOLEAN
    /\ MaxInflow \in [Token -> Nat]
    /\ StartTime \in Nat /\ MaxTime \in Nat

VARIABLES
    balance,                  \* the tokens' balanceOf(vault)
    tokenBalances,            \* the balances the vault last recorded
    poolAmounts, reservedAmounts, feeReserves, guaranteedUsd,
    usdpAmounts, usdpSupply,
    positions,                \* by account and side
    globalShortSize, globalShortAveragePrice,
    cumulativeFundingRates, lastFundingTimes,
    isLeverageEnabled,
    price,                    \* the feed's current quote, by token
    now,
    unbackedFees,             \* history: margin fees a short's liquidation credited
                              \* beyond the collateral it had, in tokens
    inflow                    \* history, by token: all that was ever sent in

assetVars == <<balance, tokenBalances, poolAmounts, reservedAmounts, feeReserves>>
usdpVars == <<usdpAmounts, usdpSupply>>
shortVars == <<globalShortSize, globalShortAveragePrice>>
fundingVars == <<cumulativeFundingRates, lastFundingTimes>>
envVars == <<price, now>>
vars == <<assetVars, guaranteedUsd, usdpVars, positions, shortVars, fundingVars,
          isLeverageEnabled, envVars, unbackedFees, inflow>>

PositionId == Accounts \X BOOLEAN       \* getPositionKey: the account and isLong
IsLong(id) == id[2]
CollateralToken(id) == IF IsLong(id) THEN Index ELSE Stable

NoPosition == [size |-> 0, collateral |-> 0, averagePrice |-> 0, entryFundingRate |-> 0,
               reserveAmount |-> 0, lastIncreasedTime |-> 0]
Position == [size : Nat, collateral : Nat, averagePrice : Nat, entryFundingRate : Nat,
             reserveAmount : Nat, lastIncreasedTime : Nat]

-----------------------------------------------------------------------------
(* Prices and conversions; every division rounds down.                     *)

MinPrice(t) == price[t][1]
MaxPrice(t) == price[t][2]

TokenToUsdMin(t, amount) == (amount * MinPrice(t)) \div UNIT
UsdToTokenMax(t, usd) == (usd * UNIT) \div MinPrice(t)
UsdToTokenMin(t, usd) == (usd * UNIT) \div MaxPrice(t)

\* what is left of an amount after a fee of `bps`
AfterFee(amount, bps) == (amount * (BPS - bps)) \div BPS

-----------------------------------------------------------------------------
(* VaultUtils: fees, profit and loss, and the liquidation test.            *)

PositionFee(sizeDelta) == sizeDelta - AfterFee(sizeDelta, MarginFeeBps)

FundingFee(p, rate) == (p.size * (rate - p.entryFundingRate)) \div FundingPrecision

Distance(a, b) == IF a > b THEN a - b ELSE b - a

\* what getDelta compares the average price with
ExitPrice(id) == IF IsLong(id) THEN MinPrice(Index) ELSE MaxPrice(Index)

\* mutant: the sides are swapped, so that a long gains when the price falls
HasProfitSwapped(id, p) ==
    IF IsLong(id) THEN p.averagePrice > ExitPrice(id) ELSE ExitPrice(id) > p.averagePrice

\* getDelta of a position: whether it is in profit, and by how much, with small
\* profits ignored for a while after the last increase
HasProfit(id, p) ==
    IF IsLong(id) THEN ExitPrice(id) > p.averagePrice ELSE p.averagePrice > ExitPrice(id)
Delta(id, p) ==
    LET delta == (p.size * Distance(p.averagePrice, ExitPrice(id))) \div p.averagePrice
        minBps == IF now > p.lastIncreasedTime + MinProfitTime THEN 0 ELSE MinProfitBps
    IN IF HasProfit(id, p) /\ delta * BPS <= p.size * minBps THEN 0 ELSE delta

Loss(id, p) == IF HasProfit(id, p) THEN 0 ELSE Delta(id, p)

MarginFees(p, rate) == FundingFee(p, rate) + PositionFee(p.size)

\* validateLiquidation without _raise: the state, and the fees to charge; only
\* fees above what the losses leave are capped, losses above the collateral are not
LiquidationState(id, p, rate) ==
    LET remaining == p.collateral - Loss(id, p)
        fees == MarginFees(p, rate)
    IN IF remaining < fees + LiquidationFeeUsd THEN 1
       ELSE IF remaining * MaxLeverage < p.size * BPS THEN 2
       ELSE 0
LiquidationFees(id, p, rate) ==
    LET remaining == p.collateral - Loss(id, p)
        fees == MarginFees(p, rate)
    IN IF 0 <= remaining /\ remaining < fees THEN remaining ELSE fees

\* validateLiquidation with _raise, and _validatePosition
ValidPosition(id, p, rate) ==
    /\ p.size >= p.collateral
    /\ LiquidationState(id, p, rate) = 0

\* getNextAveragePrice; its divisor must be positive
AverageDivisor(id, p, sizeDelta) ==
    LET nextSize == p.size + sizeDelta
    IN IF IsLong(id) = HasProfit(id, p) THEN nextSize + Delta(id, p) ELSE nextSize - Delta(id, p)
NextAveragePrice(id, p, entryPrice, sizeDelta) ==
    IF p.size = 0 THEN entryPrice
    ELSE IF sizeDelta = 0 THEN p.averagePrice
    ELSE (entryPrice * (p.size + sizeDelta)) \div AverageDivisor(id, p, sizeDelta)

\* getNextGlobalShortAveragePrice
ShortDelta(nextPrice) ==
    (globalShortSize * Distance(globalShortAveragePrice, nextPrice)) \div globalShortAveragePrice
ShortDivisor(nextPrice, sizeDelta) ==
    globalShortSize + sizeDelta
    + (IF globalShortAveragePrice > nextPrice THEN -ShortDelta(nextPrice) ELSE ShortDelta(nextPrice))
NextShortAveragePrice(nextPrice, sizeDelta) ==
    IF globalShortSize = 0 THEN nextPrice
    ELSE (nextPrice * (globalShortSize + sizeDelta)) \div ShortDivisor(nextPrice, sizeDelta)

-----------------------------------------------------------------------------
(* updateCumulativeFundingRate: the first call only starts the clock, later *)
(* ones charge whole intervals in proportion to the share reserved.         *)

NextFundingRate(t) ==
    IF poolAmounts[t] = 0 THEN 0
    ELSE (FundingRateFactor * reservedAmounts[t] * ((now - lastFundingTimes[t]) \div FundingInterval))
         \div poolAmounts[t]
FundingDue(t) == lastFundingTimes[t] + FundingInterval <= now
FundingRate(t) ==
    IF lastFundingTimes[t] # 0 /\ FundingDue(t)
    THEN cumulativeFundingRates[t] + NextFundingRate(t)
    ELSE cumulativeFundingRates[t]
FundingTime(t) ==
    IF lastFundingTimes[t] = 0 \/ FundingDue(t)
    THEN (now \div FundingInterval) * FundingInterval
    ELSE lastFundingTimes[t]

\* the two tokens of a swap are updated together
UpdateFunding(ts) ==
    /\ cumulativeFundingRates' =
         [t \in Token |-> IF t \in ts THEN FundingRate(t) ELSE cumulativeFundingRates[t]]
    /\ lastFundingTimes' =
         [t \in Token |-> IF t \in ts THEN FundingTime(t) ELSE lastFundingTimes[t]]

-----------------------------------------------------------------------------
(* _transferIn and _transferOut: what the vault received is the difference *)
(* between its balance and what it recorded.                               *)

Received(t, sent) == balance[t] + sent - tokenBalances[t]

\* what users send in, counted for the bound
Send(t, sent) ==
    /\ inflow[t] + sent <= MaxInflow[t]           \* bound
    /\ inflow' = [inflow EXCEPT ![t] = @ + sent]

TransferIn(t, sent) ==
    /\ Send(t, sent)
    /\ Received(t, sent) >= 0
    /\ balance' = [balance EXCEPT ![t] = @ + sent]
    /\ tokenBalances' = [tokenBalances EXCEPT ![t] = balance[t] + sent]

TransferOut(t, amount) ==
    /\ amount <= balance[t]
    /\ balance' = [balance EXCEPT ![t] = @ - amount]
    /\ tokenBalances' = [tokenBalances EXCEPT ![t] = balance[t] - amount]

\* mutant: the cap is forgotten
LessUsdpUncapped(t, amount) == usdpAmounts[t] - amount

\* _decreaseUsdpAmount caps the debt at zero
LessUsdp(t, amount) == IF usdpAmounts[t] <= amount THEN 0 ELSE usdpAmounts[t] - amount

\* mutant: the debt leaves one token and joins no other
ShiftedDebtLost(in, out, usdp) == [usdpAmounts EXCEPT ![out] = LessUsdp(out, usdp)]

\* a swap moves debt from the token it takes out to the one it brings in
ShiftedDebt(in, out, usdp) ==
    [usdpAmounts EXCEPT ![in] = @ + usdp, ![out] = LessUsdp(out, usdp)]

\* mutant: nothing is compared
ReserveUnchecked(reserved, pool) == pool >= 0

\* checks 50 and 52 of the pool and reserve amounts they leave
ReserveHolds(reserved, pool) == reserved <= pool

\* mutant: the reserve is never given back
DecreaseReservedKept(t, amount) == amount <= reservedAmounts[t] /\ UNCHANGED reservedAmounts

DecreaseReservedAmount(t, amount) ==
    /\ amount <= reservedAmounts[t]
    /\ reservedAmounts' = [reservedAmounts EXCEPT ![t] = @ - amount]

-----------------------------------------------------------------------------
Init ==
    /\ balance = [t \in Token |-> 0] /\ tokenBalances = [t \in Token |-> 0]
    /\ poolAmounts = [t \in Token |-> 0] /\ reservedAmounts = [t \in Token |-> 0]
    /\ feeReserves = [t \in Token |-> 0] /\ guaranteedUsd = 0
    /\ usdpAmounts = [t \in Token |-> 0] /\ usdpSupply = 0
    /\ positions = [id \in PositionId |-> NoPosition]
    /\ globalShortSize = 0 /\ globalShortAveragePrice = 0
    /\ cumulativeFundingRates = [t \in Token |-> 0]
    /\ lastFundingTimes = [t \in Token |-> 0]
    /\ isLeverageEnabled = TRUE
    /\ price \in [Token -> Prices[Index] \cup Prices[Stable]]
    /\ \A t \in Token : price[t] \in Prices[t]
    /\ now = StartTime
    /\ unbackedFees = 0 /\ inflow = [t \in Token |-> 0]

-----------------------------------------------------------------------------
(* The pool: deposits, USDP, swaps.                                        *)

DirectPoolDeposit(t, sent) ==
    LET amount == Received(t, sent) IN
    /\ TransferIn(t, sent) /\ amount > 0
    /\ poolAmounts' = [poolAmounts EXCEPT ![t] = @ + amount]
    /\ poolAmounts'[t] <= balance'[t]                                      \* 49
    /\ UNCHANGED <<reservedAmounts, feeReserves, guaranteedUsd, usdpVars, positions,
                   shortVars, fundingVars, isLeverageEnabled, envVars, unbackedFees>>

BuyUSDP(t, sent) ==
    LET amount == Received(t, sent)
        afterFees == AfterFee(amount, MintBurnFeeBps)
        mint == TokenToUsdMin(t, afterFees)
    IN /\ TransferIn(t, sent) /\ amount > 0 /\ TokenToUsdMin(t, amount) > 0
       /\ UpdateFunding({t})
       /\ feeReserves' = [feeReserves EXCEPT ![t] = @ + amount - afterFees]
       /\ usdpAmounts' = [usdpAmounts EXCEPT ![t] = @ + mint]
       /\ MaxUsdp # 0 => usdpAmounts'[t] <= MaxUsdp                        \* 51
       /\ poolAmounts' = [poolAmounts EXCEPT ![t] = @ + afterFees]
       /\ poolAmounts'[t] <= balance'[t]                                   \* 49
       /\ usdpSupply' = usdpSupply + mint
       /\ UNCHANGED <<reservedAmounts, guaranteedUsd, positions, shortVars,
                      isLeverageEnabled, envVars, unbackedFees>>

\* sellUSDP of `usdp` USDP that was sent to the vault
Redeem(t, usdp) ==
    LET redemption == UsdToTokenMin(t, usdp)
        amountOut == AfterFee(redemption, MintBurnFeeBps)
    IN /\ usdp > 0
       /\ redemption > 0 /\ amountOut > 0
       /\ UpdateFunding({t})
       /\ usdpAmounts' = [usdpAmounts EXCEPT ![t] = LessUsdp(t, usdp)]
       /\ redemption <= poolAmounts[t]
       /\ poolAmounts' = [poolAmounts EXCEPT ![t] = @ - redemption]
       /\ ReserveHolds(reservedAmounts[t], poolAmounts'[t])                 \* 50
       /\ feeReserves' = [feeReserves EXCEPT ![t] = @ + redemption - amountOut]
       /\ TransferOut(t, amountOut)
       /\ UNCHANGED <<reservedAmounts, guaranteedUsd, positions, shortVars,
                      isLeverageEnabled, envVars, unbackedFees, inflow>>

\* the vault burns the USDP
SellUSDP(t, usdp) ==
    /\ usdp <= usdpSupply
    /\ usdpSupply' = usdpSupply - usdp
    /\ Redeem(t, usdp)

Swap(in, out, sent) ==
    LET amountIn == Received(in, sent)
        amountOut == (amountIn * MinPrice(in)) \div MaxPrice(out)
        usdp == TokenToUsdMin(in, amountIn)
        afterFees == AfterFee(amountOut, SwapFeeBps)
    IN /\ in # out /\ amountIn > 0                                         \* 26, 27
       /\ UpdateFunding({in, out})
       /\ usdpAmounts' = ShiftedDebt(in, out, usdp)
       /\ MaxUsdp # 0 => usdpAmounts'[in] <= MaxUsdp                       \* 51
       /\ feeReserves' = [feeReserves EXCEPT ![out] = @ + amountOut - afterFees]
       /\ Send(in, sent) /\ afterFees <= balance[out]
       /\ balance' = [balance EXCEPT ![in] = @ + sent, ![out] = @ - afterFees]
       /\ tokenBalances' = [t \in Token |-> IF t = in THEN balance[in] + sent
                                            ELSE balance[out] - afterFees]
       /\ amountOut <= poolAmounts[out]
       /\ poolAmounts' = [poolAmounts EXCEPT ![in] = @ + amountIn, ![out] = @ - amountOut]
       /\ poolAmounts'[in] <= balance'[in]                                 \* 49
       /\ ReserveHolds(reservedAmounts[out], poolAmounts'[out])             \* 50
       /\ poolAmounts'[out] >= BufferAmount[out]
       /\ UNCHANGED <<reservedAmounts, guaranteedUsd, usdpSupply, positions, shortVars,
                      isLeverageEnabled, envVars, unbackedFees>>

-----------------------------------------------------------------------------
(* Positions.                                                              *)

\* mutant: the fee charged on the collateral is not added
GuaranteedWithoutFee(sizeDelta, fee, collateralUsd) ==
    guaranteedUsd + sizeDelta - collateralUsd

\* "if a fee is charged on the collateral then guaranteedUsd should be increased by
\* that fee amount"
GuaranteedAfter(sizeDelta, fee, collateralUsd) ==
    guaranteedUsd + sizeDelta + fee - collateralUsd

\* increasePosition; the order of the checks is the code's: the reserve is checked
\* against the pool before the collateral joins it
Increase(id, sent, sizeDelta) ==
    LET t == CollateralToken(id)
        rate == FundingRate(t)
        p == positions[id]
        entryPrice == IF IsLong(id) THEN MaxPrice(Index) ELSE MinPrice(Index)
        fee == PositionFee(sizeDelta) + FundingFee(p, rate)
        feeTokens == UsdToTokenMin(t, fee)
        received == Received(t, sent)
        collateralUsd == TokenToUsdMin(t, received)
        reserveDelta == UsdToTokenMax(t, sizeDelta)
        q == [size |-> p.size + sizeDelta,
              collateral |-> p.collateral + collateralUsd - fee,
              averagePrice |-> NextAveragePrice(id, p, entryPrice, sizeDelta),
              entryFundingRate |-> rate,
              reserveAmount |-> p.reserveAmount + reserveDelta,
              lastIncreasedTime |-> now]
    IN /\ TransferIn(t, sent)
       /\ UpdateFunding({t})
       /\ p.size > 0 /\ sizeDelta > 0 => /\ p.averagePrice > 0
                                        /\ AverageDivisor(id, p, sizeDelta) > 0
       /\ p.collateral + collateralUsd >= fee                              \* 29
       /\ q.size > 0 /\ q.averagePrice > 0                                 \* 30, 38
       /\ ValidPosition(id, q, rate)
       /\ positions' = [positions EXCEPT ![id] = q]
       /\ feeReserves' = [feeReserves EXCEPT ![t] = @ + feeTokens]
       /\ reservedAmounts' = [reservedAmounts EXCEPT ![t] = @ + reserveDelta]
       /\ ReserveHolds(reservedAmounts'[t], poolAmounts[t])                 \* 52
       /\ IF IsLong(id)
          THEN /\ GuaranteedAfter(sizeDelta, fee, collateralUsd) >= 0
               /\ guaranteedUsd' = GuaranteedAfter(sizeDelta, fee, collateralUsd)
               /\ poolAmounts[t] + received <= balance'[t]                 \* 49
               /\ poolAmounts[t] + received >= feeTokens
               /\ poolAmounts' = [poolAmounts EXCEPT ![t] = @ + received - feeTokens]
               /\ ReserveHolds(reservedAmounts'[t], poolAmounts'[t])        \* 50
               /\ UNCHANGED shortVars
          ELSE /\ globalShortSize > 0 => /\ globalShortAveragePrice > 0
                                        /\ ShortDivisor(entryPrice, sizeDelta) > 0
               /\ globalShortAveragePrice' = NextShortAveragePrice(entryPrice, sizeDelta)
               /\ globalShortSize' = globalShortSize + sizeDelta
               /\ MaxGlobalShort # 0 => globalShortSize' <= MaxGlobalShort
               /\ UNCHANGED <<guaranteedUsd, poolAmounts>>
       /\ UNCHANGED <<usdpVars, envVars, unbackedFees>>

IncreasePosition(id, sent, sizeDelta) ==
    /\ isLeverageEnabled                                                    \* 28
    /\ Increase(id, sent, sizeDelta)
    /\ UNCHANGED isLeverageEnabled

\* mutant: a size that is not more than the total is not taken off it
LessShortKept(sizeDelta) == IF sizeDelta > globalShortSize THEN 0 ELSE globalShortSize

\* _decreaseGlobalShortSize
LessShort(sizeDelta) == IF sizeDelta > globalShortSize THEN 0 ELSE globalShortSize - sizeDelta

\* _reduceCollateral: what a decrease pays out, before and after its fee, and
\* what it leaves of the collateral.  A fee the payout covers is taken from it,
\* else the collateral pays.
Reduction(id, p, rate, collateralDelta, sizeDelta) ==
    LET fee == PositionFee(sizeDelta) + FundingFee(p, rate)
        pnl == (sizeDelta * Delta(id, p)) \div p.size
        profit == IF HasProfit(id, p) THEN pnl ELSE 0
        loss == IF HasProfit(id, p) THEN 0 ELSE pnl
        kept == p.collateral - loss - collateralDelta
        closing == p.size = sizeDelta
        usdOut == profit + collateralDelta + (IF closing THEN kept ELSE 0)
        left == IF closing THEN 0 ELSE kept
        fromOut == usdOut > fee
    IN [fee |-> fee, fromOut |-> fromOut, profit |-> profit, loss |-> loss, kept |-> kept, usdOut |-> usdOut,
        usdOutAfterFee |-> IF fromOut THEN usdOut - fee ELSE usdOut,
        feeFromCollateral |-> IF fromOut THEN 0 ELSE fee,
        collateral |-> IF fromOut THEN left ELSE left - fee]

\* mutant: a short's profit is paid out but stays in the pool
PoolKeepsProfit(id, r) ==
    LET t == CollateralToken(id)
    IN IF IsLong(id) THEN poolAmounts[t] ELSE poolAmounts[t] + UsdToTokenMin(t, r.loss)

\* the pool after each of the transfers a decrease makes with it, in order: a
\* short's profit or loss, then a long's fee and its payout
PoolAfterPnl(id, r) ==
    LET t == CollateralToken(id)
    IN IF IsLong(id) THEN poolAmounts[t]
       ELSE poolAmounts[t] - UsdToTokenMin(t, r.profit) + UsdToTokenMin(t, r.loss)
PoolAfterFee(id, r) ==
    PoolAfterPnl(id, r)
    - (IF IsLong(id) THEN UsdToTokenMin(Index, r.feeFromCollateral) ELSE 0)
PoolAfterPayout(id, r) ==
    PoolAfterFee(id, r) - (IF IsLong(id) THEN UsdToTokenMin(Index, r.usdOut) ELSE 0)

\* the share of its reserve a decrease frees, and the position it leaves
FreedReserve(p, sizeDelta) == (p.reserveAmount * sizeDelta) \div p.size
Decreased(p, r, rate, sizeDelta) ==
    [p EXCEPT !.size = @ - sizeDelta, !.collateral = r.collateral,
              !.entryFundingRate = rate, !.reserveAmount = @ - FreedReserve(p, sizeDelta)]

\* _decreasePosition passes every check: otherwise the call reverts
CanDecrease(id, collateralDelta, sizeDelta) ==
    LET t == CollateralToken(id)
        rate == FundingRate(t)
        p == positions[id]
        r == Reduction(id, p, rate, collateralDelta, sizeDelta)
        closing == p.size = sizeDelta
        reserved == reservedAmounts[t] - FreedReserve(p, sizeDelta)
        freed == p.collateral - (IF closing THEN 0 ELSE r.collateral)
    IN /\ p.size > 0 /\ p.size >= sizeDelta                                 \* 31, 32
       /\ p.collateral >= collateralDelta /\ p.averagePrice > 0            \* 33, 38
       /\ FreedReserve(p, sizeDelta) <= reservedAmounts[t]
       /\ p.collateral >= r.loss /\ r.kept >= 0 /\ r.collateral >= 0
       /\ ~IsLong(id) /\ r.profit > 0 => ReserveHolds(reserved, PoolAfterPnl(id, r)) \* 50
       /\ ~IsLong(id) /\ r.loss > 0 => PoolAfterPnl(id, r) <= balance[t]    \* 49
       /\ IsLong(id) /\ ~r.fromOut => ReserveHolds(reserved, PoolAfterFee(id, r)) \* 50
       /\ IsLong(id) /\ r.usdOut > 0 => ReserveHolds(reserved, PoolAfterPayout(id, r)) \* 50
       /\ PoolAfterPayout(id, r) >= 0
       /\ closing \/ ValidPosition(id, Decreased(p, r, rate, sizeDelta), rate)
       /\ IsLong(id) => guaranteedUsd + freed >= sizeDelta
       /\ r.usdOut > 0 => UsdToTokenMin(t, r.usdOutAfterFee) <= balance[t]

\* _decreasePosition
Decrease(id, collateralDelta, sizeDelta) ==
    LET t == CollateralToken(id)
        rate == FundingRate(t)
        p == positions[id]
        r == Reduction(id, p, rate, collateralDelta, sizeDelta)
        closing == p.size = sizeDelta
        freed == p.collateral - (IF closing THEN 0 ELSE r.collateral)
    IN /\ CanDecrease(id, collateralDelta, sizeDelta)
       /\ UpdateFunding({t})
       /\ DecreaseReservedAmount(t, FreedReserve(p, sizeDelta))
       /\ feeReserves' = [feeReserves EXCEPT ![t] = @ + UsdToTokenMin(t, r.fee)]
       /\ poolAmounts' = [poolAmounts EXCEPT ![t] = PoolAfterPayout(id, r)]
       /\ positions' = [positions EXCEPT ![id] =
                           IF closing THEN NoPosition ELSE Decreased(p, r, rate, sizeDelta)]
       /\ IF IsLong(id)
          THEN guaranteedUsd' = guaranteedUsd + freed - sizeDelta /\ UNCHANGED globalShortSize
          ELSE globalShortSize' = LessShort(sizeDelta) /\ UNCHANGED guaranteedUsd
       /\ IF r.usdOut > 0 THEN TransferOut(t, UsdToTokenMin(t, r.usdOutAfterFee))
          ELSE UNCHANGED <<balance, tokenBalances>>
       /\ UNCHANGED <<globalShortAveragePrice, usdpVars, envVars, unbackedFees, inflow>>

DecreasePosition(id, collateralDelta, sizeDelta) ==
    Decrease(id, collateralDelta, sizeDelta) /\ UNCHANGED isLeverageEnabled

\* liquidationState 1: the position is gone, the pool keeps what the fees leave
\* of a short's collateral and pays the liquidator.  A long's collateral is
\* already in the pool.
Liquidate(id) ==
    LET t == CollateralToken(id)
        p == positions[id]
        fees == LiquidationFees(id, p, FundingRate(t))
        feeTokens == UsdToTokenMin(t, fees)
        reserved == reservedAmounts[t] - p.reserveAmount
        joined == IF ~IsLong(id) /\ fees < p.collateral
                  THEN UsdToTokenMin(t, p.collateral - fees) ELSE 0
        pool == poolAmounts[t] + joined - (IF IsLong(id) THEN feeTokens ELSE 0)
        bounty == UsdToTokenMin(t, LiquidationFeeUsd)
    IN /\ UpdateFunding({t})
       /\ feeReserves' = [feeReserves EXCEPT ![t] = @ + feeTokens]
       /\ DecreaseReservedAmount(t, p.reserveAmount)
       /\ IF IsLong(id)
          THEN /\ p.size >= p.collateral /\ guaranteedUsd >= p.size - p.collateral
               /\ guaranteedUsd' = guaranteedUsd - (p.size - p.collateral)
               /\ ReserveHolds(reserved, pool)                              \* 50
               /\ UNCHANGED <<globalShortSize, unbackedFees>>
          ELSE /\ fees < p.collateral => pool <= balance[t]                \* 49
               /\ globalShortSize' = LessShort(p.size)
               /\ unbackedFees' = unbackedFees
                    + (IF feeTokens > p.collateral THEN feeTokens - p.collateral ELSE 0)
               /\ UNCHANGED guaranteedUsd
       /\ positions' = [positions EXCEPT ![id] = NoPosition]
       /\ poolAmounts' = [poolAmounts EXCEPT ![t] = pool - bounty]
       /\ ReserveHolds(reserved, poolAmounts'[t])                           \* 50
       /\ TransferOut(t, bounty)
       /\ UNCHANGED <<globalShortAveragePrice, usdpVars, envVars, inflow>>

\* liquidationState 2: over the leverage limit with collateral left, so the
\* position is closed and its owner is paid
LiquidateOrClose(id) ==
    LET p == positions[id]
        state == LiquidationState(id, p, FundingRate(CollateralToken(id)))
    IN /\ p.size > 0 /\ p.averagePrice > 0                                 \* 35, 38
       /\ \/ state = 1 /\ Liquidate(id)
          \/ state = 2 /\ Decrease(id, 0, p.size)

LiquidatePosition(id) == LiquidateOrClose(id) /\ UNCHANGED isLeverageEnabled

-----------------------------------------------------------------------------
(* The public funding update, governance, and the world outside.           *)

UpdateCumulativeFundingRate(t) ==
    /\ UpdateFunding({t})
    /\ UNCHANGED <<assetVars, guaranteedUsd, usdpVars, positions, shortVars,
                   isLeverageEnabled, envVars, unbackedFees, inflow>>

WithdrawFees(t) ==
    /\ feeReserves[t] > 0
    /\ feeReserves' = [feeReserves EXCEPT ![t] = 0]
    /\ TransferOut(t, feeReserves[t])
    /\ UNCHANGED <<poolAmounts, reservedAmounts, guaranteedUsd, usdpVars, positions,
                   shortVars, fundingVars, isLeverageEnabled, envVars, unbackedFees, inflow>>

SetUsdpAmount(t, amount) ==
    /\ (amount > usdpAmounts[t] /\ MaxUsdp # 0) => amount <= MaxUsdp          \* 51
    /\ usdpAmounts' = [usdpAmounts EXCEPT ![t] = amount]
    /\ UNCHANGED <<assetVars, guaranteedUsd, usdpSupply, positions, shortVars, fundingVars,
                   isLeverageEnabled, envVars, unbackedFees, inflow>>

\* the timelock brackets every keeper's trade with these two calls
SetIsLeverageEnabled(enabled) ==
    /\ isLeverageEnabled' = enabled
    /\ UNCHANGED <<assetVars, guaranteedUsd, usdpVars, positions, shortVars, fundingVars,
                   envVars, unbackedFees, inflow>>

\* anyone may send tokens to the vault without calling it; the next _transferIn
\* counts them as received, the next _transferOut writes them off
SendTokens(t, amount) ==
    /\ Send(t, amount)
    /\ balance' = [balance EXCEPT ![t] = @ + amount]
    /\ UNCHANGED <<tokenBalances, poolAmounts, reservedAmounts, feeReserves, guaranteedUsd,
                   usdpVars, positions, shortVars, fundingVars, isLeverageEnabled, envVars,
                   unbackedFees>>

SetPrice(t, quote) ==
    /\ price' = [price EXCEPT ![t] = quote]
    /\ UNCHANGED <<assetVars, guaranteedUsd, usdpVars, positions, shortVars, fundingVars,
                   isLeverageEnabled, now, unbackedFees, inflow>>

Tick ==
    /\ now < MaxTime                              \* bound
    /\ now' = now + 1
    /\ UNCHANGED <<assetVars, guaranteedUsd, usdpVars, positions, shortVars, fundingVars,
                   isLeverageEnabled, price, unbackedFees, inflow>>

PoolCall ==
    \E t \in Token :
        \/ \E sent \in Deposits[t] : DirectPoolDeposit(t, sent)
        \/ \E sent \in Deposits[t] : BuyUSDP(t, sent)
        \/ \E usdp \in UsdpAmounts : SellUSDP(t, usdp)
        \/ \E out \in Token, sent \in Deposits[t] : Swap(t, out, sent)
        \/ UpdateCumulativeFundingRate(t)

PositionCall ==
    \E id \in PositionId :
        \/ \E sent \in Deposits[CollateralToken(id)] \cup {0}, sizeDelta \in SizeDeltas :
               IncreasePosition(id, sent, sizeDelta)
        \/ \E collateralDelta \in CollateralDeltas, sizeDelta \in SizeDeltas :
               DecreasePosition(id, collateralDelta, sizeDelta)
        \/ LiquidatePosition(id)

GovCall ==
    \/ \E t \in Token : WithdrawFees(t)
    \/ \E t \in Token, amount \in UsdpSettings : SetUsdpAmount(t, amount)
    \/ \E enabled \in LeverageSettings : SetIsLeverageEnabled(enabled)

Environment ==
    \/ \E t \in Token : \E amount \in Donations[t] : SendTokens(t, amount)
    \/ \E t \in Token : \E quote \in Prices[t] : SetPrice(t, quote)
    \/ Tick

Next == PoolCall \/ PositionCall \/ GovCall \/ Environment

Spec == Init /\ [][Next]_vars

-----------------------------------------------------------------------------
(* Properties.                                                             *)

Longs == {id \in PositionId : IsLong(id)}
Shorts == PositionId \ Longs

\* The parts of the type invariant.
AssetsOK ==
    /\ balance \in [Token -> Nat] /\ tokenBalances \in [Token -> Nat]
    /\ \A t \in Token : tokenBalances[t] <= balance[t]
    /\ poolAmounts \in [Token -> Nat] /\ reservedAmounts \in [Token -> Nat]
    /\ feeReserves \in [Token -> Nat]
UsdpOK == usdpAmounts \in [Token -> Nat] /\ usdpSupply \in Nat
FundingOK == cumulativeFundingRates \in [Token -> Nat] /\ lastFundingTimes \in [Token -> Nat]
PositionsOK ==
    /\ positions \in [PositionId -> Position]
    /\ \A id \in PositionId :
         LET p == positions[id] IN
         /\ p.size >= p.collateral
         /\ p.size = 0 <=> p = NoPosition
         /\ p.entryFundingRate <= cumulativeFundingRates[CollateralToken(id)]
TotalsOK ==
    /\ guaranteedUsd \in Nat
    /\ globalShortSize \in Nat /\ globalShortAveragePrice \in Nat
EnvOK ==
    /\ isLeverageEnabled \in BOOLEAN
    /\ price \in [Token -> (Nat \ {0}) \X (Nat \ {0})]
    /\ now \in Nat /\ unbackedFees \in Nat /\ inflow \in [Token -> Nat]

\* The type of every variable.  Every amount is a natural number, so no chain of
\* calls underflows one of them; an open position has at most its size as
\* collateral and no entry rate the funding has not reached; tokenBalances stays
\* within the real balance, or _transferIn would revert.
TypeOK == AssetsOK /\ UsdpOK /\ FundingOK /\ PositionsOK /\ TotalsOK /\ EnvOK

\* Whatever is traded, redeemed or liquidated, the tokens set aside to pay the
\* positions' profits are in the pool (checks 50 and 52).
ReservedBacked == \A t \in Token : reservedAmounts[t] <= poolAmounts[t]

\* reservedAmounts is exactly what the open positions hold reserved: partial
\* decreases round, and a close or a liquidation gives back the rest.
ReservedMatches ==
    \A t \in Token :
        reservedAmounts[t] =
            Sum([id \in PositionId |-> positions[id].reserveAmount],
                {id \in PositionId : CollateralToken(id) = t})

\* "guaranteedUsd stores the sum of (position.size - position.collateral) for all
\* positions": it is kept up by fees, profits, losses and liquidations alike.
GuaranteedMatches ==
    guaranteedUsd = Sum([id \in PositionId |-> positions[id].size - positions[id].collateral], Longs)

\* The global short size is the sum of the open shorts, so the cap at zero of
\* _decreaseGlobalShortSize never hides a difference.
ShortSizesMatch ==
    globalShortSize = Sum([id \in PositionId |-> positions[id].size], Shorts)

\* The tokens held cover the pool, the fees owed to governance and the collateral
\* of the shorts, except for the margin fees a liquidation credits beyond the
\* collateral that was there.  Needs the feed's strict stable quote, min <= 1 <= max.
Solvent ==
    \A t \in Token :
        balance[t] + (IF t = Stable THEN unbackedFees ELSE 0) >=
            poolAmounts[t] + feeReserves[t]
            + (IF t = Stable
               THEN Sum([id \in PositionId |-> positions[id].collateral], Shorts) ELSE 0)

\* An open position that validateLiquidation finds in order.
Healthy(id) ==
    LET p == positions[id]
    IN /\ p.size > 0 /\ p.averagePrice > 0
       /\ LiquidationState(id, p, FundingRate(CollateralToken(id))) = 0

\* what closing a position takes out of the pool, and whether its reserve covers it
PaidByPool(id) ==
    LET t == CollateralToken(id)
        r == Reduction(id, positions[id], FundingRate(t), 0, positions[id].size)
    IN UsdToTokenMin(t, IF IsLong(id) THEN r.usdOut ELSE r.profit)
ReserveCovers(id) == PaidByPool(id) <= positions[id].reserveAmount

\* What was set aside when a position was opened is enough for whatever it may be
\* paid, however far the price runs before it closes ("reserve tokens to pay profits
\* on the position").
ReservesCover == \A id \in PositionId : Healthy(id) => ReserveCovers(id)

\* A healthy position is never stuck: whatever the others did to the pool, its
\* owner can close it, because its reserve covers what the close pays.  A short
\* needs besides that no liquidation left fees unbacked, or the tokens it lost may
\* be gone.
HealthyCanClose ==
    \A id \in PositionId :
        Healthy(id) /\ ReserveCovers(id) /\ (IsLong(id) \/ unbackedFees = 0)
            => CanDecrease(id, 0, positions[id].size)
=============================================================================
