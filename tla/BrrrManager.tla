---------------------------- MODULE BrrrManager -----------------------------
(***************************************************************************)
(* BrrrManager: shares (BRRR) of the vault's liquidity pool, over the vault *)
(* and the keepers' trades.  A deposit buys USDP of the vault and mints     *)
(* shares in proportion to the value of the pool, aum; a redemption burns   *)
(* shares and sells the USDP they stand for.  The value counts the open     *)
(* positions: what longs guarantee, and what shorts win or lose at their    *)
(* global average price.  Shares are tokens that move freely, so only their *)
(* supply is kept.  In the vault's manager mode only the manager buys and   *)
(* sells USDP.                                                              *)
(***************************************************************************)
EXTENDS ShortsTracker

CONSTANTS
    inManagerMode,
    LiquidityAmounts, BrrrAmounts,       \* tokens deposited, by token; shares redeemed
    AverageWeights, CooldownSettings, AumAdjustments, UsdpBalances,
                                         \* what governance and its keepers set
    RedeemedUsdp,                        \* USDP the timelock mints to redeem
    MaxCalls                             \* bound

ASSUME BrrrManagerAssumption ==
    /\ inManagerMode \in BOOLEAN /\ BrrrAmounts \subseteq Nat
    /\ LiquidityAmounts \in [Token -> SUBSET (Nat \ {0})]
    /\ AverageWeights \subseteq Nat /\ CooldownSettings \subseteq Nat
    /\ AumAdjustments \subseteq Nat \X Nat
    /\ UsdpBalances \subseteq Nat /\ RedeemedUsdp \subseteq Nat
    /\ MaxCalls \in Nat

VARIABLES
    brrrSupply,
    usdpBalance,              \* USDP.balanceOf(brrrManager)
    lastAddedAt,              \* by account
    cooldownDuration,
    shortsTrackerAveragePriceWeight,
    aumAdjustment,            \* <<aumAddition, aumDeduction>>
    usdpUnbacked,             \* history: USDP minted without a deposit
    calls                     \* history: how many calls there were

managerSettings == <<cooldownDuration, shortsTrackerAveragePriceWeight, aumAdjustment>>
managerVars == <<brrrSupply, usdpBalance, lastAddedAt, managerSettings, usdpUnbacked>>
liquidityVars == <<tradingVars, managerVars, calls>>

LiquidityInit ==
    /\ TradingInit
    /\ brrrSupply = 0 /\ usdpBalance = 0 /\ usdpUnbacked = 0 /\ calls = 0
    /\ lastAddedAt = [account \in Accounts |-> 0]
    /\ cooldownDuration = 0                       \* an argument of the constructor
    /\ shortsTrackerAveragePriceWeight \in AverageWeights    \* as governance set it up
    /\ aumAdjustment = <<0, 0>>

-----------------------------------------------------------------------------
(* getAum.                                                                 *)

Monus(a, b) == IF b > a THEN 0 ELSE a - b

\* getGlobalShortAveragePrice; its weights of nothing and of everything are the
\* ends of the same mean
UsesTracker == isGlobalShortDataReady /\ shortsTrackerAveragePriceWeight # 0
AverageShortPrice ==
    IF UsesTracker
    THEN (globalShortAveragePrice * (BPS - shortsTrackerAveragePriceWeight)
          + trackedAveragePrice * shortsTrackerAveragePriceWeight) \div BPS
    ELSE globalShortAveragePrice

\* getAum reverts when the weight underflows or the shorts have no average price
HasAum ==
    globalShortSize > 0 =>
        /\ UsesTracker => shortsTrackerAveragePriceWeight <= BPS
        /\ AverageShortPrice > 0

ShortPnl(nextPrice) ==
    IF globalShortSize = 0 THEN 0 ELSE Pnl(globalShortSize, AverageShortPrice, nextPrice)

\* mutant: the pool's reserved tokens are counted beside the guaranteed amount
IndexAumWithReserve(indexPrice) == guaranteedUsd + (poolAmounts[Index] * indexPrice) \div UNIT

\* what longs owe, and the part of the pool not set aside for them
IndexAum(indexPrice) ==
    guaranteedUsd + ((poolAmounts[Index] - reservedAmounts[Index]) * indexPrice) \div UNIT

Aum(maximise) ==
    LET Quote(t) == IF maximise THEN MaxPrice(t) ELSE MinPrice(t)
        gross == aumAdjustment[1] + (poolAmounts[Stable] * Quote(Stable)) \div UNIT
                 + IndexAum(Quote(Index))
        pnl == ShortPnl(Quote(Index))
    IN Monus(Monus(gross, pnl), aumAdjustment[2])

-----------------------------------------------------------------------------
(* Deposits and redemptions.                                               *)

\* mutant: the shares are priced at the pool's lower value
MintedShareCheap(usdp) ==
    IF Aum(FALSE) = 0 THEN usdp ELSE (usdp * brrrSupply) \div Aum(FALSE)

\* the shares minted for a deposit that bought `usdp`
MintedShares(usdp) ==
    IF Aum(TRUE) = 0 THEN usdp ELSE (usdp * brrrSupply) \div Aum(TRUE)

AddLiquidity(account, t, sent) ==
    /\ HasAum
    /\ BuyUSDP(t, sent)
    /\ usdpBalance' = usdpBalance + usdpSupply' - usdpSupply
    /\ brrrSupply' = brrrSupply + MintedShares(usdpSupply' - usdpSupply)
    /\ lastAddedAt' = [lastAddedAt EXCEPT ![account] = now]
    /\ UNCHANGED <<managerSettings, usdpUnbacked, trackerVars, untracked, trades>>

\* the manager mints the USDP it lacks; the vault burns all it is sent
RemoveLiquidity(account, t, amount) ==
    LET usdp == (amount * Aum(FALSE)) \div brrrSupply
        minted == Monus(usdp, usdpBalance)
    IN /\ amount > 0 /\ amount <= brrrSupply
       /\ lastAddedAt[account] + cooldownDuration <= now
       /\ HasAum
       /\ Redeem(t, usdp)
       /\ usdpSupply' = usdpSupply + minted - usdp
       /\ usdpBalance' = usdpBalance + minted - usdp
       /\ usdpUnbacked' = usdpUnbacked + minted
       /\ brrrSupply' = brrrSupply - amount
       /\ UNCHANGED <<lastAddedAt, managerSettings, trackerVars, untracked, trades>>

-----------------------------------------------------------------------------
(* Governance.                                                             *)

\* the weight checked is the one about to be replaced
SetShortsTrackerAveragePriceWeight(weight) ==
    /\ shortsTrackerAveragePriceWeight <= BPS
    /\ shortsTrackerAveragePriceWeight' = weight
    /\ UNCHANGED <<tradingVars, brrrSupply, usdpBalance, lastAddedAt, cooldownDuration,
                   aumAdjustment, usdpUnbacked>>

SetCooldownDuration(duration) ==
    /\ cooldownDuration' = duration
    /\ UNCHANGED <<tradingVars, brrrSupply, usdpBalance, lastAddedAt,
                   shortsTrackerAveragePriceWeight, aumAdjustment, usdpUnbacked>>

SetAumAdjustment(adjustment) ==
    /\ aumAdjustment' = adjustment
    /\ UNCHANGED <<tradingVars, brrrSupply, usdpBalance, lastAddedAt, cooldownDuration,
                   shortsTrackerAveragePriceWeight, usdpUnbacked>>

\* the timelock's keepers set the USDP the manager holds
UpdateUsdpSupply(amount) ==
    /\ usdpBalance' = amount
    /\ usdpSupply' = usdpSupply - usdpBalance + amount
    /\ usdpUnbacked' = usdpUnbacked + Monus(amount, usdpBalance)
    /\ UNCHANGED <<assetVars, guaranteedUsd, usdpAmounts, positions, shortVars, fundingVars,
                   isLeverageEnabled, envVars, unbackedFees, inflow, trackerVars, untracked,
                   trades, brrrSupply, lastAddedAt, managerSettings>>

\* the timelock mints USDP and sells it to the vault
RedeemUsdp(t, amount) ==
    /\ Redeem(t, amount)
    /\ usdpUnbacked' = usdpUnbacked + amount
    /\ UNCHANGED <<usdpSupply, trackerVars, untracked, trades, brrrSupply, usdpBalance,
                   lastAddedAt, managerSettings>>

LiquidityCall ==
    \E account \in Accounts, t \in Token :
        \/ \E sent \in LiquidityAmounts[t] : AddLiquidity(account, t, sent)
        \/ \E amount \in BrrrAmounts \cup {brrrSupply} : RemoveLiquidity(account, t, amount)

ManagerGovCall ==
    \/ \E weight \in AverageWeights : SetShortsTrackerAveragePriceWeight(weight)
    \/ \E duration \in CooldownSettings : SetCooldownDuration(duration)
    \/ \E adjustment \in AumAdjustments : SetAumAdjustment(adjustment)
    \/ \E amount \in UsdpBalances : UpdateUsdpSupply(amount)
    \/ \E t \in Token, amount \in RedeemedUsdp : RedeemUsdp(t, amount)

\* users sell only the USDP they hold, and none in manager mode
UserCall ==
    /\ TradingCall
    /\ IF inManagerMode THEN usdpSupply' = usdpSupply ELSE usdpSupply' >= usdpBalance
    /\ UNCHANGED managerVars

LiquidityNext ==
    \/ /\ calls < MaxCalls                        \* bound
       /\ calls' = calls + 1
       /\ LiquidityCall \/ ManagerGovCall \/ UserCall
    \/ Outside /\ UNCHANGED <<managerVars, calls>>

LiquiditySpec == LiquidityInit /\ [][LiquidityNext]_liquidityVars

-----------------------------------------------------------------------------
(* Properties.                                                             *)

ManagerTypeOK ==
    /\ brrrSupply \in Nat /\ usdpUnbacked \in Nat
    /\ usdpBalance \in Nat /\ usdpBalance <= usdpSupply /\ calls \in Nat
    /\ lastAddedAt \in [Accounts -> Nat] /\ cooldownDuration \in Nat
    /\ shortsTrackerAveragePriceWeight \in Nat /\ aumAdjustment \in Nat \X Nat

\* Neither a deposit nor a redemption takes value from the shares of the others: at
\* the lower and at the higher quote of the pool, the value of a share never falls,
\* whatever the fees, the roundings and the open positions.
SharesKeepValue ==
    [][brrrSupply' # brrrSupply =>
           \A maximise \in BOOLEAN :
               Aum(maximise)' * brrrSupply >= Aum(maximise) * brrrSupply']_liquidityVars

\* Opening, increasing, decreasing and closing a position moves no value between
\* the traders and the pool, up to rounding: a profit or a loss reaches the pool's
\* value as the price moves, not when it is taken.  For quotes without a spread,
\* when the shares follow the tracker and every short passed it, and of positions
\* that are not under water.
TradesKeepAum ==
    [][/\ trades' # trades
       /\ isGlobalShortDataReady /\ shortsTrackerAveragePriceWeight = BPS
       /\ ~untracked /\ ~untracked'
       /\ \A t \in Token : MinPrice(t) = MaxPrice(t)
       /\ \A id \in PositionId :
            positions[id].size > 0
            /\ LiquidationState(id, positions[id], FundingRate(CollateralToken(id))) = 1
                => positions'[id] = positions[id]
       => Distance(Aum(TRUE)', Aum(TRUE)) <= Tolerance]_liquidityVars

\* While governance does not overwrite a debt, the debts of the tokens cover the
\* USDP in circulation except what was minted without a deposit, although each of
\* them is capped at zero on its own.
DebtCoversSupply ==
    usdpSupply <= usdpAmounts[Index] + usdpAmounts[Stable] + usdpUnbacked
=============================================================================
