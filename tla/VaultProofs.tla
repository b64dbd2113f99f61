----------------------------- MODULE VaultProofs -----------------------------
(* Theorems about Vault, for every value of its constants.                 *)
EXTENDS Vault, SumTheorems

-----------------------------------------------------------------------------
(* Arithmetic: every division of the vault rounds down.                    *)

\* Solidity's unsigned division.
LEMMA DivNat ==
    ASSUME NEW a \in Nat, NEW c \in Nat \ {0}
    PROVE  /\ a \div c \in Nat
           /\ c * (a \div c) <= a
OBVIOUS

\* A share b / c of an amount, with b at most c, is at most the amount.
LEMMA ShareAtMost ==
    ASSUME NEW a \in Nat, NEW b \in Nat, NEW c \in Nat \ {0}, b <= c
    PROVE  (a * b) \div c \in 0..a
<1> DEFINE q == (a * b) \div c
<1>1. a * b \in Nat /\ a * b <= a * c
  OBVIOUS
<1>2. q \in Nat /\ c * q <= a * b
  BY <1>1, DivNat
<1>3. q <= a
  <2>1. ASSUME q >= a + 1 PROVE FALSE
    <3>1. c * (a + 1) <= c * q
      BY <1>2, <2>1
    <3>2. c * (a + 1) = a * c + c
      OBVIOUS
    <3> QED BY <1>1, <1>2, <3>1, <3>2
  <2> QED BY <1>2, <2>1
<1> QED BY <1>2, <1>3

\* Division rounds down.
LEMMA DivBounds ==
    ASSUME NEW a \in Int, NEW c \in Nat \ {0}
    PROVE  /\ a \div c \in Int
           /\ c * (a \div c) <= a /\ a < c * (a \div c) + c
OBVIOUS

\* A whole number of divisors within the dividend is within the quotient.
LEMMA DivAtLeast ==
    ASSUME NEW a \in Int, NEW c \in Nat \ {0}, NEW k \in Int, c * k <= a
    PROVE  k <= a \div c
<1> DEFINE q == a \div c
<1>1. q \in Int /\ a < c * q + c
  BY DivBounds
<1> HIDE DEF q
<1>2. ASSUME q + 1 <= k PROVE FALSE
  <2>1. c * (q + 1) <= c * k
    BY <1>1, <1>2
  <2>2. c * (q + 1) = c * q + c
    BY <1>1
  <2> QED BY <1>1, <2>1, <2>2
<1>3. k <= q
  BY <1>1, <1>2
<1> QED BY <1>3 DEF q

\* Division is monotone.
LEMMA DivMonotone ==
    ASSUME NEW a \in Int, NEW b \in Int, NEW c \in Nat \ {0}, a <= b
    PROVE  a \div c <= b \div c
<1>1. a \div c \in Int /\ c * (a \div c) <= a
  BY DivBounds
<1>2. c * (a \div c) <= b
  BY <1>1
<1> QED BY <1>1, <1>2, DivAtLeast

\* What is added before the division is added after it, and rounding only adds.
LEMMA DivSuperadditive ==
    ASSUME NEW a \in Nat, NEW b \in Nat, NEW c \in Nat \ {0}
    PROVE  a \div c + b \div c <= (a + b) \div c
<1> DEFINE p == a \div c
           q == b \div c
<1>1. p \in Nat /\ c * p <= a /\ q \in Nat /\ c * q <= b
  BY DivNat
<1> HIDE DEF p, q
<1>2. c * (p + q) = c * p + c * q
  BY <1>1
<1>3. c * (p + q) <= a + b
  BY <1>1, <1>2
<1>4. p + q <= (a + b) \div c
  BY <1>1, <1>3, DivAtLeast
<1> QED BY <1>4 DEF p, q

\* Taking at most k divisors off the dividend takes at most k off the quotient.
LEMMA DivLess ==
    ASSUME NEW a \in Nat, NEW b \in Nat, NEW c \in Nat \ {0}, NEW k \in Nat, a - c * k <= b
    PROVE  a \div c - k <= b \div c
<1> DEFINE p == a \div c
<1>1. p \in Nat /\ c * p <= a
  BY DivNat
<1> HIDE DEF p
<1>2. c * (p - k) = c * p - c * k
  BY <1>1
<1>3. c * k \in Nat
  OBVIOUS
<1>4. c * (p - k) <= b
  BY <1>1, <1>2, <1>3
<1>5. p - k <= b \div c
  BY <1>1, <1>4, DivAtLeast
<1> QED BY <1>5 DEF p

\* Products of natural numbers are monotone.
LEMMA ProductMonotone ==
    ASSUME NEW a \in Nat, NEW b \in Nat, NEW c \in Nat, a <= b
    PROVE  a * c <= b * c /\ c * a <= c * b
OBVIOUS

-----------------------------------------------------------------------------
(* Conversions and fees.                                                   *)

\* The quotes of the feed are positive.
LEMMA PriceNat ==
    ASSUME EnvOK, NEW t \in Token
    PROVE  MinPrice(t) \in Nat \ {0} /\ MaxPrice(t) \in Nat \ {0}
BY DEF EnvOK, MinPrice, MaxPrice

\* The three conversions keep natural numbers natural.
LEMMA ConversionNat ==
    ASSUME EnvOK, NEW t \in Token, NEW a \in Nat
    PROVE  /\ TokenToUsdMin(t, a) \in Nat
           /\ UsdToTokenMax(t, a) \in Nat
           /\ UsdToTokenMin(t, a) \in Nat
<1>1. MinPrice(t) \in Nat \ {0} /\ MaxPrice(t) \in Nat \ {0}
  BY PriceNat
<1>2. UNIT \in Nat \ {0}
  BY VaultAssumption
<1>3. a * MinPrice(t) \in Nat /\ a * UNIT \in Nat
  BY <1>1, <1>2
<1> QED BY <1>1, <1>2, <1>3, DivNat DEF TokenToUsdMin, UsdToTokenMax, UsdToTokenMin

\* Nothing converts to nothing.
LEMMA ConversionZero ==
    ASSUME EnvOK, NEW t \in Token
    PROVE  UsdToTokenMin(t, 0) = 0
<1>1. MaxPrice(t) \in Nat \ {0}
  BY PriceNat
<1>2. UNIT \in Nat \ {0}
  BY VaultAssumption
<1>3. 0 * UNIT = 0
  BY <1>2
<1>4. 0 \div MaxPrice(t) = 0
  BY <1>1
<1> QED BY <1>3, <1>4 DEF UsdToTokenMin

\* A fee in basis points leaves at most the amount.
LEMMA AfterFeeBound ==
    ASSUME NEW a \in Nat, NEW bps \in 0..BPS
    PROVE  AfterFee(a, bps) \in 0..a
<1>1. BPS \in Nat \ {0} /\ BPS - bps \in Nat /\ BPS - bps <= BPS
  BY VaultAssumption
<1> QED BY <1>1, ShareAtMost DEF AfterFee

\* So the fee on a position's size is a natural number.
LEMMA PositionFeeNat ==
    ASSUME NEW a \in Nat
    PROVE  PositionFee(a) \in Nat
<1>1. MarginFeeBps \in 0..BPS
  BY VaultAssumption
<1>2. AfterFee(a, MarginFeeBps) \in 0..a
  BY <1>1, AfterFeeBound
<1> QED BY <1>2 DEF PositionFee

\* The funding fee of a position whose entry rate the funding has reached.
LEMMA FundingFeeNat ==
    ASSUME NEW p \in Position, NEW rate \in Nat, p.entryFundingRate <= rate
    PROVE  FundingFee(p, rate) \in Nat
<1>1. p.size \in Nat /\ p.entryFundingRate \in Nat
  BY DEF Position
<1>2. rate - p.entryFundingRate \in Nat
  BY <1>1
<1>3. p.size * (rate - p.entryFundingRate) \in Nat
  BY <1>1, <1>2
<1>4. FundingPrecision \in Nat \ {0}
  BY VaultAssumption
<1> QED BY <1>3, <1>4, DivNat DEF FundingFee

\* The profit or loss of a position with an average price.
LEMMA DeltaNat ==
    ASSUME EnvOK, NEW id \in PositionId, NEW p \in Position, p.averagePrice > 0
    PROVE  Delta(id, p) \in Nat
<1>1. p.size \in Nat /\ p.averagePrice \in Nat \ {0}
  BY DEF Position
<1>2. ExitPrice(id) \in Nat
  BY PriceNat DEF ExitPrice, Token
<1>3. Distance(p.averagePrice, ExitPrice(id)) \in Nat
  BY <1>1, <1>2 DEF Distance
<1>4. p.size * Distance(p.averagePrice, ExitPrice(id)) \in Nat
  BY <1>1, <1>3
<1>5. (p.size * Distance(p.averagePrice, ExitPrice(id))) \div p.averagePrice \in Nat
  BY <1>1, <1>4, DivNat
<1> QED BY <1>5 DEF Delta

-----------------------------------------------------------------------------
(* Funding.                                                                *)

\* The funding rates and times keep their types, and rates never fall.
LEMMA FundingRateNat ==
    ASSUME AssetsOK, FundingOK, EnvOK, NEW t \in Token
    PROVE  /\ FundingRate(t) \in Nat /\ cumulativeFundingRates[t] <= FundingRate(t)
           /\ FundingTime(t) \in Nat
<1>1. /\ cumulativeFundingRates[t] \in Nat /\ lastFundingTimes[t] \in Nat
      /\ poolAmounts[t] \in Nat /\ reservedAmounts[t] \in Nat /\ now \in Nat
  BY DEF AssetsOK, FundingOK, EnvOK
<1>2. FundingInterval \in Nat \ {0} /\ FundingRateFactor \in Nat
  BY VaultAssumption
<1>3. FundingDue(t) => NextFundingRate(t) \in Nat
  <2> HAVE FundingDue(t)
  <2> DEFINE n == (now - lastFundingTimes[t]) \div FundingInterval
  <2>1. now - lastFundingTimes[t] \in Nat
    BY <1>1, <1>2 DEF FundingDue
  <2>2. n \in Nat
    BY <1>2, <2>1, DivNat
  <2> HIDE DEF n
  <2>3. FundingRateFactor * reservedAmounts[t] \in Nat
    BY <1>1, <1>2
  <2>4. FundingRateFactor * reservedAmounts[t] * n \in Nat
    BY <2>2, <2>3
  <2>5. CASE poolAmounts[t] = 0
    BY <2>5 DEF NextFundingRate
  <2>6. CASE poolAmounts[t] # 0
    BY <1>1, <2>4, <2>6, DivNat DEF NextFundingRate, n
  <2> QED BY <2>5, <2>6
<1>4. (now \div FundingInterval) * FundingInterval \in Nat
  <2>1. now \div FundingInterval \in Nat
    BY <1>1, <1>2, DivNat
  <2> QED BY <1>2, <2>1
<1> QED BY <1>1, <1>3, <1>4 DEF FundingRate, FundingTime

LEMMA UpdateFundingType ==
    ASSUME AssetsOK, FundingOK, EnvOK, NEW ts \in SUBSET Token, UpdateFunding(ts)
    PROVE  /\ FundingOK'
           /\ \A t \in Token : cumulativeFundingRates[t] <= cumulativeFundingRates'[t]
           /\ \A t \in ts : cumulativeFundingRates'[t] = FundingRate(t)
<1>1. \A t \in Token : /\ FundingRate(t) \in Nat /\ cumulativeFundingRates[t] <= FundingRate(t)
                       /\ FundingTime(t) \in Nat
  BY FundingRateNat
<1>2. \A t \in Token : cumulativeFundingRates[t] \in Nat /\ lastFundingTimes[t] \in Nat
  BY DEF FundingOK
<1> QED BY <1>1, <1>2 DEF UpdateFunding, FundingOK

\* Positions that a funding update leaves alone stay well formed.
LEMMA PositionsKept ==
    ASSUME FundingOK, FundingOK', PositionsOK, UNCHANGED positions,
           \A t \in Token : cumulativeFundingRates[t] <= cumulativeFundingRates'[t]
    PROVE  PositionsOK'
<1> SUFFICES ASSUME NEW id \in PositionId
             PROVE  positions[id].entryFundingRate
                      <= cumulativeFundingRates'[CollateralToken(id)]
  BY DEF PositionsOK
<1>1. CollateralToken(id) \in Token
  BY DEF CollateralToken, Token
<1>2. positions[id].entryFundingRate \in Nat
  BY DEF PositionsOK, Position
<1>3. positions[id].entryFundingRate <= cumulativeFundingRates[CollateralToken(id)]
  BY DEF PositionsOK
<1> QED BY <1>1, <1>2, <1>3 DEF FundingOK

-----------------------------------------------------------------------------
(* Transfers.                                                              *)

\* What a call sends in or the vault pays out keeps the balances' types, and the
\* recorded balance never passes the real one.
LEMMA TransferInType ==
    ASSUME AssetsOK, EnvOK, NEW t \in Token, NEW sent \in Nat, TransferIn(t, sent)
    PROVE  /\ Received(t, sent) \in Nat
           /\ balance' \in [Token -> Nat] /\ tokenBalances' \in [Token -> Nat]
           /\ \A u \in Token : tokenBalances'[u] <= balance'[u]
           /\ inflow' \in [Token -> Nat]
<1>1. \A u \in Token : balance[u] \in Nat /\ tokenBalances[u] \in Nat /\ inflow[u] \in Nat
  BY DEF AssetsOK, EnvOK
<1> QED BY <1>1 DEF AssetsOK, EnvOK, TransferIn, Send, Received

LEMMA TransferOutType ==
    ASSUME AssetsOK, NEW t \in Token, NEW amount \in Nat, TransferOut(t, amount)
    PROVE  /\ balance' \in [Token -> Nat] /\ tokenBalances' \in [Token -> Nat]
           /\ \A u \in Token : tokenBalances'[u] <= balance'[u]
<1>1. \A u \in Token : balance[u] \in Nat /\ tokenBalances[u] \in Nat
  BY DEF AssetsOK
<1> QED BY <1>1 DEF AssetsOK, TransferOut

\* _decreaseUsdpAmount never leaves a negative debt.
LEMMA LessUsdpNat ==
    ASSUME UsdpOK, NEW t \in Token, NEW amount \in Nat
    PROVE  LessUsdp(t, amount) \in Nat
<1>1. usdpAmounts[t] \in Nat
  BY DEF UsdpOK
<1> QED BY <1>1 DEF LessUsdp

-----------------------------------------------------------------------------
(* The invariant: the types, with the reserves inside the pool.            *)

Inv == TypeOK /\ ReservedBacked

\* The initial state, every amount zero.
LEMMA InitInv == Init => Inv
<1> SUFFICES ASSUME Init PROVE Inv
  OBVIOUS
<1>1. AssetsOK /\ UsdpOK /\ FundingOK /\ TotalsOK /\ ReservedBacked
  BY DEF Init, AssetsOK, UsdpOK, FundingOK, TotalsOK, ReservedBacked
<1>2. PositionsOK
  <2>1. NoPosition \in Position
    BY DEF NoPosition, Position
  <2>2. \A id \in PositionId : positions[id] = NoPosition
    BY DEF Init
  <2>3. NoPosition.size = 0 /\ NoPosition.collateral = 0 /\ NoPosition.entryFundingRate = 0
    BY DEF NoPosition
  <2>4. \A id \in PositionId : cumulativeFundingRates[CollateralToken(id)] = 0
    BY DEF Init, CollateralToken, Token
  <2> QED BY <2>1, <2>2, <2>3, <2>4 DEF Init, PositionsOK
<1>3. EnvOK
  <2>1. \A t \in Token : Prices[t] \subseteq (Nat \ {0}) \X (Nat \ {0})
    BY VaultAssumption
  <2>2. price \in [Token -> (Nat \ {0}) \X (Nat \ {0})]
    BY <2>1 DEF Init
  <2>3. StartTime \in Nat
    BY VaultAssumption
  <2> QED BY <2>2, <2>3 DEF Init, EnvOK
<1> QED BY <1>1, <1>2, <1>3 DEF Inv, TypeOK

\* A step that leaves the funding alone and the positions where they are.
LEMMA PositionsSame ==
    ASSUME PositionsOK, UNCHANGED <<positions, fundingVars>>
    PROVE  PositionsOK'
BY DEF PositionsOK, fundingVars

-----------------------------------------------------------------------------
(* The pool's operations.                                                  *)

\* directPoolDeposit only adds to the pool.
LEMMA DirectPoolDepositInv ==
    ASSUME Inv, NEW t \in Token, NEW sent \in Nat, DirectPoolDeposit(t, sent)
    PROVE  Inv'
<1> USE DEF Inv, TypeOK
<1>1. TransferIn(t, sent)
  BY DEF DirectPoolDeposit
<1>2. /\ Received(t, sent) \in Nat
      /\ balance' \in [Token -> Nat] /\ tokenBalances' \in [Token -> Nat]
      /\ \A u \in Token : tokenBalances'[u] <= balance'[u]
      /\ inflow' \in [Token -> Nat]
  BY <1>1, TransferInType
<1>3. poolAmounts' \in [Token -> Nat] /\ \A u \in Token : poolAmounts[u] <= poolAmounts'[u]
  <2>1. \A u \in Token : poolAmounts[u] \in Nat
    BY DEF AssetsOK
  <2> QED BY <1>2, <2>1 DEF DirectPoolDeposit, AssetsOK
<1>4. AssetsOK' /\ ReservedBacked'
  <2>1. \A u \in Token : reservedAmounts[u] \in Nat /\ poolAmounts[u] \in Nat
    BY DEF AssetsOK
  <2> QED BY <1>2, <1>3, <2>1 DEF DirectPoolDeposit, AssetsOK, ReservedBacked
<1>5. UsdpOK' /\ FundingOK' /\ TotalsOK' /\ EnvOK'
  BY <1>2 DEF DirectPoolDeposit, usdpVars, fundingVars, shortVars, envVars,
              UsdpOK, FundingOK, TotalsOK, EnvOK
<1>6. PositionsOK'
  BY PositionsSame DEF DirectPoolDeposit
<1> QED BY <1>4, <1>5, <1>6

\* buyUSDP adds to the pool what its fee leaves.
LEMMA BuyUSDPInv ==
    ASSUME Inv, NEW t \in Token, NEW sent \in Nat, BuyUSDP(t, sent)
    PROVE  Inv'
<1> USE DEF Inv, TypeOK
<1> DEFINE amount == Received(t, sent)
           afterFees == AfterFee(amount, MintBurnFeeBps)
           mint == TokenToUsdMin(t, afterFees)
<1>1. TransferIn(t, sent) /\ UpdateFunding({t})
  BY DEF BuyUSDP
<1>2. /\ amount \in Nat
      /\ balance' \in [Token -> Nat] /\ tokenBalances' \in [Token -> Nat]
      /\ \A u \in Token : tokenBalances'[u] <= balance'[u]
      /\ inflow' \in [Token -> Nat]
  BY <1>1, TransferInType
<1>3. afterFees \in 0..amount
  BY <1>2, AfterFeeBound, VaultAssumption
<1>4. mint \in Nat
  BY <1>3, ConversionNat
<1>5. FundingOK' /\ PositionsOK'
  BY <1>1, UpdateFundingType, PositionsKept DEF BuyUSDP
<1>6. /\ feeReserves' = [feeReserves EXCEPT ![t] = @ + amount - afterFees]
      /\ usdpAmounts' = [usdpAmounts EXCEPT ![t] = @ + mint]
      /\ poolAmounts' = [poolAmounts EXCEPT ![t] = @ + afterFees]
      /\ usdpSupply' = usdpSupply + mint
      /\ UNCHANGED <<reservedAmounts, guaranteedUsd, positions, shortVars,
                     isLeverageEnabled, envVars, unbackedFees>>
  BY DEF BuyUSDP
<1> HIDE DEF amount, afterFees, mint
<1>7. \A u \in Token : /\ poolAmounts[u] \in Nat /\ reservedAmounts[u] \in Nat
                       /\ feeReserves[u] \in Nat /\ usdpAmounts[u] \in Nat
  BY DEF AssetsOK, UsdpOK
<1>8. /\ poolAmounts' \in [Token -> Nat] /\ feeReserves' \in [Token -> Nat]
      /\ \A u \in Token : poolAmounts[u] <= poolAmounts'[u]
  BY <1>2, <1>3, <1>6, <1>7 DEF AssetsOK
<1>9. AssetsOK' /\ ReservedBacked'
  BY <1>2, <1>6, <1>7, <1>8 DEF AssetsOK, ReservedBacked
<1>10. UsdpOK' /\ TotalsOK' /\ EnvOK'
  BY <1>2, <1>4, <1>6, <1>7 DEF UsdpOK, TotalsOK, EnvOK, shortVars, envVars
<1> QED BY <1>5, <1>9, <1>10

\* sellUSDP takes from the pool what check 50 lets it.
LEMMA RedeemInv ==
    ASSUME Inv, NEW t \in Token, NEW usdp \in Nat, Redeem(t, usdp), usdpSupply' \in Nat
    PROVE  Inv'
<1> USE DEF Inv, TypeOK
<1> DEFINE redemption == UsdToTokenMin(t, usdp)
           amountOut == AfterFee(redemption, MintBurnFeeBps)
<1>1. redemption \in Nat
  BY ConversionNat
<1>2. amountOut \in 0..redemption
  BY <1>1, AfterFeeBound, VaultAssumption
<1>3. UpdateFunding({t}) /\ TransferOut(t, amountOut)
  BY DEF Redeem
<1>4. /\ balance' \in [Token -> Nat] /\ tokenBalances' \in [Token -> Nat]
      /\ \A u \in Token : tokenBalances'[u] <= balance'[u]
  BY <1>2, <1>3, TransferOutType
<1>5. FundingOK' /\ PositionsOK'
  BY <1>3, UpdateFundingType, PositionsKept DEF Redeem
<1>6. /\ usdpAmounts' = [usdpAmounts EXCEPT ![t] = LessUsdp(t, usdp)]
      /\ redemption <= poolAmounts[t]
      /\ poolAmounts' = [poolAmounts EXCEPT ![t] = @ - redemption]
      /\ ReserveHolds(reservedAmounts[t], poolAmounts'[t])
      /\ feeReserves' = [feeReserves EXCEPT ![t] = @ + redemption - amountOut]
      /\ UNCHANGED <<reservedAmounts, guaranteedUsd, positions, shortVars,
                     isLeverageEnabled, envVars, unbackedFees, inflow>>
  BY DEF Redeem
<1> HIDE DEF redemption, amountOut
<1>7. \A u \in Token : /\ poolAmounts[u] \in Nat /\ reservedAmounts[u] \in Nat
                       /\ feeReserves[u] \in Nat /\ usdpAmounts[u] \in Nat
  BY DEF AssetsOK, UsdpOK
<1>8. AssetsOK'
  BY <1>1, <1>2, <1>4, <1>6, <1>7 DEF AssetsOK
<1>9. ReservedBacked'
  BY <1>6, <1>7 DEF AssetsOK, ReservedBacked, ReserveHolds
<1>10. UsdpOK'
  BY <1>6, LessUsdpNat DEF UsdpOK
<1>11. TotalsOK' /\ EnvOK'
  BY <1>6 DEF TotalsOK, EnvOK, shortVars, envVars
<1> QED BY <1>5, <1>8, <1>9, <1>10, <1>11

\* A user redeems no more USDP than there is.
LEMMA SellUSDPInv ==
    ASSUME Inv, NEW t \in Token, NEW usdp \in Nat, SellUSDP(t, usdp)
    PROVE  Inv'
<1>1. usdpSupply' \in Nat
  BY DEF SellUSDP, Inv, TypeOK, UsdpOK
<1> QED BY <1>1, RedeemInv DEF SellUSDP

\* swap adds to one pool and takes from the other what check 50 lets it.
LEMMA SwapInv ==
    ASSUME Inv, NEW in \in Token, NEW out \in Token, NEW sent \in Nat, Swap(in, out, sent)
    PROVE  Inv'
<1> USE DEF Inv, TypeOK
<1> DEFINE amountIn == Received(in, sent)
           amountOut == (amountIn * MinPrice(in)) \div MaxPrice(out)
           usdp == TokenToUsdMin(in, amountIn)
           afterFees == AfterFee(amountOut, SwapFeeBps)
<1>0. \A u \in Token : /\ balance[u] \in Nat /\ tokenBalances[u] \in Nat /\ inflow[u] \in Nat
                       /\ poolAmounts[u] \in Nat /\ reservedAmounts[u] \in Nat
                       /\ feeReserves[u] \in Nat /\ usdpAmounts[u] \in Nat
  BY DEF AssetsOK, UsdpOK, EnvOK
<1>1. in # out /\ amountIn \in Nat
  <2>1. amountIn \in Int
    BY <1>0 DEF Received
  <2> HIDE DEF amountIn
  <2>2. in # out /\ amountIn > 0
    BY DEF Swap, amountIn
  <2> QED BY <2>1, <2>2
<1>2. amountOut \in Nat
  <2>1. amountIn * MinPrice(in) \in Nat
    BY <1>1, PriceNat
  <2> QED BY <2>1, PriceNat, DivNat
<1>3. afterFees \in 0..amountOut
  BY <1>2, AfterFeeBound, VaultAssumption
<1>4. usdp \in Nat
  BY <1>1, ConversionNat
<1>5. /\ UpdateFunding({in, out}) /\ Send(in, sent) /\ afterFees <= balance[out]
      /\ usdpAmounts' = ShiftedDebt(in, out, usdp)
      /\ feeReserves' = [feeReserves EXCEPT ![out] = @ + amountOut - afterFees]
      /\ balance' = [balance EXCEPT ![in] = @ + sent, ![out] = @ - afterFees]
      /\ tokenBalances' = [t \in Token |-> IF t = in THEN balance[in] + sent
                                           ELSE balance[out] - afterFees]
      /\ amountOut <= poolAmounts[out]
      /\ poolAmounts' = [poolAmounts EXCEPT ![in] = @ + amountIn, ![out] = @ - amountOut]
      /\ ReserveHolds(reservedAmounts[out], poolAmounts'[out])
      /\ UNCHANGED <<reservedAmounts, guaranteedUsd, usdpSupply, positions, shortVars,
                     isLeverageEnabled, envVars, unbackedFees>>
  BY DEF Swap
<1> HIDE DEF amountIn, amountOut, usdp, afterFees
<1>6. FundingOK' /\ PositionsOK'
  <2>1. {in, out} \in SUBSET Token
    OBVIOUS
  <2> QED BY <2>1, <1>5, UpdateFundingType, PositionsKept
<1>7. Token = {in, out}
  BY <1>1 DEF Token
<1>8. balance' \in [Token -> Nat] /\ tokenBalances' \in [Token -> Nat]
  BY <1>0, <1>1, <1>2, <1>3, <1>5 DEF AssetsOK
<1>9. \A u \in Token : tokenBalances'[u] <= balance'[u]
  <2>1. balance'[in] = balance[in] + sent /\ balance'[out] = balance[out] - afterFees
    BY <1>1, <1>5 DEF AssetsOK
  <2>2. tokenBalances'[in] = balance[in] + sent /\ tokenBalances'[out] = balance[out] - afterFees
    BY <1>1, <1>5
  <2> QED BY <1>0, <1>2, <1>3, <1>7, <2>1, <2>2
<1>10. poolAmounts' \in [Token -> Nat] /\ feeReserves' \in [Token -> Nat]
  BY <1>0, <1>1, <1>2, <1>3, <1>5 DEF AssetsOK
<1>11. AssetsOK'
  BY <1>5, <1>8, <1>9, <1>10 DEF AssetsOK
<1>12. ReservedBacked'
  <2>1. poolAmounts'[in] = poolAmounts[in] + amountIn
    BY <1>1, <1>5 DEF AssetsOK
  <2>2. reservedAmounts' = reservedAmounts /\ reservedAmounts[out] <= poolAmounts'[out]
    BY <1>5 DEF ReserveHolds
  <2>3. reservedAmounts[in] <= poolAmounts[in]
    BY DEF ReservedBacked
  <2>4. reservedAmounts[in] <= poolAmounts'[in]
    BY <1>0, <1>1, <2>1, <2>3
  <2> QED BY <1>7, <2>2, <2>4 DEF ReservedBacked
<1>13. UsdpOK'
  <2>1. LessUsdp(out, usdp) \in Nat
    BY <1>4, LessUsdpNat
  <2>2. usdpAmounts[in] + usdp \in Nat
    BY <1>0, <1>4
  <2>3. usdpAmounts' = [usdpAmounts EXCEPT ![in] = usdpAmounts[in] + usdp,
                                           ![out] = LessUsdp(out, usdp)]
    BY <1>5 DEF ShiftedDebt
  <2> QED BY <1>5, <2>1, <2>2, <2>3 DEF UsdpOK
<1>14. TotalsOK' /\ EnvOK'
  <2>1. inflow' \in [Token -> Nat]
    BY <1>5 DEF Send, EnvOK
  <2> QED BY <1>5, <2>1 DEF TotalsOK, EnvOK, shortVars, envVars
<1> QED BY <1>6, <1>11, <1>12, <1>13, <1>14

-----------------------------------------------------------------------------
(* Positions.                                                              *)

\* What PositionsOK says of one position, at a funding rate.
WellFormed(p, rate) ==
    /\ p \in Position
    /\ p.size >= p.collateral
    /\ p.size = 0 <=> p = NoPosition
    /\ p.entryFundingRate <= rate

\* A step that changes one position and updates its token's funding.
LEMMA OnePositionChanged ==
    ASSUME FundingOK, FundingOK', PositionsOK, NEW id \in PositionId, NEW q,
           positions' = [positions EXCEPT ![id] = q],
           WellFormed(q, cumulativeFundingRates'[CollateralToken(id)]),
           \A t \in Token : cumulativeFundingRates[t] <= cumulativeFundingRates'[t]
    PROVE  PositionsOK'
<1>1. positions' \in [PositionId -> Position]
  BY DEF PositionsOK, WellFormed
<1>2. ASSUME NEW other \in PositionId
      PROVE  WellFormed(positions'[other], cumulativeFundingRates'[CollateralToken(other)])
  <2>1. CASE other = id
    BY <2>1 DEF PositionsOK
  <2>2. CASE other # id
    <3>1. positions'[other] = positions[other]
      BY <2>2 DEF PositionsOK
    <3>2. CollateralToken(other) \in Token
      BY DEF CollateralToken, Token
    <3>3. positions[other].entryFundingRate \in Nat
      BY DEF PositionsOK, Position
    <3>4. WellFormed(positions[other], cumulativeFundingRates[CollateralToken(other)])
      BY DEF PositionsOK, WellFormed
    <3> QED BY <3>1, <3>2, <3>3, <3>4 DEF WellFormed, FundingOK
  <2> QED BY <2>1, <2>2
<1> QED BY <1>1, <1>2 DEF PositionsOK, WellFormed

\* The empty position is well formed at every rate.
LEMMA NoPositionWellFormed ==
    ASSUME NEW rate \in Nat
    PROVE  WellFormed(NoPosition, rate)
BY DEF WellFormed, NoPosition, Position

\* What a position's fields are worth to the proofs below.
LEMMA PositionFields ==
    ASSUME PositionsOK, FundingOK, AssetsOK, EnvOK, NEW id \in PositionId
    PROVE  /\ positions[id] \in Position
           /\ positions[id].size \in Nat /\ positions[id].collateral \in Nat
           /\ positions[id].averagePrice \in Nat /\ positions[id].reserveAmount \in Nat
           /\ positions[id].entryFundingRate \in Nat /\ positions[id].lastIncreasedTime \in Nat
           /\ positions[id].size >= positions[id].collateral
           /\ CollateralToken(id) \in Token
           /\ FundingRate(CollateralToken(id)) \in Nat
           /\ positions[id].entryFundingRate <= FundingRate(CollateralToken(id))
           /\ FundingFee(positions[id], FundingRate(CollateralToken(id))) \in Nat
<1> DEFINE t == CollateralToken(id)
           p == positions[id]
<1>1. t \in Token
  BY DEF CollateralToken, Token
<1>2. p \in Position /\ p.size >= p.collateral /\ p.entryFundingRate <= cumulativeFundingRates[t]
  BY DEF PositionsOK
<1>3. FundingRate(t) \in Nat /\ cumulativeFundingRates[t] <= FundingRate(t)
  BY <1>1, FundingRateNat
<1>4. cumulativeFundingRates[t] \in Nat
  BY <1>1 DEF FundingOK
<1>5. p.entryFundingRate \in Nat
  BY <1>2 DEF Position
<1>6. p.entryFundingRate <= FundingRate(t)
  BY <1>2, <1>3, <1>4, <1>5
<1>7. FundingFee(p, FundingRate(t)) \in Nat
  BY <1>2, <1>3, <1>6, FundingFeeNat
<1> QED BY <1>1, <1>2, <1>3, <1>6, <1>7 DEF Position

\* getNextAveragePrice, with a positive divisor.
LEMMA NextAveragePriceNat ==
    ASSUME EnvOK, NEW id \in PositionId, NEW p \in Position,
           NEW entryPrice \in Nat, NEW sizeDelta \in Nat,
           p.size > 0 /\ sizeDelta > 0 =>
               p.averagePrice > 0 /\ AverageDivisor(id, p, sizeDelta) > 0
    PROVE  NextAveragePrice(id, p, entryPrice, sizeDelta) \in Nat
<1>1. p.size \in Nat /\ p.averagePrice \in Nat
  BY DEF Position
<1>2. CASE p.size = 0 \/ sizeDelta = 0
  BY <1>1, <1>2 DEF NextAveragePrice
<1>3. CASE p.size > 0 /\ sizeDelta > 0
  <2>1. Delta(id, p) \in Nat
    BY <1>3, DeltaNat
  <2>2. AverageDivisor(id, p, sizeDelta) \in Nat \ {0}
    BY <1>1, <1>3, <2>1 DEF AverageDivisor
  <2>3. entryPrice * (p.size + sizeDelta) \in Nat
    BY <1>1
  <2>4. (entryPrice * (p.size + sizeDelta)) \div AverageDivisor(id, p, sizeDelta) \in Nat
    BY <2>2, <2>3, DivNat
  <2> QED BY <1>3, <2>4 DEF NextAveragePrice
<1> QED BY <1>1, <1>2, <1>3

\* getNextGlobalShortAveragePrice, with a positive divisor.
LEMMA NextShortAveragePriceNat ==
    ASSUME TotalsOK, NEW nextPrice \in Nat, NEW sizeDelta \in Nat,
           globalShortSize > 0 =>
               globalShortAveragePrice > 0 /\ ShortDivisor(nextPrice, sizeDelta) > 0
    PROVE  NextShortAveragePrice(nextPrice, sizeDelta) \in Nat
<1>1. globalShortSize \in Nat /\ globalShortAveragePrice \in Nat
  BY DEF TotalsOK
<1>2. CASE globalShortSize = 0
  BY <1>2 DEF NextShortAveragePrice
<1>3. CASE globalShortSize > 0
  <2>1. Distance(globalShortAveragePrice, nextPrice) \in Nat
    BY <1>1 DEF Distance
  <2>2. globalShortSize * Distance(globalShortAveragePrice, nextPrice) \in Nat
    BY <1>1, <2>1
  <2>3. ShortDelta(nextPrice) \in Nat
    BY <1>1, <1>3, <2>2, DivNat DEF ShortDelta
  <2>4. ShortDivisor(nextPrice, sizeDelta) \in Nat \ {0}
    BY <1>1, <1>3, <2>3 DEF ShortDivisor
  <2>5. nextPrice * (globalShortSize + sizeDelta) \in Nat
    BY <1>1
  <2>6. (nextPrice * (globalShortSize + sizeDelta)) \div ShortDivisor(nextPrice, sizeDelta) \in Nat
    BY <2>4, <2>5, DivNat
  <2> QED BY <1>3, <2>6 DEF NextShortAveragePrice
<1> QED BY <1>1, <1>2, <1>3

-----------------------------------------------------------------------------
(* increasePosition.                                                       *)

\* Checks 50 and 52 keep the larger reserve inside the pool, 29 and
\* _validatePosition the collateral between zero and the size.
LEMMA IncreaseInv ==
    ASSUME Inv, NEW id \in PositionId, NEW sent \in Nat, NEW sizeDelta \in Nat,
           Increase(id, sent, sizeDelta), isLeverageEnabled' \in BOOLEAN
    PROVE  Inv'
<1> USE DEF Inv, TypeOK
<1> DEFINE t == CollateralToken(id)
           rate == FundingRate(t)
           p == positions[id]
           entryPrice == IF IsLong(id) THEN MaxPrice(Index) ELSE MinPrice(Index)
           fee == PositionFee(sizeDelta) + FundingFee(p, rate)
           feeTokens == UsdToTokenMin(t, fee)
           received == Received(t, sent)
           collateralUsd == TokenToUsdMin(t, received)
           reserveDelta == UsdToTokenMax(t, sizeDelta)
           q == [size |-> p.size + sizeDelta,
                 collateral |-> p.collateral + collateralUsd - fee,
                 averagePrice |-> NextAveragePrice(id, p, entryPrice, sizeDelta),
                 entryFundingRate |-> rate,
                 reserveAmount |-> p.reserveAmount + reserveDelta,
                 lastIncreasedTime |-> now]
<1>1. /\ TransferIn(t, sent)
      /\ UpdateFunding({t})
      /\ p.size > 0 /\ sizeDelta > 0 =>
             p.averagePrice > 0 /\ AverageDivisor(id, p, sizeDelta) > 0
      /\ p.collateral + collateralUsd >= fee
      /\ q.size > 0
      /\ ValidPosition(id, q, rate)
      /\ positions' = [positions EXCEPT ![id] = q]
      /\ feeReserves' = [feeReserves EXCEPT ![t] = @ + feeTokens]
      /\ reservedAmounts' = [reservedAmounts EXCEPT ![t] = @ + reserveDelta]
      /\ ReserveHolds(reservedAmounts'[t], poolAmounts[t])
      /\ IF IsLong(id)
         THEN /\ GuaranteedAfter(sizeDelta, fee, collateralUsd) >= 0
              /\ guaranteedUsd' = GuaranteedAfter(sizeDelta, fee, collateralUsd)
              /\ poolAmounts[t] + received >= feeTokens
              /\ poolAmounts' = [poolAmounts EXCEPT ![t] = @ + received - feeTokens]
              /\ ReserveHolds(reservedAmounts'[t], poolAmounts'[t])
              /\ UNCHANGED shortVars
         ELSE /\ globalShortSize > 0 =>
                     globalShortAveragePrice > 0 /\ ShortDivisor(entryPrice, sizeDelta) > 0
              /\ globalShortAveragePrice' = NextShortAveragePrice(entryPrice, sizeDelta)
              /\ globalShortSize' = globalShortSize + sizeDelta
              /\ UNCHANGED <<guaranteedUsd, poolAmounts>>
      /\ UNCHANGED <<usdpVars, envVars, unbackedFees>>
  BY DEF Increase
<1>2. /\ p \in Position /\ p.size \in Nat /\ p.collateral \in Nat
      /\ p.reserveAmount \in Nat /\ t \in Token /\ rate \in Nat /\ FundingFee(p, rate) \in Nat
  BY PositionFields
<1>3. now \in Nat /\ entryPrice \in Nat
  BY PriceNat DEF EnvOK, Token
<1>4. /\ received \in Nat
      /\ balance' \in [Token -> Nat] /\ tokenBalances' \in [Token -> Nat]
      /\ \A u \in Token : tokenBalances'[u] <= balance'[u]
      /\ inflow' \in [Token -> Nat]
  BY <1>1, <1>2, TransferInType
<1>5. fee \in Nat
  BY <1>2, PositionFeeNat
<1>6. feeTokens \in Nat /\ collateralUsd \in Nat /\ reserveDelta \in Nat
  BY <1>2, <1>4, <1>5, ConversionNat
<1>7. /\ FundingOK'
      /\ \A u \in Token : cumulativeFundingRates[u] <= cumulativeFundingRates'[u]
      /\ cumulativeFundingRates'[t] = rate
  <2>1. {t} \in SUBSET Token
    BY <1>2
  <2> QED BY <1>1, <2>1, UpdateFundingType
<1>8. NextAveragePrice(id, p, entryPrice, sizeDelta) \in Nat
  BY <1>1, <1>2, <1>3, NextAveragePriceNat
<1>9. WellFormed(q, rate)
  <2>1. q.size >= q.collateral
    BY <1>1 DEF ValidPosition
  <2>2. q \in Position
    BY <1>1, <1>2, <1>3, <1>5, <1>6, <1>8 DEF Position
  <2>3. q # NoPosition /\ q.size # 0
    BY <1>1, <1>2 DEF NoPosition
  <2>4. q.entryFundingRate <= rate
    BY <1>2
  <2> QED BY <2>1, <2>2, <2>3, <2>4 DEF WellFormed
<1> HIDE DEF q
<1>10. PositionsOK'
  BY <1>1, <1>7, <1>9, OnePositionChanged
<1> HIDE DEF t, rate, p, entryPrice, fee, feeTokens, received, collateralUsd, reserveDelta
<1>11. \A u \in Token : /\ poolAmounts[u] \in Nat /\ reservedAmounts[u] \in Nat
                        /\ feeReserves[u] \in Nat
  BY DEF AssetsOK
<1>12. poolAmounts' \in [Token -> Nat]
  BY <1>1, <1>2, <1>4, <1>6, <1>11 DEF AssetsOK
<1>13. AssetsOK'
  <2>1. reservedAmounts' = [reservedAmounts EXCEPT ![t] = @ + reserveDelta]
    BY <1>1
  <2>2. reservedAmounts' \in [Token -> Nat]
    BY <1>2, <1>6, <1>11, <2>1 DEF AssetsOK
  <2>3. feeReserves' = [feeReserves EXCEPT ![t] = @ + feeTokens]
    BY <1>1
  <2>4. feeReserves' \in [Token -> Nat]
    BY <1>2, <1>6, <1>11, <2>3 DEF AssetsOK
  <2> QED BY <1>4, <1>12, <2>2, <2>4 DEF AssetsOK
<1>14. ReservedBacked'
  BY <1>1, <1>2, <1>11 DEF ReservedBacked, ReserveHolds, AssetsOK
<1>15. TotalsOK'
  <2>1. CASE IsLong(id)
    <3>1. GuaranteedAfter(sizeDelta, fee, collateralUsd) \in Nat
      BY <1>1, <1>5, <1>6, <2>1 DEF GuaranteedAfter, TotalsOK
    <3> QED BY <1>1, <2>1, <3>1 DEF TotalsOK, shortVars
  <2>2. CASE ~IsLong(id)
    <3>1. NextShortAveragePrice(entryPrice, sizeDelta) \in Nat
      BY <1>1, <1>3, <2>2, NextShortAveragePriceNat
    <3> QED BY <1>1, <2>2, <3>1 DEF TotalsOK
  <2> QED BY <2>1, <2>2
<1>16. UsdpOK' /\ EnvOK'
  BY <1>1, <1>4 DEF UsdpOK, EnvOK, usdpVars, envVars
<1> QED BY <1>7, <1>10, <1>13, <1>14, <1>15, <1>16

-----------------------------------------------------------------------------
(* decreasePosition.                                                       *)

\* The amounts _reduceCollateral works out, once nothing in it underflows.
LEMMA ReductionType ==
    ASSUME TypeOK, NEW id \in PositionId, NEW collateralDelta \in Nat, NEW sizeDelta \in Nat,
           positions[id].size > 0, positions[id].averagePrice > 0,
           NEW r, r = Reduction(id, positions[id], FundingRate(CollateralToken(id)),
                                collateralDelta, sizeDelta),
           r.kept >= 0
    PROVE  /\ r.fee \in Nat /\ r.profit \in Nat /\ r.loss \in Nat
           /\ r.usdOut \in Nat /\ r.usdOutAfterFee \in Nat /\ r.feeFromCollateral \in Nat
           /\ r.collateral \in Int
           /\ r.usdOut = 0 => ~r.fromOut
<1> USE DEF TypeOK
<1> DEFINE p == positions[id]
           rate == FundingRate(CollateralToken(id))
           fee == PositionFee(sizeDelta) + FundingFee(p, rate)
           pnl == (sizeDelta * Delta(id, p)) \div p.size
           profit == IF HasProfit(id, p) THEN pnl ELSE 0
           loss == IF HasProfit(id, p) THEN 0 ELSE pnl
           kept == p.collateral - loss - collateralDelta
           closing == p.size = sizeDelta
           usdOut == profit + collateralDelta + (IF closing THEN kept ELSE 0)
           left == IF closing THEN 0 ELSE kept
           fromOut == usdOut > fee
<1>1. p \in Position /\ p.size \in Nat /\ p.collateral \in Nat /\ FundingFee(p, rate) \in Nat
  BY PositionFields
<1>2. fee \in Nat
  BY <1>1, PositionFeeNat
<1>3. pnl \in Nat
  <2>1. Delta(id, p) \in Nat
    BY <1>1, DeltaNat
  <2>2. sizeDelta * Delta(id, p) \in Nat
    BY <2>1
  <2> QED BY <1>1, <2>2, DivNat
<1> HIDE DEF fee, pnl, p, rate
<1>4. profit \in Nat /\ loss \in Nat /\ kept \in Int
  BY <1>1, <1>3
<1> HIDE DEF profit, loss
<1>5. /\ r.fee = fee /\ r.profit = profit /\ r.loss = loss /\ r.kept = kept
      /\ r.usdOut = usdOut /\ r.fromOut = fromOut
      /\ r.usdOutAfterFee = (IF fromOut THEN usdOut - fee ELSE usdOut)
      /\ r.feeFromCollateral = (IF fromOut THEN 0 ELSE fee)
      /\ r.collateral = (IF fromOut THEN left ELSE left - fee)
  BY DEF Reduction, fee, pnl, p, rate, profit, loss
<1>6. kept \in Nat
  BY <1>4, <1>5
<1> HIDE DEF kept, closing
<1>7. usdOut \in Nat /\ left \in Nat
  BY <1>4, <1>6
<1>8. fee \in Nat /\ (fromOut <=> usdOut > fee)
  BY <1>2
<1> HIDE DEF usdOut, left, fromOut
<1>9. r.usdOutAfterFee \in Nat /\ r.feeFromCollateral \in Nat /\ r.collateral \in Int
  <2>1. CASE fromOut
    <3>1. r.usdOutAfterFee = usdOut - fee /\ r.feeFromCollateral = 0 /\ r.collateral = left
      BY <1>5, <2>1
    <3> QED BY <1>7, <1>8, <2>1, <3>1
  <2>2. CASE ~fromOut
    <3>1. r.usdOutAfterFee = usdOut /\ r.feeFromCollateral = fee /\ r.collateral = left - fee
      BY <1>5, <2>2
    <3> QED BY <1>7, <1>8, <3>1
  <2> QED BY <2>1, <2>2
<1>10. r.usdOut = 0 => ~r.fromOut
  <2>1. usdOut = 0 => ~fromOut
    BY <1>8
  <2> QED BY <1>5, <2>1
<1>11. r.fee \in Nat /\ r.profit \in Nat /\ r.loss \in Nat /\ r.usdOut \in Nat
  BY <1>2, <1>4, <1>5, <1>7
<1> QED BY <1>9, <1>10, <1>11

\* Every transfer of the pool is checked against the reserve (50), and a decrease
\* that takes nothing out of the pool only lowers the reserve.
LEMMA DecreaseInv ==
    ASSUME Inv, NEW id \in PositionId, NEW collateralDelta \in Nat, NEW sizeDelta \in Nat,
           Decrease(id, collateralDelta, sizeDelta), isLeverageEnabled' \in BOOLEAN
    PROVE  Inv'
<1> USE DEF Inv, TypeOK
<1> DEFINE t == CollateralToken(id)
           rate == FundingRate(t)
           p == positions[id]
           r == Reduction(id, p, rate, collateralDelta, sizeDelta)
           closing == p.size = sizeDelta
           reserveDelta == FreedReserve(p, sizeDelta)
           reserved == reservedAmounts[t] - reserveDelta
           q == Decreased(p, r, rate, sizeDelta)
           pool == PoolAfterPayout(id, r)
           payout == UsdToTokenMin(t, r.usdOutAfterFee)
           freed == p.collateral - (IF closing THEN 0 ELSE r.collateral)
<1>1. /\ p.size > 0 /\ p.size >= sizeDelta /\ p.averagePrice > 0
      /\ UpdateFunding({t})
      /\ DecreaseReservedAmount(t, reserveDelta)
      /\ feeReserves' = [feeReserves EXCEPT ![t] = @ + UsdToTokenMin(t, r.fee)]
      /\ r.kept >= 0 /\ r.collateral >= 0
      /\ ~IsLong(id) /\ r.profit > 0 => ReserveHolds(reserved, PoolAfterPnl(id, r))
      /\ IsLong(id) /\ ~r.fromOut => ReserveHolds(reserved, PoolAfterFee(id, r))
      /\ IsLong(id) /\ r.usdOut > 0 => ReserveHolds(reserved, pool)
      /\ pool >= 0
      /\ poolAmounts' = [poolAmounts EXCEPT ![t] = pool]
      /\ closing \/ ValidPosition(id, q, rate)
      /\ positions' = [positions EXCEPT ![id] = IF closing THEN NoPosition ELSE q]
  BY DEF Decrease, CanDecrease
<1>2. /\ IF IsLong(id)
         THEN /\ guaranteedUsd + freed >= sizeDelta
              /\ guaranteedUsd' = guaranteedUsd + freed - sizeDelta
              /\ UNCHANGED globalShortSize
         ELSE globalShortSize' = LessShort(sizeDelta) /\ UNCHANGED guaranteedUsd
      /\ IF r.usdOut > 0 THEN TransferOut(t, payout) ELSE UNCHANGED <<balance, tokenBalances>>
      /\ UNCHANGED <<globalShortAveragePrice, usdpVars, envVars, unbackedFees, inflow>>
  BY DEF Decrease, CanDecrease
<1>3. /\ p \in Position /\ p.size \in Nat /\ p.collateral \in Nat
      /\ p.reserveAmount \in Nat /\ t \in Token /\ rate \in Nat
  BY PositionFields
<1>4. /\ r.fee \in Nat /\ r.profit \in Nat /\ r.loss \in Nat
      /\ r.usdOut \in Nat /\ r.usdOutAfterFee \in Nat /\ r.feeFromCollateral \in Nat
      /\ r.collateral \in Int
      /\ r.usdOut = 0 => ~r.fromOut
  <2> HIDE DEF Inv, TypeOK
  <2>1. TypeOK
    BY DEF Inv
  <2> QED BY <1>1, <2>1, ReductionType
<1>5. reserveDelta \in 0..p.reserveAmount
  <2>1. p.reserveAmount \in Nat /\ p.size \in Nat \ {0} /\ sizeDelta <= p.size
    BY <1>1, <1>3
  <2> HIDE DEF p
  <2> QED BY <2>1, ShareAtMost DEF FreedReserve
<1>6. /\ FundingOK'
      /\ \A u \in Token : cumulativeFundingRates[u] <= cumulativeFundingRates'[u]
      /\ cumulativeFundingRates'[t] = rate
  <2>1. {t} \in SUBSET Token
    BY <1>3
  <2> QED BY <1>1, <2>1, UpdateFundingType
<1> HIDE DEF r
<1>7. WellFormed(IF closing THEN NoPosition ELSE q, rate)
  <2>1. CASE closing
    BY <1>3, <2>1, NoPositionWellFormed
  <2>2. CASE ~closing
    <3> HIDE DEF rate
    <3>1. q \in Position
      <4>1. p.size - sizeDelta \in Nat /\ p.reserveAmount - reserveDelta \in Nat
        BY <1>1, <1>3, <1>5
      <4>2. r.collateral \in Nat /\ rate \in Nat
        BY <1>1, <1>3, <1>4
      <4> HIDE DEF p
      <4> QED BY <1>3, <4>1, <4>2 DEF Position, Decreased
    <3>2. q.size > 0 /\ q.entryFundingRate = rate
      BY <1>1, <1>3, <2>2 DEF Position, Decreased
    <3>3. q.size >= q.collateral
      BY <1>1, <2>2 DEF ValidPosition
    <3>4. NoPosition.size = 0
      BY DEF NoPosition
    <3> HIDE DEF q
    <3> QED BY <1>3, <2>2, <3>1, <3>2, <3>3, <3>4 DEF WellFormed
  <2> QED BY <2>1, <2>2
<1> HIDE DEF q
<1>8. PositionsOK'
  BY <1>1, <1>6, <1>7, OnePositionChanged
<1> HIDE DEF t, rate, p, closing, reserveDelta, payout
<1>9. \A u \in Token : /\ poolAmounts[u] \in Nat /\ reservedAmounts[u] \in Nat
                       /\ feeReserves[u] \in Nat
  BY DEF AssetsOK
<1>10. reservedAmounts' = [reservedAmounts EXCEPT ![t] = reserved] /\ reserved \in Nat
  BY <1>1, <1>3, <1>5, <1>9 DEF DecreaseReservedAmount, AssetsOK
<1>11. /\ UsdToTokenMin(t, r.profit) \in Nat /\ UsdToTokenMin(t, r.loss) \in Nat
       /\ UsdToTokenMin(t, r.fee) \in Nat /\ UsdToTokenMin(t, r.usdOut) \in Nat
       /\ UsdToTokenMin(t, r.feeFromCollateral) \in Nat /\ payout \in Nat
  BY <1>3, <1>4, ConversionNat DEF payout
<1>12. pool \in Nat
  <2>1. IsLong(id) => t = Index
    BY DEF t, CollateralToken
  <2>2. PoolAfterPnl(id, r) \in Int
    BY <1>3, <1>9, <1>11 DEF PoolAfterPnl, t
  <2>3. PoolAfterFee(id, r) \in Int
    BY <1>11, <2>1, <2>2 DEF PoolAfterFee
  <2>4. pool \in Int
    BY <1>11, <2>1, <2>3 DEF PoolAfterPayout
  <2> HIDE DEF pool
  <2> QED BY <1>1, <2>4
<1>13. reserved <= pool
  <2>1. reserved <= poolAmounts[t]
    <3>1. reservedAmounts[t] <= poolAmounts[t]
      BY <1>3 DEF ReservedBacked
    <3> QED BY <1>3, <1>5, <1>9, <3>1
  <2>2. CASE IsLong(id)
    <3>1. CASE r.usdOut > 0
      BY <1>1, <2>2, <3>1 DEF ReserveHolds
    <3>2. CASE r.usdOut = 0
      <4>1. reserved <= PoolAfterFee(id, r)
        BY <1>1, <1>4, <2>2, <3>2 DEF ReserveHolds
      <4>2. UsdToTokenMin(Index, 0) = 0
        BY ConversionZero DEF Token
      <4>3. pool = PoolAfterFee(id, r) - 0
        BY <2>2, <3>2, <4>2 DEF PoolAfterPayout
      <4>4. PoolAfterFee(id, r) \in Int
        <5>1. t = Index
          BY <2>2 DEF t, CollateralToken
        <5> QED BY <1>3, <1>9, <1>11, <2>2, <5>1 DEF PoolAfterFee, PoolAfterPnl, t
      <4> QED BY <4>1, <4>3, <4>4
    <3> QED BY <1>4, <3>1, <3>2
  <2>3. CASE ~IsLong(id)
    <3>1. PoolAfterPnl(id, r) \in Int
      BY <1>3, <1>9, <1>11 DEF PoolAfterPnl, t
    <3>2. pool = PoolAfterPnl(id, r)
      BY <2>3, <3>1 DEF PoolAfterPayout, PoolAfterFee
    <3>3. CASE r.profit > 0
      BY <1>1, <2>3, <3>2, <3>3 DEF ReserveHolds
    <3>4. CASE r.profit = 0
      <4>1. UsdToTokenMin(t, 0) = 0
        BY <1>3, ConversionZero
      <4>2. PoolAfterPnl(id, r) = poolAmounts[t] - 0 + UsdToTokenMin(t, r.loss)
        BY <2>3, <3>4, <4>1 DEF PoolAfterPnl, t
      <4> QED BY <1>3, <1>9, <1>10, <1>11, <2>1, <3>2, <4>2
    <3> QED BY <1>4, <3>3, <3>4
  <2> QED BY <2>2, <2>3
<1> HIDE DEF pool, reserved
<1>14. balance' \in [Token -> Nat] /\ tokenBalances' \in [Token -> Nat]
       /\ \A u \in Token : tokenBalances'[u] <= balance'[u]
  <2>1. CASE r.usdOut > 0
    BY <1>2, <1>3, <1>11, <2>1, TransferOutType
  <2>2. CASE ~(r.usdOut > 0)
    BY <1>2, <2>2 DEF AssetsOK
  <2> QED BY <2>1, <2>2
<1>15. AssetsOK'
  <2>1. poolAmounts' \in [Token -> Nat]
    BY <1>1, <1>12 DEF AssetsOK
  <2>2. reservedAmounts' \in [Token -> Nat]
    BY <1>10 DEF AssetsOK
  <2>3. feeReserves' = [feeReserves EXCEPT ![t] = @ + UsdToTokenMin(t, r.fee)]
    BY <1>1
  <2>4. feeReserves' \in [Token -> Nat]
    BY <1>3, <1>9, <1>11, <2>3 DEF AssetsOK
  <2> QED BY <1>14, <2>1, <2>2, <2>4 DEF AssetsOK
<1>16. ReservedBacked'
  <2>1. poolAmounts' = [poolAmounts EXCEPT ![t] = pool]
    BY <1>1
  <2> QED BY <1>3, <1>10, <1>13, <2>1 DEF ReservedBacked, AssetsOK
<1>17. TotalsOK'
  <2>1. CASE IsLong(id)
    <3>1. freed \in Int
      BY <1>3, <1>4
    <3> HIDE DEF freed
    <3>2. guaranteedUsd' \in Nat
      BY <1>2, <2>1, <3>1 DEF TotalsOK
    <3> QED BY <1>2, <2>1, <3>2 DEF TotalsOK
  <2>2. CASE ~IsLong(id)
    BY <1>2, <2>2 DEF TotalsOK, LessShort
  <2> QED BY <2>1, <2>2
<1>18. UsdpOK' /\ EnvOK'
  BY <1>2 DEF UsdpOK, EnvOK, usdpVars, envVars
<1> QED BY <1>6, <1>8, <1>15, <1>16, <1>17, <1>18

-----------------------------------------------------------------------------
(* liquidatePosition.                                                      *)

\* validateLiquidation never charges a negative fee, although what the losses
\* leave of the collateral may be negative.
LEMMA LiquidationFeesNat ==
    ASSUME TypeOK, NEW id \in PositionId, positions[id].averagePrice > 0
    PROVE  LiquidationFees(id, positions[id], FundingRate(CollateralToken(id))) \in Nat
<1> USE DEF TypeOK
<1> DEFINE p == positions[id]
           rate == FundingRate(CollateralToken(id))
<1>1. p \in Position /\ p.size \in Nat /\ p.collateral \in Nat /\ FundingFee(p, rate) \in Nat
  BY PositionFields
<1>2. MarginFees(p, rate) \in Nat
  BY <1>1, PositionFeeNat DEF MarginFees
<1>3. Loss(id, p) \in Nat
  BY <1>1, DeltaNat DEF Loss
<1> HIDE DEF p, rate
<1> QED BY <1>1, <1>2, <1>3 DEF LiquidationFees, p, rate

\* A liquidation frees the whole reserve of the position before it pays.
LEMMA LiquidateInv ==
    ASSUME Inv, NEW id \in PositionId, positions[id].averagePrice > 0, Liquidate(id),
           isLeverageEnabled' \in BOOLEAN
    PROVE  Inv'
<1> USE DEF Inv, TypeOK
<1> DEFINE t == CollateralToken(id)
           p == positions[id]
           fees == LiquidationFees(id, p, FundingRate(t))
           feeTokens == UsdToTokenMin(t, fees)
           reserved == reservedAmounts[t] - p.reserveAmount
           joined == IF ~IsLong(id) /\ fees < p.collateral
                     THEN UsdToTokenMin(t, p.collateral - fees) ELSE 0
           pool == poolAmounts[t] + joined - (IF IsLong(id) THEN feeTokens ELSE 0)
           bounty == UsdToTokenMin(t, LiquidationFeeUsd)
<1>1. /\ UpdateFunding({t})
      /\ feeReserves' = [feeReserves EXCEPT ![t] = @ + feeTokens]
      /\ DecreaseReservedAmount(t, p.reserveAmount)
      /\ positions' = [positions EXCEPT ![id] = NoPosition]
      /\ poolAmounts' = [poolAmounts EXCEPT ![t] = pool - bounty]
      /\ ReserveHolds(reserved, poolAmounts'[t])
      /\ TransferOut(t, bounty)
      /\ UNCHANGED <<globalShortAveragePrice, usdpVars, envVars, inflow>>
  BY DEF Liquidate
<1>2. IF IsLong(id)
      THEN /\ p.size >= p.collateral /\ guaranteedUsd >= p.size - p.collateral
           /\ guaranteedUsd' = guaranteedUsd - (p.size - p.collateral)
           /\ UNCHANGED <<globalShortSize, unbackedFees>>
      ELSE /\ globalShortSize' = LessShort(p.size)
           /\ unbackedFees' = unbackedFees
                + (IF feeTokens > p.collateral THEN feeTokens - p.collateral ELSE 0)
           /\ UNCHANGED guaranteedUsd
  BY DEF Liquidate
<1>3. /\ p.size \in Nat /\ p.collateral \in Nat /\ p.reserveAmount \in Nat
      /\ t \in Token /\ FundingRate(t) \in Nat
  BY PositionFields
<1>4. fees \in Nat
  BY LiquidationFeesNat
<1>5. feeTokens \in Nat /\ bounty \in Nat
  BY <1>3, <1>4, ConversionNat, VaultAssumption
<1>6. /\ FundingOK'
      /\ \A u \in Token : cumulativeFundingRates[u] <= cumulativeFundingRates'[u]
      /\ cumulativeFundingRates'[t] = FundingRate(t)
  <2>1. {t} \in SUBSET Token
    BY <1>3
  <2> QED BY <1>1, <2>1, UpdateFundingType
<1>7. PositionsOK'
  <2>1. WellFormed(NoPosition, FundingRate(t))
    BY <1>3, NoPositionWellFormed
  <2> QED BY <1>1, <1>6, <2>1, OnePositionChanged
<1> HIDE DEF fees, feeTokens, bounty
<1>8. joined \in Nat
  <2>1. CASE ~IsLong(id) /\ fees < p.collateral
    <3>1. p.collateral - fees \in Nat
      BY <1>3, <1>4, <2>1
    <3> QED BY <1>3, <2>1, <3>1, ConversionNat
  <2>2. CASE ~(~IsLong(id) /\ fees < p.collateral)
    BY <2>2
  <2> QED BY <2>1, <2>2
<1>9. \A u \in Token : /\ poolAmounts[u] \in Nat /\ reservedAmounts[u] \in Nat
                       /\ feeReserves[u] \in Nat
  BY DEF AssetsOK
<1> HIDE DEF t, p, joined
<1>10. reservedAmounts' = [reservedAmounts EXCEPT ![t] = reserved] /\ reserved \in Nat
  BY <1>1, <1>3, <1>9 DEF DecreaseReservedAmount
<1>11. pool - bounty \in Int
  BY <1>3, <1>5, <1>8, <1>9
<1>12. poolAmounts'[t] = pool - bounty
  BY <1>1, <1>3 DEF AssetsOK
<1>13. reserved <= pool - bounty
  BY <1>1, <1>12 DEF ReserveHolds
<1> HIDE DEF pool, reserved
<1>14. pool - bounty \in Nat
  BY <1>10, <1>11, <1>13
<1>15. /\ balance' \in [Token -> Nat] /\ tokenBalances' \in [Token -> Nat]
       /\ \A u \in Token : tokenBalances'[u] <= balance'[u]
  BY <1>1, <1>3, <1>5, TransferOutType
<1>16. AssetsOK'
  <2>1. poolAmounts' \in [Token -> Nat]
    BY <1>1, <1>14 DEF AssetsOK
  <2>2. reservedAmounts' \in [Token -> Nat]
    BY <1>10 DEF AssetsOK
  <2>3. feeReserves' = [feeReserves EXCEPT ![t] = @ + feeTokens]
    BY <1>1
  <2>4. feeReserves' \in [Token -> Nat]
    BY <1>3, <1>5, <1>9, <2>3 DEF AssetsOK
  <2> QED BY <1>15, <2>1, <2>2, <2>4 DEF AssetsOK
<1>17. ReservedBacked'
  <2>1. poolAmounts' = [poolAmounts EXCEPT ![t] = pool - bounty]
    BY <1>1
  <2> QED BY <1>3, <1>10, <1>13, <2>1 DEF ReservedBacked, AssetsOK
<1>18. TotalsOK' /\ unbackedFees' \in Nat
  <2>1. guaranteedUsd \in Nat /\ globalShortSize \in Nat /\ unbackedFees \in Nat
    BY DEF TotalsOK, EnvOK
  <2>2. globalShortAveragePrice' \in Nat
    BY <1>1 DEF TotalsOK
  <2>3. CASE IsLong(id)
    BY <1>2, <1>3, <2>1, <2>2, <2>3 DEF TotalsOK
  <2>4. CASE ~IsLong(id)
    BY <1>2, <1>3, <1>5, <2>1, <2>2, <2>4 DEF TotalsOK, LessShort
  <2> QED BY <2>3, <2>4
<1>19. UsdpOK' /\ EnvOK'
  BY <1>1, <1>18 DEF UsdpOK, EnvOK, usdpVars, envVars
<1> QED BY <1>6, <1>7, <1>16, <1>17, <1>18, <1>19

-----------------------------------------------------------------------------
(* The steps.                                                              *)

\* A pool call.
LEMMA PoolCallInv == Inv /\ PoolCall => Inv'
<1> SUFFICES ASSUME Inv, PoolCall PROVE Inv'
  OBVIOUS
<1> PICK t \in Token :
        \/ \E sent \in Deposits[t] : DirectPoolDeposit(t, sent)
        \/ \E sent \in Deposits[t] : BuyUSDP(t, sent)
        \/ \E usdp \in UsdpAmounts : SellUSDP(t, usdp)
        \/ \E out \in Token, sent \in Deposits[t] : Swap(t, out, sent)
        \/ UpdateCumulativeFundingRate(t)
  BY DEF PoolCall
<1>1. Deposits[t] \subseteq Nat /\ UsdpAmounts \subseteq Nat
  BY VaultAssumption
<1>2. CASE \E sent \in Deposits[t] : DirectPoolDeposit(t, sent)
  BY <1>1, <1>2, DirectPoolDepositInv
<1>3. CASE \E sent \in Deposits[t] : BuyUSDP(t, sent)
  BY <1>1, <1>3, BuyUSDPInv
<1>4. CASE \E usdp \in UsdpAmounts : SellUSDP(t, usdp)
  BY <1>1, <1>4, SellUSDPInv
<1>5. CASE \E out \in Token, sent \in Deposits[t] : Swap(t, out, sent)
  BY <1>1, <1>5, SwapInv
<1>6. CASE UpdateCumulativeFundingRate(t)
  <2> USE DEF Inv, TypeOK
  <2>1. /\ FundingOK'
        /\ \A u \in Token : cumulativeFundingRates[u] <= cumulativeFundingRates'[u]
    <3>1. {t} \in SUBSET Token
      OBVIOUS
    <3> QED BY <1>6, <3>1, UpdateFundingType DEF UpdateCumulativeFundingRate
  <2>2. UNCHANGED <<assetVars, guaranteedUsd, usdpVars, positions, shortVars,
                    isLeverageEnabled, envVars, unbackedFees, inflow>>
    BY <1>6 DEF UpdateCumulativeFundingRate
  <2>3. PositionsOK'
    BY <2>1, <2>2, PositionsKept
  <2>4. AssetsOK' /\ UsdpOK' /\ TotalsOK' /\ EnvOK' /\ ReservedBacked'
    BY <2>2 DEF AssetsOK, UsdpOK, TotalsOK, EnvOK, ReservedBacked,
                assetVars, usdpVars, shortVars, envVars
  <2> QED BY <2>1, <2>3, <2>4
<1> QED BY <1>2, <1>3, <1>4, <1>5, <1>6

\* A liquidation by the leverage limit is a full decrease.
LEMMA LiquidateOrCloseInv ==
    ASSUME Inv, NEW id \in PositionId, LiquidateOrClose(id), isLeverageEnabled' \in BOOLEAN
    PROVE  Inv'
<1>1. positions[id].averagePrice > 0 /\ (Liquidate(id) \/ Decrease(id, 0, positions[id].size))
  BY DEF LiquidateOrClose
<1>2. positions[id].size \in Nat
  BY DEF Inv, TypeOK, PositionsOK, Position
<1>3. CASE Liquidate(id)
  BY <1>1, <1>3, LiquidateInv
<1>4. CASE Decrease(id, 0, positions[id].size)
  BY <1>2, <1>4, DecreaseInv
<1> QED BY <1>1, <1>3, <1>4

\* A position call.
LEMMA PositionCallInv == Inv /\ PositionCall => Inv'
<1> SUFFICES ASSUME Inv, PositionCall PROVE Inv'
  OBVIOUS
<1> PICK id \in PositionId :
        \/ \E sent \in Deposits[CollateralToken(id)] \cup {0}, sizeDelta \in SizeDeltas :
               IncreasePosition(id, sent, sizeDelta)
        \/ \E collateralDelta \in CollateralDeltas, sizeDelta \in SizeDeltas :
               DecreasePosition(id, collateralDelta, sizeDelta)
        \/ LiquidatePosition(id)
  BY DEF PositionCall
<1>1. CollateralToken(id) \in Token
  BY DEF CollateralToken, Token
<1>2. /\ Deposits[CollateralToken(id)] \cup {0} \subseteq Nat
      /\ SizeDeltas \subseteq Nat /\ CollateralDeltas \subseteq Nat
  BY <1>1, VaultAssumption
<1>3. UNCHANGED isLeverageEnabled => isLeverageEnabled' \in BOOLEAN
  BY DEF Inv, TypeOK, EnvOK
<1>4. CASE \E sent \in Deposits[CollateralToken(id)] \cup {0}, sizeDelta \in SizeDeltas :
               IncreasePosition(id, sent, sizeDelta)
  BY <1>2, <1>3, <1>4, IncreaseInv DEF IncreasePosition
<1>5. CASE \E collateralDelta \in CollateralDeltas, sizeDelta \in SizeDeltas :
               DecreasePosition(id, collateralDelta, sizeDelta)
  BY <1>2, <1>3, <1>5, DecreaseInv DEF DecreasePosition
<1>6. CASE LiquidatePosition(id)
  BY <1>3, <1>6, LiquidateOrCloseInv DEF LiquidatePosition
<1> QED BY <1>4, <1>5, <1>6

\* A call of governance.
LEMMA GovCallInv == Inv /\ GovCall => Inv'
<1> SUFFICES ASSUME Inv, GovCall PROVE Inv'
  OBVIOUS
<1> USE DEF Inv, TypeOK
<1>1. CASE \E t \in Token : WithdrawFees(t)
  <2> PICK t \in Token : WithdrawFees(t)
    BY <1>1
  <2>1. feeReserves[t] \in Nat
    BY DEF AssetsOK
  <2>2. /\ balance' \in [Token -> Nat] /\ tokenBalances' \in [Token -> Nat]
        /\ \A u \in Token : tokenBalances'[u] <= balance'[u]
    BY <2>1, TransferOutType DEF WithdrawFees
  <2>3. AssetsOK' /\ ReservedBacked'
    BY <2>2 DEF WithdrawFees, AssetsOK, ReservedBacked
  <2>4. UsdpOK' /\ FundingOK' /\ TotalsOK' /\ EnvOK'
    BY DEF WithdrawFees, UsdpOK, FundingOK, TotalsOK, EnvOK,
           usdpVars, fundingVars, shortVars, envVars
  <2>5. PositionsOK'
    BY PositionsSame DEF WithdrawFees
  <2> QED BY <2>3, <2>4, <2>5
<1>2. CASE \E t \in Token, amount \in UsdpSettings : SetUsdpAmount(t, amount)
  <2> PICK t \in Token, amount \in UsdpSettings : SetUsdpAmount(t, amount)
    BY <1>2
  <2>1. amount \in Nat
    BY VaultAssumption
  <2>2. UsdpOK'
    BY <2>1 DEF SetUsdpAmount, UsdpOK
  <2>3. AssetsOK' /\ ReservedBacked' /\ FundingOK' /\ TotalsOK' /\ EnvOK'
    BY DEF SetUsdpAmount, AssetsOK, ReservedBacked, FundingOK, TotalsOK, EnvOK,
           assetVars, fundingVars, shortVars, envVars
  <2>4. PositionsOK'
    BY PositionsSame DEF SetUsdpAmount
  <2> QED BY <2>2, <2>3, <2>4
<1>3. CASE \E enabled \in LeverageSettings : SetIsLeverageEnabled(enabled)
  <2> PICK enabled \in LeverageSettings : SetIsLeverageEnabled(enabled)
    BY <1>3
  <2>1. enabled \in BOOLEAN
    BY VaultAssumption
  <2>2. EnvOK'
    BY <2>1 DEF SetIsLeverageEnabled, EnvOK, envVars
  <2>3. AssetsOK' /\ ReservedBacked' /\ UsdpOK' /\ FundingOK' /\ TotalsOK'
    BY DEF SetIsLeverageEnabled, AssetsOK, ReservedBacked, UsdpOK, FundingOK, TotalsOK,
           assetVars, usdpVars, fundingVars, shortVars
  <2>4. PositionsOK'
    BY PositionsSame DEF SetIsLeverageEnabled
  <2> QED BY <2>2, <2>3, <2>4
<1> QED BY <1>1, <1>2, <1>3 DEF GovCall

\* A step of the world outside.
LEMMA EnvironmentInv == Inv /\ Environment => Inv'
<1> SUFFICES ASSUME Inv, Environment PROVE Inv'
  OBVIOUS
<1> USE DEF Inv, TypeOK
<1>1. CASE \E t \in Token : \E amount \in Donations[t] : SendTokens(t, amount)
  <2> PICK t \in Token : \E amount \in Donations[t] : SendTokens(t, amount)
    BY <1>1
  <2> PICK amount \in Donations[t] : SendTokens(t, amount)
    OBVIOUS
  <2>1. amount \in Nat
    BY VaultAssumption
  <2>2. \A u \in Token : balance[u] \in Nat /\ tokenBalances[u] \in Nat /\ inflow[u] \in Nat
    BY DEF AssetsOK, EnvOK
  <2>3. balance' = [balance EXCEPT ![t] = @ + amount] /\ UNCHANGED tokenBalances
    BY DEF SendTokens
  <2>4. /\ balance' \in [Token -> Nat] /\ tokenBalances' \in [Token -> Nat]
        /\ \A u \in Token : tokenBalances'[u] <= balance'[u]
    BY <2>1, <2>2, <2>3 DEF AssetsOK
  <2>5. AssetsOK' /\ ReservedBacked'
    BY <2>4 DEF SendTokens, AssetsOK, ReservedBacked
  <2>6. EnvOK'
    <3>1. inflow' \in [Token -> Nat]
      BY <2>1, <2>2 DEF SendTokens, Send, EnvOK
    <3> QED BY <3>1 DEF SendTokens, EnvOK, envVars
  <2>7. UsdpOK' /\ FundingOK' /\ TotalsOK'
    BY DEF SendTokens, UsdpOK, FundingOK, TotalsOK, usdpVars, fundingVars, shortVars
  <2>8. PositionsOK'
    BY PositionsSame DEF SendTokens
  <2> QED BY <2>5, <2>6, <2>7, <2>8
<1>2. CASE \E t \in Token : \E quote \in Prices[t] : SetPrice(t, quote)
  <2> PICK t \in Token : \E quote \in Prices[t] : SetPrice(t, quote)
    BY <1>2
  <2> PICK quote \in Prices[t] : SetPrice(t, quote)
    OBVIOUS
  <2>1. quote \in (Nat \ {0}) \X (Nat \ {0})
    BY VaultAssumption
  <2>2. EnvOK'
    BY <2>1 DEF SetPrice, EnvOK
  <2>3. AssetsOK' /\ ReservedBacked' /\ UsdpOK' /\ FundingOK' /\ TotalsOK'
    BY DEF SetPrice, AssetsOK, ReservedBacked, UsdpOK, FundingOK, TotalsOK,
           assetVars, usdpVars, fundingVars, shortVars
  <2>4. PositionsOK'
    BY PositionsSame DEF SetPrice
  <2> QED BY <2>2, <2>3, <2>4
<1>3. CASE Tick
  <2>1. EnvOK'
    BY <1>3 DEF Tick, EnvOK
  <2>2. AssetsOK' /\ ReservedBacked' /\ UsdpOK' /\ FundingOK' /\ TotalsOK'
    BY <1>3 DEF Tick, AssetsOK, ReservedBacked, UsdpOK, FundingOK, TotalsOK,
                assetVars, usdpVars, fundingVars, shortVars
  <2>3. PositionsOK'
    BY <1>3, PositionsSame DEF Tick
  <2> QED BY <2>1, <2>2, <2>3
<1> QED BY <1>1, <1>2, <1>3 DEF Environment

\* Nothing happens.
LEMMA StutterInv == Inv /\ UNCHANGED vars => Inv'
<1> SUFFICES ASSUME Inv, UNCHANGED vars PROVE Inv'
  OBVIOUS
<1> USE DEF Inv, TypeOK, vars
<1>1. AssetsOK' /\ ReservedBacked' /\ UsdpOK' /\ FundingOK' /\ TotalsOK' /\ EnvOK'
  BY DEF AssetsOK, ReservedBacked, UsdpOK, FundingOK, TotalsOK, EnvOK,
         assetVars, usdpVars, fundingVars, shortVars, envVars
<1>2. PositionsOK'
  BY PositionsSame
<1> QED BY <1>1, <1>2

-----------------------------------------------------------------------------
\* No chain of calls underflows an amount, records more than the vault holds, or
\* leaves a position with more collateral than size.
THEOREM TypeCorrect == Spec => []TypeOK
<1>1. Init => Inv
  BY InitInv
<1>2. Inv /\ [Next]_vars => Inv'
  BY PoolCallInv, PositionCallInv, GovCallInv, EnvironmentInv, StutterInv DEF Next
<1>3. Inv => TypeOK
  BY DEF Inv
<1> QED BY <1>1, <1>2, <1>3, PTL DEF Spec

\* For every pool, price history and set of traders, the tokens reserved for the
\* positions are in the pool.
THEOREM ReservesInPool == Spec => []ReservedBacked
<1>1. Init => Inv
  BY InitInv
<1>2. Inv /\ [Next]_vars => Inv'
  BY PoolCallInv, PositionCallInv, GovCallInv, EnvironmentInv, StutterInv DEF Next
<1>3. Inv => ReservedBacked
  BY DEF Inv
<1> QED BY <1>1, <1>2, <1>3, PTL DEF Spec

-----------------------------------------------------------------------------
(* The totals and the positions they are made of.                          *)

Totals == ReservedMatches /\ GuaranteedMatches /\ ShortSizesMatch

\* There are finitely many positions.
LEMMA PositionIdFinite == IsFiniteSet(PositionId)
<1>1. IsFiniteSet(Accounts) /\ IsFiniteSet(BOOLEAN)
  <2>1. IsFiniteSet({TRUE} \cup {FALSE})
    <3>1. IsFiniteSet({TRUE}) /\ IsFiniteSet({FALSE})
      BY FS_Singleton
    <3> QED BY <3>1, FS_Union
  <2>2. BOOLEAN = {TRUE} \cup {FALSE}
    OBVIOUS
  <2> QED BY <2>1, <2>2, VaultAssumption
<1> QED BY <1>1, FS_Product DEF PositionId

\* A step that changes one position and each total by as much.
LEMMA PositionStep ==
    ASSUME PositionsOK, PositionsOK', Totals, NEW id \in PositionId, NEW q,
           positions' = [positions EXCEPT ![id] = q],
           reservedAmounts \in [Token -> Nat],
           reservedAmounts' = [reservedAmounts EXCEPT ![CollateralToken(id)] =
                                   @ + q.reserveAmount - positions[id].reserveAmount],
           guaranteedUsd' = guaranteedUsd
               + (IF IsLong(id) THEN (q.size - q.collateral)
                                     - (positions[id].size - positions[id].collateral) ELSE 0),
           globalShortSize' = globalShortSize
               + (IF IsLong(id) THEN 0 ELSE q.size - positions[id].size)
    PROVE  Totals'
<1>1. /\ \A i \in PositionId : /\ positions[i] \in Position /\ positions'[i] \in Position
                               /\ i # id => positions'[i] = positions[i]
      /\ positions'[id] = q
  BY DEF PositionsOK
<1>2. \A p \in Position : p.reserveAmount \in Nat /\ p.size \in Nat /\ p.collateral \in Nat
  BY DEF Position
<1>3. ReservedMatches'
  <2> SUFFICES ASSUME NEW t \in Token
               PROVE  reservedAmounts'[t] =
                        Sum([i \in PositionId |-> positions'[i].reserveAmount],
                            {i \in PositionId : CollateralToken(i) = t})
    BY DEF ReservedMatches
  <2> DEFINE f == [i \in PositionId |-> positions[i].reserveAmount]
             g == [i \in PositionId |-> positions'[i].reserveAmount]
             S == {i \in PositionId : CollateralToken(i) = t}
  <2>1. reservedAmounts[t] = Sum(f, S)
    BY DEF Totals, ReservedMatches
  <2>2. IsFiniteSet(S)
    BY PositionIdFinite, FS_Subset
  <2>3. /\ \A i \in S : f[i] \in Int /\ g[i] \in Int
        /\ \A i \in S \ {id} : g[i] = f[i]
        /\ f[id] = positions[id].reserveAmount /\ g[id] = q.reserveAmount
        /\ id \in S <=> CollateralToken(id) = t
    BY <1>1, <1>2
  <2> HIDE DEF f, g, S
  <2>4. CASE id \in S
    <3>1. Sum(g, S) = Sum(f, S) + g[id] - f[id]
      BY <2>2, <2>3, <2>4, SumChange
    <3>2. reservedAmounts'[t] = reservedAmounts[t] + g[id] - f[id]
      BY <2>3, <2>4
    <3>3. reservedAmounts'[t] = Sum(g, S)
      BY <2>1, <3>1, <3>2
    <3> QED BY <3>3 DEF g, S
  <2>5. CASE id \notin S
    <3>1. Sum(g, S) = Sum(f, S)
      BY <2>2, <2>3, <2>5, SumSame
    <3>2. reservedAmounts'[t] = reservedAmounts[t]
      BY <2>3, <2>5
    <3>3. reservedAmounts'[t] = Sum(g, S)
      BY <2>1, <3>1, <3>2
    <3> QED BY <3>3 DEF g, S
  <2> QED BY <2>4, <2>5
<1>4. GuaranteedMatches'
  <2> DEFINE f == [i \in PositionId |-> positions[i].size - positions[i].collateral]
             g == [i \in PositionId |-> positions'[i].size - positions'[i].collateral]
  <2>1. guaranteedUsd = Sum(f, Longs)
    BY DEF Totals, GuaranteedMatches
  <2>2. IsFiniteSet(Longs) /\ Longs \subseteq PositionId /\ (id \in Longs <=> IsLong(id))
    BY PositionIdFinite, FS_Subset DEF Longs
  <2>3. /\ \A i \in Longs : f[i] \in Int /\ g[i] \in Int
        /\ \A i \in Longs \ {id} : g[i] = f[i]
    BY <1>1, <1>2, <2>2
  <2>7. /\ f[id] = positions[id].size - positions[id].collateral
        /\ g[id] = q.size - q.collateral
        /\ f[id] \in Int /\ g[id] \in Int
    BY <1>1, <1>2
  <2>4. Sum(f, Longs) \in Int
    <3> HIDE DEF f, g
    <3> QED BY <2>2, <2>3, SumInt
  <2> HIDE DEF f, g
  <2>5. CASE IsLong(id)
    <3>1. Sum(g, Longs) = Sum(f, Longs) + g[id] - f[id]
      BY <2>2, <2>3, <2>5, SumChange
    <3>2. guaranteedUsd' = guaranteedUsd + (g[id] - f[id])
      BY <2>7, <2>5
    <3>3. guaranteedUsd' = Sum(g, Longs)
      BY <2>1, <2>7, <2>4, <3>1, <3>2
    <3> QED BY <3>3 DEF g, GuaranteedMatches
  <2>6. CASE ~IsLong(id)
    <3>1. Sum(g, Longs) = Sum(f, Longs)
      BY <2>2, <2>3, <2>6, SumSame
    <3>2. guaranteedUsd' = guaranteedUsd + 0
      BY <2>6
    <3>3. guaranteedUsd' = Sum(g, Longs)
      BY <2>1, <2>4, <3>1, <3>2
    <3> QED BY <3>3 DEF g, GuaranteedMatches
  <2> QED BY <2>5, <2>6
<1>5. ShortSizesMatch'
  <2> DEFINE f == [i \in PositionId |-> positions[i].size]
             g == [i \in PositionId |-> positions'[i].size]
  <2>1. globalShortSize = Sum(f, Shorts)
    BY DEF Totals, ShortSizesMatch
  <2>2. IsFiniteSet(Shorts) /\ Shorts \subseteq PositionId /\ (id \in Shorts <=> ~IsLong(id))
    BY PositionIdFinite, FS_Subset DEF Shorts, Longs
  <2>3. /\ \A i \in Shorts : f[i] \in Int /\ g[i] \in Int
        /\ \A i \in Shorts \ {id} : g[i] = f[i]
        /\ f[id] = positions[id].size /\ g[id] = q.size
        /\ f[id] \in Int /\ g[id] \in Int
    BY <1>1, <1>2, <2>2
  <2>4. Sum(f, Shorts) \in Int
    <3> HIDE DEF f, g
    <3> QED BY <2>2, <2>3, SumInt
  <2> HIDE DEF f, g
  <2>5. CASE ~IsLong(id)
    <3>1. Sum(g, Shorts) = Sum(f, Shorts) + g[id] - f[id]
      BY <2>2, <2>3, <2>5, SumChange
    <3>2. globalShortSize' = globalShortSize + (g[id] - f[id])
      BY <2>3, <2>5
    <3>3. globalShortSize' = Sum(g, Shorts)
      BY <2>1, <2>3, <2>4, <3>1, <3>2
    <3> QED BY <3>3 DEF g, ShortSizesMatch
  <2>6. CASE IsLong(id)
    <3>1. Sum(g, Shorts) = Sum(f, Shorts)
      BY <2>2, <2>3, <2>6, SumSame
    <3>2. globalShortSize' = globalShortSize + 0
      BY <2>6
    <3>3. globalShortSize' = Sum(g, Shorts)
      BY <2>1, <2>4, <3>1, <3>2
    <3> QED BY <3>3 DEF g, ShortSizesMatch
  <2> QED BY <2>5, <2>6
<1> QED BY <1>3, <1>4, <1>5 DEF Totals

\* A step that touches neither a position nor a total.
LEMMA TotalsKept ==
    ASSUME Totals, UNCHANGED <<positions, reservedAmounts, guaranteedUsd, globalShortSize>>
    PROVE  Totals'
BY DEF Totals, ReservedMatches, GuaranteedMatches, ShortSizesMatch

\* At first there is nothing to add up.
LEMMA InitTotals == Init => Totals
<1> SUFFICES ASSUME Init PROVE Totals
  OBVIOUS
<1>1. /\ \A id \in PositionId : positions[id] = NoPosition
      /\ NoPosition.size = 0 /\ NoPosition.collateral = 0 /\ NoPosition.reserveAmount = 0
  BY DEF Init, NoPosition
<1>2. ASSUME NEW S \in SUBSET PositionId
      PROVE  IsFiniteSet(S)
  BY PositionIdFinite, FS_Subset
<1>3. ReservedMatches
  <2> SUFFICES ASSUME NEW t \in Token
               PROVE  reservedAmounts[t] =
                        Sum([i \in PositionId |-> positions[i].reserveAmount],
                            {i \in PositionId : CollateralToken(i) = t})
    BY DEF ReservedMatches
  <2> DEFINE f == [i \in PositionId |-> positions[i].reserveAmount]
             S == {i \in PositionId : CollateralToken(i) = t}
  <2>1. IsFiniteSet(S) /\ \A i \in S : f[i] = 0
    BY <1>1, <1>2
  <2>2. reservedAmounts[t] = 0
    BY DEF Init
  <2> HIDE DEF f, S
  <2>3. Sum(f, S) = 0
    BY <2>1, SumZero
  <2> QED BY <2>2, <2>3 DEF f, S
<1>4. GuaranteedMatches
  <2> DEFINE f == [i \in PositionId |-> positions[i].size - positions[i].collateral]
  <2>1. IsFiniteSet(Longs) /\ \A i \in Longs : f[i] = 0
    BY <1>1, <1>2 DEF Longs
  <2> HIDE DEF f
  <2>2. Sum(f, Longs) = 0
    BY <2>1, SumZero
  <2> QED BY <2>2 DEF f, GuaranteedMatches, Init
<1>5. ShortSizesMatch
  <2> DEFINE f == [i \in PositionId |-> positions[i].size]
  <2>1. IsFiniteSet(Shorts) /\ \A i \in Shorts : f[i] = 0
    BY <1>1, <1>2 DEF Shorts
  <2> HIDE DEF f
  <2>2. Sum(f, Shorts) = 0
    BY <2>1, SumZero
  <2> QED BY <2>2 DEF f, ShortSizesMatch, Init
<1> QED BY <1>3, <1>4, <1>5 DEF Totals

\* increasePosition adds its size, its reserve and what it borrows.
LEMMA IncreaseTotals ==
    ASSUME Inv, Inv', Totals, NEW id \in PositionId, NEW sent \in Nat, NEW sizeDelta \in Nat,
           Increase(id, sent, sizeDelta)
    PROVE  Totals'
<1> USE DEF Inv, TypeOK
<1> DEFINE t == CollateralToken(id)
           rate == FundingRate(t)
           p == positions[id]
           entryPrice == IF IsLong(id) THEN MaxPrice(Index) ELSE MinPrice(Index)
           fee == PositionFee(sizeDelta) + FundingFee(p, rate)
           received == Received(t, sent)
           collateralUsd == TokenToUsdMin(t, received)
           reserveDelta == UsdToTokenMax(t, sizeDelta)
           q == [size |-> p.size + sizeDelta,
                 collateral |-> p.collateral + collateralUsd - fee,
                 averagePrice |-> NextAveragePrice(id, p, entryPrice, sizeDelta),
                 entryFundingRate |-> rate,
                 reserveAmount |-> p.reserveAmount + reserveDelta,
                 lastIncreasedTime |-> now]
<1>1. /\ TransferIn(t, sent)
      /\ positions' = [positions EXCEPT ![id] = q]
      /\ reservedAmounts' = [reservedAmounts EXCEPT ![t] = @ + reserveDelta]
      /\ IF IsLong(id)
         THEN /\ guaranteedUsd' = GuaranteedAfter(sizeDelta, fee, collateralUsd)
              /\ UNCHANGED shortVars
         ELSE /\ globalShortSize' = globalShortSize + sizeDelta
              /\ UNCHANGED guaranteedUsd
  BY DEF Increase
<1>2. /\ p.size \in Nat /\ p.collateral \in Nat /\ p.reserveAmount \in Nat /\ t \in Token
      /\ rate \in Nat /\ FundingFee(p, rate) \in Nat
  BY PositionFields
<1>3. received \in Nat /\ fee \in Nat
  BY <1>1, <1>2, TransferInType, PositionFeeNat
<1>4. collateralUsd \in Nat /\ reserveDelta \in Nat
  BY <1>2, <1>3, ConversionNat
<1>5. /\ q.size = p.size + sizeDelta
      /\ q.collateral = p.collateral + collateralUsd - fee
      /\ q.reserveAmount = p.reserveAmount + reserveDelta
  OBVIOUS
<1>6. /\ guaranteedUsd \in Nat /\ globalShortSize \in Nat
      /\ \A u \in Token : reservedAmounts[u] \in Nat
  BY DEF TotalsOK, AssetsOK
<1> HIDE DEF q, t, rate, entryPrice, fee, received, collateralUsd, reserveDelta
<1>7. reservedAmounts' = [reservedAmounts EXCEPT ![t] = @ + q.reserveAmount - p.reserveAmount]
  <2>1. reservedAmounts[t] + reserveDelta
          = reservedAmounts[t] + q.reserveAmount - p.reserveAmount
    BY <1>2, <1>4, <1>5, <1>6
  <2> QED BY <1>1, <2>1
<1>8. guaranteedUsd' = guaranteedUsd
          + (IF IsLong(id) THEN (q.size - q.collateral) - (p.size - p.collateral) ELSE 0)
  BY <1>1, <1>2, <1>3, <1>4, <1>5, <1>6 DEF GuaranteedAfter
<1>9. globalShortSize' = globalShortSize + (IF IsLong(id) THEN 0 ELSE q.size - p.size)
  BY <1>1, <1>2, <1>5, <1>6 DEF shortVars
<1> QED BY <1>1, <1>7, <1>8, <1>9, PositionStep DEF t, AssetsOK

\* The short sizes are natural numbers, none of them more than their sum, so the
\* cap of _decreaseGlobalShortSize is never reached.
LEMMA ShortSizeBelow ==
    ASSUME PositionsOK, ShortSizesMatch, NEW id \in PositionId, ~IsLong(id),
           NEW sizeDelta \in Nat, sizeDelta <= positions[id].size
    PROVE  LessShort(sizeDelta) = globalShortSize - sizeDelta
<1> DEFINE f == [i \in PositionId |-> positions[i].size]
<1>1. globalShortSize = Sum(f, Shorts)
  BY DEF ShortSizesMatch
<1>2. IsFiniteSet(Shorts) /\ Shorts \subseteq PositionId /\ id \in Shorts
  BY PositionIdFinite, FS_Subset DEF Shorts, Longs
<1>3. (\A i \in Shorts : f[i] \in Nat) /\ f[id] = positions[id].size
  BY <1>2 DEF PositionsOK, Position
<1> HIDE DEF f
<1>4. Sum(f, Shorts) \in Nat /\ f[id] <= Sum(f, Shorts)
  BY <1>2, <1>3, SumNat
<1> QED BY <1>1, <1>2, <1>3, <1>4 DEF LessShort

\* The whole of an amount is a share of all of it.
LEMMA ShareOfAll ==
    ASSUME NEW a \in Nat, NEW c \in Nat \ {0}
    PROVE  (a * c) \div c = a
OBVIOUS

\* decreasePosition takes off a share of the reserve, on closing the whole of it.
LEMMA DecreaseTotals ==
    ASSUME Inv, Inv', Totals, NEW id \in PositionId, NEW collateralDelta \in Nat,
           NEW sizeDelta \in Nat, Decrease(id, collateralDelta, sizeDelta)
    PROVE  Totals'
<1> USE DEF Inv, TypeOK
<1> DEFINE t == CollateralToken(id)
           rate == FundingRate(t)
           p == positions[id]
           r == Reduction(id, p, rate, collateralDelta, sizeDelta)
           closing == p.size = sizeDelta
           reserveDelta == FreedReserve(p, sizeDelta)
           kept == Decreased(p, r, rate, sizeDelta)
           q == IF closing THEN NoPosition ELSE kept
           freed == p.collateral - (IF closing THEN 0 ELSE r.collateral)
<1>1. /\ p.size > 0 /\ p.size >= sizeDelta /\ p.averagePrice > 0
      /\ DecreaseReservedAmount(t, reserveDelta)
      /\ r.kept >= 0
      /\ positions' = [positions EXCEPT ![id] = q]
      /\ IF IsLong(id)
         THEN guaranteedUsd' = guaranteedUsd + freed - sizeDelta /\ UNCHANGED globalShortSize
         ELSE globalShortSize' = LessShort(sizeDelta) /\ UNCHANGED guaranteedUsd
  BY DEF Decrease, CanDecrease
<1>2. /\ p \in Position /\ p.size \in Nat \ {0} /\ p.collateral \in Nat
      /\ p.reserveAmount \in Nat /\ t \in Token
  BY <1>1, PositionFields
<1>3. r.collateral \in Int
  <2> HIDE DEF Inv, TypeOK
  <2>1. TypeOK
    BY DEF Inv
  <2> QED BY <1>1, <2>1, ReductionType
<1>4. reserveDelta \in Nat
  <2> HIDE DEF p
  <2> QED BY <1>1, <1>2, ShareAtMost DEF FreedReserve
<1>5. /\ q.size = p.size - sizeDelta
      /\ q.reserveAmount = p.reserveAmount - reserveDelta
      /\ q.collateral = IF closing THEN 0 ELSE r.collateral
  <2>1. CASE closing
    <3>1. reserveDelta = p.reserveAmount
      <4> HIDE DEF p
      <4> QED BY <1>2, <2>1, ShareOfAll DEF FreedReserve
    <3>2. q.size = 0 /\ q.reserveAmount = 0 /\ q.collateral = 0
      BY <2>1 DEF NoPosition
    <3> HIDE DEF q, r, reserveDelta
    <3> QED BY <1>2, <2>1, <3>1, <3>2
  <2>2. CASE ~closing
    <3> HIDE DEF r, rate
    <3>1. q = kept
      BY <2>2
    <3> HIDE DEF q
    <3> QED BY <1>2, <2>2, <3>1 DEF Position, Decreased
  <2> QED BY <2>1, <2>2
<1>6. /\ guaranteedUsd \in Nat /\ globalShortSize \in Nat
      /\ \A u \in Token : reservedAmounts[u] \in Nat
  BY DEF TotalsOK, AssetsOK
<1> HIDE DEF q, t, r, reserveDelta
<1>7. reservedAmounts' = [reservedAmounts EXCEPT ![t] = @ + q.reserveAmount - p.reserveAmount]
  <2>1. reservedAmounts[t] - reserveDelta
          = reservedAmounts[t] + q.reserveAmount - p.reserveAmount
    BY <1>2, <1>4, <1>5, <1>6
  <2> QED BY <1>1, <2>1 DEF DecreaseReservedAmount
<1>8. guaranteedUsd' = guaranteedUsd
          + (IF IsLong(id) THEN (q.size - q.collateral) - (p.size - p.collateral) ELSE 0)
  <2>1. freed = p.collateral - q.collateral /\ q.collateral \in Int
    BY <1>2, <1>3, <1>5
  <2> HIDE DEF freed, closing
  <2> QED BY <1>1, <1>2, <1>5, <1>6, <2>1
<1>9. globalShortSize' = globalShortSize + (IF IsLong(id) THEN 0 ELSE q.size - p.size)
  <2>1. CASE IsLong(id)
    BY <1>1, <1>6, <2>1
  <2>2. CASE ~IsLong(id)
    <3>1. LessShort(sizeDelta) = globalShortSize - sizeDelta
      BY <1>1, <2>2, ShortSizeBelow DEF Totals
    <3> QED BY <1>1, <1>2, <1>5, <1>6, <2>2, <3>1
  <2> QED BY <2>1, <2>2
<1> QED BY <1>1, <1>7, <1>8, <1>9, PositionStep DEF t, AssetsOK

\* A liquidation takes off all a position added.
LEMMA LiquidateTotals ==
    ASSUME Inv, Inv', Totals, NEW id \in PositionId, Liquidate(id)
    PROVE  Totals'
<1> USE DEF Inv, TypeOK
<1> DEFINE t == CollateralToken(id)
           p == positions[id]
<1>1. /\ DecreaseReservedAmount(t, p.reserveAmount)
      /\ positions' = [positions EXCEPT ![id] = NoPosition]
      /\ IF IsLong(id)
         THEN guaranteedUsd' = guaranteedUsd - (p.size - p.collateral) /\ UNCHANGED globalShortSize
         ELSE globalShortSize' = LessShort(p.size) /\ UNCHANGED guaranteedUsd
  BY DEF Liquidate
<1>2. p.size \in Nat /\ p.collateral \in Nat /\ p.reserveAmount \in Nat /\ t \in Token
  BY PositionFields
<1>3. NoPosition.size = 0 /\ NoPosition.collateral = 0 /\ NoPosition.reserveAmount = 0
  BY DEF NoPosition
<1>4. /\ guaranteedUsd \in Nat /\ globalShortSize \in Nat
      /\ \A u \in Token : reservedAmounts[u] \in Nat
  BY DEF TotalsOK, AssetsOK
<1> HIDE DEF t
<1>5. reservedAmounts' = [reservedAmounts EXCEPT ![t] = @ + NoPosition.reserveAmount - p.reserveAmount]
  <2>1. reservedAmounts[t] - p.reserveAmount
          = reservedAmounts[t] + NoPosition.reserveAmount - p.reserveAmount
    BY <1>2, <1>3, <1>4
  <2> QED BY <1>1, <2>1 DEF DecreaseReservedAmount
<1>6. guaranteedUsd' = guaranteedUsd
          + (IF IsLong(id) THEN (NoPosition.size - NoPosition.collateral) - (p.size - p.collateral)
             ELSE 0)
  BY <1>1, <1>2, <1>3, <1>4
<1>7. globalShortSize' = globalShortSize + (IF IsLong(id) THEN 0 ELSE NoPosition.size - p.size)
  <2>1. CASE IsLong(id)
    BY <1>1, <1>4, <2>1
  <2>2. CASE ~IsLong(id)
    <3>1. LessShort(p.size) = globalShortSize - p.size
      BY <1>2, <2>2, ShortSizeBelow DEF Totals
    <3> QED BY <1>1, <1>2, <1>3, <1>4, <2>2, <3>1
  <2> QED BY <2>1, <2>2
<1> QED BY <1>1, <1>5, <1>6, <1>7, PositionStep DEF t, AssetsOK

\* A liquidation of either kind.
LEMMA LiquidateOrCloseTotals ==
    ASSUME Inv, Inv', Totals, NEW id \in PositionId, LiquidateOrClose(id)
    PROVE  Totals'
<1>1. positions[id].size \in Nat
  BY DEF Inv, TypeOK, PositionsOK, Position
<1>2. Liquidate(id) \/ Decrease(id, 0, positions[id].size)
  BY DEF LiquidateOrClose
<1>3. CASE Liquidate(id)
  BY <1>3, LiquidateTotals
<1>4. CASE Decrease(id, 0, positions[id].size)
  BY <1>1, <1>4, DecreaseTotals
<1> QED BY <1>2, <1>3, <1>4

\* A position call.
LEMMA PositionCallTotals ==
    ASSUME Inv, Inv', Totals, PositionCall
    PROVE  Totals'
<1> PICK id \in PositionId :
        \/ \E sent \in Deposits[CollateralToken(id)] \cup {0}, sizeDelta \in SizeDeltas :
               IncreasePosition(id, sent, sizeDelta)
        \/ \E collateralDelta \in CollateralDeltas, sizeDelta \in SizeDeltas :
               DecreasePosition(id, collateralDelta, sizeDelta)
        \/ LiquidatePosition(id)
  BY DEF PositionCall
<1>1. CollateralToken(id) \in Token
  BY DEF CollateralToken, Token
<1>2. /\ Deposits[CollateralToken(id)] \cup {0} \subseteq Nat
      /\ SizeDeltas \subseteq Nat /\ CollateralDeltas \subseteq Nat
  BY <1>1, VaultAssumption
<1>3. CASE \E sent \in Deposits[CollateralToken(id)] \cup {0}, sizeDelta \in SizeDeltas :
               IncreasePosition(id, sent, sizeDelta)
  BY <1>2, <1>3, IncreaseTotals DEF IncreasePosition
<1>4. CASE \E collateralDelta \in CollateralDeltas, sizeDelta \in SizeDeltas :
               DecreasePosition(id, collateralDelta, sizeDelta)
  BY <1>2, <1>4, DecreaseTotals DEF DecreasePosition
<1>5. CASE LiquidatePosition(id)
  BY <1>5, LiquidateOrCloseTotals DEF LiquidatePosition
<1> QED BY <1>3, <1>4, <1>5

\* A call on the pool leaves the positions and their totals alone.
LEMMA PoolCallTotals == Totals /\ PoolCall => Totals'
<1> SUFFICES ASSUME Totals, PoolCall PROVE Totals'
  OBVIOUS
<1> DEFINE kept == UNCHANGED <<positions, reservedAmounts, guaranteedUsd, globalShortSize>>
<1>1. ASSUME NEW t, NEW sent, DirectPoolDeposit(t, sent) PROVE kept
  BY <1>1 DEF DirectPoolDeposit, shortVars
<1>2. ASSUME NEW t, NEW sent, BuyUSDP(t, sent) PROVE kept
  BY <1>2 DEF BuyUSDP, shortVars
<1>3. ASSUME NEW t, NEW usdp, SellUSDP(t, usdp) PROVE kept
  BY <1>3 DEF SellUSDP, Redeem, shortVars
<1>4. ASSUME NEW in, NEW out, NEW sent, Swap(in, out, sent) PROVE kept
  BY <1>4 DEF Swap, shortVars
<1>5. ASSUME NEW t, UpdateCumulativeFundingRate(t) PROVE kept
  BY <1>5 DEF UpdateCumulativeFundingRate, assetVars, shortVars
<1> HIDE DEF kept
<1>6. kept
  BY <1>1, <1>2, <1>3, <1>4, <1>5 DEF PoolCall
<1> QED BY <1>6, TotalsKept DEF kept

\* So do governance and the world outside.
LEMMA OtherCallTotals == Totals /\ (GovCall \/ Environment \/ UNCHANGED vars) => Totals'
<1> SUFFICES ASSUME Totals, GovCall \/ Environment \/ UNCHANGED vars PROVE Totals'
  OBVIOUS
<1>1. UNCHANGED <<positions, reservedAmounts, guaranteedUsd, globalShortSize>>
  BY DEF GovCall, WithdrawFees, SetUsdpAmount, SetIsLeverageEnabled, Environment, SendTokens,
         SetPrice, Tick, vars, assetVars, shortVars
<1> QED BY <1>1, TotalsKept

\* Together with Inv, the totals are an inductive invariant.
LEMMA StepTotals == Inv /\ Totals /\ [Next]_vars => Inv' /\ Totals'
<1> SUFFICES ASSUME Inv, Totals, [Next]_vars PROVE Inv' /\ Totals'
  OBVIOUS
<1>1. Inv'
  BY PoolCallInv, PositionCallInv, GovCallInv, EnvironmentInv, StutterInv DEF Next
<1> QED BY <1>1, PoolCallTotals, PositionCallTotals, OtherCallTotals DEF Next

\* For any traders, in any order of partial decreases, closes and liquidations, the
\* reserve of each token is what its open positions reserved.
THEOREM ReservesAddUp == Spec => []ReservedMatches
<1>1. Init => Inv /\ Totals
  BY InitInv, InitTotals
<1>2. Inv /\ Totals => ReservedMatches
  BY DEF Totals
<1> QED BY <1>1, <1>2, StepTotals, PTL DEF Spec

\* guaranteedUsd is what the open longs borrowed, fees and losses included.
THEOREM GuaranteeAddsUp == Spec => []GuaranteedMatches
<1>1. Init => Inv /\ Totals
  BY InitInv, InitTotals
<1>2. Inv /\ Totals => GuaranteedMatches
  BY DEF Totals
<1> QED BY <1>1, <1>2, StepTotals, PTL DEF Spec

\* The global short size is the sum of the open shorts: its cap at zero hides nothing.
THEOREM ShortsAddUp == Spec => []ShortSizesMatch
<1>1. Init => Inv /\ Totals
  BY InitInv, InitTotals
<1>2. Inv /\ Totals => ShortSizesMatch
  BY DEF Totals
<1> QED BY <1>1, <1>2, StepTotals, PTL DEF Spec

-----------------------------------------------------------------------------
(* Solvency.  What the vault recorded of a token, beyond the pool, the fees *)
(* and the collateral of the shorts, never falls.                          *)

ShortCollateral == Sum([id \in PositionId |-> positions[id].collateral], Shorts)

Surplus(t) ==
    tokenBalances[t] - poolAmounts[t] - feeReserves[t]
    + (IF t = Stable THEN unbackedFees - ShortCollateral ELSE 0)

Covered == \A t \in Token : Surplus(t) >= 0

\* the strict stable quote of the feed: never above one for a seller, nor below
\* one for a buyer
StrictStablePrices == \A quote \in Prices[Stable] : quote[1] <= UNIT /\ UNIT <= quote[2]
StrictStableQuote == MinPrice(Stable) <= UNIT /\ UNIT <= MaxPrice(Stable)

\* Converting two amounts at once is worth no less than converting each.
LEMMA ConversionSuperadditive ==
    ASSUME EnvOK, NEW t \in Token, NEW a \in Nat, NEW b \in Nat
    PROVE  UsdToTokenMin(t, a) + UsdToTokenMin(t, b) <= UsdToTokenMin(t, a + b)
<1>1. MaxPrice(t) \in Nat \ {0} /\ UNIT \in Nat \ {0}
  BY PriceNat, VaultAssumption
<1>2. a * UNIT \in Nat /\ b * UNIT \in Nat /\ (a + b) * UNIT = a * UNIT + b * UNIT
  BY <1>1
<1> QED BY <1>1, <1>2, DivSuperadditive DEF UsdToTokenMin

\* At a strict quote a dollar is worth at most a stable token, and buys at least one.
LEMMA StableConversion ==
    ASSUME EnvOK, StrictStableQuote, NEW a \in Nat, NEW b \in Nat
    PROVE  /\ UsdToTokenMin(Stable, a) <= a
           /\ UsdToTokenMin(Stable, a + b) <= UsdToTokenMin(Stable, a) + b
           /\ TokenToUsdMin(Stable, a) <= a
<1> DEFINE m == MaxPrice(Stable)
           l == MinPrice(Stable)
<1>1. m \in Nat \ {0} /\ l \in Nat \ {0} /\ UNIT \in Nat \ {0} /\ UNIT <= m /\ l <= UNIT
  BY PriceNat, VaultAssumption DEF StrictStableQuote, Token
<1> HIDE DEF m, l
<1>2. ASSUME NEW c \in Nat, NEW d \in Nat
      PROVE  ((c + d) * UNIT) \div m <= (c * UNIT) \div m + d
  <2>1. c * UNIT \in Nat /\ (c + d) * UNIT \in Nat /\ (c + d) * UNIT = c * UNIT + d * UNIT
    BY <1>1
  <2>2. d * UNIT <= m * d
    BY <1>1
  <2>3. m * d \in Nat /\ d * UNIT \in Nat
    BY <1>1
  <2>4. (c + d) * UNIT - m * d <= c * UNIT
    BY <2>1, <2>2, <2>3
  <2>5. ((c + d) * UNIT) \div m - d <= (c * UNIT) \div m
    BY <1>1, <2>1, <2>4, DivLess
  <2>6. ((c + d) * UNIT) \div m \in Nat /\ (c * UNIT) \div m \in Nat
    BY <1>1, <2>1, DivNat
  <2> QED BY <2>5, <2>6
<1>3. (a * UNIT) \div m <= a
  BY <1>1, ShareAtMost
<1>4. (a * l) \div UNIT <= a
  BY <1>1, ShareAtMost
<1> QED BY <1>2, <1>3, <1>4 DEF m, l, UsdToTokenMin, TokenToUsdMin

\* The collateral of the shorts changes with one of them.
LEMMA ShortCollateralStep ==
    ASSUME PositionsOK, PositionsOK', NEW id \in PositionId, NEW q,
           positions' = [positions EXCEPT ![id] = q]
    PROVE  /\ ShortCollateral \in Int
           /\ ShortCollateral' = ShortCollateral
                + (IF IsLong(id) THEN 0 ELSE q.collateral - positions[id].collateral)
<1> DEFINE f == [i \in PositionId |-> positions[i].collateral]
           g == [i \in PositionId |-> positions'[i].collateral]
<1>1. /\ \A i \in PositionId : /\ positions[i] \in Position /\ positions'[i] \in Position
                               /\ i # id => positions'[i] = positions[i]
      /\ positions'[id] = q
  BY DEF PositionsOK
<1>2. \A p \in Position : p.collateral \in Nat
  BY DEF Position
<1>3. IsFiniteSet(Shorts) /\ Shorts \subseteq PositionId /\ (id \in Shorts <=> ~IsLong(id))
  BY PositionIdFinite, FS_Subset DEF Shorts, Longs
<1>4. /\ \A i \in Shorts : f[i] \in Int /\ g[i] \in Int
      /\ \A i \in Shorts \ {id} : g[i] = f[i]
      /\ f[id] = positions[id].collateral /\ g[id] = q.collateral
  BY <1>1, <1>2, <1>3
<1>5. f[id] \in Int /\ g[id] \in Int
  BY <1>1, <1>2
<1>6. ShortCollateral = Sum(f, Shorts) /\ ShortCollateral' = Sum(g, Shorts)
  BY DEF ShortCollateral
<1> HIDE DEF f, g
<1>7. Sum(f, Shorts) \in Int
  BY <1>3, <1>4, SumInt
<1>8. CASE IsLong(id)
  <2>1. Sum(g, Shorts) = Sum(f, Shorts)
    BY <1>3, <1>4, <1>8, SumSame
  <2> QED BY <1>6, <1>7, <1>8, <2>1
<1>9. CASE ~IsLong(id)
  <2>1. Sum(g, Shorts) = Sum(f, Shorts) + g[id] - f[id]
    <3>1. id \in Shorts
      BY <1>3, <1>9
    <3>2. \A i \in Shorts : f[i] \in Int /\ g[i] \in Int
      BY <1>4
    <3>3. \A i \in Shorts \ {id} : g[i] = f[i]
      BY <1>4
    <3> QED BY <1>3, <3>1, <3>2, <3>3, SumChange
  <2> QED BY <1>4, <1>5, <1>6, <1>7, <1>9, <2>1
<1> QED BY <1>8, <1>9

\* The collateral of the shorts is a number.
LEMMA ShortCollateralInt == PositionsOK => ShortCollateral \in Int
<1> SUFFICES ASSUME PositionsOK PROVE ShortCollateral \in Int
  OBVIOUS
<1> DEFINE f == [i \in PositionId |-> positions[i].collateral]
<1>1. IsFiniteSet(Shorts) /\ Shorts \subseteq PositionId
  BY PositionIdFinite, FS_Subset DEF Shorts
<1>2. \A i \in Shorts : f[i] \in Int
  BY <1>1 DEF PositionsOK, Position
<1> HIDE DEF f
<1>3. Sum(f, Shorts) \in Int
  BY <1>1, <1>2, SumInt
<1> QED BY <1>3 DEF f, ShortCollateral

\* A step that changes one token's books: b at least comes in, the pool gains p, the
\* fees f, the shorts' collateral c and the unbacked fees e.
LEMMA SurplusStep ==
    ASSUME TypeOK, TypeOK', Covered, NEW t \in Token,
           NEW b \in Int, NEW p \in Int, NEW f \in Int, NEW c \in Int, NEW e \in Int,
           tokenBalances'[t] >= tokenBalances[t] + b,
           poolAmounts'[t] = poolAmounts[t] + p,
           feeReserves'[t] = feeReserves[t] + f,
           \A u \in Token \ {t} : /\ tokenBalances'[u] >= tokenBalances[u]
                                  /\ poolAmounts'[u] = poolAmounts[u]
                                  /\ feeReserves'[u] = feeReserves[u],
           ShortCollateral' = ShortCollateral + c, unbackedFees' = unbackedFees + e,
           t # Stable => c = 0 /\ e = 0,
           b + e >= p + f + c
    PROVE  Covered'
<1>1. /\ \A u \in Token : /\ tokenBalances[u] \in Int /\ tokenBalances'[u] \in Int
                          /\ poolAmounts[u] \in Int /\ feeReserves[u] \in Int
      /\ unbackedFees \in Int
  BY DEF TypeOK, AssetsOK, EnvOK
<1>2. ShortCollateral \in Int
  BY ShortCollateralInt DEF TypeOK
<1> SUFFICES ASSUME NEW u \in Token PROVE Surplus(u)' >= 0
  BY DEF Covered
<1>3. Surplus(u) >= 0
  BY DEF Covered
<1>4. CASE u = t
  BY <1>1, <1>2, <1>3, <1>4 DEF Surplus
<1>5. CASE u # t
  <2>1. u = Stable => (c = 0 /\ e = 0) \/ t # Stable
    BY <1>5
  <2> QED BY <1>1, <1>2, <1>3, <1>5, <2>1 DEF Surplus
<1> QED BY <1>4, <1>5

\* What comes in is recorded in full, what goes out takes off no more than it is.
LEMMA RecordedIn ==
    ASSUME AssetsOK, NEW t \in Token, NEW sent \in Nat, TransferIn(t, sent)
    PROVE  /\ tokenBalances'[t] >= tokenBalances[t] + Received(t, sent)
           /\ \A u \in Token \ {t} : tokenBalances'[u] >= tokenBalances[u]
<1>1. \A u \in Token : balance[u] \in Nat /\ tokenBalances[u] \in Nat
  BY DEF AssetsOK
<1> QED BY <1>1 DEF AssetsOK, TransferIn, Received

LEMMA RecordedOut ==
    ASSUME AssetsOK, NEW t \in Token, NEW amount \in Nat, TransferOut(t, amount)
    PROVE  /\ tokenBalances'[t] >= tokenBalances[t] - amount
           /\ \A u \in Token \ {t} : tokenBalances'[u] >= tokenBalances[u]
<1>1. \A u \in Token : balance[u] \in Nat /\ tokenBalances[u] \in Nat
  BY DEF AssetsOK
<1> QED BY <1>1 DEF AssetsOK, TransferOut

\* The collateral of the shorts stays where no position changes.
LEMMA CollateralKept ==
    ASSUME PositionsOK, UNCHANGED positions
    PROVE  ShortCollateral' = ShortCollateral + 0
BY ShortCollateralInt DEF ShortCollateral

\* A step that leaves the books alone.
LEMMA CoveredKept ==
    ASSUME Covered, UNCHANGED <<tokenBalances, poolAmounts, feeReserves, positions, unbackedFees>>
    PROVE  Covered'
BY DEF Covered, Surplus, ShortCollateral

\* A deposit without USDP goes to the pool in full.
LEMMA DirectPoolDepositCovered ==
    ASSUME Inv, Inv', Covered, NEW t \in Token, NEW sent \in Nat, DirectPoolDeposit(t, sent)
    PROVE  Covered'
<1> USE DEF Inv
<1> DEFINE amount == Received(t, sent)
<1>1. /\ TransferIn(t, sent)
      /\ poolAmounts' = [poolAmounts EXCEPT ![t] = @ + amount]
      /\ UNCHANGED <<feeReserves, positions, unbackedFees>>
  BY DEF DirectPoolDeposit
<1>2. amount \in Nat
  BY <1>1, TransferInType DEF TypeOK
<1>3. /\ tokenBalances'[t] >= tokenBalances[t] + amount
      /\ \A u \in Token \ {t} : tokenBalances'[u] >= tokenBalances[u]
  BY <1>1, RecordedIn DEF TypeOK
<1> HIDE DEF amount
<1>4. /\ poolAmounts'[t] = poolAmounts[t] + amount /\ feeReserves'[t] = feeReserves[t] + 0
      /\ \A u \in Token \ {t} : poolAmounts'[u] = poolAmounts[u] /\ feeReserves'[u] = feeReserves[u]
      /\ unbackedFees' = unbackedFees + 0
  BY <1>1 DEF TypeOK, AssetsOK, EnvOK
<1>5. ShortCollateral' = ShortCollateral + 0
  BY <1>1, CollateralKept DEF TypeOK
<1>6. 0 \in Int /\ amount \in Int /\ amount + 0 >= amount + 0 + 0
  BY <1>2
<1> QED BY <1>3, <1>4, <1>5, <1>6, SurplusStep

\* What buys USDP goes to the pool and to the fees.
LEMMA BuyUSDPCovered ==
    ASSUME Inv, Inv', Covered, NEW t \in Token, NEW sent \in Nat, BuyUSDP(t, sent)
    PROVE  Covered'
<1> USE DEF Inv
<1> DEFINE amount == Received(t, sent)
           afterFees == AfterFee(amount, MintBurnFeeBps)
<1>1. /\ TransferIn(t, sent)
      /\ feeReserves' = [feeReserves EXCEPT ![t] = @ + amount - afterFees]
      /\ poolAmounts' = [poolAmounts EXCEPT ![t] = @ + afterFees]
      /\ UNCHANGED <<positions, unbackedFees>>
  BY DEF BuyUSDP
<1>2. amount \in Nat /\ afterFees \in Nat
  <2>1. amount \in Nat
    BY <1>1, TransferInType DEF TypeOK
  <2> QED BY <2>1, AfterFeeBound, VaultAssumption
<1>3. /\ tokenBalances'[t] >= tokenBalances[t] + amount
      /\ \A u \in Token \ {t} : tokenBalances'[u] >= tokenBalances[u]
  BY <1>1, RecordedIn DEF TypeOK
<1> HIDE DEF amount, afterFees
<1>4. /\ poolAmounts'[t] = poolAmounts[t] + afterFees
      /\ feeReserves'[t] = feeReserves[t] + (amount - afterFees)
      /\ \A u \in Token \ {t} : poolAmounts'[u] = poolAmounts[u] /\ feeReserves'[u] = feeReserves[u]
      /\ unbackedFees' = unbackedFees + 0
  BY <1>1, <1>2 DEF TypeOK, AssetsOK, EnvOK
<1>5. ShortCollateral' = ShortCollateral + 0
  BY <1>1, CollateralKept DEF TypeOK
<1>6. /\ 0 \in Int /\ amount \in Int /\ afterFees \in Int /\ amount - afterFees \in Int
      /\ amount + 0 >= afterFees + (amount - afterFees) + 0
  BY <1>2
<1> QED BY <1>3, <1>4, <1>5, <1>6, SurplusStep

\* A redemption takes off the pool what it pays and its fee.
LEMMA RedeemCovered ==
    ASSUME Inv, Inv', Covered, NEW t \in Token, NEW usdp \in Nat, Redeem(t, usdp)
    PROVE  Covered'
<1> USE DEF Inv
<1> DEFINE redemption == UsdToTokenMin(t, usdp)
           amountOut == AfterFee(redemption, MintBurnFeeBps)
<1>1. /\ poolAmounts' = [poolAmounts EXCEPT ![t] = @ - redemption]
      /\ feeReserves' = [feeReserves EXCEPT ![t] = @ + redemption - amountOut]
      /\ TransferOut(t, amountOut)
      /\ UNCHANGED <<positions, unbackedFees>>
  BY DEF Redeem
<1>2. redemption \in Nat /\ amountOut \in Nat
  <2>1. redemption \in Nat
    BY ConversionNat DEF TypeOK
  <2> QED BY <2>1, AfterFeeBound, VaultAssumption
<1> HIDE DEF redemption, amountOut
<1>3. /\ tokenBalances'[t] >= tokenBalances[t] + (-amountOut)
      /\ \A u \in Token \ {t} : tokenBalances'[u] >= tokenBalances[u]
  <2>1. tokenBalances[t] \in Int
    BY DEF TypeOK, AssetsOK
  <2> QED BY <1>1, <1>2, <2>1, RecordedOut DEF TypeOK
<1>4. /\ poolAmounts'[t] = poolAmounts[t] + (-redemption)
      /\ feeReserves'[t] = feeReserves[t] + (redemption - amountOut)
      /\ \A u \in Token \ {t} : poolAmounts'[u] = poolAmounts[u] /\ feeReserves'[u] = feeReserves[u]
      /\ unbackedFees' = unbackedFees + 0
  BY <1>1, <1>2 DEF TypeOK, AssetsOK, EnvOK
<1>5. ShortCollateral' = ShortCollateral + 0
  BY <1>1, CollateralKept DEF TypeOK
<1>6. /\ 0 \in Int /\ -amountOut \in Int /\ -redemption \in Int /\ redemption - amountOut \in Int
      /\ (-amountOut) + 0 >= (-redemption) + (redemption - amountOut) + 0
  BY <1>2
<1> QED BY <1>3, <1>4, <1>5, <1>6, SurplusStep

\* Withdrawn fees leave with their record.
LEMMA WithdrawFeesCovered ==
    ASSUME Inv, Inv', Covered, NEW t \in Token, WithdrawFees(t)
    PROVE  Covered'
<1> USE DEF Inv
<1>1. /\ feeReserves' = [feeReserves EXCEPT ![t] = 0] /\ TransferOut(t, feeReserves[t])
      /\ UNCHANGED <<poolAmounts, positions, unbackedFees>>
  BY DEF WithdrawFees
<1>2. feeReserves[t] \in Nat /\ tokenBalances[t] \in Int
  BY DEF TypeOK, AssetsOK
<1>3. /\ tokenBalances'[t] >= tokenBalances[t] + (-feeReserves[t])
      /\ \A u \in Token \ {t} : tokenBalances'[u] >= tokenBalances[u]
  BY <1>1, <1>2, RecordedOut DEF TypeOK
<1>4. /\ poolAmounts'[t] = poolAmounts[t] + 0
      /\ feeReserves'[t] = feeReserves[t] + (-feeReserves[t])
      /\ \A u \in Token \ {t} : poolAmounts'[u] = poolAmounts[u] /\ feeReserves'[u] = feeReserves[u]
      /\ unbackedFees' = unbackedFees + 0
  BY <1>1, <1>2 DEF TypeOK, AssetsOK, EnvOK
<1>5. ShortCollateral' = ShortCollateral + 0
  BY <1>1, CollateralKept DEF TypeOK
<1>6. /\ 0 \in Int /\ -feeReserves[t] \in Int
      /\ (-feeReserves[t]) + 0 >= 0 + (-feeReserves[t]) + 0
  BY <1>2
<1> QED BY <1>3, <1>4, <1>5, <1>6, SurplusStep

\* A swap adds to one pool what it brings, and takes off the other what it pays and its fee.
LEMMA SwapCovered ==
    ASSUME Inv, Inv', Covered, NEW in \in Token, NEW out \in Token, NEW sent \in Nat,
           Swap(in, out, sent)
    PROVE  Covered'
<1> USE DEF Inv
<1> DEFINE amountIn == Received(in, sent)
           amountOut == (amountIn * MinPrice(in)) \div MaxPrice(out)
           afterFees == AfterFee(amountOut, SwapFeeBps)
<1>1. /\ in # out /\ amountIn > 0
      /\ feeReserves' = [feeReserves EXCEPT ![out] = @ + amountOut - afterFees]
      /\ tokenBalances' = [t \in Token |-> IF t = in THEN balance[in] + sent
                                           ELSE balance[out] - afterFees]
      /\ poolAmounts' = [poolAmounts EXCEPT ![in] = @ + amountIn, ![out] = @ - amountOut]
      /\ UNCHANGED <<positions, unbackedFees>>
  BY DEF Swap
<1>2. \A u \in Token : /\ balance[u] \in Nat /\ tokenBalances[u] \in Nat
                       /\ tokenBalances[u] <= balance[u]
                       /\ poolAmounts[u] \in Nat /\ feeReserves[u] \in Nat
  BY DEF TypeOK, AssetsOK
<1>3. amountIn \in Nat /\ amountIn = balance[in] + sent - tokenBalances[in]
  BY <1>1, <1>2 DEF Received
<1>4. amountOut \in Nat /\ afterFees \in Nat
  <2>1. MinPrice(in) \in Nat /\ MaxPrice(out) \in Nat \ {0}
    BY PriceNat DEF TypeOK
  <2>2. amountIn * MinPrice(in) \in Nat
    BY <1>3, <2>1
  <2>3. amountOut \in Nat
    BY <2>1, <2>2, DivNat
  <2> HIDE DEF amountOut
  <2> QED BY <2>3, AfterFeeBound, VaultAssumption
<1> HIDE DEF amountIn, amountOut, afterFees
<1>5. /\ tokenBalances'[in] = tokenBalances[in] + amountIn
      /\ tokenBalances'[out] >= tokenBalances[out] - afterFees
      /\ poolAmounts'[in] = poolAmounts[in] + amountIn
      /\ poolAmounts'[out] = poolAmounts[out] - amountOut
      /\ feeReserves'[in] = feeReserves[in]
      /\ feeReserves'[out] = feeReserves[out] + amountOut - afterFees
      /\ tokenBalances'[in] \in Int /\ tokenBalances'[out] \in Int
  BY <1>1, <1>2, <1>3, <1>4 DEF TypeOK, AssetsOK
<1>6. ShortCollateral' = ShortCollateral /\ ShortCollateral \in Int /\ unbackedFees \in Int
  BY <1>1, ShortCollateralInt DEF TypeOK, EnvOK, ShortCollateral
<1>7. Surplus(in) >= 0 /\ Surplus(out) >= 0
  BY DEF Covered
<1>8. Surplus(in)' >= 0
  BY <1>1, <1>2, <1>3, <1>5, <1>6, <1>7 DEF Surplus
<1>9. Surplus(out)' >= 0
  BY <1>1, <1>2, <1>4, <1>5, <1>6, <1>7 DEF Surplus
<1>10. Token = {in, out}
  BY <1>1 DEF Token
<1> QED BY <1>8, <1>9, <1>10 DEF Covered

\* A short books no more collateral and fees than it brings in, for the stable token is
\* worth at most a dollar; what a long brings in joins the pool.
LEMMA IncreaseCovered ==
    ASSUME Inv, Inv', Covered, StrictStableQuote, NEW id \in PositionId, NEW sent \in Nat,
           NEW sizeDelta \in Nat, Increase(id, sent, sizeDelta)
    PROVE  Covered'
<1> USE DEF Inv
<1> DEFINE t == CollateralToken(id)
           rate == FundingRate(t)
           p == positions[id]
           entryPrice == IF IsLong(id) THEN MaxPrice(Index) ELSE MinPrice(Index)
           fee == PositionFee(sizeDelta) + FundingFee(p, rate)
           feeTokens == UsdToTokenMin(t, fee)
           received == Received(t, sent)
           collateralUsd == TokenToUsdMin(t, received)
           reserveDelta == UsdToTokenMax(t, sizeDelta)
           q == [size |-> p.size + sizeDelta,
                 collateral |-> p.collateral + collateralUsd - fee,
                 averagePrice |-> NextAveragePrice(id, p, entryPrice, sizeDelta),
                 entryFundingRate |-> rate,
                 reserveAmount |-> p.reserveAmount + reserveDelta,
                 lastIncreasedTime |-> now]
           gain == IF IsLong(id) THEN received - feeTokens ELSE 0
           change == IF IsLong(id) THEN 0 ELSE collateralUsd - fee
<1>1. /\ TransferIn(t, sent)
      /\ positions' = [positions EXCEPT ![id] = q]
      /\ feeReserves' = [feeReserves EXCEPT ![t] = @ + feeTokens]
      /\ IF IsLong(id) THEN poolAmounts' = [poolAmounts EXCEPT ![t] = @ + received - feeTokens]
                       ELSE UNCHANGED poolAmounts
      /\ UNCHANGED unbackedFees
  BY DEF Increase
<1>2. p.collateral \in Nat /\ t \in Token /\ FundingFee(p, rate) \in Nat
  BY PositionFields DEF TypeOK
<1>3. received \in Nat /\ fee \in Nat
  BY <1>1, <1>2, TransferInType, PositionFeeNat DEF TypeOK
<1>4. collateralUsd \in Nat /\ feeTokens \in Nat
  BY <1>2, <1>3, ConversionNat DEF TypeOK
<1>5. q.collateral = p.collateral + collateralUsd - fee
  OBVIOUS
<1>6. ~IsLong(id) => t = Stable /\ feeTokens <= fee /\ collateralUsd <= received
  BY <1>3, StableConversion DEF CollateralToken, TypeOK
<1>7. IsLong(id) => t # Stable
  BY VaultAssumption DEF CollateralToken
<1>8. /\ tokenBalances'[t] >= tokenBalances[t] + received
      /\ \A u \in Token \ {t} : tokenBalances'[u] >= tokenBalances[u]
  BY <1>1, <1>2, RecordedIn DEF TypeOK
<1>9. /\ ShortCollateral \in Int
      /\ ShortCollateral' = ShortCollateral + (IF IsLong(id) THEN 0 ELSE q.collateral - p.collateral)
  <2> HIDE DEF q
  <2> QED BY <1>1, ShortCollateralStep DEF TypeOK
<1> HIDE DEF t, rate, p, q, fee, feeTokens, received, collateralUsd
<1>10. ShortCollateral' = ShortCollateral + change
  BY <1>2, <1>3, <1>4, <1>5, <1>9
<1>11. /\ feeReserves'[t] = feeReserves[t] + feeTokens
       /\ poolAmounts'[t] = poolAmounts[t] + gain
       /\ \A u \in Token \ {t} : poolAmounts'[u] = poolAmounts[u] /\ feeReserves'[u] = feeReserves[u]
       /\ unbackedFees' = unbackedFees + 0
  BY <1>1, <1>2, <1>3, <1>4 DEF TypeOK, AssetsOK, EnvOK
<1>12. /\ 0 \in Int /\ received \in Int /\ gain \in Int /\ feeTokens \in Int /\ change \in Int
       /\ received + 0 >= gain + feeTokens + change
       /\ t # Stable => change = 0 /\ 0 = 0
  BY <1>3, <1>4, <1>6, <1>7
<1> HIDE DEF gain, change
<1> QED BY <1>2, <1>8, <1>10, <1>11, <1>12, SurplusStep

\* Where the collateral of a decreased position goes: to the loss, to its owner, to
\* the fee, and the rest stays.
LEMMA ReductionSplit ==
    ASSUME TypeOK, NEW id \in PositionId, NEW collateralDelta \in Nat, NEW sizeDelta \in Nat,
           positions[id].size > 0, positions[id].averagePrice > 0,
           NEW r, r = Reduction(id, positions[id], FundingRate(CollateralToken(id)),
                                collateralDelta, sizeDelta),
           r.kept >= 0, r.collateral >= 0
    PROVE  \E paid \in Nat :
               /\ r.usdOut = r.profit + paid
               /\ r.collateral = positions[id].collateral - r.loss - paid - r.feeFromCollateral
               /\ positions[id].size = sizeDelta => r.collateral = 0
               /\ \/ /\ r.usdOutAfterFee \in Nat /\ r.usdOut = r.usdOutAfterFee + r.fee
                     /\ r.feeFromCollateral = 0
                  \/ /\ r.usdOutAfterFee = r.usdOut /\ r.feeFromCollateral = r.fee
<1> DEFINE p == positions[id]
           closing == p.size = sizeDelta
           paid == collateralDelta + (IF closing THEN r.kept ELSE 0)
           left == IF closing THEN 0 ELSE r.kept
<1>1. /\ r.fee \in Nat /\ r.profit \in Nat /\ r.loss \in Nat
      /\ r.usdOut \in Nat /\ r.usdOutAfterFee \in Nat /\ r.feeFromCollateral \in Nat
      /\ r.collateral \in Int
  BY ReductionType
<1>2. p.collateral \in Nat
  BY DEF TypeOK, PositionsOK, Position
<1>3. /\ r.kept = p.collateral - r.loss - collateralDelta
      /\ r.usdOut = r.profit + collateralDelta + (IF closing THEN r.kept ELSE 0)
      /\ r.usdOutAfterFee = (IF r.fromOut THEN r.usdOut - r.fee ELSE r.usdOut)
      /\ r.feeFromCollateral = (IF r.fromOut THEN 0 ELSE r.fee)
      /\ r.collateral = (IF r.fromOut THEN left ELSE left - r.fee)
  BY DEF Reduction
<1> HIDE DEF p, closing
<1>4. r.kept \in Nat
  BY <1>1, <1>2, <1>3
<1>5. paid \in Nat /\ r.usdOut = r.profit + paid
  BY <1>1, <1>3, <1>4
<1>6. left \in Nat /\ paid + left = r.kept + collateralDelta
  BY <1>4
<1>7. r.collateral = left - r.feeFromCollateral
  BY <1>1, <1>3, <1>6
<1>8. closing => r.collateral = 0
  <2> HAVE closing
  <2>1. left = 0
    OBVIOUS
  <2> HIDE DEF left
  <2> QED BY <1>1, <1>7, <2>1
<1> HIDE DEF paid, left
<1>9. r.collateral = p.collateral - r.loss - paid - r.feeFromCollateral
  BY <1>1, <1>2, <1>3, <1>4, <1>5, <1>6, <1>7
<1>10. \/ r.usdOut = r.usdOutAfterFee + r.fee /\ r.feeFromCollateral = 0
       \/ r.usdOutAfterFee = r.usdOut /\ r.feeFromCollateral = r.fee
  BY <1>1, <1>3
<1> QED BY <1>1, <1>5, <1>8, <1>9, <1>10 DEF p, closing

\* A decrease pays its profit from the pool, and the rest of what it pays, the fee and the
\* loss from the collateral; rounding each down leaves the difference in the vault.
LEMMA DecreaseCovered ==
    ASSUME Inv, Inv', Covered, StrictStableQuote, NEW id \in PositionId,
           NEW collateralDelta \in Nat, NEW sizeDelta \in Nat,
           Decrease(id, collateralDelta, sizeDelta)
    PROVE  Covered'
<1> USE DEF Inv
<1> DEFINE t == CollateralToken(id)
           rate == FundingRate(t)
           p == positions[id]
           r == Reduction(id, p, rate, collateralDelta, sizeDelta)
           closing == p.size = sizeDelta
           reserveDelta == FreedReserve(p, sizeDelta)
           kept == Decreased(p, r, rate, sizeDelta)
           q == IF closing THEN NoPosition ELSE kept
           out == UsdToTokenMin(t, r.usdOutAfterFee)
           feeTokens == UsdToTokenMin(t, r.fee)
           gain == IF IsLong(id)
                   THEN -UsdToTokenMin(t, r.feeFromCollateral) - UsdToTokenMin(t, r.usdOut)
                   ELSE UsdToTokenMin(t, r.loss) - UsdToTokenMin(t, r.profit)
           change == IF IsLong(id) THEN 0 ELSE r.collateral - p.collateral
<1>1. /\ p.size > 0 /\ p.averagePrice > 0
      /\ r.kept >= 0 /\ r.collateral >= 0
      /\ positions' = [positions EXCEPT ![id] = q]
      /\ feeReserves' = [feeReserves EXCEPT ![t] = @ + feeTokens]
      /\ poolAmounts' = [poolAmounts EXCEPT ![t] = PoolAfterPayout(id, r)]
      /\ IF r.usdOut > 0 THEN TransferOut(t, out) ELSE UNCHANGED <<balance, tokenBalances>>
      /\ UNCHANGED unbackedFees
  BY DEF Decrease, CanDecrease
<1>2. p \in Position /\ p.size \in Nat /\ p.collateral \in Nat /\ t \in Token
  BY PositionFields DEF TypeOK
<1>3. /\ r.fee \in Nat /\ r.profit \in Nat /\ r.loss \in Nat
      /\ r.usdOut \in Nat /\ r.usdOutAfterFee \in Nat /\ r.feeFromCollateral \in Nat
      /\ r.collateral \in Int
  BY <1>1, ReductionType
<1>4. PICK paid \in Nat :
        /\ r.usdOut = r.profit + paid
        /\ r.collateral = p.collateral - r.loss - paid - r.feeFromCollateral
        /\ closing => r.collateral = 0
        /\ \/ /\ r.usdOutAfterFee \in Nat /\ r.usdOut = r.usdOutAfterFee + r.fee
              /\ r.feeFromCollateral = 0
           \/ /\ r.usdOutAfterFee = r.usdOut /\ r.feeFromCollateral = r.fee
  BY <1>1, ReductionSplit
<1>5. q.collateral = r.collateral
  <2>1. NoPosition.collateral = 0
    BY DEF NoPosition
  <2>2. kept.collateral = r.collateral
    <3> HIDE DEF r, rate
    <3> QED BY <1>2 DEF Position, Decreased
  <2> HIDE DEF r, kept
  <2> QED BY <1>4, <2>1, <2>2
<1>6. /\ ShortCollateral \in Int
      /\ ShortCollateral' = ShortCollateral + (IF IsLong(id) THEN 0 ELSE q.collateral - p.collateral)
  <2> HIDE DEF q
  <2> QED BY <1>1, ShortCollateralStep DEF TypeOK
<1>7. ShortCollateral' = ShortCollateral + change
  BY <1>5, <1>6
<1> HIDE DEF r, q, closing, p, rate
<1>8. /\ UsdToTokenMin(t, r.profit) \in Nat /\ UsdToTokenMin(t, r.loss) \in Nat
      /\ feeTokens \in Nat /\ UsdToTokenMin(t, r.usdOut) \in Nat
      /\ UsdToTokenMin(t, r.feeFromCollateral) \in Nat /\ out \in Nat
  BY <1>2, <1>3, ConversionNat DEF TypeOK
<1>9. UsdToTokenMin(t, 0) = 0
  BY <1>2, ConversionZero DEF TypeOK
<1>10. PoolAfterPayout(id, r) = poolAmounts[t] + gain
  <2>1. poolAmounts[t] \in Int
    BY <1>2 DEF TypeOK, AssetsOK
  <2>2. IsLong(id) => t = Index
    BY DEF CollateralToken
  <2> QED BY <1>8, <2>1, <2>2 DEF PoolAfterPayout, PoolAfterFee, PoolAfterPnl
<1>11. /\ tokenBalances'[t] >= tokenBalances[t] + (-out)
       /\ \A u \in Token \ {t} : tokenBalances'[u] >= tokenBalances[u]
  <2>1. \A u \in Token : tokenBalances[u] \in Int
    BY DEF TypeOK, AssetsOK
  <2>2. CASE r.usdOut > 0
    <3> HIDE DEF out, t
    <3>1. TransferOut(t, out)
      BY <1>1, <2>2
    <3>2. /\ tokenBalances'[t] >= tokenBalances[t] - out
          /\ \A u \in Token \ {t} : tokenBalances'[u] >= tokenBalances[u]
      BY <1>2, <1>8, <3>1, RecordedOut DEF TypeOK
    <3> QED BY <1>2, <1>8, <2>1, <3>2
  <2>3. CASE r.usdOut = 0
    <3>1. tokenBalances' = tokenBalances
      BY <1>1, <2>3
    <3> HIDE DEF out, t
    <3> QED BY <1>2, <1>8, <2>1, <3>1
  <2> QED BY <1>3, <2>2, <2>3
<1>12. IsLong(id) => -out >= gain + feeTokens
  <2> HAVE IsLong(id)
  <2>1. CASE r.usdOutAfterFee = r.usdOut /\ r.feeFromCollateral = r.fee
    BY <1>8, <2>1
  <2>2. CASE r.usdOut = r.usdOutAfterFee + r.fee /\ r.feeFromCollateral = 0
    <3>1. out + feeTokens <= UsdToTokenMin(t, r.usdOut)
      BY <1>2, <1>3, <2>2, ConversionSuperadditive DEF TypeOK
    <3> HIDE DEF out, feeTokens, t
    <3>2. gain = -UsdToTokenMin(t, r.usdOut)
      BY <1>8, <1>9, <2>2
    <3> HIDE DEF gain
    <3> QED BY <1>8, <3>1, <3>2
  <2> QED BY <1>4, <2>1, <2>2
<1>13. ~IsLong(id) => -out >= gain + feeTokens + change
  <2> HAVE ~IsLong(id)
  <2>0. t = Stable
    BY DEF CollateralToken
  <2>1. change = -r.loss - paid - r.feeFromCollateral
    BY <1>2, <1>3, <1>4
  <2>2. UsdToTokenMin(t, r.usdOut) <= UsdToTokenMin(t, r.profit) + paid
    BY <1>3, <1>4, <2>0, StableConversion DEF TypeOK
  <2>3. UsdToTokenMin(t, r.loss) <= r.loss /\ feeTokens <= r.fee
    BY <1>3, <2>0, StableConversion DEF TypeOK
  <2>4. gain = UsdToTokenMin(t, r.loss) - UsdToTokenMin(t, r.profit)
    OBVIOUS
  <2>5. CASE r.usdOutAfterFee = r.usdOut /\ r.feeFromCollateral = r.fee
    <3>1. out = UsdToTokenMin(t, r.usdOut)
      BY <2>5
    <3> HIDE DEF out, feeTokens, t, gain, change
    <3> QED BY <1>3, <1>8, <2>1, <2>2, <2>3, <2>4, <2>5, <3>1
  <2>6. CASE r.usdOut = r.usdOutAfterFee + r.fee /\ r.feeFromCollateral = 0
    <3>1. out + feeTokens <= UsdToTokenMin(t, r.usdOut)
      BY <1>2, <1>3, <2>6, ConversionSuperadditive DEF TypeOK
    <3> HIDE DEF out, feeTokens, t, gain, change
    <3> QED BY <1>3, <1>8, <2>1, <2>2, <2>3, <2>4, <2>6, <3>1
  <2> QED BY <1>4, <2>5, <2>6
<1>14. /\ gain \in Int /\ change \in Int /\ (IsLong(id) => change = 0)
       /\ IsLong(id) => t # Stable
  <2>1. IsLong(id) => t # Stable
    BY VaultAssumption DEF CollateralToken
  <2> HIDE DEF t
  <2> QED BY <1>2, <1>3, <1>8, <2>1
<1> HIDE DEF gain, change, out, feeTokens, t
<1>15. /\ feeReserves'[t] = feeReserves[t] + feeTokens
       /\ poolAmounts'[t] = poolAmounts[t] + gain
       /\ \A u \in Token \ {t} : poolAmounts'[u] = poolAmounts[u] /\ feeReserves'[u] = feeReserves[u]
       /\ unbackedFees' = unbackedFees + 0
  BY <1>1, <1>2, <1>10 DEF TypeOK, AssetsOK, EnvOK
<1>16. /\ 0 \in Int /\ -out \in Int /\ feeTokens \in Int
       /\ (-out) + 0 >= gain + feeTokens + change
       /\ t # Stable => change = 0 /\ 0 = 0
  <2>1. t # Stable => IsLong(id)
    BY DEF t, CollateralToken
  <2> QED BY <1>8, <1>12, <1>13, <1>14, <2>1
<1> QED BY <1>2, <1>7, <1>11, <1>14, <1>15, <1>16, SurplusStep

\* A liquidation turns the collateral of a short into fees and pool; fees beyond it are
\* the unbacked ones.
LEMMA LiquidateCovered ==
    ASSUME Inv, Inv', Covered, StrictStableQuote, NEW id \in PositionId,
           positions[id].averagePrice > 0, Liquidate(id)
    PROVE  Covered'
<1> USE DEF Inv
<1> DEFINE t == CollateralToken(id)
           p == positions[id]
           fees == LiquidationFees(id, p, FundingRate(t))
           feeTokens == UsdToTokenMin(t, fees)
           joined == IF ~IsLong(id) /\ fees < p.collateral
                     THEN UsdToTokenMin(t, p.collateral - fees) ELSE 0
           pool == poolAmounts[t] + joined - (IF IsLong(id) THEN feeTokens ELSE 0)
           bounty == UsdToTokenMin(t, LiquidationFeeUsd)
           gain == joined - (IF IsLong(id) THEN feeTokens ELSE 0) - bounty
           change == IF IsLong(id) THEN 0 ELSE -p.collateral
           unbacked == IF ~IsLong(id) /\ feeTokens > p.collateral
                       THEN feeTokens - p.collateral ELSE 0
<1>1. /\ feeReserves' = [feeReserves EXCEPT ![t] = @ + feeTokens]
      /\ positions' = [positions EXCEPT ![id] = NoPosition]
      /\ poolAmounts' = [poolAmounts EXCEPT ![t] = pool - bounty]
      /\ TransferOut(t, bounty)
      /\ IF IsLong(id) THEN UNCHANGED unbackedFees
         ELSE unbackedFees' = unbackedFees
                + (IF feeTokens > p.collateral THEN feeTokens - p.collateral ELSE 0)
  BY DEF Liquidate
<1>2. p.collateral \in Nat /\ t \in Token
  BY PositionFields DEF TypeOK
<1>3. fees \in Nat
  BY LiquidationFeesNat
<1>4. feeTokens \in Nat /\ bounty \in Nat
  BY <1>2, <1>3, ConversionNat, VaultAssumption DEF TypeOK
<1>5. /\ ShortCollateral \in Int
      /\ ShortCollateral' = ShortCollateral
           + (IF IsLong(id) THEN 0 ELSE NoPosition.collateral - p.collateral)
  BY <1>1, ShortCollateralStep DEF TypeOK
<1>6. ShortCollateral' = ShortCollateral + change
  BY <1>2, <1>5 DEF NoPosition
<1> HIDE DEF fees, feeTokens, bounty
<1>7. joined \in Nat /\ (~IsLong(id) => feeTokens + joined <= p.collateral + unbacked)
  <2>1. CASE IsLong(id)
    BY <2>1
  <2>2. CASE ~IsLong(id) /\ fees < p.collateral
    <3>1. t = Stable
      BY <2>2 DEF CollateralToken
    <3>2. p.collateral - fees \in Nat /\ fees + (p.collateral - fees) = p.collateral
      BY <1>2, <1>3, <2>2
    <3> HIDE DEF t, p
    <3>3. joined = UsdToTokenMin(t, p.collateral - fees) /\ joined \in Nat
      BY <1>2, <2>2, <3>2, ConversionNat DEF TypeOK
    <3>4. feeTokens + UsdToTokenMin(t, p.collateral - fees) <= UsdToTokenMin(t, p.collateral)
      BY <1>2, <1>3, <3>2, ConversionSuperadditive DEF TypeOK, feeTokens
    <3>5. UsdToTokenMin(t, p.collateral) <= p.collateral
      BY <1>2, <3>1, StableConversion DEF TypeOK
    <3>6. UsdToTokenMin(t, p.collateral) \in Nat
      BY <1>2, ConversionNat DEF TypeOK
    <3>7. unbacked \in Nat
      BY <1>2, <1>4
    <3> HIDE DEF joined, unbacked
    <3> QED BY <1>2, <1>4, <3>3, <3>4, <3>5, <3>6, <3>7
  <2>3. CASE ~IsLong(id) /\ ~(fees < p.collateral)
    <3>1. joined = 0
      BY <2>3
    <3> HIDE DEF joined, p
    <3> QED BY <1>2, <1>4, <2>3, <3>1
  <2> QED BY <2>1, <2>2, <2>3
<1>8. (IsLong(id) <=> t # Stable)
  BY VaultAssumption DEF CollateralToken
<1> HIDE DEF t, p, joined
<1>9. /\ tokenBalances'[t] >= tokenBalances[t] + (-bounty)
      /\ \A u \in Token \ {t} : tokenBalances'[u] >= tokenBalances[u]
  <2>1. tokenBalances[t] \in Int
    BY <1>2 DEF TypeOK, AssetsOK
  <2> QED BY <1>1, <1>2, <1>4, <2>1, RecordedOut DEF TypeOK
<1>10. gain \in Int /\ change \in Int /\ unbacked \in Int
  BY <1>2, <1>4, <1>7
<1>11. /\ feeReserves'[t] = feeReserves[t] + feeTokens
       /\ \A u \in Token \ {t} : poolAmounts'[u] = poolAmounts[u] /\ feeReserves'[u] = feeReserves[u]
       /\ poolAmounts'[t] = poolAmounts[t] + gain
  <2>1. poolAmounts[t] \in Int
    BY <1>2 DEF TypeOK, AssetsOK
  <2>2. pool - bounty = poolAmounts[t] + gain
    BY <1>4, <1>7, <2>1
  <2> HIDE DEF pool, gain
  <2> QED BY <1>1, <1>2, <2>2 DEF TypeOK, AssetsOK
<1>12. unbackedFees' = unbackedFees + unbacked
  <2>1. unbackedFees \in Int
    BY DEF TypeOK, EnvOK
  <2> QED BY <1>1, <1>2, <1>4, <2>1
<1>13. /\ -bounty \in Int /\ feeTokens \in Int
       /\ (-bounty) + unbacked >= gain + feeTokens + change
       /\ t # Stable => change = 0 /\ unbacked = 0
  <2>1. CASE IsLong(id)
    <3>1. joined = 0
      BY <2>1 DEF joined
    <3> QED BY <1>4, <1>8, <2>1, <3>1
  <2>2. CASE ~IsLong(id)
    <3>1. gain = joined - bounty /\ change = -p.collateral
      BY <1>4, <1>7, <2>2
    <3> HIDE DEF gain, change, unbacked
    <3> QED BY <1>2, <1>4, <1>7, <1>8, <1>10, <2>2, <3>1
  <2> QED BY <2>1, <2>2
<1> HIDE DEF gain, change, unbacked, pool
<1> QED BY <1>2, <1>6, <1>9, <1>10, <1>11, <1>12, <1>13, SurplusStep

\* A liquidation of either kind.
LEMMA LiquidateOrCloseCovered ==
    ASSUME Inv, Inv', Covered, StrictStableQuote, NEW id \in PositionId, LiquidateOrClose(id)
    PROVE  Covered'
<1>1. positions[id].size \in Nat
  BY DEF Inv, TypeOK, PositionsOK, Position
<1>2. positions[id].averagePrice > 0 /\ (Liquidate(id) \/ Decrease(id, 0, positions[id].size))
  BY DEF LiquidateOrClose
<1>3. CASE Liquidate(id)
  BY <1>2, <1>3, LiquidateCovered
<1>4. CASE Decrease(id, 0, positions[id].size)
  BY <1>1, <1>4, DecreaseCovered
<1> QED BY <1>2, <1>3, <1>4

\* A position call.
LEMMA PositionCallCovered ==
    ASSUME Inv, Inv', Covered, StrictStableQuote, PositionCall
    PROVE  Covered'
<1> PICK id \in PositionId :
        \/ \E sent \in Deposits[CollateralToken(id)] \cup {0}, sizeDelta \in SizeDeltas :
               IncreasePosition(id, sent, sizeDelta)
        \/ \E collateralDelta \in CollateralDeltas, sizeDelta \in SizeDeltas :
               DecreasePosition(id, collateralDelta, sizeDelta)
        \/ LiquidatePosition(id)
  BY DEF PositionCall
<1>1. CollateralToken(id) \in Token
  BY DEF CollateralToken, Token
<1>2. /\ Deposits[CollateralToken(id)] \cup {0} \subseteq Nat
      /\ SizeDeltas \subseteq Nat /\ CollateralDeltas \subseteq Nat
  BY <1>1, VaultAssumption
<1>3. CASE \E sent \in Deposits[CollateralToken(id)] \cup {0}, sizeDelta \in SizeDeltas :
               IncreasePosition(id, sent, sizeDelta)
  BY <1>2, <1>3, IncreaseCovered DEF IncreasePosition
<1>4. CASE \E collateralDelta \in CollateralDeltas, sizeDelta \in SizeDeltas :
               DecreasePosition(id, collateralDelta, sizeDelta)
  BY <1>2, <1>4, DecreaseCovered DEF DecreasePosition
<1>5. CASE LiquidatePosition(id)
  BY <1>5, LiquidateOrCloseCovered DEF LiquidatePosition
<1> QED BY <1>3, <1>4, <1>5

\* A pool call.
LEMMA PoolCallCovered ==
    ASSUME Inv, Inv', Covered, PoolCall
    PROVE  Covered'
<1> PICK t \in Token :
        \/ \E sent \in Deposits[t] : DirectPoolDeposit(t, sent)
        \/ \E sent \in Deposits[t] : BuyUSDP(t, sent)
        \/ \E usdp \in UsdpAmounts : SellUSDP(t, usdp)
        \/ \E out \in Token, sent \in Deposits[t] : Swap(t, out, sent)
        \/ UpdateCumulativeFundingRate(t)
  BY DEF PoolCall
<1>1. Deposits[t] \subseteq Nat /\ UsdpAmounts \subseteq Nat
  BY VaultAssumption
<1>2. CASE \E sent \in Deposits[t] : DirectPoolDeposit(t, sent)
  BY <1>1, <1>2, DirectPoolDepositCovered
<1>3. CASE \E sent \in Deposits[t] : BuyUSDP(t, sent)
  BY <1>1, <1>3, BuyUSDPCovered
<1>4. CASE \E usdp \in UsdpAmounts : SellUSDP(t, usdp)
  BY <1>1, <1>4, RedeemCovered DEF SellUSDP
<1>5. CASE \E out \in Token, sent \in Deposits[t] : Swap(t, out, sent)
  BY <1>1, <1>5, SwapCovered
<1>6. CASE UpdateCumulativeFundingRate(t)
  BY <1>6, CoveredKept DEF UpdateCumulativeFundingRate, assetVars
<1> QED BY <1>2, <1>3, <1>4, <1>5, <1>6

\* Governance and the world outside.
LEMMA OtherCallCovered ==
    ASSUME Inv, Inv', Covered, GovCall \/ Environment \/ UNCHANGED vars
    PROVE  Covered'
<1>1. CASE \E t \in Token : WithdrawFees(t)
  BY <1>1, WithdrawFeesCovered
<1>2. CASE ~ \E t \in Token : WithdrawFees(t)
  <2>1. UNCHANGED <<tokenBalances, poolAmounts, feeReserves, positions, unbackedFees>>
    BY <1>2 DEF GovCall, SetUsdpAmount, SetIsLeverageEnabled, Environment, SendTokens,
                SetPrice, Tick, vars, assetVars
  <2> QED BY <2>1, CoveredKept
<1> QED BY <1>1, <1>2

\* At first there is nothing to cover.
LEMMA InitCovered == Init => Covered
<1> SUFFICES ASSUME Init PROVE Covered
  OBVIOUS
<1> DEFINE f == [i \in PositionId |-> positions[i].collateral]
<1>1. IsFiniteSet(Shorts) /\ Shorts \subseteq PositionId
  BY PositionIdFinite, FS_Subset DEF Shorts
<1>2. \A i \in Shorts : f[i] = 0
  BY <1>1 DEF Init, NoPosition
<1>3. ShortCollateral = Sum(f, Shorts)
  BY DEF ShortCollateral
<1> HIDE DEF f
<1>4. ShortCollateral = 0
  BY <1>1, <1>2, <1>3, SumZero
<1> QED BY <1>4 DEF Init, Covered, Surplus

\* The feed's quote of the stable token is strict when all it gives are.
LEMMA QuoteStrict ==
    ASSUME StrictStablePrices
    PROVE  /\ Init => StrictStableQuote
           /\ StrictStableQuote /\ Environment /\ Inv => StrictStableQuote'
<1>1. Init => StrictStableQuote
  BY DEF Init, StrictStablePrices, StrictStableQuote, MinPrice, MaxPrice, Token
<1>2. ASSUME StrictStableQuote, Environment, Inv PROVE StrictStableQuote'
  <2>1. CASE \E t \in Token : \E quote \in Prices[t] : SetPrice(t, quote)
    <3> PICK t \in Token : \E quote \in Prices[t] : SetPrice(t, quote)
      BY <2>1
    <3> PICK quote \in Prices[t] : SetPrice(t, quote)
      OBVIOUS
    <3>1. price' = [price EXCEPT ![t] = quote] /\ Stable \in DOMAIN price
      BY <1>2 DEF SetPrice, Inv, TypeOK, EnvOK, Token
    <3>2. t = Stable => quote[1] <= UNIT /\ UNIT <= quote[2]
      BY DEF StrictStablePrices
    <3> QED BY <1>2, <3>1, <3>2 DEF StrictStableQuote, MinPrice, MaxPrice
  <2>2. CASE UNCHANGED price
    BY <1>2, <2>2 DEF StrictStableQuote, MinPrice, MaxPrice
  <2> QED BY <1>2, <2>1, <2>2 DEF Environment, SendTokens, Tick, envVars
<1> QED BY <1>1, <1>2

\* The recorded balance never passes the real one.
LEMMA CoveredSolvent == Inv /\ Covered => Solvent
<1> SUFFICES ASSUME Inv, Covered, NEW t \in Token
             PROVE  balance[t] + (IF t = Stable THEN unbackedFees ELSE 0) >=
                        poolAmounts[t] + feeReserves[t]
                        + (IF t = Stable THEN ShortCollateral ELSE 0)
  BY DEF Solvent, ShortCollateral
<1>1. /\ balance[t] \in Nat /\ tokenBalances[t] \in Nat /\ tokenBalances[t] <= balance[t]
      /\ poolAmounts[t] \in Nat /\ feeReserves[t] \in Nat /\ unbackedFees \in Nat
      /\ ShortCollateral \in Int
  BY ShortCollateralInt DEF Inv, TypeOK, AssetsOK, EnvOK
<1>2. Surplus(t) >= 0
  BY DEF Covered
<1> QED BY <1>1, <1>2 DEF Surplus

\* Trades and calls of the vault leave the feed alone.
LEMMA TradePriceKept == PositionCall => UNCHANGED price
<1>1. ASSUME NEW id \in PositionId, NEW sent, NEW sizeDelta, IncreasePosition(id, sent, sizeDelta)
      PROVE  UNCHANGED price
  BY <1>1 DEF IncreasePosition, Increase, envVars
<1>2. ASSUME NEW id \in PositionId, NEW delta, NEW sizeDelta, Decrease(id, delta, sizeDelta)
      PROVE  UNCHANGED price
  BY <1>2 DEF Decrease, envVars
<1>3. ASSUME NEW id \in PositionId, Liquidate(id)
      PROVE  UNCHANGED price
  BY <1>3 DEF Liquidate, envVars
<1> QED BY <1>1, <1>2, <1>3, Zenon
        DEF PositionCall, DecreasePosition, LiquidatePosition, LiquidateOrClose

LEMMA PoolPriceKept == PoolCall => UNCHANGED price
<1>1. ASSUME NEW t \in Token, NEW sent, DirectPoolDeposit(t, sent)
      PROVE  UNCHANGED price
  BY <1>1 DEF DirectPoolDeposit, envVars
<1>2. ASSUME NEW t \in Token, NEW sent, BuyUSDP(t, sent)
      PROVE  UNCHANGED price
  BY <1>2 DEF BuyUSDP, envVars
<1>3. ASSUME NEW t \in Token, NEW usdp, SellUSDP(t, usdp)
      PROVE  UNCHANGED price
  BY <1>3 DEF SellUSDP, Redeem, envVars
<1>4. ASSUME NEW t \in Token, NEW out \in Token, NEW sent, Swap(t, out, sent)
      PROVE  UNCHANGED price
  BY <1>4 DEF Swap, envVars
<1>5. ASSUME NEW t \in Token, UpdateCumulativeFundingRate(t)
      PROVE  UNCHANGED price
  BY <1>5 DEF UpdateCumulativeFundingRate, envVars
<1> QED BY <1>1, <1>2, <1>3, <1>4, <1>5, Zenon DEF PoolCall

LEMMA GovPriceKept == GovCall => UNCHANGED price
BY DEF GovCall, WithdrawFees, SetUsdpAmount, SetIsLeverageEnabled, envVars

\* Only the feed changes the quotes.
LEMMA QuoteStrictKept ==
    ASSUME StrictStablePrices, StrictStableQuote, Inv, [Next]_vars
    PROVE  StrictStableQuote'
<1>1. CASE UNCHANGED price
  BY <1>1 DEF StrictStableQuote, MinPrice, MaxPrice
<1>2. CASE Environment
  BY <1>2, QuoteStrict
<1>3. UNCHANGED vars => UNCHANGED price
  BY DEF vars, envVars
<1> QED BY <1>1, <1>2, <1>3, PoolPriceKept, TradePriceKept, GovPriceKept DEF Next

\* For all amounts, fees, prices and roundings, if the feed's quotes of the stable token
\* are strict: the vault holds the pool, the fees and the collateral of the shorts, up to
\* what liquidations credited without backing.
THEOREM VaultSolvent == StrictStablePrices => (Spec => []Solvent)
<1> SUFFICES ASSUME StrictStablePrices PROVE Spec => []Solvent
  OBVIOUS
<1> DEFINE SolventInv == Inv /\ StrictStableQuote /\ Covered
<1>1. Init => SolventInv
  BY InitInv, InitCovered, QuoteStrict
<1>2. SolventInv /\ [Next]_vars => SolventInv'
  <2> SUFFICES ASSUME Inv, StrictStableQuote, Covered, [Next]_vars
               PROVE  Inv' /\ StrictStableQuote' /\ Covered'
    OBVIOUS
  <2>1. Inv'
    BY PoolCallInv, PositionCallInv, GovCallInv, EnvironmentInv, StutterInv DEF Next
  <2>2. Covered'
    BY <2>1, PoolCallCovered, PositionCallCovered, OtherCallCovered DEF Next
  <2> QED BY <2>1, <2>2, QuoteStrictKept
<1>3. SolventInv => Solvent
  BY CoveredSolvent
<1> HIDE DEF SolventInv
<1> QED BY <1>1, <1>2, <1>3, PTL DEF Spec

-----------------------------------------------------------------------------
(* A healthy position can be closed.                                       *)

\* What closing a healthy position pays: the collateral pays its loss and fees, and
\* something is left.
LEMMA CloseReduction ==
    ASSUME TypeOK, LiquidationFeeUsd > 0, NEW id \in PositionId, Healthy(id),
           NEW r, r = Reduction(id, positions[id], FundingRate(CollateralToken(id)), 0,
                                positions[id].size)
    PROVE  /\ r.fee \in Nat /\ r.profit \in Nat /\ r.loss \in Nat
           /\ r.kept = positions[id].collateral - r.loss
           /\ r.kept > r.fee
           /\ r.usdOut = r.profit + r.kept /\ r.usdOutAfterFee = r.usdOut - r.fee
           /\ r.fromOut /\ r.collateral = 0 /\ r.feeFromCollateral = 0
           /\ r.profit = IF HasProfit(id, positions[id]) THEN Delta(id, positions[id]) ELSE 0
           /\ r.profit > 0 => r.loss = 0
<1> USE DEF TypeOK
<1> DEFINE p == positions[id]
           rate == FundingRate(CollateralToken(id))
           fee == PositionFee(p.size) + FundingFee(p, rate)
           pnl == (p.size * Delta(id, p)) \div p.size
           profit == IF HasProfit(id, p) THEN pnl ELSE 0
           loss == IF HasProfit(id, p) THEN 0 ELSE pnl
           kept == p.collateral - loss - 0
           usdOut == profit + 0 + kept
           fromOut == usdOut > fee
<1>1. p \in Position /\ p.size \in Nat /\ p.collateral \in Nat /\ FundingFee(p, rate) \in Nat
  BY PositionFields
<1>2. p.size > 0 /\ p.averagePrice > 0 /\ LiquidationState(id, p, rate) = 0
  BY DEF Healthy
<1>3. PositionFee(p.size) \in Nat /\ LiquidationFeeUsd \in Nat
  BY <1>1, PositionFeeNat, VaultAssumption
<1>4. Delta(id, p) \in Nat
  BY <1>1, <1>2, DeltaNat
<1>5. /\ r.fee = fee /\ r.profit = profit /\ r.loss = loss /\ r.kept = kept
      /\ r.usdOut = usdOut /\ r.fromOut = fromOut
      /\ r.usdOutAfterFee = (IF fromOut THEN usdOut - fee ELSE usdOut)
      /\ r.feeFromCollateral = (IF fromOut THEN 0 ELSE fee)
      /\ r.collateral = (IF fromOut THEN 0 ELSE 0 - fee)
  BY DEF Reduction
<1>6. p.collateral - Loss(id, p) >= MarginFees(p, rate) + LiquidationFeeUsd
  <2> HIDE DEF p, rate
  <2>1. Loss(id, p) \in Nat /\ MarginFees(p, rate) \in Nat
    BY <1>1, <1>3, <1>4 DEF Loss, MarginFees
  <2>2. ~(p.collateral - Loss(id, p) < MarginFees(p, rate) + LiquidationFeeUsd)
    BY <1>2 DEF LiquidationState
  <2> QED BY <1>1, <1>3, <2>1, <2>2
<1> HIDE DEF p, rate
<1>7. pnl = Delta(id, p)
  <2> DEFINE d == Delta(id, p)
             s == p.size
  <2>1. d \in Nat /\ s \in Nat \ {0}
    BY <1>1, <1>2, <1>4
  <2> HIDE DEF d, s
  <2>2. s * d = d * s
    BY <2>1
  <2>3. (d * s) \div s = d
    BY <2>1, ShareOfAll
  <2>4. (s * d) \div s = d
    BY <2>2, <2>3
  <2> QED BY <2>4 DEF d, s
<1> HIDE DEF pnl
<1>8. loss = Loss(id, p) /\ profit = (IF HasProfit(id, p) THEN Delta(id, p) ELSE 0)
  BY <1>7 DEF Loss
<1>9. fee = MarginFees(p, rate) /\ fee \in Nat
  BY <1>1, <1>3 DEF MarginFees
<1>10. profit \in Nat /\ loss \in Nat /\ (profit > 0 => loss = 0)
  BY <1>4, <1>7
<1> HIDE DEF fee, profit, loss
<1>11. kept \in Int /\ kept = p.collateral - loss /\ kept > fee
  BY <1>1, <1>3, <1>6, <1>8, <1>9, <1>10
<1> HIDE DEF kept
<1>12. usdOut = profit + kept /\ fromOut
  BY <1>9, <1>10, <1>11
<1> HIDE DEF usdOut, fromOut
<1> QED BY <1>5, <1>8, <1>9, <1>10, <1>11, <1>12 DEF p

\* The position's own reserve and guarantee are within the totals, and a short's
\* collateral within that of all.
LEMMA WithinTotals ==
    ASSUME Inv, Totals, NEW id \in PositionId
    PROVE  /\ positions[id].reserveAmount <= reservedAmounts[CollateralToken(id)]
           /\ IsLong(id) => positions[id].size - positions[id].collateral <= guaranteedUsd
           /\ ~IsLong(id) => positions[id].collateral <= ShortCollateral
<1> USE DEF Inv, TypeOK
<1> DEFINE t == CollateralToken(id)
           same == {i \in PositionId : CollateralToken(i) = t}
           res == [i \in PositionId |-> positions[i].reserveAmount]
           gua == [i \in PositionId |-> positions[i].size - positions[i].collateral]
           col == [i \in PositionId |-> positions[i].collateral]
<1>1. IsFiniteSet(same) /\ id \in same /\ same \subseteq PositionId /\ t \in Token
  BY PositionIdFinite, FS_Subset DEF CollateralToken, Token
<1>2. /\ IsFiniteSet(Longs) /\ Longs \subseteq PositionId
      /\ IsFiniteSet(Shorts) /\ Shorts \subseteq PositionId
      /\ (IsLong(id) => id \in Longs) /\ (~IsLong(id) => id \in Shorts)
  BY PositionIdFinite, FS_Subset DEF Shorts, Longs
<1>3. \A i \in PositionId : /\ positions[i].reserveAmount \in Nat
                            /\ positions[i].collateral \in Nat
                            /\ positions[i].size - positions[i].collateral \in Nat
  <2> TAKE i \in PositionId
  <2>1. positions[i] \in Position /\ positions[i].size >= positions[i].collateral
    BY DEF PositionsOK
  <2> QED BY <2>1 DEF Position
<1>4. /\ res[id] = positions[id].reserveAmount
      /\ gua[id] = positions[id].size - positions[id].collateral
      /\ col[id] = positions[id].collateral
      /\ \A i \in PositionId : res[i] \in Nat /\ gua[i] \in Nat /\ col[i] \in Nat
  BY <1>3
<1>5. reservedAmounts[t] = Sum(res, same)
  BY <1>1 DEF Totals, ReservedMatches
<1>6. guaranteedUsd = Sum(gua, Longs)
  BY DEF Totals, GuaranteedMatches
<1>7. ShortCollateral = Sum(col, Shorts)
  BY DEF ShortCollateral
<1> HIDE DEF res, gua, col, same
<1>8. res[id] <= Sum(res, same)
  BY <1>1, <1>4, SumNat
<1>9. IsLong(id) => gua[id] <= Sum(gua, Longs)
  <2> HAVE IsLong(id)
  <2>1. id \in Longs /\ \A i \in Longs : gua[i] \in Nat
    BY <1>2, <1>4
  <2> QED BY <1>2, <2>1, SumNat
<1>10. ~IsLong(id) => col[id] <= Sum(col, Shorts)
  <2> HAVE ~IsLong(id)
  <2>1. id \in Shorts /\ \A i \in Shorts : col[i] \in Nat
    BY <1>2, <1>4
  <2> QED BY <1>2, <2>1, SumNat
<1> QED BY <1>4, <1>5, <1>6, <1>7, <1>8, <1>9, <1>10

\* A larger amount converts to no less.
LEMMA ConversionMonotone ==
    ASSUME EnvOK, NEW t \in Token, NEW a \in Nat, NEW b \in Nat, a <= b
    PROVE  UsdToTokenMin(t, a) <= UsdToTokenMin(t, b)
<1>1. MaxPrice(t) \in Nat \ {0} /\ UNIT \in Nat \ {0}
  BY PriceNat, VaultAssumption
<1>2. a * UNIT \in Nat /\ b * UNIT \in Nat /\ a * UNIT <= b * UNIT
  BY <1>1, ProductMonotone
<1> QED BY <1>1, <1>2, DivMonotone DEF UsdToTokenMin

\* Closing a healthy long: its reserve pays, and the pool keeps what the others reserved.
LEMMA LongCloses ==
    ASSUME Inv, Totals, Covered, LiquidationFeeUsd > 0, NEW id \in PositionId,
           Healthy(id), ReserveCovers(id), IsLong(id)
    PROVE  CanDecrease(id, 0, positions[id].size)
<1> USE DEF Inv, TypeOK
<1> DEFINE t == CollateralToken(id)
           rate == FundingRate(t)
           p == positions[id]
           r == Reduction(id, p, rate, 0, p.size)
           paid == UsdToTokenMin(t, r.usdOut)
           payout == UsdToTokenMin(t, r.usdOutAfterFee)
<1>1. /\ p.size \in Nat /\ p.collateral \in Nat /\ p.reserveAmount \in Nat /\ t \in Token
      /\ p.size >= p.collateral
  BY PositionFields
<1>2. p.size > 0 /\ p.averagePrice > 0
  BY DEF Healthy
<1>3. /\ r.fee \in Nat /\ r.profit \in Nat /\ r.loss \in Nat
      /\ r.kept = p.collateral - r.loss /\ r.kept > r.fee
      /\ r.usdOut = r.profit + r.kept /\ r.usdOutAfterFee = r.usdOut - r.fee
      /\ r.fromOut /\ r.collateral = 0 /\ r.feeFromCollateral = 0
  BY CloseReduction
<1>4. t = Index
  BY DEF CollateralToken
<1>5. paid <= p.reserveAmount
  BY DEF ReserveCovers, PaidByPool
<1> HIDE DEF r
<1>6. r.usdOut \in Nat /\ r.usdOutAfterFee \in Nat /\ r.usdOutAfterFee <= r.usdOut
  BY <1>1, <1>3
<1>7. paid \in Nat /\ payout \in Nat /\ payout <= paid /\ UsdToTokenMin(Index, 0) = 0
  BY <1>1, <1>4, <1>6, ConversionNat, ConversionMonotone, ConversionZero
<1>8. p.reserveAmount <= reservedAmounts[t] /\ p.size - p.collateral <= guaranteedUsd
  BY WithinTotals
<1>9. /\ poolAmounts[t] \in Nat /\ reservedAmounts[t] \in Nat /\ balance[t] \in Nat
      /\ guaranteedUsd \in Nat /\ reservedAmounts[t] <= poolAmounts[t]
  BY <1>1 DEF AssetsOK, TotalsOK, ReservedBacked
<1>10. poolAmounts[t] <= balance[t]
  <2>1. Surplus(t) >= 0 /\ t # Stable
    BY <1>1, <1>4, VaultAssumption DEF Covered
  <2>2. feeReserves[t] \in Nat /\ tokenBalances[t] \in Nat /\ tokenBalances[t] <= balance[t]
    BY <1>1 DEF AssetsOK
  <2> QED BY <1>9, <2>1, <2>2 DEF Surplus
<1>11. FreedReserve(p, p.size) = p.reserveAmount
  <2> HIDE DEF p
  <2> QED BY <1>1, <1>2, ShareOfAll DEF FreedReserve
<1>12. PoolAfterFee(id, r) = poolAmounts[t] /\ PoolAfterPayout(id, r) = poolAmounts[t] - paid
  BY <1>3, <1>4, <1>7, <1>9 DEF PoolAfterPayout, PoolAfterFee, PoolAfterPnl
<1> HIDE DEF paid, payout, t, rate, p
<1>13. /\ p.collateral >= 0 /\ p.collateral >= r.loss /\ r.kept >= 0 /\ r.collateral >= 0
       /\ PoolAfterPayout(id, r) >= 0
       /\ ReserveHolds(reservedAmounts[t] - FreedReserve(p, p.size), PoolAfterPayout(id, r))
       /\ guaranteedUsd + (p.collateral - 0) >= p.size
       /\ payout <= balance[t]
       /\ FreedReserve(p, p.size) <= reservedAmounts[t]
  BY <1>1, <1>3, <1>5, <1>7, <1>8, <1>9, <1>10, <1>11, <1>12 DEF ReserveHolds
<1> QED BY <1>1, <1>2, <1>3, <1>13 DEF CanDecrease, r, p, t, rate, payout

\* Closing a healthy short: its reserve pays the profit; the loss and the rest of the
\* payment come from its collateral, which the vault holds when no fees are unbacked.
LEMMA ShortCloses ==
    ASSUME Inv, Totals, Covered, StrictStableQuote, LiquidationFeeUsd > 0,
           NEW id \in PositionId, Healthy(id), ReserveCovers(id), ~IsLong(id), unbackedFees = 0
    PROVE  CanDecrease(id, 0, positions[id].size)
<1> USE DEF Inv, TypeOK
<1> DEFINE t == CollateralToken(id)
           rate == FundingRate(t)
           p == positions[id]
           r == Reduction(id, p, rate, 0, p.size)
           gained == UsdToTokenMin(t, r.profit)
           lost == UsdToTokenMin(t, r.loss)
           payout == UsdToTokenMin(t, r.usdOutAfterFee)
<1>1. /\ p.size \in Nat /\ p.collateral \in Nat /\ p.reserveAmount \in Nat /\ t \in Token
  BY PositionFields
<1>2. p.size > 0 /\ p.averagePrice > 0
  BY DEF Healthy
<1>3. /\ r.fee \in Nat /\ r.profit \in Nat /\ r.loss \in Nat
      /\ r.kept = p.collateral - r.loss /\ r.kept > r.fee
      /\ r.usdOut = r.profit + r.kept /\ r.usdOutAfterFee = r.usdOut - r.fee
      /\ r.fromOut /\ r.collateral = 0
      /\ r.profit > 0 => r.loss = 0
  BY CloseReduction
<1>4. t = Stable
  BY DEF CollateralToken
<1>5. gained <= p.reserveAmount
  BY DEF ReserveCovers, PaidByPool
<1> HIDE DEF r
<1>6. /\ r.kept - r.fee \in Nat /\ r.kept - r.fee <= p.collateral /\ r.loss <= p.collateral
      /\ r.usdOutAfterFee = r.profit + (r.kept - r.fee)
  BY <1>1, <1>3
<1>7. gained \in Nat /\ lost \in Nat /\ lost <= r.loss
  BY <1>1, <1>3, <1>4, ConversionNat, StableConversion
<1>8. payout <= gained + (r.kept - r.fee) /\ payout \in Nat
  <2>1. r.profit + (r.kept - r.fee) \in Nat
    BY <1>3, <1>6
  <2> QED BY <1>1, <1>3, <1>4, <1>6, <2>1, ConversionNat, StableConversion
<1>9. r.profit > 0 => lost = 0
  BY <1>1, <1>3, ConversionZero
<1>10. p.reserveAmount <= reservedAmounts[t] /\ p.collateral <= ShortCollateral
  BY WithinTotals
<1>11. /\ poolAmounts[t] \in Nat /\ reservedAmounts[t] \in Nat /\ balance[t] \in Nat
       /\ reservedAmounts[t] <= poolAmounts[t]
  BY <1>1 DEF AssetsOK, ReservedBacked
<1>12. poolAmounts[t] + p.collateral <= balance[t]
  <2>1. Surplus(t) >= 0
    BY <1>1 DEF Covered
  <2>2. feeReserves[t] \in Nat /\ tokenBalances[t] \in Nat /\ tokenBalances[t] <= balance[t]
    BY <1>1 DEF AssetsOK
  <2>3. ShortCollateral \in Int
    BY ShortCollateralInt
  <2> HIDE DEF p
  <2> QED BY <1>1, <1>4, <1>10, <1>11, <2>1, <2>2, <2>3 DEF Surplus
<1>13. FreedReserve(p, p.size) = p.reserveAmount
  <2> HIDE DEF p
  <2> QED BY <1>1, <1>2, ShareOfAll DEF FreedReserve
<1>14. /\ PoolAfterPnl(id, r) = poolAmounts[t] - gained + lost
       /\ PoolAfterPayout(id, r) = poolAmounts[t] - gained + lost
  <2>1. PoolAfterPnl(id, r) = poolAmounts[t] - gained + lost
    BY DEF PoolAfterPnl
  <2> HIDE DEF gained, lost, t
  <2> QED BY <1>7, <1>11, <2>1 DEF PoolAfterPayout, PoolAfterFee
<1> HIDE DEF gained, lost, payout, t, rate, p
<1>15. /\ p.collateral >= 0 /\ p.collateral >= r.loss /\ r.kept >= 0 /\ r.collateral >= 0
       /\ FreedReserve(p, p.size) <= reservedAmounts[t]
  BY <1>1, <1>3, <1>6, <1>10, <1>13
<1>16. /\ PoolAfterPayout(id, r) >= 0
       /\ ReserveHolds(reservedAmounts[t] - FreedReserve(p, p.size), PoolAfterPnl(id, r))
  BY <1>1, <1>5, <1>7, <1>10, <1>11, <1>13, <1>14 DEF ReserveHolds
<1>17. r.loss > 0 => PoolAfterPnl(id, r) <= balance[t]
  BY <1>1, <1>3, <1>6, <1>7, <1>11, <1>12, <1>14
<1>18. payout <= balance[t]
  BY <1>1, <1>3, <1>5, <1>6, <1>7, <1>8, <1>10, <1>11, <1>12
<1> QED BY <1>1, <1>2, <1>15, <1>16, <1>17, <1>18 DEF CanDecrease, r, p, t, rate, payout

\* What a share b / c of an amount leaves of it is no less than what it leaves of c, when
\* the amount is no less than c.
LEMMA ShareLeaves ==
    ASSUME NEW a \in Nat, NEW b \in Nat, NEW c \in Nat \ {0}, b <= c, c <= a
    PROVE  c - b <= a - (a * b) \div c
<1> DEFINE q == (a * b) \div c
<1>1. a * b \in Nat
  OBVIOUS
<1>2. q \in Nat /\ c * q <= a * b
  BY <1>1, DivNat
<1> HIDE DEF q
<1>3. (a - c) * (c - b) \in Nat
  <2>1. a - c \in Nat /\ c - b \in Nat
    OBVIOUS
  <2> QED BY <2>1
<1>4. a * b <= c * (a - c + b)
  <2>1. c * (a - c + b) - a * b = (a - c) * (c - b)
    OBVIOUS
  <2>2. c * (a - c + b) \in Int
    OBVIOUS
  <2> QED BY <1>1, <1>3, <2>1, <2>2
<1>5. ASSUME a - c + b < q PROVE FALSE
  <2>1. a - c + b + 1 <= q /\ a - c + b \in Nat
    BY <1>2, <1>5
  <2>2. c * (a - c + b + 1) <= c * q
    BY <1>2, <2>1
  <2>3. c * (a - c + b + 1) = c * (a - c + b) + c
    OBVIOUS
  <2>4. c * (a - c + b) \in Int /\ c * q \in Int
    BY <1>2
  <2> QED BY <1>1, <1>2, <1>4, <2>2, <2>3, <2>4
<1>6. q <= a - c + b
  BY <1>2, <1>5
<1> QED BY <1>2, <1>6 DEF q

\* The reserve of a short is at least its size.
ShortsReserved == \A id \in Shorts : positions[id].reserveAmount >= positions[id].size

\* A step that leaves a short alone, or leaves it reserved.
LEMMA ShortsReservedStep ==
    ASSUME PositionsOK, ShortsReserved, NEW id \in PositionId, NEW q,
           positions' = [positions EXCEPT ![id] = q],
           ~IsLong(id) => q.reserveAmount >= q.size
    PROVE  ShortsReserved'
<1> SUFFICES ASSUME NEW i \in Shorts PROVE positions'[i].reserveAmount >= positions'[i].size
  BY DEF ShortsReserved, Shorts, Longs, PositionId, IsLong
<1>1. i \in PositionId /\ ~IsLong(i) /\ id \in DOMAIN positions
  BY DEF Shorts, Longs, PositionsOK
<1>2. CASE i = id
  BY <1>1, <1>2
<1>3. CASE i # id
  BY <1>1, <1>3 DEF ShortsReserved
<1> QED BY <1>2, <1>3

\* At a strict quote the tokens reserved for a size are no fewer than its dollars.
LEMMA StableReserve ==
    ASSUME EnvOK, StrictStableQuote, NEW a \in Nat
    PROVE  UsdToTokenMax(Stable, a) >= a
<1> DEFINE l == MinPrice(Stable)
<1>1. l \in Nat \ {0} /\ UNIT \in Nat \ {0} /\ l <= UNIT
  BY PriceNat, VaultAssumption DEF StrictStableQuote, Token
<1> HIDE DEF l
<1>2. a * UNIT \in Nat /\ l * a <= a * UNIT
  <2>1. l * a <= UNIT * a
    BY <1>1, ProductMonotone
  <2> QED BY <1>1, <2>1
<1>3. a <= (a * UNIT) \div l
  BY <1>1, <1>2, DivAtLeast
<1>4. (a * UNIT) \div l \in Int
  BY <1>1, <1>2, DivBounds
<1> QED BY <1>3, <1>4 DEF l, UsdToTokenMax

\* increasePosition reserves the size it adds.
LEMMA IncreaseReserves ==
    ASSUME Inv, ShortsReserved, StrictStableQuote, NEW id \in PositionId, NEW sent \in Nat,
           NEW sizeDelta \in Nat, Increase(id, sent, sizeDelta)
    PROVE  ShortsReserved'
<1> USE DEF Inv, TypeOK
<1> DEFINE p == positions[id]
           t == CollateralToken(id)
           rate == FundingRate(t)
           entryPrice == IF IsLong(id) THEN MaxPrice(Index) ELSE MinPrice(Index)
           fee == PositionFee(sizeDelta) + FundingFee(p, rate)
           collateralUsd == TokenToUsdMin(t, Received(t, sent))
           reserveDelta == UsdToTokenMax(t, sizeDelta)
           q == [size |-> p.size + sizeDelta,
                 collateral |-> p.collateral + collateralUsd - fee,
                 averagePrice |-> NextAveragePrice(id, p, entryPrice, sizeDelta),
                 entryFundingRate |-> rate,
                 reserveAmount |-> p.reserveAmount + reserveDelta,
                 lastIncreasedTime |-> now]
<1>1. /\ positions' = [positions EXCEPT ![id] = q]
      /\ q.size = p.size + sizeDelta /\ q.reserveAmount = p.reserveAmount + reserveDelta
  BY DEF Increase
<1> HIDE DEF q
<1>2. p.size \in Nat /\ p.reserveAmount \in Nat /\ t \in Token
  BY PositionFields
<1>3. ASSUME ~IsLong(id) PROVE q.reserveAmount >= q.size
  <2>1. t = Stable
    BY <1>3 DEF CollateralToken
  <2>2. reserveDelta >= sizeDelta /\ reserveDelta \in Nat
    BY <1>2, <2>1, StableReserve, ConversionNat
  <2>3. p.reserveAmount >= p.size
    BY <1>3 DEF ShortsReserved, Shorts, Longs
  <2> HIDE DEF p, reserveDelta
  <2> QED BY <1>1, <1>2, <2>2, <2>3
<1> QED BY <1>1, <1>3, ShortsReservedStep

\* A decrease frees a share of the reserve, rounded down.
LEMMA DecreaseReserves ==
    ASSUME Inv, ShortsReserved, NEW id \in PositionId, NEW collateralDelta \in Nat,
           NEW sizeDelta \in Nat, Decrease(id, collateralDelta, sizeDelta)
    PROVE  ShortsReserved'
<1> USE DEF Inv, TypeOK
<1> DEFINE p == positions[id]
           t == CollateralToken(id)
           rate == FundingRate(t)
           r == Reduction(id, p, rate, collateralDelta, sizeDelta)
           q == IF p.size = sizeDelta THEN NoPosition ELSE Decreased(p, r, rate, sizeDelta)
<1>1. /\ p.size > 0 /\ p.size >= sizeDelta
      /\ positions' = [positions EXCEPT ![id] = q]
  BY DEF Decrease, CanDecrease
<1>2. p \in Position /\ p.size \in Nat /\ p.reserveAmount \in Nat
  BY PositionFields
<1> HIDE DEF r, rate
<1>3. ASSUME ~IsLong(id) PROVE q.reserveAmount >= q.size
  <2>1. p.reserveAmount >= p.size
    BY <1>3 DEF ShortsReserved, Shorts, Longs
  <2>2. CASE p.size = sizeDelta
    BY <2>2 DEF NoPosition
  <2>3. CASE p.size # sizeDelta
    <3>1. q.size = p.size - sizeDelta /\ q.reserveAmount = p.reserveAmount - FreedReserve(p, sizeDelta)
      BY <1>2, <2>3 DEF Position, Decreased
    <3> HIDE DEF p, q
    <3>2. p.size - sizeDelta <= p.reserveAmount - FreedReserve(p, sizeDelta)
      BY <1>1, <1>2, <2>1, ShareLeaves DEF FreedReserve
    <3>3. FreedReserve(p, sizeDelta) \in Int
      BY <1>1, <1>2, ShareAtMost DEF FreedReserve
    <3> QED BY <1>2, <3>1, <3>2, <3>3
  <2> QED BY <2>2, <2>3
<1> HIDE DEF q
<1> QED BY <1>1, <1>3, ShortsReservedStep

\* A liquidation drops the position, or closes it.
LEMMA LiquidationReserves ==
    ASSUME Inv, ShortsReserved, NEW id \in PositionId, LiquidateOrClose(id)
    PROVE  ShortsReserved'
<1> USE DEF Inv, TypeOK
<1>1. CASE Liquidate(id)
  <2>1. positions' = [positions EXCEPT ![id] = NoPosition]
    BY <1>1 DEF Liquidate
  <2>2. NoPosition.reserveAmount >= NoPosition.size
    BY DEF NoPosition
  <2> QED BY <2>1, <2>2, ShortsReservedStep
<1>2. CASE Decrease(id, 0, positions[id].size)
  <2>1. positions[id].size \in Nat
    BY PositionFields
  <2> QED BY <1>2, <2>1, DecreaseReserves
<1> QED BY <1>1, <1>2 DEF LiquidateOrClose

\* The pool's calls leave every position alone.
LEMMA PoolPositionsKept == PoolCall => UNCHANGED positions
<1>1. ASSUME NEW t, NEW sent, DirectPoolDeposit(t, sent) PROVE UNCHANGED positions
  BY <1>1 DEF DirectPoolDeposit
<1>2. ASSUME NEW t, NEW sent, BuyUSDP(t, sent) PROVE UNCHANGED positions
  BY <1>2 DEF BuyUSDP
<1>3. ASSUME NEW t, NEW usdp, SellUSDP(t, usdp) PROVE UNCHANGED positions
  BY <1>3 DEF SellUSDP, Redeem
<1>4. ASSUME NEW in, NEW out, NEW sent, Swap(in, out, sent) PROVE UNCHANGED positions
  BY <1>4 DEF Swap
<1>5. ASSUME NEW t, UpdateCumulativeFundingRate(t) PROVE UNCHANGED positions
  BY <1>5 DEF UpdateCumulativeFundingRate
<1> QED BY <1>1, <1>2, <1>3, <1>4, <1>5 DEF PoolCall

\* Every step keeps the shorts reserved.
LEMMA ShortsReservedKept ==
    ASSUME Inv, ShortsReserved, StrictStableQuote, [Next]_vars
    PROVE  ShortsReserved'
<1>1. CASE PositionCall
  <2> PICK id \in PositionId :
        \/ \E sent \in Deposits[CollateralToken(id)] \cup {0}, sizeDelta \in SizeDeltas :
               IncreasePosition(id, sent, sizeDelta)
        \/ \E collateralDelta \in CollateralDeltas, sizeDelta \in SizeDeltas :
               DecreasePosition(id, collateralDelta, sizeDelta)
        \/ LiquidatePosition(id)
    BY <1>1 DEF PositionCall
  <2>1. CollateralToken(id) \in Token
    BY DEF CollateralToken, Token
  <2>2. /\ Deposits[CollateralToken(id)] \cup {0} \subseteq Nat
        /\ SizeDeltas \subseteq Nat /\ CollateralDeltas \subseteq Nat
    BY <2>1, VaultAssumption
  <2>3. CASE \E sent \in Deposits[CollateralToken(id)] \cup {0}, sizeDelta \in SizeDeltas :
                 IncreasePosition(id, sent, sizeDelta)
    BY <2>2, <2>3, IncreaseReserves DEF IncreasePosition
  <2>4. CASE \E collateralDelta \in CollateralDeltas, sizeDelta \in SizeDeltas :
                 DecreasePosition(id, collateralDelta, sizeDelta)
    BY <2>2, <2>4, DecreaseReserves DEF DecreasePosition
  <2>5. CASE LiquidatePosition(id)
    BY <2>5, LiquidationReserves DEF LiquidatePosition
  <2> QED BY <2>3, <2>4, <2>5
<1>2. CASE PoolCall
  <2>1. UNCHANGED positions
    BY <1>2, PoolPositionsKept
  <2> QED BY <2>1 DEF ShortsReserved, Shorts, Longs, PositionId, IsLong
<1>3. CASE GovCall \/ Environment \/ UNCHANGED vars
  <2>1. UNCHANGED positions
    BY <1>3 DEF GovCall, WithdrawFees, SetUsdpAmount, SetIsLeverageEnabled, Environment,
                SendTokens, SetPrice, Tick, vars, assetVars
  <2> QED BY <2>1 DEF ShortsReserved, Shorts, Longs, PositionId, IsLong
<1> QED BY <1>1, <1>2, <1>3 DEF Next

\* What the pool pays a healthy short is at most its size, so its reserve covers it.
LEMMA ShortCovered ==
    ASSUME Inv, ShortsReserved, StrictStableQuote, LiquidationFeeUsd > 0,
           NEW id \in PositionId, ~IsLong(id), Healthy(id)
    PROVE  ReserveCovers(id)
<1> USE DEF Inv, TypeOK
<1> DEFINE p == positions[id]
           t == CollateralToken(id)
           r == Reduction(id, p, FundingRate(t), 0, p.size)
<1>1. /\ p \in Position /\ p.size \in Nat /\ p.averagePrice \in Nat /\ p.reserveAmount \in Nat
      /\ t = Stable
  BY PositionFields DEF CollateralToken
<1>2. p.averagePrice > 0
  BY DEF Healthy
<1>3. r.profit \in Nat /\ r.profit = IF HasProfit(id, p) THEN Delta(id, p) ELSE 0
  BY CloseReduction
<1>4. p.reserveAmount >= p.size
  BY DEF ShortsReserved, Shorts, Longs
<1> HIDE DEF r, p
<1>5. HasProfit(id, p) => Delta(id, p) <= p.size
  <2> HAVE HasProfit(id, p)
  <2> DEFINE e == ExitPrice(id)
             d == (p.size * Distance(p.averagePrice, e)) \div p.averagePrice
  <2>1. e \in Nat /\ e < p.averagePrice
    BY PriceNat DEF HasProfit, ExitPrice, Token
  <2> HIDE DEF e
  <2>2. Distance(p.averagePrice, e) \in Nat /\ Distance(p.averagePrice, e) <= p.averagePrice
    BY <1>1, <2>1 DEF Distance
  <2>3. d \in 0..p.size
    BY <1>1, <1>2, <2>2, ShareAtMost
  <2>4. Delta(id, p) = d \/ Delta(id, p) = 0
    BY DEF Delta, e
  <2> HIDE DEF d
  <2> QED BY <1>1, <2>3, <2>4
<1>6. r.profit <= p.size
  BY <1>1, <1>3, <1>5
<1>7. UsdToTokenMin(t, r.profit) <= r.profit /\ UsdToTokenMin(t, r.profit) \in Nat
  BY <1>1, <1>3, StableConversion, ConversionNat DEF Token
<1>8. PaidByPool(id) = UsdToTokenMin(t, r.profit)
  BY DEF PaidByPool, r, p
<1>9. PaidByPool(id) <= p.reserveAmount
  BY <1>1, <1>3, <1>4, <1>6, <1>7, <1>8
<1> QED BY <1>9 DEF ReserveCovers, p

\* Solvency with the totals and the reserves of the shorts is inductive.
ClosingInv == Inv /\ Totals /\ StrictStableQuote /\ Covered /\ ShortsReserved

LEMMA ClosingInvHolds == StrictStablePrices => (Spec => []ClosingInv)
<1> SUFFICES ASSUME StrictStablePrices PROVE Spec => []ClosingInv
  OBVIOUS
<1>1. Init => ClosingInv
  <2> HAVE Init
  <2>1. \A id \in Shorts : positions[id] = NoPosition
    BY DEF Init, Shorts
  <2>2. ShortsReserved
    BY <2>1 DEF ShortsReserved, NoPosition
  <2> QED BY <2>2, InitInv, InitTotals, InitCovered, QuoteStrict DEF ClosingInv
<1>2. ClosingInv /\ [Next]_vars => ClosingInv'
  <2> SUFFICES ASSUME Inv, Totals, StrictStableQuote, Covered, ShortsReserved, [Next]_vars
               PROVE  ClosingInv'
    BY DEF ClosingInv
  <2>1. Inv' /\ Totals'
    BY StepTotals
  <2>2. Covered'
    BY <2>1, PoolCallCovered, PositionCallCovered, OtherCallCovered DEF Next
  <2>3. StrictStableQuote' /\ ShortsReserved'
    BY QuoteStrictKept, ShortsReservedKept
  <2> QED BY <2>1, <2>2, <2>3 DEF ClosingInv
<1> QED BY <1>1, <1>2, PTL DEF Spec

\* Whatever the others traded, redeemed or lost, the owner of a healthy position can close
\* it when its reserve covers the payment: no check of the pool, the reserve, the guarantee
\* or the balance stands in the way.  The liquidation fee must be positive, or a position
\* worth exactly its fees cannot pay them.
THEOREM ClosesHealthy ==
    StrictStablePrices /\ LiquidationFeeUsd > 0 => (Spec => []HealthyCanClose)
<1> SUFFICES ASSUME StrictStablePrices, LiquidationFeeUsd > 0 PROVE Spec => []HealthyCanClose
  OBVIOUS
<1>1. ClosingInv => HealthyCanClose
  BY LongCloses, ShortCloses DEF ClosingInv, HealthyCanClose
<1> QED BY <1>1, ClosingInvHolds, PTL

\* For the shorts the reserve always covers the payment: a short gains at most its size, and
\* at a strict quote its reserve is at least that, however it was built up and reduced.
THEOREM ShortReservesCover ==
    StrictStablePrices /\ LiquidationFeeUsd > 0 =>
        (Spec => [](\A id \in Shorts : Healthy(id) => ReserveCovers(id)))
<1> SUFFICES ASSUME StrictStablePrices, LiquidationFeeUsd > 0
             PROVE  Spec => [](\A id \in Shorts : Healthy(id) => ReserveCovers(id))
  OBVIOUS
<1>1. ClosingInv => \A id \in Shorts : Healthy(id) => ReserveCovers(id)
  BY ShortCovered DEF ClosingInv, Shorts, Longs
<1> QED BY <1>1, ClosingInvHolds, PTL
=============================================================================
