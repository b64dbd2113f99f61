----------------------------- MODULE FeedProofs -----------------------------
(* Theorems about FastPriceFeed and VaultPriceFeed, for every value of their *)
(* constants: any tokens, watchers, prices, settings and bounds of time.     *)
EXTENDS VaultPriceFeed, FiniteSetTheorems, WellFoundedInduction, TLAPS

-----------------------------------------------------------------------------
(* Arithmetic.                                                              *)

\* Solidity's division.
LEMMA Division ==
    ASSUME NEW a \in Nat, NEW c \in Nat \ {0}
    PROVE  a \div c \in Nat /\ c * (a \div c) <= a /\ a < c * (a \div c) + c
OBVIOUS

\* A quotient is at least n when the dividend is at least n times the divisor.
LEMMA QuotientAtLeast ==
    ASSUME NEW a \in Nat, NEW c \in Nat \ {0}, NEW n \in Nat, c * n <= a
    PROVE  n <= a \div c
<1> DEFINE q == a \div c
<1>1. q \in Nat /\ a < c * q + c
  BY Division
<1>2. ASSUME n > q PROVE FALSE
  <2>1. n >= q + 1
    BY <1>1, <1>2
  <2>2. c * n >= c * (q + 1)
    BY <1>1, <2>1
  <2>3. c * (q + 1) = c * q + c
    BY <1>1
  <2> HIDE DEF q
  <2> QED BY <1>1, <2>2, <2>3
<1> HIDE DEF q
<1>3. n <= q
  BY <1>1, <1>2
<1> QED BY <1>3 DEF q

\* A scaled price keeps the order of the prices.
LEMMA ScaledMonotone ==
    ASSUME NEW a \in Nat, NEW b \in Nat, a <= b, NEW k \in Nat, NEW c \in Nat \ {0}
    PROVE  (a * k) \div c <= (b * k) \div c
<1> DEFINE q == (a * k) \div c
<1>1. a * k \in Nat /\ b * k \in Nat /\ a * k <= b * k
  OBVIOUS
<1>2. q \in Nat /\ c * q <= a * k
  BY <1>1, Division
<1>3. c * q <= b * k
  <2> HIDE DEF q
  <2>1. c * q \in Nat
    BY <1>2
  <2> QED BY <1>1, <1>2, <2>1
<1> HIDE DEF q
<1>4. q <= (b * k) \div c
  BY <1>1, <1>2, <1>3, QuotientAtLeast
<1> QED BY <1>4 DEF q

\* A spread widens the quote, down for the lower price and up for the higher.
LEMMA SpreadAround ==
    ASSUME NEW price \in Nat, NEW bps \in 0..BPS
    PROVE  /\ Spread(price, bps, FALSE) \in 0..price
           /\ Spread(price, bps, TRUE) \in Nat /\ price <= Spread(price, bps, TRUE)
<1>1. BPS \in Nat \ {0}
  BY FastPriceFeedAssumption
<1>2. (price * BPS) \div BPS = price
  <2>1. price <= (price * BPS) \div BPS
    BY <1>1, QuotientAtLeast
  <2>2. BPS * ((price * BPS) \div BPS) <= BPS * price /\ (price * BPS) \div BPS \in Nat
    BY <1>1, Division
  <2>3. ASSUME (price * BPS) \div BPS >= price + 1 PROVE FALSE
    <3> DEFINE q == (price * BPS) \div BPS
    <3>1. BPS * q >= BPS * (price + 1) 
      <4> HIDE DEF q
      <4> QED BY <1>1, <2>2, <2>3 DEF q
    <3>2. BPS * (price + 1) = BPS * price + BPS
      BY <1>1
    <3> QED BY <1>1, <2>2, <3>1, <3>2
  <2> QED BY <2>1, <2>2, <2>3
<1>3. BPS - bps \in Nat /\ BPS + bps \in Nat /\ BPS - bps <= BPS /\ BPS <= BPS + bps
  BY <1>1
<1>4. (price * (BPS - bps)) \div BPS <= (price * BPS) \div BPS
  BY <1>1, <1>3, ScaledMonotone
<1>5. (price * BPS) \div BPS <= (price * (BPS + bps)) \div BPS
  BY <1>1, <1>3, ScaledMonotone
<1>6. (price * (BPS - bps)) \div BPS \in Nat /\ (price * (BPS + bps)) \div BPS \in Nat
  <2>1. price * (BPS - bps) \in Nat /\ price * (BPS + bps) \in Nat
    BY <1>3
  <2> QED BY <1>1, <2>1, Division
<1> QED BY <1>2, <1>4, <1>5, <1>6 DEF Spread

-----------------------------------------------------------------------------
(* The primary price.                                                       *)

\* A set of natural numbers has a least element.
LEMMA LeastNatural ==
    ASSUME NEW S \in SUBSET Nat, S # {}
    PROVE  \E n \in S : \A m \in S : n <= m
<1>1. IsWellFoundedOn(OpToRel(<, Nat), Nat)
  BY NatLessThanWellFounded
<1>2. PICK n \in S : \A m \in S : <<m, n>> \notin OpToRel(<, Nat)
  BY <1>1, WFMin
<1>3. \A m \in S : ~(m < n)
  BY <1>2 DEF OpToRel
<1> QED BY <1>3

\* A sample of answers has a highest and a lowest one.
LEMMA SampleHasExtremes ==
    ASSUME NEW n \in Nat \ {0}, NEW f \in [1..n -> Nat]
    PROVE  /\ \E i \in 1..n : \A j \in 1..n : f[j] <= f[i]
           /\ \E i \in 1..n : \A j \in 1..n : f[i] <= f[j]
<1> DEFINE Highest(k) == \E i \in 1..k : \A j \in 1..k : f[j] <= f[i]
           Values == {f[i] : i \in 1..n}
           Without == {k \in 1..n : ~Highest(k)}
<1>1. Without = {}
  <2>1. SUFFICES ASSUME Without # {} PROVE FALSE
    OBVIOUS
  <2>2. PICK k \in Without : \A m \in Without : k <= m
    <3>1. Without \in SUBSET Nat
      OBVIOUS
    <3> HIDE DEF Without
    <3> QED BY <2>1, <3>1, LeastNatural
  <2>3. k \in 1..n /\ ~Highest(k)
    BY <2>2
  <2>4. k # 1
    <3>1. Highest(1)
      OBVIOUS
    <3> QED BY <2>3, <3>1
  <2>5. k - 1 \in 1..n /\ Highest(k - 1)
    <3>1. k - 1 \in 1..n
      BY <2>3, <2>4
    <3>2. k - 1 \notin Without
      <4>1. ASSUME k - 1 \in Without PROVE FALSE
        <5>1. k <= k - 1
          BY <2>2, <4>1
        <5> QED BY <2>3, <5>1
      <4> QED BY <4>1
    <3> QED BY <3>1, <3>2
  <2>6. PICK i \in 1..(k - 1) : \A j \in 1..(k - 1) : f[j] <= f[i]
    BY <2>5
  <2>7. \A j \in 1..k : j = k \/ j \in 1..(k - 1)
    BY <2>3
  <2>8. f[k] \in Nat /\ f[i] \in Nat /\ i \in 1..k /\ k \in 1..k
    BY <2>3, <2>6
  <2>9. CASE f[k] <= f[i]
    BY <2>3, <2>6, <2>7, <2>8, <2>9
  <2>10. CASE f[i] <= f[k]
    <3>1. \A j \in 1..k : f[j] \in Nat
      BY <2>3
    <3>2. \A j \in 1..k : f[j] <= f[k]
      BY <2>6, <2>7, <2>8, <2>10, <3>1
    <3> QED BY <2>3, <2>8, <3>2
  <2> QED BY <2>8, <2>9, <2>10
<1>2. Highest(n)
  <2>1. n \in 1..n
    OBVIOUS
  <2> QED BY <1>1, <2>1
<1>3. \E v \in Values : \A w \in Values : v <= w
  <2>1. Values \in SUBSET Nat /\ Values # {}
    <3>1. f[1] \in Values
      OBVIOUS
    <3> QED BY <3>1
  <2> HIDE DEF Values
  <2> QED BY <2>1, LeastNatural
<1> QED BY <1>2, <1>3

\* The lower primary price is at most the higher one, and neither is zero.
LEMMA PrimaryOrdered ==
    ASSUME TypeOK, NEW t \in Tokens, Answered(t)
    PROVE  /\ PrimaryPrice(t, FALSE) \in Nat \ {0} /\ PrimaryPrice(t, TRUE) \in Nat \ {0}
           /\ PrimaryPrice(t, FALSE) <= PrimaryPrice(t, TRUE)
<1> DEFINE f == rounds[t]
           n == Len(rounds[t])
           sample == {rounds[t][i] : i \in DOMAIN rounds[t]}
<1>1. n \in Nat \ {0} /\ DOMAIN f = 1..n /\ f \in [1..n -> Nat]
  <2>1. rounds[t] \in Seq(Answers) /\ Len(rounds[t]) \in 1..SampleSpace
    BY DEF TypeOK
  <2>2. Answers \subseteq Nat
    BY FastPriceFeedAssumption
  <2>3. n \in Nat \ {0}
    BY <2>1
  <2>4. DOMAIN f = 1..n /\ \A i \in 1..n : f[i] \in Answers
    BY <2>1
  <2>5. f = [i \in 1..n |-> f[i]]
    BY <2>1
  <2>6. \A i \in 1..n : f[i] \in Nat
    BY <2>2, <2>4
  <2> HIDE DEF f, n
  <2>7. f \in [1..n -> Nat]
    BY <2>5, <2>6
  <2> QED BY <2>3, <2>4, <2>7
<1>2. sample = {f[i] : i \in 1..n}
  BY <1>1 DEF sample
<1>3. \A i \in 1..n : f[i] > 0
  BY <1>1 DEF Answered
<1>4. sample \subseteq Nat \ {0}
  <2>1. \A i \in 1..n : f[i] \in Nat \ {0}
    BY <1>1, <1>3
  <2> HIDE DEF f, n, sample
  <2> QED BY <1>2, <2>1
<1> HIDE DEF f, n
<1>5. (\E i \in 1..n : \A j \in 1..n : f[j] <= f[i]) /\ (\E i \in 1..n : \A j \in 1..n : f[i] <= f[j])
  BY <1>1, SampleHasExtremes
<1> HIDE DEF sample
<1>6. (\E p \in sample : \A q \in sample : q <= p) /\ (\E p \in sample : \A q \in sample : p <= q)
  <2>1. \E p \in sample : \A q \in sample : q <= p
    BY <1>2, <1>5
  <2>2. \E p \in sample : \A q \in sample : p <= q
    BY <1>2, <1>5
  <2> QED BY <2>1, <2>2
<1>7. PrimaryPrice(t, TRUE) = CHOOSE p \in sample : \A q \in sample : q <= p
  BY DEF PrimaryPrice, sample
<1>8. PrimaryPrice(t, FALSE) = CHOOSE p \in sample : \A q \in sample : p <= q
  BY DEF PrimaryPrice, sample
<1>9. PrimaryPrice(t, TRUE) \in sample /\ \A q \in sample : q <= PrimaryPrice(t, TRUE)
  BY <1>6, <1>7, Zenon
<1>10. PrimaryPrice(t, FALSE) \in sample
  BY <1>6, <1>8, Zenon
<1> QED BY <1>4, <1>9, <1>10

-----------------------------------------------------------------------------
(* The quote, stage by stage.                                               *)

\* The AMM price keeps the order, under the old rule and the new one.
LEMMA WithAmmOrdered ==
    ASSUME NEW s \in Setting, NEW amm \in Nat,
           NEW low \in Nat \ {0}, NEW high \in Nat \ {0}, low <= high
    PROVE  /\ WithAmm(s, low, amm, FALSE) \in Nat \ {0}
           /\ WithAmm(s, high, amm, TRUE) \in Nat \ {0}
           /\ WithAmm(s, low, amm, FALSE) <= WithAmm(s, high, amm, TRUE)
<1> DEFINE near(price) == s.useV2Pricing
                          /\ Distance(amm, price) * BPS < price * s.spreadThresholdBps
           further == IF amm < low THEN amm ELSE low
           beyond == IF amm > high THEN amm ELSE high
           lower == WithAmm(s, low, amm, FALSE)
           higher == WithAmm(s, high, amm, TRUE)
<1>1. \/ lower = low /\ (~s.isAmmEnabled \/ amm = 0 \/ s.favorPrimaryPrice)
      \/ lower = amm /\ amm # 0 /\ s.isAmmEnabled /\ ~s.favorPrimaryPrice
      \/ lower = further /\ amm # 0 /\ s.isAmmEnabled
  BY DEF WithAmm, Further
<1>2. \/ higher = high /\ (~s.isAmmEnabled \/ amm = 0 \/ s.favorPrimaryPrice)
      \/ higher = amm /\ amm # 0 /\ s.isAmmEnabled /\ ~s.favorPrimaryPrice
      \/ higher = beyond /\ amm # 0 /\ s.isAmmEnabled
  BY DEF WithAmm, Further
<1>3. further <= low /\ further <= amm /\ further \in {low, amm}
      /\ high <= beyond /\ amm <= beyond /\ beyond \in {high, amm}
  OBVIOUS
<1> HIDE DEF lower, higher, further, beyond
<1>4. lower \in Nat \ {0} /\ higher \in Nat \ {0} /\ lower <= higher
  BY <1>1, <1>2, <1>3
<1> QED BY <1>4 DEF lower, higher

\* The fast price keeps the order, whichever side takes it.
LEMMA GetPriceOrdered ==
    ASSUME TypeOK, NEW t \in Tokens,
           NEW low \in Nat \ {0}, NEW high \in Nat \ {0}, low <= high
    PROVE  /\ GetPrice(t, low, FALSE) \in Nat /\ GetPrice(t, high, TRUE) \in Nat
           /\ GetPrice(t, low, FALSE) <= GetPrice(t, high, TRUE)
<1> DEFINE unsure(refPrice) == ~FavorFastPrice(t)
               \/ (Distance(refPrice, prices[t]) * BPS) \div refPrice > MaxDeviationBps
<1>1. SpreadIfInactiveBps \in 0..BPS /\ SpreadIfChainErrorBps \in 0..BPS
  BY FastPriceFeedAssumption
<1>2. \A bps \in 0..BPS :
          /\ Spread(low, bps, FALSE) \in Nat /\ Spread(high, bps, TRUE) \in Nat
          /\ Spread(low, bps, FALSE) <= Spread(high, bps, TRUE)
  <2>1. TAKE bps \in 0..BPS
  <2> DEFINE lower == Spread(low, bps, FALSE)
             higher == Spread(high, bps, TRUE)
  <2>2. lower \in 0..low
    BY SpreadAround
  <2>3. higher \in Nat /\ high <= higher
    BY SpreadAround
  <2> HIDE DEF lower, higher
  <2>4. lower \in Nat /\ higher \in Nat /\ lower <= higher
    BY <2>2, <2>3
  <2> QED BY <2>4 DEF lower, higher
<1>3. prices[t] \in Nat
  BY DEF TypeOK
<1>4. GetPrice(t, low, FALSE) =
        IF ChainError THEN Spread(low, SpreadIfChainErrorBps, FALSE)
        ELSE IF Inactive THEN Spread(low, SpreadIfInactiveBps, FALSE)
        ELSE IF prices[t] = 0 THEN low
        ELSE IF unsure(low) /\ low < prices[t] THEN low ELSE prices[t]
  BY DEF GetPrice
<1>5. GetPrice(t, high, TRUE) =
        IF ChainError THEN Spread(high, SpreadIfChainErrorBps, TRUE)
        ELSE IF Inactive THEN Spread(high, SpreadIfInactiveBps, TRUE)
        ELSE IF prices[t] = 0 THEN high
        ELSE IF unsure(high) /\ high > prices[t] THEN high ELSE prices[t]
  BY DEF GetPrice
<1> HIDE DEF unsure
<1>6. CASE ChainError
  BY <1>1, <1>2, <1>4, <1>5, <1>6, Zenon
<1>7. CASE ~ChainError /\ Inactive
  BY <1>1, <1>2, <1>4, <1>5, <1>7, Zenon
<1>8. CASE ~ChainError /\ ~Inactive
  <2> DEFINE lower == GetPrice(t, low, FALSE)
             higher == GetPrice(t, high, TRUE)
  <2>1. lower = IF prices[t] = 0 THEN low
                ELSE IF unsure(low) /\ low < prices[t] THEN low ELSE prices[t]
    BY <1>4, <1>8, Zenon
  <2>2. higher = IF prices[t] = 0 THEN high
                 ELSE IF unsure(high) /\ high > prices[t] THEN high ELSE prices[t]
    BY <1>5, <1>8, Zenon
  <2> HIDE DEF lower, higher
  <2>3. lower \in Nat /\ higher \in Nat /\ lower <= higher
    BY <1>3, <2>1, <2>2
  <2> QED BY <2>3 DEF lower, higher
<1> QED BY <1>6, <1>7, <1>8, Zenon

\* A strict stable token is quoted around one.
LEMMA StrictStableAround ==
    ASSUME NEW s \in Setting, NEW low \in Nat, NEW high \in Nat
    PROVE  /\ StrictStable(s, low, FALSE) \in 0..ONE
           /\ StrictStable(s, high, TRUE) \in Nat /\ ONE <= StrictStable(s, high, TRUE)
BY VaultPriceFeedAssumption DEF StrictStable

\* An adjustment keeps the order.
LEMMA AdjustedOrdered ==
    ASSUME NEW s \in Setting, NEW low \in Nat, NEW high \in Nat, low <= high
    PROVE  Adjusted(s, low) <= Adjusted(s, high)
<1> DEFINE k == IF s.isAdjustmentAdditive THEN BPS + s.adjustmentBps ELSE BPS - s.adjustmentBps
<1>1. BPS \in Nat \ {0} /\ k \in Nat
  BY FastPriceFeedAssumption DEF Setting
<1> HIDE DEF k
<1>2. (low * k) \div BPS <= (high * k) \div BPS
  BY <1>1, ScaledMonotone
<1> QED BY <1>2 DEF Adjusted, k

\* Without an adjustment the price stays.
LEMMA AdjustedByNothing ==
    ASSUME NEW s \in Setting, s.adjustmentBps = 0, NEW price \in Nat
    PROVE  Adjusted(s, price) = price
<1>1. BPS \in Nat \ {0}
  BY FastPriceFeedAssumption
<1>2. 0 \in 0..BPS
  BY <1>1
<1>3. BPS + 0 = BPS /\ BPS - 0 = BPS
  BY <1>1
<1> DEFINE q == (price * BPS) \div BPS
<1>4. Spread(price, 0, FALSE) = q /\ Spread(price, 0, TRUE) = q
  BY <1>3 DEF Spread
<1>5. q = price
  <2>1. q \in 0..price /\ price <= q
    BY <1>2, <1>4, SpreadAround, Zenon
  <2> HIDE DEF q
  <2> QED BY <2>1
<1>6. Adjusted(s, price) = (price * BPS) \div BPS
  BY <1>3 DEF Adjusted
<1> QED BY <1>5, <1>6

\* All stages together.
LEMMA QuotesOrdered == TypeOK => QuotesAsAssumed
<1> SUFFICES ASSUME TypeOK, NEW t \in Tokens, NEW s \in Settings, NEW amm \in AmmPrices, Answered(t)
             PROVE  /\ Quote(t, s, amm, FALSE) <= Quote(t, s, amm, TRUE)
                    /\ s.isStrictStable /\ s.adjustmentBps = 0 =>
                           Quote(t, s, amm, FALSE) <= ONE /\ ONE <= Quote(t, s, amm, TRUE)
  BY DEF QuotesAsAssumed
<1> DEFINE primary(side) == WithAmm(s, PrimaryPrice(t, side), amm, side)
           price(side) == IF s.isSecondaryPriceEnabled THEN GetPrice(t, primary(side), side)
                          ELSE primary(side)
           final(side) == IF s.isStrictStable THEN StrictStable(s, price(side), side)
                          ELSE Spread(price(side), s.spreadBps, side)
<1>1. s \in Setting /\ amm \in Nat
  BY VaultPriceFeedAssumption
<1>2. primary(FALSE) \in Nat \ {0} /\ primary(TRUE) \in Nat \ {0} /\ primary(FALSE) <= primary(TRUE)
  BY <1>1, PrimaryOrdered, WithAmmOrdered
<1> HIDE DEF primary
<1> DEFINE low == price(FALSE)
           high == price(TRUE)
<1>3. low \in Nat /\ high \in Nat /\ low <= high
  BY <1>2, GetPriceOrdered
<1> HIDE DEF price
<1>4. ONE \in Nat /\ s.spreadBps \in 0..BPS
  BY <1>1, VaultPriceFeedAssumption DEF Setting
<1> DEFINE lower == final(FALSE)
           higher == final(TRUE)
<1>5. s.isStrictStable => lower \in 0..ONE /\ higher \in Nat /\ ONE <= higher
  BY <1>1, <1>3, StrictStableAround
<1>6. ~s.isStrictStable => lower \in 0..low /\ higher \in Nat /\ high <= higher
  BY <1>3, <1>4, SpreadAround
<1>7. Quote(t, s, amm, FALSE) = Adjusted(s, lower) /\ Quote(t, s, amm, TRUE) = Adjusted(s, higher)
  BY DEF Quote, final, price, primary
<1> HIDE DEF low, high, final, lower, higher
<1>8. lower \in Nat /\ higher \in Nat /\ lower <= higher
  BY <1>3, <1>4, <1>5, <1>6
<1>9. Adjusted(s, lower) <= Adjusted(s, higher)
  BY <1>1, <1>8, AdjustedOrdered
<1>10. s.adjustmentBps = 0 => Adjusted(s, lower) = lower /\ Adjusted(s, higher) = higher
  BY <1>1, <1>8, AdjustedByNothing
<1>11. s.isStrictStable /\ s.adjustmentBps = 0 => Adjusted(s, lower) <= ONE /\ ONE <= Adjusted(s, higher)
  BY <1>4, <1>5, <1>10
<1> QED BY <1>7, <1>9, <1>11, Zenon

-----------------------------------------------------------------------------
(* The inductive invariant.                                                 *)

\* While governance leaves lastUpdatedAt alone it is the latest timestamp, and the
\* timestamp of every price in use that no later update has left out.
StampsKept ==
    rewound \/ \A t \in Tokens : /\ stamp[t] <= lastUpdatedAt
                                 /\ prices[t] # 0 /\ t \notin leftOut => stamp[t] = lastUpdatedAt

\* The deltas are zero before the first reference; after it the price is positive,
\* unless the price zero was pushed.
DeltasKept ==
    \A t \in Tokens :
        /\ priceData[t].refPrice = 0 =>
               priceData[t].cumulativeRefDelta = 0 /\ priceData[t].cumulativeFastDelta = 0
        /\ priceData[t].refPrice > 0 /\ t \notin zeroed => prices[t] > 0

FeedInv == TypeOK /\ StampsKept /\ DeltasKept

LEMMA InitFeedInv == Init => FeedInv
<1> SUFFICES ASSUME Init PROVE FeedInv
  OBVIOUS
<1>1. Answers \subseteq Nat /\ SampleSpace \in Nat \ {0} /\ StartTime \in Nat
  BY FastPriceFeedAssumption
<1>2. rounds \in [Tokens -> Seq(Answers)] /\ \A t \in Tokens : Len(rounds[t]) \in 1..SampleSpace
  <2>1. rounds \in [Tokens -> {<<answer>> : answer \in Answers}]
    BY DEF Init
  <2>2. \A answer \in Answers : <<answer>> \in Seq(Answers) /\ Len(<<answer>>) = 1
    OBVIOUS
  <2>3. \A t \in Tokens : rounds[t] \in Seq(Answers) /\ Len(rounds[t]) = 1
    BY <2>1, <2>2
  <2>4. rounds \in [Tokens -> Seq(Answers)]
    BY <2>1, <2>3
  <2>5. 1 \in 1..SampleSpace
    BY <1>1
  <2> QED BY <2>3, <2>4, <2>5
<1>3. Cardinality({}) = 0
  BY FS_EmptySet
<1>4. TypeOK
  BY <1>1, <1>2, <1>3 DEF Init, TypeOK, NoPriceData, PriceDataItem
<1>5. StampsKept /\ DeltasKept
  BY DEF Init, StampsKept, DeltasKept, NoPriceData
<1> QED BY <1>4, <1>5 DEF FeedInv

\* The deltas of an update that does not revert are natural numbers.
LEMMA NextPriceDataType ==
    ASSUME TypeOK, hasVaultPriceFeed, NEW t \in Tokens, NEW price \in Nat, CanSetPrice(t, price)
    PROVE  /\ NextPriceData(t, price) \in PriceDataItem
           /\ NextPriceData(t, price).refPrice > 0
<1> DEFINE data == priceData[t]
           reference == LatestAnswer(t)
           refPart == (Distance(reference, data.refPrice) * DeltaPrecision) \div data.refPrice
           fastPart == (Distance(prices[t], price) * DeltaPrecision) \div prices[t]
           refBase == IF NewWindow(t) THEN 0 ELSE data.cumulativeRefDelta
           fastBase == IF NewWindow(t) THEN 0 ELSE data.cumulativeFastDelta
<1>1. reference \in Nat /\ reference > 0
  <2>1. rounds[t] \in Seq(Answers) /\ Len(rounds[t]) \in 1..SampleSpace
    BY DEF TypeOK
  <2>2. rounds[t][Len(rounds[t])] \in Answers
    BY <2>1
  <2> QED BY <2>2, FastPriceFeedAssumption DEF LatestAnswer, CanSetPrice
<1>2. data \in PriceDataItem /\ prices[t] \in Nat /\ now \in Nat
  BY DEF TypeOK
<1>3. DeltaPrecision \in Nat
  BY FastPriceFeedAssumption
<1>4. data.refPrice \in Nat /\ refBase \in Nat /\ fastBase \in Nat
      /\ data.cumulativeRefDelta \in Nat /\ data.cumulativeFastDelta \in Nat
  BY <1>2 DEF PriceDataItem
<1>5. CASE data.refPrice = 0
  BY <1>1, <1>2, <1>4, <1>5 DEF NextPriceData, PriceDataItem
<1>6. CASE data.refPrice > 0
  <2>1. prices[t] > 0
    BY <1>6 DEF CanSetPrice
  <2>2. Distance(reference, data.refPrice) * DeltaPrecision \in Nat
        /\ Distance(prices[t], price) * DeltaPrecision \in Nat
    <3>1. Distance(reference, data.refPrice) \in Nat /\ Distance(prices[t], price) \in Nat
      BY <1>1, <1>2, <1>4 DEF Distance
    <3> QED BY <1>3, <3>1
  <2>3. refPart \in Nat /\ fastPart \in Nat
    BY <1>2, <1>4, <1>6, <2>1, <2>2, Division
  <2>4. NextPriceData(t, price) =
            [refPrice |-> reference, refTime |-> now,
             cumulativeRefDelta |-> refBase + refPart, cumulativeFastDelta |-> fastBase + fastPart]
    BY <1>4, <1>6 DEF NextPriceData
  <2> HIDE DEF reference, refPart, fastPart, refBase, fastBase
  <2> QED BY <1>1, <1>2, <1>4, <2>3, <2>4 DEF PriceDataItem
<1> QED BY <1>4, <1>5, <1>6

LEMMA SetPricesInv ==
    ASSUME FeedInv, NEW listed \in SUBSET Tokens, NEW sent \in [listed -> FastPrices],
           NEW timestamp \in Nat, SetPrices(sent, timestamp)
    PROVE  FeedInv' /\ (rewound \/ \A t \in Tokens : stamp'[t] >= stamp[t])
<1>1. DOMAIN sent = listed /\ \A t \in listed : sent[t] \in Nat
  BY FastPriceFeedAssumption
<1>2. /\ timestamp >= lastUpdatedAt
      /\ \A t \in listed : CanSetPrice(t, sent[t])
      /\ prices' = [t \in Tokens |-> IF t \in listed THEN sent[t] ELSE prices[t]]
      /\ priceData' = [t \in Tokens |-> IF t \in listed /\ hasVaultPriceFeed
                                        THEN NextPriceData(t, sent[t]) ELSE priceData[t]]
      /\ lastUpdatedAt' = timestamp /\ lastUpdatedBlock' = now
      /\ stamp' = [t \in Tokens |-> IF t \in listed THEN timestamp ELSE stamp[t]]
      /\ leftOut' = Tokens \ listed
      /\ zeroed' = zeroed \cup {t \in listed : sent[t] = 0}
  BY <1>1 DEF SetPrices, Newer, Stored
<1>3. UNCHANGED <<rounds, priceDataInterval, hasVaultPriceFeed, watchVars, now, rewound>>
  BY DEF SetPrices
<1>4. TypeOK
  BY DEF FeedInv
<1>5. \A t \in listed : hasVaultPriceFeed => NextPriceData(t, sent[t]) \in PriceDataItem
                                             /\ NextPriceData(t, sent[t]).refPrice > 0
  BY <1>1, <1>2, <1>4, NextPriceDataType
<1>6. TypeOK'
  <2>1. prices' \in [Tokens -> Nat] /\ stamp' \in [Tokens -> Nat]
    BY <1>1, <1>2, <1>4 DEF TypeOK
  <2>2. priceData' \in [Tokens -> PriceDataItem]
    BY <1>2, <1>4, <1>5 DEF TypeOK
  <2>3. leftOut' \subseteq Tokens /\ zeroed' \subseteq Tokens
    BY <1>2, <1>4 DEF TypeOK
  <2> QED BY <1>2, <1>3, <1>4, <2>1, <2>2, <2>3 DEF TypeOK, watchVars
<1>7. StampsKept' /\ (rewound \/ \A t \in Tokens : stamp'[t] >= stamp[t])
  <2>1. SUFFICES ASSUME ~rewound, NEW t \in Tokens
                 PROVE  /\ stamp'[t] <= lastUpdatedAt'
                        /\ t \notin leftOut' => stamp'[t] = lastUpdatedAt'
                        /\ stamp'[t] >= stamp[t]
    BY <1>3 DEF StampsKept
  <2>2. stamp[t] <= lastUpdatedAt /\ stamp[t] \in Nat /\ lastUpdatedAt \in Nat
    BY <1>4, <2>1 DEF FeedInv, StampsKept, TypeOK
  <2> QED BY <1>2, <2>2
<1>8. DeltasKept'
  <2>1. SUFFICES ASSUME NEW t \in Tokens
                 PROVE  /\ priceData'[t].refPrice = 0 =>
                               priceData'[t].cumulativeRefDelta = 0 /\ priceData'[t].cumulativeFastDelta = 0
                        /\ priceData'[t].refPrice > 0 /\ t \notin zeroed' => prices'[t] > 0
    BY DEF DeltasKept
  <2>2. /\ priceData[t].refPrice = 0 =>
               priceData[t].cumulativeRefDelta = 0 /\ priceData[t].cumulativeFastDelta = 0
        /\ priceData[t].refPrice > 0 /\ t \notin zeroed => prices[t] > 0
    BY DEF FeedInv, DeltasKept
  <2>3. CASE t \in listed
    <3>1. t \notin zeroed' => prices'[t] > 0
      BY <1>1, <1>2, <2>3
    <3>2. hasVaultPriceFeed => priceData'[t].refPrice > 0 /\ priceData'[t].refPrice # 0
      <4>1. hasVaultPriceFeed => priceData'[t] = NextPriceData(t, sent[t])
        BY <1>2, <2>3
      <4>2. hasVaultPriceFeed => NextPriceData(t, sent[t]).refPrice \in Nat
        BY <1>5, <2>3 DEF PriceDataItem
      <4> QED BY <1>5, <2>3, <4>1, <4>2
    <3>3. ~hasVaultPriceFeed => priceData'[t] = priceData[t]
      BY <1>2
    <3>4. hasVaultPriceFeed \in BOOLEAN
      BY <1>4 DEF TypeOK
    <3> QED BY <2>2, <3>1, <3>2, <3>3, <3>4
  <2>4. CASE t \notin listed
    <3>1. priceData'[t] = priceData[t] /\ prices'[t] = prices[t]
      BY <1>2, <2>4
    <3>2. t \notin zeroed' => t \notin zeroed
      BY <1>2
    <3> QED BY <2>2, <3>1, <3>2
  <2> QED BY <2>3, <2>4
<1> QED BY <1>6, <1>7, <1>8 DEF FeedInv

LEMMA NewRoundInv ==
    ASSUME FeedInv, NEW t \in Tokens, NEW answer \in Answers, NewRound(t, answer)
    PROVE  FeedInv'
<1> DEFINE all == Append(rounds[t], answer)
<1>1. /\ rounds' = [rounds EXCEPT ![t] = IF Len(all) > SampleSpace THEN Tail(all) ELSE all]
      /\ UNCHANGED <<updateVars, priceDataInterval, hasVaultPriceFeed, watchVars, now, historyVars>>
  BY DEF NewRound
<1>2. rounds \in [Tokens -> Seq(Answers)] /\ \A u \in Tokens : Len(rounds[u]) \in 1..SampleSpace
  BY DEF FeedInv, TypeOK
<1>3. SampleSpace \in Nat \ {0}
  BY FastPriceFeedAssumption
<1>4. all \in Seq(Answers) /\ Len(all) = Len(rounds[t]) + 1 /\ Len(rounds[t]) \in 1..SampleSpace
  BY <1>2
<1> HIDE DEF all
<1>5. Len(all) > SampleSpace => Tail(all) \in Seq(Answers) /\ Len(Tail(all)) = SampleSpace
  BY <1>3, <1>4
<1>6. Len(all) <= SampleSpace => Len(all) \in 1..SampleSpace
  BY <1>3, <1>4
<1>7. (IF Len(all) > SampleSpace THEN Tail(all) ELSE all) \in Seq(Answers)
  BY <1>4, <1>5
<1>8. Len(IF Len(all) > SampleSpace THEN Tail(all) ELSE all) \in 1..SampleSpace
  BY <1>3, <1>4, <1>5, <1>6
<1>9. rounds' \in [Tokens -> Seq(Answers)] /\ \A u \in Tokens : Len(rounds'[u]) \in 1..SampleSpace
  BY <1>1, <1>2, <1>7, <1>8
<1> QED BY <1>1, <1>9 DEF FeedInv, TypeOK, StampsKept, DeltasKept, updateVars, watchVars, historyVars

\* Votes: the count is the number of votes, also of those who are no longer signers.
LEMMA WatcherCallInv ==
    ASSUME FeedInv, WatcherCall
    PROVE  FeedInv'
<1>1. UNCHANGED <<rounds, updateVars, priceDataInterval, hasVaultPriceFeed, isSpreadEnabled, now, historyVars>>
  BY DEF WatcherCall, DisableFastPrice, EnableFastPrice, SetSigner
<1>2. /\ IsFiniteSet(disableFastPriceVotes) /\ isSigner \subseteq Watchers
      /\ disableFastPriceVotes \subseteq Watchers
      /\ disableFastPriceVoteCount = Cardinality(disableFastPriceVotes)
  BY FS_Subset, FastPriceFeedAssumption DEF FeedInv, TypeOK
<1>3. PICK account \in Watchers : \/ DisableFastPrice(account)
                                  \/ EnableFastPrice(account)
                                  \/ \E isActive \in BOOLEAN : SetSigner(account, isActive)
  BY DEF WatcherCall
<1>4. /\ isSigner' \subseteq Watchers /\ disableFastPriceVotes' \subseteq Watchers
      /\ disableFastPriceVoteCount' = Cardinality(disableFastPriceVotes')
  <2>1. CASE DisableFastPrice(account)
    <3>1. Cardinality(disableFastPriceVotes \cup {account}) = Cardinality(disableFastPriceVotes) + 1
      BY <1>2, <2>1, FS_AddElement DEF DisableFastPrice
    <3> QED BY <1>2, <2>1, <3>1 DEF DisableFastPrice
  <2>2. CASE EnableFastPrice(account)
    <3>1. Cardinality(disableFastPriceVotes \ {account}) = Cardinality(disableFastPriceVotes) - 1
      BY <1>2, <2>2, FS_RemoveElement DEF EnableFastPrice
    <3> QED BY <1>2, <2>2, <3>1 DEF EnableFastPrice
  <2>3. CASE \E isActive \in BOOLEAN : SetSigner(account, isActive)
    BY <1>2, <2>3 DEF SetSigner
  <2> QED BY <1>3, <2>1, <2>2, <2>3
<1> QED BY <1>1, <1>4 DEF FeedInv, TypeOK, StampsKept, DeltasKept, updateVars, historyVars

LEMMA GovCallInv ==
    ASSUME FeedInv, GovCall
    PROVE  FeedInv' /\ (rewound' \/ UNCHANGED stamp)
<1>1. Intervals \subseteq Nat /\ Stamps \subseteq Nat
  BY FastPriceFeedAssumption
<1>2. CASE \E enabled \in BOOLEAN : SetIsSpreadEnabled(enabled) \/ SetVaultPriceFeed(enabled)
  BY <1>2 DEF SetIsSpreadEnabled, SetVaultPriceFeed, FeedInv, TypeOK, StampsKept, DeltasKept,
              updateVars, watchVars, historyVars
<1>3. CASE \E interval \in Intervals : SetPriceDataInterval(interval)
  BY <1>1, <1>3 DEF SetPriceDataInterval, FeedInv, TypeOK, StampsKept, DeltasKept,
                    updateVars, watchVars, historyVars
<1>4. CASE \E timestamp \in Stamps : SetLastUpdatedAt(timestamp)
  BY <1>1, <1>4 DEF SetLastUpdatedAt, FeedInv, TypeOK, StampsKept, DeltasKept, watchVars
<1> QED BY <1>2, <1>3, <1>4 DEF GovCall

\* One step of the feed: the invariant stays and no price gets older.
LEMMA NextFeedInv ==
    FeedInv /\ [Next]_vars => FeedInv' /\ (rewound \/ \A t \in Tokens : stamp'[t] >= stamp[t])
<1> SUFFICES ASSUME FeedInv, [Next]_vars
             PROVE  FeedInv' /\ (rewound \/ \A t \in Tokens : stamp'[t] >= stamp[t])
  OBVIOUS
<1>1. stamp \in [Tokens -> Nat]
  BY DEF FeedInv, TypeOK
<1>2. CASE Update
  <2>1. PICK listed \in SUBSET Tokens, timestamp \in 1..(MaxTime + MaxTimeDeviation) :
            \E sent \in [listed -> FastPrices] : SetPrices(sent, timestamp)
    BY <1>2 DEF Update
  <2>2. PICK sent \in [listed -> FastPrices] : SetPrices(sent, timestamp)
    BY <2>1
  <2>3. timestamp \in Nat
    BY FastPriceFeedAssumption
  <2> QED BY <2>2, <2>3, SetPricesInv
<1>3. CASE WatcherCall
  <2>1. UNCHANGED stamp
    BY <1>3 DEF WatcherCall, DisableFastPrice, EnableFastPrice, SetSigner, historyVars
  <2> QED BY <1>1, <1>3, <2>1, WatcherCallInv
<1>4. CASE GovCall
  <2>1. UNCHANGED stamp
    BY <1>4 DEF GovCall, SetIsSpreadEnabled, SetVaultPriceFeed, SetPriceDataInterval, SetLastUpdatedAt,
                historyVars
  <2> QED BY <1>1, <1>4, <2>1, GovCallInv
<1>5. CASE Chainlink
  <2>1. UNCHANGED stamp
    BY <1>5 DEF Chainlink, NewRound, historyVars
  <2> QED BY <1>1, <1>5, <2>1, NewRoundInv DEF Chainlink
<1>6. CASE Tick
  <2>1. now' \in Nat /\ UNCHANGED <<rounds, updateVars, priceDataInterval, hasVaultPriceFeed, watchVars,
                                    historyVars>>
    BY <1>6 DEF Tick, FeedInv, TypeOK
  <2> QED BY <1>1, <2>1 DEF FeedInv, TypeOK, StampsKept, DeltasKept, updateVars, watchVars, historyVars
<1>7. CASE UNCHANGED vars
  BY <1>1, <1>7 DEF vars, FeedInv, TypeOK, StampsKept, DeltasKept, updateVars, watchVars, historyVars
<1> QED BY <1>2, <1>3, <1>4, <1>5, <1>6, <1>7 DEF Next

LEMMA FeedInvAlways == Spec => []FeedInv
<1>1. FeedInv /\ [Next]_vars => FeedInv'
  BY NextFeedInv
<1> QED BY InitFeedInv, <1>1, PTL DEF Spec

-----------------------------------------------------------------------------
(* The theorems.                                                            *)

\* The type invariant, the number of votes included, which a signer who is removed
\* leaves behind.
THEOREM TypeCorrect == Spec => []TypeOK
<1>1. FeedInv => TypeOK
  BY DEF FeedInv
<1> QED BY <1>1, FeedInvAlways, PTL

\* Whatever is configured, pushed, answered or voted, the lower quote the vault reads
\* is at most the higher one, and a strict stable token is quoted around one.
THEOREM QuotesAlways == Spec => []QuotesAsAssumed
<1>1. FeedInv => QuotesAsAssumed
  BY QuotesOrdered DEF FeedInv
<1> QED BY <1>1, FeedInvAlways, PTL

\* A price older than its duration is used only when a later update left its token out
\* or governance set the time of the last update.
THEOREM StaleAlways == Spec => []StaleOnlyIfLeftOut
<1>1. FeedInv => StaleOnlyIfLeftOut
  <2>1. SUFFICES ASSUME FeedInv, NEW t \in Tokens, UsesFastPrice(t), t \notin leftOut, ~rewound
                 PROVE  now <= stamp[t] + PriceDuration
    BY DEF StaleOnlyIfLeftOut
  <2>2. stamp[t] = lastUpdatedAt
    BY <2>1 DEF FeedInv, StampsKept, UsesFastPrice
  <2>3. now <= lastUpdatedAt + PriceDuration
    BY <2>1, FastPriceFeedAssumption DEF UsesFastPrice, Inactive, FeedInv, TypeOK
  <2> QED BY <2>2, <2>3
<1> QED BY <1>1, FeedInvAlways, PTL

\* No update in any order gives a token a price older than the one it has.
THEOREM NewestAlways == Spec => NewestPriceWins
<1>1. FeedInv /\ [Next]_vars => [rewound \/ \A t \in Tokens : stamp'[t] >= stamp[t]]_vars
  BY NextFeedInv
<1> QED BY <1>1, FeedInvAlways, PTL DEF Spec, NewestPriceWins

\* The first update of a token in a window can always confirm its price.
THEOREM UpdatesAlways == Spec => []UpdatesNotStuck
<1>1. FeedInv => UpdatesNotStuck
  <2> SUFFICES ASSUME FeedInv, NEW t \in Tokens,
                      priceDataInterval > 0, t \notin zeroed, LatestAnswer(t) > 0,
                      priceData[t].refPrice > 0 =>
                          /\ NewWindow(t)
                          /\ Distance(LatestAnswer(t), priceData[t].refPrice) * DeltaPrecision
                                 < MaxCumulativeDelta * priceData[t].refPrice
               PROVE  CanSetPrice(t, prices[t])
    BY DEF UpdatesNotStuck
  <2> DEFINE data == priceData[t]
             refPart == (Distance(LatestAnswer(t), data.refPrice) * DeltaPrecision) \div data.refPrice
             fastPart == (Distance(prices[t], prices[t]) * DeltaPrecision) \div prices[t]
  <2>1. data \in PriceDataItem /\ prices[t] \in Nat /\ now \in Nat
    BY DEF FeedInv, TypeOK
  <2>2. DeltaPrecision \in Nat \ {0} /\ MaxCumulativeDelta \in Nat \ {0} /\ Answers \subseteq Nat
    BY FastPriceFeedAssumption
  <2>3. LatestAnswer(t) \in Nat
    <3>1. rounds[t] \in Seq(Answers) /\ Len(rounds[t]) \in 1..SampleSpace
      BY DEF FeedInv, TypeOK
    <3>2. rounds[t][Len(rounds[t])] \in Answers
      BY <3>1
    <3> QED BY <2>2, <3>2 DEF LatestAnswer
  <2>4. data.refPrice \in Nat
    BY <2>1 DEF PriceDataItem
  <2>5. CASE data.refPrice = 0
    <3>1. data.cumulativeRefDelta = 0 /\ data.cumulativeFastDelta = 0
      BY <2>5 DEF FeedInv, DeltasKept
    <3>2. NextPriceData(t, prices[t]).cumulativeRefDelta = 0
          /\ NextPriceData(t, prices[t]).cumulativeFastDelta = 0
      BY <2>5, <3>1 DEF NextPriceData
    <3> QED BY <2>2, <2>5, <3>2 DEF CanSetPrice
  <2>6. CASE data.refPrice > 0
    <3>1. prices[t] > 0 /\ NewWindow(t)
      BY <2>6 DEF FeedInv, DeltasKept
    <3>2. refPart \in Nat /\ refPart < MaxCumulativeDelta
      <4> DEFINE amount == Distance(LatestAnswer(t), data.refPrice) * DeltaPrecision
      <4>1. Distance(LatestAnswer(t), data.refPrice) \in Nat
        BY <2>3, <2>4 DEF Distance
      <4>2. amount \in Nat /\ amount < MaxCumulativeDelta * data.refPrice
        BY <2>2, <2>6, <4>1
      <4> HIDE DEF amount
      <4>3. amount \div data.refPrice \in Nat /\ data.refPrice * (amount \div data.refPrice) <= amount
        BY <2>4, <2>6, <4>2, Division
      <4> DEFINE q == amount \div data.refPrice
      <4>4. ASSUME q >= MaxCumulativeDelta PROVE FALSE
        <5> HIDE DEF q
        <5>1. data.refPrice * q >= data.refPrice * MaxCumulativeDelta
          BY <2>2, <2>4, <4>3, <4>4 DEF q
        <5> QED BY <2>2, <2>4, <4>2, <4>3, <5>1 DEF q
      <4> QED BY <2>2, <4>3, <4>4 DEF amount
    <3>3. fastPart = 0
      <4>1. Distance(prices[t], prices[t]) = 0
        BY <2>1 DEF Distance
      <4> QED BY <2>1, <2>2, <3>1, <4>1
    <3> HIDE DEF refPart, fastPart
    <3>4. NextPriceData(t, prices[t]).cumulativeRefDelta = 0 + refPart
          /\ NextPriceData(t, prices[t]).cumulativeFastDelta = 0 + fastPart
      BY <2>6, <3>1 DEF NextPriceData, refPart, fastPart
    <3> QED BY <2>2, <3>1, <3>2, <3>3, <3>4 DEF CanSetPrice
  <2> QED BY <2>4, <2>5, <2>6
<1> QED BY <1>1, FeedInvAlways, PTL
=============================================================================
