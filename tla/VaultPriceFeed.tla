---------------------------- MODULE VaultPriceFeed --------------------------
(***************************************************************************)
(* VaultPriceFeed: the quote the vault reads, made of Chainlink's last      *)
(* answers, an AMM price, the fast price and the rules for stable tokens.   *)
(* Governance may change its settings between any two calls, so a quote is  *)
(* a function of the settings and the properties hold for all of them.      *)
(***************************************************************************)
EXTENDS FastPriceFeed

CONSTANTS
    ONE,                      \* ONE_USD
    Settings,                 \* what governance may have configured for a token
    AmmPrices                 \* what getAmmPrice may return; 0 is none

Setting == [useV2Pricing : BOOLEAN, isAmmEnabled : BOOLEAN, isSecondaryPriceEnabled : BOOLEAN,
            favorPrimaryPrice : BOOLEAN, spreadThresholdBps : Nat, spreadBps : 0..BPS,
            isStrictStable : BOOLEAN, maxStrictPriceDeviation : Nat,
            isAdjustmentAdditive : BOOLEAN, adjustmentBps : 0..BPS]

ASSUME VaultPriceFeedAssumption ==
    /\ ONE \in Nat \ {0}
    /\ Settings \subseteq Setting /\ AmmPrices \subseteq Nat

\* every sampled answer must be positive, or the quote reverts
Answered(t) == \A i \in DOMAIN rounds[t] : rounds[t][i] > 0

\* mutant: the sample is not searched when the price is minimised
LastAnswerAsLow(t, maximise) == IF maximise THEN LatestAnswer(t) ELSE rounds[t][1]

\* getPrimaryPrice: the highest or lowest of the last priceSampleSpace answers
PrimaryPrice(t, maximise) ==
    LET sample == {rounds[t][i] : i \in DOMAIN rounds[t]}
    IN IF maximise THEN CHOOSE p \in sample : \A q \in sample : q <= p
                   ELSE CHOOSE p \in sample : \A q \in sample : p <= q

\* the AMM price when it is further out
Further(price, amm, maximise) ==
    IF maximise THEN (IF amm > price THEN amm ELSE price)
                ELSE (IF amm < price THEN amm ELSE price)

\* getPriceV1 and getAmmPriceV2
WithAmm(s, price, amm, maximise) ==
    IF ~s.isAmmEnabled \/ amm = 0 THEN price
    ELSE IF s.useV2Pricing /\ Distance(amm, price) * BPS < price * s.spreadThresholdBps
         THEN IF s.favorPrimaryPrice THEN price ELSE amm
    ELSE Further(price, amm, maximise)

\* a stable token is quoted at one, or on the far side of one when it is off
StrictStable(s, price, maximise) ==
    IF Distance(price, ONE) <= s.maxStrictPriceDeviation THEN ONE
    ELSE IF (maximise /\ price > ONE) \/ (~maximise /\ price < ONE) THEN price
    ELSE ONE

Adjusted(s, price) ==
    (price * (IF s.isAdjustmentAdditive THEN BPS + s.adjustmentBps ELSE BPS - s.adjustmentBps))
        \div BPS

Quote(t, s, amm, maximise) ==
    LET primary == WithAmm(s, PrimaryPrice(t, maximise), amm, maximise)
        price == IF s.isSecondaryPriceEnabled THEN GetPrice(t, primary, maximise) ELSE primary
    IN Adjusted(s, IF s.isStrictStable THEN StrictStable(s, price, maximise)
                   ELSE Spread(price, s.spreadBps, maximise))

-----------------------------------------------------------------------------
\* What the vault relies on, whatever was configured, pushed, answered or voted and
\* whichever source wins on either side: the lower quote is at most the higher one,
\* and a strict stable token that is not adjusted is quoted around one dollar.
QuotesAsAssumed ==
    \A t \in Tokens, s \in Settings, amm \in AmmPrices :
        LET lower == Quote(t, s, amm, FALSE)
            upper == Quote(t, s, amm, TRUE)
        IN Answered(t) =>
               /\ lower <= upper
               /\ s.isStrictStable /\ s.adjustmentBps = 0 => lower <= ONE /\ ONE <= upper
=============================================================================
