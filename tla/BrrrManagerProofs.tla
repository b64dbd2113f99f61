-------------------------- MODULE BrrrManagerProofs -------------------------
(* Theorems about the vault, the shorts tracker and the manager together,   *)
(* for every value of their constants.                                      *)
EXTENDS BrrrManager, VaultProofs

-----------------------------------------------------------------------------
(* Arithmetic.                                                             *)

\* Subtraction that stops at zero.
LEMMA MonusNat ==
    ASSUME NEW a \in Int, NEW b \in Int
    PROVE  Monus(a, b) \in Nat /\ Monus(a, b) >= a - b
BY DEF Monus

\* The order of the parts of the pool's value carries over to the value.
LEMMA ValueMonotone ==
    ASSUME NEW g \in Int, NEW h \in Int, NEW p \in Int, NEW q \in Int, NEW d \in Int,
           g <= h, q <= p
    PROVE  Monus(Monus(g, p), d) <= Monus(Monus(h, q), d)
BY DEF Monus

\* Value added arrives in full, unless nothing was left before.
LEMMA ValueAdded ==
    ASSUME NEW g \in Int, NEW h \in Int, NEW p \in Int, NEW d \in Nat, NEW u \in Nat,
           g + u <= h
    PROVE  \/ Monus(Monus(g, p), d) = 0
           \/ Monus(Monus(g, p), d) + u <= Monus(Monus(h, p), d)
BY DEF Monus

\* Value taken off the parts takes no more off the whole.
LEMMA ValueTaken ==
    ASSUME NEW g \in Int, NEW h \in Int, NEW p \in Int, NEW d \in Nat, NEW u \in Nat,
           g - u <= h
    PROVE  Monus(Monus(g, p), d) - u <= Monus(Monus(h, p), d)
BY DEF Monus

-----------------------------------------------------------------------------
(* The profit of the shorts.                                               *)

LEMMA PnlInt ==
    ASSUME NEW size \in Nat, NEW average \in Nat \ {0}, NEW p \in Nat
    PROVE  Pnl(size, average, p) \in Int
<1>1. Distance(average, p) \in Nat
  BY DEF Distance
<1>2. size * Distance(average, p) \in Nat
  BY <1>1
<1>3. (size * Distance(average, p)) \div average \in Nat
  BY <1>2, DivNat
<1> QED BY <1>3 DEF Pnl

\* Shorts win when the price falls.
LEMMA PnlAntitone ==
    ASSUME NEW size \in Nat, NEW average \in Nat \ {0}, NEW p \in Nat, NEW q \in Nat, p <= q
    PROVE  Pnl(size, average, q) <= Pnl(size, average, p)
<1> DEFINE a == Distance(average, p)
           b == Distance(average, q)
           x == (size * a) \div average
           y == (size * b) \div average
<1>1. a \in Nat /\ b \in Nat
  BY DEF Distance
<1>2. size * a \in Nat /\ size * b \in Nat
  BY <1>1
<1>3. x \in Nat /\ y \in Nat
  BY <1>2, DivNat
<1>4. Pnl(size, average, p) = IF average > p THEN x ELSE -x
  BY DEF Pnl
<1>5. Pnl(size, average, q) = IF average > q THEN y ELSE -y
  BY DEF Pnl
<1>6. CASE average > q
  <2>1. b <= a
    BY <1>6 DEF Distance
  <2>2. size * b <= size * a
    BY <1>1, <2>1, ProductMonotone
  <2>3. y <= x
    BY <1>2, <2>2, DivMonotone
  <2> QED BY <1>3, <1>4, <1>5, <1>6, <2>3
<1>7. CASE average <= q /\ average > p
  BY <1>3, <1>4, <1>5, <1>7
<1>8. CASE average <= p
  <2>1. a <= b
    BY <1>8 DEF Distance
  <2>2. size * a <= size * b
    BY <1>1, <2>1, ProductMonotone
  <2>3. x <= y
    BY <1>2, <2>2, DivMonotone
  <2> QED BY <1>3, <1>4, <1>5, <1>8, <2>3
<1> QED BY <1>6, <1>7, <1>8

-----------------------------------------------------------------------------
(* The invariant: the vault's own, with the types of the tracker and of the *)
(* manager, and quotes in order.                                            *)

QuotesOrdered == \A t \in Token : MinPrice(t) <= MaxPrice(t)

LiquidityInv == Inv /\ QuotesOrdered /\ TrackerTypeOK /\ ManagerTypeOK

\* The quotes of the pool's value.
Quote(maximise, t) == IF maximise THEN MaxPrice(t) ELSE MinPrice(t)

\* The gross value before the shorts' profit.
Gross(maximise) ==
    aumAdjustment[1] + (poolAmounts[Stable] * Quote(maximise, Stable)) \div UNIT
    + IndexAum(Quote(maximise, Index))

LEMMA QuoteNat ==
    ASSUME LiquidityInv, NEW maximise \in BOOLEAN, NEW t \in Token
    PROVE  /\ Quote(maximise, t) \in Nat \ {0}
           /\ MinPrice(t) \in Nat \ {0} /\ MaxPrice(t) \in Nat \ {0}
           /\ MinPrice(t) <= Quote(maximise, t) /\ Quote(maximise, t) <= MaxPrice(t)
<1>1. MinPrice(t) \in Nat \ {0} /\ MaxPrice(t) \in Nat \ {0}
  BY PriceNat DEF LiquidityInv, Inv, TypeOK
<1>2. MinPrice(t) <= MaxPrice(t)
  BY DEF LiquidityInv, QuotesOrdered
<1> QED BY <1>1, <1>2 DEF Quote

LEMMA GrossNat ==
    ASSUME LiquidityInv, NEW maximise \in BOOLEAN
    PROVE  Gross(maximise) \in Nat
<1> DEFINE s == Quote(maximise, Stable)
           i == Quote(maximise, Index)
<1>1. s \in Nat /\ i \in Nat
  BY QuoteNat DEF Token
<1>2. /\ poolAmounts[Stable] \in Nat /\ poolAmounts[Index] - reservedAmounts[Index] \in Nat
      /\ guaranteedUsd \in Nat /\ aumAdjustment[1] \in Nat
  BY DEF LiquidityInv, ManagerTypeOK, Inv, TypeOK, AssetsOK, TotalsOK, ReservedBacked, Token
<1>3. UNIT \in Nat \ {0}
  BY VaultAssumption
<1> HIDE DEF s, i
<1>4. /\ poolAmounts[Stable] * s \in Nat
      /\ (poolAmounts[Index] - reservedAmounts[Index]) * i \in Nat
  BY <1>1, <1>2
<1>5. /\ (poolAmounts[Stable] * s) \div UNIT \in Nat
      /\ ((poolAmounts[Index] - reservedAmounts[Index]) * i) \div UNIT \in Nat
  BY <1>3, <1>4, DivNat
<1> QED BY <1>2, <1>5 DEF Gross, IndexAum, s, i

LEMMA AverageShortPriceNat ==
    ASSUME LiquidityInv, HasAum, globalShortSize > 0
    PROVE  AverageShortPrice \in Nat \ {0}
<1>1. /\ globalShortAveragePrice \in Nat /\ trackedAveragePrice \in Nat
      /\ shortsTrackerAveragePriceWeight \in Nat
  BY DEF LiquidityInv, TrackerTypeOK, ManagerTypeOK, Inv, TypeOK, TotalsOK
<1>2. BPS \in Nat \ {0}
  BY VaultAssumption
<1>3. AverageShortPrice > 0 /\ (UsesTracker => shortsTrackerAveragePriceWeight <= BPS)
  BY DEF HasAum
<1>4. CASE UsesTracker
  <2>1. BPS - shortsTrackerAveragePriceWeight \in Nat
    BY <1>1, <1>2, <1>3, <1>4
  <2>2. globalShortAveragePrice * (BPS - shortsTrackerAveragePriceWeight)
        + trackedAveragePrice * shortsTrackerAveragePriceWeight \in Nat
    BY <1>1, <2>1
  <2>3. AverageShortPrice \in Nat
    BY <1>2, <1>4, <2>2, DivNat DEF AverageShortPrice
  <2> QED BY <1>3, <2>3
<1>5. CASE ~UsesTracker
  BY <1>1, <1>3, <1>5 DEF AverageShortPrice
<1> QED BY <1>4, <1>5

LEMMA ShortPnlInt ==
    ASSUME LiquidityInv, HasAum, NEW p \in Nat
    PROVE  ShortPnl(p) \in Int
<1>1. globalShortSize \in Nat
  BY DEF LiquidityInv, Inv, TypeOK, TotalsOK
<1> QED BY <1>1, AverageShortPriceNat, PnlInt DEF ShortPnl

\* The value of the pool is a natural number: its parts never underflow.
LEMMA AumNat ==
    ASSUME LiquidityInv, HasAum, NEW maximise \in BOOLEAN
    PROVE  /\ Aum(maximise)
              = Monus(Monus(Gross(maximise), ShortPnl(Quote(maximise, Index))),
                      aumAdjustment[2])
           /\ Aum(maximise) \in Nat
<1>1. Aum(maximise) = Monus(Monus(Gross(maximise), ShortPnl(Quote(maximise, Index))),
                            aumAdjustment[2])
  BY DEF Aum, Gross, Quote
<1>2. Gross(maximise) \in Nat /\ ShortPnl(Quote(maximise, Index)) \in Int
  BY GrossNat, QuoteNat, ShortPnlInt DEF Token
<1>3. aumAdjustment[2] \in Nat
  BY DEF LiquidityInv, ManagerTypeOK
<1> DEFINE net == Monus(Gross(maximise), ShortPnl(Quote(maximise, Index)))
<1>4. net \in Nat
  BY <1>2, MonusNat
<1>5. Aum(maximise) = Monus(net, aumAdjustment[2])
  BY <1>1
<1> HIDE DEF net
<1>6. Monus(net, aumAdjustment[2]) \in Nat
  BY <1>3, <1>4 DEF Monus
<1> QED BY <1>1, <1>5, <1>6, Zenon

\* At the lower quotes the pool is worth no more than at the higher ones.
LEMMA AumOrdered ==
    ASSUME LiquidityInv, HasAum, NEW maximise \in BOOLEAN
    PROVE  Aum(FALSE) <= Aum(maximise) /\ Aum(maximise) <= Aum(TRUE)
<1>1. ASSUME NEW low \in BOOLEAN, NEW high \in BOOLEAN,
             \A t \in Token : Quote(low, t) <= Quote(high, t)
      PROVE  Aum(low) <= Aum(high)
  <2> DEFINE s == Quote(low, Stable)
             sh == Quote(high, Stable)
             i == Quote(low, Index)
             ih == Quote(high, Index)
  <2>1. /\ s \in Nat /\ sh \in Nat /\ i \in Nat /\ ih \in Nat
        /\ s <= sh /\ i <= ih
    <3>1. Index \in Token /\ Stable \in Token
      BY DEF Token
    <3>2. s <= sh /\ i <= ih
      BY <1>1, <3>1
    <3> QED BY <3>1, <3>2, QuoteNat
  <2>2. /\ poolAmounts[Stable] \in Nat /\ poolAmounts[Index] - reservedAmounts[Index] \in Nat
        /\ guaranteedUsd \in Nat /\ aumAdjustment[1] \in Nat /\ aumAdjustment[2] \in Nat
        /\ globalShortSize \in Nat
    BY DEF LiquidityInv, ManagerTypeOK, Inv, TypeOK, AssetsOK, TotalsOK, ReservedBacked, Token
  <2>3. UNIT \in Nat \ {0}
    BY VaultAssumption
  <2>4. ShortPnl(ih) <= ShortPnl(i)
    BY <2>1, <2>2, AverageShortPriceNat, PnlAntitone DEF ShortPnl
  <2>5. ShortPnl(i) \in Int /\ ShortPnl(ih) \in Int
    BY <2>1, ShortPnlInt
  <2> HIDE DEF s, sh, i, ih
  <2>6. /\ poolAmounts[Stable] * s \in Nat /\ poolAmounts[Stable] * sh \in Nat
        /\ poolAmounts[Stable] * s <= poolAmounts[Stable] * sh
    BY <2>1, <2>2, ProductMonotone
  <2>7. /\ (poolAmounts[Index] - reservedAmounts[Index]) * i \in Nat
        /\ (poolAmounts[Index] - reservedAmounts[Index]) * ih \in Nat
        /\ (poolAmounts[Index] - reservedAmounts[Index]) * i
             <= (poolAmounts[Index] - reservedAmounts[Index]) * ih
    BY <2>1, <2>2, ProductMonotone
  <2>8. /\ (poolAmounts[Stable] * s) \div UNIT <= (poolAmounts[Stable] * sh) \div UNIT
        /\ (poolAmounts[Stable] * s) \div UNIT \in Nat
        /\ (poolAmounts[Stable] * sh) \div UNIT \in Nat
    BY <2>3, <2>6, DivMonotone, DivNat
  <2> DEFINE free == poolAmounts[Index] - reservedAmounts[Index]
  <2>9. /\ (free * i) \div UNIT <= (free * ih) \div UNIT
        /\ (free * i) \div UNIT \in Nat /\ (free * ih) \div UNIT \in Nat
    BY <2>3, <2>7, DivMonotone, DivNat
  <2>10. /\ IndexAum(i) = guaranteedUsd + (free * i) \div UNIT
         /\ IndexAum(ih) = guaranteedUsd + (free * ih) \div UNIT
    BY DEF IndexAum
  <2> HIDE DEF free
  <2>11. IndexAum(i) <= IndexAum(ih) /\ IndexAum(i) \in Nat /\ IndexAum(ih) \in Nat
    BY <2>2, <2>9, <2>10
  <2>12. Gross(low) <= Gross(high) /\ Gross(low) \in Int /\ Gross(high) \in Int
    BY <2>2, <2>8, <2>11 DEF Gross, s, sh, i, ih
  <2>13. /\ Aum(low) = Monus(Monus(Gross(low), ShortPnl(i)), aumAdjustment[2])
         /\ Aum(high) = Monus(Monus(Gross(high), ShortPnl(ih)), aumAdjustment[2])
    BY AumNat DEF i, ih
  <2> QED BY <2>2, <2>4, <2>5, <2>12, <2>13, ValueMonotone
<1>2. \A t \in Token : /\ Quote(FALSE, t) <= Quote(maximise, t)
                       /\ Quote(maximise, t) <= Quote(TRUE, t)
  BY QuoteNat DEF Quote
<1>3. FALSE \in BOOLEAN /\ TRUE \in BOOLEAN
  OBVIOUS
<1>4. Aum(FALSE) <= Aum(maximise)
  BY <1>1, <1>2, <1>3, Zenon
<1>5. Aum(maximise) <= Aum(TRUE)
  BY <1>1, <1>2, <1>3, Zenon
<1> QED BY <1>4, <1>5, Zenon

-----------------------------------------------------------------------------
(* What deposits and redemptions do to the value.                          *)

\* The parts of the gross value, one per token.
Part(t, pool, maximise) ==
    IF t = Stable THEN (pool * Quote(maximise, Stable)) \div UNIT
    ELSE ((pool - reservedAmounts[Index]) * Quote(maximise, Index)) \div UNIT

\* Tokens that join the pool add at least what the lower quote makes of them.
LEMMA PartGrows ==
    ASSUME LiquidityInv, NEW t \in Token, NEW x \in Nat, NEW maximise \in BOOLEAN
    PROVE  Part(t, poolAmounts[t], maximise) + TokenToUsdMin(t, x)
             <= Part(t, poolAmounts[t] + x, maximise)
<1> DEFINE q == Quote(maximise, t)
           free == IF t = Stable THEN poolAmounts[t] ELSE poolAmounts[t] - reservedAmounts[t]
           grown == poolAmounts[t] + x
<1>1. q \in Nat /\ MinPrice(t) \in Nat /\ MinPrice(t) <= q
  BY QuoteNat
<1>2. UNIT \in Nat \ {0}
  BY VaultAssumption
<1>3. poolAmounts[t] \in Nat /\ reservedAmounts[t] \in Nat /\ free \in Nat
  BY DEF LiquidityInv, Inv, TypeOK, AssetsOK, ReservedBacked
<1>4. /\ Part(t, poolAmounts[t], maximise) = (free * q) \div UNIT
      /\ Part(t, grown, maximise) = ((free + x) * q) \div UNIT
  <2>1. CASE t = Stable
    BY <2>1 DEF Part
  <2>2. CASE t # Stable
    <3>1. t = Index
      BY <2>2 DEF Token
    <3>2. /\ grown - reservedAmounts[Index] = free + x
          /\ poolAmounts[t] - reservedAmounts[Index] = free
      BY <1>3, <2>2, <3>1
    <3>3. q = Quote(maximise, Index)
      BY <3>1
    <3>5. grown \in Int /\ poolAmounts[t] \in Int
      BY <1>3
    <3> HIDE DEF free, q, grown
    <3>4. ASSUME NEW pool \in Int
          PROVE  Part(t, pool, maximise) = ((pool - reservedAmounts[Index]) * q) \div UNIT
      BY <2>2, <3>3 DEF Part
    <3>6. Part(t, poolAmounts[t], maximise)
            = ((poolAmounts[t] - reservedAmounts[Index]) * q) \div UNIT
      BY <3>4, <3>5
    <3>7. Part(t, grown, maximise) = ((grown - reservedAmounts[Index]) * q) \div UNIT
      BY <3>4, <3>5
    <3> QED BY <3>2, <3>6, <3>7
  <2> QED BY <2>1, <2>2
<1> HIDE DEF q, free, grown
<1>5. free * q \in Nat /\ x * q \in Nat /\ x * MinPrice(t) \in Nat
  BY <1>1, <1>3
<1>6. x * MinPrice(t) <= x * q
  BY <1>1, ProductMonotone
<1>7. TokenToUsdMin(t, x) <= (x * q) \div UNIT
  BY <1>2, <1>5, <1>6, DivMonotone DEF TokenToUsdMin
<1>8. (free * q) \div UNIT + (x * q) \div UNIT <= (free * q + x * q) \div UNIT
  BY <1>2, <1>5, DivSuperadditive
<1>9. (free + x) * q = free * q + x * q
  BY <1>1, <1>3
<1>10. TokenToUsdMin(t, x) \in Nat
  BY ConversionNat DEF LiquidityInv, Inv, TypeOK
<1>11. (free * q) \div UNIT \in Nat /\ (x * q) \div UNIT \in Nat
  BY <1>2, <1>5, DivNat
<1>12. ((free + x) * q) \div UNIT = (free * q + x * q) \div UNIT
  BY <1>9
<1>13. (free * q + x * q) \div UNIT \in Nat
  BY <1>2, <1>5, DivNat
<1> QED BY <1>4, <1>7, <1>8, <1>10, <1>11, <1>12, <1>13 DEF grown

\* The tokens that USDP buys back take no more off the pool than the USDP.
LEMMA PartShrinks ==
    ASSUME LiquidityInv, NEW t \in Token, NEW usdp \in Nat, NEW maximise \in BOOLEAN,
           reservedAmounts[t] <= poolAmounts[t] - UsdToTokenMin(t, usdp)
    PROVE  Part(t, poolAmounts[t], maximise) - usdp
             <= Part(t, poolAmounts[t] - UsdToTokenMin(t, usdp), maximise)
<1> DEFINE q == Quote(maximise, t)
           r == UsdToTokenMin(t, usdp)
           free == IF t = Stable THEN poolAmounts[t] ELSE poolAmounts[t] - reservedAmounts[t]
<1>1. q \in Nat /\ MaxPrice(t) \in Nat \ {0} /\ q <= MaxPrice(t)
  BY QuoteNat
<1>2. UNIT \in Nat \ {0}
  BY VaultAssumption
<1>3. r \in Nat
  BY ConversionNat DEF LiquidityInv, Inv, TypeOK
<1>4. poolAmounts[t] \in Nat /\ reservedAmounts[t] \in Nat
  BY DEF LiquidityInv, Inv, TypeOK, AssetsOK
<1>5. free \in Nat /\ free - r \in Nat
  BY <1>3, <1>4
<1>6. /\ Part(t, poolAmounts[t], maximise) = (free * q) \div UNIT
      /\ Part(t, poolAmounts[t] - r, maximise) = ((free - r) * q) \div UNIT
  <2>1. CASE t = Stable
    BY <2>1 DEF Part
  <2>2. CASE t # Stable
    <3>1. t = Index
      BY <2>2 DEF Token
    <3>2. /\ poolAmounts[t] - r - reservedAmounts[Index] = free - r
          /\ poolAmounts[t] - reservedAmounts[Index] = free
      BY <1>3, <1>4, <2>2, <3>1
    <3>3. \A pool : Part(t, pool, maximise) = ((pool - reservedAmounts[Index]) * q) \div UNIT
      BY <2>2, <3>1 DEF Part
    <3> HIDE DEF free, q, r
    <3> QED BY <3>2, <3>3, Zenon
  <2> QED BY <2>1, <2>2
<1>7. MaxPrice(t) * r <= usdp * UNIT
  <2>1. usdp * UNIT \in Nat
    BY <1>2
  <2> QED BY <1>1, <2>1, DivNat DEF UsdToTokenMin
<1> HIDE DEF q, r, free
<1>8. r * q <= UNIT * usdp
  <2>1. r * q <= r * MaxPrice(t)
    BY <1>1, <1>3, ProductMonotone
  <2>2. r * MaxPrice(t) = MaxPrice(t) * r /\ usdp * UNIT = UNIT * usdp
    BY <1>1, <1>2, <1>3
  <2>3. r * q \in Nat /\ r * MaxPrice(t) \in Nat /\ usdp * UNIT \in Nat
    BY <1>1, <1>2, <1>3
  <2> QED BY <1>7, <2>1, <2>2, <2>3
<1>9. (free - r) * q = free * q - r * q
  BY <1>1, <1>3, <1>5
<1>10. /\ free * q \in Nat /\ (free - r) * q \in Nat /\ r * q \in Nat
       /\ UNIT * usdp \in Nat
  BY <1>1, <1>2, <1>3, <1>5
<1>11. free * q - UNIT * usdp <= (free - r) * q
  BY <1>8, <1>9, <1>10
<1>12. (free * q) \div UNIT - usdp <= ((free - r) * q) \div UNIT
  BY <1>2, <1>10, <1>11, DivLess
<1> QED BY <1>6, <1>12 DEF r

LEMMA PartInt ==
    ASSUME NEW t \in Token, NEW pool \in Int, LiquidityInv, NEW maximise \in BOOLEAN
    PROVE  Part(t, pool, maximise) \in Int
<1> DEFINE q == Quote(maximise, t)
<1>1. Index \in Token /\ Stable \in Token /\ (t = Stable \/ t = Index)
  BY DEF Token
<1>2. q \in Nat
  BY QuoteNat
<1>3. reservedAmounts[Index] \in Nat
  BY <1>1 DEF LiquidityInv, Inv, TypeOK, AssetsOK
<1>4. UNIT \in Nat \ {0}
  BY VaultAssumption
<1>5. /\ t = Stable => Part(t, pool, maximise) = (pool * q) \div UNIT
      /\ t # Stable => Part(t, pool, maximise) = ((pool - reservedAmounts[Index]) * q) \div UNIT
  BY <1>1 DEF Part
<1> HIDE DEF q
<1>6. pool * q \in Int /\ (pool - reservedAmounts[Index]) * q \in Int
  BY <1>2, <1>3
<1>7. (pool * q) \div UNIT \in Int /\ ((pool - reservedAmounts[Index]) * q) \div UNIT \in Int
  BY <1>4, <1>6, DivBounds
<1> QED BY <1>5, <1>7

\* The gross value is the sum of its parts.
LEMMA GrossParts ==
    ASSUME LiquidityInv, NEW maximise \in BOOLEAN
    PROVE  /\ Gross(maximise)
              = aumAdjustment[1] + Part(Stable, poolAmounts[Stable], maximise)
                + (guaranteedUsd + Part(Index, poolAmounts[Index], maximise))
           /\ aumAdjustment[1] \in Nat /\ guaranteedUsd \in Nat
           /\ Part(Stable, poolAmounts[Stable], maximise) \in Int
           /\ Part(Index, poolAmounts[Index], maximise) \in Int
<1>1. Index # Stable /\ Index \in Token /\ Stable \in Token
  BY VaultAssumption DEF Token
<1>2. /\ aumAdjustment[1] \in Nat /\ guaranteedUsd \in Nat
      /\ poolAmounts[Stable] \in Int /\ poolAmounts[Index] \in Int
  BY <1>1 DEF LiquidityInv, ManagerTypeOK, Inv, TypeOK, AssetsOK, TotalsOK
<1> QED BY <1>1, <1>2, PartInt DEF Gross, IndexAum, Part

\* When only the pool of one token changes, so does only its part.
LEMMA GrossAfter ==
    ASSUME LiquidityInv, NEW t \in Token, NEW pool \in Int, NEW maximise \in BOOLEAN,
           poolAmounts' = [poolAmounts EXCEPT ![t] = pool],
           UNCHANGED <<price, guaranteedUsd, reservedAmounts, aumAdjustment>>
    PROVE  /\ Gross(maximise)' \in Int
           /\ Gross(maximise)' - Gross(maximise)
                = Part(t, pool, maximise) - Part(t, poolAmounts[t], maximise)
<1>1. Index # Stable /\ Index \in Token /\ Stable \in Token /\ (t = Index \/ t = Stable)
  BY VaultAssumption DEF Token
<1>2. poolAmounts \in [Token -> Nat]
  BY DEF LiquidityInv, Inv, TypeOK, AssetsOK
<1> DEFINE a == Part(Stable, poolAmounts'[Stable], maximise)
           b == Part(Index, poolAmounts'[Index], maximise)
<1>3. Gross(maximise)' = aumAdjustment[1] + a + (guaranteedUsd + b)
  BY <1>1 DEF Gross, IndexAum, Part, Quote, MinPrice, MaxPrice
<1>4. t = Stable => /\ a = Part(t, pool, maximise)
                    /\ b = Part(Index, poolAmounts[Index], maximise)
  BY <1>1, <1>2
<1>5. t = Index => /\ b = Part(t, pool, maximise)
                   /\ a = Part(Stable, poolAmounts[Stable], maximise)
  BY <1>1, <1>2
<1>6. Part(t, pool, maximise) \in Int
  BY PartInt
<1> HIDE DEF a, b
<1>7. CASE t = Stable
  BY <1>3, <1>4, <1>6, <1>7, GrossParts
<1>8. CASE t = Index
  BY <1>3, <1>5, <1>6, <1>8, GrossParts
<1> QED BY <1>1, <1>7, <1>8

\* The value after a call that leaves the shorts and the settings alone.
LEMMA AumAfter ==
    ASSUME NEW maximise \in BOOLEAN,
           UNCHANGED <<price, shortVars, trackerVars, managerSettings>>
    PROVE  Aum(maximise)' = Monus(Monus(Gross(maximise)', ShortPnl(Quote(maximise, Index))),
                                  aumAdjustment[2])
BY DEF Aum, Gross, Quote, ShortPnl, AverageShortPrice, UsesTracker, shortVars, trackerVars,
       managerSettings, MinPrice, MaxPrice

\* A deposit leaves every share worth at least what it was.
LEMMA DepositKeepsValue ==
    ASSUME LiquidityInv, NEW account \in Accounts, NEW t \in Token, NEW sent \in Nat,
           AddLiquidity(account, t, sent), NEW maximise \in BOOLEAN
    PROVE  Aum(maximise)' * brrrSupply >= Aum(maximise) * brrrSupply'
<1> DEFINE x == AfterFee(Received(t, sent), MintBurnFeeBps)
           u == TokenToUsdMin(t, x)
           value == Aum(maximise)
           after == Aum(maximise)'
           top == Aum(TRUE)
           mint == MintedShares(u)
           pnl == ShortPnl(Quote(maximise, Index))
<1>1. HasAum /\ BuyUSDP(t, sent) /\ UNCHANGED <<managerSettings, trackerVars>>
      /\ brrrSupply' = brrrSupply + MintedShares(usdpSupply' - usdpSupply)
  BY DEF AddLiquidity
<1>2. Received(t, sent) \in Nat
  BY <1>1, TransferInType DEF BuyUSDP, LiquidityInv, Inv, TypeOK
<1>3. x \in Nat
  BY <1>2, AfterFeeBound, VaultAssumption
<1>4. u \in Nat
  BY <1>3, ConversionNat DEF LiquidityInv, Inv, TypeOK
<1>5. /\ poolAmounts' = [poolAmounts EXCEPT ![t] = @ + x]
      /\ usdpSupply' = usdpSupply + u
      /\ UNCHANGED <<price, guaranteedUsd, reservedAmounts, shortVars>>
  BY <1>1 DEF BuyUSDP, envVars
<1>6. usdpSupply \in Nat /\ poolAmounts[t] \in Nat /\ brrrSupply \in Nat
  BY DEF LiquidityInv, ManagerTypeOK, Inv, TypeOK, UsdpOK, AssetsOK
<1>7. value \in Nat /\ top \in Nat /\ value <= top
  BY <1>1, AumNat, AumOrdered
<1>8. /\ value = Monus(Monus(Gross(maximise), pnl), aumAdjustment[2])
      /\ after = Monus(Monus(Gross(maximise)', pnl), aumAdjustment[2])
  BY <1>1, <1>5, AumNat, AumAfter
<1>9. Gross(maximise) \in Nat /\ pnl \in Int /\ aumAdjustment[2] \in Nat
  BY <1>1, GrossNat, QuoteNat, ShortPnlInt DEF Token, LiquidityInv, ManagerTypeOK
<1> HIDE DEF x, u, value, after, top, mint, pnl
<1>10. poolAmounts[t] + x \in Int
  BY <1>3, <1>6
<1>11. /\ Gross(maximise)' \in Int
       /\ Gross(maximise)' - Gross(maximise)
            = Part(t, poolAmounts[t] + x, maximise) - Part(t, poolAmounts[t], maximise)
  BY <1>1, <1>5, <1>10, GrossAfter DEF managerSettings
<1>12. Part(t, poolAmounts[t], maximise) + u <= Part(t, poolAmounts[t] + x, maximise)
  BY <1>3, PartGrows DEF u
<1>13. Gross(maximise)' \in Int /\ Gross(maximise) + u <= Gross(maximise)'
  <2>1. /\ Part(t, poolAmounts[t] + x, maximise) \in Int
        /\ Part(t, poolAmounts[t], maximise) \in Int
    BY <1>6, <1>10, PartInt
  <2> QED BY <1>4, <1>9, <1>11, <1>12, <2>1
<1>14. value = 0 \/ value + u <= after
  BY <1>4, <1>8, <1>9, <1>13, ValueAdded
<1>15. after \in Nat
  BY <1>8, <1>9, <1>13 DEF Monus
<1>16. brrrSupply' = brrrSupply + mint
  BY <1>1, <1>4, <1>5, <1>6 DEF mint
<1>17. CASE value = 0
  <2>1. mint \in Nat
    <3>1. u * brrrSupply \in Nat
      BY <1>4, <1>6
    <3>2. top # 0 => (u * brrrSupply) \div top \in Nat
      BY <1>7, <3>1, DivNat
    <3> QED BY <1>4, <3>2 DEF mint, MintedShares, top
  <2>2. after * brrrSupply \in Nat /\ value * brrrSupply' = 0
    BY <1>6, <1>15, <1>16, <1>17, <2>1
  <2> QED BY <2>2 DEF value, after
<1>18. CASE value # 0
  <2>1. top \in Nat \ {0}
    BY <1>7, <1>18
  <2>2. mint = IF top = 0 THEN u ELSE (u * brrrSupply) \div top
    BY DEF mint, MintedShares, top
  <2>3. mint = (u * brrrSupply) \div top
    BY <2>1, <2>2
  <2>4. u * brrrSupply \in Nat
    BY <1>4, <1>6
  <2>5. mint \in Nat /\ top * mint <= u * brrrSupply
    BY <2>1, <2>3, <2>4, DivNat
  <2>6. value * mint <= top * mint
    BY <1>7, <2>5, ProductMonotone
  <2>7. (value + u) * brrrSupply <= after * brrrSupply
    BY <1>4, <1>6, <1>7, <1>14, <1>15, <1>18, ProductMonotone
  <2>8. (value + u) * brrrSupply = value * brrrSupply + u * brrrSupply
    BY <1>4, <1>6, <1>7
  <2>9. value * (brrrSupply + mint) = value * brrrSupply + value * mint
    BY <1>6, <1>7, <2>5
  <2>10. /\ value * brrrSupply \in Nat /\ value * mint \in Nat /\ top * mint \in Nat
         /\ after * brrrSupply \in Nat
    BY <1>6, <1>7, <1>15, <2>5
  <2>11. value * (brrrSupply + mint) <= after * brrrSupply
    BY <2>4, <2>5, <2>6, <2>7, <2>8, <2>9, <2>10
  <2>12. value * brrrSupply' <= after * brrrSupply
    BY <1>16, <2>11
  <2> QED BY <2>10, <2>12 DEF value, after
<1> QED BY <1>17, <1>18

\* A redemption leaves every share that stays worth at least what it was.
LEMMA RedemptionKeepsValue ==
    ASSUME LiquidityInv, NEW account \in Accounts, NEW t \in Token, NEW amount \in Nat,
           RemoveLiquidity(account, t, amount), NEW maximise \in BOOLEAN
    PROVE  Aum(maximise)' * brrrSupply >= Aum(maximise) * brrrSupply'
<1> DEFINE value == Aum(maximise)
           after == Aum(maximise)'
           bottom == Aum(FALSE)
           usdp == (amount * bottom) \div brrrSupply
           r == UsdToTokenMin(t, usdp)
           pnl == ShortPnl(Quote(maximise, Index))
<1>1. /\ HasAum /\ Redeem(t, usdp) /\ UNCHANGED <<managerSettings, trackerVars>>
      /\ amount > 0 /\ amount <= brrrSupply /\ brrrSupply' = brrrSupply - amount
  BY DEF RemoveLiquidity
<1>2. brrrSupply \in Nat \ {0} /\ poolAmounts[t] \in Nat /\ reservedAmounts[t] \in Nat
  BY <1>1 DEF LiquidityInv, ManagerTypeOK, Inv, TypeOK, AssetsOK
<1>3. value \in Nat /\ bottom \in Nat /\ bottom <= value
  BY <1>1, AumNat, AumOrdered
<1> HIDE DEF bottom
<1>4. amount * bottom \in Nat
  BY <1>3
<1>5. usdp \in Nat /\ brrrSupply * usdp <= amount * bottom
  BY <1>2, <1>4, DivNat
<1>6. r \in Nat
  BY <1>5, ConversionNat DEF LiquidityInv, Inv, TypeOK
<1>7. /\ poolAmounts' = [poolAmounts EXCEPT ![t] = @ - r]
      /\ reservedAmounts[t] <= poolAmounts'[t]
      /\ UNCHANGED <<price, guaranteedUsd, reservedAmounts, shortVars>>
  BY <1>1 DEF Redeem, ReserveHolds, envVars
<1>8. reservedAmounts[t] <= poolAmounts[t] - r
  BY <1>7 DEF LiquidityInv, Inv, TypeOK, AssetsOK
<1>9. /\ value = Monus(Monus(Gross(maximise), pnl), aumAdjustment[2])
      /\ after = Monus(Monus(Gross(maximise)', pnl), aumAdjustment[2])
  BY <1>1, <1>7, AumNat, AumAfter
<1>10. Gross(maximise) \in Nat /\ pnl \in Int /\ aumAdjustment[2] \in Nat
  BY <1>1, GrossNat, QuoteNat, ShortPnlInt DEF Token, LiquidityInv, ManagerTypeOK
<1>11. Part(t, poolAmounts[t], maximise) - usdp <= Part(t, poolAmounts[t] - r, maximise)
  BY <1>5, <1>8, PartShrinks
<1> HIDE DEF value, after, usdp, r, pnl
<1>12. poolAmounts[t] - r \in Int
  BY <1>2, <1>6
<1>13. /\ Gross(maximise)' \in Int
       /\ Gross(maximise)' - Gross(maximise)
            = Part(t, poolAmounts[t] - r, maximise) - Part(t, poolAmounts[t], maximise)
  BY <1>1, <1>7, <1>12, GrossAfter DEF managerSettings
<1>14. Gross(maximise) - usdp <= Gross(maximise)'
  <2>1. /\ Part(t, poolAmounts[t] - r, maximise) \in Int
        /\ Part(t, poolAmounts[t], maximise) \in Int
    BY <1>2, <1>12, PartInt
  <2> QED BY <1>5, <1>10, <1>11, <1>13, <2>1
<1>15. value - usdp <= after /\ after \in Nat
  <2>1. value - usdp <= after
    BY <1>5, <1>9, <1>10, <1>13, <1>14, ValueTaken
  <2>2. after \in Nat
    BY <1>9, <1>10, <1>13 DEF Monus
  <2> QED BY <2>1, <2>2
<1>16. amount * bottom <= amount * value
  BY <1>3, ProductMonotone
<1>17. (value - usdp) * brrrSupply <= after * brrrSupply
  <2>1. value - usdp \in Int
    BY <1>3, <1>5
  <2> QED BY <1>2, <1>15, <2>1
<1>18. (value - usdp) * brrrSupply = value * brrrSupply - brrrSupply * usdp
  BY <1>2, <1>3, <1>5
<1>19. value * (brrrSupply - amount) = value * brrrSupply - amount * value
  BY <1>2, <1>3
<1>20. /\ value * brrrSupply \in Nat /\ amount * value \in Nat
       /\ brrrSupply * usdp \in Nat /\ after * brrrSupply \in Nat
  BY <1>2, <1>3, <1>5, <1>15
<1>21. value * (brrrSupply - amount) <= after * brrrSupply
  BY <1>4, <1>5, <1>16, <1>17, <1>18, <1>19, <1>20
<1>22. value * brrrSupply' <= after * brrrSupply
  BY <1>1, <1>21
<1>23. value * brrrSupply' \in Int
  BY <1>1, <1>2, <1>3
<1> QED BY <1>20, <1>22, <1>23 DEF value, after

-----------------------------------------------------------------------------
(* The invariant is kept.                                                  *)

LEMMA LiquidityInitInv == LiquidityInit => LiquidityInv
<1> SUFFICES ASSUME LiquidityInit PROVE LiquidityInv
  OBVIOUS
<1>1. Init /\ TrackerInit
  BY DEF LiquidityInit, TradingInit
<1>2. Inv
  BY <1>1, InitInv
<1>3. QuotesOrdered
  BY <1>1, VaultAssumption DEF Init, QuotesOrdered, MinPrice, MaxPrice
<1>4. TrackerTypeOK
  BY <1>1 DEF TrackerInit, TrackerTypeOK
<1>5. ManagerTypeOK
  <2>1. usdpSupply = 0
    BY <1>1 DEF Init
  <2>2. shortsTrackerAveragePriceWeight \in Nat
    BY BrrrManagerAssumption DEF LiquidityInit
  <2> QED BY <2>1, <2>2 DEF LiquidityInit, ManagerTypeOK
<1> QED BY <1>2, <1>3, <1>4, <1>5 DEF LiquidityInv

\* Calls that leave the feed alone leave its quotes in order.
LEMMA QuotesKept ==
    ASSUME QuotesOrdered, UNCHANGED price
    PROVE  QuotesOrdered'
BY DEF QuotesOrdered, MinPrice, MaxPrice

\* An update of the tracker gives a natural average price.
LEMMA TrackerUpdated ==
    ASSUME LiquidityInv, NEW id \in PositionId, NEW sizeDelta \in Nat, NEW markPrice \in Nat,
           NEW isIncrease \in BOOLEAN,
           UpdateGlobalShortData(id, sizeDelta, markPrice, isIncrease)
    PROVE  /\ trackedAveragePrice' \in Nat /\ isGlobalShortDataReady' \in BOOLEAN
           /\ lastUpdated' \in Nat
<1>1. /\ trackedAveragePrice \in Nat /\ isGlobalShortDataReady \in BOOLEAN
      /\ lastUpdated \in Nat /\ globalShortSize \in Nat /\ EnvOK
      /\ positions[id] \in Position
  BY DEF LiquidityInv, TrackerTypeOK, Inv, TypeOK, TotalsOK, PositionsOK
<1>2. isGlobalShortDataReady' \in BOOLEAN /\ lastUpdated' \in Nat
  BY <1>1 DEF UpdateGlobalShortData
<1>3. CASE UNCHANGED trackedAveragePrice
  BY <1>1, <1>2, <1>3
<1>4. CASE /\ CanTrack(id, sizeDelta, markPrice, isIncrease)
           /\ trackedAveragePrice' = NextTrackedPrice(id, sizeDelta, markPrice, isIncrease)
  <2> DEFINE next == NextShortSize(sizeDelta, isIncrease)
             divisor == TrackedDivisor(id, sizeDelta, markPrice, isIncrease)
  <2>1. next \in Nat
    BY <1>1, <1>4 DEF CanTrack, NextShortSize
  <2>2. CASE next = 0 \/ trackedAveragePrice = 0
    BY <1>2, <1>4, <2>2 DEF NextTrackedPrice
  <2>3. CASE next # 0 /\ trackedAveragePrice # 0
    <3>1. divisor > 0
      BY <1>4, <2>3 DEF CanTrack
    <3>2. Pnl(globalShortSize, trackedAveragePrice, markPrice) \in Int
      BY <1>1, <2>3, PnlInt
    <3>3. ~isIncrease => RealisedPnl(id, sizeDelta) \in Int
      <4> HAVE ~isIncrease
      <4>1. positions[id].size \in Nat \ {0} /\ positions[id].averagePrice > 0
        BY <1>1, <1>4 DEF CanTrack, Position
      <4>2. Delta(id, positions[id]) \in Nat
        BY <1>1, <4>1, DeltaNat
      <4>3. sizeDelta * Delta(id, positions[id]) \in Nat
        BY <4>2
      <4>4. (sizeDelta * Delta(id, positions[id])) \div positions[id].size \in Nat
        BY <4>1, <4>3, DivNat
      <4> QED BY <4>4 DEF RealisedPnl
    <3>4. divisor \in Int
      BY <2>1, <3>2, <3>3 DEF TrackedDivisor
    <3>5. trackedAveragePrice' = (markPrice * next) \div divisor
      BY <1>4, <2>3 DEF NextTrackedPrice
    <3> HIDE DEF next, divisor
    <3>6. divisor \in Nat \ {0} /\ markPrice * next \in Nat
      BY <2>1, <3>1, <3>4
    <3> QED BY <1>2, <3>5, <3>6, DivNat
  <2> QED BY <2>2, <2>3
<1> QED BY <1>3, <1>4 DEF UpdateGlobalShortData

\* The histories keep their types.
LEMMA TradedType ==
    ASSUME LiquidityInv, NEW missed, Traded(missed)
    PROVE  untracked' \in BOOLEAN /\ trades' \in Nat
<1>1. trades' = trades + 1 /\ trades \in Nat
  BY DEF Traded, LiquidityInv, TrackerTypeOK
<1>2. untracked' \in BOOLEAN
  BY Zenon DEF Traded
<1> QED BY <1>1, <1>2

\* A keeper's trade.
LEMMA KeeperTradeInv ==
    ASSUME LiquidityInv, KeeperTrade
    PROVE  Inv' /\ TrackerTypeOK' /\ UNCHANGED price
<1> PICK id \in PositionId :
        \/ \E sent \in Deposits[CollateralToken(id)] \cup {0}, sizeDelta \in SizeDeltas :
               KeeperIncrease(id, sent, sizeDelta)
        \/ \E collateralDelta \in CollateralDeltas, sizeDelta \in SizeDeltas :
               KeeperDecrease(id, collateralDelta, sizeDelta)
        \/ KeeperLiquidate(id)
  BY DEF KeeperTrade
<1>1. Inv /\ isLeverageEnabled \in BOOLEAN /\ EnvOK /\ positions[id].size \in Nat
  BY DEF LiquidityInv, Inv, TypeOK, EnvOK, PositionsOK, Position
<1>2. /\ Deposits[CollateralToken(id)] \cup {0} \subseteq Nat
      /\ SizeDeltas \subseteq Nat /\ CollateralDeltas \subseteq Nat
  <2>1. CollateralToken(id) \in Token
    BY DEF CollateralToken, Token
  <2> QED BY <2>1, VaultAssumption
<1>3. MinPrice(Index) \in Nat /\ MaxPrice(Index) \in Nat
  BY <1>1, PriceNat DEF Token
<1>4. LeverageBracket => isLeverageEnabled' \in BOOLEAN
  BY <1>1 DEF LeverageBracket
<1>5. CASE \E sent \in Deposits[CollateralToken(id)] \cup {0}, sizeDelta \in SizeDeltas :
               KeeperIncrease(id, sent, sizeDelta)
  <2> PICK sent \in Deposits[CollateralToken(id)] \cup {0}, sizeDelta \in SizeDeltas :
               KeeperIncrease(id, sent, sizeDelta)
    BY <1>5
  <2>1. sent \in Nat /\ sizeDelta \in Nat
    BY <1>2
  <2>2. /\ UpdateGlobalShortData(id, sizeDelta, MinPrice(Index), TRUE)
        /\ Increase(id, sent, sizeDelta) /\ LeverageBracket /\ Traded(Inexact(id, TRUE))
    BY DEF KeeperIncrease
  <2>3. Inv'
    BY <1>1, <1>4, <2>1, <2>2, IncreaseInv
  <2>4. TrackerTypeOK'
    BY <1>3, <2>1, <2>2, TrackerUpdated, TradedType DEF TrackerTypeOK
  <2>5. UNCHANGED price
    BY <2>2 DEF Increase, envVars
  <2> QED BY <2>3, <2>4, <2>5
<1>6. CASE \E collateralDelta \in CollateralDeltas, sizeDelta \in SizeDeltas :
               KeeperDecrease(id, collateralDelta, sizeDelta)
  <2> PICK collateralDelta \in CollateralDeltas, sizeDelta \in SizeDeltas :
               KeeperDecrease(id, collateralDelta, sizeDelta)
    BY <1>6
  <2>1. collateralDelta \in Nat /\ sizeDelta \in Nat
    BY <1>2
  <2>2. /\ UpdateGlobalShortData(id, sizeDelta, MaxPrice(Index), FALSE)
        /\ Decrease(id, collateralDelta, sizeDelta) /\ LeverageBracket
        /\ Traded(Inexact(id, FALSE))
    BY DEF KeeperDecrease
  <2>3. Inv'
    BY <1>1, <1>4, <2>1, <2>2, DecreaseInv
  <2>4. TrackerTypeOK'
    BY <1>3, <2>1, <2>2, TrackerUpdated, TradedType DEF TrackerTypeOK
  <2>5. UNCHANGED price
    BY <2>2 DEF Decrease, envVars
  <2> QED BY <2>3, <2>4, <2>5
<1>7. CASE KeeperLiquidate(id)
  <2>1. /\ UpdateGlobalShortData(id, positions[id].size, MaxPrice(Index), FALSE)
        /\ LiquidateOrClose(id) /\ LeverageBracket /\ Traded(Inexact(id, FALSE))
    BY <1>7 DEF KeeperLiquidate
  <2>2. Inv'
    BY <1>1, <1>4, <2>1, LiquidateOrCloseInv
  <2>3. TrackerTypeOK'
    BY <1>1, <1>3, <2>1, TrackerUpdated, TradedType DEF TrackerTypeOK
  <2>4. UNCHANGED price
    BY <2>1 DEF LiquidateOrClose, Liquidate, Decrease, envVars
  <2> QED BY <2>2, <2>3, <2>4
<1> QED BY <1>5, <1>6, <1>7

\* A trade behind the tracker's back.
LEMMA DirectTradeInv ==
    ASSUME LiquidityInv, DirectTrade
    PROVE  Inv' /\ TrackerTypeOK' /\ UNCHANGED price
<1>1. PositionCall /\ Traded(TRUE) /\ UNCHANGED trackerVars
  BY DEF DirectTrade
<1>2. Inv'
  BY <1>1, PositionCallInv DEF LiquidityInv
<1>3. TrackerTypeOK'
  BY <1>1, TradedType DEF LiquidityInv, TrackerTypeOK, trackerVars
<1>4. UNCHANGED price
  BY <1>1, TradePriceKept
<1> QED BY <1>2, <1>3, <1>4

\* Governance of the tracker.
LEMMA TrackerGovCallInv ==
    ASSUME LiquidityInv, TrackerGovCall
    PROVE  Inv' /\ TrackerTypeOK' /\ UNCHANGED vars
<1>1. AveragePrices \subseteq Nat /\ ReadySettings \subseteq BOOLEAN
  BY ShortsTrackerAssumption
<1>2. TrackerTypeOK /\ now \in Nat /\ Inv
  BY DEF LiquidityInv, Inv, TypeOK, EnvOK
<1>3. UNCHANGED vars
  BY DEF TrackerGovCall, SetIsGlobalShortDataReady, SetInitData, SetGlobalShortAveragePrice
<1>4. TrackerTypeOK'
  <2>1. \/ \E value \in ReadySettings : SetIsGlobalShortDataReady(value)
        \/ \E averagePrice \in AveragePrices : SetInitData(averagePrice)
        \/ \E averagePrice \in AveragePrices : SetGlobalShortAveragePrice(averagePrice)
    BY DEF TrackerGovCall
  <2>2. CASE \E value \in ReadySettings : SetIsGlobalShortDataReady(value)
    BY <1>1, <1>2, <2>2 DEF SetIsGlobalShortDataReady, TrackerTypeOK
  <2>3. CASE \E averagePrice \in AveragePrices : SetInitData(averagePrice)
    BY <1>1, <1>2, <2>3 DEF SetInitData, TrackerTypeOK
  <2>4. CASE \E averagePrice \in AveragePrices : SetGlobalShortAveragePrice(averagePrice)
    BY <1>1, <1>2, <2>4 DEF SetGlobalShortAveragePrice, TrackerTypeOK
  <2> QED BY <2>1, <2>2, <2>3, <2>4
<1>5. Inv'
  BY <1>2, <1>3, StutterInv
<1> QED BY <1>3, <1>4, <1>5

\* A call of the vault that is no trade.
LEMMA VaultCallInv ==
    ASSUME LiquidityInv, VaultCall
    PROVE  Inv' /\ TrackerTypeOK' /\ UNCHANGED price
<1>1. PoolCall \/ GovCall
  BY DEF VaultCall
<1>2. Inv'
  BY <1>1, PoolCallInv, GovCallInv DEF LiquidityInv
<1>3. TrackerTypeOK'
  BY DEF VaultCall, LiquidityInv, TrackerTypeOK, trackerVars
<1>4. UNCHANGED price
  BY <1>1, PoolPriceKept, GovPriceKept
<1> QED BY <1>2, <1>3, <1>4

\* A call of a user or a keeper other than to the manager.
LEMMA UserCallInv ==
    ASSUME LiquidityInv, UserCall, calls' \in Nat
    PROVE  LiquidityInv'
<1>1. TradingCall /\ UNCHANGED managerVars
  BY DEF UserCall
<1>2. Inv' /\ TrackerTypeOK' /\ UNCHANGED price
  <2>1. TrackerGovCall => UNCHANGED price
    BY TrackerGovCallInv DEF vars, envVars
  <2> QED BY <1>1, <2>1, KeeperTradeInv, DirectTradeInv, TrackerGovCallInv, VaultCallInv
          DEF TradingCall
<1>3. QuotesOrdered'
  BY <1>2, QuotesKept DEF LiquidityInv
<1>4. usdpBalance' <= usdpSupply'
  BY <1>1 DEF UserCall, LiquidityInv, ManagerTypeOK, managerVars
<1>5. ManagerTypeOK'
  BY <1>1, <1>4 DEF LiquidityInv, ManagerTypeOK, managerVars, managerSettings
<1> QED BY <1>2, <1>3, <1>5 DEF LiquidityInv

\* A deposit.
LEMMA AddLiquidityInv ==
    ASSUME LiquidityInv, NEW account \in Accounts, NEW t \in Token, NEW sent \in Nat,
           AddLiquidity(account, t, sent), calls' \in Nat
    PROVE  LiquidityInv'
<1> DEFINE x == AfterFee(Received(t, sent), MintBurnFeeBps)
           u == TokenToUsdMin(t, x)
           top == Aum(TRUE)
<1>1. /\ HasAum /\ BuyUSDP(t, sent)
      /\ usdpBalance' = usdpBalance + usdpSupply' - usdpSupply
      /\ brrrSupply' = brrrSupply + MintedShares(usdpSupply' - usdpSupply)
      /\ lastAddedAt' = [lastAddedAt EXCEPT ![account] = now]
      /\ UNCHANGED <<managerSettings, usdpUnbacked, trackerVars, untracked, trades>>
  BY DEF AddLiquidity
<1>2. Inv'
  BY <1>1, BuyUSDPInv DEF LiquidityInv
<1>3. TrackerTypeOK'
  BY <1>1 DEF LiquidityInv, TrackerTypeOK, trackerVars
<1>4. QuotesOrdered'
  BY <1>1, QuotesKept DEF LiquidityInv, BuyUSDP, envVars
<1>5. Received(t, sent) \in Nat
  BY <1>1, TransferInType DEF BuyUSDP, LiquidityInv, Inv, TypeOK
<1>6. x \in Nat
  BY <1>5, AfterFeeBound, VaultAssumption
<1>7. u \in Nat
  BY <1>6, ConversionNat DEF LiquidityInv, Inv, TypeOK
<1>8. usdpSupply' = usdpSupply + u
  BY <1>1 DEF BuyUSDP
<1>9. /\ usdpSupply \in Nat /\ usdpBalance \in Nat /\ usdpBalance <= usdpSupply
      /\ brrrSupply \in Nat /\ now \in Nat
  BY DEF LiquidityInv, ManagerTypeOK, Inv, TypeOK, UsdpOK, EnvOK
<1>10. top \in Nat
  BY <1>1, AumNat
<1> HIDE DEF x, u
<1>11. MintedShares(u) = IF top = 0 THEN u ELSE (u * brrrSupply) \div top
  BY DEF MintedShares
<1> HIDE DEF top
<1>12. MintedShares(u) \in Nat
  <2>1. u * brrrSupply \in Nat
    BY <1>7, <1>9
  <2> QED BY <1>7, <1>10, <1>11, <2>1, DivNat
<1>13. usdpSupply' - usdpSupply = u
  BY <1>7, <1>8, <1>9
<1>14. /\ usdpBalance' = usdpBalance + u
       /\ brrrSupply' = brrrSupply + MintedShares(u)
  BY <1>1, <1>7, <1>8, <1>9, <1>13
<1>15. /\ brrrSupply' \in Nat /\ usdpBalance' \in Nat /\ usdpBalance' <= usdpSupply'
  BY <1>7, <1>8, <1>9, <1>12, <1>14
<1>16. ManagerTypeOK'
  BY <1>1, <1>9, <1>15 DEF LiquidityInv, ManagerTypeOK, managerSettings
<1> QED BY <1>2, <1>3, <1>4, <1>16 DEF LiquidityInv

\* A redemption.
LEMMA RemoveLiquidityInv ==
    ASSUME LiquidityInv, NEW account \in Accounts, NEW t \in Token, NEW amount \in Nat,
           RemoveLiquidity(account, t, amount), calls' \in Nat
    PROVE  LiquidityInv'
<1> DEFINE bottom == Aum(FALSE)
           usdp == (amount * bottom) \div brrrSupply
           minted == Monus(usdp, usdpBalance)
<1>1. /\ HasAum /\ Redeem(t, usdp) /\ amount > 0 /\ amount <= brrrSupply
      /\ usdpSupply' = usdpSupply + minted - usdp
      /\ usdpBalance' = usdpBalance + minted - usdp
      /\ usdpUnbacked' = usdpUnbacked + minted
      /\ brrrSupply' = brrrSupply - amount
      /\ UNCHANGED <<lastAddedAt, managerSettings, trackerVars, untracked, trades>>
  BY DEF RemoveLiquidity
<1>2. /\ usdpSupply \in Nat /\ usdpBalance \in Nat /\ usdpBalance <= usdpSupply
      /\ brrrSupply \in Nat \ {0} /\ usdpUnbacked \in Nat
  BY <1>1 DEF LiquidityInv, ManagerTypeOK, Inv, TypeOK, UsdpOK
<1>3. bottom \in Nat
  BY <1>1, AumNat
<1> HIDE DEF bottom
<1>4. amount * bottom \in Nat
  BY <1>3
<1>5. usdp \in Nat
  BY <1>2, <1>4, DivNat
<1> HIDE DEF usdp
<1>6. /\ minted \in Nat /\ usdpBalance + minted - usdp \in Nat
      /\ usdpBalance + minted - usdp <= usdpSupply + minted - usdp
  BY <1>2, <1>5 DEF Monus
<1> HIDE DEF minted
<1>7. /\ usdpSupply' \in Nat /\ usdpBalance' \in Nat /\ usdpBalance' <= usdpSupply'
      /\ usdpUnbacked' \in Nat /\ brrrSupply' \in Nat
  BY <1>1, <1>2, <1>5, <1>6
<1>8. Inv'
  BY <1>1, <1>5, <1>7, RedeemInv DEF LiquidityInv
<1>9. TrackerTypeOK'
  BY <1>1 DEF LiquidityInv, TrackerTypeOK, trackerVars
<1>10. QuotesOrdered'
  BY <1>1, QuotesKept DEF LiquidityInv, Redeem, envVars
<1>11. ManagerTypeOK'
  BY <1>1, <1>7 DEF LiquidityInv, ManagerTypeOK, managerSettings
<1> QED BY <1>8, <1>9, <1>10, <1>11 DEF LiquidityInv

\* A step of governance.
LEMMA ManagerGovCallInv ==
    ASSUME LiquidityInv, ManagerGovCall, calls' \in Nat
    PROVE  LiquidityInv'
<1> USE DEF LiquidityInv
<1>1. /\ AverageWeights \subseteq Nat /\ CooldownSettings \subseteq Nat
      /\ AumAdjustments \subseteq Nat \X Nat /\ UsdpBalances \subseteq Nat
      /\ RedeemedUsdp \subseteq Nat
  BY BrrrManagerAssumption
<1>2. UNCHANGED tradingVars => Inv' /\ TrackerTypeOK' /\ QuotesOrdered' /\ UNCHANGED usdpSupply
  <2> HAVE UNCHANGED tradingVars
  <2>1. UNCHANGED vars /\ UNCHANGED <<trackerVars, untracked, trades>>
    BY DEF tradingVars
  <2>2. Inv'
    BY <2>1, StutterInv
  <2>3. TrackerTypeOK'
    BY <2>1 DEF TrackerTypeOK, trackerVars
  <2>4. UNCHANGED <<price, usdpSupply>>
    BY <2>1 DEF vars, envVars, usdpVars
  <2> QED BY <2>2, <2>3, <2>4, QuotesKept
<1>3. CASE \E weight \in AverageWeights : SetShortsTrackerAveragePriceWeight(weight)
  BY <1>1, <1>2, <1>3 DEF SetShortsTrackerAveragePriceWeight, ManagerTypeOK
<1>4. CASE \E duration \in CooldownSettings : SetCooldownDuration(duration)
  BY <1>1, <1>2, <1>4 DEF SetCooldownDuration, ManagerTypeOK
<1>5. CASE \E adjustment \in AumAdjustments : SetAumAdjustment(adjustment)
  BY <1>1, <1>2, <1>5 DEF SetAumAdjustment, ManagerTypeOK
<1>6. CASE \E amount \in UsdpBalances : UpdateUsdpSupply(amount)
  <2> PICK amount \in UsdpBalances : UpdateUsdpSupply(amount)
    BY <1>6
  <2>1. /\ usdpBalance' = amount /\ usdpSupply' = usdpSupply - usdpBalance + amount
        /\ usdpUnbacked' = usdpUnbacked + Monus(amount, usdpBalance)
        /\ UNCHANGED <<assetVars, guaranteedUsd, usdpAmounts, positions, shortVars,
                       fundingVars, isLeverageEnabled, envVars, unbackedFees, inflow,
                       trackerVars, untracked, trades, brrrSupply, lastAddedAt,
                       managerSettings>>
    BY DEF UpdateUsdpSupply
  <2>2. amount \in Nat /\ usdpSupply \in Nat /\ usdpBalance \in Nat
        /\ usdpBalance <= usdpSupply /\ usdpUnbacked \in Nat
    BY <1>1 DEF ManagerTypeOK, Inv, TypeOK, UsdpOK
  <2>9. usdpBalance' = amount /\ usdpSupply' = usdpSupply - usdpBalance + amount
    BY <2>1
  <2>10. usdpSupply' \in Nat /\ usdpBalance' \in Nat /\ usdpBalance' <= usdpSupply'
    BY <2>2, <2>9
  <2>11. Monus(amount, usdpBalance) \in Nat
    BY <2>2 DEF Monus
  <2>12. usdpUnbacked' = usdpUnbacked + Monus(amount, usdpBalance)
    BY <2>1
  <2>13. usdpUnbacked' \in Nat
    BY <2>2, <2>11, <2>12
  <2>3. /\ usdpSupply' \in Nat /\ usdpBalance' \in Nat /\ usdpBalance' <= usdpSupply'
        /\ usdpUnbacked' \in Nat
    BY <2>10, <2>13
  <2>4. AssetsOK' /\ ReservedBacked' /\ UsdpOK' /\ FundingOK' /\ TotalsOK' /\ EnvOK'
    BY <2>1, <2>3 DEF Inv, TypeOK, AssetsOK, ReservedBacked, UsdpOK, FundingOK, TotalsOK,
                      EnvOK, assetVars, fundingVars, shortVars, envVars
  <2>5. PositionsOK'
    BY <2>1, PositionsSame DEF Inv, TypeOK
  <2>6. TrackerTypeOK'
    BY <2>1 DEF TrackerTypeOK, trackerVars
  <2>7. QuotesOrdered'
    BY <2>1, QuotesKept DEF envVars
  <2>8. ManagerTypeOK'
    BY <2>1, <2>3 DEF ManagerTypeOK, managerSettings
  <2> QED BY <2>4, <2>5, <2>6, <2>7, <2>8 DEF Inv, TypeOK
<1>7. CASE \E t \in Token, amount \in RedeemedUsdp : RedeemUsdp(t, amount)
  <2> PICK t \in Token, amount \in RedeemedUsdp : RedeemUsdp(t, amount)
    BY <1>7
  <2>1. /\ Redeem(t, amount) /\ usdpUnbacked' = usdpUnbacked + amount
        /\ UNCHANGED <<usdpSupply, trackerVars, untracked, trades, brrrSupply, usdpBalance,
                       lastAddedAt, managerSettings>>
    BY DEF RedeemUsdp
  <2>2. amount \in Nat /\ usdpSupply' \in Nat
    BY <1>1, <2>1 DEF Inv, TypeOK, UsdpOK
  <2>3. Inv'
    BY <2>1, <2>2, RedeemInv
  <2>4. TrackerTypeOK'
    BY <2>1 DEF TrackerTypeOK, trackerVars
  <2>5. QuotesOrdered'
    BY <2>1, QuotesKept DEF Redeem, envVars
  <2>6. ManagerTypeOK'
    BY <2>1, <2>2 DEF ManagerTypeOK, managerSettings
  <2> QED BY <2>3, <2>4, <2>5, <2>6
<1> QED BY <1>3, <1>4, <1>5, <1>6, <1>7 DEF ManagerGovCall

\* A step of the world outside.
LEMMA OutsideInv ==
    ASSUME LiquidityInv, Outside, UNCHANGED <<managerVars, calls>>
    PROVE  LiquidityInv'
<1>1. Environment /\ UNCHANGED <<trackerVars, untracked, trades>>
  BY DEF Outside
<1>2. Inv'
  BY <1>1, EnvironmentInv DEF LiquidityInv
<1>3. TrackerTypeOK'
  BY <1>1 DEF LiquidityInv, TrackerTypeOK, trackerVars
<1>4. UNCHANGED usdpSupply
  BY <1>1 DEF Environment, SendTokens, SetPrice, Tick, usdpVars
<1>5. ManagerTypeOK'
  BY <1>4 DEF LiquidityInv, ManagerTypeOK, managerVars, managerSettings
<1>6. QuotesOrdered'
  <2>1. CASE UNCHANGED price
    BY <2>1, QuotesKept DEF LiquidityInv
  <2>2. CASE \E t \in Token : \E quote \in Prices[t] : SetPrice(t, quote)
    <3> PICK t \in Token : \E quote \in Prices[t] : SetPrice(t, quote)
      BY <2>2
    <3> PICK quote \in Prices[t] : SetPrice(t, quote)
      OBVIOUS
    <3>1. price' = [price EXCEPT ![t] = quote]
      BY DEF SetPrice
    <3>2. quote[1] <= quote[2]
      BY VaultAssumption
    <3>3. DOMAIN price = Token
      BY DEF LiquidityInv, Inv, TypeOK, EnvOK
    <3> QED BY <3>1, <3>2, <3>3 DEF LiquidityInv, QuotesOrdered, MinPrice, MaxPrice
  <2>3. UNCHANGED price \/ \E t \in Token : \E quote \in Prices[t] : SetPrice(t, quote)
    BY <1>1 DEF Environment, SendTokens, Tick, envVars
  <2> QED BY <2>1, <2>2, <2>3
<1> QED BY <1>2, <1>3, <1>5, <1>6 DEF LiquidityInv

LEMMA LiquidityCallInv ==
    ASSUME LiquidityInv, LiquidityCall, calls' \in Nat
    PROVE  LiquidityInv'
<1> PICK account \in Accounts, t \in Token :
        \/ \E sent \in LiquidityAmounts[t] : AddLiquidity(account, t, sent)
        \/ \E amount \in BrrrAmounts \cup {brrrSupply} : RemoveLiquidity(account, t, amount)
  BY DEF LiquidityCall
<1>1. LiquidityAmounts[t] \subseteq Nat /\ BrrrAmounts \cup {brrrSupply} \subseteq Nat
  BY BrrrManagerAssumption DEF LiquidityInv, ManagerTypeOK
<1>2. CASE \E sent \in LiquidityAmounts[t] : AddLiquidity(account, t, sent)
  BY <1>1, <1>2, AddLiquidityInv
<1>3. CASE \E amount \in BrrrAmounts \cup {brrrSupply} : RemoveLiquidity(account, t, amount)
  BY <1>1, <1>3, RemoveLiquidityInv
<1> QED BY <1>2, <1>3

\* Every step.
LEMMA LiquidityStepInv == LiquidityInv /\ [LiquidityNext]_liquidityVars => LiquidityInv'
<1> SUFFICES ASSUME LiquidityInv, [LiquidityNext]_liquidityVars PROVE LiquidityInv'
  OBVIOUS
<1>1. CASE /\ calls < MaxCalls /\ calls' = calls + 1
           /\ LiquidityCall \/ ManagerGovCall \/ UserCall
  <2>1. calls' \in Nat
    BY <1>1 DEF LiquidityInv, ManagerTypeOK
  <2> QED BY <1>1, <2>1, LiquidityCallInv, ManagerGovCallInv, UserCallInv
<1>2. CASE Outside /\ UNCHANGED <<managerVars, calls>>
  BY <1>2, OutsideInv
<1>3. CASE UNCHANGED liquidityVars
  <2>1. UNCHANGED <<vars, trackerVars, untracked, trades, managerVars, calls>>
    BY <1>3 DEF liquidityVars, tradingVars
  <2>2. Inv'
    BY <2>1, StutterInv DEF LiquidityInv
  <2>3. TrackerTypeOK'
    BY <2>1 DEF LiquidityInv, TrackerTypeOK, trackerVars
  <2>4. UNCHANGED <<price, usdpSupply>>
    BY <2>1 DEF vars, envVars, usdpVars
  <2>5. QuotesOrdered'
    BY <2>4, QuotesKept DEF LiquidityInv
  <2>6. ManagerTypeOK'
    BY <2>1, <2>4 DEF LiquidityInv, ManagerTypeOK, managerVars, managerSettings
  <2> QED BY <2>2, <2>3, <2>5, <2>6 DEF LiquidityInv
<1> QED BY <1>1, <1>2, <1>3 DEF LiquidityNext

-----------------------------------------------------------------------------
\* With keepers, direct traders, depositors and governance all acting, no amount
\* underflows, the tracker's average price included, and the manager never holds
\* more USDP than there is.
THEOREM TypesAlways == LiquiditySpec => [](TypeOK /\ TrackerTypeOK /\ ManagerTypeOK)
<1>1. LiquidityInv => TypeOK /\ TrackerTypeOK /\ ManagerTypeOK
  BY DEF LiquidityInv, Inv
<1> QED BY <1>1, LiquidityInitInv, LiquidityStepInv, PTL DEF LiquiditySpec

\* Redemptions and the governance of the manager keep the reserved tokens in the pool
\* as well as the vault's own calls do.
THEOREM ReservedAlways == LiquiditySpec => []ReservedBacked
<1>1. LiquidityInv => ReservedBacked
  BY DEF LiquidityInv, Inv
<1> QED BY <1>1, LiquidityInitInv, LiquidityStepInv, PTL DEF LiquiditySpec

\* The shares' supply changes by a deposit or a redemption only.
LEMMA SupplyStep ==
    ASSUME LiquidityInv, [LiquidityNext]_liquidityVars, brrrSupply' # brrrSupply
    PROVE  LiquidityCall
<1>1. managerVars' # managerVars /\ liquidityVars' # liquidityVars
  BY DEF managerVars, liquidityVars
<1>2. ~ManagerGovCall
  BY DEF ManagerGovCall, SetShortsTrackerAveragePriceWeight, SetCooldownDuration,
         SetAumAdjustment, UpdateUsdpSupply, RedeemUsdp
<1>3. ~UserCall
  BY <1>1 DEF UserCall
<1> QED BY <1>1, <1>2, <1>3 DEF LiquidityNext

\* For every pool, feed, fee and set of positions, a deposit or a redemption takes
\* nothing from the shares of the others.
THEOREM SharesAlwaysKeepValue == LiquiditySpec => SharesKeepValue
<1>1. ASSUME LiquidityInv, [LiquidityNext]_liquidityVars, brrrSupply' # brrrSupply,
             NEW maximise \in BOOLEAN
      PROVE  Aum(maximise)' * brrrSupply >= Aum(maximise) * brrrSupply'
  <2>1. LiquidityCall
    BY <1>1, SupplyStep
  <2> PICK account \in Accounts, t \in Token :
        \/ \E sent \in LiquidityAmounts[t] : AddLiquidity(account, t, sent)
        \/ \E amount \in BrrrAmounts \cup {brrrSupply} : RemoveLiquidity(account, t, amount)
    BY <2>1 DEF LiquidityCall
  <2>2. LiquidityAmounts[t] \subseteq Nat /\ BrrrAmounts \cup {brrrSupply} \subseteq Nat
    BY <1>1, BrrrManagerAssumption DEF LiquidityInv, ManagerTypeOK
  <2>3. CASE \E sent \in LiquidityAmounts[t] : AddLiquidity(account, t, sent)
    BY <1>1, <2>2, <2>3, DepositKeepsValue
  <2>4. CASE \E amount \in BrrrAmounts \cup {brrrSupply} : RemoveLiquidity(account, t, amount)
    BY <1>1, <2>2, <2>4, RedemptionKeepsValue
  <2> QED BY <2>3, <2>4
<1>2. LiquidityInv /\ [LiquidityNext]_liquidityVars
        => [brrrSupply' # brrrSupply =>
              \A maximise \in BOOLEAN :
                  Aum(maximise)' * brrrSupply >= Aum(maximise) * brrrSupply']_liquidityVars
  BY <1>1
<1> QED BY <1>2, LiquidityInitInv, LiquidityStepInv, PTL DEF LiquiditySpec, SharesKeepValue
-----------------------------------------------------------------------------
(* The totals and the solvency of the vault under the keepers' trades and   *)
(* the manager's calls.                                                     *)

\* A keeper's trade is a call of the vault between the switches of the leverage.
LEMMA KeeperTradeCall ==
    ASSUME Inv, KeeperTrade
    PROVE  /\ Inv'
           /\ \E id \in PositionId :
                \/ \E sent \in Nat, sizeDelta \in Nat : Increase(id, sent, sizeDelta)
                \/ \E collateralDelta \in Nat, sizeDelta \in Nat :
                       Decrease(id, collateralDelta, sizeDelta)
                \/ LiquidateOrClose(id)
<1> PICK id \in PositionId :
        \/ \E sent \in Deposits[CollateralToken(id)] \cup {0}, sizeDelta \in SizeDeltas :
               KeeperIncrease(id, sent, sizeDelta)
        \/ \E collateralDelta \in CollateralDeltas, sizeDelta \in SizeDeltas :
               KeeperDecrease(id, collateralDelta, sizeDelta)
        \/ KeeperLiquidate(id)
  BY DEF KeeperTrade
<1>1. isLeverageEnabled \in BOOLEAN
  BY DEF Inv, TypeOK, EnvOK
<1>2. /\ Deposits[CollateralToken(id)] \cup {0} \subseteq Nat
      /\ SizeDeltas \subseteq Nat /\ CollateralDeltas \subseteq Nat
  <2>1. CollateralToken(id) \in Token
    BY DEF CollateralToken, Token
  <2> QED BY <2>1, VaultAssumption
<1>3. LeverageBracket => isLeverageEnabled' \in BOOLEAN
  BY <1>1 DEF LeverageBracket
<1>4. CASE \E sent \in Deposits[CollateralToken(id)] \cup {0}, sizeDelta \in SizeDeltas :
               KeeperIncrease(id, sent, sizeDelta)
  <2> PICK sent \in Nat, sizeDelta \in Nat : KeeperIncrease(id, sent, sizeDelta)
    BY <1>2, <1>4
  <2>1. Increase(id, sent, sizeDelta) /\ LeverageBracket
    BY DEF KeeperIncrease
  <2> QED BY <1>3, <2>1, IncreaseInv
<1>5. CASE \E collateralDelta \in CollateralDeltas, sizeDelta \in SizeDeltas :
               KeeperDecrease(id, collateralDelta, sizeDelta)
  <2> PICK collateralDelta \in Nat, sizeDelta \in Nat :
               KeeperDecrease(id, collateralDelta, sizeDelta)
    BY <1>2, <1>5
  <2>1. Decrease(id, collateralDelta, sizeDelta) /\ LeverageBracket
    BY DEF KeeperDecrease
  <2> QED BY <1>3, <2>1, DecreaseInv
<1>6. CASE KeeperLiquidate(id)
  <2>1. LiquidateOrClose(id) /\ LeverageBracket
    BY <1>6 DEF KeeperLiquidate
  <2> QED BY <1>3, <2>1, LiquidateOrCloseInv
<1> QED BY <1>4, <1>5, <1>6

\* What a trade leaves alone: the prices and the USDP.
LEMMA TradeLeaves ==
    ASSUME NEW id
    PROVE  /\ \A sent, sizeDelta :
                 Increase(id, sent, sizeDelta) => UNCHANGED <<price, usdpVars>>
           /\ \A collateralDelta, sizeDelta :
                 Decrease(id, collateralDelta, sizeDelta) => UNCHANGED <<price, usdpVars>>
           /\ LiquidateOrClose(id) => UNCHANGED <<price, usdpVars>>
<1>1. ASSUME NEW sent, NEW sizeDelta, Increase(id, sent, sizeDelta)
      PROVE  UNCHANGED <<price, usdpVars>>
  BY <1>1 DEF Increase, envVars
<1>2. ASSUME NEW collateralDelta, NEW sizeDelta, Decrease(id, collateralDelta, sizeDelta)
      PROVE  UNCHANGED <<price, usdpVars>>
  BY <1>2 DEF Decrease, envVars
<1>3. ASSUME LiquidateOrClose(id)
      PROVE  UNCHANGED <<price, usdpVars>>
  <2>1. CASE Liquidate(id)
    BY <2>1 DEF Liquidate, envVars
  <2> QED BY <1>2, <1>3, <2>1 DEF LiquidateOrClose
<1> QED BY <1>1, <1>2, <1>3

\* Every call but the manager's own keeps the vault's invariant.
LEMMA TradingCallVault ==
    ASSUME Inv, TradingCall
    PROVE  Inv'
<1>1. TrackerGovCall => UNCHANGED vars
  BY DEF TrackerGovCall, SetIsGlobalShortDataReady, SetInitData, SetGlobalShortAveragePrice
<1> QED BY <1>1, KeeperTradeCall, PositionCallInv, StutterInv, PoolCallInv, GovCallInv
        DEF TradingCall, DirectTrade, VaultCall

\* and the totals,
LEMMA TradingCallTotals ==
    ASSUME Inv, Totals, TradingCall
    PROVE  Totals'
<1>1. Inv'
  BY TradingCallVault
<1>2. KeeperTrade => Totals'
  BY <1>1, KeeperTradeCall, IncreaseTotals, DecreaseTotals, LiquidateOrCloseTotals
<1>3. TrackerGovCall => UNCHANGED vars
  BY DEF TrackerGovCall, SetIsGlobalShortDataReady, SetInitData, SetGlobalShortAveragePrice
<1> QED BY <1>1, <1>2, <1>3, PositionCallTotals, PoolCallTotals, OtherCallTotals
        DEF TradingCall, DirectTrade, VaultCall

\* and what covers the vault's debts, and leaves the feed alone.
LEMMA TradingCallCovered ==
    ASSUME Inv, Covered, StrictStableQuote, TradingCall
    PROVE  Covered' /\ UNCHANGED price
<1>1. Inv'
  BY TradingCallVault
<1>2. KeeperTrade => Covered'
  <2> HAVE KeeperTrade
  <2> PICK id \in PositionId :
        \/ \E sent \in Nat, sizeDelta \in Nat : Increase(id, sent, sizeDelta)
        \/ \E collateralDelta \in Nat, sizeDelta \in Nat :
               Decrease(id, collateralDelta, sizeDelta)
        \/ LiquidateOrClose(id)
    BY KeeperTradeCall
  <2> QED BY <1>1, IncreaseCovered, DecreaseCovered, LiquidateOrCloseCovered
<1>3. KeeperTrade => UNCHANGED price
  <2> HAVE KeeperTrade
  <2> PICK id \in PositionId :
        \/ \E sent \in Nat, sizeDelta \in Nat : Increase(id, sent, sizeDelta)
        \/ \E collateralDelta \in Nat, sizeDelta \in Nat :
               Decrease(id, collateralDelta, sizeDelta)
        \/ LiquidateOrClose(id)
    BY KeeperTradeCall
  <2> QED BY TradeLeaves
<1>4. TrackerGovCall => UNCHANGED vars
  BY DEF TrackerGovCall, SetIsGlobalShortDataReady, SetInitData, SetGlobalShortAveragePrice
<1>5. UNCHANGED vars => UNCHANGED price
  BY DEF vars, envVars
<1>6. TradingCall => KeeperTrade \/ PositionCall \/ PoolCall \/ GovCall \/ UNCHANGED vars
  BY <1>4 DEF TradingCall, DirectTrade, VaultCall
<1>7. Covered'
  BY <1>1, <1>2, <1>6, PositionCallCovered, PoolCallCovered, OtherCallCovered
<1> QED BY <1>3, <1>5, <1>6, <1>7, TradePriceKept, PoolPriceKept, GovPriceKept

\* With the keepers' trades, trades behind the tracker's back and liquidations that turn
\* into closes: the global short size is the sum of the open shorts.
THEOREM ShortsAddUpForKeepers == TradingSpec => []ShortSizesMatch
<1> DEFINE TradingInv == Inv /\ Totals
<1>1. TradingInit => TradingInv
  BY InitInv, InitTotals DEF TradingInit
<1>2. TradingInv /\ [TradingNext]_tradingVars => TradingInv'
  <2> SUFFICES ASSUME Inv, Totals, [TradingNext]_tradingVars PROVE Inv' /\ Totals'
    OBVIOUS
  <2>1. CASE TradingCall
    BY <2>1, TradingCallVault, TradingCallTotals
  <2>2. CASE Environment \/ UNCHANGED vars
    BY <2>2, EnvironmentInv, StutterInv, OtherCallTotals
  <2> QED BY <2>1, <2>2 DEF TradingNext, Outside, tradingVars
<1>3. TradingInv => ShortSizesMatch
  BY DEF Totals
<1> HIDE DEF TradingInv
<1> QED BY <1>1, <1>2, <1>3, PTL DEF TradingSpec

\* A step of the manager keeps the vault covered.
LEMMA LiquidityStepCovered ==
    ASSUME LiquidityInv, LiquidityInv', Covered, StrictStableQuote, StrictStablePrices,
           [LiquidityNext]_liquidityVars
    PROVE  Covered' /\ StrictStableQuote'
<1>1. Inv /\ Inv'
  BY DEF LiquidityInv
<1>2. UNCHANGED price => StrictStableQuote'
  BY DEF StrictStableQuote, MinPrice, MaxPrice
<1>3. CASE LiquidityCall
  <2> PICK account \in Accounts, t \in Token :
        \/ \E sent \in LiquidityAmounts[t] : AddLiquidity(account, t, sent)
        \/ \E amount \in BrrrAmounts \cup {brrrSupply} : RemoveLiquidity(account, t, amount)
    BY <1>3 DEF LiquidityCall
  <2>1. CASE \E sent \in LiquidityAmounts[t] : AddLiquidity(account, t, sent)
    <3> PICK sent \in LiquidityAmounts[t] : AddLiquidity(account, t, sent)
      BY <2>1
    <3>1. sent \in Nat /\ BuyUSDP(t, sent)
      BY BrrrManagerAssumption DEF AddLiquidity
    <3>2. UNCHANGED price
      BY <3>1 DEF BuyUSDP, envVars
    <3> QED BY <1>1, <1>2, <3>1, <3>2, BuyUSDPCovered
  <2>2. CASE \E amount \in BrrrAmounts \cup {brrrSupply} : RemoveLiquidity(account, t, amount)
    <3> PICK amount \in BrrrAmounts \cup {brrrSupply} : RemoveLiquidity(account, t, amount)
      BY <2>2
    <3> DEFINE bottom == Aum(FALSE)
               usdp == (amount * bottom) \div brrrSupply
    <3>1. HasAum /\ Redeem(t, usdp) /\ amount > 0 /\ amount <= brrrSupply
      BY DEF RemoveLiquidity
    <3>2. amount \in Nat /\ brrrSupply \in Nat
      BY BrrrManagerAssumption DEF LiquidityInv, ManagerTypeOK
    <3>3. bottom \in Nat
      BY <3>1, AumNat
    <3> HIDE DEF bottom
    <3>4. amount * bottom \in Nat /\ brrrSupply \in Nat \ {0}
      BY <3>1, <3>2, <3>3
    <3>5. usdp \in Nat
      BY <3>4, DivNat
    <3> HIDE DEF usdp
    <3>6. UNCHANGED price
      BY <3>1 DEF Redeem, envVars
    <3> QED BY <1>1, <1>2, <3>1, <3>5, <3>6, RedeemCovered
  <2> QED BY <2>1, <2>2
<1>4. CASE ManagerGovCall
  <2>1. CASE \E t \in Token, amount \in RedeemedUsdp : RedeemUsdp(t, amount)
    <3> PICK t \in Token, amount \in RedeemedUsdp : RedeemUsdp(t, amount)
      BY <2>1
    <3>1. amount \in Nat /\ Redeem(t, amount)
      BY BrrrManagerAssumption DEF RedeemUsdp
    <3>2. UNCHANGED price
      BY <3>1 DEF Redeem, envVars
    <3> QED BY <1>1, <1>2, <3>1, <3>2, RedeemCovered
  <2>2. CASE ~ \E t \in Token, amount \in RedeemedUsdp : RedeemUsdp(t, amount)
    <3>1. UNCHANGED <<assetVars, positions, envVars, unbackedFees>>
      BY <1>4, <2>2 DEF ManagerGovCall, SetShortsTrackerAveragePriceWeight,
             SetCooldownDuration, SetAumAdjustment, UpdateUsdpSupply, tradingVars, vars
    <3>2. UNCHANGED <<tokenBalances, poolAmounts, feeReserves, positions, unbackedFees, price>>
      BY <3>1 DEF assetVars, envVars
    <3> QED BY <1>2, <3>2, CoveredKept
  <2> QED BY <2>1, <2>2
<1>5. CASE UserCall
  BY <1>1, <1>2, <1>5, TradingCallCovered DEF UserCall
<1>6. CASE Outside
  BY <1>1, <1>6, OtherCallCovered, QuoteStrict DEF Outside
<1>7. CASE UNCHANGED liquidityVars
  <2>1. UNCHANGED vars /\ UNCHANGED price
    BY <1>7 DEF liquidityVars, tradingVars, vars, envVars
  <2> QED BY <1>1, <1>2, <2>1, OtherCallCovered
<1> QED BY <1>3, <1>4, <1>5, <1>6, <1>7 DEF LiquidityNext

\* For all deposits, redemptions, trades and liquidations, USDP minted by the timelocks
\* included, if the feed's quotes of the stable token are strict: the vault holds the
\* pool, the fees and the collateral of the shorts, up to what liquidations credited
\* without backing.
THEOREM VaultSolventAlways == StrictStablePrices => (LiquiditySpec => []Solvent)
<1> SUFFICES ASSUME StrictStablePrices PROVE LiquiditySpec => []Solvent
  OBVIOUS
<1> DEFINE SolventInv == LiquidityInv /\ StrictStableQuote /\ Covered
<1>1. LiquidityInit => SolventInv
  BY LiquidityInitInv, InitCovered, QuoteStrict DEF LiquidityInit, TradingInit
<1>2. SolventInv /\ [LiquidityNext]_liquidityVars => SolventInv'
  BY LiquidityStepInv, LiquidityStepCovered
<1>3. SolventInv => Solvent
  BY CoveredSolvent DEF LiquidityInv
<1> HIDE DEF SolventInv
<1> QED BY <1>1, <1>2, <1>3, PTL DEF LiquiditySpec
-----------------------------------------------------------------------------
(* The debts of the tokens and the USDP in circulation.                    *)

Debts == usdpAmounts[Index] + usdpAmounts[Stable]

\* One token's debt moves the sum by as much.
LEMMA DebtStep ==
    ASSUME Inv, NEW t \in Token, NEW debt \in Int,
           usdpAmounts' = [usdpAmounts EXCEPT ![t] = debt]
    PROVE  Debts \in Int /\ Debts' = Debts + debt - usdpAmounts[t]
<1>1. /\ usdpAmounts[Index] \in Nat /\ usdpAmounts[Stable] \in Nat
      /\ DOMAIN usdpAmounts = Token /\ Index # Stable /\ t \in {Index, Stable}
  BY VaultAssumption DEF Inv, TypeOK, UsdpOK, Token
<1>2. Index \in Token /\ Stable \in Token
  BY DEF Token
<1>3. CASE t = Index
  BY <1>1, <1>2, <1>3 DEF Debts
<1>4. CASE t = Stable
  BY <1>1, <1>2, <1>4 DEF Debts
<1> QED BY <1>1, <1>3, <1>4

\* A deposit adds what it mints to the debt.
LEMMA BuyUSDPDebt ==
    ASSUME Inv, NEW t \in Token, NEW sent \in Nat, BuyUSDP(t, sent)
    PROVE  \E mint \in Nat : usdpSupply' = usdpSupply + mint /\ Debts' >= Debts + mint
<1> DEFINE x == AfterFee(Received(t, sent), MintBurnFeeBps)
           mint == TokenToUsdMin(t, x)
<1>1. /\ usdpAmounts' = [usdpAmounts EXCEPT ![t] = @ + mint]
      /\ usdpSupply' = usdpSupply + mint /\ TransferIn(t, sent)
  BY DEF BuyUSDP
<1>2. Received(t, sent) \in Nat
  BY <1>1, TransferInType DEF Inv, TypeOK
<1>3. x \in Nat
  BY <1>2, AfterFeeBound, VaultAssumption
<1>4. mint \in Nat
  BY <1>3, ConversionNat DEF Inv, TypeOK
<1>5. usdpAmounts[t] \in Nat /\ usdpSupply \in Nat
  BY DEF Inv, TypeOK, UsdpOK
<1> HIDE DEF x, mint
<1>6. usdpAmounts[t] + mint \in Int
  BY <1>4, <1>5
<1>7. Debts \in Int /\ Debts' = Debts + (usdpAmounts[t] + mint) - usdpAmounts[t]
  BY <1>1, <1>6, DebtStep
<1>8. Debts' >= Debts + mint
  BY <1>4, <1>5, <1>7
<1> QED BY <1>1, <1>4, <1>8

\* The cap at zero takes no more off the debt than the USDP that is sold.
LEMMA RedeemDebt ==
    ASSUME Inv, NEW t \in Token, NEW usdp \in Nat, Redeem(t, usdp)
    PROVE  Debts' >= Debts - usdp
<1>1. usdpAmounts' = [usdpAmounts EXCEPT ![t] = LessUsdp(t, usdp)]
  BY DEF Redeem
<1>2. usdpAmounts[t] \in Nat /\ LessUsdp(t, usdp) \in Nat
  BY LessUsdpNat DEF Inv, TypeOK, UsdpOK
<1> DEFINE left == LessUsdp(t, usdp)
<1>3. left >= usdpAmounts[t] - usdp /\ left \in Int
  BY <1>2 DEF LessUsdp
<1>4. usdpAmounts' = [usdpAmounts EXCEPT ![t] = left]
  BY <1>1
<1> HIDE DEF left
<1>5. Debts \in Int /\ Debts' = Debts + left - usdpAmounts[t]
  BY <1>3, <1>4, DebtStep
<1> QED BY <1>2, <1>3, <1>5

\* A swap adds to one debt at least what it takes off the other.
LEMMA SwapDebt ==
    ASSUME Inv, NEW in \in Token, NEW out \in Token, NEW sent \in Nat, Swap(in, out, sent)
    PROVE  Debts' >= Debts /\ UNCHANGED usdpSupply
<1> DEFINE usdp == TokenToUsdMin(in, Received(in, sent))
<1>1. /\ in # out /\ Received(in, sent) > 0 /\ UNCHANGED usdpSupply
      /\ usdpAmounts' = [usdpAmounts EXCEPT ![in] = @ + usdp, ![out] = LessUsdp(out, usdp)]
  BY DEF Swap, ShiftedDebt
<1>2. Received(in, sent) \in Nat
  <2>1. balance[in] \in Nat /\ tokenBalances[in] \in Nat
    BY DEF Inv, TypeOK, AssetsOK
  <2>2. Received(in, sent) \in Int
    BY <2>1 DEF Received
  <2> QED BY <1>1, <2>2
<1>3. usdp \in Nat
  BY <1>2, ConversionNat DEF Inv, TypeOK
<1> HIDE DEF usdp
<1>4. /\ usdpAmounts[in] \in Nat /\ usdpAmounts[out] \in Nat /\ DOMAIN usdpAmounts = Token
      /\ LessUsdp(out, usdp) \in Nat
  BY <1>3, LessUsdpNat DEF Inv, TypeOK, UsdpOK
<1>5. LessUsdp(out, usdp) >= usdpAmounts[out] - usdp
  BY <1>3, <1>4 DEF LessUsdp
<1>6. usdpAmounts'[in] = usdpAmounts[in] + usdp /\ usdpAmounts'[out] = LessUsdp(out, usdp)
  BY <1>1, <1>4
<1>7. \/ in = Index /\ out = Stable
      \/ in = Stable /\ out = Index
  BY <1>1 DEF Token
<1>8. Debts = usdpAmounts[in] + usdpAmounts[out] /\ Debts' = usdpAmounts'[in] + usdpAmounts'[out]
  BY <1>4, <1>6, <1>7, <1>3 DEF Debts
<1> QED BY <1>1, <1>3, <1>4, <1>5, <1>6, <1>8

\* The calls of users and keepers, while governance overwrites no debt.
LEMMA TradingCallDebt ==
    ASSUME Inv, TradingCall, UsdpSettings = {}
    PROVE  \E more \in Int : usdpSupply' = usdpSupply + more /\ Debts' >= Debts + more
<1>1. usdpSupply \in Int /\ Debts \in Int
  BY DEF Inv, TypeOK, UsdpOK, Debts, Token
<1>2. UNCHANGED usdpVars => usdpSupply' = usdpSupply + 0 /\ Debts' >= Debts + 0
  <2> HAVE UNCHANGED usdpVars
  <2>1. Debts' = Debts /\ usdpSupply' = usdpSupply
    BY DEF usdpVars, Debts
  <2> QED BY <1>1, <2>1
<1>3. CASE PoolCall
  <2> PICK t \in Token :
        \/ \E sent \in Deposits[t] : DirectPoolDeposit(t, sent)
        \/ \E sent \in Deposits[t] : BuyUSDP(t, sent)
        \/ \E usdp \in UsdpAmounts : SellUSDP(t, usdp)
        \/ \E out \in Token, sent \in Deposits[t] : Swap(t, out, sent)
        \/ UpdateCumulativeFundingRate(t)
    BY <1>3 DEF PoolCall
  <2>1. Deposits[t] \subseteq Nat /\ UsdpAmounts \subseteq Nat
    BY VaultAssumption
  <2>2. CASE \E sent \in Deposits[t] : DirectPoolDeposit(t, sent)
    BY <1>2, <2>2 DEF DirectPoolDeposit
  <2>3. CASE \E sent \in Deposits[t] : BuyUSDP(t, sent)
    BY <2>1, <2>3, BuyUSDPDebt
  <2>4. CASE \E usdp \in UsdpAmounts : SellUSDP(t, usdp)
    <3> PICK usdp \in UsdpAmounts : SellUSDP(t, usdp)
      BY <2>4
    <3>1. usdp \in Nat /\ usdpSupply' = usdpSupply - usdp /\ Redeem(t, usdp)
      BY <2>1 DEF SellUSDP
    <3>2. Debts' >= Debts - usdp
      BY <3>1, RedeemDebt
    <3>3. /\ -usdp \in Int /\ usdpSupply - usdp = usdpSupply + (-usdp)
          /\ Debts - usdp = Debts + (-usdp)
      BY <1>1, <3>1
    <3> QED BY <3>1, <3>2, <3>3
  <2>5. CASE \E out \in Token, sent \in Deposits[t] : Swap(t, out, sent)
    <3> PICK out \in Token, sent \in Deposits[t] : Swap(t, out, sent)
      BY <2>5
    <3>1. Debts' >= Debts /\ usdpSupply' = usdpSupply
      BY <2>1, SwapDebt
    <3>2. Debts + 0 = Debts /\ usdpSupply + 0 = usdpSupply
      BY <1>1
    <3> QED BY <3>1, <3>2
  <2>6. CASE UpdateCumulativeFundingRate(t)
    BY <1>2, <2>6 DEF UpdateCumulativeFundingRate
  <2> QED BY <2>2, <2>3, <2>4, <2>5, <2>6
<1>4. CASE KeeperTrade
  <2> PICK id \in PositionId :
        \/ \E sent \in Nat, sizeDelta \in Nat : Increase(id, sent, sizeDelta)
        \/ \E collateralDelta \in Nat, sizeDelta \in Nat :
               Decrease(id, collateralDelta, sizeDelta)
        \/ LiquidateOrClose(id)
    BY <1>4, KeeperTradeCall
  <2>1. UNCHANGED usdpVars
    BY TradeLeaves
  <2> QED BY <1>2, <2>1
<1>5. CASE PositionCall
  <2> PICK id \in PositionId :
        \/ \E sent \in Deposits[CollateralToken(id)] \cup {0}, sizeDelta \in SizeDeltas :
               IncreasePosition(id, sent, sizeDelta)
        \/ \E collateralDelta \in CollateralDeltas, sizeDelta \in SizeDeltas :
               DecreasePosition(id, collateralDelta, sizeDelta)
        \/ LiquidatePosition(id)
    BY <1>5 DEF PositionCall
  <2>1. UNCHANGED usdpVars
    BY TradeLeaves DEF IncreasePosition, DecreasePosition, LiquidatePosition
  <2> QED BY <1>2, <2>1
<1>6. CASE GovCall \/ TrackerGovCall
  <2>1. UNCHANGED usdpVars
    BY <1>6 DEF GovCall, WithdrawFees, SetUsdpAmount, SetIsLeverageEnabled, TrackerGovCall,
                SetIsGlobalShortDataReady, SetInitData, SetGlobalShortAveragePrice, vars
  <2> QED BY <1>2, <2>1
<1> QED BY <1>3, <1>4, <1>5, <1>6 DEF TradingCall, DirectTrade, VaultCall

\* Every step.
LEMMA LiquidityStepDebt ==
    ASSUME LiquidityInv, LiquidityInv', DebtCoversSupply, UsdpSettings = {},
           [LiquidityNext]_liquidityVars
    PROVE  DebtCoversSupply'
<1>1. Inv /\ Inv'
  BY DEF LiquidityInv
<1>2. /\ Debts \in Int /\ Debts' \in Int /\ usdpSupply \in Int /\ usdpSupply' \in Int
      /\ usdpUnbacked \in Int /\ usdpUnbacked' \in Int /\ usdpBalance \in Int
  BY DEF LiquidityInv, ManagerTypeOK, Inv, TypeOK, UsdpOK, Debts, Token
<1>3. usdpSupply <= Debts + usdpUnbacked
  BY DEF DebtCoversSupply, Debts
<1>4. ASSUME NEW more \in Int, NEW owed \in Int, NEW minted \in Int, more <= owed + minted,
             usdpSupply' = usdpSupply + more, Debts' >= Debts + owed,
             usdpUnbacked' = usdpUnbacked + minted
      PROVE  DebtCoversSupply'
  <2> DEFINE supply == usdpSupply'
             debt == Debts'
             unbacked == usdpUnbacked'
  <2>1. /\ supply = usdpSupply + more /\ debt >= Debts + owed /\ unbacked = usdpUnbacked + minted
        /\ supply \in Int /\ debt \in Int /\ unbacked \in Int
    BY <1>2, <1>4
  <2> HIDE DEF supply, debt, unbacked
  <2>2. supply <= debt + unbacked
    BY <1>2, <1>3, <1>4, <2>1
  <2> QED BY <2>2 DEF DebtCoversSupply, Debts, supply, debt, unbacked
<1>5. UNCHANGED <<usdpAmounts, usdpSupply, usdpUnbacked>> => DebtCoversSupply'
  BY DEF DebtCoversSupply
<1>6. CASE LiquidityCall
  <2> PICK account \in Accounts, t \in Token :
        \/ \E sent \in LiquidityAmounts[t] : AddLiquidity(account, t, sent)
        \/ \E amount \in BrrrAmounts \cup {brrrSupply} : RemoveLiquidity(account, t, amount)
    BY <1>6 DEF LiquidityCall
  <2>1. CASE \E sent \in LiquidityAmounts[t] : AddLiquidity(account, t, sent)
    <3> PICK sent \in LiquidityAmounts[t] : AddLiquidity(account, t, sent)
      BY <2>1
    <3>1. sent \in Nat /\ BuyUSDP(t, sent) /\ usdpUnbacked' = usdpUnbacked
      BY BrrrManagerAssumption DEF AddLiquidity
    <3>2. PICK mint \in Nat : usdpSupply' = usdpSupply + mint /\ Debts' >= Debts + mint
      BY <1>1, <3>1, BuyUSDPDebt
    <3>3. mint \in Int /\ 0 \in Int /\ mint <= mint + 0 /\ usdpUnbacked' = usdpUnbacked + 0
      BY <1>2, <3>1
    <3> QED BY <1>4, <3>2, <3>3
  <2>2. CASE \E amount \in BrrrAmounts \cup {brrrSupply} : RemoveLiquidity(account, t, amount)
    <3> PICK amount \in BrrrAmounts \cup {brrrSupply} : RemoveLiquidity(account, t, amount)
      BY <2>2
    <3> DEFINE bottom == Aum(FALSE)
               usdp == (amount * bottom) \div brrrSupply
               minted == Monus(usdp, usdpBalance)
    <3>1. /\ HasAum /\ Redeem(t, usdp) /\ amount > 0 /\ amount <= brrrSupply
          /\ usdpSupply' = usdpSupply + minted - usdp
          /\ usdpUnbacked' = usdpUnbacked + minted
      BY DEF RemoveLiquidity
    <3>2. amount \in Nat /\ brrrSupply \in Nat
      BY BrrrManagerAssumption DEF LiquidityInv, ManagerTypeOK
    <3>3. bottom \in Nat
      BY <3>1, AumNat
    <3> HIDE DEF bottom
    <3>4. amount * bottom \in Nat /\ brrrSupply \in Nat \ {0}
      BY <3>1, <3>2, <3>3
    <3>5. usdp \in Nat
      BY <3>4, DivNat
    <3> HIDE DEF usdp
    <3>6. minted \in Nat
      BY <1>2, <3>5, MonusNat
    <3>7. Debts' >= Debts - usdp
      BY <1>1, <3>1, <3>5, RedeemDebt
    <3> HIDE DEF minted
    <3>8. /\ minted - usdp \in Int /\ -usdp \in Int /\ minted \in Int
          /\ minted - usdp <= (-usdp) + minted
          /\ usdpSupply + minted - usdp = usdpSupply + (minted - usdp)
          /\ Debts - usdp = Debts + (-usdp)
      BY <1>2, <3>5, <3>6
    <3> QED BY <1>4, <3>1, <3>7, <3>8
  <2> QED BY <2>1, <2>2
<1>7. CASE ManagerGovCall
  <2>1. CASE \E amount \in UsdpBalances : UpdateUsdpSupply(amount)
    <3> PICK amount \in UsdpBalances : UpdateUsdpSupply(amount)
      BY <2>1
    <3>1. /\ amount \in Nat /\ usdpSupply' = usdpSupply - usdpBalance + amount
          /\ usdpUnbacked' = usdpUnbacked + Monus(amount, usdpBalance)
          /\ Debts' = Debts
      BY BrrrManagerAssumption DEF UpdateUsdpSupply, Debts
    <3>2. Monus(amount, usdpBalance) >= amount - usdpBalance
          /\ Monus(amount, usdpBalance) \in Nat
      BY <1>2, <3>1, MonusNat
    <3>3. /\ amount - usdpBalance \in Int /\ 0 \in Int
          /\ amount - usdpBalance <= 0 + Monus(amount, usdpBalance)
          /\ usdpSupply - usdpBalance + amount = usdpSupply + (amount - usdpBalance)
          /\ Debts >= Debts + 0
      BY <1>2, <3>1, <3>2
    <3> QED BY <1>4, <3>1, <3>2, <3>3
  <2>2. CASE \E t \in Token, amount \in RedeemedUsdp : RedeemUsdp(t, amount)
    <3> PICK t \in Token, amount \in RedeemedUsdp : RedeemUsdp(t, amount)
      BY <2>2
    <3>1. /\ amount \in Nat /\ Redeem(t, amount)
          /\ usdpUnbacked' = usdpUnbacked + amount /\ usdpSupply' = usdpSupply
      BY BrrrManagerAssumption DEF RedeemUsdp
    <3>2. Debts' >= Debts - amount
      BY <1>1, <3>1, RedeemDebt
    <3>3. /\ 0 \in Int /\ -amount \in Int /\ amount \in Int /\ 0 <= (-amount) + amount
          /\ usdpSupply' = usdpSupply + 0 /\ Debts - amount = Debts + (-amount)
      BY <1>2, <3>1
    <3> QED BY <1>4, <3>1, <3>2, <3>3
  <2>3. CASE /\ ~ \E amount \in UsdpBalances : UpdateUsdpSupply(amount)
             /\ ~ \E t \in Token, amount \in RedeemedUsdp : RedeemUsdp(t, amount)
    <3>1. UNCHANGED <<usdpVars, usdpUnbacked>>
      BY <1>7, <2>3 DEF ManagerGovCall, SetShortsTrackerAveragePriceWeight,
             SetCooldownDuration, SetAumAdjustment, tradingVars, vars
    <3> QED BY <1>5, <3>1 DEF usdpVars
  <2> QED BY <2>1, <2>2, <2>3
<1>8. CASE UserCall
  <2>1. TradingCall /\ usdpUnbacked' = usdpUnbacked
    BY <1>8 DEF UserCall, managerVars
  <2>2. PICK more \in Int : usdpSupply' = usdpSupply + more /\ Debts' >= Debts + more
    BY <1>1, <2>1, TradingCallDebt
  <2>3. 0 \in Int /\ more <= more + 0 /\ usdpUnbacked' = usdpUnbacked + 0
    BY <1>2, <2>1
  <2> QED BY <1>4, <2>2, <2>3
<1>9. CASE Outside /\ UNCHANGED <<managerVars, calls>>
  <2>1. UNCHANGED <<usdpVars, usdpUnbacked>>
    BY <1>9 DEF Outside, Environment, SendTokens, SetPrice, Tick, managerVars
  <2> QED BY <1>5, <2>1 DEF usdpVars
<1>10. CASE UNCHANGED liquidityVars
  <2>1. UNCHANGED <<usdpVars, usdpUnbacked>>
    BY <1>10 DEF liquidityVars, tradingVars, vars, managerVars
  <2> QED BY <1>5, <2>1 DEF usdpVars
<1> QED BY <1>6, <1>7, <1>8, <1>9, <1>10 DEF LiquidityNext

\* For all deposits, redemptions and swaps, and whatever the timelocks mint and burn,
\* while governance overwrites no debt: the debts of the tokens, each capped at zero on
\* its own, cover the USDP in circulation but for what was minted without a deposit.
THEOREM DebtAlwaysCoversSupply == UsdpSettings = {} => (LiquiditySpec => []DebtCoversSupply)
<1> SUFFICES ASSUME UsdpSettings = {} PROVE LiquiditySpec => []DebtCoversSupply
  OBVIOUS
<1> DEFINE DebtInv == LiquidityInv /\ DebtCoversSupply
<1>1. LiquidityInit => DebtInv
  <2> SUFFICES ASSUME LiquidityInit PROVE DebtCoversSupply
    BY LiquidityInitInv
  <2>1. usdpSupply = 0 /\ usdpUnbacked = 0 /\ usdpAmounts[Index] = 0 /\ usdpAmounts[Stable] = 0
    BY DEF LiquidityInit, TradingInit, Init, Token
  <2> QED BY <2>1 DEF DebtCoversSupply
<1>2. DebtInv /\ [LiquidityNext]_liquidityVars => DebtInv'
  BY LiquidityStepInv, LiquidityStepDebt
<1>3. DebtInv => DebtCoversSupply
  OBVIOUS
<1> HIDE DEF DebtInv
<1> QED BY <1>1, <1>2, <1>3, PTL DEF LiquiditySpec
=============================================================================
