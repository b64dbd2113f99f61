---------------------------- MODULE ShortsTracker ---------------------------
(***************************************************************************)
(* ShortsTracker and the trades of the keepers.  PositionRouter and         *)
(* PositionManager call the tracker before they trade with the vault, and   *)
(* have the timelock switch leverage on for the trade and off after it.     *)
(* Users may also trade with the vault themselves, which the tracker does   *)
(* not see.  The tracker's average price replaces the vault's own, which    *)
(* decreases and liquidations leave as it was, in the value of the pool.    *)
(***************************************************************************)
EXTENDS Vault

CONSTANTS
    shouldToggleIsLeverageEnabled,
    averagePriceUpdateDelay, maxAveragePriceChange,
    AveragePrices, ReadySettings,        \* what governance and its handlers set
    MaxTrades,                           \* bound
    Tolerance                            \* rounding allowed by TrackedShortsMatch

ASSUME ShortsTrackerAssumption ==
    /\ shouldToggleIsLeverageEnabled \in BOOLEAN
    /\ averagePriceUpdateDelay \in Nat /\ maxAveragePriceChange \in Nat
    /\ AveragePrices \subseteq Nat \ {0} /\ ReadySettings \subseteq BOOLEAN
    /\ MaxTrades \in Nat /\ Tolerance \in Nat

VARIABLES
    trackedAveragePrice,      \* ShortsTracker.globalShortAveragePrices[Index]
    isGlobalShortDataReady,
    lastUpdated,              \* ShortsTrackerTimelock.lastUpdated[Index]
    untracked,                \* history: since there were last no shorts, one was
                              \* traded behind the tracker's back, or its price was set
    trades                    \* history: how many there were

trackerVars == <<trackedAveragePrice, isGlobalShortDataReady, lastUpdated>>
tradingVars == <<vars, trackerVars, untracked, trades>>

TrackerInit ==
    /\ trackedAveragePrice = 0 /\ isGlobalShortDataReady = FALSE
    /\ lastUpdated = 0 /\ untracked = FALSE /\ trades = 0

TradingInit == Init /\ TrackerInit

-----------------------------------------------------------------------------
(* updateGlobalShortData.                                                  *)

\* profit of shorts of that size and average price, negative for a loss
Pnl(size, averagePrice, nextPrice) ==
    LET delta == (size * Distance(averagePrice, nextPrice)) \div averagePrice
    IN IF averagePrice > nextPrice THEN delta ELSE -delta

\* mutant: what the position realises is subtracted from the wrong side
RealisedPnlNegated(id, sizeDelta) ==
    LET pnl == (sizeDelta * Delta(id, positions[id])) \div positions[id].size
    IN IF HasProfit(id, positions[id]) THEN -pnl ELSE pnl

\* mutant: the position's profit or loss stays in the average
RealisedPnlKept(id, sizeDelta) == 0

\* getRealisedPnl of a decrease
RealisedPnl(id, sizeDelta) ==
    LET pnl == (sizeDelta * Delta(id, positions[id])) \div positions[id].size
    IN IF HasProfit(id, positions[id]) THEN pnl ELSE -pnl

NextShortSize(sizeDelta, isIncrease) ==
    IF isIncrease THEN globalShortSize + sizeDelta ELSE globalShortSize - sizeDelta

\* _getNextDelta: the signs of the code's cases are those of one subtraction
TrackedDivisor(id, sizeDelta, markPrice, isIncrease) ==
    NextShortSize(sizeDelta, isIncrease)
    - (Pnl(globalShortSize, trackedAveragePrice, markPrice)
       - IF isIncrease THEN 0 ELSE RealisedPnl(id, sizeDelta))

\* the update does not revert
CanTrack(id, sizeDelta, markPrice, isIncrease) ==
    /\ ~isIncrease => /\ positions[id].size > 0 /\ positions[id].averagePrice > 0
                      /\ sizeDelta <= globalShortSize
    /\ NextShortSize(sizeDelta, isIncrease) # 0 /\ trackedAveragePrice # 0
           => TrackedDivisor(id, sizeDelta, markPrice, isIncrease) > 0

NextTrackedPrice(id, sizeDelta, markPrice, isIncrease) ==
    LET nextSize == NextShortSize(sizeDelta, isIncrease)
    IN IF nextSize = 0 THEN 0
       ELSE IF trackedAveragePrice = 0 THEN markPrice
       ELSE (markPrice * nextSize) \div TrackedDivisor(id, sizeDelta, markPrice, isIncrease)

\* a small profit is ignored by getDelta, and a spread makes the vault average an
\* increase at two prices: the tracker knows nothing of either
Inexact(id, isIncrease) ==
    LET p == positions[id] IN
    \/ ~isGlobalShortDataReady
    \/ p.size > 0 /\ HasProfit(id, p) /\ Delta(id, p) = 0
    \/ isIncrease /\ p.size > 0 /\ MinPrice(Index) # MaxPrice(Index)

\* the histories after a trade: nothing is left to track without shorts
Traded(missed) ==
    /\ trades' = trades + 1
    /\ untracked' = (globalShortSize' # 0
                     /\ (untracked \/ (missed /\ globalShortSize' # globalShortSize)))

UpdateGlobalShortData(id, sizeDelta, markPrice, isIncrease) ==
    /\ IF IsLong(id) \/ sizeDelta = 0 \/ ~isGlobalShortDataReady
       THEN UNCHANGED trackedAveragePrice
       ELSE /\ CanTrack(id, sizeDelta, markPrice, isIncrease)
            /\ trackedAveragePrice' = NextTrackedPrice(id, sizeDelta, markPrice, isIncrease)
    /\ UNCHANGED <<isGlobalShortDataReady, lastUpdated>>

-----------------------------------------------------------------------------
(* Trades.                                                                 *)

\* disableLeverage, after enableLeverage and the trade
LeverageBracket ==
    isLeverageEnabled' = IF shouldToggleIsLeverageEnabled THEN FALSE ELSE isLeverageEnabled

KeeperIncrease(id, sent, sizeDelta) ==
    /\ UpdateGlobalShortData(id, sizeDelta, MinPrice(Index), TRUE)
    /\ shouldToggleIsLeverageEnabled \/ isLeverageEnabled
    /\ Increase(id, sent, sizeDelta)
    /\ LeverageBracket /\ Traded(Inexact(id, TRUE))

KeeperDecrease(id, collateralDelta, sizeDelta) ==
    /\ UpdateGlobalShortData(id, sizeDelta, MaxPrice(Index), FALSE)
    /\ Decrease(id, collateralDelta, sizeDelta)
    /\ LeverageBracket /\ Traded(Inexact(id, FALSE))

KeeperLiquidate(id) ==
    /\ UpdateGlobalShortData(id, positions[id].size, MaxPrice(Index), FALSE)
    /\ LiquidateOrClose(id)
    /\ LeverageBracket /\ Traded(Inexact(id, FALSE))

KeeperTrade ==
    /\ trades < MaxTrades                         \* bound
    /\ \E id \in PositionId :
        \/ \E sent \in Deposits[CollateralToken(id)] \cup {0}, sizeDelta \in SizeDeltas :
               KeeperIncrease(id, sent, sizeDelta)
        \/ \E collateralDelta \in CollateralDeltas, sizeDelta \in SizeDeltas :
               KeeperDecrease(id, collateralDelta, sizeDelta)
        \/ KeeperLiquidate(id)

\* the vault lets a user trade without a keeper
DirectTrade ==
    /\ trades < MaxTrades                         \* bound
    /\ PositionCall /\ Traded(TRUE) /\ UNCHANGED trackerVars

-----------------------------------------------------------------------------
(* Governance of the tracker.                                              *)

SetIsGlobalShortDataReady(value) ==
    /\ isGlobalShortDataReady' = value
    /\ UNCHANGED <<vars, trackedAveragePrice, lastUpdated, untracked, trades>>

SetInitData(averagePrice) ==
    /\ ~isGlobalShortDataReady
    /\ isGlobalShortDataReady' = TRUE
    /\ trackedAveragePrice' = averagePrice
    /\ untracked' = (globalShortSize # 0)
    /\ UNCHANGED <<vars, lastUpdated, trades>>

\* ShortsTrackerTimelock.setGlobalShortAveragePrices
SetGlobalShortAveragePrice(averagePrice) ==
    /\ trackedAveragePrice > 0
    /\ (Distance(averagePrice, trackedAveragePrice) * BPS) \div trackedAveragePrice
           < maxAveragePriceChange
    /\ now >= lastUpdated + averagePriceUpdateDelay
    /\ lastUpdated' = now
    /\ isGlobalShortDataReady' = TRUE
    /\ trackedAveragePrice' = averagePrice
    /\ untracked' = (globalShortSize # 0)
    /\ UNCHANGED <<vars, trades>>

TrackerGovCall ==
    \/ \E value \in ReadySettings : SetIsGlobalShortDataReady(value)
    \/ \E averagePrice \in AveragePrices :
           SetInitData(averagePrice) \/ SetGlobalShortAveragePrice(averagePrice)

VaultCall == (PoolCall \/ GovCall) /\ UNCHANGED <<trackerVars, untracked, trades>>

TradingCall == KeeperTrade \/ DirectTrade \/ TrackerGovCall \/ VaultCall

Outside == Environment /\ UNCHANGED <<trackerVars, untracked, trades>>

TradingNext == TradingCall \/ Outside

TradingSpec == TradingInit /\ [][TradingNext]_tradingVars

-----------------------------------------------------------------------------
(* Properties.                                                             *)

TrackerTypeOK ==
    /\ trackedAveragePrice \in Nat /\ isGlobalShortDataReady \in BOOLEAN
    /\ lastUpdated \in Nat /\ untracked \in BOOLEAN /\ trades \in Nat

OpenShorts == {id \in Shorts : positions[id].size > 0}

\* The one average price stands for all the shorts: at every price the profit it
\* gives for the global size is the sum of the positions' own profits, through
\* increases at other prices, partial decreases, closes and liquidations, up to
\* rounding, as long as every trade passed the tracker.
TrackedShortsMatch ==
    globalShortSize > 0 /\ ~untracked =>
        \A quote \in Prices[Index] :
            Distance(Pnl(globalShortSize, trackedAveragePrice, quote[2]),
                     Sum([id \in OpenShorts |-> Pnl(positions[id].size,
                                                     positions[id].averagePrice, quote[2])],
                         OpenShorts)) <= Tolerance

\* The tracker's subtractions never keep a trader from closing, or a keeper from
\* liquidating, as long as every trade passed it.
TrackerNeverBlocks ==
    isGlobalShortDataReady /\ ~untracked =>
        \A id \in OpenShorts : \A sizeDelta \in SizeDeltas \cup {positions[id].size} :
            sizeDelta \in 1..positions[id].size
                => CanTrack(id, sizeDelta, MaxPrice(Index), FALSE)
=============================================================================
