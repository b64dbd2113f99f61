---------------------------- MODULE FastPriceFeed ---------------------------
(***************************************************************************)
(* FastPriceFeed: the prices keepers push, their timestamps, the comparison *)
(* with the reference price (Chainlink), and the watchers' votes.           *)
(*                                                                          *)
(* Updaters send what they like, late, twice or out of order: an update has *)
(* any timestamp, any list of tokens and any prices.                        *)
(***************************************************************************)
EXTENDS Integers, FiniteSets, Sequences

CONSTANTS
    Tokens,
    Watchers,                 \* accounts that may be signers
    MinAuthorizations,
    BPS, DeltaPrecision,      \* BASIS_POINTS_DIVISOR, CUMULATIVE_DELTA_PRECISION
    MaxCumulativeDelta,       \* both maxima of the cumulative deltas, 2 ** 32 - 1
    MaxCumulativeDeltaDiff, MaxDeviationBps,
    PriceDuration, MaxPriceUpdateDelay,
    SpreadIfInactiveBps, SpreadIfChainErrorBps,
    MinBlockInterval, MaxTimeDeviation,
    SampleSpace,              \* VaultPriceFeed.priceSampleSpace
    FastPrices, Answers,      \* what updaters send and Chainlink answers
    Intervals,                \* settings of priceDataInterval
    Stamps,                   \* settings of lastUpdatedAt
    StartTime, MaxTime        \* bounds of the clock

ASSUME FastPriceFeedAssumption ==
    /\ IsFiniteSet(Watchers) /\ MinAuthorizations \in Nat
    /\ BPS \in Nat \ {0} /\ DeltaPrecision \in Nat \ {0} /\ MaxCumulativeDelta \in Nat \ {0}
    /\ MaxCumulativeDeltaDiff \in Nat /\ MaxDeviationBps \in Nat
    /\ PriceDuration \in Nat /\ MaxPriceUpdateDelay \in Nat
    /\ SpreadIfInactiveBps \in 0..BPS /\ SpreadIfChainErrorBps \in 0..BPS
    /\ MinBlockInterval \in Nat /\ MaxTimeDeviation \in Nat
    /\ SampleSpace \in Nat \ {0}
    /\ FastPrices \subseteq Nat /\ Answers \subseteq Nat
    /\ Intervals \subseteq Nat /\ Stamps \subseteq Nat
    /\ StartTime \in Nat /\ StartTime >= MaxTimeDeviation /\ MaxTime \in Nat

VARIABLES
    rounds,                   \* Chainlink: the last SampleSpace answers of a token
    prices, priceData,        \* by token
    lastUpdatedAt, lastUpdatedBlock,
    priceDataInterval,
    hasVaultPriceFeed,        \* vaultPriceFeed is set
    isSigner, disableFastPriceVotes, disableFastPriceVoteCount,
    isSpreadEnabled,
    now,                      \* a block a second: block.number as well
    stamp,                    \* history, by token: the timestamp its price came with
    leftOut,                  \* history: tokens an update since their own left out
    rewound,                  \* history: governance has set lastUpdatedAt
    zeroed                    \* history: tokens that were once given the price 0

updateVars == <<prices, priceData, lastUpdatedAt, lastUpdatedBlock>>
watchVars == <<isSigner, disableFastPriceVotes, disableFastPriceVoteCount, isSpreadEnabled>>
historyVars == <<stamp, leftOut, rewound, zeroed>>
vars == <<rounds, updateVars, priceDataInterval, hasVaultPriceFeed, watchVars, now, historyVars>>

PriceDataItem == [refPrice : Nat, refTime : Nat,
                  cumulativeRefDelta : Nat, cumulativeFastDelta : Nat]
NoPriceData == [refPrice |-> 0, refTime |-> 0,
                cumulativeRefDelta |-> 0, cumulativeFastDelta |-> 0]

Init ==
    /\ rounds \in [Tokens -> {<<answer>> : answer \in Answers}]
    /\ prices = [t \in Tokens |-> 0]
    /\ priceData = [t \in Tokens |-> NoPriceData]
    /\ lastUpdatedAt = 0 /\ lastUpdatedBlock = 0
    /\ priceDataInterval = 0 /\ hasVaultPriceFeed = FALSE
    /\ isSigner = Watchers /\ disableFastPriceVotes = {} /\ disableFastPriceVoteCount = 0
    /\ isSpreadEnabled = FALSE
    /\ now = StartTime
    /\ stamp = [t \in Tokens |-> 0] /\ leftOut = {} /\ rewound = FALSE /\ zeroed = {}

-----------------------------------------------------------------------------
(* Updates.                                                                *)

Distance(a, b) == IF a > b THEN a - b ELSE b - a

LatestAnswer(t) == rounds[t][Len(rounds[t])]

\* the cumulative deltas start again in a new window
NewWindow(t) == priceData[t].refTime \div priceDataInterval # now \div priceDataInterval

NextPriceData(t, price) ==
    LET data == priceData[t]
        refPrice == LatestAnswer(t)
        item(refDelta, fastDelta) ==
            [refPrice |-> refPrice, refTime |-> now,
             cumulativeRefDelta |-> refDelta, cumulativeFastDelta |-> fastDelta]
    IN IF data.refPrice = 0 THEN item(data.cumulativeRefDelta, data.cumulativeFastDelta)
       ELSE item((IF NewWindow(t) THEN 0 ELSE data.cumulativeRefDelta)
                     + (Distance(refPrice, data.refPrice) * DeltaPrecision) \div data.refPrice,
                 (IF NewWindow(t) THEN 0 ELSE data.cumulativeFastDelta)
                     + (Distance(prices[t], price) * DeltaPrecision) \div prices[t])

\* _setPrice does not revert: it divides by the window, the last reference and the
\* last fast price, and the deltas have a maximum
CanSetPrice(t, price) ==
    hasVaultPriceFeed =>
        /\ LatestAnswer(t) > 0
        /\ priceData[t].refPrice > 0 => priceDataInterval > 0 /\ prices[t] > 0
        /\ NextPriceData(t, price).cumulativeRefDelta < MaxCumulativeDelta
        /\ NextPriceData(t, price).cumulativeFastDelta < MaxCumulativeDelta

\* mutant: an update takes effect whatever its timestamp
NewerAny(timestamp) == timestamp > 0

\* _setLastUpdatedValues: an older timestamp is ignored, not refused
Newer(timestamp) == timestamp >= lastUpdatedAt

TimestampAllowed(timestamp) ==
    /\ MinBlockInterval > 0 => now - lastUpdatedBlock >= MinBlockInterval
    /\ timestamp > now - MaxTimeDeviation
    /\ timestamp < now + MaxTimeDeviation

\* mutant: the first price of a token is not stored
StoredLate(t, price) == IF hasVaultPriceFeed /\ priceData[t].refPrice = 0 THEN prices[t] ELSE price

Stored(t, price) == price

\* setPrices, setCompactedPrices, setPricesWithBits: the tokens of the list, one
\* after the other
SetPrices(sent, timestamp) ==
    LET listed == DOMAIN sent IN
    /\ TimestampAllowed(timestamp) /\ Newer(timestamp)
    /\ \A t \in listed : CanSetPrice(t, sent[t])
    /\ prices' = [t \in Tokens |-> IF t \in listed THEN Stored(t, sent[t]) ELSE prices[t]]
    /\ priceData' = [t \in Tokens |-> IF t \in listed /\ hasVaultPriceFeed
                                      THEN NextPriceData(t, sent[t]) ELSE priceData[t]]
    /\ lastUpdatedAt' = timestamp /\ lastUpdatedBlock' = now
    /\ stamp' = [t \in Tokens |-> IF t \in listed THEN timestamp ELSE stamp[t]]
    /\ leftOut' = Tokens \ listed
    /\ zeroed' = zeroed \cup {t \in listed : sent[t] = 0}
    /\ UNCHANGED <<rounds, priceDataInterval, hasVaultPriceFeed, watchVars, now, rewound>>

-----------------------------------------------------------------------------
(* Watchers, governance, Chainlink and time.                               *)

DisableFastPrice(signer) ==
    /\ signer \in isSigner /\ signer \notin disableFastPriceVotes
    /\ disableFastPriceVotes' = disableFastPriceVotes \cup {signer}
    /\ disableFastPriceVoteCount' = disableFastPriceVoteCount + 1
    /\ UNCHANGED <<rounds, updateVars, priceDataInterval, hasVaultPriceFeed, isSigner,
                   isSpreadEnabled, now, historyVars>>

EnableFastPrice(signer) ==
    /\ signer \in isSigner /\ signer \in disableFastPriceVotes
    /\ disableFastPriceVotes' = disableFastPriceVotes \ {signer}
    /\ disableFastPriceVoteCount' = disableFastPriceVoteCount - 1
    /\ UNCHANGED <<rounds, updateVars, priceDataInterval, hasVaultPriceFeed, isSigner,
                   isSpreadEnabled, now, historyVars>>

\* a signer who is removed keeps the vote, and cannot take it back
SetSigner(account, isActive) ==
    /\ isSigner' = IF isActive THEN isSigner \cup {account} ELSE isSigner \ {account}
    /\ UNCHANGED <<rounds, updateVars, priceDataInterval, hasVaultPriceFeed,
                   disableFastPriceVotes, disableFastPriceVoteCount, isSpreadEnabled, now,
                   historyVars>>

SetIsSpreadEnabled(enabled) ==
    /\ isSpreadEnabled' = enabled
    /\ UNCHANGED <<rounds, updateVars, priceDataInterval, hasVaultPriceFeed, isSigner,
                   disableFastPriceVotes, disableFastPriceVoteCount, now, historyVars>>

SetPriceDataInterval(interval) ==
    /\ priceDataInterval' = interval
    /\ UNCHANGED <<rounds, updateVars, hasVaultPriceFeed, watchVars, now, historyVars>>

SetVaultPriceFeed(isSet) ==
    /\ hasVaultPriceFeed' = isSet
    /\ UNCHANGED <<rounds, updateVars, priceDataInterval, watchVars, now, historyVars>>

SetLastUpdatedAt(timestamp) ==
    /\ lastUpdatedAt' = timestamp
    /\ rewound' = TRUE
    /\ UNCHANGED <<rounds, prices, priceData, lastUpdatedBlock, priceDataInterval,
                   hasVaultPriceFeed, watchVars, now, stamp, leftOut, zeroed>>

NewRound(t, answer) ==
    LET all == Append(rounds[t], answer) IN
    /\ rounds' = [rounds EXCEPT ![t] = IF Len(all) > SampleSpace THEN Tail(all) ELSE all]
    /\ UNCHANGED <<updateVars, priceDataInterval, hasVaultPriceFeed, watchVars, now, historyVars>>

Tick ==
    /\ now < MaxTime                              \* bound
    /\ now' = now + 1
    /\ UNCHANGED <<rounds, updateVars, priceDataInterval, hasVaultPriceFeed, watchVars,
                   historyVars>>

Update ==
    \E listed \in SUBSET Tokens, timestamp \in 1..(MaxTime + MaxTimeDeviation) :
        \E sent \in [listed -> FastPrices] : SetPrices(sent, timestamp)

WatcherCall ==
    \E account \in Watchers :
        \/ DisableFastPrice(account)
        \/ EnableFastPrice(account)
        \/ \E isActive \in BOOLEAN : SetSigner(account, isActive)

GovCall ==
    \/ \E enabled \in BOOLEAN : SetIsSpreadEnabled(enabled) \/ SetVaultPriceFeed(enabled)
    \/ \E interval \in Intervals : SetPriceDataInterval(interval)
    \/ \E timestamp \in Stamps : SetLastUpdatedAt(timestamp)

Chainlink == \E t \in Tokens, answer \in Answers : NewRound(t, answer)

Next == Update \/ WatcherCall \/ GovCall \/ Chainlink \/ Tick

Spec == Init /\ [][Next]_vars

-----------------------------------------------------------------------------
(* What the feed answers.                                                  *)

\* mutant: compared with the longer delay
InactiveLate == now > lastUpdatedAt + MaxPriceUpdateDelay

\* no update for so long that the keepers, or the chain, must have failed
Inactive == now > lastUpdatedAt + PriceDuration
ChainError == now > lastUpdatedAt + MaxPriceUpdateDelay

FavorFastPrice(t) ==
    /\ ~isSpreadEnabled
    /\ disableFastPriceVoteCount < MinAuthorizations
    /\ priceData[t].cumulativeFastDelta - priceData[t].cumulativeRefDelta <= MaxCumulativeDeltaDiff

UsesFastPrice(t) == ~ChainError /\ ~Inactive /\ prices[t] # 0

Spread(price, bps, maximise) ==
    (price * (IF maximise THEN BPS + bps ELSE BPS - bps)) \div BPS

\* getPrice; refPrice is positive
GetPrice(t, refPrice, maximise) ==
    LET fastPrice == prices[t]
        deviates == (Distance(refPrice, fastPrice) * BPS) \div refPrice > MaxDeviationBps
        beyond == IF maximise THEN refPrice > fastPrice ELSE refPrice < fastPrice
    IN IF ChainError THEN Spread(refPrice, SpreadIfChainErrorBps, maximise)
       ELSE IF Inactive THEN Spread(refPrice, SpreadIfInactiveBps, maximise)
       ELSE IF fastPrice = 0 THEN refPrice
       ELSE IF (~FavorFastPrice(t) \/ deviates) /\ beyond THEN refPrice
       ELSE fastPrice

-----------------------------------------------------------------------------
(* Properties.                                                             *)

TypeOK ==
    /\ rounds \in [Tokens -> Seq(Answers)]
    /\ \A t \in Tokens : Len(rounds[t]) \in 1..SampleSpace
    /\ prices \in [Tokens -> Nat] /\ priceData \in [Tokens -> PriceDataItem]
    /\ lastUpdatedAt \in Nat /\ lastUpdatedBlock \in Nat /\ priceDataInterval \in Nat
    /\ hasVaultPriceFeed \in BOOLEAN /\ isSpreadEnabled \in BOOLEAN
    /\ isSigner \subseteq Watchers /\ disableFastPriceVotes \subseteq Watchers
    /\ disableFastPriceVoteCount = Cardinality(disableFastPriceVotes)
    /\ now \in Nat /\ stamp \in [Tokens -> Nat]
    /\ leftOut \subseteq Tokens /\ rewound \in BOOLEAN /\ zeroed \subseteq Tokens

\* Late, repeated and reordered updates do no harm: while governance does not set
\* lastUpdatedAt itself, the price of a token is never replaced by an older one.
NewestPriceWins == [][rewound \/ \A t \in Tokens : stamp'[t] >= stamp[t]]_vars

\* "if the fastPrice has not been updated within priceDuration then it is ignored"
\* says the comment above getPrice.  lastUpdatedAt belongs to all tokens, so the code
\* uses a stale price only if a later update left its token out, or governance set
\* the time.
StaleOnlyIfLeftOut ==
    \A t \in Tokens :
        UsesFastPrice(t) => now <= stamp[t] + PriceDuration \/ t \in leftOut \/ rewound

\* The keepers are never locked out: once the window is set, and unless the price 0
\* was accepted (after which every update of the token divides by it), the first
\* update of a token in a window may confirm its price, however it came about.
UpdatesNotStuck ==
    \A t \in Tokens :
        LET reference == priceData[t].refPrice IN
        (/\ priceDataInterval > 0 /\ t \notin zeroed /\ LatestAnswer(t) > 0
         /\ reference > 0 =>
                /\ NewWindow(t)
                /\ Distance(LatestAnswer(t), reference) * DeltaPrecision
                       < MaxCumulativeDelta * reference)
            => CanSetPrice(t, prices[t])
=============================================================================
