# PRINT3R V1 contracts: a TLA+ verification project

The PRINT3R contracts are a fork of GMX V1: a leveraged exchange in Solidity
0.8.18 in which liquidity providers own a pool, traders open longs and shorts
against it, and keepers execute the traders' requests.  This directory holds TLA+
modules that model the contracts in `src/src`, the TLC configurations that check
them on small instances, and theorems about them that TLAPS has checked.

Solidity calls are atomic and checked arithmetic reverts, so an external call is
one action and everything that would revert it is a conjunct of the action.  The
hard behaviour lies between calls: the order in which traders, keepers, governance
and the price feed act, calls that fail inside other calls (`try`/`catch`), shared
balances that several ledgers claim, and rounding that accumulates.

## Inventory

| Component | State | Operations | Correct when |
|---|---|---|---|
| PositionRouter (`core/PositionRouter.sol`, `BasePositionManager.sol`) | two queues of requests, start pointers, escrowed tokens, fee reserves, delays, keepers | create, execute, cancel, the keeper's loops, admin setters, withdrawFees | every request is settled at most once and paid exactly; the escrow is always there; order is kept; no request blocks the queue |
| Vault (`core/Vault.sol`, `VaultUtils.sol`) | balances, pool, reserves, fees, guaranteed USD, USDP debts, positions, global shorts, funding | pool deposits, buy and sell USDP, swap, increase, decrease, liquidate, governance | the aggregates are the sums of the positions; reserves are in the pool; the tokens cover all claims; nobody healthy is stuck |
| VaultPriceFeed, FastPriceFeed (`core`, `oracle`) | prices, votes, timestamps, cumulative deltas, settings | set prices, vote, read | an older price never replaces a newer one; a stale one is not used; updates stay possible; the lower quote is below the higher |
| OrderBook, OrderExecutor | three kinds of orders per account, escrowed collateral and fees | create, update, cancel, execute | escrow as for the router |
| PositionManager, Router | keepers, plugins | bracket a vault call with the timelock's leverage switch, pass tokens through | nothing stays behind, leverage is off again |
| ShortsTracker | average short price per token | update before each short trade | one average price stands for all the shorts, and blocks none of them |
| BrrrManager | USDP, shares, cooldown per account, weights | add and remove liquidity | nobody's share loses value by another's deposit, redemption or trade |
| RewardTracker, RewardDistributor | stakes, cumulative reward per token, claimable | stake, unstake, claim, distribute | what is claimable has been received |
| BrrrXpAmplifier | locks per user and tier, season, XP | lock, unlock, claim | the stake comes back; XP only for the season |
| Timelock, PriceFeedTimelock, RewardTimelock, ShortsTrackerTimelock | pending actions by hash, admin, buffer | signal, execute, cancel | a change of control is announced, waits, and is made once |
| TokenManager | signers, pending actions, signatures, nonce | initialize, signal, sign, execute | a quorum asked for this very action, once |
| YieldToken, YieldTracker, TimeDistributor, BaseToken, USDP | balances, staked supply, yields | transfer, claim, distribute | supply is the sum of the balances |
| ReferralStorage, readers, AMM mocks, libraries | small or none | setters and views | not modelled |

Interactions: FastPriceFeed.setPricesWithBitsAndExecute sets prices and then runs
both loops of the PositionRouter; an execution goes through Timelock (leverage on),
Router (plugin), Vault, Timelock (leverage off) and, for shorts, the ShortsTracker;
BrrrManager calls buyUSDP and sellUSDP of the vault; the staking contracts call
RewardTracker, which pulls from RewardDistributor.  The vault learns what it has
received only by comparing its balance with the one it recorded last.

## Modules

| Module | Content |
|---|---|
| `PositionRouter` | both request queues, their funds, the keeper's loop step by step, the admin; properties and refinement mapping |
| `RequestEscrow` | the abstract promise of `PositionRouter` and `OrderBook`: a request is opened once, closed at most once, alone or with others, and takes out what it put in |
| `MCPositionRouter` | constants for TLC |
| `PositionRouterProofs` | theorems about `PositionRouter` |
| `Vault` | the vault's accounting over one index token and one stable token |
| `MCVault` | constants for TLC |
| `VaultProofs` | theorems about `Vault` |
| `ShortsTracker` | keepers' and direct trades, the tracker and its timelock, over the vault (EXTENDS `Vault`) |
| `MCShortsTracker` | constants for TLC |
| `BrrrManager` | shares of the pool over the vault and its trades (EXTENDS `ShortsTracker`) |
| `MCBrrrManager` | constants for TLC |
| `BrrrManagerProofs` | theorems about `BrrrManager` (EXTENDS `VaultProofs`) |
| `FastPriceFeed` | the prices keepers push, watchers' votes, the feed's answer |
| `VaultPriceFeed` | the quote the vault reads (EXTENDS `FastPriceFeed`) |
| `MCVaultPriceFeed` | constants for TLC |
| `FeedProofs` | theorems about both feeds |
| `DelayedControl` | the abstract promise of the timelocks |
| `Timelock` | the mechanism the four timelocks share |
| `TokenManager` | the multisig over the timelocks (EXTENDS `Timelock`); properties and refinement mapping |
| `MCTokenManager` | constants for TLC |
| `TokenManagerProofs` | theorems about `TokenManager` |
| `OrderBook` | the three kinds of orders, their funds and triggers |
| `MCOrderBook` | constants for TLC |
| `OrderBookProofs` | theorems about `OrderBook` |
| `RewardTracker` | the tracker with its distributor, and the transfer of stakes |
| `MCRewardTracker` | constants for TLC |
| `BrrrXpAmplifier` | the amplifier on top of the tracker (EXTENDS `RewardTracker`) |
| `MCBrrrXpAmplifier` | constants for TLC |
| `RewardProofs` | theorems about `RewardTracker` and `BrrrXpAmplifier` |
| `Sums` | the sum of a function over a finite set, for the totals of all modules |
| `SumTheorems` | lemmas about `Sum` and induction over finite sets |

### PositionRouter

`requests` is the pair of mappings, `keys` the pair of arrays (a deleted slot is
`NoKey`), `start` the pair of start pointers, `positionsIndex` the accounts'
counters.  The two halves of the contract are the same code twice, so one module
covers both with a `kind`.  `held` is the contract's balance per token, ETH counted
as WETH; `feeReserves` is the ledger of deposit fees.  `status` records the events
of a key and is the history the properties compare the mapping with.

The keeper's loop is one transaction made of nested calls that fail on their own.
It is modelled step by step: `loop` holds the kind, the counter and the clamped end
index, every other action requires `Idle`, and an iteration is one of `LoopSkip`
(the key has no request any more), `LoopExecute`, `LoopCancel` (execution reverted,
cancellation succeeded), `LoopDrop` (both reverted), `LoopEnd` (a request that is not
ready breaks the loop, or the range is done; the start pointer is written).  A
request whose execution may fail for a reason outside the module (price, liquidity,
size caps, swaps) may always fail.  A cancellation fails only when its callback runs
or the refund of an ERC-20 is refused; WETH refunds of ETH requests fall back to
WETH.  A direct call that reverts changes nothing and is not a step.

A callback contract that is itself a keeper and re-enters the router is not
modelled.  `depositFee` is a constant; which executions deduct it
(`PositionUtils.shouldDeductFee`) is nondeterministic, the amount is not.

### Vault

One account holds at most one long (index token as collateral) and one short
(stable token as collateral), the keys `_validateTokens` allows over these two
tokens.  Amounts keep the code's formulas and its rounding, with `UNIT` for
10^decimals (tokens, prices and USD share one precision, so the conversions are
single divisions).  Every `_validate` and every subtraction that could underflow is
a conjunct, with the error number beside it where it has one.  `SetPrice` may change
a token's quote between any two calls, to an ordered pair: that is what the feeds
promise (`QuotesAsAssumed`).  `Increase`, `Decrease`, `LiquidateOrClose` and `Redeem` are
the bodies of calls whose callers add something of their own.  `CanDecrease` is every
condition of `Decrease`, whose other conjuncts only assign, so that a decrease is possible
exactly when it holds.  `unbackedFees` and `inflow` are histories:
margin fees credited beyond a liquidated short's collateral, and the tokens ever
sent in (the bound of the runs).

Abstracted: fees that depend on the USDP target (`getFeeBasisPoints`) are one
constant rate each; router approval, gas price, manager mode, the swap switch and
the liquidator list only decide who may call; `realisedPnl` is reported and never
read.  Not modelled: token configuration, fee and funding setters, `upgradeVault`.

### ShortsTracker

A keeper's trade is one transaction: the tracker's update from the vault's state before
the trade, leverage on, the vault's call, leverage off (`PositionUtils.increasePosition`,
`BasePositionManager._decreasePosition`, `PositionManager.liquidatePosition`).
`DirectTrade` is a user's own call of the vault, which the tracker does not see.
`_getNextDelta` spells out the signs of a subtraction; the module writes the subtraction,
with a negative number for a loss.  `untracked` is a history: since there were last no
shorts, one was traded behind the tracker's back or in a way the tracker cannot repeat
(the vault ignores a small profit; with a spread it averages at another price), or
governance set the average.

Not modelled: the two margin fees of the bracket (`enableLeverage` sets the keepers' fee,
`disableLeverage` the highest); handlers, which decide only who may call.

### BrrrManager

`AddLiquidity` and `RemoveLiquidity` are whole transactions: the value of the pool before
the call, the vault's `buyUSDP` or `sellUSDP`, the shares minted or burnt.  `Aum` keeps
every term and rounding of `getAum`; `HasAum` is what would revert it.  The average of
the shorts is the vault's, the tracker's or a weighted mean.  Shares are tokens that move
freely, so only their supply is kept, and whoever calls may redeem any of them after the
caller's own cooldown.  The timelock's keepers may set the manager's USDP
(`UpdateUsdpSupply`) and its admin may mint USDP and redeem it (`RedeemUsdp`);
`usdpUnbacked` is the history of what was minted so.

`setShortsTrackerAveragePriceWeight` checks the weight it replaces and stores its argument
unchecked, in the module as in the code.  A weight above the divisor makes `getAum` revert
while the tracker is ready and there are shorts, and the setter revert from then on;
the run sets weights up to the divisor only.

### FastPriceFeed and VaultPriceFeed

An update may carry any timestamp within the allowed deviation, any list of tokens and
any prices, a price of zero included.  An older timestamp changes nothing in the code
and so is no step.  `rounds` are the last `priceSampleSpace` answers of Chainlink.
`stamp`, `leftOut`, `rewound` and `zeroed` are histories.  The bit-packed variants of an
update differ in decoding only; a list names a token once.  The quote is an operator of
the state and of a `Setting`: governance may configure a token differently between any
two reads, so the property quantifies over the settings.  Not modelled: the sequencer
check, how `getAmmPrice` derives its price from pairs, the setters of durations and spreads.

Two behaviours of the code the module keeps: a watcher who is removed leaves the vote
counted and cannot take it back; a price of zero once accepted makes every later update
of that token divide by it.

### Timelock and TokenManager

The four timelocks are one module with a contract each to govern; they differ in whether
an action may be signalled again (PriceFeedTimelock), whether it may be executed in the
very second it is due (ShortsTrackerTimelock, `<=`), and who replaces the admin
(ShortsTrackerTimelock by a delayed action, the others by the TokenManager at once).  An
action changes a governor, a setting or an admin; what a setting is does not matter to
the delay.  `ExecuteAction` of the multisig includes the call of the timelock.  Once
`setGov` has handed a contract over, its new governor changes it freely
(`GovernOutside`).  ShortsTrackerTimelock's constructor takes any buffer, the others' only
one up to `MaxBuffer`.  The multisig's `signers` is an array that `Initialize` sets once
and that may name an account twice; `Authorized` counts its entries, as
`_validateAuthorization` does, so such an account counts twice.  `QuorumDecides` promises
as many different signers only for an array that names nobody twice.
`signalledAt` and `signedSince` are histories.  Calls that the timelocks pass straight
through are not delayed and not modelled here; those that matter to another component
are in its module.

### OrderBook

`orders` is the three mappings under one index `<<kind, account, index>>`, `held` the
balance per token with ETH as WETH, `status` a history of events.  The three copies of
cancel and update are one action each; the executions differ in the side of the quote
they read and have one each.  `Close` deletes orders and pays out what they hold, for a
set of orders because `cancelMultiple` is one transaction.  What the vault pays into the
contract during an execution or a swap leaves it in the same call, so only the net
effect shows.  Sizes, `minOut`, the minimal purchase amount, the plugins and receivers
that refuse are reasons to revert and appear as calls that are not made; the price of
USDP in a swap trigger (`getUsdpMinPrice`) is one of the quotes.  The refinement mapping
gives every open order its deposit, collateral in WETH and execution fee, per token.
Anybody may send tokens to the contract without a call (`Donate`); no function of it
notices, nobody gets them out again, and the history `donated` keeps them apart from the
orders' funds in `FundsExact` and in the abstract pot.

### RewardTracker

The two contracts are one record, `tracker`, and each internal function is an
operator from a record to the next (`UpdatedRewards`, `Staked`, `Unstaked`,
`Claimed`, with `CanStake` and so on for what would revert), because other contracts
make several of these calls in one transaction: `StakeTransferred` is
TransferStakedBrrr's unstake followed by a stake.  `SetDistributorRewards` is the
RewardTimelock's pair of calls, the timelock being the distributor's admin.  The fields `accrued`,
`distributed`, `claimed`, `fairShare` and `roundings` are histories.  `fairShare` is
exact in 1/`ShareUnit`, a common multiple of the supplies.

Not modelled: handlers, allowances, cooldowns and the private modes, which decide
who may call and for whom; `averageStakedAmounts`, only reported by a view (the division by
`nextCumulativeReward` that computes it can revert, so that is kept); the tracker's own
`withdrawToken`, by which governance could take any token.

### BrrrXpAmplifier

A second record, `amplifier`; calls map the pair of records to the next pair.
`Updated` is `_updateRewards`: the amplifier's own claim, the division of what came
in, the user's reward and XP.  `UnlockEach` is a recursive function along the id list as it was when the call
began; it keeps whether one of the unlocks reverted.  `weights`
records each user's XP weight in each second, `recovered` what governance took after
the season.  `TrackerCallers` bounds who also calls the tracker directly.

## Runs

| Run | Question | Bounds | States |
|---|---|---|---|
| `escrow` | do the balances cover every request and fee, and is it an escrow whatever the admin does? | 1 trader, 1 keeper, 2 tokens, ETH and token requests, a callback target, an ERC-20 that may refuse; 1 admin call, start pointers set to 0 or 2 | 666 k |
| `live` | order, what the loop may forget; do queues drain, are benign requests settled? | 2 requests of each kind created at time 0, time 2, block 1 | 67 k |
| `longs` | sums of the longs, does a reserve cover what its position may be paid, and can a healthy position always close? | 2 traders, 3 deposits of the index token and one of the stable token, swaps, 3 quotes with a spread, 2 funding times, stray transfers, a debt set by governance | 472 k |
| `shorts` | the global size and the tracker's average against the positions | 2 traders, 5 trades by keepers or users, prices 1000 and 2000, a threshold for small profits, averages and readiness set by governance | 404 k |
| `manager` | is the accounting sound and is no share diluted, with liquidity, trades and governance together? | 1 account, 4 calls of which 2 trades, deposits of both tokens, longs and shorts of two sizes, swaps, an index price that moves by a quarter, a spread of the stable token, an AUM deduction, USDP supply and redemption by the timelock | 1.87 M |
| `orders` | is the order book an escrow, does it hold what its orders put in, and execute them at their price? | 1 account, 4 orders, 2 tokens, 2 quotes and 2 triggers, increase orders with WETH as collateral, 1 WETH sent to the contract directly | 87 k |
| `rewards` | do shares, stakes and deposits stay one total; is every reward there, and fairly divided? | 2 accounts, 2 deposit tokens, supplies to 3, 3 times, rates 0 and 2, a deposit token disabled and enabled, a distributor of 3 tokens | 211 k |
| `locks` | lists, totals, XP and the way out | 1 user with 2 tokens, 3 positions of 2 tiers, 4 times, the season end moved to 2 or 4 | 160 k |
| `lock_rewards` | are the users' rewards there? | 2 users sharing, 2 locks, the tracker's rewards | 80 k |
| `timelocks` | is control delayed, and is it a quorum that appoints? | a timelock of each kind, 2 accounts, an array of both or of one of them twice as signers, 2 signatures needed, 2 multisig actions of 3 kinds, buffers 1 and 2, one raise of one of them, 3 times | 383 k |
| `feeds` | do late updates harm, are stale prices used, can updates get stuck, are quotes ordered? | 1 token, 1 watcher, 3 fast prices with 0, 2 answers in a sample of 2, 3 times, 2 old or new timestamps, all settings of the stable rule, AMM and spread | 394 k |
| `callable` | is a claim possible at any time? (violated) | as `locks` | |

The router's bounds allow two requests in one queue with a third party's behaviour
around them: a request before, at and after the cursor, a direct settlement between
two loops, a loop that breaks in the middle, expiry before and after the keeper
delay.  The vault's bounds allow a pool from several deposits, two positions of one
side at once, a later increase at another price, partial and full closes, losses
beyond the collateral, and funding that exceeds it.  Small precisions make rounding
coarse, so every rounding direction is visible.  All runs set CHECK_DEADLOCK FALSE:
clock, requests and deposits are bounded, so a behaviour ends when they are used up.

`manager` lets every kind of call follow every other: a deposit and a redemption with a
long and a short open in profit or loss, the price moving in between.  Four calls
are the shortest behaviour in which a second depositor meets open positions of both
sides.  `TradesKeepAum` holds within `Tolerance`, 5 of the 1000 units of a dollar, the
rounding of a trade; its conditions name the trades that do move value, by the code's own
rules: with a spread, an average the tracker did not follow, a position under water whose
remaining collateral the pool keeps.

`shorts` compares the profit at the tracker's average with the sum of the positions'
profits at every price within `Tolerance`, 10 of 1000; five trades are needed for an
increase at another price, a partial and a full close of two traders.

`timelocks` has one action per timelock, each of another power, so that signalling twice,
cancelling, raising the buffer, replacing the admin and executing can interleave; two
nonces let an action of the multisig be signalled again after its execution.  With the
second array of signers one account reaches the two signatures alone.

`feeds` needs one token only, because updates treat the tokens of a list alike and an
update may also list none, which is how a token is left out.

Three things the code does that no run lists as violated, because an invariant
characterises each exactly.  When a request's execution and its cancellation both fail,
the keeper's loop drops the key although the comment in `executeIncreasePositions` says
"in case an error was thrown, cancel the request"; `OnlyFailedCancelStrands` shows that
this is the only way to lose a place in the queue, and `EscrowBacked` that nothing is
paid twice.  `validateLiquidation` caps the margin fees by the remaining collateral
except when the losses exceed it: a short's liquidation then credits `feeReserves` with
tokens nobody paid, `withdrawFees` pays them, and the pool amount exceeds the balance,
which assertion 49 denies; `Solvent` shows that these fees (`unbackedFees`) are the only
gap.  A stale price is used when later updates left its token out, although the comment
above `FastPriceFeed.getPrice` says that it is ignored; `StaleOnlyIfLeftOut` shows that
this, and governance setting the time, are the only ways.

The tracker's bounds let a distribution find nothing staked, one or several stakes,
and too few tokens.  With a precision of 4 a supply of 3 makes the counter round, and a
share of 2 or 3 stakes makes a reward round, so both losses that `ProRata` allows occur;
`ShareUnit` is 6, a multiple of the supplies 1, 2 and 3.

`callable`: "Callable at any time" fails once a user's rewards were brought up to
date after the season's end, because `seasonEnd - lastXpUpdate[user]` is negative.
From then on claims, locks and unlocks of that user revert, and `unlockAllPositions`
reverts after the season whenever two positions have expired.  `ExpiredCanUnlock`
shows that, but for this, recovered shares and a disabled deposit token, the stake
always comes back.

### Fairness

`FairSpec` is used by `live` only.  The keeper is FastPriceFeed's updater, which
ends every price update with both loops over the whole queue
(`setPricesWithBitsAndExecute`), so a loop that can be started again and again is
started: strong fairness, because other transactions come between.  A loop that has
begun is one transaction, so its steps have weak fairness.  Blocks and time keep
coming, between transactions: strong fairness on `NextBlock`.  Nothing is assumed of
traders, of the admin or of direct calls.

## Proofs

The theorems hold for every value of the constants that the modules' assumptions allow:
any number of traders, tokens, orders and positions, any fee rates, prices, precisions and
times.  Every safety invariant and action property of the passing runs is a theorem, but
for the four listed at the end of this section.  The types of `PositionRouter` and of
`BrrrXpAmplifier` are theorems only (`TypeCorrect`, `AmplifierTyped`): no run has them.

**Sums.**  Many properties say that a total is the sum of what it is made of.
`SumTheorems` shows that a sum changes by what one of its terms does (`SumChange`), that
sums are ordered and added term by term, and that finite products are finite.  The
induction over finite sets this needs is stated with a set of sets (`SetInduction`)
instead of an operator, which the provers cannot instantiate, and follows from the
strict-subset order being well founded.

`PositionRouterProofs`, from `RouterAssumption` alone (the types of the constants):

- `TypeCorrect`: `TypeOK` is inductive; it includes that the loop's counter and end
  are inside the array, which needs the clamp of the end index and that keys are
  only appended while no loop runs.
- `EventsCorrect`: `RequestsMatchEvents`, relative to `TypeOK`.  `StepCases` reduces
  a step to four cases: a store, a settlement of a pending key, a fee withdrawal, or
  no change of requests.
- `Implementation`: with `TypeOK` and `RequestsMatchEvents` as invariants, a store
  maps to `Open`, a settlement to `Execute` or `Cancel`, `WithdrawFees` to
  `CollectFees`, everything else stutters.
- `EscrowAlwaysBacked`: `FundsInv`, the types, the events and the property itself, is
  inductive.  A request's entry was empty before it was stored, which is why the events are
  needed: storing then adds exactly the new deposit to the sum.
- `QueueInOrder` and `KeysUnique`: by the cases of a step as the queues see it.
- `StrandsOnlyFailed`: a key leaves a queue only at the cursor (`LeavesAtCursor`), and of
  the loop's steps only `LoopDrop` passes one whose request is still stored.

`VaultProofs`, from `VaultAssumption` alone:

- `TypeCorrect` and `ReservesInPool`: `TypeOK /\ ReservedBacked` is inductive.  Each
  needs the other: the pool is natural because it stays above a natural reserve, and
  the reserve shrinks because a share of a position's `reserveAmount` is at most the
  whole (`ShareAtMost`).  One lemma per operation; arithmetic lemmas on rounding
  divisions (`DivNat`, `AfterFeeBound`, `FundingFeeNat`, `DeltaNat`) carry them.
  `ReductionType` covers `_reduceCollateral`, `LiquidationFeesNat` the fees of
  `validateLiquidation` when losses exceed the collateral.
- `ReservesAddUp`, `GuaranteeAddsUp` and `ShortsAddUp`: `Totals` is inductive beside that
  invariant.  `PositionStep` says what a call has to show: one position changes, and each
  total by as much.  Every operation then only has to be brought into that form.
- `VaultSolvent`: `Covered`, that no token's surplus is negative, is inductive beside the
  types.  It needs that a sum of conversions is at most the conversion of the
  sum (`ConversionSuperadditive`), and of the stable token's quote that it is strict
  (`StrictStablePrices`: at most a dollar on the low side, at least a dollar on the high
  side).  A short's collateral is kept in dollars but held in stable tokens: strictness makes a
  deposit worth no more dollars than it has tokens, and a payment of dollars no more tokens
  than dollars.  The hypothesis is what `isStrictStable` makes of the stable token in
  `VaultPriceFeed` (`QuotesAlways`).

- `ClosesHealthy`: the same strict quote, and a positive `LiquidationFeeUsd`: with a fee of
  zero a position worth exactly its fees is in order, and `_reduceCollateral` cannot pay
  them.  `CloseReduction` shows that a healthy position's collateral pays its loss and its
  fees with something left.  What then has to hold is one check after the other: the
  reserve is at most the sum of all reserves, which is at most the pool (`WithinTotals`),
  so that a payment the position's own reserve covers leaves the pool above what is
  reserved for the others; the guarantee is at least the position's part of it; and by
  `Covered` the balance is there (`LongCloses`, `ShortCloses`).  The short's case
  asks for `unbackedFees = 0`: a liquidation beyond a short's collateral credits fees
  nobody paid, and once governance has withdrawn them the balance may lack the collateral
  of a healthy short.
- `ShortReservesCover`: a short gains at most its size, and at a strict quote its reserve
  is at least its size in tokens.  `ShortCovered` is inductive: an increase adds the size
  rounded at the favourable quote (`IncreaseReserves`), and the rounded share a decrease
  frees leaves enough for the rest (`ShareLeaves`).  With `ClosesHealthy` a healthy short
  can always be closed while no fees are unbacked.

`OrderBookProofs`, from `OrderBookAssumption` alone:

- `EventsCorrect`: `OrdersMatchEvents` with the types of orders, indexes and events is
  inductive.  `StepCases` reduces a step to storing one order at the next index,
  changing a trigger, closing some open orders, a donation, or nothing.
- `TriggersRespected`: from the same invariant, since only an order whose event is
  "created" can become "executed", and only by its own execution.
- `FundsAlwaysExact`: with that invariant the property is inductive as it stands; a set of
  orders closed at once takes the sum of what they hold, and a donation adds the same to
  the balance and to `donated`.
- `Implementation`: by the same cases, storing maps to `Open`, closing a set of orders to
  `Execute` or `Cancel` of the set, and a new trigger or a donation stutters.  That an index was never
  used before (`OrdersMatchEvents`) is what makes a creation an `Open`.

`BrrrManagerProofs`, from the assumptions on the constants of the three modules:

- `TypesAlways` and `ReservedAlways`: `LiquidityInv` joins the vault's inductive
  invariant, the types of tracker and manager, and that the quotes are ordered.  The
  vault's lemmas are cited for the bodies of its calls, so trades by keepers, deposits and
  redemptions add only what is their own.
- `SharesAlwaysKeepValue`: a deposit mints at most its part at the higher value of the
  pool, and by `BuyUSDP` the pool gains at least what was bought; a redemption takes at
  most its part at the lower value.  Both are arithmetic on rounding divisions
  (`DepositKeepsValue`, `RedemptionKeepsValue`), and need the quotes ordered
  (`AumOrdered`), so that what is fair at one quote is fair at the other.
- `ShortsAddUpForKeepers` (of the specification of run `shorts`) and `VaultSolventAlways`
  (of run `manager`, with the same hypothesis as `VaultSolvent`): the vault's invariants
  when its callers are keepers, users, the manager and governance.
- `DebtAlwaysCoversSupply`: as long as governance overwrites no debt with
  `setUsdpAmount` (`UsdpSettings = {}`, which is also what run `manager` takes); that call
  sets a debt to any number, whatever the supply is.

`RewardProofs`, from the assumptions of the two modules.  A call is an operator from the
state of a contract to the next one, and several are made in one transaction, so the lemmas
speak of any state `s` that is `Sound`, not of the variable:

- `TrackerTyped`, `StakesAlwaysAddUp`, `RewardsAlwaysBacked`, `ScheduleKept`: `Sound`
  joins the types, the sums of stakes (`StakeSums`), that what is claimable was earned
  (`Marked`), the schedule, and `Backed`.  The property `RewardsBacked` compares rounded
  rewards with the balance and is not inductive: two roundings can lose what one
  would not.  `Backed` counts what is owed exactly, in 1/`PRECISION`; a
  distribution adds at most what it brings in, because the counter's growth was rounded down,
  and paying out a rounded reward keeps it.
- `AlwaysProRata`: `FairInvariant` keeps, per account, the exact share of every
  distribution by the stake held then (`fairShare`), how often a reward of the account was
  rounded (`roundings`), and what the counter's rounding lost it (`lost`).  An
  update rounds twice, each time down and by less than one unit, and the inequality
  carries both.  Every supply has to divide `ShareUnit`, which follows from
  `Conserved`: tokens staked and tokens in wallets are all there ever were.  `ShareUnit`
  is a unit for the history only, a common multiple of the possible supplies, which exists
  for every number of tokens; no operation of the contract reads it.
- `UpdatesAlwaysSucceed`: in a `Sound` state an update neither divides by zero nor
  underflows (`CanUpdateSound`, `CanClaimSound`, `CanUnstakeSound`).
- `AmpInvariantHolds`: `AmpInvariant` joins `Sound` of the tracker, `Locks` of the
  amplifier and what one holds of the other (`AmplifierHolds`).  `Locks` has the types,
  that the lists name the open positions and no id is used again (`Listed`), the sums of
  the deposits (`LockSums`), the rewards owed in exact units (`LockBacked`, for the
  reason above), and `XpKept`: the XP is at most what was weighed up to the user's last
  update, and since then the weight has been what it is now.  The last part is what an
  update after a long pause relies on.
- From it `AmplifierTyped`, `LocksAlwaysAddUp`, `LocksAlwaysStaked`,
  `LockRewardsAlwaysBacked`, `XpAlwaysWithinSeason` and `ExpiredAlwaysUnlocks`.  The
  last follows every subtraction and nested call of an unlock, down to the tracker's,
  and shows that none reverts.  `unlockAllPositions` is a recursive function over the
  user's list; that it keeps the invariant is an induction along the list, with a set of
  indexes (`IntervalInduction`) for the reason given under sums.

`TokenManagerProofs`, from the assumptions of the two modules:

- `TypeCorrect`, and `ChangesDelayed`: the refinement of `DelayedControl`.  `DelayKept`
  is the invariant behind it: a due time is the time of the signal plus a buffer that
  was at least the first one, because buffers only grow.
- `QuorumAlways`, from `SignaturesFresh`: a signature of a pending action was given
  since its signal, because a nonce is used once.  `EntriesOfSigners` counts accounts by
  entries of an array that names nobody twice.

`FeedProofs`, from the assumptions of the two feeds:

- `TypeCorrect`; `NewestAlways` and `StaleAlways`, from `StampsKept`: no token's stamp
  is later than `lastUpdatedAt`, and equal to it unless left out, while governance does
  not set the time.
- `UpdatesAlways`, from `DeltasKept`: a token with reference data has a price above zero
  unless it was once given zero.
- `QuotesAlways`: by cases on the source that wins on each side.

Only model-checked:

- liveness, which needs fairness and ENABLED, beyond the prover;
- `CallableAtAnyTime`, which is violated;
- `TrackedShortsMatch`, `TrackerNeverBlocks` and `TradesKeepAum`: they hold up to roundings
  that add up with the number of trades, within a tolerance chosen for the run's bound, so
  that no inductive invariant in terms of the constants is at hand;
- `ReservesCover` for the longs: it holds at the run's amounts, but is not true for every
  value of the constants, because the average price of a position increased at several
  prices is rounded once and its reserve at every increase.  What a long may be paid can
  then exceed its reserve by the smallest units of a token.  `ClosesHealthy` therefore
  has it as a condition.

## Not modelled

Yield tokens (`YieldToken`, `YieldTracker`, `TimeDistributor`), the router's plugins, the
reward router and migrator, referral storage: small state with the same patterns as
modules above, left for later.  Readers, batch helpers, AMM mocks and libraries have no
state of the protocol.  Within modelled components: the vault's dynamic fees, token
configuration, fee setters and `upgradeVault`, after which none of the accounting is meant
to hold; the two margin fees of the leverage bracket; private modes, handlers and
allowances, which decide who may call; contracts that re-enter from a callback.

## Plan

1. Prove a bound for `TradesKeepAum` and `TrackedShortsMatch` that grows with the number of
   trades.
2. Prove how far a long's payment can exceed its reserve, in units per increase.
3. The bracket's two margin fees; executions of the order book composed with the vault.
4. `YieldToken`, `YieldTracker`, `TimeDistributor`; the reward router and the migrator.
5. Pure algorithms: `getFeeBasisPoints` against a reference formula.
