---------------------------- MODULE RewardTracker ----------------------------
(***************************************************************************)
(* RewardTracker.sol and RewardDistributor.sol: accounts stake deposit      *)
(* tokens for shares; the distributor releases reward tokens at a rate, and *)
(* every call of the tracker first shares out what has come due.            *)
(*                                                                          *)
(* The state of the two contracts is one record, and a call is an operator  *)
(* from a state to the next, because other contracts make several calls in  *)
(* one transaction.  Who may call (handlers, private modes, allowances) is  *)
(* not modelled: handlers act for any account, so any account may act.      *)
(***************************************************************************)
EXTENDS Integers, FiniteSets, FiniteSetsExt, Sums

CONSTANTS
    Accounts, NoAccount,      \* NoAccount is address(0)
    DepositTokens,
    Brrr,                     \* the deposit token that TransferStakedBrrr moves
    PRECISION,
    ShareUnit,                \* history: a multiple of every possible supply
    Holdings,                 \* deposit tokens in each account's wallet at the start
    Amounts, Rates, Fundings, DepositSettings,  \* arguments of the calls
    MaxFunding, MaxTime       \* bounds

ASSUME TrackerAssumption ==
    /\ IsFiniteSet(Accounts) /\ IsFiniteSet(DepositTokens)
    /\ NoAccount \notin Accounts /\ Brrr \in DepositTokens
    /\ PRECISION \in Nat \ {0} /\ ShareUnit \in Nat \ {0}
    /\ Holdings \in [Accounts -> [DepositTokens -> Nat]]
    /\ Amounts \subseteq Nat \ {0} /\ Rates \subseteq Nat /\ Fundings \subseteq Nat \ {0}
    /\ DepositSettings \subseteq BOOLEAN
    /\ MaxFunding \in Nat /\ MaxTime \in Nat

\* all the deposit tokens there are, so the largest supply of shares
TotalHoldings == Sum([a \in Accounts |-> Sum(Holdings[a], DepositTokens)], Accounts)
ASSUME ShareUnitAssumption == \A supply \in 1..TotalHoldings : ShareUnit % supply = 0

VARIABLES tracker, now
trackerVars == <<tracker, now>>

PerAccount(x) == [a \in Accounts |-> x]

EmptyTracker ==
    [distributorBalance |-> 0,          \* reward tokens of the distributor
     tokensPerInterval |-> 0, lastDistributionTime |-> 0,
     rewardBalance |-> 0,               \* reward tokens of the tracker
     wallets |-> Holdings,              \* deposit tokens of the accounts
     isDepositToken |-> [t \in DepositTokens |-> TRUE],
     depositBalances |-> PerAccount([t \in DepositTokens |-> 0]),
     totalDepositSupply |-> [t \in DepositTokens |-> 0],
     totalSupply |-> 0, balances |-> PerAccount(0), stakedAmounts |-> PerAccount(0),
     cumulativeRewardPerToken |-> 0,
     previousCumulatedRewardPerToken |-> PerAccount(0),
     claimableReward |-> PerAccount(0), cumulativeRewards |-> PerAccount(0),
     \* histories: what the rate allowed, what was distributed, what each account
     \* was paid, its exact share (in 1/ShareUnit), how often its share was rounded,
     \* its stake whenever the counter was
     accrued |-> 0, distributed |-> 0, claimed |-> PerAccount(0), fairShare |-> PerAccount(0),
     roundings |-> PerAccount(0), lost |-> PerAccount(0), funded |-> 0]

-----------------------------------------------------------------------------
(* The distributor.                                                        *)

PendingRewards(s) == s.tokensPerInterval * (now - s.lastDistributionTime)

\* distribute pays what it has, and forgets the rest
Distribution(s) == Min({PendingRewards(s), s.distributorBalance})
Distributed(s) ==
    IF PendingRewards(s) = 0 THEN s
    ELSE [s EXCEPT !.lastDistributionTime = now,
                   !.distributorBalance = @ - Distribution(s),
                   !.rewardBalance = @ + Distribution(s),
                   !.distributed = @ + Distribution(s)]

-----------------------------------------------------------------------------
(* _updateRewards.                                                         *)

\* the block reward is divided among the shares; without any it stays unassigned
SharedOut(s) ==
    IF s.totalSupply = 0 THEN Distributed(s)
    ELSE [Distributed(s) EXCEPT
            !.cumulativeRewardPerToken = @ + (Distribution(s) * PRECISION) \div s.totalSupply,
            !.fairShare = [a \in Accounts |->
                @[a] + Distribution(s) * s.stakedAmounts[a] * (ShareUnit \div s.totalSupply)],
            !.lost = [a \in Accounts |->
                @[a] + IF (Distribution(s) * PRECISION) % s.totalSupply = 0 THEN 0
                       ELSE s.stakedAmounts[a]]]

Unrounded(s, a) ==
    s.stakedAmounts[a] * (s.cumulativeRewardPerToken - s.previousCumulatedRewardPerToken[a])
AccountReward(s, a) == Unrounded(s, a) \div PRECISION
Rounds(s, a) == Unrounded(s, a) % PRECISION # 0

\* the average staked amount divides by the next cumulative reward
Counts(s, a) == s.claimableReward[a] + AccountReward(s, a) > 0 /\ s.stakedAmounts[a] > 0

CanUpdateRewards(s, a) ==
    /\ s.lastDistributionTime <= now
    /\ a # NoAccount /\ SharedOut(s).cumulativeRewardPerToken # 0 =>
         /\ s.previousCumulatedRewardPerToken[a] <= SharedOut(s).cumulativeRewardPerToken
         /\ Counts(SharedOut(s), a) => s.cumulativeRewards[a] + AccountReward(SharedOut(s), a) > 0

\* mutant: the account's mark is not moved
UpdatedRewardsUnmarked(s, a) ==
    LET shared == SharedOut(s) IN
    IF a = NoAccount \/ shared.cumulativeRewardPerToken = 0 THEN shared
    ELSE [shared EXCEPT
            !.claimableReward[a] = @ + AccountReward(shared, a),
            !.cumulativeRewards[a] =
                IF Counts(shared, a) THEN @ + AccountReward(shared, a) ELSE @]

\* mutant: the reward is not added to the cumulative rewards
UpdatedRewardsUncounted(s, a) ==
    LET shared == SharedOut(s) IN
    IF a = NoAccount \/ shared.cumulativeRewardPerToken = 0 THEN shared
    ELSE [shared EXCEPT
            !.claimableReward[a] = @ + AccountReward(shared, a),
            !.previousCumulatedRewardPerToken[a] = shared.cumulativeRewardPerToken]

UpdatedRewards(s, a) ==
    LET shared == SharedOut(s) IN
    IF a = NoAccount \/ shared.cumulativeRewardPerToken = 0 THEN shared
    ELSE [shared EXCEPT
            !.claimableReward[a] = @ + AccountReward(shared, a),
            !.previousCumulatedRewardPerToken[a] = shared.cumulativeRewardPerToken,
            !.cumulativeRewards[a] =
                IF Counts(shared, a) THEN @ + AccountReward(shared, a) ELSE @,
            !.roundings[a] = IF Rounds(shared, a) THEN @ + 1 ELSE @]

-----------------------------------------------------------------------------
(* _stake, _unstake, _transfer and _claim.                                 *)

\* mutant: the stake counts for the rewards that were due before it
StakedEarly(s, funding, a, t, amount) ==
    UpdatedRewards([s EXCEPT
        !.wallets[funding][t] = @ - amount,
        !.stakedAmounts[a] = @ + amount,
        !.depositBalances[a][t] = @ + amount,
        !.totalDepositSupply[t] = @ + amount,
        !.totalSupply = @ + amount, !.balances[a] = @ + amount], a)

CanStake(s, funding, a, t, amount) ==
    /\ amount > 0 /\ s.isDepositToken[t]
    /\ s.wallets[funding][t] >= amount
    /\ CanUpdateRewards(s, a)
Staked(s, funding, a, t, amount) ==
    [UpdatedRewards(s, a) EXCEPT
        !.wallets[funding][t] = @ - amount,
        !.stakedAmounts[a] = @ + amount,
        !.depositBalances[a][t] = @ + amount,
        !.totalDepositSupply[t] = @ + amount,
        !.totalSupply = @ + amount, !.balances[a] = @ + amount]

CanUnstake(s, a, t, amount) ==
    /\ amount > 0 /\ s.isDepositToken[t]
    /\ CanUpdateRewards(s, a)
    /\ s.stakedAmounts[a] >= amount
    /\ s.depositBalances[a][t] >= amount /\ s.totalDepositSupply[t] >= amount
    /\ s.balances[a] >= amount /\ s.totalSupply >= amount
\* mutant: the stake is not given back
UnstakedKept(s, a, t, amount, receiver) ==
    [UpdatedRewards(s, a) EXCEPT
        !.depositBalances[a][t] = @ - amount,
        !.totalDepositSupply[t] = @ - amount,
        !.totalSupply = @ - amount, !.balances[a] = @ - amount,
        !.wallets[receiver][t] = @ + amount]
Unstaked(s, a, t, amount, receiver) ==
    [UpdatedRewards(s, a) EXCEPT
        !.stakedAmounts[a] = @ - amount,
        !.depositBalances[a][t] = @ - amount,
        !.totalDepositSupply[t] = @ - amount,
        !.totalSupply = @ - amount, !.balances[a] = @ - amount,
        !.wallets[receiver][t] = @ + amount]

\* shares move alone: stakes, deposits and rewards stay with the sender
CanMoveShares(s, sender, amount) == s.balances[sender] >= amount
SharesMoved(s, sender, recipient, amount) ==
    LET sent == [s.balances EXCEPT ![sender] = @ - amount]
    IN [s EXCEPT !.balances = [sent EXCEPT ![recipient] = @ + amount]]

CanClaim(s, a) ==
    /\ CanUpdateRewards(s, a)
    /\ UpdatedRewards(s, a).claimableReward[a] <= UpdatedRewards(s, a).rewardBalance
Claim(s, a) == UpdatedRewards(s, a).claimableReward[a]
Claimed(s, a) ==
    [UpdatedRewards(s, a) EXCEPT
        !.claimableReward[a] = 0,
        !.rewardBalance = @ - Claim(s, a),
        !.claimed[a] = @ + Claim(s, a)]

\* TransferStakedBrrr._transfer (and StakedBrrrMigrator): unstakes to the sender,
\* stakes for the recipient
CanTransferStaked(s, sender, recipient, amount) ==
    /\ CanUnstake(s, sender, Brrr, amount)
    /\ CanStake(Unstaked(s, sender, Brrr, amount, sender), sender, recipient, Brrr, amount)
StakeTransferred(s, sender, recipient, amount) ==
    Staked(Unstaked(s, sender, Brrr, amount, sender), sender, recipient, Brrr, amount)

-----------------------------------------------------------------------------
TrackerInit == tracker = EmptyTracker /\ now = 1

Stake(a, t, amount) ==
    /\ CanStake(tracker, a, a, t, amount)
    /\ tracker' = Staked(tracker, a, a, t, amount)

Unstake(a, t, amount, receiver) ==
    /\ CanUnstake(tracker, a, t, amount)
    /\ tracker' = Unstaked(tracker, a, t, amount, receiver)

TransferStaked(sender, recipient, amount) ==
    /\ CanTransferStaked(tracker, sender, recipient, amount)
    /\ tracker' = StakeTransferred(tracker, sender, recipient, amount)

\* transfer and transferFrom of the shares; BrrrBalance adds a cooldown
Transfer(sender, recipient, amount) ==
    /\ CanMoveShares(tracker, sender, amount)
    /\ tracker' = SharesMoved(tracker, sender, recipient, amount)

ClaimReward(a) ==
    /\ CanClaim(tracker, a)
    /\ tracker' = Claimed(tracker, a)

UpdateRewards ==
    /\ CanUpdateRewards(tracker, NoAccount)
    /\ tracker' = UpdatedRewards(tracker, NoAccount)

\* what `users` may call; recipients are any accounts
AccountCall(users) ==
    /\ \/ \E a \in users, t \in DepositTokens, amount \in Amounts :
             Stake(a, t, amount) \/ Unstake(a, t, amount, a)
       \/ \E sender \in users, recipient \in Accounts, amount \in Amounts :
             TransferStaked(sender, recipient, amount) \/ Transfer(sender, recipient, amount)
       \/ \E a \in users : ClaimReward(a)
       \/ UpdateRewards
    /\ UNCHANGED now

\* RewardDistributor.setTokensPerInterval settles the old rate before the new one
\* counts, but with nothing due the clock stays behind
CanSetTokensPerInterval(s) == s.lastDistributionTime # 0 /\ CanUpdateRewards(s, NoAccount)
TokensPerIntervalSet(s, rate) ==
    [UpdatedRewards(s, NoAccount) EXCEPT !.tokensPerInterval = rate]

\* updateLastDistributionTime: what was due since then is never distributed
LastDistributionTimeUpdated(s) == [s EXCEPT !.lastDistributionTime = now]

\* mutant: the clock is not moved before the rate changes
SetDistributorRewardsLate(rate) ==
    /\ tracker.lastDistributionTime <= now
    /\ tracker' = TokensPerIntervalSet(tracker, rate)

\* RewardTimelock, the distributor's admin, makes both calls in one
SetDistributorRewards(rate) ==
    /\ CanSetTokensPerInterval(LastDistributionTimeUpdated(tracker))
    /\ tracker' = TokensPerIntervalSet(LastDistributionTimeUpdated(tracker), rate)

SetDepositToken(t, isDeposit) == tracker' = [tracker EXCEPT !.isDepositToken[t] = isDeposit]

\* the distributor's withdrawToken, of reward tokens
WithdrawToken(amount) ==
    /\ amount <= tracker.distributorBalance
    /\ tracker' = [tracker EXCEPT !.distributorBalance = @ - amount]

\* protocol fees arrive at the distributor
Fund(amount) ==
    /\ tracker.funded + amount <= MaxFunding               \* bound
    /\ tracker' = [tracker EXCEPT !.distributorBalance = @ + amount, !.funded = @ + amount]

AdminCall ==
    /\ \/ \E rate \in Rates : SetDistributorRewards(rate)
       \/ \E t \in DepositTokens, isDeposit \in DepositSettings : SetDepositToken(t, isDeposit)
       \/ \E amount \in Fundings : WithdrawToken(amount) \/ Fund(amount)
    /\ UNCHANGED now

Tick ==
    /\ now < MaxTime                                       \* bound
    /\ now' = now + 1
    /\ tracker' = [tracker EXCEPT !.accrued = @ + tracker.tokensPerInterval]

TrackerNext == AccountCall(Accounts) \/ AdminCall \/ Tick

TrackerSpec == TrackerInit /\ [][TrackerNext]_trackerVars

-----------------------------------------------------------------------------
(* Properties.                                                             *)

SumOver(f) == Sum(f, DOMAIN f)

\* The type of every field of the contracts; nothing underflows.
TrackerTypeOK ==
    /\ now \in Nat
    /\ \A n \in {tracker.distributorBalance, tracker.tokensPerInterval, tracker.rewardBalance,
                 tracker.totalSupply, tracker.cumulativeRewardPerToken} : n \in Nat
    /\ tracker.lastDistributionTime \in 0..now
    /\ \A f \in {tracker.balances, tracker.stakedAmounts, tracker.claimableReward,
                 tracker.cumulativeRewards} : f \in [Accounts -> Nat]
    /\ tracker.previousCumulatedRewardPerToken \in
         [Accounts -> 0..tracker.cumulativeRewardPerToken]
    /\ \A f \in {tracker.wallets, tracker.depositBalances} :
         f \in [Accounts -> [DepositTokens -> Nat]]
    /\ tracker.totalDepositSupply \in [DepositTokens -> Nat]
    /\ tracker.isDepositToken \in [DepositTokens -> BOOLEAN]

\* However shares travel between accounts, the shares, the stakes and the deposits
\* are the same total, and a stake is the sum of the account's deposits.
StakesAddUp ==
    /\ tracker.totalSupply = SumOver(tracker.balances)
    /\ tracker.totalSupply = SumOver(tracker.stakedAmounts)
    /\ \A a \in Accounts : tracker.stakedAmounts[a] = SumOver(tracker.depositBalances[a])
    /\ \A t \in DepositTokens :
         tracker.totalDepositSupply[t] =
             SumOver([a \in Accounts |-> tracker.depositBalances[a][t]])

\* The tracker holds the rewards it owes, recorded and not, so no claim is ever
\* refused for lack of tokens.
RewardsBacked ==
    tracker.rewardBalance >=
        SumOver([a \in Accounts |-> tracker.claimableReward[a] + AccountReward(tracker, a)])

\* An update never divides by zero or underflows, so no account is ever locked out
\* of unstaking or claiming: whoever has a reward has a cumulative reward.
UpdatesNeverRevert == \A a \in Accounts \cup {NoAccount} : CanUpdateRewards(tracker, a)

\* What an account was paid and is owed is its pro rata share of every
\* distribution, for the stake it had then, never more; less by under a token
\* whenever its share was rounded, and by under 1/PRECISION of a token for each
\* token of its stake whenever the counter of all accounts was.
ProRata ==
    \A a \in Accounts :
        LET got == ShareUnit * (tracker.claimed[a] + tracker.claimableReward[a])
            have == PRECISION * got + ShareUnit * Unrounded(tracker, a)
        IN /\ have <= PRECISION * tracker.fairShare[a]
           /\ PRECISION * tracker.fairShare[a]
                  <= have + PRECISION * ShareUnit * tracker.roundings[a]
                          + ShareUnit * tracker.lost[a]

\* What the distributor has paid in all is at most what the rates of the seconds that
\* passed allow: no time is paid for twice or at a later rate, unless earlier time was
\* left unpaid by as much.
WithinSchedule == tracker.distributed <= tracker.accrued
=============================================================================
