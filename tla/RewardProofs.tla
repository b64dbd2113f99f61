---------------------------- MODULE RewardProofs ----------------------------
(* Theorems about RewardTracker and, above it, BrrrXpAmplifier, for every    *)
(* set of accounts and tokens, every precision and every number of          *)
(* positions.  The calls are operators from a state to the next one, so the *)
(* lemmas are about any state `s` of the tracker or `p` of the amplifier.   *)
EXTENDS BrrrXpAmplifier, SumTheorems

PerToken == [DepositTokens -> Nat]
TrackerState ==
    [distributorBalance : Nat, tokensPerInterval : Nat, lastDistributionTime : Nat,
     rewardBalance : Nat, wallets : [Accounts -> PerToken],
     isDepositToken : [DepositTokens -> BOOLEAN],
     depositBalances : [Accounts -> PerToken], totalDepositSupply : PerToken,
     totalSupply : Nat, balances : [Accounts -> Nat], stakedAmounts : [Accounts -> Nat],
     cumulativeRewardPerToken : Nat, previousCumulatedRewardPerToken : [Accounts -> Nat],
     claimableReward : [Accounts -> Nat], cumulativeRewards : [Accounts -> Nat],
     accrued : Nat, distributed : Nat, claimed : [Accounts -> Nat],
     fairShare : [Accounts -> Int], roundings : [Accounts -> Nat],
     lost : [Accounts -> Nat], funded : Nat]

\* A state in which no mark is ahead of the counter it marks.
Typed(s) ==
    /\ now \in Nat /\ s \in TrackerState
    /\ s.lastDistributionTime <= now
    /\ \A a \in Accounts :
          s.previousCumulatedRewardPerToken[a] <= s.cumulativeRewardPerToken

-----------------------------------------------------------------------------
(* The distributor and the shared counter.                                 *)

\* The smaller of two numbers.
LEMMA MinOfTwo ==
    ASSUME NEW x \in Int, NEW y \in Int
    PROVE  Min({x, y}) = IF x <= y THEN x ELSE y
<1> DEFINE m == IF x <= y THEN x ELSE y
<1>1. m \in {x, y} /\ \A z \in {x, y} : m <= z
  OBVIOUS
<1>2. \A w \in {x, y} : (\A z \in {x, y} : w <= z) => w = m
  OBVIOUS
<1> QED BY <1>1, <1>2 DEF Min

\* What is due is a natural number, and so is what is paid of it.
LEMMA DistributionNat ==
    ASSUME NEW s, Typed(s)
    PROVE  /\ PendingRewards(s) \in Nat /\ Distribution(s) \in Nat
           /\ Distribution(s) <= PendingRewards(s)
           /\ Distribution(s) <= s.distributorBalance
<1>1. /\ s.tokensPerInterval \in Nat /\ now - s.lastDistributionTime \in Nat
      /\ s.distributorBalance \in Nat
  BY DEF Typed, TrackerState
<1>2. PendingRewards(s) \in Nat
  BY <1>1 DEF PendingRewards
<1> QED BY <1>1, <1>2, MinOfTwo DEF Distribution

\* What a share gains.
Gain(s) == IF s.totalSupply = 0 THEN 0 ELSE (Distribution(s) * PRECISION) \div s.totalSupply

\* A quotient is a natural number and, times the divisor, at most the dividend.
LEMMA Quotient ==
    ASSUME NEW x \in Nat, NEW d \in Nat \ {0}
    PROVE  /\ x \div d \in Nat /\ d * (x \div d) <= x
           /\ x % d \in Nat /\ x % d < d /\ x % d = x - d * (x \div d)
<1>1. x \div d \in Int /\ d * (x \div d) <= x /\ x < d * (x \div d) + d
  OBVIOUS
<1>2. x \div d >= 0
  <2>1. ASSUME x \div d <= -1 PROVE FALSE
    <3> DEFINE q == x \div d
    <3>1. q \in Int /\ q + 1 <= 0 /\ x < d * q + d
      BY <1>1, <2>1
    <3> HIDE DEF q
    <3>2. d * q + d = d * (q + 1) /\ d * (q + 1) <= 0
      BY <3>1
    <3> QED BY <3>1, <3>2
  <2> QED BY <1>1, <2>1
<1>3. x % d \in Nat /\ x % d < d
  OBVIOUS
<1>4. x % d = x - d * (x \div d)
  BY SMT
<1> QED BY <1>1, <1>2, <1>3, <1>4

LEMMA GainNat ==
    ASSUME NEW s, Typed(s)
    PROVE  Gain(s) \in Nat /\ s.totalSupply * Gain(s) <= Distribution(s) * PRECISION
<1>1. s.totalSupply \in Nat /\ Distribution(s) * PRECISION \in Nat
  <2>1. s.totalSupply \in Nat
    BY DEF Typed, TrackerState
  <2>2. Distribution(s) \in Nat /\ PRECISION \in Nat
    BY DistributionNat, TrackerAssumption
  <2> QED BY <2>1, <2>2
<1>2. CASE s.totalSupply = 0
  BY <1>1, <1>2, DistributionNat DEF Gain
<1>3. CASE s.totalSupply # 0
  <2>1. Gain(s) = (Distribution(s) * PRECISION) \div s.totalSupply
    BY <1>3 DEF Gain
  <2> QED BY <1>1, <1>3, <2>1, Quotient
<1> QED BY <1>2, <1>3

\* A share handed out is a number in its field.
Recorded(r, p, c, fair, less) ==
    r = [p EXCEPT !.cumulativeRewardPerToken = c, !.fairShare = fair, !.lost = less]
LEMMA RecordsCounted ==
    ASSUME NEW p \in TrackerState, NEW c \in Nat, NEW fair \in [Accounts -> Int],
           NEW less \in [Accounts -> Nat],
           NEW r, Recorded(r, p, c, fair, less)
    PROVE  r \in TrackerState /\ r.fairShare = fair /\ r.lost = less
BY DEF TrackerState, Recorded

\* What everybody's exact share and rounded-away stake become.
SharesGiven(s) == [a \in Accounts |->
    IF s.totalSupply = 0 THEN s.fairShare[a]
    ELSE s.fairShare[a] + Distribution(s) * s.stakedAmounts[a] * (ShareUnit \div s.totalSupply)]
StakesLost(s) == [a \in Accounts |->
    IF s.totalSupply = 0 THEN s.lost[a]
    ELSE s.lost[a] + IF (Distribution(s) * PRECISION) % s.totalSupply = 0 THEN 0
                     ELSE s.stakedAmounts[a]]

\* The fields that _updateRewards changes for everybody, and all the others.
LEMMA SharedFields ==
    ASSUME NEW s, Typed(s)
    PROVE  /\ SharedOut(s) \in TrackerState
           /\ SharedOut(s).distributorBalance = s.distributorBalance - Distribution(s)
           /\ SharedOut(s).rewardBalance = s.rewardBalance + Distribution(s)
           /\ SharedOut(s).distributed = s.distributed + Distribution(s)
           /\ SharedOut(s).cumulativeRewardPerToken = s.cumulativeRewardPerToken + Gain(s)
           /\ SharedOut(s).lastDistributionTime =
                IF PendingRewards(s) = 0 THEN s.lastDistributionTime ELSE now
           /\ SharedOut(s).tokensPerInterval = s.tokensPerInterval
           /\ SharedOut(s).wallets = s.wallets
           /\ SharedOut(s).isDepositToken = s.isDepositToken
           /\ SharedOut(s).depositBalances = s.depositBalances
           /\ SharedOut(s).totalDepositSupply = s.totalDepositSupply
           /\ SharedOut(s).totalSupply = s.totalSupply
           /\ SharedOut(s).balances = s.balances
           /\ SharedOut(s).stakedAmounts = s.stakedAmounts
           /\ SharedOut(s).previousCumulatedRewardPerToken = s.previousCumulatedRewardPerToken
           /\ SharedOut(s).claimableReward = s.claimableReward
           /\ SharedOut(s).cumulativeRewards = s.cumulativeRewards
           /\ SharedOut(s).accrued = s.accrued
           /\ SharedOut(s).claimed = s.claimed
           /\ SharedOut(s).roundings = s.roundings
           /\ SharedOut(s).fairShare = SharesGiven(s)
           /\ SharedOut(s).lost = StakesLost(s)
<1> DEFINE d == Distribution(s)
           p == Distributed(s)
<1>1. /\ d \in Nat /\ d <= s.distributorBalance /\ (PendingRewards(s) = 0 => d = 0)
      /\ Gain(s) \in Nat /\ s \in TrackerState
  BY DistributionNat, GainNat DEF Typed
<1> HIDE DEF d
<1>2. /\ p \in TrackerState
      /\ p.distributorBalance = s.distributorBalance - d
      /\ p.rewardBalance = s.rewardBalance + d
      /\ p.distributed = s.distributed + d
      /\ p.lastDistributionTime = IF PendingRewards(s) = 0 THEN s.lastDistributionTime ELSE now
  <2>1. CASE PendingRewards(s) = 0
    BY <1>1, <2>1 DEF Distributed, TrackerState
  <2>2. CASE PendingRewards(s) # 0
    <3>1. p = [s EXCEPT !.lastDistributionTime = now,
                        !.distributorBalance = @ - d,
                        !.rewardBalance = @ + d,
                        !.distributed = @ + d]
      BY <2>2 DEF Distributed, d
    <3>2. /\ s.distributorBalance - d \in Nat /\ s.rewardBalance + d \in Nat
          /\ s.distributed + d \in Nat /\ now \in Nat
      BY <1>1 DEF TrackerState, Typed
    <3> HIDE DEF p
    <3>3. p \in TrackerState
      BY <1>1, <3>1, <3>2 DEF TrackerState
    <3> QED BY <1>1, <2>2, <3>1, <3>3 DEF TrackerState
  <2> QED BY <2>1, <2>2
<1>3. /\ p.cumulativeRewardPerToken = s.cumulativeRewardPerToken
      /\ p.tokensPerInterval = s.tokensPerInterval /\ p.wallets = s.wallets
      /\ p.isDepositToken = s.isDepositToken /\ p.depositBalances = s.depositBalances
      /\ p.totalDepositSupply = s.totalDepositSupply /\ p.totalSupply = s.totalSupply
      /\ p.balances = s.balances /\ p.stakedAmounts = s.stakedAmounts
      /\ p.previousCumulatedRewardPerToken = s.previousCumulatedRewardPerToken
      /\ p.claimableReward = s.claimableReward /\ p.cumulativeRewards = s.cumulativeRewards
      /\ p.accrued = s.accrued /\ p.claimed = s.claimed /\ p.fairShare = s.fairShare
      /\ p.roundings = s.roundings /\ p.lost = s.lost
  BY <1>1 DEF Distributed, TrackerState
<1> HIDE DEF p
<1>4. CASE s.totalSupply = 0
  <2>1. SharedOut(s) = p /\ Gain(s) = 0
    BY <1>4 DEF SharedOut, Gain, p
  <2>2. s.cumulativeRewardPerToken \in Nat
    BY <1>1 DEF TrackerState
  <2>3. s.fairShare = SharesGiven(s) /\ s.lost = StakesLost(s)
    BY <1>1, <1>4 DEF SharesGiven, StakesLost, TrackerState
  <2> QED BY <1>2, <1>3, <2>1, <2>2, <2>3 DEF d
<1>5. CASE s.totalSupply # 0
  <2> DEFINE fair == [a \in Accounts |->
                p.fairShare[a] + d * s.stakedAmounts[a] * (ShareUnit \div s.totalSupply)]
             c == s.cumulativeRewardPerToken + Gain(s)
             less == [a \in Accounts |->
                p.lost[a] + IF (d * PRECISION) % s.totalSupply = 0 THEN 0
                            ELSE s.stakedAmounts[a]]
  <2>1. SharedOut(s) = [p EXCEPT !.cumulativeRewardPerToken = c, !.fairShare = fair, !.lost = less]
    BY <1>3, <1>5 DEF SharedOut, Gain, d, p
  <2>2. c \in Nat
    BY <1>1 DEF TrackerState
  <2>3. fair \in [Accounts -> Int] /\ fair = SharesGiven(s)
    <3>0. ShareUnit \in Nat /\ s.totalSupply \in Nat \ {0}
      BY <1>1, <1>5, TrackerAssumption DEF TrackerState
    <3>1. ShareUnit \div s.totalSupply \in Int
      BY <3>0, Quotient
    <3>2. fair \in [Accounts -> Int]
      <4> SUFFICES ASSUME NEW a \in Accounts
                   PROVE  p.fairShare[a] + d * s.stakedAmounts[a] * (ShareUnit \div s.totalSupply) \in Int
        OBVIOUS
      <4>1. p.fairShare[a] \in Int /\ s.stakedAmounts[a] \in Nat
        BY <1>1, <1>2 DEF TrackerState
      <4> QED BY <1>1, <3>1, <4>1
    <3>3. fair = SharesGiven(s)
      BY <1>3, <1>5 DEF SharesGiven, d
    <3> QED BY <3>2, <3>3
  <2>4. less \in [Accounts -> Nat] /\ less = StakesLost(s)
    <3>1. \A a \in Accounts : p.lost[a] \in Nat /\ s.stakedAmounts[a] \in Nat
      BY <1>1, <1>2 DEF TrackerState
    <3>2. less = StakesLost(s)
      BY <1>3, <1>5 DEF StakesLost, d
    <3> QED BY <3>1, <3>2
  <2> HIDE DEF fair, c, less
  <2>5. /\ SharedOut(s) \in TrackerState
        /\ SharedOut(s).fairShare = fair /\ SharedOut(s).lost = less
    <3>1. p \in TrackerState
      BY <1>2
    <3>2. fair \in [Accounts -> Int] /\ less \in [Accounts -> Nat]
      BY <2>3, <2>4
    <3> DEFINE r == SharedOut(s)
    <3> HIDE DEF r
    <3>3. Recorded(r, p, c, fair, less)
      BY <2>1 DEF r, Recorded
    <3>4. r \in TrackerState /\ r.fairShare = fair /\ r.lost = less
      BY <2>2, <3>1, <3>2, <3>3, RecordsCounted
    <3> QED BY <3>4 DEF r
  <2>6. /\ SharedOut(s).cumulativeRewardPerToken = c
        /\ SharedOut(s).roundings = p.roundings
    BY <1>2, <2>1 DEF TrackerState
  <2> QED BY <1>2, <1>3, <2>1, <2>3, <2>4, <2>5, <2>6 DEF TrackerState, d, c
<1> QED BY <1>4, <1>5

-----------------------------------------------------------------------------
(* _updateRewards for one account.                                         *)

\* The fields that no update of rewards touches.
SameStakes(s, r) ==
    /\ r.wallets = s.wallets /\ r.isDepositToken = s.isDepositToken
    /\ r.depositBalances = s.depositBalances
    /\ r.totalDepositSupply = s.totalDepositSupply /\ r.totalSupply = s.totalSupply
    /\ r.balances = s.balances /\ r.stakedAmounts = s.stakedAmounts

Reward(s, a) == AccountReward(SharedOut(s), a)

\* Sharing out keeps the marks behind the counter.
LEMMA SharedTyped ==
    ASSUME NEW s, Typed(s)
    PROVE  Typed(SharedOut(s))
<1> DEFINE sh == SharedOut(s)
<1>1. /\ sh \in TrackerState /\ Gain(s) \in Nat
      /\ sh.cumulativeRewardPerToken = s.cumulativeRewardPerToken + Gain(s)
      /\ sh.previousCumulatedRewardPerToken = s.previousCumulatedRewardPerToken
      /\ sh.lastDistributionTime \in {s.lastDistributionTime, now}
  BY SharedFields, GainNat
<1> HIDE DEF sh
<1>2. sh.lastDistributionTime <= now /\ now \in Nat
  BY <1>1 DEF Typed, TrackerState
<1>3. ASSUME NEW a \in Accounts
      PROVE  sh.previousCumulatedRewardPerToken[a] <= sh.cumulativeRewardPerToken
  <2>1. /\ s.previousCumulatedRewardPerToken[a] <= s.cumulativeRewardPerToken
        /\ s.previousCumulatedRewardPerToken[a] \in Nat /\ s.cumulativeRewardPerToken \in Nat
    BY DEF Typed, TrackerState
  <2> QED BY <1>1, <2>1
<1> QED BY <1>1, <1>2, <1>3 DEF Typed, sh

\* An account's reward is a natural number, none for an account without a stake,
\* and no more than what its stake has earned.
LEMMA RewardNat ==
    ASSUME NEW s, Typed(s), NEW a \in Accounts
    PROVE  /\ Unrounded(s, a) \in Nat /\ AccountReward(s, a) \in Nat
           /\ PRECISION * AccountReward(s, a) <= Unrounded(s, a)
           /\ AccountReward(s, a) > 0 => s.stakedAmounts[a] > 0
<1>1. /\ s.stakedAmounts[a] \in Nat /\ PRECISION \in Nat \ {0}
      /\ s.cumulativeRewardPerToken - s.previousCumulatedRewardPerToken[a] \in Nat
  BY TrackerAssumption DEF Typed, TrackerState
<1>2. Unrounded(s, a) \in Nat /\ (s.stakedAmounts[a] = 0 => Unrounded(s, a) = 0)
  BY <1>1 DEF Unrounded
<1>3. AccountReward(s, a) \in Nat /\ PRECISION * AccountReward(s, a) <= Unrounded(s, a)
  BY <1>1, <1>2, Quotient DEF AccountReward
<1>4. Unrounded(s, a) = 0 => AccountReward(s, a) = 0
  <2>1. AccountReward(s, a) > 0 => PRECISION * AccountReward(s, a) > 0
    BY <1>1, <1>3
  <2> QED BY <1>1, <1>3, <2>1
<1> QED BY <1>1, <1>2, <1>3, <1>4

\* Before the first reward a stake has earned nothing.
LEMMA NothingEarned ==
    ASSUME NEW s, Typed(s), NEW a \in Accounts, s.cumulativeRewardPerToken = 0
    PROVE  s.previousCumulatedRewardPerToken[a] = 0 /\ Unrounded(s, a) = 0
<1>1. /\ s.previousCumulatedRewardPerToken[a] <= 0
      /\ s.previousCumulatedRewardPerToken[a] \in Nat /\ s.stakedAmounts[a] \in Nat
  BY DEF Typed, TrackerState
<1>2. s.previousCumulatedRewardPerToken[a] = 0
  BY <1>1
<1> QED BY <1>1, <1>2 DEF Unrounded

\* What an update does to an account's rewards, also while nothing was distributed.
LEMMA UpdateFields ==
    ASSUME NEW s, Typed(s), NEW a \in Accounts
    PROVE  LET u == UpdatedRewards(s, a)
               sh == SharedOut(s)
           IN /\ u \in TrackerState
              /\ SameStakes(s, u)
              /\ u.claimableReward = [s.claimableReward EXCEPT ![a] = @ + Reward(s, a)]
              /\ u.cumulativeRewards = [s.cumulativeRewards EXCEPT ![a] = @ + Reward(s, a)]
              /\ u.previousCumulatedRewardPerToken =
                   [s.previousCumulatedRewardPerToken EXCEPT ![a] = sh.cumulativeRewardPerToken]
              /\ u.cumulativeRewardPerToken = sh.cumulativeRewardPerToken
              /\ u.distributorBalance = sh.distributorBalance
              /\ u.rewardBalance = sh.rewardBalance
              /\ u.distributed = sh.distributed /\ u.accrued = sh.accrued
              /\ u.lastDistributionTime = sh.lastDistributionTime
              /\ u.tokensPerInterval = sh.tokensPerInterval
              /\ u.claimed = sh.claimed
<1> DEFINE u == UpdatedRewards(s, a)
           sh == SharedOut(s)
           n == Reward(s, a)
<1>1. /\ sh \in TrackerState /\ SameStakes(s, sh)
      /\ sh.previousCumulatedRewardPerToken = s.previousCumulatedRewardPerToken
      /\ sh.claimableReward = s.claimableReward /\ sh.cumulativeRewards = s.cumulativeRewards
  BY SharedFields DEF SameStakes
<1>2. n \in Nat /\ (n > 0 => sh.stakedAmounts[a] > 0)
  BY SharedTyped, RewardNat DEF Reward
<1>3. a # NoAccount
  BY TrackerAssumption
<1>4. CASE sh.cumulativeRewardPerToken = 0
  <2>1. u = sh
    BY <1>3, <1>4 DEF UpdatedRewards
  <2>2. sh.previousCumulatedRewardPerToken[a] = 0 /\ Unrounded(sh, a) = 0
    BY <1>4, SharedTyped, NothingEarned
  <2>3. n = 0
    <3>2. PRECISION * n <= 0 /\ PRECISION \in Nat \ {0}
      BY <2>2, SharedTyped, RewardNat, TrackerAssumption DEF Reward
    <3>3. n > 0 => PRECISION * n > 0
      BY <1>2, <3>2
    <3> QED BY <1>2, <3>2, <3>3
  <2>4. /\ s.claimableReward \in [Accounts -> Nat] /\ s.cumulativeRewards \in [Accounts -> Nat]
        /\ s.previousCumulatedRewardPerToken \in [Accounts -> Nat]
        /\ s.previousCumulatedRewardPerToken[a] = 0
    BY <1>1, <2>2 DEF Typed, TrackerState
  <2> HIDE DEF n, u, sh
  <2>5. /\ s.claimableReward = [s.claimableReward EXCEPT ![a] = @ + n]
        /\ s.cumulativeRewards = [s.cumulativeRewards EXCEPT ![a] = @ + n]
        /\ s.previousCumulatedRewardPerToken =
             [s.previousCumulatedRewardPerToken EXCEPT ![a] = sh.cumulativeRewardPerToken]
    BY <1>4, <2>3, <2>4
  <2> QED BY <1>1, <2>1, <2>5 DEF n, u, sh
<1>5. CASE sh.cumulativeRewardPerToken # 0
  <2> DEFINE more == IF Counts(sh, a) THEN sh.cumulativeRewards[a] + n ELSE sh.cumulativeRewards[a]
             times == IF Rounds(sh, a) THEN sh.roundings[a] + 1 ELSE sh.roundings[a]
  <2>1. u = [sh EXCEPT !.claimableReward[a] = @ + n,
                       !.previousCumulatedRewardPerToken[a] = sh.cumulativeRewardPerToken,
                       !.cumulativeRewards[a] = more,
                       !.roundings[a] = times]
    BY <1>3, <1>5 DEF UpdatedRewards, Reward
  <2>2. more = sh.cumulativeRewards[a] + n
    <3>1. sh.claimableReward[a] \in Nat /\ sh.cumulativeRewards[a] \in Nat
      BY <1>1 DEF TrackerState
    <3>2. Counts(sh, a) \/ n = 0
      BY <1>2, <3>1 DEF Counts, Reward
    <3> QED BY <1>2, <3>1, <3>2
  <2>3. /\ sh.claimableReward[a] + n \in Nat /\ more \in Nat /\ times \in Nat
        /\ sh.cumulativeRewardPerToken \in Nat
    BY <1>1, <1>2, <2>2 DEF TrackerState
  <2> HIDE DEF n, u, sh, more, times
  <2>4. u \in TrackerState
    BY <1>1, <2>1, <2>3 DEF TrackerState
  <2>5. /\ u.claimableReward = [sh.claimableReward EXCEPT ![a] = @ + n]
        /\ u.cumulativeRewards = [sh.cumulativeRewards EXCEPT ![a] = @ + n]
        /\ u.previousCumulatedRewardPerToken =
             [sh.previousCumulatedRewardPerToken EXCEPT ![a] = sh.cumulativeRewardPerToken]
    BY <1>1, <2>1, <2>2 DEF TrackerState
  <2>6. /\ SameStakes(sh, u)
        /\ u.cumulativeRewardPerToken = sh.cumulativeRewardPerToken
        /\ u.distributorBalance = sh.distributorBalance
        /\ u.rewardBalance = sh.rewardBalance
        /\ u.distributed = sh.distributed /\ u.accrued = sh.accrued
        /\ u.lastDistributionTime = sh.lastDistributionTime
        /\ u.tokensPerInterval = sh.tokensPerInterval
        /\ u.claimed = sh.claimed
    BY <1>1, <2>1 DEF TrackerState, SameStakes
  <2>7. SameStakes(s, u)
    BY <1>1, <2>6 DEF SameStakes
  <2> QED BY <1>1, <2>4, <2>5, <2>6, <2>7 DEF n, u, sh
<1> QED BY <1>4, <1>5

\* What it does to the histories.
LEMMA UpdateHistories ==
    ASSUME NEW s, Typed(s), NEW a \in Accounts
    PROVE  LET u == UpdatedRewards(s, a)
               sh == SharedOut(s)
           IN /\ u.claimed = sh.claimed /\ u.fairShare = sh.fairShare /\ u.lost = sh.lost
              /\ u.roundings = [s.roundings EXCEPT ![a] = IF Rounds(sh, a) THEN @ + 1 ELSE @]
<1> DEFINE u == UpdatedRewards(s, a)
           sh == SharedOut(s)
           times == IF Rounds(sh, a) THEN sh.roundings[a] + 1 ELSE sh.roundings[a]
<1>1. sh \in TrackerState /\ Typed(sh) /\ sh.roundings = s.roundings
  BY SharedFields, SharedTyped
<1>2. sh.roundings \in [Accounts -> Nat] /\ a # NoAccount
  BY <1>1, TrackerAssumption DEF TrackerState
<1>3. CASE sh.cumulativeRewardPerToken = 0
  <2>1. u = sh
    BY <1>2, <1>3 DEF UpdatedRewards
  <2>2. 0 % PRECISION = 0
    BY TrackerAssumption
  <2>3. ~Rounds(sh, a)
    BY <1>1, <1>3, <2>2, NothingEarned DEF Rounds
  <2> HIDE DEF u, sh
  <2>4. u.roundings = [sh.roundings EXCEPT ![a] = times]
    BY <1>2, <2>1, <2>3
  <2> QED BY <1>1, <2>1, <2>4 DEF u, sh
<1>4. CASE sh.cumulativeRewardPerToken # 0
  <2> DEFINE cl == [sh.claimableReward EXCEPT ![a] = @ + AccountReward(sh, a)]
             marks == [sh.previousCumulatedRewardPerToken EXCEPT ![a] = sh.cumulativeRewardPerToken]
             cum == [sh.cumulativeRewards EXCEPT ![a] =
                        IF Counts(sh, a) THEN @ + AccountReward(sh, a) ELSE @]
             rounds == [sh.roundings EXCEPT ![a] = times]
  <2>1. u = [sh EXCEPT !.claimableReward = cl, !.previousCumulatedRewardPerToken = marks,
                       !.cumulativeRewards = cum, !.roundings = rounds]
    BY <1>2, <1>4 DEF UpdatedRewards
  <2> HIDE DEF cl, marks, cum, rounds, u, sh
  <2>2. /\ u.claimed = sh.claimed /\ u.fairShare = sh.fairShare /\ u.lost = sh.lost
        /\ u.roundings = rounds
    BY <1>1, <2>1 DEF TrackerState
  <2> QED BY <1>1, <2>2 DEF rounds, u, sh
<1> QED BY <1>3, <1>4

-----------------------------------------------------------------------------
(* The invariant.  What is owed is counted in 1/PRECISION of a token,       *)
(* before any rounding: rounded down, the parts of a distribution could add *)
(* up to more than the part of the whole, and the bound would not carry     *)
(* over from one distribution to the next.                                  *)

StakeSums(s) ==
    /\ s.totalSupply = Sum(s.balances, Accounts)
    /\ s.totalSupply = Sum(s.stakedAmounts, Accounts)
    /\ \A a \in Accounts : s.stakedAmounts[a] = Sum(s.depositBalances[a], DepositTokens)
    /\ \A t \in DepositTokens :
          s.totalDepositSupply[t] = Sum([a \in Accounts |-> s.depositBalances[a][t]], Accounts)

Marked(s) == \A a \in Accounts : s.claimableReward[a] <= s.cumulativeRewards[a]

Owed(s) == [a \in Accounts |-> PRECISION * s.claimableReward[a] + Unrounded(s, a)]
Backed(s) == Sum(Owed(s), Accounts) <= PRECISION * s.rewardBalance

Scheduled(s) == s.distributed + PendingRewards(s) <= s.accrued

Sound(s) == Typed(s) /\ StakeSums(s) /\ Marked(s) /\ Backed(s) /\ Scheduled(s)

LEMMA OwedNat ==
    ASSUME NEW s, Typed(s)
    PROVE  \A a \in Accounts : Owed(s)[a] \in Nat
<1> SUFFICES ASSUME NEW a \in Accounts
             PROVE  PRECISION * s.claimableReward[a] + Unrounded(s, a) \in Nat
  BY DEF Owed
<1>1. s.claimableReward[a] \in Nat /\ PRECISION \in Nat
  BY TrackerAssumption DEF Typed, TrackerState
<1> QED BY <1>1, RewardNat

\* A distribution covers what the shares earn by it.
LEMMA SharedBacked ==
    ASSUME NEW s, Sound(s)
    PROVE  Backed(SharedOut(s))
<1> DEFINE sh == SharedOut(s)
           g == Gain(s)
           earned == [a \in Accounts |-> g * s.stakedAmounts[a]]
<1>1. /\ Typed(s) /\ Typed(sh) /\ g \in Nat
      /\ s.totalSupply * g <= Distribution(s) * PRECISION
      /\ Distribution(s) \in Nat /\ PRECISION \in Nat
  BY SharedTyped, GainNat, DistributionNat, TrackerAssumption DEF Sound
<1>2. /\ sh.cumulativeRewardPerToken = s.cumulativeRewardPerToken + g
      /\ sh.previousCumulatedRewardPerToken = s.previousCumulatedRewardPerToken
      /\ sh.claimableReward = s.claimableReward /\ sh.stakedAmounts = s.stakedAmounts
      /\ sh.rewardBalance = s.rewardBalance + Distribution(s)
  BY <1>1, SharedFields
<1> HIDE DEF sh, g
<1>3. \A a \in Accounts : s.stakedAmounts[a] \in Nat
  BY <1>1 DEF Typed, TrackerState
<1>4. \A a \in Accounts : earned[a] = g * s.stakedAmounts[a] /\ earned[a] \in Nat
  BY <1>1, <1>3
<1> HIDE DEF earned
<1>5. ASSUME NEW a \in Accounts
      PROVE  Owed(sh)[a] = Owed(s)[a] + earned[a]
  <2> DEFINE st == s.stakedAmounts[a]
             c == s.cumulativeRewardPerToken
             p == s.previousCumulatedRewardPerToken[a]
  <2>1. st \in Nat /\ c \in Nat /\ p \in Nat /\ s.claimableReward[a] \in Nat
    BY <1>1 DEF Typed, TrackerState
  <2>2. Unrounded(s, a) = st * (c - p) /\ Unrounded(sh, a) = st * ((c + g) - p)
    <3>1. Unrounded(s, a) = st * (c - p)
      BY DEF Unrounded
    <3>2. /\ sh.stakedAmounts[a] = st /\ sh.cumulativeRewardPerToken = c + g
          /\ sh.previousCumulatedRewardPerToken[a] = p
      BY <1>2
    <3> HIDE DEF st, c, p
    <3>3. Unrounded(sh, a) = st * ((c + g) - p)
      BY <3>2 DEF Unrounded
    <3> QED BY <3>1, <3>3
  <2>3. Owed(s)[a] = PRECISION * s.claimableReward[a] + Unrounded(s, a)
    BY DEF Owed
  <2>4. Owed(sh)[a] = PRECISION * s.claimableReward[a] + Unrounded(sh, a)
    BY <1>2 DEF Owed
  <2>5. earned[a] = g * st
    BY <1>4
  <2> HIDE DEF st, c, p
  <2>6. st * ((c + g) - p) = st * (c - p) + g * st
    BY <1>1, <2>1
  <2>7. PRECISION * s.claimableReward[a] \in Int /\ Unrounded(s, a) \in Int /\ g * st \in Int
    BY <1>1, <2>1, <2>2
  <2> QED BY <2>2, <2>3, <2>4, <2>5, <2>6, <2>7
<1>6. Sum(Owed(sh), Accounts) = Sum(Owed(s), Accounts) + Sum(earned, Accounts)
  <2>1. \A a \in Accounts : /\ Owed(s)[a] \in Int /\ earned[a] \in Int
                            /\ Owed(sh)[a] = Owed(s)[a] + earned[a]
    BY <1>1, <1>4, <1>5, OwedNat
  <2> QED BY <2>1, TrackerAssumption, SumPlus
<1>7. Sum(earned, Accounts) = g * s.totalSupply
  <2>1. \A a \in Accounts : s.stakedAmounts[a] \in Int /\ earned[a] = g * s.stakedAmounts[a]
    BY <1>3, <1>4
  <2>2. Sum(earned, Accounts) = g * Sum(s.stakedAmounts, Accounts)
    BY <1>1, <2>1, TrackerAssumption, SumScale
  <2> QED BY <2>2 DEF Sound, StakeSums
<1>8. Sum(Owed(s), Accounts) \in Int /\ s.rewardBalance \in Nat /\ s.totalSupply \in Nat
  <2>1. \A a \in Accounts : Owed(s)[a] \in Int
    BY <1>1, OwedNat
  <2> QED BY <1>1, <2>1, TrackerAssumption, SumInt DEF Typed, TrackerState
<1>9. Sum(Owed(s), Accounts) <= PRECISION * s.rewardBalance
  BY DEF Sound, Backed
<1> DEFINE d == Distribution(s)
           o == Sum(Owed(s), Accounts)
           e == g * s.totalSupply
<1>10. e \in Int /\ e <= PRECISION * d /\ d \in Nat
  BY <1>1, <1>8
<1>11. PRECISION * (s.rewardBalance + d) = PRECISION * s.rewardBalance + PRECISION * d
  BY <1>1, <1>8
<1>12. o + e <= PRECISION * s.rewardBalance + PRECISION * d
  <2> HIDE DEF d, o, e
  <2>1. PRECISION * s.rewardBalance \in Int /\ PRECISION * d \in Int /\ o \in Int
    BY <1>1, <1>8, <1>10 DEF o
  <2> QED BY <1>9, <1>10, <2>1 DEF o
<1> QED BY <1>2, <1>6, <1>7, <1>11, <1>12 DEF Backed, sh

\* So does it stay when an account's reward is recorded, rounded down.
LEMMA UpdateBacked ==
    ASSUME NEW s, Sound(s), NEW a \in Accounts
    PROVE  Backed(UpdatedRewards(s, a)) /\ Unrounded(UpdatedRewards(s, a), a) = 0
<1> DEFINE u == UpdatedRewards(s, a)
           sh == SharedOut(s)
           n == Reward(s, a)
<1>1. /\ Typed(s) /\ Typed(sh) /\ Backed(sh)
  BY SharedTyped, SharedBacked DEF Sound
<1>2. /\ u \in TrackerState /\ u.stakedAmounts = s.stakedAmounts
      /\ u.claimableReward = [s.claimableReward EXCEPT ![a] = @ + n]
      /\ u.previousCumulatedRewardPerToken =
           [s.previousCumulatedRewardPerToken EXCEPT ![a] = sh.cumulativeRewardPerToken]
      /\ u.cumulativeRewardPerToken = sh.cumulativeRewardPerToken
      /\ u.rewardBalance = sh.rewardBalance
  BY <1>1, UpdateFields DEF SameStakes
<1>3. /\ sh.stakedAmounts = s.stakedAmounts /\ sh.claimableReward = s.claimableReward
      /\ sh.previousCumulatedRewardPerToken = s.previousCumulatedRewardPerToken
  BY <1>1, SharedFields
<1>4. n \in Nat /\ PRECISION * n <= Unrounded(sh, a) /\ PRECISION \in Nat
      /\ Unrounded(sh, a) \in Nat
  BY <1>1, RewardNat, TrackerAssumption DEF Reward
<1> HIDE DEF u, sh, n
<1>5. /\ s.claimableReward \in [Accounts -> Nat]
      /\ s.previousCumulatedRewardPerToken \in [Accounts -> Nat]
      /\ sh.cumulativeRewardPerToken \in Nat /\ s.stakedAmounts \in [Accounts -> Nat]
  BY <1>1 DEF Typed, TrackerState
<1>6. Unrounded(u, a) = 0
  <2>1. u.previousCumulatedRewardPerToken[a] = sh.cumulativeRewardPerToken
    BY <1>2, <1>5
  <2>2. Unrounded(u, a) = s.stakedAmounts[a] * (sh.cumulativeRewardPerToken - sh.cumulativeRewardPerToken)
    BY <1>2, <2>1 DEF Unrounded
  <2> QED BY <1>5, <2>2
<1>7. \A b \in Accounts : Owed(u)[b] \in Int /\ Owed(sh)[b] \in Int /\ Owed(u)[b] <= Owed(sh)[b]
  <2> TAKE b \in Accounts
  <2>1. Owed(sh)[b] \in Nat
    BY <1>1, OwedNat
  <2>2. CASE b = a
    <3>1. u.claimableReward[a] = s.claimableReward[a] + n
      BY <1>2, <1>5
    <3>2. /\ Owed(u)[a] = PRECISION * (s.claimableReward[a] + n) + 0
          /\ Owed(sh)[a] = PRECISION * s.claimableReward[a] + Unrounded(sh, a)
      BY <1>3, <1>6, <3>1 DEF Owed
    <3>3. /\ PRECISION * (s.claimableReward[a] + n) = PRECISION * s.claimableReward[a] + PRECISION * n
          /\ PRECISION * s.claimableReward[a] \in Int /\ PRECISION * n \in Int
      BY <1>4, <1>5
    <3> QED BY <1>4, <2>2, <3>2, <3>3
  <2>3. CASE b # a
    <3>1. Owed(u)[b] = Owed(sh)[b]
      BY <1>2, <1>3, <1>5, <2>3 DEF Owed, Unrounded
    <3> QED BY <2>1, <3>1
  <2> QED BY <2>2, <2>3
<1>8. Sum(Owed(u), Accounts) <= Sum(Owed(sh), Accounts)
  BY <1>7, TrackerAssumption, SumMonotone
<1>9. Sum(Owed(u), Accounts) \in Int /\ Sum(Owed(sh), Accounts) \in Int
  BY <1>7, TrackerAssumption, SumInt
<1>10. Backed(u)
  <2>1. PRECISION * sh.rewardBalance \in Int
    BY <1>1, <1>4 DEF Typed, TrackerState
  <2> QED BY <1>1, <1>2, <1>8, <1>9, <2>1 DEF Backed
<1> QED BY <1>6, <1>10 DEF u

\* The schedule is not overtaken by a distribution.
LEMMA SharedScheduled ==
    ASSUME NEW s, Sound(s)
    PROVE  Scheduled(SharedOut(s))
<1> DEFINE sh == SharedOut(s)
<1>1. /\ sh.distributed = s.distributed + Distribution(s) /\ sh.accrued = s.accrued
      /\ sh.tokensPerInterval = s.tokensPerInterval
      /\ sh.lastDistributionTime =
           IF PendingRewards(s) = 0 THEN s.lastDistributionTime ELSE now
  BY SharedFields DEF Sound
<1> HIDE DEF sh
<1>2. /\ Distribution(s) \in Nat /\ PendingRewards(s) \in Nat
      /\ Distribution(s) <= PendingRewards(s)
      /\ s.distributed + PendingRewards(s) <= s.accrued
      /\ s.distributed \in Nat /\ s.accrued \in Nat /\ s.tokensPerInterval \in Nat /\ now \in Nat
  BY DistributionNat DEF Sound, Scheduled, Typed, TrackerState
<1>3. CASE PendingRewards(s) = 0
  <2>1. PendingRewards(sh) = 0
    BY <1>1, <1>3 DEF PendingRewards
  <2> QED BY <1>1, <1>2, <1>3, <2>1 DEF Scheduled, sh
<1>4. CASE PendingRewards(s) # 0
  <2>1. PendingRewards(sh) = 0
    BY <1>1, <1>2, <1>4 DEF PendingRewards
  <2> QED BY <1>1, <1>2, <2>1 DEF Scheduled, sh
<1> QED BY <1>3, <1>4

\* An update of rewards keeps the invariant and touches no stake.
LEMMA UpdateSound ==
    ASSUME NEW s, Sound(s), NEW a \in Accounts \cup {NoAccount}
    PROVE  Sound(UpdatedRewards(s, a)) /\ SameStakes(s, UpdatedRewards(s, a))
<1> DEFINE u == UpdatedRewards(s, a)
           sh == SharedOut(s)
<1>1. Typed(s) /\ Typed(sh) /\ Backed(sh) /\ Scheduled(sh) /\ StakeSums(s) /\ Marked(s)
  BY SharedTyped, SharedBacked, SharedScheduled DEF Sound
<1>2. SameStakes(s, u) => StakeSums(u)
  BY <1>1 DEF SameStakes, StakeSums
<1>3. CASE a = NoAccount
  <2>1. u = sh
    BY <1>3 DEF UpdatedRewards
  <2>2. /\ SameStakes(s, sh) /\ sh.claimableReward = s.claimableReward
        /\ sh.cumulativeRewards = s.cumulativeRewards
    BY <1>1, SharedFields DEF SameStakes
  <2>3. Marked(sh)
    BY <1>1, <2>2 DEF Marked
  <2> HIDE DEF u, sh
  <2> QED BY <1>1, <1>2, <2>1, <2>2, <2>3 DEF Sound, u
<1>4. CASE a \in Accounts
  <2> DEFINE n == Reward(s, a)
  <2>1. /\ u \in TrackerState /\ SameStakes(s, u)
        /\ u.claimableReward = [s.claimableReward EXCEPT ![a] = @ + n]
        /\ u.cumulativeRewards = [s.cumulativeRewards EXCEPT ![a] = @ + n]
        /\ u.previousCumulatedRewardPerToken =
             [s.previousCumulatedRewardPerToken EXCEPT ![a] = sh.cumulativeRewardPerToken]
        /\ u.cumulativeRewardPerToken = sh.cumulativeRewardPerToken
        /\ u.distributed = sh.distributed /\ u.accrued = sh.accrued
        /\ u.lastDistributionTime = sh.lastDistributionTime
        /\ u.tokensPerInterval = sh.tokensPerInterval
    BY <1>1, <1>4, UpdateFields
  <2>2. /\ n \in Nat /\ Backed(u)
        /\ sh.previousCumulatedRewardPerToken = s.previousCumulatedRewardPerToken
    BY <1>1, <1>4, RewardNat, UpdateBacked, SharedFields DEF Reward
  <2> HIDE DEF u, sh, n
  <2>3. Typed(u)
    <3>1. /\ now \in Nat /\ sh.lastDistributionTime <= now /\ sh.cumulativeRewardPerToken \in Nat
          /\ s.previousCumulatedRewardPerToken \in [Accounts -> Nat]
      BY <1>1 DEF Typed, TrackerState
    <3>2. ASSUME NEW b \in Accounts
          PROVE  u.previousCumulatedRewardPerToken[b] <= u.cumulativeRewardPerToken
      BY <1>1, <2>1, <2>2, <3>1 DEF Typed
    <3> QED BY <2>1, <3>1, <3>2 DEF Typed
  <2>4. Marked(u)
    <3>1. s.claimableReward \in [Accounts -> Nat] /\ s.cumulativeRewards \in [Accounts -> Nat]
      BY <1>1 DEF Typed, TrackerState
    <3> SUFFICES ASSUME NEW b \in Accounts
                 PROVE  u.claimableReward[b] <= u.cumulativeRewards[b]
      BY DEF Marked
    <3> QED BY <1>1, <2>1, <2>2, <3>1 DEF Marked
  <2>5. Scheduled(u)
    BY <1>1, <2>1 DEF Scheduled, PendingRewards
  <2> QED BY <1>2, <2>1, <2>2, <2>3, <2>4, <2>5 DEF Sound, u
<1> QED BY <1>3, <1>4

-----------------------------------------------------------------------------
(* Stakes, transfers and claims.                                           *)

\* One value of a function changes by n: so does its sum.
LEMMA SumBy ==
    ASSUME NEW S, IsFiniteSet(S), NEW f, NEW g, NEW a \in S, NEW n \in Int,
           \A x \in S : f[x] \in Int,
           \A x \in S : g[x] = f[x] + (IF x = a THEN n ELSE 0)
    PROVE  Sum(g, S) = Sum(f, S) + n
<1>1. \A x \in S : f[x] \in Int /\ g[x] \in Int
  OBVIOUS
<1>2. \A x \in S \ {a} : g[x] = f[x]
  OBVIOUS
<1>3. Sum(g, S) = Sum(f, S) + g[a] - f[a]
  BY <1>1, <1>2, SumChange
<1>4. Sum(f, S) \in Int /\ f[a] \in Int /\ g[a] = f[a] + n
  BY SumInt
<1> QED BY <1>3, <1>4

\* An account's stake of a token changes by n.
StakeBy(s, r, a, t, n) ==
    /\ r.totalSupply = s.totalSupply + n
    /\ \A b \in Accounts : r.balances[b] = s.balances[b] + (IF b = a THEN n ELSE 0)
    /\ \A b \in Accounts : r.stakedAmounts[b] = s.stakedAmounts[b] + (IF b = a THEN n ELSE 0)
    /\ \A b \in Accounts, q \in DepositTokens :
          r.depositBalances[b][q] = s.depositBalances[b][q] + (IF b = a /\ q = t THEN n ELSE 0)
    /\ \A q \in DepositTokens :
          r.totalDepositSupply[q] = s.totalDepositSupply[q] + (IF q = t THEN n ELSE 0)

\* The fields of the rewards.
SameRewards(s, r) ==
    /\ r.claimableReward = s.claimableReward /\ r.cumulativeRewards = s.cumulativeRewards
    /\ r.previousCumulatedRewardPerToken = s.previousCumulatedRewardPerToken
    /\ r.cumulativeRewardPerToken = s.cumulativeRewardPerToken
    /\ r.rewardBalance = s.rewardBalance
    /\ r.distributed = s.distributed /\ r.accrued = s.accrued
    /\ r.lastDistributionTime = s.lastDistributionTime
    /\ r.tokensPerInterval = s.tokensPerInterval

LEMMA StakeBySums ==
    ASSUME NEW s, NEW r, s \in TrackerState, StakeSums(s), NEW a \in Accounts,
           NEW t \in DepositTokens, NEW n \in Int, StakeBy(s, r, a, t, n)
    PROVE  StakeSums(r)
<1>0. /\ \A b \in Accounts : s.balances[b] \in Int /\ s.stakedAmounts[b] \in Int
      /\ \A b \in Accounts, q \in DepositTokens : s.depositBalances[b][q] \in Int
      /\ \A q \in DepositTokens : s.totalDepositSupply[q] \in Int
      /\ IsFiniteSet(Accounts) /\ IsFiniteSet(DepositTokens)
  BY TrackerAssumption DEF TrackerState, PerToken
<1>1. r.totalSupply = Sum(r.balances, Accounts)
  <2> DEFINE f == s.balances
             g == r.balances
  <2>1. \A b \in Accounts : f[b] \in Int /\ g[b] = f[b] + (IF b = a THEN n ELSE 0)
    BY <1>0 DEF StakeBy
  <2>2. r.totalSupply = s.totalSupply + n /\ s.totalSupply = Sum(f, Accounts)
    BY DEF StakeBy, StakeSums
  <2> HIDE DEF f, g
  <2>3. Sum(g, Accounts) = Sum(f, Accounts) + n
    BY <1>0, <2>1, SumBy
  <2> QED BY <2>2, <2>3 DEF g
<1>2. r.totalSupply = Sum(r.stakedAmounts, Accounts)
  <2> DEFINE f == s.stakedAmounts
             g == r.stakedAmounts
  <2>1. \A b \in Accounts : f[b] \in Int /\ g[b] = f[b] + (IF b = a THEN n ELSE 0)
    BY <1>0 DEF StakeBy
  <2>2. r.totalSupply = s.totalSupply + n /\ s.totalSupply = Sum(f, Accounts)
    BY DEF StakeBy, StakeSums
  <2> HIDE DEF f, g
  <2>3. Sum(g, Accounts) = Sum(f, Accounts) + n
    BY <1>0, <2>1, SumBy
  <2> QED BY <2>2, <2>3 DEF g
<1>3. ASSUME NEW b \in Accounts
      PROVE  r.stakedAmounts[b] = Sum(r.depositBalances[b], DepositTokens)
  <2> DEFINE f == s.depositBalances[b]
             g == r.depositBalances[b]
  <2>0. s.stakedAmounts[b] = Sum(f, DepositTokens)
    BY DEF StakeSums
  <2>1. \A q \in DepositTokens : f[q] \in Int
    BY <1>0
  <2>2. \A q \in DepositTokens : g[q] = f[q] + (IF b = a /\ q = t THEN n ELSE 0)
    BY DEF StakeBy
  <2>3. r.stakedAmounts[b] = s.stakedAmounts[b] + (IF b = a THEN n ELSE 0)
    BY DEF StakeBy
  <2> HIDE DEF f, g
  <2>4. CASE b = a
    <3>1. \A q \in DepositTokens : g[q] = f[q] + (IF q = t THEN n ELSE 0)
      BY <2>2, <2>4
    <3>2. Sum(g, DepositTokens) = Sum(f, DepositTokens) + n
      BY <1>0, <2>1, <3>1, SumBy
    <3> QED BY <2>0, <2>3, <2>4, <3>2 DEF g
  <2>5. CASE b # a
    <3>1. \A q \in DepositTokens : f[q] \in Int /\ g[q] = f[q]
      BY <2>1, <2>2, <2>5
    <3>2. Sum(g, DepositTokens) = Sum(f, DepositTokens)
      BY <1>0, <3>1, SumSame
    <3> QED BY <1>0, <2>0, <2>3, <2>5, <3>2 DEF g
  <2> QED BY <2>4, <2>5
<1>4. ASSUME NEW q \in DepositTokens
      PROVE  r.totalDepositSupply[q] = Sum([b \in Accounts |-> r.depositBalances[b][q]], Accounts)
  <2> DEFINE f == [b \in Accounts |-> s.depositBalances[b][q]]
             g == [b \in Accounts |-> r.depositBalances[b][q]]
  <2>0. s.totalDepositSupply[q] = Sum(f, Accounts)
    BY DEF StakeSums
  <2>1. \A b \in Accounts : f[b] \in Int
    BY <1>0
  <2>2. \A b \in Accounts : g[b] = f[b] + (IF b = a /\ q = t THEN n ELSE 0)
    BY DEF StakeBy
  <2>3. r.totalDepositSupply[q] = s.totalDepositSupply[q] + (IF q = t THEN n ELSE 0)
    BY DEF StakeBy
  <2> HIDE DEF f, g
  <2>4. CASE q = t
    <3>1. \A b \in Accounts : g[b] = f[b] + (IF b = a THEN n ELSE 0)
      BY <2>2, <2>4
    <3>2. Sum(g, Accounts) = Sum(f, Accounts) + n
      BY <1>0, <2>1, <3>1, SumBy
    <3> QED BY <2>0, <2>3, <2>4, <3>2 DEF g
  <2>5. CASE q # t
    <3>1. \A b \in Accounts : f[b] \in Int /\ g[b] = f[b]
      BY <2>1, <2>2, <2>5
    <3>2. Sum(g, Accounts) = Sum(f, Accounts)
      BY <1>0, <3>1, SumSame
    <3> QED BY <1>0, <2>0, <2>3, <2>5, <3>2 DEF g
  <2> QED BY <2>4, <2>5
<1> QED BY <1>1, <1>2, <1>3, <1>4 DEF StakeSums

\* Right after an update of its rewards, an account's stake may change.
LEMMA StakeBySound ==
    ASSUME NEW s, NEW r, Sound(s), r \in TrackerState,
           NEW a \in Accounts, NEW t \in DepositTokens, NEW n \in Int,
           StakeBy(s, r, a, t, n), SameRewards(s, r),
           s.previousCumulatedRewardPerToken[a] = s.cumulativeRewardPerToken
    PROVE  Sound(r)
<1>1. s \in TrackerState /\ Typed(s)
  BY DEF Sound, Typed
<1>2. Typed(r) /\ Marked(r) /\ Scheduled(r)
  BY <1>1 DEF Sound, Typed, Marked, Scheduled, SameRewards, PendingRewards
<1>3. StakeSums(r)
  BY <1>1, StakeBySums DEF Sound
<1>4. ASSUME NEW b \in Accounts
      PROVE  Unrounded(r, b) = Unrounded(s, b)
  <2>1. CASE b # a
    <3>1. r.stakedAmounts[b] = s.stakedAmounts[b] /\ s.stakedAmounts[b] \in Nat
      BY <1>1, <2>1 DEF StakeBy, TrackerState
    <3> QED BY <3>1 DEF SameRewards, Unrounded
  <2>2. CASE b = a
    <3>1. /\ s.stakedAmounts[a] \in Nat /\ r.stakedAmounts[a] \in Nat
          /\ s.cumulativeRewardPerToken - s.previousCumulatedRewardPerToken[a] = 0
      BY <1>1 DEF TrackerState
    <3>2. Unrounded(s, a) = s.stakedAmounts[a] * 0 /\ Unrounded(r, a) = r.stakedAmounts[a] * 0
      BY <3>1 DEF SameRewards, Unrounded
    <3> QED BY <2>2, <3>1, <3>2
  <2> QED BY <2>1, <2>2
<1>5. Owed(r) = Owed(s)
  BY <1>4 DEF Owed, SameRewards
<1>6. Backed(r)
  BY <1>5 DEF Sound, Backed, SameRewards
<1> QED BY <1>2, <1>3, <1>6 DEF Sound

\* An account's mark is at the counter after its update.
LEMMA MarkMoved ==
    ASSUME NEW s, Sound(s), NEW a \in Accounts
    PROVE  UpdatedRewards(s, a).previousCumulatedRewardPerToken[a]
             = UpdatedRewards(s, a).cumulativeRewardPerToken
<1> DEFINE u == UpdatedRewards(s, a)
           c == SharedOut(s).cumulativeRewardPerToken
           p == s.previousCumulatedRewardPerToken
<1>1. p \in [Accounts -> Nat] /\ Typed(s)
  BY DEF Sound, Typed, TrackerState
<1>2. u.previousCumulatedRewardPerToken = [p EXCEPT ![a] = c] /\ u.cumulativeRewardPerToken = c
  BY <1>1, UpdateFields
<1> HIDE DEF u, c, p
<1>3. u.previousCumulatedRewardPerToken[a] = c
  BY <1>1, <1>2
<1> QED BY <1>2, <1>3 DEF u

\* One value of a function of two arguments changes.
LEMMA PairExcept ==
    ASSUME NEW A, NEW B, NEW f \in [A -> [B -> Nat]], NEW a \in A, NEW b \in B, NEW v \in Nat,
           NEW g, g = [f EXCEPT ![a][b] = v]
    PROVE  /\ g \in [A -> [B -> Nat]]
           /\ \A x \in A, y \in B : g[x][y] = IF x = a /\ y = b THEN v ELSE f[x][y]
<1>1. [f[a] EXCEPT ![b] = v] \in [B -> Nat]
  OBVIOUS
<1>2. g = [f EXCEPT ![a] = [f[a] EXCEPT ![b] = v]]
  OBVIOUS
<1>3. g \in [A -> [B -> Nat]]
  BY <1>1, <1>2
<1>4. ASSUME NEW x \in A, NEW y \in B
      PROVE  g[x][y] = IF x = a /\ y = b THEN v ELSE f[x][y]
  <2>1. CASE x = a
    BY <1>2, <2>1
  <2>2. CASE x # a
    BY <1>2, <2>2
  <2> QED BY <2>1, <2>2
<1> QED BY <1>3, <1>4

\* A stake counts from the account's mark on, which the update has just moved.
LEMMA StakedSound ==
    ASSUME NEW s, Sound(s), NEW funding \in Accounts, NEW a \in Accounts,
           NEW t \in DepositTokens, NEW amount \in Nat, CanStake(s, funding, a, t, amount)
    PROVE  LET r == Staked(s, funding, a, t, amount)
           IN Sound(r) /\ StakeBy(s, r, a, t, amount) /\ r.isDepositToken = s.isDepositToken
<1> DEFINE u == UpdatedRewards(s, a)
           r == Staked(s, funding, a, t, amount)
           w == [u.wallets EXCEPT ![funding][t] = u.wallets[funding][t] - amount]
           st == [u.stakedAmounts EXCEPT ![a] = u.stakedAmounts[a] + amount]
           dep == [u.depositBalances EXCEPT ![a][t] = u.depositBalances[a][t] + amount]
           tot == [u.totalDepositSupply EXCEPT ![t] = u.totalDepositSupply[t] + amount]
           bal == [u.balances EXCEPT ![a] = u.balances[a] + amount]
           sup == u.totalSupply + amount
<1>1. Sound(u) /\ SameStakes(s, u) /\ u.previousCumulatedRewardPerToken[a] = u.cumulativeRewardPerToken
  BY UpdateSound, MarkMoved
<1>2. u.wallets[funding][t] >= amount
  BY <1>1 DEF CanStake, SameStakes
<1>3. u \in TrackerState
  BY <1>1 DEF Sound, Typed
<1>4. r = [u EXCEPT !.wallets = w, !.stakedAmounts = st, !.depositBalances = dep,
                    !.totalDepositSupply = tot, !.totalSupply = sup, !.balances = bal]
  BY DEF Staked
<1> HIDE DEF u, r
<1>5. w \in [Accounts -> PerToken]
  <2>1. u.wallets \in [Accounts -> [DepositTokens -> Nat]] /\ u.wallets[funding][t] - amount \in Nat
    BY <1>2, <1>3 DEF TrackerState, PerToken
  <2> QED BY <2>1, PairExcept DEF PerToken
<1>6. /\ dep \in [Accounts -> PerToken]
      /\ \A b \in Accounts, q \in DepositTokens :
            dep[b][q] = u.depositBalances[b][q] + (IF b = a /\ q = t THEN amount ELSE 0)
  <2>1. /\ u.depositBalances \in [Accounts -> [DepositTokens -> Nat]]
        /\ u.depositBalances[a][t] + amount \in Nat
    BY <1>3 DEF TrackerState, PerToken
  <2> DEFINE f == u.depositBalances
             v == u.depositBalances[a][t] + amount
  <2>2. f \in [Accounts -> [DepositTokens -> Nat]] /\ v \in Nat /\ dep = [f EXCEPT ![a][t] = v]
    BY <2>1
  <2> HIDE DEF f, v, dep
  <2>3. /\ dep \in [Accounts -> [DepositTokens -> Nat]]
        /\ \A x \in Accounts, y \in DepositTokens :
              dep[x][y] = IF x = a /\ y = t THEN v ELSE f[x][y]
    BY <2>2, PairExcept
  <2>4. \A x \in Accounts, y \in DepositTokens : f[x][y] \in Nat
    BY <2>2
  <2>5. f = u.depositBalances /\ v = f[a][t] + amount
    BY DEF f, v
  <2> QED BY <2>3, <2>4, <2>5 DEF PerToken
<1>7. /\ tot \in PerToken
      /\ \A q \in DepositTokens : tot[q] = u.totalDepositSupply[q] + (IF q = t THEN amount ELSE 0)
  BY <1>3 DEF TrackerState, PerToken
<1>8. /\ st \in [Accounts -> Nat]
      /\ \A b \in Accounts : st[b] = u.stakedAmounts[b] + (IF b = a THEN amount ELSE 0)
  BY <1>3 DEF TrackerState
<1>9. /\ bal \in [Accounts -> Nat]
      /\ \A b \in Accounts : bal[b] = u.balances[b] + (IF b = a THEN amount ELSE 0)
  BY <1>3 DEF TrackerState
<1>10. sup \in Nat
  BY <1>3 DEF TrackerState
<1>11. sup = u.totalSupply + amount
  OBVIOUS
<1> HIDE DEF w, st, dep, tot, bal, sup
<1>12. r \in TrackerState
  BY <1>3, <1>4, <1>5, <1>6, <1>7, <1>8, <1>9, <1>10 DEF TrackerState
<1>13. /\ SameRewards(u, r)
       /\ r.stakedAmounts = st /\ r.depositBalances = dep /\ r.totalDepositSupply = tot
       /\ r.totalSupply = sup /\ r.balances = bal
  BY <1>3, <1>4 DEF TrackerState, SameRewards
<1>14. StakeBy(u, r, a, t, amount)
  BY <1>6, <1>7, <1>8, <1>9, <1>11, <1>13 DEF StakeBy
<1>15. r.isDepositToken = u.isDepositToken
  BY <1>3, <1>4 DEF TrackerState
<1>16. StakeBy(s, r, a, t, amount) /\ r.isDepositToken = s.isDepositToken
  BY <1>1, <1>14, <1>15 DEF StakeBy, SameStakes
<1>17. Sound(r)
  BY <1>1, <1>12, <1>13, <1>14, StakeBySound
<1> QED BY <1>16, <1>17 DEF r

\* Unstaking gives back no more than the account has, whoever receives it.
LEMMA UnstakedSound ==
    ASSUME NEW s, Sound(s), NEW receiver \in Accounts, NEW a \in Accounts,
           NEW t \in DepositTokens, NEW amount \in Nat, CanUnstake(s, a, t, amount)
    PROVE  LET r == Unstaked(s, a, t, amount, receiver)
           IN /\ Sound(r) /\ StakeBy(s, r, a, t, 0 - amount)
              /\ r.isDepositToken = s.isDepositToken /\ r.wallets[receiver][t] >= amount
<1> DEFINE u == UpdatedRewards(s, a)
           r == Unstaked(s, a, t, amount, receiver)
           w == [u.wallets EXCEPT ![receiver][t] = u.wallets[receiver][t] + amount]
           st == [u.stakedAmounts EXCEPT ![a] = u.stakedAmounts[a] - amount]
           dep == [u.depositBalances EXCEPT ![a][t] = u.depositBalances[a][t] - amount]
           tot == [u.totalDepositSupply EXCEPT ![t] = u.totalDepositSupply[t] - amount]
           bal == [u.balances EXCEPT ![a] = u.balances[a] - amount]
           sup == u.totalSupply - amount
           n == 0 - amount
<1>1. Sound(u) /\ SameStakes(s, u) /\ u.previousCumulatedRewardPerToken[a] = u.cumulativeRewardPerToken
  BY UpdateSound, MarkMoved
<1>2. /\ u.stakedAmounts[a] >= amount /\ u.depositBalances[a][t] >= amount
      /\ u.totalDepositSupply[t] >= amount /\ u.balances[a] >= amount /\ u.totalSupply >= amount
  BY <1>1 DEF CanUnstake, SameStakes
<1>3. u \in TrackerState
  BY <1>1 DEF Sound, Typed
<1>4. r = [u EXCEPT !.stakedAmounts = st, !.depositBalances = dep,
                    !.totalDepositSupply = tot, !.totalSupply = sup, !.balances = bal,
                    !.wallets = w]
  BY DEF Unstaked
<1> HIDE DEF u, r
<1>5. w \in [Accounts -> PerToken]
  <2>1. u.wallets \in [Accounts -> [DepositTokens -> Nat]] /\ u.wallets[receiver][t] + amount \in Nat
    BY <1>3 DEF TrackerState, PerToken
  <2> QED BY <2>1, PairExcept DEF PerToken
<1>6. /\ dep \in [Accounts -> PerToken]
      /\ \A b \in Accounts, q \in DepositTokens :
            dep[b][q] = u.depositBalances[b][q] + (IF b = a /\ q = t THEN n ELSE 0)
  <2> DEFINE f == u.depositBalances
             v == u.depositBalances[a][t] - amount
  <2>1. f \in [Accounts -> [DepositTokens -> Nat]] /\ v \in Nat /\ dep = [f EXCEPT ![a][t] = v]
    BY <1>2, <1>3 DEF TrackerState, PerToken
  <2> HIDE DEF f, v, dep
  <2>2. /\ dep \in [Accounts -> [DepositTokens -> Nat]]
        /\ \A x \in Accounts, y \in DepositTokens :
              dep[x][y] = IF x = a /\ y = t THEN v ELSE f[x][y]
    BY <2>1, PairExcept
  <2>3. \A x \in Accounts, y \in DepositTokens : f[x][y] \in Nat
    BY <2>1
  <2>4. f = u.depositBalances /\ v = f[a][t] - amount
    BY DEF f, v
  <2>5. dep \in [Accounts -> PerToken]
    BY <2>2 DEF PerToken
  <2>6. \A b \in Accounts, q \in DepositTokens :
           dep[b][q] = f[b][q] + (IF b = a /\ q = t THEN n ELSE 0)
    <3> TAKE b \in Accounts, q \in DepositTokens
    <3>1. dep[b][q] = IF b = a /\ q = t THEN v ELSE f[b][q]
      BY <2>2
    <3>2. f[b][q] \in Nat
      BY <2>3
    <3>3. CASE b = a /\ q = t
      BY <2>4, <3>1, <3>2, <3>3
    <3>4. CASE ~(b = a /\ q = t)
      BY <3>1, <3>2, <3>4
    <3> QED BY <3>3, <3>4
  <2> QED BY <2>4, <2>5, <2>6
<1>7. /\ tot \in PerToken
      /\ \A q \in DepositTokens : tot[q] = u.totalDepositSupply[q] + (IF q = t THEN n ELSE 0)
  BY <1>2, <1>3 DEF TrackerState, PerToken
<1>8. /\ st \in [Accounts -> Nat]
      /\ \A b \in Accounts : st[b] = u.stakedAmounts[b] + (IF b = a THEN n ELSE 0)
  BY <1>2, <1>3 DEF TrackerState
<1>9. /\ bal \in [Accounts -> Nat]
      /\ \A b \in Accounts : bal[b] = u.balances[b] + (IF b = a THEN n ELSE 0)
  BY <1>2, <1>3 DEF TrackerState
<1>10. sup \in Nat /\ sup = u.totalSupply + n /\ n \in Int
  BY <1>2, <1>3 DEF TrackerState
<1> HIDE DEF w, st, dep, tot, bal, sup, n
<1>12. r \in TrackerState
  BY <1>3, <1>4, <1>5, <1>6, <1>7, <1>8, <1>9, <1>10 DEF TrackerState
<1>13. /\ SameRewards(u, r)
       /\ r.stakedAmounts = st /\ r.depositBalances = dep /\ r.totalDepositSupply = tot
       /\ r.totalSupply = sup /\ r.balances = bal
  BY <1>3, <1>4 DEF TrackerState, SameRewards
<1>14. StakeBy(u, r, a, t, n)
  BY <1>6, <1>7, <1>8, <1>9, <1>10, <1>13 DEF StakeBy
<1>15. r.isDepositToken = u.isDepositToken /\ r.wallets = w
  BY <1>3, <1>4 DEF TrackerState
<1>16. r.wallets[receiver][t] >= amount
  <2>1. u.wallets \in [Accounts -> [DepositTokens -> Nat]]
    BY <1>3 DEF TrackerState, PerToken
  <2>2. w[receiver][t] = u.wallets[receiver][t] + amount /\ u.wallets[receiver][t] \in Nat
    BY <2>1 DEF w
  <2> QED BY <1>15, <2>2
<1>17. StakeBy(s, r, a, t, n) /\ r.isDepositToken = s.isDepositToken
  BY <1>1, <1>14, <1>15 DEF StakeBy, SameStakes
<1>18. Sound(r)
  BY <1>1, <1>10, <1>12, <1>13, <1>14, StakeBySound
<1> QED BY <1>16, <1>17, <1>18 DEF r, n

\* TransferStakedBrrr moves a stake with both accounts' rewards brought up to date.
LEMMA TransferredSound ==
    ASSUME NEW s, Sound(s), NEW sender \in Accounts, NEW recipient \in Accounts,
           NEW amount \in Nat, CanTransferStaked(s, sender, recipient, amount)
    PROVE  Sound(StakeTransferred(s, sender, recipient, amount))
<1> DEFINE m == Unstaked(s, sender, Brrr, amount, sender)
<1>1. /\ CanUnstake(s, sender, Brrr, amount)
      /\ CanStake(m, sender, recipient, Brrr, amount)
      /\ Brrr \in DepositTokens
  BY TrackerAssumption DEF CanTransferStaked
<1>2. Sound(m)
  BY <1>1, UnstakedSound
<1>3. StakeTransferred(s, sender, recipient, amount) = Staked(m, sender, recipient, Brrr, amount)
  BY DEF StakeTransferred
<1> HIDE DEF m
<1> QED BY <1>1, <1>2, <1>3, StakedSound

\* Shares that move leave the stakes and the rewards where they were.
LEMMA MovedSound ==
    ASSUME NEW s, Sound(s), NEW sender \in Accounts, NEW recipient \in Accounts,
           NEW amount \in Nat, CanMoveShares(s, sender, amount)
    PROVE  Sound(SharesMoved(s, sender, recipient, amount))
<1> DEFINE r == SharesMoved(s, sender, recipient, amount)
           mid == [s.balances EXCEPT ![sender] = s.balances[sender] - amount]
           bal == [mid EXCEPT ![recipient] = mid[recipient] + amount]
           n == 0 - amount
           old == s.balances
<1>1. s \in TrackerState /\ Typed(s) /\ old[sender] >= amount /\ old \in [Accounts -> Nat]
  BY DEF Sound, Typed, CanMoveShares, TrackerState
<1>2. r = [s EXCEPT !.balances = bal]
  BY DEF SharesMoved
<1>3. /\ mid \in [Accounts -> Nat] /\ n \in Int
      /\ \A b \in Accounts : mid[b] = old[b] + (IF b = sender THEN n ELSE 0)
  BY <1>1
<1> HIDE DEF mid, n, old
<1>4. /\ bal \in [Accounts -> Nat]
      /\ \A b \in Accounts : bal[b] = mid[b] + (IF b = recipient THEN amount ELSE 0)
  BY <1>3
<1> HIDE DEF bal, r
<1>5. Sum(bal, Accounts) = Sum(old, Accounts)
  <2>0. /\ IsFiniteSet(Accounts) /\ amount \in Int
        /\ \A b \in Accounts : old[b] \in Int
        /\ \A b \in Accounts : mid[b] \in Int
    BY <1>1, <1>3, TrackerAssumption
  <2>1. Sum(mid, Accounts) = Sum(old, Accounts) + n
    BY <1>3, <2>0, SumBy
  <2>2. Sum(bal, Accounts) = Sum(mid, Accounts) + amount
    BY <1>4, <2>0, SumBy
  <2>3. Sum(old, Accounts) \in Int
    BY <1>1, TrackerAssumption, SumInt
  <2> QED BY <2>1, <2>2, <2>3 DEF n
<1>6. r \in TrackerState
  BY <1>1, <1>2, <1>4 DEF TrackerState
<1>7. /\ SameRewards(s, r) /\ r.stakedAmounts = s.stakedAmounts /\ r.balances = bal
      /\ r.totalSupply = s.totalSupply /\ r.depositBalances = s.depositBalances
      /\ r.totalDepositSupply = s.totalDepositSupply
  BY <1>1, <1>2 DEF TrackerState, SameRewards
<1>8. StakeSums(r)
  BY <1>5, <1>7 DEF Sound, StakeSums, old
<1>9. Typed(r) /\ Marked(r) /\ Scheduled(r)
  BY <1>1, <1>6, <1>7 DEF Sound, Typed, Marked, Scheduled, SameRewards, PendingRewards
<1>10. Owed(r) = Owed(s)
  BY <1>7 DEF Owed, SameRewards, Unrounded
<1>11. Backed(r)
  BY <1>7, <1>10 DEF Sound, Backed, SameRewards
<1> QED BY <1>8, <1>9, <1>11 DEF Sound, r

\* A claim pays what is recorded, which the tracker has.
LEMMA ClaimedSound ==
    ASSUME NEW s, Sound(s), NEW a \in Accounts, CanClaim(s, a)
    PROVE  Sound(Claimed(s, a))
<1> DEFINE u == UpdatedRewards(s, a)
           r == Claimed(s, a)
           cl == [u.claimableReward EXCEPT ![a] = 0]
           n == u.claimableReward[a]
           rb == u.rewardBalance - n
           paid == [u.claimed EXCEPT ![a] = u.claimed[a] + n]
<1>1. Sound(u) /\ u \in TrackerState /\ Typed(u)
  BY UpdateSound DEF Sound, Typed
<1>2. n <= u.rewardBalance
  BY DEF CanClaim
<1>3. r = [u EXCEPT !.claimableReward = cl, !.rewardBalance = rb, !.claimed = paid]
  BY <1>1 DEF Claimed, Claim, TrackerState
<1> HIDE DEF u, r
<1>4. /\ cl \in [Accounts -> Nat] /\ rb \in Nat /\ paid \in [Accounts -> Nat] /\ n \in Nat
      /\ u.claimableReward \in [Accounts -> Nat] /\ u.rewardBalance \in Nat
      /\ u.cumulativeRewards \in [Accounts -> Nat]
  BY <1>1, <1>2 DEF TrackerState
<1>5. /\ cl[a] = 0 /\ \A b \in Accounts \ {a} : cl[b] = u.claimableReward[b]
      /\ rb = u.rewardBalance - n /\ n = u.claimableReward[a]
  BY <1>4
<1> HIDE DEF cl, rb, paid, n
<1>6. r \in TrackerState
  BY <1>1, <1>3, <1>4 DEF TrackerState
<1>7. /\ SameStakes(u, r) /\ r.claimableReward = cl /\ r.rewardBalance = rb
      /\ r.cumulativeRewards = u.cumulativeRewards
      /\ r.previousCumulatedRewardPerToken = u.previousCumulatedRewardPerToken
      /\ r.cumulativeRewardPerToken = u.cumulativeRewardPerToken
      /\ r.distributed = u.distributed /\ r.accrued = u.accrued
      /\ r.lastDistributionTime = u.lastDistributionTime
      /\ r.tokensPerInterval = u.tokensPerInterval
  BY <1>1, <1>3 DEF TrackerState, SameStakes
<1>8. StakeSums(r) /\ Typed(r) /\ Scheduled(r)
  <2>1. StakeSums(r)
    BY <1>1, <1>7 DEF Sound, StakeSums, SameStakes
  <2>2. Typed(r)
    BY <1>1, <1>6, <1>7 DEF Sound, Typed
  <2>3. Scheduled(r)
    BY <1>1, <1>7 DEF Sound, Scheduled, PendingRewards
  <2> QED BY <2>1, <2>2, <2>3
<1>9. Marked(r)
  <2> SUFFICES ASSUME NEW b \in Accounts
               PROVE  r.claimableReward[b] <= r.cumulativeRewards[b]
    BY DEF Marked
  <2>1. u.claimableReward[b] <= u.cumulativeRewards[b]
    BY <1>1 DEF Sound, Marked
  <2> QED BY <1>4, <1>5, <1>7, <2>1
<1>10. Backed(r)
  <2> DEFINE f == Owed(u)
             g == Owed(r)
             m == 0 - PRECISION * n
  <2>1. \A b \in Accounts : f[b] \in Int
    BY <1>1, OwedNat
  <2>2. m \in Int
    BY <1>4, TrackerAssumption
  <2>3. ASSUME NEW b \in Accounts
        PROVE  g[b] = f[b] + (IF b = a THEN m ELSE 0)
    <3>1. Unrounded(r, b) = Unrounded(u, b) /\ Unrounded(u, b) \in Nat
      BY <1>1, <1>7, RewardNat DEF Unrounded, SameStakes
    <3>2. /\ f[b] = PRECISION * u.claimableReward[b] + Unrounded(u, b)
          /\ g[b] = PRECISION * cl[b] + Unrounded(u, b)
      BY <1>7, <3>1 DEF Owed
    <3>3. CASE b = a
      <4>1. PRECISION * cl[b] = 0 /\ PRECISION * n \in Int
        BY <1>4, <1>5, <3>3, TrackerAssumption
      <4> QED BY <1>5, <3>1, <3>2, <3>3, <4>1
    <3>4. CASE b # a
      <4>1. g[b] = f[b] /\ f[b] \in Int
        BY <1>5, <2>1, <3>2, <3>4
      <4> QED BY <3>4, <4>1
    <3> QED BY <3>3, <3>4
  <2> HIDE DEF f, g
  <2>4. Sum(g, Accounts) = Sum(f, Accounts) + m
    <3> HIDE DEF m
    <3> QED BY <2>1, <2>2, <2>3, TrackerAssumption, SumBy
  <2>5. Sum(f, Accounts) \in Int
    BY <2>1, TrackerAssumption, SumInt
  <2>6. Sum(f, Accounts) <= PRECISION * u.rewardBalance
    BY <1>1 DEF Sound, Backed, f
  <2>7. PRECISION * rb = PRECISION * u.rewardBalance - PRECISION * n
    BY <1>4, <1>5, TrackerAssumption
  <2>8. PRECISION * u.rewardBalance \in Int /\ PRECISION * n \in Int
    BY <1>4, TrackerAssumption
  <2>9. Sum(g, Accounts) <= PRECISION * rb
    BY <2>4, <2>5, <2>6, <2>7, <2>8
  <2> QED BY <1>7, <2>9 DEF Backed, g
<1> QED BY <1>8, <1>9, <1>10 DEF Sound, r

-----------------------------------------------------------------------------
(* The calls of the administrators, the clock and the theorems.            *)

SameShares(s, r) ==
    /\ r.depositBalances = s.depositBalances
    /\ r.totalDepositSupply = s.totalDepositSupply /\ r.totalSupply = s.totalSupply
    /\ r.balances = s.balances /\ r.stakedAmounts = s.stakedAmounts

\* What the invariant does not mention may change.
LEMMA QuietSound ==
    ASSUME NEW s, NEW r, Sound(s), r \in TrackerState, SameShares(s, r), SameRewards(s, r)
    PROVE  Sound(r)
<1>1. Typed(r) /\ Marked(r) /\ Scheduled(r)
  BY DEF Sound, Typed, Marked, Scheduled, SameRewards, PendingRewards
<1>2. StakeSums(r)
  BY DEF Sound, StakeSums, SameShares
<1>3. Owed(r) = Owed(s)
  BY DEF Owed, SameShares, SameRewards, Unrounded
<1>4. Backed(r)
  BY <1>3 DEF Sound, Backed, SameRewards
<1> QED BY <1>1, <1>2, <1>4 DEF Sound

\* Moving the distributor's clock forgets what was due.
LEMMA ClockSound ==
    ASSUME NEW s, Sound(s)
    PROVE  LET m == LastDistributionTimeUpdated(s)
           IN Sound(m) /\ SameShares(s, m) /\ m.lastDistributionTime = now
<1> DEFINE m == LastDistributionTimeUpdated(s)
<1>1. s \in TrackerState /\ now \in Nat /\ Typed(s)
  BY DEF Sound, Typed
<1>2. m \in TrackerState /\ m.lastDistributionTime = now /\ m = [s EXCEPT !.lastDistributionTime = now]
  BY <1>1 DEF LastDistributionTimeUpdated, TrackerState
<1> HIDE DEF m
<1>3. Sound(m) /\ SameShares(s, m)
  <2>1. /\ SameShares(s, m) /\ m.claimableReward = s.claimableReward
        /\ m.cumulativeRewards = s.cumulativeRewards
        /\ m.previousCumulatedRewardPerToken = s.previousCumulatedRewardPerToken
        /\ m.cumulativeRewardPerToken = s.cumulativeRewardPerToken
        /\ m.rewardBalance = s.rewardBalance
        /\ m.distributed = s.distributed /\ m.accrued = s.accrued
        /\ m.tokensPerInterval = s.tokensPerInterval
    BY <1>1, <1>2 DEF TrackerState, SameShares
  <2>2. Typed(m) /\ Marked(m) /\ StakeSums(m)
    <3>1. Typed(m)
      <4>1. m.lastDistributionTime <= now
        BY <1>1, <1>2
      <4>2. \A a \in Accounts :
               m.previousCumulatedRewardPerToken[a] <= m.cumulativeRewardPerToken
        BY <1>1, <2>1 DEF Typed
      <4> QED BY <1>1, <1>2, <4>1, <4>2 DEF Typed
    <3>2. Marked(m)
      BY <2>1 DEF Sound, Marked
    <3>3. StakeSums(m)
      BY <2>1 DEF Sound, StakeSums, SameShares
    <3> QED BY <3>1, <3>2, <3>3
  <2>3. Owed(m) = Owed(s)
    BY <2>1 DEF Owed, SameShares, Unrounded
  <2>4. Backed(m)
    BY <2>1, <2>3 DEF Sound, Backed
  <2>5. Scheduled(m)
    <3>1. PendingRewards(m) = 0
      BY <1>1, <1>2 DEF PendingRewards, TrackerState
    <3>2. PendingRewards(s) \in Nat /\ s.distributed \in Nat /\ s.accrued \in Nat
      BY <1>1, DistributionNat DEF TrackerState
    <3> QED BY <2>1, <3>1, <3>2 DEF Sound, Scheduled
  <2> QED BY <2>1, <2>2, <2>4, <2>5 DEF Sound
<1> QED BY <1>2, <1>3 DEF m

\* A change of the rate starts from the present: nothing is due at it yet.
LEMMA RateSound ==
    ASSUME NEW s, Sound(s), NEW rate \in Nat
    PROVE  LET r == TokensPerIntervalSet(LastDistributionTimeUpdated(s), rate)
           IN Sound(r) /\ SameShares(s, r)
<1> DEFINE m == LastDistributionTimeUpdated(s)
           u == UpdatedRewards(m, NoAccount)
           r == TokensPerIntervalSet(m, rate)
<1>1. s \in TrackerState /\ now \in Nat /\ Typed(s)
  BY DEF Sound, Typed
<1>2. Sound(m) /\ SameShares(s, m) /\ m.lastDistributionTime = now
  BY ClockSound
<1>3. Sound(m) /\ SameShares(s, m)
  BY <1>2
<1> HIDE DEF m
<1>4. Sound(u) /\ SameStakes(m, u) /\ u = SharedOut(m)
  BY <1>3, UpdateSound DEF UpdatedRewards
<1>5. u.lastDistributionTime = now
  <2>1. Typed(m)
    BY <1>3 DEF Sound
  <2>2. SharedOut(m).lastDistributionTime \in {m.lastDistributionTime, now}
    BY <2>1, SharedFields
  <2> QED BY <1>2, <1>4, <2>2
<1>6. r = [u EXCEPT !.tokensPerInterval = rate]
  BY DEF TokensPerIntervalSet
<1> HIDE DEF u, r
<1>7. u \in TrackerState /\ Typed(u)
  BY <1>4 DEF Sound, Typed
<1>8. r \in TrackerState /\ r.lastDistributionTime = now
  BY <1>5, <1>6, <1>7 DEF TrackerState
<1>9. /\ SameShares(u, r) /\ r.claimableReward = u.claimableReward
      /\ r.cumulativeRewards = u.cumulativeRewards
      /\ r.previousCumulatedRewardPerToken = u.previousCumulatedRewardPerToken
      /\ r.cumulativeRewardPerToken = u.cumulativeRewardPerToken
      /\ r.rewardBalance = u.rewardBalance
      /\ r.distributed = u.distributed /\ r.accrued = u.accrued
  BY <1>6, <1>7 DEF TrackerState, SameShares
<1>10. Typed(r) /\ Marked(r) /\ StakeSums(r)
  <2>1. Typed(r)
    <3>1. r.lastDistributionTime <= now
      BY <1>1, <1>8
    <3> QED BY <1>7, <1>8, <1>9, <3>1 DEF Typed
  <2>2. Marked(r)
    BY <1>4, <1>9 DEF Sound, Marked
  <2>3. StakeSums(r)
    <3>1. StakeSums(u) /\ SameShares(u, r)
      BY <1>4, <1>9 DEF Sound
    <3> QED BY <3>1 DEF StakeSums, SameShares
  <2> QED BY <2>1, <2>2, <2>3
<1>11. Owed(r) = Owed(u)
  BY <1>9 DEF Owed, SameShares, Unrounded
<1>12. Backed(r)
  BY <1>4, <1>9, <1>11 DEF Sound, Backed
<1>13. Scheduled(r)
  <2>1. PendingRewards(r) = 0
    BY <1>1, <1>8 DEF PendingRewards, TrackerState
  <2>2. PendingRewards(u) \in Nat /\ u.distributed \in Nat /\ u.accrued \in Nat
    BY <1>7, DistributionNat DEF TrackerState
  <2> QED BY <1>4, <1>9, <2>1, <2>2 DEF Sound, Scheduled
<1>14. Sound(r)
  BY <1>10, <1>12, <1>13 DEF Sound
<1>15. SameShares(s, r)
  BY <1>3, <1>4, <1>9 DEF SameShares, SameStakes
<1> QED BY <1>14, <1>15 DEF r, m

Invariant == Sound(tracker)

LEMMA InvariantInit == TrackerInit => Invariant
<1> SUFFICES ASSUME TrackerInit PROVE Sound(tracker)
  BY DEF Invariant
<1> DEFINE zero == [a \in Accounts |-> 0]
           none == [t \in DepositTokens |-> 0]
<1>1. tracker = EmptyTracker /\ now = 1
  BY DEF TrackerInit
<1>2. tracker \in TrackerState
  BY <1>1, TrackerAssumption DEF EmptyTracker, TrackerState, PerToken, PerAccount
<1>3. /\ tracker.totalSupply = 0 /\ tracker.balances = zero /\ tracker.stakedAmounts = zero
      /\ tracker.totalDepositSupply = none
      /\ tracker.depositBalances = [a \in Accounts |-> none]
      /\ tracker.claimableReward = zero /\ tracker.cumulativeRewards = zero
      /\ tracker.previousCumulatedRewardPerToken = zero
      /\ tracker.cumulativeRewardPerToken = 0 /\ tracker.rewardBalance = 0
      /\ tracker.distributed = 0 /\ tracker.accrued = 0
      /\ tracker.lastDistributionTime = 0 /\ tracker.tokensPerInterval = 0
  BY <1>1 DEF EmptyTracker, PerAccount
<1>4. Typed(tracker) /\ Marked(tracker)
  BY <1>1, <1>2, <1>3 DEF Typed, Marked
<1>5. Scheduled(tracker)
  <2>1. PendingRewards(tracker) = 0
    BY <1>1, <1>3 DEF PendingRewards
  <2> QED BY <1>3, <2>1 DEF Scheduled
<1>6. IsFiniteSet(Accounts) /\ IsFiniteSet(DepositTokens)
  BY TrackerAssumption
<1>7. Sum(zero, Accounts) = 0 /\ Sum(none, DepositTokens) = 0
  <2>1. (\A a \in Accounts : zero[a] = 0) /\ (\A t \in DepositTokens : none[t] = 0)
    OBVIOUS
  <2> HIDE DEF zero, none
  <2> QED BY <1>6, <2>1, SumZero
<1>8. StakeSums(tracker)
  <2>1. ASSUME NEW t \in DepositTokens
        PROVE  [a \in Accounts |-> tracker.depositBalances[a][t]] = zero
    BY <1>3
  <2>2. ASSUME NEW a \in Accounts PROVE tracker.depositBalances[a] = none
    BY <1>3
  <2> QED BY <1>3, <1>7, <2>1, <2>2 DEF StakeSums
<1>9. Backed(tracker)
  <2>1. \A a \in Accounts : Owed(tracker)[a] = 0
    <3> TAKE a \in Accounts
    <3>1. Unrounded(tracker, a) = 0 /\ PRECISION * tracker.claimableReward[a] = 0
      BY <1>3, TrackerAssumption DEF Unrounded
    <3> QED BY <3>1 DEF Owed
  <2>2. Sum(Owed(tracker), Accounts) = 0
    BY <1>6, <2>1, SumZero
  <2>3. PRECISION * tracker.rewardBalance = 0
    BY <1>3, TrackerAssumption
  <2> QED BY <2>2, <2>3 DEF Backed
<1> QED BY <1>4, <1>5, <1>8, <1>9 DEF Sound

\* A call takes the tracker to a state the invariant holds of; the clock stands still.
LEMMA CallKeeps ==
    ASSUME NEW x, Sound(x), tracker' = x, now' = now
    PROVE  Invariant'
<1>1. Typed(x) /\ StakeSums(x) /\ Marked(x) /\ Backed(x) /\ Scheduled(x)
  BY DEF Sound
<1>2. Typed(tracker)'
  BY <1>1 DEF Typed
<1>3. StakeSums(tracker)' /\ Marked(tracker)'
  BY <1>1 DEF StakeSums, Marked
<1>4. Backed(tracker)'
  BY <1>1 DEF Backed, Owed, Unrounded
<1>5. Scheduled(tracker)'
  BY <1>1 DEF Scheduled, PendingRewards
<1> QED BY <1>2, <1>3, <1>4, <1>5 DEF Invariant, Sound

LEMMA TickKeeps ==
    ASSUME Invariant, Tick
    PROVE  Invariant'
<1> DEFINE s == tracker
           more == s.accrued + s.tokensPerInterval
           r == [s EXCEPT !.accrued = more]
<1>1. /\ s \in TrackerState /\ now \in Nat /\ s.lastDistributionTime <= now
      /\ Typed(s) /\ StakeSums(s) /\ Marked(s) /\ Backed(s) /\ Scheduled(s)
  BY DEF Invariant, Sound, Typed
<1>2. tracker' = r /\ now' = now + 1
  BY DEF Tick
<1>3. more \in Nat /\ s.tokensPerInterval \in Nat /\ s.lastDistributionTime \in Nat
      /\ s.distributed \in Nat /\ s.accrued \in Nat
  BY <1>1 DEF TrackerState
<1>4. more = s.accrued + s.tokensPerInterval
  OBVIOUS
<1> HIDE DEF more
<1>5. /\ r \in TrackerState /\ r.accrued = more
      /\ r.lastDistributionTime = s.lastDistributionTime
      /\ r.tokensPerInterval = s.tokensPerInterval /\ r.distributed = s.distributed
      /\ SameStakes(s, r) /\ r.claimableReward = s.claimableReward
      /\ r.cumulativeRewards = s.cumulativeRewards
      /\ r.previousCumulatedRewardPerToken = s.previousCumulatedRewardPerToken
      /\ r.cumulativeRewardPerToken = s.cumulativeRewardPerToken
      /\ r.rewardBalance = s.rewardBalance
  BY <1>1, <1>3 DEF TrackerState, SameStakes
<1> HIDE DEF r
<1>6. Typed(tracker)'
  <2>1. r.lastDistributionTime <= now + 1 /\ now + 1 \in Nat
    BY <1>1, <1>3, <1>5
  <2>2. \A a \in Accounts : r.previousCumulatedRewardPerToken[a] <= r.cumulativeRewardPerToken
    BY <1>1, <1>5 DEF Typed
  <2> QED BY <1>2, <1>5, <2>1, <2>2 DEF Typed
<1>7. StakeSums(tracker)' /\ Marked(tracker)'
  <2>1. StakeSums(r) /\ Marked(r)
    BY <1>1, <1>5 DEF StakeSums, Marked, SameStakes
  <2> QED BY <1>2, <2>1 DEF StakeSums, Marked
<1>8. Backed(tracker)'
  <2>1. Owed(r) = Owed(s)
    BY <1>5 DEF Owed, Unrounded, SameStakes
  <2>2. Backed(r)
    BY <1>1, <1>5, <2>1 DEF Backed
  <2> QED BY <1>2, <2>2 DEF Backed, Owed, Unrounded
<1>9. Scheduled(tracker)'
  <2> DEFINE rate == s.tokensPerInterval
             gone == now - s.lastDistributionTime
  <2>1. gone \in Nat /\ rate \in Nat
    BY <1>1, <1>3
  <2>2. s.distributed + rate * gone <= s.accrued
    BY <1>1 DEF Scheduled, PendingRewards
  <2>3. (now + 1) - s.lastDistributionTime = gone + 1
    BY <1>1, <1>3
  <2> HIDE DEF rate, gone
  <2>4. rate * (gone + 1) = rate * gone + rate /\ rate * gone \in Nat
    BY <2>1
  <2>5. s.distributed + rate * (gone + 1) <= s.accrued + rate
    BY <1>3, <2>1, <2>2, <2>4
  <2>6. /\ tracker'.distributed = s.distributed /\ tracker'.accrued = s.accrued + rate
        /\ tracker'.tokensPerInterval = rate
        /\ now' - tracker'.lastDistributionTime = gone + 1
    BY <1>2, <1>4, <1>5, <2>3 DEF rate
  <2> QED BY <2>5, <2>6 DEF Scheduled, PendingRewards
<1> QED BY <1>6, <1>7, <1>8, <1>9 DEF Invariant, Sound

\* The calls of any set of accounts.
LEMMA AccountCallKeeps ==
    ASSUME NEW users \in SUBSET Accounts, Invariant, AccountCall(users)
    PROVE  Invariant'
<1>1. Sound(tracker) /\ now' = now
  BY DEF Invariant, AccountCall
<1>2. Amounts \subseteq Nat
  BY TrackerAssumption
<1>3. CASE \E a \in users, t \in DepositTokens, amount \in Amounts :
              Stake(a, t, amount) \/ Unstake(a, t, amount, a)
  <2>1. PICK a \in Accounts, t \in DepositTokens, amount \in Nat :
           Stake(a, t, amount) \/ Unstake(a, t, amount, a)
    BY <1>2, <1>3
  <2>2. CASE Stake(a, t, amount)
    <3>1. Sound(Staked(tracker, a, a, t, amount))
      BY <1>1, <2>2, StakedSound DEF Stake
    <3> QED BY <1>1, <2>2, <3>1, CallKeeps DEF Stake
  <2>3. CASE Unstake(a, t, amount, a)
    <3>1. Sound(Unstaked(tracker, a, t, amount, a))
      BY <1>1, <2>3, UnstakedSound DEF Unstake
    <3> QED BY <1>1, <2>3, <3>1, CallKeeps DEF Unstake
  <2> QED BY <2>1, <2>2, <2>3
<1>4. CASE \E sender \in users, recipient \in Accounts, amount \in Amounts :
              TransferStaked(sender, recipient, amount) \/ Transfer(sender, recipient, amount)
  <2>1. PICK sender \in Accounts, recipient \in Accounts, amount \in Nat :
           TransferStaked(sender, recipient, amount) \/ Transfer(sender, recipient, amount)
    BY <1>2, <1>4
  <2>2. CASE TransferStaked(sender, recipient, amount)
    <3>1. Sound(StakeTransferred(tracker, sender, recipient, amount))
      BY <1>1, <2>2, TransferredSound DEF TransferStaked
    <3> QED BY <1>1, <2>2, <3>1, CallKeeps DEF TransferStaked
  <2>3. CASE Transfer(sender, recipient, amount)
    <3>1. Sound(SharesMoved(tracker, sender, recipient, amount))
      BY <1>1, <2>3, MovedSound DEF Transfer
    <3> QED BY <1>1, <2>3, <3>1, CallKeeps DEF Transfer
  <2> QED BY <2>1, <2>2, <2>3
<1>5. CASE \E a \in users : ClaimReward(a)
  <2>1. PICK a \in Accounts : ClaimReward(a)
    BY <1>5
  <2>2. Sound(Claimed(tracker, a))
    BY <1>1, <2>1, ClaimedSound DEF ClaimReward
  <2> QED BY <1>1, <2>1, <2>2, CallKeeps DEF ClaimReward
<1>6. CASE UpdateRewards
  <2>1. Sound(UpdatedRewards(tracker, NoAccount))
    BY <1>1, UpdateSound
  <2> QED BY <1>1, <1>6, <2>1, CallKeeps DEF UpdateRewards
<1> QED BY <1>3, <1>4, <1>5, <1>6 DEF AccountCall

LEMMA AdminCallKeeps ==
    ASSUME Invariant, AdminCall
    PROVE  Invariant'
<1>1. Sound(tracker) /\ now' = now /\ tracker \in TrackerState
  BY DEF Invariant, AdminCall, Sound, Typed
<1>2. Rates \subseteq Nat /\ Fundings \subseteq Nat /\ DepositSettings \subseteq BOOLEAN
  BY TrackerAssumption
<1>3. CASE \E rate \in Rates : SetDistributorRewards(rate)
  <2>1. PICK rate \in Nat : SetDistributorRewards(rate)
    BY <1>2, <1>3
  <2>2. Sound(TokensPerIntervalSet(LastDistributionTimeUpdated(tracker), rate))
    BY <1>1, RateSound
  <2> QED BY <1>1, <2>1, <2>2, CallKeeps DEF SetDistributorRewards
<1>4. CASE \E t \in DepositTokens, isDeposit \in DepositSettings : SetDepositToken(t, isDeposit)
  <2>1. PICK t \in DepositTokens, isDeposit \in BOOLEAN : SetDepositToken(t, isDeposit)
    BY <1>2, <1>4
  <2> DEFINE r == [tracker EXCEPT !.isDepositToken[t] = isDeposit]
  <2>2. r \in TrackerState /\ SameShares(tracker, r) /\ SameRewards(tracker, r)
    BY <1>1 DEF TrackerState, SameShares, SameRewards
  <2>3. tracker' = r
    BY <2>1 DEF SetDepositToken
  <2> HIDE DEF r
  <2> QED BY <1>1, <2>2, <2>3, QuietSound, CallKeeps
<1>5. CASE \E amount \in Fundings : WithdrawToken(amount) \/ Fund(amount)
  <2>1. PICK amount \in Nat : WithdrawToken(amount) \/ Fund(amount)
    BY <1>2, <1>5
  <2>2. CASE WithdrawToken(amount)
    <3> DEFINE left == tracker.distributorBalance - amount
               r == [tracker EXCEPT !.distributorBalance = left]
    <3>1. left \in Nat /\ tracker' = r
      BY <1>1, <2>2 DEF WithdrawToken, TrackerState
    <3> HIDE DEF left
    <3>2. r \in TrackerState /\ SameShares(tracker, r) /\ SameRewards(tracker, r)
      BY <1>1, <3>1 DEF TrackerState, SameShares, SameRewards
    <3> HIDE DEF r
    <3> QED BY <1>1, <3>1, <3>2, QuietSound, CallKeeps
  <2>3. CASE Fund(amount)
    <3> DEFINE more == tracker.distributorBalance + amount
               sum == tracker.funded + amount
               r == [tracker EXCEPT !.distributorBalance = more, !.funded = sum]
    <3>1. more \in Nat /\ sum \in Nat /\ tracker' = r
      BY <1>1, <2>3 DEF Fund, TrackerState
    <3> HIDE DEF more, sum
    <3>2. r \in TrackerState /\ SameShares(tracker, r) /\ SameRewards(tracker, r)
      BY <1>1, <3>1 DEF TrackerState, SameShares, SameRewards
    <3> HIDE DEF r
    <3> QED BY <1>1, <3>1, <3>2, QuietSound, CallKeeps
  <2> QED BY <2>1, <2>2, <2>3
<1> QED BY <1>3, <1>4, <1>5 DEF AdminCall

LEMMA InvariantNext == Invariant /\ [TrackerNext]_trackerVars => Invariant'
<1> SUFFICES ASSUME Invariant, [TrackerNext]_trackerVars PROVE Invariant'
  OBVIOUS
<1>1. CASE AccountCall(Accounts)
  BY <1>1, AccountCallKeeps
<1>2. CASE AdminCall
  BY <1>2, AdminCallKeeps
<1>3. CASE Tick
  BY <1>3, TickKeeps
<1>4. CASE UNCHANGED trackerVars
  <2>1. tracker' = tracker /\ now' = now /\ Sound(tracker)
    BY <1>4 DEF trackerVars, Invariant
  <2> QED BY <2>1, CallKeeps
<1> QED BY <1>1, <1>2, <1>3, <1>4 DEF TrackerNext

\* The invariant holds of every reachable state.
THEOREM InvariantHolds == TrackerSpec => []Invariant
<1>1. TrackerInit => Invariant
  BY InvariantInit
<1>2. Invariant /\ [TrackerNext]_trackerVars => Invariant'
  BY InvariantNext
<1> QED BY <1>1, <1>2, PTL DEF TrackerSpec

\* The fields of the contracts keep their types; nothing underflows.
THEOREM TrackerTyped == TrackerSpec => []TrackerTypeOK
<1>1. ASSUME Invariant PROVE TrackerTypeOK
  <2>1. Typed(tracker)
    BY <1>1 DEF Invariant, Sound
  <2>2. tracker.previousCumulatedRewardPerToken \in
          [Accounts -> 0..tracker.cumulativeRewardPerToken]
    <3>1. /\ tracker.previousCumulatedRewardPerToken \in [Accounts -> Nat]
          /\ tracker.cumulativeRewardPerToken \in Nat
      BY <2>1 DEF Typed, TrackerState
    <3>2. \A a \in Accounts : tracker.previousCumulatedRewardPerToken[a]
                                \in 0..tracker.cumulativeRewardPerToken
      BY <2>1, <3>1 DEF Typed
    <3> QED BY <3>1, <3>2
  <2>3. tracker.lastDistributionTime \in 0..now
    BY <2>1 DEF Typed, TrackerState
  <2> QED BY <2>1, <2>2, <2>3 DEF TrackerTypeOK, Typed, TrackerState, PerToken
<1> QED BY <1>1, InvariantHolds, PTL

\* Shares, stakes and deposits are the same total, and a stake is the sum of the
\* account's deposits, however they travel between the accounts.
THEOREM StakesAlwaysAddUp == TrackerSpec => []StakesAddUp
<1>1. ASSUME Invariant PROVE StakesAddUp
  <2>1. StakeSums(tracker) /\ tracker \in TrackerState
    BY <1>1 DEF Invariant, Sound, Typed
  <2>2. /\ DOMAIN tracker.balances = Accounts /\ DOMAIN tracker.stakedAmounts = Accounts
        /\ \A a \in Accounts : DOMAIN tracker.depositBalances[a] = DepositTokens
    BY <2>1 DEF TrackerState, PerToken
  <2>3. ASSUME NEW t \in DepositTokens
        PROVE  DOMAIN [a \in Accounts |-> tracker.depositBalances[a][t]] = Accounts
    OBVIOUS
  <2> QED BY <2>1, <2>2, <2>3 DEF StakesAddUp, StakeSums, SumOver
<1> QED BY <1>1, InvariantHolds, PTL

\* The tracker can pay every reward it owes, recorded or not.
THEOREM RewardsAlwaysBacked == TrackerSpec => []RewardsBacked
<1>1. ASSUME Invariant PROVE RewardsBacked
  <2> DEFINE due == [a \in Accounts |->
                        tracker.claimableReward[a] + AccountReward(tracker, a)]
             exact == [a \in Accounts |-> PRECISION * due[a]]
             owed == Owed(tracker)
             held == tracker.rewardBalance
  <2>1. /\ Typed(tracker) /\ held \in Nat /\ PRECISION \in Nat \ {0}
        /\ IsFiniteSet(Accounts) /\ Sum(owed, Accounts) <= PRECISION * held
    BY <1>1, TrackerAssumption DEF Invariant, Sound, Typed, TrackerState, Backed
  <2>2. \A a \in Accounts : due[a] \in Nat /\ exact[a] = PRECISION * due[a]
    <3> TAKE a \in Accounts
    <3>1. tracker.claimableReward[a] \in Nat
      BY <2>1 DEF Typed, TrackerState
    <3> QED BY <2>1, <3>1, RewardNat
  <2>3. \A a \in Accounts : owed[a] \in Int /\ exact[a] \in Int /\ exact[a] <= owed[a]
    <3> TAKE a \in Accounts
    <3>1. owed[a] \in Nat
      BY <2>1, OwedNat
    <3>2. /\ tracker.claimableReward[a] \in Nat /\ AccountReward(tracker, a) \in Nat
          /\ PRECISION * AccountReward(tracker, a) <= Unrounded(tracker, a)
          /\ Unrounded(tracker, a) \in Nat
      BY <2>1, RewardNat DEF Typed, TrackerState
    <3>3. owed[a] = PRECISION * tracker.claimableReward[a] + Unrounded(tracker, a)
      BY DEF Owed
    <3> DEFINE c == tracker.claimableReward[a]
               w == AccountReward(tracker, a)
    <3>4. exact[a] = PRECISION * (c + w)
      OBVIOUS
    <3> HIDE DEF c, w, exact
    <3>5. /\ PRECISION * (c + w) = PRECISION * c + PRECISION * w
          /\ PRECISION * c \in Int /\ PRECISION * w \in Int
      BY <2>1, <3>2 DEF c, w
    <3>6. PRECISION * c + PRECISION * w <= owed[a]
      BY <3>2, <3>3, <3>5 DEF c, w
    <3> QED BY <3>1, <3>4, <3>5, <3>6
  <2> HIDE DEF due, exact, owed, held
  <2>4. Sum(exact, Accounts) <= Sum(owed, Accounts)
    BY <2>1, <2>3, SumMonotone
  <2>5. Sum(exact, Accounts) = PRECISION * Sum(due, Accounts)
    <3>1. \A a \in Accounts : due[a] \in Int /\ exact[a] = PRECISION * due[a]
      BY <2>2
    <3> QED BY <2>1, <3>1, SumScale
  <2>6. Sum(due, Accounts) \in Int /\ Sum(owed, Accounts) \in Int
    BY <2>1, <2>2, <2>3, SumInt
  <2>7. Sum(due, Accounts) <= held
    <3> DEFINE n == Sum(due, Accounts)
    <3>1. n \in Int /\ PRECISION * n <= PRECISION * held
      BY <2>1, <2>4, <2>5, <2>6
    <3> HIDE DEF n
    <3>2. n > held => PRECISION * n > PRECISION * held
      BY <2>1, <3>1
    <3>3. n <= held
      BY <2>1, <3>1, <3>2
    <3> QED BY <3>3 DEF n
  <2> QED BY <2>1, <2>6, <2>7 DEF RewardsBacked, SumOver, due, held
<1> QED BY <1>1, InvariantHolds, PTL

\* An update of rewards never fails: whoever has a reward has a cumulative reward.
LEMMA CanUpdateSound ==
    ASSUME NEW s, Sound(s), NEW a \in Accounts \cup {NoAccount}
    PROVE  CanUpdateRewards(s, a)
<1> DEFINE sh == SharedOut(s)
<1>1. Typed(s) /\ Marked(s) /\ s.lastDistributionTime <= now
  BY DEF Sound, Typed
<1>2. ASSUME a # NoAccount
      PROVE  /\ s.previousCumulatedRewardPerToken[a] <= sh.cumulativeRewardPerToken
             /\ Counts(sh, a) => s.cumulativeRewards[a] + AccountReward(sh, a) > 0
  <2>1. a \in Accounts
    BY <1>2
  <2>2. /\ Typed(sh) /\ sh.claimableReward = s.claimableReward
        /\ sh.previousCumulatedRewardPerToken = s.previousCumulatedRewardPerToken
    BY <1>1, SharedTyped, SharedFields
  <2>3. s.previousCumulatedRewardPerToken[a] <= sh.cumulativeRewardPerToken
    BY <2>1, <2>2 DEF Typed
  <2>4. /\ AccountReward(sh, a) \in Nat /\ s.claimableReward[a] \in Nat
        /\ s.cumulativeRewards[a] \in Nat
        /\ s.claimableReward[a] <= s.cumulativeRewards[a]
    BY <1>1, <2>1, <2>2, RewardNat DEF Typed, TrackerState, Marked
  <2>5. Counts(sh, a) => s.claimableReward[a] + AccountReward(sh, a) > 0
    BY <2>2 DEF Counts
  <2> HIDE DEF sh
  <2>6. Counts(sh, a) => s.cumulativeRewards[a] + AccountReward(sh, a) > 0
    BY <2>4, <2>5
  <2> QED BY <2>3, <2>6
<1> QED BY <1>1, <1>2 DEF CanUpdateRewards

\* No update of rewards ever fails: a mark never passes the counter, and whoever has
\* a reward, recorded or not, has a cumulative reward to divide by.
THEOREM UpdatesAlwaysSucceed == TrackerSpec => []UpdatesNeverRevert
<1>1. ASSUME Invariant PROVE UpdatesNeverRevert
  BY <1>1, CanUpdateSound DEF Invariant, UpdatesNeverRevert
<1> QED BY <1>1, InvariantHolds, PTL

\* What was distributed in all never exceeds what the rates of the seconds that passed
\* allow, also when the rate changes while something is due or the distributor runs dry.
THEOREM ScheduleKept == TrackerSpec => []WithinSchedule
<1>1. ASSUME Invariant PROVE WithinSchedule
  <2>1. Typed(tracker) /\ Scheduled(tracker)
    BY <1>1 DEF Invariant, Sound
  <2>2. PendingRewards(tracker) \in Nat /\ tracker.distributed \in Nat /\ tracker.accrued \in Nat
    BY <2>1, DistributionNat DEF Typed, TrackerState
  <2> QED BY <2>1, <2>2 DEF Scheduled, WithinSchedule
<1> QED BY <1>1, InvariantHolds, PTL

-----------------------------------------------------------------------------
(* Pro rata.  Everything an account has received, with what its stake has   *)
(* earned since its mark, is compared with its exact share, counted in      *)
(* 1/(PRECISION * ShareUnit) of a token.  The exact share is only exact     *)
(* while ShareUnit is a multiple of the supply, so the invariant also says  *)
(* that shares are only ever made of deposit tokens from the wallets.       *)

Have(s, a) ==
    PRECISION * (ShareUnit * (s.claimed[a] + s.claimableReward[a])) + ShareUnit * Unrounded(s, a)
FairFor(s, a) ==
    /\ Have(s, a) <= PRECISION * s.fairShare[a]
    /\ PRECISION * s.fairShare[a]
         <= Have(s, a) + PRECISION * ShareUnit * s.roundings[a] + ShareUnit * s.lost[a]
Fair(s) == \A a \in Accounts : FairFor(s, a)

InWallets(wallets) == Sum([a \in Accounts |-> Sum(wallets[a], DepositTokens)], Accounts)
Conserved(s) == s.totalSupply + InWallets(s.wallets) = TotalHoldings

\* A wallet that gains or pays n tokens changes the total by n.
LEMMA WalletsBy ==
    ASSUME NEW f \in [Accounts -> PerToken], NEW a \in Accounts, NEW t \in DepositTokens,
           NEW n \in Int, f[a][t] + n \in Nat,
           NEW g, g = [f EXCEPT ![a][t] = f[a][t] + n]
    PROVE  InWallets(g) = InWallets(f) + n
<1> DEFINE v == f[a][t] + n
           F == [b \in Accounts |-> Sum(f[b], DepositTokens)]
           G == [b \in Accounts |-> Sum(g[b], DepositTokens)]
<1>1. IsFiniteSet(Accounts) /\ IsFiniteSet(DepositTokens)
  BY TrackerAssumption
<1>2. f \in [Accounts -> [DepositTokens -> Nat]]
  BY DEF PerToken
<1>3. \A b \in Accounts, q \in DepositTokens : g[b][q] = IF b = a /\ q = t THEN v ELSE f[b][q]
  BY <1>2, PairExcept
<1>4. \A b \in Accounts, q \in DepositTokens : f[b][q] \in Int
  BY <1>2
<1>5. ASSUME NEW b \in Accounts
      PROVE  F[b] \in Int /\ G[b] = F[b] + (IF b = a THEN n ELSE 0)
  <2> DEFINE x == f[b]
             y == g[b]
  <2>1. \A q \in DepositTokens : x[q] \in Int
    BY <1>4
  <2>2. Sum(x, DepositTokens) \in Int
    <3> HIDE DEF x
    <3> QED BY <1>1, <2>1, SumInt
  <2>3. CASE b = a
    <3>1. \A q \in DepositTokens : y[q] = x[q] + (IF q = t THEN n ELSE 0)
      BY <1>3, <1>4, <2>3
    <3>2. Sum(y, DepositTokens) = Sum(x, DepositTokens) + n
      <4> HIDE DEF x, y
      <4> QED BY <1>1, <2>1, <3>1, SumBy
    <3> QED BY <2>2, <2>3, <3>2
  <2>4. CASE b # a
    <3>1. \A q \in DepositTokens : x[q] \in Int /\ y[q] = x[q]
      BY <1>3, <1>4, <2>4
    <3>2. Sum(y, DepositTokens) = Sum(x, DepositTokens)
      <4> HIDE DEF x, y
      <4> QED BY <1>1, <3>1, SumSame
    <3> QED BY <2>2, <2>4, <3>2
  <2> QED BY <2>3, <2>4
<1> HIDE DEF F, G
<1>6. /\ \A b \in Accounts : F[b] \in Int
      /\ \A b \in Accounts : G[b] = F[b] + (IF b = a THEN n ELSE 0)
  BY <1>5
<1>7. Sum(G, Accounts) = Sum(F, Accounts) + n
  BY <1>1, <1>6, SumBy
<1> QED BY <1>7 DEF InWallets, F, G

LEMMA InWalletsInt ==
    ASSUME NEW f \in [Accounts -> PerToken]
    PROVE  InWallets(f) \in Nat
<1> DEFINE F == [b \in Accounts |-> Sum(f[b], DepositTokens)]
<1>1. IsFiniteSet(Accounts) /\ IsFiniteSet(DepositTokens)
  BY TrackerAssumption
<1>2. \A b \in Accounts : F[b] \in Nat
  <2> TAKE b \in Accounts
  <2> DEFINE x == f[b]
  <2>1. \A q \in DepositTokens : x[q] \in Nat
    BY DEF PerToken
  <2>2. Sum(x, DepositTokens) \in Nat
    <3> HIDE DEF x
    <3> QED BY <1>1, <2>1, SumNat
  <2> QED BY <2>2
<1> HIDE DEF F
<1>3. Sum(F, Accounts) \in Nat
  BY <1>1, <1>2, SumNat
<1> QED BY <1>3 DEF InWallets, F

\* The history's unit is a multiple of the supply.
LEMMA UnitDivided ==
    ASSUME NEW s, Typed(s), Conserved(s), s.totalSupply # 0
    PROVE  /\ ShareUnit \div s.totalSupply \in Nat
           /\ ShareUnit = s.totalSupply * (ShareUnit \div s.totalSupply)
<1> DEFINE n == s.totalSupply
           all == InWallets(s.wallets)
<1>1. n \in Nat \ {0} /\ s.wallets \in [Accounts -> PerToken] /\ ShareUnit \in Nat
  BY TrackerAssumption DEF Typed, TrackerState
<1>3. all \in Nat
  BY <1>1, InWalletsInt
<1>4. n + all = TotalHoldings
  BY DEF Conserved
<1> HIDE DEF n, all
<1>5. n \in 1..TotalHoldings
  BY <1>1, <1>3, <1>4
<1>6. ShareUnit % n = 0
  BY <1>5, ShareUnitAssumption
<1>7. ShareUnit \div n \in Nat /\ ShareUnit % n = ShareUnit - n * (ShareUnit \div n)
  BY <1>1, Quotient
<1>8. n * (ShareUnit \div n) \in Nat
  BY <1>1, <1>7
<1> QED BY <1>1, <1>6, <1>7, <1>8 DEF n

\* A distribution D is G for every one of n shares and a rest smaller than n: an
\* exact share is the stake's gain and its part of the rest.
LEMMA ExactShare ==
    ASSUME NEW P \in Nat, NEW U \in Nat, NEW n \in Nat, NEW k \in Nat, U = n * k,
           NEW D \in Nat, NEW G \in Nat, NEW rest \in Nat, D * P = n * G + rest, rest < n,
           NEW st \in Nat
    PROVE  \E part \in Nat :
              /\ P * (D * st * k) = U * (st * G) + part
              /\ part <= U * st
              /\ rest = 0 => part = 0
<1> DEFINE m == st * k
           part == m * rest
<1>1. m \in Nat
  OBVIOUS
<1>2. P * (D * st * k) = (D * P) * m
  OBVIOUS
<1>3. U * st = n * m
  OBVIOUS
<1>4. U * (st * G) = (n * G) * m
  OBVIOUS
<1> HIDE DEF m
<1>5. (n * G + rest) * m = (n * G) * m + m * rest
  BY <1>1
<1>6. m * rest \in Nat
  BY <1>1
<1>7. m * rest <= n * m
  <2>1. m * (n - rest) \in Nat /\ m * (n - rest) = m * n - m * rest /\ m * n = n * m
    <3>1. n - rest \in Nat
      OBVIOUS
    <3>2. m * (n - rest) = m * n - m * rest
      BY <1>1
    <3> QED BY <1>1, <3>1, <3>2
  <2>2. m * n \in Nat
    BY <1>1
  <2> QED BY <1>6, <2>1, <2>2
<1>8. rest = 0 => m * rest = 0
  BY <1>1
<1>9. P * (D * st * k) = U * (st * G) + part
  BY <1>2, <1>4, <1>5
<1> QED BY <1>3, <1>6, <1>7, <1>8, <1>9

\* Sharing out keeps everybody's account fair.
LEMMA SharedFair ==
    ASSUME NEW s, Typed(s), Conserved(s), Fair(s)
    PROVE  Fair(SharedOut(s)) /\ Conserved(SharedOut(s))
<1> DEFINE sh == SharedOut(s)
           n == s.totalSupply
           k == ShareUnit \div n
           D == Distribution(s)
           G == Gain(s)
<1>1. /\ sh \in TrackerState /\ G \in Nat /\ D \in Nat
      /\ sh.cumulativeRewardPerToken = s.cumulativeRewardPerToken + G
      /\ sh.previousCumulatedRewardPerToken = s.previousCumulatedRewardPerToken
      /\ sh.claimableReward = s.claimableReward /\ sh.claimed = s.claimed
      /\ sh.stakedAmounts = s.stakedAmounts /\ sh.roundings = s.roundings
      /\ sh.fairShare = SharesGiven(s) /\ sh.lost = StakesLost(s)
      /\ sh.totalSupply = n /\ sh.wallets = s.wallets
  BY SharedFields, GainNat, DistributionNat
<1>2. PRECISION \in Nat \ {0} /\ ShareUnit \in Nat /\ n \in Nat
  BY TrackerAssumption DEF Typed, TrackerState
<1>3. Conserved(sh)
  BY <1>1 DEF Conserved
<1>4. ASSUME NEW a \in Accounts
      PROVE  FairFor(sh, a)
  <2> DEFINE st == s.stakedAmounts[a]
             h == Have(s, a)
             h2 == Have(sh, a)
             e == s.fairShare[a]
             e2 == sh.fairShare[a]
             r == s.roundings[a]
             l == s.lost[a]
             l2 == sh.lost[a]
  <2>1. /\ st \in Nat /\ e \in Int /\ r \in Nat /\ l \in Nat
        /\ s.claimed[a] \in Nat /\ s.claimableReward[a] \in Nat
        /\ s.cumulativeRewardPerToken - s.previousCumulatedRewardPerToken[a] \in Nat
    BY DEF Typed, TrackerState
  <2>2. Unrounded(sh, a) = Unrounded(s, a) + st * G /\ Unrounded(s, a) \in Nat
    <3> DEFINE gone == s.cumulativeRewardPerToken - s.previousCumulatedRewardPerToken[a]
    <3>1. /\ Unrounded(s, a) = st * gone /\ gone \in Nat
      BY <2>1 DEF Unrounded
    <3>2. s.cumulativeRewardPerToken \in Nat /\ s.previousCumulatedRewardPerToken[a] \in Nat
      BY DEF Typed, TrackerState
    <3>3. sh.cumulativeRewardPerToken - sh.previousCumulatedRewardPerToken[a] = gone + G
      BY <1>1, <3>2
    <3>4. Unrounded(sh, a) = st * (gone + G)
      BY <1>1, <3>3 DEF Unrounded
    <3> HIDE DEF gone, st, G
    <3> QED BY <1>1, <2>1, <3>1, <3>4
  <2>3. h \in Int /\ h2 = h + ShareUnit * (st * G)
    <3> DEFINE got == PRECISION * (ShareUnit * (s.claimed[a] + s.claimableReward[a]))
               x == Unrounded(s, a)
               y == st * G
    <3>1. h = got + ShareUnit * x /\ h2 = got + ShareUnit * (x + y)
      BY <1>1, <2>2 DEF Have
    <3>2. got \in Int /\ x \in Int /\ y \in Int
      BY <1>1, <1>2, <2>1, <2>2
    <3> HIDE DEF got, x, y, h, h2
    <3>3. ShareUnit * (x + y) = ShareUnit * x + ShareUnit * y
      BY <1>2, <3>2
    <3>4. ShareUnit * x \in Int /\ ShareUnit * y \in Int
      BY <1>2, <3>2
    <3>5. h \in Int /\ h2 = h + ShareUnit * y
      BY <3>1, <3>2, <3>3, <3>4
    <3> QED BY <3>5 DEF y
  <2>4. /\ h <= PRECISION * e
        /\ PRECISION * e <= h + PRECISION * ShareUnit * r + ShareUnit * l
    BY DEF Fair, FairFor
  <2>5. \E part \in Nat :
           /\ PRECISION * e2 = PRECISION * e + ShareUnit * (st * G) + part
           /\ part <= ShareUnit * (l2 - l) /\ l2 \in Nat
    <3>1. CASE n = 0
      <4>1. e2 = e /\ l2 = l /\ G = 0
        BY <1>1, <3>1 DEF SharesGiven, StakesLost, Gain
      <4> HIDE DEF st, e, e2, l, l2, G
      <4>2. ShareUnit * (st * G) = 0 /\ ShareUnit * (l2 - l) = 0 /\ PRECISION * e \in Int
        BY <1>2, <2>1, <4>1
      <4>3. PRECISION * e2 = PRECISION * e + ShareUnit * (st * G) + 0
        BY <4>1, <4>2
      <4> QED BY <2>1, <4>1, <4>2, <4>3
    <3>2. CASE n # 0
      <4> DEFINE rest == (D * PRECISION) % n
      <4>1. k \in Nat /\ ShareUnit = n * k
        BY <3>2, UnitDivided
      <4>2. /\ e2 = e + D * st * k
            /\ l2 = l + IF rest = 0 THEN 0 ELSE st
        BY <1>1, <3>2 DEF SharesGiven, StakesLost
      <4>3. G = (D * PRECISION) \div n
        BY <3>2 DEF Gain
      <4> HIDE DEF D, G, k, n, st, e, e2, l, l2, rest
      <4>4. D * PRECISION \in Nat /\ n \in Nat \ {0}
        BY <1>1, <1>2, <3>2
      <4>5. rest \in Nat /\ rest < n /\ D * PRECISION = n * G + rest
        <5> DEFINE x == D * PRECISION
                   q == x \div n
        <5>1. x \in Nat
          BY <4>4
        <5> HIDE DEF x
        <5>2. x % n \in Nat /\ x % n < n /\ x % n = x - n * (x \div n) /\ x \div n \in Nat
          BY <4>4, <5>1, Quotient
        <5> HIDE DEF q
        <5>3. q \in Nat /\ x % n = x - n * q
          BY <5>2 DEF q
        <5>4. n * q \in Nat
          BY <4>4, <5>3
        <5>5. x = n * q + (x % n)
          BY <5>1, <5>2, <5>3, <5>4
        <5> QED BY <4>3, <5>2, <5>5 DEF x, q, rest
      <4>6. PICK part \in Nat :
               /\ PRECISION * (D * st * k) = ShareUnit * (st * G) + part
               /\ part <= ShareUnit * st
               /\ rest = 0 => part = 0
        BY <1>1, <1>2, <2>1, <4>1, <4>4, <4>5, ExactShare
      <4>7. PRECISION * e2 = PRECISION * e + PRECISION * (D * st * k)
        <5> DEFINE z == D * st * k
        <5>1. z \in Int
          BY <1>1, <2>1, <4>1
        <5> HIDE DEF z
        <5>2. PRECISION * (e + z) = PRECISION * e + PRECISION * z
          BY <1>2, <2>1, <5>1
        <5> QED BY <4>2, <5>2 DEF z
      <4>8. part <= ShareUnit * (l2 - l) /\ l2 \in Nat
        <5>1. CASE rest = 0
          <6>1. l2 = l /\ part = 0
            BY <2>1, <4>2, <4>6, <5>1
          <6>2. ShareUnit * (l2 - l) = 0
            BY <1>2, <2>1, <6>1
          <6> QED BY <2>1, <6>1, <6>2
        <5>2. CASE rest # 0
          <6>1. l2 = l + st
            BY <4>2, <5>2
          <6>2. l2 - l = st
            BY <2>1, <6>1
          <6> QED BY <2>1, <4>6, <6>1, <6>2
        <5> QED BY <5>1, <5>2
      <4>9. PRECISION * e2 = PRECISION * e + ShareUnit * (st * G) + part
        <5> DEFINE w == ShareUnit * (st * G)
        <5>1. w \in Int
          BY <1>1, <1>2, <2>1
        <5>2. PRECISION * e \in Int
          BY <1>2, <2>1
        <5> HIDE DEF w
        <5>3. PRECISION * e + (w + part) = PRECISION * e + w + part
          BY <5>1, <5>2
        <5> QED BY <4>6, <4>7, <5>3 DEF w
      <4> QED BY <4>8, <4>9
    <3> QED BY <3>1, <3>2
  <2> DEFINE gain == ShareUnit * (st * G)
             pe == PRECISION * e
             pe2 == PRECISION * e2
             ur == PRECISION * ShareUnit * r
             ul == ShareUnit * l
             ul2 == ShareUnit * l2
  <2>6. PICK part \in Nat : /\ pe2 = pe + gain + part
                            /\ part <= ShareUnit * (l2 - l) /\ l2 \in Nat
    BY <2>5
  <2>7. /\ gain \in Nat /\ pe \in Int /\ ur \in Int /\ ul \in Int /\ ul2 \in Int
    BY <1>1, <1>2, <2>1, <2>6
  <2>8. ShareUnit * (l2 - l) = ul2 - ul
    <3> HIDE DEF l, l2
    <3> QED BY <1>2, <2>1, <2>6
  <2> HIDE DEF gain, pe, pe2, ur, ul, ul2, h, h2
  <2>9. h2 = h + gain /\ h \in Int /\ h <= pe /\ pe <= h + ur + ul
    BY <2>3, <2>4 DEF gain, pe, ur, ul
  <2>10. part <= ul2 - ul
    BY <2>6, <2>8
  <2>11. h2 <= pe2 /\ pe2 <= h2 + ur + ul2
    BY <2>6, <2>7, <2>9, <2>10
  <2> QED BY <1>1, <2>11 DEF FairFor, h2, pe2, ur, ul2
<1> QED BY <1>3, <1>4 DEF Fair

\* What an account's fairness depends on.
SameHistories(s, r) ==
    /\ r.claimed = s.claimed /\ r.fairShare = s.fairShare
    /\ r.roundings = s.roundings /\ r.lost = s.lost

LEMMA FairKept ==
    ASSUME NEW s, NEW r, NEW b \in Accounts, FairFor(s, b), SameHistories(s, r),
           r.claimableReward = s.claimableReward, Unrounded(r, b) = Unrounded(s, b)
    PROVE  FairFor(r, b)
BY DEF FairFor, Have, SameHistories

\* A reward recorded takes its whole tokens from what the stake has earned, and
\* leaves out less than one, which is what a rounding allows for.
LEMMA UpdateFair ==
    ASSUME NEW s, Typed(s), Conserved(s), Fair(s), NEW a \in Accounts \cup {NoAccount}
    PROVE  Fair(UpdatedRewards(s, a)) /\ Conserved(UpdatedRewards(s, a))
<1> DEFINE u == UpdatedRewards(s, a)
           sh == SharedOut(s)
<1>1. Fair(sh) /\ Conserved(sh) /\ Typed(sh)
  BY SharedFair, SharedTyped
<1>2. CASE a = NoAccount
  <2>1. u = sh
    BY <1>2 DEF UpdatedRewards
  <2> HIDE DEF u, sh
  <2> QED BY <1>1, <2>1 DEF u
<1>3. CASE a \in Accounts
  <2> DEFINE n == Reward(s, a)
             more == IF Rounds(sh, a) THEN sh.roundings[a] + 1 ELSE sh.roundings[a]
  <2>1. /\ SameStakes(s, u) /\ SameStakes(s, sh)
        /\ u.claimableReward = [s.claimableReward EXCEPT ![a] = @ + n]
        /\ u.previousCumulatedRewardPerToken =
             [s.previousCumulatedRewardPerToken EXCEPT ![a] = sh.cumulativeRewardPerToken]
        /\ u.cumulativeRewardPerToken = sh.cumulativeRewardPerToken
        /\ u.claimed = sh.claimed /\ u.fairShare = sh.fairShare /\ u.lost = sh.lost
        /\ u.roundings = [sh.roundings EXCEPT ![a] = more]
        /\ sh.claimableReward = s.claimableReward
        /\ sh.previousCumulatedRewardPerToken = s.previousCumulatedRewardPerToken
    <3>1. /\ SameStakes(s, sh) /\ sh.claimableReward = s.claimableReward
          /\ sh.previousCumulatedRewardPerToken = s.previousCumulatedRewardPerToken
          /\ sh.roundings = s.roundings
      BY SharedFields DEF SameStakes
    <3>2. /\ u.roundings = [s.roundings EXCEPT ![a] = IF Rounds(sh, a) THEN @ + 1 ELSE @]
          /\ u.claimed = sh.claimed /\ u.fairShare = sh.fairShare /\ u.lost = sh.lost
      BY <1>3, UpdateHistories
    <3>3. u.roundings = [sh.roundings EXCEPT ![a] = more]
      <4> HIDE DEF u, sh
      <4> QED BY <3>1, <3>2
    <3>4. /\ SameStakes(s, u)
          /\ u.claimableReward = [s.claimableReward EXCEPT ![a] = @ + n]
          /\ u.previousCumulatedRewardPerToken =
               [s.previousCumulatedRewardPerToken EXCEPT ![a] = sh.cumulativeRewardPerToken]
          /\ u.cumulativeRewardPerToken = sh.cumulativeRewardPerToken
      BY <1>3, UpdateFields
    <3> HIDE DEF u, sh, n, more
    <3> QED BY <3>1, <3>2, <3>3, <3>4
  <2>2. /\ s.claimableReward \in [Accounts -> Nat]
        /\ s.previousCumulatedRewardPerToken \in [Accounts -> Nat]
        /\ sh.roundings \in [Accounts -> Nat]
        /\ \A b \in Accounts : /\ sh.claimed[b] \in Nat /\ sh.fairShare[b] \in Int
                               /\ sh.lost[b] \in Nat /\ sh.roundings[b] \in Nat
                               /\ sh.stakedAmounts[b] \in Nat
        /\ sh.cumulativeRewardPerToken \in Nat
    <3>1. sh \in TrackerState
      BY <1>1 DEF Typed
    <3>2. s.claimableReward \in [Accounts -> Nat] /\ s.previousCumulatedRewardPerToken \in [Accounts -> Nat]
      BY DEF Typed, TrackerState
    <3> HIDE DEF sh
    <3> QED BY <3>1, <3>2 DEF TrackerState
  <2>3. Conserved(u)
    BY <1>1, <2>1 DEF Conserved, SameStakes
  <2>4. ASSUME NEW b \in Accounts \ {a}
        PROVE  FairFor(u, b)
    <3>1. /\ u.claimableReward[b] = sh.claimableReward[b]
          /\ u.roundings[b] = sh.roundings[b]
          /\ u.previousCumulatedRewardPerToken[b] = sh.previousCumulatedRewardPerToken[b]
      BY <2>1, <2>2
    <3>2. Unrounded(u, b) = Unrounded(sh, b)
      BY <2>1, <3>1 DEF Unrounded, SameStakes
    <3>3. FairFor(sh, b)
      BY <1>1 DEF Fair
    <3> QED BY <2>1, <3>1, <3>2, <3>3 DEF FairFor, Have
  <2>5. FairFor(u, a)
    <3> DEFINE U == ShareUnit
               P == PRECISION
               x == Unrounded(sh, a)
               r == x % P
               got == sh.claimed[a] + s.claimableReward[a]
               pe == P * sh.fairShare[a]
               ul == U * sh.lost[a]
               times == sh.roundings[a]
               times2 == u.roundings[a]
    <3>1. P \in Nat \ {0} /\ U \in Nat \ {0}
      BY TrackerAssumption
    <3>2. /\ x \in Nat /\ n \in Nat
          /\ n = x \div P
      BY <1>1, <1>3, RewardNat DEF Reward, AccountReward
    <3>3. Unrounded(u, a) = 0
      <4>1. u.cumulativeRewardPerToken - u.previousCumulatedRewardPerToken[a] = 0
        BY <1>3, <2>1, <2>2
      <4>2. u.stakedAmounts[a] \in Nat
        BY <1>3, <2>1, <2>2 DEF SameStakes
      <4> QED BY <4>1, <4>2 DEF Unrounded
    <3>4. /\ u.claimableReward[a] = s.claimableReward[a] + n
          /\ times2 = times + IF r = 0 THEN 0 ELSE 1
      BY <1>3, <2>1, <2>2 DEF Rounds
    <3>5. r \in Nat /\ r < P /\ r = x - P * n
      <4> HIDE DEF x, P, n
      <4> QED BY <3>1, <3>2, Quotient
    <3>6. FairFor(sh, a)
      BY <1>1, <1>3 DEF Fair
    <3>7. Have(sh, a) = P * (U * got) + U * x
      BY <2>1 DEF Have
    <3>8. Have(u, a) = P * (U * (got + n)) + U * 0
      <4>1. u.claimed[a] + u.claimableReward[a] = got + n
        BY <1>3, <2>1, <2>2, <3>2, <3>4
      <4> QED BY <3>3, <4>1 DEF Have
    <3>9. got \in Nat /\ times \in Nat /\ pe \in Int /\ ul \in Int
      BY <1>3, <2>2, <3>1
    <3>10. /\ Have(sh, a) <= pe /\ pe <= Have(sh, a) + P * U * times + ul
      BY <3>6 DEF FairFor
    <3> DEFINE h == Have(sh, a)
               h2 == Have(u, a)
               ur == P * U * times
               ur2 == P * U * times2
    <3> HIDE DEF U, P, x, r, got, pe, ul, times, times2, n, u, sh
    <3>11. /\ P * (U * (got + n)) = P * (U * got) + U * (P * n)
           /\ P * (U * got) \in Int /\ U * (P * n) \in Int /\ U * 0 = 0
           /\ U * x \in Int /\ U * r \in Int /\ P * n \in Int
      BY <3>1, <3>2, <3>5, <3>9
    <3>12. U * r = U * x - U * (P * n)
      <4> DEFINE y == P * n
      <4>1. y \in Int /\ r = x - y
        BY <3>5, <3>11
      <4> HIDE DEF y
      <4>2. U * (x - y) = U * x - U * y
        BY <3>1, <3>2, <4>1
      <4> QED BY <4>1, <4>2 DEF y
    <3>13. h2 = h - U * r /\ h \in Int
      <4> HIDE DEF h, h2
      <4>1. h = P * (U * got) + U * x /\ h2 = P * (U * got) + U * (P * n)
        BY <3>7, <3>8, <3>11 DEF h, h2
      <4> QED BY <3>11, <3>12, <4>1
    <3>14. ur \in Int /\ ur2 \in Int /\ U * r >= 0 /\ U * r <= ur2 - ur
      <4>1. CASE r = 0
        <5>1. times2 = times /\ U * r = 0
          BY <3>1, <3>4, <3>9, <4>1
        <5>2. ur2 = ur /\ ur \in Int
          BY <3>1, <3>9, <5>1
        <5> HIDE DEF ur, ur2
        <5> QED BY <5>1, <5>2
      <4>2. CASE r # 0
        <5>1. times2 = times + 1 /\ times \in Nat
          BY <3>4, <3>9, <4>2
        <5>2. P * U \in Nat
          BY <3>1
        <5>3. ur2 = ur + P * U /\ ur \in Int
          <6> DEFINE y == P * U
          <6>1. y \in Nat
            BY <5>2
          <6> HIDE DEF y
          <6>2. y * (times + 1) = y * times + y /\ y * times \in Int
            BY <5>1, <6>1
          <6> QED BY <5>1, <6>2 DEF y
        <5>4. U * r <= U * P /\ U * P = P * U /\ U * r >= 0
          BY <3>1, <3>5
        <5> HIDE DEF ur, ur2
        <5> QED BY <3>11, <5>2, <5>3, <5>4
      <4> QED BY <4>1, <4>2
    <3>15. h <= pe /\ pe <= h + ur + ul
      BY <3>10
    <3> HIDE DEF h, h2, ur, ur2
    <3>16. h2 <= pe /\ pe <= h2 + ur2 + ul
      BY <3>9, <3>11, <3>13, <3>14, <3>15
    <3>17. u.fairShare[a] = sh.fairShare[a] /\ u.lost[a] = sh.lost[a]
      BY <2>1
    <3> QED BY <3>16, <3>17 DEF FairFor, h2, pe, ur2, ul, P, U, times2
  <2> QED BY <2>3, <2>4, <2>5 DEF Fair
<1> QED BY <1>2, <1>3

FairState(s) == Sound(s) /\ Fair(s) /\ Conserved(s)

\* The account whose stake changes has been brought up to date: nothing it has
\* earned depends on the stake.
LEMMA StakeByFair ==
    ASSUME NEW u, FairState(u), NEW r, NEW a \in Accounts, NEW t \in DepositTokens,
           NEW n \in Int, StakeBy(u, r, a, t, n), r \in TrackerState,
           u.previousCumulatedRewardPerToken[a] = u.cumulativeRewardPerToken,
           SameHistories(u, r), r.claimableReward = u.claimableReward,
           r.previousCumulatedRewardPerToken = u.previousCumulatedRewardPerToken,
           r.cumulativeRewardPerToken = u.cumulativeRewardPerToken
    PROVE  Fair(r)
<1> SUFFICES ASSUME NEW b \in Accounts PROVE FairFor(r, b)
  BY DEF Fair
<1>1. u \in TrackerState /\ FairFor(u, b)
  BY DEF FairState, Sound, Typed, Fair
<1>2. Unrounded(r, b) = Unrounded(u, b)
  <2>1. CASE b = a
    <3>1. /\ u.cumulativeRewardPerToken - u.previousCumulatedRewardPerToken[a] = 0
          /\ u.stakedAmounts[a] \in Nat /\ r.stakedAmounts[a] \in Nat
      BY <1>1 DEF TrackerState
    <3>2. Unrounded(u, a) = 0 /\ Unrounded(r, a) = 0
      BY <3>1 DEF Unrounded
    <3> QED BY <2>1, <3>2
  <2>2. CASE b # a
    <3>1. r.stakedAmounts[b] = u.stakedAmounts[b]
      BY <1>1, <2>2 DEF StakeBy, TrackerState
    <3> QED BY <3>1 DEF Unrounded
  <2> QED BY <2>1, <2>2
<1> QED BY <1>1, <1>2, FairKept

LEMMA UpdateFairState ==
    ASSUME NEW s, FairState(s), NEW a \in Accounts \cup {NoAccount}
    PROVE  FairState(UpdatedRewards(s, a)) /\ SameStakes(s, UpdatedRewards(s, a))
<1>1. Typed(s) /\ Sound(s) /\ Fair(s) /\ Conserved(s)
  BY DEF FairState, Sound
<1> QED BY <1>1, UpdateSound, UpdateFair DEF FairState

\* What is staked leaves a wallet, after the account's rewards were settled.
LEMMA StakedFair ==
    ASSUME NEW s, FairState(s), NEW funding \in Accounts, NEW a \in Accounts,
           NEW t \in DepositTokens, NEW amount \in Nat, CanStake(s, funding, a, t, amount)
    PROVE  FairState(Staked(s, funding, a, t, amount))
<1> DEFINE u == UpdatedRewards(s, a)
           r == Staked(s, funding, a, t, amount)
           n == 0 - amount
           w == [u.wallets EXCEPT ![funding][t] = u.wallets[funding][t] + n]
<1>1. /\ FairState(u) /\ SameStakes(s, u) /\ u \in TrackerState
      /\ u.previousCumulatedRewardPerToken[a] = u.cumulativeRewardPerToken
  BY UpdateFairState, MarkMoved DEF FairState, Sound, Typed
<1>2. /\ Sound(r) /\ r \in TrackerState /\ StakeBy(s, r, a, t, amount)
  BY StakedSound DEF FairState, Sound, Typed
<1>3. StakeBy(u, r, a, t, amount)
  BY <1>1, <1>2 DEF StakeBy, SameStakes
<1>4. /\ SameHistories(u, r) /\ r.claimableReward = u.claimableReward
      /\ r.previousCumulatedRewardPerToken = u.previousCumulatedRewardPerToken
      /\ r.cumulativeRewardPerToken = u.cumulativeRewardPerToken
      /\ r.wallets = [u.wallets EXCEPT ![funding][t] = @ - amount]
  BY <1>1 DEF Staked, SameHistories, TrackerState
<1> HIDE DEF u, r
<1>5. Fair(r)
  BY <1>1, <1>2, <1>3, <1>4, StakeByFair
<1>6. Conserved(r)
  <2>1. /\ u.wallets \in [Accounts -> PerToken] /\ u.wallets[funding][t] \in Nat
        /\ u.totalSupply \in Nat
    BY <1>1 DEF TrackerState, PerToken
  <2>2. u.wallets[funding][t] - amount \in Nat
    BY <1>1, <2>1 DEF CanStake, SameStakes
  <2>3. r.wallets = w /\ n \in Int /\ u.wallets[funding][t] + n \in Nat
    <3>1. u.wallets[funding][t] + n = u.wallets[funding][t] - amount /\ n \in Int
      BY <2>1
    <3> QED BY <1>4, <2>1, <2>2, <3>1 DEF PerToken
  <2> HIDE DEF n
  <2>4. InWallets(w) = InWallets(u.wallets) + n
    BY <2>1, <2>3, WalletsBy
  <2> HIDE DEF w
  <2>5. u.totalSupply + InWallets(u.wallets) = TotalHoldings /\ r.totalSupply = u.totalSupply + amount
    BY <1>1, <1>3 DEF FairState, Conserved, StakeBy
  <2>6. InWallets(u.wallets) \in Int
    BY <2>1, InWalletsInt
  <2>7. r.totalSupply + InWallets(r.wallets) = TotalHoldings
    <3> DEFINE x == InWallets(u.wallets)
    <3>1. InWallets(r.wallets) = x + n /\ x \in Int
      BY <2>3, <2>4, <2>6
    <3> HIDE DEF x
    <3> QED BY <2>1, <2>5, <3>1 DEF n, x
  <2> QED BY <2>7 DEF Conserved
<1> QED BY <1>2, <1>5, <1>6 DEF FairState, r

\* What is unstaked reaches a wallet.
LEMMA UnstakedFair ==
    ASSUME NEW s, FairState(s), NEW a \in Accounts, NEW t \in DepositTokens,
           NEW amount \in Nat, NEW receiver \in Accounts, CanUnstake(s, a, t, amount)
    PROVE  FairState(Unstaked(s, a, t, amount, receiver))
<1> DEFINE u == UpdatedRewards(s, a)
           r == Unstaked(s, a, t, amount, receiver)
           n == 0 - amount
           w == [u.wallets EXCEPT ![receiver][t] = u.wallets[receiver][t] + amount]
<1>1. /\ FairState(u) /\ SameStakes(s, u) /\ u \in TrackerState
      /\ u.previousCumulatedRewardPerToken[a] = u.cumulativeRewardPerToken
  BY UpdateFairState, MarkMoved DEF FairState, Sound, Typed
<1>2. /\ Sound(r) /\ r \in TrackerState /\ StakeBy(s, r, a, t, n)
  BY UnstakedSound DEF FairState, Sound, Typed
<1>3. StakeBy(u, r, a, t, n)
  BY <1>1, <1>2 DEF StakeBy, SameStakes
<1>4. /\ SameHistories(u, r) /\ r.claimableReward = u.claimableReward
      /\ r.previousCumulatedRewardPerToken = u.previousCumulatedRewardPerToken
      /\ r.cumulativeRewardPerToken = u.cumulativeRewardPerToken
      /\ r.wallets = [u.wallets EXCEPT ![receiver][t] = @ + amount]
  BY <1>1 DEF Unstaked, SameHistories, TrackerState
<1>n. n \in Int
  OBVIOUS
<1> HIDE DEF u, r, n
<1>5. Fair(r)
  BY <1>1, <1>2, <1>3, <1>4, <1>n, StakeByFair
<1>6. Conserved(r)
  <2>1. /\ u.wallets \in [Accounts -> PerToken] /\ u.wallets[receiver][t] \in Nat
        /\ u.totalSupply \in Nat
    BY <1>1 DEF TrackerState, PerToken
  <2>2. r.wallets = w /\ amount \in Int /\ u.wallets[receiver][t] + amount \in Nat
    BY <1>4, <2>1 DEF PerToken
  <2>3. InWallets(w) = InWallets(u.wallets) + amount
    BY <2>1, <2>2, WalletsBy
  <2> HIDE DEF w
  <2>4. u.totalSupply + InWallets(u.wallets) = TotalHoldings /\ r.totalSupply = u.totalSupply + n
    BY <1>1, <1>3 DEF FairState, Conserved, StakeBy
  <2>5. InWallets(u.wallets) \in Int
    BY <2>1, InWalletsInt
  <2>6. r.totalSupply + InWallets(r.wallets) = TotalHoldings
    <3> DEFINE x == InWallets(u.wallets)
    <3>1. InWallets(r.wallets) = x + amount /\ x \in Int
      BY <2>2, <2>3, <2>5
    <3> HIDE DEF x
    <3> QED BY <2>1, <2>4, <3>1 DEF n, x
  <2> QED BY <2>6 DEF Conserved
<1> QED BY <1>2, <1>5, <1>6 DEF FairState, r

\* A claim moves an account's reward from recorded to paid.
LEMMA ClaimedFair ==
    ASSUME NEW s, FairState(s), NEW a \in Accounts, CanClaim(s, a)
    PROVE  FairState(Claimed(s, a))
<1> DEFINE u == UpdatedRewards(s, a)
           r == Claimed(s, a)
           n == u.claimableReward[a]
<1>1. FairState(u) /\ u \in TrackerState
  BY UpdateFairState DEF FairState, Sound, Typed
<1>2. Sound(r)
  BY ClaimedSound DEF FairState
<1>3. /\ r.claimableReward = [u.claimableReward EXCEPT ![a] = 0]
      /\ r.claimed = [u.claimed EXCEPT ![a] = @ + n]
      /\ r.fairShare = u.fairShare /\ r.roundings = u.roundings /\ r.lost = u.lost
      /\ r.stakedAmounts = u.stakedAmounts
      /\ r.previousCumulatedRewardPerToken = u.previousCumulatedRewardPerToken
      /\ r.cumulativeRewardPerToken = u.cumulativeRewardPerToken
      /\ r.wallets = u.wallets /\ r.totalSupply = u.totalSupply
  BY <1>1 DEF Claimed, Claim, TrackerState
<1>4. u.claimableReward \in [Accounts -> Nat] /\ u.claimed \in [Accounts -> Nat]
  BY <1>1 DEF TrackerState
<1> HIDE DEF r, u
<1>5. ASSUME NEW b \in Accounts
      PROVE  FairFor(r, b)
  <2>1. r.claimed[b] + r.claimableReward[b] = u.claimed[b] + u.claimableReward[b]
    <3>1. CASE b = a
      <4>1. r.claimed[b] = u.claimed[b] + u.claimableReward[b] /\ r.claimableReward[b] = 0
        BY <1>3, <1>4, <3>1
      <4> QED BY <1>4, <4>1
    <3>2. CASE b # a
      BY <1>3, <1>4, <3>2
    <3> QED BY <3>1, <3>2
  <2>2. Unrounded(r, b) = Unrounded(u, b)
    BY <1>3 DEF Unrounded
  <2>3. Have(r, b) = Have(u, b)
    BY <2>1, <2>2 DEF Have
  <2>4. FairFor(u, b)
    BY <1>1 DEF FairState, Fair
  <2> QED BY <1>3, <2>3, <2>4 DEF FairFor
<1>6. Conserved(r)
  BY <1>1, <1>3 DEF FairState, Conserved
<1> QED BY <1>2, <1>5, <1>6 DEF FairState, Fair, r

\* What touches no stake, no reward and no wallet leaves everything fair.
LEMMA QuietFair ==
    ASSUME NEW s, FairState(s), NEW r, Sound(r), SameHistories(s, r),
           r.claimableReward = s.claimableReward, r.stakedAmounts = s.stakedAmounts,
           r.previousCumulatedRewardPerToken = s.previousCumulatedRewardPerToken,
           r.cumulativeRewardPerToken = s.cumulativeRewardPerToken,
           r.wallets = s.wallets, r.totalSupply = s.totalSupply
    PROVE  FairState(r)
<1>1. ASSUME NEW b \in Accounts PROVE FairFor(r, b)
  <2>1. FairFor(s, b)
    BY DEF FairState, Fair
  <2>2. Unrounded(r, b) = Unrounded(s, b)
    BY DEF Unrounded
  <2> QED BY <2>1, <2>2, FairKept
<1>2. Conserved(r)
  BY DEF FairState, Conserved
<1> QED BY <1>1, <1>2 DEF FairState, Fair

\* Moving the clock and changing the rate.
LEMMA RateFair ==
    ASSUME NEW s, FairState(s), NEW rate \in Nat
    PROVE  FairState(TokensPerIntervalSet(LastDistributionTimeUpdated(s), rate))
<1> DEFINE m == LastDistributionTimeUpdated(s)
           u == UpdatedRewards(m, NoAccount)
           r == TokensPerIntervalSet(m, rate)
<1>1. s \in TrackerState /\ Sound(s) /\ now \in Nat
  BY DEF FairState, Sound, Typed
<1>2. Sound(m)
  BY <1>1, ClockSound
<1>3. FairState(m)
  <2>1. /\ SameHistories(s, m)
        /\ m.claimableReward = s.claimableReward /\ m.stakedAmounts = s.stakedAmounts
        /\ m.previousCumulatedRewardPerToken = s.previousCumulatedRewardPerToken
        /\ m.cumulativeRewardPerToken = s.cumulativeRewardPerToken
        /\ m.wallets = s.wallets /\ m.totalSupply = s.totalSupply
    BY <1>1 DEF LastDistributionTimeUpdated, SameHistories, TrackerState
  <2> HIDE DEF m
  <2> QED BY <1>2, <2>1, QuietFair
<1>4. FairState(u) /\ u \in TrackerState
  BY <1>3, UpdateFairState DEF FairState, Sound, Typed
<1>5. Sound(r)
  BY <1>1, RateSound
<1>6. /\ SameHistories(u, r)
      /\ r.claimableReward = u.claimableReward /\ r.stakedAmounts = u.stakedAmounts
      /\ r.previousCumulatedRewardPerToken = u.previousCumulatedRewardPerToken
      /\ r.cumulativeRewardPerToken = u.cumulativeRewardPerToken
      /\ r.wallets = u.wallets /\ r.totalSupply = u.totalSupply
  BY <1>4 DEF TokensPerIntervalSet, SameHistories, TrackerState
<1> HIDE DEF m, u, r
<1>7. FairState(r)
  BY <1>4, <1>5, <1>6, QuietFair
<1> QED BY <1>7 DEF r, m

FairInvariant == FairState(tracker)

\* A call takes the tracker to a state that is fair.
LEMMA FairCall ==
    ASSUME NEW x, FairState(x), tracker' = x, now' = now
    PROVE  FairInvariant'
<1>1. Fair(x) /\ Conserved(x) /\ Invariant'
  BY CallKeeps DEF FairState
<1>2. Fair(tracker)' /\ Conserved(tracker)'
  BY <1>1 DEF Fair, FairFor, Have, Unrounded, Conserved, InWallets
<1> QED BY <1>1, <1>2 DEF FairInvariant, FairState, Invariant

LEMMA FairAccountCall ==
    ASSUME FairInvariant, AccountCall(Accounts)
    PROVE  FairInvariant'
<1>1. /\ FairState(tracker) /\ Sound(tracker) /\ tracker \in TrackerState /\ now' = now
      /\ Amounts \subseteq Nat /\ Brrr \in DepositTokens
  BY TrackerAssumption DEF FairInvariant, FairState, AccountCall, Sound, Typed
<1>2. ASSUME NEW a \in Accounts, NEW t \in DepositTokens, NEW amount \in Nat,
             Stake(a, t, amount)
      PROVE  FairInvariant'
  <2>1. FairState(Staked(tracker, a, a, t, amount))
    BY <1>1, <1>2, StakedFair DEF Stake
  <2> QED BY <1>1, <1>2, <2>1, FairCall DEF Stake
<1>3. ASSUME NEW a \in Accounts, NEW t \in DepositTokens, NEW amount \in Nat,
             Unstake(a, t, amount, a)
      PROVE  FairInvariant'
  <2>1. FairState(Unstaked(tracker, a, t, amount, a))
    BY <1>1, <1>3, UnstakedFair DEF Unstake
  <2> QED BY <1>1, <1>3, <2>1, FairCall DEF Unstake
<1>4. ASSUME NEW sender \in Accounts, NEW recipient \in Accounts, NEW amount \in Nat,
             TransferStaked(sender, recipient, amount)
      PROVE  FairInvariant'
  <2> DEFINE m == Unstaked(tracker, sender, Brrr, amount, sender)
             r == Staked(m, sender, recipient, Brrr, amount)
  <2>1. /\ CanUnstake(tracker, sender, Brrr, amount)
        /\ CanStake(m, sender, recipient, Brrr, amount)
        /\ tracker' = r
    BY <1>4 DEF TransferStaked, CanTransferStaked, StakeTransferred
  <2>2. FairState(m)
    BY <1>1, <2>1, UnstakedFair
  <2> HIDE DEF m
  <2>3. FairState(r)
    BY <1>1, <2>1, <2>2, StakedFair
  <2> HIDE DEF r
  <2> QED BY <1>1, <2>1, <2>3, FairCall
<1>5. ASSUME NEW sender \in Accounts, NEW recipient \in Accounts, NEW amount \in Nat,
             Transfer(sender, recipient, amount)
      PROVE  FairInvariant'
  <2> DEFINE r == SharesMoved(tracker, sender, recipient, amount)
  <2>1. Sound(r) /\ tracker' = r
    BY <1>1, <1>5, MovedSound DEF Transfer
  <2>2. /\ SameHistories(tracker, r)
        /\ r.claimableReward = tracker.claimableReward
        /\ r.stakedAmounts = tracker.stakedAmounts
        /\ r.previousCumulatedRewardPerToken = tracker.previousCumulatedRewardPerToken
        /\ r.cumulativeRewardPerToken = tracker.cumulativeRewardPerToken
        /\ r.wallets = tracker.wallets /\ r.totalSupply = tracker.totalSupply
    BY <1>1 DEF SharesMoved, SameHistories, TrackerState
  <2> HIDE DEF r
  <2>3. FairState(r)
    BY <1>1, <2>1, <2>2, QuietFair
  <2> QED BY <1>1, <2>1, <2>3, FairCall
<1>6. ASSUME NEW a \in Accounts, ClaimReward(a)
      PROVE  FairInvariant'
  <2>1. FairState(Claimed(tracker, a))
    BY <1>1, <1>6, ClaimedFair DEF ClaimReward
  <2> QED BY <1>1, <1>6, <2>1, FairCall DEF ClaimReward
<1>7. CASE UpdateRewards
  <2>1. FairState(UpdatedRewards(tracker, NoAccount))
    BY <1>1, UpdateFairState
  <2> QED BY <1>1, <1>7, <2>1, FairCall DEF UpdateRewards
<1>8. CASE \E a \in Accounts, t \in DepositTokens, amount \in Amounts :
              Stake(a, t, amount) \/ Unstake(a, t, amount, a)
  BY <1>1, <1>2, <1>3, <1>8
<1>9. CASE \E sender \in Accounts, recipient \in Accounts, amount \in Amounts :
              TransferStaked(sender, recipient, amount) \/ Transfer(sender, recipient, amount)
  BY <1>1, <1>4, <1>5, <1>9
<1> QED BY <1>6, <1>7, <1>8, <1>9 DEF AccountCall

LEMMA FairAdminCall ==
    ASSUME FairInvariant, AdminCall
    PROVE  FairInvariant'
<1>1. /\ FairState(tracker) /\ Sound(tracker) /\ tracker \in TrackerState /\ now' = now
      /\ Rates \subseteq Nat
  BY TrackerAssumption DEF FairInvariant, FairState, AdminCall, Sound, Typed
<1>2. CASE \E rate \in Rates : SetDistributorRewards(rate)
  <2>1. PICK rate \in Nat : SetDistributorRewards(rate)
    BY <1>1, <1>2
  <2>2. FairState(TokensPerIntervalSet(LastDistributionTimeUpdated(tracker), rate))
    BY <1>1, RateFair
  <2> QED BY <1>1, <2>1, <2>2, FairCall DEF SetDistributorRewards
<1>3. CASE ~ \E rate \in Rates : SetDistributorRewards(rate)
  <2> DEFINE r == tracker'
  <2>1. Sound(r)
    <3>1. Invariant'
      BY <1>1, AdminCallKeeps DEF Invariant
    <3>2. Invariant' => Sound(r)
      <4>1. /\ Typed(tracker)' => Typed(r)
            BY <1>1 DEF Typed, StakeSums, Marked
      <4>2. Backed(tracker)' => Backed(r)
        BY DEF Backed, Owed, Unrounded
      <4>3. Scheduled(tracker)' => Scheduled(r)
        BY <1>1 DEF Scheduled, PendingRewards
      <4> QED BY <4>1, <4>2, <4>3 DEF Invariant, Sound
    <3> QED BY <3>1, <3>2
  <2>2. /\ SameHistories(tracker, r)
        /\ r.claimableReward = tracker.claimableReward
        /\ r.stakedAmounts = tracker.stakedAmounts
        /\ r.previousCumulatedRewardPerToken = tracker.previousCumulatedRewardPerToken
        /\ r.cumulativeRewardPerToken = tracker.cumulativeRewardPerToken
        /\ r.wallets = tracker.wallets /\ r.totalSupply = tracker.totalSupply
    <3>1. CASE \E t \in DepositTokens, isDeposit \in DepositSettings :
                  SetDepositToken(t, isDeposit)
      BY <1>1, <3>1 DEF SetDepositToken, SameHistories, TrackerState
    <3>2. CASE \E amount \in Fundings : WithdrawToken(amount) \/ Fund(amount)
      BY <1>1, <3>2 DEF WithdrawToken, Fund, SameHistories, TrackerState
    <3> QED BY <1>3, <3>1, <3>2 DEF AdminCall
  <2> HIDE DEF r
  <2>3. FairState(r)
    BY <1>1, <2>1, <2>2, QuietFair
  <2> QED BY <1>1, <2>3, FairCall DEF r
<1> QED BY <1>2, <1>3

LEMMA FairTick ==
    ASSUME FairInvariant, Tick
    PROVE  FairInvariant'
<1>1. FairState(tracker) /\ Invariant /\ tracker \in TrackerState
  BY DEF FairInvariant, FairState, Invariant, Sound, Typed
<1>2. Invariant'
  BY <1>1, TickKeeps
<1>3. /\ SameHistories(tracker, tracker')
      /\ tracker'.claimableReward = tracker.claimableReward
      /\ tracker'.stakedAmounts = tracker.stakedAmounts
      /\ tracker'.previousCumulatedRewardPerToken = tracker.previousCumulatedRewardPerToken
      /\ tracker'.cumulativeRewardPerToken = tracker.cumulativeRewardPerToken
      /\ tracker'.wallets = tracker.wallets /\ tracker'.totalSupply = tracker.totalSupply
  BY <1>1 DEF Tick, SameHistories, TrackerState
<1>4. Fair(tracker)'
  <2>1. Fair(tracker)
    BY <1>1 DEF FairState
  <2> QED BY <1>3, <2>1 DEF Fair, FairFor, Have, Unrounded, SameHistories
<1>5. Conserved(tracker)'
  <2>1. Conserved(tracker)
    BY <1>1 DEF FairState
  <2> QED BY <1>3, <2>1 DEF Conserved, InWallets
<1> QED BY <1>2, <1>4, <1>5 DEF FairInvariant, FairState, Invariant

LEMMA FairInit == TrackerInit => FairInvariant
<1> SUFFICES ASSUME TrackerInit PROVE FairInvariant
  OBVIOUS
<1>1. Invariant
  BY InvariantInit
<1>2. /\ tracker.claimed = PerAccount(0) /\ tracker.fairShare = PerAccount(0)
      /\ tracker.roundings = PerAccount(0) /\ tracker.lost = PerAccount(0)
      /\ tracker.claimableReward = PerAccount(0) /\ tracker.stakedAmounts = PerAccount(0)
      /\ tracker.cumulativeRewardPerToken = 0
      /\ tracker.previousCumulatedRewardPerToken = PerAccount(0)
      /\ tracker.wallets = Holdings /\ tracker.totalSupply = 0
  BY DEF TrackerInit, EmptyTracker
<1>3. Fair(tracker)
  <2> SUFFICES ASSUME NEW a \in Accounts PROVE FairFor(tracker, a)
    BY DEF Fair
  <2>1. /\ tracker.claimed[a] = 0 /\ tracker.fairShare[a] = 0 /\ tracker.roundings[a] = 0
        /\ tracker.lost[a] = 0 /\ tracker.claimableReward[a] = 0 /\ Unrounded(tracker, a) = 0
    BY <1>2 DEF PerAccount, Unrounded
  <2>2. PRECISION \in Nat /\ ShareUnit \in Nat
    BY TrackerAssumption
  <2>3. Have(tracker, a) = 0
    BY <2>1, <2>2 DEF Have
  <2>4. PRECISION * 0 = 0 /\ PRECISION * ShareUnit * 0 = 0 /\ ShareUnit * 0 = 0
    BY <2>2
  <2> QED BY <2>1, <2>3, <2>4 DEF FairFor
<1>4. Conserved(tracker)
  <2>1. Holdings \in [Accounts -> PerToken]
    BY TrackerAssumption DEF PerToken
  <2>2. InWallets(Holdings) = TotalHoldings /\ InWallets(Holdings) \in Nat
    BY <2>1, InWalletsInt DEF InWallets, TotalHoldings
  <2> QED BY <1>2, <2>2 DEF Conserved
<1> QED BY <1>1, <1>3, <1>4 DEF FairInvariant, FairState, Invariant

\* What every account was paid and is owed is its exact pro rata share of every
\* distribution, never more, and less only by what the two roundings allow: for
\* every precision, every rate and every way stakes and shares move in between.
THEOREM AlwaysProRata == TrackerSpec => []ProRata
<1>1. FairInvariant /\ [TrackerNext]_trackerVars => FairInvariant'
  <2> SUFFICES ASSUME FairInvariant, [TrackerNext]_trackerVars PROVE FairInvariant'
    OBVIOUS
  <2>1. CASE AccountCall(Accounts)
    BY <2>1, FairAccountCall
  <2>2. CASE AdminCall
    BY <2>2, FairAdminCall
  <2>3. CASE Tick
    BY <2>3, FairTick
  <2>4. CASE UNCHANGED trackerVars
    <3>1. tracker' = tracker /\ now' = now /\ FairState(tracker)
      BY <2>4 DEF trackerVars, FairInvariant
    <3> QED BY <3>1, FairCall
  <2> QED BY <2>1, <2>2, <2>3, <2>4 DEF TrackerNext
<1>2. FairInvariant => ProRata
  BY DEF FairInvariant, FairState, Fair, FairFor, Have, ProRata
<1> QED BY <1>1, <1>2, FairInit, PTL DEF TrackerSpec

-----------------------------------------------------------------------------
(* The amplifier.                                                          *)

Position == [depositAmount : Nat, multiplier : Nat, unlockDate : Nat]
AmplifierState ==
    [positions : [Users -> [Ids -> Position]], userPositionIds : [Users -> Seq(Ids)],
     nextPositionId : 0..MaxPositions, lockedAmount : [Users -> Nat], contractBalance : Nat,
     wethBalance : Nat, cumulativeRewardPerToken : Nat,
     previousCumulativeRewardPerToken : [Users -> Nat],
     claimableReward : [Users -> Nat], cumulativeRewards : [Users -> Nat],
     lastXpUpdate : [Users -> Nat], totalXpEarned : [Users -> Nat], seasonEnd : Nat,
     weights : [Users -> [0..MaxTime -> Nat]], recovered : SUBSET {"weth", "shares"}]

LockTyped(p) ==
    /\ now \in Nat /\ now <= MaxTime + 1 /\ p \in AmplifierState
    /\ \A u \in Users : /\ p.previousCumulativeRewardPerToken[u] <= p.cumulativeRewardPerToken
                        /\ p.lastXpUpdate[u] <= now

\* A user's list has the open positions once, and no id is given out twice.
ListedFor(p, u) ==
    /\ IsInjective(p.userPositionIds[u])
    /\ \A id \in Ids :
          /\ id \in Range(p.userPositionIds[u]) <=> p.positions[u][id] # NoPosition
          /\ p.positions[u][id] # NoPosition => /\ p.positions[u][id].depositAmount > 0
                                                /\ id < p.nextPositionId
Listed(p) == \A u \in Users : ListedFor(p, u)

Deposits(p, u) == [id \in Ids |-> p.positions[u][id].depositAmount]
LockSums(p) ==
    /\ \A u \in Users : p.lockedAmount[u] = Sum(Deposits(p, u), Ids)
    /\ p.contractBalance = Sum(p.lockedAmount, Users)

LockMarked(p) == \A u \in Users : p.claimableReward[u] <= p.cumulativeRewards[u]

LockUnrounded(p, u) ==
    p.lockedAmount[u] * (p.cumulativeRewardPerToken - p.previousCumulativeRewardPerToken[u])
LockOwed(p) ==
    [u \in Users |-> AmplifierPrecision * p.claimableReward[u] + LockUnrounded(p, u)]
LockBacked(p) ==
    "weth" \notin p.recovered =>
        Sum(LockOwed(p), Users) <= AmplifierPrecision * p.wethBalance

\* The XP counts seconds up to the last update; since then the weight is what it was.
Before(time) == {second \in 0..MaxTime : second < time}
Counted(p, u) == IF p.lastXpUpdate[u] <= p.seasonEnd THEN p.lastXpUpdate[u] ELSE p.seasonEnd
XpKept(p) ==
    \A u \in Users :
        /\ 100 * p.totalXpEarned[u] <= Sum(p.weights[u], Before(Counted(p, u)))
        /\ \A time \in 0..MaxTime : p.lastXpUpdate[u] <= time /\ time < now
                                       => p.weights[u][time] = Weight(p, u)

Locks(p) ==
    /\ LockTyped(p) /\ Listed(p) /\ LockSums(p) /\ LockMarked(p) /\ LockBacked(p) /\ XpKept(p)

LEMMA UsersFinite == IsFiniteSet(Users) /\ IsFiniteSet(Ids) /\ IsFiniteSet(0..MaxTime)
<1>1. Users \in SUBSET Accounts
  BY DEF Users
<1>2. MaxPositions - 1 \in Int /\ MaxTime \in Int
  BY AmplifierAssumption, TrackerAssumption
<1> QED BY <1>1, <1>2, TrackerAssumption, FS_Subset, FS_Interval DEF Ids

\* A set of numbers that has 0, and with a number the next one, has them all.
LEMMA IntervalInduction ==
    ASSUME NEW N \in Nat, NEW B \in SUBSET (0..N), 0 \in B,
           \A n \in B : n < N => n + 1 \in B
    PROVE  B = 0..N
<1> DEFINE least == {T \in SUBSET (0..N) : T = {} \/ \E m \in T : \A y \in T : m <= y}
<1>1. IsFiniteSet(0..N)
  BY FS_Interval
<1>2. least = SUBSET (0..N)
  <2>1. least \in SUBSET (SUBSET (0..N)) /\ {} \in least
    OBVIOUS
  <2>2. ASSUME NEW T \in least, NEW x \in (0..N) \ T
        PROVE  T \cup {x} \in least
    <3>1. CASE T = {}
      BY <3>1
    <3>2. CASE T # {}
      <4>1. PICK m \in T : \A y \in T : m <= y
        BY <3>2
      <4>2. CASE m <= x
        BY <4>1, <4>2
      <4>3. CASE x < m
        <5>1. \A y \in T \cup {x} : x <= y
          BY <4>1, <4>3
        <5> QED BY <5>1
      <4> QED BY <4>2, <4>3
    <3> QED BY <3>1, <3>2
  <2> HIDE DEF least
  <2> QED BY <1>1, <2>1, <2>2, SetInduction
<1> DEFINE bad == (0..N) \ B
<1> SUFFICES ASSUME bad # {} PROVE FALSE
  OBVIOUS
<1>3. PICK m \in bad : \A y \in bad : m <= y
  <2>1. bad \in least
    BY <1>2
  <2> QED BY <2>1
<1>4. m # 0 /\ m \in 0..N
  BY <1>3
<1>5. m - 1 \in 0..N /\ m - 1 \notin bad
  BY <1>3, <1>4
<1>6. m - 1 \in B /\ m - 1 < N
  BY <1>4, <1>5
<1>7. (m - 1) + 1 \in B
  BY <1>6
<1> QED BY <1>3, <1>4, <1>7

\* The sum of a constant.
LEMMA SumConstant ==
    ASSUME NEW S, IsFiniteSet(S), NEW f, NEW c \in Int, \A x \in S : f[x] = c
    PROVE  Sum(f, S) = c * Cardinality(S)
<1> DEFINE B == {T \in SUBSET S : Sum(f, T) = c * Cardinality(T)}
<1>1. {} \in B
  BY SumEmpty, FS_EmptySet
<1>2. ASSUME NEW T \in B, NEW x \in S \ T
      PROVE  T \cup {x} \in B
  <2>1. IsFiniteSet(T) /\ T \subseteq S /\ Sum(f, T) = c * Cardinality(T)
    BY FS_Subset
  <2>2. Cardinality(T) \in Nat /\ Cardinality(T \cup {x}) = Cardinality(T) + 1
    BY <2>1, FS_CardinalityType, FS_AddElement
  <2>3. f[x] = c /\ \A y \in T : f[y] \in Int
    BY <2>1
  <2>4. Sum(f, T \cup {x}) = Sum(f, T) + c
    BY <2>1, <2>3, SumAdd
  <2>5. c * (Cardinality(T) + 1) = c * Cardinality(T) + c
    BY <2>2
  <2> QED BY <2>1, <2>2, <2>4, <2>5
<1> HIDE DEF B
<1>3. B = SUBSET S
  <2>1. B \in SUBSET (SUBSET S)
    BY DEF B
  <2> QED BY <1>1, <1>2, <2>1, SetInduction
<1> QED BY <1>3 DEF B

\* A window in which the weight is constant adds its length times the weight.
LEMMA WindowSum ==
    ASSUME NEW f \in [0..MaxTime -> Nat], NEW a \in Nat, NEW b \in Nat, NEW c \in Nat,
           a <= b, b <= MaxTime + 1,
           \A time \in 0..MaxTime : a <= time /\ time < b => f[time] = c
    PROVE  Sum(f, Before(b)) = Sum(f, Before(a)) + c * (b - a)
<1> DEFINE S == Before(b)
           T == Before(a)
           W == a..(b - 1)
<1>1. MaxTime \in Nat /\ IsFiniteSet(0..MaxTime)
  BY TrackerAssumption, UsersFinite
<1>2. /\ S \subseteq 0..MaxTime /\ T \subseteq S /\ S \ T = W
      /\ \A time \in W : f[time] = c
  BY <1>1 DEF Before
<1>3. IsFiniteSet(S) /\ \A time \in S : f[time] \in Int
  BY <1>1, <1>2, FS_Subset
<1>4. Sum(f, S) = Sum(f, T) + Sum(f, S \ T)
  <2> HIDE DEF S, T
  <2> QED BY <1>2, <1>3, SumSplit
<1>5. IsFiniteSet(W) /\ Cardinality(W) = b - a
  <2>1. a \in Int /\ b - 1 \in Int
    OBVIOUS
  <2>2. IsFiniteSet(W) /\ Cardinality(W) = IF a > b - 1 THEN 0 ELSE (b - 1) - a + 1
    BY <2>1, FS_Interval
  <2> QED BY <2>2
<1>6. Sum(f, W) = c * Cardinality(W)
  <2>1. c \in Int /\ \A time \in W : f[time] = c
    BY <1>2
  <2> HIDE DEF W
  <2> QED BY <1>5, <2>1, SumConstant
<1> QED BY <1>2, <1>4, <1>5, <1>6

\* More seconds weigh at least as much.
LEMMA BeforeGrows ==
    ASSUME NEW f \in [0..MaxTime -> Nat], NEW a \in Nat, NEW b \in Nat, a <= b
    PROVE  Sum(f, Before(a)) \in Nat /\ Sum(f, Before(a)) <= Sum(f, Before(b))
<1>1. Before(a) \in SUBSET Before(b) /\ Before(b) \in SUBSET (0..MaxTime)
  BY TrackerAssumption DEF Before
<1>2. IsFiniteSet(Before(b)) /\ IsFiniteSet(Before(a)) /\ IsFiniteSet(Before(b) \ Before(a))
  BY <1>1, UsersFinite, FS_Subset
<1>3. \A time \in Before(b) : f[time] \in Nat
  BY <1>1
<1>4. Sum(f, Before(a)) \in Nat /\ Sum(f, Before(b) \ Before(a)) \in Nat
  BY <1>1, <1>2, <1>3, SumNat
<1>5. Sum(f, Before(b)) = Sum(f, Before(a)) + Sum(f, Before(b) \ Before(a))
  <2>1. \A time \in Before(b) : f[time] \in Int
    BY <1>3
  <2> QED BY <1>1, <1>2, <2>1, SumSplit
<1> QED BY <1>4, <1>5

\* A user's weight is a natural number.
LEMMA WeightNat ==
    ASSUME NEW p \in AmplifierState, NEW u \in Users
    PROVE  Weight(p, u) \in Nat
<1> DEFINE R == Range(p.userPositionIds[u])
           f == [id \in R |-> p.positions[u][id].depositAmount * p.positions[u][id].multiplier]
<1>1. R \in SUBSET Ids
  <2>1. p.userPositionIds[u] \in Seq(Ids)
    BY DEF AmplifierState
  <2> QED BY <2>1 DEF Range
<1>2. IsFiniteSet(R)
  BY <1>1, UsersFinite, FS_Subset
<1>3. \A id \in R : f[id] \in Nat
  BY <1>1 DEF AmplifierState, Position
<1>4. DOMAIN f = R
  OBVIOUS
<1> HIDE DEF R, f
<1>5. Sum(f, R) \in Nat
  BY <1>2, <1>3, SumNat
<1> QED BY <1>4, <1>5 DEF Weight, SumOver, f, R

-----------------------------------------------------------------------------
(* The amplifier's _updateRewards.                                         *)

\* A user's reward is a natural number, none for a user without a lock, and no more
\* than what the lock has earned.
LEMMA LockRewardNat ==
    ASSUME NEW p, LockTyped(p), NEW u \in Users
    PROVE  /\ LockUnrounded(p, u) \in Nat /\ LockReward(p, u) \in Nat
           /\ AmplifierPrecision * LockReward(p, u) <= LockUnrounded(p, u)
           /\ LockReward(p, u) > 0 => p.lockedAmount[u] > 0
<1>1. /\ p.lockedAmount[u] \in Nat /\ AmplifierPrecision \in Nat \ {0}
      /\ p.cumulativeRewardPerToken - p.previousCumulativeRewardPerToken[u] \in Nat
  BY AmplifierAssumption DEF LockTyped, AmplifierState
<1>2. LockUnrounded(p, u) \in Nat /\ (p.lockedAmount[u] = 0 => LockUnrounded(p, u) = 0)
  BY <1>1 DEF LockUnrounded
<1>3. /\ LockReward(p, u) \in Nat
      /\ AmplifierPrecision * LockReward(p, u) <= LockUnrounded(p, u)
  <2>1. LockReward(p, u) = LockUnrounded(p, u) \div AmplifierPrecision
    BY DEF LockReward, LockUnrounded
  <2> QED BY <1>1, <1>2, <2>1, Quotient
<1>4. LockUnrounded(p, u) = 0 => LockReward(p, u) = 0
  <2>1. LockReward(p, u) > 0 => AmplifierPrecision * LockReward(p, u) > 0
    BY <1>1, <1>3
  <2> QED BY <1>1, <1>3, <2>1
<1> QED BY <1>1, <1>2, <1>3, <1>4

\* What the locks' owners are owed, counted exactly, is a natural number.
LEMMA LockOwedNat ==
    ASSUME NEW p, LockTyped(p)
    PROVE  \A u \in Users : LockOwed(p)[u] \in Nat
<1> SUFFICES ASSUME NEW u \in Users
             PROVE  AmplifierPrecision * p.claimableReward[u] + LockUnrounded(p, u) \in Nat
  BY DEF LockOwed
<1>1. p.claimableReward[u] \in Nat /\ AmplifierPrecision \in Nat
  BY AmplifierAssumption DEF LockTyped, AmplifierState
<1> QED BY <1>1, LockRewardNat

LockGain(p, reward) ==
    IF p.contractBalance > 0 THEN (reward * AmplifierPrecision) \div p.contractBalance ELSE 0

\* A reward that comes in covers what the locks earn by it.
LEMMA LockSharedKeeps ==
    ASSUME NEW p, LockTyped(p), LockSums(p), LockBacked(p), NEW reward \in Nat
    PROVE  LET q == LockShared(p, reward)
           IN /\ LockTyped(q) /\ LockBacked(q)
              /\ q = [p EXCEPT !.wethBalance = q.wethBalance,
                               !.cumulativeRewardPerToken = q.cumulativeRewardPerToken]
<1> DEFINE q == LockShared(p, reward)
           g == LockGain(p, reward)
           w == p.wethBalance + reward
           c == p.cumulativeRewardPerToken + g
           earned == [u \in Users |-> g * p.lockedAmount[u]]
<1>1. /\ p \in AmplifierState /\ p.contractBalance \in Nat /\ AmplifierPrecision \in Nat \ {0}
      /\ p.cumulativeRewardPerToken \in Nat /\ p.wethBalance \in Nat
      /\ IsFiniteSet(Users)
  BY AmplifierAssumption, UsersFinite DEF LockTyped, AmplifierState
<1>2. g \in Nat /\ p.contractBalance * g <= reward * AmplifierPrecision
  <2>0. reward * AmplifierPrecision \in Nat
    BY <1>1
  <2>1. CASE p.contractBalance > 0
    <3>1. p.contractBalance \in Nat \ {0}
      BY <1>1, <2>1
    <3>2. g = (reward * AmplifierPrecision) \div p.contractBalance
      BY <2>1 DEF LockGain
    <3> HIDE DEF g
    <3> QED BY <2>0, <3>1, <3>2, Quotient
  <2>2. CASE ~(p.contractBalance > 0)
    BY <1>1, <2>0, <2>2 DEF LockGain
  <2> QED BY <2>1, <2>2
<1>3. q = [p EXCEPT !.wethBalance = w, !.cumulativeRewardPerToken = c]
  <2>1. CASE p.contractBalance > 0
    BY <1>1, <2>1 DEF LockShared, LockGain
  <2>2. CASE ~(p.contractBalance > 0)
    <3>1. c = p.cumulativeRewardPerToken
      BY <1>1, <2>2 DEF LockGain
    <3> HIDE DEF c
    <3> QED BY <2>2, <3>1 DEF LockShared
  <2> QED BY <2>1, <2>2
<1>4. w \in Nat /\ c \in Nat /\ w = p.wethBalance + reward /\ c = p.cumulativeRewardPerToken + g
  BY <1>1, <1>2
<1> HIDE DEF q, g, w, c
<1>5. /\ q \in AmplifierState /\ q.wethBalance = w /\ q.cumulativeRewardPerToken = c
      /\ q.previousCumulativeRewardPerToken = p.previousCumulativeRewardPerToken
      /\ q.lastXpUpdate = p.lastXpUpdate /\ q.recovered = p.recovered
      /\ q.claimableReward = p.claimableReward /\ q.lockedAmount = p.lockedAmount
  BY <1>1, <1>3, <1>4 DEF AmplifierState
<1>6. LockTyped(q)
  <2>1. ASSUME NEW u \in Users
        PROVE  q.previousCumulativeRewardPerToken[u] <= c
    <3>1. /\ p.previousCumulativeRewardPerToken[u] <= p.cumulativeRewardPerToken
          /\ p.previousCumulativeRewardPerToken[u] \in Nat
      BY <1>1 DEF LockTyped, AmplifierState
    <3> QED BY <1>1, <1>2, <1>4, <1>5, <3>1
  <2> QED BY <1>5, <2>1 DEF LockTyped
<1>7. \A u \in Users : /\ p.lockedAmount[u] \in Int /\ earned[u] = g * p.lockedAmount[u]
                       /\ earned[u] \in Int
  BY <1>1, <1>2 DEF AmplifierState
<1> HIDE DEF earned
<1>8. ASSUME NEW u \in Users
      PROVE  LockOwed(q)[u] = LockOwed(p)[u] + earned[u]
  <2> DEFINE st == p.lockedAmount[u]
             d == p.cumulativeRewardPerToken
             m == p.previousCumulativeRewardPerToken[u]
             r == AmplifierPrecision * p.claimableReward[u]
  <2>1. st \in Nat /\ d \in Nat /\ m \in Nat /\ r \in Nat
    BY <1>1 DEF AmplifierState
  <2>2. LockOwed(p)[u] = r + st * (d - m)
    BY DEF LockOwed, LockUnrounded
  <2>3. LockOwed(q)[u] = r + st * ((d + g) - m)
    BY <1>4, <1>5 DEF LockOwed, LockUnrounded
  <2>4. earned[u] = g * st
    BY <1>7
  <2> HIDE DEF st, d, m, r
  <2>5. st * ((d + g) - m) = st * (d - m) + g * st
    BY <1>2, <2>1
  <2>6. st * (d - m) \in Int /\ g * st \in Int
    BY <1>2, <2>1
  <2> QED BY <2>1, <2>2, <2>3, <2>4, <2>5, <2>6
<1>9. /\ \A u \in Users : LockOwed(p)[u] \in Int
      /\ Sum(LockOwed(p), Users) \in Int
  <2>1. \A u \in Users : LockOwed(p)[u] \in Int
    BY LockOwedNat
  <2> QED BY <1>1, <2>1, SumInt
<1>10. Sum(LockOwed(q), Users) = Sum(LockOwed(p), Users) + Sum(earned, Users)
  <2>1. \A u \in Users : /\ LockOwed(p)[u] \in Int /\ earned[u] \in Int
                         /\ LockOwed(q)[u] = LockOwed(p)[u] + earned[u]
    BY <1>7, <1>8, <1>9
  <2> QED BY <1>1, <2>1, SumPlus
<1>11. Sum(earned, Users) = g * p.contractBalance
  <2>1. Sum(earned, Users) = g * Sum(p.lockedAmount, Users)
    <3>1. \A u \in Users : p.lockedAmount[u] \in Int /\ earned[u] = g * p.lockedAmount[u]
      BY <1>7
    <3> QED BY <1>1, <1>2, <3>1, SumScale
  <2> QED BY <2>1 DEF LockSums
<1>12. LockBacked(q)
  <2> SUFFICES ASSUME "weth" \notin p.recovered
               PROVE  Sum(LockOwed(q), Users) <= AmplifierPrecision * w
    BY <1>5 DEF LockBacked
  <2> DEFINE o == Sum(LockOwed(p), Users)
             e == g * p.contractBalance
             P == AmplifierPrecision
  <2>1. o \in Int /\ o <= P * p.wethBalance /\ e \in Int /\ e <= P * reward
    BY <1>1, <1>2, <1>9 DEF LockBacked
  <2>2. P * w = P * p.wethBalance + P * reward
    BY <1>1, <1>4
  <2>3. Sum(LockOwed(q), Users) = o + e
    BY <1>10, <1>11
  <2>4. P * p.wethBalance \in Int /\ P * reward \in Int
    BY <1>1
  <2> HIDE DEF o, e, P
  <2>5. o + e <= P * w
    BY <2>1, <2>2, <2>4
  <2> QED BY <2>3, <2>5 DEF P
<1>13. q = [p EXCEPT !.wethBalance = q.wethBalance,
                     !.cumulativeRewardPerToken = q.cumulativeRewardPerToken]
  BY <1>3, <1>5
<1> QED BY <1>6, <1>12, <1>13 DEF q

\* The fields of the locks themselves.
SameLocks(p, r) ==
    /\ r.positions = p.positions /\ r.userPositionIds = p.userPositionIds
    /\ r.nextPositionId = p.nextPositionId /\ r.lockedAmount = p.lockedAmount
    /\ r.contractBalance = p.contractBalance /\ r.seasonEnd = p.seasonEnd
    /\ r.weights = p.weights /\ r.recovered = p.recovered

\* What a claim leaves alone.
LEMMA ClaimedStakes ==
    ASSUME NEW s, Sound(s), NEW a \in Accounts, CanClaim(s, a)
    PROVE  SameStakes(s, Claimed(s, a)) /\ Claim(s, a) \in Nat
<1> DEFINE u == UpdatedRewards(s, a)
<1>1. Sound(u) /\ u \in TrackerState /\ SameStakes(s, u)
  BY UpdateSound DEF Sound, Typed
<1>2. Claim(s, a) \in Nat
  <2>1. u.claimableReward[a] \in Nat
    BY <1>1 DEF TrackerState
  <2> QED BY <2>1 DEF Claim
<1>3. SameStakes(u, Claimed(s, a))
  <2> DEFINE cl == [u.claimableReward EXCEPT ![a] = 0]
             rb == u.rewardBalance - Claim(s, a)
             paid == [u.claimed EXCEPT ![a] = u.claimed[a] + Claim(s, a)]
  <2>1. Claimed(s, a) = [u EXCEPT !.claimableReward = cl, !.rewardBalance = rb, !.claimed = paid]
    BY DEF Claimed
  <2> HIDE DEF u, cl, rb, paid
  <2> QED BY <1>1, <2>1 DEF TrackerState, SameStakes
<1> HIDE DEF u
<1> QED BY <1>1, <1>2, <1>3 DEF SameStakes

\* A user's weight depends on the list and the positions.
LEMMA SameWeight ==
    ASSUME NEW p, NEW r, NEW u \in Users, r.positions[u] = p.positions[u],
           r.userPositionIds[u] = p.userPositionIds[u]
    PROVE  Weight(r, u) = Weight(p, u)
  BY DEF Weight

\* The part of the season that is over.
Passed(p) == IF now <= p.seasonEnd THEN now ELSE p.seasonEnd

\* XP counts the seconds since the last update at the weight they had.
LEMMA XpCounted ==
    ASSUME NEW p, LockTyped(p), XpKept(p), NEW u \in Users, XpDuration(p, u) >= 0
    PROVE  /\ p.totalXpEarned[u] + PendingXp(p, u) \in Nat
           /\ 100 * (p.totalXpEarned[u] + PendingXp(p, u)) <= Sum(p.weights[u], Before(Passed(p)))
<1> DEFINE end == Passed(p)
           last == p.lastXpUpdate[u]
           w == Weight(p, u)
           d == XpDuration(p, u)
           f == p.weights[u]
           old == p.totalXpEarned[u]
           more == PendingXp(p, u)
<1>1. /\ now \in Nat /\ now <= MaxTime + 1 /\ p.seasonEnd \in Nat /\ last \in Nat /\ last <= now
      /\ f \in [0..MaxTime -> Nat] /\ old \in Nat /\ w \in Nat
  BY WeightNat DEF LockTyped, AmplifierState
<1>2. /\ d = end - last /\ end \in {now, p.seasonEnd} /\ end <= now /\ end <= p.seasonEnd
      /\ d >= 0
  BY <1>1, MinOfTwo DEF XpDuration, Passed
<1>3. /\ end \in Nat /\ last <= end /\ end <= MaxTime + 1 /\ end <= now /\ last <= p.seasonEnd
      /\ d \in Nat
  <2> HIDE DEF end, last, d
  <2> QED BY <1>1, <1>2, TrackerAssumption
<1>4. more \in Nat /\ 100 * more <= w * d
  <2>1. w * d \in Nat
    BY <1>1, <1>3
  <2>2. more = (w * d) \div 100
    BY DEF PendingXp
  <2>3. 100 \in Nat \ {0}
    OBVIOUS
  <2> HIDE DEF w, d, more
  <2> QED BY <2>1, <2>2, <2>3, Quotient
<1>5. 100 * old <= Sum(f, Before(last))
  <2>1. Counted(p, u) = last
    BY <1>3 DEF Counted
  <2> QED BY <2>1 DEF XpKept
<1>6. \A time \in 0..MaxTime : last <= time /\ time < end => f[time] = w
  <2>1. \A time \in 0..MaxTime : last <= time /\ time < now => f[time] = w
    BY DEF XpKept
  <2>2. \A time \in 0..MaxTime : time < end => time < now
    BY <1>1, <1>3, TrackerAssumption
  <2> QED BY <2>1, <2>2
<1> HIDE DEF end, last, w, d, f, old, more
<1>7. Sum(f, Before(end)) = Sum(f, Before(last)) + w * (end - last)
  BY <1>1, <1>3, <1>6, WindowSum
<1>8. Sum(f, Before(last)) \in Nat
  BY <1>1, BeforeGrows
<1>9. old + more \in Nat /\ 100 * (old + more) <= Sum(f, Before(end))
  <2>1. w * (end - last) = w * d /\ w * d \in Nat
    BY <1>1, <1>2, <1>3
  <2> QED BY <1>1, <1>4, <1>5, <1>7, <1>8, <2>1
<1> QED BY <1>9 DEF end, f, old, more

LEMMA UpdatedKeeps ==
    ASSUME NEW t, Sound(t), NEW p, Locks(p), NEW u \in Users,
           CanUpdate([tracker |-> t, amplifier |-> p], u)
    PROVE  LET y == Updated([tracker |-> t, amplifier |-> p], u)
           IN /\ y = [tracker |-> Claimed(t, Amplifier), amplifier |-> y.amplifier]
              /\ Locks(y.amplifier) /\ SameLocks(p, y.amplifier)
              /\ y.amplifier.previousCumulativeRewardPerToken[u]
                   = y.amplifier.cumulativeRewardPerToken
              /\ y.amplifier.lastXpUpdate[u] = now
<1> DEFINE x == [tracker |-> t, amplifier |-> p]
           q == LockShared(p, Claim(t, Amplifier))
           n == LockReward(q, u)
           cl == [q.claimableReward EXCEPT ![u] = q.claimableReward[u] + n]
           mark == [q.previousCumulativeRewardPerToken EXCEPT ![u] = q.cumulativeRewardPerToken]
           next == IF LockCounts(q, u) THEN q.cumulativeRewards[u] + n ELSE q.cumulativeRewards[u]
           cu == [q.cumulativeRewards EXCEPT ![u] = next]
           sum == p.totalXpEarned[u] + PendingXp(p, u)
           xp == [q.totalXpEarned EXCEPT ![u] = sum]
           la == [q.lastXpUpdate EXCEPT ![u] = now]
           r == Updated(x, u).amplifier
<1>1. /\ LockTyped(p) /\ Listed(p) /\ LockSums(p) /\ LockMarked(p) /\ LockBacked(p) /\ XpKept(p)
      /\ p \in AmplifierState /\ now \in Nat
  BY DEF Locks, LockTyped
<1>2. XpDuration(p, u) >= 0 /\ Claim(t, Amplifier) \in Nat
  <2>1. CanClaim(t, Amplifier) /\ XpDuration(p, u) >= 0 /\ Amplifier \in Accounts
    BY AmplifierAssumption DEF CanUpdate
  <2> QED BY <2>1, ClaimedStakes
<1>3. /\ LockTyped(q) /\ LockBacked(q)
      /\ q = [p EXCEPT !.wethBalance = q.wethBalance,
                       !.cumulativeRewardPerToken = q.cumulativeRewardPerToken]
  BY <1>1, <1>2, LockSharedKeeps
<1>4. sum \in Nat /\ 100 * sum <= Sum(p.weights[u], Before(Passed(p)))
  BY <1>1, <1>2, XpCounted
<1>5. n \in Nat /\ (n > 0 => q.lockedAmount[u] > 0)
      /\ AmplifierPrecision * n <= LockUnrounded(q, u) /\ LockUnrounded(q, u) \in Nat
  BY <1>3, LockRewardNat
<1> HIDE DEF q
<1>6. /\ q \in AmplifierState /\ SameLocks(p, q)
      /\ q.claimableReward = p.claimableReward /\ q.cumulativeRewards = p.cumulativeRewards
      /\ q.previousCumulativeRewardPerToken = p.previousCumulativeRewardPerToken
      /\ q.totalXpEarned = p.totalXpEarned /\ q.lastXpUpdate = p.lastXpUpdate
  <2>1. q \in AmplifierState
    BY <1>3 DEF LockTyped
  <2> QED BY <1>1, <1>3, <2>1 DEF AmplifierState, SameLocks
<1>7. r = [q EXCEPT !.claimableReward = cl, !.previousCumulativeRewardPerToken = mark,
                    !.cumulativeRewards = cu, !.totalXpEarned = xp, !.lastXpUpdate = la]
  <2>1. r = [q EXCEPT !.claimableReward[u] = @ + n,
                      !.previousCumulativeRewardPerToken[u] = q.cumulativeRewardPerToken,
                      !.cumulativeRewards[u] = IF LockCounts(q, u) THEN @ + n ELSE @,
                      !.totalXpEarned[u] = @ + PendingXp(p, u),
                      !.lastXpUpdate[u] = now]
    BY DEF Updated, q
  <2>2. q.totalXpEarned[u] + PendingXp(p, u) = sum
    BY <1>6
  <2> HIDE DEF r, n
  <2> QED BY <1>6, <2>1, <2>2
<1>8. next = q.cumulativeRewards[u] + n
  <2>1. q.claimableReward[u] \in Nat /\ q.cumulativeRewards[u] \in Nat
    BY <1>6 DEF AmplifierState
  <2>2. LockCounts(q, u) \/ n = 0
    BY <1>5, <2>1 DEF LockCounts
  <2> QED BY <1>5, <2>1, <2>2
<1>9. /\ cl \in [Users -> Nat] /\ mark \in [Users -> Nat] /\ cu \in [Users -> Nat]
      /\ xp \in [Users -> Nat] /\ la \in [Users -> Nat]
  <2> HIDE DEF n, next, sum
  <2>0. /\ q.claimableReward[u] \in Nat /\ q.cumulativeRewards[u] \in Nat
        /\ q.cumulativeRewardPerToken \in Nat
    BY <1>6 DEF AmplifierState
  <2>1. /\ q.claimableReward[u] + n \in Nat /\ next \in Nat /\ q.cumulativeRewardPerToken \in Nat
    BY <1>5, <1>8, <2>0
  <2> QED BY <1>1, <1>4, <1>6, <2>1 DEF AmplifierState
<1>10. \A v \in Users :
          /\ cl[v] = p.claimableReward[v] + (IF v = u THEN n ELSE 0)
          /\ cu[v] = p.cumulativeRewards[v] + (IF v = u THEN n ELSE 0)
          /\ mark[v] = IF v = u THEN q.cumulativeRewardPerToken
                       ELSE p.previousCumulativeRewardPerToken[v]
          /\ xp[v] = IF v = u THEN sum ELSE p.totalXpEarned[v]
          /\ la[v] = IF v = u THEN now ELSE p.lastXpUpdate[v]
  <2> HIDE DEF n, next, sum
  <2>1. /\ p.claimableReward \in [Users -> Nat] /\ p.cumulativeRewards \in [Users -> Nat]
        /\ p.previousCumulativeRewardPerToken \in [Users -> Nat]
        /\ p.totalXpEarned \in [Users -> Nat] /\ p.lastXpUpdate \in [Users -> Nat]
    BY <1>1 DEF AmplifierState
  <2> QED BY <1>5, <1>6, <1>8, <2>1
<1> HIDE DEF r, cl, mark, cu, xp, la, n, next, sum
<1>11. r \in AmplifierState
  BY <1>6, <1>7, <1>9 DEF AmplifierState
<1>12. /\ SameLocks(q, r) /\ r.claimableReward = cl /\ r.cumulativeRewards = cu
       /\ r.previousCumulativeRewardPerToken = mark /\ r.totalXpEarned = xp
       /\ r.lastXpUpdate = la /\ r.wethBalance = q.wethBalance
       /\ r.cumulativeRewardPerToken = q.cumulativeRewardPerToken
  BY <1>6, <1>7 DEF AmplifierState, SameLocks
<1>13. SameLocks(p, r)
  BY <1>6, <1>12 DEF SameLocks
<1>14. LockTyped(r)
  <2> SUFFICES ASSUME NEW v \in Users
               PROVE  mark[v] <= q.cumulativeRewardPerToken /\ la[v] <= now
    BY <1>1, <1>11, <1>12 DEF LockTyped
  <2>1. p.previousCumulativeRewardPerToken[v] <= q.cumulativeRewardPerToken
    BY <1>3, <1>6 DEF LockTyped
  <2>2. p.lastXpUpdate[v] <= now /\ q.cumulativeRewardPerToken \in Nat
    BY <1>1, <1>6 DEF LockTyped, AmplifierState
  <2> QED BY <1>1, <1>10, <2>1, <2>2
<1>15. Listed(r) /\ LockSums(r)
  BY <1>1, <1>13 DEF Listed, ListedFor, LockSums, Deposits, SameLocks
<1>16. LockMarked(r)
  <2> SUFFICES ASSUME NEW v \in Users PROVE cl[v] <= cu[v]
    BY <1>12 DEF LockMarked
  <2>1. p.claimableReward[v] <= p.cumulativeRewards[v]
    BY <1>1 DEF LockMarked
  <2>2. p.claimableReward[v] \in Nat /\ p.cumulativeRewards[v] \in Nat
    BY <1>1 DEF AmplifierState
  <2> QED BY <1>5, <1>10, <2>1, <2>2
<1>17. LockBacked(r)
  <2>1. \A v \in Users : /\ LockOwed(r)[v] \in Int /\ LockOwed(q)[v] \in Int
                         /\ LockOwed(r)[v] <= LockOwed(q)[v]
    <3> TAKE v \in Users
    <3> DEFINE P == AmplifierPrecision
               k == p.claimableReward[v]
    <3>0. LockOwed(q)[v] \in Nat /\ LockOwed(r)[v] \in Nat /\ P \in Nat /\ k \in Nat
      BY <1>1, <1>3, <1>14, LockOwedNat, AmplifierAssumption DEF AmplifierState
    <3>1. LockOwed(q)[v] = P * k + LockUnrounded(q, v)
      BY <1>6 DEF LockOwed
    <3>2. LockOwed(r)[v] = P * cl[v] + LockUnrounded(r, v)
      BY <1>12 DEF LockOwed
    <3>3. CASE v = u
      <4>1. LockUnrounded(r, u) = 0
        <5>1. /\ r.previousCumulativeRewardPerToken[u] = r.cumulativeRewardPerToken
              /\ r.cumulativeRewardPerToken \in Nat /\ r.lockedAmount[u] \in Nat
          BY <1>10, <1>11, <1>12 DEF AmplifierState
        <5> QED BY <5>1 DEF LockUnrounded
      <4>2. cl[u] = k + n
        BY <1>10, <3>3
      <4>3. P * (k + n) = P * k + P * n /\ P * k \in Int /\ P * n \in Int
        BY <1>5, <3>0
      <4> HIDE DEF P, k
      <4>4. LockOwed(r)[v] = P * k + P * n
        BY <3>2, <3>3, <4>1, <4>2, <4>3
      <4>5. P * n <= LockUnrounded(q, v)
        BY <1>5, <3>3 DEF P
      <4> QED BY <1>5, <3>0, <3>1, <3>3, <4>3, <4>4, <4>5
    <3>4. CASE v # u
      <4>1. LockUnrounded(r, v) = LockUnrounded(q, v)
        BY <1>6, <1>10, <1>12, <3>4 DEF LockUnrounded, SameLocks
      <4>2. cl[v] = k
        BY <1>10, <3>0, <3>4
      <4> QED BY <3>0, <3>1, <3>2, <4>1, <4>2
    <3> QED BY <3>3, <3>4
  <2>2. IsFiniteSet(Users)
    BY UsersFinite
  <2>3. Sum(LockOwed(r), Users) <= Sum(LockOwed(q), Users)
    BY <2>1, <2>2, SumMonotone
  <2>4. Sum(LockOwed(r), Users) \in Int /\ Sum(LockOwed(q), Users) \in Int
    BY <2>1, <2>2, SumInt
  <2>5. AmplifierPrecision * q.wethBalance \in Int
    BY <1>6, AmplifierAssumption DEF AmplifierState
  <2>6. r.recovered = q.recovered /\ r.wethBalance = q.wethBalance
    BY <1>12 DEF SameLocks
  <2> QED BY <1>3, <2>3, <2>4, <2>5, <2>6 DEF LockBacked
<1>18. XpKept(r)
  <2> SUFFICES ASSUME NEW v \in Users
               PROVE  /\ 100 * xp[v] <= Sum(p.weights[v], Before(Counted(r, v)))
                      /\ \A time \in 0..MaxTime : la[v] <= time /\ time < now
                                                     => p.weights[v][time] = Weight(r, v)
    BY <1>12, <1>13 DEF XpKept, SameLocks
  <2>1. Weight(r, v) = Weight(p, v)
    BY <1>13, SameWeight DEF SameLocks
  <2>2. CASE v = u
    <3>1. Counted(r, v) = Passed(p)
      BY <1>10, <1>12, <1>13, <2>2 DEF Counted, Passed, SameLocks
    <3>2. \A time \in 0..MaxTime : ~(now <= time /\ time < now)
      BY <1>1
    <3> QED BY <1>4, <1>10, <2>2, <3>1, <3>2
  <2>3. CASE v # u
    <3>1. Counted(r, v) = Counted(p, v)
      BY <1>10, <1>12, <1>13, <2>3 DEF Counted, SameLocks
    <3> QED BY <1>1, <1>10, <2>1, <2>3, <3>1 DEF XpKept
  <2> QED BY <2>2, <2>3
<1>19. Updated(x, u) = [tracker |-> Claimed(t, Amplifier), amplifier |-> r]
  BY DEF Updated, r
<1>20. Locks(r)
  BY <1>14, <1>15, <1>16, <1>17, <1>18 DEF Locks
<1>21. r.previousCumulativeRewardPerToken[u] = r.cumulativeRewardPerToken /\ r.lastXpUpdate[u] = now
  BY <1>10, <1>12
<1> QED BY <1>13, <1>19, <1>20, <1>21 DEF r, x

-----------------------------------------------------------------------------
(* What the tracker's calls do to an account's shares and stake.           *)

AmplifierHolds(t, p) ==
    /\ p.contractBalance <= t.depositBalances[Amplifier][Brrr]
    /\ "shares" \notin p.recovered => p.contractBalance <= t.balances[Amplifier]

\* TransferStakedBrrr moves shares and stake, and nothing else of the kind.
LEMMA TransferredStakes ==
    ASSUME NEW s, Sound(s), NEW sender \in Accounts, NEW recipient \in Accounts,
           NEW amount \in Nat, CanTransferStaked(s, sender, recipient, amount)
    PROVE  LET r == StakeTransferred(s, sender, recipient, amount)
           IN /\ r.isDepositToken = s.isDepositToken
              /\ \A a \in Accounts :
                    /\ r.balances[a] = s.balances[a] + (IF a = sender THEN 0 - amount ELSE 0)
                                                     + (IF a = recipient THEN amount ELSE 0)
                    /\ r.depositBalances[a][Brrr]
                         = s.depositBalances[a][Brrr] + (IF a = sender THEN 0 - amount ELSE 0)
                                                      + (IF a = recipient THEN amount ELSE 0)
<1> DEFINE m == Unstaked(s, sender, Brrr, amount, sender)
           r == StakeTransferred(s, sender, recipient, amount)
           n == 0 - amount
<1>1. /\ CanUnstake(s, sender, Brrr, amount) /\ CanStake(m, sender, recipient, Brrr, amount)
      /\ Brrr \in DepositTokens /\ r = Staked(m, sender, recipient, Brrr, amount)
  BY TrackerAssumption DEF CanTransferStaked, StakeTransferred
<1>2. /\ Sound(m) /\ StakeBy(s, m, sender, Brrr, n) /\ m.isDepositToken = s.isDepositToken
  BY <1>1, UnstakedSound
<1> HIDE DEF m
<1>3. /\ StakeBy(m, r, recipient, Brrr, amount) /\ r.isDepositToken = m.isDepositToken
  BY <1>1, <1>2, StakedSound
<1> HIDE DEF r
<1>4. ASSUME NEW a \in Accounts
      PROVE  /\ r.balances[a] = s.balances[a] + (IF a = sender THEN n ELSE 0)
                                              + (IF a = recipient THEN amount ELSE 0)
             /\ r.depositBalances[a][Brrr]
                  = s.depositBalances[a][Brrr] + (IF a = sender THEN n ELSE 0)
                                               + (IF a = recipient THEN amount ELSE 0)
  <2>1. \A q \in DepositTokens :
           /\ m.depositBalances[a][q]
                = s.depositBalances[a][q] + (IF a = sender /\ q = Brrr THEN n ELSE 0)
           /\ r.depositBalances[a][q]
                = m.depositBalances[a][q] + (IF a = recipient /\ q = Brrr THEN amount ELSE 0)
    BY <1>2, <1>3 DEF StakeBy
  <2>2. /\ m.balances[a] = s.balances[a] + (IF a = sender THEN n ELSE 0)
        /\ r.balances[a] = m.balances[a] + (IF a = recipient THEN amount ELSE 0)
    BY <1>2, <1>3 DEF StakeBy
  <2> HIDE DEF n
  <2> QED BY <1>1, <2>1, <2>2
<1> QED BY <1>2, <1>3, <1>4 DEF r

\* A change of another account's stake is none of the amplifier's.
LEMMA OthersHeld ==
    ASSUME NEW s, NEW r, Sound(s), Sound(r), NEW a \in Accounts \ {Amplifier},
           NEW t \in DepositTokens, NEW n \in Int, StakeBy(s, r, a, t, n)
    PROVE  /\ r.balances[Amplifier] = s.balances[Amplifier]
           /\ r.depositBalances[Amplifier][Brrr] = s.depositBalances[Amplifier][Brrr]
<1>1. Amplifier \in Accounts /\ Brrr \in DepositTokens
  BY AmplifierAssumption, TrackerAssumption
<1>2. s.balances[Amplifier] \in Int /\ s.depositBalances[Amplifier][Brrr] \in Int
  BY <1>1 DEF Sound, Typed, TrackerState, PerToken
<1>3. /\ r.balances[Amplifier] = s.balances[Amplifier] + 0
      /\ r.depositBalances[Amplifier][Brrr] = s.depositBalances[Amplifier][Brrr] + 0
  BY <1>1 DEF StakeBy
<1> QED BY <1>2, <1>3

\* Another account's call leaves the amplifier at least the shares and the stake it had.
LEMMA CallHeld ==
    ASSUME Invariant, AccountCall(TrackerCallers) \/ AdminCall, NEW p, AmplifierHolds(tracker, p),
           p.contractBalance \in Nat
    PROVE  AmplifierHolds(tracker', p)
<1>1. /\ Sound(tracker) /\ tracker \in TrackerState /\ Amplifier \in Accounts
      /\ TrackerCallers \subseteq Accounts \ {Amplifier} /\ Amounts \subseteq Nat
      /\ Brrr \in DepositTokens
  BY AmplifierAssumption, TrackerAssumption DEF Invariant, Sound, Typed
<1> DEFINE b == tracker.balances[Amplifier]
           d == tracker.depositBalances[Amplifier][Brrr]
<1>2. b \in Nat /\ d \in Nat
  BY <1>1 DEF TrackerState, PerToken
<1> SUFFICES /\ tracker'.balances[Amplifier] >= b /\ tracker'.balances[Amplifier] \in Int
             /\ tracker'.depositBalances[Amplifier][Brrr] >= d
             /\ tracker'.depositBalances[Amplifier][Brrr] \in Int
  BY <1>2 DEF AmplifierHolds
<1>3. ASSUME NEW a \in TrackerCallers, NEW t \in DepositTokens, NEW amount \in Amounts,
             Stake(a, t, amount)
      PROVE  tracker'.balances[Amplifier] = b /\ tracker'.depositBalances[Amplifier][Brrr] = d
  <2> DEFINE r == Staked(tracker, a, a, t, amount)
  <2>1. a \in Accounts \ {Amplifier} /\ amount \in Nat /\ amount \in Int
    BY <1>1
  <2>2. CanStake(tracker, a, a, t, amount) /\ tracker' = r
    BY <1>3 DEF Stake
  <2>3. Sound(r) /\ StakeBy(tracker, r, a, t, amount)
    BY <1>1, <2>1, <2>2, StakedSound
  <2> HIDE DEF r
  <2> QED BY <1>1, <2>1, <2>2, <2>3, OthersHeld
<1>4. ASSUME NEW a \in TrackerCallers, NEW t \in DepositTokens, NEW amount \in Amounts,
             Unstake(a, t, amount, a)
      PROVE  tracker'.balances[Amplifier] = b /\ tracker'.depositBalances[Amplifier][Brrr] = d
  <2> DEFINE r == Unstaked(tracker, a, t, amount, a)
  <2>1. a \in Accounts \ {Amplifier} /\ amount \in Nat /\ 0 - amount \in Int
    BY <1>1
  <2>2. CanUnstake(tracker, a, t, amount) /\ tracker' = r
    BY <1>4 DEF Unstake
  <2>3. Sound(r) /\ StakeBy(tracker, r, a, t, 0 - amount)
    BY <1>1, <2>1, <2>2, UnstakedSound
  <2> HIDE DEF r
  <2> QED BY <1>1, <2>1, <2>2, <2>3, OthersHeld
<1>5. ASSUME NEW sender \in TrackerCallers, NEW recipient \in Accounts, NEW amount \in Amounts,
             TransferStaked(sender, recipient, amount)
      PROVE  /\ tracker'.balances[Amplifier] = b + (IF Amplifier = recipient THEN amount ELSE 0)
             /\ tracker'.depositBalances[Amplifier][Brrr]
                  = d + (IF Amplifier = recipient THEN amount ELSE 0)
  <2> DEFINE r == StakeTransferred(tracker, sender, recipient, amount)
  <2>1. sender \in Accounts /\ sender # Amplifier /\ amount \in Nat
    BY <1>1
  <2>2. CanTransferStaked(tracker, sender, recipient, amount) /\ tracker' = r
    BY <1>5 DEF TransferStaked
  <2>3. \A a \in Accounts :
           /\ r.balances[a] = tracker.balances[a] + (IF a = sender THEN 0 - amount ELSE 0)
                                                  + (IF a = recipient THEN amount ELSE 0)
           /\ r.depositBalances[a][Brrr]
                = tracker.depositBalances[a][Brrr] + (IF a = sender THEN 0 - amount ELSE 0)
                                                   + (IF a = recipient THEN amount ELSE 0)
    BY <1>1, <2>1, <2>2, TransferredStakes
  <2> HIDE DEF r
  <2>4. /\ r.balances[Amplifier] = b + 0 + (IF Amplifier = recipient THEN amount ELSE 0)
        /\ r.depositBalances[Amplifier][Brrr]
             = d + 0 + (IF Amplifier = recipient THEN amount ELSE 0)
    BY <1>1, <2>1, <2>3
  <2> HIDE DEF b, d
  <2> QED BY <1>2, <2>1, <2>2, <2>4
<1>6. ASSUME NEW sender \in TrackerCallers, NEW recipient \in Accounts, NEW amount \in Amounts,
             Transfer(sender, recipient, amount)
      PROVE  /\ tracker'.balances[Amplifier] = b + (IF Amplifier = recipient THEN amount ELSE 0)
             /\ tracker'.depositBalances[Amplifier][Brrr] = d
  <2> DEFINE f == [tracker.balances EXCEPT ![sender] = tracker.balances[sender] - amount]
             g == [f EXCEPT ![recipient] = f[recipient] + amount]
  <2>1. sender \in Accounts /\ sender # Amplifier /\ amount \in Nat
    BY <1>1
  <2>2. tracker' = [tracker EXCEPT !.balances = g]
    BY <1>6 DEF Transfer, SharesMoved
  <2>3. tracker'.balances = g /\ tracker'.depositBalances = tracker.depositBalances
    BY <1>1, <2>2 DEF TrackerState
  <2>4. f[Amplifier] = b /\ Amplifier \in DOMAIN f
    BY <1>1, <2>1 DEF TrackerState
  <2>5. g[Amplifier] = IF Amplifier = recipient THEN b + amount ELSE b
    <3> HIDE DEF f, b
    <3> QED BY <2>4
  <2> HIDE DEF f, g, b
  <2> QED BY <1>2, <2>1, <2>3, <2>5
<1>7. ASSUME SameShares(tracker, tracker')
      PROVE  tracker'.balances[Amplifier] = b /\ tracker'.depositBalances[Amplifier][Brrr] = d
  BY <1>7 DEF SameShares
<1>8. ASSUME NEW a \in TrackerCallers, ClaimReward(a)
      PROVE  SameShares(tracker, tracker')
  <2>1. a \in Accounts /\ CanClaim(tracker, a) /\ tracker' = Claimed(tracker, a)
    BY <1>1, <1>8 DEF ClaimReward
  <2>2. SameStakes(tracker, Claimed(tracker, a))
    BY <1>1, <2>1, ClaimedStakes
  <2> QED BY <2>1, <2>2 DEF SameShares, SameStakes
<1>9. ASSUME UpdateRewards
      PROVE  SameShares(tracker, tracker')
  <2>1. tracker' = UpdatedRewards(tracker, NoAccount)
    BY <1>9 DEF UpdateRewards
  <2>2. SameStakes(tracker, UpdatedRewards(tracker, NoAccount))
    BY <1>1, UpdateSound
  <2> QED BY <2>1, <2>2 DEF SameShares, SameStakes
<1>10. ASSUME AdminCall
       PROVE  SameShares(tracker, tracker')
  <2>1. ASSUME NEW rate \in Rates, SetDistributorRewards(rate)
        PROVE  SameShares(tracker, tracker')
    <3>1. rate \in Nat
      BY TrackerAssumption
    <3>2. tracker' = TokensPerIntervalSet(LastDistributionTimeUpdated(tracker), rate)
      BY <2>1 DEF SetDistributorRewards
    <3> QED BY <1>1, <3>1, <3>2, RateSound
  <2>2. ASSUME NEW t \in DepositTokens, NEW isDeposit \in DepositSettings,
               SetDepositToken(t, isDeposit)
        PROVE  SameShares(tracker, tracker')
    BY <1>1, <2>2 DEF SetDepositToken, SameShares, TrackerState
  <2>3. ASSUME NEW amount \in Fundings, WithdrawToken(amount)
        PROVE  SameShares(tracker, tracker')
    BY <1>1, <2>3 DEF WithdrawToken, SameShares, TrackerState
  <2>4. ASSUME NEW amount \in Fundings, Fund(amount)
        PROVE  SameShares(tracker, tracker')
    BY <1>1, <2>4 DEF Fund, SameShares, TrackerState
  <2> QED BY <1>10, <2>1, <2>2, <2>3, <2>4 DEF AdminCall
<1> HIDE DEF b, d
<1>11. CASE AccountCall(TrackerCallers)
  <2>1. /\ \A a \in TrackerCallers : ClaimReward(a) => SameShares(tracker, tracker')
        /\ UpdateRewards => SameShares(tracker, tracker')
    BY <1>8, <1>9
  <2>2. CASE \E a \in TrackerCallers, t \in DepositTokens, amount \in Amounts :
                Stake(a, t, amount) \/ Unstake(a, t, amount, a)
    BY <1>2, <1>3, <1>4, <2>2
  <2>3. CASE \E sender \in TrackerCallers, recipient \in Accounts, amount \in Amounts :
                TransferStaked(sender, recipient, amount) \/ Transfer(sender, recipient, amount)
    <3>1. PICK sender \in TrackerCallers, recipient \in Accounts, amount \in Amounts :
                TransferStaked(sender, recipient, amount) \/ Transfer(sender, recipient, amount)
      BY <2>3
    <3>2. amount \in Nat
      BY <1>1
    <3> QED BY <1>2, <1>5, <1>6, <3>1, <3>2
  <2>4. CASE SameShares(tracker, tracker')
    BY <1>2, <1>7, <2>4
  <2> QED BY <1>11, <2>1, <2>2, <2>3, <2>4 DEF AccountCall
<1> QED BY <1>2, <1>7, <1>10, <1>11

-----------------------------------------------------------------------------
(* A position that comes or goes.                                          *)

\* A list without repetitions stays one when a new id is appended ...
LEMMA ListAppended ==
    ASSUME NEW ids \in Seq(Ids), IsInjective(ids), NEW id \in Ids, id \notin Range(ids)
    PROVE  /\ Append(ids, id) \in Seq(Ids) /\ IsInjective(Append(ids, id))
           /\ Range(Append(ids, id)) = Range(ids) \cup {id}
<1> DEFINE r == Append(ids, id)
           n == Len(ids)
<1>1. /\ n \in Nat /\ DOMAIN ids = 1..n /\ DOMAIN r = 1..(n + 1) /\ r \in Seq(Ids)
      /\ r[n + 1] = id /\ \A i \in 1..n : r[i] = ids[i]
  OBVIOUS
<1>2. IsInjective(r)
  BY <1>1 DEF IsInjective, Range
<1>3. Range(r) = Range(ids) \cup {id}
  <2>1. \A i \in 1..(n + 1) : i \in 1..n \/ i = n + 1
    BY <1>1
  <2>2. n + 1 \in 1..(n + 1) /\ \A i \in 1..n : i \in 1..(n + 1)
    BY <1>1
  <2> HIDE DEF n, r
  <2> QED BY <1>1, <2>1, <2>2 DEF Range
<1> QED BY <1>1, <1>2, <1>3

\* ... and when the last id takes the place of the one removed.
LEMMA ListRemoved ==
    ASSUME NEW ids \in Seq(Ids), IsInjective(ids), NEW id \in Range(ids)
    PROVE  /\ WithoutId(ids, id) \in Seq(Ids) /\ IsInjective(WithoutId(ids, id))
           /\ Range(WithoutId(ids, id)) = Range(ids) \ {id}
<1> DEFINE n == Len(ids)
           i == CHOOSE j \in DOMAIN ids : ids[j] = id
           f == [ids EXCEPT ![i] = ids[Len(ids)]]
           r == SubSeq(f, 1, Len(ids) - 1)
<1>1. n \in Nat /\ DOMAIN ids = 1..n /\ \A j \in 1..n : ids[j] \in Ids
  OBVIOUS
<1>2. i \in 1..n /\ ids[i] = id
  <2>1. \E j \in DOMAIN ids : ids[j] = id
    BY DEF Range
  <2> QED BY <1>1, <2>1
<1> HIDE DEF i
<1>3. n \in 1..n
  BY <1>1, <1>2
<1>4. /\ f \in Seq(Ids) /\ Len(f) = n
      /\ \A j \in 1..n : f[j] = IF j = i THEN ids[n] ELSE ids[j]
  <2>1. f \in [1..n -> Ids]
    BY <1>1, <1>2, <1>3
  <2> QED BY <1>1, <1>2, <1>3, <2>1
<1> HIDE DEF f
<1>5. /\ r \in Seq(Ids) /\ DOMAIN r = 1..(n - 1)
      /\ \A j \in 1..(n - 1) : r[j] = f[j]
  BY <1>1, <1>3, <1>4
<1>6. WithoutId(ids, id) = r
  BY DEF WithoutId, f, i
<1> HIDE DEF r, n
<1>7. \A j \in 1..n, k \in 1..n : ids[j] = ids[k] => j = k
  BY <1>1 DEF IsInjective
<1>8. \A j \in 1..(n - 1) : j \in 1..n /\ j # n
  BY <1>1
<1>9. IsInjective(r)
  BY <1>2, <1>3, <1>4, <1>5, <1>7, <1>8 DEF IsInjective
<1>10. Range(r) = Range(ids) \ {id}
  <2>1. ASSUME NEW x \in Range(r) PROVE x \in Range(ids) \ {id}
    <3>1. PICK j \in 1..(n - 1) : x = r[j]
      BY <1>5 DEF Range
    <3> QED BY <1>1, <1>2, <1>3, <1>4, <1>5, <1>7, <1>8, <3>1 DEF Range
  <2>2. ASSUME NEW x \in Range(ids), x # id PROVE x \in Range(r)
    <3>1. PICK j \in 1..n : x = ids[j]
      BY <1>1 DEF Range
    <3>2. j # i
      BY <1>2, <2>2, <3>1
    <3>3. CASE j # n
      <4>1. j \in 1..(n - 1)
        BY <1>1, <3>3
      <4> QED BY <1>4, <1>5, <3>1, <3>2, <4>1 DEF Range
    <3>4. CASE j = n
      <4>1. i \in 1..(n - 1)
        BY <1>1, <1>2, <3>2, <3>4
      <4> QED BY <1>2, <1>4, <1>5, <3>1, <3>4, <4>1 DEF Range
    <3> QED BY <3>3, <3>4
  <2> QED BY <2>1, <2>2
<1> QED BY <1>5, <1>6, <1>9, <1>10

\* The fields that no change of a position touches.
SameDues(p, r) ==
    /\ r.wethBalance = p.wethBalance
    /\ r.cumulativeRewardPerToken = p.cumulativeRewardPerToken
    /\ r.previousCumulativeRewardPerToken = p.previousCumulativeRewardPerToken
    /\ r.claimableReward = p.claimableReward /\ r.cumulativeRewards = p.cumulativeRewards
    /\ r.lastXpUpdate = p.lastXpUpdate /\ r.totalXpEarned = p.totalXpEarned
    /\ r.seasonEnd = p.seasonEnd /\ r.weights = p.weights /\ r.recovered = p.recovered

\* A total of the users follows a change of one of them.
LEMMA UserSumBy ==
    ASSUME NEW f, NEW g, NEW u \in Users, NEW n \in Int,
           \A v \in Users : f[v] \in Int,
           \A v \in Users : g[v] = f[v] + (IF v = u THEN n ELSE 0)
    PROVE  Sum(g, Users) = Sum(f, Users) + n
<1>1. IsFiniteSet(Users)
  BY UsersFinite
<1> QED BY <1>1, SumBy

\* One position of a user whose rewards were just brought up to date changes by n.
LEMMA PositionKeeps ==
    ASSUME NEW p, Locks(p), NEW r, r \in AmplifierState, SameDues(p, r),
           NEW u \in Users, NEW id \in Ids, NEW n \in Int,
           p.previousCumulativeRewardPerToken[u] = p.cumulativeRewardPerToken,
           p.lastXpUpdate[u] = now,
           p.nextPositionId <= r.nextPositionId,
           ListedFor(r, u),
           \A v \in Users \ {u} : /\ r.positions[v] = p.positions[v]
                                  /\ r.userPositionIds[v] = p.userPositionIds[v],
           \A i \in Ids : r.positions[u][i].depositAmount
                            = p.positions[u][i].depositAmount + (IF i = id THEN n ELSE 0),
           \A v \in Users : r.lockedAmount[v] = p.lockedAmount[v] + (IF v = u THEN n ELSE 0),
           r.contractBalance = p.contractBalance + n
    PROVE  Locks(r)
<1>1. /\ LockTyped(p) /\ Listed(p) /\ LockSums(p) /\ LockMarked(p) /\ LockBacked(p) /\ XpKept(p)
      /\ p \in AmplifierState /\ now \in Nat
  BY DEF Locks, LockTyped
<1>2. LockTyped(r)
  BY <1>1 DEF LockTyped, SameDues
<1>3. Listed(r)
  <2> SUFFICES ASSUME NEW v \in Users \ {u} PROVE ListedFor(r, v)
    BY DEF Listed
  <2>1. ListedFor(p, v) /\ r.positions[v] = p.positions[v] /\ r.userPositionIds[v] = p.userPositionIds[v]
    BY <1>1 DEF Listed
  <2>2. p.nextPositionId \in Int /\ r.nextPositionId \in Int
    BY <1>1, AmplifierAssumption DEF AmplifierState
  <2>3. \A i \in Ids : i < p.nextPositionId => i < r.nextPositionId
    BY <2>2, AmplifierAssumption DEF Ids
  <2> QED BY <2>1, <2>3 DEF ListedFor
<1>4. LockSums(r)
  <2>1. ASSUME NEW v \in Users
        PROVE  /\ \A i \in Ids : Deposits(p, v)[i] \in Nat /\ Deposits(p, v)[i] \in Int
               /\ p.lockedAmount[v] \in Int
               /\ p.lockedAmount[v] = Sum(Deposits(p, v), Ids)
    <3>1. \A i \in Ids : /\ Deposits(p, v)[i] = p.positions[v][i].depositAmount
                         /\ p.positions[v][i].depositAmount \in Nat
      BY <1>1 DEF AmplifierState, Position, Deposits
    <3>2. p.lockedAmount[v] \in Int /\ p.lockedAmount[v] = Sum(Deposits(p, v), Ids)
      BY <1>1 DEF AmplifierState, LockSums
    <3> QED BY <3>1, <3>2
  <2>2. ASSUME NEW v \in Users
        PROVE  r.lockedAmount[v] = Sum(Deposits(r, v), Ids)
    <3>1. CASE v = u
      <4>1. \A i \in Ids : Deposits(r, u)[i] = Deposits(p, u)[i] + (IF i = id THEN n ELSE 0)
        BY DEF Deposits
      <4>2. IsFiniteSet(Ids) /\ \A i \in Ids : Deposits(p, u)[i] \in Int
        BY <2>1, UsersFinite
      <4>3. Sum(Deposits(r, u), Ids) = Sum(Deposits(p, u), Ids) + n
        BY <4>1, <4>2, SumBy
      <4> QED BY <2>1, <3>1, <4>3
    <3>2. CASE v # u
      <4>1. Deposits(r, v) = Deposits(p, v)
        BY <3>2 DEF Deposits
      <4> QED BY <2>1, <3>2, <4>1
    <3> QED BY <3>1, <3>2
  <2>3. r.contractBalance = Sum(r.lockedAmount, Users)
    <3> DEFINE f == p.lockedAmount
               g == r.lockedAmount
    <3>1. IsFiniteSet(Users) /\ \A v \in Users : f[v] \in Int
      BY <2>1, UsersFinite
    <3>2. Sum(r.lockedAmount, Users) = Sum(p.lockedAmount, Users) + n
      <4>1. \A v \in Users : g[v] = f[v] + (IF v = u THEN n ELSE 0)
        OBVIOUS
      <4> HIDE DEF f, g
      <4>2. Sum(g, Users) = Sum(f, Users) + n
        BY <3>1, <4>1, UserSumBy
      <4> QED BY <4>2 DEF f, g
    <3> QED BY <1>1, <3>2 DEF LockSums
  <2> QED BY <2>2, <2>3 DEF LockSums
<1>5. LockMarked(r)
  BY <1>1 DEF LockMarked, SameDues
<1>6. LockBacked(r)
  <2>1. ASSUME NEW v \in Users
        PROVE  LockUnrounded(r, v) = LockUnrounded(p, v)
    <3>1. CASE v = u
      <4>1. /\ p.cumulativeRewardPerToken \in Nat /\ p.lockedAmount[u] \in Nat
            /\ r.lockedAmount[u] \in Nat
        BY <1>1 DEF AmplifierState
      <4> QED BY <3>1, <4>1 DEF LockUnrounded, SameDues
    <3>2. CASE v # u
      <4>1. p.lockedAmount[v] \in Nat
        BY <1>1 DEF AmplifierState
      <4>2. r.lockedAmount[v] = p.lockedAmount[v]
        BY <3>2, <4>1
      <4> QED BY <4>2 DEF LockUnrounded, SameDues
    <3> QED BY <3>1, <3>2
  <2>2. LockOwed(r) = LockOwed(p)
    BY <2>1 DEF LockOwed, SameDues
  <2> QED BY <1>1, <2>2 DEF LockBacked, SameDues
<1>7. XpKept(r)
  <2> SUFFICES ASSUME NEW v \in Users
               PROVE  /\ 100 * p.totalXpEarned[v] <= Sum(p.weights[v], Before(Counted(r, v)))
                      /\ \A time \in 0..MaxTime : p.lastXpUpdate[v] <= time /\ time < now
                                                     => p.weights[v][time] = Weight(r, v)
    BY DEF XpKept, SameDues
  <2>1. Counted(r, v) = Counted(p, v)
    BY DEF Counted, SameDues
  <2>2. CASE v = u
    <3>1. \A time \in 0..MaxTime : ~(now <= time /\ time < now)
      BY <1>1, TrackerAssumption
    <3> QED BY <1>1, <2>1, <2>2, <3>1 DEF XpKept
  <2>3. CASE v # u
    <3>1. Weight(r, v) = Weight(p, v)
      BY <2>3, SameWeight
    <3> QED BY <1>1, <2>1, <3>1 DEF XpKept
  <2> QED BY <2>2, <2>3
<1> QED BY <1>2, <1>3, <1>4, <1>5, <1>6, <1>7 DEF Locks

\* A lock of a user whose rewards were just brought up to date.
LEMMA LockKeeps ==
    ASSUME NEW p, Locks(p), NEW u \in Users, NEW tier \in Tiers, NEW amount \in Nat \ {0},
           p.nextPositionId < MaxPositions,
           p.previousCumulativeRewardPerToken[u] = p.cumulativeRewardPerToken,
           p.lastXpUpdate[u] = now
    PROVE  LET r == NewPosition(p, u, tier, amount)
           IN /\ Locks(r) /\ r.contractBalance = p.contractBalance + amount
              /\ r.recovered = p.recovered
<1> DEFINE id == p.nextPositionId
           new == [depositAmount |-> amount, multiplier |-> Multipliers[tier],
                   unlockDate |-> now + Durations[tier]]
           mine == [p.positions[u] EXCEPT ![id] = new]
           all == [p.positions EXCEPT ![u] = mine]
           ids == Append(p.userPositionIds[u], id)
           lists == [p.userPositionIds EXCEPT ![u] = ids]
           next == id + 1
           mineLocked == p.lockedAmount[u] + amount
           locked == [p.lockedAmount EXCEPT ![u] = mineLocked]
           balance == p.contractBalance + amount
           r == NewPosition(p, u, tier, amount)
<1>1. /\ p \in AmplifierState /\ now \in Nat /\ ListedFor(p, u)
      /\ p.positions \in [Users -> [Ids -> Position]] /\ p.userPositionIds \in [Users -> Seq(Ids)]
      /\ p.lockedAmount \in [Users -> Nat] /\ p.contractBalance \in Nat
      /\ p.nextPositionId \in 0..MaxPositions
  BY DEF Locks, LockTyped, Listed, AmplifierState
<1>2. id \in Ids /\ next \in 0..MaxPositions /\ id \in Int
  BY <1>1, AmplifierAssumption DEF Ids
<1>3. r = [p EXCEPT !.positions = all, !.userPositionIds = lists, !.nextPositionId = next,
                    !.lockedAmount = locked, !.contractBalance = balance]
  BY DEF NewPosition
<1>4. new \in Position /\ new.depositAmount = amount
  BY <1>1, AmplifierAssumption DEF Position, Tiers
<1>5. p.positions[u][id] = NoPosition /\ id \notin Range(p.userPositionIds[u])
  BY <1>1, <1>2 DEF ListedFor
<1>6. new # NoPosition
  BY DEF NoPosition
<1> HIDE DEF new
<1>7. /\ mine \in [Ids -> Position] /\ all \in [Users -> [Ids -> Position]]
      /\ all[u] = mine /\ mine[id] = new
      /\ \A v \in Users \ {u} : all[v] = p.positions[v]
      /\ \A i \in Ids \ {id} : mine[i] = p.positions[u][i]
  BY <1>1, <1>2, <1>4
<1>8. p.userPositionIds[u] \in Seq(Ids) /\ IsInjective(p.userPositionIds[u])
  BY <1>1 DEF ListedFor
<1>9. /\ ids \in Seq(Ids) /\ IsInjective(ids)
      /\ Range(ids) = Range(p.userPositionIds[u]) \cup {id}
  BY <1>2, <1>5, <1>8, ListAppended
<1> HIDE DEF ids, mine
<1>10. /\ lists \in [Users -> Seq(Ids)] /\ lists[u] = ids
       /\ \A v \in Users \ {u} : lists[v] = p.userPositionIds[v]
  BY <1>1, <1>9
<1>11. mineLocked \in Nat /\ balance \in Nat
  BY <1>1
<1>12. /\ locked \in [Users -> Nat]
       /\ \A v \in Users : locked[v] = p.lockedAmount[v] + (IF v = u THEN amount ELSE 0)
  <2>1. mineLocked = p.lockedAmount[u] + amount
    OBVIOUS
  <2> HIDE DEF mineLocked
  <2> QED BY <1>1, <1>11, <2>1
<1>13. balance = p.contractBalance + amount /\ next = id + 1 /\ next > id
  BY <1>2
<1> HIDE DEF all, lists, next, locked, balance, r
<1>14. /\ r \in AmplifierState /\ SameDues(p, r) /\ r.positions = all /\ r.userPositionIds = lists
       /\ r.nextPositionId = next /\ r.lockedAmount = locked /\ r.contractBalance = balance
       /\ r.recovered = p.recovered
  BY <1>1, <1>2, <1>3, <1>7, <1>10, <1>11, <1>12 DEF AmplifierState, SameDues
<1>15. ListedFor(r, u)
  <2>1. \A i \in Ids : i < id => i < next
    BY <1>2, <1>13, AmplifierAssumption DEF Ids
  <2>2. \A i \in Ids : i \in Range(ids) <=> mine[i] # NoPosition
    BY <1>1, <1>6, <1>7, <1>9 DEF ListedFor
  <2>3. \A i \in Ids : mine[i] # NoPosition => mine[i].depositAmount > 0 /\ i < next
    BY <1>1, <1>4, <1>7, <1>13, <2>1 DEF ListedFor
  <2> QED BY <1>7, <1>9, <1>10, <1>14, <2>2, <2>3 DEF ListedFor
<1>16. \A i \in Ids : r.positions[u][i].depositAmount
                        = p.positions[u][i].depositAmount + (IF i = id THEN amount ELSE 0)
  <2> TAKE i \in Ids
  <2>1. p.positions[u][i].depositAmount \in Nat
    BY <1>1 DEF Position
  <2>2. p.positions[u][id].depositAmount = 0
    BY <1>5 DEF NoPosition
  <2> QED BY <1>4, <1>7, <1>14, <2>1, <2>2
<1>17. p.nextPositionId <= r.nextPositionId
  BY <1>2, <1>13, <1>14
<1>18. amount \in Int /\ r.contractBalance = p.contractBalance + amount
  BY <1>13, <1>14
<1>19. \A v \in Users : r.lockedAmount[v] = p.lockedAmount[v] + (IF v = u THEN amount ELSE 0)
  BY <1>12, <1>14
<1>20. \A v \in Users \ {u} : /\ r.positions[v] = p.positions[v]
                              /\ r.userPositionIds[v] = p.userPositionIds[v]
  BY <1>7, <1>10, <1>14
<1> HIDE DEF id
<1>21. Locks(r)
  BY <1>2, <1>14, <1>15, <1>16, <1>17, <1>18, <1>19, <1>20, PositionKeeps
<1> QED BY <1>14, <1>18, <1>21 DEF r

\* A position is part of what its owner has locked, and that of what the amplifier holds.
LEMMA DepositLocked ==
    ASSUME NEW p, p \in AmplifierState, LockSums(p), NEW u \in Users, NEW id \in Ids
    PROVE  /\ p.positions[u][id].depositAmount <= p.lockedAmount[u]
           /\ p.lockedAmount[u] <= p.contractBalance
<1>1. \A i \in Ids : Deposits(p, u)[i] \in Nat
  BY DEF AmplifierState, Position, Deposits
<1>2. Deposits(p, u)[id] <= Sum(Deposits(p, u), Ids)
  BY <1>1, UsersFinite, SumNat
<1>3. \A v \in Users : p.lockedAmount[v] \in Nat
  BY DEF AmplifierState
<1>4. p.lockedAmount[u] <= Sum(p.lockedAmount, Users)
  BY <1>3, UsersFinite, SumNat
<1> QED BY <1>2, <1>4 DEF LockSums, Deposits

\* An unlock of a user whose rewards were just brought up to date.
LEMMA UnlockKeeps ==
    ASSUME NEW p, Locks(p), NEW u \in Users, NEW id \in Ids,
           p.positions[u][id].depositAmount > 0,
           p.previousCumulativeRewardPerToken[u] = p.cumulativeRewardPerToken,
           p.lastXpUpdate[u] = now
    PROVE  LET r == PositionRemoved(p, u, id)
           IN /\ Locks(r)
              /\ r.contractBalance = p.contractBalance - p.positions[u][id].depositAmount
              /\ r.recovered = p.recovered
<1> DEFINE deposit == p.positions[u][id].depositAmount
           mine == [p.positions[u] EXCEPT ![id] = NoPosition]
           all == [p.positions EXCEPT ![u] = mine]
           ids == WithoutId(p.userPositionIds[u], id)
           lists == [p.userPositionIds EXCEPT ![u] = ids]
           mineLocked == p.lockedAmount[u] - deposit
           locked == [p.lockedAmount EXCEPT ![u] = mineLocked]
           balance == p.contractBalance - deposit
           n == 0 - deposit
           r == PositionRemoved(p, u, id)
<1>1. /\ p \in AmplifierState /\ now \in Nat /\ ListedFor(p, u) /\ LockSums(p)
      /\ p.positions \in [Users -> [Ids -> Position]] /\ p.userPositionIds \in [Users -> Seq(Ids)]
      /\ p.lockedAmount \in [Users -> Nat] /\ p.contractBalance \in Nat
      /\ p.nextPositionId \in 0..MaxPositions
  BY DEF Locks, LockTyped, Listed, AmplifierState
<1>2. deposit \in Nat /\ deposit <= p.lockedAmount[u] /\ deposit <= p.contractBalance
  <2>1. deposit \in Nat
    BY <1>1 DEF Position
  <2>2. deposit <= p.lockedAmount[u] /\ p.lockedAmount[u] <= p.contractBalance
    BY <1>1, DepositLocked
  <2>3. p.lockedAmount[u] \in Nat
    BY <1>1
  <2> HIDE DEF deposit
  <2> QED BY <1>1, <2>1, <2>2, <2>3
<1>3. r = [p EXCEPT !.positions = all, !.userPositionIds = lists,
                    !.lockedAmount = locked, !.contractBalance = balance]
  BY DEF PositionRemoved
<1>4. NoPosition \in Position /\ NoPosition.depositAmount = 0
  BY DEF Position, NoPosition
<1>5. p.positions[u][id] # NoPosition /\ id \in Range(p.userPositionIds[u])
  BY <1>1, <1>4 DEF ListedFor
<1>6. /\ mine \in [Ids -> Position] /\ all \in [Users -> [Ids -> Position]]
      /\ all[u] = mine /\ mine[id] = NoPosition
      /\ \A v \in Users \ {u} : all[v] = p.positions[v]
      /\ \A i \in Ids \ {id} : mine[i] = p.positions[u][i]
  BY <1>1, <1>4
<1>7. p.userPositionIds[u] \in Seq(Ids) /\ IsInjective(p.userPositionIds[u])
  BY <1>1 DEF ListedFor
<1>8. /\ ids \in Seq(Ids) /\ IsInjective(ids)
      /\ Range(ids) = Range(p.userPositionIds[u]) \ {id}
  BY <1>5, <1>7, ListRemoved
<1> HIDE DEF ids, mine
<1>9. /\ lists \in [Users -> Seq(Ids)] /\ lists[u] = ids
      /\ \A v \in Users \ {u} : lists[v] = p.userPositionIds[v]
  BY <1>1, <1>8
<1>10. mineLocked \in Nat /\ balance \in Nat /\ mineLocked = p.lockedAmount[u] + n
       /\ balance = p.contractBalance + n /\ n \in Int /\ deposit + n = 0
  <2>1. p.lockedAmount[u] \in Nat
    BY <1>1
  <2> HIDE DEF deposit
  <2> QED BY <1>1, <1>2, <2>1
<1> HIDE DEF mineLocked, balance, n
<1>11. /\ locked \in [Users -> Nat]
       /\ \A v \in Users : locked[v] = p.lockedAmount[v] + (IF v = u THEN n ELSE 0)
  BY <1>1, <1>10
<1> HIDE DEF all, lists, locked, r
<1>12. /\ r \in AmplifierState /\ SameDues(p, r) /\ r.positions = all /\ r.userPositionIds = lists
       /\ r.nextPositionId = p.nextPositionId /\ r.lockedAmount = locked
       /\ r.contractBalance = balance /\ r.recovered = p.recovered
  BY <1>1, <1>3, <1>6, <1>9, <1>10, <1>11 DEF AmplifierState, SameDues
<1>13. ListedFor(r, u)
  <2>1. \A i \in Ids : i \in Range(ids) <=> mine[i] # NoPosition
    BY <1>1, <1>6, <1>8 DEF ListedFor
  <2>2. \A i \in Ids : mine[i] # NoPosition => mine[i].depositAmount > 0 /\ i < p.nextPositionId
    BY <1>1, <1>6 DEF ListedFor
  <2> QED BY <1>6, <1>8, <1>9, <1>12, <2>1, <2>2 DEF ListedFor
<1>14. \A i \in Ids : r.positions[u][i].depositAmount
                        = p.positions[u][i].depositAmount + (IF i = id THEN n ELSE 0)
  <2> TAKE i \in Ids
  <2>1. p.positions[u][i].depositAmount \in Nat
    BY <1>1 DEF Position
  <2>2. CASE i = id
    BY <1>4, <1>6, <1>10, <1>12, <2>2
  <2>3. CASE i # id
    BY <1>6, <1>12, <2>1, <2>3
  <2> QED BY <2>2, <2>3
<1>15. p.nextPositionId <= r.nextPositionId
  BY <1>1, <1>12, AmplifierAssumption
<1>16. n \in Int /\ r.contractBalance = p.contractBalance + n
  BY <1>10, <1>12
<1>17. \A v \in Users : r.lockedAmount[v] = p.lockedAmount[v] + (IF v = u THEN n ELSE 0)
  BY <1>11, <1>12
<1>18. \A v \in Users \ {u} : /\ r.positions[v] = p.positions[v]
                              /\ r.userPositionIds[v] = p.userPositionIds[v]
  BY <1>6, <1>9, <1>12
<1>19. Locks(r)
  BY <1>12, <1>13, <1>14, <1>15, <1>16, <1>17, <1>18, PositionKeeps
<1> QED BY <1>12, <1>19 DEF r, balance

-----------------------------------------------------------------------------
(* The amplifier's transactions.                                           *)

Good(x) == Sound(x.tracker) /\ Locks(x.amplifier) /\ AmplifierHolds(x.tracker, x.amplifier)

\* _updateRewards, with the claim it starts with.
LEMMA UpdatedGood ==
    ASSUME NEW x, Good(x), NEW u \in Users, CanUpdate(x, u)
    PROVE  LET y == Updated(x, u)
           IN /\ Good(y) /\ SameStakes(x.tracker, y.tracker)
              /\ SameLocks(x.amplifier, y.amplifier)
              /\ y.amplifier.previousCumulativeRewardPerToken[u]
                   = y.amplifier.cumulativeRewardPerToken
              /\ y.amplifier.lastXpUpdate[u] = now
              /\ y = [tracker |-> y.tracker, amplifier |-> y.amplifier]
<1> DEFINE t == x.tracker
           p == x.amplifier
           y == Updated(x, u)
<1>1. Sound(t) /\ Locks(p) /\ AmplifierHolds(t, p) /\ Amplifier \in Accounts
  BY AmplifierAssumption DEF Good
<1>2. /\ CanUpdate([tracker |-> t, amplifier |-> p], u)
      /\ Updated([tracker |-> t, amplifier |-> p], u) = y
  BY DEF CanUpdate, Updated
<1>3. CanClaim(t, Amplifier)
  BY DEF CanUpdate
<1> HIDE DEF t, p, y
<1>4. /\ y = [tracker |-> Claimed(t, Amplifier), amplifier |-> y.amplifier]
      /\ Locks(y.amplifier) /\ SameLocks(p, y.amplifier)
      /\ y.amplifier.previousCumulativeRewardPerToken[u] = y.amplifier.cumulativeRewardPerToken
      /\ y.amplifier.lastXpUpdate[u] = now
  <2> DEFINE w == Updated([tracker |-> t, amplifier |-> p], u)
  <2>1. /\ w = [tracker |-> Claimed(t, Amplifier), amplifier |-> w.amplifier]
        /\ Locks(w.amplifier) /\ SameLocks(p, w.amplifier)
        /\ w.amplifier.previousCumulativeRewardPerToken[u]
             = w.amplifier.cumulativeRewardPerToken
        /\ w.amplifier.lastXpUpdate[u] = now
    BY <1>1, <1>2, UpdatedKeeps
  <2>2. w = y
    BY <1>2
  <2> HIDE DEF w
  <2> QED BY <2>1, <2>2
<1>5. y.tracker = Claimed(t, Amplifier)
  BY <1>4
<1>6. Sound(y.tracker) /\ SameStakes(t, y.tracker)
  BY <1>1, <1>3, <1>5, ClaimedSound, ClaimedStakes
<1>7. AmplifierHolds(y.tracker, y.amplifier)
  BY <1>1, <1>4, <1>6 DEF AmplifierHolds, SameStakes, SameLocks
<1> QED BY <1>4, <1>5, <1>6, <1>7 DEF Good, t, p, y

\* lockLiquidity: the shares arrive before the position counts them.
LEMMA LockGood ==
    ASSUME Good(State), NEW u \in Users, NEW tier \in Tiers, NEW amount \in LockAmounts,
           LockLiquidity(u, tier, amount)
    PROVE  \E z : Good(z) /\ Becomes(z)
<1> DEFINE t == StakeTransferred(tracker, u, Amplifier, amount)
           p == amplifier
           x == Arrived(u, amount)
           y == Updated(x, u)
           r == NewPosition(y.amplifier, u, tier, amount)
           z == [tracker |-> y.tracker, amplifier |-> r]
<1>1. /\ u \in Accounts /\ Amplifier \in Accounts /\ u # Amplifier
      /\ amount \in Nat \ {0} /\ amount \in Nat /\ Brrr \in DepositTokens
  BY AmplifierAssumption, TrackerAssumption DEF Users
<1>2. Sound(tracker) /\ Locks(p) /\ AmplifierHolds(tracker, p) /\ p \in AmplifierState
  BY DEF Good, State, Locks, LockTyped
<1>3. CanTransferStaked(tracker, u, Amplifier, amount)
  BY DEF LockLiquidity
<1>4. Sound(t)
  BY <1>1, <1>2, <1>3, TransferredSound
<1>5. /\ t.balances[Amplifier] = tracker.balances[Amplifier] + amount
      /\ t.depositBalances[Amplifier][Brrr]
           = tracker.depositBalances[Amplifier][Brrr] + amount
      /\ tracker.balances[Amplifier] \in Nat
      /\ tracker.depositBalances[Amplifier][Brrr] \in Nat
  <2>1. /\ t.balances[Amplifier] = tracker.balances[Amplifier] + 0 + amount
        /\ t.depositBalances[Amplifier][Brrr]
             = tracker.depositBalances[Amplifier][Brrr] + 0 + amount
    BY <1>1, <1>2, <1>3, TransferredStakes
  <2>2. /\ tracker.balances[Amplifier] \in Nat
        /\ tracker.depositBalances[Amplifier][Brrr] \in Nat
    BY <1>1, <1>2 DEF Sound, Typed, TrackerState, PerToken
  <2> HIDE DEF t
  <2> QED BY <1>1, <2>1, <2>2
<1>6. x = [tracker |-> t, amplifier |-> p]
  BY DEF Arrived, State
<1> HIDE DEF t, x
<1>7. p.contractBalance \in Nat
  BY <1>2 DEF AmplifierState
<1>8. AmplifierHolds(t, p)
  BY <1>1, <1>2, <1>5, <1>7 DEF AmplifierHolds
<1>9. Good(x) /\ CanUpdate(x, u)
  <2>1. CanUpdate(x, u)
    BY DEF LockLiquidity, x
  <2> QED BY <1>2, <1>4, <1>6, <1>8, <2>1 DEF Good
<1>10. /\ Good(y) /\ SameStakes(x.tracker, y.tracker) /\ SameLocks(x.amplifier, y.amplifier)
       /\ y.amplifier.previousCumulativeRewardPerToken[u] = y.amplifier.cumulativeRewardPerToken
       /\ y.amplifier.lastXpUpdate[u] = now
       /\ y = [tracker |-> y.tracker, amplifier |-> y.amplifier]
  BY <1>9, UpdatedGood
<1>11. Becomes(z)
  <2>1. Becomes([y EXCEPT !.amplifier = r])
    BY DEF LockLiquidity, x
  <2> HIDE DEF y, r
  <2>2. [y EXCEPT !.amplifier = r] = [tracker |-> y.tracker, amplifier |-> r]
    BY <1>10
  <2> QED BY <2>1, <2>2
<1>12. p.nextPositionId < MaxPositions
  BY DEF LockLiquidity
<1> HIDE DEF y
<1>13. /\ y.amplifier.nextPositionId < MaxPositions
       /\ y.amplifier.contractBalance = p.contractBalance
       /\ y.amplifier.recovered = p.recovered
       /\ y.tracker.balances = t.balances /\ y.tracker.depositBalances = t.depositBalances
       /\ Sound(y.tracker) /\ Locks(y.amplifier)
  BY <1>6, <1>10, <1>12 DEF SameLocks, SameStakes, Good
<1>14. /\ Locks(r) /\ r.contractBalance = y.amplifier.contractBalance + amount
       /\ r.recovered = y.amplifier.recovered
  BY <1>1, <1>10, <1>13, LockKeeps
<1> HIDE DEF r, p
<1>15. AmplifierHolds(y.tracker, r)
  BY <1>1, <1>2, <1>5, <1>7, <1>13, <1>14 DEF AmplifierHolds
<1> QED BY <1>11, <1>13, <1>14, <1>15 DEF Good

\* unlockLiquidity, of any position.
LEMMA UnlockedGood ==
    ASSUME NEW x, Good(x), NEW u \in Users, NEW id \in Ids, CanUnlock(x, u, id)
    PROVE  Good(Unlocked(x, u, id))
<1> DEFINE p == x.amplifier
           deposit == p.positions[u][id].depositAmount
           y == Updated(x, u)
           t == StakeTransferred(y.tracker, Amplifier, u, deposit)
           r == PositionRemoved(y.amplifier, u, id)
<1>1. /\ u \in Accounts /\ Amplifier \in Accounts /\ u # Amplifier /\ Brrr \in DepositTokens
  BY AmplifierAssumption, TrackerAssumption DEF Users
<1>2. /\ deposit > 0 /\ CanUpdate(x, u) /\ CanTransferStaked(y.tracker, Amplifier, u, deposit)
  BY DEF CanUnlock
<1>3. deposit \in Nat /\ p.contractBalance \in Nat
  <2>1. p \in AmplifierState
    BY DEF Good, Locks, LockTyped
  <2> HIDE DEF p
  <2>2. p.positions[u][id] \in Position /\ p.contractBalance \in Nat
    BY <2>1 DEF AmplifierState
  <2> QED BY <2>2 DEF Position
<1>4. /\ Good(y) /\ SameLocks(p, y.amplifier)
      /\ y.amplifier.previousCumulativeRewardPerToken[u] = y.amplifier.cumulativeRewardPerToken
      /\ y.amplifier.lastXpUpdate[u] = now
  BY <1>2, UpdatedGood
<1>5. Unlocked(x, u, id) = [tracker |-> t, amplifier |-> r]
  BY DEF Unlocked
<1> HIDE DEF y
<1>6. /\ Sound(y.tracker) /\ Locks(y.amplifier) /\ AmplifierHolds(y.tracker, y.amplifier)
      /\ y.amplifier.positions = p.positions /\ y.amplifier.contractBalance = p.contractBalance
  BY <1>4 DEF Good, SameLocks
<1>7. /\ Locks(r) /\ r.contractBalance = p.contractBalance - deposit
      /\ r.recovered = y.amplifier.recovered
  <2>1. y.amplifier.positions[u][id].depositAmount = deposit
    BY <1>6
  <2>2. /\ Locks(r)
        /\ r.contractBalance
             = y.amplifier.contractBalance - y.amplifier.positions[u][id].depositAmount
        /\ r.recovered = y.amplifier.recovered
    BY <1>2, <1>4, <1>6, <2>1, UnlockKeeps
  <2> HIDE DEF r, deposit, p
  <2> QED BY <1>6, <2>1, <2>2
<1> HIDE DEF r, deposit
<1>8. Sound(t)
  BY <1>1, <1>2, <1>3, <1>6, TransferredSound
<1>9. /\ t.balances[Amplifier] = y.tracker.balances[Amplifier] - deposit
      /\ t.depositBalances[Amplifier][Brrr]
           = y.tracker.depositBalances[Amplifier][Brrr] - deposit
      /\ y.tracker.balances[Amplifier] \in Nat
      /\ y.tracker.depositBalances[Amplifier][Brrr] \in Nat
  <2>1. /\ t.balances[Amplifier] = y.tracker.balances[Amplifier] + (0 - deposit) + 0
        /\ t.depositBalances[Amplifier][Brrr]
             = y.tracker.depositBalances[Amplifier][Brrr] + (0 - deposit) + 0
    BY <1>1, <1>2, <1>3, <1>6, TransferredStakes
  <2>2. /\ y.tracker.balances[Amplifier] \in Nat
        /\ y.tracker.depositBalances[Amplifier][Brrr] \in Nat
    BY <1>1, <1>6 DEF Sound, Typed, TrackerState, PerToken
  <2> HIDE DEF t
  <2> QED BY <1>3, <2>1, <2>2
<1> HIDE DEF t, p
<1>10. AmplifierHolds(t, r)
  BY <1>3, <1>6, <1>7, <1>9 DEF AmplifierHolds
<1> QED BY <1>5, <1>7, <1>8, <1>10 DEF Good

-----------------------------------------------------------------------------
(* unlockAllPositions: the positions of the list, one after the other.     *)

\* The function that UnlockEach defines by recursion on the list exists.
Unrolled(x, u, ids, N, g) ==
    g = [n \in 0..N |-> IF n = 0 THEN [after |-> x, reverted |-> FALSE]
                        ELSE UnlockOne(g[n - 1], u, ids[n])]

LEMMA UnrolledExists ==
    ASSUME NEW x, NEW u, NEW ids, NEW L \in Nat
    PROVE  \E g : Unrolled(x, u, ids, L, g)
<1> DEFINE B == {N \in 0..L : \E g : Unrolled(x, u, ids, N, g)}
           first == [after |-> x, reverted |-> FALSE]
<1>1. 0 \in B
  <2> DEFINE g == [n \in 0..0 |-> first]
  <2>1. \A n \in 0..0 : n = 0
    OBVIOUS
  <2>2. g = [n \in 0..0 |-> IF n = 0 THEN first ELSE UnlockOne(g[n - 1], u, ids[n])]
    BY <2>1
  <2>3. Unrolled(x, u, ids, 0, g)
    BY <2>2 DEF Unrolled
  <2> HIDE DEF g
  <2>4. 0 \in 0..L
    OBVIOUS
  <2> QED BY <2>3, <2>4
<1>2. ASSUME NEW N \in B, N < L
      PROVE  N + 1 \in B
  <2>1. PICK g : Unrolled(x, u, ids, N, g)
    OBVIOUS
  <2> DEFINE h == [n \in 0..(N + 1) |-> IF n = N + 1 THEN UnlockOne(g[N], u, ids[N + 1])
                                        ELSE g[n]]
  <2>2. N \in Nat /\ N + 1 \in 0..L
    BY <1>2
  <2>3. ASSUME NEW n \in 0..(N + 1)
        PROVE  h[n] = IF n = 0 THEN first ELSE UnlockOne(h[n - 1], u, ids[n])
    <3>1. CASE n = N + 1
      <4>1. n # 0 /\ n - 1 = N /\ N \in 0..(N + 1) /\ N # N + 1
        BY <2>2, <3>1
      <4>2. h[n - 1] = g[N] /\ h[n] = UnlockOne(g[N], u, ids[N + 1])
        BY <3>1, <4>1
      <4> QED BY <3>1, <4>1, <4>2
    <3>2. CASE n # N + 1
      <4>1. n \in 0..N /\ h[n] = g[n]
        BY <2>2, <3>2
      <4>2. g[n] = IF n = 0 THEN first ELSE UnlockOne(g[n - 1], u, ids[n])
        BY <2>1, <4>1 DEF Unrolled
      <4>3. n # 0 => h[n - 1] = g[n - 1]
        BY <2>2, <4>1
      <4> QED BY <4>1, <4>2, <4>3
    <3> QED BY <3>1, <3>2
  <2>4. h = [n \in 0..(N + 1) |-> h[n]]
    OBVIOUS
  <2>5. Unrolled(x, u, ids, N + 1, h)
    <3> HIDE DEF h
    <3> QED BY <2>3, <2>4 DEF Unrolled
  <2> HIDE DEF h
  <2> QED BY <2>2, <2>5
<1>3. B \in SUBSET (0..L)
  OBVIOUS
<1> HIDE DEF B
<1>4. B = 0..L
  BY <1>1, <1>2, <1>3, IntervalInduction
<1>5. L \in B
  BY <1>4
<1> QED BY <1>5 DEF B

LEMMA UnlockEachGood ==
    ASSUME NEW x, Good(x), NEW u \in Users
    PROVE  Good(UnlockEach(x, u).after)
<1> DEFINE ids == x.amplifier.userPositionIds[u]
           L == Len(ids)
           y == CHOOSE g : Unrolled(x, u, ids, L, g)
           B == {n \in 0..L : /\ Good(y[n].after)
                              /\ y[n] = [after |-> y[n].after, reverted |-> y[n].reverted]}
<1>1. ids \in Seq(Ids)
  BY DEF Good, Locks, LockTyped, AmplifierState
<1>2. L \in Nat /\ \A n \in 1..L : ids[n] \in Ids
  BY <1>1
<1>3. UnlockEach(x, u) = y[L]
  BY DEF UnlockEach, Unrolled
<1> HIDE DEF ids, L
<1>4. Unrolled(x, u, ids, L, y)
  BY <1>2, UnrolledExists
<1> HIDE DEF y
<1>5. ASSUME NEW n \in 0..L
      PROVE  y[n] = IF n = 0 THEN [after |-> x, reverted |-> FALSE]
                    ELSE UnlockOne(y[n - 1], u, ids[n])
  BY <1>4 DEF Unrolled
<1>6. 0 \in B
  BY <1>2, <1>5
<1>7. ASSUME NEW n \in B, n < L
      PROVE  n + 1 \in B
  <2> DEFINE before == y[n]
             id == ids[n + 1]
             next == UnlockOne(before, u, id)
  <2>1. n + 1 \in 0..L /\ n + 1 \in 1..L /\ n + 1 # 0 /\ (n + 1) - 1 = n
    BY <1>2, <1>7
  <2>2. y[n + 1] = next
    BY <1>5, <2>1
  <2>3. /\ Good(before.after) /\ id \in Ids
        /\ before = [after |-> before.after, reverted |-> before.reverted]
    BY <1>2, <2>1
  <2> HIDE DEF before, id
  <2>4. Good(next.after) /\ next = [after |-> next.after, reverted |-> next.reverted]
    <3>1. CASE before.reverted \/ ~Expired(before.after.amplifier, u, id)
      BY <2>3, <3>1 DEF UnlockOne
    <3>2. CASE /\ ~(before.reverted \/ ~Expired(before.after.amplifier, u, id))
               /\ CanUnlock(before.after, u, id)
      <4> DEFINE z == Unlocked(before.after, u, id)
      <4>1. next = [before EXCEPT !.after = z]
        BY <3>2 DEF UnlockOne
      <4>2. Good(z)
        BY <2>3, <3>2, UnlockedGood
      <4> HIDE DEF z, next
      <4>3. next = [after |-> z, reverted |-> before.reverted]
        BY <2>3, <4>1
      <4> QED BY <4>2, <4>3
    <3>3. CASE /\ ~(before.reverted \/ ~Expired(before.after.amplifier, u, id))
               /\ ~CanUnlock(before.after, u, id)
      <4>1. next = [before EXCEPT !.reverted = TRUE]
        BY <3>3 DEF UnlockOne
      <4> HIDE DEF next
      <4>2. next = [after |-> before.after, reverted |-> TRUE]
        BY <2>3, <4>1
      <4> QED BY <2>3, <4>2
    <3> QED BY <3>1, <3>2, <3>3
  <2> HIDE DEF next
  <2> QED BY <2>1, <2>2, <2>4
<1>8. B \in SUBSET (0..L)
  OBVIOUS
<1> HIDE DEF B
<1>9. B = 0..L
  BY <1>2, <1>6, <1>7, <1>8, IntervalInduction
<1>10. L \in B
  BY <1>2, <1>9
<1> QED BY <1>3, <1>10 DEF B

-----------------------------------------------------------------------------
(* Claims, governance, the clock and the invariant.                        *)

\* claimPendingRewards: also when the WETH is not there, no more is owed than before.
LEMMA PaidKeeps ==
    ASSUME NEW p, Locks(p), NEW u \in Users, NEW w \in Nat,
           w = IF p.wethBalance >= p.claimableReward[u]
               THEN p.wethBalance - p.claimableReward[u] ELSE p.wethBalance
    PROVE  Locks([p EXCEPT !.claimableReward[u] = 0, !.wethBalance = w])
<1> DEFINE cl == [p.claimableReward EXCEPT ![u] = 0]
           r == [p EXCEPT !.claimableReward = cl, !.wethBalance = w]
           k == p.claimableReward[u]
           P == AmplifierPrecision
<1>1. /\ LockTyped(p) /\ Listed(p) /\ LockSums(p) /\ LockMarked(p) /\ LockBacked(p) /\ XpKept(p)
      /\ p \in AmplifierState
  BY DEF Locks, LockTyped
<1>2. /\ p.claimableReward \in [Users -> Nat] /\ k \in Nat /\ P \in Nat /\ p.wethBalance \in Nat
      /\ \A v \in Users : p.cumulativeRewards[v] \in Nat
  BY <1>1, AmplifierAssumption DEF AmplifierState
<1>3. cl \in [Users -> Nat] /\ \A v \in Users : cl[v] = IF v = u THEN 0 ELSE p.claimableReward[v]
  BY <1>2
<1> HIDE DEF cl
<1>4. /\ r \in AmplifierState /\ SameLocks(p, r) /\ r.claimableReward = cl /\ r.wethBalance = w
      /\ r.cumulativeRewards = p.cumulativeRewards
      /\ r.cumulativeRewardPerToken = p.cumulativeRewardPerToken
      /\ r.previousCumulativeRewardPerToken = p.previousCumulativeRewardPerToken
      /\ r.lastXpUpdate = p.lastXpUpdate /\ r.totalXpEarned = p.totalXpEarned
  BY <1>1, <1>3 DEF AmplifierState, SameLocks
<1>5. r = [p EXCEPT !.claimableReward[u] = 0, !.wethBalance = w]
  BY DEF cl
<1> HIDE DEF r
<1>6. LockTyped(r) /\ Listed(r) /\ LockSums(r)
  BY <1>1, <1>4 DEF LockTyped, Listed, ListedFor, LockSums, Deposits, SameLocks
<1>7. LockMarked(r)
  BY <1>1, <1>2, <1>3, <1>4 DEF LockMarked
<1>8. LockBacked(r)
  <2>1. \A v \in Users : LockUnrounded(r, v) = LockUnrounded(p, v)
    BY <1>4 DEF LockUnrounded, SameLocks
  <2>2. \A v \in Users : LockOwed(p)[v] \in Nat /\ LockOwed(r)[v] \in Nat
    BY <1>1, <1>6, LockOwedNat
  <2>3. \A v \in Users : v # u => LockOwed(r)[v] = LockOwed(p)[v]
    BY <1>3, <1>4, <2>1 DEF LockOwed
  <2>4. LockOwed(r)[u] = LockOwed(p)[u] - P * k
    <3>1. LockOwed(p)[u] = P * k + LockUnrounded(p, u)
      BY DEF LockOwed
    <3>2. LockOwed(r)[u] = P * 0 + LockUnrounded(p, u)
      BY <1>3, <1>4, <2>1 DEF LockOwed
    <3>3. LockUnrounded(p, u) \in Nat
      BY <1>1, LockRewardNat
    <3> HIDE DEF P, k
    <3>4. P * k \in Nat /\ P * 0 = 0
      BY <1>2
    <3> QED BY <3>1, <3>2, <3>3, <3>4
  <2>5. /\ IsFiniteSet(Users)
        /\ \A v \in Users : LockOwed(p)[v] \in Int /\ LockOwed(r)[v] \in Int
        /\ \A v \in Users \ {u} : LockOwed(r)[v] = LockOwed(p)[v]
    BY <2>2, <2>3, UsersFinite
  <2>6. Sum(LockOwed(r), Users) = Sum(LockOwed(p), Users) + LockOwed(r)[u] - LockOwed(p)[u]
    BY <2>5, SumChange
  <2>7. Sum(LockOwed(p), Users) \in Int
    BY <2>5, SumInt
  <2> SUFFICES ASSUME "weth" \notin p.recovered
               PROVE  Sum(LockOwed(r), Users) <= P * w
    BY <1>4 DEF LockBacked, SameLocks
  <2>8. Sum(LockOwed(p), Users) <= P * p.wethBalance
    BY <1>1 DEF LockBacked
  <2> DEFINE before == Sum(LockOwed(p), Users)
             after == Sum(LockOwed(r), Users)
             b == p.wethBalance
  <2>9. after = before - P * k
    <3> DEFINE x == LockOwed(p)[u]
               y == LockOwed(r)[u]
    <3>1. x \in Int /\ y \in Int
      BY <2>5
    <3>2. P * k \in Int
      BY <1>2
    <3> HIDE DEF x, y, before, after, P, k
    <3> QED BY <2>4, <2>6, <2>7, <3>1, <3>2 DEF x, y, before, after
  <2>10. /\ before \in Int /\ before <= P * b /\ P * k \in Nat /\ P * b \in Nat
         /\ b \in Nat /\ w = IF b >= k THEN b - k ELSE b
    BY <1>2, <2>7, <2>8
  <2> HIDE DEF before, after, b, P, k
  <2>11. P * (b - k) = P * b - P * k
    BY <1>2, <2>10 DEF P, k, b
  <2> QED BY <2>9, <2>10, <2>11 DEF after
<1>9. XpKept(r)
  <2> SUFFICES ASSUME NEW v \in Users
               PROVE  /\ 100 * p.totalXpEarned[v] <= Sum(p.weights[v], Before(Counted(r, v)))
                      /\ \A time \in 0..MaxTime : p.lastXpUpdate[v] <= time /\ time < now
                                                     => p.weights[v][time] = Weight(r, v)
    BY <1>4 DEF XpKept, SameLocks
  <2>1. Weight(r, v) = Weight(p, v) /\ Counted(r, v) = Counted(p, v)
    BY <1>4, SameWeight DEF SameLocks, Counted
  <2> QED BY <1>1, <2>1 DEF XpKept
<1> QED BY <1>5, <1>6, <1>7, <1>8, <1>9 DEF Locks

LEMMA ClaimGood ==
    ASSUME Good(State), NEW u \in Users, ClaimPendingRewards(u)
    PROVE  \E z : Good(z) /\ Becomes(z)
<1> DEFINE y == Updated(State, u)
           p == y.amplifier
           k == p.claimableReward[u]
           w == IF p.wethBalance >= k THEN p.wethBalance - k ELSE p.wethBalance
           r == [p EXCEPT !.claimableReward[u] = 0, !.wethBalance = w]
           z == [y EXCEPT !.amplifier.claimableReward[u] = 0,
                          !.amplifier.wethBalance = IF @ >= k THEN @ - k ELSE @]
<1>1. /\ Good(y) /\ y = [tracker |-> y.tracker, amplifier |-> y.amplifier]
      /\ Becomes(z)
  BY UpdatedGood DEF ClaimPendingRewards
<1> HIDE DEF y
<1>2. p \in AmplifierState /\ Locks(p) /\ Sound(y.tracker) /\ AmplifierHolds(y.tracker, p)
  BY <1>1 DEF Good, Locks, LockTyped
<1>3. z = [tracker |-> y.tracker, amplifier |-> r]
  <2> HIDE DEF k
  <2>1. "wethBalance" \in DOMAIN p /\ "claimableReward" \in DOMAIN p
    BY <1>2 DEF AmplifierState
  <2> DEFINE p1 == [p EXCEPT !.claimableReward[u] = 0]
             y1 == [y EXCEPT !.amplifier.claimableReward[u] = 0]
             p2 == [p1 EXCEPT !.wethBalance = IF @ >= k THEN @ - k ELSE @]
             y2 == [y1 EXCEPT !.amplifier.wethBalance = IF @ >= k THEN @ - k ELSE @]
  <2>2. z = y2
    OBVIOUS
  <2>3. y1 = [tracker |-> y.tracker, amplifier |-> p1]
    <3>1. y1 = [y EXCEPT !.amplifier = p1]
      OBVIOUS
    <3> HIDE DEF y1, p1
    <3> QED BY <1>1, <3>1
  <2>4. p1.wethBalance = p.wethBalance /\ "wethBalance" \in DOMAIN p1
    BY <2>1
  <2>5. r = p2
    <3>1. r = [p1 EXCEPT !.wethBalance = w]
      OBVIOUS
    <3>2. p2 = [p1 EXCEPT !.wethBalance = IF p1.wethBalance >= k THEN p1.wethBalance - k
                                          ELSE p1.wethBalance]
      OBVIOUS
    <3> QED BY <2>4, <3>1, <3>2
  <2>6. y2 = [tracker |-> y.tracker, amplifier |-> p2]
    <3> DEFINE weth == IF y1.amplifier.wethBalance >= k THEN y1.amplifier.wethBalance - k
                       ELSE y1.amplifier.wethBalance
               q == [y1.amplifier EXCEPT !.wethBalance = weth]
    <3>1. y2 = [y1 EXCEPT !.amplifier = q]
      OBVIOUS
    <3>2. y1.amplifier = p1
      BY <2>3
    <3>3. q = p2
      <4>1. p2 = [p1 EXCEPT !.wethBalance = IF p1.wethBalance >= k THEN p1.wethBalance - k
                                            ELSE p1.wethBalance]
        OBVIOUS
      <4> HIDE DEF p1, y1, p2, k
      <4> QED BY <3>2, <4>1
    <3> HIDE DEF q, y2, p1, p2, y1
    <3> QED BY <2>3, <3>1, <3>3
  <2> QED BY <2>2, <2>5, <2>6
<1>4. w \in Nat
  <2>1. k \in Nat /\ p.wethBalance \in Nat
    BY <1>2 DEF AmplifierState
  <2> HIDE DEF k
  <2> QED BY <2>1
<1>5. r.contractBalance = p.contractBalance /\ r.recovered = p.recovered
  BY <1>2 DEF AmplifierState
<1>6. Locks(r)
  <2>1. w = IF p.wethBalance >= p.claimableReward[u]
            THEN p.wethBalance - p.claimableReward[u] ELSE p.wethBalance
    OBVIOUS
  <2> HIDE DEF w, k, p
  <2> QED BY <1>2, <1>4, <2>1, PaidKeeps
<1> HIDE DEF r, p
<1>7. Good([tracker |-> y.tracker, amplifier |-> r])
  BY <1>2, <1>5, <1>6 DEF Good, AmplifierHolds
<1> HIDE DEF z
<1> QED BY <1>1, <1>3, <1>7

\* Governance: what it recovers, and where it moves the season's end.
LEMMA GovGood ==
    ASSUME Good(State), RecoverWeth \/ RecoverShares
                        \/ \E newSeasonEnd \in SeasonEnds : UpdateSeasonEnd(newSeasonEnd)
    PROVE  \E z : Good(z) /\ Becomes(z)
<1> DEFINE p == amplifier
<1>1. /\ Sound(tracker) /\ Locks(p) /\ AmplifierHolds(tracker, p) /\ p \in AmplifierState /\ LockTyped(p)
      /\ Listed(p) /\ LockSums(p) /\ LockMarked(p) /\ LockBacked(p) /\ XpKept(p)
  BY DEF Good, State, Locks, LockTyped
<1> HIDE DEF p
<1>2. ASSUME NEW r, NEW t, r \in AmplifierState, r.positions = p.positions,
             r.userPositionIds = p.userPositionIds,
             r.nextPositionId = p.nextPositionId, r.lockedAmount = p.lockedAmount,
             r.contractBalance = p.contractBalance, r.weights = p.weights,
             r.claimableReward = p.claimableReward,
             r.cumulativeRewards = p.cumulativeRewards,
             r.cumulativeRewardPerToken = p.cumulativeRewardPerToken,
             r.previousCumulativeRewardPerToken = p.previousCumulativeRewardPerToken,
             r.lastXpUpdate = p.lastXpUpdate, r.totalXpEarned = p.totalXpEarned,
             Sound(t), AmplifierHolds(t, r), LockBacked(r),
             r.seasonEnd = p.seasonEnd \/ r.seasonEnd >= now
      PROVE  Good([tracker |-> t, amplifier |-> r])
  <2>1. LockTyped(r) /\ Listed(r) /\ LockSums(r) /\ LockMarked(r)
    BY <1>1, <1>2 DEF LockTyped, Listed, ListedFor, LockSums, Deposits, LockMarked
  <2>2. XpKept(r)
    <3> SUFFICES ASSUME NEW v \in Users
                 PROVE  /\ 100 * p.totalXpEarned[v] <= Sum(p.weights[v], Before(Counted(r, v)))
                        /\ \A time \in 0..MaxTime : p.lastXpUpdate[v] <= time /\ time < now
                                                       => p.weights[v][time] = Weight(r, v)
      BY <1>2 DEF XpKept
    <3> DEFINE last == p.lastXpUpdate[v]
               f == p.weights[v]
               xp == p.totalXpEarned[v]
    <3>1. Weight(r, v) = Weight(p, v)
      BY <1>2, SameWeight
    <3>2. /\ last \in Nat /\ last <= now /\ now \in Nat /\ p.seasonEnd \in Nat /\ r.seasonEnd \in Nat
          /\ f \in [0..MaxTime -> Nat] /\ xp \in Nat
      BY <1>1, <1>2 DEF LockTyped, AmplifierState
    <3>3. Counted(p, v) \in Nat /\ Counted(r, v) \in Nat /\ Counted(p, v) <= Counted(r, v)
      <4>1. Counted(p, v) = IF last <= p.seasonEnd THEN last ELSE p.seasonEnd
        BY DEF Counted
      <4>2. Counted(r, v) = IF last <= r.seasonEnd THEN last ELSE r.seasonEnd
        BY <1>2 DEF Counted
      <4> HIDE DEF last
      <4> QED BY <1>2, <3>2, <4>1, <4>2
    <3>4. 100 * xp <= Sum(f, Before(Counted(p, v)))
      BY <1>1 DEF XpKept
    <3> HIDE DEF f, last, xp
    <3>5. /\ Sum(f, Before(Counted(p, v))) \in Nat /\ Sum(f, Before(Counted(r, v))) \in Nat
          /\ Sum(f, Before(Counted(p, v))) <= Sum(f, Before(Counted(r, v)))
      BY <3>2, <3>3, BeforeGrows
    <3>6. 100 * xp <= Sum(f, Before(Counted(r, v)))
      BY <3>2, <3>4, <3>5
    <3> QED BY <1>1, <3>1, <3>6 DEF XpKept, f, xp
  <2> QED BY <1>2, <2>1, <2>2 DEF Good, Locks
<1>3. CASE RecoverWeth
  <2> DEFINE all == p.recovered \cup {"weth"}
             r == [p EXCEPT !.wethBalance = 0, !.recovered = all]
  <2>1. tracker' = tracker /\ amplifier' = r
    BY <1>3 DEF RecoverWeth, p
  <2>2. all \in SUBSET {"weth", "shares"} /\ "weth" \in all /\ ("shares" \in all <=> "shares" \in p.recovered)
    BY <1>1 DEF AmplifierState
  <2> HIDE DEF all
  <2>3. r \in AmplifierState /\ r.recovered = all /\ r.contractBalance = p.contractBalance
    BY <1>1, <2>2 DEF AmplifierState
  <2>4. AmplifierHolds(tracker, r) /\ LockBacked(r)
    BY <1>1, <2>2, <2>3 DEF AmplifierHolds, LockBacked
  <2>5. Good([tracker |-> tracker, amplifier |-> r])
    BY <1>1, <1>2, <2>3, <2>4 DEF AmplifierState
  <2> HIDE DEF r
  <2> QED BY <2>1, <2>5 DEF Becomes
<1>4. CASE RecoverShares
  <2> DEFINE all == p.recovered \cup {"shares"}
             r == [p EXCEPT !.recovered = all]
             b == tracker.balances[Amplifier]
             t == SharesMoved(tracker, Amplifier, Gov, b)
  <2>1. tracker' = t /\ amplifier' = r
    BY <1>4 DEF RecoverShares, p
  <2>2. all \in SUBSET {"weth", "shares"} /\ "shares" \in all /\ ("weth" \in all <=> "weth" \in p.recovered)
    BY <1>1 DEF AmplifierState
  <2> HIDE DEF all
  <2>3. /\ r \in AmplifierState /\ r.recovered = all /\ r.contractBalance = p.contractBalance
        /\ r.wethBalance = p.wethBalance
    BY <1>1, <2>2 DEF AmplifierState
  <2>4. /\ b \in Nat /\ CanMoveShares(tracker, Amplifier, b) /\ Amplifier \in Accounts
        /\ Gov \in Accounts /\ tracker \in TrackerState
    BY <1>1, AmplifierAssumption DEF Sound, Typed, TrackerState, CanMoveShares
  <2>5. Sound(t)
    <3> HIDE DEF b
    <3> QED BY <1>1, <2>4, MovedSound
  <2>6. t.depositBalances = tracker.depositBalances
    BY <2>4 DEF SharesMoved, TrackerState
  <2> HIDE DEF t
  <2>7. AmplifierHolds(t, r)
    BY <1>1, <2>2, <2>3, <2>6 DEF AmplifierHolds
  <2>8. LockOwed(r) = LockOwed(p)
    BY <1>1 DEF LockOwed, LockUnrounded, AmplifierState
  <2>9. LockBacked(r)
    BY <1>1, <2>2, <2>3, <2>8 DEF LockBacked
  <2>10. Good([tracker |-> t, amplifier |-> r])
    BY <1>1, <1>2, <2>3, <2>5, <2>7, <2>9 DEF AmplifierState
  <2> HIDE DEF r
  <2> QED BY <2>1, <2>10 DEF Becomes
<1>5. CASE \E newSeasonEnd \in SeasonEnds : UpdateSeasonEnd(newSeasonEnd)
  <2>1. PICK newSeasonEnd \in SeasonEnds : UpdateSeasonEnd(newSeasonEnd)
    BY <1>5
  <2> DEFINE r == [p EXCEPT !.seasonEnd = newSeasonEnd]
  <2>2. tracker' = tracker /\ amplifier' = r /\ newSeasonEnd >= now
    BY <2>1 DEF UpdateSeasonEnd, p
  <2>3. newSeasonEnd \in Nat
    BY AmplifierAssumption
  <2>4. /\ r \in AmplifierState /\ r.recovered = p.recovered /\ r.contractBalance = p.contractBalance
        /\ r.wethBalance = p.wethBalance /\ r.seasonEnd = newSeasonEnd
    BY <1>1, <2>3 DEF AmplifierState
  <2>5. LockOwed(r) = LockOwed(p)
    BY <1>1 DEF LockOwed, LockUnrounded, AmplifierState
  <2>6. AmplifierHolds(tracker, r) /\ LockBacked(r)
    BY <1>1, <2>4, <2>5 DEF AmplifierHolds, LockBacked
  <2>7. Good([tracker |-> tracker, amplifier |-> r])
    BY <1>1, <1>2, <2>2, <2>4, <2>6 DEF AmplifierState
  <2> HIDE DEF r
  <2> QED BY <2>2, <2>7 DEF Becomes
<1> QED BY <1>3, <1>4, <1>5

\* In a second that passes every user has the weight of the moment.
LEMMA SecondLocks ==
    ASSUME Locks(amplifier), Second
    PROVE  Locks(amplifier)'
<1> DEFINE p == amplifier
           more == [u \in Users |-> [p.weights[u] EXCEPT ![now] = Weight(p, u)]]
           r == [p EXCEPT !.weights = more]
<1>1. /\ LockTyped(p) /\ Listed(p) /\ LockSums(p) /\ LockMarked(p) /\ LockBacked(p) /\ XpKept(p)
      /\ p \in AmplifierState /\ now \in Nat
  BY DEF Locks, LockTyped
<1>2. amplifier' = r /\ now < MaxTime /\ now' = now + 1
  BY DEF Second, Tick
<1>3. \A u \in Users : Weight(p, u) \in Nat /\ p.weights[u] \in [0..MaxTime -> Nat]
  BY <1>1, WeightNat DEF AmplifierState
<1>4. now \in 0..MaxTime /\ now + 1 \in Nat /\ now + 1 <= MaxTime + 1
  BY <1>1, <1>2, TrackerAssumption
<1>5. /\ more \in [Users -> [0..MaxTime -> Nat]]
      /\ \A u \in Users, time \in 0..MaxTime :
            more[u][time] = IF time = now THEN Weight(p, u) ELSE p.weights[u][time]
  BY <1>3, <1>4
<1> HIDE DEF more
<1>6. /\ r \in AmplifierState /\ r.weights = more /\ r.positions = p.positions
      /\ r.userPositionIds = p.userPositionIds
      /\ r.nextPositionId = p.nextPositionId /\ r.lockedAmount = p.lockedAmount
      /\ r.contractBalance = p.contractBalance /\ r.wethBalance = p.wethBalance
      /\ r.claimableReward = p.claimableReward
      /\ r.cumulativeRewards = p.cumulativeRewards
      /\ r.cumulativeRewardPerToken = p.cumulativeRewardPerToken
      /\ r.previousCumulativeRewardPerToken = p.previousCumulativeRewardPerToken
      /\ r.lastXpUpdate = p.lastXpUpdate /\ r.totalXpEarned = p.totalXpEarned
      /\ r.seasonEnd = p.seasonEnd /\ r.recovered = p.recovered
  BY <1>1, <1>5 DEF AmplifierState
<1> HIDE DEF r
<1>7. ASSUME NEW u \in Users
      PROVE  /\ 100 * r.totalXpEarned[u] <= Sum(r.weights[u], Before(Counted(r, u)))
             /\ \A time \in 0..MaxTime : r.lastXpUpdate[u] <= time /\ time < now + 1
                                            => r.weights[u][time] = Weight(r, u)
  <2>1. Counted(r, u) = Counted(p, u) /\ Weight(r, u) = Weight(p, u)
    BY <1>6, SameWeight DEF Counted
  <2>2. Counted(p, u) \in Nat /\ Counted(p, u) <= now
    <3>1. p.lastXpUpdate[u] \in Nat /\ p.seasonEnd \in Nat /\ p.lastXpUpdate[u] <= now
      BY <1>1 DEF LockTyped, AmplifierState
    <3> QED BY <1>1, <3>1 DEF Counted
  <2> DEFINE S == Before(Counted(p, u))
             f == p.weights[u]
             g == more[u]
  <2>3. \A time \in S : f[time] \in Int /\ g[time] = f[time]
    <3>1. \A time \in S : time \in 0..MaxTime /\ time < Counted(p, u)
      BY DEF Before
    <3>2. \A time \in S : time # now
      BY <1>1, <2>2, <3>1, TrackerAssumption
    <3>3. \A time \in 0..MaxTime : f[time] \in Int
      <4>1. f \in [0..MaxTime -> Nat]
        BY <1>3
      <4> HIDE DEF f
      <4> QED BY <4>1
    <3>4. \A time \in 0..MaxTime : time # now => g[time] = f[time]
      BY <1>5
    <3> HIDE DEF S, f, g
    <3> QED BY <3>1, <3>2, <3>3, <3>4
  <2>4. IsFiniteSet(S)
    <3>1. S \in SUBSET (0..MaxTime)
      BY DEF Before
    <3> QED BY <3>1, UsersFinite, FS_Subset
  <2>5. Sum(g, S) = Sum(f, S)
    <3> HIDE DEF S, f, g
    <3> QED BY <2>3, <2>4, SumSame
  <2>6. 100 * r.totalXpEarned[u] <= Sum(r.weights[u], Before(Counted(r, u)))
    BY <1>1, <1>6, <2>1, <2>5 DEF XpKept
  <2>7. \A time \in 0..MaxTime : time < now + 1 => time = now \/ time < now
    BY <1>1, TrackerAssumption
  <2> QED BY <1>1, <1>5, <1>6, <2>1, <2>6, <2>7 DEF XpKept
<1>8. LockTyped(p)'
  <2>1. \A u \in Users : /\ r.previousCumulativeRewardPerToken[u] <= r.cumulativeRewardPerToken
                         /\ r.lastXpUpdate[u] <= now + 1
    <3> TAKE u \in Users
    <3>1. p.lastXpUpdate[u] \in Nat /\ p.lastXpUpdate[u] <= now
      BY <1>1 DEF LockTyped, AmplifierState
    <3> QED BY <1>1, <1>6, <3>1 DEF LockTyped
  <2> QED BY <1>2, <1>4, <1>6, <2>1 DEF LockTyped
<1>9. Listed(r) /\ LockSums(r) /\ LockMarked(r)
  BY <1>1, <1>6 DEF Listed, ListedFor, LockSums, Deposits, LockMarked
<1>10. LockBacked(r)
  BY <1>1, <1>6 DEF LockBacked, LockOwed, LockUnrounded
<1>11. Listed(p)' /\ LockSums(p)' /\ LockMarked(p)' /\ LockBacked(p)'
  <2>1. Listed(p)'
    BY <1>2, <1>9 DEF Listed, ListedFor
  <2>2. LockSums(p)'
    BY <1>2, <1>9 DEF LockSums, Deposits
  <2>3. LockMarked(p)'
    BY <1>2, <1>9 DEF LockMarked
  <2>4. LockBacked(p)'
    BY <1>2, <1>10 DEF LockBacked, LockOwed, LockUnrounded
  <2> QED BY <2>1, <2>2, <2>3, <2>4
<1>12. XpKept(p)'
  BY <1>2, <1>7 DEF XpKept, Counted, Weight
<1> QED BY <1>8, <1>11, <1>12 DEF Locks

AmpInvariant == Invariant /\ Locks(amplifier) /\ AmplifierHolds(tracker, amplifier)

\* The locks stay as they are when neither the clock nor the amplifier changes.
LEMMA LocksStay ==
    ASSUME NEW p, Locks(p), amplifier' = p, now' = now
    PROVE  Locks(amplifier)'
<1>1. LockTyped(p) /\ Listed(p) /\ LockSums(p) /\ LockMarked(p) /\ LockBacked(p) /\ XpKept(p)
  BY DEF Locks
<1>2. LockTyped(amplifier)'
  BY <1>1 DEF LockTyped
<1>3. Listed(amplifier)'
  BY <1>1 DEF Listed, ListedFor
<1>4. LockSums(amplifier)'
  BY <1>1 DEF LockSums, Deposits
<1>5. LockMarked(amplifier)'
  BY <1>1 DEF LockMarked
<1>6. LockBacked(amplifier)'
  BY <1>1 DEF LockBacked, LockOwed, LockUnrounded
<1>7. XpKept(amplifier)'
  BY <1>1 DEF XpKept, Counted, Weight
<1> QED BY <1>2, <1>3, <1>4, <1>5, <1>6, <1>7 DEF Locks

\* A transaction takes the contracts to a good state; the clock stands still.
LEMMA TransactionKeeps ==
    ASSUME NEW z, Good(z), Becomes(z), now' = now
    PROVE  AmpInvariant'
<1>1. /\ tracker' = z.tracker /\ amplifier' = z.amplifier
      /\ Sound(z.tracker) /\ Locks(z.amplifier) /\ AmplifierHolds(z.tracker, z.amplifier)
  BY DEF Becomes, Good
<1>2. Invariant'
  BY <1>1, CallKeeps
<1>3. Locks(amplifier)'
  BY <1>1, LocksStay
<1>4. AmplifierHolds(tracker, amplifier)'
  BY <1>1 DEF AmplifierHolds
<1> QED BY <1>2, <1>3, <1>4 DEF AmpInvariant

LEMMA AmpInit == Init => AmpInvariant
<1> SUFFICES ASSUME Init PROVE AmpInvariant
  OBVIOUS
<1> DEFINE p == amplifier
<1>1. TrackerInit /\ tracker = EmptyTracker /\ now = 1 /\ p = EmptyAmplifier
  BY DEF Init, TrackerInit
<1>2. Invariant
  BY <1>1, InvariantInit
<1>3. MaxTime \in Nat /\ FirstSeasonEnd \in Nat /\ MaxPositions \in Nat \ {0}
  BY AmplifierAssumption, TrackerAssumption
<1>4. /\ p.positions = PerUser([id \in Ids |-> NoPosition]) /\ p.userPositionIds = PerUser(<<>>)
      /\ p.lockedAmount = PerUser(0) /\ p.contractBalance = 0 /\ p.wethBalance = 0
      /\ p.cumulativeRewardPerToken = 0 /\ p.previousCumulativeRewardPerToken = PerUser(0)
      /\ p.claimableReward = PerUser(0) /\ p.cumulativeRewards = PerUser(0)
      /\ p.lastXpUpdate = PerUser(0) /\ p.totalXpEarned = PerUser(0)
      /\ p.seasonEnd = FirstSeasonEnd /\ p.weights = PerUser([time \in 0..MaxTime |-> 0])
      /\ p.recovered = {}
  BY <1>1 DEF EmptyAmplifier
<1>5. p \in AmplifierState
  <2>1. NoPosition \in Position /\ <<>> \in Seq(Ids) /\ 0 \in 0..MaxPositions
    BY <1>3 DEF NoPosition, Position
  <2>2. PerUser([id \in Ids |-> NoPosition]) \in [Users -> [Ids -> Position]]
    BY <2>1 DEF PerUser
  <2>3. /\ PerUser(<<>>) \in [Users -> Seq(Ids)] /\ PerUser(0) \in [Users -> Nat]
    BY <2>1 DEF PerUser
  <2>4. PerUser([time \in 0..MaxTime |-> 0]) \in [Users -> [0..MaxTime -> Nat]]
    BY DEF PerUser
  <2>5. {} \in SUBSET {"weth", "shares"}
    OBVIOUS
  <2> QED BY <1>1, <1>3, <2>1, <2>2, <2>3, <2>4, <2>5 DEF EmptyAmplifier, AmplifierState
<1>6. LockTyped(p)
  <2>1. \A u \in Users : PerUser(0)[u] = 0
    BY DEF PerUser
  <2> QED BY <1>1, <1>3, <1>4, <1>5, <2>1 DEF LockTyped
<1>7. \A u \in Users : /\ p.positions[u] = [id \in Ids |-> NoPosition]
                       /\ p.userPositionIds[u] = <<>> /\ p.lockedAmount[u] = 0
                       /\ p.claimableReward[u] = 0 /\ p.cumulativeRewards[u] = 0
                       /\ p.lastXpUpdate[u] = 0 /\ p.totalXpEarned[u] = 0
                       /\ p.weights[u] = [time \in 0..MaxTime |-> 0]
  BY <1>4 DEF PerUser
<1> HIDE DEF p
<1>8. Listed(p)
  <2>1. IsInjective(<<>>) /\ Range(<<>>) = {}
    BY DEF IsInjective, Range
  <2> QED BY <1>7, <2>1 DEF Listed, ListedFor
<1>9. LockSums(p)
  <2>1. ASSUME NEW u \in Users PROVE p.lockedAmount[u] = Sum(Deposits(p, u), Ids)
    <3>1. \A id \in Ids : Deposits(p, u)[id] = 0
      BY <1>7 DEF Deposits, NoPosition
    <3>2. Sum(Deposits(p, u), Ids) = 0
      BY <3>1, UsersFinite, SumZero
    <3> QED BY <1>7, <3>2
  <2>2. Sum(p.lockedAmount, Users) = 0
    BY <1>7, UsersFinite, SumZero
  <2> QED BY <1>4, <2>1, <2>2 DEF LockSums
<1>10. LockMarked(p)
  BY <1>7 DEF LockMarked
<1>11. LockBacked(p)
  <2>1. \A u \in Users : LockOwed(p)[u] = 0
    <3> TAKE u \in Users
    <3>1. /\ p.lockedAmount[u] = 0 /\ p.claimableReward[u] = 0 /\ p.cumulativeRewardPerToken = 0
          /\ p.previousCumulativeRewardPerToken[u] = 0
      BY <1>4, <1>7 DEF PerUser
    <3>2. AmplifierPrecision \in Nat
      BY AmplifierAssumption
    <3> QED BY <3>1, <3>2 DEF LockOwed, LockUnrounded
  <2>2. Sum(LockOwed(p), Users) = 0
    BY <2>1, UsersFinite, SumZero
  <2>3. AmplifierPrecision * p.wethBalance = 0
    BY <1>4, AmplifierAssumption
  <2> QED BY <2>2, <2>3 DEF LockBacked
<1>12. XpKept(p)
  <2> SUFFICES ASSUME NEW u \in Users
               PROVE  /\ 100 * p.totalXpEarned[u] <= Sum(p.weights[u], Before(Counted(p, u)))
                      /\ \A time \in 0..MaxTime : p.lastXpUpdate[u] <= time /\ time < now
                                                     => p.weights[u][time] = Weight(p, u)
    BY DEF XpKept
  <2>1. Sum(p.weights[u], Before(Counted(p, u))) = 0
    <3>1. Counted(p, u) = 0
      BY <1>3, <1>4, <1>7 DEF Counted
    <3>2. Before(0) = {}
      BY <1>3 DEF Before
    <3> QED BY <3>1, <3>2, SumEmpty
  <2>2. Weight(p, u) = 0
    <3>1. Range(p.userPositionIds[u]) = {}
      BY <1>7 DEF Range
    <3>2. DOMAIN [id \in Range(p.userPositionIds[u]) |->
                    p.positions[u][id].depositAmount * p.positions[u][id].multiplier] = {}
      BY <3>1
    <3> QED BY <3>2, SumEmpty DEF Weight, SumOver
  <2>3. \A time \in 0..MaxTime : p.weights[u][time] = 0
    BY <1>7
  <2>4. 100 * p.totalXpEarned[u] = 0
    BY <1>7
  <2> QED BY <2>1, <2>2, <2>3, <2>4
<1>13. AmplifierHolds(tracker, p)
  <2>1. /\ tracker.depositBalances[Amplifier][Brrr] \in Nat /\ tracker.balances[Amplifier] \in Nat
    BY <1>2, AmplifierAssumption, TrackerAssumption
       DEF Invariant, Sound, Typed, TrackerState, PerToken
  <2> QED BY <1>4, <2>1 DEF AmplifierHolds
<1> QED BY <1>2, <1>6, <1>8, <1>9, <1>10, <1>11, <1>12, <1>13 DEF AmpInvariant, Locks, p

LEMMA AmpNext == AmpInvariant /\ [Next]_vars => AmpInvariant'
<1> SUFFICES ASSUME AmpInvariant, [Next]_vars PROVE AmpInvariant'
  OBVIOUS
<1>1. Good(State) /\ Invariant /\ Locks(amplifier) /\ AmplifierHolds(tracker, amplifier)
  BY DEF AmpInvariant, Good, State, Invariant
<1>2. CASE UserCall
  <2>1. PICK u \in Users :
          \/ \E tier \in Tiers, amount \in LockAmounts : LockLiquidity(u, tier, amount)
          \/ \E id \in Ids : UnlockLiquidity(u, id)
          \/ UnlockAllPositions(u)
          \/ ClaimPendingRewards(u)
    BY <1>2 DEF UserCall
  <2>2. now' = now
    BY <1>2 DEF UserCall
  <2>3. ASSUME NEW tier \in Tiers, NEW amount \in LockAmounts, LockLiquidity(u, tier, amount)
        PROVE  AmpInvariant'
    BY <1>1, <2>2, <2>3, LockGood, TransactionKeeps
  <2>4. ASSUME NEW id \in Ids, UnlockLiquidity(u, id)
        PROVE  AmpInvariant'
    <3>1. CanUnlock(State, u, id) /\ Becomes(Unlocked(State, u, id))
      BY <2>4 DEF UnlockLiquidity
    <3>2. Good(Unlocked(State, u, id))
      BY <1>1, <3>1, UnlockedGood
    <3> QED BY <2>2, <3>1, <3>2, TransactionKeeps
  <2>5. ASSUME UnlockAllPositions(u)
        PROVE  AmpInvariant'
    <3>1. Becomes(UnlockEach(State, u).after)
      BY <2>5 DEF UnlockAllPositions
    <3>2. Good(UnlockEach(State, u).after)
      BY <1>1, UnlockEachGood
    <3> QED BY <2>2, <3>1, <3>2, TransactionKeeps
  <2>6. ASSUME ClaimPendingRewards(u)
        PROVE  AmpInvariant'
    BY <1>1, <2>2, <2>6, ClaimGood, TransactionKeeps
  <2> QED BY <2>1, <2>3, <2>4, <2>5, <2>6
<1>3. CASE GovCall
  <2>1. /\ now' = now
        /\ \/ RecoverWeth \/ RecoverShares
           \/ \E newSeasonEnd \in SeasonEnds : UpdateSeasonEnd(newSeasonEnd)
    BY <1>3 DEF GovCall
  <2> QED BY <1>1, <2>1, GovGood, TransactionKeeps
<1>4. CASE TrackerCall
  <2>1. /\ AccountCall(TrackerCallers) \/ AdminCall
        /\ amplifier' = amplifier /\ now' = now
    BY <1>4 DEF TrackerCall, AccountCall, AdminCall
  <2>2. TrackerCallers \in SUBSET Accounts /\ amplifier.contractBalance \in Nat
    BY <1>1, AmplifierAssumption DEF Locks, LockTyped, AmplifierState
  <2>3. Invariant'
    BY <1>1, <2>1, <2>2, AccountCallKeeps, AdminCallKeeps
  <2>4. AmplifierHolds(tracker', amplifier)
    BY <1>1, <2>1, <2>2, CallHeld
  <2>5. Locks(amplifier)'
    BY <1>1, <2>1, LocksStay
  <2> QED BY <2>1, <2>3, <2>4, <2>5 DEF AmpInvariant, AmplifierHolds
<1>5. CASE Second
  <2>1. Tick
    BY <1>5 DEF Second
  <2>2. Invariant' /\ Locks(amplifier)'
    BY <1>1, <1>5, <2>1, TickKeeps, SecondLocks
  <2>3. /\ tracker'.balances = tracker.balances
        /\ tracker'.depositBalances = tracker.depositBalances
    BY <1>1, <2>1 DEF Tick, Invariant, Sound, Typed, TrackerState
  <2>4. /\ amplifier'.contractBalance = amplifier.contractBalance
        /\ amplifier'.recovered = amplifier.recovered
    BY <1>1, <1>5 DEF Second, Locks, LockTyped, AmplifierState
  <2> QED BY <1>1, <2>2, <2>3, <2>4 DEF AmpInvariant, AmplifierHolds
<1>6. CASE UNCHANGED vars
  <2>1. tracker' = tracker /\ amplifier' = amplifier /\ now' = now
    BY <1>6 DEF vars, trackerVars
  <2> QED BY <1>1, <2>1, TransactionKeeps DEF Becomes, State
<1> QED BY <1>2, <1>3, <1>4, <1>5, <1>6 DEF Next

THEOREM AmpInvariantHolds == Spec => []AmpInvariant
<1> QED BY AmpInit, AmpNext, PTL DEF Spec

\* The fields of the contract keep their types.
THEOREM AmplifierTyped == Spec => []TypeOK
<1>1. ASSUME AmpInvariant PROVE TypeOK
  <2>1. Sound(tracker) /\ LockTyped(amplifier)
    BY <1>1 DEF AmpInvariant, Invariant, Locks
  <2>2. TrackerTypeOK
    <3>1. Typed(tracker) /\ tracker \in TrackerState
      BY <2>1 DEF Sound, Typed
    <3>2. tracker.lastDistributionTime \in 0..now
      BY <3>1 DEF Typed, TrackerState
    <3>3. tracker.previousCumulatedRewardPerToken \in
            [Accounts -> 0..tracker.cumulativeRewardPerToken]
      BY <3>1 DEF Typed, TrackerState
    <3> QED BY <3>1, <3>2, <3>3 DEF TrackerTypeOK, Typed, TrackerState, PerToken
  <2>3. amplifier \in AmplifierState
    BY <2>1 DEF LockTyped
  <2>4. amplifier.previousCumulativeRewardPerToken \in
          [Users -> 0..amplifier.cumulativeRewardPerToken]
    BY <2>1, <2>3 DEF LockTyped, AmplifierState
  <2>5. amplifier.lastXpUpdate \in [Users -> 0..now]
    BY <2>1, <2>3 DEF LockTyped, AmplifierState
  <2> QED BY <2>2, <2>3, <2>4, <2>5 DEF TypeOK, AmplifierState, Position
<1> QED BY <1>1, AmpInvariantHolds, PTL

\* Each user's list names every open position once, and the totals are the sums of
\* the positions, through locks, swaps in the lists and unlocks in bulk.
THEOREM LocksAlwaysAddUp == Spec => []LocksAddUp
<1>1. ASSUME AmpInvariant PROVE LocksAddUp
  <2> DEFINE p == amplifier
  <2>1. /\ p \in AmplifierState /\ Listed(p) /\ LockSums(p)
    BY <1>1 DEF AmpInvariant, Locks, LockTyped
  <2> HIDE DEF p
  <2>2. ASSUME NEW u \in Users
        PROVE  LET open == {id \in Ids : p.positions[u][id] # NoPosition}
               IN /\ IsInjective(p.userPositionIds[u])
                  /\ Range(p.userPositionIds[u]) = open
                  /\ p.lockedAmount[u] =
                       SumOver([id \in open |-> p.positions[u][id].depositAmount])
    <3> DEFINE open == {id \in Ids : p.positions[u][id] # NoPosition}
               f == Deposits(p, u)
               g == [id \in open |-> p.positions[u][id].depositAmount]
    <3>1. ListedFor(p, u)
      BY <2>1 DEF Listed
    <3>2. Range(p.userPositionIds[u]) \in SUBSET Ids
      <4>1. p.userPositionIds[u] \in Seq(Ids)
        BY <2>1 DEF AmplifierState
      <4> QED BY <4>1 DEF Range
    <3>3. Range(p.userPositionIds[u]) = open
      BY <3>1, <3>2 DEF ListedFor
    <3>4. \A id \in Ids : f[id] = p.positions[u][id].depositAmount /\ f[id] \in Int
      BY <2>1 DEF AmplifierState, Position, Deposits
    <3>5. \A id \in Ids \ open : f[id] = 0
      BY <3>4 DEF NoPosition
    <3>6. open \in SUBSET Ids /\ DOMAIN g = open /\ \A id \in open : f[id] \in Int /\ g[id] = f[id]
      BY <3>4
    <3>7. p.lockedAmount[u] = Sum(f, Ids)
      BY <2>1 DEF LockSums
    <3> HIDE DEF open, f, g
    <3>8. IsFiniteSet(Ids) /\ IsFiniteSet(open) /\ IsFiniteSet(Ids \ open)
      <4>1. Ids \ open \in SUBSET Ids
        OBVIOUS
      <4> QED BY <3>6, <4>1, UsersFinite, FS_Subset
    <3>9. Sum(f, Ids) = Sum(f, open) + Sum(f, Ids \ open)
      <4>1. \A id \in Ids : f[id] \in Int
        BY <3>4
      <4> QED BY <3>6, <3>8, <4>1, SumSplit
    <3>10. Sum(f, Ids \ open) = 0
      BY <3>5, <3>8, SumZero
    <3>11. Sum(g, open) = Sum(f, open) /\ Sum(f, open) \in Int
      BY <3>6, <3>8, SumSame, SumInt
    <3>12. p.lockedAmount[u] = SumOver(g)
      BY <3>6, <3>7, <3>9, <3>10, <3>11 DEF SumOver
    <3>13. IsInjective(p.userPositionIds[u])
      BY <3>1 DEF ListedFor
    <3> QED BY <3>3, <3>12, <3>13 DEF open, g
  <2>3. p.contractBalance = SumOver(p.lockedAmount)
    <3>1. DOMAIN p.lockedAmount = Users
      BY <2>1 DEF AmplifierState
    <3> QED BY <2>1, <3>1 DEF LockSums, SumOver
  <2> QED BY <2>2, <2>3 DEF LocksAddUp, p
<1> QED BY <1>1, AmpInvariantHolds, PTL

\* What is locked is staked under the amplifier's account, which has the shares to
\* unstake it with until gov recovers them.
THEOREM LocksAlwaysStaked == Spec => []LocksStaked
<1>1. AmpInvariant => LocksStaked
  BY DEF AmpInvariant, AmplifierHolds, LocksStaked
<1> QED BY <1>1, AmpInvariantHolds, PTL

\* Until gov recovers it, the amplifier holds the WETH it owes the users.
THEOREM LockRewardsAlwaysBacked == Spec => []LockRewardsBacked
<1>1. ASSUME AmpInvariant PROVE LockRewardsBacked
  <2> DEFINE p == amplifier
             due == [u \in Users |-> p.claimableReward[u] + LockReward(p, u)]
             scaled == [u \in Users |-> AmplifierPrecision * due[u]]
  <2>1. LockTyped(p) /\ LockBacked(p) /\ p \in AmplifierState
    BY <1>1 DEF AmpInvariant, Locks, LockTyped
  <2> HIDE DEF p
  <2>2. ASSUME NEW u \in Users
        PROVE  /\ due[u] \in Int /\ scaled[u] = AmplifierPrecision * due[u] /\ scaled[u] \in Int
               /\ LockOwed(p)[u] \in Int /\ scaled[u] <= LockOwed(p)[u]
    <3> DEFINE P == AmplifierPrecision
               k == p.claimableReward[u]
               n == LockReward(p, u)
    <3>1. /\ P \in Nat /\ k \in Nat /\ n \in Nat
          /\ P * n <= LockUnrounded(p, u) /\ LockUnrounded(p, u) \in Nat
      BY <2>1, LockRewardNat, AmplifierAssumption DEF AmplifierState
    <3>2. due[u] = k + n /\ scaled[u] = P * due[u]
      OBVIOUS
    <3>3. LockOwed(p)[u] = P * k + LockUnrounded(p, u)
      BY DEF LockOwed
    <3> HIDE DEF P, k, n, due, scaled
    <3>4. P * (k + n) = P * k + P * n /\ P * k \in Nat /\ P * n \in Nat
      BY <3>1
    <3> QED BY <3>1, <3>2, <3>3, <3>4 DEF P
  <2> SUFFICES ASSUME "weth" \notin p.recovered
               PROVE  p.wethBalance >= SumOver(due)
    BY DEF LockRewardsBacked, p
  <2>3. DOMAIN due = Users
    OBVIOUS
  <2>4. p.wethBalance \in Nat /\ AmplifierPrecision \in Nat \ {0}
    BY <2>1, AmplifierAssumption DEF AmplifierState
  <2> HIDE DEF due, scaled
  <2>5. IsFiniteSet(Users)
    BY UsersFinite
  <2>6. Sum(scaled, Users) = AmplifierPrecision * Sum(due, Users)
    <3>1. AmplifierPrecision \in Int
      BY <2>4
    <3>2. \A u \in Users : due[u] \in Int /\ scaled[u] = AmplifierPrecision * due[u]
      BY <2>2
    <3> QED BY <2>5, <3>1, <3>2, SumScale
  <2>7. Sum(scaled, Users) <= Sum(LockOwed(p), Users)
    BY <2>2, <2>5, SumMonotone
  <2>8. Sum(LockOwed(p), Users) <= AmplifierPrecision * p.wethBalance
    BY <2>1 DEF LockBacked
  <2>9. /\ Sum(due, Users) \in Int /\ Sum(scaled, Users) \in Int
        /\ Sum(LockOwed(p), Users) \in Int
    BY <2>2, <2>5, SumInt
  <2>10. ASSUME NEW P \in Nat \ {0}, NEW x \in Int, NEW y \in Nat, P * x <= P * y
         PROVE  x <= y
    <3> SUFFICES ASSUME x >= y + 1 PROVE FALSE
      OBVIOUS
    <3>1. P * x >= P * (y + 1)
      OBVIOUS
    <3>2. P * (y + 1) = P * y + P
      OBVIOUS
    <3> QED BY <2>10, <3>1, <3>2
  <2>11. AmplifierPrecision * Sum(due, Users) <= AmplifierPrecision * p.wethBalance
    <3> DEFINE b == AmplifierPrecision * p.wethBalance
    <3>1. b \in Int
      BY <2>4
    <3> HIDE DEF b
    <3>2. Sum(scaled, Users) <= b
      BY <2>7, <2>8, <2>9, <3>1 DEF b
    <3> QED BY <2>6, <3>2 DEF b
  <2>12. Sum(due, Users) <= p.wethBalance
    BY <2>4, <2>9, <2>10, <2>11
  <2> QED BY <2>3, <2>4, <2>9, <2>12 DEF SumOver
<1> QED BY <1>1, AmpInvariantHolds, PTL

\* No user has more XP than the positions weighed in the seconds before the season's
\* end, each second counted once.
THEOREM XpAlwaysWithinSeason == Spec => []XpWithinSeason
<1>1. ASSUME AmpInvariant PROVE XpWithinSeason
  <2> DEFINE p == amplifier
  <2>1. /\ LockTyped(p) /\ XpKept(p) /\ p \in AmplifierState /\ now \in Nat
    BY <1>1 DEF AmpInvariant, Locks, LockTyped
  <2> HIDE DEF p
  <2>2. ASSUME NEW u \in Users
        PROVE  100 * p.totalXpEarned[u]
                 <= Sum(p.weights[u], {time \in 0..MaxTime : time < Min({now, p.seasonEnd})})
    <3> DEFINE end == Min({now, p.seasonEnd})
               last == p.lastXpUpdate[u]
               f == p.weights[u]
               xp == p.totalXpEarned[u]
               c == Counted(p, u)
    <3>1. /\ last \in Nat /\ last <= now /\ p.seasonEnd \in Nat
          /\ f \in [0..MaxTime -> Nat] /\ xp \in Nat
      BY <2>1 DEF LockTyped, AmplifierState
    <3>2. end = IF now <= p.seasonEnd THEN now ELSE p.seasonEnd
      BY <2>1, <3>1, MinOfTwo
    <3>3. c = IF last <= p.seasonEnd THEN last ELSE p.seasonEnd
      BY DEF Counted
    <3>4. 100 * xp <= Sum(f, Before(c))
      BY <2>1 DEF XpKept
    <3> HIDE DEF end, last, f, xp, c
    <3>5. c \in Nat /\ end \in Nat /\ c <= end
      BY <2>1, <3>1, <3>2, <3>3
    <3>6. /\ Sum(f, Before(c)) \in Nat /\ Sum(f, Before(end)) \in Nat
          /\ Sum(f, Before(c)) <= Sum(f, Before(end))
      BY <3>1, <3>5, BeforeGrows
    <3>7. 100 * xp <= Sum(f, Before(end))
      BY <3>1, <3>4, <3>6
    <3> QED BY <3>7 DEF Before, end, f, xp
  <2> QED BY <2>2 DEF XpWithinSeason, p
<1> QED BY <1>1, AmpInvariantHolds, PTL

\* A claim of the tracker never fails: what is recorded is there.
LEMMA CanClaimSound ==
    ASSUME NEW s, Sound(s), NEW a \in Accounts
    PROVE  CanClaim(s, a)
<1> DEFINE u == UpdatedRewards(s, a)
<1>1. CanUpdateRewards(s, a) /\ Sound(u)
  BY CanUpdateSound, UpdateSound
<1> HIDE DEF u
<1>2. /\ Typed(u) /\ Backed(u) /\ u \in TrackerState
  BY <1>1 DEF Sound, Typed
<1> DEFINE P == PRECISION
           k == u.claimableReward[a]
           b == u.rewardBalance
           o == Owed(u)[a]
           sum == Sum(Owed(u), Accounts)
<1>3. P \in Nat \ {0} /\ k \in Nat /\ b \in Nat
  BY <1>2, TrackerAssumption DEF TrackerState
<1>4. o \in Nat /\ o <= sum /\ sum \in Nat
  <2>1. IsFiniteSet(Accounts) /\ \A x \in Accounts : Owed(u)[x] \in Nat
    BY <1>2, OwedNat, TrackerAssumption
  <2> QED BY <2>1, SumNat
<1>5. sum <= P * b
  BY <1>2 DEF Backed
<1>6. o = P * k + Unrounded(u, a) /\ Unrounded(u, a) \in Nat
  BY <1>2, RewardNat DEF Owed
<1> HIDE DEF P, k, b, o, sum
<1>7. P * k \in Nat /\ P * b \in Nat
  BY <1>3
<1>8. P * k <= P * b
  BY <1>4, <1>5, <1>6, <1>7
<1>9. k <= b
  <2> SUFFICES ASSUME k >= b + 1 PROVE FALSE
    BY <1>3
  <2>1. P * k >= P * (b + 1) /\ P * (b + 1) = P * b + P
    BY <1>3
  <2> QED BY <1>3, <1>7, <1>8, <2>1
<1> QED BY <1>1, <1>9 DEF CanClaim, u, k, b

\* An account that has the shares and the deposit can unstake them.
LEMMA CanUnstakeSound ==
    ASSUME NEW s, Sound(s), NEW a \in Accounts, NEW t \in DepositTokens, NEW amount \in Nat \ {0},
           s.isDepositToken[t], amount <= s.depositBalances[a][t], amount <= s.balances[a]
    PROVE  CanUnstake(s, a, t, amount)
<1>1. /\ StakeSums(s) /\ s \in TrackerState /\ IsFiniteSet(Accounts) /\ IsFiniteSet(DepositTokens)
  BY TrackerAssumption DEF Sound, Typed
<1>2. CanUpdateRewards(s, a)
  BY CanUpdateSound
<1> DEFINE f == s.depositBalances[a]
           g == [b \in Accounts |-> s.depositBalances[b][t]]
           h == s.stakedAmounts
<1>3. /\ \A q \in DepositTokens : f[q] \in Nat
      /\ \A b \in Accounts : g[b] \in Nat
      /\ \A b \in Accounts : h[b] \in Nat
  BY <1>1 DEF TrackerState, PerToken
<1>4. g[a] = s.depositBalances[a][t] /\ f[t] = s.depositBalances[a][t]
  OBVIOUS
<1>5. /\ h[a] = Sum(f, DepositTokens) /\ s.totalDepositSupply[t] = Sum(g, Accounts)
      /\ s.totalSupply = Sum(h, Accounts)
  BY <1>1 DEF StakeSums
<1>6. s.balances[a] \in Nat
  BY <1>1 DEF TrackerState
<1> HIDE DEF f, g
<1>7. f[t] <= Sum(f, DepositTokens) /\ Sum(f, DepositTokens) \in Nat
  BY <1>1, <1>3, SumNat
<1>8. g[a] <= Sum(g, Accounts) /\ Sum(g, Accounts) \in Nat
  BY <1>1, <1>3, SumNat
<1>9. h[a] <= Sum(h, Accounts) /\ Sum(h, Accounts) \in Nat
  <2> HIDE DEF h
  <2> QED BY <1>1, <1>3, SumNat
<1>10. f[t] \in Nat /\ g[a] \in Nat /\ h[a] \in Nat
  BY <1>3
<1>11. /\ s.depositBalances[a][t] >= amount /\ s.totalDepositSupply[t] >= amount
       /\ h[a] >= amount /\ s.totalSupply >= amount /\ s.balances[a] >= amount
  <2> DEFINE d == s.depositBalances[a][t]
  <2>1. d \in Nat /\ amount <= d
    BY <1>4, <1>10
  <2> HIDE DEF d
  <2>2. d = f[t] /\ d = g[a]
    BY <1>4 DEF d
  <2>3. s.totalDepositSupply[t] >= amount
    BY <1>5, <1>8, <2>1, <2>2
  <2>4. h[a] >= amount
    BY <1>5, <1>7, <2>1, <2>2
  <2>5. s.totalSupply >= amount
    BY <1>5, <1>9, <1>10, <2>4
  <2> QED BY <1>6, <2>1, <2>3, <2>4, <2>5 DEF d
<1> QED BY <1>2, <1>11 DEF CanUnstake

\* Nothing but the season keeps the rewards of a lock's owner from being brought up to date.
LEMMA CanUpdateLocks ==
    ASSUME NEW x, Good(x), NEW u \in Users,
           x.amplifier.lastXpUpdate[u] <= x.amplifier.seasonEnd
    PROVE  CanUpdate(x, u)
<1> DEFINE p == x.amplifier
           last == p.lastXpUpdate[u]
           reward == Claim(x.tracker, Amplifier)
           q == LockShared(p, reward)
           n == LockReward(q, u)
<1>1. /\ Sound(x.tracker) /\ LockTyped(p) /\ LockSums(p) /\ LockMarked(p) /\ LockBacked(p)
      /\ p \in AmplifierState /\ now \in Nat /\ Amplifier \in Accounts
  BY AmplifierAssumption DEF Good, Locks, LockTyped
<1>2. CanClaim(x.tracker, Amplifier) /\ reward \in Nat
  BY <1>1, CanClaimSound, ClaimedStakes
<1>3. XpDuration(p, u) >= 0
  <2>1. last \in Nat /\ last <= now /\ p.seasonEnd \in Nat /\ last <= p.seasonEnd
    BY <1>1 DEF LockTyped, AmplifierState
  <2>2. Min({now, p.seasonEnd}) = IF now <= p.seasonEnd THEN now ELSE p.seasonEnd
    BY <1>1, <2>1, MinOfTwo
  <2>3. XpDuration(p, u) = Min({now, p.seasonEnd}) - last
    BY DEF XpDuration
  <2> HIDE DEF last
  <2> QED BY <1>1, <2>1, <2>2, <2>3
<1> HIDE DEF reward
<1>4. /\ LockTyped(q)
      /\ q = [p EXCEPT !.wethBalance = q.wethBalance,
                       !.cumulativeRewardPerToken = q.cumulativeRewardPerToken]
  BY <1>1, <1>2, LockSharedKeeps
<1> HIDE DEF q
<1>5. q.claimableReward = p.claimableReward /\ q.cumulativeRewards = p.cumulativeRewards
  BY <1>1, <1>4 DEF AmplifierState
<1>6. n \in Nat
  BY <1>4, LockRewardNat
<1>7. LockCounts(q, u) => q.cumulativeRewards[u] + n > 0
  <2>1. /\ p.claimableReward[u] \in Nat /\ p.cumulativeRewards[u] \in Nat
        /\ p.claimableReward[u] <= p.cumulativeRewards[u]
    BY <1>1 DEF AmplifierState, LockMarked
  <2>2. LockCounts(q, u) => p.claimableReward[u] + n > 0
    BY <1>5 DEF LockCounts
  <2> HIDE DEF n
  <2> QED BY <1>5, <1>6, <2>1, <2>2
<1> QED BY <1>2, <1>3, <1>7 DEF CanUpdate, q, reward

\* An expired position can be unlocked: nothing of what the transaction checks fails,
\* through all the calls of the tracker it makes.
THEOREM ExpiredAlwaysUnlocks == Spec => []ExpiredCanUnlock
<1>1. ASSUME AmpInvariant PROVE ExpiredCanUnlock
  <2> SUFFICES ASSUME NEW u \in Users, NEW id \in Ids,
                      amplifier.positions[u][id] # NoPosition, Expired(amplifier, u, id),
                      amplifier.lastXpUpdate[u] <= amplifier.seasonEnd,
                      "shares" \notin amplifier.recovered, tracker.isDepositToken[Brrr]
               PROVE  CanUnlock(State, u, id)
    BY DEF ExpiredCanUnlock
  <2> DEFINE x == State
             p == amplifier
             deposit == p.positions[u][id].depositAmount
             y == Updated(x, u)
             t == y.tracker
             m == Unstaked(t, Amplifier, Brrr, deposit, Amplifier)
  <2>1. /\ Good(x) /\ x.tracker = tracker /\ x.amplifier = p
    BY <1>1 DEF AmpInvariant, Invariant, Good, State
  <2>2. /\ p \in AmplifierState /\ ListedFor(p, u) /\ LockSums(p) /\ AmplifierHolds(tracker, p)
        /\ Sound(tracker) /\ tracker \in TrackerState
    BY <2>1 DEF Good, Locks, LockTyped, Listed, Sound, Typed
  <2>3. /\ u \in Accounts /\ Amplifier \in Accounts /\ Brrr \in DepositTokens
    BY AmplifierAssumption, TrackerAssumption DEF Users
  <2>4. /\ deposit \in Nat \ {0} /\ deposit <= p.lockedAmount[u] /\ deposit <= p.contractBalance
    <3>1. deposit \in Nat /\ deposit > 0
      BY <2>2 DEF ListedFor, AmplifierState, Position
    <3>2. deposit <= p.lockedAmount[u] /\ p.lockedAmount[u] <= p.contractBalance
      BY <2>2, DepositLocked
    <3>3. p.lockedAmount[u] \in Nat /\ p.contractBalance \in Nat
      BY <2>2 DEF AmplifierState
    <3> HIDE DEF deposit, p
    <3> QED BY <3>1, <3>2, <3>3
  <2>5. /\ deposit <= tracker.balances[Amplifier]
        /\ deposit <= tracker.depositBalances[Amplifier][Brrr]
    <3>1. /\ p.contractBalance <= tracker.balances[Amplifier]
          /\ p.contractBalance <= tracker.depositBalances[Amplifier][Brrr]
      BY <2>2 DEF AmplifierHolds
    <3>2. /\ tracker.balances[Amplifier] \in Nat /\ p.contractBalance \in Nat
          /\ tracker.depositBalances[Amplifier][Brrr] \in Nat
      BY <2>2, <2>3 DEF TrackerState, PerToken, AmplifierState
    <3> HIDE DEF deposit, p
    <3> QED BY <2>4, <3>1, <3>2
  <2>6. CanUpdate(x, u)
    BY <2>1, CanUpdateLocks
  <2>7. Good(y) /\ SameStakes(tracker, t)
    <3> HIDE DEF x
    <3> QED BY <2>1, <2>6, UpdatedGood
  <2> HIDE DEF y, x, deposit
  <2>8. /\ Sound(t) /\ t.isDepositToken[Brrr] /\ deposit <= t.balances[Amplifier]
        /\ deposit <= t.depositBalances[Amplifier][Brrr]
    BY <2>5, <2>7 DEF Good, SameStakes
  <2> HIDE DEF t
  <2>9. CanUnstake(t, Amplifier, Brrr, deposit)
    BY <2>3, <2>4, <2>8, CanUnstakeSound
  <2>10. /\ Sound(m) /\ m.isDepositToken = t.isDepositToken /\ m.wallets[Amplifier][Brrr] >= deposit
    BY <2>3, <2>4, <2>8, <2>9, UnstakedSound
  <2> HIDE DEF m
  <2>11. CanStake(m, Amplifier, u, Brrr, deposit)
    <3>1. CanUpdateRewards(m, u)
      BY <2>3, <2>10, CanUpdateSound
    <3> QED BY <2>4, <2>8, <2>10, <3>1 DEF CanStake
  <2>12. CanTransferStaked(t, Amplifier, u, deposit)
    BY <2>9, <2>11 DEF CanTransferStaked, m
  <2>13. deposit > 0 /\ deposit = x.amplifier.positions[u][id].depositAmount
    BY <2>1, <2>4 DEF deposit
  <2>14. /\ x.tracker.balances[Amplifier] >= deposit /\ x.amplifier.lockedAmount[u] >= deposit
         /\ x.amplifier.contractBalance >= deposit /\ Expired(x.amplifier, u, id)
    BY <2>1, <2>4, <2>5
  <2> QED BY <2>6, <2>12, <2>13, <2>14 DEF CanUnlock, t, y, x
<1> QED BY <1>1, AmpInvariantHolds, PTL
=============================================================================
