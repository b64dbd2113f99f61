--------------------------- MODULE BrrrXpAmplifier ---------------------------
(***************************************************************************)
(* BrrrXpAmplifier.sol on top of RewardTracker: users lock their stake with *)
(* the amplifier until a date, it stakes for all of them under its own      *)
(* account, divides its rewards among the locks and counts XP until the     *)
(* season ends.                                                            *)
(*                                                                          *)
(* A transaction calls the tracker several times, through TransferStakedBrrr*)
(* too, so it maps a pair of states, x.tracker and x.amplifier, to the next.*)
(***************************************************************************)
EXTENDS RewardTracker, Sequences, Functions

CONSTANTS
    Amplifier, Gov,           \* two of the accounts
    Durations, Multipliers,   \* by tier
    AmplifierPrecision,       \* PRECISION of the amplifier
    FirstSeasonEnd, MinSeasonEnd,
    LockAmounts, SeasonEnds,  \* arguments of the calls
    TrackerCallers,           \* bound: who calls the tracker directly
    MaxPositions              \* bound

Users == Accounts \ {Amplifier, Gov}
Tiers == DOMAIN Durations
Ids == 0..(MaxPositions - 1)

ASSUME AmplifierAssumption ==
    /\ {Amplifier, Gov} \subseteq Accounts /\ Amplifier # Gov
    /\ Durations \in [Tiers -> Nat \ {0}] /\ Multipliers \in [Tiers -> Nat \ {0}]
    /\ AmplifierPrecision \in Nat \ {0}
    /\ FirstSeasonEnd \in Nat /\ MinSeasonEnd \in Nat
    /\ LockAmounts \subseteq Nat \ {0} /\ SeasonEnds \subseteq Nat
    /\ TrackerCallers \subseteq Accounts \ {Amplifier}  \* the contract makes no such call
    /\ MaxPositions \in Nat \ {0}

VARIABLE amplifier
vars == <<trackerVars, amplifier>>

PerUser(x) == [u \in Users |-> x]
NoPosition == [depositAmount |-> 0, multiplier |-> 0, unlockDate |-> 0]

EmptyAmplifier ==
    [positions |-> PerUser([id \in Ids |-> NoPosition]), userPositionIds |-> PerUser(<<>>),
     nextPositionId |-> 0,
     lockedAmount |-> PerUser(0), contractBalance |-> 0,
     wethBalance |-> 0, cumulativeRewardPerToken |-> 0,
     previousCumulativeRewardPerToken |-> PerUser(0),
     claimableReward |-> PerUser(0), cumulativeRewards |-> PerUser(0),
     lastXpUpdate |-> PerUser(0), totalXpEarned |-> PerUser(0),
     seasonEnd |-> FirstSeasonEnd,
     \* histories: the XP weight each user had in each second, what gov recovered
     weights |-> PerUser([time \in 0..MaxTime |-> 0]), recovered |-> {}]

-----------------------------------------------------------------------------
(* _updateRewards and _calculatePendingXpRewards.                          *)

\* what all of a user's positions earn per second, in hundredths
Weight(p, u) ==
    SumOver([id \in Range(p.userPositionIds[u]) |->
               p.positions[u][id].depositAmount * p.positions[u][id].multiplier])

\* mutant: the season's end is forgotten
XpDurationUncapped(p, u) == now - p.lastXpUpdate[u]

\* XP counts to the end of the season
XpDuration(p, u) == Min({now, p.seasonEnd}) - p.lastXpUpdate[u]
PendingXp(p, u) == (Weight(p, u) * XpDuration(p, u)) \div 100

\* after the claim of the amplifier's own reward from the tracker
LockShared(p, reward) ==
    [p EXCEPT !.wethBalance = @ + reward,
              !.cumulativeRewardPerToken =
                  IF p.contractBalance > 0
                  THEN @ + (reward * AmplifierPrecision) \div p.contractBalance ELSE @]

LockReward(p, u) ==
    (p.lockedAmount[u] * (p.cumulativeRewardPerToken - p.previousCumulativeRewardPerToken[u]))
        \div AmplifierPrecision
LockCounts(p, u) == p.claimableReward[u] + LockReward(p, u) > 0 /\ p.lockedAmount[u] > 0

CanUpdate(x, u) ==
    /\ CanClaim(x.tracker, Amplifier)
    /\ XpDuration(x.amplifier, u) >= 0
    /\ LET p == LockShared(x.amplifier, Claim(x.tracker, Amplifier))
       IN LockCounts(p, u) => p.cumulativeRewards[u] + LockReward(p, u) > 0

\* mutant: the user's mark is not moved, so the same reward is counted again
UpdatedTwice(x, u) ==
    LET p == LockShared(x.amplifier, Claim(x.tracker, Amplifier))
    IN [tracker |-> Claimed(x.tracker, Amplifier),
        amplifier |->
            [p EXCEPT !.claimableReward[u] = @ + LockReward(p, u),
                      !.cumulativeRewards[u] = IF LockCounts(p, u) THEN @ + LockReward(p, u) ELSE @,
                      !.totalXpEarned[u] = @ + PendingXp(x.amplifier, u),
                      !.lastXpUpdate[u] = now]]

Updated(x, u) ==
    LET p == LockShared(x.amplifier, Claim(x.tracker, Amplifier))
    IN [tracker |-> Claimed(x.tracker, Amplifier),
        amplifier |->
            [p EXCEPT !.claimableReward[u] = @ + LockReward(p, u),
                      !.previousCumulativeRewardPerToken[u] = p.cumulativeRewardPerToken,
                      !.cumulativeRewards[u] = IF LockCounts(p, u) THEN @ + LockReward(p, u) ELSE @,
                      !.totalXpEarned[u] = @ + PendingXp(x.amplifier, u),
                      !.lastXpUpdate[u] = now]]

-----------------------------------------------------------------------------
(* lockLiquidity and unlockLiquidity.                                      *)

State == [tracker |-> tracker, amplifier |-> amplifier]
Becomes(x) == tracker' = x.tracker /\ amplifier' = x.amplifier

\* the stake arrives before the rewards are brought up to date
Arrived(u, amount) == [State EXCEPT !.tracker = StakeTransferred(tracker, u, Amplifier, amount)]
NewPosition(p, u, tier, amount) ==
    [p EXCEPT !.positions[u][p.nextPositionId] =
                  [depositAmount |-> amount, multiplier |-> Multipliers[tier],
                   unlockDate |-> now + Durations[tier]],
              !.userPositionIds[u] = Append(@, p.nextPositionId),
              !.nextPositionId = @ + 1,
              !.lockedAmount[u] = @ + amount,
              !.contractBalance = @ + amount]

LockLiquidity(u, tier, amount) ==
    /\ tracker.balances[u] >= amount
    /\ now + Durations[tier] <= amplifier.seasonEnd
    /\ amplifier.nextPositionId < MaxPositions             \* bound
    /\ CanTransferStaked(tracker, u, Amplifier, amount)
    /\ CanUpdate(Arrived(u, amount), u)
    /\ Becomes([Updated(Arrived(u, amount), u) EXCEPT !.amplifier = NewPosition(@, u, tier, amount)])

Expired(p, u, id) == p.positions[u][id].unlockDate <= now

\* the last id takes the place of the one removed
WithoutId(ids, id) ==
    LET i == CHOOSE j \in DOMAIN ids : ids[j] = id
    IN SubSeq([ids EXCEPT ![i] = ids[Len(ids)]], 1, Len(ids) - 1)

\* mutant: the last id goes, whichever it is
PositionRemovedLast(p, u, id) ==
    [p EXCEPT !.positions[u][id] = NoPosition,
              !.userPositionIds[u] = SubSeq(@, 1, Len(@) - 1),
              !.lockedAmount[u] = @ - p.positions[u][id].depositAmount,
              !.contractBalance = @ - p.positions[u][id].depositAmount]

\* mutant: the position is not deleted
PositionRemovedKept(p, u, id) ==
    [p EXCEPT !.userPositionIds[u] = WithoutId(@, id),
              !.lockedAmount[u] = @ - p.positions[u][id].depositAmount,
              !.contractBalance = @ - p.positions[u][id].depositAmount]

PositionRemoved(p, u, id) ==
    [p EXCEPT !.positions[u][id] = NoPosition,
              !.userPositionIds[u] = WithoutId(@, id),
              !.lockedAmount[u] = @ - p.positions[u][id].depositAmount,
              !.contractBalance = @ - p.positions[u][id].depositAmount]

CanUnlock(x, u, id) ==
    LET deposit == x.amplifier.positions[u][id].depositAmount
    IN /\ deposit > 0 /\ Expired(x.amplifier, u, id)
       /\ x.tracker.balances[Amplifier] >= deposit
       /\ CanUpdate(x, u)
       /\ x.amplifier.lockedAmount[u] >= deposit /\ x.amplifier.contractBalance >= deposit
       /\ CanTransferStaked(Updated(x, u).tracker, Amplifier, u, deposit)
Unlocked(x, u, id) ==
    LET y == Updated(x, u)
        deposit == x.amplifier.positions[u][id].depositAmount
    IN [tracker |-> StakeTransferred(y.tracker, Amplifier, u, deposit),
        amplifier |-> PositionRemoved(y.amplifier, u, id)]

UnlockLiquidity(u, id) == CanUnlock(State, u, id) /\ Becomes(Unlocked(State, u, id))

UnlockOne(y, u, id) ==
    IF y.reverted \/ ~Expired(y.after.amplifier, u, id) THEN y
    ELSE IF CanUnlock(y.after, u, id) THEN [y EXCEPT !.after = Unlocked(y.after, u, id)]
    ELSE [y EXCEPT !.reverted = TRUE]

\* one transaction: if one of the expired positions cannot be unlocked, none is
UnlockEach(x, u) ==
    LET ids == x.amplifier.userPositionIds[u]
        y[n \in 0..Len(ids)] == IF n = 0 THEN [after |-> x, reverted |-> FALSE]
                                ELSE UnlockOne(y[n - 1], u, ids[n])
    IN y[Len(ids)]
UnlockAllPositions(u) ==
    /\ amplifier.userPositionIds[u] # <<>>
    /\ ~UnlockEach(State, u).reverted
    /\ Becomes(UnlockEach(State, u).after)

-----------------------------------------------------------------------------
(* Claims and governance.                                                  *)

\* the reward is forgotten even if the WETH for it is not there
ClaimPendingRewards(u) ==
    /\ CanUpdate(State, u)
    /\ LET y == Updated(State, u)
           reward == y.amplifier.claimableReward[u]
       IN Becomes([y EXCEPT !.amplifier.claimableReward[u] = 0,
                            !.amplifier.wethBalance = IF @ >= reward THEN @ - reward ELSE @])

RecoverWeth ==
    /\ now >= amplifier.seasonEnd
    /\ amplifier' = [amplifier EXCEPT !.wethBalance = 0, !.recovered = @ \cup {"weth"}]
    /\ UNCHANGED tracker

\* mutant: the season need not be over
RecoverSharesEarly ==
    /\ tracker' = SharesMoved(tracker, Amplifier, Gov, tracker.balances[Amplifier])
    /\ amplifier' = [amplifier EXCEPT
                       !.recovered = IF now >= amplifier.seasonEnd THEN @ \cup {"shares"} ELSE @]

RecoverShares ==
    /\ now >= amplifier.seasonEnd
    /\ tracker' = SharesMoved(tracker, Amplifier, Gov, tracker.balances[Amplifier])
    /\ amplifier' = [amplifier EXCEPT !.recovered = @ \cup {"shares"}]

UpdateSeasonEnd(newSeasonEnd) ==
    /\ newSeasonEnd >= now /\ newSeasonEnd >= MinSeasonEnd
    /\ amplifier' = [amplifier EXCEPT !.seasonEnd = newSeasonEnd]
    /\ UNCHANGED tracker

UserCall ==
    /\ \E u \in Users :
          \/ \E tier \in Tiers, amount \in LockAmounts : LockLiquidity(u, tier, amount)
          \/ \E id \in Ids : UnlockLiquidity(u, id)
          \/ UnlockAllPositions(u)
          \/ ClaimPendingRewards(u)
    /\ UNCHANGED now

GovCall ==
    /\ \/ RecoverWeth \/ RecoverShares
       \/ \E newSeasonEnd \in SeasonEnds : UpdateSeasonEnd(newSeasonEnd)
    /\ UNCHANGED now

TrackerCall == (AccountCall(TrackerCallers) \/ AdminCall) /\ UNCHANGED amplifier

Second ==
    /\ Tick
    /\ amplifier' = [amplifier EXCEPT
                       !.weights = [u \in Users |-> [@[u] EXCEPT ![now] = Weight(amplifier, u)]]]

Init == TrackerInit /\ amplifier = EmptyAmplifier
Next == UserCall \/ GovCall \/ TrackerCall \/ Second
Spec == Init /\ [][Next]_vars

-----------------------------------------------------------------------------
(* Properties.                                                             *)

\* The type of every field of the contract.
TypeOK ==
    /\ TrackerTypeOK
    /\ amplifier.positions \in
         [Users -> [Ids -> [depositAmount : Nat, multiplier : Nat, unlockDate : Nat]]]
    /\ \A u \in Users : amplifier.userPositionIds[u] \in Seq(Ids)
    /\ amplifier.nextPositionId \in 0..MaxPositions
    /\ \A n \in {amplifier.contractBalance, amplifier.wethBalance,
                 amplifier.cumulativeRewardPerToken, amplifier.seasonEnd} : n \in Nat
    /\ \A f \in {amplifier.lockedAmount, amplifier.claimableReward, amplifier.cumulativeRewards,
                 amplifier.totalXpEarned} : f \in [Users -> Nat]
    /\ amplifier.previousCumulativeRewardPerToken \in
         [Users -> 0..amplifier.cumulativeRewardPerToken]
    /\ amplifier.lastXpUpdate \in [Users -> 0..now]

\* Through locks, swaps in the id lists and unlocks in bulk, each user's list names
\* every open position once and the totals are the sums of the positions.
LocksAddUp ==
    /\ \A u \in Users :
         LET open == {id \in Ids : amplifier.positions[u][id] # NoPosition}
         IN /\ IsInjective(amplifier.userPositionIds[u])
            /\ Range(amplifier.userPositionIds[u]) = open
            /\ amplifier.lockedAmount[u] =
                 SumOver([id \in open |-> amplifier.positions[u][id].depositAmount])
    /\ amplifier.contractBalance = SumOver(amplifier.lockedAmount)

\* What the users have locked is staked under the amplifier's account, and until gov
\* recovers the shares after the season nobody can take it from under them.
LocksStaked ==
    /\ amplifier.contractBalance <= tracker.depositBalances[Amplifier][Brrr]
    /\ "shares" \notin amplifier.recovered =>
         amplifier.contractBalance <= tracker.balances[Amplifier]

\* Until gov recovers the WETH, the amplifier holds what it owes the users, although
\* it collects its rewards late and divides them by what is locked at that moment.
LockRewardsBacked ==
    "weth" \notin amplifier.recovered =>
        amplifier.wethBalance >=
            SumOver([u \in Users |-> amplifier.claimableReward[u] + LockReward(amplifier, u)])

\* "Users shouldn't be able to earn XP rewards beyond the end of the season": XP is
\* what the positions weighed in the seconds before it, at most once.
XpWithinSeason ==
    \A u \in Users :
        100 * amplifier.totalXpEarned[u] <=
            Sum(amplifier.weights[u], {time \in 0..MaxTime : time < Min({now, amplifier.seasonEnd})})

\* Whoever has an expired position can unlock it until the shares are recovered,
\* unless the user's rewards were brought up to date after the season's end, or the
\* deposit token was disabled.
ExpiredCanUnlock ==
    \A u \in Users, id \in Ids :
        /\ amplifier.positions[u][id] # NoPosition /\ Expired(amplifier, u, id)
        /\ amplifier.lastXpUpdate[u] <= amplifier.seasonEnd
        /\ "shares" \notin amplifier.recovered /\ tracker.isDepositToken[Brrr]
        => CanUnlock(State, u, id)

\* What the comment of claimPendingRewards says: "Callable at any time".
CallableAtAnyTime == \A u \in Users : ENABLED ClaimPendingRewards(u)
=============================================================================
