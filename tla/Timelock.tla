------------------------------ MODULE Timelock ------------------------------
(***************************************************************************)
(* Timelock, RewardTimelock, PriceFeedTimelock and ShortsTrackerTimelock:  *)
(* an action is signalled, may be executed once its buffer has passed, or  *)
(* cancelled.  The four contracts share the mechanism and differ in        *)
(* whether an action may be signalled again, whether it may be executed at *)
(* the very second it is due, and who replaces the admin.                  *)
(*                                                                          *)
(* Each timelock governs one contract.  An action changes that contract's  *)
(* governor, one of its settings (its price feed, a handler, a token's     *)
(* configuration, ...), or the timelock's own admin.                       *)
(***************************************************************************)
EXTENDS Naturals, FiniteSets

CONSTANTS
    Timelocks,
    PriceFeedTimelocks,       \* an action may be signalled again, which restarts it
    ShortsTrackerTimelocks,   \* due means <=, and the admin is changed by an action
    Accounts,                 \* whoever may be an admin, a governor or a setting
    tokenManager,             \* the TokenManager contract
    InitialBuffer, MaxBuffer,
    Buffers,                  \* bound, by timelock: what setBuffer is called with
    FirstAdmin,
    Proposed,                 \* bound, by timelock: the actions anybody signals
    StartTime, MaxTime        \* bounds of the clock

Powers == {"gov", "setting", "admin"}

\* the arguments hashed into a key
Action == UNION {Proposed[tl] : tl \in Timelocks}

ASSUME TimelockAssumption ==
    /\ PriceFeedTimelocks \subseteq Timelocks /\ ShortsTrackerTimelocks \subseteq Timelocks
    /\ Timelocks \subseteq Accounts /\ tokenManager \in Accounts
    /\ MaxBuffer \in Nat /\ InitialBuffer \in [Timelocks -> Nat]
    \* only ShortsTrackerTimelock's constructor takes any buffer
    /\ \A tl \in Timelocks \ ShortsTrackerTimelocks : InitialBuffer[tl] <= MaxBuffer
    /\ Buffers \in [Timelocks -> SUBSET Nat]
    /\ FirstAdmin \in Accounts
    /\ Proposed \in [Timelocks -> SUBSET (Powers \X Accounts)]
    \* only ShortsTrackerTimelock has signalSetAdmin
    /\ \A tl \in Timelocks \ ShortsTrackerTimelocks :
           \A action \in Proposed[tl] : action[1] # "admin"
    /\ StartTime \in Nat \ {0} /\ MaxTime \in Nat

VARIABLES
    pendingActions,           \* by timelock and action: when it is due, 0 if not signalled
    admin, buffer,
    gov, setting,             \* of the contract the timelock governs
    now,
    signalledAt               \* history, by timelock and action: when it was signalled

delayVars == <<pendingActions, signalledAt>>
timelockVars == <<delayVars, admin, buffer, gov, setting, now>>

TimelockInit ==
    /\ pendingActions = [tl \in Timelocks |-> [action \in Action |-> 0]]
    /\ signalledAt = [tl \in Timelocks |-> [action \in Action |-> 0]]
    /\ admin = [tl \in Timelocks |-> FirstAdmin]
    /\ buffer = InitialBuffer
    /\ gov = [tl \in Timelocks |-> tl]
    /\ setting = [tl \in Timelocks |-> FirstAdmin]
    /\ now = StartTime

-----------------------------------------------------------------------------
\* mutant: a buffer that was raised is not waited for, nor is the first one
DueAtOnce(tl) == now

\* block.timestamp + buffer
DueAt(tl) == now + buffer[tl]

\* _setPendingAction
Signal(tl, caller, action) ==
    /\ caller = admin[tl]
    /\ tl \notin PriceFeedTimelocks => pendingActions[tl][action] = 0
    /\ pendingActions' = [pendingActions EXCEPT ![tl][action] = DueAt(tl)]
    /\ signalledAt' = [signalledAt EXCEPT ![tl][action] = now]
    /\ UNCHANGED <<admin, buffer, gov, setting, now>>

\* _validateAction
Due(tl, action) ==
    /\ pendingActions[tl][action] # 0
    /\ IF tl \in ShortsTrackerTimelocks THEN pendingActions[tl][action] <= now
                                        ELSE pendingActions[tl][action] < now

\* _clearAction
ClearAction(tl, action) ==
    /\ pendingActions[tl][action] # 0
    /\ pendingActions' = [pendingActions EXCEPT ![tl][action] = 0]
    /\ signalledAt' = [signalledAt EXCEPT ![tl][action] = 0]

\* the governed contract refuses whoever is not its governor
Effect(tl, action) ==
    \/ /\ action[1] = "admin"
       /\ admin' = [admin EXCEPT ![tl] = action[2]] /\ UNCHANGED <<gov, setting>>
    \/ /\ action[1] = "gov" /\ gov[tl] = tl
       /\ gov' = [gov EXCEPT ![tl] = action[2]] /\ UNCHANGED <<admin, setting>>
    \/ /\ action[1] = "setting" /\ gov[tl] = tl
       /\ setting' = [setting EXCEPT ![tl] = action[2]] /\ UNCHANGED <<admin, gov>>

\* setGov, setHandler, setPriceFeed and the others
Execute(tl, caller, action) ==
    /\ caller = admin[tl]
    /\ Due(tl, action) /\ ClearAction(tl, action)
    /\ Effect(tl, action)
    /\ UNCHANGED <<buffer, now>>

CancelAction(tl, caller, action) ==
    /\ caller = admin[tl]
    /\ ClearAction(tl, action)
    /\ UNCHANGED <<admin, buffer, gov, setting, now>>

SetBuffer(tl, caller, value) ==
    /\ caller = admin[tl]
    /\ value <= MaxBuffer /\ value > buffer[tl]
    /\ buffer' = [buffer EXCEPT ![tl] = value]
    /\ UNCHANGED <<delayVars, admin, gov, setting, now>>

\* setAdmin of every timelock but ShortsTrackerTimelock
SetAdmin(tl, caller, account) ==
    /\ tl \notin ShortsTrackerTimelocks
    /\ caller = tokenManager
    /\ admin' = [admin EXCEPT ![tl] = account]
    /\ UNCHANGED <<delayVars, buffer, gov, setting, now>>

\* a governor that is not the timelock changes the contract as it likes
GovernOutside(tl, account) ==
    /\ gov[tl] # tl
    /\ \/ gov' = [gov EXCEPT ![tl] = account] /\ UNCHANGED setting
       \/ setting' = [setting EXCEPT ![tl] = account] /\ UNCHANGED gov
    /\ UNCHANGED <<delayVars, admin, buffer, now>>

Tick ==
    /\ now < MaxTime                              \* bound
    /\ now' = now + 1
    /\ UNCHANGED <<delayVars, admin, buffer, gov, setting>>

AdminCall(tl, caller) ==
    \/ \E action \in Proposed[tl] :
           \/ Signal(tl, caller, action)
           \/ Execute(tl, caller, action)
           \/ CancelAction(tl, caller, action)
    \/ \E value \in Buffers[tl] : SetBuffer(tl, caller, value)
=============================================================================
