------------------------- MODULE TokenManagerProofs -------------------------
(***************************************************************************)
(* Proofs about the timelocks and the multisig, for any number of either,   *)
(* any buffers and any quorum.                                             *)
(***************************************************************************)
EXTENDS TokenManager, FiniteSetTheorems, TLAPS

-----------------------------------------------------------------------------
(* Types.                                                                  *)

\* A step of a timelock keeps the types.
LEMMA SignalType ==
    ASSUME TypeOK, NEW tl \in Timelocks, NEW caller, NEW action \in Action,
           Signal(tl, caller, action),
           UNCHANGED <<signerVars, actionsNonce, signedActions, signedSince>>,
           signalled' \subseteq signalled
    PROVE  TypeOK'
<1>1. now + buffer[tl] \in Nat
    BY TimelockAssumption DEF TypeOK
<1> QED
    BY <1>1, TimelockAssumption DEF TypeOK, Signal, DueAt, managerVars, signerVars

LEMMA ExecuteType ==
    ASSUME TypeOK, NEW tl \in Timelocks, NEW caller, NEW action \in Action,
           Execute(tl, caller, action),
           UNCHANGED <<signerVars, actionsNonce, signedActions, signedSince>>,
           signalled' \subseteq signalled
    PROVE  TypeOK'
<1>1. action[2] \in Accounts
    BY TimelockAssumption DEF Action
<1> QED
    BY <1>1 DEF TypeOK, Execute, ClearAction, Effect, managerVars, signerVars

LEMMA TimelockType ==
    ASSUME TypeOK, TimelockCall, UNCHANGED managerVars
    PROVE  TypeOK'
<1>1. PICK tl \in Timelocks :
        \/ \E caller \in People : AdminCall(tl, caller)
        \/ \E account \in People \cup {tl} : GovernOutside(tl, account)
    BY DEF TimelockCall
<1>2. ASSUME NEW caller \in People, NEW action \in Proposed[tl],
             Signal(tl, caller, action) \/ Execute(tl, caller, action)
      PROVE  TypeOK'
    BY <1>2, SignalType, ExecuteType DEF Action, managerVars
<1>3. ASSUME NEW caller \in People, NEW action \in Proposed[tl],
             CancelAction(tl, caller, action)
      PROVE  TypeOK'
    <2>1. action \in Action
        BY DEF Action
    <2> QED
        BY <1>3, <2>1 DEF TypeOK, CancelAction, ClearAction, managerVars, signerVars
<1>4. ASSUME NEW caller \in People, NEW value \in Buffers[tl], SetBuffer(tl, caller, value)
      PROVE  TypeOK'
    <2>1. value \in Nat
        BY TimelockAssumption
    <2> QED
        BY <1>4, <2>1, TimelockAssumption DEF TypeOK, SetBuffer, delayVars, managerVars, signerVars
<1>5. ASSUME NEW account \in People \cup {tl}, GovernOutside(tl, account)
      PROVE  TypeOK'
    <2>1. account \in Accounts
        BY TimelockAssumption DEF People
    <2> QED
        <3>1. UNCHANGED <<pendingActions, signalledAt, admin, buffer, now>>
            BY <1>5 DEF GovernOutside, delayVars
        <3>2. gov' \in [Timelocks -> Accounts] /\ setting' \in [Timelocks -> Accounts]
            <4>1. gov \in [Timelocks -> Accounts] /\ setting \in [Timelocks -> Accounts]
                BY DEF TypeOK
            <4>2. CASE gov' = [gov EXCEPT ![tl] = account] /\ UNCHANGED setting
                BY <2>1, <4>1, <4>2
            <4>3. CASE setting' = [setting EXCEPT ![tl] = account] /\ UNCHANGED gov
                BY <2>1, <4>1, <4>3
            <4> QED
                BY <1>5, <4>2, <4>3 DEF GovernOutside
        <3> QED
            BY <3>1, <3>2 DEF TypeOK, managerVars, signerVars
<1>6. ASSUME NEW caller \in People, AdminCall(tl, caller)
      PROVE  TypeOK'
    BY <1>2, <1>3, <1>4, <1>6 DEF AdminCall
<1> QED
    BY <1>1, <1>5, <1>6

LEMMA ManagerType ==
    ASSUME TypeOK, ManagerCall
    PROVE  TypeOK'
<1>1. PICK caller \in People :
        \/ \E list \in SignerLists : Initialize(caller, list)
        \/ \E wanted \in Wanted : SignalAction(caller, wanted)
        \/ \E action \in signalled : SignAction(caller, action) \/ ExecuteAction(caller, action)
    BY DEF ManagerCall
<1>2. caller \in Accounts
    BY DEF People
<1>3. ASSUME NEW wanted \in Wanted, SignalAction(caller, wanted)
      PROVE  TypeOK'
    <2> DEFINE action == NewAction(wanted)
    <2>1. action \in MultisigAction
        BY TokenManagerAssumption DEF TypeOK, NewAction, MultisigAction
    <2> HIDE DEF action
    <2>2. signalled' = signalled \cup {action} /\ actionsNonce' = actionsNonce + 1
        BY <1>3 DEF SignalAction, action
    <2>3. signedActions' \in [Accounts -> SUBSET MultisigAction]
        BY <1>2, <1>3, <2>1 DEF SignalAction, action, TypeOK
    <2>4. signedSince' \in [DOMAIN signedSince' -> SUBSET Accounts]
        <3>1. PICK mine \in SUBSET Accounts :
                signedSince' = [a \in DOMAIN signedSince \cup {action} |->
                                  IF a # action THEN signedSince[a] ELSE mine]
            BY <1>2, <1>3 DEF SignalAction, action
        <3> QED
            BY <3>1 DEF TypeOK
    <2> QED
        BY <1>3, <2>1, <2>2, <2>3, <2>4
        DEF SignalAction, TypeOK, timelockVars, delayVars, signerVars
<1>4. ASSUME NEW action \in signalled, SignAction(caller, action)
      PROVE  TypeOK'
    BY <1>2, <1>4 DEF SignAction, TypeOK, timelockVars, delayVars, signerVars
<1>5. ASSUME NEW action \in signalled, ExecuteAction(caller, action)
      PROVE  TypeOK'
    <2> DEFINE tl == action.wanted.timelock
               to == action.wanted.to
    <2>1. action.wanted \in Wanted
        BY DEF TypeOK, MultisigAction
    <2>2. tl \in Timelocks /\ to \in Accounts
        BY <2>1, TokenManagerAssumption
    <2>3. UNCHANGED <<signerVars, actionsNonce, signedActions, signedSince>>
          /\ signalled' \subseteq signalled
        BY <1>5 DEF ExecuteAction
    <2>4. CASE UNCHANGED timelockVars
        BY <2>3, <2>4 DEF TypeOK, timelockVars, delayVars, signerVars
    <2>5. CASE /\ tl \in ShortsTrackerTimelocks /\ action.wanted.kind = "setAdmin"
               /\ Execute(tl, tokenManager, <<"admin", to>>)
        <3>1. <<"admin", to>> \in Action
            BY <2>1, <2>5, TokenManagerAssumption
        <3> QED
            BY <2>2, <2>3, <2>5, <3>1, ExecuteType
    <2>6. CASE SetAdmin(tl, tokenManager, to)
        BY <2>2, <2>3, <2>6 DEF TypeOK, SetAdmin, delayVars, signerVars
    <2>7. CASE action.wanted.kind = "setGov" /\ Signal(tl, tokenManager, <<"gov", to>>)
        <3>1. <<"gov", to>> \in Action
            BY <2>1, <2>7, TokenManagerAssumption
        <3> QED
            BY <2>2, <2>3, <2>7, <3>1, SignalType
    <2> QED
        BY <1>5, <2>4, <2>5, <2>6, <2>7 DEF ExecuteAction
<1>6. ASSUME NEW list \in SignerLists, Initialize(caller, list)
      PROVE  TypeOK'
    <2>1. list \in Seq(Accounts)
        BY TokenManagerAssumption
    <2> QED
        BY <1>6, <2>1 DEF Initialize, TypeOK, timelockVars, delayVars
<1> QED
    BY <1>1, <1>3, <1>4, <1>5, <1>6

\* Every step keeps the types.
LEMMA TypeStep == TypeOK /\ [Next]_vars => TypeOK'
<1> SUFFICES ASSUME TypeOK, [Next]_vars PROVE TypeOK'
    OBVIOUS
<1>1. CASE Tick /\ UNCHANGED managerVars
    BY <1>1 DEF Tick, TypeOK, managerVars, delayVars, signerVars
<1>2. CASE UNCHANGED vars
    BY <1>2 DEF vars, TypeOK, managerVars, timelockVars, delayVars, signerVars
<1> QED
    BY <1>1, <1>2, TimelockType, ManagerType DEF Next

\* The types hold always.
THEOREM TypeCorrect == Spec => []TypeOK
<1>1. ASSUME Init PROVE TypeOK
    <2>1. signers \in Seq(Accounts)
        BY <1>1 DEF Init
    <2> QED
        BY <1>1, <2>1, TimelockAssumption, TokenManagerAssumption DEF Init, TimelockInit, TypeOK
<1> QED
    BY <1>1, TypeStep, PTL DEF Spec

-----------------------------------------------------------------------------
(* Delays.                                                                 *)

\* What a pending action remembers: when it was signalled, and that it is due a
\* first buffer after that at the earliest.
DelayKept ==
    \A tl \in Timelocks :
        /\ InitialBuffer[tl] <= buffer[tl]
        /\ \A action \in Action : pendingActions[tl][action] # 0 =>
               /\ signalledAt[tl][action] # 0
               /\ signalledAt[tl][action] + InitialBuffer[tl] <= pendingActions[tl][action]

\* One entry of the abstract announcements changes.
LEMMA OneAnnouncement ==
    ASSUME NEW tl \in Timelocks, NEW action \in Action, NEW value,
           \A t \in Timelocks : \A c \in Action :
               Announced(t, c)' = IF t = tl /\ c = action THEN value ELSE Announced(t, c)
    PROVE  [t \in Timelocks |-> [c \in Action |-> Announced(t, c)]]'
             = [[t \in Timelocks |-> [c \in Action |-> Announced(t, c)]]
                    EXCEPT ![tl][action] = value]
<1> DEFINE old == [t \in Timelocks |-> [c \in Action |-> Announced(t, c)]]
           new == [t \in Timelocks |-> [c \in Action |-> Announced(t, c)']]
<1>1. \A t \in Timelocks : new[t] = IF t = tl THEN [old[t] EXCEPT ![action] = value] ELSE old[t]
    OBVIOUS
<1>2. new = [old EXCEPT ![tl] = [old[tl] EXCEPT ![action] = value]]
    <2> HIDE DEF old, new
    <2>1. DOMAIN new = Timelocks /\ DOMAIN old = Timelocks
        BY DEF old, new
    <2>2. new = [t \in Timelocks |-> new[t]]
        BY DEF new
    <2> QED
        BY <1>1, <2>1, <2>2
<1> QED
    BY <1>2

\* The abstract state after each kind of step.
LEMMA SignalDelayed ==
    ASSUME TypeOK, DelayKept, NEW tl \in Timelocks, NEW caller, NEW action \in Action,
           Signal(tl, caller, action)
    PROVE  DelayKept' /\ Delayed!Announce(tl, action)
<1>1. now + buffer[tl] \in Nat /\ now + buffer[tl] # 0 /\ InitialBuffer[tl] \in Nat
      /\ now + InitialBuffer[tl] <= now + buffer[tl]
    BY TimelockAssumption DEF TypeOK, DelayKept
<1>2. /\ pendingActions' = [pendingActions EXCEPT ![tl][action] = now + buffer[tl]]
      /\ signalledAt' = [signalledAt EXCEPT ![tl][action] = now]
      /\ UNCHANGED <<admin, buffer, gov, setting, now>>
    BY DEF Signal, DueAt
<1>3. DelayKept'
    BY <1>1, <1>2 DEF DelayKept, TypeOK
<1>4. \A t \in Timelocks : \A c \in Action :
          Announced(t, c)' = IF t = tl /\ c = action THEN now ELSE Announced(t, c)
    BY <1>1, <1>2 DEF Announced, TypeOK
<1>5. UNCHANGED [t \in Timelocks |-> Control(t)]
    BY <1>2 DEF Control
<1>6. UNCHANGED now
    BY <1>2
<1> QED
    BY <1>3, <1>4, <1>5, <1>6, OneAnnouncement DEF Delayed!Announce

LEMMA ClearDelayed ==
    ASSUME TypeOK, DelayKept, NEW tl \in Timelocks, NEW action \in Action,
           ClearAction(tl, action), UNCHANGED <<buffer, now>>
    PROVE  /\ DelayKept'
           /\ Announced(tl, action) # 0
           /\ \A t \in Timelocks : \A c \in Action :
                 Announced(t, c)' = IF t = tl /\ c = action THEN 0 ELSE Announced(t, c)
<1>1. /\ pendingActions[tl][action] # 0
      /\ pendingActions' = [pendingActions EXCEPT ![tl][action] = 0]
      /\ signalledAt' = [signalledAt EXCEPT ![tl][action] = 0]
    BY DEF ClearAction
<1>2. DelayKept'
    BY <1>1 DEF DelayKept, TypeOK
<1> QED
    BY <1>1, <1>2 DEF Announced, TypeOK, DelayKept

LEMMA ExecuteDelayed ==
    ASSUME TypeOK, DelayKept, NEW tl \in Timelocks, NEW caller, NEW action \in Action,
           Execute(tl, caller, action)
    PROVE  DelayKept' /\ Delayed!Enforce(tl, action)
<1>1. ClearAction(tl, action) /\ Due(tl, action) /\ Effect(tl, action) /\ UNCHANGED <<buffer, now>>
    BY DEF Execute
<1>2. action = <<action[1], action[2]>> /\ action[1] \in Powers /\ action[2] \in Accounts
    BY TimelockAssumption DEF Action
<1>3. Announced(tl, action) + InitialBuffer[tl] <= now
    <2>1. pendingActions[tl][action] # 0 /\ pendingActions[tl][action] <= now
        BY <1>1 DEF Due, TypeOK
    <2>2. signalledAt[tl][action] + InitialBuffer[tl] <= pendingActions[tl][action]
        BY <2>1 DEF DelayKept
    <2> QED
        BY <2>1, <2>2, TimelockAssumption DEF Announced, TypeOK
<1>4. \A t \in Timelocks : Control(t)' =
          IF t = tl THEN [Control(t) EXCEPT ![action[1]] = action[2]] ELSE Control(t)
    BY <1>1, <1>2 DEF Effect, Control, TypeOK, Powers
<1> DEFINE control == [t \in Timelocks |-> Control(t)]
<1>5. control' = [control EXCEPT ![tl][action[1]] = action[2]]
    BY <1>4
<1>6. /\ DelayKept' /\ Announced(tl, action) # 0
      /\ [t \in Timelocks |-> [c \in Action |-> Announced(t, c)]]'
             = [[t \in Timelocks |-> [c \in Action |-> Announced(t, c)]]
                    EXCEPT ![tl][action] = 0]
    BY <1>1, ClearDelayed, OneAnnouncement
<1> QED
    BY <1>1, <1>3, <1>5, <1>6 DEF Delayed!Enforce

LEMMA CancelDelayed ==
    ASSUME TypeOK, DelayKept, NEW tl \in Timelocks, NEW caller, NEW action \in Action,
           CancelAction(tl, caller, action)
    PROVE  DelayKept' /\ Delayed!Withdraw(tl, action)
<1>1. ClearAction(tl, action) /\ UNCHANGED <<admin, buffer, gov, setting, now>>
    BY DEF CancelAction
<1>2. UNCHANGED [t \in Timelocks |-> Control(t)]
    BY <1>1 DEF Control
<1>3. /\ DelayKept' /\ Announced(tl, action) # 0
      /\ [t \in Timelocks |-> [c \in Action |-> Announced(t, c)]]'
             = [[t \in Timelocks |-> [c \in Action |-> Announced(t, c)]]
                    EXCEPT ![tl][action] = 0]
    BY <1>1, ClearDelayed, OneAnnouncement
<1> QED
    BY <1>1, <1>2, <1>3 DEF Delayed!Withdraw

\* Nothing the promise talks about changes.
LEMMA Stutter ==
    ASSUME UNCHANGED <<delayVars, admin, gov, setting, now>>
    PROVE  UNCHANGED Delayed!vars
BY DEF Delayed!vars, Announced, Control, delayVars

LEMMA SetBufferDelayed ==
    ASSUME TypeOK, DelayKept, NEW tl \in Timelocks, NEW caller, NEW value \in Buffers[tl],
           SetBuffer(tl, caller, value)
    PROVE  DelayKept' /\ UNCHANGED Delayed!vars
<1>1. /\ value > buffer[tl] /\ value \in Nat
      /\ buffer' = [buffer EXCEPT ![tl] = value]
      /\ UNCHANGED <<pendingActions, signalledAt, admin, gov, setting, now>>
    BY TimelockAssumption DEF SetBuffer, delayVars
<1>2. \A t \in Timelocks : buffer[t] \in Nat /\ InitialBuffer[t] \in Nat
    BY TimelockAssumption DEF TypeOK
<1>3. \A t \in Timelocks : InitialBuffer[t] <= buffer'[t]
    BY <1>1, <1>2 DEF DelayKept, TypeOK
<1>4. DelayKept'
    BY <1>1, <1>3 DEF DelayKept
<1> QED
    BY <1>1, <1>4, Stutter DEF delayVars

\* An account is given one power, the announcements stay.
LEMMA OneControl ==
    ASSUME NEW tl \in Timelocks, NEW power \in Powers, NEW account,
           UNCHANGED <<delayVars, now>>,
           \A t \in Timelocks : Control(t)' =
               IF t = tl THEN [Control(t) EXCEPT ![power] = account] ELSE Control(t)
    PROVE  /\ [t \in Timelocks |-> Control(t)]'
                = [[t \in Timelocks |-> Control(t)] EXCEPT ![tl][power] = account]
           /\ UNCHANGED [t \in Timelocks |-> [c \in Action |-> Announced(t, c)]]
BY DEF Announced, delayVars

LEMMA SetAdminDelayed ==
    ASSUME TypeOK, DelayKept, NEW tl \in Timelocks, NEW caller, NEW account \in Accounts,
           SetAdmin(tl, caller, account)
    PROVE  DelayKept' /\ Delayed!Appoint(tl, account)
<1>1. tl \notin ShortsTrackerTimelocks /\ admin' = [admin EXCEPT ![tl] = account]
      /\ UNCHANGED <<delayVars, buffer, gov, setting, now>>
    BY DEF SetAdmin
<1>2. DelayKept'
    BY <1>1 DEF DelayKept, delayVars
<1>3. \A t \in Timelocks : Control(t)' =
          IF t = tl THEN [Control(t) EXCEPT !["admin"] = account] ELSE Control(t)
    BY <1>1 DEF Control, TypeOK, Powers
<1>4. "admin" \in Powers
    BY DEF Powers
<1> QED
    BY <1>1, <1>2, <1>3, <1>4, OneControl DEF Delayed!Appoint

LEMMA GovernOutsideDelayed ==
    ASSUME TypeOK, DelayKept, NEW tl \in Timelocks, NEW account \in Accounts,
           GovernOutside(tl, account)
    PROVE  DelayKept' /\ \E power \in Powers : Delayed!OutOfControl(tl, power, account)
<1>1. DelayKept' /\ UNCHANGED <<delayVars, now>>
    BY DEF GovernOutside, DelayKept, delayVars
<1>2. gov[tl] # tl /\ Control(tl)["gov"] = gov[tl]
    BY DEF GovernOutside, Control, Powers
<1>3. PICK power \in {"gov", "setting"} : \A t \in Timelocks : Control(t)' =
          IF t = tl THEN [Control(t) EXCEPT ![power] = account] ELSE Control(t)
    <2>1. CASE gov' = [gov EXCEPT ![tl] = account] /\ UNCHANGED <<setting, admin>>
        <3>1. \A t \in Timelocks : Control(t)' =
                  IF t = tl THEN [Control(t) EXCEPT !["gov"] = account] ELSE Control(t)
            BY <2>1 DEF Control, TypeOK, Powers
        <3> QED
            BY <3>1
    <2>2. CASE setting' = [setting EXCEPT ![tl] = account] /\ UNCHANGED <<gov, admin>>
        <3>1. \A t \in Timelocks : Control(t)' =
                  IF t = tl THEN [Control(t) EXCEPT !["setting"] = account] ELSE Control(t)
            BY <2>2 DEF Control, TypeOK, Powers
        <3> QED
            BY <3>1
    <2> QED
        BY <2>1, <2>2 DEF GovernOutside
<1>4. power \in Powers /\ power # "admin"
    BY DEF Powers
<1>5. Delayed!OutOfControl(tl, power, account)
    BY <1>1, <1>2, <1>3, <1>4, OneControl DEF Delayed!OutOfControl
<1> QED
    BY <1>1, <1>4, <1>5

\* A step of the timelocks and the multisig is a step of the promise, or none.
LEMMA DelayStep ==
    TypeOK /\ DelayKept /\ [Next]_vars => DelayKept' /\ [Delayed!Next]_(Delayed!vars)
<1> SUFFICES ASSUME TypeOK, DelayKept, [Next]_vars
             PROVE  DelayKept' /\ [Delayed!Next]_(Delayed!vars)
    OBVIOUS
<1>1. ASSUME NEW tl \in Timelocks, NEW caller, NEW action \in Action,
             Signal(tl, caller, action) \/ Execute(tl, caller, action)
                 \/ CancelAction(tl, caller, action)
      PROVE  DelayKept' /\ Delayed!Next
    BY <1>1, SignalDelayed, ExecuteDelayed, CancelDelayed DEF Delayed!Next
<1>2. ASSUME NEW tl \in Timelocks, NEW caller, NEW value \in Buffers[tl], SetBuffer(tl, caller, value)
      PROVE  DelayKept' /\ UNCHANGED Delayed!vars
    BY <1>2, SetBufferDelayed
<1>3. ASSUME NEW tl \in Timelocks, NEW account \in Accounts,
             GovernOutside(tl, account) \/ \E caller : SetAdmin(tl, caller, account)
      PROVE  DelayKept' /\ Delayed!Next
    BY <1>3, GovernOutsideDelayed, SetAdminDelayed DEF Delayed!Next
<1>4. ASSUME UNCHANGED timelockVars
      PROVE  DelayKept' /\ UNCHANGED Delayed!vars
    BY <1>4, Stutter DEF timelockVars, delayVars, DelayKept
<1>5. CASE Tick
    <2>1. DelayKept'
        BY <1>5 DEF Tick, DelayKept, delayVars
    <2>2. Delayed!Tick
        BY <1>5 DEF Tick, Delayed!Tick, Announced, Control, delayVars
    <2> QED
        BY <2>1, <2>2 DEF Delayed!Next
<1>6. CASE TimelockCall
    <2>1. PICK tl \in Timelocks :
            \/ \E caller \in People : AdminCall(tl, caller)
            \/ \E account \in People \cup {tl} : GovernOutside(tl, account)
        BY <1>6 DEF TimelockCall
    <2>2. ASSUME NEW caller \in People, AdminCall(tl, caller)
          PROVE  DelayKept' /\ [Delayed!Next]_(Delayed!vars)
        <3>1. ASSUME NEW action \in Proposed[tl]
              PROVE  action \in Action
            BY DEF Action
        <3> QED
            BY <1>1, <1>2, <2>2, <3>1 DEF AdminCall
    <2>3. ASSUME NEW account \in People \cup {tl}, GovernOutside(tl, account)
          PROVE  DelayKept' /\ [Delayed!Next]_(Delayed!vars)
        <3>1. account \in Accounts
            BY TimelockAssumption DEF People
        <3> QED
            BY <1>3, <2>3, <3>1
    <2> QED
        BY <2>1, <2>2, <2>3
<1>7. CASE ManagerCall
    <2>1. CASE UNCHANGED timelockVars
        BY <1>4, <2>1
    <2>2. ASSUME NEW caller, NEW action \in signalled, ExecuteAction(caller, action)
          PROVE  DelayKept' /\ [Delayed!Next]_(Delayed!vars)
        <3> DEFINE tl == action.wanted.timelock
                   to == action.wanted.to
        <3>1. action.wanted \in Wanted
            BY DEF TypeOK, MultisigAction
        <3>2. tl \in Timelocks /\ to \in Accounts
            BY <3>1, TokenManagerAssumption
        <3>3. CASE UNCHANGED timelockVars
            BY <1>4, <3>3
        <3>4. CASE SetAdmin(tl, tokenManager, to)
            BY <1>3, <3>2, <3>4
        <3>5. CASE /\ tl \in ShortsTrackerTimelocks /\ action.wanted.kind = "setAdmin"
                   /\ Execute(tl, tokenManager, <<"admin", to>>)
            <4>1. <<"admin", to>> \in Action
                BY <3>1, <3>5, TokenManagerAssumption
            <4> QED
                BY <1>1, <3>2, <3>5, <4>1
        <3>6. CASE action.wanted.kind = "setGov" /\ Signal(tl, tokenManager, <<"gov", to>>)
            <4>1. <<"gov", to>> \in Action
                BY <3>1, <3>6, TokenManagerAssumption
            <4> QED
                BY <1>1, <3>2, <3>6, <4>1
        <3> QED
            BY <2>2, <3>3, <3>4, <3>5, <3>6 DEF ExecuteAction
    <2> QED
        BY <1>7, <2>1, <2>2 DEF ManagerCall, Initialize, SignalAction, SignAction
<1> QED
    BY <1>4, <1>5, <1>6, <1>7 DEF Next, vars

\* For any number of timelocks and any buffers: a timelock delays every change by the
\* buffer it was deployed with and makes it once per announcement.
THEOREM ChangesDelayed == Spec => DelayedControl
<1>1. Init => DelayKept /\ Delayed!Init
    <2>1. ASSUME Init PROVE DelayKept
        BY <2>1, TimelockAssumption DEF Init, TimelockInit, DelayKept
    <2>2. ASSUME Init PROVE Delayed!Init
        <3>1. \A tl \in Timelocks : Control(tl) \in [Powers -> Accounts]
            BY <2>2, TimelockAssumption DEF Init, TimelockInit, Control
        <3> QED
            BY <2>2, <3>1, TimelockAssumption DEF Init, TimelockInit, Delayed!Init, Announced
    <2> QED
        BY <2>1, <2>2
<1> QED
    BY <1>1, DelayStep, TypeCorrect, PTL DEF Spec, DelayedControl, Delayed!Spec

-----------------------------------------------------------------------------
(* Signatures.                                                             *)

\* What makes an old signature worthless: a nonce that was never used before has
\* no signatures, so those of a signalled action were given since its signal.
SignaturesFresh ==
    /\ signalled \subseteq DOMAIN signedSince
    /\ \A action \in signalled, account \in Accounts :
           action \in signedActions[account] <=> account \in signedSince[action]
    /\ \A account \in Accounts : \A action \in signedActions[account] :
           action.nonce <= actionsNonce
    /\ \A action \in signalled : action.nonce <= actionsNonce

LEMMA SignaturesStep == TypeOK /\ SignaturesFresh /\ [Next]_vars => SignaturesFresh'
<1> SUFFICES ASSUME TypeOK, SignaturesFresh, [Next]_vars PROVE SignaturesFresh'
    OBVIOUS
<1>1. CASE UNCHANGED managerVars
    BY <1>1 DEF managerVars, SignaturesFresh
<1>2. ASSUME NEW caller \in People, NEW wanted \in Wanted, SignalAction(caller, wanted)
      PROVE  SignaturesFresh'
    <2> DEFINE action == NewAction(wanted)
               signs == wanted.kind # "approve"
    <2>0. caller \in Accounts
        BY DEF People
    <2>1. action.nonce = actionsNonce + 1 /\ actionsNonce \in Nat
        BY DEF NewAction, TypeOK
    <2>2. \A account \in Accounts : action \notin signedActions[account]
        BY <2>1 DEF SignaturesFresh
    <2> HIDE DEF action
    <2>3. /\ actionsNonce' = actionsNonce + 1 /\ signalled' = signalled \cup {action}
          /\ signedActions' = IF signs THEN [signedActions EXCEPT ![caller] = @ \cup {action}]
                              ELSE signedActions
          /\ signedSince' = [a \in DOMAIN signedSince \cup {action} |->
                 IF a # action THEN signedSince[a] ELSE IF signs THEN {caller} ELSE {}]
        BY <1>2 DEF SignalAction, action
    <2>4. \A account \in Accounts :
              signedActions'[account] =
                  IF signs /\ account = caller THEN signedActions[account] \cup {action}
                  ELSE signedActions[account]
        BY <2>0, <2>3 DEF TypeOK
    <2>5. signalled' \subseteq DOMAIN signedSince'
        BY <2>3 DEF SignaturesFresh
    <2>6. ASSUME NEW a \in signalled', NEW account \in Accounts
          PROVE  a \in signedActions'[account] <=> account \in signedSince'[a]
        <3>1. CASE a = action
            BY <2>2, <2>3, <2>4, <2>5, <3>1
        <3>2. CASE a # action
            BY <2>3, <2>4, <3>2 DEF SignaturesFresh
        <3> QED
            BY <3>1, <3>2
    <2>7. ASSUME NEW account \in Accounts, NEW a \in signedActions'[account]
          PROVE  a.nonce <= actionsNonce'
        <3>1. CASE a = action
            BY <2>1, <2>3, <3>1
        <3>2. CASE a # action
            <4>1. a \in signedActions[account]
                BY <2>4, <3>2
            <4>2. a.nonce <= actionsNonce /\ a.nonce \in Nat
                BY <4>1 DEF SignaturesFresh, TypeOK, MultisigAction
            <4> QED
                BY <2>1, <2>3, <4>2
        <3> QED
            BY <3>1, <3>2
    <2>8. ASSUME NEW a \in signalled' PROVE a.nonce <= actionsNonce'
        <3>1. CASE a = action
            BY <2>1, <2>3, <3>1
        <3>2. CASE a # action
            <4>1. a.nonce <= actionsNonce /\ a.nonce \in Nat
                BY <2>3, <3>2 DEF SignaturesFresh, TypeOK, MultisigAction
            <4> QED
                BY <2>1, <2>3, <4>1
        <3> QED
            BY <3>1, <3>2
    <2> QED
        BY <2>5, <2>6, <2>7, <2>8 DEF SignaturesFresh
<1>3. ASSUME NEW caller \in People, NEW action \in signalled, SignAction(caller, action)
      PROVE  SignaturesFresh'
    <2>1. caller \in Accounts /\ action \in DOMAIN signedSince
        BY DEF People, SignaturesFresh
    <2>2. /\ UNCHANGED <<actionsNonce, signalled>>
          /\ signedActions' = [signedActions EXCEPT ![caller] = @ \cup {action}]
          /\ signedSince' = [signedSince EXCEPT ![action] = @ \cup {caller}]
        BY <1>3 DEF SignAction
    <2> QED
        BY <2>1, <2>2 DEF SignaturesFresh, TypeOK
<1>4. ASSUME NEW caller \in People, NEW action \in signalled, ExecuteAction(caller, action)
      PROVE  SignaturesFresh'
    BY <1>4 DEF ExecuteAction, SignaturesFresh
<1>5. ASSUME NEW caller, NEW list, Initialize(caller, list)
      PROVE  SignaturesFresh'
    BY <1>5 DEF Initialize, SignaturesFresh
<1> QED
    BY <1>1, <1>2, <1>3, <1>4, <1>5 DEF Next, ManagerCall, vars, managerVars

\* If the array names nobody twice, as many accounts have signed as entries.
LEMMA EntriesOfSigners ==
    ASSUME TypeOK, IsInjective(signers), NEW who
    PROVE  Cardinality({account \in who : IsSigner(account)})
             = Cardinality({i \in DOMAIN signers : signers[i] \in who})
<1> DEFINE given == {account \in who : IsSigner(account)}
           entries == {i \in DOMAIN signers : signers[i] \in who}
           f == [i \in entries |-> signers[i]]
<1>1. Len(signers) \in Nat /\ DOMAIN signers = 1..Len(signers)
    BY DEF TypeOK
<1>2. IsFiniteSet(entries)
    <2>1. IsFiniteSet(1..Len(signers))
        BY <1>1, FS_Interval
    <2>2. entries \in SUBSET (1..Len(signers))
        BY <1>1
    <2> HIDE DEF entries
    <2> QED
        BY <2>1, <2>2, FS_Subset
<1>3. f \in [entries -> given]
    BY DEF IsSigner
<1>4. \A i, j \in entries : f[i] = f[j] => i = j
    BY DEF IsInjective
<1>5. \A account \in given : \E i \in entries : f[i] = account
    BY DEF IsSigner
<1> HIDE DEF entries, given, f
<1>6. f \in Surjection(entries, given) /\ f \in Injection(entries, given)
    BY <1>3, <1>4, <1>5 DEF Surjection, Injection, IsInjective
<1>7. Cardinality(given) = Cardinality(entries)
    BY <1>2, <1>6, FS_Surjection
<1> QED
    BY <1>7 DEF given, entries

\* What a step may do: the multisig's actions pass with their own signatures, and
\* only a passing action replaces an admin.
LEMMA QuorumStep ==
    TypeOK /\ SignaturesFresh /\ [Next]_vars =>
        /\ \A action \in signalled \ signalled' : Passed(action)
        /\ \A tl \in Timelocks \ ShortsTrackerTimelocks :
             admin'[tl] # admin[tl] =>
                \E action \in signalled \ signalled' :
                    action.wanted = [kind |-> "setAdmin", timelock |-> tl, to |-> admin'[tl]]
<1> SUFFICES ASSUME TypeOK, SignaturesFresh, [Next]_vars
             PROVE  /\ \A action \in signalled \ signalled' : Passed(action)
                    /\ \A tl \in Timelocks \ ShortsTrackerTimelocks :
                         admin'[tl] # admin[tl] =>
                            \E action \in signalled \ signalled' :
                                action.wanted = [kind |-> "setAdmin", timelock |-> tl,
                                                 to |-> admin'[tl]]
    OBVIOUS
<1>1. ASSUME NEW action \in signalled, Authorized(action)
      PROVE  Passed(action)
    <2> DEFINE given == {account \in signedSince[action] : IsSigner(account)}
               entries == {i \in DOMAIN signers : signers[i] \in signedSince[action]}
    <2>1. \A i \in DOMAIN signers : signers[i] \in Accounts
        BY DEF TypeOK
    <2>2. {i \in DOMAIN signers : action \in signedActions[signers[i]]} = entries
        BY <2>1 DEF SignaturesFresh
    <2>3. entries # {} /\ Cardinality(entries) >= MinAuthorizations
        BY <1>1, <2>2 DEF Authorized
    <2>4. given # {}
        <3>1. PICK i \in entries : TRUE
            BY <2>3
        <3>2. signers[i] \in given
            BY DEF IsSigner
        <3> QED
            BY <3>2
    <2>5. ASSUME IsInjective(signers)
          PROVE  Cardinality(given) >= MinAuthorizations
        <3>1. signedSince[action] \subseteq Accounts
            BY DEF SignaturesFresh, TypeOK
        <3> HIDE DEF given, entries
        <3>2. Cardinality(given) = Cardinality(entries)
            BY <2>5, EntriesOfSigners DEF given, entries
        <3> QED
            BY <2>3, <3>2
    <2> QED
        BY <2>3, <2>4, <2>5 DEF Passed
<1>2. ASSUME NEW caller, NEW action \in Action, NEW tl \in Timelocks,
             Execute(tl, caller, action), NEW t \in Timelocks \ ShortsTrackerTimelocks,
             action[1] = "admin" => tl \in ShortsTrackerTimelocks
      PROVE  admin'[t] = admin[t]
    BY <1>2 DEF Execute, Effect, TypeOK
<1>3. CASE UNCHANGED timelockVars \/ Tick
    <2>1. UNCHANGED admin
        BY <1>3 DEF timelockVars, Tick
    <2>2. \A action \in signalled \ signalled' : Passed(action)
        BY <1>1 DEF Next, vars, managerVars, ManagerCall, Initialize, SignalAction, SignAction,
           ExecuteAction
    <2> QED
        BY <2>1, <2>2
<1>4. CASE TimelockCall /\ UNCHANGED managerVars
    <2>1. UNCHANGED signalled
        BY <1>4 DEF managerVars
    <2>2. PICK tl \in Timelocks :
            \/ \E caller \in People : AdminCall(tl, caller)
            \/ \E account \in People \cup {tl} : GovernOutside(tl, account)
        BY <1>4 DEF TimelockCall
    <2>3. ASSUME NEW t \in Timelocks \ ShortsTrackerTimelocks
          PROVE  admin'[t] = admin[t]
        <3>1. ASSUME NEW caller \in People, AdminCall(tl, caller)
              PROVE  admin'[t] = admin[t]
            <4>1. ASSUME NEW action \in Proposed[tl], Execute(tl, caller, action)
                  PROVE  admin'[t] = admin[t]
                <5>1. action \in Action
                    BY DEF Action
                <5>2. action[1] = "admin" => tl \in ShortsTrackerTimelocks
                    BY TimelockAssumption
                <5> QED
                    BY <1>2, <4>1, <5>1, <5>2
            <4> QED
                BY <3>1, <4>1 DEF AdminCall, Signal, CancelAction, SetBuffer
        <3> QED
            BY <2>2, <3>1 DEF GovernOutside
    <2> QED
        BY <2>1, <2>3
<1>5. ASSUME NEW caller \in People, NEW action \in signalled, ExecuteAction(caller, action)
      PROVE  /\ \A a \in signalled \ signalled' : Passed(a)
             /\ \A tl \in Timelocks \ ShortsTrackerTimelocks :
                  admin'[tl] # admin[tl] =>
                     \E a \in signalled \ signalled' :
                         a.wanted = [kind |-> "setAdmin", timelock |-> tl, to |-> admin'[tl]]
    <2> DEFINE wanted == action.wanted
               tl == wanted.timelock
               to == wanted.to
    <2>1. Authorized(action) /\ signalled' = signalled \ {action}
        BY <1>5 DEF ExecuteAction
    <2>2. \A a \in signalled \ signalled' : Passed(a)
        BY <1>1, <2>1
    <2>3. wanted \in Wanted /\ wanted = [kind |-> wanted.kind, timelock |-> tl, to |-> to]
          /\ tl \in Timelocks /\ to \in Accounts
        BY TokenManagerAssumption DEF TypeOK, MultisigAction
    <2>4. ASSUME NEW t \in Timelocks \ ShortsTrackerTimelocks, admin'[t] # admin[t]
          PROVE  wanted = [kind |-> "setAdmin", timelock |-> t, to |-> admin'[t]]
        <3>1. CASE UNCHANGED timelockVars
            BY <2>4, <3>1 DEF timelockVars
        <3>2. CASE wanted.kind = "setAdmin" /\ SetAdmin(tl, tokenManager, to)
            <4>1. admin' = [admin EXCEPT ![tl] = to]
                BY <3>2 DEF SetAdmin
            <4>2. t = tl /\ admin'[t] = to
                BY <2>3, <2>4, <4>1 DEF TypeOK
            <4> QED
                BY <2>3, <3>2, <4>2
        <3>3. CASE /\ wanted.kind = "setAdmin" /\ tl \in ShortsTrackerTimelocks
                   /\ Execute(tl, tokenManager, <<"admin", to>>)
            <4>1. <<"admin", to>> \in Action
                BY <2>3, <3>3, TokenManagerAssumption
            <4> QED
                BY <1>2, <2>3, <2>4, <3>3, <4>1
        <3>4. CASE Signal(tl, tokenManager, <<"gov", to>>)
            BY <2>4, <3>4 DEF Signal
        <3> QED
            BY <1>5, <3>1, <3>2, <3>3, <3>4 DEF ExecuteAction
    <2>5. action \in signalled \ signalled'
        BY <2>1
    <2> QED
        BY <2>2, <2>4, <2>5
<1> QED
    BY <1>3, <1>4, <1>5 DEF Next, vars, ManagerCall, Initialize, SignalAction, SignAction

\* For any signers and quorum: nothing passes without enough signatures given since
\* it was signalled, and no admin is replaced otherwise.
THEOREM QuorumAlways == Spec => QuorumDecides
<1>1. Init => SignaturesFresh
    BY DEF Init, SignaturesFresh
<1>2. Spec => []SignaturesFresh
    BY <1>1, SignaturesStep, TypeCorrect, PTL DEF Spec
<1> QED
    BY <1>2, QuorumStep, TypeCorrect, PTL DEF Spec, QuorumDecides
=============================================================================
