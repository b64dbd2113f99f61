--------------------------- MODULE DelayedControl ---------------------------
(***************************************************************************)
(* What the timelocks promise the users of the contracts they govern: a    *)
(* change of who controls a contract, or of a setting, is announced, waits *)
(* for at least the first buffer, and is made once per announcement.       *)
(***************************************************************************)
EXTENDS Naturals

CONSTANTS
    Timelocks, Powers, Accounts,
    Changes,                  \* of a power to an account
    MinDelay,                 \* by timelock
    FreeAdmin                 \* timelocks whose admin the multisig may replace at once

VARIABLES
    announced,                \* by timelock, power and account: when, 0 if not
    control,                  \* by timelock and power: the account
    now

vars == <<announced, control, now>>

Init ==
    /\ announced = [tl \in Timelocks |-> [change \in Changes |-> 0]]
    /\ control \in [Timelocks -> [Powers -> Accounts]]
    /\ now \in Nat \ {0}

Announce(tl, change) ==
    /\ announced' = [announced EXCEPT ![tl][change] = now]
    /\ UNCHANGED <<control, now>>

Withdraw(tl, change) ==
    /\ announced[tl][change] # 0
    /\ announced' = [announced EXCEPT ![tl][change] = 0]
    /\ UNCHANGED <<control, now>>

Enforce(tl, change) ==
    /\ announced[tl][change] # 0
    /\ announced[tl][change] + MinDelay[tl] <= now
    /\ announced' = [announced EXCEPT ![tl][change] = 0]
    /\ control' = [control EXCEPT ![tl][change[1]] = change[2]]
    /\ UNCHANGED now

\* the multisig replaces an admin
Appoint(tl, account) ==
    /\ tl \in FreeAdmin
    /\ control' = [control EXCEPT ![tl]["admin"] = account]
    /\ UNCHANGED <<announced, now>>

\* what a timelock does not govern is changed by its governor
OutOfControl(tl, power, account) ==
    /\ control[tl]["gov"] # tl
    /\ power # "admin"
    /\ control' = [control EXCEPT ![tl][power] = account]
    /\ UNCHANGED <<announced, now>>

Tick == now' = now + 1 /\ UNCHANGED <<announced, control>>

Next ==
    \/ \E tl \in Timelocks, change \in Changes :
           Announce(tl, change) \/ Withdraw(tl, change) \/ Enforce(tl, change)
    \/ \E tl \in Timelocks, account \in Accounts :
           Appoint(tl, account) \/ \E power \in Powers : OutOfControl(tl, power, account)
    \/ Tick

Spec == Init /\ [][Next]_vars
=============================================================================
