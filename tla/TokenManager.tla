---------------------------- MODULE TokenManager ----------------------------
(***************************************************************************)
(* TokenManager, the multisig that replaces the timelocks' admins, approves *)
(* token transfers and signals a change of governor.  An action is          *)
(* signalled under a new nonce, signed, and executed once enough signers    *)
(* have signed it.  The module composes it with the timelocks it calls.     *)
(***************************************************************************)
EXTENDS Timelock, Sequences, Functions

CONSTANTS
    SignerLists,              \* bound: what initialize is called with
    managerAdmin,             \* TokenManager.admin, set by its constructor for good
    MinAuthorizations,
    Wanted,                   \* bound: the kinds, timelocks and accounts signalled
    MaxNonce                  \* bound

Kind == {"approve", "setAdmin", "setGov"}

ASSUME TokenManagerAssumption ==
    /\ SignerLists \subseteq Seq(Accounts)
    /\ managerAdmin \in Accounts /\ tokenManager \notin Timelocks
    /\ MinAuthorizations \in Nat /\ MaxNonce \in Nat
    /\ Wanted \subseteq [kind : Kind, timelock : Timelocks, to : Accounts]
    /\ \A wanted \in Wanted : wanted.kind = "setGov" => <<"gov", wanted.to>> \in Action
    /\ \A wanted \in Wanted :
           wanted.kind = "setAdmin" /\ wanted.timelock \in ShortsTrackerTimelocks
               => <<"admin", wanted.to>> \in Action

VARIABLES
    isInitialized,
    signers,                  \* an array: nothing keeps an account out of it that is there
    actionsNonce,
    signalled,                \* TokenManager.pendingActions
    signedActions,            \* by account
    signedSince               \* history: who has signed an action since its last signal

signerVars == <<isInitialized, signers>>
managerVars == <<signerVars, actionsNonce, signalled, signedActions, signedSince>>
vars == <<timelockVars, managerVars>>

\* an account that may call, which contracts do not do by themselves
People == Accounts \ (Timelocks \cup {tokenManager})

MultisigAction == [wanted : Wanted, nonce : Nat]

\* mutant: the key does not depend on the nonce
ActionReused(wanted) == [wanted |-> wanted, nonce |-> 0]

\* the key of a new action; every kind uses the next nonce
NewAction(wanted) == [wanted |-> wanted, nonce |-> actionsNonce + 1]

Init ==
    /\ TimelockInit
    /\ isInitialized = FALSE /\ signers = <<>>
    /\ actionsNonce = 0 /\ signalled = {}
    /\ signedActions = [account \in Accounts |-> {}]
    /\ signedSince = [action \in {} |-> {}]

-----------------------------------------------------------------------------
Initialize(caller, list) ==
    /\ caller = managerAdmin /\ ~isInitialized
    /\ isInitialized' = TRUE /\ signers' = list
    /\ UNCHANGED <<actionsNonce, signalled, signedActions, signedSince, timelockVars>>

\* isSigner, which initialize derives from the array
IsSigner(account) == \E i \in DOMAIN signers : signers[i] = account

\* _setPendingAction under a new nonce; whoever signals a change of admin or of
\* governor has signed it, a signer or not
SignalAction(caller, wanted) ==
    LET action == NewAction(wanted)
        signs == wanted.kind # "approve"
    IN /\ actionsNonce < MaxNonce                 \* bound
       /\ IF wanted.kind = "setAdmin" THEN IsSigner(caller) ELSE caller = managerAdmin
       /\ actionsNonce' = actionsNonce + 1
       /\ signalled' = signalled \cup {action}
       /\ signedActions' =
            IF signs THEN [signedActions EXCEPT ![caller] = @ \cup {action}] ELSE signedActions
       /\ signedSince' =
            [a \in DOMAIN signedSince \cup {action} |->
                IF a # action THEN signedSince[a] ELSE IF signs THEN {caller} ELSE {}]
       /\ UNCHANGED <<signerVars, timelockVars>>

\* signApprove, signSetAdmin, signSetGov
SignAction(signer, action) ==
    /\ IsSigner(signer)
    /\ action \in signalled /\ action \notin signedActions[signer]
    /\ signedActions' = [signedActions EXCEPT ![signer] = @ \cup {action}]
    /\ signedSince' = [signedSince EXCEPT ![action] = @ \cup {signer}]
    /\ UNCHANGED <<signerVars, actionsNonce, signalled, timelockVars>>

\* _validateAuthorization counts entries of the array, not accounts
Authorized(action) ==
    LET signed == {i \in DOMAIN signers : action \in signedActions[signers[i]]}
    IN signed # {} /\ Cardinality(signed) >= MinAuthorizations

\* approve, setAdmin, setGov: the last two call the timelock, as its token manager
\* and as its admin, and revert if it does
ExecuteAction(caller, action) ==
    LET wanted == action.wanted
        tl == wanted.timelock
    IN /\ IF wanted.kind = "setAdmin" THEN IsSigner(caller) ELSE caller = managerAdmin
       /\ action \in signalled /\ Authorized(action)
       /\ signalled' = signalled \ {action}
       /\ \/ wanted.kind = "approve" /\ UNCHANGED timelockVars
          \/ /\ wanted.kind = "setAdmin" /\ tl \notin ShortsTrackerTimelocks
             /\ SetAdmin(tl, tokenManager, wanted.to)
          \/ /\ wanted.kind = "setAdmin" /\ tl \in ShortsTrackerTimelocks
             /\ Execute(tl, tokenManager, <<"admin", wanted.to>>)
          \/ wanted.kind = "setGov" /\ Signal(tl, tokenManager, <<"gov", wanted.to>>)
       /\ UNCHANGED <<signerVars, actionsNonce, signedActions, signedSince>>

TimelockCall ==
    \E tl \in Timelocks :
        \/ \E caller \in People : AdminCall(tl, caller)
        \/ \E account \in People \cup {tl} : GovernOutside(tl, account)

ManagerCall ==
    \E caller \in People :
        \/ \E list \in SignerLists : Initialize(caller, list)
        \/ \E wanted \in Wanted : SignalAction(caller, wanted)
        \/ \E action \in signalled :
               SignAction(caller, action) \/ ExecuteAction(caller, action)

Next ==
    \/ TimelockCall /\ UNCHANGED managerVars
    \/ ManagerCall
    \/ Tick /\ UNCHANGED managerVars

Spec == Init /\ [][Next]_vars

-----------------------------------------------------------------------------
(* Properties.                                                             *)

\* The types; a due time or a signature belongs to something that was signalled.
TypeOK ==
    /\ pendingActions \in [Timelocks -> [Action -> Nat]]
    /\ signalledAt \in [Timelocks -> [Action -> Nat]]
    /\ admin \in [Timelocks -> Accounts]
    /\ buffer \in [Timelocks -> Nat]
    /\ gov \in [Timelocks -> Accounts] /\ setting \in [Timelocks -> Accounts]
    /\ now \in Nat \ {0}
    /\ isInitialized \in BOOLEAN /\ signers \in Seq(Accounts)
    /\ actionsNonce \in Nat
    /\ signalled \subseteq MultisigAction
    /\ signedActions \in [Accounts -> SUBSET MultisigAction]
    /\ signedSince \in [DOMAIN signedSince -> SUBSET Accounts]

\* A timelock delays every change of its contract's governor and settings, and
\* ShortsTrackerTimelock the change of its own admin, by the buffer it was deployed
\* with, however often buffers are raised, actions signalled again or cancelled and
\* admins replaced: each announcement is enforced at most once.
Announced(tl, change) ==
    IF pendingActions[tl][change] = 0 THEN 0 ELSE signalledAt[tl][change]
Control(tl) == [power \in Powers |-> IF power = "gov" THEN gov[tl]
                                   ELSE IF power = "admin" THEN admin[tl] ELSE setting[tl]]

Delayed == INSTANCE DelayedControl WITH
    announced <- [tl \in Timelocks |-> [change \in Action |-> Announced(tl, change)]],
    control <- [tl \in Timelocks |-> Control(tl)],
    Changes <- Action, MinDelay <- InitialBuffer,
    FreeAdmin <- Timelocks \ ShortsTrackerTimelocks

DelayedControl == Delayed!Spec

\* Who controls a timelock is decided by a quorum asked for that very decision: an
\* action of the multisig goes through only with MinAuthorizations signatures given
\* since it was signalled, and an admin is replaced, outside ShortsTrackerTimelock,
\* only by such an action.  The signatures are of as many different signers if the
\* array names nobody twice; one who is named twice counts twice.
Passed(action) ==
    LET given == {account \in signedSince[action] : IsSigner(account)}
        signed == {i \in DOMAIN signers : signers[i] \in signedSince[action]}
    IN /\ given # {} /\ Cardinality(signed) >= MinAuthorizations
       /\ IsInjective(signers) => Cardinality(given) >= MinAuthorizations

QuorumDecides ==
    [][/\ \A action \in signalled \ signalled' : Passed(action)
       /\ \A tl \in Timelocks \ ShortsTrackerTimelocks :
            admin'[tl] # admin[tl] =>
                \E action \in signalled \ signalled' :
                    action.wanted = [kind |-> "setAdmin", timelock |-> tl, to |-> admin'[tl]]]_vars
=============================================================================
