--------------------------- MODULE RequestEscrow ----------------------------
(***************************************************************************)
(* What PositionRouter and OrderBook promise a trader, with no queues,      *)
(* keepers, clocks, callbacks or prices: a request is opened once with a    *)
(* deposit, is closed at most once, alone or with others in one             *)
(* transaction, and closing it takes out of the common pot exactly what it  *)
(* put in, less a fee that the pot keeps on an execution.  Nothing else     *)
(* moves the pot but the collection of the kept fees.                       *)
(***************************************************************************)
EXTENDS Integers, Sums

CONSTANTS Id, Token

VARIABLES
    state,       \* "none", "pending", "executed" or "cancelled", per request
    deposit,     \* what a pending request has in the pot, per token
    pot,         \* the token balances
    retained     \* the fees kept in the pot

escrowVars == <<state, deposit, pot, retained>>

NoDeposit == [t \in Token |-> 0]

Init ==
    /\ state = [id \in Id |-> "none"]
    /\ deposit = [id \in Id |-> NoDeposit]
    /\ pot = NoDeposit
    /\ retained = NoDeposit

Open(id) ==
    /\ state[id] = "none"
    /\ state' = [state EXCEPT ![id] = "pending"]
    /\ deposit'[id] \in [Token -> Nat]
    /\ deposit' = [deposit EXCEPT ![id] = deposit'[id]]
    /\ pot' = [t \in Token |-> pot[t] + deposit'[id][t]]
    /\ UNCHANGED retained

Pending == {id \in Id : state[id] = "pending"}
DepositOf(ids, t) == Sum([id \in ids |-> deposit[id][t]], ids)

\* all of them in one transaction
Close(ids, outcome) ==
    /\ ids # {} /\ ids \subseteq Pending
    /\ state' = [id \in Id |-> IF id \in ids THEN outcome ELSE state[id]]
    /\ deposit' = [id \in Id |-> IF id \in ids THEN NoDeposit ELSE deposit[id]]
    /\ pot' = [t \in Token |-> pot[t] - DepositOf(ids, t) + (retained'[t] - retained[t])]

Execute(ids) ==
    /\ Close(ids, "executed")
    /\ \A t \in Token : retained'[t] >= retained[t]

Cancel(ids) == Close(ids, "cancelled") /\ UNCHANGED retained

CollectFees(t) ==
    /\ retained' = [retained EXCEPT ![t] = 0]
    /\ pot' = [pot EXCEPT ![t] = @ - retained[t]]
    /\ UNCHANGED <<state, deposit>>

Next ==
    \/ \E id \in Id : Open(id)
    \/ \E ids \in SUBSET Pending : Execute(ids) \/ Cancel(ids)
    \/ \E t \in Token : CollectFees(t)

Spec == Init /\ [][Next]_escrowVars
=============================================================================
