---------------------------- MODULE MCTokenManager --------------------------
(* Values of Timelock's and TokenManager's constants for the run.           *)
EXTENDS TokenManager, TLC

CONSTANTS vaultLock, feedLock, shortsLock, alice, bob

MCBuffers == (vaultLock :> 1) @@ (feedLock :> 1) @@ (shortsLock :> 2)

MCRaises == (vaultLock :> {2}) @@ (feedLock :> {}) @@ (shortsLock :> {})

MCProposed ==
    (vaultLock :> {<<"gov", bob>>})
    @@ (feedLock :> {<<"setting", bob>>})
    @@ (shortsLock :> {<<"admin", bob>>})

MCSignerLists == {<<alice, bob>>, <<bob, bob>>}

MCWanted ==
    {[kind |-> "approve", timelock |-> vaultLock, to |-> bob],
     [kind |-> "setAdmin", timelock |-> vaultLock, to |-> tokenManager],
     [kind |-> "setGov", timelock |-> vaultLock, to |-> bob]}
=============================================================================
