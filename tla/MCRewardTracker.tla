--------------------------- MODULE MCRewardTracker ---------------------------
(* Values of RewardTracker's constants for the runs.                       *)
EXTENDS RewardTracker, TLC

CONSTANTS alice, bob, brrr, other

MCHoldings == (alice :> (brrr :> 1 @@ other :> 1)) @@ (bob :> (brrr :> 1 @@ other :> 0))
=============================================================================
