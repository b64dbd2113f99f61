-------------------------- MODULE MCVaultPriceFeed --------------------------
(* Values of the feeds' constants for the runs.                             *)
EXTENDS VaultPriceFeed

CONSTANTS t1, w1

\* the old AMM rule and the new one either way (no AMM is the AMM price 0); the stable
\* rule with and without a tolerance, or a spread and an adjustment
MCSettings ==
    {s \in [useV2Pricing : BOOLEAN, isAmmEnabled : {TRUE}, isSecondaryPriceEnabled : {TRUE},
            favorPrimaryPrice : BOOLEAN, spreadThresholdBps : {4}, spreadBps : {0, 1},
            isStrictStable : BOOLEAN, maxStrictPriceDeviation : {0, 1},
            isAdjustmentAdditive : {FALSE}, adjustmentBps : {0, 1}] :
        /\ s.isStrictStable <=> s.spreadBps = 0
        /\ s.isStrictStable <=> s.adjustmentBps = 0
        /\ ~s.isStrictStable => s.maxStrictPriceDeviation = 0
        /\ ~s.useV2Pricing => ~s.favorPrimaryPrice}
=============================================================================
