-------------------------- MODULE MCPositionRouter --------------------------
(* Instances of PositionRouter for TLC.                                    *)
EXTENDS PositionRouter, TLC

CONSTANTS alice, bob, keeper, weth, usdc, good, evil

MCDelays == [minBlockDelayKeeper |-> 1, minTimeDelayPublic |-> 1, maxTimeDelay |-> 2]
MCOtherDelays == {[minBlockDelayKeeper |-> 0, minTimeDelayPublic |-> 2, maxTimeDelay |-> 1]}

MCConfig(gas) ==
    [minExecutionFee |-> 1, delays |-> MCDelays, isLeverageEnabled |-> TRUE,
     callbackGasLimit |-> gas,
     customCallbackGasLimits |-> [t \in CallbackTargets |-> 0]]
MCConfigCallbacks == MCConfig(1)

\* one-token and two-token paths of increases; decreases take WETH out
MCIncreasePaths == [k \in Kinds |-> IF k = "increase" THEN {<<weth, weth>>, <<usdc, weth>>, <<usdc, usdc>>} ELSE {}]
MCOnePath == [k \in Kinds |-> {<<usdc, usdc>>}]

AccountSymmetry == Permutations(Accounts)
=============================================================================
