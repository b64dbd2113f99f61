---------------------------- MODULE MCOrderBook ----------------------------
(* Values of OrderBook's constants for the run.                            *)
EXTENDS OrderBook

CONSTANTS alice, weth, usdc

MCPaths == [k \in Kinds |->
    CASE k = "swap" -> {<<weth, usdc>>, <<usdc, weth>>}
      [] k = "increase" -> {<<weth, weth>>, <<weth, usdc>>}
      [] k = "decrease" -> {<<weth, weth>>}]
MCMaxIndex == [k \in Kinds |-> IF k = "increase" THEN 2 ELSE 1]
MCMaxDonated == [t \in Tokens |-> IF t = weth THEN 1 ELSE 0]
MCTriggers == {[price |-> 2, above |-> TRUE], [price |-> 2, above |-> FALSE]}
MCQuotes == {<<1, 3>>, <<3, 3>>}
=============================================================================
