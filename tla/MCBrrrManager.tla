--------------------------- MODULE MCBrrrManager ----------------------------
(* Values of the manager's constants for the run.  A price of 1000 is one   *)
(* dollar.  The index token moves by a quarter; the stable one is quoted by  *)
(* the strict rule, with and without a spread.                              *)
EXTENDS BrrrManager, TLC

CONSTANTS eth, usd, a1

MCDeposits == (eth :> {220}) @@ (usd :> {220})
MCLiquidity == (eth :> {440}) @@ (usd :> {440})
MCDonations == (eth :> {}) @@ (usd :> {})
MCInflow == (eth :> 660) @@ (usd :> 660)
MCBuffer == (eth :> 0) @@ (usd :> 1)
MCPrices == (eth :> {<<1000, 1000>>, <<1250, 1250>>})
            @@ (usd :> {<<1000, 1000>>, <<900, 1100>>})
MCAdjustments == {<<0, 300>>}
=============================================================================
