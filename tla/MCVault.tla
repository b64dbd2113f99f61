------------------------------ MODULE MCVault -------------------------------
(* Values of Vault's constants for the runs.  A price of 4 is one dollar.   *)
EXTENDS Vault, TLC

CONSTANTS eth, usd

MCDeposits == (eth :> {4}) @@ (usd :> {4})
MCDonations == (eth :> {4}) @@ (usd :> {})

MCLongInflow == (eth :> 12) @@ (usd :> 4)

MCBuffer == (eth :> 0) @@ (usd :> 1)

\* the index token doubles and halves, with and without a spread; the stable one
\* is quoted by the strict rule, min <= 1 <= max
MCLongPrices == (eth :> {<<4, 4>>, <<2, 2>>, <<4, 8>>}) @@ (usd :> {<<4, 4>>})

AccountSymmetry == Permutations(Accounts)
=============================================================================
