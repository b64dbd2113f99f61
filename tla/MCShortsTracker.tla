-------------------------- MODULE MCShortsTracker ---------------------------
(* Values of the tracker's constants for the run.  A price of 1000 is one   *)
(* dollar: coarse enough to count, fine enough for averages to be compared. *)
EXTENDS ShortsTracker, TLC

CONSTANTS eth, usd, a1, a2

MCDeposits == (eth :> {}) @@ (usd :> {1000})
MCDonations == (eth :> {}) @@ (usd :> {})
MCInflow == (eth :> 0) @@ (usd :> 4000)
MCBuffer == (eth :> 0) @@ (usd :> 0)
MCPrices == (eth :> {<<1000, 1000>>, <<2000, 2000>>}) @@ (usd :> {<<1000, 1000>>})

AccountSymmetry == Permutations(Accounts)
=============================================================================
