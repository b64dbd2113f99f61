-------------------------- MODULE MCBrrrXpAmplifier --------------------------
(* Values of BrrrXpAmplifier's constants for the runs.                     *)
EXTENDS BrrrXpAmplifier, TLC

CONSTANTS alice, bob, brrr

Held(amount) == brrr :> amount
MCHoldings1 == (alice :> Held(2)) @@ (Amplifier :> Held(0)) @@ (Gov :> Held(0))
MCHoldings2 == (alice :> Held(0)) @@ (bob :> Held(2)) @@ (Amplifier :> Held(0)) @@ (Gov :> Held(0))

MCDurations == <<1, 2>>
MCMultipliers == <<100, 150>>
MCShort == <<1>>
MCPlain == <<100>>
=============================================================================
