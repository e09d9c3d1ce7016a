---------------------------- MODULE MCRateLimit ----------------------------
\* A window of two ticks for the login and of three for the paid calls.
EXTENDS RateLimit, TLC

CONSTANTS r1, r2

MCMaxEvents == (Email :> 1) @@ (Ip :> 2) @@ (Paid :> 1)
MCWindow == (Email :> 2) @@ (Ip :> 2) @@ (Paid :> 3)

Symmetry == Permutations({r1, r2})
=============================================================================
