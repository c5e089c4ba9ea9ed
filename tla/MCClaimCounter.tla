--------------------------- MODULE MCClaimCounter ---------------------------
(* ClaimCounter on a small instance: see ClaimCounter.cfg.                 *)
EXTENDS ClaimCounter, TLC

CONSTANTS c1, c2, m1, m2

(* A code of one day, and a perpetual one.                                 *)
OneOfEach == c1 :> 1 @@ c2 :> Perpetual

Symmetric == Permutations({m1, m2})

(* Bounds of the histories in which a command works beside the counter:    *)
(* expiries play no part in what is said of them.                          *)
FewerTogether == together => now = 0 /\ faults <= 1
=============================================================================
