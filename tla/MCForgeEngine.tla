--------------------------- MODULE MCForgeEngine ---------------------------
(* ForgeEngine on a small instance: see ForgeEngine.cfg.                   *)
EXTENDS ForgeEngine, TLC

CONSTANTS i1, i2, i3

(* Three that do not dominate each other, and one that two of them dominate.*)
FourPairs == {<<1, 4>>, <<2, 2>>, <<3, 1>>, <<3, 3>>}

(* Any content may measure any pair.                                       *)
Symmetric == Permutations({i1, i2, i3})
=============================================================================
