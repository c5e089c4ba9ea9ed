----------------------------- MODULE MCColdTier -----------------------------
(* Bounded instances of ColdTier for TLC.                                  *)
EXTENDS ColdTier, TLC

CONSTANTS a, b, c

OneLink  == {<<a, b>>}
TwoLinks == {<<a, b>>, <<b, c>>}

SymmetricTexts == Permutations(Texts)
=============================================================================
