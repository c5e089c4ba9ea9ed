---------------------------- MODULE MCHuskStore ----------------------------
(* HuskStore on two keys and two values.                                    *)
EXTENDS HuskStore, TLC

Symmetric == Permutations(Keys) \union Permutations(Values)
=============================================================================
