-------------------------- MODULE MCSyncFederation --------------------------
(* Bounded instances of SyncFederation for TLC.                            *)
EXTENDS SyncFederation, TLC

CONSTANTS wa, wb, alice, bob

Pair == (wa :> alice) @@ (wb :> bob)

Symmetric == Permutations(Ops)
=============================================================================
