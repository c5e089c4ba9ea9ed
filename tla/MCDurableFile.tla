---------------------------- MODULE MCDurableFile ----------------------------
(* Bounded instances of DurableFile for TLC: two calls of one process      *)
(* (threads, or processes that got the same id one after the other), and   *)
(* one of another.                                                         *)
EXTENDS DurableFile, TLC
CONSTANTS c1, c2, c3, p1, p2
Three == (c1 :> p1) @@ (c2 :> p1) @@ (c3 :> p2)
Symmetric == Permutations(Contents)
=============================================================================
