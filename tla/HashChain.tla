------------------------------ MODULE HashChain ------------------------------
(***************************************************************************)
(* The SHA-256 chains of agent_session.rs with an ideal (injective) hash:  *)
(* a link is the list of everything it commits to, so two links are equal  *)
(* exactly when predecessor, step and operation all are.                   *)
(***************************************************************************)
EXTENDS Naturals, Sequences

NoLink  == << >>            \* the empty string of a sidecar without a chain
GENESIS == <<"GENESIS">>    \* predecessor of the first link

(* `op_link_hash`: the link over (prev, absolute step, op).                *)
Link(prev, seq, op) == Append(prev, <<seq, op>>)

Predecessor(anchor, chain, i) == IF i = 1 THEN anchor ELSE chain[i - 1]

(* One link per operation, each recomputed from its predecessor.           *)
Chained(anchor, first, ops, chain) ==
    /\ Len(chain) = Len(ops)
    /\ \A i \in 1 .. Len(ops) :
          chain[i] = Link(Predecessor(anchor, chain, i), first + i - 1, ops[i])

(* The last link: one value that stands for the whole history.             *)
HeadOf(anchor, chain) ==
    IF chain = << >> THEN anchor ELSE chain[Len(chain)]

(* The links of `ops` computed from `anchor` (`chain_over`).               *)
ChainOver(anchor, first, ops) ==
    [i \in 1 .. Len(ops) |->
        anchor \o [j \in 1 .. i |-> <<first + j - 1, ops[j]>>]]
=============================================================================
