----------------------------- MODULE GraphIndex -----------------------------
(***************************************************************************)
(* The link list of `MemoryGraph` (memory.rs) and its duplicate check.     *)
(* `edges` is a list that may grow and shrink in many places; `edge_set`,  *)
(* which `add_edge` consults, is rebuilt when its length differs from that *)
(* of the list, and trusted when it does not.  Paging moves a node over    *)
(* the cap, with its links, to the COLD tier (in full: module ColdTier).   *)
(***************************************************************************)
EXTENDS Naturals, FiniteSets, Bags, Functions

Empty(cap) ==
    [nodes |-> {},              \* resident
     edges |-> EmptyBag,        \* `edges`, whose order does not matter
     index |-> {},              \* `edge_set`
     cold  |-> <<>>,            \* the links of each demoted node
     cap   |-> cap]             \* max_in_memory_nodes

Ends(e) == {e[1], e[2]}

Linked(h) == BagToSet(h.edges)

Incident(h, i) == {e \in Linked(h) : i \in Ends(e)}

Keep(h, es) == Restrict(h.edges, Linked(h) \cap es)

Forgotten(cold, i) == Restrict(cold, DOMAIN cold \ {i})

(* Faulty variant: the links stay in the list.                             *)
DemotedKeepsLinks(h, i) ==
    [h EXCEPT !.nodes = @ \ {i},
              !.cold = [j \in DOMAIN @ \cup {i} |-> IF j = i THEN Incident(h, i) ELSE @[j]]]

(* `demote`                                                                *)
Demoted(h, i) ==
    [h EXCEPT !.nodes = @ \ {i},
              !.edges = Keep(h, Linked(h) \ Incident(h, i)),
              !.cold = [j \in DOMAIN @ \cup {i} |-> IF j = i THEN Incident(h, i) ELSE @[j]]]

(* `enforce_paging`, and the swap of `page_in`: one node at a time enters, *)
(* so at most one leaves.  Its score decides which, and is abstracted.     *)
Paged(h, keep) ==
    IF Cardinality(h.nodes) <= h.cap THEN {h} ELSE {Demoted(h, v) : v \in h.nodes \ keep}

(* `upsert_node` forgets the demoted copy, with the links it archived.     *)
Upserted(h, i) ==
    Paged([h EXCEPT !.nodes = @ \cup {i}, !.cold = Forgotten(@, i)], {})

(* `remove_node`                                                           *)
Removed(h, i) ==
    [h EXCEPT !.nodes = @ \ {i}, !.cold = Forgotten(@, i),
              !.edges = Keep(h, Linked(h) \ Incident(h, i))]

(* Faulty variant: the index is never rebuilt.                             *)
IndexNeverRebuilt(h) == h.index

(* The index as `add_edge` consults it.                                    *)
Index(h) ==
    IF Cardinality(h.index) = SumFunction(h.edges) THEN h.index ELSE Linked(h)

(* `add_edge` refuses a link with an end that is not resident, and a link  *)
(* that the index knows.                                                   *)
EdgeAdded(h, e) ==
    IF ~(Ends(e) \subseteq h.nodes) THEN h
    ELSE IF e \in Index(h) THEN [h EXCEPT !.index = Index(h)]
    ELSE [h EXCEPT !.index = Index(h) \cup {e}, !.edges = @ (+) SetToBag({e})]

(* `page_in` pushes the links past the index.                              *)
PagedIn(h, i) ==
    LET nodes == h.nodes \cup {i}
        back == {e \in h.cold[i] : Ends(e) \subseteq nodes} \ Linked(h)
    IN  Paged([h EXCEPT !.nodes = nodes, !.cold = Forgotten(@, i),
                        !.edges = @ (+) SetToBag(back)], {i})
=============================================================================
