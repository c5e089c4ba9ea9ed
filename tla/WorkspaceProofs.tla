-------------------------- MODULE WorkspaceProofs --------------------------
(***************************************************************************)
(* Theorems about the way from a directory of source files to the graph,   *)
(* for any files, any contents and any cap: what the index of links can be *)
(* trusted for, and that an incremental sync is a rebuild.                 *)
(***************************************************************************)
EXTENDS Workspace, FiniteSetTheorems, SequenceTheorems, WellFoundedInduction, TLAPS

AllImports == UNION {Imports[v] : v \in Versions}

GNodes ==
    {DepNode(d) : d \in AllImports} \cup (UNION {OwnNodes(f, v) : f \in Files, v \in Versions})

GLinks == UNION {OwnLinks(f, v) : f \in Files, v \in Versions}

AllCalls ==
    {Upsert(i) : i \in GNodes} \cup {Link(l[1], l[2]) : l \in GLinks}
        \cup {Evict(f) : f \in Files} \cup {Store(f, v) : f \in Files, v \in Present}

-----------------------------------------------------------------------------
\* Names of nodes, links and calls.

\* A node of its own that a file contributes belongs to that file alone.
LEMMA OwnNodeFacts ==
  ASSUME NEW f, NEW v, NEW i \in OwnNodes(f, v)
  PROVE  OfFile(i, f) /\ \A g : OfFile(i, g) => g = f
BY DEF OwnNodes, OfFile, FileNode, SymNode, UseNode

\* A dependency belongs to no file.
LEMMA DepNodeFacts ==
  ASSUME NEW d, NEW f
  PROVE  ~OfFile(DepNode(d), f)
BY DEF OfFile, DepNode

\* A link leads from a node of the file to another, or to a dependency.
LEMMA OwnLinkFacts ==
  ASSUME NEW f, NEW v \in Present, NEW l \in OwnLinks(f, v)
  PROVE  /\ l = <<l[1], l[2]>> /\ Ends(l) = {l[1], l[2]}
         /\ l[1] \in OwnNodes(f, v)
         /\ l[2] \in OwnNodes(f, v) \/ \E d \in AllImports : l[2] = DepNode(d)
         /\ v \in Versions
<1>1. v \in Versions
  BY DEF OwnLinks, Present
<1>2. CASE \E s \in Symbols[v] : l = <<FileNode(f), SymNode(f, s)>>
  BY <1>1, <1>2, WorkspaceAssumption DEF OwnNodes, Ends, WorkspaceAssumption
<1>3. CASE \E d \in Imports[v] : l = <<FileNode(f), UseNode(f, d)>>
  BY <1>1, <1>3, WorkspaceAssumption DEF OwnNodes, Ends, WorkspaceAssumption
<1>4. CASE \E d \in Imports[v] : l = <<UseNode(f, d), DepNode(d)>>
  BY <1>1, <1>4, WorkspaceAssumption DEF OwnNodes, Ends, WorkspaceAssumption, AllImports
<1> QED BY <1>2, <1>3, <1>4, WorkspaceAssumption DEF OwnLinks, WorkspaceAssumption

\* The kind of each call, and what it is about.
LEMMA CallFacts ==
  ASSUME NEW i, NEW j, NEW f, NEW v
  PROVE  /\ Upsert(i).call = "upsert" /\ Upsert(i).of = i
         /\ Link(i, j).call = "link" /\ Link(i, j).of = <<i, j>>
         /\ Evict(f).call = "evict" /\ Evict(f).of = f
         /\ Store(f, v).call = "store" /\ Store(f, v).of = <<f, v>>
BY DEF Upsert, Link, Evict, Store

-----------------------------------------------------------------------------
\* The operators on the graph.

Bags(L) == UNION {[E -> Nat \ {0}] : E \in SUBSET L}

Archives == UNION {[N -> SUBSET GLinks] : N \in SUBSET GNodes}

Graphs == [nodes : SUBSET GNodes, edges : Bags(GLinks), index : SUBSET GLinks,
           cold : Archives, cap : Caps]

Anchored(h) == \A e \in Linked(h) : Ends(e) \subseteq h.nodes

Apart(h) == DOMAIN h.cold \cap h.nodes = {}

Held(h) == h.nodes \cup DOMAIN h.cold

\* What it is to be a bag of links.
LEMMA BagFacts ==
  ASSUME NEW L, NEW b
  PROVE  b \in Bags(L) <=> b = [e \in DOMAIN b |-> b[e]] /\ DOMAIN b \subseteq L
                             /\ \A e \in DOMAIN b : b[e] \in Nat \ {0}
<1>1. ASSUME b \in Bags(L) PROVE b = [e \in DOMAIN b |-> b[e]] /\ DOMAIN b \subseteq L
                             /\ \A e \in DOMAIN b : b[e] \in Nat \ {0}
  <2>1. PICK E \in SUBSET L : b \in [E -> Nat \ {0}]
    BY <1>1 DEF Bags
  <2> QED BY <2>1
<1>2. ASSUME b = [e \in DOMAIN b |-> b[e]], DOMAIN b \subseteq L,
             \A e \in DOMAIN b : b[e] \in Nat \ {0}
      PROVE  b \in Bags(L)
  <2>1. b \in [DOMAIN b -> Nat \ {0}] /\ DOMAIN b \in SUBSET L
    BY <1>2
  <2> QED BY <2>1 DEF Bags
<1> QED BY <1>1, <1>2

LEMMA ArchiveFacts ==
  ASSUME NEW c
  PROVE  c \in Archives <=> c = [i \in DOMAIN c |-> c[i]] /\ DOMAIN c \subseteq GNodes
                              /\ \A i \in DOMAIN c : c[i] \subseteq GLinks
<1>1. ASSUME c \in Archives PROVE c = [i \in DOMAIN c |-> c[i]] /\ DOMAIN c \subseteq GNodes
                              /\ \A i \in DOMAIN c : c[i] \subseteq GLinks
  <2>1. PICK N \in SUBSET GNodes : c \in [N -> SUBSET GLinks]
    BY <1>1 DEF Archives
  <2> QED BY <2>1
<1>2. ASSUME c = [i \in DOMAIN c |-> c[i]], DOMAIN c \subseteq GNodes,
             \A i \in DOMAIN c : c[i] \subseteq GLinks
      PROVE  c \in Archives
  <2>1. c \in [DOMAIN c -> SUBSET GLinks] /\ DOMAIN c \in SUBSET GNodes
    BY <1>2
  <2> QED BY <2>1 DEF Archives
<1> QED BY <1>1, <1>2

\* What `Keep` leaves of the list: the links asked for, as often as they were.
LEMMA KeepFacts ==
  ASSUME NEW h \in Graphs, NEW es
  PROVE  /\ Keep(h, es) \in Bags(GLinks) /\ DOMAIN Keep(h, es) = Linked(h) \cap es
         /\ \A e \in Linked(h) \cap es : Keep(h, es)[e] = h.edges[e]
<1>1. h.edges \in Bags(GLinks)
  BY DEF Graphs
<1>2. /\ DOMAIN Keep(h, es) = Linked(h) \cap es
      /\ \A e \in Linked(h) \cap es : Keep(h, es)[e] = h.edges[e]
      /\ Keep(h, es) = [e \in DOMAIN Keep(h, es) |-> Keep(h, es)[e]]
  BY DEF Keep, Restrict
<1>3. DOMAIN h.edges = Linked(h)
  BY DEF Linked, BagToSet
<1> QED BY <1>1, <1>2, <1>3, BagFacts

LEMMA ForgottenFacts ==
  ASSUME NEW c \in Archives, NEW i
  PROVE  /\ Forgotten(c, i) \in Archives /\ DOMAIN Forgotten(c, i) = DOMAIN c \ {i}
         /\ \A j \in DOMAIN c \ {i} : Forgotten(c, i)[j] = c[j]
<1>1. /\ DOMAIN Forgotten(c, i) = DOMAIN c \ {i}
      /\ \A j \in DOMAIN c \ {i} : Forgotten(c, i)[j] = c[j]
      /\ Forgotten(c, i) = [j \in DOMAIN Forgotten(c, i) |-> Forgotten(c, i)[j]]
  BY DEF Forgotten, Restrict
<1> QED BY <1>1, ArchiveFacts

\* What a removal leaves: the other nodes, and the links without that end.
LEMMA RemovedFacts ==
  ASSUME NEW h \in Graphs, NEW i, NEW k, k = Removed(h, i)
  PROVE  /\ k \in Graphs /\ k.cap = h.cap /\ k.index = h.index
         /\ k.nodes = h.nodes \ {i} /\ DOMAIN k.cold = DOMAIN h.cold \ {i}
         /\ Linked(k) = {e \in Linked(h) : i \notin Ends(e)}
         /\ \A e \in Linked(k) : k.edges[e] = h.edges[e]
<1> DEFINE nodes == h.nodes \ {i}
           edges == Keep(h, Linked(h) \ Incident(h, i))
           cold == Forgotten(h.cold, i)
<1>1. k = [h EXCEPT !.nodes = nodes, !.cold = cold, !.edges = edges]
  BY DEF Removed
<1>2. /\ edges \in Bags(GLinks) /\ DOMAIN edges = {e \in Linked(h) : i \notin Ends(e)}
      /\ \A e \in DOMAIN edges : edges[e] = h.edges[e]
  BY KeepFacts DEF Incident
<1>3. cold \in Archives /\ DOMAIN cold = DOMAIN h.cold \ {i}
  BY ForgottenFacts DEF Graphs
<1>4. nodes \in SUBSET GNodes /\ nodes = h.nodes \ {i}
  BY DEF Graphs
<1> HIDE DEF nodes, edges, cold
<1>5. /\ k \in Graphs /\ k.nodes = nodes /\ k.edges = edges /\ k.cold = cold
      /\ k.index = h.index /\ k.cap = h.cap
  BY <1>1, <1>2, <1>3, <1>4 DEF Graphs
<1>6. Linked(k) = DOMAIN edges
  BY <1>5 DEF Linked, BagToSet
<1> QED BY <1>2, <1>3, <1>4, <1>5, <1>6

\* A demotion moves a node and its links to the COLD tier.
LEMMA DemotedFacts ==
  ASSUME NEW h \in Graphs, NEW i \in h.nodes, NEW k, k = Demoted(h, i)
  PROVE  /\ k \in Graphs /\ k.cap = h.cap /\ k.index = h.index
         /\ k.nodes = h.nodes \ {i} /\ DOMAIN k.cold = DOMAIN h.cold \cup {i}
         /\ Linked(k) = {e \in Linked(h) : i \notin Ends(e)}
         /\ \A e \in Linked(k) : k.edges[e] = h.edges[e]
<1> DEFINE nodes == h.nodes \ {i}
           edges == Keep(h, Linked(h) \ Incident(h, i))
           cold == [j \in DOMAIN h.cold \cup {i} |->
                       IF j = i THEN Incident(h, i) ELSE h.cold[j]]
<1>1. k = [h EXCEPT !.nodes = nodes, !.edges = edges, !.cold = cold]
  BY DEF Demoted
<1>2. /\ edges \in Bags(GLinks) /\ DOMAIN edges = {e \in Linked(h) : i \notin Ends(e)}
      /\ \A e \in DOMAIN edges : edges[e] = h.edges[e]
  BY KeepFacts DEF Incident
<1>3. cold \in Archives /\ DOMAIN cold = DOMAIN h.cold \cup {i}
  <2>1. Incident(h, i) \subseteq GLinks
    <3>1. h.edges \in Bags(GLinks) /\ DOMAIN h.edges = Linked(h)
      BY DEF Graphs, Linked, BagToSet
    <3> QED BY <3>1, BagFacts DEF Incident
  <2>2. /\ DOMAIN h.cold \subseteq GNodes /\ \A j \in DOMAIN h.cold : h.cold[j] \subseteq GLinks
        /\ i \in GNodes
    BY ArchiveFacts DEF Graphs
  <2>3. DOMAIN cold = DOMAIN h.cold \cup {i} /\ cold = [j \in DOMAIN cold |-> cold[j]]
    OBVIOUS
  <2>4. \A j \in DOMAIN cold : cold[j] \subseteq GLinks
    BY <2>1, <2>2
  <2> HIDE DEF cold
  <2> QED BY <2>2, <2>3, <2>4, ArchiveFacts
<1>4. nodes \in SUBSET GNodes /\ nodes = h.nodes \ {i}
  BY DEF Graphs
<1> HIDE DEF nodes, edges, cold
<1>5. /\ k \in Graphs /\ k.nodes = nodes /\ k.edges = edges /\ k.cold = cold
      /\ k.index = h.index /\ k.cap = h.cap
  BY <1>1, <1>2, <1>3, <1>4 DEF Graphs
<1>6. Linked(k) = DOMAIN edges
  BY <1>5 DEF Linked, BagToSet
<1> QED BY <1>2, <1>3, <1>4, <1>5, <1>6

\* What the graph is between two calls.
Sane(h) ==
    /\ h \in Graphs /\ Anchored(h) /\ Apart(h)
    /\ IsFiniteSet(h.nodes) /\ Cardinality(h.nodes) <= h.cap

\* `k` is `h` without some nodes, which went to the COLD tier with their links.
Shrunk(h, k) ==
    /\ k \in Graphs /\ k.cap = h.cap /\ k.index = h.index
    /\ k.nodes \subseteq h.nodes /\ Held(k) = Held(h) /\ Apart(k)
    /\ Linked(k) = {e \in Linked(h) : Ends(e) \subseteq k.nodes}
    /\ \A e \in Linked(k) : k.edges[e] = h.edges[e]
    /\ DOMAIN k.cold = DOMAIN h.cold => k = h

\* Paging brings a graph with one node more back under the cap.
LEMMA PagedFacts ==
  ASSUME NEW h \in Graphs, Anchored(h), Apart(h), IsFiniteSet(h.nodes),
         Cardinality(h.nodes) <= h.cap + 1, NEW keep, NEW k \in Paged(h, keep)
  PROVE  Shrunk(h, k) /\ Sane(k)
<1>1. h.cap \in Nat /\ Cardinality(h.nodes) \in Nat
  BY FS_CardinalityType, WorkspaceAssumption DEF Graphs, WorkspaceAssumption
<1>2. CASE Cardinality(h.nodes) <= h.cap
  <2>1. k = h
    BY <1>2 DEF Paged
  <2>2. Linked(h) = {e \in Linked(h) : Ends(e) \subseteq h.nodes}
    BY DEF Anchored
  <2> QED BY <1>2, <2>1, <2>2 DEF Shrunk, Sane
<1>3. CASE ~(Cardinality(h.nodes) <= h.cap)
  <2>1. PICK v \in h.nodes \ keep : k = Demoted(h, v)
    BY <1>3 DEF Paged
  <2>2. /\ k \in Graphs /\ k.cap = h.cap /\ k.index = h.index
        /\ k.nodes = h.nodes \ {v} /\ DOMAIN k.cold = DOMAIN h.cold \cup {v}
        /\ Linked(k) = {e \in Linked(h) : v \notin Ends(e)}
        /\ \A e \in Linked(k) : k.edges[e] = h.edges[e]
    BY <2>1, DemotedFacts
  <2>3. Linked(k) = {e \in Linked(h) : Ends(e) \subseteq k.nodes}
    BY <2>2 DEF Anchored
  <2>4. v \notin DOMAIN h.cold
    BY DEF Apart
  <2>5. Shrunk(h, k)
    BY <2>2, <2>3, <2>4 DEF Shrunk, Apart, Held
  <2>6. IsFiniteSet(k.nodes) /\ Cardinality(k.nodes) = Cardinality(h.nodes) - 1
    BY <2>2, FS_RemoveElement
  <2>7. Cardinality(k.nodes) <= k.cap
    BY <2>6, <2>2, <1>1
  <2> QED BY <2>2, <2>3, <2>5, <2>6, <2>7 DEF Sane, Shrunk, Anchored
<1> QED BY <1>2, <1>3

\* An upsert adds one node; what paging demotes for it is still held.
LEMMA UpsertedFacts ==
  ASSUME NEW h, Sane(h), NEW i \in GNodes, NEW k \in Upserted(h, i)
  PROVE  /\ Sane(k) /\ k.index = h.index /\ Held(k) = Held(h) \cup {i}
         /\ Linked(k) \subseteq Linked(h)
         /\ \A e \in Linked(k) : k.edges[e] = h.edges[e]
         /\ DOMAIN k.cold = {} => k.nodes = h.nodes \cup {i} /\ Linked(k) = Linked(h)
<1> DEFINE nodes == h.nodes \cup {i}
           cold == Forgotten(h.cold, i)
           g == [h EXCEPT !.nodes = nodes, !.cold = cold]
<1>1. k \in Paged(g, {})
  BY DEF Upserted
<1>2. cold \in Archives /\ DOMAIN cold = DOMAIN h.cold \ {i}
  BY ForgottenFacts DEF Graphs, Sane
<1>3. nodes \in SUBSET GNodes /\ nodes = h.nodes \cup {i}
  BY DEF Graphs, Sane
<1> HIDE DEF nodes, cold
<1>4. /\ g \in Graphs /\ g.nodes = nodes /\ g.cold = cold
      /\ g.edges = h.edges /\ g.index = h.index /\ g.cap = h.cap
  BY <1>2, <1>3 DEF Graphs, Sane
<1> HIDE DEF g
<1>5. Linked(g) = Linked(h)
  BY <1>4 DEF Linked
<1>6. Anchored(g) /\ Apart(g) /\ Held(g) = Held(h) \cup {i}
  BY <1>2, <1>3, <1>4, <1>5 DEF Anchored, Apart, Sane, Held
<1>7. IsFiniteSet(g.nodes) /\ Cardinality(g.nodes) <= g.cap + 1
  <2>1. /\ IsFiniteSet(h.nodes) /\ Cardinality(h.nodes) \in Nat /\ h.cap \in Nat
        /\ Cardinality(h.nodes) <= h.cap
    BY FS_CardinalityType, WorkspaceAssumption DEF Sane, Graphs, WorkspaceAssumption
  <2>2. /\ IsFiniteSet(nodes)
        /\ Cardinality(nodes) \in {Cardinality(h.nodes), Cardinality(h.nodes) + 1}
    BY <2>1, <1>3, FS_AddElement
  <2> QED BY <2>1, <2>2, <1>4
<1>8. Shrunk(g, k) /\ Sane(k)
  BY <1>1, <1>4, <1>6, <1>7, PagedFacts
<1>9. ASSUME DOMAIN k.cold = {} PROVE k = g
  <2>1. DOMAIN g.cold \subseteq DOMAIN k.cold
    BY <1>6, <1>8 DEF Shrunk, Apart, Held
  <2> QED BY <2>1, <1>8, <1>9 DEF Shrunk
<1> QED BY <1>3, <1>4, <1>5, <1>6, <1>8, <1>9 DEF Shrunk

\* A page-in moves nodes between the tiers and loses none.
LEMMA PagedInFacts ==
  ASSUME NEW h, Sane(h), NEW i \in DOMAIN h.cold, NEW k \in PagedIn(h, i)
  PROVE  Sane(k) /\ Held(k) = Held(h)
<1> DEFINE nodes == h.nodes \cup {i}
           back == {e \in h.cold[i] : Ends(e) \subseteq nodes} \ Linked(h)
           edges == h.edges (+) SetToBag(back)
           cold == Forgotten(h.cold, i)
           g == [h EXCEPT !.nodes = nodes, !.cold = cold, !.edges = edges]
<1>1. k \in Paged(g, {i})
  BY DEF PagedIn
<1>2. cold \in Archives /\ DOMAIN cold = DOMAIN h.cold \ {i}
  BY ForgottenFacts DEF Graphs, Sane
<1>3. nodes \in SUBSET GNodes /\ nodes = h.nodes \cup {i}
  BY ArchiveFacts DEF Graphs, Sane
<1>4. edges \in Bags(GLinks) /\ DOMAIN edges = Linked(h) \cup back
  <2>1. back \subseteq GLinks
    BY ArchiveFacts DEF Graphs, Sane
  <2>2. /\ DOMAIN h.edges = Linked(h) /\ DOMAIN h.edges \subseteq GLinks
        /\ \A e \in DOMAIN h.edges : h.edges[e] \in Nat \ {0}
    BY BagFacts DEF Graphs, Sane, Linked, BagToSet
  <2>3. back \cap Linked(h) = {}
    OBVIOUS
  <2> HIDE DEF back
  <2>4. /\ edges = [e \in DOMAIN edges |-> edges[e]] /\ DOMAIN edges = DOMAIN h.edges \cup back
        /\ \A e \in DOMAIN edges : edges[e] = IF e \in back THEN 1 ELSE h.edges[e]
    BY <2>2, <2>3 DEF SetToBag, (+)
  <2> HIDE DEF edges
  <2>5. DOMAIN edges \subseteq GLinks /\ \A e \in DOMAIN edges : edges[e] \in Nat \ {0}
    BY <2>1, <2>2, <2>4
  <2> QED BY <2>2, <2>4, <2>5, BagFacts
<1>5. \A e \in back : Ends(e) \subseteq nodes
  OBVIOUS
<1> HIDE DEF nodes, cold, back, edges
<1>6. /\ g \in Graphs /\ g.nodes = nodes /\ g.cold = cold /\ g.edges = edges /\ g.cap = h.cap
  BY <1>2, <1>3, <1>4 DEF Graphs, Sane
<1> HIDE DEF g
<1>7. Linked(g) = Linked(h) \cup back
  BY <1>6, <1>4 DEF Linked, BagToSet
<1>8. Anchored(g) /\ Apart(g) /\ Held(g) = Held(h)
  BY <1>2, <1>3, <1>5, <1>6, <1>7 DEF Anchored, Apart, Sane, Held
<1>9. IsFiniteSet(g.nodes) /\ Cardinality(g.nodes) <= g.cap + 1
  <2>1. /\ IsFiniteSet(h.nodes) /\ Cardinality(h.nodes) \in Nat /\ h.cap \in Nat
        /\ Cardinality(h.nodes) <= h.cap
    BY FS_CardinalityType, WorkspaceAssumption DEF Sane, Graphs, WorkspaceAssumption
  <2>2. /\ IsFiniteSet(nodes)
        /\ Cardinality(nodes) \in {Cardinality(h.nodes), Cardinality(h.nodes) + 1}
    BY <2>1, <1>3, FS_AddElement
  <2> QED BY <2>1, <2>2, <1>6
<1>10. Shrunk(g, k) /\ Sane(k)
  BY <1>1, <1>6, <1>8, <1>9, PagedFacts
<1> QED BY <1>8, <1>10 DEF Shrunk

\* `edge_set` covers the links, and each is in the list once.
Exact(h) ==
    /\ IsFiniteSet(h.index) /\ Linked(h) \subseteq h.index
    /\ \A e \in Linked(h) : h.edges[e] = 1

\* A link between resident nodes is added once, if the index is the list.
LEMMA EdgeAddedFacts ==
  ASSUME NEW h, Sane(h), NEW e \in GLinks, NEW k, k = EdgeAdded(h, e)
  PROVE  /\ Sane(k) /\ k.nodes = h.nodes /\ k.cold = h.cold
         /\ Linked(k) = Linked(h) \/ Linked(k) = Linked(h) \cup {e}
         /\ Exact(h) /\ Index(h) = Linked(h) => Exact(k)
         /\ Exact(h) /\ Index(h) = Linked(h) /\ Ends(e) \subseteq h.nodes
                => Linked(k) = Linked(h) \cup {e}
<1>1. /\ Linked(h) \subseteq GLinks /\ Index(h) \subseteq GLinks
      /\ DOMAIN h.edges = Linked(h) /\ \A l \in Linked(h) : h.edges[l] \in Nat \ {0}
  BY BagFacts DEF Graphs, Sane, Linked, BagToSet, Index
<1>2. CASE ~(Ends(e) \subseteq h.nodes)
  BY <1>2 DEF EdgeAdded
<1>3. CASE Ends(e) \subseteq h.nodes /\ e \in Index(h)
  <2> DEFINE index == Index(h)
  <2>1. k = [h EXCEPT !.index = index]
    BY <1>3 DEF EdgeAdded
  <2>2. index \in SUBSET GLinks
    BY <1>1
  <2> HIDE DEF index
  <2>3. /\ k \in Graphs /\ k.nodes = h.nodes /\ k.cold = h.cold /\ k.cap = h.cap
        /\ k.index = index /\ k.edges = h.edges
    BY <2>1, <2>2 DEF Graphs, Sane
  <2>4. Linked(k) = Linked(h)
    BY <2>3 DEF Linked
  <2>5. Sane(k)
    BY <2>3, <2>4 DEF Sane, Anchored, Apart
  <2>6. ASSUME Exact(h), Index(h) = Linked(h) PROVE Exact(k) /\ Linked(k) = Linked(h) \cup {e}
    <3>1. IsFiniteSet(Linked(h))
      BY <2>6, FS_Subset DEF Exact
    <3> QED BY <3>1, <2>3, <2>4, <2>6, <1>3 DEF Exact, index
  <2> QED BY <2>3, <2>4, <2>5, <2>6
<1>4. CASE Ends(e) \subseteq h.nodes /\ e \notin Index(h)
  <2> DEFINE index == Index(h) \cup {e}
             edges == h.edges (+) SetToBag({e})
  <2>1. k = [h EXCEPT !.index = index, !.edges = edges]
    BY <1>4 DEF EdgeAdded
  <2>2. index \in SUBSET GLinks
    BY <1>1
  <2>3. /\ edges = [l \in DOMAIN edges |-> edges[l]] /\ DOMAIN edges = Linked(h) \cup {e}
        /\ \A l \in DOMAIN edges : edges[l] \in Nat \ {0}
        /\ e \notin Linked(h) => /\ edges[e] = 1
                                 /\ \A l \in Linked(h) : edges[l] = h.edges[l]
    BY <1>1 DEF SetToBag, (+)
  <2> HIDE DEF edges
  <2>4. edges \in Bags(GLinks)
    BY <2>3, <1>1, BagFacts
  <2> HIDE DEF index
  <2>5. /\ k \in Graphs /\ k.nodes = h.nodes /\ k.cold = h.cold /\ k.cap = h.cap
        /\ k.index = index /\ k.edges = edges
    BY <2>1, <2>2, <2>4 DEF Graphs, Sane
  <2>6. Linked(k) = Linked(h) \cup {e}
    BY <2>3, <2>5 DEF Linked, BagToSet
  <2>7. Sane(k)
    BY <2>5, <2>6, <1>4 DEF Sane, Anchored, Apart
  <2>8. ASSUME Exact(h), Index(h) = Linked(h) PROVE Exact(k)
    <3>1. IsFiniteSet(Linked(h) \cup {e})
      BY <2>8, FS_Subset, FS_AddElement DEF Exact
    <3>2. index = Linked(k) /\ e \notin Linked(h)
      BY <2>6, <2>8, <1>4 DEF index
    <3> QED BY <3>1, <3>2, <2>3, <2>5, <2>6, <2>8 DEF Exact
  <2> QED BY <2>5, <2>6, <2>7, <2>8
<1> QED BY <1>2, <1>3, <1>4

-----------------------------------------------------------------------------
\* Folds.  The induction is over sets of numbers, so that a lemma about a fold
\* is used like any other.

\* Induction on the naturals, for a set instead of an operator.
LEMMA SetInduction ==
  ASSUME NEW A, 0 \in A, \A k \in Nat : k \in A => k + 1 \in A
  PROVE  Nat \subseteq A
<1> DEFINE less == OpToRel(<, Nat)
<1>1. IsWellFoundedOn(less, Nat)
  BY NatLessThanWellFounded
<1>2. \A x, y \in Nat : y < x => <<y, x>> \in less
  BY DEF OpToRel
<1> HIDE DEF less
<1> SUFFICES ASSUME Nat \ A # {} PROVE FALSE
  OBVIOUS
<1>3. PICK x \in Nat \ A : \A y \in Nat \ A : ~(<<y, x>> \in less)
  BY <1>1, WFMin
<1>4. x \in Nat /\ x # 0 /\ x - 1 \in Nat /\ x - 1 < x /\ x - 1 + 1 = x
  BY <1>3
<1>5. x - 1 \in A
  BY <1>2, <1>3, <1>4
<1> QED BY <1>3, <1>4, <1>5

LEMMA MaxOfTop ==
  ASSUME NEW k \in Nat, NEW s \in SUBSET (1 .. k + 1), k + 1 \in s
  PROVE  Max(s) = k + 1
<1>1. \A y \in s : k + 1 >= y
  OBVIOUS
<1>2. \A x \in s : (\A y \in s : x >= y) => x = k + 1
  OBVIOUS
<1> QED BY <1>1, <1>2 DEF Max

LEMMA MaxInside ==
  ASSUME NEW n \in Nat, NEW s \in SUBSET (1 .. n), s # {}
  PROVE  Max(s) \in s
<1> DEFINE A == {k \in Nat : \A t \in SUBSET (1 .. k) : t # {} => Max(t) \in t}
<1>1. 0 \in A
  <2>1. \A t \in SUBSET (1 .. 0) : t = {}
    OBVIOUS
  <2> QED BY <2>1
<1>2. ASSUME NEW k \in Nat, k \in A PROVE k + 1 \in A
  <2>1. ASSUME NEW t \in SUBSET (1 .. k + 1), t # {} PROVE Max(t) \in t
    <3>1. CASE k + 1 \in t
      BY <3>1, MaxOfTop
    <3>2. CASE k + 1 \notin t
      <4>1. t \in SUBSET (1 .. k)
        BY <3>2
      <4> QED BY <4>1, <2>1, <1>2
    <3> QED BY <3>1, <3>2
  <2> QED BY <2>1
<1> HIDE DEF A
<1>3. n \in A
  BY <1>1, <1>2, SetInduction
<1> QED BY <1>3 DEF A

\* Induction over sets of places, the highest place removed.
LEMMA PlacesInduction ==
  ASSUME NEW n \in Nat, NEW T, {} \in T,
         \A s \in SUBSET (1 .. n) : s # {} /\ s \ {Max(s)} \in T => s \in T
  PROVE  SUBSET (1 .. n) \subseteq T
<1> DEFINE A == {k \in Nat : k <= n => SUBSET (1 .. k) \subseteq T}
<1>1. 0 \in A
  <2>1. \A s \in SUBSET (1 .. 0) : s = {}
    OBVIOUS
  <2> QED BY <2>1
<1>2. ASSUME NEW k \in Nat, k \in A PROVE k + 1 \in A
  <2> SUFFICES ASSUME k + 1 <= n, NEW s \in SUBSET (1 .. k + 1) PROVE s \in T
    OBVIOUS
  <2>1. CASE k + 1 \in s
    <3>1. Max(s) = k + 1 /\ s # {} /\ s \in SUBSET (1 .. n)
      BY <2>1, MaxOfTop
    <3>2. s \ {k + 1} \in SUBSET (1 .. k)
      OBVIOUS
    <3>3. s \ {Max(s)} \in T
      BY <3>1, <3>2, <1>2
    <3> QED BY <3>1, <3>3
  <2>2. CASE k + 1 \notin s
    <3>1. s \in SUBSET (1 .. k)
      BY <2>2
    <3> QED BY <3>1, <1>2
  <2> QED BY <2>1, <2>2
<1> HIDE DEF A
<1>3. n \in A
  BY <1>1, <1>2, SetInduction
<1> QED BY <1>3 DEF A


-----------------------------------------------------------------------------
\* The index of links.

\* The length of a list without duplicates is the number of its links.
LEMMA SumOfOnes ==
  ASSUME NEW b, IsFiniteSet(DOMAIN b), \A e \in DOMAIN b : b[e] = 1
  PROVE  SumFunction(b) = Cardinality(DOMAIN b)
<1> DEFINE D == DOMAIN b
           first(s) == CHOOSE x \in s : TRUE
           Eq(j) == j = [s \in SUBSET D |->
                           IF s = {} THEN 0 ELSE b[first(s)] + j[s \ {first(s)}]]
           card == [s \in SUBSET D |-> Cardinality(s)]
<1>1. ASSUME NEW s \in SUBSET D, s # {}
      PROVE  /\ first(s) \in s /\ first(s) \in D /\ s \ {first(s)} \in SUBSET D
             /\ Cardinality(s) = b[first(s)] + Cardinality(s \ {first(s)})
             /\ Cardinality(s \ {first(s)}) \in Nat
             /\ Cardinality(s) = Cardinality(s \ {first(s)}) + 1
  <2>1. first(s) \in s /\ first(s) \in D
    BY <1>1
  <2>2. IsFiniteSet(s) /\ Cardinality(s) \in Nat
    BY FS_Subset, FS_CardinalityType
  <2> HIDE DEF first
  <2>3. /\ IsFiniteSet(s \ {first(s)}) /\ Cardinality(s \ {first(s)}) \in Nat
        /\ Cardinality(s \ {first(s)}) = Cardinality(s) - 1
    BY <2>1, <2>2, FS_RemoveElement, FS_CardinalityType
  <2> QED BY <2>1, <2>2, <2>3
<1>2. Cardinality({}) = 0
  BY FS_EmptySet
<1>3. Eq(card)
  BY <1>1, <1>2
<1>4. PICK iter : Eq(iter) /\ SumFunction(b) = iter[D]
  <2>1. SumFunction(b) = (CHOOSE j : Eq(j))[D]
    BY DEF SumFunction, SumFunctionOnSet, FoldFunctionOnSet, MapThenFoldSet
  <2> HIDE DEF Eq
  <2> QED BY <2>1, <1>3
<1>5. iter[{}] = 0 /\ \A s \in SUBSET D : s # {} => iter[s] = b[first(s)] + iter[s \ {first(s)}]
  BY <1>4
<1> HIDE DEF Eq, first
<1> DEFINE A == {n \in Nat : \A s \in SUBSET D : Cardinality(s) = n => iter[s] = n}
<1>6. 0 \in A
  <2>1. \A s \in SUBSET D : Cardinality(s) = 0 => s = {}
    BY FS_Subset, FS_EmptySet
  <2> QED BY <2>1, <1>5
<1>7. ASSUME NEW n \in Nat, n \in A PROVE n + 1 \in A
  <2> SUFFICES ASSUME NEW s \in SUBSET D, Cardinality(s) = n + 1 PROVE iter[s] = n + 1
    OBVIOUS
  <2>1. s # {}
    BY <1>2
  <2>2. Cardinality(s \ {first(s)}) = n /\ first(s) \in D /\ s \ {first(s)} \in SUBSET D
    BY <2>1, <1>1
  <2>3. iter[s \ {first(s)}] = n
    BY <2>2, <1>7
  <2> QED BY <2>1, <2>2, <2>3, <1>5
<1> HIDE DEF A
<1>8. Nat \subseteq A
  BY <1>6, <1>7, SetInduction
<1> QED BY <1>4, <1>8, FS_CardinalityType DEF A

\* An index that covers the links is trusted only if it is the list.
LEMMA IndexIsLinked ==
  ASSUME NEW h, Exact(h)
  PROVE  Index(h) = Linked(h)
<1>1. DOMAIN h.edges = Linked(h) /\ IsFiniteSet(Linked(h))
  BY FS_Subset DEF Exact, Linked, BagToSet
<1>2. SumFunction(h.edges) = Cardinality(Linked(h))
  BY <1>1, SumOfOnes DEF Exact
<1>3. CASE Cardinality(h.index) = Cardinality(Linked(h))
  <2>1. h.index = Linked(h)
    BY <1>3, FS_Subset DEF Exact
  <2> QED BY <2>1 DEF Index
<1> QED BY <1>2, <1>3 DEF Index

-----------------------------------------------------------------------------
\* Eviction: nodes are removed one after the other.

\* The nodes to evict, one after the other.
LEMMA SetToSeqFacts ==
  ASSUME NEW S, IsFiniteSet(S), NEW s, s = SetToSeq(S)
  PROVE  /\ Cardinality(S) \in Nat /\ s \in [1 .. Cardinality(S) -> S]
         /\ \A j, k \in 1 .. Cardinality(S) : s[j] = s[k] => j = k
         /\ \A x \in S : \E k \in 1 .. Cardinality(S) : s[k] = x
<1> DEFINE n == Cardinality(S)
<1>1. n \in Nat /\ IsFiniteSet(1 .. n) /\ Cardinality(1 .. n) = n
  BY FS_CardinalityType, FS_Interval
<1>2. PICK b : b \in Bijection(1 .. n, S)
  BY FS_CardinalityType DEF ExistsBijection
<1>3. b \in [1 .. n -> S] /\ IsInjective(b)
  BY <1>2 DEF Bijection, Injection
<1>4. s \in [1 .. n -> S] /\ IsInjective(s)
  BY <1>3 DEF SetToSeq
<1>5. s \in Injection(1 .. n, S)
  BY <1>4 DEF Injection
<1> HIDE DEF n
<1>6. s \in Surjection(1 .. n, S)
  BY <1>1, <1>5, FS_Injection DEF n
<1>7. \A x \in S : \E k \in 1 .. n : s[k] = x
  BY <1>6 DEF Surjection
<1> QED BY <1>1, <1>4, <1>7 DEF IsInjective, n

\* `h` without the nodes in `T`, with the links between the others.
Without(h, T) ==
    [h EXCEPT !.nodes = @ \ T, !.cold = Restrict(@, DOMAIN @ \ T),
              !.edges = Keep(h, {e \in Linked(h) : Ends(e) \cap T = {}})]

\* `Without` is a graph with fewer nodes and no other change.
LEMMA WithoutFacts ==
  ASSUME NEW h \in Graphs, NEW T, NEW k, k = Without(h, T)
  PROVE  /\ k \in Graphs /\ k.cap = h.cap /\ k.index = h.index
         /\ k.nodes = h.nodes \ T /\ DOMAIN k.cold = DOMAIN h.cold \ T
         /\ \A j \in DOMAIN k.cold : k.cold[j] = h.cold[j]
         /\ Linked(k) = {e \in Linked(h) : Ends(e) \cap T = {}}
         /\ \A e \in Linked(k) : k.edges[e] = h.edges[e]
<1> DEFINE nodes == h.nodes \ T
           cold == Restrict(h.cold, DOMAIN h.cold \ T)
           edges == Keep(h, {e \in Linked(h) : Ends(e) \cap T = {}})
<1>1. k = [h EXCEPT !.nodes = nodes, !.cold = cold, !.edges = edges]
  BY DEF Without
<1>2. /\ edges \in Bags(GLinks) /\ DOMAIN edges = {e \in Linked(h) : Ends(e) \cap T = {}}
      /\ \A e \in DOMAIN edges : edges[e] = h.edges[e]
  <2> DEFINE es == {e \in Linked(h) : Ends(e) \cap T = {}}
  <2>1. h \in Graphs /\ Linked(h) \cap es = es /\ edges = Keep(h, es)
    OBVIOUS
  <2> HIDE DEF es, edges
  <2>2. /\ edges \in Bags(GLinks) /\ DOMAIN edges = es
        /\ \A e \in es : edges[e] = h.edges[e]
    BY ONLY <2>1, KeepFacts
  <2> QED BY ONLY <2>2 DEF es
<1>3. /\ cold \in Archives /\ DOMAIN cold = DOMAIN h.cold \ T
      /\ \A j \in DOMAIN cold : cold[j] = h.cold[j]
  <2>1. /\ cold = [j \in DOMAIN cold |-> cold[j]] /\ DOMAIN cold = DOMAIN h.cold \ T
        /\ \A j \in DOMAIN cold : cold[j] = h.cold[j]
    BY DEF Restrict
  <2> HIDE DEF cold
  <2> QED BY <2>1, ArchiveFacts DEF Graphs
<1>4. nodes \in SUBSET GNodes /\ nodes = h.nodes \ T
  BY DEF Graphs
<1> HIDE DEF nodes, edges, cold
<1>5. /\ k \in Graphs /\ k.nodes = nodes /\ k.edges = edges /\ k.cold = cold
      /\ k.index = h.index /\ k.cap = h.cap
  BY <1>1, <1>2, <1>3, <1>4 DEF Graphs
<1>6. Linked(k) = DOMAIN edges
  BY <1>5 DEF Linked, BagToSet
<1> QED BY <1>2, <1>3, <1>4, <1>5, <1>6

LEMMA SameGraph ==
  ASSUME NEW h \in Graphs, NEW k \in Graphs, h.nodes = k.nodes, h.index = k.index,
         h.cap = k.cap, Linked(h) = Linked(k), DOMAIN h.cold = DOMAIN k.cold,
         \A e \in Linked(h) : h.edges[e] = k.edges[e],
         \A j \in DOMAIN h.cold : h.cold[j] = k.cold[j]
  PROVE  h = k
<1>1. h.edges = k.edges
  <2>1. /\ h.edges = [e \in DOMAIN h.edges |-> h.edges[e]] /\ DOMAIN h.edges = Linked(h)
        /\ k.edges = [e \in DOMAIN k.edges |-> k.edges[e]] /\ DOMAIN k.edges = Linked(k)
    BY BagFacts DEF Graphs, Linked, BagToSet
  <2> QED BY <2>1
<1>2. h.cold = k.cold
  <2>1. /\ h.cold = [j \in DOMAIN h.cold |-> h.cold[j]]
        /\ k.cold = [j \in DOMAIN k.cold |-> k.cold[j]]
    BY ArchiveFacts DEF Graphs
  <2> QED BY <2>1
<1> QED BY <1>1, <1>2 DEF Graphs

LEMMA WithoutNone ==
  ASSUME NEW h \in Graphs, NEW T, T = {}
  PROVE  Without(h, T) = h
<1> DEFINE k == Without(h, T)
<1>1. /\ k \in Graphs /\ k.cap = h.cap /\ k.index = h.index
      /\ k.nodes = h.nodes \ T /\ DOMAIN k.cold = DOMAIN h.cold \ T
      /\ \A j \in DOMAIN k.cold : k.cold[j] = h.cold[j]
      /\ Linked(k) = {e \in Linked(h) : Ends(e) \cap T = {}}
      /\ \A e \in Linked(k) : k.edges[e] = h.edges[e]
  BY ONLY h \in Graphs, WithoutFacts
<1> HIDE DEF k
<1>2. k.nodes = h.nodes /\ DOMAIN k.cold = DOMAIN h.cold /\ Linked(k) = Linked(h)
  BY <1>1
<1>3. k = h
  BY ONLY <1>1, <1>2, SameGraph, h \in Graphs
<1> QED BY <1>3 DEF k

\* Removing one node more.
LEMMA RemovedWithout ==
  ASSUME NEW h \in Graphs, NEW T, NEW i
  PROVE  Removed(Without(h, T), i) = Without(h, T \cup {i})
<1> DEFINE U == T \cup {i}
           g == Without(h, T)
           k == Removed(g, i)
           w == Without(h, U)
<1>1. /\ g \in Graphs /\ g.cap = h.cap /\ g.index = h.index
      /\ g.nodes = h.nodes \ T /\ DOMAIN g.cold = DOMAIN h.cold \ T
      /\ \A j \in DOMAIN g.cold : g.cold[j] = h.cold[j]
      /\ Linked(g) = {e \in Linked(h) : Ends(e) \cap T = {}}
      /\ \A e \in Linked(g) : g.edges[e] = h.edges[e]
  BY WithoutFacts
<1>2. /\ w \in Graphs /\ w.cap = h.cap /\ w.index = h.index
      /\ w.nodes = h.nodes \ U /\ DOMAIN w.cold = DOMAIN h.cold \ U
      /\ \A j \in DOMAIN w.cold : w.cold[j] = h.cold[j]
      /\ Linked(w) = {e \in Linked(h) : Ends(e) \cap U = {}}
      /\ \A e \in Linked(w) : w.edges[e] = h.edges[e]
  BY WithoutFacts
<1> HIDE DEF g, w
<1>3. /\ k \in Graphs /\ k.cap = g.cap /\ k.index = g.index
      /\ k.nodes = g.nodes \ {i} /\ DOMAIN k.cold = DOMAIN g.cold \ {i}
      /\ Linked(k) = {e \in Linked(g) : i \notin Ends(e)}
      /\ \A e \in Linked(k) : k.edges[e] = g.edges[e]
  BY <1>1, RemovedFacts
<1>4. \A j \in DOMAIN g.cold \ {i} : k.cold[j] = g.cold[j]
  <2>1. k.cold = Forgotten(g.cold, i)
    BY <1>1 DEF Removed, Graphs
  <2>2. \A j \in DOMAIN g.cold \ {i} : Forgotten(g.cold, i)[j] = g.cold[j]
    BY DEF Forgotten, Restrict
  <2> HIDE DEF k
  <2> QED BY ONLY <2>1, <2>2
<1> HIDE DEF k
<1>5. Linked(k) = Linked(w)
  <2>1. \A e : e \in Linked(k) <=> e \in Linked(h) /\ Ends(e) \cap T = {} /\ i \notin Ends(e)
    BY <1>1, <1>3
  <2>2. \A e : e \in Linked(w) <=> e \in Linked(h) /\ Ends(e) \cap U = {}
    BY <1>2
  <2> QED BY <2>1, <2>2
<1>6. k.nodes = w.nodes /\ DOMAIN k.cold = DOMAIN w.cold
  BY <1>1, <1>2, <1>3
<1>7. \A e \in Linked(k) : k.edges[e] = w.edges[e]
  BY <1>1, <1>2, <1>3, <1>5
<1>8. \A j \in DOMAIN k.cold : k.cold[j] = w.cold[j]
  BY <1>1, <1>2, <1>3, <1>4, <1>6
<1>9. k \in Graphs /\ w \in Graphs /\ k.cap = w.cap /\ k.index = w.index
  BY <1>1, <1>2, <1>3
<1>10. k = w
  BY ONLY <1>5, <1>6, <1>7, <1>8, <1>9, SameGraph
<1> QED BY <1>10 DEF k, g, w

\* Removing nodes one by one removes them all.
LEMMA RemovedInTurn ==
  ASSUME NEW h \in Graphs, NEW S, IsFiniteSet(S)
  PROVE  FoldLeft(Removed, h, SetToSeq(S)) = Without(h, S)
<1> DEFINE old == SetToSeq(S)
           n == Cardinality(S)
           gone(s) == {old[j] : j \in s}
           Eq(j) == j = [s \in SUBSET DOMAIN old |->
                           IF s = {} THEN h ELSE Removed(j[s \ {Max(s)}], old[Max(s)])]
           f == [s \in SUBSET DOMAIN old |-> Without(h, gone(s))]
<1>1. n \in Nat /\ DOMAIN old = 1 .. n /\ gone(1 .. n) = S
  <2>1. /\ n \in Nat /\ old \in [1 .. n -> S]
        /\ \A x \in S : \E k \in 1 .. n : old[k] = x
    BY SetToSeqFacts
  <2> QED BY <2>1
<1> HIDE DEF old, n
<1>2. ASSUME NEW s \in SUBSET (1 .. n), s # {}
      PROVE  /\ Max(s) \in s /\ s \ {Max(s)} \in SUBSET (1 .. n)
             /\ Without(h, gone(s)) = Removed(Without(h, gone(s \ {Max(s)})), old[Max(s)])
  <2>1. Max(s) \in s
    BY <1>1, <1>2, MaxInside
  <2>2. gone(s) = gone(s \ {Max(s)}) \cup {old[Max(s)]}
    BY <2>1
  <2>3. Removed(Without(h, gone(s \ {Max(s)})), old[Max(s)])
            = Without(h, gone(s \ {Max(s)}) \cup {old[Max(s)]})
    <3> HIDE DEF gone
    <3> QED BY RemovedWithout
  <2> HIDE DEF gone
  <2> QED BY <1>2, <2>1, <2>2, <2>3
<1>3. gone({}) = {} /\ Without(h, gone({})) = h
  <2>1. gone({}) = {}
    OBVIOUS
  <2> HIDE DEF gone
  <2> QED BY <2>1, WithoutNone
<1> HIDE DEF gone
<1>4. Eq(f)
  BY <1>1, <1>2, <1>3
<1>5. PICK iter : Eq(iter) /\ FoldLeft(Removed, h, old) = iter[DOMAIN old]
  <2>1. FoldLeft(Removed, h, old) = (CHOOSE j : Eq(j))[DOMAIN old]
    BY DEF FoldLeft, MapThenFoldSet
  <2> HIDE DEF Eq
  <2> QED BY <2>1, <1>4
<1> DEFINE A == {s \in SUBSET (1 .. n) : iter[s] = Without(h, gone(s))}
<1>6. {} \in A
  BY <1>1, <1>3, <1>5
<1>7. ASSUME NEW s \in SUBSET (1 .. n), s # {}, s \ {Max(s)} \in A PROVE s \in A
  <2>1. iter[s] = Removed(iter[s \ {Max(s)}], old[Max(s)])
    BY <1>1, <1>5, <1>7
  <2> QED BY <2>1, <1>2, <1>7
<1> HIDE DEF A
<1>8. SUBSET (1 .. n) \subseteq A
  BY <1>1, <1>6, <1>7, PlacesInduction
<1> QED BY <1>1, <1>5, <1>8 DEF A, old

\* `evict_file_nodes`: the nodes `S` and every link at one of them are gone.
LEMMA EvictedFacts ==
  ASSUME NEW h, Sane(h), NEW S \in SUBSET h.nodes, NEW k,
         k = FoldLeft(Removed, h, SetToSeq(S))
  PROVE  /\ Sane(k) /\ k.index = h.index /\ k.nodes = h.nodes \ S
         /\ DOMAIN k.cold = DOMAIN h.cold
         /\ Linked(k) = {e \in Linked(h) : Ends(e) \cap S = {}}
         /\ \A e \in Linked(k) : k.edges[e] = h.edges[e]
<1>1. IsFiniteSet(S) /\ h \in Graphs
  BY FS_Subset DEF Sane
<1>2. k = Without(h, S)
  BY <1>1, RemovedInTurn
<1>3. /\ k \in Graphs /\ k.cap = h.cap /\ k.index = h.index
      /\ k.nodes = h.nodes \ S /\ DOMAIN k.cold = DOMAIN h.cold \ S
      /\ Linked(k) = {e \in Linked(h) : Ends(e) \cap S = {}}
      /\ \A e \in Linked(k) : k.edges[e] = h.edges[e]
  BY <1>1, <1>2, WithoutFacts
<1>4. DOMAIN k.cold = DOMAIN h.cold
  BY <1>3 DEF Sane, Apart
<1>5. IsFiniteSet(k.nodes) /\ Cardinality(k.nodes) <= k.cap
  <2>1. IsFiniteSet(k.nodes) /\ Cardinality(k.nodes) <= Cardinality(h.nodes)
    BY <1>3, FS_Subset DEF Sane
  <2>2. Cardinality(k.nodes) \in Nat /\ Cardinality(h.nodes) \in Nat /\ h.cap \in Nat
    BY <2>1, <1>1, FS_CardinalityType, WorkspaceAssumption DEF Sane, Graphs, WorkspaceAssumption
  <2> QED BY <2>1, <2>2, <1>3 DEF Sane
<1>6. Anchored(k) /\ Apart(k)
  BY <1>3, <1>4 DEF Sane, Anchored, Apart
<1> QED BY <1>3, <1>4, <1>5, <1>6 DEF Sane

-----------------------------------------------------------------------------
\* Sequences of calls.

\* The call `c` concerns the file `f`.
About(c, f) ==
    \/ c = Evict(f)
    \/ c.call = "upsert" /\ OfFile(c.of, f)
    \/ c.call = "link" /\ OfFile(c.of[1], f)

\* An eviction comes before the other calls that concern its file.
EvictFirst(q) ==
    \A j, k \in DOMAIN q : \A f \in Files : q[j] = Evict(f) /\ About(q[k], f) => j <= k

\* An end of a link is in `B`, or upserted before it.
Linkable(q, B) ==
    \A k \in DOMAIN q : q[k].call = "link" =>
        \A i \in Ends(q[k].of) : i \in B \/ \E j \in 1 .. k - 1 : q[j] = Upsert(i)

Concerned(q) == {f \in Files : \E c \in Range(q) : About(c, f)}

\* `q` is `s`, of length `m`, followed by `t`, of length `n`.
Joins(q, s, m, t, n) ==
    /\ m \in Nat /\ n \in Nat /\ DOMAIN s = 1 .. m /\ DOMAIN t = 1 .. n
    /\ DOMAIN q = 1 .. m + n
    /\ \A i \in 1 .. m : q[i] = s[i]
    /\ \A i \in 1 .. n : q[i + m] = t[i]

LEMMA JoinFacts ==
  ASSUME NEW q, NEW s, NEW m, NEW t, NEW n, Joins(q, s, m, t, n), NEW B
  PROVE  /\ \A c : c \in Range(q) <=> c \in Range(s) \/ c \in Range(t)
         /\ Linkable(s, B) /\ Linkable(t, B) => Linkable(q, B)
         /\ EvictFirst(s) /\ EvictFirst(t) /\ Concerned(s) \cap Concerned(t) = {}
                => EvictFirst(q)
<1>1. /\ m \in Nat /\ n \in Nat /\ DOMAIN s = 1 .. m /\ DOMAIN t = 1 .. n
      /\ DOMAIN q = 1 .. m + n
      /\ \A i \in 1 .. m : q[i] = s[i] /\ i \in 1 .. m + n
      /\ \A i \in 1 .. n : q[i + m] = t[i] /\ i + m \in 1 .. m + n
  BY DEF Joins
<1>2. ASSUME NEW i \in 1 .. m + n, i \notin 1 .. m
      PROVE  i - m \in 1 .. n /\ q[i] = t[i - m] /\ m < i
  <2>1. i - m \in 1 .. n /\ (i - m) + m = i /\ m < i
    BY <1>1, <1>2
  <2> QED BY <2>1, <1>1
<1>3. ASSUME NEW c PROVE c \in Range(q) <=> c \in Range(s) \/ c \in Range(t)
  <2>1. ASSUME c \in Range(q) PROVE c \in Range(s) \/ c \in Range(t)
    <3>1. PICK i \in 1 .. m + n : c = q[i]
      BY <2>1, <1>1 DEF Range
    <3>2. CASE i \in 1 .. m
      BY <3>1, <3>2, <1>1 DEF Range
    <3>3. CASE i \notin 1 .. m
      <4>1. i - m \in 1 .. n /\ q[i] = t[i - m]
        BY <3>3, <1>2
      <4> QED BY <3>1, <4>1, <1>1 DEF Range
    <3> QED BY <3>2, <3>3
  <2>2. ASSUME c \in Range(s) PROVE c \in Range(q)
    BY <2>2, <1>1 DEF Range
  <2>3. ASSUME c \in Range(t) PROVE c \in Range(q)
    <3>1. PICK i \in 1 .. n : c = t[i]
      BY <2>3, <1>1 DEF Range
    <3>2. q[i + m] = c /\ i + m \in 1 .. m + n
      BY <3>1, <1>1
    <3> QED BY <3>2, <1>1 DEF Range
  <2> QED BY <2>1, <2>2, <2>3
<1>4. ASSUME Linkable(s, B), Linkable(t, B) PROVE Linkable(q, B)
  <2> SUFFICES ASSUME NEW k \in 1 .. m + n, q[k].call = "link", NEW i \in Ends(q[k].of), i \notin B
               PROVE  \E j \in 1 .. k - 1 : q[j] = Upsert(i)
    BY <1>1 DEF Linkable
  <2>1. CASE k \in 1 .. m
    <3>1. PICK j \in 1 .. k - 1 : s[j] = Upsert(i)
      BY <1>1, <1>4, <2>1 DEF Linkable
    <3> QED BY <3>1, <1>1, <2>1
  <2>2. CASE k \notin 1 .. m
    <3>1. k - m \in 1 .. n /\ q[k] = t[k - m]
      BY <1>2, <2>2
    <3>2. PICK j \in 1 .. k - m - 1 : t[j] = Upsert(i)
      BY <1>1, <1>4, <3>1 DEF Linkable
    <3>3. j \in 1 .. n /\ j + m \in 1 .. k - 1
      BY <3>1, <3>2, <1>1
    <3> QED BY <3>2, <3>3, <1>1
  <2> QED BY <2>1, <2>2
<1>5. ASSUME EvictFirst(s), EvictFirst(t), Concerned(s) \cap Concerned(t) = {}
      PROVE  EvictFirst(q)
  <2> SUFFICES ASSUME NEW j \in 1 .. m + n, NEW k \in 1 .. m + n, NEW f \in Files,
                      q[j] = Evict(f), About(q[k], f), k < j
               PROVE  FALSE
    BY <1>1 DEF EvictFirst
  <2>1. CASE j \in 1 .. m
    <3>1. k \in 1 .. m
      BY <2>1, <1>1
    <3>2. s[j] = Evict(f) /\ About(s[k], f)
      BY <2>1, <3>1, <1>1
    <3> QED BY <2>1, <3>1, <3>2, <1>1, <1>5 DEF EvictFirst
  <2>2. CASE k \notin 1 .. m /\ j \notin 1 .. m
    <3>1. /\ k - m \in 1 .. n /\ q[k] = t[k - m] /\ j - m \in 1 .. n /\ q[j] = t[j - m]
          /\ ~(j - m <= k - m)
      BY <2>2, <1>1, <1>2
    <3> QED BY <3>1, <1>1, <1>5 DEF EvictFirst
  <2>3. CASE k \in 1 .. m /\ j \notin 1 .. m
    <3>1. q[k] \in Range(s) /\ q[j] \in Range(t)
      BY <2>3, <1>1, <1>2 DEF Range
    <3>2. About(q[j], f)
      BY DEF About
    <3> QED BY <3>1, <3>2, <1>5 DEF Concerned
  <2>4. k \notin 1 .. m => j \notin 1 .. m
    BY <1>1
  <2> QED BY <2>1, <2>2, <2>3, <2>4
<1> QED BY <1>3, <1>4, <1>5

LEMMA ConcatFacts ==
  ASSUME NEW X, NEW s \in Seq(X), NEW t \in Seq(X), NEW B
  PROVE  /\ s \o t \in Seq(X)
         /\ \A c : c \in Range(s \o t) <=> c \in Range(s) \/ c \in Range(t)
         /\ Linkable(s, B) /\ Linkable(t, B) => Linkable(s \o t, B)
         /\ EvictFirst(s) /\ EvictFirst(t) /\ Concerned(s) \cap Concerned(t) = {}
                => EvictFirst(s \o t)
<1> DEFINE q == s \o t
<1>1. q \in Seq(X) /\ Joins(q, s, Len(s), t, Len(t))
  <2>1. /\ q \in Seq(X) /\ Len(q) = Len(s) + Len(t)
        /\ \A i \in 1 .. Len(s) + Len(t) : q[i] = IF i <= Len(s) THEN s[i] ELSE t[i - Len(s)]
    BY ConcatProperties
  <2>2. Len(s) \in Nat /\ Len(t) \in Nat /\ DOMAIN s = 1 .. Len(s) /\ DOMAIN t = 1 .. Len(t)
    OBVIOUS
  <2> HIDE DEF q
  <2>3. DOMAIN q = 1 .. Len(s) + Len(t)
    BY <2>1
  <2>4. \A i \in 1 .. Len(s) : q[i] = s[i]
    BY <2>1, <2>2
  <2>5. \A i \in 1 .. Len(t) : q[i + Len(s)] = t[i]
    <3> SUFFICES ASSUME NEW i \in 1 .. Len(t) PROVE q[i + Len(s)] = t[i]
      OBVIOUS
    <3>1. /\ i + Len(s) \in 1 .. Len(s) + Len(t) /\ ~(i + Len(s) <= Len(s))
          /\ i + Len(s) - Len(s) = i
      BY <2>2
    <3> QED BY <2>1, <3>1
  <2> QED BY <2>1, <2>2, <2>3, <2>4, <2>5 DEF Joins
<1> HIDE DEF q
<1>2. /\ \A c : c \in Range(q) <=> c \in Range(s) \/ c \in Range(t)
      /\ Linkable(s, B) /\ Linkable(t, B) => Linkable(q, B)
      /\ EvictFirst(s) /\ EvictFirst(t) /\ Concerned(s) \cap Concerned(t) = {}
             => EvictFirst(q)
  BY <1>1, JoinFacts
<1> QED BY <1>1, <1>2 DEF q

LEMMA EmptyFacts ==
  ASSUME NEW B
  PROVE  Range(<< >>) = {} /\ Linkable(<< >>, B) /\ EvictFirst(<< >>)
BY DEF Range, Linkable, EvictFirst

\* `p` is the path of a concatenation.
Assembles(p, n, X, ss) ==
    /\ p \in [0 .. n -> Seq(X)] /\ p[0] = << >>
    /\ \A k \in 1 .. n : p[k] = p[k - 1] \o ss[k]

LEMMA AssemblyExists ==
  ASSUME NEW X, NEW n \in Nat, NEW ss \in [1 .. n -> Seq(X)]
  PROVE  \E p : Assembles(p, n, X, ss)
<1> DEFINE A == {k \in Nat : k <= n => \E p : Assembles(p, k, X, ss)}
<1>1. 0 \in A
  <2> DEFINE p == [j \in 0 .. 0 |-> << >>]
  <2>1. p \in [0 .. 0 -> Seq(X)] /\ p[0] = << >> /\ 1 .. 0 = {}
    BY EmptySeq
  <2>2. Assembles(p, 0, X, ss)
    BY <2>1 DEF Assembles
  <2> QED BY <2>2
<1>2. ASSUME NEW k \in Nat, k \in A PROVE k + 1 \in A
  <2> SUFFICES ASSUME k + 1 <= n PROVE \E p : Assembles(p, k + 1, X, ss)
    OBVIOUS
  <2>1. PICK p : Assembles(p, k, X, ss)
    BY <1>2
  <2> DEFINE last == p[k] \o ss[k + 1]
             q == [j \in 0 .. k + 1 |-> IF j = k + 1 THEN last ELSE p[j]]
  <2>2. last \in Seq(X)
    <3>1. p[k] \in Seq(X) /\ ss[k + 1] \in Seq(X)
      BY <2>1 DEF Assembles
    <3> QED BY <3>1, ConcatProperties
  <2>3. q \in [0 .. k + 1 -> Seq(X)] /\ q[0] = << >>
    BY <2>1, <2>2 DEF Assembles
  <2>4. ASSUME NEW j \in 1 .. k + 1 PROVE q[j] = q[j - 1] \o ss[j]
    <3>1. CASE j = k + 1
      <4>1. k \in 0 .. k + 1 /\ k + 1 \in 0 .. k + 1 /\ k # k + 1 /\ k + 1 - 1 = k
        OBVIOUS
      <4>2. q[k + 1] = p[k] \o ss[k + 1] /\ q[k] = p[k]
        BY <4>1
      <4>3. j - 1 = k
        BY <3>1
      <4> HIDE DEF q
      <4> QED BY ONLY <4>2, <4>3, <3>1
    <3>2. CASE j # k + 1
      <4>1. j \in 1 .. k /\ q[j] = p[j] /\ q[j - 1] = p[j - 1]
        BY <3>2
      <4> QED BY <4>1, <2>1 DEF Assembles
    <3> QED BY <3>1, <3>2
  <2> HIDE DEF q
  <2> QED BY <2>3, <2>4 DEF Assembles
<1> HIDE DEF A
<1>3. Nat \subseteq A
  BY <1>1, <1>2, SetInduction
<1> QED BY <1>3 DEF A

LEMMA FlattenPath ==
  ASSUME NEW X, NEW n \in Nat, NEW ss \in [1 .. n -> Seq(X)]
  PROVE  \E p : Assembles(p, n, X, ss) /\ FlattenSeq(ss) = p[n]
<1>1. PICK p : Assembles(p, n, X, ss)
  BY AssemblyExists
<1>2. ss \in Seq(Seq(X)) /\ Len(ss) = n
  OBVIOUS
<1>3. CASE n = 0
  <2>1. ss = << >>
    BY <1>2, <1>3, EmptySeq
  <2> QED BY <1>1, <1>2, <1>3, <2>1 DEF FlattenSeq, Assembles
<1>4. CASE n # 0
  <2> DEFINE Eq(j) == j = [i \in 1 .. Len(ss) |->
                             IF i = 1 THEN ss[i] ELSE j[i - 1] \o ss[i]]
             f == [i \in 1 .. n |-> p[i]]
  <2>1. p[1] = ss[1]
    <3>1. 1 \in 1 .. n /\ 1 - 1 = 0 /\ ss[1] \in Seq(X)
      BY <1>4
    <3>2. p[1] = p[0] \o ss[1] /\ p[0] = << >>
      BY <3>1, <1>1 DEF Assembles
    <3> QED BY <3>1, <3>2, ConcatEmptySeq
  <2>2. \A i \in 1 .. n : p[i] = p[i - 1] \o ss[i] /\ (i # 1 => i - 1 \in 1 .. n)
    <3>1. \A i \in 1 .. n : i # 1 => i - 1 \in 1 .. n
      OBVIOUS
    <3>2. \A i \in 1 .. n : p[i] = p[i - 1] \o ss[i]
      BY ONLY <1>1 DEF Assembles
    <3> QED BY <3>1, <3>2
  <2>3. Eq(f)
    BY <1>2, <2>1, <2>2
  <2>4. PICK iter : Eq(iter) /\ FlattenSeq(ss) = iter[n]
    <3>1. FlattenSeq(ss) = (CHOOSE j : Eq(j))[n]
      BY <1>2, <1>4 DEF FlattenSeq
    <3> HIDE DEF Eq
    <3> QED BY <3>1, <2>3
  <2>5. \A i \in 1 .. n : iter[i] = IF i = 1 THEN ss[i] ELSE iter[i - 1] \o ss[i]
    BY <2>4, <1>2
  <2> HIDE DEF Eq
  <2> DEFINE A == {k \in Nat : k + 1 <= n => iter[k + 1] = p[k + 1]}
  <2>6. 0 \in A
    BY <2>1, <2>5
  <2>7. ASSUME NEW k \in Nat, k \in A PROVE k + 1 \in A
    <3> SUFFICES ASSUME NEW m \in Nat, m = k + 1 + 1, m <= n PROVE iter[m] = p[m]
      OBVIOUS
    <3>1. m \in 1 .. n /\ m # 1 /\ iter[m - 1] = p[m - 1]
      BY <2>7
    <3>2. p[m] = p[m - 1] \o ss[m] /\ iter[m] = iter[m - 1] \o ss[m]
      BY <3>1, <2>2, <2>5
    <3> QED BY <3>1, <3>2
  <2> HIDE DEF A
  <2>8. n - 1 \in A
    <3>1. Nat \subseteq A
      BY <2>6, <2>7, SetInduction
    <3> QED BY <3>1, <1>4
  <2>9. iter[n] = p[n]
    BY <2>8, <1>4 DEF A
  <2> QED BY <1>1, <2>4, <2>9
<1> QED BY <1>3, <1>4

\* A flattened sequence has the members of its parts, and what they keep of order.
LEMMA FlattenFacts ==
  ASSUME NEW X, NEW n \in Nat, NEW ss \in [1 .. n -> Seq(X)], NEW B
  PROVE  /\ FlattenSeq(ss) \in Seq(X)
         /\ \A c : c \in Range(FlattenSeq(ss)) <=> \E k \in 1 .. n : c \in Range(ss[k])
         /\ (\A k \in 1 .. n : Linkable(ss[k], B)) => Linkable(FlattenSeq(ss), B)
         /\ /\ \A k \in 1 .. n : EvictFirst(ss[k])
            /\ \A j, k \in 1 .. n : j # k => Concerned(ss[j]) \cap Concerned(ss[k]) = {}
            => EvictFirst(FlattenSeq(ss))
<1>1. PICK p : Assembles(p, n, X, ss) /\ FlattenSeq(ss) = p[n]
  BY FlattenPath
<1>2. /\ p \in [0 .. n -> Seq(X)] /\ p[0] = << >>
      /\ \A k \in 1 .. n : p[k] = p[k - 1] \o ss[k]
  BY <1>1 DEF Assembles
<1> DEFINE Good(m) ==
             /\ p[m] \in Seq(X)
             /\ \A c : c \in Range(p[m]) <=> \E k \in 1 .. m : c \in Range(ss[k])
             /\ (\A k \in 1 .. m : Linkable(ss[k], B)) => Linkable(p[m], B)
             /\ /\ \A k \in 1 .. m : EvictFirst(ss[k])
                /\ \A j, k \in 1 .. m : j # k => Concerned(ss[j]) \cap Concerned(ss[k]) = {}
                => EvictFirst(p[m])
           A == {m \in Nat : m <= n => Good(m)}
<1>3. 0 \in A
  <2>1. p[0] \in Seq(X) /\ 1 .. 0 = {}
    BY <1>2
  <2>2. Range(p[0]) = {} /\ Linkable(p[0], B) /\ EvictFirst(p[0])
    BY <1>2, EmptyFacts
  <2>3. Good(0)
    BY <2>1, <2>2
  <2> HIDE DEF Good
  <2> QED BY <2>3
<1>4. ASSUME NEW m \in Nat, m \in A PROVE m + 1 \in A
  <2> HIDE DEF Good
  <2> SUFFICES ASSUME m + 1 <= n PROVE Good(m + 1)
    OBVIOUS
  <2>1. /\ m + 1 \in 1 .. n /\ m + 1 - 1 = m /\ 1 .. m \subseteq 1 .. m + 1
        /\ m + 1 \in 1 .. m + 1 /\ m + 1 \notin 1 .. m /\ m \in 0 .. n
        /\ \A k \in 1 .. m + 1 : k \in 1 .. m \/ k = m + 1
    OBVIOUS
  <2>0. Good(m)
    BY <1>4
  <2>2. p[m + 1] = p[m] \o ss[m + 1]
    <3>1. PICK i \in 1 .. n : i = m + 1
      BY <2>1
    <3>2. i - 1 = m
      BY <3>1
    <3>3. p[i] = p[i - 1] \o ss[i]
      BY ONLY <1>2
    <3> QED BY ONLY <3>1, <3>2, <3>3
  <2> DEFINE s == p[m]
             t == ss[m + 1]
             q == p[m + 1]
  <2>3. s \in Seq(X) /\ t \in Seq(X)
    BY <2>1, <1>2
  <2> HIDE DEF s, t
  <2>4. /\ q \in Seq(X)
        /\ \A c : c \in Range(q) <=> c \in Range(s) \/ c \in Range(t)
        /\ Linkable(s, B) /\ Linkable(t, B) => Linkable(q, B)
        /\ EvictFirst(s) /\ EvictFirst(t) /\ Concerned(s) \cap Concerned(t) = {}
               => EvictFirst(q)
    BY ONLY <2>2, <2>3, ConcatFacts DEF s, t
  <2> HIDE DEF q
  <2>5. \A c : c \in Range(s) <=> \E k \in 1 .. m : c \in Range(ss[k])
    BY <2>0 DEF s, Good
  <2>6. \A c : c \in Range(q) <=> \E k \in 1 .. m + 1 : c \in Range(ss[k])
    BY <2>1, <2>4, <2>5 DEF t
  <2>7. ASSUME \A k \in 1 .. m + 1 : Linkable(ss[k], B) PROVE Linkable(q, B)
    <3>1. Linkable(s, B)
      BY <2>0, <2>1, <2>7 DEF s, Good
    <3>2. Linkable(t, B)
      BY <2>1, <2>7 DEF t
    <3> QED BY <3>1, <3>2, <2>4
  <2>8. ASSUME \A k \in 1 .. m + 1 : EvictFirst(ss[k]),
               \A j, k \in 1 .. m + 1 : j # k => Concerned(ss[j]) \cap Concerned(ss[k]) = {}
        PROVE  EvictFirst(q)
    <3>1. EvictFirst(s)
      BY <2>0, <2>1, <2>8 DEF s, Good
    <3>2. EvictFirst(t)
      BY <2>1, <2>8 DEF t
    <3>3. ASSUME NEW f \in Concerned(s) PROVE f \notin Concerned(t)
      <4>1. PICK k \in 1 .. m : f \in Concerned(ss[k])
        BY <2>5 DEF Concerned
      <4>2. Concerned(ss[k]) \cap Concerned(ss[m + 1]) = {}
        BY <2>1, <2>8
      <4> QED BY <4>1, <4>2 DEF t
    <3> QED BY <3>1, <3>2, <3>3, <2>4
  <2> QED BY <2>4, <2>6, <2>7, <2>8 DEF q, Good
<1> HIDE DEF A
<1>5. Nat \subseteq A
  BY ONLY <1>3, <1>4, SetInduction
<1>6. Good(n)
  <2> HIDE DEF Good
  <2> QED BY <1>5 DEF A
<1> QED BY <1>1, <1>6

\* The calls for each member of a set, one member after the other.
TurnsOf(S, W) == [k \in 1 .. Cardinality(S) |-> W[SetToSeq(S)[k]]]

\* The sequences of `W`, one after the other in any order: their members ...
LEMMA TurnFacts ==
  ASSUME NEW X, NEW S, IsFiniteSet(S), NEW W \in [S -> Seq(X)], NEW q,
         q = FlattenSeq(TurnsOf(S, W))
  PROVE  /\ q \in Seq(X)
         /\ \A c : c \in Range(q) <=> \E x \in S : c \in Range(W[x])
<1> DEFINE s == SetToSeq(S)
           n == Cardinality(S)
           ss == [k \in 1 .. n |-> W[s[k]]]
           B == {}
<1>1. /\ n \in Nat /\ s \in [1 .. n -> S]
      /\ \A j, k \in 1 .. n : s[j] = s[k] => j = k
      /\ \A x \in S : \E k \in 1 .. n : s[k] = x
  BY SetToSeqFacts
<1>2. q = FlattenSeq(ss)
  BY DEF TurnsOf
<1> HIDE DEF s, n, B
<1>3. ss \in [1 .. n -> Seq(X)] /\ \A k \in 1 .. n : ss[k] = W[s[k]] /\ s[k] \in S
  BY <1>1
<1> HIDE DEF ss
<1>4. /\ q \in Seq(X)
      /\ \A c : c \in Range(q) <=> \E k \in 1 .. n : c \in Range(ss[k])
      /\ (\A k \in 1 .. n : Linkable(ss[k], B)) => Linkable(q, B)
      /\ /\ \A k \in 1 .. n : EvictFirst(ss[k])
         /\ \A j, k \in 1 .. n : j # k => Concerned(ss[j]) \cap Concerned(ss[k]) = {}
         => EvictFirst(q)
  BY ONLY <1>1, <1>2, <1>3, FlattenFacts
<1>5. \A c : c \in Range(q) <=> \E x \in S : c \in Range(W[x])
  BY ONLY <1>1, <1>3, <1>4
<1> QED BY <1>4, <1>5

\* ... evictions still come first, if each concerns files of its own ...
LEMMA TurnEvictFirst ==
  ASSUME NEW X, NEW S, IsFiniteSet(S), NEW W \in [S -> Seq(X)],
         \A x \in S : EvictFirst(W[x]),
         \A x, y \in S : x # y => Concerned(W[x]) \cap Concerned(W[y]) = {}, NEW q,
         q = FlattenSeq(TurnsOf(S, W))
  PROVE  EvictFirst(q)
<1> DEFINE s == SetToSeq(S)
           n == Cardinality(S)
           ss == [k \in 1 .. n |-> W[s[k]]]
<1>1. /\ n \in Nat /\ s \in [1 .. n -> S]
      /\ \A j, k \in 1 .. n : s[j] = s[k] => j = k
  BY SetToSeqFacts
<1>2. q = FlattenSeq(ss)
  BY DEF TurnsOf
<1> HIDE DEF s, n
<1>3. /\ ss \in [1 .. n -> Seq(X)]
      /\ \A k \in 1 .. n : EvictFirst(ss[k]) /\ ss[k] = W[s[k]] /\ s[k] \in S
  BY <1>1
<1> HIDE DEF ss
<1>4. \A j, k \in 1 .. n : j # k => Concerned(ss[j]) \cap Concerned(ss[k]) = {}
  BY <1>1, <1>3
<1> QED BY ONLY <1>1, <1>2, <1>3, <1>4, FlattenFacts

\* ... and the ends of a link still come before it.
LEMMA TurnLinkable ==
  ASSUME NEW X, NEW S, IsFiniteSet(S), NEW W \in [S -> Seq(X)],
         NEW B, \A x \in S : Linkable(W[x], B), NEW q,
         q = FlattenSeq(TurnsOf(S, W))
  PROVE  Linkable(q, B)
<1> DEFINE s == SetToSeq(S)
           n == Cardinality(S)
           ss == [k \in 1 .. n |-> W[s[k]]]
<1>1. n \in Nat /\ s \in [1 .. n -> S]
  BY SetToSeqFacts
<1>2. q = FlattenSeq(ss)
  BY DEF TurnsOf
<1> HIDE DEF s, n
<1>3. ss \in [1 .. n -> Seq(X)] /\ \A k \in 1 .. n : Linkable(ss[k], B)
  BY <1>1
<1> HIDE DEF ss
<1> QED BY ONLY <1>1, <1>2, <1>3, FlattenFacts

LEMMA OneFacts ==
  ASSUME NEW X, NEW x \in X
  PROVE  << x >> \in Seq(X) /\ \A c : c \in Range(<< x >>) <=> c = x
<1>1. << x >> \in Seq(X) /\ DOMAIN << x >> = {1} /\ << x >>[1] = x
  OBVIOUS
<1> QED BY <1>1 DEF Range

LEMMA TwoFacts ==
  ASSUME NEW X, NEW x \in X, NEW y \in X
  PROVE  /\ << x, y >> \in Seq(X) /\ DOMAIN << x, y >> = 1 .. 2
         /\ << x, y >>[1] = x /\ << x, y >>[2] = y
         /\ \A c : c \in Range(<< x, y >>) <=> c \in {x, y}
<1>1. /\ << x, y >> \in Seq(X) /\ DOMAIN << x, y >> = 1 .. 2
      /\ << x, y >>[1] = x /\ << x, y >>[2] = y
  OBVIOUS
<1>2. 1 .. 2 = {1, 2}
  OBVIOUS
<1> QED BY <1>1, <1>2 DEF Range

LEMMA FourFacts ==
  ASSUME NEW X, NEW x \in X, NEW y \in X, NEW z \in X, NEW w \in X
  PROVE  /\ << x, y, z, w >> \in Seq(X) /\ DOMAIN << x, y, z, w >> = 1 .. 4
         /\ << x, y, z, w >>[1] = x /\ << x, y, z, w >>[2] = y
         /\ << x, y, z, w >>[3] = z /\ << x, y, z, w >>[4] = w
         /\ \A c : c \in Range(<< x, y, z, w >>) <=> c \in {x, y, z, w}
<1>1. /\ << x, y, z, w >> \in Seq(X) /\ DOMAIN << x, y, z, w >> = 1 .. 4
      /\ << x, y, z, w >>[1] = x /\ << x, y, z, w >>[2] = y
      /\ << x, y, z, w >>[3] = z /\ << x, y, z, w >>[4] = w
  OBVIOUS
<1>2. 1 .. 4 = {1, 2, 3, 4}
  OBVIOUS
<1> QED BY <1>1, <1>2 DEF Range

\* One call before others: an upsert serves the links, an eviction is first.
LEMMA PrependFacts ==
  ASSUME NEW X, NEW x \in X, NEW t \in Seq(X)
  PROVE  /\ << x >> \o t \in Seq(X)
         /\ \A c : c \in Range(<< x >> \o t) <=> c = x \/ c \in Range(t)
         /\ \A i : x = Upsert(i) /\ Linkable(t, {i}) => Linkable(<< x >> \o t, {})
         /\ \A f : x = Evict(f) /\ Linkable(t, {}) => Linkable(<< x >> \o t, {})
         /\ (\A c \in Range(t) : c.call # "evict") => EvictFirst(<< x >> \o t)
<1> DEFINE q == << x >> \o t
<1>1. << x >> \in Seq(X) /\ Len(<< x >>) = 1 /\ DOMAIN << x >> = {1} /\ << x >>[1] = x
  OBVIOUS
<1>2. /\ q \in Seq(X) /\ Len(q) = 1 + Len(t)
      /\ \A c : c \in Range(q) <=> c = x \/ c \in Range(t)
  <2>1. q \in Seq(X) /\ Len(q) = 1 + Len(t)
    BY <1>1, ConcatProperties
  <2>2. \A c : c \in Range(q) <=> c \in Range(<< x >>) \/ c \in Range(t)
    BY ONLY <1>1, t \in Seq(X), ConcatFacts
  <2> QED BY <2>1, <2>2, OneFacts
<1>3. /\ q[1] = x
      /\ \A i \in 2 .. 1 + Len(t) : q[i] = t[i - 1] /\ i - 1 \in 1 .. Len(t)
  <2>1. \A i \in 1 .. 1 + Len(t) : q[i] = IF i <= 1 THEN << x >>[i] ELSE t[i - 1]
    BY <1>1, ConcatProperties
  <2>2. Len(t) \in Nat
    OBVIOUS
  <2>3. q[1] = x
    BY <1>1, <2>1, <2>2
  <2> HIDE DEF q
  <2>4. ASSUME NEW i \in 2 .. 1 + Len(t) PROVE q[i] = t[i - 1] /\ i - 1 \in 1 .. Len(t)
    <3>1. i \in 1 .. 1 + Len(t) /\ ~(i <= 1) /\ i - 1 \in 1 .. Len(t)
      BY <2>2
    <3> QED BY <2>1, <3>1
  <2> QED BY <2>3, <2>4
<1> HIDE DEF q
<1>4. /\ Len(t) \in Nat /\ DOMAIN q = 1 .. 1 + Len(t) /\ DOMAIN t = 1 .. Len(t)
      /\ \A k \in DOMAIN q : k = 1 \/ k \in 2 .. 1 + Len(t)
  <2>1. Len(t) \in Nat /\ DOMAIN q = 1 .. 1 + Len(t) /\ DOMAIN t = 1 .. Len(t)
    BY <1>2
  <2> QED BY <2>1
<1>5. ASSUME NEW B, NEW C, Linkable(t, B), x.call # "link", \A i \in B : i \in C \/ x = Upsert(i)
      PROVE  Linkable(q, C)
  <2> SUFFICES ASSUME NEW k \in DOMAIN q, q[k].call = "link", NEW i \in Ends(q[k].of), i \notin C
               PROVE  \E j \in 1 .. k - 1 : q[j] = Upsert(i)
    BY DEF Linkable
  <2>1. k \in 2 .. 1 + Len(t)
    BY <1>3, <1>4, <1>5
  <2>2. q[k] = t[k - 1] /\ k - 1 \in DOMAIN t
    BY <1>3, <1>4, <2>1
  <2>3. i \in B \/ \E j \in 1 .. k - 1 - 1 : t[j] = Upsert(i)
    BY <1>5, <2>2 DEF Linkable
  <2>4. CASE i \in B
    <3>1. 1 \in 1 .. k - 1
      BY <1>4, <2>1
    <3> QED BY <1>3, <1>5, <2>4, <3>1
  <2>5. CASE \E j \in 1 .. k - 1 - 1 : t[j] = Upsert(i)
    <3>1. PICK j \in 1 .. k - 1 - 1 : t[j] = Upsert(i)
      BY <2>5
    <3>2. PICK m \in 2 .. k - 1 : m - 1 = j
      <4>1. j + 1 \in 2 .. k - 1 /\ j + 1 - 1 = j
        BY <1>4, <2>1
      <4> QED BY <4>1
    <3>3. m \in 2 .. 1 + Len(t) /\ m \in 1 .. k - 1
      BY <1>4, <2>1
    <3>4. q[m] = t[m - 1]
      BY <1>3, <3>3
    <3> QED BY <3>1, <3>2, <3>3, <3>4
  <2> QED BY <2>3, <2>4, <2>5
<1>6. ASSUME NEW i, x = Upsert(i), Linkable(t, {i}) PROVE Linkable(q, {})
  <2>1. x.call # "link"
    BY <1>6 DEF Upsert
  <2> QED BY <2>1, <1>5, <1>6
<1>7. ASSUME NEW f, x = Evict(f), Linkable(t, {}) PROVE Linkable(q, {})
  <2>1. x.call # "link"
    BY <1>7 DEF Evict
  <2> QED BY <2>1, <1>5, <1>7
<1>8. ASSUME \A c \in Range(t) : c.call # "evict" PROVE EvictFirst(q)
  <2> SUFFICES ASSUME NEW j \in DOMAIN q, NEW k \in DOMAIN q, NEW f \in Files, q[j] = Evict(f)
               PROVE  j <= k
    BY DEF EvictFirst
  <2>1. CASE j = 1
    BY <2>1, <1>4
  <2>2. CASE j \in 2 .. 1 + Len(t)
    <3>1. q[j] \in Range(t)
      BY <1>3, <1>4, <2>2 DEF Range
    <3> QED BY <3>1, <1>8 DEF Evict
  <2> QED BY <2>1, <2>2, <1>4
<1> QED BY <1>2, <1>6, <1>7, <1>8 DEF q

-----------------------------------------------------------------------------
\* The calls of a scan.

\* What parsing a version of a file leads to, then with the old one evicted.
ContributionCalls(f, v) ==
    {Upsert(i) : i \in OwnNodes(f, v)} \cup {Upsert(DepNode(d)) : d \in Imports[v]}
        \cup {Link(l[1], l[2]) : l \in OwnLinks(f, v)} \cup {Store(f, v)}

TurnCalls(f, v) ==
    {Evict(f)} \cup (IF v = Absent THEN {Store(f, v)} ELSE ContributionCalls(f, v))

LEMMA VersionFacts ==
  ASSUME NEW v \in Versions, NEW f
  PROVE  /\ v # Absent /\ v \in Present
         /\ OwnNodes(f, v) = {FileNode(f)} \cup {SymNode(f, s) : s \in Symbols[v]}
                                          \cup {UseNode(f, d) : d \in Imports[v]}
         /\ \A l : l \in OwnLinks(f, v) <=>
                      \/ \E s \in Symbols[v] : l = <<FileNode(f), SymNode(f, s)>>
                      \/ \E d \in Imports[v] : \/ l = <<FileNode(f), UseNode(f, d)>>
                                               \/ l = <<UseNode(f, d), DepNode(d)>>
<1>1. v # Absent /\ v \in Present
  BY WorkspaceAssumption DEF WorkspaceAssumption, Present
<1>2. OwnNodes(f, v) = {FileNode(f)} \cup {SymNode(f, s) : s \in Symbols[v]}
                                     \cup {UseNode(f, d) : d \in Imports[v]}
  BY <1>1 DEF OwnNodes
<1>3. \A l : l \in OwnLinks(f, v) <=>
                  \/ \E s \in Symbols[v] : l = <<FileNode(f), SymNode(f, s)>>
                  \/ \E d \in Imports[v] : \/ l = <<FileNode(f), UseNode(f, d)>>
                                           \/ l = <<UseNode(f, d), DepNode(d)>>
  BY <1>1 DEF OwnLinks
<1> QED BY <1>1, <1>2, <1>3

LEMMA KnownCalls ==
  ASSUME NEW f \in Files, NEW v \in Versions, NEW c \in TurnCalls(f, v)
  PROVE  c \in AllCalls
<1>1. v # Absent /\ v \in Present
  BY VersionFacts
<1>2. CASE c = Evict(f)
  BY <1>2 DEF AllCalls
<1>3. CASE c = Store(f, v)
  BY <1>1, <1>3 DEF AllCalls
<1>4. CASE \E i \in OwnNodes(f, v) : c = Upsert(i)
  BY <1>4 DEF AllCalls, GNodes
<1>5. CASE \E d \in Imports[v] : c = Upsert(DepNode(d))
  BY <1>5 DEF AllCalls, GNodes, AllImports
<1>6. CASE \E l \in OwnLinks(f, v) : c = Link(l[1], l[2])
  BY <1>6 DEF AllCalls, GLinks
<1> QED BY <1>1, <1>2, <1>3, <1>4, <1>5, <1>6 DEF TurnCalls, ContributionCalls

\* What a parse calls for an import ...
LEMMA ImportFacts ==
  ASSUME NEW f \in Files, NEW v \in Versions, NEW d \in Imports[v]
  PROVE  /\ ImportCalls(f, d) \in Seq(AllCalls)
         /\ \A c : c \in Range(ImportCalls(f, d)) <=>
                     c \in {Upsert(UseNode(f, d)), Link(FileNode(f), UseNode(f, d)),
                            Upsert(DepNode(d)), Link(UseNode(f, d), DepNode(d))}
         /\ Linkable(ImportCalls(f, d), {FileNode(f)})
<1> DEFINE x == Upsert(UseNode(f, d))
           y == Link(FileNode(f), UseNode(f, d))
           z == Upsert(DepNode(d))
           w == Link(UseNode(f, d), DepNode(d))
           q == << x, y, z, w >>
<1>1. ImportCalls(f, d) = q
  BY DEF ImportCalls
<1>2. /\ UseNode(f, d) \in OwnNodes(f, v)
      /\ <<FileNode(f), UseNode(f, d)>> \in OwnLinks(f, v)
      /\ <<UseNode(f, d), DepNode(d)>> \in OwnLinks(f, v)
  BY VersionFacts
<1>3. /\ x \in TurnCalls(f, v) /\ y \in TurnCalls(f, v)
      /\ z \in TurnCalls(f, v) /\ w \in TurnCalls(f, v)
  <2>1. v # Absent
    BY VersionFacts
  <2>2. y \in ContributionCalls(f, v)
    <3>1. PICK l \in OwnLinks(f, v) : l = <<FileNode(f), UseNode(f, d)>>
      BY <1>2
    <3>2. y = Link(l[1], l[2])
      BY <3>1
    <3> QED BY <3>2 DEF ContributionCalls
  <2>3. w \in ContributionCalls(f, v)
    <3>1. PICK l \in OwnLinks(f, v) : l = <<UseNode(f, d), DepNode(d)>>
      BY <1>2
    <3>2. w = Link(l[1], l[2])
      BY <3>1
    <3> QED BY <3>2 DEF ContributionCalls
  <2>4. x \in ContributionCalls(f, v) /\ z \in ContributionCalls(f, v)
    BY <1>2 DEF ContributionCalls
  <2> HIDE DEF x, y, z, w
  <2> QED BY <2>1, <2>2, <2>3, <2>4 DEF TurnCalls
<1>4. x \in AllCalls /\ y \in AllCalls /\ z \in AllCalls /\ w \in AllCalls
  <2> HIDE DEF x, y, z, w
  <2> QED BY <1>3, KnownCalls
<1>5. /\ x.call # "link" /\ z.call # "link"
      /\ Ends(y.of) = {FileNode(f), UseNode(f, d)} /\ Ends(w.of) = {UseNode(f, d), DepNode(d)}
  BY DEF Upsert, Link, Ends
<1>6. x = Upsert(UseNode(f, d)) /\ z = Upsert(DepNode(d))
  OBVIOUS
<1> HIDE DEF x, y, z, w
<1>7. /\ q \in Seq(AllCalls) /\ DOMAIN q = 1 .. 4
      /\ q[1] = x /\ q[2] = y /\ q[3] = z /\ q[4] = w
      /\ \A c : c \in Range(q) <=> c \in {x, y, z, w}
  BY ONLY <1>4, FourFacts
<1> HIDE DEF q
<1>8. Linkable(q, {FileNode(f)})
  <2> SUFFICES ASSUME NEW k \in 1 .. 4, q[k].call = "link", NEW i \in Ends(q[k].of),
                      i # FileNode(f)
               PROVE  \E j \in 1 .. k - 1 : q[j] = Upsert(i)
    BY <1>7 DEF Linkable
  <2>1. k = 2 \/ k = 4
    BY <1>5, <1>7
  <2>2. CASE k = 2
    <3>1. i = UseNode(f, d) /\ 1 \in 1 .. k - 1
      BY <1>5, <1>7, <2>2
    <3> QED BY <1>6, <1>7, <3>1
  <2>3. CASE k = 4
    <3>1. (i = UseNode(f, d) \/ i = DepNode(d)) /\ 1 \in 1 .. k - 1 /\ 3 \in 1 .. k - 1
      BY <1>5, <1>7, <2>3
    <3> QED BY <1>6, <1>7, <3>1
  <2> QED BY <2>1, <2>2, <2>3
<1> QED BY <1>1, <1>7, <1>8 DEF x, y, z, w

\* ... and for a symbol.
LEMMA SymbolFacts ==
  ASSUME NEW f \in Files, NEW v \in Versions, NEW s \in Symbols[v]
  PROVE  /\ SymbolCalls(f, s) \in Seq(AllCalls)
         /\ \A c : c \in Range(SymbolCalls(f, s)) <=>
                     c \in {Upsert(SymNode(f, s)), Link(FileNode(f), SymNode(f, s))}
         /\ Linkable(SymbolCalls(f, s), {FileNode(f)})
<1> DEFINE x == Upsert(SymNode(f, s))
           y == Link(FileNode(f), SymNode(f, s))
           q == << x, y >>
<1>1. SymbolCalls(f, s) = q
  BY DEF SymbolCalls
<1>2. x \in TurnCalls(f, v) /\ y \in TurnCalls(f, v)
  <2>1. v # Absent
    BY VersionFacts
  <2>2. y \in ContributionCalls(f, v)
    <3>1. PICK l \in OwnLinks(f, v) : l = <<FileNode(f), SymNode(f, s)>>
      BY VersionFacts
    <3>2. y = Link(l[1], l[2])
      BY <3>1
    <3> QED BY <3>2 DEF ContributionCalls
  <2>3. x \in ContributionCalls(f, v)
    BY VersionFacts DEF ContributionCalls
  <2> HIDE DEF x, y
  <2> QED BY <2>1, <2>2, <2>3 DEF TurnCalls
<1>3. x \in AllCalls /\ y \in AllCalls
  <2> HIDE DEF x, y
  <2> QED BY <1>2, KnownCalls
<1>4. x.call # "link" /\ Ends(y.of) = {FileNode(f), SymNode(f, s)} /\ x = Upsert(SymNode(f, s))
  BY DEF Upsert, Link, Ends
<1> HIDE DEF x, y
<1>5. /\ q \in Seq(AllCalls) /\ DOMAIN q = 1 .. 2 /\ q[1] = x /\ q[2] = y
      /\ \A c : c \in Range(q) <=> c \in {x, y}
  BY ONLY <1>3, TwoFacts
<1> HIDE DEF q
<1>6. Linkable(q, {FileNode(f)})
  <2> SUFFICES ASSUME NEW k \in 1 .. 2, q[k].call = "link", NEW i \in Ends(q[k].of),
                      i # FileNode(f)
               PROVE  \E j \in 1 .. k - 1 : q[j] = Upsert(i)
    BY <1>5 DEF Linkable
  <2>1. k = 2 /\ i = SymNode(f, s) /\ 1 \in 1 .. k - 1
    BY <1>4, <1>5
  <2> QED BY <1>4, <1>5, <2>1
<1> QED BY <1>1, <1>5, <1>6 DEF x, y

\* `update_memory_graph`, call by call.
LEMMA ContributionFacts ==
  ASSUME NEW f \in Files, NEW v \in Versions
  PROVE  /\ Contribution(f, v) \in Seq(AllCalls)
         /\ \A c : c \in Range(Contribution(f, v)) <=> c \in ContributionCalls(f, v)
         /\ Linkable(Contribution(f, v), {})
<1> DEFINE I == Imports[v]
           S == Symbols[v]
           WI == [d \in I |-> ImportCalls(f, d)]
           WS == [s \in S |-> SymbolCalls(f, s)]
           qI == InTurn(I, LAMBDA d : ImportCalls(f, d))
           qS == InTurn(S, LAMBDA s : SymbolCalls(f, s))
           B == {FileNode(f)}
           u == Upsert(FileNode(f))
           st == Store(f, v)
<1>1. IsFiniteSet(I) /\ IsFiniteSet(S)
  BY WorkspaceAssumption DEF WorkspaceAssumption
<1>2. WI \in [I -> Seq(AllCalls)] /\ WS \in [S -> Seq(AllCalls)]
  BY ImportFacts, SymbolFacts
<1>3. qI = FlattenSeq(TurnsOf(I, WI))
  <2>1. \A k \in 1 .. Cardinality(I) : SetToSeq(I)[k] \in I
    BY <1>1, SetToSeqFacts
  <2>2. [k \in 1 .. Cardinality(I) |-> ImportCalls(f, SetToSeq(I)[k])]
            = TurnsOf(I, WI)
    BY <2>1 DEF TurnsOf
  <2> HIDE DEF WI
  <2> QED BY <2>2 DEF InTurn
<1>4. qS = FlattenSeq(TurnsOf(S, WS))
  <2>1. \A k \in 1 .. Cardinality(S) : SetToSeq(S)[k] \in S
    BY <1>1, SetToSeqFacts
  <2>2. [k \in 1 .. Cardinality(S) |-> SymbolCalls(f, SetToSeq(S)[k])]
            = TurnsOf(S, WS)
    BY <2>1 DEF TurnsOf
  <2> HIDE DEF WS
  <2> QED BY <2>2 DEF InTurn
<1>5. /\ \A d \in I : WI[d] = ImportCalls(f, d) /\ Linkable(WI[d], B)
      /\ \A s \in S : WS[s] = SymbolCalls(f, s) /\ Linkable(WS[s], B)
  BY ImportFacts, SymbolFacts
<1>6. Contribution(f, v) = << u >> \o (qI \o qS \o << st >>)
  <2>1. Contribution(f, v) = << u >> \o qI \o qS \o << st >>
    BY DEF Contribution
  <2> HIDE DEF WI, WS, qI, qS, I, S, u, st
  <2>2. qI \in Seq(AllCalls) /\ qS \in Seq(AllCalls)
    BY ONLY <1>1, <1>2, <1>3, <1>4, TurnFacts
  <2>3. u \in AllCalls /\ st \in AllCalls
    <3>1. v # Absent
      BY VersionFacts
    <3>2. u \in TurnCalls(f, v) /\ st \in TurnCalls(f, v)
      BY <3>1, VersionFacts DEF TurnCalls, ContributionCalls, u, st
    <3> QED BY <3>2, KnownCalls
  <2>4. << u >> \in Seq(AllCalls) /\ << st >> \in Seq(AllCalls)
    BY ONLY <2>3, OneFacts
  <2>5. qI \o qS \in Seq(AllCalls)
    BY ONLY <2>2, ConcatProperties
  <2>6. << u >> \o qI \o qS = << u >> \o (qI \o qS)
    BY ONLY <2>2, <2>4, ConcatAssociative
  <2>7. << u >> \o (qI \o qS) \o << st >> = << u >> \o (qI \o qS \o << st >>)
    BY ONLY <2>4, <2>5, ConcatAssociative
  <2> QED BY ONLY <2>1, <2>6, <2>7
<1> HIDE DEF WI, WS, qI, qS
<1>7. /\ qI \in Seq(AllCalls) /\ Linkable(qI, B)
      /\ \A c : c \in Range(qI) <=> \E d \in I : c \in Range(WI[d])
  <2>1. IsFiniteSet(I) /\ WI \in [I -> Seq(AllCalls)] /\ \A d \in I : Linkable(WI[d], B)
    BY <1>1, <1>2, <1>5
  <2> HIDE DEF I, B
  <2>2. qI \in Seq(AllCalls)
    BY ONLY <2>1, <1>3, TurnFacts
  <2>3. \A c : c \in Range(qI) <=> \E d \in I : c \in Range(WI[d])
    BY ONLY <2>1, <1>3, TurnFacts
  <2>4. Linkable(qI, B)
    BY ONLY <2>1, <1>3, TurnLinkable
  <2> QED BY ONLY <2>2, <2>3, <2>4
<1>8. /\ qS \in Seq(AllCalls) /\ Linkable(qS, B)
      /\ \A c : c \in Range(qS) <=> \E s \in S : c \in Range(WS[s])
  <2>1. IsFiniteSet(S) /\ WS \in [S -> Seq(AllCalls)] /\ \A s \in S : Linkable(WS[s], B)
    BY <1>1, <1>2, <1>5
  <2> HIDE DEF S, B
  <2>2. qS \in Seq(AllCalls)
    BY ONLY <2>1, <1>4, TurnFacts
  <2>3. \A c : c \in Range(qS) <=> \E s \in S : c \in Range(WS[s])
    BY ONLY <2>1, <1>4, TurnFacts
  <2>4. Linkable(qS, B)
    BY ONLY <2>1, <1>4, TurnLinkable
  <2> QED BY ONLY <2>2, <2>3, <2>4
<1>9. u \in AllCalls /\ st \in AllCalls
  <2>1. v # Absent
    BY VersionFacts
  <2>2. u \in TurnCalls(f, v) /\ st \in TurnCalls(f, v)
    BY <2>1, VersionFacts DEF TurnCalls, ContributionCalls
  <2> HIDE DEF u, st
  <2> QED BY <2>2, KnownCalls
<1>10. /\ << st >> \in Seq(AllCalls) /\ Linkable(<< st >>, B)
       /\ \A c : c \in Range(<< st >>) <=> c = st
  <2>1. st.call # "link"
    BY DEF Store
  <2> HIDE DEF st, B
  <2>2. << st >> \in Seq(AllCalls) /\ \A c : c \in Range(<< st >>) <=> c = st
    BY ONLY <1>9, OneFacts
  <2>3. Linkable(<< st >>, B)
    BY <2>1 DEF Linkable
  <2> QED BY <2>2, <2>3
<1> DEFINE t == qI \o qS
           r == t \o << st >>
<1>11. /\ t \in Seq(AllCalls) /\ Linkable(t, B)
       /\ \A c : c \in Range(t) <=> c \in Range(qI) \/ c \in Range(qS)
  <2> HIDE DEF B
  <2> QED BY ONLY <1>7, <1>8, ConcatFacts DEF t
<1> HIDE DEF t
<1>12. /\ r \in Seq(AllCalls) /\ Linkable(r, B)
       /\ \A c : c \in Range(r) <=> c \in Range(t) \/ c = st
  <2> HIDE DEF B, st
  <2> QED BY ONLY <1>10, <1>11, ConcatFacts DEF r
<1> HIDE DEF r
<1>13. /\ << u >> \o r \in Seq(AllCalls) /\ Linkable(<< u >> \o r, {})
       /\ \A c : c \in Range(<< u >> \o r) <=> c = u \/ c \in Range(r)
  <2>1. u = Upsert(FileNode(f)) /\ Linkable(r, {FileNode(f)})
    BY <1>12
  <2> HIDE DEF u
  <2> QED BY ONLY <1>9, <1>12, <2>1, PrependFacts
<1>14. Contribution(f, v) = << u >> \o r
  BY ONLY <1>6 DEF r, t
<1>15. ASSUME NEW c
       PROVE  c \in Range(<< u >> \o r) <=>
                  \/ c = u \/ c = st
                  \/ \E d \in I : c \in Range(ImportCalls(f, d))
                  \/ \E s \in S : c \in Range(SymbolCalls(f, s))
  <2> HIDE DEF u, st, I, S
  <2> QED BY ONLY <1>5, <1>7, <1>8, <1>11, <1>12, <1>13
<1>16. ASSUME NEW c, \/ c = u \/ c = st
                     \/ \E d \in I : c \in Range(ImportCalls(f, d))
                     \/ \E s \in S : c \in Range(SymbolCalls(f, s))
       PROVE  c \in ContributionCalls(f, v)
  <2>1. CASE c = u \/ c = st
    BY <2>1, VersionFacts DEF ContributionCalls
  <2>2. CASE \E d \in I : c \in Range(ImportCalls(f, d))
    <3>1. PICK d \in I : c \in {Upsert(UseNode(f, d)), Link(FileNode(f), UseNode(f, d)),
                                Upsert(DepNode(d)), Link(UseNode(f, d), DepNode(d))}
      BY <2>2, ImportFacts
    <3>2. UseNode(f, d) \in OwnNodes(f, v)
      BY VersionFacts
    <3>3. PICK l \in OwnLinks(f, v) : l = <<FileNode(f), UseNode(f, d)>>
      BY VersionFacts
    <3>4. PICK m \in OwnLinks(f, v) : m = <<UseNode(f, d), DepNode(d)>>
      BY VersionFacts
    <3>5. /\ Link(l[1], l[2]) = Link(FileNode(f), UseNode(f, d))
          /\ Link(m[1], m[2]) = Link(UseNode(f, d), DepNode(d))
      BY <3>3, <3>4
    <3> QED BY <3>1, <3>2, <3>5 DEF ContributionCalls
  <2>3. CASE \E s \in S : c \in Range(SymbolCalls(f, s))
    <3>1. PICK s \in S : c \in {Upsert(SymNode(f, s)), Link(FileNode(f), SymNode(f, s))}
      BY <2>3, SymbolFacts
    <3>2. SymNode(f, s) \in OwnNodes(f, v)
      BY VersionFacts
    <3>3. PICK l \in OwnLinks(f, v) : l = <<FileNode(f), SymNode(f, s)>>
      BY VersionFacts
    <3>4. Link(l[1], l[2]) = Link(FileNode(f), SymNode(f, s))
      BY <3>3
    <3> QED BY <3>1, <3>2, <3>4 DEF ContributionCalls
  <2> QED BY <1>16, <2>1, <2>2, <2>3
<1>17. ASSUME NEW c \in ContributionCalls(f, v)
       PROVE  \/ c = u \/ c = st
              \/ \E d \in I : c \in Range(ImportCalls(f, d))
              \/ \E s \in S : c \in Range(SymbolCalls(f, s))
  <2>1. CASE \E i \in OwnNodes(f, v) : c = Upsert(i)
    <3>1. PICK i \in OwnNodes(f, v) : c = Upsert(i)
      BY <2>1
    <3>2. \/ i = FileNode(f)
          \/ \E d \in I : i = UseNode(f, d)
          \/ \E s \in S : i = SymNode(f, s)
      BY VersionFacts
    <3> QED BY <3>1, <3>2, ImportFacts, SymbolFacts
  <2>2. CASE \E d \in I : c = Upsert(DepNode(d))
    BY <2>2, ImportFacts
  <2>3. CASE \E l \in OwnLinks(f, v) : c = Link(l[1], l[2])
    <3>1. PICK l \in OwnLinks(f, v) : c = Link(l[1], l[2])
      BY <2>3
    <3>2. \/ \E s \in S : l = <<FileNode(f), SymNode(f, s)>>
          \/ \E d \in I : \/ l = <<FileNode(f), UseNode(f, d)>>
                          \/ l = <<UseNode(f, d), DepNode(d)>>
      BY VersionFacts
    <3>3. \/ \E s \in S : c = Link(FileNode(f), SymNode(f, s))
          \/ \E d \in I : \/ c = Link(FileNode(f), UseNode(f, d))
                          \/ c = Link(UseNode(f, d), DepNode(d))
      BY <3>1, <3>2
    <3> QED BY <3>3, ImportFacts, SymbolFacts
  <2>4. CASE c = st
    BY <2>4
  <2> QED BY <2>1, <2>2, <2>3, <2>4 DEF ContributionCalls
<1> QED BY ONLY <1>13, <1>14, <1>15, <1>16, <1>17

\* The calls of a file concern no other.
LEMMA CallsConcern ==
  ASSUME NEW f \in Files, NEW v, NEW c \in TurnCalls(f, v), NEW g, About(c, g)
  PROVE  g = f
<1>1. CASE c = Evict(f)
  BY <1>1 DEF About, Evict
<1>2. CASE c = Store(f, v)
  BY <1>2 DEF About, Evict, Store
<1>3. CASE \E i \in OwnNodes(f, v) : c = Upsert(i)
  <2>1. PICK i \in OwnNodes(f, v) : c = Upsert(i)
    BY <1>3
  <2>2. OfFile(i, g)
    BY <2>1 DEF About, Upsert, Evict
  <2> QED BY <2>2, OwnNodeFacts
<1>4. CASE \E d \in Imports[v] : c = Upsert(DepNode(d))
  <2>1. PICK d \in Imports[v] : c = Upsert(DepNode(d))
    BY <1>4
  <2>2. OfFile(DepNode(d), g)
    BY <2>1 DEF About, Upsert, Evict
  <2> QED BY <2>2, DepNodeFacts
<1>5. CASE v # Absent /\ \E l \in OwnLinks(f, v) : c = Link(l[1], l[2])
  <2>1. PICK l \in OwnLinks(f, v) : c = Link(l[1], l[2])
    BY <1>5
  <2>2. OfFile(l[1], g)
    BY <2>1 DEF About, Link, Evict
  <2>3. l[1] \in OwnNodes(f, v)
    <3>1. \/ \E s \in Symbols[v] : l = <<FileNode(f), SymNode(f, s)>>
          \/ \E d \in Imports[v] : l = <<FileNode(f), UseNode(f, d)>>
          \/ \E d \in Imports[v] : l = <<UseNode(f, d), DepNode(d)>>
      BY <1>5 DEF OwnLinks
    <3> QED BY <1>5, <3>1 DEF OwnNodes
  <2> QED BY <2>2, <2>3, OwnNodeFacts
<1> QED BY <1>1, <1>2, <1>3, <1>4, <1>5 DEF TurnCalls, ContributionCalls

\* `q` makes the calls for the file `f`, respectively for the files `S`.
Turn(q, f, v) ==
    /\ q \in Seq(AllCalls) /\ Linkable(q, {}) /\ EvictFirst(q)
    /\ \A c : c \in Range(q) <=> c \in TurnCalls(f, v)

Batch(q, S, v) ==
    /\ q \in Seq(AllCalls) /\ Linkable(q, {}) /\ EvictFirst(q)
    /\ \A c : c \in Range(q) <=> \E f \in S : c \in TurnCalls(f, v[f])

\* The calls for a file that was added or modified, or that is gone.
LEMMA ReplacedFacts ==
  ASSUME NEW f \in Files, NEW v \in Versions, NEW q, q = << Evict(f) >> \o Contribution(f, v)
  PROVE  Turn(q, f, v)
<1> DEFINE x == Evict(f)
           t == Contribution(f, v)
<1>1. /\ t \in Seq(AllCalls) /\ Linkable(t, {})
      /\ \A c : c \in Range(t) <=> c \in ContributionCalls(f, v)
  BY ContributionFacts
<1>2. x \in AllCalls /\ x = Evict(f)
  BY DEF AllCalls
<1>3. \A c \in Range(t) : c.call # "evict"
  <2>1. \A c \in ContributionCalls(f, v) : c.call # "evict"
    BY DEF ContributionCalls, Upsert, Link, Store
  <2> QED BY <1>1, <2>1
<1>4. q = << x >> \o t
  OBVIOUS
<1> HIDE DEF x, t
<1>5. /\ << x >> \o t \in Seq(AllCalls)
      /\ \A c : c \in Range(<< x >> \o t) <=> c = x \/ c \in Range(t)
      /\ Linkable(<< x >> \o t, {}) /\ EvictFirst(<< x >> \o t)
  BY ONLY <1>1, <1>2, <1>3, PrependFacts
<1>6. \A c : c \in TurnCalls(f, v) <=> c = x \/ c \in ContributionCalls(f, v)
  BY <1>2, VersionFacts DEF TurnCalls
<1> QED BY ONLY <1>1, <1>4, <1>5, <1>6 DEF Turn

\* The calls of a file that is gone.
LEMMA GoneFacts ==
  ASSUME NEW f \in Files, NEW q, q = << Evict(f), Store(f, Absent) >>
  PROVE  Turn(q, f, Absent)
<1> DEFINE x == Evict(f)
           y == Store(f, Absent)
<1>1. x \in AllCalls /\ y \in AllCalls
  BY DEF AllCalls, Present
<1>2. x.call # "link" /\ y.call # "link" /\ \A g : y # Evict(g)
  BY DEF Evict, Store
<1>3. q = << x, y >>
  OBVIOUS
<1>4. \A c : c \in TurnCalls(f, Absent) <=> c \in {x, y}
  BY DEF TurnCalls
<1> HIDE DEF x, y
<1>5. /\ q \in Seq(AllCalls) /\ DOMAIN q = 1 .. 2 /\ q[1] = x /\ q[2] = y
      /\ \A c : c \in Range(q) <=> c \in {x, y}
  <2>1. /\ << x, y >> \in Seq(AllCalls) /\ DOMAIN << x, y >> = 1 .. 2
        /\ << x, y >>[1] = x /\ << x, y >>[2] = y
        /\ \A c : c \in Range(<< x, y >>) <=> c \in {x, y}
    BY ONLY <1>1, TwoFacts
  <2> QED BY ONLY <1>3, <2>1
<1>6. \A k \in 1 .. 2 : k = 1 \/ k = 2
  OBVIOUS
<1>7. Linkable(q, {})
  BY ONLY <1>2, <1>5, <1>6 DEF Linkable
<1>8. EvictFirst(q)
  BY <1>2, <1>5, <1>6 DEF EvictFirst
<1> QED BY <1>4, <1>5, <1>7, <1>8 DEF Turn

\* The calls of several files, flattened.
LEMMA BatchFacts ==
  ASSUME NEW S \in SUBSET Files, NEW v \in [Files -> Present], NEW W \in [S -> Seq(AllCalls)],
         \A f \in S : Turn(W[f], f, v[f]),
         NEW q, q = FlattenSeq(TurnsOf(S, W))
  PROVE  Batch(q, S, v) /\ Concerned(q) \subseteq S
<1>0. /\ W \in [S -> Seq(AllCalls)]
      /\ q = FlattenSeq(TurnsOf(S, W))
  OBVIOUS
<1>1. IsFiniteSet(S)
  BY WorkspaceAssumption, FS_Subset DEF WorkspaceAssumption
<1>2. ASSUME NEW f \in S
      PROVE  /\ Concerned(W[f]) \subseteq {f} /\ Linkable(W[f], {}) /\ EvictFirst(W[f])
             /\ \A c : c \in Range(W[f]) <=> c \in TurnCalls(f, v[f])
  <2>1. Turn(W[f], f, v[f])
    OBVIOUS
  <2> QED BY <2>1, CallsConcern DEF Turn, Concerned
<1>3. q \in Seq(AllCalls)
  BY ONLY <1>0, <1>1, TurnFacts
<1>8. \A c : c \in Range(q) <=> \E f \in S : c \in Range(W[f])
  BY ONLY <1>0, <1>1, TurnFacts
<1>4. EvictFirst(q)
  <2>1. \A f \in S : EvictFirst(W[f])
    BY <1>2
  <2>2. \A f, g \in S : f # g => Concerned(W[f]) \cap Concerned(W[g]) = {}
    BY <1>2
  <2> QED BY ONLY <1>0, <1>1, <2>1, <2>2, TurnEvictFirst
<1>5. Linkable(q, {})
  <2> DEFINE B == {}
  <2>1. \A f \in S : Linkable(W[f], B)
    BY <1>2
  <2> HIDE DEF B
  <2>2. Linkable(q, B)
    BY ONLY <1>0, <1>1, <2>1, TurnLinkable
  <2> QED BY <2>2 DEF B
<1>6. \A c : c \in Range(q) <=> \E f \in S : c \in TurnCalls(f, v[f])
  BY <1>2, <1>8
<1>7. Concerned(q) \subseteq S
  BY <1>6, CallsConcern DEF Concerned
<1> QED BY <1>3, <1>4, <1>5, <1>6, <1>7 DEF Batch

\* The delta makes the calls of every file that changed, and no other.
LEMMA DeltaFacts ==
  ASSUME known \in [Files -> Present], current \in [Files -> Present]
  PROVE  /\ Delta \in Seq(AllCalls) /\ Linkable(Delta, {}) /\ EvictFirst(Delta)
         /\ \A c : c \in Range(Delta) <=>
                     \E f \in Files : known[f] # current[f] /\ c \in TurnCalls(f, current[f])
<1> DEFINE W1 == [f \in Added |-> << Evict(f) >> \o Contribution(f, current[f])]
           W2 == [f \in Modified |-> << Evict(f) >> \o Contribution(f, current[f])]
           W3 == [f \in Gone |-> << Evict(f), Store(f, Absent) >>]
           q1 == InTurn(Added, LAMBDA f : << Evict(f) >> \o Contribution(f, current[f]))
           q2 == InTurn(Modified, LAMBDA f : << Evict(f) >> \o Contribution(f, current[f]))
           q3 == InTurn(Gone, LAMBDA f : << Evict(f), Store(f, Absent) >>)
<1>0. current \in [Files -> Present]
  OBVIOUS
<1>1. /\ Added \in SUBSET Files /\ Modified \in SUBSET Files /\ Gone \in SUBSET Files
      /\ \A f \in Added : current[f] \in Versions
      /\ \A f \in Modified : current[f] \in Versions
      /\ \A f \in Gone : current[f] = Absent
      /\ \A f \in Files : known[f] # current[f] <=> f \in Added \/ f \in Modified \/ f \in Gone
      /\ Added \cap Modified = {} /\ Added \cap Gone = {} /\ Modified \cap Gone = {}
  BY DEF Added, Modified, Gone, Present
<1>2. /\ IsFiniteSet(Added) /\ IsFiniteSet(Modified) /\ IsFiniteSet(Gone)
  BY <1>1, WorkspaceAssumption, FS_Subset DEF WorkspaceAssumption
<1>3. /\ W1 \in [Added -> Seq(AllCalls)]
      /\ \A f \in Added : Turn(W1[f], f, current[f])
  <2>1. ASSUME NEW f \in Added
        PROVE  Turn(W1[f], f, current[f])
    <3>1. W1[f] = << Evict(f) >> \o Contribution(f, current[f])
      OBVIOUS
    <3> HIDE DEF W1
    <3> QED BY <1>1, <3>1, ReplacedFacts
  <2>2. DOMAIN W1 = Added /\ W1 = [f \in Added |-> W1[f]]
    OBVIOUS
  <2> HIDE DEF W1
  <2> QED BY <2>1, <2>2 DEF Turn
<1>4. /\ W2 \in [Modified -> Seq(AllCalls)]
      /\ \A f \in Modified : Turn(W2[f], f, current[f])
  <2>1. ASSUME NEW f \in Modified
        PROVE  Turn(W2[f], f, current[f])
    <3>1. W2[f] = << Evict(f) >> \o Contribution(f, current[f])
      OBVIOUS
    <3> HIDE DEF W2
    <3> QED BY <1>1, <3>1, ReplacedFacts
  <2>2. DOMAIN W2 = Modified /\ W2 = [f \in Modified |-> W2[f]]
    OBVIOUS
  <2> HIDE DEF W2
  <2> QED BY <2>1, <2>2 DEF Turn
<1>5. /\ W3 \in [Gone -> Seq(AllCalls)]
      /\ \A f \in Gone : Turn(W3[f], f, current[f])
  <2>1. ASSUME NEW f \in Gone
        PROVE  Turn(W3[f], f, current[f])
    <3>1. W3[f] = << Evict(f), Store(f, Absent) >>
      OBVIOUS
    <3> HIDE DEF W3
    <3> QED BY <1>1, <3>1, GoneFacts
  <2>2. DOMAIN W3 = Gone /\ W3 = [f \in Gone |-> W3[f]]
    OBVIOUS
  <2> HIDE DEF W3
  <2> QED BY <2>1, <2>2 DEF Turn
<1>6. q1 = FlattenSeq(TurnsOf(Added, W1))
  <2>1. \A k \in 1 .. Cardinality(Added) : SetToSeq(Added)[k] \in Added
    BY <1>2, SetToSeqFacts
  <2>2. [k \in 1 .. Cardinality(Added) |->
            << Evict(SetToSeq(Added)[k]) >>
              \o Contribution(SetToSeq(Added)[k], current[SetToSeq(Added)[k]])]
            = TurnsOf(Added, W1)
    BY <2>1 DEF TurnsOf
  <2> HIDE DEF W1
  <2> QED BY <2>2 DEF InTurn
<1>7. q2 = FlattenSeq(TurnsOf(Modified, W2))
  <2>1. \A k \in 1 .. Cardinality(Modified) : SetToSeq(Modified)[k] \in Modified
    BY <1>2, SetToSeqFacts
  <2>2. [k \in 1 .. Cardinality(Modified) |->
            << Evict(SetToSeq(Modified)[k]) >>
              \o Contribution(SetToSeq(Modified)[k], current[SetToSeq(Modified)[k]])]
            = TurnsOf(Modified, W2)
    BY <2>1 DEF TurnsOf
  <2> HIDE DEF W2
  <2> QED BY <2>2 DEF InTurn
<1>8. q3 = FlattenSeq(TurnsOf(Gone, W3))
  <2>1. \A k \in 1 .. Cardinality(Gone) : SetToSeq(Gone)[k] \in Gone
    BY <1>2, SetToSeqFacts
  <2>2. [k \in 1 .. Cardinality(Gone) |->
            << Evict(SetToSeq(Gone)[k]), Store(SetToSeq(Gone)[k], Absent) >>]
            = TurnsOf(Gone, W3)
    BY <2>1 DEF TurnsOf
  <2> HIDE DEF W3
  <2> QED BY <2>2 DEF InTurn
<1>9. Delta = q1 \o q2 \o q3
  BY DEF Delta
<1> HIDE DEF W1, W2, W3, q1, q2, q3
<1>10. Batch(q1, Added, current) /\ Concerned(q1) \subseteq Added
  <2>1. Added \in SUBSET Files
    BY <1>1
  <2> QED BY ONLY <1>0, <2>1, <1>3, <1>6, BatchFacts
<1>11. Batch(q2, Modified, current) /\ Concerned(q2) \subseteq Modified
  <2>1. Modified \in SUBSET Files
    BY <1>1
  <2> QED BY ONLY <1>0, <2>1, <1>4, <1>7, BatchFacts
<1>12. Batch(q3, Gone, current) /\ Concerned(q3) \subseteq Gone
  <2>1. Gone \in SUBSET Files
    BY <1>1
  <2> QED BY ONLY <1>0, <2>1, <1>5, <1>8, BatchFacts
<1> DEFINE q == q1 \o q2
<1>13. /\ q \in Seq(AllCalls) /\ Linkable(q, {}) /\ EvictFirst(q)
       /\ \A c : c \in Range(q) <=> c \in Range(q1) \/ c \in Range(q2)
  <2>1. Concerned(q1) \cap Concerned(q2) = {}
    BY <1>1, <1>10, <1>11
  <2> QED BY ONLY <1>10, <1>11, <2>1, ConcatFacts DEF Batch
<1> HIDE DEF q
<1>14. Concerned(q) \cap Concerned(q3) = {}
  <2>1. Concerned(q) \subseteq Added \cup Modified
    BY <1>10, <1>11, <1>13 DEF Concerned, Batch
  <2> QED BY <1>1, <1>12, <2>1
<1>15. /\ q \o q3 \in Seq(AllCalls) /\ Linkable(q \o q3, {}) /\ EvictFirst(q \o q3)
       /\ \A c : c \in Range(q \o q3) <=> c \in Range(q) \/ c \in Range(q3)
  BY ONLY <1>12, <1>13, <1>14, ConcatFacts DEF Batch
<1>16. Delta = q \o q3
  BY ONLY <1>9 DEF q
<1>17. \A c : c \in Range(Delta) <=>
                 \E f \in Files : known[f] # current[f] /\ c \in TurnCalls(f, current[f])
  BY ONLY <1>1, <1>10, <1>11, <1>12, <1>13, <1>15, <1>16 DEF Batch
<1> QED BY ONLY <1>15, <1>16, <1>17

-----------------------------------------------------------------------------
\* The invariant.

Typed ==
    /\ disk \in [Files -> Present] /\ known \in [Files -> Present]
    /\ current \in [Files -> Present] /\ states \in [Files -> Present]
    /\ phase \in {"idle", "reading", "applying"} /\ unread \subseteq Files
    /\ calls \in Seq(AllCalls) /\ Sane(graph)
    /\ demoted \in BOOLEAN /\ pageIns \in 0 .. MaxPageIns /\ edits \in 0 .. MaxEdits

\* Until something is paged in, the index holds the list, and the list each link once.
Indexed == pageIns = 0 => Exact(graph)

\* What was never demoted needs no page-in.
Calm == ~demoted => DOMAIN graph.cold = {} /\ pageIns = 0

\* After the calls `q` the graph `h` has of the file `f` what its version `v`
\* contributes; `lost` means that paging has taken nodes out of it.
Follows(h, lost, f, v, q) ==
    /\ \A i \in OwnNodes(f, v) : i \in Held(h) \/ Upsert(i) \in Range(q)
    /\ ~lost =>
         /\ \A i \in h.nodes : OfFile(i, f) => i \in OwnNodes(f, v)
         /\ \A l \in Linked(h) : OfFile(l[1], f) => l \in OwnLinks(f, v)
         /\ \A l \in OwnLinks(f, v) : l \in Linked(h) \/ Link(l[1], l[2]) \in Range(q)

\* The ends of every link of `q` will be resident when it is its turn.
Ready(h, lost, q) ==
    \A k \in DOMAIN q : q[k].call = "link" =>
        \A i \in Ends(q[k].of) :
            \/ lost
            \/ \E j \in 1 .. k - 1 : q[j] = Upsert(i)
            \/ i \in h.nodes /\ \A f \in Files : OfFile(i, f) => Evict(f) \notin Range(q)

\* What is left of the calls of a scan that saw the versions `v`.
Queue(v, q) ==
    /\ EvictFirst(q)
    /\ \A c \in Range(q) : \E f \in Files : c \in TurnCalls(f, v[f])
    /\ \A f \in Files : Evict(f) \in Range(q) =>
          /\ \A i \in OwnNodes(f, v[f]) : Upsert(i) \in Range(q)
          /\ \A l \in OwnLinks(f, v[f]) : Link(l[1], l[2]) \in Range(q)

\* The calls that are left make of `h` a graph of the versions `v`.
Rebuilding(h, lost, v, q) ==
    /\ Queue(v, q) /\ Ready(h, lost, q)
    /\ \A f \in Files : Evict(f) \in Range(q) \/ Follows(h, lost, f, v[f], q)

\* The engine's state of a file is that of the scan, or will be.
Storing(v, q) == \A f \in Files : states[f] = v[f] \/ Store(f, v[f]) \in Range(q)

\* Between two syncs ...
Settled ==
    /\ states = known /\ calls = << >>
    /\ \A f \in Files : Follows(graph, demoted, f, known[f], << >>)

\* ... and in the middle of one.
Following ==
    /\ phase # "applying" => Settled
    /\ phase = "applying" =>
         Rebuilding(graph, demoted, current, calls) /\ Storing(current, calls)

IInv == Typed /\ Indexed /\ Calm /\ Following

-----------------------------------------------------------------------------
\* One call less.

\* `q` is `c` and then `t`.
Leaves(q, c, t) ==
    /\ c \in AllCalls /\ t \in Seq(AllCalls) /\ Len(q) \in Nat \ {0}
    /\ DOMAIN q = 1 .. Len(q) /\ DOMAIN t = 1 .. Len(q) - 1 /\ q[1] = c
    /\ \A k \in 1 .. Len(q) - 1 : t[k] = q[k + 1] /\ k + 1 \in 1 .. Len(q)
    /\ \A k \in 1 .. Len(q) : k # 1 => k - 1 \in 1 .. Len(q) - 1 /\ t[k - 1] = q[k]
    /\ \A x : x \in Range(q) <=> x = c \/ x \in Range(t)

\* A queue is its head and then its tail.
LEMMA TailFacts ==
  ASSUME NEW q \in Seq(AllCalls), q # << >>
  PROVE  Leaves(q, Head(q), Tail(q))
<1> DEFINE X == AllCalls
           c == Head(q)
           t == Tail(q)
<1>1. Len(q) \in Nat \ {0} /\ DOMAIN q = 1 .. Len(q) /\ q[1] = c /\ c \in X
  BY EmptySeq
<1> HIDE DEF X
<1>2. t \in Seq(X) /\ DOMAIN t = 1 .. Len(q) - 1
  BY <1>1, HeadTailProperties DEF X
<1>3. \A k \in 1 .. Len(q) - 1 : t[k] = q[k + 1] /\ k + 1 \in 1 .. Len(q)
  BY <1>1, HeadTailProperties DEF X
<1> HIDE DEF c, t
<1>4. ASSUME NEW k \in 1 .. Len(q), k # 1
      PROVE  k - 1 \in 1 .. Len(q) - 1 /\ t[k - 1] = q[k]
  <2>1. k - 1 \in 1 .. Len(q) - 1 /\ k - 1 + 1 = k
    BY <1>1, <1>4
  <2>2. PICK m \in 1 .. Len(q) - 1 : m = k - 1
    BY <2>1
  <2>3. m + 1 = k /\ t[m] = q[m + 1]
    BY <1>3, <2>1, <2>2
  <2>4. t[m] = q[k]
    BY ONLY <2>3
  <2> QED BY ONLY <2>1, <2>2, <2>4
<1>5. ASSUME NEW x PROVE x \in Range(q) <=> x = c \/ x \in Range(t)
  <2>1. ASSUME x \in Range(q) PROVE x = c \/ x \in Range(t)
    <3>1. PICK k \in 1 .. Len(q) : q[k] = x
      BY <1>1, <2>1 DEF Range
    <3> QED BY <3>1, <1>1, <1>2, <1>4 DEF Range
  <2>2. ASSUME x = c PROVE x \in Range(q)
    <3>1. 1 \in 1 .. Len(q)
      BY <1>1
    <3> QED BY <3>1, <1>1, <2>2 DEF Range
  <2>3. ASSUME x \in Range(t) PROVE x \in Range(q)
    <3>1. PICK k \in 1 .. Len(q) - 1 : t[k] = x
      BY <1>2, <2>3 DEF Range
    <3>2. q[k + 1] = x /\ k + 1 \in 1 .. Len(q)
      BY <3>1, <1>3
    <3> QED BY <3>2, <1>1 DEF Range
  <2> QED BY <2>1, <2>2, <2>3
<1> QED BY <1>1, <1>2, <1>3, <1>4, <1>5 DEF Leaves, X, c, t

\* What is left of a queue is a queue, and the file of its head is not evicted.
LEMMA QueueTail ==
  ASSUME NEW v \in [Files -> Present], NEW q, NEW c, NEW t, Leaves(q, c, t), Queue(v, q)
  PROVE  /\ Queue(v, t)
         /\ \A f \in Files : About(c, f) => Evict(f) \notin Range(t)
         /\ \E f \in Files : c \in TurnCalls(f, v[f])
<1>0. Leaves(q, c, t)
  OBVIOUS
<1>1. /\ t \in Seq(AllCalls) /\ Len(q) \in Nat \ {0}
      /\ DOMAIN q = 1 .. Len(q) /\ DOMAIN t = 1 .. Len(q) - 1 /\ q[1] = c
      /\ \A k \in 1 .. Len(q) - 1 : t[k] = q[k + 1] /\ k + 1 \in 1 .. Len(q)
      /\ \A x : x \in Range(q) <=> x = c \/ x \in Range(t)
  BY ONLY <1>0 DEF Leaves
<1>2. EvictFirst(t)
  <2> SUFFICES ASSUME NEW j \in 1 .. Len(q) - 1, NEW k \in 1 .. Len(q) - 1, NEW f \in Files,
                      t[j] = Evict(f), About(t[k], f)
               PROVE  j <= k
    BY <1>1 DEF EvictFirst
  <2>1. q[j + 1] = Evict(f) /\ About(q[k + 1], f)
    BY <1>1
  <2>2. j + 1 \in DOMAIN q /\ k + 1 \in DOMAIN q
    BY <1>1
  <2>3. j + 1 <= k + 1
    BY <2>1, <2>2 DEF Queue, EvictFirst
  <2> QED BY <2>3, <1>1
<1>3. ASSUME NEW f \in Files, About(c, f), Evict(f) \in Range(t) PROVE FALSE
  <2>1. PICK k \in 1 .. Len(q) - 1 : t[k] = Evict(f)
    BY <1>1, <1>3 DEF Range
  <2>2. q[k + 1] = Evict(f) /\ k + 1 \in DOMAIN q /\ 1 \in DOMAIN q /\ About(q[1], f)
    BY <1>1, <1>3, <2>1
  <2>3. k + 1 <= 1
    BY <2>2 DEF Queue, EvictFirst
  <2> QED BY <2>3
<1>4. ASSUME NEW f \in Files, Evict(f) \in Range(t)
      PROVE  /\ \A i \in OwnNodes(f, v[f]) : Upsert(i) \in Range(t)
             /\ \A l \in OwnLinks(f, v[f]) : Link(l[1], l[2]) \in Range(t)
  <2>1. ~About(c, f)
    BY <1>3, <1>4
  <2>2. /\ \A i \in OwnNodes(f, v[f]) : Upsert(i) \in Range(q)
        /\ \A l \in OwnLinks(f, v[f]) : Link(l[1], l[2]) \in Range(q)
    BY <1>1, <1>4 DEF Queue
  <2>3. ASSUME NEW i \in OwnNodes(f, v[f]) PROVE About(Upsert(i), f)
    <3>1. OfFile(i, f) /\ Upsert(i).call = "upsert" /\ Upsert(i).of = i
      BY OwnNodeFacts DEF Upsert
    <3> QED BY <3>1 DEF About
  <2>4. ASSUME NEW l \in OwnLinks(f, v[f]) PROVE About(Link(l[1], l[2]), f)
    <3>1. OfFile(l[1], f)
      BY OwnLinkFacts, OwnNodeFacts
    <3>2. Link(l[1], l[2]).call = "link" /\ Link(l[1], l[2]).of[1] = l[1]
      BY DEF Link
    <3> QED BY <3>1, <3>2 DEF About
  <2> QED BY <1>1, <2>1, <2>2, <2>3, <2>4
<1>5. \A x \in Range(t) : \E f \in Files : x \in TurnCalls(f, v[f])
  BY <1>1 DEF Queue
<1>6. \E f \in Files : c \in TurnCalls(f, v[f])
  BY <1>1 DEF Queue
<1> QED BY <1>2, <1>3, <1>4, <1>5, <1>6 DEF Queue

\* What each kind of call says of its file.
LEMMA CallCases ==
  ASSUME NEW f \in Files, NEW v \in Present, NEW c \in TurnCalls(f, v)
  PROVE  /\ c.call = "evict" => c = Evict(f)
         /\ c.call = "store" => c = Store(f, v)
         /\ c.call = "upsert" =>
              /\ c = Upsert(c.of) /\ c.of \in GNodes
              /\ \A g : OfFile(c.of, g) => g = f /\ c.of \in OwnNodes(f, v)
         /\ c.call = "link" =>
              /\ c = Link(c.of[1], c.of[2]) /\ c.of \in GLinks /\ c.of \in OwnLinks(f, v)
<1>1. CASE c = Evict(f)
  BY <1>1 DEF Evict
<1>2. CASE c = Store(f, v)
  BY <1>2 DEF Store
<1>3. CASE v # Absent /\ \E i \in OwnNodes(f, v) : c = Upsert(i)
  <2>1. PICK i \in OwnNodes(f, v) : c = Upsert(i)
    BY <1>3
  <2>2. i \in GNodes
    BY <1>3 DEF GNodes, Present
  <2>3. c.call = "upsert" /\ c.of = i
    BY <2>1 DEF Upsert
  <2> QED BY <2>1, <2>2, <2>3, OwnNodeFacts
<1>4. CASE v # Absent /\ \E d \in Imports[v] : c = Upsert(DepNode(d))
  <2>1. PICK d \in Imports[v] : c = Upsert(DepNode(d))
    BY <1>4
  <2>2. DepNode(d) \in GNodes
    BY <1>4 DEF GNodes, AllImports, Present
  <2>3. c.call = "upsert" /\ c.of = DepNode(d)
    BY <2>1 DEF Upsert
  <2> QED BY <2>1, <2>2, <2>3, DepNodeFacts
<1>5. CASE v # Absent /\ \E l \in OwnLinks(f, v) : c = Link(l[1], l[2])
  <2>1. PICK l \in OwnLinks(f, v) : c = Link(l[1], l[2])
    BY <1>5
  <2>2. l \in GLinks
    BY <1>5 DEF GLinks, Present
  <2>3. l = << l[1], l[2] >>
    BY OwnLinkFacts
  <2>4. c.call = "link" /\ c.of = << l[1], l[2] >>
    BY <2>1 DEF Link
  <2>5. c.of = l
    BY ONLY <2>3, <2>4
  <2> QED BY <2>1, <2>2, <2>4, <2>5
<1> QED BY <1>1, <1>2, <1>3, <1>4, <1>5 DEF TurnCalls, ContributionCalls

\* One call of each kind: what is left of the queue rebuilds the files from its result.
LEMMA UpsertStep ==
  ASSUME NEW h, Sane(h), NEW lost, NEW v \in [Files -> Present], NEW q, NEW c, NEW t,
         Leaves(q, c, t), Rebuilding(h, lost, v, q), c.call = "upsert",
         NEW k \in Upserted(h, c.of), NEW m, ~m => ~lost /\ DOMAIN k.cold = {}
  PROVE  Sane(k) /\ Rebuilding(k, m, v, t)
<1> DEFINE i == c.of
<1>0. Leaves(q, c, t)
  OBVIOUS
<1>1. PICK g \in Files : c \in TurnCalls(g, v[g])
  BY QueueTail DEF Rebuilding
<1>2. /\ c = Upsert(i) /\ i \in GNodes
      /\ \A f : OfFile(i, f) => f = g /\ i \in OwnNodes(g, v[g])
  BY <1>1, CallCases
<1>3. /\ Sane(k) /\ Held(k) = Held(h) \cup {i}
      /\ ~m => k.nodes = h.nodes \cup {i} /\ Linked(k) = Linked(h)
  BY <1>2, UpsertedFacts
<1>4. /\ Queue(v, t) /\ \A f \in Files : About(c, f) => Evict(f) \notin Range(t)
  BY QueueTail DEF Rebuilding
<1>5. /\ Len(q) \in Nat \ {0} /\ DOMAIN q = 1 .. Len(q) /\ DOMAIN t = 1 .. Len(q) - 1
      /\ q[1] = c
      /\ \A j \in 1 .. Len(q) - 1 : t[j] = q[j + 1] /\ j + 1 \in 1 .. Len(q)
      /\ \A j \in 1 .. Len(q) : j # 1 => j - 1 \in 1 .. Len(q) - 1 /\ t[j - 1] = q[j]
      /\ \A x : x \in Range(q) <=> x = c \/ x \in Range(t)
  BY ONLY <1>0 DEF Leaves
<1>6. ASSUME NEW j, Upsert(j) = c PROVE j = i
  <2>1. Upsert(j).of = j
    BY ONLY CallFacts
  <2> QED BY ONLY <1>6, <2>1 DEF i
<1>7. \A f : OfFile(i, f) => About(c, f)
  BY DEF About
<1>8. \A a, b, f : c # Link(a, b) /\ c # Evict(f)
  BY DEF Link, Evict
<1> HIDE DEF i
<1>9. Ready(k, m, t)
  <2> SUFFICES ASSUME NEW n \in 1 .. Len(q) - 1, t[n].call = "link", NEW e \in Ends(t[n].of), ~m,
                      ~\E j \in 1 .. n - 1 : t[j] = Upsert(e)
               PROVE  e \in k.nodes /\ \A f \in Files : OfFile(e, f) => Evict(f) \notin Range(t)
    BY <1>5 DEF Ready
  <2>1. /\ n + 1 \in DOMAIN q /\ q[n + 1].call = "link" /\ e \in Ends(q[n + 1].of)
        /\ n + 1 - 1 = n
    BY <1>5
  <2>2. \/ \E j \in 1 .. n : q[j] = Upsert(e)
        \/ e \in h.nodes /\ \A f \in Files : OfFile(e, f) => Evict(f) \notin Range(q)
    BY <2>1 DEF Rebuilding, Ready
  <2>3. CASE \E j \in 1 .. n : q[j] = Upsert(e)
    <3>1. PICK j \in 1 .. n : q[j] = Upsert(e)
      BY <2>3
    <3>2. j = 1
      <4> SUFFICES ASSUME j # 1 PROVE FALSE
        OBVIOUS
      <4>1. j \in 1 .. Len(q) /\ j - 1 \in 1 .. n - 1
        BY <1>5
      <4>2. t[j - 1] = Upsert(e)
        BY <1>5, <3>1, <4>1
      <4> QED BY <4>1, <4>2
    <3>3. e = i
      BY <1>5, <1>6, <3>1, <3>2
    <3> QED BY <1>3, <1>4, <1>7, <3>3
  <2>4. CASE e \in h.nodes /\ \A f \in Files : OfFile(e, f) => Evict(f) \notin Range(q)
    BY <1>3, <1>5, <2>4
  <2> QED BY <2>2, <2>3, <2>4
<1>10. ASSUME NEW f \in Files, Evict(f) \notin Range(t) PROVE Follows(k, m, f, v[f], t)
  <2>1. Follows(h, lost, f, v[f], q)
    BY <1>5, <1>8, <1>10 DEF Rebuilding
  <2>2. \A j \in OwnNodes(f, v[f]) : j \in Held(k) \/ Upsert(j) \in Range(t)
    BY <1>3, <1>5, <1>6, <2>1 DEF Follows
  <2>3. ASSUME ~m
        PROVE  /\ \A j \in k.nodes : OfFile(j, f) => j \in OwnNodes(f, v[f])
               /\ \A l \in Linked(k) : OfFile(l[1], f) => l \in OwnLinks(f, v[f])
               /\ \A l \in OwnLinks(f, v[f]) : l \in Linked(k) \/ Link(l[1], l[2]) \in Range(t)
    <3>1. /\ \A j \in h.nodes : OfFile(j, f) => j \in OwnNodes(f, v[f])
          /\ \A l \in Linked(h) : OfFile(l[1], f) => l \in OwnLinks(f, v[f])
          /\ \A l \in OwnLinks(f, v[f]) : l \in Linked(h) \/ Link(l[1], l[2]) \in Range(q)
      BY <2>1, <2>3 DEF Follows
    <3>2. k.nodes = h.nodes \cup {i} /\ Linked(k) = Linked(h)
      BY <1>3, <2>3
    <3>3. \A a, b : Link(a, b) \in Range(q) => Link(a, b) \in Range(t)
      BY ONLY <1>5, <1>8
    <3>4. OfFile(i, f) => i \in OwnNodes(f, v[f])
      BY ONLY <1>2
    <3> QED BY ONLY <3>1, <3>2, <3>3, <3>4
  <2> QED BY <2>2, <2>3 DEF Follows
<1> QED BY <1>3, <1>4, <1>9, <1>10 DEF Rebuilding

LEMMA LinkStep ==
  ASSUME NEW h, Sane(h), NEW lost, NEW v \in [Files -> Present], NEW q, NEW c, NEW t,
         Leaves(q, c, t), Rebuilding(h, lost, v, q), c.call = "link",
         ~lost => Exact(h), NEW k, k = EdgeAdded(h, c.of)
  PROVE  Sane(k) /\ k.cold = h.cold /\ (Exact(h) => Exact(k)) /\ Rebuilding(k, lost, v, t)
<1> DEFINE e == c.of
<1>0. Leaves(q, c, t)
  OBVIOUS
<1>1. PICK g \in Files : c \in TurnCalls(g, v[g])
  BY QueueTail DEF Rebuilding
<1>2. c = Link(e[1], e[2]) /\ e \in GLinks /\ e \in OwnLinks(g, v[g])
  BY <1>1, CallCases
<1>3. /\ Queue(v, t) /\ \A f \in Files : About(c, f) => Evict(f) \notin Range(t)
  BY QueueTail DEF Rebuilding
<1>4. /\ Len(q) \in Nat \ {0} /\ DOMAIN q = 1 .. Len(q) /\ DOMAIN t = 1 .. Len(q) - 1
      /\ q[1] = c
      /\ \A j \in 1 .. Len(q) - 1 : t[j] = q[j + 1] /\ j + 1 \in 1 .. Len(q)
      /\ \A j \in 1 .. Len(q) : j # 1 => j - 1 \in 1 .. Len(q) - 1 /\ t[j - 1] = q[j]
      /\ \A x : x \in Range(q) <=> x = c \/ x \in Range(t)
  BY ONLY <1>0 DEF Leaves
<1>5. ~lost => Ends(e) \subseteq h.nodes
  <2> SUFFICES ASSUME ~lost, NEW i \in Ends(e) PROVE i \in h.nodes
    OBVIOUS
  <2>1. 1 \in DOMAIN q /\ q[1].call = "link" /\ i \in Ends(q[1].of) /\ 1 .. 1 - 1 = {}
    BY <1>4
  <2> QED BY <2>1 DEF Rebuilding, Ready
<1>6. /\ Sane(k) /\ k.nodes = h.nodes /\ k.cold = h.cold
      /\ Linked(k) = Linked(h) \/ Linked(k) = Linked(h) \cup {e}
      /\ Exact(h) => Exact(k)
      /\ ~lost => Linked(k) = Linked(h) \cup {e}
  <2>1. Exact(h) => Index(h) = Linked(h)
    BY IndexIsLinked
  <2>2. /\ Sane(k) /\ k.nodes = h.nodes /\ k.cold = h.cold
        /\ Linked(k) = Linked(h) \/ Linked(k) = Linked(h) \cup {e}
        /\ Exact(h) /\ Index(h) = Linked(h) => Exact(k)
        /\ Exact(h) /\ Index(h) = Linked(h) /\ Ends(e) \subseteq h.nodes
               => Linked(k) = Linked(h) \cup {e}
    BY <1>2, EdgeAddedFacts
  <2> QED BY <1>5, <2>1, <2>2
<1>7. \A j, f : c # Upsert(j) /\ c # Evict(f)
  BY DEF Upsert, Evict
<1>8. \A l : l = << l[1], l[2] >> /\ Link(l[1], l[2]) = c => l = e
  <2> SUFFICES ASSUME NEW l, l = << l[1], l[2] >>, Link(l[1], l[2]) = c PROVE l = e
    OBVIOUS
  <2>1. e = << l[1], l[2] >>
    BY DEF Link
  <2> QED BY ONLY <2>1, l = << l[1], l[2] >>
<1>9. \A f : OfFile(e[1], f) => f = g
  <2>1. e[1] \in OwnNodes(g, v[g])
    BY <1>2, OwnLinkFacts
  <2> QED BY <2>1, OwnNodeFacts
<1>10. \A f \in Files : \A l \in OwnLinks(f, v[f]) : l = << l[1], l[2] >>
  BY OwnLinkFacts
<1> HIDE DEF e
<1>11. Ready(k, lost, t)
  <2> SUFFICES ASSUME NEW n \in 1 .. Len(q) - 1, t[n].call = "link", NEW i \in Ends(t[n].of), ~lost,
                      ~\E j \in 1 .. n - 1 : t[j] = Upsert(i)
               PROVE  i \in k.nodes /\ \A f \in Files : OfFile(i, f) => Evict(f) \notin Range(t)
    BY <1>4 DEF Ready
  <2>1. /\ n + 1 \in DOMAIN q /\ q[n + 1].call = "link" /\ i \in Ends(q[n + 1].of)
        /\ n + 1 - 1 = n
    BY <1>4
  <2>2. \/ \E j \in 1 .. n : q[j] = Upsert(i)
        \/ i \in h.nodes /\ \A f \in Files : OfFile(i, f) => Evict(f) \notin Range(q)
    BY <2>1 DEF Rebuilding, Ready
  <2>3. ASSUME NEW j \in 1 .. n, q[j] = Upsert(i) PROVE FALSE
    <3>1. j # 1
      BY <1>4, <1>7, <2>3
    <3>2. j \in 1 .. Len(q) /\ j - 1 \in 1 .. n - 1
      BY <1>4, <3>1
    <3>3. t[j - 1] = Upsert(i)
      BY <1>4, <2>3, <3>1, <3>2
    <3> QED BY <3>2, <3>3
  <2> QED BY <1>4, <1>6, <2>2, <2>3
<1>12. ASSUME NEW f \in Files, Evict(f) \notin Range(t) PROVE Follows(k, lost, f, v[f], t)
  <2>1. Follows(h, lost, f, v[f], q)
    BY <1>4, <1>7, <1>12 DEF Rebuilding
  <2>2. \A j \in OwnNodes(f, v[f]) : j \in Held(k) \/ Upsert(j) \in Range(t)
    BY <1>4, <1>6, <1>7, <2>1 DEF Follows, Held
  <2>3. ASSUME ~lost
        PROVE  /\ \A j \in k.nodes : OfFile(j, f) => j \in OwnNodes(f, v[f])
               /\ \A l \in Linked(k) : OfFile(l[1], f) => l \in OwnLinks(f, v[f])
               /\ \A l \in OwnLinks(f, v[f]) : l \in Linked(k) \/ Link(l[1], l[2]) \in Range(t)
    <3>1. \A l \in Linked(k) : l \in Linked(h) \/ l = e
      BY <1>6
    <3>2. \A l \in Linked(k) : OfFile(l[1], f) => l \in OwnLinks(f, v[f])
      BY <1>2, <1>9, <2>1, <2>3, <3>1 DEF Follows
    <3>3. ASSUME NEW l \in OwnLinks(f, v[f]), l \notin Linked(k)
          PROVE  Link(l[1], l[2]) \in Range(t)
      <4>1. l \notin Linked(h) /\ l # e
        BY <1>6, <2>3, <3>3
      <4>2. Link(l[1], l[2]) \in Range(q)
        BY <2>1, <2>3, <4>1 DEF Follows
      <4> QED BY <1>4, <1>8, <1>10, <4>1, <4>2
    <3>4. \A j \in k.nodes : OfFile(j, f) => j \in OwnNodes(f, v[f])
      BY <1>6, <2>1, <2>3 DEF Follows
    <3> QED BY <3>2, <3>3, <3>4
  <2> QED BY <2>2, <2>3 DEF Follows
<1> QED BY <1>3, <1>6, <1>11, <1>12 DEF Rebuilding

\* What the eviction of file f makes of a graph.
Cleared(h, f) == FoldLeft(Removed, h, SetToSeq({i \in h.nodes : OfFile(i, f)}))

LEMMA EvictStep ==
  ASSUME NEW h, Sane(h), NEW lost, NEW v \in [Files -> Present], NEW q, NEW c, NEW t,
         Leaves(q, c, t), Rebuilding(h, lost, v, q), c.call = "evict",
         NEW k, k = Cleared(h, c.of)
  PROVE  /\ Sane(k) /\ DOMAIN k.cold = DOMAIN h.cold /\ (Exact(h) => Exact(k))
         /\ Rebuilding(k, lost, v, t)
<1> DEFINE S == {i \in h.nodes : OfFile(i, c.of)}
<1>0. Leaves(q, c, t)
  OBVIOUS
<1>1. PICK g \in Files : c \in TurnCalls(g, v[g])
  BY QueueTail DEF Rebuilding
<1>2. c = Evict(g) /\ c.of = g
  BY <1>1, CallCases, CallFacts
<1>3. /\ Queue(v, t) /\ \A f \in Files : About(c, f) => Evict(f) \notin Range(t)
  BY QueueTail DEF Rebuilding
<1>4. /\ Len(q) \in Nat \ {0} /\ DOMAIN q = 1 .. Len(q) /\ DOMAIN t = 1 .. Len(q) - 1
      /\ q[1] = c
      /\ \A j \in 1 .. Len(q) - 1 : t[j] = q[j + 1] /\ j + 1 \in 1 .. Len(q)
      /\ \A j \in 1 .. Len(q) : j # 1 => j - 1 \in 1 .. Len(q) - 1 /\ t[j - 1] = q[j]
      /\ \A x : x \in Range(q) <=> x = c \/ x \in Range(t)
  BY ONLY <1>0 DEF Leaves
<1>5. S \in SUBSET h.nodes /\ \A i : i \in S <=> i \in h.nodes /\ OfFile(i, g)
  BY <1>2
<1> HIDE DEF S
<1>6. /\ Sane(k) /\ k.index = h.index /\ k.nodes = h.nodes \ S
      /\ DOMAIN k.cold = DOMAIN h.cold
      /\ Linked(k) = {e \in Linked(h) : Ends(e) \cap S = {}}
      /\ \A e \in Linked(k) : k.edges[e] = h.edges[e]
  <2>1. k = FoldLeft(Removed, h, SetToSeq(S))
    BY DEF S, Cleared
  <2>2. Sane(h)
    OBVIOUS
  <2> QED BY ONLY <1>5, <2>1, <2>2, EvictedFacts
<1>7. Exact(h) => Exact(k)
  BY <1>6 DEF Exact
<1>8. \A a, b : c # Upsert(a) /\ c # Link(a, b)
  BY <1>2 DEF Upsert, Link, Evict
<1>9. \A f : Evict(f) = c => f = g
  BY <1>2, CallFacts
<1>10. Ready(k, lost, t)
  <2> SUFFICES ASSUME NEW n \in 1 .. Len(q) - 1, t[n].call = "link", NEW i \in Ends(t[n].of), ~lost,
                      ~\E j \in 1 .. n - 1 : t[j] = Upsert(i)
               PROVE  i \in k.nodes /\ \A f \in Files : OfFile(i, f) => Evict(f) \notin Range(t)
    BY <1>4 DEF Ready
  <2>1. /\ n + 1 \in DOMAIN q /\ q[n + 1].call = "link" /\ i \in Ends(q[n + 1].of)
        /\ n + 1 - 1 = n
    BY <1>4
  <2>2. \/ \E j \in 1 .. n : q[j] = Upsert(i)
        \/ i \in h.nodes /\ \A f \in Files : OfFile(i, f) => Evict(f) \notin Range(q)
    BY <2>1 DEF Rebuilding, Ready
  <2>3. ASSUME NEW j \in 1 .. n, q[j] = Upsert(i) PROVE FALSE
    <3>1. j # 1
      BY <1>4, <1>8, <2>3
    <3>2. j \in 1 .. Len(q) /\ j - 1 \in 1 .. n - 1
      BY <1>4, <3>1
    <3>3. t[j - 1] = Upsert(i)
      BY <1>4, <2>3, <3>1, <3>2
    <3> QED BY <3>2, <3>3
  <2>4. i \notin S
    BY <1>2, <1>4, <1>5, <2>2, <2>3
  <2> QED BY <1>4, <1>6, <2>2, <2>3, <2>4
<1>11. ASSUME NEW f \in Files, f # g, Evict(f) \notin Range(t) PROVE Follows(k, lost, f, v[f], t)
  <2>1. Follows(h, lost, f, v[f], q)
    BY <1>4, <1>9, <1>11 DEF Rebuilding
  <2>2. \A j \in OwnNodes(f, v[f]) : j \in Held(k) \/ Upsert(j) \in Range(t)
    <3> SUFFICES ASSUME NEW j \in OwnNodes(f, v[f]), Upsert(j) \notin Range(t) PROVE j \in Held(k)
      OBVIOUS
    <3>1. j \in Held(h)
      BY <1>4, <1>8, <2>1 DEF Follows
    <3>2. j \notin S
      BY <1>5, <1>11, OwnNodeFacts
    <3> QED BY <1>6, <3>1, <3>2 DEF Held
  <2>3. ASSUME ~lost
        PROVE  /\ \A j \in k.nodes : OfFile(j, f) => j \in OwnNodes(f, v[f])
               /\ \A l \in Linked(k) : OfFile(l[1], f) => l \in OwnLinks(f, v[f])
    BY <1>6, <2>1, <2>3 DEF Follows
  <2>4. ASSUME ~lost, NEW l \in OwnLinks(f, v[f]), Link(l[1], l[2]) \notin Range(t)
        PROVE  l \in Linked(k)
    <3>1. l \in Linked(h)
      BY <1>4, <1>8, <2>1, <2>4 DEF Follows
    <3>2. /\ Ends(l) = {l[1], l[2]} /\ l[1] \in OwnNodes(f, v[f])
          /\ l[2] \in OwnNodes(f, v[f]) \/ \E d \in AllImports : l[2] = DepNode(d)
      BY OwnLinkFacts
    <3>3. l[1] \notin S
      BY <1>5, <1>11, <3>2, OwnNodeFacts
    <3>4. l[2] \notin S
      BY <1>5, <1>11, <3>2, OwnNodeFacts, DepNodeFacts
    <3> QED BY <1>6, <3>1, <3>2, <3>3, <3>4
  <2> QED BY <2>2, <2>3, <2>4 DEF Follows
<1>12. Follows(k, lost, g, v[g], t)
  <2>1. /\ \A i \in OwnNodes(g, v[g]) : Upsert(i) \in Range(q)
        /\ \A l \in OwnLinks(g, v[g]) : Link(l[1], l[2]) \in Range(q)
    BY <1>2, <1>4 DEF Rebuilding, Queue
  <2>2. /\ \A i \in OwnNodes(g, v[g]) : Upsert(i) \in Range(t)
        /\ \A l \in OwnLinks(g, v[g]) : Link(l[1], l[2]) \in Range(t)
    BY <1>4, <1>8, <2>1
  <2>3. \A j \in k.nodes : ~OfFile(j, g)
    BY <1>5, <1>6
  <2>4. ASSUME NEW l \in Linked(k) PROVE ~OfFile(l[1], g)
    <3>1. l[1] \in k.nodes
      BY <1>6 DEF Sane, Anchored, Ends
    <3> QED BY <2>3, <3>1
  <2> QED BY <2>2, <2>3, <2>4 DEF Follows
<1> QED BY <1>3, <1>6, <1>7, <1>10, <1>11, <1>12 DEF Rebuilding

LEMMA StoreStep ==
  ASSUME NEW h, NEW lost, NEW v \in [Files -> Present], NEW q, NEW c, NEW t,
         Leaves(q, c, t), Rebuilding(h, lost, v, q), c.call = "store"
  PROVE  Rebuilding(h, lost, v, t) /\ \E g \in Files : c = Store(g, v[g])
<1>0. Leaves(q, c, t)
  OBVIOUS
<1>1. PICK g \in Files : c \in TurnCalls(g, v[g])
  BY QueueTail DEF Rebuilding
<1>2. c = Store(g, v[g])
  BY <1>1, CallCases
<1>3. Queue(v, t)
  BY QueueTail DEF Rebuilding
<1>4. /\ Len(q) \in Nat \ {0} /\ DOMAIN q = 1 .. Len(q) /\ DOMAIN t = 1 .. Len(q) - 1
      /\ q[1] = c
      /\ \A j \in 1 .. Len(q) - 1 : t[j] = q[j + 1] /\ j + 1 \in 1 .. Len(q)
      /\ \A j \in 1 .. Len(q) : j # 1 => j - 1 \in 1 .. Len(q) - 1 /\ t[j - 1] = q[j]
      /\ \A x : x \in Range(q) <=> x = c \/ x \in Range(t)
  BY ONLY <1>0 DEF Leaves
<1>5. \A a, b : c # Upsert(a) /\ c # Link(a, b) /\ c # Evict(a)
  BY <1>2 DEF Upsert, Link, Evict, Store
<1>6. Ready(h, lost, t)
  <2> SUFFICES ASSUME NEW n \in 1 .. Len(q) - 1, t[n].call = "link", NEW i \in Ends(t[n].of), ~lost,
                      ~\E j \in 1 .. n - 1 : t[j] = Upsert(i)
               PROVE  i \in h.nodes /\ \A f \in Files : OfFile(i, f) => Evict(f) \notin Range(t)
    BY <1>4 DEF Ready
  <2>1. /\ n + 1 \in DOMAIN q /\ q[n + 1].call = "link" /\ i \in Ends(q[n + 1].of)
        /\ n + 1 - 1 = n
    BY <1>4
  <2>2. \/ \E j \in 1 .. n : q[j] = Upsert(i)
        \/ i \in h.nodes /\ \A f \in Files : OfFile(i, f) => Evict(f) \notin Range(q)
    BY <2>1 DEF Rebuilding, Ready
  <2>3. ASSUME NEW j \in 1 .. n, q[j] = Upsert(i) PROVE FALSE
    <3>1. j # 1
      BY <1>4, <1>5, <2>3
    <3>2. j \in 1 .. Len(q) /\ j - 1 \in 1 .. n - 1
      BY <1>4, <3>1
    <3>3. t[j - 1] = Upsert(i)
      BY <1>4, <2>3, <3>1, <3>2
    <3> QED BY <3>2, <3>3
  <2> QED BY <1>4, <2>2, <2>3
<1>7. ASSUME NEW f \in Files, Evict(f) \notin Range(t) PROVE Follows(h, lost, f, v[f], t)
  <2>1. Follows(h, lost, f, v[f], q)
    BY <1>4, <1>5, <1>7 DEF Rebuilding
  <2> QED BY <1>4, <1>5, <2>1 DEF Follows
<1> QED BY <1>2, <1>3, <1>6, <1>7 DEF Rebuilding

\* A page-in loses none of the nodes.
LEMMA PageInStep ==
  ASSUME NEW h, NEW k, Held(k) = Held(h), NEW f, NEW v, NEW q, Follows(h, TRUE, f, v, q)
  PROVE  Follows(k, TRUE, f, v, q)
BY DEF Follows

\* A scan hands a queue that rebuilds to the engine.
LEMMA ApplyStep ==
  ASSUME known \in [Files -> Present], current \in [Files -> Present], Settled
  PROVE  /\ Delta \in Seq(AllCalls)
         /\ Rebuilding(graph, demoted, current, Delta) /\ Storing(current, Delta)
<1> DEFINE q == Delta
<1>1. /\ q \in Seq(AllCalls) /\ Linkable(q, {}) /\ EvictFirst(q)
      /\ \A c : c \in Range(q) <=>
                  \E f \in Files : known[f] # current[f] /\ c \in TurnCalls(f, current[f])
  BY DeltaFacts
<1> HIDE DEF q
<1>2. ASSUME NEW f \in Files, Evict(f) \in Range(q)
      PROVE  known[f] # current[f]
  <2>1. PICK g \in Files : known[g] # current[g] /\ Evict(f) \in TurnCalls(g, current[g])
    BY <1>1, <1>2
  <2>2. f = g
    BY <2>1, CallsConcern DEF About
  <2> QED BY <2>1, <2>2
<1>3. ASSUME NEW f \in Files, known[f] # current[f]
      PROVE  /\ Evict(f) \in Range(q) /\ Store(f, current[f]) \in Range(q)
             /\ \A i \in OwnNodes(f, current[f]) : Upsert(i) \in Range(q)
             /\ \A l \in OwnLinks(f, current[f]) : Link(l[1], l[2]) \in Range(q)
  <2>1. /\ Evict(f) \in TurnCalls(f, current[f]) /\ Store(f, current[f]) \in TurnCalls(f, current[f])
    BY DEF TurnCalls, ContributionCalls
  <2>2. \A i \in OwnNodes(f, current[f]) : Upsert(i) \in TurnCalls(f, current[f])
    BY DEF TurnCalls, ContributionCalls, OwnNodes
  <2>3. \A l \in OwnLinks(f, current[f]) : Link(l[1], l[2]) \in TurnCalls(f, current[f])
    BY DEF TurnCalls, ContributionCalls, OwnLinks
  <2> QED BY <1>1, <1>3, <2>1, <2>2, <2>3
<1>4. Queue(current, q)
  BY <1>1, <1>2, <1>3 DEF Queue
<1>5. Ready(graph, demoted, q)
  BY <1>1 DEF Linkable, Ready
<1>6. ASSUME NEW f \in Files, Evict(f) \notin Range(q)
      PROVE  Follows(graph, demoted, f, current[f], q)
  <2>1. known[f] = current[f]
    BY <1>3, <1>6
  <2>2. Follows(graph, demoted, f, current[f], << >>)
    BY <2>1 DEF Settled
  <2>3. \A c : c \notin Range(<< >>)
    BY EmptyFacts
  <2> QED BY <2>2, <2>3 DEF Follows
<1>7. Storing(current, q)
  BY <1>3 DEF Storing, Settled
<1> QED BY <1>1, <1>4, <1>5, <1>6, <1>7 DEF Rebuilding, q

-----------------------------------------------------------------------------
\* Every step keeps the invariant.

\* The invariant holds at first, and every action keeps it.
LEMMA InitIInv ==
  ASSUME Init
  PROVE  IInv
<1>1. PICK cap \in Caps : graph = Empty(cap)
  BY DEF Init
<1>2. /\ disk \in [Files -> Present] /\ known = Nowhere /\ current = Nowhere /\ states = Nowhere
      /\ phase = "idle" /\ unread = {} /\ calls = << >>
      /\ demoted = FALSE /\ pageIns = 0 /\ edits = 0
  BY DEF Init
<1>3. /\ Nowhere \in [Files -> Present] /\ \A f \in Files : Nowhere[f] = Absent
  BY DEF Nowhere, Present
<1>4. /\ graph.nodes = {} /\ graph.edges = << >> /\ graph.index = {}
      /\ graph.cold = << >> /\ graph.cap = cap
      /\ graph = [nodes |-> {}, edges |-> << >>, index |-> {}, cold |-> << >>, cap |-> cap]
  <2>1. EmptyBag = << >>
    BY DEF EmptyBag, SetToBag
  <2> QED BY <1>1, <2>1 DEF Empty
<1>5. DOMAIN << >> = {} /\ << >> = [e \in DOMAIN << >> |-> << >>[e]]
  OBVIOUS
<1>6. << >> \in Bags(GLinks) /\ << >> \in Archives
  BY <1>5, BagFacts, ArchiveFacts
<1>7. graph \in Graphs /\ Linked(graph) = {} /\ DOMAIN graph.cold = {}
  BY <1>4, <1>5, <1>6 DEF Graphs, Linked, BagToSet
<1>8. Sane(graph)
  <2>1. IsFiniteSet({}) /\ Cardinality({}) = 0
    BY FS_EmptySet
  <2>2. 0 <= cap
    BY WorkspaceAssumption DEF WorkspaceAssumption
  <2> QED BY <1>4, <1>7, <2>1, <2>2 DEF Sane, Anchored, Apart
<1>9. Exact(graph)
  BY <1>4, <1>7, FS_EmptySet DEF Exact
<1>10. Typed
  <2>1. << >> \in Seq(AllCalls)
    OBVIOUS
  <2>2. 0 \in 0 .. MaxPageIns /\ 0 \in 0 .. MaxEdits
    BY WorkspaceAssumption DEF WorkspaceAssumption
  <2>3. calls \in Seq(AllCalls)
    BY ONLY <1>2, <2>1
  <2> QED BY <1>2, <1>3, <1>8, <2>2, <2>3 DEF Typed
<1>11. Settled
  <2>1. \A f \in Files : OwnNodes(f, Absent) = {} /\ OwnLinks(f, Absent) = {}
    BY DEF OwnNodes, OwnLinks
  <2> QED BY <1>2, <1>3, <1>4, <1>7, <2>1 DEF Settled, Follows
<1> QED BY <1>2, <1>7, <1>9, <1>10, <1>11 DEF IInv, Indexed, Calm, Following

\* Outside of a sync that applies its delta, only the scanner's variables move.
LEMMA ScanSteps ==
  ASSUME IInv, UNCHANGED << known, states, calls, graph, demoted, pageIns >>,
         disk' \in [Files -> Present], current' \in [Files -> Present],
         phase # "applying", phase' \in {"idle", "reading"}, unread' \subseteq Files,
         edits' \in 0 .. MaxEdits
  PROVE  IInv'
<1>1. Settled
  BY DEF IInv, Following
<1>2. Typed'
  BY DEF IInv, Typed
<1>3. Indexed' /\ Calm'
  BY DEF IInv, Indexed, Calm
<1>4. Settled'
  BY <1>1 DEF Settled
<1> QED BY <1>2, <1>3, <1>4 DEF IInv, Following

LEMMA EditKeeps ==
  ASSUME IInv, NEW f \in Files, NEW v \in Present, Edit(f, v)
  PROVE  IInv'
<1>1. /\ disk' \in [Files -> Present] /\ current' \in [Files -> Present] /\ unread' \subseteq Files
      /\ phase # "applying" /\ phase' \in {"idle", "reading"} /\ edits' \in 0 .. MaxEdits
  BY WorkspaceAssumption DEF Edit, IInv, Typed, WorkspaceAssumption
<1> QED BY <1>1, ScanSteps DEF Edit

LEMMA BeginSyncKeeps ==
  ASSUME IInv, BeginSync
  PROVE  IInv'
<1>1. /\ disk' \in [Files -> Present] /\ current' \in [Files -> Present] /\ unread' \subseteq Files
      /\ phase # "applying" /\ phase' \in {"idle", "reading"} /\ edits' \in 0 .. MaxEdits
  BY DEF BeginSync, IInv, Typed, Nowhere, Present
<1> QED BY <1>1, ScanSteps DEF BeginSync

LEMMA ReadKeeps ==
  ASSUME IInv, NEW f \in Files, Read(f) \/ ReadFails(f)
  PROVE  IInv'
<1>1. PICK v \in Present : Reads(f, v)
  <2>1. disk[f] \in Present /\ Absent \in Present
    BY DEF IInv, Typed, Present
  <2> QED BY <2>1 DEF Read, ReadFails
<1>2. edits' \in 0 .. MaxEdits
  BY WorkspaceAssumption DEF Read, ReadFails, IInv, Typed, WorkspaceAssumption
<1>3. /\ disk' \in [Files -> Present] /\ current' \in [Files -> Present] /\ unread' \subseteq Files
      /\ phase # "applying" /\ phase' \in {"idle", "reading"}
  BY <1>1 DEF Reads, IInv, Typed
<1> QED BY <1>1, <1>2, <1>3, ScanSteps DEF Reads

\* The difference of a scan is a queue that rebuilds what changed.
LEMMA ApplyKeeps ==
  ASSUME IInv, Apply
  PROVE  IInv'
<1>1. Settled /\ known \in [Files -> Present] /\ current \in [Files -> Present]
  BY DEF IInv, Following, Typed, Apply
<1>2. /\ Delta \in Seq(AllCalls)
      /\ Rebuilding(graph, demoted, current, Delta) /\ Storing(current, Delta)
  BY <1>1, ApplyStep
<1>3. /\ phase' = "applying" /\ calls' = Delta
      /\ UNCHANGED <<disk, known, unread, current, states, graph, demoted, pageIns, edits>>
  BY DEF Apply
<1>4. Typed'
  BY <1>2, <1>3 DEF IInv, Typed
<1>5. Indexed' /\ Calm'
  BY <1>3 DEF IInv, Indexed, Calm
<1>6. Rebuilding(graph, demoted, current, calls)' /\ Storing(current, calls)'
  BY <1>2, <1>3 DEF Storing
<1> QED BY <1>3, <1>4, <1>5, <1>6 DEF IInv, Following

\* What a call finds.
LEMMA CallStarts ==
  ASSUME IInv, NEW kind, Calls(kind)
  PROVE  /\ Leaves(calls, Head(calls), calls') /\ Head(calls).call = kind
         /\ Rebuilding(graph, demoted, current, calls) /\ Storing(current, calls)
         /\ calls' \in Seq(AllCalls) /\ phase' = "applying"
         /\ Sane(graph) /\ current \in [Files -> Present] /\ states \in [Files -> Present]
         /\ (~demoted => DOMAIN graph.cold = {} /\ Exact(graph))
         /\ UNCHANGED <<disk, known, phase, unread, current, pageIns, edits>>
<1>1. /\ phase = "applying" /\ calls # << >> /\ Head(calls).call = kind /\ calls' = Tail(calls)
      /\ UNCHANGED <<disk, known, phase, unread, current, pageIns, edits>>
  BY DEF Calls
<1>2. /\ calls \in Seq(AllCalls) /\ Sane(graph)
      /\ current \in [Files -> Present] /\ states \in [Files -> Present]
  BY DEF IInv, Typed
<1>3. Rebuilding(graph, demoted, current, calls) /\ Storing(current, calls)
  BY <1>1 DEF IInv, Following
<1>4. ~demoted => DOMAIN graph.cold = {} /\ Exact(graph)
  BY DEF IInv, Calm, Indexed
<1>5. Leaves(calls, Head(calls), Tail(calls))
  BY <1>1, <1>2, TailFacts
<1>6. Leaves(calls, Head(calls), calls')
  BY ONLY <1>1, <1>5
<1>7. calls' \in Seq(AllCalls)
  BY <1>6 DEF Leaves
<1> QED BY ONLY <1>1, <1>2, <1>3, <1>4, <1>6, <1>7

\* What a call leaves.
LEMMA CallEnds ==
  ASSUME IInv, UNCHANGED <<disk, known, phase, unread, current, pageIns, edits>>,
         phase' = "applying", calls' \in Seq(AllCalls), Sane(graph'), demoted' \in BOOLEAN,
         states' \in [Files -> Present], Rebuilding(graph', demoted', current, calls'),
         \A f \in Files : states'[f] = current[f] \/ Store(f, current[f]) \in Range(calls'),
         pageIns = 0 => Exact(graph'), ~demoted' => ~demoted /\ DOMAIN graph'.cold = {}
  PROVE  IInv'
<1>1. Typed'
  BY DEF IInv, Typed
<1>2. Indexed'
  BY DEF Indexed
<1>3. Calm'
  BY DEF IInv, Calm
<1>4. Rebuilding(graph, demoted, current, calls)' /\ Storing(current, calls)'
  BY DEF Storing
<1> QED BY <1>1, <1>2, <1>3, <1>4 DEF IInv, Following

\* A call that does not store leaves what is to be stored.
LEMMA StoresLeft ==
  ASSUME NEW q, NEW c, NEW t, Leaves(q, c, t), c.call # "store", NEW v, Storing(v, q)
  PROVE  Storing(v, t)
<1>1. \A f, w : Store(f, w).call = "store"
  BY DEF Store
<1> QED BY <1>1 DEF Leaves, Storing

\* One lemma per call of the graph.
LEMMA UpsertKeeps ==
  ASSUME IInv, UpsertCall
  PROVE  IInv'
<1> DEFINE c == Head(calls)
<1>1. /\ Leaves(calls, c, calls') /\ c.call = "upsert"
      /\ Rebuilding(graph, demoted, current, calls) /\ Storing(current, calls)
      /\ calls' \in Seq(AllCalls) /\ phase' = "applying"
      /\ Sane(graph) /\ current \in [Files -> Present] /\ states \in [Files -> Present]
      /\ ~demoted => DOMAIN graph.cold = {} /\ Exact(graph)
      /\ UNCHANGED <<disk, known, phase, unread, current, pageIns, edits>>
  BY CallStarts DEF UpsertCall
<1>2. /\ graph' \in Upserted(graph, c.of) /\ states' = states
      /\ demoted' = (demoted \/ DOMAIN graph'.cold \ DOMAIN graph.cold # {})
  BY DEF UpsertCall
<1>3. demoted \in BOOLEAN
  BY DEF IInv, Typed
<1>4. demoted' \in BOOLEAN /\ (~demoted' => ~demoted /\ DOMAIN graph'.cold = {})
  BY <1>1, <1>2, <1>3
<1> HIDE DEF c
<1>5. Sane(graph') /\ Rebuilding(graph', demoted', current, calls')
  <2>1. /\ Sane(graph) /\ current \in [Files -> Present] /\ Leaves(calls, c, calls')
        /\ Rebuilding(graph, demoted, current, calls)
        /\ c.call = "upsert" /\ graph' \in Upserted(graph, c.of)
        /\ (~demoted' => ~demoted /\ DOMAIN graph'.cold = {})
    BY ONLY <1>1, <1>2, <1>4
  <2> QED BY ONLY <2>1, <1>3, <1>4, UpsertStep
<1>6. pageIns = 0 => Exact(graph')
  <2>1. PICK g \in Files : c \in TurnCalls(g, current[g])
    BY <1>1, QueueTail DEF Rebuilding
  <2>2. c.of \in GNodes
    BY <1>1, <2>1, CallCases
  <2>3. /\ graph'.index = graph.index /\ Linked(graph') \subseteq Linked(graph)
        /\ \A e \in Linked(graph') : graph'.edges[e] = graph.edges[e]
    BY <1>1, <1>2, <2>2, UpsertedFacts
  <2> QED BY <2>3 DEF IInv, Indexed, Exact
<1>7. Storing(current, calls')
  BY <1>1, StoresLeft
<1>8. \A f \in Files : states'[f] = current[f] \/ Store(f, current[f]) \in Range(calls')
  BY <1>2, <1>7 DEF Storing
<1> QED BY <1>1, <1>2, <1>4, <1>5, <1>6, <1>8, CallEnds

LEMMA LinkKeeps ==
  ASSUME IInv, LinkCall
  PROVE  IInv'
<1> DEFINE c == Head(calls)
<1>1. /\ Leaves(calls, c, calls') /\ c.call = "link"
      /\ Rebuilding(graph, demoted, current, calls) /\ Storing(current, calls)
      /\ calls' \in Seq(AllCalls) /\ phase' = "applying"
      /\ Sane(graph) /\ current \in [Files -> Present] /\ states \in [Files -> Present]
      /\ ~demoted => DOMAIN graph.cold = {} /\ Exact(graph)
      /\ UNCHANGED <<disk, known, phase, unread, current, pageIns, edits>>
  BY CallStarts DEF LinkCall
<1>2. graph' = EdgeAdded(graph, c.of) /\ states' = states /\ demoted' = demoted
  BY DEF LinkCall
<1>3. demoted \in BOOLEAN
  BY DEF IInv, Typed
<1> HIDE DEF c
<1>4. /\ Sane(graph') /\ graph'.cold = graph.cold /\ (Exact(graph) => Exact(graph'))
      /\ Rebuilding(graph', demoted, current, calls')
  <2>1. /\ Sane(graph) /\ current \in [Files -> Present] /\ Leaves(calls, c, calls')
        /\ Rebuilding(graph, demoted, current, calls)
        /\ c.call = "link" /\ (~demoted => Exact(graph)) /\ graph' = EdgeAdded(graph, c.of)
    BY ONLY <1>1, <1>2
  <2> QED BY ONLY <2>1, <1>3, LinkStep
<1>5. pageIns = 0 => Exact(graph')
  BY <1>4 DEF IInv, Indexed
<1>6. Storing(current, calls')
  BY <1>1, StoresLeft
<1>7. \A f \in Files : states'[f] = current[f] \/ Store(f, current[f]) \in Range(calls')
  BY <1>2, <1>6 DEF Storing
<1>8. ~demoted' => ~demoted /\ DOMAIN graph'.cold = {}
  BY <1>1, <1>2, <1>4
<1> QED BY <1>1, <1>2, <1>3, <1>4, <1>5, <1>7, <1>8, CallEnds

LEMMA EvictKeeps ==
  ASSUME IInv, EvictCall
  PROVE  IInv'
<1> DEFINE c == Head(calls)
<1>1. /\ Leaves(calls, c, calls') /\ c.call = "evict"
      /\ Rebuilding(graph, demoted, current, calls) /\ Storing(current, calls)
      /\ calls' \in Seq(AllCalls) /\ phase' = "applying"
      /\ Sane(graph) /\ current \in [Files -> Present] /\ states \in [Files -> Present]
      /\ ~demoted => DOMAIN graph.cold = {} /\ Exact(graph)
      /\ UNCHANGED <<disk, known, phase, unread, current, pageIns, edits>>
  BY CallStarts DEF EvictCall
<1>2. graph' = Cleared(graph, c.of) /\ states' = states /\ demoted' = demoted
  BY DEF EvictCall, Cleared
<1>3. demoted \in BOOLEAN
  BY DEF IInv, Typed
<1> HIDE DEF c
<1>4. /\ Sane(graph') /\ DOMAIN graph'.cold = DOMAIN graph.cold
      /\ (Exact(graph) => Exact(graph')) /\ Rebuilding(graph', demoted, current, calls')
  <2>1. /\ Sane(graph) /\ current \in [Files -> Present] /\ Leaves(calls, c, calls')
        /\ Rebuilding(graph, demoted, current, calls)
        /\ c.call = "evict" /\ graph' = Cleared(graph, c.of)
    BY ONLY <1>1, <1>2
  <2> QED BY ONLY <2>1, EvictStep
<1>5. pageIns = 0 => Exact(graph')
  BY <1>4 DEF IInv, Indexed
<1>6. Storing(current, calls')
  BY <1>1, StoresLeft
<1>7. \A f \in Files : states'[f] = current[f] \/ Store(f, current[f]) \in Range(calls')
  BY <1>2, <1>6 DEF Storing
<1>8. ~demoted' => ~demoted /\ DOMAIN graph'.cold = {}
  BY <1>1, <1>2, <1>4
<1> QED BY <1>1, <1>2, <1>3, <1>4, <1>5, <1>7, <1>8, CallEnds

LEMMA StoreKeeps ==
  ASSUME IInv, StoreCall
  PROVE  IInv'
<1> DEFINE c == Head(calls)
<1>1. /\ Leaves(calls, c, calls') /\ c.call = "store"
      /\ Rebuilding(graph, demoted, current, calls) /\ Storing(current, calls)
      /\ calls' \in Seq(AllCalls) /\ phase' = "applying"
      /\ Sane(graph) /\ current \in [Files -> Present] /\ states \in [Files -> Present]
      /\ ~demoted => DOMAIN graph.cold = {} /\ Exact(graph)
      /\ UNCHANGED <<disk, known, phase, unread, current, pageIns, edits>>
  BY CallStarts DEF StoreCall
<1>2. /\ states' = [states EXCEPT ![c.of[1]] = c.of[2]]
      /\ graph' = graph /\ demoted' = demoted
  BY DEF StoreCall
<1>3. demoted \in BOOLEAN
  BY DEF IInv, Typed
<1> HIDE DEF c
<1>4. Rebuilding(graph, demoted, current, calls') /\ \E g \in Files : c = Store(g, current[g])
  BY ONLY <1>1, StoreStep
<1>5. PICK g \in Files : c = Store(g, current[g])
  BY <1>4
<1>6. states' = [states EXCEPT ![g] = current[g]]
  <2>1. c.of[1] = g /\ c.of[2] = current[g]
    BY <1>5 DEF Store
  <2> QED BY ONLY <1>2, <2>1
<1>7. ASSUME NEW f \in Files PROVE states'[f] = current[f] \/ Store(f, current[f]) \in Range(calls')
  <2>1. CASE f = g
    BY <1>1, <1>6, <2>1
  <2>2. CASE f # g
    <3>1. states'[f] = states[f]
      BY <1>1, <1>6, <2>2
    <3>2. Store(f, current[f]) # c
      BY <1>5, <2>2 DEF Store
    <3> QED BY <1>1, <3>1, <3>2 DEF Storing, Leaves
  <2> QED BY <2>1, <2>2
<1>8. states' \in [Files -> Present]
  BY <1>1, <1>6
<1>9. Rebuilding(graph', demoted', current, calls') /\ Sane(graph')
  BY <1>1, <1>2, <1>4
<1>10. (pageIns = 0 => Exact(graph')) /\ (~demoted' => ~demoted /\ DOMAIN graph'.cold = {})
  BY <1>1, <1>2 DEF IInv, Indexed
<1> QED BY <1>1, <1>2, <1>3, <1>7, <1>8, <1>9, <1>10, CallEnds

LEMMA EndSyncKeeps ==
  ASSUME IInv, EndSync
  PROVE  IInv'
<1>1. /\ phase = "applying" /\ calls = << >> /\ known' = current /\ phase' = "idle"
      /\ current' = Nowhere
      /\ UNCHANGED <<disk, unread, states, calls, graph, demoted, pageIns, edits>>
  BY DEF EndSync
<1>2. Rebuilding(graph, demoted, current, << >>) /\ Storing(current, << >>)
  BY <1>1 DEF IInv, Following
<1>3. \A c : c \notin Range(<< >>)
  BY EmptyFacts
<1>4. states = current
  <2>1. \A f \in Files : states[f] = current[f]
    BY <1>2, <1>3 DEF Storing
  <2> QED BY <2>1 DEF IInv, Typed
<1>5. \A f \in Files : Follows(graph, demoted, f, current[f], << >>)
  BY <1>2, <1>3 DEF Rebuilding
<1>6. Settled'
  BY <1>1, <1>4, <1>5 DEF Settled
<1>7. Typed'
  BY <1>1 DEF IInv, Typed, Nowhere, Present
<1>8. Indexed' /\ Calm'
  BY <1>1 DEF IInv, Indexed, Calm
<1> QED BY <1>1, <1>6, <1>7, <1>8 DEF IInv, Following

LEMMA PageInKeeps ==
  ASSUME IInv, NEW i \in DOMAIN graph.cold, PageIn(i)
  PROVE  IInv'
<1>1. /\ phase = "idle" /\ pageIns < MaxPageIns /\ graph' \in PagedIn(graph, i)
      /\ pageIns' = pageIns + 1
      /\ UNCHANGED <<disk, known, phase, unread, current, states, calls, demoted, edits>>
  BY DEF PageIn
<1>2. Sane(graph') /\ Held(graph') = Held(graph)
  BY <1>1, PagedInFacts DEF IInv, Typed
<1>3. demoted = TRUE
  BY DEF IInv, Calm, Typed
<1>4. pageIns' \in 0 .. MaxPageIns /\ pageIns' # 0
  BY <1>1, WorkspaceAssumption DEF IInv, Typed, WorkspaceAssumption
<1>5. Typed'
  BY <1>1, <1>2, <1>4 DEF IInv, Typed
<1>6. Indexed' /\ Calm'
  BY <1>1, <1>3, <1>4 DEF Indexed, Calm
<1>7. Settled'
  <2>1. Settled
    BY <1>1 DEF IInv, Following
  <2>2. \A f \in Files : Follows(graph', TRUE, f, known[f], << >>)
    BY <1>2, <1>3, <2>1, PageInStep DEF Settled
  <2> QED BY <1>1, <1>3, <2>1, <2>2 DEF Settled
<1> QED BY <1>1, <1>5, <1>6, <1>7 DEF IInv, Following

LEMMA StutterKeeps ==
  ASSUME IInv, UNCHANGED vars
  PROVE  IInv'
<1>1. Typed' /\ Indexed' /\ Calm'
  BY DEF IInv, Typed, Indexed, Calm, vars
<1>2. phase # "applying" => Settled'
  BY DEF IInv, Following, Settled, vars
<1>3. phase = "applying" =>
        Rebuilding(graph, demoted, current, calls)' /\ Storing(current, calls)'
  BY DEF IInv, Following, Storing, vars
<1> QED BY <1>1, <1>2, <1>3 DEF IInv, Following, vars

LEMMA StepKeeps ==
  ASSUME IInv, [Next]_vars
  PROVE  IInv'
<1>1. CASE \E f \in Files : Read(f) \/ ReadFails(f)
  BY <1>1, ReadKeeps
<1>2. CASE \E f \in Files : \E v \in Present : Edit(f, v)
  BY <1>2, EditKeeps
<1>3. CASE \E i \in DOMAIN graph.cold : PageIn(i)
  BY <1>3, PageInKeeps
<1> QED BY <1>1, <1>2, <1>3, BeginSyncKeeps, ApplyKeeps, EndSyncKeeps, UpsertKeeps, LinkKeeps,
           EvictKeeps, StoreKeeps, StutterKeeps DEF Next

-----------------------------------------------------------------------------
\* What the invariant says of the graph.

\* The invariant implies the properties.
LEMMA TypedIsTypeOK ==
  ASSUME IInv
  PROVE  TypeOK
<1>1. IsABag(graph.edges)
  <2> DEFINE b == graph.edges
  <2>1. b \in Bags(GLinks)
    BY DEF IInv, Typed, Sane, Graphs
  <2> HIDE DEF b
  <2>2. b = [e \in DOMAIN b |-> b[e]] /\ \A e \in DOMAIN b : b[e] \in Nat /\ b[e] > 0
    BY <2>1, BagFacts
  <2>3. b \in [DOMAIN b -> {n \in Nat : n > 0}]
    BY <2>2
  <2> QED BY <2>3 DEF IsABag, b
<1>2. \A e \in Linked(graph) : Ends(e) \subseteq graph.nodes
  BY DEF IInv, Typed, Sane, Anchored
<1>3. /\ graph.cap \in Caps /\ Cardinality(graph.nodes) <= graph.cap
      /\ DOMAIN graph.cold \cap graph.nodes = {}
  BY DEF IInv, Typed, Sane, Graphs, Apart
<1> QED BY <1>1, <1>2, <1>3 DEF IInv, Typed, TypeOK

\* The list of links of a graph that follows its files.
LEMMA EdgesOfFiles ==
  ASSUME IInv, Settled, ~demoted
  PROVE  graph.edges = SetToBag(UNION {OwnLinks(f, known[f]) : f \in Files})
<1> DEFINE U == UNION {OwnLinks(f, known[f]) : f \in Files}
<1>1. /\ Exact(graph) /\ Sane(graph) /\ known \in [Files -> Present]
  BY DEF IInv, Calm, Indexed, Typed
<1>2. /\ graph.edges = [e \in DOMAIN graph.edges |-> graph.edges[e]]
      /\ DOMAIN graph.edges = Linked(graph) /\ Linked(graph) \subseteq GLinks
  BY <1>1, BagFacts DEF Sane, Graphs, Linked, BagToSet
<1>3. ASSUME NEW l \in Linked(graph) PROVE l \in U
  <2>1. PICK g \in Files, v \in Versions : l \in OwnLinks(g, v)
    BY <1>2 DEF GLinks
  <2>2. OfFile(l[1], g)
    <3>1. v \in Present
      BY DEF Present
    <3>2. l[1] \in OwnNodes(g, v)
      BY <2>1, <3>1, OwnLinkFacts
    <3> QED BY <3>2, OwnNodeFacts
  <2>3. l \in OwnLinks(g, known[g])
    BY <2>2 DEF Settled, Follows
  <2> QED BY <2>3
<1>4. ASSUME NEW f \in Files, NEW l \in OwnLinks(f, known[f]) PROVE l \in Linked(graph)
  BY EmptyFacts DEF Settled, Follows
<1>5. Linked(graph) = U
  BY <1>3, <1>4
<1> HIDE DEF U
<1>6. SetToBag(U) = [e \in U |-> 1]
  BY DEF SetToBag
<1>7. graph.edges = [e \in U |-> 1]
  BY <1>1, <1>2, <1>5 DEF Exact
<1> QED BY <1>6, <1>7 DEF U

LEMMA GraphFollows ==
  ASSUME IInv
  PROVE  GraphFollowsFiles
<1> SUFFICES ASSUME phase = "idle"
             PROVE  /\ states = known
                    /\ \A f \in Files :
                          /\ OwnNodes(f, known[f]) \subseteq graph.nodes \cup DOMAIN graph.cold
                          /\ ~demoted => {i \in graph.nodes : OfFile(i, f)} = OwnNodes(f, known[f])
                    /\ ~demoted =>
                          graph.edges = SetToBag(UNION {OwnLinks(f, known[f]) : f \in Files})
  BY DEF GraphFollowsFiles
<1>1. Settled
  BY DEF IInv, Following
<1>2. ASSUME NEW f \in Files, NEW i \in OwnNodes(f, known[f])
      PROVE  i \in graph.nodes \cup DOMAIN graph.cold /\ OfFile(i, f)
  <2>1. i \in Held(graph)
    BY <1>1, EmptyFacts DEF Settled, Follows
  <2> QED BY <2>1, OwnNodeFacts DEF Held
<1>3. ASSUME NEW f \in Files, ~demoted, NEW i \in graph.nodes, OfFile(i, f)
      PROVE  i \in OwnNodes(f, known[f])
  BY <1>1, <1>3 DEF Settled, Follows
<1>4. ~demoted => DOMAIN graph.cold = {}
  BY DEF IInv, Calm
<1>5. ~demoted => graph.edges = SetToBag(UNION {OwnLinks(f, known[f]) : f \in Files})
  BY <1>1, EdgesOfFiles
<1>6. states = known
  BY <1>1 DEF Settled
<1>7. ASSUME NEW f \in Files
      PROVE  /\ OwnNodes(f, known[f]) \subseteq graph.nodes \cup DOMAIN graph.cold
             /\ ~demoted => {i \in graph.nodes : OfFile(i, f)} = OwnNodes(f, known[f])
  BY <1>2, <1>3, <1>4
<1> QED BY <1>5, <1>6, <1>7

-----------------------------------------------------------------------------
\* The theorems.

\* A file that is not waiting for its eviction has, with the calls that are
\* left, what its version contributes; no call is left without its ends.
THEOREM WorkspaceInvariant == Spec => []IInv
<1>1. Init => IInv
  BY InitIInv
<1>2. IInv /\ [Next]_vars => IInv'
  BY StepKeeps
<1> QED BY <1>1, <1>2, PTL DEF Spec

\* At every call of a sync the graph is well formed: no link dangles, no node is
\* both resident and cold, and the resident nodes stay under the cap.
THEOREM WorkspaceAlwaysTyped == Spec => []TypeOK
<1>1. IInv => TypeOK
  BY TypedIsTypeOK
<1> QED BY <1>1, WorkspaceInvariant, PTL

\* Incremental is rebuild: whatever was edited while the scanner read, and
\* whichever reads failed, the engine's calls (`evict_file_nodes`, then
\* `update_memory_graph`, file by file) leave of every file what a graph built
\* afresh would hold, each link once.  If paging demoted nodes on the way,
\* none of a file's own is lost.
THEOREM SyncIsRebuild == Spec => []GraphFollowsFiles
<1>1. IInv => GraphFollowsFiles
  BY GraphFollows
<1> QED BY <1>1, WorkspaceInvariant, PTL

\* `add_edge` trusts `edge_set` when it has as many links as the list.  As long
\* as nothing was paged in, a set of that size is the list, whatever removals
\* and demotions went past it.
THEOREM IndexAlwaysMirrors == Spec => []IndexMirrors
<1>1. IInv => IndexMirrors
  BY IndexIsLinked DEF IInv, Indexed, IndexMirrors
<1> QED BY <1>1, WorkspaceInvariant, PTL
=============================================================================
