------------------------------ MODULE Workspace ------------------------------
(***************************************************************************)
(* From a directory of source files to the graph: the scanner              *)
(* (workspace.rs) reads the files one after the other while others edit    *)
(* them, compares them with the last scan and hands the difference to the  *)
(* incremental engine (incremental.rs), which evicts what a changed or     *)
(* removed file had put into the graph and adds what it now contains       *)
(* (parser.rs), call by call; paging may demote nodes at every one.        *)
(*                                                                         *)
(* Parsing is given: the symbols and the imports of each version of a      *)
(* file.  A content and its hash are its version.  The calls of one `sync` *)
(* are steps here, but nothing else runs in between; that an edit falls    *)
(* between two of them is the same as after the last.  The facade ingests  *)
(* a file it was given by the same engine calls (EvictCall, Contribution). *)
(***************************************************************************)
EXTENDS GraphIndex, Sequences, SequencesExt

CONSTANTS Files, Versions, Absent,
          Symbols,      \* version -> the symbols a file of it defines
          Imports,      \* version -> the crates it uses
          Caps,         \* values of max_in_memory_nodes
          MaxEdits,     \* bound: edits and failed reads
          MaxPageIns    \* bound: page-ins

ASSUME WorkspaceAssumption ==
    /\ Absent \notin Versions /\ IsFiniteSet(Files)
    /\ \A v \in Versions : IsFiniteSet(Symbols[v]) /\ IsFiniteSet(Imports[v])
    /\ Caps \subseteq Nat \ {0}
    /\ MaxEdits \in Nat /\ MaxPageIns \in Nat

VARIABLES disk,     \* the workspace
          known,    \* `files`: the version of the last scan
          phase,    \* of the scanner: idle, reading or applying
          unread,   \* the files it has yet to read
          current,  \* what it has read
          states,   \* `file_states` of the engine
          calls,    \* the calls on the graph that are left
          graph,
          demoted,  \* history: a node was demoted
          pageIns,  \* history: their number
          edits     \* history: the number of edits and failed reads

vars == <<disk, known, phase, unread, current, states, calls, graph, demoted, pageIns, edits>>

Present == Versions \cup {Absent}

Nowhere == [f \in Files |-> Absent]

-----------------------------------------------------------------------------
(* What a file contributes: `update_memory_graph`                          *)

FileNode(f)   == <<"file", f>>
SymNode(f, s) == <<"sym", f, s>>
UseNode(f, d) == <<"use", f, d>>
DepNode(d)    == <<"dep", d>>

Upsert(i)    == [call |-> "upsert", of |-> i]
Link(i, j)   == [call |-> "link", of |-> <<i, j>>]
Evict(f)     == [call |-> "evict", of |-> f]
Store(f, v)  == [call |-> "store", of |-> <<f, v>>]

ImportCalls(f, d) ==
    << Upsert(UseNode(f, d)), Link(FileNode(f), UseNode(f, d)),
       Upsert(DepNode(d)),    Link(UseNode(f, d), DepNode(d)) >>

SymbolCalls(f, s) == << Upsert(SymNode(f, s)), Link(FileNode(f), SymNode(f, s)) >>

InTurn(S, Op(_)) == FlattenSeq([k \in 1 .. Cardinality(S) |-> Op(SetToSeq(S)[k])])

Contribution(f, v) ==
    << Upsert(FileNode(f)) >>
        \o InTurn(Imports[v], LAMBDA d : ImportCalls(f, d))
        \o InTurn(Symbols[v], LAMBDA s : SymbolCalls(f, s))
        \o << Store(f, v) >>

(* The nodes and links of its own that a file has in a graph built afresh. *)
OwnNodes(f, v) ==
    IF v = Absent THEN {}
    ELSE {FileNode(f)} \cup {SymNode(f, s) : s \in Symbols[v]}
                       \cup {UseNode(f, d) : d \in Imports[v]}

OwnLinks(f, v) ==
    IF v = Absent THEN {}
    ELSE {<<FileNode(f), SymNode(f, s)>> : s \in Symbols[v]}
         \cup UNION {{<<FileNode(f), UseNode(f, d)>>, <<UseNode(f, d), DepNode(d)>>} :
                        d \in Imports[v]}

OfFile(i, f) == i[1] # "dep" /\ i[2] = f

-----------------------------------------------------------------------------
Init ==
    /\ disk \in [Files -> Present]
    /\ known = Nowhere /\ current = Nowhere
    /\ phase = "idle" /\ unread = {} /\ calls = <<>>
    /\ states = Nowhere
    /\ \E cap \in Caps : graph = Empty(cap)
    /\ demoted = FALSE /\ pageIns = 0 /\ edits = 0

(* Somebody writes, replaces or removes a file.                            *)
Edit(f, v) ==
    /\ phase # "applying" /\ edits < MaxEdits /\ v # disk[f]
    /\ disk' = [disk EXCEPT ![f] = v] /\ edits' = edits + 1
    /\ UNCHANGED <<known, phase, unread, current, states, calls, graph, demoted, pageIns>>

(* `sync`                                                                  *)
BeginSync ==
    /\ phase = "idle"
    /\ phase' = "reading" /\ unread' = Files /\ current' = Nowhere
    /\ UNCHANGED <<disk, known, states, calls, graph, demoted, pageIns, edits>>

Reads(f, v) ==
    /\ phase = "reading" /\ f \in unread
    /\ current' = [current EXCEPT ![f] = v] /\ unread' = unread \ {f}
    /\ UNCHANGED <<disk, known, phase, states, calls, graph, demoted, pageIns>>

Read(f) == Reads(f, disk[f]) /\ UNCHANGED edits

(* A file that cannot be read is taken for removed.                        *)
ReadFails(f) == Reads(f, Absent) /\ edits < MaxEdits /\ edits' = edits + 1

Added    == {f \in Files : known[f] = Absent /\ current[f] # Absent}
Modified == {f \in Files : Absent \notin {known[f], current[f]} /\ known[f] # current[f]}
Gone     == {f \in Files : known[f] # Absent /\ current[f] = Absent}

Delta ==
    InTurn(Added, LAMBDA f : << Evict(f) >> \o Contribution(f, current[f]))
        \o InTurn(Modified, LAMBDA f : << Evict(f) >> \o Contribution(f, current[f]))
        \o InTurn(Gone, LAMBDA f : << Evict(f), Store(f, Absent) >>)

Apply ==
    /\ phase = "reading" /\ unread = {}
    /\ phase' = "applying" /\ calls' = Delta
    /\ UNCHANGED <<disk, known, unread, current, states, graph, demoted, pageIns, edits>>

Calls(call) ==
    /\ phase = "applying" /\ calls # <<>> /\ Head(calls).call = call
    /\ calls' = Tail(calls)
    /\ UNCHANGED <<disk, known, phase, unread, current, pageIns, edits>>

UpsertCall ==
    /\ Calls("upsert")
    /\ graph' \in Upserted(graph, Head(calls).of)
    /\ demoted' = (demoted \/ DOMAIN graph'.cold \ DOMAIN graph.cold # {})
    /\ UNCHANGED states

LinkCall ==
    /\ Calls("link")
    /\ graph' = EdgeAdded(graph, Head(calls).of)
    /\ UNCHANGED <<states, demoted>>

(* `evict_file_nodes` removes the file's nodes among the resident ones.    *)
EvictCall ==
    /\ Calls("evict")
    /\ LET old == SetToSeq({i \in graph.nodes : OfFile(i, Head(calls).of)})
       IN  graph' = FoldLeft(Removed, graph, old)
    /\ UNCHANGED <<states, demoted>>

(* `store_file_state`, or its removal.                                     *)
StoreCall ==
    /\ Calls("store")
    /\ states' = [states EXCEPT ![Head(calls).of[1]] = Head(calls).of[2]]
    /\ UNCHANGED <<graph, demoted>>

(* Faulty variant: what the scan saw is read again from the disk.          *)
EndSyncRereads ==
    /\ phase = "applying" /\ calls = <<>>
    /\ known' = disk /\ phase' = "idle" /\ current' = Nowhere
    /\ UNCHANGED <<disk, unread, states, calls, graph, demoted, pageIns, edits>>

EndSync ==
    /\ phase = "applying" /\ calls = <<>>
    /\ known' = current /\ phase' = "idle" /\ current' = Nowhere
    /\ UNCHANGED <<disk, unread, states, calls, graph, demoted, pageIns, edits>>

PageIn(i) ==
    /\ phase = "idle" /\ pageIns < MaxPageIns /\ i \in DOMAIN graph.cold
    /\ graph' \in PagedIn(graph, i) /\ pageIns' = pageIns + 1
    /\ UNCHANGED <<disk, known, phase, unread, current, states, calls, demoted, edits>>

Next ==
    \/ \E f \in Files : Read(f) \/ ReadFails(f) \/ \E v \in Present : Edit(f, v)
    \/ BeginSync \/ Apply \/ EndSync
    \/ UpsertCall \/ LinkCall \/ EvictCall \/ StoreCall
    \/ \E i \in DOMAIN graph.cold : PageIn(i)

Spec == Init /\ [][Next]_vars

-----------------------------------------------------------------------------
(* Type invariant; no link dangles and the resident nodes stay under the   *)
(* cap, at every call.                                                     *)
TypeOK ==
    /\ {disk, known, current, states} \subseteq [Files -> Present]
    /\ phase \in {"idle", "reading", "applying"} /\ unread \subseteq Files
    /\ IsABag(graph.edges) /\ \A e \in Linked(graph) : Ends(e) \subseteq graph.nodes
    /\ graph.cap \in Caps /\ Cardinality(graph.nodes) <= graph.cap
    /\ DOMAIN graph.cold \cap graph.nodes = {}
    /\ demoted \in BOOLEAN /\ pageIns \in 0..MaxPageIns /\ edits \in 0..MaxEdits

(* Incremental is rebuild: however the files were edited while they were   *)
(* read, after a sync the nodes and links of every file are those a graph  *)
(* built from scratch would have, each link once.  Once paging has demoted *)
(* a node, it is still true that none is lost: each is resident or cold.   *)
GraphFollowsFiles ==
    phase = "idle" =>
        /\ states = known
        /\ \A f \in Files :
              /\ OwnNodes(f, known[f]) \subseteq graph.nodes \cup DOMAIN graph.cold
              /\ ~demoted => {i \in graph.nodes : OfFile(i, f)} = OwnNodes(f, known[f])
        /\ ~demoted => graph.edges = SetToBag(UNION {OwnLinks(f, known[f]) : f \in Files})

(* `edge_set` is trusted when its length is that of the list: then it is   *)
(* the list, as long as nothing was paged in.                              *)
IndexMirrors ==
    pageIns = 0 => Index(graph) = Linked(graph)

-----------------------------------------------------------------------------
(* Statements of the tests that the code does not keep                     *)

(* memory.rs:4645 "The O(1) `edge_set` dedup index must mirror `edges`      *)
(* through every path", page-ins included.                                 *)
IndexMirrorsThroughout == Index(graph) = Linked(graph)
=============================================================================
