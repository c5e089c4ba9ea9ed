------------------------------ MODULE ColdTier ------------------------------
(***************************************************************************)
(* The tiers of `MemoryGraph` (memory.rs).  A node that paging evicts from *)
(* the resident graph is kept, with its links, in the COLD tier: inline in *)
(* RAM, or with its content spilled to a blob on disk, or as a deep husk,  *)
(* whole on disk and known only to the husk store.  `page_in` brings it    *)
(* back.  Blobs are addressed by their hash, shared, and reclaimed with    *)
(* their last reference.                                                   *)
(*                                                                         *)
(* Which nodes are the coldest, and how many bytes a budget holds, are     *)
(* abstracted: paging evicts any nodes, as many as are over the cap, in    *)
(* any order, and the three budget passes move any entries.  The husk      *)
(* store and the reverse index of the links behave as StoreMap says: what  *)
(* the process sees, and what a crash leaves of it.                        *)
(***************************************************************************)
EXTENDS Naturals, FiniteSets

CONSTANTS Ids, Texts,
          Links,           \* the links nodes may have, <<source, target>>
          Caps,            \* values of `max_in_memory_nodes`
          None,
          Garbage,         \* what a torn blob reads as
          MayCompact,      \* whether a content budget is set (lossy)
          MayFlush,        \* whether the memtables of the indices may fill up
          MaxFaults,       \* bound: torn writes, and crashes that lose work
          MaxCheckpoints   \* bound: checkpoints

ASSUME ColdTierAssumption ==
    /\ Links \subseteq Ids \X Ids
    /\ \A e \in Links : e[1] # e[2]
    /\ Caps \subseteq Nat \ {0} /\ Caps # {}
    /\ None \notin Texts /\ Garbage \notin Texts
    /\ {MayCompact, MayFlush} \subseteq BOOLEAN
    /\ MaxFaults \in Nat /\ MaxCheckpoints \in Nat

VARIABLES g,            \* the graph, its view of the two indices, the blob files
          husksDisk,    \* the durable part of the husk store
          radjDisk,     \* the durable part of the reverse index
          snapshot,     \* the last checkpoint
          truth,        \* history: what was last ingested for each node
          ever,         \* history: all that was ever ingested for it
          synced,       \* history: nothing changed since `checkpoint_to`
          faults,       \* history: torn writes and crashes that lost work
          checkpoints   \* history: their number

vars == <<g, husksDisk, radjDisk, snapshot, truth, ever, synced, faults, checkpoints>>

-----------------------------------------------------------------------------
(* Contents and blobs                                                      *)

Contents == [text : Texts \cup {Garbage}, short : BOOLEAN]
ColdNodes == [content : Contents, links : SUBSET Links, spilled : BOOLEAN]
Bodies == [id : Ids, content : Contents, links : SUBSET Links]

ASSUME NoneAssumption == None \notin Contents /\ None \notin ColdNodes /\ None \notin Bodies

Whole(t) == [text |-> t, short |-> FALSE]

(* A skeleton or a summary.                                                *)
Short(c) == [c EXCEPT !.short = TRUE]

Entry(c, links, spilled) == [content |-> c, links |-> links, spilled |-> spilled]

(* The serialized entry of a deep husk.                                    *)
Body(i, c, links) == [id |-> i, content |-> c, links |-> links]

ContentBlob(c) == <<"content", c>>
BodyBlob(b) == <<"body", b>>

(* Faulty variant: what the file holds is not checked against its hash.    *)
FetchedUnverified(h, blob, c) ==
    IF blob \in h.blobs THEN c ELSE IF blob \in h.torn THEN Whole(Garbage) ELSE None

(* `ColdSpill::get`: the content with that hash, or nothing.               *)
Fetched(h, blob, c) == IF blob \in h.blobs THEN c ELSE None

(* `ColdSpill::put` of the blobs `ok` and, cut short, of the blobs         *)
(* `failed`.  A file that exists is not written again, whatever it holds.  *)
Stored(h, ok, failed) ==
    LET cut == failed \ (h.blobs \cup h.torn)
    IN  [h EXCEPT !.blobs = @ \cup (ok \ (h.torn \cup cut)), !.torn = @ \cup cut]

-----------------------------------------------------------------------------
(* Tiers                                                                   *)

Resident(h) == {i \in Ids : h.nodes[i] # None}
Entries(h)  == {i \in Ids : h.cold[i] # None}
Husks(h)    == {i \in Ids : h.husks[i] # None}
Cold(h)     == Entries(h) \cup Husks(h)
Spilled(h)  == {i \in Entries(h) : h.cold[i].spilled}

Ends(e) == {e[1], e[2]}

Others(i, links) == {j \in Ids : \E e \in links : Ends(e) = {i, j}}

Pairs(i, js) == ({i} \X js) \cup (js \X {i})

EntryBlob(h, i) == ContentBlob(h.cold[i].content)

Referenced(h) ==
    {EntryBlob(h, i) : i \in Spilled(h)} \cup {BodyBlob(h.husks[i]) : i \in Husks(h)}

(* Faulty variant: the blob goes although another entry shares it.         *)
ReleasedAlways(h, bs) == [h EXCEPT !.blobs = @ \ bs, !.torn = @ \ bs]

(* `release_content_blob_if_orphan`, `release_blob_if_orphan`              *)
Released(h, bs) ==
    LET gone == bs \ Referenced(h)
    IN  [h EXCEPT !.blobs = @ \ gone, !.torn = @ \ gone]

(* What an entry holds; None is a miss.                                    *)
EntryContent(h, i) ==
    IF h.cold[i].spilled THEN Fetched(h, EntryBlob(h, i), h.cold[i].content)
    ELSE h.cold[i].content

HuskContent(h, i) == Fetched(h, BodyBlob(h.husks[i]), h.husks[i].content)

ArchivedLinks(h, i) ==
    (IF i \in Entries(h) THEN h.cold[i].links ELSE {})
        \cup (IF i \in Husks(h) THEN h.husks[i].links ELSE {})

-----------------------------------------------------------------------------
(* What the operations are made of                                         *)

(* Faulty variant: the reverse index is not told.                          *)
ForgottenKeepsIndex(h, i) ==
    Released([h EXCEPT !.cold[i] = None, !.husks[i] = None],
             (IF i \in Spilled(h) THEN {EntryBlob(h, i)} ELSE {})
                \cup (IF i \in Husks(h) THEN {BodyBlob(h.husks[i])} ELSE {}))

(* `forget_cold_shadow`                                                    *)
Forgotten(h, i) ==
    Released([h EXCEPT !.cold[i] = None, !.husks[i] = None,
                       !.radj = @ \ Pairs(i, Others(i, ArchivedLinks(h, i)))],
             (IF i \in Spilled(h) THEN {EntryBlob(h, i)} ELSE {})
                \cup (IF i \in Husks(h) THEN {BodyBlob(h.husks[i])} ELSE {}))

Orders(V) == {f \in [V -> 1 .. Cardinality(V)] : \A i, j \in V : f[i] = f[j] => i = j}

(* Faulty variant: collected after the links were dropped.                 *)
TakenTooLate(h, V, order, i) ==
    {e \in h.edges : i \in Ends(e) /\ Ends(e) \cap V = {}}

(* The links that `i` takes along: those that no earlier victim took.      *)
Taken(h, V, order, i) ==
    {e \in h.edges : i \in Ends(e) /\ \A j \in V \cap Ends(e) : order[i] <= order[j]}

(* `demote` of the victims `V`, in an order.                               *)
Demoted(h, V, order) ==
    [h EXCEPT
        !.nodes = [i \in Ids |-> IF i \in V THEN None ELSE h.nodes[i]],
        !.edges = {e \in h.edges : Ends(e) \cap V = {}},
        !.cold = [i \in Ids |->
                    IF i \in V THEN Entry(h.nodes[i], Taken(h, V, order, i), FALSE)
                    ELSE h.cold[i]],
        !.radj = @ \cup UNION {Pairs(i, Others(i, Taken(h, V, order, i))) : i \in V}]

Excess(h) ==
    IF Cardinality(Resident(h)) > h.cap THEN Cardinality(Resident(h)) - h.cap ELSE 0

(* The graphs that remain once the nodes over the cap, but not `keep`, are *)
(* demoted.                                                                *)
Paged(h, keep) ==
    UNION {{Demoted(h, V, order) : order \in Orders(V)} :
              V \in {W \in SUBSET (Resident(h) \ keep) : Cardinality(W) = Excess(h)}}

(* `enforce_cold_content_budget` compacts those entries of C that can be   *)
(* read and are not short yet.                                             *)
Compacted(h, C) ==
    LET ids == {i \in C \cap Entries(h) :
                  ~h.cold[i].content.short /\ EntryContent(h, i) # None}
    IN  Released([h EXCEPT !.cold =
                    [i \in Ids |->
                        IF i \in ids
                        THEN Entry(Short(EntryContent(h, i)), h.cold[i].links, FALSE)
                        ELSE h.cold[i]]],
                 {EntryBlob(h, i) : i \in ids \cap Spilled(h)})

(* `enforce_cold_budget` spills the inline contents of S; the write of     *)
(* those of F is cut short, and they stay inline.                          *)
SpilledOut(h, S, F) ==
    LET inline == Entries(h) \ Spilled(h)
    IN  [Stored(h, {EntryBlob(h, i) : i \in (S \ F) \cap inline},
                   {EntryBlob(h, i) : i \in F \cap inline})
         EXCEPT !.cold = [i \in Ids |->
                            IF i \in (S \ F) \cap inline
                            THEN Entry(h.cold[i].content, h.cold[i].links, TRUE)
                            ELSE h.cold[i]]]

(* `enforce_cold_resident_budget` moves the entries of D, with their       *)
(* contents, to the husk store.  One that cannot be read stays.            *)
DeepSpilled(h, D, F) ==
    LET body(i) == Body(i, EntryContent(h, i), h.cold[i].links)
        readable == {i \in Entries(h) : EntryContent(h, i) # None}
        ids == (D \ F) \cap readable
        moved == [Stored(h, {BodyBlob(body(i)) : i \in ids},
                            {BodyBlob(body(i)) : i \in D \cap F \cap readable})
                  EXCEPT !.cold = [i \in Ids |-> IF i \in ids THEN None ELSE h.cold[i]],
                         !.husks = [i \in Ids |-> IF i \in ids THEN body(i) ELSE h.husks[i]]]
    IN  Released(moved, {EntryBlob(h, i) : i \in ids \cap Spilled(h)})

(* The graphs the three budget passes may end in; the writes for the nodes *)
(* of F fail.                                                              *)
Budgeted(h, F) ==
    UNION {{DeepSpilled(SpilledOut(k, S, F), D, F) :
               S \in SUBSET (Entries(k) \ Spilled(k)), D \in SUBSET Entries(k)} :
              k \in IF MayCompact THEN {Compacted(h, C) : C \in SUBSET Entries(h)} ELSE {h}}

(* `enforce_paging`                                                        *)
EnforcedPaging(h, F) ==
    IF Excess(h) = 0 THEN {h} ELSE UNION {Budgeted(k, F) : k \in Paged(h, {})}

(* Faulty variant: the blob of the husk stays.                             *)
HuskRestoredKeepsBlob(h, i) ==
    [h EXCEPT !.husks[i] = None,
              !.cold[i] = Entry(HuskContent(h, i), h.husks[i].links, FALSE)]

(* The entry comes back from the husk store, and its blob goes.            *)
HuskRestored(h, i) ==
    Released([h EXCEPT !.husks[i] = None,
                       !.cold[i] = Entry(HuskContent(h, i), h.husks[i].links, FALSE)],
             {BodyBlob(h.husks[i])})

(* The content comes back from its blob, and the blob goes.                *)
ContentRestored(h, i) ==
    Released([h EXCEPT !.cold[i] = Entry(EntryContent(h, i), @.links, FALSE)],
             {EntryBlob(h, i)})

Faulted(h, i) ==
    IF i \in Husks(h) THEN HuskRestored(h, i)
    ELSE IF i \in Spilled(h) THEN ContentRestored(h, i) ELSE h

(* Whether `page_in` gets that far, or returns false and changes nothing.  *)
Faultable(h, i) ==
    IF i \in Husks(h) THEN HuskContent(h, i) # None
    ELSE i \in Entries(h) /\ EntryContent(h, i) # None

(* Faulty variant: links whose other end is not resident come back too.    *)
LinkedUnchecked(h, i) ==
    [h EXCEPT !.nodes[i] = h.cold[i].content,
              !.edges = @ \cup h.cold[i].links,
              !.cold[i] = None,
              !.radj = @ \ Pairs(i, Others(i, h.cold[i].links))]

(* The node is resident again, with the links whose other end is.          *)
Linked(h, i) ==
    LET nodes == [h.nodes EXCEPT ![i] = h.cold[i].content]
    IN  [h EXCEPT
            !.nodes = nodes,
            !.edges = @ \cup {e \in h.cold[i].links : \A j \in Ends(e) : nodes[j] # None},
            !.cold[i] = None,
            !.radj = @ \ Pairs(i, Others(i, h.cold[i].links))]

-----------------------------------------------------------------------------
Empty(cap) ==
    [nodes |-> [i \in Ids |-> None], edges |-> {}, cold |-> [i \in Ids |-> None],
     cap |-> cap, husks |-> [i \in Ids |-> None], radj |-> {}, blobs |-> {}, torn |-> {}]

(* What a snapshot holds: not the two indices, nor the blobs.  History:    *)
(* the truth at that time, and whether the indices were flushed for it.    *)
Saved(h, t, flushed) ==
    [nodes |-> h.nodes, edges |-> h.edges, cold |-> h.cold, cap |-> h.cap,
     truth |-> t, flushed |-> flushed]

Init ==
    /\ \E cap \in Caps :
          g = Empty(cap) /\ snapshot = Saved(Empty(cap), [i \in Ids |-> None], TRUE)
    /\ husksDisk = [i \in Ids |-> None] /\ radjDisk = {}
    /\ truth = [i \in Ids |-> None] /\ ever = [i \in Ids |-> {}]
    /\ synced = TRUE /\ faults = 0 /\ checkpoints = 0

(* A write to an index, whose view was `h`, may fill its memtable up: what *)
(* was written so far is then on disk.                                     *)
IndicesWritten(h) ==
    /\ \/ UNCHANGED husksDisk
       \/ /\ MayFlush /\ g'.husks # h.husks
          /\ \E W \in SUBSET Ids :
                husksDisk' = [i \in Ids |-> IF i \in W THEN g'.husks[i] ELSE h.husks[i]]
    /\ \/ UNCHANGED radjDisk
       \/ MayFlush /\ g'.radj # h.radj /\ radjDisk' = g'.radj

(* The nodes for which a write of a blob is cut short in one operation.    *)
Failures == {{}} \cup (IF faults < MaxFaults THEN {{i} : i \in Ids} ELSE {})

Written(F) ==
    /\ F # {} => g'.torn # g.torn
    /\ faults' = IF F = {} THEN faults ELSE faults + 1
    /\ IndicesWritten(g)
    /\ synced' = (synced /\ g' = g)

UpsertNode(i, t) ==
    /\ \E F \in Failures :
          /\ g' \in EnforcedPaging([Forgotten(g, i) EXCEPT !.nodes[i] = Whole(t)], F)
          /\ Written(F)
    /\ truth' = [truth EXCEPT ![i] = Whole(t)]
    /\ ever' = [ever EXCEPT ![i] = @ \cup {t}]
    /\ UNCHANGED <<snapshot, checkpoints>>

(* Refused unless both ends are resident.                                  *)
AddEdge(e) ==
    /\ Ends(e) \subseteq Resident(g)
    /\ g' = [g EXCEPT !.edges = @ \cup {e}]
    /\ synced' = (synced /\ g' = g)
    /\ UNCHANGED <<husksDisk, radjDisk, snapshot, truth, ever, faults, checkpoints>>

RemoveNode(i) ==
    /\ g' = [Forgotten(g, i) EXCEPT !.nodes[i] = None,
                                    !.edges = {e \in @ : i \notin Ends(e)}]
    /\ Written({})
    /\ truth' = [truth EXCEPT ![i] = None]
    /\ UNCHANGED <<snapshot, ever, checkpoints>>

PageIn(i) ==
    /\ Faultable(g, i)
    /\ \E F \in Failures :
          /\ \E h \in Paged(Linked(Faulted(g, i), i), {i}) : g' \in Budgeted(h, F)
          /\ Written(F)
    /\ UNCHANGED <<snapshot, truth, ever, checkpoints>>

(* `set_max_resident`                                                      *)
SetMaxResident(cap) ==
    /\ \E F \in Failures :
          g' \in EnforcedPaging([g EXCEPT !.cap = cap], F) /\ Written(F)
    /\ UNCHANGED <<snapshot, truth, ever, checkpoints>>

(* A setter of a budget applies it.                                        *)
SetBudget ==
    /\ \E F \in Failures : g' \in Budgeted(g, F) /\ Written(F)
    /\ UNCHANGED <<snapshot, truth, ever, checkpoints>>

(* `checkpoint`: the indices are not flushed.                              *)
Checkpoint ==
    /\ checkpoints < MaxCheckpoints /\ checkpoints' = checkpoints + 1
    /\ snapshot' = Saved(g, truth, FALSE)
    /\ UNCHANGED <<g, husksDisk, radjDisk, truth, ever, synced, faults>>

(* `checkpoint_to`, with `flush_cold_tier`.                                *)
CheckpointTo ==
    /\ checkpoints < MaxCheckpoints /\ checkpoints' = checkpoints + 1
    /\ husksDisk' = g.husks /\ radjDisk' = g.radj
    /\ snapshot' = Saved(g, truth, TRUE)
    /\ synced' = TRUE
    /\ UNCHANGED <<g, truth, ever, faults>>

(* A new process: the snapshot, and the indices as they are on disk.       *)
Reloaded ==
    [g EXCEPT !.nodes = snapshot.nodes, !.edges = snapshot.edges,
              !.cold = snapshot.cold, !.cap = snapshot.cap,
              !.husks = husksDisk, !.radj = radjDisk]

(* `attach_cold_spill`: the reverse index is filled up, two budgets apply. *)
Attached(h) ==
    [h EXCEPT !.radj = @ \cup UNION {Pairs(i, Others(i, ArchivedLinks(h, i))) : i \in Ids}]

(* The process dies; the next one attaches the same directory.             *)
CrashReopen ==
    /\ synced \/ faults < MaxFaults
    /\ faults' = IF synced THEN faults ELSE faults + 1
    /\ \E S, D \in SUBSET Entries(Reloaded) :
          g' = DeepSpilled(SpilledOut(Attached(Reloaded), S, {}), D, {})
    /\ IndicesWritten(Reloaded)
    /\ truth' = snapshot.truth
    /\ synced' = (synced /\ g' = g)
    /\ UNCHANGED <<snapshot, ever, checkpoints>>

Next ==
    \/ \E i \in Ids :
          \/ \E t \in Texts : UpsertNode(i, t)
          \/ RemoveNode(i) \/ PageIn(i)
    \/ \E e \in Links : AddEdge(e)
    \/ \E cap \in Caps : SetMaxResident(cap)
    \/ SetBudget \/ Checkpoint \/ CheckpointTo \/ CrashReopen

Spec == Init /\ [][Next]_vars
-----------------------------------------------------------------------------
(* Properties                                                              *)

Blobs == ({"content"} \X Contents) \cup ({"body"} \X Bodies)

GraphOK(h) ==
    /\ h.nodes \in [Ids -> Contents \cup {None}]
    /\ h.edges \subseteq Links
    /\ h.cold \in [Ids -> ColdNodes \cup {None}]
    /\ h.cap \in Caps

(* Every variable has its type; the resident graph stays within its cap    *)
(* and no link of it dangles.                                              *)
TypeOK ==
    /\ GraphOK(g) /\ GraphOK(snapshot) /\ snapshot.flushed \in BOOLEAN
    /\ {g.husks, husksDisk} \subseteq [Ids -> Bodies \cup {None}]
    /\ g.radj \cup radjDisk \subseteq Ids \X Ids
    /\ g.blobs \cup g.torn \subseteq Blobs /\ g.blobs \cap g.torn = {}
    /\ truth \in [Ids -> Contents \cup {None}] /\ ever \in [Ids -> SUBSET Texts]
    /\ synced \in BOOLEAN /\ faults \in 0 .. MaxFaults
    /\ Cardinality(Resident(g)) <= g.cap
    /\ \A e \in g.edges : Ends(e) \subseteq Resident(g)

(* What `page_in` and then `node` return.                                  *)
Retrieved(h, i) ==
    IF i \in Husks(h) /\ HuskContent(h, i) # None THEN HuskContent(h, i)
    ELSE IF i \in Husks(h) THEN h.nodes[i]
    ELSE IF i \in Entries(h) THEN EntryContent(h, i)
    ELSE h.nodes[i]

Versions(c) == IF MayCompact /\ c # None THEN {c, Short(c)} ELSE {c}

(* "Lossless round-trip: every live node pages back with its exact [...]   *)
(* content, whatever tier it sank to"; with a content budget, with that    *)
(* content or a summary of it.  A crash right after `checkpoint_to` and    *)
(* clean write failures take nothing away.                                 *)
LosslessRoundTrip ==
    faults = 0 => \A i \in Ids : Retrieved(g, i) \in Versions(truth[i])

(* "No leaked blobs": a blob is on disk exactly while an entry or a husk   *)
(* refers to it.                                                           *)
NoLeakedBlobs == faults = 0 => g.blobs = Referenced(g)

(* A node is in one tier only: `forget_cold_shadow` and `page_in` leave    *)
(* no shadow behind.                                                       *)
OneTier ==
    faults = 0 =>
        \A i \in Ids : Cardinality({T \in {<<"nodes", g.nodes[i]>>, <<"cold", g.cold[i]>>,
                                            <<"husks", g.husks[i]>>} : T[2] # None}) <= 1

(* `cold_neighbours` through the reverse index, and by a scan of the tier. *)
ColdNeighbours(i) == {j \in Cold(g) \ {i} : <<i, j>> \in g.radj}

ScannedNeighbours(i) ==
    {j \in Cold(g) \ {i} : \E k \in Cold(g) : \E e \in ArchivedLinks(g, k) : Ends(e) = {i, j}}

(* "The reverse-adjacency index must agree with a direct scan of the cold  *)
(* tier after any sequence of demote / page-in / remove."                  *)
NeighboursExact ==
    faults = 0 => \A i \in Cold(g) : ColdNeighbours(i) = ScannedNeighbours(i)

(* "Never a silent wrong restore": whatever crashed or was cut short, what *)
(* comes back for a node was once ingested for it.                         *)
RestoresAreGenuine ==
    \A i \in Ids : Retrieved(g, i) # None => Retrieved(g, i).text \in ever[i]

(* Over crashes, torn writes and checkpoints: what comes back is genuine,  *)
(* and after a crash that no work was lost to, all of it comes back.       *)
Recoverable == LosslessRoundTrip /\ RestoresAreGenuine

Known(h) == h.edges \cup UNION {ArchivedLinks(h, i) : i \in Ids}

(* Paging a node in loses no link whose other end is resident.             *)
ResidentLinksSurvive ==
    [][faults = 0 => \A i \in Ids :
          PageIn(i) /\ Others(i, ArchivedLinks(g, i)) \subseteq Resident(g)
             => Known(g) \subseteq Known(g')]_vars

-----------------------------------------------------------------------------
(* Statements of the comments that the code does not keep                  *)

(* memory.rs:1357 "Non-destructive: the node and its links are kept".      *)
LinksSurvive ==
    [][\A i \in Ids : PageIn(i) =>
          \A e \in Known(g) : Ends(e) \subseteq Resident(g) \cup Cold(g) => e \in Known(g')]_vars

(* memory.rs:1668 "This flush makes the cache itself recover to its last   *)
(* checkpoint instead of its last segment flush".                          *)
CheckpointSurvives ==
    [][CrashReopen /\ faults = 0 /\ snapshot.flushed =>
          \A i \in Ids : snapshot.truth[i] # None => Retrieved(g', i) # None]_vars
=============================================================================
