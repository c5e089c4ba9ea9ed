--------------------------- MODULE ColdTierProofs ---------------------------
(***************************************************************************)
(* Theorems about ColdTier, for any nodes, contents, links, caps and       *)
(* bounds: what the tiers hold is what was ingested, each node is in one   *)
(* tier, the blobs on disk are the ones that are referred to, the reverse  *)
(* index of the links is exact, and `page_in` drops no link it could keep. *)
(***************************************************************************)
EXTENDS ColdTier, FiniteSetTheorems, TLAPS

Fields == {"nodes", "edges", "cold", "cap", "husks", "radj", "blobs", "torn"}

Shape(h) ==
    /\ DOMAIN h = Fields /\ h.edges \subseteq Links
    /\ h.nodes \in [Ids -> Contents \cup {None}]
    /\ h.cold \in [Ids -> ColdNodes \cup {None}]
    /\ h.husks \in [Ids -> Bodies \cup {None}]

\* The contents that the tiers hold for a node.
Held(h, i) ==
    {c \in Contents : \/ h.nodes[i] = c
                      \/ h.cold[i] # None /\ h.cold[i].content = c
                      \/ h.husks[i] # None /\ h.husks[i].content = c}

Alone(h, i) ==
    /\ h.nodes[i] # None => h.cold[i] = None /\ h.husks[i] = None
    /\ h.cold[i] # None => h.husks[i] = None

\* Each node in one tier, and the blobs are those that are referred to, but
\* for some of `bs` which are to be released.
Lax(h, bs) ==
    /\ \A i \in Ids : Alone(h, i)
    /\ h.torn = {}
    /\ Referenced(h) \subseteq h.blobs /\ h.blobs \subseteq Referenced(h) \cup bs

Tidy(h) == Lax(h, {})

\* A change that moves contents between tiers, and may shorten them.
Moves(h, k) ==
    /\ Shape(k)
    /\ \A i \in Ids : \A c \in Held(k, i) : \E d \in Held(h, i) : c \in Versions(d)

\* It keeps every node.
Keeps(h, k) == \A i \in Ids : Held(h, i) # {} => Held(k, i) # {}

\* What the tier operations have in common; `ok` when no write failed.
Step(h, k, ok) ==
    Moves(h, k) /\ (ok /\ Tidy(h) => Tidy(k) /\ Keeps(h, k))

-----------------------------------------------------------------------------
\* Contents and their versions.

LEMMA ShortOK ==
  ASSUME NEW c \in Contents
  PROVE  /\ Short(c) \in Contents /\ Short(c).text = c.text /\ Short(Short(c)) = Short(c)
         /\ c \in Versions(c) /\ (MayCompact => Short(c) \in Versions(c))
         /\ Versions(c) \subseteq {c, Short(c)}
<1>1. Short(c) \in Contents /\ Short(c).text = c.text /\ Short(c).short = TRUE
  BY DEF Short, Contents
<1>2. Short(Short(c)) = Short(c)
  BY <1>1 DEF Short, Contents
<1> QED BY <1>1, <1>2, NoneAssumption DEF Versions

LEMMA VersionsTransitive ==
  ASSUME NEW b \in Contents, NEW c \in Versions(b), NEW d \in Versions(c)
  PROVE  d \in Versions(b)
<1>1. MayCompact \in BOOLEAN /\ b # None
  BY ColdTierAssumption, NoneAssumption DEF ColdTierAssumption
<1>2. c \in {b, Short(b)} /\ (~MayCompact => c = b)
  BY <1>1 DEF Versions
<1>3. c \in Contents /\ c # None
  BY <1>2, ShortOK, NoneAssumption
<1>4. d \in {c, Short(c)} /\ (~MayCompact => d = c)
  BY <1>3 DEF Versions
<1>5. d \in {b, Short(b)} /\ (~MayCompact => d = b)
  BY <1>2, <1>4, ShortOK
<1> QED BY <1>1, <1>5 DEF Versions

LEMMA StepTransitive ==
  ASSUME NEW h, NEW k, NEW l, NEW ok, Step(h, k, ok), Step(k, l, ok)
  PROVE  Step(h, l, ok)
<1>1. ASSUME NEW i \in Ids, NEW c \in Held(l, i)
      PROVE  \E d \in Held(h, i) : c \in Versions(d)
  <2>1. PICK d \in Held(k, i) : c \in Versions(d)
    BY <1>1 DEF Step, Moves
  <2>2. PICK b \in Held(h, i) : d \in Versions(b)
    BY <2>1 DEF Step, Moves
  <2> QED BY <2>1, <2>2, VersionsTransitive DEF Held
<1>2. Moves(h, l)
  BY <1>1 DEF Step, Moves
<1> QED BY <1>2 DEF Step, Keeps

LEMMA StepReflexive ==
  ASSUME NEW h, Shape(h), NEW ok PROVE Step(h, h, ok)
<1>1. \A i \in Ids : \A c \in Held(h, i) : c \in Versions(c)
  BY ShortOK DEF Held
<1> QED BY <1>1 DEF Step, Moves, Keeps

-----------------------------------------------------------------------------
\* Blobs.

LEMMA SameTiers ==
  ASSUME NEW h, NEW k, k.nodes = h.nodes, k.cold = h.cold, k.husks = h.husks
  PROVE  /\ Referenced(k) = Referenced(h) /\ \A i \in Ids : Held(k, i) = Held(h, i)
         /\ \A i \in Ids : Alone(k, i) <=> Alone(h, i)
<1>1. Referenced(k) = Referenced(h)
  BY DEF Referenced, Spilled, Entries, Husks, EntryBlob
<1> QED BY <1>1 DEF Held, Alone

\* The blobs that are referred to.
LEMMA ReferencedBlob ==
  ASSUME NEW h, NEW b
  PROVE  b \in Referenced(h) <=>
            \/ \E i \in Ids : /\ h.cold[i] # None /\ h.cold[i].spilled
                              /\ b = ContentBlob(h.cold[i].content)
            \/ \E i \in Ids : h.husks[i] # None /\ b = BodyBlob(h.husks[i])
BY DEF Referenced, Spilled, Entries, Husks, EntryBlob

LEMMA ReleasedIs ==
  ASSUME NEW h, DOMAIN h = Fields, NEW bs, NEW r, r = Released(h, bs)
  PROVE  /\ DOMAIN r = Fields /\ r.nodes = h.nodes /\ r.cold = h.cold
         /\ r.husks = h.husks /\ r.edges = h.edges
         /\ r.blobs = h.blobs \ (bs \ Referenced(h))
         /\ r.torn = h.torn \ (bs \ Referenced(h))
BY DEF Released, Fields

\* A release leaves the tiers as they are, and tidies the blobs up.
LEMMA ReleasedTidy ==
  ASSUME NEW k, Shape(k), NEW bs, NEW r, r = Released(k, bs)
  PROVE  /\ Shape(r) /\ r.nodes = k.nodes /\ r.cold = k.cold /\ r.husks = k.husks
         /\ r.edges = k.edges /\ \A i \in Ids : Held(r, i) = Held(k, i)
         /\ Lax(k, bs) => Tidy(r)
<1>1. /\ DOMAIN r = Fields /\ r.nodes = k.nodes /\ r.cold = k.cold
      /\ r.husks = k.husks /\ r.edges = k.edges
      /\ r.blobs = k.blobs \ (bs \ Referenced(k))
      /\ r.torn = k.torn \ (bs \ Referenced(k))
  BY ReleasedIs DEF Shape
<1>2. /\ Referenced(r) = Referenced(k) /\ \A i \in Ids : Held(r, i) = Held(k, i)
      /\ \A i \in Ids : Alone(r, i) <=> Alone(k, i)
  BY <1>1, SameTiers
<1>3. Shape(r)
  BY <1>1 DEF Shape
<1>4. Lax(k, bs) => Tidy(r)
  BY <1>1, <1>2 DEF Lax, Tidy
<1> QED BY <1>1, <1>2, <1>3, <1>4

\* A release at the end of an operation.
LEMMA ReleaseStep ==
  ASSUME NEW h, NEW k, NEW bs, NEW ok, Moves(h, k),
         ok /\ Tidy(h) => Lax(k, bs) /\ Keeps(h, k)
  PROVE  Step(h, Released(k, bs), ok)
<1> DEFINE r == Released(k, bs)
<1>1. /\ Shape(r) /\ \A i \in Ids : Held(r, i) = Held(k, i)
      /\ Lax(k, bs) => Tidy(r)
  BY ReleasedTidy DEF Moves
<1> HIDE DEF r
<1>2. Moves(h, r) /\ (Keeps(h, k) => Keeps(h, r))
  BY <1>1 DEF Moves, Keeps
<1>3. Step(h, r, ok)
  BY <1>1, <1>2 DEF Step
<1> QED BY <1>3 DEF r

\* When no write fails, every blob that is stored is there, whole.
LEMMA StoredIs ==
  ASSUME NEW h, DOMAIN h = Fields, NEW bs, NEW cut, NEW r, r = Stored(h, bs, cut)
  PROVE  /\ DOMAIN r = Fields /\ r.nodes = h.nodes /\ r.cold = h.cold
         /\ r.husks = h.husks /\ r.edges = h.edges
         /\ h.torn = {} /\ cut = {} => r.torn = {} /\ r.blobs = h.blobs \cup bs
BY DEF Stored, Fields

-----------------------------------------------------------------------------
\* The tier operations.

LEMMA EntryOK ==
  ASSUME NEW c \in Contents, NEW links \in SUBSET Links
  PROVE  /\ Entry(c, links, FALSE) \in ColdNodes /\ Entry(c, links, FALSE) # None
         /\ Entry(c, links, FALSE).content = c /\ ~Entry(c, links, FALSE).spilled
         /\ Entry(c, links, TRUE) \in ColdNodes /\ Entry(c, links, TRUE) # None
         /\ Entry(c, links, TRUE).content = c /\ Entry(c, links, TRUE).spilled
<1>1. ASSUME NEW s \in BOOLEAN
      PROVE  /\ Entry(c, links, s) \in ColdNodes /\ Entry(c, links, s).content = c
             /\ Entry(c, links, s).spilled = s
  BY DEF Entry, ColdNodes
<1>2. /\ Entry(c, links, FALSE) \in ColdNodes /\ Entry(c, links, FALSE).content = c
      /\ Entry(c, links, FALSE).spilled = FALSE
  BY <1>1
<1>3. /\ Entry(c, links, TRUE) \in ColdNodes /\ Entry(c, links, TRUE).content = c
      /\ Entry(c, links, TRUE).spilled = TRUE
  BY <1>1
<1> QED BY <1>2, <1>3, NoneAssumption

LEMMA BodyOK ==
  ASSUME NEW i \in Ids, NEW c \in Contents, NEW links \in SUBSET Links
  PROVE  Body(i, c, links) \in Bodies /\ Body(i, c, links) # None
         /\ Body(i, c, links).content = c
BY NoneAssumption DEF Body, Bodies

\* What an entry, or a husk, holds.
LEMMA ContentRead ==
  ASSUME NEW h, Shape(h), NEW i \in Ids
  PROVE  /\ h.cold[i] # None => /\ h.cold[i] \in ColdNodes
                                /\ h.cold[i].content \in Contents
                                /\ h.cold[i].links \in SUBSET Links
                                /\ h.cold[i].spilled \in BOOLEAN
                                /\ EntryContent(h, i) \in {h.cold[i].content, None}
         /\ h.husks[i] # None => /\ h.husks[i].content \in Contents
                                 /\ h.husks[i].links \in SUBSET Links
                                 /\ HuskContent(h, i) \in {h.husks[i].content, None}
         /\ h.nodes[i] # None => h.nodes[i] \in Contents
BY DEF Shape, ColdNodes, Bodies, EntryContent, HuskContent, Fetched

\* In a tidy graph every content can be read.
LEMMA TidyReads ==
  ASSUME NEW h, Shape(h), Tidy(h), NEW i \in Ids
  PROVE  /\ h.cold[i] # None => EntryContent(h, i) = h.cold[i].content
         /\ h.husks[i] # None => HuskContent(h, i) = h.husks[i].content
<1>1. h.cold[i] # None /\ h.cold[i].spilled => EntryBlob(h, i) \in h.blobs
  BY ReferencedBlob DEF Tidy, Lax, EntryBlob
<1>2. h.husks[i] # None => BodyBlob(h.husks[i]) \in h.blobs
  BY ReferencedBlob DEF Tidy, Lax
<1> QED BY <1>1, <1>2 DEF EntryContent, HuskContent, Fetched

\* What a node holds, from its three tiers.
LEMMA HeldIs ==
  ASSUME NEW h, Shape(h), NEW i \in Ids
  PROVE  /\ \A c : c \in Held(h, i) <=>
                     \/ h.nodes[i] # None /\ h.nodes[i] = c
                     \/ h.cold[i] # None /\ h.cold[i].content = c
                     \/ h.husks[i] # None /\ h.husks[i].content = c
         /\ Held(h, i) # {} <=> \/ h.nodes[i] # None \/ h.cold[i] # None
                                \/ h.husks[i] # None
BY ContentRead, NoneAssumption DEF Held

LEMMA DemotedStep ==
  ASSUME NEW h, Shape(h), NEW V \in SUBSET Resident(h), NEW order, NEW ok
  PROVE  Step(h, Demoted(h, V, order), ok)
<1> DEFINE k == Demoted(h, V, order)
<1>1. /\ DOMAIN k = Fields /\ k.edges = {e \in h.edges : Ends(e) \cap V = {}}
      /\ k.nodes = [i \in Ids |-> IF i \in V THEN None ELSE h.nodes[i]]
      /\ k.cold = [i \in Ids |-> IF i \in V THEN Entry(h.nodes[i], Taken(h, V, order, i), FALSE)
                                 ELSE h.cold[i]]
      /\ k.husks = h.husks /\ k.blobs = h.blobs /\ k.torn = h.torn
  BY DEF Demoted, Shape, Fields
<1> HIDE DEF k
<1>2. \A i \in Ids : Taken(h, V, order, i) \in SUBSET Links
  BY DEF Taken, Shape
<1>3. ASSUME NEW i \in V
      PROVE  /\ i \in Ids /\ h.nodes[i] # None /\ h.nodes[i] \in Contents
             /\ k.nodes[i] = None /\ k.cold[i] \in ColdNodes /\ k.cold[i] # None
             /\ k.cold[i].content = h.nodes[i] /\ ~k.cold[i].spilled
  <2>1. i \in Ids /\ h.nodes[i] # None /\ h.nodes[i] \in Contents
    BY ContentRead DEF Resident
  <2>2. k.nodes[i] = None /\ k.cold[i] = Entry(h.nodes[i], Taken(h, V, order, i), FALSE)
    BY <2>1, <1>1
  <2>3. Taken(h, V, order, i) \in SUBSET Links
    BY <2>1, <1>2
  <2>4. /\ k.cold[i] \in ColdNodes /\ k.cold[i] # None
        /\ k.cold[i].content = h.nodes[i] /\ ~k.cold[i].spilled
    <3> DEFINE c == h.nodes[i]  links == Taken(h, V, order, i)
    <3>1. c \in Contents /\ links \in SUBSET Links /\ k.cold[i] = Entry(c, links, FALSE)
      BY <2>1, <2>2, <2>3
    <3> HIDE DEF c, links
    <3>2. /\ k.cold[i] \in ColdNodes /\ k.cold[i] # None
          /\ k.cold[i].content = c /\ ~k.cold[i].spilled
      BY ONLY <3>1, EntryOK
    <3> QED BY <3>2 DEF c
  <2> QED BY <2>1, <2>2, <2>4
<1>4. \A i \in Ids \ V : k.nodes[i] = h.nodes[i] /\ k.cold[i] = h.cold[i]
  BY <1>1
<1>5. Shape(k)
  <2>1. k.edges \subseteq Links /\ k.husks \in [Ids -> Bodies \cup {None}]
    BY <1>1 DEF Shape
  <2>2. \A i \in Ids : k.nodes[i] \in Contents \cup {None} /\ k.cold[i] \in ColdNodes \cup {None}
    BY <1>3, <1>4 DEF Shape
  <2> QED BY <1>1, <2>1, <2>2 DEF Shape
<1>6. Moves(h, k)
  <2>1. ASSUME NEW i \in Ids, NEW c \in Held(k, i) PROVE c \in Held(h, i)
    <3>1. \/ k.nodes[i] # None /\ k.nodes[i] = c
          \/ k.cold[i] # None /\ k.cold[i].content = c
          \/ k.husks[i] # None /\ k.husks[i].content = c
      BY <2>1, <1>5, HeldIs
    <3>2. \/ h.nodes[i] # None /\ h.nodes[i] = c
          \/ h.cold[i] # None /\ h.cold[i].content = c
          \/ h.husks[i] # None /\ h.husks[i].content = c
      BY <3>1, <2>1, <1>1, <1>3, <1>4
    <3> QED BY <3>2, <2>1, HeldIs
  <2> QED BY <2>1, <1>5, ShortOK DEF Moves, Held
<1>7. Keeps(h, k)
  <2>1. ASSUME NEW i \in Ids, Held(h, i) # {} PROVE Held(k, i) # {}
    <3>1. h.nodes[i] # None \/ h.cold[i] # None \/ h.husks[i] # None
      BY <2>1, HeldIs
    <3>2. k.nodes[i] # None \/ k.cold[i] # None \/ k.husks[i] # None
      BY <3>1, <2>1, <1>1, <1>3, <1>4
    <3> QED BY <3>2, <2>1, <1>5, HeldIs
  <2> QED BY <2>1 DEF Keeps
<1>8. ASSUME Tidy(h) PROVE Tidy(k)
  <2>1. \A i \in V : h.cold[i] = None /\ h.husks[i] = None
    BY <1>8, <1>3 DEF Tidy, Lax, Alone
  <2>2. \A i \in Ids : k.cold[i] # None /\ k.cold[i].spilled
                         <=> h.cold[i] # None /\ h.cold[i].spilled
    BY <2>1, <1>3, <1>4
  <2>3. ASSUME NEW b PROVE b \in Referenced(k) <=> b \in Referenced(h)
    <3>1. \A i \in Ids : k.cold[i] # None /\ k.cold[i].spilled => k.cold[i] = h.cold[i]
      BY <1>3, <1>4
    <3>2. (\E i \in Ids : /\ k.cold[i] # None /\ k.cold[i].spilled
                          /\ b = ContentBlob(k.cold[i].content))
          <=> (\E i \in Ids : /\ h.cold[i] # None /\ h.cold[i].spilled
                               /\ b = ContentBlob(h.cold[i].content))
      BY <3>1, <2>2
    <3>3. b \in Referenced(k) <=>
            \/ \E i \in Ids : /\ k.cold[i] # None /\ k.cold[i].spilled
                              /\ b = ContentBlob(k.cold[i].content)
            \/ \E i \in Ids : h.husks[i] # None /\ b = BodyBlob(h.husks[i])
      <4>1. k.husks = h.husks
        BY <1>1
      <4> QED BY <4>1, ReferencedBlob
    <3>4. b \in Referenced(h) <=>
            \/ \E i \in Ids : /\ h.cold[i] # None /\ h.cold[i].spilled
                              /\ b = ContentBlob(h.cold[i].content)
            \/ \E i \in Ids : h.husks[i] # None /\ b = BodyBlob(h.husks[i])
      BY ReferencedBlob, Zenon
    <3> QED BY <3>2, <3>3, <3>4
  <2>4. \A i \in Ids : Alone(k, i)
    BY <2>1, <1>8, <1>1, <1>3, <1>4 DEF Alone, Tidy, Lax
  <2>5. Referenced(k) = Referenced(h)
    BY <2>3
  <2> QED BY <2>4, <2>5, <1>8, <1>1 DEF Tidy, Lax
<1>9. Step(h, k, ok)
  BY <1>6, <1>7, <1>8 DEF Step
<1> QED BY <1>9 DEF k

LEMMA CompactedStep ==
  ASSUME NEW h, Shape(h), NEW C, NEW ok, MayCompact
  PROVE  Step(h, Compacted(h, C), ok)
<1> DEFINE ids == {i \in C \cap Entries(h) :
                     ~h.cold[i].content.short /\ EntryContent(h, i) # None}
           k == [h EXCEPT !.cold =
                    [i \in Ids |->
                        IF i \in ids
                        THEN Entry(Short(EntryContent(h, i)), h.cold[i].links, FALSE)
                        ELSE h.cold[i]]]
           bs == {EntryBlob(h, i) : i \in ids \cap Spilled(h)}
<1>1. /\ DOMAIN k = Fields /\ k.edges = h.edges /\ k.nodes = h.nodes
      /\ k.cold = [i \in Ids |-> IF i \in ids
                        THEN Entry(Short(EntryContent(h, i)), h.cold[i].links, FALSE)
                        ELSE h.cold[i]]
      /\ k.husks = h.husks /\ k.blobs = h.blobs /\ k.torn = h.torn
  BY DEF Shape, Fields
<1>2. ids \subseteq Ids
      /\ \A i \in ids : h.cold[i] # None /\ EntryContent(h, i) # None
  BY DEF Entries
<1>3. \A b : b \in bs <=> \E i \in ids : /\ h.cold[i] # None /\ h.cold[i].spilled
                                         /\ b = ContentBlob(h.cold[i].content)
  BY <1>2 DEF Spilled, Entries, EntryBlob
<1>4. Compacted(h, C) = Released(k, bs)
  BY DEF Compacted
<1> HIDE DEF ids, k, bs
<1>5. ASSUME NEW i \in ids
      PROVE  /\ i \in Ids /\ h.cold[i].content \in Contents
             /\ k.cold[i] \in ColdNodes /\ k.cold[i] # None /\ ~k.cold[i].spilled
             /\ k.cold[i].content = Short(h.cold[i].content)
  <2> DEFINE c == Short(h.cold[i].content)  links == h.cold[i].links
  <2>1. /\ i \in Ids /\ h.cold[i].content \in Contents
        /\ EntryContent(h, i) = h.cold[i].content /\ links \in SUBSET Links
    BY <1>2, ContentRead
  <2>2. c \in Contents
    BY <2>1, ShortOK
  <2>3. c \in Contents /\ links \in SUBSET Links /\ k.cold[i] = Entry(c, links, FALSE)
    BY <1>1, <2>1, <2>2
  <2> HIDE DEF c, links
  <2>4. /\ k.cold[i] \in ColdNodes /\ k.cold[i] # None /\ ~k.cold[i].spilled
        /\ k.cold[i].content = c
    BY <2>3, EntryOK
  <2> QED BY <2>1, <2>4 DEF c
<1>6. \A i \in Ids \ ids : k.cold[i] = h.cold[i]
  BY <1>1
<1>7. Shape(k)
  <2>1. \A i \in Ids : k.cold[i] \in ColdNodes \cup {None}
    BY <1>5, <1>6 DEF Shape
  <2> QED BY <1>1, <2>1 DEF Shape
<1>8. Moves(h, k)
  <2>1. ASSUME NEW i \in Ids, NEW c \in Held(k, i)
        PROVE  \E d \in Held(h, i) : c \in Versions(d)
    <3>1. \/ k.nodes[i] # None /\ k.nodes[i] = c
          \/ k.cold[i] # None /\ k.cold[i].content = c
          \/ k.husks[i] # None /\ k.husks[i].content = c
      BY <2>1, <1>7, HeldIs
    <3>2. CASE i \in ids /\ c = Short(h.cold[i].content)
      <4>1. h.cold[i].content \in Held(h, i) /\ h.cold[i].content \in Contents
        BY <3>2, <1>2, <1>5, HeldIs
      <4> QED BY <4>1, <3>2, ShortOK
    <3>3. CASE ~(i \in ids /\ c = Short(h.cold[i].content))
      <4>1. \/ h.nodes[i] # None /\ h.nodes[i] = c
            \/ h.cold[i] # None /\ h.cold[i].content = c
            \/ h.husks[i] # None /\ h.husks[i].content = c
        BY <3>1, <3>3, <1>1, <1>5, <1>6
      <4>2. c \in Held(h, i) /\ c \in Contents
        BY <4>1, HeldIs DEF Held
      <4> QED BY <4>2, ShortOK
    <3> QED BY <3>2, <3>3
  <2> QED BY <2>1, <1>7 DEF Moves
<1>9. ASSUME Tidy(h) PROVE Lax(k, bs) /\ Keeps(h, k)
  <2>1. \A i \in Ids : k.cold[i] # None <=> h.cold[i] # None
    BY <1>2, <1>5, <1>6
  <2>2. Keeps(h, k)
    <3>1. ASSUME NEW i \in Ids, Held(h, i) # {} PROVE Held(k, i) # {}
      <4>1. h.nodes[i] # None \/ h.cold[i] # None \/ h.husks[i] # None
        BY <3>1, HeldIs
      <4>2. k.nodes[i] # None \/ k.cold[i] # None \/ k.husks[i] # None
        BY <4>1, <2>1, <1>1
      <4> QED BY <4>2, <3>1, <1>7, HeldIs
    <3> QED BY <3>1 DEF Keeps
  <2>3. \A i \in Ids : Alone(k, i)
    BY <2>1, <1>9, <1>1 DEF Alone, Tidy, Lax
  <2>4. ASSUME NEW b PROVE /\ b \in Referenced(k) => b \in Referenced(h)
                           /\ b \in Referenced(h) => b \in Referenced(k) \/ b \in bs
    <3>1. b \in Referenced(k) <=>
            \/ \E i \in Ids : /\ k.cold[i] # None /\ k.cold[i].spilled
                              /\ b = ContentBlob(k.cold[i].content)
            \/ \E i \in Ids : h.husks[i] # None /\ b = BodyBlob(h.husks[i])
      <4>1. k.husks = h.husks
        BY <1>1
      <4> QED BY <4>1, ReferencedBlob
    <3>2. b \in Referenced(h) <=>
            \/ \E i \in Ids : /\ h.cold[i] # None /\ h.cold[i].spilled
                              /\ b = ContentBlob(h.cold[i].content)
            \/ \E i \in Ids : h.husks[i] # None /\ b = BodyBlob(h.husks[i])
      BY ReferencedBlob, Zenon
    <3>3. ASSUME NEW i \in Ids, k.cold[i] # None, k.cold[i].spilled PROVE k.cold[i] = h.cold[i]
      BY <3>3, <1>5, <1>6
    <3>4. ASSUME NEW i \in Ids, h.cold[i] # None, h.cold[i].spilled,
                 b = ContentBlob(h.cold[i].content), b \notin bs
          PROVE  k.cold[i] = h.cold[i]
      BY <3>4, <1>3, <1>6
    <3> QED BY <3>1, <3>2, <3>3, <3>4
  <2>5. h.torn = {} /\ h.blobs = Referenced(h)
    BY <1>9 DEF Tidy, Lax
  <2>6. Referenced(k) \subseteq k.blobs /\ k.blobs \subseteq Referenced(k) \cup bs
    BY <2>4, <2>5, <1>1
  <2> QED BY <2>2, <2>3, <2>5, <2>6, <1>1 DEF Lax
<1> QED BY <1>4, <1>8, <1>9, ReleaseStep

LEMMA SpilledOutStep ==
  ASSUME NEW h, Shape(h), NEW S, NEW F
  PROVE  Step(h, SpilledOut(h, S, F), F = {})
<1> DEFINE inline == Entries(h) \ Spilled(h)
           ids == (S \ F) \cap inline
           new == {EntryBlob(h, i) : i \in ids}
           cut == {EntryBlob(h, i) : i \in F \cap inline}
           st == Stored(h, new, cut)
           k == [st EXCEPT !.cold = [i \in Ids |->
                            IF i \in (S \ F) \cap inline
                            THEN Entry(h.cold[i].content, h.cold[i].links, TRUE)
                            ELSE h.cold[i]]]
<1>0. SpilledOut(h, S, F) = k
  BY DEF SpilledOut
<1>1. /\ DOMAIN st = Fields /\ st.nodes = h.nodes /\ st.cold = h.cold
      /\ st.husks = h.husks /\ st.edges = h.edges
      /\ h.torn = {} /\ cut = {} => st.torn = {} /\ st.blobs = h.blobs \cup new
  <2> HIDE DEF st, new, cut
  <2>1. DOMAIN h = Fields /\ st = Stored(h, new, cut)
    BY DEF Shape, st
  <2> QED BY <2>1, StoredIs
<1>2. F = {} => cut = {}
  OBVIOUS
<1>3. ids \subseteq Ids /\ \A i \in ids : h.cold[i] # None /\ ~h.cold[i].spilled
  BY DEF Entries, Spilled
<1>4. \A b : b \in new <=> \E i \in ids : b = ContentBlob(h.cold[i].content)
  BY DEF EntryBlob
<1> HIDE DEF st, new, cut
<1>5. /\ DOMAIN k = Fields /\ k.edges = h.edges /\ k.nodes = h.nodes
      /\ k.cold = [i \in Ids |-> IF i \in ids
                        THEN Entry(h.cold[i].content, h.cold[i].links, TRUE)
                        ELSE h.cold[i]]
      /\ k.husks = h.husks /\ k.blobs = st.blobs /\ k.torn = st.torn
  BY <1>1 DEF Fields
<1> HIDE DEF inline, ids, k
<1>6. ASSUME NEW i \in ids
      PROVE  /\ i \in Ids /\ k.cold[i] \in ColdNodes /\ k.cold[i] # None
             /\ k.cold[i].spilled /\ k.cold[i].content = h.cold[i].content
  <2> DEFINE c == h.cold[i].content  links == h.cold[i].links
  <2>1. i \in Ids /\ c \in Contents /\ links \in SUBSET Links /\ k.cold[i] = Entry(c, links, TRUE)
    BY <1>3, <1>5, ContentRead
  <2> HIDE DEF c, links
  <2>2. /\ k.cold[i] \in ColdNodes /\ k.cold[i] # None
        /\ k.cold[i].spilled /\ k.cold[i].content = c
    BY <2>1, EntryOK
  <2> QED BY <2>1, <2>2 DEF c
<1>7. \A i \in Ids \ ids : k.cold[i] = h.cold[i]
  BY <1>5
<1>8. Shape(k)
  <2>1. \A i \in Ids : k.cold[i] \in ColdNodes \cup {None}
    BY <1>6, <1>7 DEF Shape
  <2> QED BY <1>5, <2>1 DEF Shape
<1>9. \A i \in Ids : /\ k.cold[i] # None <=> h.cold[i] # None
                     /\ h.cold[i] # None => k.cold[i].content = h.cold[i].content
  BY <1>3, <1>6, <1>7
<1>10. ASSUME NEW i \in Ids PROVE Held(k, i) = Held(h, i)
  <2>1. k.nodes[i] = h.nodes[i] /\ k.husks[i] = h.husks[i]
    BY <1>5
  <2> QED BY <2>1, <1>9 DEF Held
<1>11. Moves(h, k) /\ Keeps(h, k)
  <2>1. \A i \in Ids : \A c \in Held(h, i) : c \in Versions(c)
    BY ShortOK DEF Held
  <2> QED BY <1>8, <1>10, <2>1 DEF Moves, Keeps
<1>12. ASSUME F = {}, Tidy(h) PROVE Tidy(k)
  <2>1. \A i \in Ids : Alone(k, i)
    BY <1>9, <1>5, <1>12 DEF Alone, Tidy, Lax
  <2>2. k.torn = {} /\ k.blobs = Referenced(h) \cup new
    BY <1>1, <1>2, <1>5, <1>12 DEF Tidy, Lax
  <2>3. ASSUME NEW b PROVE b \in Referenced(k) <=> b \in Referenced(h) \/ b \in new
    <3>1. b \in Referenced(k) <=>
            \/ \E i \in Ids : /\ k.cold[i] # None /\ k.cold[i].spilled
                              /\ b = ContentBlob(k.cold[i].content)
            \/ \E i \in Ids : h.husks[i] # None /\ b = BodyBlob(h.husks[i])
      <4>1. k.husks = h.husks
        BY <1>5
      <4> QED BY <4>1, ReferencedBlob
    <3>2. b \in Referenced(h) <=>
            \/ \E i \in Ids : /\ h.cold[i] # None /\ h.cold[i].spilled
                              /\ b = ContentBlob(h.cold[i].content)
            \/ \E i \in Ids : h.husks[i] # None /\ b = BodyBlob(h.husks[i])
      BY ReferencedBlob, Zenon
    <3>3. ASSUME NEW i \in Ids, k.cold[i] # None, k.cold[i].spilled,
                 b = ContentBlob(k.cold[i].content)
          PROVE  \/ h.cold[i] # None /\ h.cold[i].spilled /\ b = ContentBlob(h.cold[i].content)
                 \/ b \in new
      BY <3>3, <1>4, <1>6, <1>7
    <3>4. ASSUME NEW i \in Ids, h.cold[i] # None, h.cold[i].spilled
          PROVE  k.cold[i] = h.cold[i]
      BY <3>4, <1>3, <1>7
    <3>5. b \in new => \E i \in Ids : /\ k.cold[i] # None /\ k.cold[i].spilled
                                      /\ b = ContentBlob(k.cold[i].content)
      BY <1>4, <1>6
    <3> QED BY <3>1, <3>2, <3>3, <3>4, <3>5
  <2>4. Referenced(k) = Referenced(h) \cup new
    BY <2>3
  <2> QED BY <2>1, <2>2, <2>4 DEF Tidy, Lax
<1>13. Step(h, k, F = {})
  BY <1>11, <1>12 DEF Step
<1> QED BY <1>0, <1>13

LEMMA DeepSpilledStep ==
  ASSUME NEW h, Shape(h), NEW D, NEW F
  PROVE  Step(h, DeepSpilled(h, D, F), F = {})
<1> DEFINE body(i) == Body(i, EntryContent(h, i), h.cold[i].links)
           readable == {i \in Entries(h) : EntryContent(h, i) # None}
           ids == (D \ F) \cap readable
           new == {BodyBlob(body(i)) : i \in ids}
           cut == {BodyBlob(body(i)) : i \in D \cap F \cap readable}
           st == Stored(h, new, cut)
           k == [st EXCEPT !.cold = [i \in Ids |-> IF i \in ids THEN None ELSE h.cold[i]],
                           !.husks = [i \in Ids |-> IF i \in ids THEN body(i) ELSE h.husks[i]]]
           bs == {EntryBlob(h, i) : i \in ids \cap Spilled(h)}
<1>0. DeepSpilled(h, D, F) = Released(k, bs)
  BY DEF DeepSpilled
<1>1. /\ DOMAIN st = Fields /\ st.nodes = h.nodes /\ st.cold = h.cold
      /\ st.husks = h.husks /\ st.edges = h.edges
      /\ h.torn = {} /\ cut = {} => st.torn = {} /\ st.blobs = h.blobs \cup new
  <2> HIDE DEF st, new, cut
  <2>1. DOMAIN h = Fields /\ st = Stored(h, new, cut)
    BY DEF Shape, st
  <2> QED BY <2>1, StoredIs
<1>2. F = {} => cut = {}
  OBVIOUS
<1>3. ids \subseteq Ids /\ \A i \in ids : h.cold[i] # None /\ EntryContent(h, i) # None
  BY DEF Entries
<1>4. /\ \A b : b \in new <=> \E i \in ids : b = BodyBlob(body(i))
      /\ \A b : b \in bs <=> \E i \in ids : /\ h.cold[i] # None /\ h.cold[i].spilled
                                            /\ b = ContentBlob(h.cold[i].content)
  BY <1>3 DEF EntryBlob, Spilled, Entries
<1> HIDE DEF st, new, cut, bs
<1>5. /\ DOMAIN k = Fields /\ k.edges = h.edges /\ k.nodes = h.nodes
      /\ k.cold = [i \in Ids |-> IF i \in ids THEN None ELSE h.cold[i]]
      /\ k.husks = [i \in Ids |-> IF i \in ids THEN body(i) ELSE h.husks[i]]
      /\ k.blobs = st.blobs /\ k.torn = st.torn
  BY <1>1 DEF Fields
<1> HIDE DEF readable, ids, k
<1>6. ASSUME NEW i \in ids
      PROVE  /\ i \in Ids /\ k.cold[i] = None /\ k.husks[i] = body(i)
             /\ k.husks[i] \in Bodies /\ k.husks[i] # None
             /\ k.husks[i].content = h.cold[i].content
  <2> DEFINE c == h.cold[i].content  links == h.cold[i].links
  <2>1. /\ i \in Ids /\ c \in Contents /\ links \in SUBSET Links
        /\ k.husks[i] = Body(i, c, links) /\ body(i) = Body(i, c, links) /\ k.cold[i] = None
    BY <1>3, <1>5, ContentRead
  <2> HIDE DEF c, links, body
  <2>2. k.husks[i] \in Bodies /\ k.husks[i] # None /\ k.husks[i].content = c
    BY <2>1, BodyOK
  <2> QED BY <2>1, <2>2 DEF c
<1> HIDE DEF body
<1>7. \A i \in Ids \ ids : k.cold[i] = h.cold[i] /\ k.husks[i] = h.husks[i]
  BY <1>5
<1>8. Shape(k)
  <2>1. \A i \in Ids : /\ k.cold[i] \in ColdNodes \cup {None}
                       /\ k.husks[i] \in Bodies \cup {None}
    BY <1>6, <1>7 DEF Shape
  <2> QED BY <1>5, <2>1 DEF Shape
<1>9. Moves(h, k)
  <2>1. ASSUME NEW i \in Ids, NEW c \in Held(k, i) PROVE c \in Held(h, i)
    <3>1. \/ k.nodes[i] # None /\ k.nodes[i] = c
          \/ k.cold[i] # None /\ k.cold[i].content = c
          \/ k.husks[i] # None /\ k.husks[i].content = c
      BY <2>1, <1>8, HeldIs
    <3>2. \/ h.nodes[i] # None /\ h.nodes[i] = c
          \/ h.cold[i] # None /\ h.cold[i].content = c
          \/ h.husks[i] # None /\ h.husks[i].content = c
      BY <3>1, <2>1, <1>3, <1>5, <1>6, <1>7
    <3> QED BY <3>2, <2>1, HeldIs
  <2> QED BY <2>1, <1>8, ShortOK DEF Moves, Held
<1>10. Keeps(h, k)
  <2>1. ASSUME NEW i \in Ids, Held(h, i) # {} PROVE Held(k, i) # {}
    <3>1. h.nodes[i] # None \/ h.cold[i] # None \/ h.husks[i] # None
      BY <2>1, HeldIs
    <3>2. k.nodes[i] # None \/ k.cold[i] # None \/ k.husks[i] # None
      BY <3>1, <2>1, <1>5, <1>6, <1>7
    <3> QED BY <3>2, <2>1, <1>8, HeldIs
  <2> QED BY <2>1 DEF Keeps
<1>11. ASSUME F = {}, Tidy(h) PROVE Lax(k, bs)
  <2>1. \A i \in ids : h.husks[i] = None /\ h.nodes[i] = None
    BY <1>3, <1>11 DEF Alone, Tidy, Lax
  <2>2. \A i \in Ids : Alone(k, i)
    BY <2>1, <1>5, <1>6, <1>7, <1>11 DEF Alone, Tidy, Lax
  <2>3. k.torn = {} /\ k.blobs = Referenced(h) \cup new
    BY <1>1, <1>2, <1>5, <1>11 DEF Tidy, Lax
  <2>4. ASSUME NEW b PROVE /\ b \in Referenced(k) => b \in Referenced(h) \/ b \in new
                           /\ b \in Referenced(h) => b \in Referenced(k) \/ b \in bs
                           /\ b \in new => b \in Referenced(k)
    <3>1. b \in Referenced(k) <=>
            \/ \E i \in Ids : /\ k.cold[i] # None /\ k.cold[i].spilled
                              /\ b = ContentBlob(k.cold[i].content)
            \/ \E i \in Ids : k.husks[i] # None /\ b = BodyBlob(k.husks[i])
      BY ReferencedBlob, Zenon
    <3>2. b \in Referenced(h) <=>
            \/ \E i \in Ids : /\ h.cold[i] # None /\ h.cold[i].spilled
                              /\ b = ContentBlob(h.cold[i].content)
            \/ \E i \in Ids : h.husks[i] # None /\ b = BodyBlob(h.husks[i])
      BY ReferencedBlob, Zenon
    <3>3. ASSUME NEW i \in Ids, k.cold[i] # None PROVE k.cold[i] = h.cold[i]
      BY <3>3, <1>6, <1>7
    <3>4. ASSUME NEW i \in Ids, h.cold[i] # None, h.cold[i].spilled,
                 b = ContentBlob(h.cold[i].content), b \notin bs
          PROVE  k.cold[i] = h.cold[i]
      BY <3>4, <1>4, <1>7
    <3>5. ASSUME NEW i \in Ids, k.husks[i] # None, b = BodyBlob(k.husks[i])
          PROVE  b \in new \/ (h.husks[i] # None /\ b = BodyBlob(h.husks[i]))
      BY <3>5, <1>4, <1>6, <1>7
    <3>6. ASSUME NEW i \in Ids, h.husks[i] # None PROVE k.husks[i] = h.husks[i]
      BY <3>6, <2>1, <1>7
    <3>7. b \in new => \E i \in Ids : k.husks[i] # None /\ b = BodyBlob(k.husks[i])
      BY <1>4, <1>6
    <3> QED BY <3>1, <3>2, <3>3, <3>4, <3>5, <3>6, <3>7
  <2>5. Referenced(k) \subseteq k.blobs /\ k.blobs \subseteq Referenced(k) \cup bs
    BY <2>3, <2>4
  <2> QED BY <2>2, <2>3, <2>5 DEF Lax
<1> DEFINE ok == F = {}
<1>12. ok /\ Tidy(h) => Lax(k, bs) /\ Keeps(h, k)
  BY <1>10, <1>11
<1> HIDE DEF ok
<1>13. Step(h, Released(k, bs), ok)
  BY <1>9, <1>12, ReleaseStep
<1> QED BY <1>0, <1>13 DEF ok

\* The node's entry comes back into RAM.
LEMMA HuskRestoredStep ==
  ASSUME NEW h, Shape(h), NEW i \in Husks(h), HuskContent(h, i) # None, NEW ok,
         NEW r, r = HuskRestored(h, i)
  PROVE  Step(h, r, ok) /\ r.cold[i] # None /\ ~r.cold[i].spilled
<1> DEFINE c == h.husks[i].content  links == h.husks[i].links
           k == [h EXCEPT !.husks[i] = None,
                          !.cold[i] = Entry(HuskContent(h, i), h.husks[i].links, FALSE)]
           bs == {BodyBlob(h.husks[i])}
<1>0. r = Released(k, bs)
  BY DEF HuskRestored
<1>1. /\ i \in Ids /\ h.husks[i] # None /\ HuskContent(h, i) = c
      /\ c \in Contents /\ links \in SUBSET Links
  BY ContentRead DEF Husks
<1>2. /\ DOMAIN k = Fields /\ k.edges = h.edges /\ k.nodes = h.nodes
      /\ k.husks = [h.husks EXCEPT ![i] = None]
      /\ k.cold = [h.cold EXCEPT ![i] = Entry(c, links, FALSE)]
      /\ k.blobs = h.blobs /\ k.torn = h.torn
  BY <1>1 DEF Shape, Fields
<1> HIDE DEF k, c, links
<1>3. /\ k.cold[i] \in ColdNodes /\ k.cold[i] # None /\ ~k.cold[i].spilled
      /\ k.cold[i].content = c /\ k.husks[i] = None
      /\ \A j \in Ids : j # i => k.cold[j] = h.cold[j] /\ k.husks[j] = h.husks[j]
  <2>1. k.cold[i] = Entry(c, links, FALSE) /\ k.husks[i] = None
        /\ \A j \in Ids : j # i => k.cold[j] = h.cold[j] /\ k.husks[j] = h.husks[j]
    BY <1>1, <1>2 DEF Shape
  <2>2. c \in Contents /\ links \in SUBSET Links /\ k.cold[i] = Entry(c, links, FALSE)
    BY <2>1, <1>1
  <2>3. /\ k.cold[i] \in ColdNodes /\ k.cold[i] # None /\ ~k.cold[i].spilled
        /\ k.cold[i].content = c
    BY ONLY <2>2, EntryOK
  <2> QED BY <2>1, <2>3
<1>4. Shape(k)
  <2>1. \A j \in Ids : /\ k.cold[j] \in ColdNodes \cup {None}
                       /\ k.husks[j] \in Bodies \cup {None}
    BY <1>3 DEF Shape
  <2> QED BY <1>2, <2>1 DEF Shape
<1>5. Moves(h, k)
  <2>1. ASSUME NEW j \in Ids, NEW d \in Held(k, j) PROVE d \in Held(h, j)
    <3>1. \/ k.nodes[j] # None /\ k.nodes[j] = d
          \/ k.cold[j] # None /\ k.cold[j].content = d
          \/ k.husks[j] # None /\ k.husks[j].content = d
      BY <2>1, <1>4, HeldIs
    <3>2. \/ h.nodes[j] # None /\ h.nodes[j] = d
          \/ h.cold[j] # None /\ h.cold[j].content = d
          \/ h.husks[j] # None /\ h.husks[j].content = d
      BY <3>1, <1>1, <1>2, <1>3 DEF c
    <3> QED BY <3>2, <2>1, HeldIs
  <2> QED BY <2>1, <1>4, ShortOK DEF Moves, Held
<1>6. Keeps(h, k)
  <2>1. ASSUME NEW j \in Ids, Held(h, j) # {} PROVE Held(k, j) # {}
    <3>1. h.nodes[j] # None \/ h.cold[j] # None \/ h.husks[j] # None
      BY <2>1, HeldIs
    <3>2. k.nodes[j] # None \/ k.cold[j] # None \/ k.husks[j] # None
      BY <3>1, <1>2, <1>3
    <3> QED BY <3>2, <2>1, <1>4, HeldIs
  <2> QED BY <2>1 DEF Keeps
<1>7. ASSUME Tidy(h) PROVE Lax(k, bs)
  <2>1. h.cold[i] = None /\ h.nodes[i] = None
    BY <1>1, <1>7 DEF Alone, Tidy, Lax
  <2>2. \A j \in Ids : Alone(k, j)
    BY <2>1, <1>2, <1>3, <1>7 DEF Alone, Tidy, Lax
  <2>3. ASSUME NEW b PROVE /\ b \in Referenced(k) => b \in Referenced(h)
                           /\ b \in Referenced(h) => b \in Referenced(k) \/ b \in bs
    <3>1. b \in Referenced(k) <=>
            \/ \E j \in Ids : /\ k.cold[j] # None /\ k.cold[j].spilled
                              /\ b = ContentBlob(k.cold[j].content)
            \/ \E j \in Ids : k.husks[j] # None /\ b = BodyBlob(k.husks[j])
      BY ReferencedBlob, Zenon
    <3>2. b \in Referenced(h) <=>
            \/ \E j \in Ids : /\ h.cold[j] # None /\ h.cold[j].spilled
                              /\ b = ContentBlob(h.cold[j].content)
            \/ \E j \in Ids : h.husks[j] # None /\ b = BodyBlob(h.husks[j])
      BY ReferencedBlob, Zenon
    <3>3. ASSUME NEW j \in Ids, k.cold[j] # None, k.cold[j].spilled PROVE k.cold[j] = h.cold[j]
      BY <3>3, <1>3
    <3>4. ASSUME NEW j \in Ids, h.cold[j] # None PROVE k.cold[j] = h.cold[j]
      BY <3>4, <1>3, <2>1
    <3>5. ASSUME NEW j \in Ids, k.husks[j] # None PROVE k.husks[j] = h.husks[j]
      BY <3>5, <1>3
    <3>6. ASSUME NEW j \in Ids, h.husks[j] # None, b = BodyBlob(h.husks[j]), b \notin bs
          PROVE  k.husks[j] = h.husks[j]
      BY <3>6, <1>3
    <3> QED BY <3>1, <3>2, <3>3, <3>4, <3>5, <3>6
  <2>4. h.torn = {} /\ h.blobs = Referenced(h)
    BY <1>7 DEF Tidy, Lax
  <2>5. Referenced(k) \subseteq k.blobs /\ k.blobs \subseteq Referenced(k) \cup bs
    BY <2>3, <2>4, <1>2
  <2> QED BY <2>2, <2>4, <2>5, <1>2 DEF Lax
<1> HIDE DEF bs
<1>8. Step(h, Released(k, bs), ok)
  BY <1>5, <1>6, <1>7, ReleaseStep
<1>9. r.cold = k.cold
  BY <1>0, <1>4, ReleasedTidy
<1> QED BY <1>0, <1>3, <1>8, <1>9

LEMMA ContentRestoredStep ==
  ASSUME NEW h, Shape(h), NEW i \in Spilled(h), EntryContent(h, i) # None, NEW ok,
         NEW r, r = ContentRestored(h, i)
  PROVE  Step(h, r, ok) /\ r.cold[i] # None /\ ~r.cold[i].spilled
<1> DEFINE c == h.cold[i].content  links == h.cold[i].links
           k == [h EXCEPT !.cold[i] = Entry(EntryContent(h, i), @.links, FALSE)]
           bs == {EntryBlob(h, i)}
<1>0. r = Released(k, bs)
  BY DEF ContentRestored
<1>1. /\ i \in Ids /\ h.cold[i] # None /\ EntryContent(h, i) = c
      /\ c \in Contents /\ links \in SUBSET Links
  BY ContentRead DEF Spilled, Entries
<1>2. /\ DOMAIN k = Fields /\ k.edges = h.edges /\ k.nodes = h.nodes
      /\ k.husks = h.husks /\ k.blobs = h.blobs /\ k.torn = h.torn
      /\ k.cold = [h.cold EXCEPT ![i] = Entry(c, links, FALSE)]
  BY <1>1 DEF Shape, Fields
<1>b. bs = {ContentBlob(c)}
  BY DEF EntryBlob
<1> HIDE DEF k, links, bs
<1>3. /\ k.cold[i] \in ColdNodes /\ k.cold[i] # None /\ ~k.cold[i].spilled
      /\ k.cold[i].content = c
      /\ \A j \in Ids : j # i => k.cold[j] = h.cold[j]
  <2>1. \A j \in Ids : j # i => k.cold[j] = h.cold[j]
    BY <1>1, <1>2 DEF Shape
  <2>2. c \in Contents /\ links \in SUBSET Links /\ k.cold[i] = Entry(c, links, FALSE)
    BY <1>1, <1>2 DEF Shape
  <2> HIDE DEF c
  <2>3. /\ k.cold[i] \in ColdNodes /\ k.cold[i] # None /\ ~k.cold[i].spilled
        /\ k.cold[i].content = c
    BY ONLY <2>2, EntryOK
  <2> QED BY <2>1, <2>3
<1>4. Shape(k)
  <2>1. \A j \in Ids : k.cold[j] \in ColdNodes \cup {None}
    BY <1>3 DEF Shape
  <2> QED BY <1>2, <2>1 DEF Shape
<1>5. \A j \in Ids : /\ k.cold[j] # None <=> h.cold[j] # None
                     /\ h.cold[j] # None => k.cold[j].content = h.cold[j].content
  BY <1>1, <1>3
<1>6. ASSUME NEW j \in Ids PROVE Held(k, j) = Held(h, j)
  <2>1. k.nodes[j] = h.nodes[j] /\ k.husks[j] = h.husks[j]
    BY <1>2
  <2> QED BY <2>1, <1>5 DEF Held
<1>7. Moves(h, k) /\ Keeps(h, k)
  <2>1. \A j \in Ids : \A d \in Held(h, j) : d \in Versions(d)
    BY ShortOK DEF Held
  <2> QED BY <1>4, <1>6, <2>1 DEF Moves, Keeps
<1>8. ASSUME Tidy(h) PROVE Lax(k, bs)
  <2>1. \A j \in Ids : Alone(k, j)
    BY <1>2, <1>5, <1>8 DEF Alone, Tidy, Lax
  <2>2. ASSUME NEW b PROVE /\ b \in Referenced(k) => b \in Referenced(h)
                           /\ b \in Referenced(h) => b \in Referenced(k) \/ b \in bs
    <3>1. b \in Referenced(k) <=>
            \/ \E j \in Ids : /\ k.cold[j] # None /\ k.cold[j].spilled
                              /\ b = ContentBlob(k.cold[j].content)
            \/ \E j \in Ids : h.husks[j] # None /\ b = BodyBlob(h.husks[j])
      <4>1. k.husks = h.husks
        BY <1>2
      <4> QED BY <4>1, ReferencedBlob
    <3>2. b \in Referenced(h) <=>
            \/ \E j \in Ids : /\ h.cold[j] # None /\ h.cold[j].spilled
                              /\ b = ContentBlob(h.cold[j].content)
            \/ \E j \in Ids : h.husks[j] # None /\ b = BodyBlob(h.husks[j])
      BY ReferencedBlob, Zenon
    <3>3. ASSUME NEW j \in Ids, k.cold[j] # None, k.cold[j].spilled PROVE k.cold[j] = h.cold[j]
      BY <3>3, <1>3
    <3>4. ASSUME NEW j \in Ids, b = ContentBlob(h.cold[j].content), b \notin bs
          PROVE  k.cold[j] = h.cold[j]
      BY <3>4, <1>3, <1>b
    <3> QED BY <3>1, <3>2, <3>3, <3>4
  <2>3. h.torn = {} /\ h.blobs = Referenced(h)
    BY <1>8 DEF Tidy, Lax
  <2>4. Referenced(k) \subseteq k.blobs /\ k.blobs \subseteq Referenced(k) \cup bs
    BY <2>2, <2>3, <1>2
  <2> QED BY <2>1, <2>3, <2>4, <1>2 DEF Lax
<1>9. Step(h, Released(k, bs), ok)
  BY <1>7, <1>8, ReleaseStep
<1>10. r.cold = k.cold
  BY <1>0, <1>4, ReleasedTidy
<1> QED BY <1>0, <1>3, <1>9, <1>10

LEMMA FaultedStep ==
  ASSUME NEW h, Shape(h), NEW i \in Ids, Faultable(h, i), NEW ok,
         NEW r, r = Faulted(h, i)
  PROVE  Step(h, r, ok) /\ r.cold[i] # None /\ ~r.cold[i].spilled
<1>1. CASE i \in Husks(h)
  <2>1. r = HuskRestored(h, i) /\ HuskContent(h, i) # None
    BY <1>1 DEF Faulted, Faultable
  <2> QED BY <1>1, <2>1, HuskRestoredStep
<1>2. CASE i \notin Husks(h) /\ i \in Spilled(h)
  <2>1. r = ContentRestored(h, i) /\ EntryContent(h, i) # None
    BY <1>2 DEF Faulted, Faultable
  <2> QED BY <1>2, <2>1, ContentRestoredStep
<1>3. CASE i \notin Husks(h) /\ i \notin Spilled(h)
  <2>1. r = h /\ h.cold[i] # None /\ ~h.cold[i].spilled
    BY <1>3 DEF Faulted, Faultable, Spilled, Entries
  <2> QED BY <2>1, StepReflexive
<1> QED BY <1>1, <1>2, <1>3

LEMMA LinkedStep ==
  ASSUME NEW h, Shape(h), NEW i \in Ids, h.cold[i] # None, ~h.cold[i].spilled, NEW ok
  PROVE  Step(h, Linked(h, i), ok)
<1> DEFINE k == Linked(h, i)  c == h.cold[i].content
<1>1. /\ DOMAIN k = Fields /\ k.edges \subseteq h.edges \cup h.cold[i].links
      /\ k.nodes = [h.nodes EXCEPT ![i] = c] /\ k.cold = [h.cold EXCEPT ![i] = None]
      /\ k.husks = h.husks /\ k.blobs = h.blobs /\ k.torn = h.torn
  BY DEF Linked, Shape, Fields
<1> HIDE DEF k
<1>2. c \in Contents /\ c # None /\ h.cold[i].links \subseteq Links
  BY ContentRead, NoneAssumption
<1>3. /\ k.nodes[i] = c /\ k.cold[i] = None
      /\ \A j \in Ids : j # i => k.nodes[j] = h.nodes[j] /\ k.cold[j] = h.cold[j]
  BY <1>1 DEF Shape
<1>4. Shape(k)
  <2>1. \A j \in Ids : /\ k.cold[j] \in ColdNodes \cup {None}
                       /\ k.nodes[j] \in Contents \cup {None}
    BY <1>2, <1>3 DEF Shape
  <2> QED BY <1>1, <1>2, <2>1 DEF Shape
<1>5. Moves(h, k)
  <2>1. ASSUME NEW j \in Ids, NEW d \in Held(k, j) PROVE d \in Held(h, j)
    <3>1. \/ k.nodes[j] # None /\ k.nodes[j] = d
          \/ k.cold[j] # None /\ k.cold[j].content = d
          \/ k.husks[j] # None /\ k.husks[j].content = d
      BY <2>1, <1>4, HeldIs
    <3>2. \/ h.nodes[j] # None /\ h.nodes[j] = d
          \/ h.cold[j] # None /\ h.cold[j].content = d
          \/ h.husks[j] # None /\ h.husks[j].content = d
      BY <3>1, <1>1, <1>2, <1>3
    <3> QED BY <3>2, <2>1, HeldIs
  <2> QED BY <2>1, <1>4, ShortOK DEF Moves, Held
<1>6. Keeps(h, k)
  <2>1. ASSUME NEW j \in Ids, Held(h, j) # {} PROVE Held(k, j) # {}
    <3>1. h.nodes[j] # None \/ h.cold[j] # None \/ h.husks[j] # None
      BY <2>1, HeldIs
    <3>2. k.nodes[j] # None \/ k.cold[j] # None \/ k.husks[j] # None
      BY <3>1, <1>1, <1>2, <1>3
    <3> QED BY <3>2, <2>1, <1>4, HeldIs
  <2> QED BY <2>1 DEF Keeps
<1>7. ASSUME Tidy(h) PROVE Tidy(k)
  <2>1. h.husks[i] = None
    BY <1>7 DEF Alone, Tidy, Lax
  <2>2. \A j \in Ids : Alone(k, j)
    BY <2>1, <1>1, <1>3, <1>7 DEF Alone, Tidy, Lax
  <2>3. ASSUME NEW b PROVE b \in Referenced(k) <=> b \in Referenced(h)
    <3>1. b \in Referenced(k) <=>
            \/ \E j \in Ids : /\ k.cold[j] # None /\ k.cold[j].spilled
                              /\ b = ContentBlob(k.cold[j].content)
            \/ \E j \in Ids : h.husks[j] # None /\ b = BodyBlob(h.husks[j])
      <4>1. k.husks = h.husks
        BY <1>1
      <4> QED BY <4>1, ReferencedBlob
    <3>2. b \in Referenced(h) <=>
            \/ \E j \in Ids : /\ h.cold[j] # None /\ h.cold[j].spilled
                              /\ b = ContentBlob(h.cold[j].content)
            \/ \E j \in Ids : h.husks[j] # None /\ b = BodyBlob(h.husks[j])
      BY ReferencedBlob, Zenon
    <3>3. ASSUME NEW j \in Ids, k.cold[j] # None PROVE k.cold[j] = h.cold[j]
      BY <3>3, <1>3
    <3>4. ASSUME NEW j \in Ids, h.cold[j] # None, h.cold[j].spilled
          PROVE  k.cold[j] = h.cold[j]
      BY <3>4, <1>3
    <3> QED BY <3>1, <3>2, <3>3, <3>4
  <2>4. Referenced(k) = Referenced(h)
    BY <2>3
  <2> QED BY <2>2, <2>4, <1>1, <1>7 DEF Tidy, Lax
<1>8. Step(h, k, ok)
  BY <1>5, <1>6, <1>7 DEF Step
<1> QED BY <1>8 DEF k

\* `forget_cold_shadow` leaves nothing of the node below the resident graph.
LEMMA ForgottenIs ==
  ASSUME NEW h, Shape(h), NEW i \in Ids, NEW r, r = Forgotten(h, i)
  PROVE  /\ Shape(r) /\ r.nodes = h.nodes /\ r.cold[i] = None /\ r.husks[i] = None
         /\ \A j \in Ids : j # i => r.cold[j] = h.cold[j] /\ r.husks[j] = h.husks[j]
         /\ Tidy(h) => Tidy(r)
<1> DEFINE k == [h EXCEPT !.cold[i] = None, !.husks[i] = None,
                          !.radj = @ \ Pairs(i, Others(i, ArchivedLinks(h, i)))]
           bs == (IF i \in Spilled(h) THEN {EntryBlob(h, i)} ELSE {})
                   \cup (IF i \in Husks(h) THEN {BodyBlob(h.husks[i])} ELSE {})
<1>0. r = Released(k, bs)
  BY DEF Forgotten
<1>1. /\ DOMAIN k = Fields /\ k.edges = h.edges /\ k.nodes = h.nodes
      /\ k.cold = [h.cold EXCEPT ![i] = None] /\ k.husks = [h.husks EXCEPT ![i] = None]
      /\ k.blobs = h.blobs /\ k.torn = h.torn
  BY DEF Shape, Fields
<1>2. /\ h.cold[i] # None /\ h.cold[i].spilled => ContentBlob(h.cold[i].content) \in bs
      /\ h.husks[i] # None => BodyBlob(h.husks[i]) \in bs
  BY DEF EntryBlob, Spilled, Entries, Husks
<1> HIDE DEF k, bs
<1>3. /\ k.cold[i] = None /\ k.husks[i] = None
      /\ \A j \in Ids : j # i => k.cold[j] = h.cold[j] /\ k.husks[j] = h.husks[j]
  BY <1>1 DEF Shape
<1>4. Shape(k)
  <2>1. \A j \in Ids : /\ k.cold[j] \in ColdNodes \cup {None}
                       /\ k.husks[j] \in Bodies \cup {None}
    BY <1>3 DEF Shape
  <2> QED BY <1>1, <2>1 DEF Shape
<1>5. ASSUME Tidy(h) PROVE Lax(k, bs)
  <2>1. \A j \in Ids : Alone(k, j)
    BY <1>1, <1>3, <1>5 DEF Alone, Tidy, Lax
  <2>2. ASSUME NEW b PROVE /\ b \in Referenced(k) => b \in Referenced(h)
                           /\ b \in Referenced(h) => b \in Referenced(k) \/ b \in bs
    <3>1. b \in Referenced(k) <=>
            \/ \E j \in Ids : /\ k.cold[j] # None /\ k.cold[j].spilled
                              /\ b = ContentBlob(k.cold[j].content)
            \/ \E j \in Ids : k.husks[j] # None /\ b = BodyBlob(k.husks[j])
      BY ReferencedBlob, Zenon
    <3>2. b \in Referenced(h) <=>
            \/ \E j \in Ids : /\ h.cold[j] # None /\ h.cold[j].spilled
                              /\ b = ContentBlob(h.cold[j].content)
            \/ \E j \in Ids : h.husks[j] # None /\ b = BodyBlob(h.husks[j])
      BY ReferencedBlob, Zenon
    <3>3. \A j \in Ids : /\ k.cold[j] # None => k.cold[j] = h.cold[j]
                         /\ k.husks[j] # None => k.husks[j] = h.husks[j]
      BY <1>3
    <3>4. ASSUME NEW j \in Ids, h.cold[j] # None, h.cold[j].spilled,
                 b = ContentBlob(h.cold[j].content), b \notin bs
          PROVE  k.cold[j] = h.cold[j]
      BY <3>4, <1>2, <1>3
    <3>5. ASSUME NEW j \in Ids, h.husks[j] # None, b = BodyBlob(h.husks[j]), b \notin bs
          PROVE  k.husks[j] = h.husks[j]
      BY <3>5, <1>2, <1>3
    <3> QED BY <3>1, <3>2, <3>3, <3>4, <3>5
  <2>3. h.torn = {} /\ h.blobs = Referenced(h)
    BY <1>5 DEF Tidy, Lax
  <2>4. Referenced(k) \subseteq k.blobs /\ k.blobs \subseteq Referenced(k) \cup bs
    BY <2>2, <2>3, <1>1
  <2> QED BY <2>1, <2>3, <2>4, <1>1 DEF Lax
<1>6. /\ Shape(r) /\ r.nodes = k.nodes /\ r.cold = k.cold /\ r.husks = k.husks
      /\ Lax(k, bs) => Tidy(r)
  BY <1>0, <1>4, ReleasedTidy
<1> QED BY <1>1, <1>3, <1>5, <1>6

-----------------------------------------------------------------------------
\* Paging, and the three budget passes.

LEMMA PagedStep ==
  ASSUME NEW h, Shape(h), NEW keep, NEW k \in Paged(h, keep), NEW ok
  PROVE  Step(h, k, ok)
<1>1. PICK V \in SUBSET (Resident(h) \ keep) :
         k \in {Demoted(h, V, order) : order \in Orders(V)}
  BY DEF Paged
<1>2. PICK order \in Orders(V) : k = Demoted(h, V, order)
  BY <1>1
<1>3. V \in SUBSET Resident(h)
  BY <1>1
<1> QED BY <1>2, <1>3, DemotedStep

LEMMA BudgetedStep ==
  ASSUME NEW h, Shape(h), NEW F, NEW k \in Budgeted(h, F)
  PROVE  Step(h, k, F = {})
<1> DEFINE ok == F = {}
<1>1. PICK j \in (IF MayCompact THEN {Compacted(h, C) : C \in SUBSET Entries(h)} ELSE {h}) :
         k \in {DeepSpilled(SpilledOut(j, S, F), D, F) :
                  S \in SUBSET (Entries(j) \ Spilled(j)), D \in SUBSET Entries(j)}
  BY DEF Budgeted
<1>2. PICK S, D : k = DeepSpilled(SpilledOut(j, S, F), D, F)
  BY <1>1
<1>3. Step(h, j, ok) /\ Shape(j)
  <2>1. CASE MayCompact
    <3>1. PICK C : j = Compacted(h, C)
      BY <1>1, <2>1
    <3> HIDE DEF ok
    <3>2. Step(h, j, ok)
      BY <2>1, <3>1, CompactedStep
    <3> QED BY <3>2 DEF Step, Moves
  <2>2. CASE ~MayCompact
    <3>1. j = h
      BY <1>1, <2>2
    <3> HIDE DEF ok
    <3> QED BY <3>1, StepReflexive
  <2> QED BY <2>1, <2>2
<1>4. Step(j, SpilledOut(j, S, F), ok) /\ Shape(SpilledOut(j, S, F))
  <2>1. Step(j, SpilledOut(j, S, F), F = {})
    BY <1>3, SpilledOutStep
  <2> QED BY <2>1 DEF Step, Moves
<1>5. Step(SpilledOut(j, S, F), k, ok)
  BY <1>2, <1>4, DeepSpilledStep
<1> HIDE DEF ok
<1>6. Step(h, SpilledOut(j, S, F), ok)
  BY <1>3, <1>4, StepTransitive
<1>7. Step(h, k, ok)
  BY <1>5, <1>6, StepTransitive
<1> QED BY <1>7 DEF ok

LEMMA EnforcedPagingStep ==
  ASSUME NEW h, Shape(h), NEW F, NEW k \in EnforcedPaging(h, F)
  PROVE  Step(h, k, F = {})
<1> DEFINE ok == F = {}
<1>1. CASE k = h
  <2>1. Step(h, h, ok)
    <3> HIDE DEF ok
    <3> QED BY StepReflexive
  <2> QED BY <1>1, <2>1
<1>2. CASE k # h
  <2>1. PICK j \in Paged(h, {}) : k \in Budgeted(j, F)
    BY <1>2 DEF EnforcedPaging
  <2>2. Step(h, j, ok) /\ Shape(j)
    <3> HIDE DEF ok
    <3>1. Step(h, j, ok)
      BY <2>1, PagedStep
    <3> QED BY <3>1 DEF Step, Moves
  <2>3. Step(j, k, ok)
    BY <2>1, <2>2, BudgetedStep
  <2> HIDE DEF ok
  <2>4. Step(h, k, ok)
    BY <2>2, <2>3, StepTransitive
  <2> QED BY <2>4 DEF ok
<1> QED BY <1>1, <1>2

LEMMA PageInStep ==
  ASSUME NEW h, Shape(h), NEW i \in Ids, Faultable(h, i), NEW F,
         NEW p \in Paged(Linked(Faulted(h, i), i), {i}), NEW k \in Budgeted(p, F)
  PROVE  Step(h, k, F = {})
<1> DEFINE ok == F = {}
           f == Faulted(h, i)
           l == Linked(f, i)
<1>1. Step(h, f, ok) /\ f.cold[i] # None /\ ~f.cold[i].spilled
  <2> HIDE DEF ok, f
  <2>1. f = Faulted(h, i)
    BY DEF f
  <2> QED BY <2>1, FaultedStep
<1>2. Shape(f)
  BY <1>1 DEF Step, Moves
<1>3. Step(f, l, ok)
  <2> HIDE DEF ok, f
  <2> QED BY <1>1, <1>2, LinkedStep
<1>4. Shape(l)
  BY <1>3 DEF Step, Moves
<1>5. Step(l, p, ok)
  <2> HIDE DEF ok, l
  <2> QED BY <1>4, PagedStep DEF l
<1>6. Shape(p)
  BY <1>5 DEF Step, Moves
<1>7. Step(p, k, ok)
  BY <1>6, BudgetedStep
<1> HIDE DEF ok, f, l
<1>8. Step(h, l, ok)
  BY <1>1, <1>3, StepTransitive
<1>9. Step(h, p, ok)
  BY <1>5, <1>8, StepTransitive
<1>10. Step(h, k, ok)
  BY <1>7, <1>9, StepTransitive
<1> QED BY <1>10 DEF ok

-----------------------------------------------------------------------------
\* The inductive invariant.

Truths == {Whole(t) : t \in Texts} \cup {None}

HuskViews == [Ids -> Bodies \cup {None}]

\* What the tiers hold for a node was ingested for it.
Genuine(nodes, cold, husks, e) ==
    \A i \in Ids : /\ nodes[i] # None => nodes[i].text \in e[i]
                   /\ cold[i] # None => cold[i].content.text \in e[i]
                   /\ husks[i] # None => husks[i].content.text \in e[i]

\* They hold the latest contents, and nothing for a node that is not there.
Faithful(h, t) ==
    \A i \in Ids : /\ Held(h, i) = {} <=> t[i] = None
                   /\ \A c \in Held(h, i) : c \in Versions(t[i])

SavedOK(s) ==
    /\ s.nodes \in [Ids -> Contents \cup {None}] /\ s.edges \subseteq Links
    /\ s.cold \in [Ids -> ColdNodes \cup {None}]
    /\ s.truth \in [Ids -> Truths]

\* A crash would lose nothing.
InSync ==
    /\ snapshot.nodes = g.nodes /\ snapshot.cold = g.cold /\ husksDisk = g.husks
    /\ faults = 0 => snapshot.truth = truth

IInv ==
    /\ Shape(g) /\ SavedOK(snapshot) /\ husksDisk \in HuskViews
    /\ truth \in [Ids -> Truths] /\ ever \in [Ids -> SUBSET Texts]
    /\ synced \in BOOLEAN /\ faults \in Nat
    /\ Genuine(g.nodes, g.cold, g.husks, ever)
    /\ Genuine(snapshot.nodes, snapshot.cold, husksDisk, ever)
    /\ faults = 0 => Tidy(g) /\ Faithful(g, truth)
    /\ synced => InSync

LEMMA WholeOK ==
  ASSUME NEW t \in Texts
  PROVE  Whole(t) \in Contents /\ Whole(t) # None /\ Whole(t).text = t
<1>1. ASSUME NEW b \in BOOLEAN
      PROVE  [text |-> t, short |-> b] \in Contents
  BY DEF Contents
<1>2. Whole(t) \in Contents
  BY <1>1 DEF Whole
<1>3. Whole(t).text = t
  BY DEF Whole
<1> QED BY <1>2, <1>3, NoneAssumption

LEMMA MovesGenuine ==
  ASSUME NEW h, NEW k, Shape(h), Moves(h, k), NEW e, Genuine(h.nodes, h.cold, h.husks, e)
  PROVE  Genuine(k.nodes, k.cold, k.husks, e)
<1>1. ASSUME NEW i \in Ids, NEW c \in Held(k, i) PROVE c.text \in e[i]
  <2>1. PICK d \in Held(h, i) : c \in Versions(d)
    BY <1>1 DEF Moves
  <2>2. d \in Contents /\ d.text \in e[i]
    BY <1>1, <2>1, HeldIs DEF Genuine, Held
  <2> QED BY <2>1, <2>2, ShortOK
<1>2. ASSUME NEW i \in Ids
      PROVE  /\ k.nodes[i] # None => k.nodes[i].text \in e[i]
             /\ k.cold[i] # None => k.cold[i].content.text \in e[i]
             /\ k.husks[i] # None => k.husks[i].content.text \in e[i]
  <2>1. Shape(k)
    BY DEF Moves
  <2>2. /\ k.nodes[i] # None => k.nodes[i] \in Held(k, i)
        /\ k.cold[i] # None => k.cold[i].content \in Held(k, i)
        /\ k.husks[i] # None => k.husks[i].content \in Held(k, i)
    BY <1>2, <2>1, HeldIs
  <2> QED BY <1>1, <2>2
<1> QED BY <1>2 DEF Genuine

LEMMA StepFaithful ==
  ASSUME NEW h, NEW k, NEW ok, Step(h, k, ok), ok, Tidy(h),
         NEW t \in [Ids -> Truths], Faithful(h, t)
  PROVE  Tidy(k) /\ Faithful(k, t)
<1>1. Tidy(k) /\ Keeps(h, k) /\ Moves(h, k)
  BY DEF Step
<1>2. ASSUME NEW i \in Ids PROVE Held(k, i) = {} <=> t[i] = None
  BY <1>1, <1>2 DEF Keeps, Moves, Faithful
<1>3. ASSUME NEW i \in Ids, NEW c \in Held(k, i) PROVE c \in Versions(t[i])
  <2>1. PICK d \in Held(h, i) : c \in Versions(d)
    BY <1>1, <1>3 DEF Moves
  <2>2. t[i] # None /\ t[i] \in Truths /\ d \in Versions(t[i])
    BY <2>1, <1>3 DEF Faithful
  <2>3. t[i] \in Contents
    BY <2>2, WholeOK DEF Truths
  <2> QED BY <2>1, <2>2, <2>3, VersionsTransitive
<1> QED BY <1>1, <1>2, <1>3 DEF Faithful

\* The tiers determine what was last ingested.
LEMMA FaithfulOnce ==
  ASSUME NEW h, NEW t \in [Ids -> Truths], NEW u \in [Ids -> Truths],
         Faithful(h, t), Faithful(h, u)
  PROVE  t = u
<1>1. ASSUME NEW i \in Ids PROVE t[i] = u[i]
  <2>1. CASE Held(h, i) = {}
    BY <1>1, <2>1 DEF Faithful
  <2>2. CASE Held(h, i) # {}
    <3>1. PICK c \in Held(h, i) : c \in Versions(t[i]) /\ c \in Versions(u[i])
      BY <1>1, <2>2 DEF Faithful
    <3>2. t[i] # None /\ u[i] # None
      BY <1>1, <2>2 DEF Faithful
    <3>3. PICK a \in Texts, b \in Texts : t[i] = Whole(a) /\ u[i] = Whole(b)
      BY <1>1, <3>2 DEF Truths
    <3>4. c.text = a /\ c.text = b
      BY <3>1, <3>3, WholeOK, ShortOK
    <3> QED BY <3>3, <3>4
  <2> QED BY <2>1, <2>2
<1> QED BY <1>1

LEMMA IndicesKeep ==
  ASSUME NEW v, v.husks \in HuskViews, husksDisk \in HuskViews, g'.husks \in HuskViews,
         IndicesWritten(v)
  PROVE  /\ husksDisk' \in HuskViews
         /\ \A i \in Ids : husksDisk'[i] \in {husksDisk[i], v.husks[i], g'.husks[i]}
         /\ g'.husks = v.husks => husksDisk' = husksDisk
<1>1. CASE husksDisk' = husksDisk
  BY <1>1
<1>2. CASE g'.husks # v.husks /\ \E W \in SUBSET Ids :
              husksDisk' = [i \in Ids |-> IF i \in W THEN g'.husks[i] ELSE v.husks[i]]
  BY <1>2 DEF HuskViews
<1> QED BY <1>1, <1>2 DEF IndicesWritten

\* What every operation that works on the tiers has in common: it starts from
\* a graph `h0` (after an upsert, a removal, or a reload) and the views `v`
\* of the indices.
LEMMA WorkKeeps ==
  ASSUME NEW h0, NEW v, NEW ok, IInv,
         Shape(h0), Step(h0, g', ok), v.husks \in HuskViews, IndicesWritten(v),
         ever' \in [Ids -> SUBSET Texts], \A i \in Ids : ever[i] \subseteq ever'[i],
         Genuine(h0.nodes, h0.cold, h0.husks, ever'),
         \A i \in Ids : v.husks[i] # None => v.husks[i].content.text \in ever'[i],
         truth' \in [Ids -> Truths], snapshot' = snapshot,
         faults' \in Nat, synced' \in BOOLEAN,
         faults' = 0 => faults = 0 /\ ok /\ Tidy(h0) /\ Faithful(h0, truth'),
         synced' => synced /\ g' = g /\ v.husks = g.husks
  PROVE  IInv'
<1>0. Shape(g') /\ Genuine(g'.nodes, g'.cold, g'.husks, ever')
  BY MovesGenuine DEF Step, Moves
<1>1. /\ husksDisk' \in HuskViews
      /\ \A i \in Ids : husksDisk'[i] \in {husksDisk[i], v.husks[i], g'.husks[i]}
      /\ g'.husks = v.husks => husksDisk' = husksDisk
  <2>1. g'.husks \in HuskViews /\ husksDisk \in HuskViews
    BY <1>0 DEF Shape, HuskViews, IInv
  <2> QED BY <2>1, IndicesKeep
<1>2. Genuine(snapshot'.nodes, snapshot'.cold, husksDisk', ever')
  <2>1. ASSUME NEW i \in Ids
        PROVE  /\ snapshot.nodes[i] # None => snapshot.nodes[i].text \in ever'[i]
               /\ snapshot.cold[i] # None => snapshot.cold[i].content.text \in ever'[i]
               /\ husksDisk[i] # None => husksDisk[i].content.text \in ever'[i]
               /\ g'.husks[i] # None => g'.husks[i].content.text \in ever'[i]
    BY <2>1, <1>0 DEF IInv, Genuine
  <2>2. \A i \in Ids : husksDisk'[i] # None => husksDisk'[i].content.text \in ever'[i]
    BY <2>1, <1>1
  <2> QED BY <2>1, <2>2 DEF Genuine
<1>3. ASSUME faults' = 0 PROVE Tidy(g') /\ Faithful(g', truth')
  BY <1>3, StepFaithful
<1>4. ASSUME synced' PROVE InSync'
  <2>1. InSync /\ g' = g /\ husksDisk' = husksDisk
    BY <1>1, <1>4 DEF IInv
  <2>2. ASSUME faults' = 0 PROVE truth' = truth
    <3>1. Faithful(g, truth) /\ Faithful(g, truth') /\ truth \in [Ids -> Truths]
      BY <2>1, <2>2, <1>3 DEF IInv
    <3> QED BY <3>1, FaithfulOnce
  <2> QED BY <2>1, <2>2 DEF InSync
<1> QED BY <1>0, <1>1, <1>2, <1>3, <1>4 DEF IInv

LEMMA InitIInv == Init => IInv
<1> SUFFICES ASSUME Init PROVE IInv
  OBVIOUS
<1>1. PICK cap \in Caps : /\ g = Empty(cap)
                          /\ snapshot = Saved(Empty(cap), [i \in Ids |-> None], TRUE)
  BY DEF Init
<1>2. /\ DOMAIN g = Fields /\ g.edges = {} /\ g.nodes = [i \in Ids |-> None]
      /\ g.cold = [i \in Ids |-> None] /\ g.husks = [i \in Ids |-> None]
      /\ g.blobs = {} /\ g.torn = {}
  BY <1>1 DEF Empty, Fields
<1>3. /\ snapshot.nodes = [i \in Ids |-> None] /\ snapshot.edges = {}
      /\ snapshot.cold = [i \in Ids |-> None] /\ snapshot.truth = [i \in Ids |-> None]
  BY <1>1 DEF Empty, Saved
<1>4. /\ husksDisk = [i \in Ids |-> None] /\ truth = [i \in Ids |-> None]
      /\ ever = [i \in Ids |-> {}] /\ synced = TRUE /\ faults = 0
  BY DEF Init
<1>5. Shape(g) /\ SavedOK(snapshot) /\ husksDisk \in HuskViews
      /\ truth \in [Ids -> Truths] /\ ever \in [Ids -> SUBSET Texts]
  BY <1>2, <1>3, <1>4 DEF Shape, SavedOK, HuskViews, Truths
<1>6. \A i \in Ids : Held(g, i) = {} /\ Alone(g, i)
  BY <1>2, <1>5, HeldIs DEF Alone
<1>7. Referenced(g) = {}
  BY <1>2 DEF Referenced, Spilled, Entries, Husks
<1>8. Tidy(g) /\ Faithful(g, truth)
  BY <1>2, <1>4, <1>6, <1>7 DEF Tidy, Lax, Faithful
<1>9. Genuine(g.nodes, g.cold, g.husks, ever)
      /\ Genuine(snapshot.nodes, snapshot.cold, husksDisk, ever)
  BY <1>2, <1>3, <1>4 DEF Genuine
<1>10. InSync
  BY <1>2, <1>3, <1>4 DEF InSync
<1> QED BY <1>4, <1>5, <1>8, <1>9, <1>10 DEF IInv

\* The node `i` is written, or removed, once nothing is left of it below the
\* resident graph.
Rewrites(h, k, i, c) ==
    LET f == Forgotten(h, i)
    IN  /\ Shape(h) /\ Shape(k) /\ k.nodes = [h.nodes EXCEPT ![i] = c]
        /\ k.cold = f.cold /\ k.husks = f.husks /\ k.blobs = f.blobs /\ k.torn = f.torn

LEMMA RewrittenIs ==
  ASSUME NEW h, NEW i \in Ids, NEW c, NEW k, Rewrites(h, k, i, c)
  PROVE  /\ Tidy(h) => Tidy(k)
         /\ k.nodes[i] = c /\ k.cold[i] = None /\ k.husks[i] = None
         /\ \A j \in Ids : j # i => /\ k.nodes[j] = h.nodes[j] /\ k.cold[j] = h.cold[j]
                                    /\ k.husks[j] = h.husks[j]
<1> DEFINE f == Forgotten(h, i)
<1>0. /\ Shape(h) /\ Shape(k) /\ k.nodes = [h.nodes EXCEPT ![i] = c]
      /\ k.cold = f.cold /\ k.husks = f.husks /\ k.blobs = f.blobs /\ k.torn = f.torn
  BY DEF Rewrites
<1>1. /\ Shape(f) /\ f.nodes = h.nodes /\ f.cold[i] = None /\ f.husks[i] = None
      /\ \A j \in Ids : j # i => f.cold[j] = h.cold[j] /\ f.husks[j] = h.husks[j]
      /\ Tidy(h) => Tidy(f)
  BY <1>0, ForgottenIs
<1> HIDE DEF f
<1>2. /\ k.nodes[i] = c /\ k.cold[i] = None /\ k.husks[i] = None
      /\ \A j \in Ids : j # i => /\ k.nodes[j] = h.nodes[j] /\ k.cold[j] = h.cold[j]
                                 /\ k.husks[j] = h.husks[j]
  BY <1>0, <1>1 DEF Shape
<1>3. ASSUME Tidy(h) PROVE Tidy(k)
  <2>1. Referenced(k) = Referenced(f)
    BY <1>0 DEF Referenced, Spilled, Entries, Husks, EntryBlob
  <2>2. \A j \in Ids : Alone(k, j)
    BY <1>0, <1>1, <1>2, <1>3 DEF Alone, Tidy, Lax
  <2> QED BY <1>0, <1>1, <1>3, <2>1, <2>2 DEF Tidy, Lax
<1> QED BY <1>2, <1>3

LEMMA RewrittenFaithful ==
  ASSUME NEW h, NEW i \in Ids, NEW c \in Truths, NEW k, Rewrites(h, k, i, c),
         NEW t, Faithful(h, t), NEW u, u[i] = c, \A j \in Ids : j # i => u[j] = t[j]
  PROVE  Faithful(k, u)
<1>1. /\ Tidy(h) => Tidy(k)
      /\ k.nodes[i] = c /\ k.cold[i] = None /\ k.husks[i] = None
      /\ \A j \in Ids : j # i => /\ k.nodes[j] = h.nodes[j] /\ k.cold[j] = h.cold[j]
                                 /\ k.husks[j] = h.husks[j]
  BY RewrittenIs
<1>2. ASSUME NEW j \in Ids, j # i
      PROVE  /\ Held(k, j) = {} <=> u[j] = None
             /\ \A d \in Held(k, j) : d \in Versions(u[j])
  <2>1. Held(k, j) = Held(h, j)
    BY <1>1, <1>2 DEF Held
  <2> QED BY <1>2, <2>1 DEF Faithful
<1>3. /\ Held(k, i) = {} <=> u[i] = None
      /\ \A d \in Held(k, i) : d \in Versions(u[i])
  <2>1. c # None => c \in Contents
    BY WholeOK DEF Truths
  <2>2. \A d : d \in Held(k, i) <=> c # None /\ d = c
    BY <1>1, <2>1, NoneAssumption DEF Held
  <2> QED BY <2>1, <2>2, ShortOK
<1> QED BY <1>2, <1>3 DEF Faithful

LEMMA WrittenIs ==
  ASSUME NEW F, Written(F), IInv
  PROVE  /\ IndicesWritten(g) /\ faults' \in Nat /\ synced' \in BOOLEAN
         /\ faults' = 0 => faults = 0 /\ F = {}
         /\ synced' => synced /\ g' = g
<1>1. faults' = (IF F = {} THEN faults ELSE faults + 1) /\ faults \in Nat
  BY DEF Written, IInv
<1>2. IndicesWritten(g) /\ synced' = (synced /\ g' = g)
  BY DEF Written
<1>3. synced' \in BOOLEAN /\ (synced' => synced /\ g' = g)
  BY <1>2
<1>4. faults' \in Nat /\ (faults' = 0 => faults = 0 /\ F = {})
  BY <1>1
<1> QED BY <1>2, <1>3, <1>4

-----------------------------------------------------------------------------
\* Each action preserves it.

LEMMA UpsertNodeKeeps ==
  ASSUME IInv, NEW i \in Ids, NEW t \in Texts, UpsertNode(i, t)
  PROVE  IInv'
<1> DEFINE f == Forgotten(g, i)
           k == [f EXCEPT !.nodes[i] = Whole(t)]
           u == [truth EXCEPT ![i] = Whole(t)]
<1>1. PICK F \in Failures : g' \in EnforcedPaging(k, F) /\ Written(F)
  BY DEF UpsertNode
<1>2. truth' = u /\ ever' = [ever EXCEPT ![i] = @ \cup {t}] /\ snapshot' = snapshot
  BY DEF UpsertNode
<1>3. Shape(g) /\ truth \in [Ids -> Truths] /\ ever \in [Ids -> SUBSET Texts]
      /\ Genuine(g.nodes, g.cold, g.husks, ever)
      /\ (faults = 0 => Tidy(g) /\ Faithful(g, truth))
  BY DEF IInv
<1>4. /\ Whole(t) \in Contents /\ Whole(t).text = t /\ Whole(t) \in Truths
      /\ u \in [Ids -> Truths]
  BY <1>3, WholeOK DEF Truths
<1>5. Shape(f) /\ f.nodes = g.nodes /\ f = Forgotten(g, i)
  BY <1>3, ForgottenIs
<1>6. /\ Shape(k) /\ k.nodes = [g.nodes EXCEPT ![i] = Whole(t)] /\ k.cold = f.cold
      /\ k.husks = f.husks /\ k.blobs = f.blobs /\ k.torn = f.torn
  <2> HIDE DEF f
  <2> QED BY <1>3, <1>4, <1>5 DEF Shape, Fields
<1> HIDE DEF f, k
<1>7. /\ Tidy(g) => Tidy(k)
      /\ k.nodes[i] = Whole(t) /\ k.cold[i] = None /\ k.husks[i] = None
      /\ \A j \in Ids : j # i => /\ k.nodes[j] = g.nodes[j] /\ k.cold[j] = g.cold[j]
                                 /\ k.husks[j] = g.husks[j]
      /\ Faithful(g, truth) => Faithful(k, u)
  <2> DEFINE c == Whole(t)
  <2>1. c \in Truths /\ u[i] = c /\ (\A j \in Ids : j # i => u[j] = truth[j])
        /\ k.nodes = [g.nodes EXCEPT ![i] = c]
    BY <1>3, <1>4, <1>6
  <2> HIDE DEF c, u
  <2>2. Rewrites(g, k, i, c)
    BY <1>3, <1>5, <1>6, <2>1 DEF Rewrites
  <2>3. /\ Tidy(g) => Tidy(k)
        /\ k.nodes[i] = c /\ k.cold[i] = None /\ k.husks[i] = None
        /\ \A j \in Ids : j # i => /\ k.nodes[j] = g.nodes[j] /\ k.cold[j] = g.cold[j]
                                   /\ k.husks[j] = g.husks[j]
    BY <2>2, RewrittenIs
  <2>4. ASSUME Faithful(g, truth) PROVE Faithful(k, u)
    BY <2>1, <2>2, <2>4, RewrittenFaithful
  <2> QED BY <2>3, <2>4 DEF c
<1>8. /\ ever' \in [Ids -> SUBSET Texts] /\ t \in ever'[i]
      /\ \A j \in Ids : ever[j] \subseteq ever'[j]
  BY <1>2, <1>3
<1> HIDE DEF u
<1>9. Genuine(k.nodes, k.cold, k.husks, ever')
  BY <1>3, <1>4, <1>7, <1>8 DEF Genuine
<1>10. \A j \in Ids : g.husks[j] # None => g.husks[j].content.text \in ever'[j]
  BY <1>3, <1>8 DEF Genuine
<1> DEFINE ok == F = {}
<1>11. Step(k, g', ok)
  BY <1>1, <1>6, EnforcedPagingStep
<1>12. /\ IndicesWritten(g) /\ faults' \in Nat /\ synced' \in BOOLEAN
       /\ faults' = 0 => faults = 0 /\ ok
       /\ synced' => synced /\ g' = g
  BY <1>1, WrittenIs
<1>13. faults' = 0 => faults = 0 /\ ok /\ Tidy(k) /\ Faithful(k, truth')
  BY <1>2, <1>3, <1>7, <1>12
<1>14. truth' \in [Ids -> Truths] /\ g.husks \in HuskViews
  BY <1>2, <1>3, <1>4 DEF Shape, HuskViews
<1> HIDE DEF ok
<1> QED BY <1>2, <1>6, <1>8, <1>9, <1>10, <1>11, <1>12, <1>13, <1>14, WorkKeeps

LEMMA RemoveNodeKeeps ==
  ASSUME IInv, NEW i \in Ids, RemoveNode(i)
  PROVE  IInv'
<1> DEFINE f == Forgotten(g, i)
           u == [truth EXCEPT ![i] = None]
           k == [f EXCEPT !.nodes[i] = None, !.edges = {e \in @ : i \notin Ends(e)}]
<1>1. g' = k /\ Written({})
  BY DEF RemoveNode
<1>2. truth' = u /\ ever' = ever /\ snapshot' = snapshot
  BY DEF RemoveNode
<1>3. Shape(g) /\ truth \in [Ids -> Truths] /\ ever \in [Ids -> SUBSET Texts]
      /\ Genuine(g.nodes, g.cold, g.husks, ever)
      /\ (faults = 0 => Tidy(g) /\ Faithful(g, truth))
  BY DEF IInv
<1>4. None \in Truths /\ u \in [Ids -> Truths]
  BY <1>3 DEF Truths
<1>5. Shape(f) /\ f.nodes = g.nodes /\ f = Forgotten(g, i)
  BY <1>3, ForgottenIs
<1>6. /\ Shape(k) /\ k.nodes = [g.nodes EXCEPT ![i] = None] /\ k.cold = f.cold
      /\ k.husks = f.husks /\ k.blobs = f.blobs /\ k.torn = f.torn
  <2> HIDE DEF f
  <2> QED BY <1>3, <1>5 DEF Shape, Fields
<1> HIDE DEF f, k
<1>7. /\ Tidy(g) => Tidy(k)
      /\ k.nodes[i] = None /\ k.cold[i] = None /\ k.husks[i] = None
      /\ \A j \in Ids : j # i => /\ k.nodes[j] = g.nodes[j] /\ k.cold[j] = g.cold[j]
                                 /\ k.husks[j] = g.husks[j]
      /\ Faithful(g, truth) => Faithful(k, u)
  <2> DEFINE c == None
  <2>1. c \in Truths /\ u[i] = c /\ (\A j \in Ids : j # i => u[j] = truth[j])
        /\ k.nodes = [g.nodes EXCEPT ![i] = c]
    BY <1>3, <1>4, <1>6
  <2> HIDE DEF c, u
  <2>2. Rewrites(g, k, i, c)
    BY <1>3, <1>5, <1>6, <2>1 DEF Rewrites
  <2>3. /\ Tidy(g) => Tidy(k)
        /\ k.nodes[i] = c /\ k.cold[i] = None /\ k.husks[i] = None
        /\ \A j \in Ids : j # i => /\ k.nodes[j] = g.nodes[j] /\ k.cold[j] = g.cold[j]
                                   /\ k.husks[j] = g.husks[j]
    BY <2>2, RewrittenIs
  <2>4. ASSUME Faithful(g, truth) PROVE Faithful(k, u)
    BY <2>1, <2>2, <2>4, RewrittenFaithful
  <2> QED BY <2>3, <2>4 DEF c
<1> HIDE DEF u
<1>8. Genuine(k.nodes, k.cold, k.husks, ever')
  BY <1>2, <1>3, <1>7 DEF Genuine
<1>9. \A j \in Ids : g.husks[j] # None => g.husks[j].content.text \in ever'[j]
  BY <1>2, <1>3 DEF Genuine
<1>10. Step(k, g', TRUE)
  BY <1>1, <1>6, StepReflexive
<1>11. /\ IndicesWritten(g) /\ faults' \in Nat /\ synced' \in BOOLEAN
       /\ faults' = 0 => faults = 0
       /\ synced' => synced /\ g' = g
  BY <1>1, WrittenIs
<1>12. faults' = 0 => faults = 0 /\ TRUE /\ Tidy(k) /\ Faithful(k, truth')
  BY <1>2, <1>3, <1>7, <1>11
<1>13. truth' \in [Ids -> Truths] /\ g.husks \in HuskViews
  BY <1>2, <1>3, <1>4 DEF Shape, HuskViews
<1>14. ever' \in [Ids -> SUBSET Texts] /\ \A j \in Ids : ever[j] \subseteq ever'[j]
  BY <1>2, <1>3
<1> QED BY <1>2, <1>6, <1>8, <1>9, <1>10, <1>11, <1>12, <1>13, <1>14, WorkKeeps

\* What page_in and the setters have in common: nothing is ingested.
LEMMA TiersKeep ==
  ASSUME IInv, NEW h0, Shape(h0), NEW F, Written(F), Step(h0, g', F = {}),
         h0.nodes = g.nodes, h0.cold = g.cold, h0.husks = g.husks,
         h0.blobs = g.blobs, h0.torn = g.torn,
         UNCHANGED <<snapshot, truth, ever>>
  PROVE  IInv'
<1> DEFINE ok == F = {}
<1>1. truth' = truth /\ ever' = ever /\ snapshot' = snapshot
  OBVIOUS
<1>2. Shape(g) /\ truth \in [Ids -> Truths] /\ ever \in [Ids -> SUBSET Texts]
      /\ Genuine(g.nodes, g.cold, g.husks, ever)
      /\ (faults = 0 => Tidy(g) /\ Faithful(g, truth))
  BY DEF IInv
<1>3. /\ IndicesWritten(g) /\ faults' \in Nat /\ synced' \in BOOLEAN
      /\ faults' = 0 => faults = 0 /\ ok
      /\ synced' => synced /\ g' = g
  BY WrittenIs
<1>4. Tidy(g) /\ Faithful(g, truth) => Tidy(h0) /\ Faithful(h0, truth)
  <2>1. /\ Referenced(h0) = Referenced(g) /\ \A i \in Ids : Held(h0, i) = Held(g, i)
        /\ \A i \in Ids : Alone(h0, i) <=> Alone(g, i)
    BY SameTiers
  <2> QED BY <2>1 DEF Tidy, Lax, Faithful
<1>5. faults' = 0 => faults = 0 /\ ok /\ Tidy(h0) /\ Faithful(h0, truth')
  BY <1>1, <1>2, <1>3, <1>4
<1>6. truth' \in [Ids -> Truths] /\ g.husks \in HuskViews
  BY <1>1, <1>2 DEF Shape, HuskViews
<1>7. /\ Genuine(h0.nodes, h0.cold, h0.husks, ever')
      /\ \A j \in Ids : g.husks[j] # None => g.husks[j].content.text \in ever'[j]
  BY <1>1, <1>2 DEF Genuine
<1>8. ever' \in [Ids -> SUBSET Texts] /\ \A j \in Ids : ever[j] \subseteq ever'[j]
  BY <1>1, <1>2
<1>9. Step(h0, g', ok)
  OBVIOUS
<1> HIDE DEF ok
<1> QED BY <1>1, <1>3, <1>5, <1>6, <1>7, <1>8, <1>9, WorkKeeps

LEMMA PageInKeeps ==
  ASSUME IInv, NEW i \in Ids, PageIn(i)
  PROVE  IInv'
<1>1. PICK F \in Failures :
         /\ \E h \in Paged(Linked(Faulted(g, i), i), {i}) : g' \in Budgeted(h, F)
         /\ Written(F)
  BY DEF PageIn
<1>2. Faultable(g, i) /\ UNCHANGED <<snapshot, truth, ever>> /\ Shape(g)
  BY DEF PageIn, IInv
<1>3. Step(g, g', F = {})
  BY <1>1, <1>2, PageInStep
<1> QED BY <1>1, <1>2, <1>3, TiersKeep

LEMMA SetMaxResidentKeeps ==
  ASSUME IInv, NEW cap \in Caps, SetMaxResident(cap)
  PROVE  IInv'
<1> DEFINE k == [g EXCEPT !.cap = cap]
<1>1. PICK F \in Failures : g' \in EnforcedPaging(k, F) /\ Written(F)
  BY DEF SetMaxResident
<1>2. UNCHANGED <<snapshot, truth, ever>> /\ Shape(g)
  BY DEF SetMaxResident, IInv
<1>3. /\ Shape(k) /\ k.nodes = g.nodes /\ k.cold = g.cold /\ k.husks = g.husks
      /\ k.blobs = g.blobs /\ k.torn = g.torn
  BY <1>2 DEF Shape, Fields
<1> HIDE DEF k
<1>4. Step(k, g', F = {})
  BY <1>1, <1>3, EnforcedPagingStep
<1> QED BY <1>1, <1>2, <1>3, <1>4, TiersKeep

LEMMA SetBudgetKeeps ==
  ASSUME IInv, SetBudget
  PROVE  IInv'
<1>1. PICK F \in Failures : g' \in Budgeted(g, F) /\ Written(F)
  BY DEF SetBudget
<1>2. UNCHANGED <<snapshot, truth, ever>> /\ Shape(g)
  BY DEF SetBudget, IInv
<1>3. Step(g, g', F = {})
  BY <1>1, <1>2, BudgetedStep
<1> QED BY <1>1, <1>2, <1>3, TiersKeep

LEMMA AddEdgeKeeps ==
  ASSUME IInv, NEW e \in Links, AddEdge(e)
  PROVE  IInv'
<1>1. g' = [g EXCEPT !.edges = @ \cup {e}] /\ synced' = (synced /\ g' = g)
      /\ UNCHANGED <<husksDisk, snapshot, truth, ever, faults>>
  BY DEF AddEdge
<1>2. /\ Shape(g') /\ g'.nodes = g.nodes /\ g'.cold = g.cold /\ g'.husks = g.husks
      /\ g'.blobs = g.blobs /\ g'.torn = g.torn
  BY <1>1 DEF IInv, Shape, Fields
<1>3. ASSUME faults' = 0 PROVE Tidy(g') /\ Faithful(g', truth')
  <2>1. /\ Referenced(g') = Referenced(g) /\ \A i \in Ids : Held(g', i) = Held(g, i)
        /\ \A i \in Ids : Alone(g', i) <=> Alone(g, i)
    BY <1>2, SameTiers
  <2>2. Tidy(g) /\ Faithful(g, truth)
    BY <1>1, <1>3 DEF IInv
  <2> QED BY <1>1, <1>2, <2>1, <2>2 DEF Tidy, Lax, Faithful
<1>4. synced' \in BOOLEAN /\ (synced' => synced)
  BY <1>1
<1>5. synced' => InSync'
  BY <1>1, <1>2, <1>4 DEF IInv, InSync
<1>6. /\ SavedOK(snapshot)' /\ husksDisk' \in HuskViews /\ truth' \in [Ids -> Truths]
      /\ ever' \in [Ids -> SUBSET Texts] /\ faults' \in Nat
      /\ Genuine(g.nodes, g.cold, g.husks, ever)'
      /\ Genuine(snapshot.nodes, snapshot.cold, husksDisk, ever)'
  BY <1>1, <1>2 DEF IInv, SavedOK, Genuine
<1> QED BY <1>2, <1>3, <1>4, <1>5, <1>6 DEF IInv

\* `checkpoint`, and `checkpoint_to` that also flushes the indices.
LEMMA CheckpointKeeps ==
  ASSUME IInv, Checkpoint \/ CheckpointTo
  PROVE  IInv'
<1>0. \/ husksDisk' = husksDisk /\ synced' = synced
      \/ husksDisk' = g.husks /\ synced' = TRUE
  BY DEF Checkpoint, CheckpointTo
<1>1. /\ UNCHANGED <<g, truth, ever, faults>> /\ synced' \in BOOLEAN
      /\ husksDisk' \in {husksDisk, g.husks}
      /\ synced' => husksDisk' = g.husks
  <2>1. UNCHANGED <<g, truth, ever, faults>>
    BY DEF Checkpoint, CheckpointTo
  <2>2. synced \in BOOLEAN /\ (synced => husksDisk = g.husks)
    BY DEF IInv, InSync
  <2>3. CASE husksDisk' = husksDisk /\ synced' = synced
    BY <2>1, <2>2, <2>3
  <2>4. CASE husksDisk' = g.husks /\ synced' = TRUE
    BY <2>1, <2>4
  <2> QED BY <1>0, <2>3, <2>4
<1>2. PICK b : snapshot' = Saved(g, truth, b)
  BY DEF Checkpoint, CheckpointTo
<1>3. /\ snapshot'.nodes = g.nodes /\ snapshot'.cold = g.cold
      /\ snapshot'.edges = g.edges /\ snapshot'.truth = truth
  BY <1>2 DEF Saved
<1>4. Shape(g) /\ truth \in [Ids -> Truths] /\ Genuine(g.nodes, g.cold, g.husks, ever)
      /\ Genuine(snapshot.nodes, snapshot.cold, husksDisk, ever) /\ husksDisk \in HuskViews
  BY DEF IInv
<1>5. SavedOK(snapshot') /\ husksDisk' \in HuskViews
  BY <1>1, <1>3, <1>4 DEF SavedOK, Shape, HuskViews
<1>6. Genuine(snapshot'.nodes, snapshot'.cold, husksDisk', ever')
  BY <1>1, <1>3, <1>4 DEF Genuine
<1>7. synced' \in BOOLEAN /\ (synced' => InSync')
  BY <1>1, <1>3 DEF IInv, InSync
<1>8. /\ Shape(g') /\ truth' \in [Ids -> Truths] /\ ever' \in [Ids -> SUBSET Texts]
      /\ faults' \in Nat /\ Genuine(g'.nodes, g'.cold, g'.husks, ever')
      /\ faults' = 0 => Tidy(g') /\ Faithful(g', truth')
  BY <1>1 DEF IInv
<1> QED BY <1>5, <1>6, <1>7, <1>8 DEF IInv

LEMMA CrashReopenKeeps ==
  ASSUME IInv, CrashReopen
  PROVE  IInv'
<1> DEFINE v == Reloaded
           k == Attached(v)
           ok == {} = {}
<1>1. PICK S, D : g' = DeepSpilled(SpilledOut(k, S, {}), D, {})
  BY DEF CrashReopen
<1>2. /\ IndicesWritten(v) /\ truth' = snapshot.truth /\ ever' = ever
      /\ snapshot' = snapshot
      /\ faults' = (IF synced THEN faults ELSE faults + 1)
  BY DEF CrashReopen
<1>3. synced' = (synced /\ g' = g)
  BY DEF CrashReopen
<1>4. Shape(g) /\ SavedOK(snapshot) /\ husksDisk \in HuskViews /\ faults \in Nat
      /\ Genuine(snapshot.nodes, snapshot.cold, husksDisk, ever)
      /\ ever \in [Ids -> SUBSET Texts]
  BY DEF IInv
<1>5. /\ DOMAIN v = Fields /\ v.nodes = snapshot.nodes /\ v.cold = snapshot.cold
      /\ v.edges = snapshot.edges /\ v.husks = husksDisk
      /\ v.blobs = g.blobs /\ v.torn = g.torn
  BY <1>4 DEF Reloaded, Shape, Fields
<1>6. /\ DOMAIN k = DOMAIN v /\ k.nodes = v.nodes /\ k.cold = v.cold
      /\ k.edges = v.edges /\ k.husks = v.husks /\ k.blobs = v.blobs /\ k.torn = v.torn
  <2> HIDE DEF v
  <2> QED BY <1>5 DEF Attached, Fields
<1> HIDE DEF v, k
<1>7. Shape(k)
  BY <1>4, <1>5, <1>6 DEF Shape, SavedOK, HuskViews
<1>8. Step(k, SpilledOut(k, S, {}), ok)
  BY <1>7, SpilledOutStep
<1>9. Shape(SpilledOut(k, S, {}))
  BY <1>8 DEF Step, Moves
<1>10. Step(SpilledOut(k, S, {}), g', ok)
  BY <1>1, <1>9, DeepSpilledStep
<1>11. ok
  OBVIOUS
<1> HIDE DEF ok
<1>12. Step(k, g', ok)
  BY <1>8, <1>10, StepTransitive
<1>13. faults' \in Nat /\ (faults' = 0 => synced /\ faults = 0)
  BY <1>2, <1>4
<1>14. synced' \in BOOLEAN /\ (synced' => synced /\ g' = g)
  BY <1>3
<1>15. synced => v.husks = g.husks
  BY <1>5 DEF IInv, InSync
<1>16. ASSUME faults' = 0 PROVE Tidy(k) /\ Faithful(k, truth')
  <2>1. Tidy(g) /\ Faithful(g, truth) /\ truth' = truth
        /\ k.nodes = g.nodes /\ k.cold = g.cold /\ k.husks = g.husks
    BY <1>2, <1>5, <1>6, <1>13, <1>16 DEF IInv, InSync
  <2>2. /\ Referenced(k) = Referenced(g) /\ \A i \in Ids : Held(k, i) = Held(g, i)
        /\ \A i \in Ids : Alone(k, i) <=> Alone(g, i)
    BY <2>1, SameTiers
  <2> QED BY <1>5, <1>6, <2>1, <2>2 DEF Tidy, Lax, Faithful
<1>17. /\ Genuine(k.nodes, k.cold, k.husks, ever')
       /\ \A j \in Ids : v.husks[j] # None => v.husks[j].content.text \in ever'[j]
  BY <1>2, <1>4, <1>5, <1>6 DEF Genuine
<1>18. truth' \in [Ids -> Truths] /\ v.husks \in HuskViews
  BY <1>2, <1>4, <1>5 DEF SavedOK
<1>19. ever' \in [Ids -> SUBSET Texts] /\ \A j \in Ids : ever[j] \subseteq ever'[j]
  BY <1>2, <1>4
<1>20. /\ faults' = 0 => faults = 0 /\ ok /\ Tidy(k) /\ Faithful(k, truth')
       /\ synced' => synced /\ g' = g /\ v.husks = g.husks
  BY <1>11, <1>13, <1>14, <1>15, <1>16
<1> QED BY <1>2, <1>7, <1>12, <1>13, <1>14, <1>17, <1>18, <1>19, <1>20, WorkKeeps

LEMMA NextIInv == IInv /\ [Next]_vars => IInv'
<1> SUFFICES ASSUME IInv, [Next]_vars PROVE IInv'
  OBVIOUS
<1>1. ASSUME NEW i \in Ids, NEW t \in Texts, UpsertNode(i, t) PROVE IInv'
  BY <1>1, UpsertNodeKeeps
<1>2. ASSUME NEW i \in Ids, RemoveNode(i) PROVE IInv'
  BY <1>2, RemoveNodeKeeps
<1>3. ASSUME NEW i \in Ids, PageIn(i) PROVE IInv'
  BY <1>3, PageInKeeps
<1>4. ASSUME NEW e \in Links, AddEdge(e) PROVE IInv'
  BY <1>4, AddEdgeKeeps
<1>5. ASSUME NEW cap \in Caps, SetMaxResident(cap) PROVE IInv'
  BY <1>5, SetMaxResidentKeeps
<1>6. CASE SetBudget
  BY <1>6, SetBudgetKeeps
<1>7. CASE Checkpoint \/ CheckpointTo
  BY <1>7, CheckpointKeeps
<1>8. CASE CrashReopen
  BY <1>8, CrashReopenKeeps
<1>9. CASE UNCHANGED vars
  BY <1>9 DEF vars, IInv, InSync
<1> QED BY <1>1, <1>2, <1>3, <1>4, <1>5, <1>6, <1>7, <1>8, <1>9 DEF Next

LEMMA AlwaysIInv == Spec => []IInv
BY InitIInv, NextIInv, PTL DEF Spec

-----------------------------------------------------------------------------

\* Never a silent wrong restore: whatever crashed, and whatever write was cut
\* short, the content that `page_in` and `node` give for a node is one that
\* `upsert_node` was given for it, as it was or shortened.
THEOREM RestoresAlwaysGenuine == Spec => []RestoresAreGenuine
<1>1. ASSUME IInv PROVE RestoresAreGenuine
  <2>1. ASSUME NEW i \in Ids, Retrieved(g, i) # None
        PROVE  Retrieved(g, i).text \in ever[i]
    <3>1. Shape(g) /\ Genuine(g.nodes, g.cold, g.husks, ever)
      BY <1>1 DEF IInv
    <3>2. /\ g.cold[i] # None => EntryContent(g, i) \in {g.cold[i].content, None}
          /\ g.husks[i] # None => HuskContent(g, i) \in {g.husks[i].content, None}
      BY <3>1, ContentRead
    <3>3. /\ g.nodes[i] # None => g.nodes[i].text \in ever[i]
          /\ g.cold[i] # None => g.cold[i].content.text \in ever[i]
          /\ g.husks[i] # None => g.husks[i].content.text \in ever[i]
      BY <3>1 DEF Genuine
    <3> QED BY <2>1, <3>2, <3>3 DEF Retrieved, Husks, Entries
  <2> QED BY <2>1 DEF RestoresAreGenuine
<1> QED BY <1>1, AlwaysIInv, PTL

\* Lossless round-trip: while no write was cut short and no crash lost work,
\* every live node pages back with the content that was last ingested for it
\* (a summary of it, if a content budget may compact), whatever tier it sank
\* to, and nothing comes back for a node that was removed.
THEOREM LosslessAlways == Spec => []LosslessRoundTrip
<1>1. ASSUME IInv PROVE LosslessRoundTrip
  <2>1. ASSUME faults = 0, NEW i \in Ids PROVE Retrieved(g, i) \in Versions(truth[i])
    <3>1. Shape(g) /\ Tidy(g) /\ Faithful(g, truth)
      BY <1>1, <2>1 DEF IInv
    <3>2. CASE Held(g, i) = {}
      <4>1. g.nodes[i] = None /\ g.cold[i] = None /\ g.husks[i] = None
        BY <3>1, <3>2, HeldIs
      <4>2. truth[i] = None
        BY <3>1, <3>2 DEF Faithful
      <4> QED BY <4>1, <4>2 DEF Retrieved, Husks, Entries, Versions
    <3>3. CASE Held(g, i) # {}
      <4>1. g.nodes[i] # None \/ g.cold[i] # None \/ g.husks[i] # None
        BY <3>1, <3>3, HeldIs
      <4>2. /\ g.cold[i] # None => EntryContent(g, i) = g.cold[i].content
            /\ g.husks[i] # None => HuskContent(g, i) = g.husks[i].content
        BY <3>1, TidyReads
      <4>3. g.husks[i] # None => g.husks[i].content # None
        BY <3>1, ContentRead, NoneAssumption
      <4>4. /\ g.nodes[i] # None => g.nodes[i] \in Held(g, i)
            /\ g.cold[i] # None => g.cold[i].content \in Held(g, i)
            /\ g.husks[i] # None => g.husks[i].content \in Held(g, i)
        BY <3>1, HeldIs
      <4>5. Retrieved(g, i) \in Held(g, i)
        BY <4>1, <4>2, <4>3, <4>4 DEF Retrieved, Husks, Entries
      <4> QED BY <3>1, <4>5 DEF Faithful
    <3> QED BY <3>2, <3>3
  <2> QED BY <2>1 DEF LosslessRoundTrip
<1> QED BY <1>1, AlwaysIInv, PTL

\* Recovery: both of the above in every state, before and after any crash.
THEOREM AlwaysRecoverable == Spec => []Recoverable
<1>1. LosslessRoundTrip /\ RestoresAreGenuine => Recoverable
  BY DEF Recoverable
<1> QED BY <1>1, LosslessAlways, RestoresAlwaysGenuine, PTL

\* No leaked blobs, and none that is missing: while no write was cut short and
\* no crash lost work, a blob is on disk exactly while an entry or a husk
\* refers to it, although contents share blobs.
THEOREM BlobsNeverLeak == Spec => []NoLeakedBlobs
<1>1. ASSUME IInv PROVE NoLeakedBlobs
  <2>1. ASSUME faults = 0 PROVE g.blobs = Referenced(g)
    BY <1>1, <2>1 DEF IInv, Tidy, Lax
  <2> QED BY <2>1 DEF NoLeakedBlobs
<1> QED BY <1>1, AlwaysIInv, PTL

\* A node is in one tier only: an upsert, a removal or a `page_in` leaves no
\* shadow of it in the cold tier or in the husk store.
THEOREM AlwaysOneTier == Spec => []OneTier
<1>1. ASSUME IInv PROVE OneTier
  <2>1. ASSUME faults = 0, NEW i \in Ids
        PROVE  Cardinality({T \in {<<"nodes", g.nodes[i]>>, <<"cold", g.cold[i]>>,
                                   <<"husks", g.husks[i]>>} : T[2] # None}) <= 1
    <3> DEFINE a == <<"nodes", g.nodes[i]>>  b == <<"cold", g.cold[i]>>
               c == <<"husks", g.husks[i]>>
               W == {T \in {a, b, c} : T[2] # None}
    <3>1. Alone(g, i)
      BY <1>1, <2>1 DEF IInv, Tidy, Lax
    <3>2. \E x : W \subseteq {x}
      <4>1. CASE g.nodes[i] # None
        BY <3>1, <4>1 DEF Alone
      <4>2. CASE g.nodes[i] = None /\ g.cold[i] # None
        BY <3>1, <4>2 DEF Alone
      <4>3. CASE g.nodes[i] = None /\ g.cold[i] = None
        BY <4>3
      <4> QED BY <4>1, <4>2, <4>3
    <3> HIDE DEF W
    <3>3. PICK x : W \subseteq {x}
      BY <3>2
    <3>4. Cardinality({x}) = 1 /\ IsFiniteSet({x})
      BY FS_Singleton
    <3>5. Cardinality(W) <= Cardinality({x})
      BY <3>3, <3>4, FS_Subset
    <3>6. Cardinality(W) <= 1
      BY <3>4, <3>5
    <3> QED BY <3>6 DEF W
  <2> QED BY <2>1 DEF OneTier
<1> QED BY <1>1, AlwaysIInv, PTL

-----------------------------------------------------------------------------
\* The links: where they are archived, and what the reverse index says.

\* An archived link of `k` joins `i` and `j`.
Joins(h, k, i, j) == \E e \in ArchivedLinks(h, k) : Ends(e) = {i, j}

\* The reverse index holds the two ends of each archived link and no other
\* pair; a node archives only links of its own, and a link, whatever its
\* direction, is archived with one of its ends only.
Indexed(h) ==
    /\ \A i, j \in Ids : <<i, j>> \in h.radj <=> \E k \in {i, j} : Joins(h, k, i, j)
    /\ \A i \in Ids : \A e \in ArchivedLinks(h, i) : i \in Ends(e)
    /\ \A i, j \in Ids : \A e \in ArchivedLinks(h, i), f \in ArchivedLinks(h, j) :
          Ends(e) = Ends(f) => i = j

Apart(h) == \A i \in Ids : Alone(h, i)

\* No link of the resident graph dangles.
Anchored(h) == \A e \in h.edges : Ends(e) \subseteq Resident(h)

Capped(h) ==
    /\ h.cap \in Caps /\ IsFiniteSet(Resident(h))
    /\ Cardinality(Resident(h)) <= h.cap

\* The blob files and the pairs of the reverse index have their types.
Filed(h) ==
    /\ h.blobs \cup h.torn \subseteq Blobs /\ h.blobs \cap h.torn = {}
    /\ h.radj \subseteq Ids \X Ids

\* What a tier operation that leaves the resident graph alone has to keep: the
\* links that each node archives, in whichever tier, and the reverse index.
Quiet(h, k) ==
    /\ k.nodes = h.nodes /\ k.edges = h.edges /\ k.cap = h.cap /\ k.radj = h.radj
    /\ Filed(h) => Filed(k)
    /\ Apart(h) =>
          /\ Apart(k)
          /\ \A i \in Ids : ArchivedLinks(k, i) = ArchivedLinks(h, i)

LEMMA QuietTransitive ==
  ASSUME NEW h, NEW k, NEW l, Quiet(h, k), Quiet(k, l)
  PROVE  Quiet(h, l)
<1>1. /\ l.nodes = h.nodes /\ l.edges = h.edges /\ l.cap = h.cap /\ l.radj = h.radj
      /\ Filed(h) => Filed(l)
  BY DEF Quiet
<1>2. ASSUME Apart(h)
      PROVE  Apart(l) /\ \A i \in Ids : ArchivedLinks(l, i) = ArchivedLinks(h, i)
  BY <1>2 DEF Quiet
<1> QED BY <1>1, <1>2 DEF Quiet

LEMMA LinkEnds ==
  ASSUME NEW e \in Links
  PROVE  /\ e[1] \in Ids /\ e[2] \in Ids /\ e[1] # e[2] /\ Ends(e) = {e[1], e[2]}
         /\ Ends(e) \subseteq Ids
BY ColdTierAssumption DEF ColdTierAssumption, Ends

LEMMA ArchivedIs ==
  ASSUME NEW h, Shape(h), NEW i \in Ids
  PROVE  /\ ArchivedLinks(h, i) \subseteq Links
         /\ h.cold[i] = None /\ h.husks[i] = None => ArchivedLinks(h, i) = {}
         /\ h.cold[i] # None /\ h.husks[i] = None => ArchivedLinks(h, i) = h.cold[i].links
         /\ h.cold[i] = None /\ h.husks[i] # None => ArchivedLinks(h, i) = h.husks[i].links
<1>1. \A e : e \in ArchivedLinks(h, i) <=>
               \/ h.cold[i] # None /\ e \in h.cold[i].links
               \/ h.husks[i] # None /\ e \in h.husks[i].links
  BY DEF ArchivedLinks, Entries, Husks
<1>2. /\ h.cold[i] # None => h.cold[i].links \in SUBSET Links
      /\ h.husks[i] # None => h.husks[i].links \in SUBSET Links
  BY ContentRead
<1> QED BY <1>1, <1>2

\* The index is exact for any graph that archives the same links and has the
\* same pairs.
LEMMA QuietIndexed ==
  ASSUME NEW h, NEW k, Quiet(h, k), Apart(h)
  PROVE  /\ Apart(k)
         /\ Indexed(h) => Indexed(k)
         /\ Known(k) = Known(h)
         /\ Anchored(h) => Anchored(k)
         /\ Capped(h) => Capped(k)
<1>1. /\ Apart(k) /\ k.radj = h.radj /\ k.edges = h.edges /\ k.nodes = h.nodes /\ k.cap = h.cap
      /\ \A i \in Ids : ArchivedLinks(k, i) = ArchivedLinks(h, i)
  BY DEF Quiet
<1>2. \A m, i, j \in Ids : Joins(k, m, i, j) <=> Joins(h, m, i, j)
  BY <1>1 DEF Joins
<1>3. ASSUME Indexed(h) PROVE Indexed(k)
  <2>1. ASSUME NEW i \in Ids, NEW j \in Ids
        PROVE  <<i, j>> \in k.radj <=> \E m \in {i, j} : Joins(k, m, i, j)
    <3>1. \A m \in {i, j} : Joins(k, m, i, j) <=> Joins(h, m, i, j)
      BY <1>2, <2>1
    <3>2. <<i, j>> \in h.radj <=> \E m \in {i, j} : Joins(h, m, i, j)
      BY <1>3, <2>1 DEF Indexed
    <3> QED BY <1>1, <3>1, <3>2
  <2> QED BY <1>1, <1>3, <2>1 DEF Indexed
<1>4. Known(k) = Known(h)
  BY <1>1 DEF Known
<1>5. Resident(k) = Resident(h)
  BY <1>1 DEF Resident
<1> QED BY <1>1, <1>3, <1>4, <1>5 DEF Anchored, Capped

\* Without `Apart`: the resident graph, at least.
LEMMA QuietResident ==
  ASSUME NEW h, NEW k, Quiet(h, k)
  PROVE  /\ Anchored(h) => Anchored(k)
         /\ Capped(h) => Capped(k)
         /\ Filed(h) => Filed(k)
BY DEF Quiet, Anchored, Capped, Resident

-----------------------------------------------------------------------------
\* The budget passes, and the restores, keep the links.

LEMMA ReleasedRest ==
  ASSUME NEW h, DOMAIN h = Fields, NEW bs, NEW r, r = Released(h, bs)
  PROVE  r.cap = h.cap /\ r.radj = h.radj /\ (Filed(h) => Filed(r))
<1>1. /\ r.cap = h.cap /\ r.radj = h.radj
      /\ r.blobs = h.blobs \ (bs \ Referenced(h)) /\ r.torn = h.torn \ (bs \ Referenced(h))
  BY DEF Released, Fields
<1> QED BY <1>1 DEF Filed

LEMMA ReleasedQuiet ==
  ASSUME NEW h, NEW k, DOMAIN k = Fields, Quiet(h, k), NEW bs
  PROVE  Quiet(h, Released(k, bs))
<1> DEFINE r == Released(k, bs)
<1>1. /\ r.nodes = k.nodes /\ r.cold = k.cold /\ r.husks = k.husks /\ r.edges = k.edges
  BY ReleasedIs
<1>2. r.cap = k.cap /\ r.radj = k.radj /\ (Filed(k) => Filed(r))
  BY ReleasedRest
<1> HIDE DEF r
<1>3. \A i \in Ids : /\ ArchivedLinks(r, i) = ArchivedLinks(k, i)
                     /\ Alone(r, i) <=> Alone(k, i)
  BY <1>1 DEF ArchivedLinks, Entries, Husks, Alone
<1>4. Quiet(k, r)
  BY <1>1, <1>2, <1>3 DEF Quiet, Apart
<1>5. Quiet(h, r)
  BY <1>4, QuietTransitive
<1> QED BY <1>5 DEF r

LEMMA StoredRest ==
  ASSUME NEW h, DOMAIN h = Fields, NEW bs \in SUBSET Blobs, NEW cut \in SUBSET Blobs,
         NEW r, r = Stored(h, bs, cut)
  PROVE  r.cap = h.cap /\ r.radj = h.radj /\ (Filed(h) => Filed(r))
<1> DEFINE c == cut \ (h.blobs \cup h.torn)
<1>1. /\ r.cap = h.cap /\ r.radj = h.radj
      /\ r.blobs = h.blobs \cup (bs \ (h.torn \cup c)) /\ r.torn = h.torn \cup c
  BY DEF Stored, Fields
<1> QED BY <1>1 DEF Filed

\* One entry, or husk, for another with the same links.
Swapped(h, k, i) ==
    /\ Alone(h, i) /\ k.nodes = h.nodes
    /\ \/ k.cold[i] = h.cold[i] /\ k.husks[i] = h.husks[i]
       \/ /\ h.cold[i] # None /\ k.cold[i] # None /\ k.husks[i] = None
          /\ k.cold[i].links = h.cold[i].links
       \/ /\ h.cold[i] # None /\ k.cold[i] = None /\ k.husks[i] # None
          /\ k.husks[i].links = h.cold[i].links
       \/ /\ h.husks[i] # None /\ k.cold[i] # None /\ k.husks[i] = None
          /\ k.cold[i].links = h.husks[i].links

LEMMA SwappedLinks ==
  ASSUME NEW h, Shape(h), NEW k, Shape(k), NEW i \in Ids, Swapped(h, k, i)
  PROVE  Alone(k, i) /\ ArchivedLinks(k, i) = ArchivedLinks(h, i)
<1>1. CASE k.cold[i] = h.cold[i] /\ k.husks[i] = h.husks[i]
  BY <1>1 DEF Swapped, Alone, ArchivedLinks, Entries, Husks
<1>2. CASE ~(k.cold[i] = h.cold[i] /\ k.husks[i] = h.husks[i])
  <2>1. /\ Alone(h, i) /\ k.nodes = h.nodes
        /\ h.cold[i] # None \/ h.husks[i] # None
        /\ k.cold[i] = None \/ k.husks[i] = None
    BY <1>2 DEF Swapped
  <2>2. Alone(k, i)
    BY <2>1 DEF Alone
  <2>3. CASE h.cold[i] # None
    <3>1. h.husks[i] = None
      BY <2>1, <2>3 DEF Alone
    <3>2. ArchivedLinks(h, i) = h.cold[i].links
      BY <2>3, <3>1, ArchivedIs
    <3>3. \/ k.cold[i] # None /\ k.husks[i] = None /\ k.cold[i].links = h.cold[i].links
          \/ k.cold[i] = None /\ k.husks[i] # None /\ k.husks[i].links = h.cold[i].links
      BY <1>2, <2>3, <3>1 DEF Swapped
    <3>4. ArchivedLinks(k, i) = h.cold[i].links
      BY <3>3, ArchivedIs
    <3> QED BY <2>2, <3>2, <3>4
  <2>4. CASE h.cold[i] = None
    <3>1. h.husks[i] # None
      BY <2>1, <2>4
    <3>2. ArchivedLinks(h, i) = h.husks[i].links
      BY <2>4, <3>1, ArchivedIs
    <3>3. k.cold[i] # None /\ k.husks[i] = None /\ k.cold[i].links = h.husks[i].links
      BY <1>2, <2>4 DEF Swapped
    <3>4. ArchivedLinks(k, i) = h.husks[i].links
      BY <3>3, ArchivedIs
    <3> QED BY <2>2, <3>2, <3>4
  <2> QED BY <2>3, <2>4
<1> QED BY <1>1, <1>2

LEMMA EntryLinks ==
  ASSUME NEW c, NEW links, NEW s
  PROVE  Entry(c, links, s).links = links
BY DEF Entry

LEMMA CompactedQuiet ==
  ASSUME NEW h, Shape(h), NEW C
  PROVE  Quiet(h, Compacted(h, C))
<1> DEFINE ids == {i \in C \cap Entries(h) :
                     ~h.cold[i].content.short /\ EntryContent(h, i) # None}
           k == [h EXCEPT !.cold =
                    [i \in Ids |->
                        IF i \in ids
                        THEN Entry(Short(EntryContent(h, i)), h.cold[i].links, FALSE)
                        ELSE h.cold[i]]]
           bs == {EntryBlob(h, i) : i \in ids \cap Spilled(h)}
<1>1. /\ DOMAIN k = Fields /\ k.edges = h.edges /\ k.nodes = h.nodes
      /\ k.cold = [i \in Ids |-> IF i \in ids
                        THEN Entry(Short(EntryContent(h, i)), h.cold[i].links, FALSE)
                        ELSE h.cold[i]]
      /\ k.husks = h.husks /\ k.blobs = h.blobs /\ k.torn = h.torn
      /\ k.cap = h.cap /\ k.radj = h.radj
  BY DEF Shape, Fields
<1>2. ids \subseteq Ids /\ \A i \in ids : h.cold[i] # None /\ EntryContent(h, i) # None
  BY DEF Entries
<1>3. Compacted(h, C) = Released(k, bs)
  BY DEF Compacted
<1> HIDE DEF ids, k, bs
<1>4. ASSUME NEW i \in ids
      PROVE  /\ i \in Ids /\ k.cold[i] \in ColdNodes /\ k.cold[i] # None
             /\ k.cold[i].links = h.cold[i].links
  <2> DEFINE c == Short(EntryContent(h, i))  links == h.cold[i].links
  <2>1. i \in Ids /\ EntryContent(h, i) \in Contents /\ links \in SUBSET Links
    BY <1>2, ContentRead
  <2>2. c \in Contents /\ links \in SUBSET Links /\ k.cold[i] = Entry(c, links, FALSE)
    BY <1>1, <2>1, ShortOK
  <2> HIDE DEF c, links
  <2>3. k.cold[i] \in ColdNodes /\ k.cold[i] # None
    BY <2>2, EntryOK
  <2>4. k.cold[i].links = links
    BY <2>2 DEF Entry
  <2> QED BY <2>1, <2>3, <2>4 DEF links
<1>5. \A i \in Ids \ ids : k.cold[i] = h.cold[i]
  BY <1>1
<1>6. Shape(k)
  <2>1. \A i \in Ids : k.cold[i] \in ColdNodes \cup {None}
    BY <1>4, <1>5 DEF Shape
  <2> QED BY <1>1, <2>1 DEF Shape
<1>7. ASSUME Apart(h), NEW i \in Ids
      PROVE  Alone(k, i) /\ ArchivedLinks(k, i) = ArchivedLinks(h, i)
  <2>1. Alone(h, i)
    BY <1>7 DEF Apart
  <2>2. CASE i \in ids
    <3>1. h.cold[i] # None /\ k.cold[i] # None /\ k.cold[i].links = h.cold[i].links
      BY <1>2, <1>4, <2>2
    <3>2. h.husks[i] = None /\ k.husks[i] = None
      BY <2>1, <3>1, <1>1 DEF Alone
    <3>3. Swapped(h, k, i)
      BY <1>1, <2>1, <3>1, <3>2 DEF Swapped
    <3> QED BY <1>6, <1>7, <3>3, SwappedLinks
  <2>3. CASE i \notin ids
    <3>1. Swapped(h, k, i)
      BY <1>1, <1>5, <1>7, <2>1, <2>3 DEF Swapped
    <3> QED BY <1>6, <1>7, <3>1, SwappedLinks
  <2> QED BY <2>2, <2>3
<1>8. Quiet(h, k)
  <2>1. Filed(h) => Filed(k)
    BY <1>1 DEF Filed
  <2> QED BY <1>1, <1>7, <2>1 DEF Quiet, Apart
<1>9. Quiet(h, Released(k, bs))
  BY <1>1, <1>8, ReleasedQuiet
<1> QED BY <1>3, <1>9

LEMMA BlobOK ==
  ASSUME NEW h, Shape(h), NEW i \in Ids
  PROVE  h.cold[i] # None => EntryBlob(h, i) \in Blobs
BY ContentRead DEF EntryBlob, ContentBlob, Blobs

LEMMA SpilledOutQuiet ==
  ASSUME NEW h, Shape(h), NEW S, NEW F
  PROVE  Quiet(h, SpilledOut(h, S, F))
<1> DEFINE inline == Entries(h) \ Spilled(h)
           bs == {EntryBlob(h, i) : i \in (S \ F) \cap inline}
           cut == {EntryBlob(h, i) : i \in F \cap inline}
           s == Stored(h, bs, cut)
           ids == (S \ F) \cap inline
           k == SpilledOut(h, S, F)
<1>1. bs \in SUBSET Blobs /\ cut \in SUBSET Blobs /\ ids \subseteq Ids
      /\ \A i \in ids : h.cold[i] # None
  BY BlobOK DEF Entries
<1>2. DOMAIN h = Fields
  BY DEF Shape
<1>3. /\ DOMAIN s = Fields /\ s.nodes = h.nodes /\ s.husks = h.husks /\ s.edges = h.edges
      /\ s.cap = h.cap /\ s.radj = h.radj /\ (Filed(h) => Filed(s))
  <2> HIDE DEF bs, cut, s
  <2>1. s = Stored(h, bs, cut)
    BY DEF s
  <2> QED BY <1>1, <1>2, <2>1, StoredIs, StoredRest
<1>4. k = [s EXCEPT !.cold = [i \in Ids |-> IF i \in ids
                                THEN Entry(h.cold[i].content, h.cold[i].links, TRUE)
                                ELSE h.cold[i]]]
  BY DEF SpilledOut
<1> HIDE DEF s, ids, k
<1>5. /\ DOMAIN k = Fields /\ k.nodes = h.nodes /\ k.husks = h.husks /\ k.edges = h.edges
      /\ k.cap = h.cap /\ k.radj = h.radj /\ k.blobs = s.blobs /\ k.torn = s.torn
      /\ k.cold = [i \in Ids |-> IF i \in ids
                      THEN Entry(h.cold[i].content, h.cold[i].links, TRUE)
                      ELSE h.cold[i]]
  BY <1>3, <1>4 DEF Fields
<1>6. ASSUME NEW i \in ids
      PROVE  /\ i \in Ids /\ k.cold[i] \in ColdNodes /\ k.cold[i] # None
             /\ k.cold[i].links = h.cold[i].links
  <2> DEFINE c == h.cold[i].content  links == h.cold[i].links
  <2>1. i \in Ids /\ c \in Contents /\ links \in SUBSET Links
    BY <1>1, ContentRead
  <2>2. k.cold[i] = Entry(c, links, TRUE)
    BY <1>5, <2>1
  <2> HIDE DEF c, links
  <2>3. k.cold[i] \in ColdNodes /\ k.cold[i] # None
    BY <2>1, <2>2, EntryOK
  <2>4. k.cold[i].links = links
    BY <2>2 DEF Entry
  <2> QED BY <2>1, <2>3, <2>4 DEF links
<1>7. \A i \in Ids \ ids : k.cold[i] = h.cold[i]
  BY <1>5
<1>8. Shape(k)
  <2>1. \A i \in Ids : k.cold[i] \in ColdNodes \cup {None}
    BY <1>6, <1>7 DEF Shape
  <2> QED BY <1>5, <2>1 DEF Shape
<1>9. ASSUME Apart(h), NEW i \in Ids
      PROVE  Alone(k, i) /\ ArchivedLinks(k, i) = ArchivedLinks(h, i)
  <2>1. Alone(h, i)
    BY <1>9 DEF Apart
  <2>2. CASE i \in ids
    <3>1. h.cold[i] # None /\ k.cold[i] # None /\ k.cold[i].links = h.cold[i].links
      BY <1>1, <1>6, <2>2
    <3>2. h.husks[i] = None /\ k.husks[i] = None
      BY <2>1, <3>1, <1>5 DEF Alone
    <3>3. Swapped(h, k, i)
      BY <1>5, <2>1, <3>1, <3>2 DEF Swapped
    <3> QED BY <1>8, <1>9, <3>3, SwappedLinks
  <2>3. CASE i \notin ids
    <3>1. Swapped(h, k, i)
      BY <1>5, <1>7, <1>9, <2>1, <2>3 DEF Swapped
    <3> QED BY <1>8, <1>9, <3>1, SwappedLinks
  <2> QED BY <2>2, <2>3
<1>10. Filed(h) => Filed(k)
  BY <1>3, <1>5 DEF Filed
<1>11. Quiet(h, k)
  BY <1>5, <1>9, <1>10 DEF Quiet, Apart
<1> QED BY <1>11 DEF k

LEMMA DeepSpilledQuiet ==
  ASSUME NEW h, Shape(h), NEW D, NEW F
  PROVE  Quiet(h, DeepSpilled(h, D, F))
<1> DEFINE body(i) == Body(i, EntryContent(h, i), h.cold[i].links)
           readable == {i \in Entries(h) : EntryContent(h, i) # None}
           ids == (D \ F) \cap readable
           put == {BodyBlob(body(i)) : i \in ids}
           cut == {BodyBlob(body(i)) : i \in D \cap F \cap readable}
           s == Stored(h, put, cut)
           k == [s EXCEPT !.cold = [i \in Ids |-> IF i \in ids THEN None ELSE h.cold[i]],
                          !.husks = [i \in Ids |-> IF i \in ids THEN body(i) ELSE h.husks[i]]]
           bs == {EntryBlob(h, i) : i \in ids \cap Spilled(h)}
<1>1. DeepSpilled(h, D, F) = Released(k, bs)
  BY DEF DeepSpilled
<1>2. \A i \in readable : /\ i \in Ids /\ h.cold[i] # None
                          /\ EntryContent(h, i) \in Contents
                          /\ h.cold[i].links \in SUBSET Links
  BY ContentRead DEF Entries
<1>3. \A i \in readable : /\ body(i) \in Bodies /\ body(i) # None
                          /\ body(i).links = h.cold[i].links
  <2> TAKE i \in readable
  <2> DEFINE c == EntryContent(h, i)  links == h.cold[i].links
  <2>1. i \in Ids /\ c \in Contents /\ links \in SUBSET Links
    BY <1>2
  <2> HIDE DEF c, links
  <2>2. Body(i, c, links) \in Bodies /\ Body(i, c, links) # None
    BY <2>1, BodyOK
  <2>3. Body(i, c, links).links = links
    BY DEF Body
  <2> QED BY <2>2, <2>3 DEF c, links
<1>4. DOMAIN h = Fields
  BY DEF Shape
<1> HIDE DEF body
<1>5. put \in SUBSET Blobs /\ cut \in SUBSET Blobs
  <2>1. \A i \in readable : BodyBlob(body(i)) \in Blobs
    BY <1>3 DEF BodyBlob, Blobs
  <2> QED BY <2>1
<1> HIDE DEF readable
<1>6. /\ DOMAIN s = Fields /\ s.nodes = h.nodes /\ s.edges = h.edges
      /\ s.cap = h.cap /\ s.radj = h.radj /\ (Filed(h) => Filed(s))
  <2> HIDE DEF put, cut, s
  <2>1. s = Stored(h, put, cut)
    BY DEF s
  <2> QED BY <1>4, <1>5, <2>1, StoredIs, StoredRest
<1>7. ids \subseteq readable
  OBVIOUS
<1> HIDE DEF s, ids, bs
<1>8. /\ DOMAIN k = Fields /\ k.nodes = h.nodes /\ k.edges = h.edges
      /\ k.cap = h.cap /\ k.radj = h.radj /\ k.blobs = s.blobs /\ k.torn = s.torn
      /\ k.cold = [i \in Ids |-> IF i \in ids THEN None ELSE h.cold[i]]
      /\ k.husks = [i \in Ids |-> IF i \in ids THEN body(i) ELSE h.husks[i]]
  BY <1>6 DEF Fields
<1> HIDE DEF k
<1>9. \A i \in ids : /\ i \in Ids /\ k.cold[i] = None /\ k.husks[i] = body(i)
                     /\ body(i) \in Bodies /\ body(i) # None
                     /\ body(i).links = h.cold[i].links /\ h.cold[i] # None
  BY <1>2, <1>3, <1>7, <1>8
<1>10. \A i \in Ids \ ids : k.cold[i] = h.cold[i] /\ k.husks[i] = h.husks[i]
  BY <1>8
<1>11. Shape(k)
  <2>1. \A i \in Ids : k.cold[i] \in ColdNodes \cup {None} /\ k.husks[i] \in Bodies \cup {None}
    BY <1>9, <1>10 DEF Shape
  <2> QED BY <1>8, <2>1 DEF Shape
<1>12. ASSUME Apart(h), NEW i \in Ids
       PROVE  Alone(k, i) /\ ArchivedLinks(k, i) = ArchivedLinks(h, i)
  <2>1. Alone(h, i)
    BY <1>12 DEF Apart
  <2>2. Swapped(h, k, i)
    BY <2>1, <1>8, <1>9, <1>10, <1>12 DEF Swapped
  <2> QED BY <2>2, <1>11, <1>12, SwappedLinks
<1>13. Filed(h) => Filed(k)
  BY <1>6, <1>8 DEF Filed
<1>14. Quiet(h, k)
  BY <1>8, <1>12, <1>13 DEF Quiet, Apart
<1>15. Quiet(h, Released(k, bs))
  BY <1>8, <1>14, ReleasedQuiet
<1> QED BY <1>1, <1>15

LEMMA HuskRestoredQuiet ==
  ASSUME NEW h, Shape(h), NEW i \in Ids, h.husks[i] # None, HuskContent(h, i) # None
  PROVE  Quiet(h, HuskRestored(h, i))
<1> DEFINE c == HuskContent(h, i)
           links == h.husks[i].links
           k == [h EXCEPT !.husks[i] = None, !.cold[i] = Entry(c, links, FALSE)]
<1>1. HuskRestored(h, i) = Released(k, {BodyBlob(h.husks[i])})
  BY DEF HuskRestored
<1>2. c \in Contents /\ links \in SUBSET Links
  BY ContentRead
<1>3. /\ DOMAIN k = Fields /\ k.nodes = h.nodes /\ k.edges = h.edges
      /\ k.cap = h.cap /\ k.radj = h.radj /\ k.blobs = h.blobs /\ k.torn = h.torn
      /\ k.cold = [h.cold EXCEPT ![i] = Entry(c, links, FALSE)]
      /\ k.husks = [h.husks EXCEPT ![i] = None]
  BY DEF Shape, Fields
<1> HIDE DEF c, links, k
<1>4. Entry(c, links, FALSE) \in ColdNodes /\ Entry(c, links, FALSE) # None
  BY <1>2, EntryOK
<1>5. Entry(c, links, FALSE).links = links
  BY EntryLinks
<1>6. /\ k.cold[i] \in ColdNodes /\ k.cold[i] # None /\ k.cold[i].links = h.husks[i].links
      /\ k.husks[i] = None
      /\ \A j \in Ids : j # i => k.cold[j] = h.cold[j] /\ k.husks[j] = h.husks[j]
  BY <1>3, <1>4, <1>5 DEF Shape, links
<1>7. Shape(k)
  <2>1. \A j \in Ids : k.cold[j] \in ColdNodes \cup {None} /\ k.husks[j] \in Bodies \cup {None}
    BY <1>6 DEF Shape
  <2> QED BY <1>3, <2>1 DEF Shape
<1>8. ASSUME Apart(h), NEW j \in Ids
      PROVE  Alone(k, j) /\ ArchivedLinks(k, j) = ArchivedLinks(h, j)
  <2>1. Alone(h, j)
    BY <1>8 DEF Apart
  <2>2. Swapped(h, k, j)
    BY <2>1, <1>3, <1>6, <1>8 DEF Swapped
  <2> QED BY <2>2, <1>7, <1>8, SwappedLinks
<1>9. Quiet(h, k)
  <2>1. Filed(h) => Filed(k)
    BY <1>3 DEF Filed
  <2> QED BY <1>3, <1>8, <2>1 DEF Quiet, Apart
<1>10. Quiet(h, Released(k, {BodyBlob(h.husks[i])}))
  BY <1>3, <1>9, ReleasedQuiet
<1> QED BY <1>1, <1>10

LEMMA ContentRestoredQuiet ==
  ASSUME NEW h, Shape(h), NEW i \in Ids, h.cold[i] # None, EntryContent(h, i) # None
  PROVE  Quiet(h, ContentRestored(h, i))
<1> DEFINE c == EntryContent(h, i)
           links == h.cold[i].links
           k == [h EXCEPT !.cold[i] = Entry(c, @.links, FALSE)]
<1>1. ContentRestored(h, i) = Released(k, {EntryBlob(h, i)})
  BY DEF ContentRestored
<1>2. c \in Contents /\ links \in SUBSET Links
  BY ContentRead
<1>3. /\ DOMAIN k = Fields /\ k.nodes = h.nodes /\ k.edges = h.edges
      /\ k.cap = h.cap /\ k.radj = h.radj /\ k.blobs = h.blobs /\ k.torn = h.torn
      /\ k.cold = [h.cold EXCEPT ![i] = Entry(c, links, FALSE)]
      /\ k.husks = h.husks
  BY DEF Shape, Fields
<1> HIDE DEF c, links, k
<1>4. Entry(c, links, FALSE) \in ColdNodes /\ Entry(c, links, FALSE) # None
  BY <1>2, EntryOK
<1>5. Entry(c, links, FALSE).links = links
  BY EntryLinks
<1>6. /\ k.cold[i] \in ColdNodes /\ k.cold[i] # None /\ k.cold[i].links = h.cold[i].links
      /\ \A j \in Ids : j # i => k.cold[j] = h.cold[j]
  BY <1>3, <1>4, <1>5 DEF Shape, links
<1>7. Shape(k)
  <2>1. \A j \in Ids : k.cold[j] \in ColdNodes \cup {None}
    BY <1>6 DEF Shape
  <2> QED BY <1>3, <2>1 DEF Shape
<1>8. ASSUME Apart(h), NEW j \in Ids
      PROVE  Alone(k, j) /\ ArchivedLinks(k, j) = ArchivedLinks(h, j)
  <2>1. Alone(h, j)
    BY <1>8 DEF Apart
  <2>2. h.cold[j] # None => k.husks[j] = None
    BY <2>1, <1>3 DEF Alone
  <2>3. Swapped(h, k, j)
    BY <2>1, <2>2, <1>3, <1>6, <1>8 DEF Swapped
  <2> QED BY <2>3, <1>7, <1>8, SwappedLinks
<1>9. Quiet(h, k)
  <2>1. Filed(h) => Filed(k)
    BY <1>3 DEF Filed
  <2> QED BY <1>3, <1>8, <2>1 DEF Quiet, Apart
<1>10. Quiet(h, Released(k, {EntryBlob(h, i)}))
  BY <1>3, <1>9, ReleasedQuiet
<1> QED BY <1>1, <1>10

LEMMA QuietReflexive == ASSUME NEW h PROVE Quiet(h, h)
BY DEF Quiet

LEMMA FaultedQuiet ==
  ASSUME NEW h, Shape(h), NEW i \in Ids, Faultable(h, i)
  PROVE  Quiet(h, Faulted(h, i))
<1>1. CASE h.husks[i] # None
  <2>1. HuskContent(h, i) # None /\ Faulted(h, i) = HuskRestored(h, i)
    BY <1>1 DEF Faultable, Faulted, Husks
  <2> QED BY <1>1, <2>1, HuskRestoredQuiet
<1>2. CASE h.husks[i] = None /\ h.cold[i].spilled
  <2>1. /\ h.cold[i] # None /\ EntryContent(h, i) # None
        /\ Faulted(h, i) = ContentRestored(h, i)
    BY <1>2 DEF Faultable, Faulted, Husks, Entries, Spilled
  <2> QED BY <2>1, ContentRestoredQuiet
<1>3. CASE h.husks[i] = None /\ ~h.cold[i].spilled
  <2>1. Faulted(h, i) = h
    BY <1>3 DEF Faulted, Husks, Entries, Spilled
  <2> QED BY <2>1, QuietReflexive
<1> QED BY <1>1, <1>2, <1>3

LEMMA BudgetedQuiet ==
  ASSUME NEW h, Shape(h), NEW F, NEW k \in Budgeted(h, F)
  PROVE  Quiet(h, k)
<1>1. PICK j \in (IF MayCompact THEN {Compacted(h, C) : C \in SUBSET Entries(h)} ELSE {h}) :
         k \in {DeepSpilled(SpilledOut(j, S, F), D, F) :
                  S \in SUBSET (Entries(j) \ Spilled(j)), D \in SUBSET Entries(j)}
  BY DEF Budgeted
<1>2. PICK S, D : k = DeepSpilled(SpilledOut(j, S, F), D, F)
  BY <1>1
<1>3. Quiet(h, j) /\ Shape(j)
  <2>1. CASE MayCompact
    <3>1. PICK C : j = Compacted(h, C)
      BY <1>1, <2>1
    <3>2. Step(h, Compacted(h, C), TRUE)
      BY <2>1, CompactedStep
    <3>3. Quiet(h, Compacted(h, C))
      BY CompactedQuiet
    <3> QED BY <3>1, <3>2, <3>3 DEF Step, Moves
  <2>2. CASE ~MayCompact
    BY <1>1, <2>2, QuietReflexive
  <2> QED BY <2>1, <2>2
<1>4. Quiet(j, SpilledOut(j, S, F)) /\ Shape(SpilledOut(j, S, F))
  <2>1. Step(j, SpilledOut(j, S, F), F = {})
    BY <1>3, SpilledOutStep
  <2>2. Quiet(j, SpilledOut(j, S, F))
    BY <1>3, SpilledOutQuiet
  <2> QED BY <2>1, <2>2 DEF Step, Moves
<1>5. Quiet(SpilledOut(j, S, F), k)
  BY <1>2, <1>4, DeepSpilledQuiet
<1>6. Quiet(h, SpilledOut(j, S, F))
  BY <1>3, <1>4, QuietTransitive
<1> QED BY <1>5, <1>6, QuietTransitive

-----------------------------------------------------------------------------
\* Demotion, and the way back.

\* The pairs of a node with the other ends of its links.
LEMMA PairsIs ==
  ASSUME NEW v \in Ids, NEW links, NEW i \in Ids, NEW j \in Ids
  PROVE  <<i, j>> \in Pairs(v, Others(v, links))
            <=> v \in {i, j} /\ \E e \in links : Ends(e) = {i, j}
<1>1. \A x : x \in Others(v, links) <=> x \in Ids /\ \E e \in links : Ends(e) = {v, x}
  BY DEF Others
<1>2. <<i, j>> \in Pairs(v, Others(v, links))
         <=> \/ i = v /\ j \in Others(v, links)
             \/ j = v /\ i \in Others(v, links)
  BY DEF Pairs
<1>3. {i, j} = {j, i}
  OBVIOUS
<1> QED BY <1>1, <1>2, <1>3

LEMMA PairsTyped ==
  ASSUME NEW v \in Ids, NEW links
  PROVE  Pairs(v, Others(v, links)) \subseteq Ids \X Ids
BY DEF Pairs, Others

\* The pairs that `demote` adds to the reverse index.
TakenPairs(h, V, order) == UNION {Pairs(i, Others(i, Taken(h, V, order, i))) : i \in V}

Demotes(h, V, order, k) == Shape(h) /\ V \subseteq Resident(h) /\ k = Demoted(h, V, order)

LEMMA DemotedIs ==
  ASSUME NEW h, NEW V, NEW order, NEW k, Demotes(h, V, order, k)
  PROVE  /\ Shape(k) /\ k.cap = h.cap
         /\ k.edges = {e \in h.edges : Ends(e) \cap V = {}}
         /\ Resident(k) = Resident(h) \ V
         /\ Filed(h) => Filed(k)
         /\ k.radj = h.radj \cup TakenPairs(h, V, order)
         /\ \A i \in Ids \ V : ArchivedLinks(k, i) = ArchivedLinks(h, i)
         /\ Apart(h) => Apart(k)
         /\ Apart(h) => \A i \in V : ArchivedLinks(h, i) = {}
         /\ Apart(h) => \A i \in V : ArchivedLinks(k, i) = Taken(h, V, order, i)
<1> USE DEF Demotes
<1>1. /\ DOMAIN k = Fields /\ k.edges = {e \in h.edges : Ends(e) \cap V = {}}
      /\ k.nodes = [i \in Ids |-> IF i \in V THEN None ELSE h.nodes[i]]
      /\ k.cold = [i \in Ids |-> IF i \in V THEN Entry(h.nodes[i], Taken(h, V, order, i), FALSE)
                                 ELSE h.cold[i]]
      /\ k.husks = h.husks /\ k.blobs = h.blobs /\ k.torn = h.torn /\ k.cap = h.cap
      /\ k.radj = h.radj \cup TakenPairs(h, V, order)
  BY DEF Demoted, Shape, Fields, TakenPairs
<1>2. Shape(k)
  <2>1. Step(h, k, TRUE)
    BY DemotedStep
  <2> QED BY <2>1 DEF Step, Moves
<1>3. V \subseteq Ids /\ \A i \in V : h.nodes[i] # None
  BY DEF Resident
<1>4. Resident(k) = Resident(h) \ V
  BY <1>1 DEF Resident
<1>5. \A i \in Ids \ V : k.cold[i] = h.cold[i] /\ k.nodes[i] = h.nodes[i] /\ k.husks[i] = h.husks[i]
  BY <1>1
<1>6. \A i \in Ids \ V : ArchivedLinks(k, i) = ArchivedLinks(h, i)
  BY <1>5 DEF ArchivedLinks, Entries, Husks
<1>7. ASSUME NEW i \in V
      PROVE k.cold[i] # None /\ k.cold[i].links = Taken(h, V, order, i) /\ k.nodes[i] = None
  <2> DEFINE c == h.nodes[i]  links == Taken(h, V, order, i)
  <2>1. i \in Ids /\ c \in Contents
    BY <1>3, ContentRead
  <2>2. links \in SUBSET Links
    BY DEF Taken, Shape
  <2>3. k.cold[i] = Entry(c, links, FALSE) /\ k.nodes[i] = None
    BY <1>1, <2>1
  <2> HIDE DEF c, links
  <2>4. k.cold[i] # None
    <3>1. Entry(c, links, FALSE) # None
      BY <2>1, <2>2, EntryOK
    <3> QED BY ONLY <2>3, <3>1
  <2>5. k.cold[i].links = links
    BY <2>3 DEF Entry
  <2> QED BY <2>3, <2>4, <2>5 DEF links
<1>8. ASSUME Apart(h), NEW i \in V
      PROVE  /\ h.cold[i] = None /\ h.husks[i] = None /\ k.husks[i] = None
             /\ ArchivedLinks(h, i) = {} /\ ArchivedLinks(k, i) = Taken(h, V, order, i)
  <2>1. i \in Ids /\ h.cold[i] = None /\ h.husks[i] = None /\ k.husks[i] = None
    BY <1>1, <1>3, <1>8 DEF Apart, Alone
  <2>2. ArchivedLinks(h, i) = {}
    BY <2>1, ArchivedIs
  <2>3. ArchivedLinks(k, i) = k.cold[i].links
    BY <2>1, <1>2, <1>7, ArchivedIs
  <2> QED BY <2>1, <2>2, <2>3, <1>7
<1>9. ASSUME Apart(h), NEW i \in Ids PROVE Alone(k, i)
  BY <1>5, <1>7, <1>8, <1>9 DEF Apart, Alone
<1>10. ASSUME Filed(h) PROVE Filed(k)
  <2>1. \A i \in V : Pairs(i, Others(i, Taken(h, V, order, i))) \subseteq Ids \X Ids
    BY <1>3, PairsTyped
  <2>2. TakenPairs(h, V, order) \subseteq Ids \X Ids
    BY <2>1 DEF TakenPairs
  <2> QED BY <2>2, <1>1, <1>10 DEF Filed
<1> QED BY <1>1, <1>2, <1>4, <1>6, <1>8, <1>9, <1>10 DEF Apart

\* Of two victims that share a link one comes first.
LEMMA FirstTakes ==
  ASSUME NEW V, IsFiniteSet(V), NEW order \in Orders(V), NEW i \in V, NEW j \in V
  PROVE  /\ order[i] <= order[j] \/ order[j] <= order[i]
         /\ order[i] <= order[i]
         /\ order[i] <= order[j] /\ order[j] <= order[i] => i = j
<1>1. Cardinality(V) \in Nat
  BY FS_CardinalityType
<1>2. order[i] \in Nat /\ order[j] \in Nat /\ (order[i] = order[j] => i = j)
  BY <1>1 DEF Orders
<1> QED BY <1>2

\* `demote` archives each link of the victims with one of them, and tells the
\* reverse index.
LEMMA DemotedIndexed ==
  ASSUME NEW h, Shape(h), NEW V \in SUBSET Resident(h), IsFiniteSet(V),
         NEW order \in Orders(V), Apart(h), Anchored(h),
         NEW k, k = Demoted(h, V, order)
  PROVE  /\ Anchored(k) /\ Apart(k) /\ Known(h) \subseteq Known(k)
         /\ Indexed(h) => Indexed(k)
<1> DEFINE took(i) == Taken(h, V, order, i)
<1>1. /\ Shape(k) /\ Apart(k) /\ k.edges = {e \in h.edges : Ends(e) \cap V = {}}
      /\ Resident(k) = Resident(h) \ V
      /\ k.radj = h.radj \cup UNION {Pairs(i, Others(i, took(i))) : i \in V}
      /\ \A i \in Ids \ V : ArchivedLinks(k, i) = ArchivedLinks(h, i)
      /\ \A i \in V : ArchivedLinks(h, i) = {} /\ ArchivedLinks(k, i) = took(i)
  <2>0. Demotes(h, V, order, k)
    BY DEF Demotes
  <2>1. /\ Shape(k) /\ k.edges = {e \in h.edges : Ends(e) \cap V = {}}
        /\ Resident(k) = Resident(h) \ V
        /\ \A i \in Ids \ V : ArchivedLinks(k, i) = ArchivedLinks(h, i)
    BY <2>0, DemotedIs
  <2>2. k.radj = h.radj \cup TakenPairs(h, V, order)
    BY <2>0, DemotedIs
  <2>3. /\ Apart(k) /\ \A i \in V : ArchivedLinks(h, i) = {}
        /\ \A i \in V : ArchivedLinks(k, i) = Taken(h, V, order, i)
    BY <2>0, DemotedIs
  <2>4. k.radj = h.radj \cup UNION {Pairs(i, Others(i, took(i))) : i \in V}
    BY <2>2 DEF TakenPairs
  <2> QED BY <2>1, <2>3, <2>4
<1>2. Anchored(k)
  BY <1>1 DEF Anchored
<1>3. \A i \in V : \A e : e \in took(i) <=>
         e \in h.edges /\ i \in Ends(e) /\ \A j \in V \cap Ends(e) : order[i] <= order[j]
  BY DEF Taken
<1>4. V \subseteq Ids
  BY DEF Resident
<1> HIDE DEF took
<1>5. Known(h) \subseteq Known(k)
  <2>1. ASSUME NEW e \in h.edges PROVE e \in Known(k)
    <3>1. CASE Ends(e) \cap V = {}
      BY <3>1, <2>1, <1>1 DEF Known
    <3>2. CASE Ends(e) \cap V # {}
      <4>1. Ends(e) = {e[1], e[2]}
        BY DEF Ends
      <4>2. PICK i \in V \cap Ends(e) : \A j \in V \cap Ends(e) : order[i] <= order[j]
        <5>1. CASE e[1] \in V /\ e[2] \in V
          <6>1. \/ order[e[1]] <= order[e[2]] /\ order[e[1]] <= order[e[1]]
                \/ order[e[2]] <= order[e[1]] /\ order[e[2]] <= order[e[2]]
            BY <5>1, FirstTakes
          <6> QED BY <6>1, <5>1, <4>1
        <5>2. CASE e[1] \in V /\ e[2] \notin V
          <6>1. order[e[1]] <= order[e[1]]
            BY <5>2, FirstTakes
          <6> QED BY <6>1, <5>2, <4>1
        <5>3. CASE e[1] \notin V /\ e[2] \in V
          <6>1. order[e[2]] <= order[e[2]]
            BY <5>3, FirstTakes
          <6> QED BY <6>1, <5>3, <4>1
        <5> QED BY <3>2, <4>1, <5>1, <5>2, <5>3
      <4>3. e \in took(i)
        BY <4>2, <2>1, <1>3
      <4>4. e \in ArchivedLinks(k, i) /\ i \in Ids
        BY <4>3, <1>1, <1>4
      <4> QED BY <4>4 DEF Known
    <3> QED BY <3>1, <3>2
  <2>2. ASSUME NEW i \in Ids, NEW e \in ArchivedLinks(h, i) PROVE e \in Known(k)
    <3>1. i \notin V
      BY <2>2, <1>1
    <3>2. e \in ArchivedLinks(k, i)
      BY <2>2, <3>1, <1>1
    <3> QED BY <3>2, <2>2 DEF Known
  <2> QED BY <2>1, <2>2 DEF Known
<1>6. ASSUME Indexed(h) PROVE Indexed(k)
  <2>1. ASSUME NEW i \in Ids, NEW e \in ArchivedLinks(k, i) PROVE i \in Ends(e)
    <3>1. CASE i \in V
      BY <3>1, <2>1, <1>1, <1>3
    <3>2. CASE i \notin V
      BY <3>2, <2>1, <1>1, <1>6 DEF Indexed
    <3> QED BY <3>1, <3>2
  <2>2. ASSUME NEW i \in V, NEW j \in Ids, j \notin V,
               NEW e \in ArchivedLinks(k, i), NEW f \in ArchivedLinks(k, j)
        PROVE  Ends(e) # Ends(f)
    <3>1. f \in ArchivedLinks(h, j) /\ j \in Ends(f)
      BY <2>2, <1>1, <1>6 DEF Indexed
    <3>2. e \in h.edges /\ Ends(e) \subseteq Resident(h)
      BY <2>2, <1>1, <1>3 DEF Anchored
    <3>3. ASSUME j \in Resident(h) PROVE FALSE
      <4>1. h.cold[j] = None /\ h.husks[j] = None
        BY <3>3, <2>2 DEF Apart, Alone, Resident
      <4>2. ArchivedLinks(h, j) = {}
        BY <4>1, ArchivedIs
      <4> QED BY <4>2, <3>1
    <3> QED BY <3>1, <3>2, <3>3
  <2>3. ASSUME NEW i \in Ids, NEW j \in Ids, NEW e \in ArchivedLinks(k, i),
               NEW f \in ArchivedLinks(k, j), Ends(e) = Ends(f)
        PROVE  i = j
    <3>1. CASE i \in V /\ j \in V
      <4>1. e \in took(i) /\ f \in took(j)
        BY <3>1, <2>3, <1>1
      <4>2. i \in V \cap Ends(f) /\ j \in V \cap Ends(e)
        BY <4>1, <3>1, <2>3, <1>3
      <4>3. order[i] <= order[j] /\ order[j] <= order[i]
        BY <4>1, <4>2, <3>1, <1>3
      <4> QED BY <4>3, <3>1, FirstTakes
    <3>2. CASE i \in V /\ j \notin V
      BY <3>2, <2>2, <2>3
    <3>3. CASE i \notin V /\ j \in V
      BY <3>3, <2>2, <2>3
    <3>4. CASE i \notin V /\ j \notin V
      <4>1. e \in ArchivedLinks(h, i) /\ f \in ArchivedLinks(h, j)
        BY <3>4, <2>3, <1>1
      <4> QED BY <4>1, <2>3, <1>6 DEF Indexed
    <3> QED BY <3>1, <3>2, <3>3, <3>4
  <2>4. ASSUME NEW i \in Ids, NEW j \in Ids
        PROVE  <<i, j>> \in k.radj <=> \E m \in {i, j} : Joins(k, m, i, j)
    <3>1. <<i, j>> \in k.radj <=>
             \/ <<i, j>> \in h.radj
             \/ \E v \in V : <<i, j>> \in Pairs(v, Others(v, took(v)))
      BY <1>1
    <3>2. ASSUME NEW v \in V
          PROVE  <<i, j>> \in Pairs(v, Others(v, took(v)))
                    <=> v \in {i, j} /\ Joins(k, v, i, j)
      <4> DEFINE links == took(v)
      <4>1. ArchivedLinks(k, v) = links /\ v \in Ids
        BY <3>2, <1>1, <1>4
      <4> HIDE DEF links
      <4>2. <<i, j>> \in Pairs(v, Others(v, links))
              <=> v \in {i, j} /\ \E e \in links : Ends(e) = {i, j}
        BY <4>1, <2>4, PairsIs
      <4> QED BY <4>1, <4>2 DEF Joins, links
    <3>3. ASSUME NEW m \in {i, j}, m \notin V
          PROVE  Joins(k, m, i, j) <=> Joins(h, m, i, j)
      BY <3>3, <2>4, <1>1 DEF Joins
    <3>4. ASSUME NEW m \in {i, j}, m \in V PROVE ~Joins(h, m, i, j)
      BY <3>4, <1>1 DEF Joins
    <3>5. <<i, j>> \in h.radj <=> \E m \in {i, j} : Joins(h, m, i, j)
      BY <2>4, <1>6 DEF Indexed
    <3> QED BY <3>1, <3>2, <3>3, <3>4, <3>5
  <2> QED BY <2>1, <2>3, <2>4 DEF Indexed
<1> QED BY <1>1, <1>2, <1>5, <1>6

\* What a node archived is dropped, and so are its pairs.
LEMMA DroppedIndexed ==
  ASSUME NEW h, Indexed(h), NEW i \in Ids, NEW k,
         k.radj = h.radj \ Pairs(i, Others(i, ArchivedLinks(h, i))),
         ArchivedLinks(k, i) = {},
         \A j \in Ids : j # i => ArchivedLinks(k, j) = ArchivedLinks(h, j)
  PROVE  Indexed(k)
<1>1. ASSUME NEW a \in Ids, NEW b \in Ids
      PROVE  <<a, b>> \in k.radj <=> \E m \in {a, b} : Joins(k, m, a, b)
  <2> DEFINE links == ArchivedLinks(h, i)
  <2>1. <<a, b>> \in Pairs(i, Others(i, links))
           <=> i \in {a, b} /\ \E e \in links : Ends(e) = {a, b}
    <3> HIDE DEF links
    <3> QED BY <1>1, PairsIs
  <2>2. <<a, b>> \in h.radj <=> \E m \in {a, b} : Joins(h, m, a, b)
    BY <1>1 DEF Indexed
  <2>3. ASSUME NEW m \in {a, b}, m # i PROVE Joins(k, m, a, b) <=> Joins(h, m, a, b)
    BY <2>3, <1>1 DEF Joins
  <2>4. ~Joins(k, i, a, b)
    BY DEF Joins
  <2>5. ASSUME NEW m \in {a, b}, m # i, Joins(h, m, a, b), Joins(h, i, a, b) PROVE FALSE
    <3>1. m \in Ids
      BY <1>1, <2>5
    <3> QED BY <2>5, <3>1 DEF Joins, Indexed
  <2>6. <<a, b>> \in k.radj <=>
          <<a, b>> \in h.radj /\ ~(i \in {a, b} /\ Joins(h, i, a, b))
    BY <2>1 DEF Joins
  <2>7. Joins(h, i, a, b) => i \in {a, b}
    BY DEF Joins, Indexed
  <2> QED BY <2>2, <2>3, <2>4, <2>5, <2>6, <2>7
<1>2. \A j \in Ids : \A e \in ArchivedLinks(k, j) : e \in ArchivedLinks(h, j) /\ j # i
  OBVIOUS
<1> QED BY <1>1, <1>2 DEF Indexed

LEMMA LinkedIndexed ==
  ASSUME NEW h, Shape(h), NEW i \in Ids, h.cold[i] # None, NEW k, k = Linked(h, i)
  PROVE  /\ k.cap = h.cap /\ (Filed(h) => Filed(k))
         /\ Resident(k) = Resident(h) \cup {i}
         /\ Anchored(h) => Anchored(k)
         /\ Apart(h) => Apart(k)
         /\ Apart(h) /\ Indexed(h) => Indexed(k)
         /\ Apart(h) => \A e \in Known(h) :
               (e \in ArchivedLinks(h, i) => Ends(e) \subseteq Resident(k)) => e \in Known(k)
<1> DEFINE nodes == [h.nodes EXCEPT ![i] = h.cold[i].content]
           back == {e \in h.cold[i].links : \A j \in Ends(e) : nodes[j] # None}
<1>1. /\ DOMAIN k = Fields /\ k.nodes = nodes /\ k.edges = h.edges \cup back
      /\ k.cold = [h.cold EXCEPT ![i] = None] /\ k.husks = h.husks /\ k.cap = h.cap
      /\ k.blobs = h.blobs /\ k.torn = h.torn
      /\ k.radj = h.radj \ Pairs(i, Others(i, h.cold[i].links))
  BY DEF Linked, Shape, Fields
<1>2. h.cold[i].content # None /\ h.cold[i].links \in SUBSET Links
  BY ContentRead, NoneAssumption
<1>3. /\ nodes[i] # None /\ \A j \in Ids : j # i => nodes[j] = h.nodes[j]
      /\ k.cold[i] = None /\ \A j \in Ids : j # i => k.cold[j] = h.cold[j]
  BY <1>1, <1>2 DEF Shape
<1>4. Resident(k) = Resident(h) \cup {i}
  BY <1>1, <1>3 DEF Resident
<1>5. \A e \in h.cold[i].links : e \in back <=> Ends(e) \subseteq Resident(k)
  <2> TAKE e \in h.cold[i].links
  <2>1. Ends(e) \subseteq Ids
    BY <1>2, LinkEnds
  <2> QED BY <2>1, <1>1 DEF Resident
<1> HIDE DEF nodes, back
<1>6. ASSUME Anchored(h) PROVE Anchored(k)
  <2>1. \A e \in back : e \in h.cold[i].links
    BY DEF back
  <2> QED BY <1>1, <1>4, <1>5, <1>6, <2>1 DEF Anchored
<1>7. Filed(h) => Filed(k)
  BY <1>1 DEF Filed
<1>8. ASSUME Apart(h)
      PROVE  /\ Apart(k) /\ h.husks[i] = None
             /\ ArchivedLinks(h, i) = h.cold[i].links /\ ArchivedLinks(k, i) = {}
             /\ \A j \in Ids : j # i => ArchivedLinks(k, j) = ArchivedLinks(h, j)
  <2>1. h.husks[i] = None /\ k.husks[i] = None
    BY <1>1, <1>8 DEF Apart, Alone
  <2>2. Apart(k)
    BY <2>1, <1>1, <1>3, <1>8 DEF Apart, Alone
  <2>3. ArchivedLinks(h, i) = h.cold[i].links
    BY <2>1, ArchivedIs
  <2>4. ArchivedLinks(k, i) = {}
    BY <2>1, <1>3 DEF ArchivedLinks, Entries, Husks
  <2>5. \A j \in Ids : j # i => ArchivedLinks(k, j) = ArchivedLinks(h, j)
    BY <1>1, <1>3 DEF ArchivedLinks, Entries, Husks
  <2> QED BY <2>1, <2>2, <2>3, <2>4, <2>5
<1>9. ASSUME Apart(h), Indexed(h) PROVE Indexed(k)
  <2>1. k.radj = h.radj \ Pairs(i, Others(i, ArchivedLinks(h, i)))
    BY <1>1, <1>8, <1>9
  <2> QED BY <2>1, <1>8, <1>9, DroppedIndexed
<1>10. ASSUME Apart(h), NEW e \in Known(h),
              e \in ArchivedLinks(h, i) => Ends(e) \subseteq Resident(k)
       PROVE  e \in Known(k)
  <2>1. CASE e \in h.edges
    BY <2>1, <1>1 DEF Known
  <2>2. CASE e \in ArchivedLinks(h, i)
    <3>1. e \in back
      BY <2>2, <1>5, <1>8, <1>10
    <3> QED BY <3>1, <1>1 DEF Known
  <2>3. ASSUME NEW j \in Ids, j # i, e \in ArchivedLinks(h, j) PROVE e \in Known(k)
    <3>1. e \in ArchivedLinks(k, j)
      BY <2>3, <1>8, <1>10
    <3> QED BY <3>1, <2>3 DEF Known
  <2>4. e \in h.edges \/ \E j \in Ids : e \in ArchivedLinks(h, j)
    BY <1>10 DEF Known
  <2> QED BY <2>1, <2>2, <2>3, <2>4
<1> QED BY <1>1, <1>4, <1>6, <1>7, <1>8, <1>9, <1>10

LEMMA ForgottenIndexed ==
  ASSUME NEW h, Shape(h), NEW i \in Ids, NEW r, r = Forgotten(h, i)
  PROVE  /\ r.edges = h.edges /\ r.cap = h.cap /\ (Filed(h) => Filed(r))
         /\ Apart(h) => Apart(r)
         /\ Apart(h) /\ Indexed(h) => Indexed(r)
<1> DEFINE k == [h EXCEPT !.cold[i] = None, !.husks[i] = None,
                          !.radj = @ \ Pairs(i, Others(i, ArchivedLinks(h, i)))]
           bs == (IF i \in Spilled(h) THEN {EntryBlob(h, i)} ELSE {})
                   \cup (IF i \in Husks(h) THEN {BodyBlob(h.husks[i])} ELSE {})
<1>0. r = Released(k, bs)
  BY DEF Forgotten
<1>1. /\ DOMAIN k = Fields /\ k.edges = h.edges /\ k.cap = h.cap
      /\ k.blobs = h.blobs /\ k.torn = h.torn
      /\ k.radj = h.radj \ Pairs(i, Others(i, ArchivedLinks(h, i)))
  BY DEF Shape, Fields
<1> HIDE DEF k, bs
<1>2. Filed(h) => Filed(k)
  BY <1>1 DEF Filed
<1>3. r.edges = h.edges /\ r.cap = h.cap /\ (Filed(h) => Filed(r))
      /\ r.radj = h.radj \ Pairs(i, Others(i, ArchivedLinks(h, i)))
  <2>1. r.edges = k.edges
    BY <1>0, <1>1, ReleasedIs
  <2>2. r.cap = k.cap /\ r.radj = k.radj /\ (Filed(k) => Filed(r))
    BY <1>0, <1>1, ReleasedRest
  <2> QED BY <2>1, <2>2, <1>1, <1>2
<1>4. /\ r.nodes = h.nodes /\ r.cold[i] = None /\ r.husks[i] = None
      /\ \A j \in Ids : j # i => r.cold[j] = h.cold[j] /\ r.husks[j] = h.husks[j]
  BY ForgottenIs
<1>5. Apart(h) => Apart(r)
  BY <1>4 DEF Apart, Alone
<1>6. ArchivedLinks(r, i) = {}
      /\ \A j \in Ids : j # i => ArchivedLinks(r, j) = ArchivedLinks(h, j)
  BY <1>4 DEF ArchivedLinks, Entries, Husks
<1>7. Indexed(h) => Indexed(r)
  BY <1>3, <1>6, DroppedIndexed
<1> QED BY <1>3, <1>5, <1>7

-----------------------------------------------------------------------------
\* Paging keeps the resident graph within its cap.

\* Enough of the resident nodes are demoted.
LEMMA PagedCap ==
  ASSUME NEW h, h.cap \in Caps, IsFiniteSet(Resident(h)), NEW V \in SUBSET Resident(h),
         Cardinality(V) = Excess(h)
  PROVE  /\ IsFiniteSet(V) /\ IsFiniteSet(Resident(h) \ V)
         /\ Cardinality(Resident(h) \ V) <= h.cap
<1> DEFINE R == Resident(h)  n == Cardinality(R)  m == Cardinality(R \ V)
<1>1. h.cap \in Nat /\ n \in Nat
  BY ColdTierAssumption, FS_CardinalityType DEF ColdTierAssumption
<1>2. IsFiniteSet(V) /\ IsFiniteSet(R \ V)
  BY FS_Subset
<1>3. m \in Nat /\ Cardinality(V) \in Nat
  BY <1>2, FS_CardinalityType
<1>4. m = n - Cardinality(V)
  <2>1. R \cap V = V
    OBVIOUS
  <2>2. Cardinality(R \ V) = Cardinality(R) - Cardinality(R \cap V)
    BY FS_Difference
  <2> QED BY <2>1, <2>2
<1>5. Excess(h) = IF n > h.cap THEN n - h.cap ELSE 0
  BY DEF Excess
<1> HIDE DEF R, n, m
<1>6. m <= h.cap
  BY <1>1, <1>3, <1>4, <1>5
<1> QED BY <1>2, <1>6 DEF R, m

\* What paging does to the links, whatever it demotes.
Pages(h, k) ==
    /\ k.cap = h.cap /\ Resident(k) \subseteq Resident(h)
    /\ Filed(h) => Filed(k)
    /\ Anchored(h) => Anchored(k)
    /\ IsFiniteSet(Resident(h)) /\ h.cap \in Caps => Capped(k)
    /\ Apart(h) => Apart(k)
    /\ IsFiniteSet(Resident(h)) /\ h.cap \in Caps /\ Apart(h) /\ Anchored(h) =>
          /\ Known(h) \subseteq Known(k)
          /\ Indexed(h) => Indexed(k)

LEMMA PagedPages ==
  ASSUME NEW h, Shape(h), NEW keep, NEW k \in Paged(h, keep)
  PROVE  Pages(h, k)
<1>1. PICK V \in SUBSET (Resident(h) \ keep) :
         /\ Cardinality(V) = Excess(h)
         /\ k \in {Demoted(h, V, order) : order \in Orders(V)}
  BY DEF Paged
<1>2. PICK order \in Orders(V) : k = Demoted(h, V, order)
  BY <1>1
<1>3. V \in SUBSET Resident(h)
  BY <1>1
<1>4. Demotes(h, V, order, k)
  BY <1>2, <1>3 DEF Demotes
<1>5. /\ k.cap = h.cap /\ k.edges = {e \in h.edges : Ends(e) \cap V = {}}
      /\ Resident(k) = Resident(h) \ V
      /\ Filed(h) => Filed(k)
      /\ Apart(h) => Apart(k)
  BY <1>4, DemotedIs
<1>6. Anchored(h) => Anchored(k)
  BY <1>5 DEF Anchored
<1>7. ASSUME IsFiniteSet(Resident(h)), h.cap \in Caps PROVE Capped(k) /\ IsFiniteSet(V)
  <2>1. /\ IsFiniteSet(V) /\ IsFiniteSet(Resident(h) \ V)
        /\ Cardinality(Resident(h) \ V) <= h.cap
    BY <1>1, <1>3, <1>7, PagedCap
  <2> QED BY <2>1, <1>5, <1>7 DEF Capped
<1>8. ASSUME IsFiniteSet(Resident(h)), h.cap \in Caps, Apart(h), Anchored(h)
      PROVE  Known(h) \subseteq Known(k) /\ (Indexed(h) => Indexed(k))
  BY <1>2, <1>3, <1>7, <1>8, DemotedIndexed
<1> QED BY <1>5, <1>6, <1>7, <1>8 DEF Pages

LEMMA PagesQuiet ==
  ASSUME NEW h, NEW k, NEW l, Pages(h, k), Quiet(k, l)
  PROVE  Pages(h, l)
<1>1. l.cap = h.cap /\ Resident(l) = Resident(k)
  BY DEF Pages, Quiet, Resident
<1>2. /\ Filed(k) => Filed(l)
      /\ Anchored(k) => Anchored(l)
      /\ Capped(k) => Capped(l)
  BY QuietResident
<1>3. ASSUME Apart(k)
      PROVE  Apart(l) /\ (Indexed(k) => Indexed(l)) /\ Known(l) = Known(k)
  BY <1>3, QuietIndexed
<1> QED BY <1>1, <1>2, <1>3 DEF Pages

LEMMA EnforcedPages ==
  ASSUME NEW h, Shape(h), NEW F, NEW k \in EnforcedPaging(h, F)
  PROVE  Pages(h, k)
<1>1. CASE Excess(h) = 0
  <2>1. k = h
    BY <1>1 DEF EnforcedPaging
  <2>2. ASSUME IsFiniteSet(Resident(h)), h.cap \in Caps PROVE Capped(h)
    <3>1. Cardinality(Resident(h)) \in Nat /\ h.cap \in Nat
      BY <2>2, ColdTierAssumption, FS_CardinalityType DEF ColdTierAssumption
    <3>2. Cardinality(Resident(h)) <= h.cap
      BY <3>1, <1>1 DEF Excess
    <3> QED BY <2>2, <3>2 DEF Capped
  <2> QED BY <2>1, <2>2 DEF Pages
<1>2. CASE Excess(h) # 0
  <2>1. PICK j \in Paged(h, {}) : k \in Budgeted(j, F)
    BY <1>2 DEF EnforcedPaging
  <2>2. Pages(h, j)
    BY <2>1, PagedPages
  <2>3. Shape(j)
    <3>1. Step(h, j, TRUE)
      BY <2>1, PagedStep
    <3> QED BY <3>1 DEF Step, Moves
  <2>4. Quiet(j, k)
    BY <2>1, <2>3, BudgetedQuiet
  <2> QED BY <2>2, <2>4, PagesQuiet
<1> QED BY <1>1, <1>2

\* `page_in` as a whole.
LEMMA PageInPages ==
  ASSUME NEW h, Shape(h), NEW i \in Ids, Faultable(h, i), NEW F,
         NEW p \in Paged(Linked(Faulted(h, i), i), {i}), NEW k \in Budgeted(p, F),
         Anchored(h), IsFiniteSet(Resident(h)), h.cap \in Caps
  PROVE  /\ Anchored(k) /\ Capped(k) /\ (Filed(h) => Filed(k))
         /\ Apart(h) /\ Indexed(h) => Indexed(k)
         /\ Apart(h) => \A e \in Known(h) :
               (e \in ArchivedLinks(h, i) => Ends(e) \subseteq Resident(h) \cup {i})
                  => e \in Known(k)
<1> DEFINE f == Faulted(h, i)
           l == Linked(f, i)
<1>1. Shape(f) /\ f.cold[i] # None
  <2>1. Step(h, f, TRUE) /\ f.cold[i] # None
    BY FaultedStep
  <2> QED BY <2>1 DEF Step, Moves
<1>2. Quiet(h, f)
  BY FaultedQuiet
<1>3. p \in Paged(l, {i})
  OBVIOUS
<1> HIDE DEF f
<1>4. Anchored(f) /\ (Filed(h) => Filed(f)) /\ Resident(f) = Resident(h) /\ f.cap = h.cap
  <2>1. Anchored(f) /\ (Filed(h) => Filed(f))
    BY <1>2, QuietResident
  <2> QED BY <2>1, <1>2 DEF Quiet, Resident
<1>5. ASSUME Apart(h)
      PROVE  /\ Apart(f) /\ (Indexed(h) => Indexed(f)) /\ Known(f) = Known(h)
             /\ ArchivedLinks(f, i) = ArchivedLinks(h, i)
  <2>1. ArchivedLinks(f, i) = ArchivedLinks(h, i)
    BY <1>2, <1>5 DEF Quiet
  <2> QED BY <1>2, <1>5, <2>1, QuietIndexed
<1>6. Shape(l)
  <2>1. Step(f, l, TRUE)
    <3>1. ~f.cold[i].spilled
      BY FaultedStep DEF f
    <3> QED BY <1>1, <3>1, LinkedStep
  <2> QED BY <2>1 DEF Step, Moves
<1>7. /\ l.cap = f.cap /\ (Filed(f) => Filed(l))
      /\ Resident(l) = Resident(f) \cup {i}
      /\ Anchored(f) => Anchored(l)
      /\ Apart(f) => Apart(l)
      /\ Apart(f) /\ Indexed(f) => Indexed(l)
      /\ Apart(f) => \A e \in Known(f) :
            (e \in ArchivedLinks(f, i) => Ends(e) \subseteq Resident(l)) => e \in Known(l)
  BY <1>1, LinkedIndexed
<1> HIDE DEF l
<1>8. Pages(l, p)
  BY <1>3, <1>6, PagedPages
<1>9. Shape(p)
  <2>1. Step(l, p, TRUE)
    BY <1>3, <1>6, PagedStep
  <2> QED BY <2>1 DEF Step, Moves
<1>10. Pages(l, k)
  <2>1. Quiet(p, k)
    BY <1>9, BudgetedQuiet
  <2> QED BY <2>1, <1>8, PagesQuiet
<1>11. IsFiniteSet(Resident(l)) /\ l.cap \in Caps
  <2>1. IsFiniteSet(Resident(h) \cup {i})
    BY FS_AddElement
  <2> QED BY <2>1, <1>4, <1>7
<1>12. /\ Anchored(k) /\ Capped(k) /\ (Filed(h) => Filed(k))
       /\ Apart(l) => Known(l) \subseteq Known(k) /\ (Indexed(l) => Indexed(k))
  BY <1>4, <1>7, <1>10, <1>11 DEF Pages
<1>13. ASSUME Apart(h), Indexed(h) PROVE Indexed(k)
  BY <1>5, <1>7, <1>12, <1>13
<1>14. ASSUME Apart(h), NEW e \in Known(h),
              e \in ArchivedLinks(h, i) => Ends(e) \subseteq Resident(h) \cup {i}
       PROVE  e \in Known(k)
  <2>1. /\ e \in Known(f) /\ Apart(f)
        /\ e \in ArchivedLinks(f, i) => Ends(e) \subseteq Resident(l)
    BY <1>4, <1>5, <1>7, <1>14
  <2>2. e \in Known(l) /\ Apart(l)
    BY <2>1, <1>7
  <2> QED BY <2>2, <1>12
<1> QED BY <1>12, <1>13, <1>14

-----------------------------------------------------------------------------
\* The inductive invariant of the links.

LInv ==
    /\ IInv
    /\ Anchored(g) /\ Capped(g) /\ Filed(g)
    /\ Anchored(snapshot) /\ Capped(snapshot) /\ snapshot.flushed \in BOOLEAN
    /\ radjDisk \subseteq Ids \X Ids
    /\ faults \in 0 .. MaxFaults
    /\ faults = 0 => Indexed(g)
    /\ synced => radjDisk = g.radj /\ snapshot.edges = g.edges /\ snapshot.cap = g.cap

LEMMA InvApart ==
  ASSUME IInv, faults = 0 PROVE Apart(g)
BY DEF IInv, Tidy, Lax, Apart

LEMMA InitLInv == Init => LInv
<1> SUFFICES ASSUME Init PROVE LInv
  OBVIOUS
<1>1. PICK cap \in Caps : /\ g = Empty(cap)
                          /\ snapshot = Saved(Empty(cap), [i \in Ids |-> None], TRUE)
  BY DEF Init
<1>2. /\ g.edges = {} /\ g.nodes = [i \in Ids |-> None] /\ g.cap = cap /\ g.radj = {}
      /\ g.cold = [i \in Ids |-> None] /\ g.husks = [i \in Ids |-> None]
      /\ g.blobs = {} /\ g.torn = {}
  BY <1>1 DEF Empty
<1>3. /\ snapshot.nodes = [i \in Ids |-> None] /\ snapshot.edges = {}
      /\ snapshot.cap = cap /\ snapshot.flushed = TRUE
  BY <1>1 DEF Empty, Saved
<1>4. radjDisk = {} /\ faults = 0
  BY DEF Init
<1>5. Resident(g) = {} /\ Resident(snapshot) = {}
  BY <1>2, <1>3 DEF Resident
<1>6. IsFiniteSet({}) /\ Cardinality({}) = 0 /\ cap \in Nat /\ MaxFaults \in Nat
  BY FS_EmptySet, ColdTierAssumption DEF ColdTierAssumption
<1>7. Anchored(g) /\ Capped(g) /\ Anchored(snapshot) /\ Capped(snapshot)
  BY <1>2, <1>3, <1>5, <1>6 DEF Anchored, Capped
<1>8. Filed(g)
  BY <1>2 DEF Filed
<1>9. \A i \in Ids : ArchivedLinks(g, i) = {}
  BY <1>2 DEF ArchivedLinks, Entries, Husks
<1>10. Indexed(g)
  BY <1>2, <1>9 DEF Indexed, Joins
<1>11. /\ IInv /\ radjDisk \subseteq Ids \X Ids /\ faults \in 0 .. MaxFaults
       /\ snapshot.flushed \in BOOLEAN
  <2>1. 0 \in 0 .. MaxFaults
    BY <1>6
  <2> QED BY <1>3, <1>4, <2>1, InitIInv
<1>12. radjDisk = g.radj /\ snapshot.edges = g.edges /\ snapshot.cap = g.cap
  BY <1>2, <1>3, <1>4
<1> QED BY <1>7, <1>8, <1>10, <1>11, <1>12 DEF LInv

LEMMA RadjWritten ==
  ASSUME NEW v, IndicesWritten(v)
  PROVE  /\ radjDisk' = radjDisk \/ radjDisk' = g'.radj
         /\ g'.radj = v.radj => radjDisk' = radjDisk
BY DEF IndicesWritten

\* What every operation that works on the tiers has in common.
LEMMA LinksKeep ==
  ASSUME LInv, IInv', NEW v, IndicesWritten(v), snapshot' = snapshot,
         Anchored(g'), Capped(g'), Filed(g'), faults' \in 0 .. MaxFaults,
         faults' = 0 => Indexed(g'),
         synced' => synced /\ g' = g /\ v.radj = g.radj
  PROVE  LInv'
<1>1. /\ radjDisk' = radjDisk \/ radjDisk' = g'.radj
      /\ g'.radj = v.radj => radjDisk' = radjDisk
  BY RadjWritten
<1>2. radjDisk' \subseteq Ids \X Ids
  BY <1>1 DEF LInv, Filed
<1>3. ASSUME synced'
      PROVE  radjDisk' = g'.radj /\ snapshot'.edges = g'.edges /\ snapshot'.cap = g'.cap
  BY <1>1, <1>3 DEF LInv
<1>4. Anchored(snapshot') /\ Capped(snapshot') /\ snapshot'.flushed \in BOOLEAN
  BY DEF LInv
<1> QED BY <1>2, <1>3, <1>4 DEF LInv

LEMMA WrittenBound ==
  ASSUME LInv, NEW F \in Failures, Written(F)
  PROVE  /\ IndicesWritten(g) /\ faults' \in 0 .. MaxFaults
         /\ faults' = 0 => faults = 0
         /\ synced' => synced /\ g' = g
<1>1. faults \in 0 .. MaxFaults /\ MaxFaults \in Nat /\ IInv
  BY ColdTierAssumption DEF LInv, ColdTierAssumption
<1>2. faults' = (IF F = {} THEN faults ELSE faults + 1)
  BY DEF Written
<1>3. F # {} => faults < MaxFaults
  BY DEF Failures
<1>4. faults' \in 0 .. MaxFaults
  BY <1>1, <1>2, <1>3
<1> QED BY <1>1, <1>4, WrittenIs

LEMMA UpsertNodeLinks ==
  ASSUME LInv, IInv', NEW i \in Ids, NEW t \in Texts, UpsertNode(i, t)
  PROVE  LInv'
<1> DEFINE f == Forgotten(g, i)
           k == [f EXCEPT !.nodes[i] = Whole(t)]
<1>1. PICK F \in Failures : g' \in EnforcedPaging(k, F) /\ Written(F)
  BY DEF UpsertNode
<1>2. snapshot' = snapshot
  BY DEF UpsertNode
<1>3. Shape(g) /\ IInv /\ Anchored(g) /\ Capped(g) /\ Filed(g)
      /\ (faults = 0 => Apart(g) /\ Indexed(g))
  BY InvApart DEF LInv, IInv
<1>4. /\ Shape(f) /\ f.nodes = g.nodes /\ f.cold[i] = None /\ f.husks[i] = None
  BY <1>3, ForgottenIs
<1>5. /\ f.edges = g.edges /\ f.cap = g.cap /\ Filed(f)
      /\ Apart(g) => Apart(f)
      /\ Apart(g) /\ Indexed(g) => Indexed(f)
  BY <1>3, ForgottenIndexed
<1> HIDE DEF f
<1>6. /\ k.nodes = [f.nodes EXCEPT ![i] = Whole(t)] /\ k.edges = f.edges /\ k.cap = f.cap
      /\ k.cold = f.cold /\ k.husks = f.husks /\ k.radj = f.radj
      /\ k.blobs = f.blobs /\ k.torn = f.torn /\ DOMAIN k = Fields
  BY <1>4 DEF Shape, Fields
<1> HIDE DEF k
<1>7. /\ Whole(t) \in Contents /\ Whole(t) # None /\ k.nodes[i] = Whole(t)
      /\ \A j \in Ids : j # i => k.nodes[j] = g.nodes[j]
  BY <1>4, <1>6, WholeOK DEF Shape
<1>8. Shape(k)
  <2>1. k.nodes \in [Ids -> Contents \cup {None}]
    BY <1>4, <1>6, <1>7 DEF Shape
  <2> QED BY <2>1, <1>4, <1>6 DEF Shape
<1>9. Resident(k) = Resident(g) \cup {i}
  BY <1>7 DEF Resident
<1>10. /\ IsFiniteSet(Resident(k)) /\ k.cap \in Caps /\ Filed(k) /\ Anchored(k)
  <2>1. IsFiniteSet(Resident(g) \cup {i})
    BY <1>3, FS_AddElement DEF Capped
  <2> QED BY <2>1, <1>3, <1>5, <1>6, <1>9 DEF Capped, Filed, Anchored
<1>11. ASSUME faults = 0 PROVE Apart(k) /\ Indexed(k)
  <2>1. Apart(f) /\ Indexed(f)
    BY <1>3, <1>5, <1>11
  <2>2. Apart(k)
    BY <2>1, <1>4, <1>6, <1>7 DEF Apart, Alone
  <2>3. \A j \in Ids : ArchivedLinks(k, j) = ArchivedLinks(f, j)
    BY <1>6 DEF ArchivedLinks, Entries, Husks
  <2>4. \A m, a, b : m \in Ids => (Joins(k, m, a, b) <=> Joins(f, m, a, b))
    BY <2>3 DEF Joins
  <2>5. Indexed(k)
    BY <2>1, <2>3, <2>4, <1>6 DEF Indexed
  <2> QED BY <2>2, <2>5
<1>12. Pages(k, g')
  BY <1>1, <1>8, EnforcedPages
<1>13. Anchored(g') /\ Capped(g') /\ Filed(g')
  BY <1>10, <1>12 DEF Pages
<1>14. faults = 0 => Indexed(g')
  BY <1>10, <1>11, <1>12 DEF Pages
<1>15. /\ IndicesWritten(g) /\ faults' \in 0 .. MaxFaults
       /\ faults' = 0 => faults = 0
       /\ synced' => synced /\ g' = g
  BY <1>1, WrittenBound
<1> QED BY <1>2, <1>13, <1>14, <1>15, LinksKeep

LEMMA RemoveNodeLinks ==
  ASSUME LInv, IInv', NEW i \in Ids, RemoveNode(i)
  PROVE  LInv'
<1> DEFINE f == Forgotten(g, i)
<1>1. /\ g' = [f EXCEPT !.nodes[i] = None, !.edges = {e \in @ : i \notin Ends(e)}]
      /\ Written({}) /\ snapshot' = snapshot
  BY DEF RemoveNode
<1>2. Shape(g) /\ IInv /\ Anchored(g) /\ Capped(g) /\ Filed(g)
      /\ (faults = 0 => Apart(g) /\ Indexed(g))
  BY InvApart DEF LInv, IInv
<1>3. /\ Shape(f) /\ f.nodes = g.nodes /\ f.cold[i] = None /\ f.husks[i] = None
  BY <1>2, ForgottenIs
<1>4. /\ f.edges = g.edges /\ f.cap = g.cap /\ Filed(f)
      /\ Apart(g) /\ Indexed(g) => Indexed(f)
  BY <1>2, ForgottenIndexed
<1> HIDE DEF f
<1>5. /\ g'.nodes = [f.nodes EXCEPT ![i] = None]
      /\ g'.edges = {e \in f.edges : i \notin Ends(e)} /\ g'.cap = f.cap
      /\ g'.cold = f.cold /\ g'.husks = f.husks /\ g'.radj = f.radj
      /\ g'.blobs = f.blobs /\ g'.torn = f.torn
  BY <1>1, <1>3 DEF Shape, Fields
<1>6. Resident(g') = Resident(g) \ {i}
  BY <1>3, <1>5 DEF Resident, Shape
<1>7. Anchored(g') /\ Filed(g')
  BY <1>2, <1>4, <1>5, <1>6 DEF Anchored, Filed
<1>8. Capped(g')
  <2>1. /\ IsFiniteSet(Resident(g')) /\ Cardinality(Resident(g')) <= Cardinality(Resident(g))
    BY <1>2, <1>6, FS_Subset DEF Capped
  <2>2. /\ Cardinality(Resident(g')) \in Nat /\ Cardinality(Resident(g)) \in Nat
        /\ g.cap \in Nat /\ g'.cap = g.cap
    BY <2>1, <1>2, <1>4, <1>5, FS_CardinalityType, ColdTierAssumption
       DEF Capped, ColdTierAssumption
  <2> QED BY <2>1, <2>2, <1>2 DEF Capped
<1>9. ASSUME faults = 0 PROVE Indexed(g')
  <2>1. Indexed(f)
    BY <1>2, <1>4, <1>9
  <2>2. \A j \in Ids : ArchivedLinks(g', j) = ArchivedLinks(f, j)
    BY <1>5 DEF ArchivedLinks, Entries, Husks
  <2>3. \A m, a, b : m \in Ids => (Joins(g', m, a, b) <=> Joins(f, m, a, b))
    BY <2>2 DEF Joins
  <2> QED BY <2>1, <2>2, <2>3, <1>5 DEF Indexed
<1>10. /\ IndicesWritten(g) /\ faults' \in 0 .. MaxFaults
       /\ faults' = 0 => faults = 0
       /\ synced' => synced /\ g' = g
  <2>1. {} \in Failures
    BY DEF Failures
  <2> QED BY <2>1, <1>1, WrittenBound
<1> QED BY <1>1, <1>7, <1>8, <1>9, <1>10, LinksKeep

LEMMA PageInLinks ==
  ASSUME LInv, IInv', NEW i \in Ids, PageIn(i)
  PROVE  LInv'
<1>1. PICK F \in Failures :
         /\ \E p \in Paged(Linked(Faulted(g, i), i), {i}) : g' \in Budgeted(p, F)
         /\ Written(F)
  BY DEF PageIn
<1>2. PICK p \in Paged(Linked(Faulted(g, i), i), {i}) : g' \in Budgeted(p, F)
  BY <1>1
<1>3. Faultable(g, i) /\ snapshot' = snapshot
  BY DEF PageIn
<1>4. /\ Shape(g) /\ Anchored(g) /\ IsFiniteSet(Resident(g)) /\ g.cap \in Caps /\ Filed(g)
      /\ (faults = 0 => Apart(g) /\ Indexed(g))
  BY InvApart DEF LInv, IInv, Capped
<1>5. /\ Anchored(g') /\ Capped(g') /\ (Filed(g) => Filed(g'))
      /\ Apart(g) /\ Indexed(g) => Indexed(g')
  BY <1>2, <1>3, <1>4, PageInPages
<1>6. /\ IndicesWritten(g) /\ faults' \in 0 .. MaxFaults
      /\ faults' = 0 => faults = 0
      /\ synced' => synced /\ g' = g
  BY <1>1, WrittenBound
<1> QED BY <1>3, <1>4, <1>5, <1>6, LinksKeep

LEMMA SetMaxResidentLinks ==
  ASSUME LInv, IInv', NEW cap \in Caps, SetMaxResident(cap)
  PROVE  LInv'
<1> DEFINE k == [g EXCEPT !.cap = cap]
<1>1. PICK F \in Failures : g' \in EnforcedPaging(k, F) /\ Written(F)
  BY DEF SetMaxResident
<1>2. snapshot' = snapshot
  BY DEF SetMaxResident
<1>3. /\ Shape(g) /\ Anchored(g) /\ IsFiniteSet(Resident(g)) /\ Filed(g)
      /\ (faults = 0 => Apart(g) /\ Indexed(g))
  BY InvApart DEF LInv, IInv, Capped
<1>4. /\ Shape(k) /\ k.nodes = g.nodes /\ k.cold = g.cold /\ k.husks = g.husks
      /\ k.blobs = g.blobs /\ k.torn = g.torn /\ k.radj = g.radj /\ k.edges = g.edges
      /\ k.cap = cap
  BY <1>3 DEF Shape, Fields
<1> HIDE DEF k
<1>5. Resident(k) = Resident(g) /\ Filed(k) /\ Anchored(k)
  BY <1>3, <1>4 DEF Resident, Filed, Anchored
<1>6. ASSUME faults = 0 PROVE Apart(k) /\ Indexed(k)
  <2>1. Apart(k)
    BY <1>3, <1>4, <1>6 DEF Apart, Alone
  <2>2. \A j \in Ids : ArchivedLinks(k, j) = ArchivedLinks(g, j)
    BY <1>4 DEF ArchivedLinks, Entries, Husks
  <2>3. \A m, a, b : m \in Ids => (Joins(k, m, a, b) <=> Joins(g, m, a, b))
    BY <2>2 DEF Joins
  <2>4. Indexed(k)
    BY <2>2, <2>3, <1>3, <1>4, <1>6 DEF Indexed
  <2> QED BY <2>1, <2>4
<1>7. Pages(k, g')
  BY <1>1, <1>4, EnforcedPages
<1>8. Anchored(g') /\ Capped(g') /\ Filed(g') /\ (faults = 0 => Indexed(g'))
  BY <1>3, <1>4, <1>5, <1>6, <1>7 DEF Pages
<1>9. /\ IndicesWritten(g) /\ faults' \in 0 .. MaxFaults
      /\ faults' = 0 => faults = 0
      /\ synced' => synced /\ g' = g
  BY <1>1, WrittenBound
<1> QED BY <1>2, <1>8, <1>9, LinksKeep

LEMMA SetBudgetLinks ==
  ASSUME LInv, IInv', SetBudget
  PROVE  LInv'
<1>1. PICK F \in Failures : g' \in Budgeted(g, F) /\ Written(F)
  BY DEF SetBudget
<1>2. snapshot' = snapshot
  BY DEF SetBudget
<1>3. /\ Shape(g) /\ Anchored(g) /\ Capped(g) /\ Filed(g)
      /\ (faults = 0 => Apart(g) /\ Indexed(g))
  BY InvApart DEF LInv, IInv
<1>4. Quiet(g, g')
  BY <1>1, <1>3, BudgetedQuiet
<1>5. Anchored(g') /\ Capped(g') /\ Filed(g')
  BY <1>3, <1>4, QuietResident
<1>6. faults = 0 => Indexed(g')
  BY <1>3, <1>4, QuietIndexed
<1>7. /\ IndicesWritten(g) /\ faults' \in 0 .. MaxFaults
      /\ faults' = 0 => faults = 0
      /\ synced' => synced /\ g' = g
  BY <1>1, WrittenBound
<1> QED BY <1>2, <1>5, <1>6, <1>7, LinksKeep

LEMMA AddEdgeLinks ==
  ASSUME LInv, IInv', NEW e \in Links, AddEdge(e)
  PROVE  LInv'
<1>1. /\ Ends(e) \subseteq Resident(g)
      /\ g' = [g EXCEPT !.edges = @ \cup {e}] /\ synced' = (synced /\ g' = g)
      /\ UNCHANGED <<radjDisk, snapshot, faults>>
  BY DEF AddEdge
<1>2. /\ g'.nodes = g.nodes /\ g'.cold = g.cold /\ g'.husks = g.husks
      /\ g'.blobs = g.blobs /\ g'.torn = g.torn /\ g'.radj = g.radj /\ g'.cap = g.cap
      /\ g'.edges = g.edges \cup {e}
  BY <1>1 DEF LInv, IInv, Shape, Fields
<1>3. Resident(g') = Resident(g)
  BY <1>2 DEF Resident
<1>4. Anchored(g') /\ Capped(g') /\ Filed(g')
  BY <1>1, <1>2, <1>3 DEF LInv, Anchored, Capped, Filed
<1>5. ASSUME faults' = 0 PROVE Indexed(g')
  <2>1. Indexed(g)
    BY <1>1, <1>5 DEF LInv
  <2>2. \A j \in Ids : ArchivedLinks(g', j) = ArchivedLinks(g, j)
    BY <1>2 DEF ArchivedLinks, Entries, Husks
  <2>3. \A m, a, b : m \in Ids => (Joins(g', m, a, b) <=> Joins(g, m, a, b))
    BY <2>2 DEF Joins
  <2> QED BY <2>1, <2>2, <2>3, <1>2 DEF Indexed
<1>6. ASSUME synced'
      PROVE  radjDisk' = g'.radj /\ snapshot'.edges = g'.edges /\ snapshot'.cap = g'.cap
  <2>1. synced /\ g' = g
    BY <1>1, <1>6
  <2> QED BY <2>1, <1>1 DEF LInv
<1>7. /\ Anchored(snapshot') /\ Capped(snapshot') /\ snapshot'.flushed \in BOOLEAN
      /\ radjDisk' \subseteq Ids \X Ids /\ faults' \in 0 .. MaxFaults
  BY <1>1 DEF LInv
<1> QED BY <1>4, <1>5, <1>6, <1>7 DEF LInv

LEMMA CheckpointLinks ==
  ASSUME LInv, IInv', Checkpoint \/ CheckpointTo
  PROVE  LInv'
<1>1. /\ g' = g /\ faults' = faults
      /\ \/ radjDisk' = radjDisk /\ synced' = synced
         \/ radjDisk' = g.radj /\ synced' = TRUE
      /\ \E b \in BOOLEAN : snapshot' = Saved(g, truth, b)
  BY DEF Checkpoint, CheckpointTo
<1>2. /\ snapshot'.nodes = g.nodes /\ snapshot'.edges = g.edges /\ snapshot'.cap = g.cap
      /\ snapshot'.flushed \in BOOLEAN
  BY <1>1 DEF Saved
<1>3. Resident(snapshot') = Resident(g)
  BY <1>2 DEF Resident
<1>4. Anchored(snapshot') /\ Capped(snapshot')
  BY <1>2, <1>3 DEF LInv, Anchored, Capped
<1>5. radjDisk' \subseteq Ids \X Ids
  BY <1>1 DEF LInv, Filed
<1>6. ASSUME synced'
      PROVE  radjDisk' = g'.radj /\ snapshot'.edges = g'.edges /\ snapshot'.cap = g'.cap
  BY <1>1, <1>2, <1>6 DEF LInv
<1>7. /\ Anchored(g') /\ Capped(g') /\ Filed(g') /\ faults' \in 0 .. MaxFaults
      /\ faults' = 0 => Indexed(g')
  BY <1>1 DEF LInv
<1> QED BY <1>2, <1>4, <1>5, <1>6, <1>7 DEF LInv

\* `attach_cold_spill`: what the reverse index had lost is filled up, and what
\* it still has is left alone.
LEMMA AttachedIndexed ==
  ASSUME NEW h, NEW k, k = Attached(h), DOMAIN h = Fields
  PROVE  /\ k.nodes = h.nodes /\ k.edges = h.edges /\ k.cap = h.cap
         /\ k.cold = h.cold /\ k.husks = h.husks
         /\ Filed(h) => Filed(k)
         /\ Indexed(h) => Indexed(k)
<1> DEFINE told == UNION {Pairs(i, Others(i, ArchivedLinks(h, i))) : i \in Ids}
<1>1. /\ k.nodes = h.nodes /\ k.edges = h.edges /\ k.cap = h.cap
      /\ k.cold = h.cold /\ k.husks = h.husks /\ k.blobs = h.blobs /\ k.torn = h.torn
      /\ k.radj = h.radj \cup told
  BY DEF Attached, Fields
<1>2. told \subseteq Ids \X Ids
  <2>1. \A i \in Ids : Pairs(i, Others(i, ArchivedLinks(h, i))) \subseteq Ids \X Ids
    BY PairsTyped
  <2> QED BY <2>1
<1>3. ASSUME NEW a \in Ids, NEW b \in Ids, <<a, b>> \in told
      PROVE  \E m \in {a, b} : Joins(h, m, a, b)
  <2>1. PICK m \in Ids : <<a, b>> \in Pairs(m, Others(m, ArchivedLinks(h, m)))
    BY <1>3
  <2>2. <<a, b>> \in Pairs(m, Others(m, ArchivedLinks(h, m)))
           => m \in {a, b} /\ \E e \in ArchivedLinks(h, m) : Ends(e) = {a, b}
    <3> HIDE DEF told
    <3> DEFINE links == ArchivedLinks(h, m)
    <3> HIDE DEF links
    <3>1. <<a, b>> \in Pairs(m, Others(m, links))
            <=> m \in {a, b} /\ \E e \in links : Ends(e) = {a, b}
      BY <1>3, PairsIs
    <3> QED BY <3>1 DEF links
  <2> QED BY <2>1, <2>2 DEF Joins
<1> HIDE DEF told
<1>4. Filed(h) => Filed(k)
  BY <1>1, <1>2 DEF Filed
<1>5. \A j \in Ids : ArchivedLinks(k, j) = ArchivedLinks(h, j)
  BY <1>1 DEF ArchivedLinks, Entries, Husks
<1>6. \A m, a, b : m \in Ids => (Joins(k, m, a, b) <=> Joins(h, m, a, b))
  BY <1>5 DEF Joins
<1>7. ASSUME Indexed(h) PROVE Indexed(k)
  <2>1. ASSUME NEW a \in Ids, NEW b \in Ids
        PROVE  <<a, b>> \in k.radj <=> \E m \in {a, b} : Joins(k, m, a, b)
    <3>1. <<a, b>> \in h.radj <=> \E m \in {a, b} : Joins(h, m, a, b)
      BY <1>7, <2>1 DEF Indexed
    <3>2. <<a, b>> \in told => \E m \in {a, b} : Joins(h, m, a, b)
      BY <1>3, <2>1
    <3>3. \A m \in {a, b} : Joins(k, m, a, b) <=> Joins(h, m, a, b)
      BY <1>6, <2>1
    <3> QED BY <3>1, <3>2, <3>3, <1>1
  <2> QED BY <2>1, <1>5, <1>7 DEF Indexed
<1> QED BY <1>1, <1>4, <1>7

LEMMA CrashReopenLinks ==
  ASSUME LInv, IInv', CrashReopen
  PROVE  LInv'
<1> DEFINE v == Reloaded
           k == Attached(v)
<1>1. PICK S, D : g' = DeepSpilled(SpilledOut(k, S, {}), D, {})
  BY DEF CrashReopen
<1>2. /\ IndicesWritten(v) /\ snapshot' = snapshot
      /\ synced \/ faults < MaxFaults
      /\ faults' = (IF synced THEN faults ELSE faults + 1)
      /\ synced' = (synced /\ g' = g)
  BY DEF CrashReopen
<1>3. /\ Shape(g) /\ SavedOK(snapshot) /\ husksDisk \in HuskViews /\ Filed(g)
      /\ Anchored(snapshot) /\ Capped(snapshot) /\ radjDisk \subseteq Ids \X Ids
      /\ faults \in 0 .. MaxFaults /\ MaxFaults \in Nat
  BY ColdTierAssumption DEF LInv, IInv, ColdTierAssumption
<1>4. /\ DOMAIN v = Fields /\ v.nodes = snapshot.nodes /\ v.cold = snapshot.cold
      /\ v.edges = snapshot.edges /\ v.cap = snapshot.cap /\ v.husks = husksDisk
      /\ v.radj = radjDisk /\ v.blobs = g.blobs /\ v.torn = g.torn
  BY <1>3 DEF Reloaded, Shape, Fields
<1> HIDE DEF v
<1>5. /\ k.nodes = v.nodes /\ k.edges = v.edges /\ k.cap = v.cap
      /\ k.cold = v.cold /\ k.husks = v.husks
      /\ Filed(v) => Filed(k)
      /\ Indexed(v) => Indexed(k)
  BY <1>4, AttachedIndexed
<1>6. DOMAIN k = Fields
  BY <1>4 DEF Attached, Fields
<1> HIDE DEF k
<1>7. Shape(k)
  BY <1>3, <1>4, <1>5, <1>6 DEF Shape, SavedOK, HuskViews
<1>8. Quiet(k, SpilledOut(k, S, {})) /\ Shape(SpilledOut(k, S, {}))
  <2>1. Step(k, SpilledOut(k, S, {}), {} = {})
    BY <1>7, SpilledOutStep
  <2> QED BY <2>1, <1>7, SpilledOutQuiet DEF Step, Moves
<1>9. Quiet(SpilledOut(k, S, {}), g')
  BY <1>1, <1>8, DeepSpilledQuiet
<1>10. Quiet(k, g')
  BY <1>8, <1>9, QuietTransitive
<1>11. Anchored(k) /\ Capped(k) /\ Filed(k)
  <2>1. Resident(k) = Resident(snapshot)
    BY <1>4, <1>5 DEF Resident
  <2>2. Filed(v)
    BY <1>3, <1>4 DEF Filed
  <2> QED BY <2>1, <2>2, <1>3, <1>4, <1>5 DEF Anchored, Capped
<1>12. Anchored(g') /\ Capped(g') /\ Filed(g')
  BY <1>10, <1>11, QuietResident
<1>13. faults' \in 0 .. MaxFaults /\ (faults' = 0 => synced /\ faults = 0)
  BY <1>2, <1>3
<1>14. ASSUME faults' = 0 PROVE Indexed(g')
  <2>1. /\ Indexed(g) /\ Apart(g) /\ snapshot.nodes = g.nodes /\ snapshot.cold = g.cold
        /\ husksDisk = g.husks /\ radjDisk = g.radj
    BY <1>13, <1>14, InvApart DEF LInv, IInv, InSync
  <2>2. \A j \in Ids : ArchivedLinks(v, j) = ArchivedLinks(g, j)
    BY <2>1, <1>4 DEF ArchivedLinks, Entries, Husks
  <2>3. \A m, a, b : m \in Ids => (Joins(v, m, a, b) <=> Joins(g, m, a, b))
    BY <2>2 DEF Joins
  <2>4. Indexed(v)
    BY <2>1, <2>2, <2>3, <1>4 DEF Indexed
  <2>5. Apart(k)
    BY <2>1, <1>4, <1>5 DEF Apart, Alone
  <2> QED BY <2>4, <2>5, <1>5, <1>10, QuietIndexed
<1>15. synced' => synced /\ g' = g /\ v.radj = g.radj
  BY <1>2, <1>4 DEF LInv
<1> QED BY <1>2, <1>12, <1>13, <1>14, <1>15, LinksKeep

LEMMA NextLInv == LInv /\ [Next]_vars => LInv'
<1> SUFFICES ASSUME LInv, [Next]_vars PROVE LInv'
  OBVIOUS
<1>0. IInv'
  BY NextIInv DEF LInv
<1>1. ASSUME NEW i \in Ids, NEW t \in Texts, UpsertNode(i, t) PROVE LInv'
  BY <1>0, <1>1, UpsertNodeLinks
<1>2. ASSUME NEW i \in Ids, RemoveNode(i) PROVE LInv'
  BY <1>0, <1>2, RemoveNodeLinks
<1>3. ASSUME NEW i \in Ids, PageIn(i) PROVE LInv'
  BY <1>0, <1>3, PageInLinks
<1>4. ASSUME NEW e \in Links, AddEdge(e) PROVE LInv'
  BY <1>0, <1>4, AddEdgeLinks
<1>5. ASSUME NEW cap \in Caps, SetMaxResident(cap) PROVE LInv'
  BY <1>0, <1>5, SetMaxResidentLinks
<1>6. CASE SetBudget
  BY <1>0, <1>6, SetBudgetLinks
<1>7. CASE Checkpoint \/ CheckpointTo
  BY <1>0, <1>7, CheckpointLinks
<1>8. CASE CrashReopen
  BY <1>0, <1>8, CrashReopenLinks
<1>9. CASE UNCHANGED vars
  BY <1>0, <1>9 DEF vars, LInv
<1> QED BY <1>1, <1>2, <1>3, <1>4, <1>5, <1>6, <1>7, <1>8, <1>9 DEF Next

LEMMA AlwaysLInv == Spec => []LInv
BY InitLInv, NextLInv, PTL DEF Spec

\* Every variable has its type in every state; and the resident graph stays
\* within its cap, with no dangling link, after every upsert, page-in, change
\* of cap or of budget, and reload of a snapshot.
THEOREM AlwaysTyped == Spec => []TypeOK
<1>1. ASSUME LInv PROVE TypeOK
  <2>1. /\ Shape(g) /\ SavedOK(snapshot) /\ husksDisk \in HuskViews
        /\ truth \in [Ids -> Truths] /\ ever \in [Ids -> SUBSET Texts] /\ synced \in BOOLEAN
        /\ Anchored(g) /\ Capped(g) /\ Filed(g) /\ Capped(snapshot)
        /\ snapshot.flushed \in BOOLEAN /\ radjDisk \subseteq Ids \X Ids
        /\ faults \in 0 .. MaxFaults
    BY <1>1 DEF LInv, IInv
  <2>2. GraphOK(g) /\ g.husks \in [Ids -> Bodies \cup {None}]
    BY <2>1 DEF GraphOK, Shape, Capped
  <2>3. GraphOK(snapshot)
    BY <2>1 DEF GraphOK, SavedOK, Capped
  <2>4. husksDisk \in [Ids -> Bodies \cup {None}]
    BY <2>1 DEF HuskViews
  <2>5. truth \in [Ids -> Contents \cup {None}]
    <3>1. Truths \subseteq Contents \cup {None}
      BY WholeOK DEF Truths
    <3> QED BY <2>1, <3>1
  <2>6. /\ g.radj \cup radjDisk \subseteq Ids \X Ids
        /\ g.blobs \cup g.torn \subseteq Blobs /\ g.blobs \cap g.torn = {}
    BY <2>1 DEF Filed
  <2>7. /\ Cardinality(Resident(g)) <= g.cap
        /\ \A e \in g.edges : Ends(e) \subseteq Resident(g)
    BY <2>1 DEF Capped, Anchored
  <2>8. {g.husks, husksDisk} \subseteq [Ids -> Bodies \cup {None}]
    BY <2>2, <2>4
  <2> QED BY <2>1, <2>2, <2>3, <2>5, <2>6, <2>7, <2>8 DEF TypeOK
<1> QED BY <1>1, AlwaysLInv, PTL

\* Exact neighbours: while no write was cut short and no crash lost work, the
\* reverse index that `cold_neighbours` reads agrees with a scan of the whole
\* cold tier, after any sequence of demotions, page-ins, upserts and removals.
THEOREM NeighboursAlwaysExact == Spec => []NeighboursExact
<1>1. ASSUME LInv PROVE NeighboursExact
  <2>1. ASSUME faults = 0, NEW i \in Ids PROVE ColdNeighbours(i) = ScannedNeighbours(i)
    <3>1. Indexed(g)
      BY <1>1, <2>1 DEF LInv
    <3>2. Cold(g) \subseteq Ids
      BY DEF Cold, Entries, Husks
    <3>3. ASSUME NEW j \in Cold(g)
          PROVE  <<i, j>> \in g.radj
                   <=> \E k \in Cold(g) : \E e \in ArchivedLinks(g, k) : Ends(e) = {i, j}
      <4>1. ASSUME <<i, j>> \in g.radj
            PROVE  \E k \in Cold(g) : \E e \in ArchivedLinks(g, k) : Ends(e) = {i, j}
        <5>1. PICK k \in {i, j} : Joins(g, k, i, j)
          BY <3>1, <3>2, <4>1 DEF Indexed
        <5>2. PICK e \in ArchivedLinks(g, k) : Ends(e) = {i, j}
          BY <5>1 DEF Joins
        <5>3. k \in Cold(g)
          BY <5>2 DEF Cold, ArchivedLinks
        <5> QED BY <5>2, <5>3
      <4>2. ASSUME NEW k \in Cold(g), NEW e \in ArchivedLinks(g, k), Ends(e) = {i, j}
            PROVE  <<i, j>> \in g.radj
        <5>1. k \in {i, j}
          BY <3>1, <3>2, <4>2 DEF Indexed
        <5>2. Joins(g, k, i, j)
          BY <4>2 DEF Joins
        <5> QED BY <3>1, <3>2, <5>1, <5>2 DEF Indexed
      <4> QED BY <4>1, <4>2
    <3> QED BY <3>3 DEF ColdNeighbours, ScannedNeighbours
  <2> QED BY <2>1 DEF NeighboursExact, Cold, Entries, Husks
<1> QED BY <1>1, AlwaysLInv, PTL

\* What `page_in` does to the links: a node whose archived links all lead to
\* resident nodes comes back without the loss of any link, its own or another
\* node's, whichever nodes are evicted to make room for it.
LEMMA PageInKeepsLinks ==
  ASSUME LInv, faults = 0, NEW i \in Ids, PageIn(i),
         Others(i, ArchivedLinks(g, i)) \subseteq Resident(g)
  PROVE  Known(g) \subseteq Known(g')
<1>1. PICK F \in Failures, p \in Paged(Linked(Faulted(g, i), i), {i}) :
          g' \in Budgeted(p, F)
  BY DEF PageIn
<1>2. Faultable(g, i)
  BY DEF PageIn
<1>3. /\ Shape(g) /\ Anchored(g) /\ IsFiniteSet(Resident(g)) /\ g.cap \in Caps
      /\ Apart(g) /\ Indexed(g)
  BY InvApart DEF LInv, IInv, Capped
<1>4. ASSUME NEW e \in ArchivedLinks(g, i) PROVE Ends(e) \subseteq Resident(g) \cup {i}
  <2>1. i \in Ends(e)
    BY <1>3, <1>4 DEF Indexed
  <2>2. Ends(e) \subseteq Ids
    BY <1>3, <1>4, LinkEnds, ArchivedIs
  <2>3. PICK j \in Ids : Ends(e) = {i, j}
    BY <2>1, <2>2 DEF Ends
  <2>4. j \in Others(i, ArchivedLinks(g, i))
    BY <1>4, <2>3 DEF Others
  <2> QED BY <2>3, <2>4
<1>5. \A e \in Known(g) :
        (e \in ArchivedLinks(g, i) => Ends(e) \subseteq Resident(g) \cup {i}) => e \in Known(g')
  BY <1>1, <1>2, <1>3, PageInPages
<1> QED BY <1>4, <1>5

\* No link is lost to a `page_in` whose other ends are resident, in any step
\* before the first torn write or the first crash that lost work.
THEOREM PageInNeverDropsLinks == Spec => ResidentLinksSurvive
<1>1. ASSUME LInv, [Next]_vars
      PROVE  [faults = 0 => \A i \in Ids :
                 PageIn(i) /\ Others(i, ArchivedLinks(g, i)) \subseteq Resident(g)
                    => Known(g) \subseteq Known(g')]_vars
  BY <1>1, PageInKeepsLinks
<1> QED BY <1>1, AlwaysLInv, PTL DEF Spec, ResidentLinksSurvive

=============================================================================
