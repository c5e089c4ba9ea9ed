--------------------------- MODULE SyncFederation ---------------------------
(***************************************************************************)
(* The multi-agent store of agent_session.rs: workspaces exchange chained  *)
(* segments of their timelines as bundle files (`export_bundle`,           *)
(* `import_bundle`) and replay everything they know (`merged_view`).       *)
(*                                                                         *)
(* A workspace is its sidecar file.  Two kinds of process work on it, each *)
(* on a private copy: the MCP server, for as long as it runs, and the CLI  *)
(* (`ccos sync`), for one command.  Nothing locks the file: with           *)
(* `Concurrent`, both may have it open.  Bundles travel on any medium, so  *)
(* they are lost, duplicated, reordered, and may be damaged on the way.    *)
(* The two writes of one checkpoint are the subject of Timeline; here a    *)
(* checkpoint is one step.                                                 *)
(***************************************************************************)
EXTENDS HashChain, FiniteSets, SequencesExt

CONSTANTS Workspaces,   \* workspaces that exchange bundles
          Ids,          \* agent identities
          IdOf,         \* the identity given to each workspace
          NoAgent,      \* a workspace that was given none yet
          Local,        \* the name `merged_view` gives to such a workspace
          Ops,          \* operations an agent records
          CryptoFree,   \* workspaces whose build cannot verify signatures
          OplogMax, OplogKeep,   \* compaction, as in Timeline
          Concurrent,   \* whether the server and the CLI may overlap
          MayMangle, MayGoStale,
          MaxKeys,      \* bound: signing identities of a workspace
          Served,       \* workspaces on which an MCP server may run
          MaxLen,       \* bound: logical length of a timeline
          MaxWire       \* bound: bundles exported or damaged

ASSUME FederationAssumption ==
    /\ IdOf \in [Workspaces -> Ids]
    /\ \A v, w \in Workspaces : IdOf[v] = IdOf[w] => v = w
    /\ NoAgent \notin Ids
    /\ CryptoFree \subseteq Workspaces
    /\ OplogMax \in Nat /\ OplogKeep \in Nat
    /\ {Concurrent, MayMangle, MayGoStale} \subseteq BOOLEAN
    /\ MaxLen \in Nat /\ MaxWire \in Nat /\ MaxKeys \in Nat

VARIABLES disk,      \* the sidecar of each workspace
          stale,     \* whether its memory snapshot outruns the sidecar
          key,       \* its `.key` file: which generation, and whether there
          server,    \* << >>, or <<the copy in the MCP server>>
          cli,       \* << >>, or <<the copy in a running `ccos sync`, the key
                     \* it found>>
          wire,      \* bundles in transit or delivered
          mangled,   \* those that were damaged on the way
          ever,      \* history: links each workspace ever recorded
          restarted, \* history: workspaces whose timeline was discarded
          rejected   \* history: authors whose undamaged bundles were refused
                     \* for what they say

vars == <<disk, stale, key, server, cli, wire, mangled, ever, restarted, rejected>>

-----------------------------------------------------------------------------
(* Sessions                                                                *)

NewSidecar ==
    [agent |-> NoAgent, ops |-> << >>, chain |-> << >>, anchor |-> GENESIS,
     folded |-> 0, foreign |-> << >>, known_keys |-> << >>]

LogicalLen(s) == s.folded + Len(s.ops)

SessionHead(s) == HeadOf(s.anchor, s.chain)

Put(map, x, v) == [y \in DOMAIN map \cup {x} |-> IF y = x THEN v ELSE map[y]]

(* The reset of `open` when the sidecar no longer reproduces the snapshot. *)
(* What was imported stays.                                                *)
Restarted(s) ==
    [s EXCEPT !.ops = << >>, !.chain = << >>, !.folded = 0, !.anchor = GENESIS]

Heals(w) == stale[w] /\ disk[w].ops # << >>

Opened(w) == IF Heals(w) THEN Restarted(disk[w]) ELSE disk[w]

Recorded(s, op) ==
    [s EXCEPT !.chain = Append(@, Link(SessionHead(s), LogicalLen(s), op)),
              !.ops = Append(@, op)]

Compacted(s, fold) ==
    [s EXCEPT !.ops = SubSeq(@, fold + 1, Len(@)),
              !.chain = SubSeq(@, fold + 1, Len(@)),
              !.anchor = s.chain[fold],
              !.folded = @ + fold]

CompactedIfNeeded(s) ==
    IF OplogMax > 0 /\ Len(s.ops) > OplogMax /\ Len(s.ops) > OplogKeep
    THEN Compacted(s, Len(s.ops) - OplogKeep)
    ELSE s

-----------------------------------------------------------------------------
(* Bundles                                                                 *)

Payload(b) == [agent |-> b.agent, first |-> b.first, anchor |-> b.anchor,
               ops |-> b.ops, chain |-> b.chain]

NoKey    == << >>
Unsigned == << >>

(* The public key a workspace signs with.                                  *)
PublicKey(w) == IF key[w].present THEN <<w, key[w].generation>> ELSE NoKey

(* `export_bundle`, of everything from the absolute step `since` on.       *)
Bundle(s, since, k) ==
    LET start == since - s.folded
        body == [agent |-> s.agent, first |-> since,
                 anchor |-> IF start = 0 THEN s.anchor ELSE s.chain[start],
                 ops |-> SubSeq(s.ops, start + 1, Len(s.ops)),
                 chain |-> SubSeq(s.chain, start + 1, Len(s.chain))]
    IN  [agent |-> body.agent, first |-> body.first, anchor |-> body.anchor,
         ops |-> body.ops, chain |-> body.chain,
         pubkey |-> k, sig |-> IF k = NoKey THEN Unsigned ELSE <<k, body>>]

Signed(b) == b.pubkey # NoKey

GoodSignature(b) == b.sig = <<b.pubkey, Payload(b)>>

(* Every link recomputes from the anchor.                                  *)
Intact(b) ==
    /\ b.first = 0 => b.anchor = GENESIS
    /\ Chained(b.anchor, b.first, b.ops, b.chain)

NoLog == [ops |-> << >>, chain |-> << >>]

Known(s, x) == IF x \in DOMAIN s.foreign THEN s.foreign[x] ELSE NoLog

(* Faulty variant: a bundle must start where the known log ends.           *)
ContinuesAtEnd(b, log) == b.first > 0 => b.anchor = HeadOf(GENESIS, log.chain)

(* The anchor and every overlapping link agree with what is known.         *)
Continues(b, log) ==
    /\ b.first > 0 => b.anchor = log.chain[b.first]
    /\ \A i \in 1 .. Len(b.chain) :
          b.first + i <= Len(log.chain) => b.chain[i] = log.chain[b.first + i]

Never(s, b) == FALSE   \* Faulty variant of either check of the pinned keys.

(* Another key than the pinned one.                                        *)
KeyChanged(s, b) ==
    Signed(b) /\ b.agent \in DOMAIN s.known_keys /\ s.known_keys[b.agent] # b.pubkey

(* A signature stripped, or not yet made when the bundle was exported.     *)
Downgraded(s, b) == ~Signed(b) /\ b.agent \in DOMAIN s.known_keys

(* The checks of `import_bundle`: the first that fails decides.            *)
Verdict(w, s, b) ==
    IF b.agent = s.agent THEN "SelfImport"
    ELSE IF Signed(b) /\ w \in CryptoFree THEN "SignedUnsupported"
    ELSE IF Signed(b) /\ ~GoodSignature(b) THEN "BadSignature"
    ELSE IF KeyChanged(s, b) THEN "KeyMismatch"
    ELSE IF Downgraded(s, b) THEN "UnsignedFromPinned"
    ELSE IF ~Intact(b) THEN "Tampered"
    ELSE IF b.first > Len(Known(s, b.agent).ops) THEN "Gap"
    ELSE IF ~Continues(b, Known(s, b.agent)) THEN "Diverged"
    ELSE "Added"

(* Faulty variant: the overlap is appended once more.                      *)
FreshAll(b, log, seq) == seq

(* What is new in the bundle.                                              *)
Fresh(b, log, seq) == SubSeq(seq, Len(log.ops) - b.first + 1, Len(seq))

Extended(log, b) ==
    [ops |-> log.ops \o Fresh(b, log, b.ops),
     chain |-> log.chain \o Fresh(b, log, b.chain)]

(* Faulty variant: an empty bundle pins the key but opens no log.          *)
ImportedUnlessEmpty(s, b) ==
    [s EXCEPT !.foreign = IF b.ops = << >> THEN @
                          ELSE Put(@, b.agent, Extended(Known(s, b.agent), b)),
              !.known_keys = IF Signed(b) THEN Put(@, b.agent, b.pubkey) ELSE @]

Imported(s, b) ==
    [s EXCEPT !.foreign = Put(@, b.agent, Extended(Known(s, b.agent), b)),
              !.known_keys = IF Signed(b) THEN Put(@, b.agent, b.pubkey) ELSE @]

(* `merged_view` replays these operations, in the order of the names.      *)
Streams(s) ==
    LET own == IF s.agent = NoAgent THEN Local ELSE s.agent
    IN  [x \in DOMAIN s.foreign \cup {own} |->
            IF x \in DOMAIN s.foreign THEN s.foreign[x].ops ELSE s.ops]

-----------------------------------------------------------------------------
Init ==
    /\ disk = [w \in Workspaces |-> NewSidecar]
    /\ stale = [w \in Workspaces |-> FALSE]
    /\ key = [w \in Workspaces |-> [generation |-> 0, present |-> FALSE]]
    /\ server = [w \in Workspaces |-> << >>]
    /\ cli = [w \in Workspaces |-> << >>]
    /\ wire = {} /\ mangled = {}
    /\ ever = [w \in Workspaces |-> {}]
    /\ restarted = {} /\ rejected = {}

Restarting(w) == IF Heals(w) THEN restarted \cup {w} ELSE restarted

-----------------------------------------------------------------------------
(* The MCP server: it records, and checkpoints what it holds.              *)

StartServer(w) ==
    /\ w \in Served /\ server[w] = << >> /\ (Concurrent \/ cli[w] = << >>)
    /\ server' = [server EXCEPT ![w] = <<Opened(w)>>]
    /\ restarted' = Restarting(w)
    /\ UNCHANGED <<disk, stale, key, cli, wire, mangled, ever, rejected>>

Record(w, op) ==
    /\ server[w] # << >> /\ LogicalLen(server[w][1]) < MaxLen
    /\ LET s == Recorded(server[w][1], op) IN
          /\ server' = [server EXCEPT ![w] = <<s>>]
          /\ ever' = [ever EXCEPT ![w] = @ \cup {SessionHead(s)}]
    /\ UNCHANGED <<disk, stale, key, cli, wire, mangled, restarted, rejected>>

(* `persist`, after a mutating call or when the input ends.                *)
SaveServer(w) ==
    /\ server[w] # << >>
    /\ LET s == CompactedIfNeeded(server[w][1]) IN
          /\ server' = [server EXCEPT ![w] = <<s>>]
          /\ disk' = [disk EXCEPT ![w] = s]
    /\ stale' = [stale EXCEPT ![w] = FALSE]
    /\ UNCHANGED <<key, cli, wire, mangled, ever, restarted, rejected>>

(* The server ends, by a crash or after its last checkpoint.               *)
StopServer(w) ==
    /\ server[w] # << >>
    /\ server' = [server EXCEPT ![w] = << >>]
    /\ UNCHANGED <<disk, stale, key, cli, wire, mangled, ever, restarted, rejected>>

-----------------------------------------------------------------------------
(* `ccos sync`: it opens the workspace, works on its copy, checkpoints.    *)

OpenCli(w) ==
    /\ cli[w] = << >> /\ (Concurrent \/ server[w] = << >>)
    /\ cli' = [cli EXCEPT ![w] = <<Opened(w), PublicKey(w)>>]
    /\ restarted' = Restarting(w)
    /\ UNCHANGED <<disk, stale, key, server, wire, mangled, ever, rejected>>

(* `ccos sync export --agent`: the identity is set and checkpointed, then  *)
(* the bundle is built.  Folded operations cannot be exported any more.    *)
Export(w, since) ==
    /\ cli[w] # << >> /\ Cardinality(wire) < MaxWire
    /\ LET s == CompactedIfNeeded([cli[w][1] EXCEPT !.agent = IdOf[w]]) IN
          /\ since <= LogicalLen(s)
          /\ disk' = [disk EXCEPT ![w] = s]
          /\ wire' = IF since < s.folded THEN wire
                     ELSE wire \cup {Bundle(s, since, cli[w][2])}
    /\ stale' = [stale EXCEPT ![w] = FALSE]
    /\ cli' = [cli EXCEPT ![w] = << >>]
    /\ UNCHANGED <<key, server, mangled, ever, restarted, rejected>>

(* `ccos sync import` of a bundle that passes every check.                 *)
Import(w, b) ==
    /\ cli[w] # << >> /\ Verdict(w, cli[w][1], b) = "Added"
    /\ disk' = [disk EXCEPT ![w] = CompactedIfNeeded(Imported(cli[w][1], b))]
    /\ stale' = [stale EXCEPT ![w] = FALSE]
    /\ cli' = [cli EXCEPT ![w] = << >>]
    /\ UNCHANGED <<key, server, wire, mangled, ever, restarted, rejected>>

(* A refused import leaves every file as it was.                           *)
Refuse(w, b) ==
    /\ cli[w] # << >>
    /\ LET verdict == Verdict(w, cli[w][1], b) IN
          /\ verdict # "Added"
          /\ rejected' =
                IF b \notin mangled
                   /\ verdict \in {"BadSignature", "KeyMismatch", "Tampered", "Diverged"}
                THEN rejected \cup {b.agent} ELSE rejected
    /\ cli' = [cli EXCEPT ![w] = << >>]
    /\ UNCHANGED <<disk, stale, key, server, wire, mangled, ever, restarted>>

(* `ccos sync keygen`; an existing key is never overwritten.               *)
Keygen(w) ==
    /\ w \notin CryptoFree /\ ~key[w].present /\ key[w].generation < MaxKeys
    /\ key' = [key EXCEPT ![w] = [generation |-> @.generation + 1, present |-> TRUE]]
    /\ UNCHANGED <<disk, stale, server, cli, wire, mangled, ever, restarted, rejected>>

(* Rotation "is an explicit human act (delete the file first)".            *)
DeleteKey(w) ==
    /\ key[w].present
    /\ key' = [key EXCEPT ![w].present = FALSE]
    /\ UNCHANGED <<disk, stale, server, cli, wire, mangled, ever, restarted, rejected>>

-----------------------------------------------------------------------------
(* The environment                                                         *)

(* `ccos memory` moves the snapshot on, but not the timeline.              *)
GoStale(w) ==
    /\ MayGoStale /\ disk[w].ops # << >>
    /\ stale' = [stale EXCEPT ![w] = TRUE]
    /\ UNCHANGED <<disk, key, server, cli, wire, mangled, ever, restarted, rejected>>

(* A bundle file is damaged: another operation, one less, another start.   *)
Damaged(b) ==
    {[b EXCEPT !.ops[i] = o] : i \in 1 .. Len(b.ops), o \in Ops}
       \cup {[b EXCEPT !.ops = SubSeq(@, 2, Len(@))]}
       \cup {[b EXCEPT !.first = n] : n \in 0 .. MaxLen}

Mangle(b) ==
    /\ MayMangle /\ Cardinality(wire) < MaxWire
    /\ \E bad \in Damaged(b) :
          /\ bad \notin wire
          /\ wire' = wire \cup {bad} /\ mangled' = mangled \cup {bad}
    /\ UNCHANGED <<disk, stale, key, server, cli, ever, restarted, rejected>>

-----------------------------------------------------------------------------
Next ==
    \/ \E w \in Workspaces :
          \/ StartServer(w) \/ SaveServer(w) \/ StopServer(w)
          \/ \E op \in Ops : Record(w, op)
          \/ OpenCli(w) \/ Keygen(w) \/ DeleteKey(w) \/ GoStale(w)
          \/ \E since \in 0 .. MaxLen : Export(w, since)
          \/ \E b \in wire : Import(w, b) \/ Refuse(w, b)
    \/ \E b \in wire : Mangle(b)

Spec == Init /\ [][Next]_vars
-----------------------------------------------------------------------------
(* Properties                                                              *)

Sidecars == {disk[w] : w \in Workspaces}

TimelineOK(s) ==
    /\ s.agent \in Ids \cup {NoAgent} /\ s.folded \in Nat
    /\ s.ops \in Seq(Ops) /\ Len(s.chain) = Len(s.ops)
    /\ DOMAIN s.foreign \subseteq Ids /\ DOMAIN s.known_keys \subseteq Ids
    /\ \A x \in DOMAIN s.foreign : s.foreign[x].ops \in Seq(Ops)
    /\ \A x \in DOMAIN s.known_keys : s.known_keys[x] \in Workspaces \X (1 .. MaxKeys)

(* Every variable has its type; a pinned agent has a log.                  *)
TypeOK ==
    /\ \A w \in Workspaces :
          /\ TimelineOK(disk[w])
          /\ server[w] # << >> => TimelineOK(server[w][1])
          /\ cli[w] # << >> => TimelineOK(cli[w][1])
          /\ DOMAIN disk[w].known_keys \subseteq DOMAIN disk[w].foreign
    /\ stale \in [Workspaces -> BOOLEAN]
    /\ key \in [Workspaces -> [generation : 0 .. MaxKeys, present : BOOLEAN]]
    /\ mangled \subseteq wire /\ Cardinality(wire) <= MaxWire
    /\ restarted \subseteq Workspaces /\ rejected \subseteq Ids

(* "The receiver trusts nothing": whatever is damaged, lost, duplicated or *)
(* reordered, an imported log holds what its agent recorded, in its order, *)
(* from genesis, and every operation has its link.                         *)
ForeignLogsAuthentic ==
    \A s \in Sidecars : \A x \in DOMAIN s.foreign : s.foreign[x].ops # << >> =>
        /\ Chained(GENESIS, 0, s.foreign[x].ops, s.foreign[x].chain)
        /\ \E w \in Workspaces :
              IdOf[w] = x /\ HeadOf(GENESIS, s.foreign[x].chain) \in ever[w]

(* A key, once pinned, is neither replaced nor forgotten.                  *)
KeysKept(w) ==
    \A x \in DOMAIN disk[w].known_keys :
        /\ x \in DOMAIN disk'[w].known_keys
        /\ disk'[w].known_keys[x] = disk[w].known_keys[x]

(* An imported log is only extended.                                       *)
LogsExtended(w) ==
    \A x \in DOMAIN disk[w].foreign :
        /\ x \in DOMAIN disk'[w].foreign
        /\ IsPrefix(disk[w].foreign[x].chain, disk'[w].foreign[x].chain)

(* Once an agent is pinned, its log changes by what its key signed, only,  *)
(* and ends where the signed bundle ends.                                  *)
GrowthSigned(w) ==
    \A x \in DOMAIN disk[w].known_keys :
        Known(disk'[w], x).chain # Known(disk[w], x).chain =>
            \E b \in wire : /\ b.agent = x /\ b.pubkey = disk[w].known_keys[x]
                            /\ GoodSignature(b)
                            /\ HeadOf(b.anchor, b.chain)
                                 = HeadOf(GENESIS, Known(disk'[w], x).chain)

(* What a workspace knows of the others only grows, as long as one process *)
(* at a time works on it: pinned keys stay ("immutable after"), imported   *)
(* logs are "Grow-only", and a pinned log grows by signed bundles only.    *)
KnowledgeOnlyGrows ==
    [][\A w \in Workspaces : KeysKept(w) /\ LogsExtended(w) /\ GrowthSigned(w)]_vars

(* "Equivocation" is never laid at the door of an agent whose timeline was *)
(* not restarted and whose key was not rotated: an undamaged bundle of     *)
(* such an agent is refused only for its order, its missing signature, or  *)
(* its reader.                                                             *)
OnlyRestartsDiverge ==
    \A w \in Workspaces : IdOf[w] \in rejected =>
        w \in restarted \/ key[w].generation > 1

(* `merged_view` converges: two workspaces whose chain heads agree replay  *)
(* the same operations under the same names, unless one of them compacted. *)
KnownHeads(s) ==
    [x \in DOMAIN s.foreign \cup {s.agent} |->
        IF x = s.agent THEN SessionHead(s) ELSE HeadOf(GENESIS, s.foreign[x].chain)]

ViewsConverge ==
    \A s, t \in Sidecars :
        /\ NoAgent \notin {s.agent, t.agent} /\ s.folded = 0 /\ t.folded = 0
        /\ KnownHeads(s) = KnownHeads(t)
        => Streams(s) = Streams(t)

=============================================================================
