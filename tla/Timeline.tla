------------------------------ MODULE Timeline ------------------------------
(***************************************************************************)
(* `AgentSession` (agent_session.rs): an event-sourced memory session with *)
(* its two files, the memory snapshot (`<workspace>`) and the timeline     *)
(* sidecar (`<workspace>.oplog`).  `checkpoint` writes them one after the  *)
(* other, so a crash, or another process, may come between the two writes. *)
(* `open` reads both, verifies the chain of the sidecar and keeps the      *)
(* timeline only when it reproduces the snapshot.                          *)
(***************************************************************************)
EXTENDS CausalMemory, HashChain

CONSTANTS OplogMax,     \* CCOS_OPLOG_MAX: compact beyond that many operations; 0: never
          OplogKeep,    \* CCOS_OPLOG_KEEP: operations that a compaction retains
          FaultLists,   \* file lists a compiler output may name
          MaxLen,       \* bound: logical length of a timeline
          MaxOpens,     \* bound: sessions opened on the workspace
          MaxOutside,   \* bound: writes by `ccos memory`
          MayPredate,   \* whether the sidecar may predate the chains
          MayCorrupt    \* whether the sidecar may be damaged on disk

ASSUME TimelineAssumption ==
    /\ OplogMax \in Nat /\ OplogKeep \in Nat
    /\ FaultLists \subseteq Seq(Files)
    /\ MaxLen \in Nat /\ MaxOpens \in Nat /\ MaxOutside \in Nat
    /\ MayPredate \in BOOLEAN /\ MayCorrupt \in BOOLEAN

VARIABLES phase,      \* "down", "ready", or "checkpointing" between two writes
          live,       \* the live memory
          tl,         \* the timeline of the session
          snapshot,   \* the memory file: << >> or <<memory>>
          sidecar,    \* the `.oplog` file: << >> or <<timeline>>
          opens,      \* history: sessions opened so far
          outside,    \* history: out-of-band writes so far
          ownBase,    \* history: this process took the baseline of its timeline
          healed,     \* history: this session discarded the recorded timeline
          corrupted   \* history: the sidecar on disk was damaged

session == <<phase, live, tl>>
disk    == <<snapshot, sidecar>>
history == <<opens, outside, ownBase, healed, corrupted>>
vars    == <<phase, live, tl, snapshot, sidecar,
             opens, outside, ownBase, healed, corrupted>>

-----------------------------------------------------------------------------
(* Timelines                                                               *)

(* `baseline_commitment`: empty for "replays from empty".                  *)
Commitment(baseline) ==
    IF baseline = << >> THEN NoLink ELSE <<"baseline", baseline[1]>>

BaselineMemory(t) == IF t.baseline = << >> THEN EmptyMemory ELSE t.baseline[1]

(* A timeline without operations on top of the memory `m`.                 *)
StartFrom(m) ==
    [ops |-> << >>, baseline |-> <<Snapshot(m)>>, folded |-> 0,
     chain |-> << >>, anchor |-> GENESIS,
     baselineHash |-> Commitment(<<Snapshot(m)>>)]

LogicalLen(t) == t.folded + Len(t.ops)

TimelineHead(t) == HeadOf(t.anchor, t.chain)

(* A sidecar written before timelines were chained.                        *)
Legacy(t) == t.chain = << >> /\ t.anchor = NoLink /\ t.baselineHash = NoLink

(* `verify_timeline_parts`                                                 *)
Verifies(t) ==
    \/ Legacy(t)
    \/ /\ Commitment(t.baseline) = t.baselineHash
       /\ Chained(t.anchor, t.folded, t.ops, t.chain)

Backfill(t) ==
    [t EXCEPT !.anchor = GENESIS,
              !.baselineHash = Commitment(t.baseline),
              !.chain = ChainOver(GENESIS, t.folded, t.ops)]

(* `replay_to`: steps at or below the floor collapse to the baseline.      *)
ReplayTo(t, step) ==
    LET upto == IF step <= LogicalLen(t) THEN step ELSE LogicalLen(t)
        tail == IF upto <= t.folded THEN 0 ELSE upto - t.folded
    IN  Replay(BaselineMemory(t), SubSeq(t.ops, 1, tail))

(* Faulty variant: a link is numbered by its place in the retained tail.   *)
RecordedFromTail(t, op) ==
    [t EXCEPT !.chain = Append(@, Link(TimelineHead(t), Len(t.ops), op)),
              !.ops = Append(@, op)]

(* `record`                                                                *)
Recorded(t, op) ==
    [t EXCEPT !.chain = Append(@, Link(TimelineHead(t), LogicalLen(t), op)),
              !.ops = Append(@, op)]

(* Faulty variant: the commitment is not renewed with the baseline.        *)
CompactedKeepsCommitment(t, fold) ==
    [t EXCEPT !.ops = SubSeq(@, fold + 1, Len(@)),
              !.baseline = <<Snapshot(ReplayTo(t, t.folded + fold))>>,
              !.folded = @ + fold,
              !.chain = SubSeq(@, fold + 1, Len(@)),
              !.anchor = t.chain[fold]]

(* Faulty variant: the floor does not rise with the fold.                  *)
CompactedKeepsFloor(t, fold) ==
    LET floor == Snapshot(ReplayTo(t, t.folded + fold))
    IN  [t EXCEPT !.ops = SubSeq(@, fold + 1, Len(@)),
                  !.baseline = <<floor>>,
                  !.chain = SubSeq(@, fold + 1, Len(@)),
                  !.anchor = t.chain[fold],
                  !.baselineHash = Commitment(<<floor>>)]

(* The body of `compact`: fold the oldest operations into the baseline.    *)
Compacted(t, fold) ==
    LET floor == Snapshot(ReplayTo(t, t.folded + fold))
    IN  [ops |-> SubSeq(t.ops, fold + 1, Len(t.ops)),
         baseline |-> <<floor>>,
         folded |-> t.folded + fold,
         chain |-> SubSeq(t.chain, fold + 1, Len(t.chain)),
         anchor |-> t.chain[fold],
         baselineHash |-> Commitment(<<floor>>)]

(* `compact`: nothing to fold when the tail is within `keep`.              *)
CompactedTo(t, keep) ==
    IF Len(t.ops) > keep THEN Compacted(t, Len(t.ops) - keep) ELSE t

(* `compact_if_needed`                                                     *)
CompactedIfNeeded(t) ==
    IF OplogMax > 0 /\ Len(t.ops) > OplogMax THEN CompactedTo(t, OplogKeep) ELSE t

-----------------------------------------------------------------------------
(* The workspace before the first session: absent, or left by `ccos        *)
(* memory`, or by a version that did not chain its timelines yet.          *)

NoTimeline == StartFrom(EmptyMemory)

LegacyTimeline(f, v) ==
    [ops |-> <<IngestOp(f, v)>>, baseline |-> << >>, folded |-> 0,
     chain |-> << >>, anchor |-> NoLink, baselineHash |-> NoLink]

Init ==
    /\ phase = "down" /\ live = EmptyMemory /\ tl = NoTimeline
    /\ \/ snapshot = << >> /\ sidecar = << >>
       \/ \E f \in Files, v \in Versions :
             /\ snapshot = <<Snapshot(IngestSource(EmptyMemory, f, v))>>
             /\ \/ sidecar = << >>
                \/ MayPredate /\ sidecar = <<LegacyTimeline(f, v)>>
    /\ opens = 0 /\ outside = 0
    /\ ownBase = TRUE /\ healed = FALSE /\ corrupted = FALSE

-----------------------------------------------------------------------------
(* Opening a workspace                                                     *)

Loaded == IF snapshot = << >> THEN EmptyMemory ELSE snapshot[1]

CanOpen == phase = "down" /\ opens < MaxOpens

(* `timeline_reproduces_memory`                                            *)
Reproduces(t, m) == Stats(ReplayTo(t, LogicalLen(t))) = Stats(m)

(* No sidecar: the timeline starts from the snapshot.                      *)
OpenWithoutTimeline ==
    /\ CanOpen /\ sidecar = << >>
    /\ phase' = "ready" /\ live' = Loaded /\ tl' = StartFrom(Loaded)
    /\ opens' = opens + 1 /\ ownBase' = TRUE /\ healed' = FALSE
    /\ UNCHANGED <<disk, outside, corrupted>>

(* Faulty variant: the chain is recomputed from genesis, not trusted.      *)
RestoredFromGenesis(t) ==
    [t EXCEPT !.anchor = GENESIS, !.folded = 0,
              !.chain = ChainOver(GENESIS, 0, t.ops)]

Restored(t) == IF Legacy(t) THEN Backfill(t) ELSE t

(* The sidecar verifies and reproduces the snapshot: it is trusted.        *)
OpenWithTimeline ==
    /\ CanOpen /\ sidecar # << >> /\ Verifies(sidecar[1])
    /\ LET t == Restored(sidecar[1]) IN
          /\ t.ops = << >> \/ Reproduces(t, Loaded)
          /\ tl' = t /\ ownBase' = FALSE
    /\ phase' = "ready" /\ live' = Loaded
    /\ opens' = opens + 1 /\ healed' = FALSE
    /\ UNCHANGED <<disk, outside, corrupted>>

(* It verifies but is stale: the snapshot wins, the timeline restarts.     *)
OpenHealing ==
    /\ CanOpen /\ sidecar # << >> /\ Verifies(sidecar[1])
    /\ LET t == Restored(sidecar[1]) IN t.ops # << >> /\ ~Reproduces(t, Loaded)
    /\ phase' = "ready" /\ live' = Loaded /\ tl' = StartFrom(Loaded)
    /\ opens' = opens + 1 /\ ownBase' = TRUE /\ healed' = TRUE
    /\ UNCHANGED <<disk, outside, corrupted>>

(* It does not verify: `TimelineTampered`, nothing is touched.             *)
OpenRefused ==
    /\ CanOpen /\ sidecar # << >> /\ ~Verifies(sidecar[1])
    /\ opens' = opens + 1
    /\ UNCHANGED <<session, disk, outside, ownBase, healed, corrupted>>

-----------------------------------------------------------------------------
(* Recorded operations                                                     *)

CanRecord(n) == phase = "ready" /\ LogicalLen(tl) + n <= MaxLen

Ingest(f, v) ==
    /\ CanRecord(1)
    /\ tl' = Recorded(tl, IngestOp(f, v))
    /\ live' = IngestSource(live, f, v)
    /\ UNCHANGED <<phase, disk, history>>

(* Two files recorded one by one, resolved once.                           *)
IngestBatch(f, v, g, w) ==
    /\ CanRecord(2)
    /\ tl' = Recorded(Recorded(tl, IngestOp(f, v)), IngestOp(g, w))
    /\ live' = Resolve(IngestDeferred(IngestDeferred(live, f, v), g, w))
    /\ UNCHANGED <<phase, disk, history>>

(* `sync`: unchanged content is not recorded.                              *)
Sync(f, v) == live.source[f] # v /\ Ingest(f, v)

(* `signal_failure` records before it knows whether the node exists.       *)
Failure(f) ==
    /\ CanRecord(1)
    /\ tl' = Recorded(tl, FailureOp(f))
    /\ live' = SignalFailure(live, f)
    /\ UNCHANGED <<phase, disk, history>>

PageFault(files) ==
    /\ CanRecord(1)
    /\ tl' = Recorded(tl, PageFaultOp(files))
    /\ live' = SignalFailures(live, files)
    /\ UNCHANGED <<phase, disk, history>>

(* No node is ever demoted here, so a recall pages nothing in.             *)
Recall ==
    /\ CanRecord(1)
    /\ tl' = Recorded(tl, RecallOp)
    /\ UNCHANGED <<phase, live, disk, history>>

-----------------------------------------------------------------------------
(* Checkpoint: compaction and the snapshot, then the sidecar               *)

WriteSnapshot ==
    /\ phase = "ready"
    /\ tl' = CompactedIfNeeded(tl)
    /\ snapshot' = <<Snapshot(live)>>
    /\ phase' = "checkpointing"
    /\ UNCHANGED <<live, sidecar, history>>

(* The first write fails, after the compaction.                            *)
SnapshotWriteFails ==
    /\ phase = "ready"
    /\ tl' = CompactedIfNeeded(tl)
    /\ UNCHANGED <<phase, live, disk, history>>

WriteSidecar ==
    /\ phase = "checkpointing"
    /\ sidecar' = <<tl>> /\ corrupted' = FALSE
    /\ phase' = "ready"
    /\ UNCHANGED <<live, tl, snapshot, opens, outside, ownBase, healed>>

(* The second write fails: the session goes on with a stale sidecar.       *)
SidecarWriteFails ==
    /\ phase = "checkpointing"
    /\ phase' = "ready"
    /\ UNCHANGED <<live, tl, disk, history>>

(* The process ends, by a crash or not, with or without a checkpoint.      *)
Crash ==
    /\ phase # "down"
    /\ phase' = "down" /\ live' = EmptyMemory /\ tl' = NoTimeline
    /\ ownBase' = TRUE /\ healed' = FALSE
    /\ UNCHANGED <<disk, opens, outside, corrupted>>

-----------------------------------------------------------------------------
(* What else touches the files                                             *)

(* `ccos memory` ingests a file into the snapshot only.                    *)
OutsideIngest(f, v) ==
    /\ outside < MaxOutside
    /\ snapshot' = <<Snapshot(IngestSource(Loaded, f, v))>>
    /\ outside' = outside + 1
    /\ UNCHANGED <<session, sidecar, opens, ownBase, healed, corrupted>>

(* The sidecar does not parse any more (`open` reads it as absent), or one *)
(* recorded operation, or the baseline, changes on disk.                   *)
Damage ==
    /\ MayCorrupt /\ phase = "down" /\ ~corrupted
    /\ sidecar # << >> /\ ~Legacy(sidecar[1])
    /\ LET t == sidecar[1] IN
          \/ sidecar' = << >>
          \/ \E i \in 1 .. Len(t.ops) :
                /\ t.ops[i] # RecallOp
                /\ sidecar' = <<[t EXCEPT !.ops[i] = RecallOp]>>
          \/ /\ t.baseline # << >> /\ t.baseline # <<EmptyMemory>>
             /\ sidecar' = <<[t EXCEPT !.baseline = <<EmptyMemory>>]>>
    /\ corrupted' = TRUE
    /\ UNCHANGED <<session, snapshot, opens, outside, ownBase, healed>>

-----------------------------------------------------------------------------
Record ==
    \/ \E f \in Files, v \in Versions : Ingest(f, v) \/ Sync(f, v)
    \/ \E f, g \in Files, v, w \in Versions : IngestBatch(f, v, g, w)
    \/ \E f \in Files : Failure(f)
    \/ \E fs \in FaultLists : PageFault(fs)
    \/ Recall

Next ==
    \/ OpenWithoutTimeline \/ OpenWithTimeline \/ OpenHealing \/ OpenRefused
    \/ Record
    \/ WriteSnapshot \/ SnapshotWriteFails \/ WriteSidecar \/ SidecarWriteFails
    \/ Crash
    \/ \E f \in Files, v \in Versions : OutsideIngest(f, v)
    \/ Damage

Spec == Init /\ [][Next]_vars
-----------------------------------------------------------------------------
(* Properties                                                              *)

Op == [kind : {"Ingest"}, file : Files, version : Versions]
        \cup [kind : {"Failure"}, file : Files]
        \cup [kind : {"PageFault"}, files : FaultLists]
        \cup {RecallOp}

TimelineOK(t) ==
    /\ DOMAIN t = {"ops", "baseline", "folded", "chain", "anchor", "baselineHash"}
    /\ t.ops \in Seq(Op) /\ t.folded \in Nat
    /\ t.baseline = << >> \/ (Len(t.baseline) = 1 /\ WellFormed(t.baseline[1]))

(* Every variable has its type, and every memory, live, persisted or       *)
(* committed as a baseline, is well formed: no dangling call edge.          *)
TypeOK ==
    /\ phase \in {"down", "ready", "checkpointing"}
    /\ WellFormed(live) /\ TimelineOK(tl)
    /\ snapshot = << >> \/ (Len(snapshot) = 1 /\ WellFormed(snapshot[1]))
    /\ sidecar = << >> \/ (Len(sidecar) = 1 /\ TimelineOK(sidecar[1]))
    /\ opens \in 0 .. MaxOpens /\ outside \in 0 .. MaxOutside
    /\ {ownBase, healed, corrupted} \subseteq BOOLEAN

(* `verify_timeline` never fails for what was not damaged, and never       *)
(* passes over what was: an open session always verifies, whatever was     *)
(* compacted, reopened or healed, and no crash or failed write between the *)
(* two writes of a checkpoint leaves a sidecar that `open` would refuse.   *)
ChainsVerify ==
    /\ ~Legacy(tl) /\ Verifies(tl)
    /\ sidecar # << >> /\ ~corrupted => Verifies(sidecar[1])

(* `timeline_head`: the head commits to the step number of every operation *)
(* since genesis, none skipped or used twice, and to the retained ones     *)
(* themselves; a compaction moves the anchor, never the head.              *)
HeadCommitsToHistory ==
    LET head == TimelineHead(tl) IN
    /\ Len(head) = LogicalLen(tl) + 1
    /\ \A i \in 1 .. LogicalLen(tl) : head[i + 1][1] = i - 1
    /\ \A i \in 1 .. Len(tl.ops) : head[tl.folded + i + 1][2] = tl.ops[i]

(* A checkpoint, with its compaction, changes neither the head nor the     *)
(* logical length: absolute steps keep their meaning.                      *)
CheckpointKeepsHead ==
    [][phase = "ready" /\ phase' # "down" /\ live' = live /\ Len(tl'.ops) <= Len(tl.ops)
         => TimelineHead(tl') = TimelineHead(tl) /\ LogicalLen(tl') = LogicalLen(tl)]_vars

(* The history on disk only grows: what a sidecar write replaces is a      *)
(* prefix of what it writes, unless `open` declared the old one stale.     *)
(* Crashes, lost tails and compactions in between never rewrite it.        *)
DurableHistoryOnlyGrows ==
    [][sidecar # << >> /\ sidecar' # sidecar /\ ~corrupted' /\ ~corrupted /\ ~healed
         => \/ IsPrefix(TimelineHead(sidecar[1]), TimelineHead(sidecar'[1]))
            \/ Legacy(sidecar[1])]_vars

(* `compact_if_needed`: no sidecar holds more operations than the limit,   *)
(* or than a compaction retains.                                           *)
OplogBounded ==
    sidecar # << >> /\ OplogMax > 0 =>
        Len(sidecar[1].ops) <= OplogMax \/ Len(sidecar[1].ops) <= OplogKeep

(* Replaying the whole timeline gives the memory `m`, up to the runtime-   *)
(* only call sites, which no reader sees.                                  *)
ReplaysTo(t, m) == Snapshot(ReplayTo(t, LogicalLen(t))) = Snapshot(m)

(* replay == live: as long as the process that records took the baseline   *)
(* itself and no compaction folded any operation, a replay gives the live  *)
(* memory exactly, batches and deferred resolutions included.              *)
ReplayIsLiveInOneProcess ==
    phase = "ready" /\ ownBase /\ tl.folded = 0 => ReplaysTo(tl, live)

-----------------------------------------------------------------------------
(* Statements of the documentation that the code does not keep             *)

(* memory.rs:516-519: the call sites are runtime-only and "rebuilt on the  *)
(* replay re-ingest, so [...] `replay == live` holds": recording one more  *)
(* operation preserves it.                                                 *)
RecordKeepsReplayLive ==
    [][phase = "ready" /\ LogicalLen(tl') > LogicalLen(tl) /\ ReplaysTo(tl, live)
         => ReplaysTo(tl', live')]_vars
=============================================================================
