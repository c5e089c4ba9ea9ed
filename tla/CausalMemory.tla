---------------------------- MODULE CausalMemory ----------------------------
(***************************************************************************)
(* What an agent session sees of `CcosMemory` (external_memory.rs) and of  *)
(* the causal graph under it (memory.rs): pure operators on memory values. *)
(*                                                                         *)
(* A memory keeps the source of every ingested file, the resolved call     *)
(* edges between files, and the failure pressure of a file.  It also keeps *)
(* the call sites the parser handed over (`pending_calls`), which are      *)
(* runtime-only: the serialised snapshot does not carry them.              *)
(*                                                                         *)
(* Data abstraction: one function name is tracked.  A version of a file    *)
(* may call it, or define it, or neither; a call links to the defining     *)
(* file when exactly one file defines the name (the ladder of              *)
(* `resolve_symbol_calls`: resolve uniquely or skip).  Pressure is a       *)
(* Boolean per file.  Import edges are left out: they are rebuilt from     *)
(* durable nodes on every resolution.                                      *)
(***************************************************************************)
EXTENDS FiniteSets, Sequences, SequencesExt

CONSTANTS Files,      \* source files an agent may ingest
          Versions,   \* contents a file may have
          Callers,    \* the versions that call the tracked function
          Definers,   \* the versions that define it
          NoSource    \* a file that was never ingested

ASSUME VersionsAssumption ==
    /\ Callers \subseteq Versions
    /\ Definers \subseteq Versions
    /\ Callers \cap Definers = {}
    /\ NoSource \notin Versions

Memory == [source : [Files -> Versions \cup {NoSource}],
           pending : SUBSET Files,           \* files whose call sites are known
           calls : SUBSET (Files \X Files),  \* resolved caller -> callee edges
           hot : SUBSET Files]               \* files under failure pressure

EmptyMemory == [source |-> [f \in Files |-> NoSource],
                pending |-> {}, calls |-> {}, hot |-> {}]

Present(m) == {f \in Files : m.source[f] # NoSource}

(* No dangling edge, and no pressure on a file that is not there.          *)
WellFormed(m) ==
    /\ m \in Memory
    /\ m.calls \subseteq Present(m) \X Present(m)
    /\ m.hot \subseteq Present(m) /\ m.pending \subseteq Present(m)

-----------------------------------------------------------------------------
(* Resolution and ingestion                                                *)

Defining(m) == {g \in Files : m.source[g] \in Definers}

Targets(m) == IF Cardinality(Defining(m)) = 1 THEN Defining(m) ELSE {}

Prunable(m) == {e \in m.calls : e[1] \in m.pending}

(* Faulty variant: the resolution only adds edges and never prunes.        *)
ResolveAddsOnly(m) ==
    [m EXCEPT !.calls = @ \cup (m.pending \X Targets(m))]

(* `resolve`: prune the edges of the files whose call sites are known,     *)
(* keep the others, rebuild from the current files.                        *)
Resolve(m) ==
    [m EXCEPT !.calls = (@ \ Prunable(m)) \cup (m.pending \X Targets(m))]

(* `ingest_deferred`: unchanged content is not parsed again; changed       *)
(* content evicts the nodes of the file, with their edges and pressure,    *)
(* and restates its call sites.                                            *)
IngestDeferred(m, f, v) ==
    IF m.source[f] = v THEN m
    ELSE [source  |-> [m.source EXCEPT ![f] = v],
          pending |-> IF v \in Callers THEN m.pending \cup {f}
                                       ELSE m.pending \ {f},
          calls   |-> {e \in m.calls : f \notin {e[1], e[2]}},
          hot     |-> m.hot \ {f}]

IngestSource(m, f, v) == Resolve(IngestDeferred(m, f, v))

(* Faulty variant: an unknown node takes pressure.                         *)
SignalFailureUnchecked(m, f) ==
    [m EXCEPT !.hot = @ \cup {f} \cup {g \in Files : <<f, g>> \in m.calls}]

(* `signal_failure`: pressure on the file and on what it calls; an unknown *)
(* node is an error that changes nothing.                                  *)
SignalFailure(m, f) ==
    IF m.source[f] = NoSource THEN m
    ELSE [m EXCEPT !.hot = @ \cup {f} \cup {g \in Files : <<f, g>> \in m.calls}]

SignalFailures(m, fs) == FoldLeft(SignalFailure, m, fs)

(* `to_json` then `from_json`: the runtime-only call sites are dropped.    *)
Snapshot(m) == [m EXCEPT !.pending = {}]

(* What `timeline_reproduces_memory` compares: only the counts.            *)
Stats(m) == [files |-> Cardinality(Present(m)),
             edges |-> Cardinality(m.calls)]

-----------------------------------------------------------------------------
(* Recorded operations and their replay                                    *)

IngestOp(f, v) == [kind |-> "Ingest", file |-> f, version |-> v]
FailureOp(f)   == [kind |-> "Failure", file |-> f]
PageFaultOp(s) == [kind |-> "PageFault", files |-> s]
RecallOp       == [kind |-> "Recall"]

(* The state of a replay: the memory, and whether ingests are unresolved.  *)
Settle(r) == IF r.dirty THEN [m |-> Resolve(r.m), dirty |-> FALSE] ELSE r

Replaying(r, m) == [r EXCEPT !.m = m]

(* `apply_op`: ingests are deferred; an operation that reads cross-file    *)
(* edges resolves them first.                                              *)
ApplyOp(r, op) ==
    CASE op.kind = "Ingest" ->
           [m |-> IngestDeferred(r.m, op.file, op.version), dirty |-> TRUE]
      [] op.kind = "Failure" ->
           Replaying(Settle(r), SignalFailure(Settle(r).m, op.file))
      [] op.kind = "PageFault" ->
           Replaying(Settle(r), SignalFailures(Settle(r).m, op.files))
      [] op.kind = "Recall" -> Settle(r)

(* The memory reached from `m` by `ops`, resolved at the end.              *)
Replay(m, ops) ==
    Settle(FoldLeft(ApplyOp, [m |-> m, dirty |-> FALSE], ops)).m
=============================================================================
