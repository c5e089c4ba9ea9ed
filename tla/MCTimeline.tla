----------------------------- MODULE MCTimeline -----------------------------
(* Bounded instances of Timeline: see Timeline.cfg, TimelineReopened.cfg.  *)
EXTENDS Timeline, TLC

CONSTANTS fa, fb, fc, caller, definer, plain

OneFault == {<<f>> : f \in Files}

Symmetric == Permutations(Files)

(* Bounds: either one session, of four operations over three files that    *)
(* call and define, before its first checkpoint ...                        *)
OneSession ==
    /\ opens <= 1 /\ phase # "checkpointing" /\ tl.folded = 0
    /\ outside = 0 /\ ~corrupted

LoggedOps == {TimelineHead(tl)[i][2] : i \in 2 .. LogicalLen(tl) + 1}

Mentioned == Present(Loaded) \cup {op.file : op \in LoggedOps \ {RecallOp}}

(* ... or two sessions with all that happens to their files, of three      *)
(* operations (two if one is a failure) over two files whose content makes *)
(* no edge.                                                                *)
TwoSessions ==
    /\ LogicalLen(tl) <= 3
    /\ \A op \in LoggedOps : op.kind # "PageFault"
    /\ (\E op \in LoggedOps : op.kind = "Failure") => LogicalLen(tl) <= 2
    /\ \A op \in LoggedOps : op.kind = "Ingest" => op.version = definer
    /\ \A m \in {live, Loaded} : \A f \in Present(m) : m.source[f] = definer
    /\ Cardinality(Mentioned) <= 2

OneOrTwoSessions == OneSession \/ TwoSessions
=============================================================================
