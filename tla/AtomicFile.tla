----------------------------- MODULE AtomicFile -----------------------------
(***************************************************************************)
(* What the callers of `write_durable` (util.rs) rely on: a file holds the *)
(* whole contents of one call, or does not exist.  A power loss may bring  *)
(* back contents that were there since the last time everything settled,   *)
(* and never a mixture.                                                    *)
(***************************************************************************)
CONSTANTS Contents, NoFile

VARIABLES shown,    \* what a reader of the path finds
          lasting   \* what it may find after a power loss

vars == <<shown, lasting>>

Init == shown = NoFile /\ lasting = {NoFile}

Replace(c) == shown' = c /\ lasting' = lasting \cup {c}

(* Part of the past, or all of it, can no longer come back.                *)
Forget ==
    /\ lasting' \in SUBSET lasting /\ shown \in lasting'
    /\ UNCHANGED shown

PowerLoss == \E c \in lasting : shown' = c /\ lasting' = {c}

Next == (\E c \in Contents : Replace(c)) \/ Forget \/ PowerLoss

Spec == Init /\ [][Next]_vars
=============================================================================
