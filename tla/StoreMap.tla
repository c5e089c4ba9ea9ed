------------------------------ MODULE StoreMap ------------------------------
(***************************************************************************)
(* What a HuskStore promises its callers: one map from keys to values that *)
(* the process sees, and the copy of it that a later open would find on    *)
(* disk.  Reads, compaction and the read cache do not exist at this level. *)
(***************************************************************************)
CONSTANTS Keys, Values, Missing

VARIABLES call,     \* the last write asked for, <<key, value>>; <<>> at first
          view,     \* what get returns for every key
          durable   \* what get would return after a crash and a reopen

mapVars == <<call, view, durable>>

Contents == [Keys -> Values \union {Missing}]

Init ==
  /\ call = <<>>
  /\ view = [k \in Keys |-> Missing]
  /\ durable = view

\* put and delete (v = Missing) may also persist everything, when they
\* happen to fill the write buffer.
Write(k, v) ==
  /\ call' = <<k, v>>
  /\ view' = [view EXCEPT ![k] = v]
  /\ durable' \in {durable, view'}

Persist == durable' = view /\ UNCHANGED <<call, view>>

Recover == view' = durable /\ UNCHANGED <<call, durable>>

Next ==
  \/ \E k \in Keys, v \in Values \union {Missing} : Write(k, v)
  \/ Persist
  \/ Recover

Spec == Init /\ [][Next]_mapVars
=============================================================================
