----------------------------- MODULE HuskStore -----------------------------
(***************************************************************************)
(* The on-disk key -> bytes store of src/cold_index.rs: a memtable flushed *)
(* to immutable sorted segments, tombstones, a bounded read cache and a    *)
(* compaction that merges every segment and then removes the old files.    *)
(*                                                                         *)
(* A record's bytes are a member of Values; a file is the map of the keys  *)
(* it holds.  The store has one owner (`&mut self`), so a call is a step,  *)
(* except that a crash can fall between the file removals that end         *)
(* compact: those are one step each.                                       *)
(***************************************************************************)
EXTENDS Integers, FiniteSets

CONSTANTS Keys, Values,
          Missing,        \* no record (None at the outer level)
          Tombstone,      \* the record a delete leaves (Some(None))
          BufferLimit,    \* memtable size that triggers a flush
          CacheCap,       \* capacity of the read cache, 0 disables it
          RemoveMayFail,  \* whether fs::remove_file can return an error
          MaxSeq          \* bound: no segment is numbered MaxSeq or above

ASSUME StoreAssumption ==
  /\ Missing # Tombstone
  /\ Missing \notin Values
  /\ Tombstone \notin Values
  /\ BufferLimit \in Nat \ {0}
  /\ CacheCap \in Nat
  /\ RemoveMayFail \in BOOLEAN
  /\ MaxSeq \in Nat

VARIABLES buffer,    \* the memtable
          segments,  \* the numbers of the open segments
          nextSeq,   \* number of the next segment file
          cache,     \* values read from segments
          files,     \* the directory: number of a segment file -> its records
          doomed,    \* files a running compact has still to remove
          call       \* the last put or delete asked for, <<key, value>>

vars == <<buffer, segments, nextSeq, cache, files, doomed, call>>

Slot == Values \union {Tombstone, Missing}
Records == [Keys -> Slot]
Value(slot) == IF slot = Tombstone THEN Missing ELSE slot
NoRecords == [k \in Keys |-> Missing]
Held(recs) == {k \in Keys : recs[k] # Missing}

-----------------------------------------------------------------------------
\* Layered reads.

Holders(fs, S, k) == {n \in S : fs[n][k] # Missing}
Newest(S) == CHOOSE n \in S : \A m \in S : m <= n
Oldest(S) == CHOOSE n \in S : \A m \in S : n <= m

\* The record for k in the newest of the files S of directory fs that has one.
Stored(fs, S, k) ==
  LET H == Holders(fs, S, k) IN
  IF H = {} THEN Missing ELSE fs[Newest(H)][k]

\* get: the memtable wins, then the cache, then the newest segment.
Lookup(k) ==
  IF buffer[k] # Missing THEN Value(buffer[k])
  ELSE IF cache[k] # Missing THEN cache[k]
  ELSE Value(Stored(files, segments, k))

\* live_entries and scan_prefix merge segments and memtable, not the cache.
Scan(k) == IF buffer[k] # Missing THEN Value(buffer[k])
                                  ELSE Value(Stored(files, segments, k))

\* What a reopened store would return: every segment file is loaded.
OnDisk(k) == Value(Stored(files, DOMAIN files, k))

-----------------------------------------------------------------------------
Init ==
  /\ buffer = NoRecords
  /\ segments = {}
  /\ nextSeq = 0
  /\ cache = NoRecords
  /\ files = [n \in {} |-> NoRecords]
  /\ doomed = {}
  /\ call = <<>>

WithFile(fs, n, recs) ==
  [m \in DOMAIN fs \union {n} |-> IF m = n THEN recs ELSE fs[m]]

\* flush with memtable b.  The segment is written and opened; or write_durable
\* fails; or it is written and Segment::open fails, which leaves the file.
Flushed(b) ==
  /\ nextSeq < MaxSeq
  /\ files' = WithFile(files, nextSeq, b)
  /\ segments' = segments \union {nextSeq}
  /\ nextSeq' = nextSeq + 1
  /\ buffer' = NoRecords

\* Faulty variant: a failed flush has already emptied the memtable.
FlushFailedDropsBuffer(b) ==
  /\ nextSeq < MaxSeq
  /\ files' \in {files, WithFile(files, nextSeq, b)}
  /\ buffer' = NoRecords
  /\ UNCHANGED <<segments, nextSeq>>

FlushFailed(b) ==
  /\ nextSeq < MaxSeq
  /\ files' \in {files, WithFile(files, nextSeq, b)}
  /\ buffer' = b
  /\ UNCHANGED <<segments, nextSeq>>
FlushOutcome(b) == Flushed(b) \/ FlushFailed(b)

\* put and delete, with maybe_flush.
Write(k, slot) ==
  LET b == [buffer EXCEPT ![k] = slot] IN
  /\ doomed = {}
  /\ cache' = [cache EXCEPT ![k] = Missing]
  /\ IF Cardinality(Held(b)) >= BufferLimit
       THEN FlushOutcome(b)
       ELSE buffer' = b /\ UNCHANGED <<segments, nextSeq, files>>
  /\ UNCHANGED doomed
Put(k, v) == Write(k, v) /\ call' = <<k, v>>

\* Faulty variant: the entry is dropped instead of shadowed by a tombstone.
DeleteDropsEntry(k) == Write(k, Missing) /\ call' = <<k, Missing>>
Delete(k) == Write(k, Tombstone) /\ call' = <<k, Missing>>

\* A get that misses memtable and cache fills the cache, evicting one entry
\* when it is full; which one (the least recent) makes no difference here.
CacheInsert(k, v) ==
  IF CacheCap = 0 THEN cache' = cache
  ELSE IF Cardinality(Held(cache)) < CacheCap
    THEN cache' = [cache EXCEPT ![k] = v]
    ELSE \E old \in Held(cache) :
           cache' = [cache EXCEPT ![old] = Missing, ![k] = v]
\* Faulty variant: a record is cached whatever its tag.
GetCachesTombstones(k) ==
  /\ doomed = {}
  /\ buffer[k] = Missing /\ cache[k] = Missing
  /\ Stored(files, segments, k) # Missing
  /\ CacheInsert(k, Stored(files, segments, k))
  /\ UNCHANGED <<buffer, segments, nextSeq, files, doomed, call>>

Get(k) ==
  /\ doomed = {}
  /\ buffer[k] = Missing /\ cache[k] = Missing
  /\ Value(Stored(files, segments, k)) # Missing
  /\ CacheInsert(k, Stored(files, segments, k))
  /\ UNCHANGED <<buffer, segments, nextSeq, files, doomed, call>>

Flush ==
  /\ doomed = {}
  /\ Held(buffer) # {}
  /\ FlushOutcome(buffer)
  /\ UNCHANGED <<cache, doomed, call>>

-----------------------------------------------------------------------------
\* compact.  Its first call is flush, a step of its own: compact goes on only
\* with an empty memtable, and nothing distinguishes it from a compact that
\* starts there.

\* Faulty variant: tombstones survive the merge.
MergedWithTombstones == [k \in Keys |-> Stored(files, segments, k)]

Merged == [k \in Keys |-> Value(Stored(files, segments, k))]

\* Every segment replayed into one, the list of open segments swapped.
Compact ==
  /\ doomed = {}
  /\ Held(buffer) = {}
  /\ Cardinality(segments) >= 2
  /\ IF Held(Merged) = {}
       THEN segments' = {} /\ UNCHANGED <<files, nextSeq>>
       ELSE /\ nextSeq < MaxSeq
            /\ files' = WithFile(files, nextSeq, Merged)
            /\ segments' = {nextSeq}
            /\ nextSeq' = nextSeq + 1
  /\ doomed' = segments
  /\ UNCHANGED <<buffer, cache, call>>

\* The merged segment is written but cannot be opened: compact returns the
\* error and the old list stays in use.
CompactUnopened ==
  /\ doomed = {}
  /\ Held(buffer) = {}
  /\ Cardinality(segments) >= 2
  /\ Held(Merged) # {}
  /\ nextSeq < MaxSeq
  /\ files' = WithFile(files, nextSeq, Merged)
  /\ UNCHANGED <<buffer, segments, nextSeq, cache, doomed, call>>

\* Faulty variant: the newest file goes first.
RemoveNewestFirst ==
  /\ doomed # {}
  /\ files' = [m \in DOMAIN files \ {Newest(doomed)} |-> files[m]]
  /\ doomed' = doomed \ {Newest(doomed)}
  /\ UNCHANGED <<buffer, segments, nextSeq, cache, call>>

\* compact removes the merged-away files oldest first and ignores errors.
RemoveOld ==
  /\ doomed # {}
  /\ \/ files' = [m \in DOMAIN files \ {Oldest(doomed)} |-> files[m]]
     \/ RemoveMayFail /\ UNCHANGED files
  /\ doomed' = doomed \ {Oldest(doomed)}
  /\ UNCHANGED <<buffer, segments, nextSeq, cache, call>>

\* The process dies at any point, and open rebuilds the handle from the files.
CrashReopen ==
  /\ buffer' = NoRecords
  /\ cache' = NoRecords
  /\ segments' = DOMAIN files
  /\ nextSeq' = IF DOMAIN files = {} THEN 0 ELSE Newest(DOMAIN files) + 1
  /\ doomed' = {}
  /\ UNCHANGED <<files, call>>

Next ==
  \/ \E k \in Keys, v \in Values : Put(k, v)
  \/ \E k \in Keys : Delete(k) \/ Get(k)
  \/ Flush \/ Compact \/ CompactUnopened \/ RemoveOld \/ CrashReopen

Spec == Init /\ [][Next]_vars

-----------------------------------------------------------------------------
\* Type invariant of the store (HuskStore's fields and its directory; call is a
\* history variable).
TypeOK ==
  /\ buffer \in Records
  /\ segments \subseteq Nat
  /\ nextSeq \in Nat
  /\ cache \in [Keys -> Values \union {Missing}]
  /\ DOMAIN files \subseteq Nat
  /\ files \in [DOMAIN files -> Records]
  /\ doomed \subseteq Nat

\* flush and compact number a new file above every open segment, so that the
\* order of numbers is the order of writes; the one file that may already
\* have the next number is one that was written and never opened.
SequenceOrder ==
  /\ segments \subseteq DOMAIN files
  /\ DOMAIN files \subseteq 0..nextSeq
  /\ nextSeq \notin segments

\* A cached value is the one the segments hold: put and delete are the only
\* calls that can make it stale, and both drop it.
CacheCoherent ==
  \A k \in Keys : cache[k] # Missing =>
    /\ buffer[k] = Missing
    /\ cache[k] = Value(Stored(files, segments, k))

\* The directory holds the open segments, the files compact has still to remove
\* and at most one file that was written and never opened; that one says
\* nothing that the memtable or the segments do not say.
FilesAccounted ==
  /\ doomed \intersect segments = {}
  /\ doomed \subseteq DOMAIN files
  /\ nextSeq \notin doomed
  /\ DOMAIN files \ {nextSeq} = segments \union doomed
  /\ nextSeq \in DOMAIN files =>
       \A k \in Keys : \/ buffer[k] # Missing
                      \/ files[nextSeq][k] = Missing
                      \/ Value(files[nextSeq][k])
                           = Value(Stored(files, segments, k))

\* While compact removes files, a crash at any point reopens the merged store.
MergedShadowsOld ==
  doomed # {} =>
    /\ buffer = NoRecords
    /\ \A n \in segments, d \in doomed : d < n
    /\ \A k \in Keys : OnDisk(k) = Value(Stored(files, segments, k))

\* What the memtable, the cache, the open segments and the directory say of a
\* key is one thing: no cached value is stale, no file that a crash, a failed
\* flush or an unfinished compaction leaves behind can be read back as newer.
StoreCoherent ==
  SequenceOrder /\ CacheCoherent /\ FilesAccounted /\ MergedShadowsOld

\* Removing the merged-away files never changes what a reopen would return:
\* compact's "merged data shadowing the old, never a gap".
RemovalIsInvisible ==
  [][doomed' # doomed /\ segments' = segments
       => \A k \in Keys : OnDisk(k)' = OnDisk(k)]_vars

\* A compaction that ran to its end leaves no tombstone on disk ("the garbage
\* collection that keeps deletes from growing the store forever").
CompactionReclaims ==
  [][RemoveOld /\ doomed' = {}
       => \A n \in DOMAIN files', k \in Keys : files'[n][k] # Tombstone]_vars

\* The store implements the abstract map.
Map == INSTANCE StoreMap WITH
         view <- [k \in Keys |-> Lookup(k)],
         durable <- [k \in Keys |-> OnDisk(k)]
ImplementsMap == Map!Spec
=============================================================================
