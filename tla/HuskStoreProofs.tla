-------------------------- MODULE HuskStoreProofs --------------------------
(***************************************************************************)
(* Theorems about HuskStore, for every set of keys and values and every    *)
(* memtable and cache size.                                                *)
(***************************************************************************)
EXTENDS HuskStore, FiniteSetTheorems, WellFoundedInduction, TLAPS

-----------------------------------------------------------------------------
\* Sets of file numbers: they are bounded by nextSeq, so each has a newest and
\* an oldest member.

LEMMA OldestExists ==
  ASSUME NEW S \in SUBSET Nat, S # {}
  PROVE  Oldest(S) \in S /\ \A m \in S : Oldest(S) <= m
<1> DEFINE less == OpToRel(<, Nat)
<1>1. IsWellFoundedOn(less, Nat)
  BY NatLessThanWellFounded
<1>2. \A x, y \in Nat : y < x => <<y, x>> \in less
  BY DEF OpToRel
<1> HIDE DEF less
<1>3. PICK x \in S : \A y \in S : ~(<<y, x>> \in less)
  BY <1>1, WFMin
<1>4. \A y \in S : y \in Nat /\ ~(y < x)
  BY <1>2, <1>3
<1>5. \A y \in S : x <= y
  BY <1>4
<1> QED BY <1>5 DEF Oldest

Bounded(S) == \E b \in Nat : S \subseteq 0..b

AllBelow(S, n) == n \in Nat /\ S \subseteq 0..n /\ n \notin S

LEMMA BoundedSubset ==
  ASSUME NEW S, NEW T \in SUBSET S, Bounded(S)
  PROVE  Bounded(T)
BY DEF Bounded

LEMMA BoundedBelow ==
  ASSUME NEW n \in Nat, NEW S, S \subseteq 0..n
  PROVE  Bounded(S)
BY DEF Bounded

LEMMA NewestExists ==
  ASSUME NEW S, Bounded(S), S # {}
  PROVE  Newest(S) \in S /\ \A m \in S : m <= Newest(S)
<1>b. PICK b \in Nat : S \subseteq 0..b
  BY DEF Bounded
<1> DEFINE T == {b - m : m \in S}
<1>a. \A m \in S : m \in Nat /\ m <= b /\ b - m \in Nat
  BY <1>b
<1>1. T \in SUBSET Nat /\ T # {}
  BY <1>a
<1> HIDE DEF T
<1>2. Oldest(T) \in T /\ \A t \in T : Oldest(T) <= t
  BY <1>1, OldestExists
<1>3. PICK n \in S : Oldest(T) = b - n
  BY <1>2 DEF T
<1>4. \A m \in S : b - n <= b - m
  BY <1>2, <1>3 DEF T
<1>5. \A m \in S : m <= n
  BY <1>4, <1>a
<1> QED BY <1>5 DEF Newest

-----------------------------------------------------------------------------
\* Layered reads of a directory fs.

LEMMA StoredHolder ==
  ASSUME NEW S, NEW fs, NEW k, Bounded(S), Holders(fs, S, k) # {}
  PROVE  \E n \in S : /\ fs[n][k] # Missing
                      /\ \A m \in S : fs[m][k] # Missing => m <= n
                      /\ Stored(fs, S, k) = fs[n][k]
<1>1. Bounded(Holders(fs, S, k))
  BY BoundedSubset DEF Holders
<1>2. /\ Newest(Holders(fs, S, k)) \in Holders(fs, S, k)
      /\ \A m \in Holders(fs, S, k) : m <= Newest(Holders(fs, S, k))
  BY <1>1, NewestExists
<1> QED BY <1>2 DEF Stored, Holders

\* The record is determined by the newest file that has the key.
LEMMA StoredIs ==
  ASSUME NEW S, NEW fs, NEW k, NEW n \in S, Bounded(S),
         fs[n][k] # Missing,
         \A m \in S : fs[m][k] # Missing => m <= n
  PROVE  Stored(fs, S, k) = fs[n][k]
<1>1. Holders(fs, S, k) # {}
  BY DEF Holders
<1>2. PICK p \in S : /\ fs[p][k] # Missing
                     /\ \A m \in S : fs[m][k] # Missing => m <= p
                     /\ Stored(fs, S, k) = fs[p][k]
  BY <1>1, StoredHolder
<1>3. p <= n /\ n <= p /\ p \in Nat /\ n \in Nat
  BY <1>2 DEF Bounded
<1>4. p = n
  BY <1>3
<1> QED BY <1>2, <1>4

LEMMA StoredNothing ==
  ASSUME NEW S, NEW fs, NEW k, \A m \in S : fs[m][k] = Missing
  PROVE  Stored(fs, S, k) = Missing
BY DEF Stored, Holders

\* Reads depend only on the files that are read.
LEMMA StoredFrame ==
  ASSUME NEW S, NEW fs, NEW gs, NEW k, \A m \in S : gs[m][k] = fs[m][k],
         Bounded(S)
  PROVE  Stored(gs, S, k) = Stored(fs, S, k)
<1>1. CASE Holders(fs, S, k) = {}
  BY <1>1, StoredNothing DEF Holders
<1>2. CASE Holders(fs, S, k) # {}
  <2>1. PICK n \in S : /\ fs[n][k] # Missing
                       /\ \A m \in S : fs[m][k] # Missing => m <= n
                       /\ Stored(fs, S, k) = fs[n][k]
    BY <1>2, StoredHolder
  <2>2. Stored(gs, S, k) = gs[n][k]
    BY <2>1, StoredIs
  <2> QED BY <2>1, <2>2
<1> QED BY <1>1, <1>2

\* A file numbered above the others shadows them, key by key.
LEMMA StoredTopmost ==
  ASSUME NEW n, NEW S, NEW T, NEW fs, NEW k,
         AllBelow(S, n), T = S \union {n}
  PROVE  Stored(fs, T, k)
           = IF fs[n][k] # Missing THEN fs[n][k] ELSE Stored(fs, S, k)
<1>1. Bounded(T) /\ Bounded(S)
  <2>1. T \subseteq 0..n /\ S \subseteq 0..n /\ n \in Nat
    BY DEF AllBelow
  <2> QED BY <2>1, BoundedBelow
<1>2. n \in T /\ S \subseteq T /\ \A m \in T : m \in S \/ m = n
  OBVIOUS
<1>3. \A m \in T : m <= n
  <2>1. n <= n /\ \A m \in S : m <= n
    BY DEF AllBelow
  <2> QED BY <2>1
<1>4. CASE fs[n][k] # Missing
  <2>0. n \in T /\ Bounded(T)
    BY <1>1, <1>2
  <2>a. \A m \in T : fs[m][k] # Missing => m <= n
    BY <1>3
  <2>1. Stored(fs, T, k) = fs[n][k]
    BY <1>4, <2>0, <2>a, StoredIs
  <2> QED BY <1>4, <2>1
<1>5. CASE fs[n][k] = Missing
  <2>1. CASE Holders(fs, S, k) = {}
    <3>1. \A m \in T : fs[m][k] = Missing
      BY <1>2, <1>5, <2>1 DEF Holders
    <3>2. Stored(fs, T, k) = Missing
      BY <3>1, StoredNothing
    <3>3. Stored(fs, S, k) = Missing
      BY <2>1 DEF Stored
    <3> QED BY <1>5, <3>2, <3>3
  <2>2. CASE Holders(fs, S, k) # {}
    <3>1. PICK p \in S : /\ fs[p][k] # Missing
                         /\ \A m \in S : fs[m][k] # Missing => m <= p
                         /\ Stored(fs, S, k) = fs[p][k]
      BY <1>1, <2>2, StoredHolder
    <3>2. \A m \in T : fs[m][k] # Missing => m <= p
      BY <1>2, <1>5, <3>1
    <3>3. p \in T
      BY <1>2
    <3>4. Stored(fs, T, k) = fs[p][k]
      BY <1>1, <3>1, <3>2, <3>3, StoredIs
    <3> QED BY <1>5, <3>1, <3>3, <3>4
  <2> QED BY <2>1, <2>2
<1> QED BY <1>4, <1>5

LEMMA StoredOnTop ==
  ASSUME NEW n, NEW S, NEW T, NEW fs, NEW gs, NEW k,
         AllBelow(S, n), T = S \union {n},
         \A m \in S : gs[m][k] = fs[m][k]
  PROVE  Stored(gs, T, k)
           = IF gs[n][k] # Missing THEN gs[n][k] ELSE Stored(fs, S, k)
<1>1. Bounded(S)
  BY DEF AllBelow, Bounded
<1>2. Stored(gs, S, k) = Stored(fs, S, k)
  BY <1>1, StoredFrame
<1>3. Stored(gs, T, k) = IF gs[n][k] # Missing THEN gs[n][k] ELSE Stored(gs, S, k)
  BY StoredTopmost
<1> QED BY <1>2, <1>3

\* Removing the oldest of the files D below S changes no read, when D holds
\* nothing but tombstones for the keys that S lacks.
LEMMA StoredWithoutOldest ==
  ASSUME NEW S, NEW fs, NEW k, NEW o \in S, Bounded(S),
         \A m \in S : o <= m,
         \/ \E m \in S : m # o /\ fs[m][k] # Missing
         \/ Value(Stored(fs, S, k)) = Missing
  PROVE  Value(Stored(fs, S \ {o}, k)) = Value(Stored(fs, S, k))
<1> DEFINE T == S \ {o}
<1>1. T \subseteq S /\ o \notin T /\ \A m \in S : m \in T \/ m = o
  OBVIOUS
<1>2. Bounded(T)
  BY BoundedSubset
<1> HIDE DEF T
<1>3. CASE \A m \in T : fs[m][k] = Missing
  <2>1. Value(Stored(fs, T, k)) = Missing
    BY <1>3, StoredNothing DEF Value
  <2>2. Value(Stored(fs, S, k)) = Missing
    BY <1>1, <1>3
  <2> QED BY <2>1, <2>2 DEF T
<1>4. CASE Holders(fs, T, k) # {}
  <2>1. PICK p \in T : /\ fs[p][k] # Missing
                       /\ \A m \in T : fs[m][k] # Missing => m <= p
                       /\ Stored(fs, T, k) = fs[p][k]
    BY <1>2, <1>4, StoredHolder
  <2>2. \A m \in S : fs[m][k] # Missing => m <= p
    BY <1>1, <2>1
  <2>3. Stored(fs, S, k) = fs[p][k]
    BY <1>1, <2>1, <2>2, StoredIs
  <2> QED BY <2>1, <2>3 DEF T
<1> QED BY <1>3, <1>4 DEF Holders

-----------------------------------------------------------------------------
\* The inductive invariant.  CacheCoherent alone is not inductive: the files
\* have to be numbered in the order of writes, and a compaction may only drop
\* files that its merged segment shadows.
Inv ==
  /\ TypeOK
  /\ SequenceOrder
  /\ CacheCoherent
  /\ FilesAccounted
  /\ MergedShadowsOld

LEMMA SegmentsBounded ==
  ASSUME TypeOK, SequenceOrder
  PROVE  /\ Bounded(segments) /\ Bounded(DOMAIN files)
         /\ AllBelow(segments, nextSeq)
<1>1. segments \subseteq 0..nextSeq /\ nextSeq \in Nat
  BY DEF TypeOK, SequenceOrder
<1>2. DOMAIN files \subseteq 0..nextSeq
  BY DEF SequenceOrder
<1>3. Bounded(segments)
  BY <1>1, BoundedBelow
<1>4. Bounded(DOMAIN files)
  BY <1>1, <1>2, BoundedBelow
<1>5. AllBelow(segments, nextSeq)
  BY <1>1 DEF AllBelow, SequenceOrder
<1> QED BY <1>3, <1>4, <1>5

\* What a layered read returns is a record.
LEMMA StoredType ==
  ASSUME NEW S, NEW fs, NEW k, Bounded(S), \A m \in S : fs[m][k] \in Slot
  PROVE  /\ Stored(fs, S, k) \in Slot
         /\ Value(Stored(fs, S, k)) \in Values \union {Missing}
         /\ Value(Stored(fs, S, k)) # Missing
              => Value(Stored(fs, S, k)) = Stored(fs, S, k)
<1>1. CASE Holders(fs, S, k) = {}
  BY <1>1 DEF Stored, Value, Slot
<1>2. CASE Holders(fs, S, k) # {}
  <2>1. \E n \in S : Stored(fs, S, k) = fs[n][k]
    BY <1>2, StoredHolder
  <2>2. Stored(fs, S, k) \in Slot
    BY <2>1
  <2> QED BY <2>2 DEF Value, Slot
<1> QED BY <1>1, <1>2

LEMMA FileRecords ==
  ASSUME TypeOK, SequenceOrder, NEW k \in Keys
  PROVE  /\ \A m \in DOMAIN files : files[m][k] \in Slot
         /\ \A m \in segments : files[m][k] \in Slot
BY DEF TypeOK, SequenceOrder, Records

\* With no compaction running, the directory says for a key that the memtable
\* lacks what the open segments say.
LEMMA DirectoryAgrees ==
  ASSUME Inv, doomed = {}, NEW k \in Keys, buffer[k] = Missing
  PROVE  OnDisk(k) = Value(Stored(files, segments, k))
<1>0. TypeOK /\ SequenceOrder /\ FilesAccounted
  BY DEF Inv
<1>1. CASE nextSeq \notin DOMAIN files
  <2>1. DOMAIN files = segments
    BY <1>0, <1>1 DEF FilesAccounted, SequenceOrder
  <2> QED BY <2>1 DEF OnDisk
<1>2. CASE nextSeq \in DOMAIN files
  <2>1. DOMAIN files = segments \union {nextSeq}
    BY <1>0, <1>2 DEF FilesAccounted, SequenceOrder
  <2>2. AllBelow(segments, nextSeq)
    BY <1>0, SegmentsBounded
  <2>3. Stored(files, DOMAIN files, k)
          = IF files[nextSeq][k] # Missing THEN files[nextSeq][k]
                                           ELSE Stored(files, segments, k)
    BY <2>1, <2>2, StoredTopmost
  <2>4. \/ files[nextSeq][k] = Missing
        \/ Value(files[nextSeq][k]) = Value(Stored(files, segments, k))
    BY <1>0, <1>2 DEF FilesAccounted
  <2> QED BY <2>1, <2>3, <2>4 DEF OnDisk
<1> QED BY <1>1, <1>2

\* Writing a file at nextSeq while no compaction runs.
LEMMA DirectoryAfterWrite ==
  ASSUME Inv, doomed = {}, NEW b, files' = WithFile(files, nextSeq, b),
         NEW k \in Keys
  PROVE  /\ DOMAIN files' = segments \union {nextSeq}
         /\ files'[nextSeq] = b
         /\ \A m \in segments : files'[m] = files[m]
         /\ Stored(files', segments, k) = Stored(files, segments, k)
         /\ Stored(files', segments \union {nextSeq}, k)
              = IF b[k] # Missing THEN b[k] ELSE Stored(files, segments, k)
         /\ OnDisk(k)' = IF b[k] # Missing THEN Value(b[k])
                                          ELSE Value(Stored(files, segments, k))
<1>0. TypeOK /\ SequenceOrder /\ FilesAccounted
  BY DEF Inv
<1>1. DOMAIN files' = segments \union {nextSeq}
  BY <1>0 DEF FilesAccounted, SequenceOrder, WithFile
<1>2. files'[nextSeq] = b /\ \A m \in segments : files'[m] = files[m]
  BY <1>0 DEF WithFile, SequenceOrder
<1>3. AllBelow(segments, nextSeq) /\ Bounded(segments)
  BY <1>0, SegmentsBounded
<1>4. Stored(files', segments, k) = Stored(files, segments, k)
  BY <1>2, <1>3, StoredFrame
<1>5. Stored(files', DOMAIN files', k)
        = IF files'[nextSeq][k] # Missing THEN files'[nextSeq][k]
                                          ELSE Stored(files, segments, k)
  <2>1. \A m \in segments : files'[m][k] = files[m][k]
    BY <1>2
  <2> QED BY <1>1, <1>3, <2>1, StoredOnTop
<1>6. OnDisk(k)' = Value(Stored(files', DOMAIN files', k))
  BY DEF OnDisk
<1> QED BY <1>1, <1>2, <1>4, <1>5, <1>6

-----------------------------------------------------------------------------
\* A flush with memtable b, in a state whose cache misses the keys of b.

LEMMA FlushKeepsInv ==
  ASSUME Inv, doomed = {}, NEW b \in Records,
         \A k \in Keys : b[k] = Missing => buffer[k] = Missing,
         cache' \in [Keys -> Values \union {Missing}],
         \A k \in Keys : cache'[k] # Missing => /\ cache'[k] = cache[k]
                                               /\ b[k] = Missing,
         FlushOutcome(b), UNCHANGED doomed
  PROVE  Inv'
<1>0. TypeOK /\ SequenceOrder /\ CacheCoherent /\ FilesAccounted
  BY DEF Inv
<1>1. MergedShadowsOld'
  BY DEF MergedShadowsOld
<1>2. \A k \in Keys : cache'[k] # Missing =>
        /\ b[k] = Missing
        /\ cache'[k] = Value(Stored(files, segments, k))
  BY <1>0 DEF CacheCoherent
<1>3. CASE Flushed(b)
  <2>1. /\ files' = WithFile(files, nextSeq, b) /\ buffer' = NoRecords
        /\ segments' = segments \union {nextSeq} /\ nextSeq' = nextSeq + 1
    BY <1>3 DEF Flushed
  <2>2. /\ DOMAIN files' = segments' /\ files'[nextSeq] = b
        /\ \A m \in segments : files'[m] = files[m]
    <3>1. CASE Keys = {}
      BY <2>1, <1>0, <3>1 DEF WithFile, FilesAccounted, SequenceOrder
    <3>2. CASE Keys # {}
      BY <2>1, <3>2, DirectoryAfterWrite
    <3> QED BY <3>1, <3>2
  <2>3. TypeOK'
    BY <1>0, <2>1, <2>2 DEF TypeOK, SequenceOrder, Records, Slot, NoRecords, WithFile
  <2>4. SequenceOrder'
    BY <1>0, <2>1, <2>2 DEF TypeOK, SequenceOrder
  <2>5. CacheCoherent'
    <3> SUFFICES ASSUME NEW k \in Keys, cache'[k] # Missing
                 PROVE  /\ buffer'[k] = Missing
                        /\ cache'[k] = Value(Stored(files', segments', k))
      BY DEF CacheCoherent
    <3>1. Stored(files', segments', k) = Stored(files, segments, k)
      BY <1>2, <2>1, DirectoryAfterWrite
    <3> QED BY <1>2, <2>1, <3>1 DEF NoRecords
  <2>6. FilesAccounted'
    BY <1>0, <2>1, <2>2 DEF FilesAccounted, SequenceOrder, TypeOK
  <2> QED BY <1>1, <2>3, <2>4, <2>5, <2>6 DEF Inv
<1>4. CASE FlushFailed(b)
  <2>1. /\ buffer' = b /\ UNCHANGED <<segments, nextSeq>>
        /\ files' = files \/ files' = WithFile(files, nextSeq, b)
    BY <1>4 DEF FlushFailed
  <2>2. CASE files' = files
    <3>1. TypeOK'
      BY <1>0, <2>1, <2>2 DEF TypeOK
    <3>2. SequenceOrder'
      BY <1>0, <2>1, <2>2 DEF SequenceOrder
    <3>3. CacheCoherent'
      BY <1>2, <2>1, <2>2 DEF CacheCoherent
    <3>4. FilesAccounted'
      BY <1>0, <2>1, <2>2 DEF FilesAccounted
    <3> QED BY <1>1, <3>1, <3>2, <3>3, <3>4 DEF Inv
  <2>3. CASE files' = WithFile(files, nextSeq, b)
    <3>1. DOMAIN files' = segments \union {nextSeq}
      BY <1>0, <2>3 DEF FilesAccounted, SequenceOrder, WithFile
    <3>2. files'[nextSeq] = b /\ \A m \in segments : files'[m] = files[m]
      BY <1>0, <2>3 DEF WithFile, SequenceOrder
    <3>3. \A k \in Keys : Stored(files', segments, k) = Stored(files, segments, k)
      BY <2>3, DirectoryAfterWrite
    <3>4. TypeOK'
      BY <1>0, <2>1, <2>3, <3>1, <3>2 DEF TypeOK, SequenceOrder, WithFile
    <3>5. SequenceOrder'
      BY <1>0, <2>1, <3>1 DEF TypeOK, SequenceOrder
    <3>6. CacheCoherent'
      BY <1>2, <2>1, <3>3 DEF CacheCoherent
    <3>7. FilesAccounted'
      BY <1>0, <2>1, <3>1, <3>2 DEF FilesAccounted, SequenceOrder
    <3> QED BY <1>1, <3>4, <3>5, <3>6, <3>7 DEF Inv
  <2> QED BY <2>1, <2>2, <2>3
<1> QED BY <1>3, <1>4 DEF FlushOutcome

LEMMA WriteKeepsInv ==
  ASSUME Inv, NEW k \in Keys, NEW slot \in Slot \ {Missing}, Write(k, slot)
  PROVE  Inv'
<1> DEFINE b == [buffer EXCEPT ![k] = slot]
<1>0. TypeOK /\ SequenceOrder /\ CacheCoherent /\ FilesAccounted
  BY DEF Inv
<1>1. b \in Records /\ b[k] = slot /\ \A j \in Keys \ {k} : b[j] = buffer[j]
  BY <1>0 DEF TypeOK, Records
<1>2. /\ doomed = {} /\ UNCHANGED doomed
      /\ cache' = [cache EXCEPT ![k] = Missing]
      /\ FlushOutcome(b) \/ (buffer' = b /\ UNCHANGED <<segments, nextSeq, files>>)
  BY DEF Write
<1>3. /\ cache' \in [Keys -> Values \union {Missing}]
      /\ cache'[k] = Missing /\ \A j \in Keys \ {k} : cache'[j] = cache[j]
  BY <1>0, <1>2 DEF TypeOK
<1>4. \A j \in Keys : cache'[j] # Missing => cache'[j] = cache[j] /\ b[j] = Missing
  BY <1>0, <1>1, <1>3 DEF CacheCoherent
<1>5. \A j \in Keys : b[j] = Missing => buffer[j] = Missing
  BY <1>1
<1> HIDE DEF b
<1>6. CASE FlushOutcome(b)
  BY <1>1, <1>2, <1>3, <1>4, <1>5, <1>6, FlushKeepsInv
<1>7. CASE buffer' = b /\ UNCHANGED <<segments, nextSeq, files>>
  <2>1. TypeOK'
    BY <1>0, <1>1, <1>2, <1>3, <1>7 DEF TypeOK
  <2>2. SequenceOrder'
    BY <1>0, <1>7 DEF SequenceOrder
  <2>3. CacheCoherent'
    BY <1>0, <1>4, <1>7 DEF CacheCoherent
  <2>4. FilesAccounted'
    BY <1>0, <1>2, <1>5, <1>7 DEF FilesAccounted
  <2>5. MergedShadowsOld'
    BY <1>2 DEF MergedShadowsOld
  <2> QED BY <2>1, <2>2, <2>3, <2>4, <2>5 DEF Inv
<1> QED BY <1>2, <1>6, <1>7

LEMMA GetKeepsInv ==
  ASSUME Inv, NEW k \in Keys, Get(k)
  PROVE  Inv'
<1>0. TypeOK /\ SequenceOrder /\ CacheCoherent /\ FilesAccounted
  BY DEF Inv
<1> DEFINE v == Stored(files, segments, k)
<1>1. /\ doomed = {} /\ buffer[k] = Missing /\ Value(v) # Missing
      /\ CacheInsert(k, v)
      /\ UNCHANGED <<buffer, segments, nextSeq, files, doomed>>
  BY DEF Get
<1>2. v \in Values /\ v = Value(v)
  <2>1. Bounded(segments) /\ \A m \in segments : files[m][k] \in Slot
    BY <1>0, SegmentsBounded, FileRecords
  <2>2. /\ Value(v) \in Values \union {Missing}
        /\ Value(v) # Missing => Value(v) = v
    BY <2>1, StoredType
  <2> HIDE DEF v
  <2> QED BY <1>1, <2>2
<1> HIDE DEF v
<1>3. /\ cache' \in [Keys -> Values \union {Missing}]
      /\ \A j \in Keys : cache'[j] # Missing => cache'[j] = cache[j] \/ (j = k /\ cache'[j] = v)
  <2>1. CASE cache' = cache
    BY <1>0, <2>1 DEF TypeOK
  <2>2. CASE cache' = [cache EXCEPT ![k] = v]
    BY <1>0, <1>2, <2>2 DEF TypeOK
  <2>3. ASSUME NEW old \in Keys, cache' = [cache EXCEPT ![old] = Missing, ![k] = v]
        PROVE  /\ cache' \in [Keys -> Values \union {Missing}]
               /\ \A j \in Keys : cache'[j] # Missing
                                  => cache'[j] = cache[j] \/ (j = k /\ cache'[j] = v)
    BY <1>0, <1>2, <2>3 DEF TypeOK
  <2> QED BY <1>1, <2>1, <2>2, <2>3 DEF CacheInsert, Held
<1>4. TypeOK'
  BY <1>0, <1>1, <1>3 DEF TypeOK
<1>5. SequenceOrder'
  BY <1>0, <1>1 DEF SequenceOrder
<1>6. CacheCoherent'
  BY <1>0, <1>1, <1>2, <1>3 DEF CacheCoherent, v
<1>7. FilesAccounted'
  BY <1>0, <1>1 DEF FilesAccounted
<1>8. MergedShadowsOld'
  BY <1>1 DEF MergedShadowsOld
<1> QED BY <1>4, <1>5, <1>6, <1>7, <1>8 DEF Inv

LEMMA ExplicitFlushKeepsInv ==
  ASSUME Inv, Flush
  PROVE  Inv'
<1>0. TypeOK /\ CacheCoherent
  BY DEF Inv
<1>1. /\ doomed = {} /\ FlushOutcome(buffer) /\ cache' = cache /\ doomed' = doomed
  BY DEF Flush
<1>2. /\ buffer \in Records /\ cache' \in [Keys -> Values \union {Missing}]
      /\ \A k \in Keys : cache'[k] # Missing => cache'[k] = cache[k] /\ buffer[k] = Missing
  BY <1>0, <1>1 DEF TypeOK, CacheCoherent
<1> QED BY <1>1, <1>2, FlushKeepsInv

-----------------------------------------------------------------------------
\* Compaction.

LEMMA MergedIs ==
  ASSUME Inv, NEW k \in Keys
  PROVE  /\ Merged \in Records
         /\ Merged[k] = Value(Stored(files, segments, k))
         /\ Value(Merged[k]) = Merged[k]
<1>0. TypeOK /\ SequenceOrder
  BY DEF Inv
<1>1. ASSUME NEW j \in Keys
      PROVE  Value(Stored(files, segments, j)) \in Values \union {Missing}
  <2>1. Bounded(segments) /\ \A m \in segments : files[m][j] \in Slot
    BY <1>0, SegmentsBounded, FileRecords
  <2> QED BY <2>1, StoredType
<1>2. Merged[k] = Value(Stored(files, segments, k))
  BY DEF Merged
<1>3. Merged[k] \in Values \union {Missing}
  BY <1>1, <1>2
<1>4. Value(Merged[k]) = Merged[k]
  BY <1>3, StoreAssumption DEF Value
<1>5. Merged \in Records
  BY <1>1 DEF Merged, Records, Slot
<1> QED BY <1>2, <1>4, <1>5

LEMMA CompactKeepsInv ==
  ASSUME Inv, Compact
  PROVE  Inv'
<1>0. TypeOK /\ SequenceOrder /\ CacheCoherent /\ FilesAccounted
  BY DEF Inv
<1>1. /\ doomed = {} /\ doomed' = segments /\ UNCHANGED <<buffer, cache>>
      /\ \A k \in Keys : buffer[k] = Missing
  BY DEF Compact, Held
<1>2. buffer = NoRecords
  BY <1>0, <1>1 DEF TypeOK, Records, NoRecords
<1>3. CASE Held(Merged) = {} /\ segments' = {} /\ UNCHANGED <<files, nextSeq>>
  <2>1. \A k \in Keys : Value(Stored(files, segments, k)) = Missing
    BY <1>3, MergedIs DEF Held
  <2>2. \A k \in Keys : Stored(files', segments', k) = Missing
    BY <1>3, StoredNothing
  <2>3. Value(Missing) = Missing
    BY DEF Value
  <2>4. TypeOK'
    BY <1>0, <1>1, <1>3 DEF TypeOK
  <2>5. SequenceOrder'
    BY <1>0, <1>3 DEF SequenceOrder
  <2>6. CacheCoherent'
    BY <1>0, <1>1, <2>1 DEF CacheCoherent
  <2>7. FilesAccounted'
    BY <1>0, <1>1, <1>3, <2>1, <2>2, <2>3 DEF FilesAccounted, SequenceOrder
  <2>8. MergedShadowsOld'
    <3>1. \A k \in Keys : OnDisk(k) = Missing
      BY <1>1, <2>1, DirectoryAgrees
    <3>2. \A k \in Keys : OnDisk(k)' = OnDisk(k)
      BY <1>3 DEF OnDisk
    <3> QED BY <1>1, <1>2, <1>3, <2>2, <2>3, <3>1, <3>2 DEF MergedShadowsOld
  <2> QED BY <2>4, <2>5, <2>6, <2>7, <2>8 DEF Inv
<1>4. CASE /\ files' = WithFile(files, nextSeq, Merged)
           /\ segments' = {nextSeq} /\ nextSeq' = nextSeq + 1
           /\ Held(Merged) # {}
  <2>1. PICK key \in Keys : Merged[key] # Missing
    BY <1>4 DEF Held
  <2>2. /\ DOMAIN files' = segments \union {nextSeq} /\ files'[nextSeq] = Merged
        /\ \A m \in segments : files'[m] = files[m]
    BY <1>1, <1>4, <2>1, DirectoryAfterWrite
  <2>3. \A k \in Keys : Value(Stored(files', segments', k)) = Value(Stored(files, segments, k))
    <3> SUFFICES ASSUME NEW k \in Keys
                 PROVE  Value(Stored(files', {nextSeq}, k)) = Value(Stored(files, segments, k))
      BY <1>4
    <3>1. Merged[k] = Value(Stored(files, segments, k)) /\ Value(Merged[k]) = Merged[k]
      BY MergedIs
    <3> DEFINE T == {nextSeq}
    <3>2. Bounded(T) /\ nextSeq \in T /\ \A m \in T : m = nextSeq
      BY <1>0 DEF Bounded, TypeOK
    <3>3. \A m \in T : m <= nextSeq
      BY <1>0 DEF TypeOK
    <3>4. Stored(files', T, k) = Merged[k]
      <4> HIDE DEF T
      <4>1. CASE Merged[k] # Missing
        BY <2>2, <3>2, <3>3, <4>1, StoredIs
      <4>2. CASE Merged[k] = Missing
        <5>1. \A m \in T : files'[m][k] = Missing
          BY <2>2, <3>2, <4>2
        <5> QED BY <4>2, <5>1, StoredNothing
      <4> QED BY <4>1, <4>2
    <3> QED BY <3>1, <3>4
  <2>4. TypeOK'
    <3>1. Merged \in Records
      BY <2>1, MergedIs
    <3> QED BY <1>0, <1>1, <1>4, <2>2, <3>1 DEF TypeOK, SequenceOrder, WithFile
  <2>5. SequenceOrder'
    BY <1>0, <1>4, <2>2 DEF SequenceOrder, TypeOK
  <2>6. CacheCoherent'
    BY <1>0, <1>1, <2>3 DEF CacheCoherent
  <2>7. FilesAccounted'
    BY <1>0, <1>1, <1>4, <2>2 DEF FilesAccounted, SequenceOrder, TypeOK
  <2>8. MergedShadowsOld'
    <3>1. \A n \in segments', d \in doomed' : d < n
      BY <1>0, <1>1, <1>4 DEF SequenceOrder, TypeOK
    <3>2. ASSUME NEW k \in Keys
          PROVE  OnDisk(k)' = Value(Stored(files', segments', k))
      <4>1. OnDisk(k)' = IF Merged[k] # Missing
                           THEN Value(Merged[k])
                           ELSE Value(Stored(files, segments, k))
        BY <1>1, <1>4, DirectoryAfterWrite
      <4>2. Merged[k] = Value(Stored(files, segments, k)) /\ Value(Merged[k]) = Merged[k]
        BY MergedIs
      <4> QED BY <2>3, <4>1, <4>2
    <3> QED BY <1>1, <1>2, <3>1, <3>2 DEF MergedShadowsOld
  <2> QED BY <2>4, <2>5, <2>6, <2>7, <2>8 DEF Inv
<1> QED BY <1>3, <1>4 DEF Compact

LEMMA CompactUnopenedKeepsInv ==
  ASSUME Inv, CompactUnopened
  PROVE  Inv'
<1>0. TypeOK /\ SequenceOrder /\ CacheCoherent /\ FilesAccounted
  BY DEF Inv
<1>1. /\ doomed = {} /\ UNCHANGED <<buffer, segments, nextSeq, cache, doomed>>
      /\ files' = WithFile(files, nextSeq, Merged)
  BY DEF CompactUnopened
<1>2. PICK key \in Keys : Merged[key] # Missing
  BY DEF CompactUnopened, Held
<1>3. /\ DOMAIN files' = segments \union {nextSeq} /\ files'[nextSeq] = Merged
      /\ \A m \in segments : files'[m] = files[m]
      /\ Merged \in Records
  BY <1>1, <1>2, DirectoryAfterWrite, MergedIs
<1>4. \A k \in Keys : /\ Stored(files', segments, k) = Stored(files, segments, k)
                     /\ Value(Merged[k]) = Value(Stored(files, segments, k))
  BY <1>1, DirectoryAfterWrite, MergedIs
<1>5. TypeOK'
  BY <1>0, <1>1, <1>3 DEF TypeOK, SequenceOrder, WithFile
<1>6. SequenceOrder'
  BY <1>0, <1>1, <1>3 DEF SequenceOrder, TypeOK
<1>7. CacheCoherent'
  BY <1>0, <1>1, <1>4 DEF CacheCoherent
<1>8. FilesAccounted'
  BY <1>0, <1>1, <1>3, <1>4 DEF FilesAccounted, SequenceOrder
<1>9. MergedShadowsOld'
  BY <1>1 DEF MergedShadowsOld
<1> QED BY <1>5, <1>6, <1>7, <1>8, <1>9 DEF Inv

\* Removing the oldest doomed file leaves every read as it was.
LEMMA RemovalReads ==
  ASSUME Inv, doomed # {},
         files' = [m \in DOMAIN files \ {Oldest(doomed)} |-> files[m]],
         NEW k \in Keys
  PROVE  /\ Oldest(doomed) \in doomed
         /\ Stored(files', segments, k) = Stored(files, segments, k)
         /\ OnDisk(k)' = OnDisk(k)
<1> DEFINE o == Oldest(doomed)
<1>0. TypeOK /\ SequenceOrder /\ FilesAccounted /\ MergedShadowsOld
  BY DEF Inv
<1>1. o \in doomed /\ \A d \in doomed : o <= d
  <2>1. doomed \in SUBSET Nat
    BY <1>0 DEF TypeOK
  <2> QED BY <2>1, OldestExists
<1>2. o \in DOMAIN files /\ \A m \in DOMAIN files : o <= m
  <2>1. \A m \in DOMAIN files : m \in segments \/ m \in doomed \/ m = nextSeq
    BY <1>0 DEF FilesAccounted
  <2>2. \A n \in segments : o < n /\ o \in Nat /\ n \in Nat
    BY <1>0, <1>1 DEF MergedShadowsOld, TypeOK
  <2>3. o <= nextSeq /\ o \in DOMAIN files
    BY <1>0, <1>1 DEF FilesAccounted, SequenceOrder, TypeOK
  <2> QED BY <1>1, <2>1, <2>2, <2>3
<1>3. Bounded(DOMAIN files) /\ Bounded(segments)
  BY <1>0, SegmentsBounded
<1>4. o \notin segments /\ segments \subseteq DOMAIN files
  BY <1>0, <1>1 DEF FilesAccounted, SequenceOrder
<1> HIDE DEF o
<1>5. /\ DOMAIN files' = DOMAIN files \ {o}
      /\ \A m \in DOMAIN files \ {o} : files'[m] = files[m]
  BY DEF o
<1>6. Stored(files', segments, k) = Stored(files, segments, k)
  <2>1. \A m \in segments : files'[m][k] = files[m][k]
    BY <1>4, <1>5
  <2> QED BY <1>3, <2>1, StoredFrame
<1>7. OnDisk(k)' = OnDisk(k)
  <2> DEFINE S == DOMAIN files
             T == S \ {o}
  <2>1. OnDisk(k) = Value(Stored(files, S, k))
    BY DEF OnDisk
  <2>2. OnDisk(k)' = Value(Stored(files', T, k))
    BY <1>5 DEF OnDisk
  <2>3. Stored(files', T, k) = Stored(files, T, k)
    <3>1. Bounded(T)
      BY <1>3, BoundedSubset
    <3>2. \A m \in T : files'[m][k] = files[m][k]
      BY <1>5
    <3> HIDE DEF T
    <3> QED BY <3>1, <3>2, StoredFrame
  <2>4. \/ \E m \in S : m # o /\ files[m][k] # Missing
        \/ Value(Stored(files, S, k)) = Missing
    <3>1. Value(Stored(files, S, k)) = Value(Stored(files, segments, k))
      BY <1>0, <2>1 DEF MergedShadowsOld
    <3>2. Value(Missing) = Missing
      BY DEF Value
    <3>3. CASE \A m \in segments : files[m][k] = Missing
      <4>1. Stored(files, segments, k) = Missing
        BY <3>3, StoredNothing
      <4> QED BY <3>1, <3>2, <4>1
    <3>4. CASE \E m \in segments : files[m][k] # Missing
      BY <1>4, <3>4
    <3> QED BY <3>3, <3>4
  <2>5. o \in S /\ \A m \in S : o <= m
    BY <1>2
  <2>6. Bounded(S)
    BY <1>3
  <2> HIDE DEF S
  <2>7. Value(Stored(files, S \ {o}, k)) = Value(Stored(files, S, k))
    BY <2>4, <2>5, <2>6, StoredWithoutOldest
  <2> QED BY <2>1, <2>2, <2>3, <2>7
<1> QED BY <1>1, <1>6, <1>7 DEF o

LEMMA RemoveOldKeepsInv ==
  ASSUME Inv, RemoveMayFail = FALSE, RemoveOld
  PROVE  Inv'
<1> DEFINE o == Oldest(doomed)
<1>0. TypeOK /\ SequenceOrder /\ CacheCoherent /\ FilesAccounted /\ MergedShadowsOld
  BY DEF Inv
<1>1. /\ doomed # {} /\ doomed' = doomed \ {o}
      /\ files' = [m \in DOMAIN files \ {o} |-> files[m]]
      /\ UNCHANGED <<buffer, segments, nextSeq, cache>>
  BY DEF RemoveOld
<1>2. o \in doomed
  BY <1>0, <1>1, OldestExists DEF TypeOK
<1>3. \A k \in Keys : /\ Stored(files', segments, k) = Stored(files, segments, k)
                     /\ OnDisk(k)' = OnDisk(k)
  BY <1>1, RemovalReads
<1> HIDE DEF o
<1>4. o \notin segments /\ o # nextSeq
  BY <1>0, <1>2 DEF FilesAccounted
<1>5. /\ DOMAIN files' = DOMAIN files \ {o}
      /\ \A m \in DOMAIN files \ {o} : files'[m] = files[m]
  BY <1>1
<1>6. TypeOK'
  BY <1>0, <1>1, <1>5 DEF TypeOK
<1>7. SequenceOrder'
  BY <1>0, <1>1, <1>4, <1>5 DEF SequenceOrder
<1>8. CacheCoherent'
  BY <1>0, <1>1, <1>3 DEF CacheCoherent
<1>9. FilesAccounted'
  <2>1. DOMAIN files' \ {nextSeq'} = segments' \union doomed'
    BY <1>0, <1>1, <1>4, <1>5 DEF FilesAccounted
  <2>2. ASSUME nextSeq \in DOMAIN files', NEW k \in Keys
        PROVE  \/ buffer'[k] # Missing
               \/ files'[nextSeq][k] = Missing
               \/ Value(files'[nextSeq][k]) = Value(Stored(files', segments', k))
    BY <1>0, <1>1, <1>3, <1>4, <1>5, <2>2 DEF FilesAccounted
  <2> QED BY <1>0, <1>1, <1>2, <1>5, <2>1, <2>2 DEF FilesAccounted
<1>10. MergedShadowsOld'
  BY <1>0, <1>1, <1>3 DEF MergedShadowsOld
<1> QED BY <1>6, <1>7, <1>8, <1>9, <1>10 DEF Inv

LEMMA ReopenKeepsInv ==
  ASSUME Inv, CrashReopen
  PROVE  Inv'
<1>0. TypeOK /\ SequenceOrder
  BY DEF Inv
<1>1. /\ buffer' = NoRecords /\ cache' = NoRecords /\ segments' = DOMAIN files
      /\ doomed' = {} /\ files' = files
      /\ nextSeq' = IF DOMAIN files = {} THEN 0 ELSE Newest(DOMAIN files) + 1
  BY DEF CrashReopen
<1>2. /\ nextSeq' \in Nat /\ nextSeq' \notin DOMAIN files
      /\ DOMAIN files \subseteq 0..nextSeq'
  <2>1. CASE DOMAIN files = {}
    BY <1>1, <2>1
  <2>2. CASE DOMAIN files # {}
    <3>1. Bounded(DOMAIN files)
      BY <1>0, SegmentsBounded
    <3>2. /\ Newest(DOMAIN files) \in DOMAIN files
          /\ \A m \in DOMAIN files : m <= Newest(DOMAIN files)
      BY <2>2, <3>1, NewestExists
    <3>3. DOMAIN files \subseteq Nat
      BY <1>0 DEF TypeOK
    <3> QED BY <1>1, <2>2, <3>2, <3>3
  <2> QED BY <2>1, <2>2
<1>3. TypeOK'
  BY <1>0, <1>1, <1>2 DEF TypeOK, NoRecords, Records, Slot
<1>4. SequenceOrder'
  BY <1>1, <1>2 DEF SequenceOrder
<1>5. CacheCoherent'
  BY <1>1 DEF CacheCoherent, NoRecords
<1>6. FilesAccounted'
  BY <1>1, <1>2 DEF FilesAccounted
<1>7. MergedShadowsOld'
  BY <1>1 DEF MergedShadowsOld
<1> QED BY <1>3, <1>4, <1>5, <1>6, <1>7 DEF Inv

-----------------------------------------------------------------------------
\* For every instance in which files can be removed, the segments stay numbered
\* in the order of writes, the cache stays coherent with them, and a crash
\* anywhere in a compaction reopens the merged store.
THEOREM StoreInvariant ==
  ASSUME RemoveMayFail = FALSE
  PROVE  Spec => []Inv
<1>1. Init => Inv
  <2> SUFFICES ASSUME Init PROVE Inv
    OBVIOUS
  <2>1. TypeOK
    BY DEF Init, TypeOK, NoRecords, Records, Slot
  <2>2. SequenceOrder /\ FilesAccounted /\ MergedShadowsOld
    BY DEF Init, SequenceOrder, FilesAccounted, MergedShadowsOld
  <2>3. CacheCoherent
    BY DEF Init, CacheCoherent, NoRecords
  <2> QED BY <2>1, <2>2, <2>3 DEF Inv
<1>2. Inv /\ [Next]_vars => Inv'
  <2> SUFFICES ASSUME Inv, [Next]_vars PROVE Inv'
    OBVIOUS
  <2>1. ASSUME NEW k \in Keys, NEW v \in Values, Put(k, v) PROVE Inv'
    <3>1. v \in Slot \ {Missing}
      BY StoreAssumption DEF Slot
    <3> QED BY <2>1, <3>1, WriteKeepsInv DEF Put
  <2>2. ASSUME NEW k \in Keys, Delete(k) PROVE Inv'
    <3>1. Tombstone \in Slot \ {Missing}
      BY StoreAssumption DEF Slot
    <3> QED BY <2>2, <3>1, WriteKeepsInv DEF Delete
  <2>3. ASSUME NEW k \in Keys, Get(k) PROVE Inv'
    BY <2>3, GetKeepsInv
  <2>4. CASE Flush
    BY <2>4, ExplicitFlushKeepsInv
  <2>5. CASE Compact
    BY <2>5, CompactKeepsInv
  <2>6. CASE CompactUnopened
    BY <2>6, CompactUnopenedKeepsInv
  <2>7. CASE RemoveOld
    BY <2>7, RemoveOldKeepsInv
  <2>8. CASE CrashReopen
    BY <2>8, ReopenKeepsInv
  <2>9. CASE UNCHANGED vars
    BY <2>9 DEF vars, Inv, TypeOK, SequenceOrder, CacheCoherent,
                FilesAccounted, MergedShadowsOld, OnDisk
  <2> QED BY <2>1, <2>2, <2>3, <2>4, <2>5, <2>6, <2>7, <2>8, <2>9 DEF Next
<1> QED BY <1>1, <1>2, PTL DEF Spec

\* Every variable keeps its type, whatever is written, compacted or crashes.
THEOREM StoreAlwaysTyped ==
  ASSUME RemoveMayFail = FALSE
  PROVE  Spec => []TypeOK
BY StoreInvariant, PTL DEF Inv

\* What the memtable, the segments and the cache answer for a key is one value,
\* and a crash in the middle of a compaction does not change it.
THEOREM StoreAlwaysCoherent ==
  ASSUME RemoveMayFail = FALSE
  PROVE  Spec => []StoreCoherent
<1>1. Inv => StoreCoherent
  BY DEF Inv, StoreCoherent
<1> QED BY <1>1, StoreInvariant, PTL

\* A compaction's file removals never change what a reopen would return.
THEOREM RemovalNeverResurrects ==
  ASSUME RemoveMayFail = FALSE
  PROVE  Spec => RemovalIsInvisible
<1>1. Inv /\ [Next]_vars =>
        [doomed' # doomed /\ segments' = segments
           => \A k \in Keys : OnDisk(k)' = OnDisk(k)]_vars
  <2> SUFFICES ASSUME Inv, Next, doomed' # doomed, segments' = segments,
                      NEW k \in Keys
               PROVE  OnDisk(k)' = OnDisk(k)
    OBVIOUS
  <2>1. CASE RemoveOld
    <3>1. /\ doomed # {}
          /\ files' = [m \in DOMAIN files \ {Oldest(doomed)} |-> files[m]]
      BY <2>1 DEF RemoveOld
    <3> QED BY <3>1, RemovalReads
  <2>2. CASE UNCHANGED files
    BY <2>2 DEF OnDisk
  <2>3. CASE Compact
    <3>1. CASE segments' = {}
      BY <2>3, <3>1 DEF Compact
    <3>2. CASE segments' = {nextSeq}
      <4>1. nextSeq \notin segments
        BY DEF Inv, SequenceOrder
      <4> QED BY <3>2, <4>1
    <3> QED BY <2>3, <3>1, <3>2 DEF Compact
  <2> QED BY <2>1, <2>2, <2>3
        DEF Next, Put, Delete, Write, Get, Flush, CompactUnopened, CrashReopen
<1> QED BY <1>1, StoreInvariant, PTL DEF Spec, RemovalIsInvisible

-----------------------------------------------------------------------------
\* What a compaction leaves on disk.  That the directory is accounted for is
\* not enough: a file that was written and never opened may hold tombstones,
\* but then the memtable still holds them too, and compact starts with a flush
\* that writes that file again.

NoTombstones(recs) == \A k \in Keys : recs[k] # Tombstone

Swept ==
  /\ nextSeq \in DOMAIN files /\ Held(buffer) = {} => NoTombstones(files[nextSeq])
  /\ doomed # {} => \A n \in segments : NoTombstones(files[n])

LEMMA MergedHasNoTombstones ==
  ASSUME Inv
  PROVE  NoTombstones(Merged)
<1> SUFFICES ASSUME NEW k \in Keys PROVE Merged[k] # Tombstone
  BY DEF NoTombstones
<1>1. Value(Merged[k]) = Merged[k]
  BY MergedIs
<1> QED BY <1>1, StoreAssumption DEF Value

\* A flush writes over the file that has the next number, or leaves the records
\* in the memtable.
LEMMA FlushSweeps ==
  ASSUME Inv, doomed' = {}, NEW b \in Records, Held(b) # {}, FlushOutcome(b)
  PROVE  Swept'
<1>1. nextSeq' = nextSeq + 1 => nextSeq' \notin DOMAIN files /\ nextSeq' # nextSeq
  BY DEF Inv, TypeOK, SequenceOrder
<1>2. CASE Flushed(b)
  <2>1. nextSeq' = nextSeq + 1 /\ DOMAIN files' = DOMAIN files \union {nextSeq}
    BY <1>2 DEF Flushed, WithFile
  <2>2. nextSeq' \notin DOMAIN files'
    BY <1>1, <2>1
  <2> QED BY <2>2 DEF Swept
<1>3. CASE FlushFailed(b)
  <2>1. Held(buffer') # {}
    BY <1>3 DEF FlushFailed
  <2> QED BY <2>1 DEF Swept
<1> QED BY <1>2, <1>3 DEF FlushOutcome

LEMMA WriteSweeps ==
  ASSUME Inv, NEW k \in Keys, NEW slot \in Slot \ {Missing}, Write(k, slot)
  PROVE  Swept'
<1> DEFINE b == [buffer EXCEPT ![k] = slot]
<1>1. b \in Records /\ b[k] # Missing
  BY DEF Inv, TypeOK, Records
<1>2. Held(b) # {}
  BY <1>1 DEF Held
<1>3. doomed' = {} /\ (FlushOutcome(b) \/ buffer' = b)
  BY DEF Write
<1> HIDE DEF b
<1>4. CASE FlushOutcome(b)
  BY <1>1, <1>2, <1>3, <1>4, FlushSweeps
<1>5. CASE buffer' = b
  BY <1>2, <1>3, <1>5 DEF Swept
<1> QED BY <1>3, <1>4, <1>5

LEMMA CompactSweeps ==
  ASSUME Inv, Swept, Compact \/ CompactUnopened
  PROVE  Swept'
<1>1. NoTombstones(Merged) /\ nextSeq + 1 \notin DOMAIN files /\ nextSeq + 1 # nextSeq
  BY MergedHasNoTombstones DEF Inv, TypeOK, SequenceOrder
<1>2. CASE Compact /\ Held(Merged) = {}
  BY <1>2 DEF Compact, Swept
<1>3. CASE Compact /\ Held(Merged) # {}
  <2>1. /\ files' = WithFile(files, nextSeq, Merged) /\ segments' = {nextSeq}
        /\ nextSeq' = nextSeq + 1
    BY <1>3 DEF Compact
  <2>2. /\ nextSeq' \notin DOMAIN files' /\ files'[nextSeq] = Merged
    BY <1>1, <2>1 DEF WithFile
  <2> QED BY <1>1, <2>1, <2>2 DEF Swept
<1>4. CASE CompactUnopened
  <2>1. files'[nextSeq] = Merged /\ nextSeq' = nextSeq /\ doomed' = {}
    BY <1>4 DEF CompactUnopened, WithFile
  <2> QED BY <1>1, <2>1 DEF Swept
<1> QED BY <1>2, <1>3, <1>4

\* compact's last removal leaves the merged segment, and perhaps a file that
\* was never opened.
LEMMA RemovalSweeps ==
  ASSUME RemoveMayFail = FALSE, Inv, Swept, RemoveOld
  PROVE  /\ Swept'
         /\ doomed' = {} => \A n \in DOMAIN files' : NoTombstones(files'[n])
<1>1. /\ doomed # {} /\ doomed' = doomed \ {Oldest(doomed)}
      /\ files' = [m \in DOMAIN files \ {Oldest(doomed)} |-> files[m]]
      /\ UNCHANGED <<buffer, segments, nextSeq>>
  BY DEF RemoveOld
<1>2. /\ buffer = NoRecords /\ doomed \intersect segments = {}
      /\ DOMAIN files \ {nextSeq} = segments \union doomed
      /\ segments \subseteq DOMAIN files
  BY <1>1 DEF Inv, MergedShadowsOld, FilesAccounted, SequenceOrder
<1>3. Oldest(doomed) \in doomed
  <2>1. doomed \subseteq Nat
    BY DEF Inv, TypeOK
  <2> QED BY <1>1, <2>1, OldestExists
<1>4. Held(buffer) = {}
  BY <1>2 DEF Held, NoRecords
<1>5. \A n \in DOMAIN files' : n \in DOMAIN files /\ files'[n] = files[n]
  BY <1>1
<1>6. Swept'
  <2>1. nextSeq' \in DOMAIN files' => NoTombstones(files'[nextSeq'])
    BY <1>1, <1>4, <1>5 DEF Swept
  <2>2. ASSUME NEW n \in segments' PROVE NoTombstones(files'[n])
    <3>1. n \in DOMAIN files' /\ NoTombstones(files[n])
      BY <1>1, <1>2, <1>3, <2>2 DEF Swept
    <3> QED BY <1>5, <3>1
  <2> QED BY <2>1, <2>2 DEF Swept
<1>7. ASSUME doomed' = {}, NEW n \in DOMAIN files' PROVE NoTombstones(files'[n])
  <2>1. n \in segments \union {nextSeq}
    BY <1>1, <1>2, <1>7
  <2>2. CASE n = nextSeq
    BY <1>4, <1>5, <1>7, <2>2 DEF Swept
  <2>3. CASE n \in segments
    BY <1>1, <1>5, <1>7, <2>3 DEF Swept
  <2> QED BY <2>1, <2>2, <2>3
<1> QED BY <1>6, <1>7

LEMMA AlwaysSwept ==
  ASSUME RemoveMayFail = FALSE
  PROVE  Spec => []Swept
<1>1. Init => Swept
  BY DEF Init, Swept
<1>2. Inv /\ Swept /\ [Next]_vars => Swept'
  <2> SUFFICES ASSUME Inv, Swept, [Next]_vars PROVE Swept'
    OBVIOUS
  <2>1. ASSUME NEW k \in Keys, NEW v \in Values, Put(k, v) PROVE Swept'
    <3>1. v \in Slot \ {Missing}
      BY StoreAssumption DEF Slot
    <3> QED BY <2>1, <3>1, WriteSweeps DEF Put
  <2>2. ASSUME NEW k \in Keys, Delete(k) PROVE Swept'
    <3>1. Tombstone \in Slot \ {Missing}
      BY StoreAssumption DEF Slot
    <3> QED BY <2>2, <3>1, WriteSweeps DEF Delete
  <2>3. CASE UNCHANGED <<buffer, segments, nextSeq, files, doomed>>
    BY <2>3 DEF Swept
  <2>4. CASE Flush
    <3>1. doomed' = {} /\ buffer \in Records /\ Held(buffer) # {} /\ FlushOutcome(buffer)
      BY <2>4 DEF Flush, Inv, TypeOK
    <3> QED BY <3>1, FlushSweeps
  <2>5. CASE Compact \/ CompactUnopened
    BY <2>5, CompactSweeps
  <2>6. CASE RemoveOld
    BY <2>6, RemovalSweeps
  <2>7. CASE CrashReopen
    <3>1. doomed' = {} /\ files' = files /\ nextSeq' \notin DOMAIN files
      <4>1. Bounded(DOMAIN files)
        BY DEF Inv, TypeOK, SequenceOrder, Bounded
      <4>2. ASSUME DOMAIN files # {}
            PROVE  Newest(DOMAIN files) + 1 \notin DOMAIN files
        <5>1. /\ Newest(DOMAIN files) \in DOMAIN files
              /\ \A m \in DOMAIN files : m <= Newest(DOMAIN files)
          BY <4>1, <4>2, NewestExists
        <5>2. Newest(DOMAIN files) \in Nat
          BY <5>1 DEF Inv, TypeOK
        <5> QED BY <5>1, <5>2
      <4> QED BY <2>7, <4>2 DEF CrashReopen
    <3> QED BY <3>1 DEF Swept
  <2> QED BY <2>1, <2>2, <2>3, <2>4, <2>5, <2>6, <2>7 DEF Next, Get, vars
<1> QED BY <1>1, <1>2, StoreInvariant, PTL DEF Spec

\* Garbage collection: for every instance in which files can be removed, a
\* compaction that ran to its end leaves no tombstone in any file, those of a
\* failed flush or of an unopened segment included.
THEOREM CompactionAlwaysReclaims ==
  ASSUME RemoveMayFail = FALSE
  PROVE  Spec => CompactionReclaims
<1>1. Inv /\ Swept /\ [Next]_vars =>
        [RemoveOld /\ doomed' = {}
           => \A n \in DOMAIN files', k \in Keys : files'[n][k] # Tombstone]_vars
  BY RemovalSweeps DEF NoTombstones
<1> QED BY <1>1, StoreInvariant, AlwaysSwept, PTL DEF Spec, CompactionReclaims

-----------------------------------------------------------------------------
\* The refinement of StoreMap.  With a coherent cache, get sees what a scan
\* sees, so every step is followed on Scan.

LEMMA LookupIsScan ==
  ASSUME CacheCoherent, NEW k \in Keys
  PROVE  Lookup(k) = Scan(k)
BY DEF CacheCoherent, Lookup, Scan

\* A scan over memtable b and the open segments.
ScanWith(b, k) == IF b[k] # Missing THEN Value(b[k])
                                    ELSE Value(Stored(files, segments, k))

LEMMA FlushReads ==
  ASSUME Inv, doomed = {}, NEW b, FlushOutcome(b), NEW k \in Keys
  PROVE  /\ Scan(k)' = ScanWith(b, k)
         /\ OnDisk(k)' = OnDisk(k) \/ OnDisk(k)' = ScanWith(b, k)
         /\ files' = files => OnDisk(k)' = OnDisk(k)
         /\ files' # files => OnDisk(k)' = ScanWith(b, k)
<1>1. CASE files' = WithFile(files, nextSeq, b)
  <2>1. /\ DOMAIN files' = segments \union {nextSeq}
        /\ Stored(files', segments, k) = Stored(files, segments, k)
        /\ Stored(files', segments \union {nextSeq}, k)
             = IF b[k] # Missing THEN b[k] ELSE Stored(files, segments, k)
        /\ OnDisk(k)' = ScanWith(b, k)
    BY <1>1, DirectoryAfterWrite DEF ScanWith
  <2>2. CASE Flushed(b)
    <3>1. Scan(k)' = Value(Stored(files', segments \union {nextSeq}, k))
      BY <2>2 DEF Flushed, Scan, NoRecords
    <3> QED BY <2>1, <3>1 DEF ScanWith, OnDisk
  <2>3. CASE FlushFailed(b)
    BY <2>1, <2>3 DEF FlushFailed, Scan, ScanWith, OnDisk
  <2> QED BY <2>2, <2>3 DEF FlushOutcome
<1>2. CASE FlushFailed(b) /\ files' = files
  BY <1>2 DEF FlushFailed, Scan, ScanWith, OnDisk
<1> QED BY <1>1, <1>2 DEF FlushOutcome, Flushed, FlushFailed

ViewOf == [k \in Keys |-> Lookup(k)]
DurableOf == [k \in Keys |-> OnDisk(k)]

LEMMA WriteRefines ==
  ASSUME Inv, Inv', NEW k \in Keys, NEW slot \in Slot \ {Missing}, Write(k, slot),
         call' = <<k, Value(slot)>>
  PROVE  Map!Write(k, Value(slot))
<1> DEFINE b == [buffer EXCEPT ![k] = slot]
<1>1. /\ b[k] = slot /\ \A j \in Keys \ {k} : b[j] = buffer[j]
  BY DEF Inv, TypeOK, Records
<1>2. /\ doomed = {}
      /\ FlushOutcome(b) \/ (buffer' = b /\ UNCHANGED <<segments, nextSeq, files>>)
  BY DEF Write
<1> HIDE DEF b
<1>3. \A j \in Keys : ScanWith(b, j) = IF j = k THEN Value(slot) ELSE Lookup(j)
  BY <1>1, LookupIsScan DEF Scan, ScanWith, Inv
<1>4. \A j \in Keys : Scan(j)' = ScanWith(b, j)
  <2>1. CASE FlushOutcome(b)
    BY <1>2, <2>1, FlushReads
  <2>2. CASE buffer' = b /\ UNCHANGED <<segments, nextSeq, files>>
    BY <2>2 DEF Scan, ScanWith
  <2> QED BY <1>2, <2>1, <2>2
<1>5. \A j \in Keys : Lookup(j)' = ScanWith(b, j)
  <2>1. CacheCoherent'
    BY DEF Inv
  <2>2. \A j \in Keys : Lookup(j)' = Scan(j)'
    BY <2>1 DEF CacheCoherent, Lookup, Scan
  <2> QED BY <1>4, <2>2
<1>6. ViewOf' = [ViewOf EXCEPT ![k] = Value(slot)]
  BY <1>3, <1>5 DEF ViewOf
<1>7. DurableOf' = DurableOf \/ DurableOf' = ViewOf'
  <2>1. CASE files' = files
    BY <2>1 DEF DurableOf, OnDisk
  <2>2. CASE files' # files
    <3>1. FlushOutcome(b)
      BY <1>2, <2>2
    <3>2. \A j \in Keys : OnDisk(j)' = ScanWith(b, j)
      BY <1>2, <2>2, <3>1, FlushReads
    <3> QED BY <1>5, <3>2 DEF DurableOf, ViewOf
  <2> QED BY <2>1, <2>2
<1> QED BY <1>6, <1>7 DEF Map!Write, ViewOf, DurableOf

\* Reads in two states with coherent caches and equal scans are equal.
LEMMA ViewFromScan ==
  ASSUME CacheCoherent, CacheCoherent', \A k \in Keys : Scan(k)' = Scan(k)
  PROVE  ViewOf' = ViewOf
<1>1. \A k \in Keys : Lookup(k)' = Scan(k)'
  BY DEF CacheCoherent, Lookup, Scan
<1>2. \A k \in Keys : Lookup(k) = Scan(k)
  BY LookupIsScan
<1> QED BY <1>1, <1>2 DEF ViewOf

\* The store implements the durable map: reads return the last write, a crash
\* loses writes only back to the last flush, and never brings one back.
THEOREM StoreImplementsMap ==
  ASSUME RemoveMayFail = FALSE
  PROVE  Spec => ImplementsMap
<1>1. Init => Map!Init
  <2> SUFFICES ASSUME Init PROVE Map!Init
    OBVIOUS
  <2>1. ASSUME NEW k \in Keys
        PROVE  Lookup(k) = Missing /\ OnDisk(k) = Missing
    <3>1. Stored(files, segments, k) = Missing /\ Stored(files, DOMAIN files, k) = Missing
      BY StoredNothing DEF Init
    <3> QED BY <3>1 DEF Init, Lookup, OnDisk, NoRecords, Value
  <2> QED BY <2>1 DEF Map!Init, Init
<1>2. Inv /\ Inv' /\ [Next]_vars => [Map!Next]_(Map!mapVars)
  <2> SUFFICES ASSUME Inv, Inv', [Next]_vars
               PROVE  \/ Map!Next
                      \/ ViewOf' = ViewOf /\ DurableOf' = DurableOf /\ call' = call
    BY DEF Map!mapVars, ViewOf, DurableOf
  <2>0. CacheCoherent /\ CacheCoherent'
    BY DEF Inv
  <2>p. ViewOf' = ViewOf /\ DurableOf' = ViewOf /\ call' = call => Map!Next
    BY DEF Map!Next, Map!Persist, ViewOf, DurableOf
  <2>1. ASSUME NEW k \in Keys, NEW v \in Values, Put(k, v) PROVE Map!Next
    <3>1. v \in Slot \ {Missing} /\ Value(v) = v
      BY StoreAssumption DEF Slot, Value
    <3>2. Map!Write(k, v)
      BY <2>1, <3>1, WriteRefines DEF Put
    <3> QED BY <3>2 DEF Map!Next
  <2>2. ASSUME NEW k \in Keys, Delete(k) PROVE Map!Next
    <3>1. Tombstone \in Slot \ {Missing} /\ Value(Tombstone) = Missing
      BY StoreAssumption DEF Slot, Value
    <3>2. Map!Write(k, Missing)
      BY <2>2, <3>1, WriteRefines DEF Delete
    <3> QED BY <3>2 DEF Map!Next
  <2>3. ASSUME NEW k \in Keys, Get(k)
        PROVE  ViewOf' = ViewOf /\ DurableOf' = DurableOf /\ call' = call
    <3>1. UNCHANGED <<buffer, segments, files, call>>
      BY <2>3 DEF Get
    <3>2. \A j \in Keys : Scan(j)' = Scan(j)
      BY <3>1 DEF Scan
    <3>3. DurableOf' = DurableOf
      BY <3>1 DEF DurableOf, OnDisk
    <3> QED BY <2>0, <3>1, <3>2, <3>3, ViewFromScan
  <2>4. CASE Flush
    <3>1. doomed = {} /\ FlushOutcome(buffer) /\ call' = call
      BY <2>4 DEF Flush
    <3>2. \A j \in Keys : Scan(j)' = Scan(j)
      BY <3>1, FlushReads DEF Scan, ScanWith
    <3>3. ViewOf' = ViewOf
      BY <2>0, <3>2, ViewFromScan
    <3>4. CASE files' = files
      BY <3>1, <3>3, <3>4 DEF DurableOf, OnDisk
    <3>5. CASE files' # files
      <4>1. \A j \in Keys : OnDisk(j)' = Lookup(j)
        BY <2>0, <3>1, <3>5, FlushReads, LookupIsScan DEF Scan, ScanWith
      <4> QED BY <2>p, <3>1, <3>3, <4>1 DEF DurableOf, ViewOf
    <3> QED BY <3>4, <3>5
  <2>5. CASE CompactUnopened
    <3>1. /\ doomed = {} /\ UNCHANGED <<buffer, segments, call>>
          /\ files' = WithFile(files, nextSeq, Merged)
          /\ \A j \in Keys : buffer[j] = Missing
      BY <2>5 DEF CompactUnopened, Held
    <3>2. ASSUME NEW j \in Keys
          PROVE  Scan(j)' = Scan(j) /\ OnDisk(j)' = Lookup(j)
      <4>1. /\ Stored(files', segments, j) = Stored(files, segments, j)
            /\ OnDisk(j)' = IF Merged[j] # Missing THEN Value(Merged[j])
                                   ELSE Value(Stored(files, segments, j))
        BY <3>1, DirectoryAfterWrite
      <4>2. Merged[j] = Value(Stored(files, segments, j)) /\ Value(Merged[j]) = Merged[j]
        BY MergedIs
      <4>3. Lookup(j) = Value(Stored(files, segments, j))
        BY <2>0, <3>1, LookupIsScan DEF Scan
      <4> QED BY <3>1, <4>1, <4>2, <4>3 DEF Scan
    <3>3. ViewOf' = ViewOf
      BY <2>0, <3>2, ViewFromScan
    <3> QED BY <2>p, <3>1, <3>2, <3>3 DEF DurableOf, ViewOf
  <2>6. CASE Compact
    <3>1. /\ doomed = {} /\ buffer' = buffer /\ call' = call
          /\ \A j \in Keys : buffer[j] = Missing
      BY <2>6 DEF Compact, Held
    <3>2. ASSUME NEW j \in Keys
          PROVE  /\ Scan(j)' = Scan(j) /\ OnDisk(j)' = Lookup(j)
      <4>0. Merged[j] = Value(Stored(files, segments, j)) /\ Value(Merged[j]) = Merged[j]
        BY MergedIs
      <4>1. Lookup(j) = Merged[j] /\ Scan(j) = Merged[j]
        BY <2>0, <3>1, <4>0, LookupIsScan DEF Scan
      <4>2. CASE doomed' # {}
        <5>1. OnDisk(j)' = Value(Stored(files, segments, j)')
          BY <4>2 DEF Inv, MergedShadowsOld
        <5>2. Scan(j)' = OnDisk(j)'
          BY <3>1, <5>1 DEF Scan
        <5>3. OnDisk(j)' = Merged[j]
          <6>1. CASE Held(Merged) = {} /\ files' = files
            <7>1. OnDisk(j) = Merged[j]
              BY <3>1, <4>0, DirectoryAgrees
            <7> QED BY <6>1, <7>1 DEF OnDisk
          <6>2. CASE files' = WithFile(files, nextSeq, Merged)
            BY <3>1, <4>0, <6>2, DirectoryAfterWrite
          <6> QED BY <2>6, <6>1, <6>2 DEF Compact
        <5> QED BY <4>1, <5>2, <5>3
      <4>3. CASE doomed' = {}
        <5>1. segments = {}
          BY <2>6, <4>3 DEF Compact
        <5> QED BY <2>6, <5>1, FS_EmptySet DEF Compact
      <4> QED BY <4>2, <4>3
    <3>3. ViewOf' = ViewOf
      BY <2>0, <3>2, ViewFromScan
    <3> QED BY <2>p, <3>1, <3>2, <3>3 DEF DurableOf, ViewOf
  <2>7. CASE RemoveOld
    <3>1. /\ doomed # {} /\ UNCHANGED <<buffer, segments, call>>
          /\ files' = [m \in DOMAIN files \ {Oldest(doomed)} |-> files[m]]
      BY <2>7 DEF RemoveOld
    <3>2. \A j \in Keys : Scan(j)' = Scan(j) /\ OnDisk(j)' = OnDisk(j)
      BY <3>1, RemovalReads DEF Scan
    <3>3. ViewOf' = ViewOf
      BY <2>0, <3>2, ViewFromScan
    <3> QED BY <3>1, <3>2, <3>3 DEF DurableOf
  <2>8. CASE CrashReopen
    <3>1. \A j \in Keys : Lookup(j)' = OnDisk(j)
      BY <2>8 DEF CrashReopen, Lookup, OnDisk, NoRecords
    <3>2. DurableOf' = DurableOf /\ call' = call
      BY <2>8 DEF CrashReopen, DurableOf, OnDisk
    <3> QED BY <3>1, <3>2 DEF Map!Next, Map!Recover, ViewOf, DurableOf
  <2>9. CASE UNCHANGED vars
    BY <2>9 DEF vars, ViewOf, DurableOf, Lookup, OnDisk
  <2> QED BY <2>1, <2>2, <2>3, <2>4, <2>5, <2>6, <2>7, <2>8, <2>9 DEF Next
<1> QED BY <1>1, <1>2, StoreInvariant, PTL DEF Spec, ImplementsMap, Map!Spec
=============================================================================
