------------------------- MODULE DurableVaultProofs -------------------------
(***************************************************************************)
(* Theorems about DurableFile, for any number of calls and processes, and  *)
(* about the claim counter, whose vault is such a file: for any codes,     *)
(* machines and durations.  What is said of tokens is said of a vendor who *)
(* works on the vault only while it is not served; what is said of sealed  *)
(* revocations is not.                                                     *)
(***************************************************************************)
EXTENDS DurableFile, ClaimCounter, TLAPS

-----------------------------------------------------------------------------
(* The file: `write_durable`                                               *)

\* The inductive invariant of the first two theorems.
IInv == TypeOK /\ NeverHalfWritten

LEMMA NotAbsent ==
  ASSUME NEW f, f.of \in Contents PROVE f # Absent
BY DurableFileAssumption DEF DurableFileAssumption, Absent

LEMMA IsFileAbsent == IsFile(Absent) /\ Absent \in Files /\ Absent.at = 0 /\ Whole(Absent)
BY DEF IsFile, Files, Absent, Extents, Whole

LEMMA IsFileNew ==
  ASSUME NEW c \in Contents, NEW x \in Extents
  PROVE  IsFile(File(c, x)) /\ File(c, x).of = c /\ File(c, x).extent = x
         /\ File(c, x).at = 0
BY DurableFileAssumption DEF IsFile, Files, File, DurableFileAssumption

LEMMA RemainsOK ==
  ASSUME NEW g, IsFile(g), NEW f \in Remains(g)
  PROVE  IsFile(f) /\ f.at = g.at /\ (Whole(g) => f = g)
<1>1. CASE g.synced
  BY <1>1 DEF Remains
<1>2. CASE ~g.synced
  <2>1. PICK x \in {"empty", "part", g.extent} :
           f = [g EXCEPT !.extent = x, !.synced = TRUE]
    BY <1>2 DEF Remains
  <2>2. g.of # NoFile
    BY <1>2 DEF IsFile, Files, Absent
  <2>3. x \in Extents
    BY DEF IsFile, Files, Extents
  <2> QED BY <1>2, <2>1, <2>2, <2>3 DEF IsFile, Files, Whole
<1> QED BY <1>1, <1>2

-----------------------------------------------------------------------------
\* One lemma per group of actions: they keep the invariant.

LEMMA InitIInv == Init => IInv
<1> SUFFICES ASSUME Init PROVE IInv
  OBVIOUS
<1> QED BY IsFileAbsent, DurableFileAssumption
       DEF Init, IInv, TypeOK, NeverHalfWritten, Writing, DurableFileAssumption

\* Calls that end do not disturb the others.
LEMMA OverKeeps ==
  ASSUME IInv, NEW ws \in SUBSET Calls, Over(ws),
         tmp' = tmp, UNCHANGED <<entry, renames, dir>>,
         old' \subseteq old, entry \in old', floor' \in Nat
  PROVE  IInv'
<1>1. /\ pc' \in [Calls -> Writing \cup {"idle", "mkdir", "create", "syncdir"}]
      /\ val' \in [Calls -> Contents \cup {NoFile}]
      /\ mark' \in [Calls -> Nat]
  BY DEF IInv, TypeOK, Over
<1>2. \A w \in Calls : pc'[w] \in Writing => pc'[w] = pc[w] /\ val'[w] = val[w]
  BY DEF Over, Writing
<1>4. NeverHalfWritten'
  BY DEF NeverHalfWritten, IInv
<1>5. \A v \in Calls : pc'[v] = "idle" <=> val'[v] = NoFile
  BY DEF IInv, TypeOK, Over
<1> QED BY <1>1, <1>2, <1>4, <1>5 DEF IInv, TypeOK, Tmp

\* A call moves on, with its temporary file in the state its step says.
LEMMA TmpKeeps ==
  ASSUME IInv, NEW w \in Calls, NEW next \in Writing, NEW f,
         pc' = [pc EXCEPT ![w] = next], tmp' = [tmp EXCEPT ![PidOf[w]] = f],
         UNCHANGED <<val, mark, entry, old, dir, renames, floor>>,
         IsFile(f), f.at = 0, f.of = val[w], val[w] \in Contents,
         next # "write" => f.extent = "whole", next = "rename" => f.synced,
         \A v \in Calls : pc[v] \in Writing /\ PidOf[v] = PidOf[w] => v = w
  PROVE  IInv'
<1>1. PidOf[w] \in Pids /\ \A v \in Calls : PidOf[v] \in Pids
  BY DurableFileAssumption DEF DurableFileAssumption
<1>3. NeverHalfWritten'
  BY DEF NeverHalfWritten, IInv
<1>4. /\ \A p \in Pids : tmp'[p] = IF p = PidOf[w] THEN f ELSE tmp[p]
      /\ \A v \in Calls : pc'[v] = IF v = w THEN next ELSE pc[v]
      /\ tmp' \in [Pids -> Files]
  <2>1. pc \in [Calls -> Writing \cup {"idle", "mkdir", "create", "syncdir"}]
    BY DEF IInv, TypeOK
  <2>2. \A v \in Calls : pc'[v] = IF v = w THEN next ELSE pc[v]
    BY <2>1
  <2>3. tmp \in [Pids -> Files]
    BY DEF IInv, TypeOK
  <2>4. \A p \in Pids : tmp'[p] = IF p = PidOf[w] THEN f ELSE tmp[p]
    BY <2>3
  <2>5. tmp' \in [Pids -> Files]
    BY <2>3, <1>1 DEF IsFile, Files
  <2> QED BY <2>2, <2>4, <2>5
<1>5. \A v \in Calls : pc'[v] = "idle" <=> val'[v] = NoFile
  BY <1>4, DurableFileAssumption DEF IInv, TypeOK, Writing, DurableFileAssumption
<1> QED BY <1>1, <1>3, <1>4, <1>5 DEF IInv, TypeOK, Tmp

\* A call moves on and touches nothing.
LEMMA GotoKeeps ==
  ASSUME IInv, NEW w \in Calls, NEW next \in {"mkdir", "create"},
         pc' = [pc EXCEPT ![w] = next],
         val' \in [Calls -> Contents \cup {NoFile}],
         \A v \in Calls : v # w => val'[v] = val[v], val'[w] # NoFile,
         dir' \in {"absent", "made", "durable"},
         UNCHANGED <<mark, tmp, entry, old, renames, floor>>
  PROVE  IInv'
<1>1. pc' \in [Calls -> Writing \cup {"idle", "mkdir", "create", "syncdir"}]
  BY DEF IInv, TypeOK
<1>2. \A v \in Calls : pc'[v] \in Writing => v # w /\ pc'[v] = pc[v]
  BY DEF IInv, TypeOK, Writing
<1>3. \A v \in Calls : pc'[v] = "idle" <=> val'[v] = NoFile
  BY DEF IInv, TypeOK
<1> QED BY <1>1, <1>2, <1>3 DEF IInv, TypeOK, NeverHalfWritten, Tmp

LEMMA RenameKeeps ==
  ASSUME IInv, NEW w \in Calls, Rename(w)
  PROVE  /\ IInv' /\ entry'.at = renames + 1
         /\ \E c \in Contents : entry'.of = c
         /\ old' = old \cup {entry'}
<1> DEFINE f == [Tmp(w) EXCEPT !.at = renames + 1]
<1>0. renames \in 0 .. MaxRenames /\ MaxRenames \in Nat
  BY DurableFileAssumption DEF DurableFileAssumption, IInv, TypeOK
<1>1. /\ renames \in Nat /\ renames' = renames + 1
      /\ PidOf[w] \in Pids /\ \A v \in Calls : PidOf[v] \in Pids
  <2>1. renames \in Nat
    BY <1>0
  <2>2. PidOf[w] \in Pids /\ \A v \in Calls : PidOf[v] \in Pids
    BY DurableFileAssumption DEF DurableFileAssumption
  <2>3. renames' = renames + 1
    BY DEF Rename
  <2> QED BY <2>1, <2>2, <2>3
<1>2. renames' \in 0 .. MaxRenames
  <2>1. renames < MaxRenames
    BY DEF Rename
  <2> QED BY <2>1, <1>0, <1>1
<1>4. IsFile(f) /\ Whole(f) /\ f.at = renames + 1 /\ f.of \in Contents
  <2>1. /\ IsFile(Tmp(w)) /\ Tmp(w).of \in Contents
        /\ Tmp(w).extent = "whole" /\ Tmp(w).synced
    BY <1>1 DEF IInv, TypeOK, Rename, Writing, Tmp
  <2>2. f \in Files /\ f.of = Tmp(w).of /\ f.extent = "whole" /\ f.synced /\ f.at = renames + 1
    BY <2>1, <1>1 DEF IsFile, Files
  <2>3. f.of # NoFile
    BY <2>1, <2>2, DurableFileAssumption DEF DurableFileAssumption
  <2> HIDE DEF f
  <2> QED BY <2>1, <2>2, <2>3 DEF IsFile, Whole
<1>5. /\ entry' = f /\ old' = old \cup {f}
      /\ pc' = [pc EXCEPT ![w] = "syncdir"]
      /\ tmp' = [tmp EXCEPT ![PidOf[w]] = Absent]
      /\ mark' = [mark EXCEPT ![w] = renames + 1]
      /\ pc[w] \in Writing /\ UNCHANGED <<val, dir, floor>>
  BY DEF Rename, Goto, Writing
<1> HIDE DEF f
<1>7. /\ pc' \in [Calls -> Writing \cup {"idle", "mkdir", "create", "syncdir"}]
      /\ mark' \in [Calls -> Nat]
  BY <1>1, <1>5 DEF IInv, TypeOK
<1>8. /\ tmp' \in [Pids -> Files]
      /\ \A p \in Pids : tmp'[p] = IF p = PidOf[w] THEN Absent ELSE tmp[p]
  BY <1>5, IsFileAbsent DEF IInv, TypeOK
<1>8a. \A p \in Pids : IsFile(tmp'[p]) /\ tmp'[p].at = 0
  BY <1>8, IsFileAbsent DEF IInv, TypeOK
<1>9. \A v \in Calls : pc'[v] \in Writing => pc[v] = pc'[v] /\ PidOf[v] # PidOf[w]
  <2>1. SUFFICES ASSUME NEW v \in Calls, pc'[v] \in Writing
                 PROVE  pc[v] = pc'[v] /\ PidOf[v] # PidOf[w]
    OBVIOUS
  <2>2. v # w /\ pc[v] = pc'[v]
    BY <2>1, <1>5 DEF IInv, TypeOK, Writing
  <2>3. PidOf[v] # PidOf[w]
    BY <2>1, <2>2, <1>5 DEF IInv, TypeOK
  <2> QED BY <2>2, <2>3
<1>10. /\ IsFile(entry') /\ entry' \in old' /\ \A g \in old' : IsFile(g)
       /\ \A g \in old' \cup {entry'} : Whole(g)
  <2>1. (\A g \in old : IsFile(g)) /\ \A g \in old : Whole(g)
    BY DEF IInv, TypeOK, NeverHalfWritten
  <2> QED BY <2>1, <1>4, <1>5
<1>11. \A v \in Calls : pc'[v] \in Writing =>
          /\ tmp'[PidOf[v]].of = val'[v] /\ val'[v] \in Contents
          /\ pc'[v] # "write" => tmp'[PidOf[v]].extent = "whole"
          /\ pc'[v] = "rename" => tmp'[PidOf[v]].synced
          /\ \A u \in Calls : pc'[u] \in Writing /\ PidOf[u] = PidOf[v] => u = v
  BY <1>1, <1>5, <1>8, <1>9 DEF IInv, TypeOK, Tmp
<1>12. TypeOK'
  <2>1. val' \in [Calls -> Contents \cup {NoFile}] /\ floor' \in Nat
        /\ dir' \in {"absent", "made", "durable"}
    BY <1>5 DEF IInv, TypeOK
  <2>2. \A v \in Calls : pc'[v] = "idle" <=> val'[v] = NoFile
    <3>1. pc[w] # "idle"
      BY <1>5 DEF Writing
    <3> QED BY <3>1, <1>5 DEF IInv, TypeOK
  <2> QED BY <2>1, <2>2, <1>2, <1>7, <1>8, <1>8a, <1>10, <1>11 DEF TypeOK, Tmp
<1>13. NeverHalfWritten'
  BY <1>10 DEF NeverHalfWritten
<1> QED BY <1>4, <1>5, <1>12, <1>13 DEF IInv

\* What is on the disk after a power loss.
LEMMA LossKeeps ==
  ASSUME IInv, NEW kept, NEW f, NEW d \in {"absent", "durable"},
         PowerLossWith(kept, f, d), IsFile(f), Whole(f),
         kept \in [Pids -> Files], \A p \in Pids : IsFile(kept[p]) /\ kept[p].at = 0
  PROVE  IInv'
<1>1. /\ pc' = [w \in Calls |-> "idle"] /\ val' = [w \in Calls |-> NoFile]
      /\ mark' = [w \in Calls |-> 0]
      /\ tmp' = kept /\ entry' = f /\ old' = {f} /\ dir' = d
      /\ renames' = renames /\ floor' = floor
  BY DEF PowerLossWith, Over
<1>3. NeverHalfWritten'
  BY <1>1 DEF NeverHalfWritten
<1>5. TypeOK'
  BY <1>1 DEF IInv, TypeOK, Writing
<1> QED BY <1>3, <1>5 DEF IInv

\* The files a power loss may leave are the ones there were.
LEMMA PowerLossKeeps ==
  ASSUME IInv, PowerLoss
  PROVE  /\ IInv'
         /\ dir # "absent" /\ dir' = "durable"
         /\ \E f \in old : entry' = f /\ old' = {f}
         /\ mark' = [w \in Calls |-> 0] /\ UNCHANGED <<renames, floor>>
<1>1. PICK f \in UNION {Remains(g) : g \in old},
           kept \in [Pids -> (UNION {Remains(tmp[p]) : p \in Pids}) \cup {Absent}] :
        /\ \A p \in Pids : kept[p] \in Remains(tmp[p]) \cup {Absent}
        /\ PowerLossWith(kept, f, "durable")
  BY DEF PowerLoss
<1>2. f \in old /\ IsFile(f) /\ Whole(f)
  <2>1. PICK g \in old : f \in Remains(g)
    OBVIOUS
  <2>2. IsFile(g) /\ Whole(g)
    BY DEF IInv, TypeOK, NeverHalfWritten
  <2> QED BY <2>1, <2>2, RemainsOK
<1>4. ASSUME NEW p \in Pids PROVE IsFile(kept[p]) /\ kept[p].at = 0
  <2>1. IsFile(tmp[p]) /\ tmp[p].at = 0
    BY DEF IInv, TypeOK
  <2>2. CASE kept[p] = Absent
    BY <2>2, IsFileAbsent
  <2>3. CASE kept[p] \in Remains(tmp[p])
    BY <2>1, <2>3, RemainsOK
  <2> QED BY <1>1, <2>2, <2>3
<1>5. kept \in [Pids -> Files]
  BY <1>4 DEF IsFile
<1>6. IInv'
  BY <1>1, <1>2, <1>4, <1>5, LossKeeps
<1> QED BY <1>1, <1>2, <1>6 DEF PowerLoss, PowerLossWith, Over

LEMMA DirectoryLossKeeps ==
  ASSUME IInv, DirectoryLoss PROVE IInv'
<1>1. \A p \in Pids : [q \in Pids |-> Absent][p] = Absent
  OBVIOUS
<1> QED BY <1>1, IsFileAbsent, LossKeeps DEF DirectoryLoss

-----------------------------------------------------------------------------
LEMMA NextIInv == IInv /\ [Next]_vars => IInv'
<1> SUFFICES ASSUME IInv, [Next]_vars PROVE IInv'
  OBVIOUS
<1>0. IInv /\ TypeOK /\ \A v \in Calls : PidOf[v] \in Pids
  BY DurableFileAssumption DEF DurableFileAssumption, IInv
<1>1. ASSUME NEW w \in Calls, NEW c \in Contents, Call(w, c) PROVE IInv'
  <2>1. /\ val' \in [Calls -> Contents \cup {NoFile}]
        /\ \A v \in Calls : v # w => val'[v] = val[v]
        /\ val'[w] # NoFile
    BY <1>0, <1>1, DurableFileAssumption DEF Call, TypeOK, DurableFileAssumption
  <2>2. dir' \in {"absent", "made", "durable"}
    BY <1>0, <1>1 DEF Call, TypeOK
  <2> QED BY <1>1, <2>1, <2>2, GotoKeeps DEF Call, Goto
<1>2. ASSUME NEW w \in Calls, MakeDir(w) PROVE IInv'
  <2>1. /\ pc' = [pc EXCEPT ![w] = "create"] /\ val' = val
        /\ UNCHANGED <<mark, tmp, entry, old, renames, floor>>
    BY <1>2 DEF MakeDir, Goto
  <2>2. /\ dir' \in {"absent", "made", "durable"}
        /\ val' \in [Calls -> Contents \cup {NoFile}] /\ val'[w] # NoFile
    BY <1>0, <1>2 DEF MakeDir, TypeOK
  <2> QED BY <2>1, <2>2, GotoKeeps
<1>3. ASSUME NEW w \in Calls, Create(w) PROVE IInv'
  <2> DEFINE f == File(val[w], "empty")
  <2>1. val[w] \in Contents
    BY <1>0, <1>3 DEF Create, TypeOK
  <2>2. IsFile(f) /\ f.at = 0 /\ f.of = val[w]
    BY <2>1, IsFileNew DEF Extents
  <2>3. \A v \in Calls : ~(pc[v] \in Writing /\ PidOf[v] = PidOf[w])
    BY <1>0, <1>3, NotAbsent DEF Create, TypeOK, Tmp
  <2>4. /\ pc' = [pc EXCEPT ![w] = "write"] /\ tmp' = [tmp EXCEPT ![PidOf[w]] = f]
        /\ UNCHANGED <<val, mark, entry, old, dir, renames, floor>>
    BY <1>3 DEF Create, Goto
  <2> HIDE DEF f
  <2> QED BY <2>1, <2>2, <2>3, <2>4, TmpKeeps DEF Writing
<1>4. ASSUME NEW w \in Calls, WritePart(w) PROVE IInv'
  <2> DEFINE f == File(val[w], "part")
  <2>1. /\ val[w] \in Contents /\ pc[w] = "write"
        /\ \A v \in Calls : pc[v] \in Writing /\ PidOf[v] = PidOf[w] => v = w
    BY <1>0, <1>4 DEF WritePart, TypeOK, Writing
  <2>2. IsFile(f) /\ f.at = 0 /\ f.of = val[w]
    BY <2>1, IsFileNew DEF Extents
  <2>3. pc' = [pc EXCEPT ![w] = "write"]
    BY <1>0, <1>4, <2>1 DEF WritePart, TypeOK
  <2>4. /\ tmp' = [tmp EXCEPT ![PidOf[w]] = f]
        /\ UNCHANGED <<val, mark, entry, old, dir, renames, floor>>
    BY <1>4 DEF WritePart
  <2> HIDE DEF f
  <2> QED BY <2>1, <2>2, <2>3, <2>4, TmpKeeps DEF Writing
<1>5. ASSUME NEW w \in Calls, WriteAll(w) PROVE IInv'
  <2> DEFINE f == File(val[w], "whole")
  <2>1. /\ val[w] \in Contents
        /\ \A v \in Calls : pc[v] \in Writing /\ PidOf[v] = PidOf[w] => v = w
    BY <1>0, <1>5 DEF WriteAll, TypeOK, Writing
  <2>2. IsFile(f) /\ f.at = 0 /\ f.of = val[w] /\ f.extent = "whole"
    BY <2>1, IsFileNew DEF Extents
  <2>4. /\ pc' = [pc EXCEPT ![w] = "sync"] /\ tmp' = [tmp EXCEPT ![PidOf[w]] = f]
        /\ UNCHANGED <<val, mark, entry, old, dir, renames, floor>>
    BY <1>5 DEF WriteAll, Goto
  <2> HIDE DEF f
  <2> QED BY <2>1, <2>2, <2>4, TmpKeeps DEF Writing
<1>6. ASSUME NEW w \in Calls, SyncAll(w) PROVE IInv'
  <2> DEFINE f == [tmp[PidOf[w]] EXCEPT !.synced = TRUE]
  <2>1. /\ val[w] \in Contents
        /\ \A v \in Calls : pc[v] \in Writing /\ PidOf[v] = PidOf[w] => v = w
    BY <1>0, <1>6 DEF SyncAll, TypeOK, Writing
  <2>2. /\ IsFile(Tmp(w)) /\ Tmp(w).at = 0 /\ Tmp(w).extent = "whole"
        /\ Tmp(w).of = val[w]
    BY <1>0, <1>6 DEF SyncAll, TypeOK, Writing, Tmp
  <2>3. IsFile(f) /\ f.at = 0 /\ f.of = val[w] /\ f.extent = "whole" /\ f.synced
    <3>1. f \in Files /\ f.at = 0 /\ f.of = val[w] /\ f.extent = "whole" /\ f.synced
      BY <2>2 DEF IsFile, Files, Tmp
    <3>2. f.of # NoFile
      BY <2>1, <3>1, DurableFileAssumption DEF DurableFileAssumption
    <3> HIDE DEF f
    <3> QED BY <3>1, <3>2 DEF IsFile
  <2>4. /\ pc' = [pc EXCEPT ![w] = "rename"] /\ tmp' = [tmp EXCEPT ![PidOf[w]] = f]
        /\ UNCHANGED <<val, mark, entry, old, dir, renames, floor>>
    BY <1>6 DEF SyncAll, Goto
  <2> HIDE DEF f
  <2> QED BY <2>1, <2>3, <2>4, TmpKeeps DEF Writing
<1>7. ASSUME NEW w \in Calls, Rename(w) PROVE IInv'
  BY <1>0, <1>7, RenameKeeps
<1>8. ASSUME NEW w \in Calls, SyncDir(w) \/ DirNotSynced(w) PROVE IInv'
  <2>1. floor' \in Nat
    BY <1>0, <1>8 DEF SyncDir, DirNotSynced, Returned, TypeOK
  <2>2. Over({w}) /\ UNCHANGED <<tmp, entry, renames, dir>>
    BY <1>8 DEF SyncDir, DirNotSynced, Returned
  <2>3. old' \subseteq old /\ entry \in old'
    BY <1>0, <1>8 DEF SyncDir, DirNotSynced, TypeOK
  <2> QED BY <2>1, <2>2, <2>3, OverKeeps
<1>9. ASSUME NEW w \in Calls, Fails(w) \/ CreateRefused(w) PROVE IInv'
  <2>1. Over({w}) /\ UNCHANGED <<tmp, entry, old, dir, renames, floor>>
    BY <1>9 DEF Fails, CreateRefused
  <2>2. floor' \in Nat /\ old' \subseteq old /\ entry \in old'
    BY <1>0, <2>1 DEF TypeOK
  <2> QED BY <2>1, <2>2, OverKeeps
<1>10. ASSUME NEW p \in Pids, Die(p) PROVE IInv'
  <2>1. /\ Over({w \in Calls : PidOf[w] = p})
        /\ UNCHANGED <<tmp, entry, old, dir, renames, floor>>
    BY <1>10 DEF Die
  <2>2. floor' \in Nat /\ old' \subseteq old /\ entry \in old'
    BY <1>0, <2>1 DEF TypeOK
  <2> QED BY <2>1, <2>2, OverKeeps
<1>11. CASE Writeback
  BY <1>0, <1>11 DEF Writeback, IInv, TypeOK, NeverHalfWritten, Tmp
<1>12. CASE PowerLoss
  BY <1>0, <1>12, PowerLossKeeps
<1>13. CASE DirectoryLoss
  BY <1>0, <1>13, DirectoryLossKeeps
<1>14. CASE UNCHANGED vars
  BY <1>0, <1>14 DEF vars, IInv, TypeOK, NeverHalfWritten, Tmp
<1> QED BY <1>1, <1>2, <1>3, <1>4, <1>5, <1>6, <1>7, <1>8, <1>9, <1>10, <1>11,
           <1>12, <1>13, <1>14 DEF Next

\* "`path` is never left half-written": for any calls of any processes, any
\* failing system calls, deaths and power losses, `write_durable` leaves the
\* path with the whole contents of one call.
THEOREM PathNeverHalfWritten == Spec => [](TypeOK /\ NeverHalfWritten)
BY InitIInv, NextIInv, PTL DEF Spec, IInv

-----------------------------------------------------------------------------
\* The acknowledged contents survive: nothing counts as acknowledged before
\* the directory is durable, and no pending call has a rename that was undone.

Acked ==
    /\ AckedSurvives /\ (dir # "durable" => floor = 0)
    /\ \A w \in Calls : mark[w] <= entry.at
    /\ \A f \in old : f.at <= renames

LEMMA InitAcked == Init => Acked
BY DEF Init, Acked, AckedSurvives, Absent

LEMMA OverAcked ==
  ASSUME IInv, Acked, NEW ws \in SUBSET Calls, Over(ws),
         UNCHANGED <<tmp, entry, old, dir, renames, floor>>
  PROVE  Acked'
<1>1. entry.at \in Nat /\ \A w \in Calls : mark'[w] = 0 \/ mark'[w] = mark[w]
  BY DEF IInv, TypeOK, IsFile, Files, Over
<1> QED BY <1>1 DEF Acked, AckedSurvives

LEMMA NextAcked == IInv /\ Acked /\ [Next]_vars => Acked'
<1> SUFFICES ASSUME IInv, Acked, [Next]_vars PROVE Acked'
  OBVIOUS
<1>0. /\ IInv /\ TypeOK /\ Acked /\ renames \in Nat /\ floor \in Nat
      /\ entry.at \in Nat /\ entry \in old /\ \A f \in old : f.at \in Nat
      /\ \A w \in Calls : mark[w] \in Nat
  BY DurableFileAssumption DEF DurableFileAssumption, IInv, TypeOK, IsFile, Files
<1>1. ASSUME NEW w \in Calls,
             \/ \E c \in Contents : Call(w, c)
             \/ MakeDir(w) \/ Create(w) \/ WritePart(w) \/ WriteAll(w) \/ SyncAll(w)
      PROVE  Acked'
  <2>1. /\ UNCHANGED <<mark, entry, old, renames, floor>>
        /\ dir' = dir \/ (dir = "absent" /\ dir' = "made")
    BY <1>1 DEF Call, MakeDir, Create, WritePart, WriteAll, SyncAll
  <2> QED BY <2>1 DEF Acked, AckedSurvives
<1>2. ASSUME NEW w \in Calls, Rename(w) PROVE Acked'
  <2>1. entry'.at = renames + 1 /\ old' = old \cup {entry'}
    BY <1>0, <1>2, RenameKeeps
  <2>2. /\ mark' = [mark EXCEPT ![w] = renames + 1] /\ renames' = renames + 1
        /\ UNCHANGED <<dir, floor>>
    BY <1>2 DEF Rename
  <2>3. \A v \in Calls : mark'[v] = renames + 1 \/ mark'[v] = mark[v]
    BY <2>2, <1>0 DEF TypeOK
  <2>4. floor <= renames /\ entry.at <= renames
    BY <1>0 DEF Acked, AckedSurvives
  <2>5. \A v \in Calls : mark[v] <= renames
    BY <1>0, <2>4 DEF Acked
  <2>6. \A f \in old' : floor' <= f.at /\ f.at <= renames'
    BY <1>0, <2>1, <2>2, <2>4 DEF Acked, AckedSurvives
  <2>7. \A v \in Calls : mark'[v] <= entry'.at
    BY <1>0, <2>1, <2>3, <2>5
  <2> QED BY <2>1, <2>2, <2>6, <2>7 DEF Acked, AckedSurvives
<1>3. ASSUME NEW w \in Calls, SyncDir(w) PROVE Acked'
  <2>1. /\ old' = {entry} /\ UNCHANGED <<entry, dir, renames>> /\ Over({w})
        /\ floor' = floor \/ (floor' = mark[w] /\ dir = "durable")
    BY <1>3 DEF SyncDir, Returned
  <2>2. floor' <= entry.at /\ (dir' # "durable" => floor' = 0)
    BY <2>1, <1>0 DEF Acked, AckedSurvives
  <2>3. \A v \in Calls : mark'[v] = 0 \/ mark'[v] = mark[v]
    BY <2>1 DEF Over
  <2> QED BY <1>0, <2>1, <2>2, <2>3 DEF Acked, AckedSurvives
<1>4. ASSUME NEW w \in Calls, Fails(w) \/ CreateRefused(w) \/ DirNotSynced(w)
      PROVE  Acked'
  <2>1. Over({w}) /\ UNCHANGED <<tmp, entry, old, dir, renames, floor>>
    BY <1>4 DEF Fails, CreateRefused, DirNotSynced, Returned
  <2> QED BY <1>0, <2>1, OverAcked
<1>5. ASSUME NEW p \in Pids, Die(p) PROVE Acked'
  BY <1>0, <1>5, OverAcked DEF Die
<1>6. CASE Writeback
  BY <1>0, <1>6 DEF Writeback, Acked, AckedSurvives
<1>7. CASE PowerLoss
  <2>1. /\ dir' = "durable" /\ UNCHANGED <<renames, floor>>
        /\ mark' = [w \in Calls |-> 0]
    BY <1>0, <1>7, PowerLossKeeps
  <2>2. PICK f \in old : entry' = f /\ old' = {f}
    BY <1>0, <1>7, PowerLossKeeps
  <2> QED BY <1>0, <2>1, <2>2 DEF Acked, AckedSurvives
<1>8. CASE UNCHANGED vars
  BY <1>8 DEF vars, Acked, AckedSurvives
<1>9. CASE DirectoryLoss
  <2>1. /\ entry' = Absent /\ old' = {Absent} /\ UNCHANGED <<renames, floor>>
        /\ \A v \in Calls : mark'[v] = 0
    BY <1>9 DEF DirectoryLoss, PowerLossWith, Over
  <2>2. floor = 0
    BY <1>9 DEF DirectoryLoss, Acked
  <2> QED BY <1>0, <2>1, <2>2 DEF Acked, AckedSurvives, Absent
<1> QED BY <1>1, <1>2, <1>3, <1>4, <1>5, <1>6, <1>7, <1>8, <1>9 DEF Next

\* "After this returns the data has reached stable storage": when the
\* directory is durable and can be synchronized, no failure, death or power
\* loss brings back anything older than what a call returned Ok for.
THEOREM AckedAlwaysSurvives == Spec => []AckedSurvives
<1>1. Acked => AckedSurvives
  BY DEF Acked
<1> QED BY <1>1, InitIInv, NextIInv, InitAcked, NextAcked, PTL DEF Spec

-----------------------------------------------------------------------------
\* The refinement.

LEMMA ShownLasts == IInv => Shown \in Lasting
BY DEF IInv, TypeOK, Shown, Lasting

LEMMA InitPromise == Init => Promise!Init
BY IsFileAbsent DEF Init, Promise!Init, Shown, Lasting, ContentsOf, Absent

\* A step that names no other file and forgets none that can come back.
LEMMA QuietStep ==
  ASSUME IInv, UNCHANGED entry, old' \subseteq old, entry \in old',
         dir' = "made" => dir = "made" \/ (dir = "absent" /\ old = {Absent})
  PROVE  Promise!Forget
<1>1. Shown' = Shown /\ Shown' \in Lasting'
  BY DEF Shown, Lasting
<1>2. Lasting' \subseteq Lasting
  <2>1. CASE dir' = "made" /\ dir = "absent" /\ old = {Absent}
    <3>1. ContentsOf(Absent) = NoFile
      BY IsFileAbsent DEF ContentsOf, Absent
    <3> QED BY <2>1, <3>1 DEF Lasting
  <2>2. CASE dir' # "made" \/ dir = "made"
    BY <2>2 DEF Lasting
  <2> QED BY <2>1, <2>2
<1> QED BY <1>1, <1>2 DEF Promise!Forget

\* Before the directory is made there is nothing in it.
Fresh == dir = "absent" => entry = Absent /\ old = {Absent}
           /\ \A w \in Calls : pc[w] \in {"idle", "mkdir"}

LEMMA InitFresh == Init => Fresh
BY DEF Init, Fresh

LEMMA NextFresh == IInv /\ Fresh /\ [Next]_vars => Fresh'
<1> SUFFICES ASSUME IInv, Fresh, [Next]_vars PROVE Fresh'
  OBVIOUS
<1> USE DEF Fresh
<1>0. pc \in [Calls -> Writing \cup {"idle", "mkdir", "create", "syncdir"}]
  BY DEF IInv, TypeOK
<1>1. ASSUME NEW w \in Calls, NEW c \in Contents, Call(w, c) PROVE Fresh'
  BY <1>0, <1>1 DEF Call, Goto
<1>2. ASSUME NEW w \in Calls, MakeDir(w) PROVE Fresh'
  BY <1>2 DEF MakeDir
<1>3. ASSUME NEW w \in Calls,
             Create(w) \/ CreateRefused(w) \/ WritePart(w) \/ WriteAll(w)
               \/ SyncAll(w) \/ Rename(w) \/ SyncDir(w) \/ DirNotSynced(w)
      PROVE  Fresh'
  BY <1>3 DEF Create, CreateRefused, WritePart, WriteAll, SyncAll, Rename,
              SyncDir, DirNotSynced, Returned
<1>4. ASSUME NEW ws \in SUBSET Calls, Over(ws), UNCHANGED <<entry, old, dir>>
      PROVE  Fresh'
  BY <1>4 DEF Over
<1>5. ASSUME NEW w \in Calls, Fails(w) PROVE Fresh'
  BY <1>4, <1>5 DEF Fails
<1>6. ASSUME NEW p \in Pids, Die(p) PROVE Fresh'
  BY <1>4, <1>6 DEF Die
<1>7. CASE Writeback
  BY <1>7 DEF Writeback
<1>8. CASE PowerLoss
  BY <1>8, PowerLossKeeps
<1>9. CASE DirectoryLoss
  BY <1>9 DEF DirectoryLoss, PowerLossWith, Over
<1>10. CASE UNCHANGED vars
  BY <1>10 DEF vars
<1> QED BY <1>1, <1>2, <1>3, <1>5, <1>6, <1>7, <1>8, <1>9, <1>10 DEF Next

LEMMA NextPromise ==
  IInv /\ Fresh /\ [Next]_vars => [Promise!Next]_(Promise!vars)
<1> SUFFICES ASSUME IInv, Fresh, [Next]_vars PROVE [Promise!Next]_(Promise!vars)
  OBVIOUS
<1>0. IInv /\ Fresh /\ entry \in old /\ \A f \in old : ContentsOf(f) = f.of
  BY DEF IInv, TypeOK, NeverHalfWritten, ContentsOf
<1>1. ASSUME NEW w \in Calls, Rename(w) PROVE Promise!Next
  <2>1. PICK c \in Contents : entry'.of = c
    BY <1>0, <1>1, RenameKeeps
  <2>2. old' = old \cup {entry'} /\ IInv' /\ dir' = dir
    BY <1>0, <1>1, RenameKeeps DEF Rename
  <2>3. Whole(entry')
    BY <2>2 DEF IInv, NeverHalfWritten
  <2>4. Shown' = c
    BY <2>1, <2>3 DEF Shown, ContentsOf
  <2>5. Lasting' = Lasting \cup {c}
    <3>1. ContentsOf(entry') = c
      BY <2>4 DEF Shown
    <3> QED BY <2>2, <3>1 DEF Lasting
  <2> QED BY <2>4, <2>5 DEF Promise!Next, Promise!Replace
<1>2. ASSUME NEW w \in Calls,
             \/ \E c \in Contents : Call(w, c)
             \/ MakeDir(w) \/ Create(w) \/ CreateRefused(w) \/ WritePart(w)
             \/ WriteAll(w) \/ SyncAll(w) \/ SyncDir(w) \/ DirNotSynced(w) \/ Fails(w)
      PROVE  Promise!Next
  <2>1. /\ entry' = entry /\ (old' = old \/ old' = {entry})
        /\ dir' = dir \/ (dir = "absent" /\ dir' = "made")
    BY <1>2 DEF Call, MakeDir, Create, CreateRefused, WritePart, WriteAll, SyncAll,
                SyncDir, DirNotSynced, Returned, Fails
  <2>2. old' \subseteq old /\ entry \in old'
    BY <1>0, <2>1
  <2>3. dir' = "made" => dir = "made" \/ (dir = "absent" /\ old = {Absent})
    BY <1>0, <2>1 DEF Fresh
  <2>4. Promise!Forget
    BY <1>0, <2>1, <2>2, <2>3, QuietStep
  <2> QED BY <2>4 DEF Promise!Next
<1>3. ASSUME \/ \E p \in Pids : Die(p)
             \/ Writeback
      PROVE  Promise!Next
  <2>1. /\ entry' = entry /\ (old' = old \/ old' = {entry})
        /\ dir' = "made" => dir = "made"
    BY <1>3 DEF Die, Writeback
  <2>2. old' \subseteq old /\ entry \in old'
    BY <1>0, <2>1
  <2>3. Promise!Forget
    BY <1>0, <2>1, <2>2, QuietStep
  <2> QED BY <2>3 DEF Promise!Next
<1>4. CASE PowerLoss
  <2>1. PICK f \in old : entry' = f /\ old' = {f}
    BY <1>0, <1>4, PowerLossKeeps
  <2>2. dir' = "durable"
    BY <1>0, <1>4, PowerLossKeeps
  <2>3. Shown' = ContentsOf(f) /\ Lasting' = {ContentsOf(f)}
    BY <2>1, <2>2 DEF Shown, Lasting
  <2>4. ContentsOf(f) \in Lasting
    BY DEF Lasting
  <2> QED BY <2>3, <2>4 DEF Promise!Next, Promise!PowerLoss
<1>5. CASE DirectoryLoss
  <2>1. entry' = Absent /\ old' = {Absent} /\ dir' = "absent" /\ dir = "made"
    BY <1>5 DEF DirectoryLoss, PowerLossWith
  <2>2. ContentsOf(Absent) = NoFile
    BY IsFileAbsent DEF ContentsOf, Absent
  <2>3. Shown' = NoFile /\ Lasting' = {NoFile} /\ NoFile \in Lasting
    BY <2>1, <2>2 DEF Shown, Lasting
  <2> QED BY <2>3 DEF Promise!Next, Promise!PowerLoss
<1>6. CASE UNCHANGED vars
  BY <1>6 DEF vars, Promise!vars, Shown, Lasting
<1> QED BY <1>1, <1>2, <1>3, <1>4, <1>5, <1>6 DEF Next

\* What the callers rely on: `write_durable` replaces the contents of a file
\* in one step, and a power loss brings back contents it had, never a mixture.
THEOREM WriteDurableIsAtomic == Spec => ImplementsAtomicFile
<1>1. Spec => Promise!Spec
  BY InitIInv, NextIInv, InitFresh, NextFresh, InitPromise, NextPromise, PTL
     DEF Spec, Promise!Spec
<1> QED BY <1>1 DEF ImplementsAtomicFile

-----------------------------------------------------------------------------
(* The claim counter: entries and vaults                                   *)

(* Revoking an entry changes its status alone.                             *)
LEMMA RevokedEntry ==
    ASSUME NEW e \in Entries, e # NoEntry
    PROVE  /\ [e EXCEPT !.status = "revoked"] \in Entries
           /\ [e EXCEPT !.status = "revoked"].status = "revoked"
           /\ [e EXCEPT !.status = "revoked"].machine = e.machine
           /\ [e EXCEPT !.status = "revoked"].exp = e.exp
<1>1. CASE e = Unclaimed
  BY <1>1 DEF Unclaimed, Entry, Entries, Expiries
<1>2. CASE e \in [status : {"claimed"}, machine : Machines, exp : Expiries]
  BY <1>2 DEF Entries
<1>3. CASE e \in [status : {"revoked"}, machine : Machines \cup {NoMachine}, exp : Expiries]
  BY <1>3 DEF Entries
<1>4. QED
  BY <1>1, <1>2, <1>3 DEF Entries

(* A first claim makes a claimed entry.                                    *)
LEMMA ClaimedEntry ==
    ASSUME NEW m \in Machines, NEW x \in Expiries
    PROVE  /\ Entry("claimed", m, x) \in Entries
           /\ Entry("claimed", m, x).status = "claimed"
           /\ Entry("claimed", m, x).machine = m
           /\ Entry("claimed", m, x).exp = x
BY DEF Entry, Entries

LEMMA PlainEntries ==
    /\ Unclaimed \in Entries /\ Unclaimed.status = "unclaimed"
    /\ NoEntry \in Entries /\ NoEntry.status = "none"
    /\ NoVault \in Vaults
BY DEF Unclaimed, NoEntry, NoVault, Entry, Entries, Vaults

LEMMA VaultUpdated ==
    ASSUME NEW v \in Vaults, NEW c \in Codes, NEW e \in Entries
    PROVE  /\ [v EXCEPT ![c] = e] \in Vaults
           /\ [v EXCEPT ![c] = e][c] = e
           /\ \A d \in Codes : d # c => [v EXCEPT ![c] = e][d] = v[d]
BY DEF Vaults

LEMMA ExpiryTyped ==
    ASSUME CCTypeOK, NEW c \in Codes
    PROVE  Expiry(c) \in Expiries
<1>1. now \in Nat /\ (Days[c] \in Nat \/ Days[c] = Perpetual)
  BY ClaimCounterAssumption DEF CCTypeOK
<1>2. CASE Days[c] = Perpetual
  BY <1>2 DEF Expiry, Expiries
<1>3. CASE Days[c] \in Nat
  <2>1. now + Days[c] \in Nat
    BY <1>1, <1>3
  <2>2. QED
    BY <2>1, <1>3, ClaimCounterAssumption DEF Expiry, Expiries
<1>4. QED
  BY <1>1, <1>2, <1>3

-----------------------------------------------------------------------------
(* The inductive invariant                                                 *)

(* A claim between the flip and the reply: the code is claimed for the     *)
(* machine that asks, and the copy differs from the file in that code      *)
(* alone, if at all, because it was unclaimed.                             *)
Claiming ==
    step \in {"saving", "replying"} =>
        /\ request \in [code : Codes, machine : Machines]
        /\ vault[request.code].status = "claimed"
        /\ vault[request.code].machine = request.machine
        /\ \A c \in Codes : c # request.code => vault[c] = file[c]
        /\ \/ vault[request.code] = file[request.code]
           \/ step = "saving" /\ file[request.code].status = "unclaimed"

(* When the vault is served no command runs, and the copy is the file but  *)
(* for a claim that is being saved.                                        *)
CopyOfFile ==
    /\ step # "down" => admin = NoCommand
    /\ step = "idle" => vault = file
    /\ step = "saving" => before = file
    /\ request # NoRequest => step \in {"saving", "replying"}

(* What a running command will save differs from the file in one entry.    *)
Commanded ==
    admin # NoCommand =>
        /\ \A c \in Codes : c # admin.code => admin.vault[c] = file[c]
        /\ admin.op = "revoke" =>
              /\ admin.vault[admin.code].status = "revoked"
              /\ admin.vault[admin.code].machine = file[admin.code].machine
              /\ admin.vault[admin.code].exp = file[admin.code].exp
              /\ file[admin.code].status # "none"

TokensOfArmings == \A t \in tokens : t.arming <= armed[t.code]

LedgerHolds == OneLicensePerArming /\ LedgerKnowsTokens

CCIInv ==
    /\ CCTypeOK /\ Claiming /\ CopyOfFile /\ Commanded
    /\ TokensOfArmings /\ LedgerHolds

LEMMA CCInitIInv == CCInit => CCIInv
<1> SUFFICES ASSUME CCInit PROVE CCIInv
  OBVIOUS
<1>1. CCTypeOK
  <2>1. now \in 0..MaxNow /\ faults \in 0..MaxFaults /\ armed \in [Codes -> Nat]
    BY ClaimCounterAssumption DEF CCInit
  <2>2. together \in BOOLEAN
    BY DEF CCInit
  <2>3. QED
    BY <2>1, <2>2, PlainEntries DEF CCInit, CCTypeOK
<1>2. QED
  BY <1>1, ClaimCounterAssumption
     DEF CCInit, CCIInv, Claiming, CopyOfFile, Commanded, TokensOfArmings, LedgerHolds,
         OneLicensePerArming, LedgerKnowsTokens
-----------------------------------------------------------------------------
(* One lemma per group of actions                                          *)

(* What is said of the tokens rests on the file and the armings alone.     *)
LEMMA LedgerKept ==
    ASSUME CCIInv, UNCHANGED <<file, tokens, armed>>
    PROVE  TokensOfArmings' /\ LedgerHolds'
BY DEF CCIInv, TokensOfArmings, LedgerHolds, OneLicensePerArming, LedgerKnowsTokens

LEMMA StartKeeps ==
    ASSUME CCIInv, ~together', Start
    PROVE  CCIInv'
<1>1. CCTypeOK'
  BY DEF CCIInv, CCTypeOK, Start, history
<1>2. Claiming' /\ CopyOfFile' /\ Commanded'
  BY DEF CCIInv, CCTypeOK, Claiming, CopyOfFile, Commanded, Start
<1>3. QED
  BY <1>1, <1>2, LedgerKept DEF CCIInv, Start

LEMMA FirstClaimKeeps ==
    ASSUME CCIInv, NEW c \in Codes, NEW m \in Machines, FirstClaim(c, m)
    PROVE  CCIInv'
<1> DEFINE e == Entry("claimed", m, Expiry(c))
<1>1. e \in Entries /\ e.status = "claimed" /\ e.machine = m
  BY ClaimedEntry, ExpiryTyped DEF CCIInv
<1>2. vault' = [vault EXCEPT ![c] = e] /\ vault = file /\ file[c].status = "unclaimed"
  BY DEF FirstClaim, CCIInv, CopyOfFile
<1> HIDE DEF e
<1>3. /\ [vault EXCEPT ![c] = e] \in Vaults /\ [vault EXCEPT ![c] = e][c] = e
      /\ \A d \in Codes : d # c => [vault EXCEPT ![c] = e][d] = vault[d]
  BY <1>1, VaultUpdated DEF CCIInv, CCTypeOK
<1>4. request' = [code |-> c, machine |-> m] /\ step' = "saving" /\ before' = file
  BY <1>2 DEF FirstClaim, Accept
<1>5. CCTypeOK'
  <2>1. vault' \in Vaults /\ before' \in Vaults
    BY <1>2, <1>3, <1>4 DEF CCIInv, CCTypeOK
  <2>2. QED
    BY <2>1, <1>4 DEF CCIInv, CCTypeOK, FirstClaim, Accept, history
<1>6. Claiming'
  BY <1>1, <1>2, <1>3, <1>4 DEF Claiming, FirstClaim, Accept
<1>7. CopyOfFile' /\ Commanded'
  BY <1>4 DEF CCIInv, CopyOfFile, Commanded, FirstClaim, Accept
<1>8. QED
  BY <1>5, <1>6, <1>7, LedgerKept DEF CCIInv, FirstClaim, Accept

LEMMA ReissueKeeps ==
    ASSUME CCIInv, NEW c \in Codes, NEW m \in Machines, Reissue(c, m)
    PROVE  CCIInv'
<1>1. vault = file /\ vault' = vault /\ step' = "saving" /\ before' = file
      /\ request' = [code |-> c, machine |-> m]
  BY DEF Reissue, Accept, CCIInv, CopyOfFile
<1>2. CCTypeOK'
  BY <1>1 DEF CCIInv, CCTypeOK, Reissue, Accept, history
<1>3. Claiming'
  BY <1>1 DEF Claiming, Reissue, Accept
<1>4. CopyOfFile' /\ Commanded'
  BY <1>1 DEF CCIInv, CopyOfFile, Commanded, Reissue, Accept
<1>5. QED
  BY <1>2, <1>3, <1>4, LedgerKept DEF CCIInv, Reissue, Accept

(* The save changes the file where nothing was disclosed: an entry that a  *)
(* current token rests on is not unclaimed.                                *)
LEMMA SaveKeeps ==
    ASSUME CCIInv, Save
    PROVE  CCIInv'
<1>1. /\ step = "saving" /\ admin = NoCommand /\ file' = vault
      /\ UNCHANGED <<vault, request, admin, tokens, armed, announced, sealed, together>>
      /\ step' = "replying" /\ before' = NoVault
  BY DEF Save, CCIInv, CopyOfFile, history
<1>2. /\ request \in [code : Codes, machine : Machines]
      /\ vault[request.code].status = "claimed"
      /\ vault[request.code].machine = request.machine
      /\ \A c \in Codes : vault[c] = file[c] \/ file[c].status = "unclaimed"
  BY <1>1 DEF CCIInv, Claiming
<1>3. CCTypeOK'
  BY <1>1, PlainEntries DEF CCIInv, CCTypeOK, Save
<1>4. Claiming' /\ CopyOfFile' /\ Commanded'
  BY <1>1, <1>2 DEF CCIInv, Claiming, CopyOfFile, Commanded, CCTypeOK
<1>5. \A t \in tokens : t.code \in Codes
  BY DEF CCIInv, CCTypeOK
<1>6. LedgerKnowsTokens'
  BY <1>1, <1>2, <1>5 DEF CCIInv, LedgerHolds, LedgerKnowsTokens
<1>7. TokensOfArmings' /\ OneLicensePerArming'
  BY <1>1 DEF CCIInv, TokensOfArmings, LedgerHolds, OneLicensePerArming
<1>8. QED
  BY <1>3, <1>4, <1>6, <1>7 DEF CCIInv, LedgerHolds

LEMMA SaveFailsKeeps ==
    ASSUME CCIInv, SaveFails
    PROVE  CCIInv'
<1>1. CCTypeOK'
  <2>1. faults' \in 0..MaxFaults
    BY ClaimCounterAssumption DEF CCIInv, CCTypeOK, SaveFails
  <2>2. QED
    BY <2>1, PlainEntries DEF CCIInv, CCTypeOK, SaveFails, history
<1>2. Claiming' /\ CopyOfFile' /\ Commanded'
  BY DEF CCIInv, Claiming, CopyOfFile, Commanded, SaveFails
<1>3. QED
  BY <1>1, <1>2, LedgerKept DEF CCIInv, SaveFails
(* The license that is disclosed is the one in the file: if the arming has *)
(* a token already, it is the same.                                        *)
LEMMA DiscloseKeeps ==
    ASSUME CCIInv, Disclose
    PROVE  CCIInv'
<1> DEFINE T == [code : Codes, machine : Machines, exp : Expiries, arming : Nat]
           t0 == Token(request)
<1>1. /\ step = "replying" /\ step' = "idle" /\ request' = NoRequest
      /\ tokens' \subseteq tokens \cup {t0}
      /\ UNCHANGED <<file, vault, before, admin, now, armed, announced, sealed, together, faults>>
  BY DEF Disclose, history
<1>2. /\ request \in [code : Codes, machine : Machines] /\ request.code \in Codes
      /\ vault[request.code] = file[request.code]
      /\ file[request.code].status = "claimed"
      /\ file[request.code].machine = request.machine
      /\ vault = file /\ admin = NoCommand
  <2>1. request.code \in Codes
    BY <1>1 DEF CCIInv, Claiming
  <2>2. vault = file
    BY <1>1, <2>1 DEF CCIInv, Claiming, CCTypeOK, Vaults
  <2>3. QED
    BY <1>1, <2>1, <2>2 DEF CCIInv, Claiming, CopyOfFile
<1>3. file[request.code].exp \in Expiries
  <2>1. file[request.code] \in Entries
    BY <1>2 DEF CCIInv, CCTypeOK, Vaults
  <2>2. QED
    BY <2>1 DEF Entries, NoEntry, Unclaimed, Entry, Expiries
<1>4. t0 \in T /\ t0.code = request.code /\ t0.machine = request.machine
      /\ t0.exp = file[request.code].exp /\ t0.arming = armed[request.code]
  BY <1>2, <1>3 DEF Token, CCIInv, CCTypeOK
<1> HIDE DEF t0
<1>5. CCTypeOK'
  BY <1>1, <1>4 DEF CCIInv, CCTypeOK
<1>6. Claiming' /\ CopyOfFile' /\ Commanded'
  BY <1>1, <1>2 DEF CCIInv, Claiming, CopyOfFile, Commanded
<1>7. LedgerKnowsTokens'
  BY <1>1, <1>2, <1>4 DEF CCIInv, LedgerHolds, LedgerKnowsTokens
<1>8. TokensOfArmings'
  BY <1>1, <1>2, <1>4 DEF CCIInv, CCTypeOK, TokensOfArmings
<1>9. OneLicensePerArming'
  <2>1. ASSUME NEW u \in tokens, u.code = t0.code, u.arming = t0.arming PROVE u = t0
    <3>1. u.machine = t0.machine /\ u.exp = t0.exp
      <4>1. u.code = request.code /\ u.arming = armed[u.code]
        BY <2>1, <1>4
      <4>2. LedgerKnowsTokens
        BY DEF CCIInv, LedgerHolds
      <4>3. file[u.code].machine = u.machine /\ file[u.code].exp = u.exp
        BY <4>1, <4>2 DEF LedgerKnowsTokens
      <4>4. QED
        BY <4>1, <4>3, <1>2, <1>4
    <3>2. u \in T
      BY DEF CCIInv, CCTypeOK
    <3>3. QED
      BY <2>1, <3>1, <3>2, <1>4
  <2>2. QED
    BY <2>1, <1>1 DEF CCIInv, LedgerHolds, OneLicensePerArming
<1>10. QED
  BY <1>5, <1>6, <1>7, <1>8, <1>9 DEF CCIInv, LedgerHolds

LEMMA DownKeeps ==
    ASSUME CCIInv, Stop \/ Crash
    PROVE  CCIInv'
<1>1. Down /\ faults' \in 0..MaxFaults /\ step # "down"
  BY ClaimCounterAssumption DEF CCIInv, CCTypeOK, Stop, Crash
<1>2. CCTypeOK'
  BY <1>1, PlainEntries DEF CCIInv, CCTypeOK, Down, history
<1>3. Claiming' /\ CopyOfFile' /\ Commanded'
  BY <1>1 DEF CCIInv, Claiming, CopyOfFile, Commanded, Down
<1>4. QED
  BY <1>1, <1>2, <1>3, LedgerKept DEF CCIInv, Down

(* A command that loads the vault: its entry is a good one, and that of a  *)
(* revocation keeps machine and expiry.                                    *)
LEMMA LoadsKeeps ==
    ASSUME CCIInv, ~together', NEW c \in Codes, NEW e \in Entries,
           NEW op \in {"new", "revoke", "rearm"}, Loads(op, c, e), announced' \subseteq Codes,
           op = "revoke" => /\ e.status = "revoked" /\ e.machine = file[c].machine
                            /\ e.exp = file[c].exp /\ file[c].status # "none"
    PROVE  CCIInv'
<1> DEFINE v == [file EXCEPT ![c] = e]
<1>1. v \in Vaults /\ v[c] = e /\ \A d \in Codes : d # c => v[d] = file[d]
  BY VaultUpdated DEF CCIInv, CCTypeOK
<1>2. step = "down" /\ together' \in BOOLEAN /\ admin' = [op |-> op, code |-> c, vault |-> v]
      /\ UNCHANGED <<file, daemon, now, tokens, armed, sealed, faults>>
  BY DEF Loads, CCIInv, CCTypeOK
<1> HIDE DEF v
<1>3. CCTypeOK'
  BY <1>1, <1>2 DEF CCIInv, CCTypeOK, daemon
<1>4. Claiming' /\ CopyOfFile'
  BY <1>2 DEF CCIInv, Claiming, CopyOfFile, daemon
<1>5. Commanded'
  BY <1>1, <1>2 DEF Commanded
<1>6. QED
  BY <1>2, <1>3, <1>4, <1>5, LedgerKept DEF CCIInv

LEMMA CommandKeeps ==
    ASSUME CCIInv, ~together', NEW c \in Codes, New(c) \/ Revoke(c) \/ Rearm(c)
    PROVE  CCIInv'
<1>1. file[c] \in Entries /\ announced' \subseteq Codes
  BY DEF CCIInv, CCTypeOK, Vaults, New, Revoke, Rearm
<1>2. CASE New(c)
  BY <1>1, <1>2, PlainEntries, LoadsKeeps DEF New
<1>3. CASE Revoke(c)
  <2>1. file[c].status # "none"
    BY <1>1, <1>3 DEF Revoke, Entries, NoEntry, Unclaimed, Entry
  <2>2. Loads("revoke", c, [file[c] EXCEPT !.status = "revoked"]) /\ file[c] # NoEntry
    BY <1>3 DEF Revoke
  <2>3. QED
    BY <1>1, <2>1, <2>2, RevokedEntry, LoadsKeeps
<1>4. CASE Rearm(c)
  BY <1>1, <1>4, PlainEntries, LoadsKeeps DEF Rearm
<1>5. QED
  BY <1>2, <1>3, <1>4

(* A command saves: the tokens of earlier armings are history, and a       *)
(* revocation changes the status alone.                                    *)
LEMMA AdminSavesKeeps ==
    ASSUME CCIInv, AdminSaves
    PROVE  CCIInv'
<1> DEFINE c == admin.code
<1>1. /\ admin # NoCommand /\ step = "down"
      /\ file' = admin.vault /\ admin' = NoCommand
      /\ sealed' \subseteq sealed \cup {c}
      /\ UNCHANGED <<step, vault, before, request, now, tokens, announced, together, faults>>
  BY DEF AdminSaves, daemon, CCIInv, CopyOfFile
<1>2. /\ admin.vault \in Vaults /\ c \in Codes /\ admin.op \in {"new", "revoke", "rearm"}
  BY <1>1 DEF CCIInv, CCTypeOK
<1>3. \A d \in Codes : d # c => file'[d] = file[d]
  BY <1>1 DEF CCIInv, Commanded
<1>4. \A t \in tokens : t.code \in Codes /\ t.arming \in Nat /\ t.arming <= armed[t.code]
  BY DEF CCIInv, CCTypeOK, TokensOfArmings
<1>5. \A d \in Codes : armed[d] \in Nat
  BY DEF CCIInv, CCTypeOK
<1>6. Claiming' /\ CopyOfFile' /\ Commanded'
  BY <1>1 DEF CCIInv, CopyOfFile, Claiming, Commanded
<1>7. CASE admin.op = "revoke"
  <2>1. armed' = armed
    BY <1>7 DEF AdminSaves
  <2>2. file'[c].status = "revoked" /\ file'[c].machine = file[c].machine
        /\ file'[c].exp = file[c].exp
    BY <1>1, <1>7 DEF CCIInv, Commanded
  <2>3. CCTypeOK'
    BY <1>1, <1>2, <2>1 DEF CCIInv, CCTypeOK
  <2>4. TokensOfArmings' /\ OneLicensePerArming'
    BY <1>1, <2>1 DEF CCIInv, TokensOfArmings, LedgerHolds, OneLicensePerArming
  <2>5. LedgerKnowsTokens'
    <3>1. \A d \in Codes : /\ file'[d].machine = file[d].machine /\ file'[d].exp = file[d].exp
                           /\ file'[d].status \in {file[d].status, "revoked"}
      BY <1>3, <2>2
    <3>2. QED
      BY <1>1, <1>4, <2>1, <3>1 DEF CCIInv, LedgerHolds, LedgerKnowsTokens
  <2>6. QED
    BY <1>6, <2>3, <2>4, <2>5 DEF CCIInv, LedgerHolds
<1>8. CASE admin.op # "revoke"
  <2>1. armed' = [armed EXCEPT ![c] = @ + 1]
    BY <1>8 DEF AdminSaves
  <2>2. /\ armed' \in [Codes -> Nat] /\ armed'[c] = armed[c] + 1
        /\ \A d \in Codes : d # c => armed'[d] = armed[d]
    BY <1>2, <2>1 DEF CCIInv, CCTypeOK
  <2>3. CCTypeOK'
    BY <1>1, <1>2, <2>1, <2>2 DEF CCIInv, CCTypeOK
  <2>4. \A t \in tokens : t.arming <= armed'[t.code]
    BY <1>2, <1>4, <1>5, <2>2
  <2>5. \A t \in tokens : t.arming = armed'[t.code] => t.code # c /\ t.arming = armed[t.code]
    BY <1>2, <1>4, <1>5, <2>2
  <2>6. TokensOfArmings' /\ OneLicensePerArming'
    BY <1>1, <2>4 DEF CCIInv, TokensOfArmings, LedgerHolds, OneLicensePerArming
  <2>7. LedgerKnowsTokens'
    BY <1>1, <1>3, <1>4, <2>5 DEF CCIInv, LedgerHolds, LedgerKnowsTokens
  <2>8. QED
    BY <1>6, <2>3, <2>6, <2>7 DEF CCIInv, LedgerHolds
<1>9. QED
  BY <1>7, <1>8

LEMMA AdminFailsKeeps ==
    ASSUME CCIInv, AdminFails
    PROVE  CCIInv'
<1>1. faults' \in 0..MaxFaults
  BY ClaimCounterAssumption DEF CCIInv, CCTypeOK, AdminFails
<1>2. CCTypeOK'
  BY <1>1 DEF CCIInv, CCTypeOK, AdminFails, daemon, history
<1>3. Claiming' /\ CopyOfFile' /\ Commanded'
  BY DEF CCIInv, Claiming, CopyOfFile, Commanded, AdminFails, daemon
<1>4. QED
  BY <1>2, <1>3, LedgerKept DEF CCIInv, AdminFails

LEMMA DayKeeps ==
    ASSUME CCIInv, Day
    PROVE  CCIInv'
<1>1. now' \in 0..MaxNow
  BY ClaimCounterAssumption DEF CCIInv, CCTypeOK, Day
<1>2. CCTypeOK'
  BY <1>1 DEF CCIInv, CCTypeOK, Day, daemon, history
<1>3. Claiming' /\ CopyOfFile' /\ Commanded'
  BY DEF CCIInv, Claiming, CopyOfFile, Commanded, Day, daemon
<1>4. QED
  BY <1>2, <1>3, LedgerKept DEF CCIInv, Day

LEMMA StutterKeeps ==
    ASSUME CCIInv, UNCHANGED CCvars
    PROVE  CCIInv'
<1>1. CCTypeOK'
  BY DEF CCIInv, CCTypeOK, CCvars, daemon, history
<1>2. Claiming' /\ CopyOfFile' /\ Commanded'
  BY DEF CCIInv, Claiming, CopyOfFile, Commanded, CCvars, daemon
<1>3. QED
  BY <1>1, <1>2, LedgerKept DEF CCIInv, CCvars

LEMMA CCNextKeeps ==
    ASSUME CCIInv, ~together', [CCNext]_CCvars
    PROVE  CCIInv'
<1>1. CASE Start                 BY <1>1, StartKeeps
<1>2. CASE Save                  BY <1>2, SaveKeeps
<1>3. CASE SaveFails             BY <1>3, SaveFailsKeeps
<1>4. CASE Disclose              BY <1>4, DiscloseKeeps
<1>5. CASE Stop \/ Crash         BY <1>5, DownKeeps
<1>6. CASE AdminSaves            BY <1>6, AdminSavesKeeps
<1>7. CASE AdminFails            BY <1>7, AdminFailsKeeps
<1>8. CASE Day                   BY <1>8, DayKeeps
<1>9. CASE \E c \in Codes : New(c) \/ Revoke(c) \/ Rearm(c)
  BY <1>9, CommandKeeps
<1>10. CASE \E c \in Codes, m \in Machines : FirstClaim(c, m)
  BY <1>10, FirstClaimKeeps
<1>11. CASE \E c \in Codes, m \in Machines : Reissue(c, m)
  BY <1>11, ReissueKeeps
<1>12. CASE UNCHANGED CCvars       BY <1>12, StutterKeeps
<1>13. QED
  BY <1>1, <1>2, <1>3, <1>4, <1>5, <1>6, <1>7, <1>8, <1>9, <1>10, <1>11, <1>12 DEF CCNext

-----------------------------------------------------------------------------
(* The theorems                                                            *)

(* The invariant holds as long as the vendor and the daemon take turns.    *)
TakingTurns == ~together => CCIInv

LEMMA OnceTogether ==
    ASSUME [CCNext]_CCvars, ~together'
    PROVE  ~together
BY DEF CCNext, CCvars, history, Start, FirstClaim, Reissue, Accept, Save, SaveFails, Disclose,
       Stop, Crash, Down, AdminSaves, AdminFails, Day, New, Revoke, Rearm, Loads

LEMMA CCInvariant == CCSpec => []TakingTurns
<1>1. CCInit => TakingTurns
  BY CCInitIInv DEF TakingTurns
<1>2. ASSUME TakingTurns, [CCNext]_CCvars PROVE TakingTurns'
  <2>1. SUFFICES ASSUME ~together' PROVE CCIInv'
    BY DEF TakingTurns
  <2>2. CCIInv
    BY <1>2, <2>1, OnceTogether DEF TakingTurns
  <2>3. QED
    BY <1>2, <2>1, <2>2, CCNextKeeps
<1>3. QED
  BY <1>1, <1>2, PTL DEF CCSpec

(* One license per arming of a code and none that the vault does not know, *)
(* whatever fails between the flip, the save and the token (`handle_claim`),*)
(* for a vendor who stops the daemon for every command.                    *)
THEOREM TokensAlwaysMatchLedger == CCSpec => []TokensMatchLedger
<1>1. TakingTurns => TokensMatchLedger
  BY DEF TakingTurns, CCIInv, LedgerHolds, TokensMatchLedger
<1>2. QED
  BY <1>1, CCInvariant, PTL

-----------------------------------------------------------------------------
(* What holds also when the vendor works beside the running counter        *)

(* A request that is being answered has a code and a machine, and what a   *)
(* revocation will save is revoked.                                        *)
Underway ==
    /\ step \in {"saving", "replying"} => request \in [code : Codes, machine : Machines]
    /\ admin # NoCommand /\ admin.op = "revoke" => admin.vault[admin.code].status = "revoked"

(* A sealed revocation is in the file and in every copy that may be saved  *)
(* over it, but for a command that is about to arm the code again.         *)
SealedEverywhere ==
    \A c \in sealed :
        /\ file[c].status = "revoked"
        /\ step # "down" => vault[c].status = "revoked"
        /\ step = "saving" => before[c].status = "revoked"
        /\ admin # NoCommand /\ admin.code # c => admin.vault[c].status = "revoked"

SealIInv == CCTypeOK /\ Underway /\ SealedEverywhere

LEMMA SealInit == CCInit => SealIInv
BY CCInitIInv DEF SealIInv, CCIInv, CCInit, Underway, SealedEverywhere

LEMMA DaemonSeals ==
    ASSUME SealIInv, Start \/ Save \/ SaveFails \/ Stop \/ Crash
    PROVE  SealIInv'
<1>1. faults' \in 0..MaxFaults
  BY ClaimCounterAssumption
     DEF SealIInv, CCTypeOK, Start, Save, SaveFails, Stop, Crash, Down
<1>2. CCTypeOK'
  BY <1>1, PlainEntries
     DEF SealIInv, CCTypeOK, Start, Save, SaveFails, Stop, Crash, Down, history
<1>3. Underway'
  BY DEF SealIInv, Underway, Start, Save, SaveFails, Stop, Crash, Down
<1>4. SealedEverywhere'
  BY DEF SealIInv, SealedEverywhere, Start, Save, SaveFails, Stop, Crash, Down, history
<1>5. QED
  BY <1>2, <1>3, <1>4 DEF SealIInv

LEMMA ClaimSeals ==
    ASSUME SealIInv, NEW c \in Codes, NEW m \in Machines, FirstClaim(c, m) \/ Reissue(c, m)
    PROVE  SealIInv' /\ c \notin sealed /\ request'.code = c
<1>1. /\ step = "idle" /\ step' = "saving" /\ before' = vault
      /\ request' = [code |-> c, machine |-> m]
      /\ UNCHANGED <<file, admin, now, tokens, armed, announced, sealed, together, faults>>
      /\ vault[c].status # "revoked"
  BY DEF FirstClaim, Reissue, Accept, history
<1>2. vault' \in Vaults /\ \A d \in Codes : d # c => vault'[d] = vault[d]
  <2>1. CASE FirstClaim(c, m)
    <3> DEFINE e == Entry("claimed", m, Expiry(c))
    <3>1. e \in Entries
      BY ClaimedEntry, ExpiryTyped DEF SealIInv
    <3>2. vault' = [vault EXCEPT ![c] = e]
      BY <2>1 DEF FirstClaim
    <3> HIDE DEF e
    <3>3. /\ [vault EXCEPT ![c] = e] \in Vaults
          /\ \A d \in Codes : d # c => [vault EXCEPT ![c] = e][d] = vault[d]
      BY <3>1, VaultUpdated DEF SealIInv, CCTypeOK
    <3>4. QED
      BY <3>2, <3>3
  <2>2. CASE Reissue(c, m)
    BY <2>2 DEF Reissue, SealIInv, CCTypeOK
  <2>3. QED
    BY <2>1, <2>2
<1>3. c \notin sealed /\ sealed \subseteq Codes
  BY <1>1 DEF SealIInv, SealedEverywhere, CCTypeOK
<1>4. CCTypeOK'
  BY <1>1, <1>2 DEF SealIInv, CCTypeOK
<1>5. Underway'
  BY <1>1 DEF SealIInv, Underway
<1>6. SealedEverywhere'
  BY <1>1, <1>2, <1>3 DEF SealIInv, SealedEverywhere
<1>7. QED
  BY <1>1, <1>3, <1>4, <1>5, <1>6 DEF SealIInv

LEMMA DiscloseSeals ==
    ASSUME SealIInv, Disclose
    PROVE  SealIInv'
<1> DEFINE t0 == Token(request)
<1>1. /\ step = "replying" /\ step' = "idle" /\ request' = NoRequest
      /\ tokens' \subseteq tokens \cup {t0}
      /\ UNCHANGED <<file, vault, before, admin, now, armed, announced, sealed, together, faults>>
  BY DEF Disclose, history
<1>2. request \in [code : Codes, machine : Machines] /\ vault[request.code] \in Entries
  BY <1>1 DEF SealIInv, Underway, CCTypeOK, Vaults
<1>3. vault[request.code].exp \in Expiries
  BY <1>2 DEF Entries, NoEntry, Unclaimed, Entry, Expiries
<1>4. t0 \in [code : Codes, machine : Machines, exp : Expiries, arming : Nat]
  BY <1>2, <1>3 DEF Token, SealIInv, CCTypeOK
<1> HIDE DEF t0
<1>5. CCTypeOK'
  BY <1>1, <1>4 DEF SealIInv, CCTypeOK
<1>6. Underway' /\ SealedEverywhere'
  BY <1>1 DEF SealIInv, Underway, SealedEverywhere
<1>7. QED
  BY <1>5, <1>6 DEF SealIInv

LEMMA LoadsSeals ==
    ASSUME SealIInv, NEW c \in Codes, NEW e \in Entries,
           NEW op \in {"new", "revoke", "rearm"}, Loads(op, c, e), announced' \subseteq Codes,
           op = "revoke" => e.status = "revoked"
    PROVE  SealIInv'
<1> DEFINE v == [file EXCEPT ![c] = e]
<1>1. v \in Vaults /\ v[c] = e /\ \A d \in Codes : d # c => v[d] = file[d]
  BY VaultUpdated DEF SealIInv, CCTypeOK
<1>2. together' \in BOOLEAN /\ admin' = [op |-> op, code |-> c, vault |-> v]
      /\ UNCHANGED <<file, step, vault, before, request, now, tokens, armed, sealed, faults>>
  BY DEF Loads, daemon, SealIInv, CCTypeOK
<1> HIDE DEF v
<1>3. CCTypeOK'
  BY <1>1, <1>2 DEF SealIInv, CCTypeOK
<1>4. Underway'
  BY <1>1, <1>2 DEF SealIInv, Underway
<1>5. SealedEverywhere'
  BY <1>1, <1>2 DEF SealIInv, SealedEverywhere, CCTypeOK
<1>6. QED
  BY <1>3, <1>4, <1>5 DEF SealIInv

LEMMA CommandSeals ==
    ASSUME SealIInv, NEW c \in Codes, New(c) \/ Revoke(c) \/ Rearm(c)
    PROVE  SealIInv'
<1>1. file[c] \in Entries /\ announced' \subseteq Codes
  BY DEF SealIInv, CCTypeOK, Vaults, New, Revoke, Rearm
<1>2. CASE New(c)
  BY <1>1, <1>2, PlainEntries, LoadsSeals DEF New
<1>3. CASE Revoke(c)
  <2>1. file[c].status # "none"
    BY <1>1, <1>3 DEF Revoke, Entries, NoEntry, Unclaimed, Entry
  <2>2. Loads("revoke", c, [file[c] EXCEPT !.status = "revoked"]) /\ file[c] # NoEntry
    BY <1>3 DEF Revoke
  <2>3. QED
    BY <1>1, <2>1, <2>2, RevokedEntry, LoadsSeals
<1>4. CASE Rearm(c)
  BY <1>1, <1>4, PlainEntries, LoadsSeals DEF Rearm
<1>5. QED
  BY <1>2, <1>3, <1>4

(* The save of a command writes a whole vault: what is sealed is revoked   *)
(* in it, unless this command arms the code again.                         *)
LEMMA AdminSavesSeals ==
    ASSUME SealIInv, AdminSaves
    PROVE  SealIInv'
<1> DEFINE c == admin.code
<1>1. /\ admin # NoCommand /\ file' = admin.vault /\ admin' = NoCommand
      /\ UNCHANGED <<step, vault, before, request, now, tokens, announced, together, faults>>
  BY DEF AdminSaves, daemon
<1>2. /\ admin.vault \in Vaults /\ c \in Codes /\ admin.op \in {"new", "revoke", "rearm"}
  BY <1>1 DEF SealIInv, CCTypeOK
<1>3. sealed' = IF admin.op # "revoke" THEN sealed \ {c}
                ELSE IF step = "down" THEN sealed \cup {c} ELSE sealed
  BY DEF AdminSaves
<1>4. armed' \in [Codes -> Nat]
  BY <1>2 DEF AdminSaves, SealIInv, CCTypeOK
<1>5. CCTypeOK'
  BY <1>1, <1>2, <1>3, <1>4 DEF SealIInv, CCTypeOK
<1>6. Underway'
  BY <1>1 DEF SealIInv, Underway
<1>7. ASSUME NEW d \in sealed' PROVE admin.vault[d].status = "revoked"
  <2>1. CASE d # c
    BY <1>1, <1>3, <2>1 DEF SealIInv, SealedEverywhere
  <2>2. CASE d = c
    BY <1>1, <1>3, <2>2 DEF SealIInv, Underway
  <2>3. QED
    BY <2>1, <2>2
<1>8. \A d \in sealed' : d \in sealed \/ step = "down"
  BY <1>3
<1>9. SealedEverywhere'
  BY <1>1, <1>7, <1>8 DEF SealIInv, SealedEverywhere
<1>10. QED
  BY <1>5, <1>6, <1>9 DEF SealIInv

LEMMA RestSeals ==
    ASSUME SealIInv, AdminFails \/ Day \/ UNCHANGED CCvars
    PROVE  SealIInv'
<1>1. faults' \in 0..MaxFaults /\ now' \in 0..MaxNow
  BY ClaimCounterAssumption DEF SealIInv, CCTypeOK, AdminFails, Day, CCvars
<1>2. CCTypeOK'
  BY <1>1 DEF SealIInv, CCTypeOK, AdminFails, Day, CCvars, daemon, history
<1>3. Underway' /\ SealedEverywhere'
  BY DEF SealIInv, Underway, SealedEverywhere, AdminFails, Day, CCvars, daemon, history
<1>4. QED
  BY <1>2, <1>3 DEF SealIInv

LEMMA SealKeeps ==
    ASSUME SealIInv, [CCNext]_CCvars
    PROVE  SealIInv'
<1>1. CASE Start \/ Save \/ SaveFails \/ Stop \/ Crash     BY <1>1, DaemonSeals
<1>2. CASE Disclose                                      BY <1>2, DiscloseSeals
<1>3. CASE AdminSaves                                    BY <1>3, AdminSavesSeals
<1>4. CASE AdminFails \/ Day \/ UNCHANGED CCvars         BY <1>4, RestSeals
<1>5. CASE \E c \in Codes : New(c) \/ Revoke(c) \/ Rearm(c)
  BY <1>5, CommandSeals
<1>6. CASE \E c \in Codes, m \in Machines : FirstClaim(c, m) \/ Reissue(c, m)
  BY <1>6, ClaimSeals
<1>7. QED
  BY <1>1, <1>2, <1>3, <1>4, <1>5, <1>6 DEF CCNext

LEMMA SealInvariant == CCSpec => []SealIInv
<1>1. SealIInv /\ [CCNext]_CCvars => SealIInv'
  BY SealKeeps
<1>2. QED
  BY <1>1, SealInit, PTL DEF CCSpec

(* The vault, the daemon's copies, the command's and the tokens are well   *)
(* formed, whoever works on the vault when.                                *)
THEOREM CounterAlwaysTyped == CCSpec => []CCTypeOK
<1>1. SealIInv => CCTypeOK
  BY DEF SealIInv
<1>2. QED
  BY <1>1, SealInvariant, PTL

(* A revocation that was saved while no counter served is kept by every    *)
(* later save, the daemon's and the commands', and no claim of the code is *)
(* accepted (`Vault::claim`, `cmd_flip`, `save_or_die`).                   *)
THEOREM SealedAlwaysRefused == CCSpec => SealedIsRefused
<1> DEFINE Refuses == \A c \in sealed : request # request' =>
                          ~(request' # NoRequest /\ request'.code = c)
<1>1. ASSUME SealIInv, CCNext PROVE Refuses
  <2>1. CASE \E c \in Codes, m \in Machines : FirstClaim(c, m) \/ Reissue(c, m)
    BY <2>1, <1>1, ClaimSeals
  <2>2. CASE request' \in {request, NoRequest}
    BY <2>2
  <2>3. QED
    BY <2>1, <2>2, <1>1
       DEF CCNext, Start, Save, SaveFails, Disclose, Stop, Crash, Down, AdminSaves, AdminFails,
           Day, New, Revoke, Rearm, Loads, daemon
<1>2. SealIInv /\ [CCNext]_CCvars => [Refuses]_CCvars
  BY <1>1
<1>3. QED
  BY <1>2, SealInvariant, PTL DEF CCSpec, SealedIsRefused
=============================================================================
