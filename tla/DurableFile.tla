----------------------------- MODULE DurableFile -----------------------------
(***************************************************************************)
(* `write_durable` of util.rs, system call by system call: create the      *)
(* directory and a temporary sibling named after the process id, write it, *)
(* fsync it, rename it over the path, fsync the directory.  Every snapshot,*)
(* sidecar, husk segment, key file and cache of CCOS is written with it,   *)
(* and it is what makes a file write one step in the other modules.        *)
(*                                                                         *)
(* Calls overlap (threads, processes), any system call may fail, processes *)
(* die and their ids are used again, and a power loss keeps, of what was   *)
(* not synchronized, whatever part the file system had written back.       *)
(***************************************************************************)
EXTENDS Naturals, FiniteSets

CONSTANTS Calls,        \* concurrent calls
          Pids, PidOf,  \* the process that makes each call
          Contents,     \* what is written
          NoFile,
          MaxRenames    \* bound: renames

ASSUME DurableFileAssumption ==
    /\ PidOf \in [Calls -> Pids]
    /\ NoFile \notin Contents
    /\ MaxRenames \in Nat

VARIABLES pc,       \* the next system call of each call
          val,      \* what it writes
          mark,     \* history: the number of its rename
          tmp,      \* the temporary sibling of each process
          entry,    \* what the path names: a file, or NoFile
          old,      \* what its directory entry may name after a power loss
          dir,      \* the directory: absent, made, or durable
          renames,  \* history: number of renames
          floor     \* history: the latest rename whose call returned Ok,
                    \* its directory durable and synchronized

vars == <<pc, val, mark, tmp, entry, old, dir, renames, floor>>

-----------------------------------------------------------------------------
(* Files: whose contents, how much of them, whether synchronized, and the  *)
(* number of the rename that gave them the path.                           *)

Absent == [of |-> NoFile, extent |-> "whole", synced |-> TRUE, at |-> 0]

File(c, extent) == [of |-> c, extent |-> extent, synced |-> FALSE, at |-> 0]

Whole(f) == f.extent = "whole" /\ f.synced

(* What a power loss may leave of a file.                                  *)
Remains(f) ==
    IF f.synced THEN {f}
    ELSE {[f EXCEPT !.extent = x, !.synced = TRUE] : x \in {"empty", "part", f.extent}}

Tmp(w) == tmp[PidOf[w]]

-----------------------------------------------------------------------------
Init ==
    /\ pc = [w \in Calls |-> "idle"]
    /\ val = [w \in Calls |-> NoFile]
    /\ mark = [w \in Calls |-> 0]
    /\ tmp = [p \in Pids |-> Absent]
    /\ entry = Absent /\ old = {Absent}
    /\ dir \in {"absent", "durable"}
    /\ renames = 0 /\ floor = 0

Goto(w, next) == pc' = [pc EXCEPT ![w] = next]

(* The calls in `ws` are over; their locals are gone.                      *)
Over(ws) ==
    /\ pc' = [w \in Calls |-> IF w \in ws THEN "idle" ELSE pc[w]]
    /\ val' = [w \in Calls |-> IF w \in ws THEN NoFile ELSE val[w]]
    /\ mark' = [w \in Calls |-> IF w \in ws THEN 0 ELSE mark[w]]

Call(w, c) ==
    /\ pc[w] = "idle"
    /\ Goto(w, "mkdir") /\ val' = [val EXCEPT ![w] = c]
    /\ UNCHANGED <<mark, tmp, entry, old, dir, renames, floor>>

(* `create_dir_all`                                                        *)
MakeDir(w) ==
    /\ pc[w] = "mkdir"
    /\ Goto(w, "create")
    /\ dir' = IF dir = "absent" THEN "made" ELSE dir
    /\ UNCHANGED <<val, mark, tmp, entry, old, renames, floor>>

(* Faulty variant: without `create_new`, a sibling that is there is cut.   *)
CreateTruncates(w) ==
    /\ pc[w] = "create"
    /\ Goto(w, "write")
    /\ tmp' = [tmp EXCEPT ![PidOf[w]] = File(val[w], "empty")]
    /\ UNCHANGED <<val, mark, entry, old, dir, renames, floor>>

(* `create_new`                                                            *)
Create(w) ==
    /\ pc[w] = "create" /\ Tmp(w) = Absent
    /\ Goto(w, "write")
    /\ tmp' = [tmp EXCEPT ![PidOf[w]] = File(val[w], "empty")]
    /\ UNCHANGED <<val, mark, entry, old, dir, renames, floor>>

(* AlreadyExists                                                           *)
CreateRefused(w) ==
    /\ pc[w] = "create" /\ Tmp(w) # Absent
    /\ Over({w})
    /\ UNCHANGED <<tmp, entry, old, dir, renames, floor>>

(* `write_all`, in several writes.                                         *)
WritePart(w) ==
    /\ pc[w] = "write" /\ Tmp(w).extent = "empty"
    /\ tmp' = [tmp EXCEPT ![PidOf[w]] = File(val[w], "part")]
    /\ UNCHANGED <<pc, val, mark, entry, old, dir, renames, floor>>

(* Faulty variant: `write`, once, in place of `write_all`.                 *)
WriteOnce(w) ==
    /\ pc[w] = "write" /\ Tmp(w).extent = "part"
    /\ Goto(w, "sync")
    /\ UNCHANGED <<val, mark, tmp, entry, old, dir, renames, floor>>

WriteAll(w) ==
    /\ pc[w] = "write" /\ Tmp(w).extent = "part"
    /\ Goto(w, "sync")
    /\ tmp' = [tmp EXCEPT ![PidOf[w]] = File(val[w], "whole")]
    /\ UNCHANGED <<val, mark, entry, old, dir, renames, floor>>

SyncAll(w) ==
    /\ pc[w] = "sync"
    /\ Goto(w, "rename")
    /\ tmp' = [tmp EXCEPT ![PidOf[w]].synced = TRUE]
    /\ UNCHANGED <<val, mark, entry, old, dir, renames, floor>>

Rename(w) ==
    /\ pc[w] = "rename" /\ renames < MaxRenames
    /\ Goto(w, "syncdir")
    /\ LET f == [Tmp(w) EXCEPT !.at = renames + 1] IN
          /\ entry' = f
          /\ old' = old \cup {f}
    /\ tmp' = [tmp EXCEPT ![PidOf[w]] = Absent]
    /\ renames' = renames + 1
    /\ mark' = [mark EXCEPT ![w] = renames + 1]
    /\ UNCHANGED <<val, dir, floor>>

(* The call returns Ok; `synced`: its rename reached the disk for sure.    *)
Returned(w, synced) ==
    /\ Over({w})
    /\ floor' = IF synced /\ floor < mark[w] THEN mark[w] ELSE floor
    /\ UNCHANGED <<tmp, entry, dir, renames>>

(* Faulty variant: the directory is never synchronized.                    *)
SyncDirOmitted(w) ==
    pc[w] = "syncdir" /\ old' = old /\ Returned(w, dir = "durable")

(* The best-effort fsync of the directory, and Ok.  It does not make the   *)
(* entry of the directory itself durable.                                  *)
SyncDir(w) ==
    pc[w] = "syncdir" /\ old' = {entry} /\ Returned(w, dir = "durable")

(* The directory cannot be opened or synchronized: Ok all the same.        *)
DirNotSynced(w) == pc[w] = "syncdir" /\ old' = old /\ Returned(w, FALSE)

(* A system call before the rename, or the rename, returns an error.       *)
Fails(w) ==
    /\ pc[w] \in {"mkdir", "create", "write", "sync", "rename"}
    /\ Over({w})
    /\ UNCHANGED <<tmp, entry, old, dir, renames, floor>>

-----------------------------------------------------------------------------
(* The environment                                                         *)

(* A process dies; a later one may get its id.                             *)
Die(p) ==
    /\ \E w \in Calls : PidOf[w] = p /\ pc[w] # "idle"
    /\ Over({w \in Calls : PidOf[w] = p})
    /\ UNCHANGED <<tmp, entry, old, dir, renames, floor>>

(* The file system writes its metadata back in its own time.               *)
Writeback ==
    /\ old' = {entry} /\ dir' = IF dir = "made" THEN "durable" ELSE dir
    /\ UNCHANGED <<pc, val, mark, tmp, entry, renames, floor>>

PowerLossWith(kept, f, d) ==
    /\ Over(Calls)
    /\ tmp' = kept /\ entry' = f /\ old' = {f} /\ dir' = d
    /\ UNCHANGED <<renames, floor>>

(* The directory survives, with one of the files its entry named, and with *)
(* or without each temporary file.                                         *)
PowerLoss ==
    /\ dir # "absent"
    /\ \E f \in UNION {Remains(g) : g \in old} :
       \E kept \in [Pids -> (UNION {Remains(tmp[p]) : p \in Pids}) \cup {Absent}] :
          /\ \A p \in Pids : kept[p] \in Remains(tmp[p]) \cup {Absent}
          /\ PowerLossWith(kept, f, "durable")

(* A directory that was made, and whose own entry nothing synchronized, is *)
(* lost with all it holds.                                                 *)
DirectoryLoss ==
    /\ dir = "made"
    /\ PowerLossWith([p \in Pids |-> Absent], Absent, "absent")

Next ==
    \/ \E w \in Calls :
          \/ \E c \in Contents : Call(w, c)
          \/ MakeDir(w) \/ Create(w) \/ CreateRefused(w)
          \/ WritePart(w) \/ WriteAll(w) \/ SyncAll(w) \/ Rename(w)
          \/ SyncDir(w) \/ DirNotSynced(w) \/ Fails(w)
    \/ \E p \in Pids : Die(p)
    \/ Writeback \/ PowerLoss \/ DirectoryLoss

Spec == Init /\ [][Next]_vars
-----------------------------------------------------------------------------
(* Properties                                                              *)

Writing == {"write", "sync", "rename"}

Extents == {"empty", "part", "whole"}

Files == [of : Contents \cup {NoFile}, extent : Extents, synced : BOOLEAN, at : Nat]

IsFile(f) ==
    /\ f \in Files
    /\ f.of = NoFile => f = Absent

(* Every variable has its type.  A call that writes has the temporary file *)
(* of its process to itself, and it is as complete as its step says.       *)
TypeOK ==
    /\ pc \in [Calls -> Writing \cup {"idle", "mkdir", "create", "syncdir"}]
    /\ val \in [Calls -> Contents \cup {NoFile}]
    /\ \A w \in Calls : pc[w] = "idle" <=> val[w] = NoFile
    /\ mark \in [Calls -> Nat]
    /\ tmp \in [Pids -> Files]
    /\ \A p \in Pids : IsFile(tmp[p]) /\ tmp[p].at = 0
    /\ IsFile(entry) /\ entry \in old /\ \A f \in old : IsFile(f)
    /\ dir \in {"absent", "made", "durable"}
    /\ renames \in 0 .. MaxRenames /\ floor \in Nat
    /\ \A w \in Calls : pc[w] \in Writing =>
          /\ Tmp(w).of = val[w] /\ val[w] \in Contents
          /\ pc[w] # "write" => Tmp(w).extent = "whole"
          /\ pc[w] = "rename" => Tmp(w).synced
          /\ \A v \in Calls : pc[v] \in Writing /\ PidOf[v] = PidOf[w] => v = w

(* "`path` is never left half-written": whatever call fails or dies, and   *)
(* whatever a power loss keeps, the path names the whole contents of one   *)
(* call, or nothing.                                                       *)
NeverHalfWritten == \A f \in old \cup {entry} : Whole(f)

(* "After this returns the data has reached stable storage": what a call   *)
(* that returned Ok wrote is never replaced by something older, provided   *)
(* that the directory was durable and let itself be synchronized.  (The    *)
(* code returns Ok without either.)                                        *)
AckedSurvives == \A f \in old \cup {entry} : floor <= f.at

(* The other modules take a write for one step; this is why they may.      *)
Torn == [torn |-> TRUE]

ContentsOf(f) == IF Whole(f) THEN f.of ELSE Torn

Shown   == ContentsOf(entry)
Lasting == {ContentsOf(f) : f \in old} \cup (IF dir = "made" THEN {NoFile} ELSE {})

Promise == INSTANCE AtomicFile WITH shown <- Shown, lasting <- Lasting

ImplementsAtomicFile == Promise!Spec
=============================================================================
