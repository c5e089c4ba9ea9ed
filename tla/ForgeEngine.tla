---------------------------- MODULE ForgeEngine ----------------------------
(***************************************************************************)
(* A Forge campaign (evolve.rs, Engine::run): generations of evaluation,   *)
(* archiving, checkpoint and reproduction, over process deaths and resumes *)
(* from the checkpoint.  A generation's evaluation is one step here, as    *)
(* module Evaluation promises and WorkerPool implements it; no cache, as   *)
(* in the engines of src/bin and after a resume.  The checkpoint is one    *)
(* file of the registry, replaced atomically, so that a commit happens or  *)
(* does not.  `forge_checkpoint.json` is never read back and is left out.  *)
(* Who starts the next process, and whether anyone does, is outside: the   *)
(* command line shows a checkpoint and leaves `resume_from_state` to the   *)
(* reader's code.                                                          *)
(***************************************************************************)
EXTENDS ParetoArchive

CONSTANTS Ids,              \* contents of candidates
          Objectives,       \* pairs that an evaluation may measure
          Population, Survivors, Generations,
          Invalid, NoState,
          MaxCrashes        \* bound: deaths of the process

ASSUME ForgeEngineAssumption ==
    /\ Population \in Nat /\ Survivors \in Nat /\ Generations \in Nat
    /\ MaxCrashes \in Nat
    /\ Objectives \subseteq Nat \X Nat
    /\ Invalid \notin Objectives

VARIABLES phase,    \* where `run` is; "down" between two processes
          gen,      \* the generation
          pop,      \* its candidates
          archive,  \* elites: [id, gen, obj]
          history,  \* the learning curve, an entry for each generation
          disk,     \* the checkpoint in the registry, or NoState
          crashes

vars == <<phase, gen, pop, archive, history, disk, crashes>>

Populations(n) == [1..n -> Ids]

Larger(a, b) == IF a > b THEN a ELSE b

(* `while len < population`: survivors first, then children of any content.*)
Completed(elites) ==
    {elites \o rest : rest \in Populations(Larger(Population, Len(elites)) - Len(elites))}

EngineState == [gen |-> gen + 1, pop |-> pop, archive |-> archive, history |-> history]

-----------------------------------------------------------------------------
Loop(g) == IF g < Generations THEN "evaluate" ELSE "report"

Init ==
    /\ phase = Loop(0) /\ gen = 0
    /\ pop \in Populations(Population)
    /\ archive = <<>> /\ history = <<>>
    /\ disk = NoState /\ crashes = 0

(* The valid individuals, in the order of the population.                  *)
Found(scores) ==
    LET order == Ascending({k \in DOMAIN pop : scores[k] # Invalid})
    IN [n \in DOMAIN order |->
            [id |-> pop[order[n]], gen |-> gen, obj |-> scores[order[n]]]]

(* The best objective of a generation, f64::INFINITY when none is valid.   *)
Best(found) == IF found = <<>> THEN "infinite" ELSE "finite"

(* Verdicts for all, the baseline, the archive and the learning curve.     *)
Evaluate ==
    /\ phase = "evaluate"
    /\ \E scores \in [DOMAIN pop -> Objectives \cup {Invalid}] :
          /\ archive' = Archived(archive, Found(scores), Survivors)
          /\ history' = Append(history, Best(Found(scores)))
    /\ phase' = "commit"
    /\ UNCHANGED <<gen, pop, disk, crashes>>

(* The baseline fails: `run` returns the error.                            *)
BaselineFails ==
    /\ phase = "evaluate"
    /\ phase' = "error"
    /\ UNCHANGED <<gen, pop, archive, history, disk, crashes>>

(* `commit_to_sled`, with the population that was evaluated.               *)
Commit ==
    /\ phase = "commit"
    /\ disk' = EngineState
    /\ phase' = "reproduce"
    /\ UNCHANGED <<gen, pop, archive, history, crashes>>

(* The commit fails and its error is dropped.                              *)
CommitFails ==
    /\ phase = "commit"
    /\ phase' = "reproduce"
    /\ UNCHANGED <<gen, pop, archive, history, disk, crashes>>

(* Faulty variant: the next population is made of children alone.          *)
ReproduceChildrenOnly ==
    /\ phase = "reproduce"
    /\ pop' \in Populations(Population)
    /\ gen' = gen + 1
    /\ phase' = Loop(gen + 1)
    /\ UNCHANGED <<archive, history, disk, crashes>>

(* All elites and their children, or fresh seeds when there is no elite.   *)
Reproduce ==
    /\ phase = "reproduce"
    /\ pop' \in Completed([k \in DOMAIN archive |-> archive[k].id])
    /\ gen' = gen + 1
    /\ phase' = Loop(gen + 1)
    /\ UNCHANGED <<archive, history, disk, crashes>>

(* A mutation fails: `run` returns the error.                              *)
MutationFails ==
    /\ phase = "reproduce"
    /\ Len(archive) \in 1..Population - 1
    /\ phase' = "error"
    /\ UNCHANGED <<gen, pop, archive, history, disk, crashes>>

(* The evaluation of the best on the holdout fails: again the error.       *)
HoldoutFails ==
    /\ phase = "report" /\ archive # <<>>
    /\ phase' = "error"
    /\ UNCHANGED <<gen, pop, archive, history, disk, crashes>>

(* The holdout, and the report; `best` is the first of the archive.        *)
Report ==
    /\ phase = "report"
    /\ phase' = "reported"
    /\ UNCHANGED <<gen, pop, archive, history, disk, crashes>>

Crash ==
    /\ phase \notin {"down", "reported"} /\ crashes < MaxCrashes
    /\ phase' = "down" /\ crashes' = crashes + 1
    /\ UNCHANGED <<gen, pop, archive, history, disk>>

(* serde_json writes an infinite entry as null and reads no number back.   *)
Loadable(state) == "infinite" \notin Members(state.history)

(* Faulty variant: the archive is not restored.                            *)
ResumeWithoutArchive ==
    /\ phase = "down" /\ disk # NoState /\ Loadable(disk)
    /\ gen' = disk.gen /\ archive' = <<>> /\ history' = disk.history
    /\ pop' \in Completed(disk.pop)
    /\ phase' = Loop(gen')
    /\ UNCHANGED <<disk, crashes>>

(* Faulty variant: the learning curve is not restored.                     *)
ResumeWithoutHistory ==
    /\ phase = "down" /\ disk # NoState /\ Loadable(disk)
    /\ gen' = disk.gen /\ archive' = disk.archive /\ history' = <<>>
    /\ pop' \in Completed(disk.pop)
    /\ phase' = Loop(gen')
    /\ UNCHANGED <<disk, crashes>>

(* A new process on what was saved: `resume_from_state`.                   *)
Resume ==
    /\ phase = "down" /\ disk # NoState /\ Loadable(disk)
    /\ gen' = disk.gen /\ archive' = disk.archive /\ history' = disk.history
    /\ pop' \in Completed(disk.pop)
    /\ phase' = Loop(gen')
    /\ UNCHANGED <<disk, crashes>>

(* `load_from_sled` returns an error, now and ever after.                  *)
LoadFails ==
    /\ phase = "down" /\ disk # NoState /\ ~Loadable(disk)
    /\ phase' = "error"
    /\ UNCHANGED <<gen, pop, archive, history, disk, crashes>>

(* A new process when nothing was saved: `new`, once more.                 *)
Restart ==
    /\ phase = "down" /\ disk = NoState
    /\ gen' = 0 /\ archive' = <<>> /\ history' = <<>>
    /\ pop' \in Populations(Population)
    /\ phase' = Loop(0)
    /\ UNCHANGED <<disk, crashes>>

Next ==
    \/ Evaluate \/ BaselineFails \/ Commit \/ CommitFails
    \/ Reproduce \/ MutationFails \/ HoldoutFails \/ Report
    \/ Crash \/ Resume \/ LoadFails \/ Restart

Spec == Init /\ [][Next]_vars

-----------------------------------------------------------------------------
Elites == [id : Ids, gen : 0..Generations, obj : Objectives]

Entries == {"finite", "infinite"}

IdsOf(s) == {s[k].id : k \in DOMAIN s}

Phases == {"evaluate", "commit", "reproduce", "report", "reported", "error", "down"}

(* Type invariant of the campaign and its checkpoint.                      *)
TypeOK ==
    /\ phase \in Phases /\ gen \in 0..Generations
    /\ pop \in Seq(Ids) /\ Len(pop) >= Population
    /\ archive \in Seq(Elites) /\ Len(archive) <= Larger(Survivors, 1)
    /\ history \in Seq(Entries) /\ crashes \in 0..MaxCrashes
    /\ disk # NoState =>
          /\ disk.gen \in 0..Generations /\ disk.pop \in Seq(Ids)
          /\ disk.archive \in Seq(Elites) /\ disk.history \in Seq(Entries)

(* An elite stays in the population, and is evaluated again, as long as it *)
(* is in the archive; also over a crash, although the checkpoint pairs the *)
(* archive with the population of the generation before.                   *)
ElitesAreReevaluated ==
    phase = "evaluate" => IdsOf(archive) \subseteq Members(pop)

(* No individual comes before one that dominates it, and no content twice. *)
ArchiveRanked ==
    \A i, j \in DOMAIN archive : i < j =>
        /\ ~Dominates(archive[j], archive[i])
        /\ archive[i].id # archive[j].id

(* A generation is never a step back: the best that the registry records   *)
(* after it is not dominated by any elite it held before, over any number  *)
(* of deaths and resumes.  Only when the commits of generations in between *)
(* were lost may an elite that the archive cut meanwhile dominate it.      *)
CheckpointNeverRegresses ==
    [][disk # NoState /\ disk.archive # <<>> /\ disk'.gen <= disk.gen + 1 =>
          /\ disk'.archive # <<>>
          /\ \A e \in Members(disk.archive) : ~Dominates(e, disk'.archive[1])]_disk

(* The learning curve has one entry for each generation that was run: in   *)
(* the memory of whichever process runs the next one and in the checkpoint,*)
(* over deaths, resumes and generations whose commit was lost.             *)
CurveIsPerGeneration ==
    /\ phase = "evaluate" => Len(history) = gen
    /\ disk # NoState => Len(disk.history) = disk.gen

-----------------------------------------------------------------------------
(* Statements of the comments that the code does not keep                  *)

(* What is committed can be loaded again, as `EngineState` ("pour           *)
(* checkpointing et reprise sur crash") promises.                          *)
CheckpointLoads == disk # NoState => Loadable(disk)

=============================================================================
