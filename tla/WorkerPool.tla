----------------------------- MODULE WorkerPool -----------------------------
(***************************************************************************)
(* Distributed evaluation in Forge (evolve.rs): the rayon threads of the   *)
(* master lease the least loaded worker of a pool, call it, release it,    *)
(* retry after an error and in the end evaluate locally.  The pool is a    *)
(* row of atomics: every load, store and fetch below is a step of its own. *)
(* With it the two stores that the threads share: the evaluation cache     *)
(* (cache.rs) and the registry of candidates (registry.rs).                *)
(*                                                                         *)
(* Each pair of atomics is read in program order (`failed`, then the load) *)
(* and used for nothing but a choice, so that what Relaxed allows beyond   *)
(* interleaving gives no new choice.  Addresses are distinct.  The failure *)
(* sink only collects messages and is left out.  A worker's reply names    *)
(* the candidate it was sent (forge-worker, main.rs), so the record's key  *)
(* is the candidate of the thread.                                         *)
(*                                                                         *)
(* Both stores are optional.  Without a cache (`Engine::new`,              *)
(* `resume_from_state`) nothing is looked up or inserted and a content is  *)
(* measured again whenever it comes back; without a registry, or when it   *)
(* refuses, the record is dropped.                                         *)
(***************************************************************************)
EXTENDS Naturals, FiniteSets

CONSTANTS Seats,            \* positions of a population
          Ids,              \* contents of a candidate
          NoScore, Invalid,
          MaxGen,           \* bound: generations
          NumWorkers,       \* addresses in the configuration
          Threads,          \* rayon threads
          UsizeMax          \* usize::MAX

ASSUME WorkerPoolAssumption ==
    /\ IsFiniteSet(Seats)
    /\ NumWorkers \in Nat \ {0}     \* an empty list means local evaluation
    /\ Threads \in Nat \ {0}
    /\ MaxGen \in Nat
    /\ UsizeMax \in Nat /\ UsizeMax > Cardinality(Seats)
    /\ NoScore # Invalid
    /\ {NoScore, Invalid} \cap [id : Ids, gen : 0..MaxGen] = {}

VARIABLES gen, pop, verdict,    \* as in Evaluation
          cached,               \* does the engine have a cache?
          failed, load,         \* the pool: WorkerSlot, by index
          cache,                \* id -> generation that measured it, or NoScore
          registry,             \* id -> generation of the record, or NoScore
          pc,                   \* the next step of each seat's closure
          at, best, bestLoad,   \* its scan: next slot, best slot (0: none)
          lease,                \* the worker it calls, 0 for none
          attempts,             \* remaining_attempts
          answer                \* what the call returned

pool   == <<failed, load>>
stores == <<cached, cache, registry>>
scan   == <<at, best, bestLoad>>
call   == <<lease, attempts, answer>>
vars   == <<gen, pop, verdict, pool, stores, pc, scan, call>>

Workers == 1..NumWorkers

Abstract == INSTANCE Evaluation

Score(i, g) == [id |-> i, gen |-> g]

Init ==
    /\ gen = 0
    /\ pop \in [Seats -> Ids]
    /\ verdict = [s \in Seats |-> NoScore]
    /\ failed = [w \in Workers |-> FALSE]
    /\ load = [w \in Workers |-> 0]
    /\ cached \in BOOLEAN
    /\ cache = [i \in Ids |-> NoScore]
    /\ registry = [i \in Ids |-> NoScore]
    /\ pc = [s \in Seats |-> "waiting"]
    /\ at = [s \in Seats |-> 1]
    /\ best = [s \in Seats |-> 0]
    /\ bestLoad = [s \in Seats |-> UsizeMax]
    /\ lease = [s \in Seats |-> 0]
    /\ attempts = [s \in Seats |-> 0]
    /\ answer = [s \in Seats |-> "none"]

Goto(s, step) == pc' = [pc EXCEPT ![s] = step]

ScanOver(s) ==
    /\ at' = [at EXCEPT ![s] = 1]
    /\ best' = [best EXCEPT ![s] = 0]
    /\ bestLoad' = [bestLoad EXCEPT ![s] = UsizeMax]

(* The closure returns: the thread is free, its locals are gone.           *)
Return(s, v) ==
    /\ Goto(s, "done")
    /\ verdict' = [verdict EXCEPT ![s] = v]
    /\ lease' = [lease EXCEPT ![s] = 0]
    /\ attempts' = [attempts EXCEPT ![s] = 0]
    /\ answer' = [answer EXCEPT ![s] = "none"]

Resting == {"waiting", "done"}

ThreadFree == Cardinality({s \in Seats : pc[s] \notin Resting}) < Threads

-----------------------------------------------------------------------------
(* A thread takes the next candidate, and the cache, if any, knows it ...  *)
CacheHit(s) ==
    /\ pc[s] = "waiting" /\ ThreadFree
    /\ cached /\ cache[pop[s]] # NoScore
    /\ Return(s, Score(pop[s], cache[pop[s]]))
    /\ UNCHANGED <<gen, pop, pool, stores, scan>>

(* ... or it does not.                                                     *)
CacheMiss(s) ==
    /\ pc[s] = "waiting" /\ ThreadFree
    /\ cached => cache[pop[s]] = NoScore
    /\ attempts' = [attempts EXCEPT ![s] = NumWorkers]
    /\ Goto(s, "scan")
    /\ UNCHANGED <<gen, pop, verdict, pool, stores, scan, lease, answer>>

(* `lease` reads whether the slot has failed ...                           *)
ReadFailed(s) ==
    /\ pc[s] = "scan" /\ at[s] <= NumWorkers
    /\ IF failed[at[s]]
          THEN at' = [at EXCEPT ![s] = @ + 1] /\ UNCHANGED pc
          ELSE Goto(s, "load") /\ UNCHANGED at
    /\ UNCHANGED <<gen, pop, verdict, pool, stores, best, bestLoad, call>>

(* ... then its load, and keeps the first slot of the least load.          *)
ReadLoad(s) ==
    /\ pc[s] = "load"
    /\ Goto(s, "scan")
    /\ at' = [at EXCEPT ![s] = @ + 1]
    /\ IF load[at[s]] < bestLoad[s]
          THEN /\ best' = [best EXCEPT ![s] = at[s]]
               /\ bestLoad' = [bestLoad EXCEPT ![s] = load[at[s]]]
          ELSE UNCHANGED <<best, bestLoad>>
    /\ UNCHANGED <<gen, pop, verdict, pool, stores, call>>

ScanEnded(s) == pc[s] = "scan" /\ at[s] > NumWorkers

(* fetch_add on the chosen slot, whatever its load is by now.              *)
Lease(s) ==
    /\ ScanEnded(s) /\ best[s] # 0
    /\ load' = [load EXCEPT ![best[s]] = IF @ = UsizeMax THEN 0 ELSE @ + 1]
    /\ lease' = [lease EXCEPT ![s] = best[s]]
    /\ ScanOver(s)
    /\ Goto(s, "call")
    /\ UNCHANGED <<gen, pop, verdict, failed, stores, attempts, answer>>

(* No slot was healthy: a local evaluation, which the cache never sees.    *)
NoWorker(s) ==
    /\ ScanEnded(s) /\ best[s] = 0
    /\ \E v \in {Invalid, Score(pop[s], gen)} : Return(s, v)
    /\ ScanOver(s)
    /\ UNCHANGED <<gen, pop, pool, stores>>

(* The worker answers, or the call errs, at the latest after its timeouts. *)
Call(s) ==
    /\ pc[s] = "call"
    /\ Goto(s, "release")
    /\ \E a \in {"valid", "invalid", "error"} : answer' = [answer EXCEPT ![s] = a]
    /\ UNCHANGED <<gen, pop, verdict, pool, stores, scan, lease, attempts>>

(* `release`: fetch_sub ...                                                *)
Release(s) ==
    /\ pc[s] = "release"
    /\ load' = [load EXCEPT ![lease[s]] = IF @ = 0 THEN UsizeMax ELSE @ - 1]
    /\ Goto(s, IF load[lease[s]] = 0 THEN "repair" ELSE "after")
    /\ UNCHANGED <<gen, pop, verdict, failed, stores, scan, call>>

(* Faulty variant: no underflow guard.                                     *)
RepairOmitted(s) ==
    /\ pc[s] = "repair"
    /\ Goto(s, "after")
    /\ UNCHANGED <<gen, pop, verdict, pool, stores, scan, call>>

(* ... and the underflow guard, a store of its own.                        *)
Repair(s) ==
    /\ pc[s] = "repair"
    /\ load' = [load EXCEPT ![lease[s]] = 0]
    /\ Goto(s, "after")
    /\ UNCHANGED <<gen, pop, verdict, failed, stores, scan, call>>

Answered(s, a) == pc[s] = "after" /\ answer[s] = a

InsertScore(s) ==
    /\ cache' = IF cached THEN [cache EXCEPT ![pop[s]] = gen] ELSE cache
    /\ UNCHANGED cached

(* Faulty variant: the score is committed without the cache.               *)
ValidNotCached(s) ==
    /\ Answered(s, "valid")
    /\ Goto(s, "commit")
    /\ UNCHANGED <<gen, pop, verdict, pool, stores, scan, call>>

Valid(s) ==
    /\ Answered(s, "valid")
    /\ InsertScore(s)
    /\ Goto(s, "commit")
    /\ UNCHANGED <<gen, pop, verdict, pool, registry, scan, call>>

(* The record is written under the registry's lock, or the error dropped.  *)
Commit(s) ==
    /\ pc[s] = "commit"
    /\ registry' \in {registry, [registry EXCEPT ![pop[s]] = gen]}
    /\ Return(s, Score(pop[s], gen))
    /\ UNCHANGED <<gen, pop, pool, cached, cache, scan>>

Rejected(s) ==
    /\ Answered(s, "invalid")
    /\ Return(s, Invalid)
    /\ UNCHANGED <<gen, pop, pool, stores, scan>>

(* Faulty variant: the last attempt is not told from the others.           *)
RetryPastLast(s) ==
    /\ Answered(s, "error")
    /\ attempts' = [attempts EXCEPT ![s] = @ - 1]
    /\ lease' = [lease EXCEPT ![s] = 0]
    /\ answer' = [answer EXCEPT ![s] = "none"]
    /\ Goto(s, "scan")
    /\ UNCHANGED <<gen, pop, verdict, pool, stores, scan>>

(* Faulty variant: attempts are not counted.                               *)
RetryUncounted(s) ==
    /\ Answered(s, "error") /\ attempts[s] > 1
    /\ lease' = [lease EXCEPT ![s] = 0]
    /\ answer' = [answer EXCEPT ![s] = "none"]
    /\ Goto(s, "scan")
    /\ UNCHANGED <<gen, pop, verdict, pool, stores, scan, attempts>>

Retry(s) ==
    /\ Answered(s, "error") /\ attempts[s] > 1
    /\ attempts' = [attempts EXCEPT ![s] = @ - 1]
    /\ lease' = [lease EXCEPT ![s] = 0]
    /\ answer' = [answer EXCEPT ![s] = "none"]
    /\ Goto(s, "scan")
    /\ UNCHANGED <<gen, pop, verdict, pool, stores, scan>>

(* The last attempt marks the worker it called: two stores.                *)
MarkFailed(s) ==
    /\ Answered(s, "error") /\ attempts[s] = 1
    /\ attempts' = [attempts EXCEPT ![s] = 0]
    /\ failed' = [failed EXCEPT ![lease[s]] = TRUE]
    /\ Goto(s, "zero")
    /\ UNCHANGED <<gen, pop, verdict, load, stores, scan, lease, answer>>

ZeroLoad(s) ==
    /\ pc[s] = "zero"
    /\ load' = [load EXCEPT ![lease[s]] = 0]
    /\ Goto(s, "local")
    /\ UNCHANGED <<gen, pop, verdict, failed, stores, scan, call>>

LocalFallback(s) ==
    /\ pc[s] = "local"
    /\ \/ InsertScore(s) /\ Return(s, Score(pop[s], gen))
       \/ UNCHANGED <<cached, cache>> /\ Return(s, Invalid)
    /\ UNCHANGED <<gen, pop, pool, registry, scan>>

(* The results are collected; the next call begins with `reset_all`.       *)
NextGeneration ==
    /\ \A s \in Seats : pc[s] = "done"
    /\ gen < MaxGen
    /\ gen' = gen + 1
    /\ pop' \in [Seats -> Ids]
    /\ verdict' = [s \in Seats |-> NoScore]
    /\ failed' = [w \in Workers |-> FALSE]
    /\ load' = [w \in Workers |-> 0]
    /\ pc' = [s \in Seats |-> "waiting"]
    /\ UNCHANGED <<stores, scan, call>>

Step(s) ==
    \/ CacheHit(s) \/ CacheMiss(s)
    \/ ReadFailed(s) \/ ReadLoad(s) \/ Lease(s) \/ NoWorker(s)
    \/ Call(s) \/ Release(s) \/ Repair(s)
    \/ Valid(s) \/ Commit(s) \/ Rejected(s)
    \/ Retry(s) \/ MarkFailed(s) \/ ZeroLoad(s) \/ LocalFallback(s)

Next == (\E s \in Seats : Step(s)) \/ NextGeneration

(* A rayon thread that has work runs it, and every call to a worker ends:  *)
(* connect, read and write have timeouts.                                  *)
Fairness == WF_vars(NextGeneration) /\ \A s \in Seats : WF_vars(Step(s))

Spec == Init /\ [][Next]_vars /\ Fairness

-----------------------------------------------------------------------------
(* Type invariant of the pool, the stores and the threads' locals.         *)
TypeOK ==
    /\ gen \in 0..MaxGen
    /\ pop \in [Seats -> Ids]
    /\ verdict \in [Seats -> {NoScore, Invalid} \cup [id : Ids, gen : 0..MaxGen]]
    /\ failed \in [Workers -> BOOLEAN] /\ load \in [Workers -> 0..UsizeMax]
    /\ cached \in BOOLEAN
    /\ cache \in [Ids -> {NoScore} \cup 0..MaxGen]
    /\ registry \in [Ids -> {NoScore} \cup 0..MaxGen]
    /\ pc \in [Seats -> Resting \cup {"scan", "load", "call", "release", "repair",
                                     "after", "commit", "zero", "local"}]
    /\ at \in [Seats -> 1..NumWorkers + 1] /\ best \in [Seats -> 0..NumWorkers]
    /\ bestLoad \in [Seats -> 0..UsizeMax]
    /\ lease \in [Seats -> 0..NumWorkers] /\ attempts \in [Seats -> 0..NumWorkers]
    /\ answer \in [Seats -> {"none", "valid", "invalid", "error"}]

Holders(w) == {s \in Seats : lease[s] = w /\ pc[s] \in {"call", "release"}}

(* The load of a worker that nobody marked as failed is the number of its  *)
(* leases.                                                                 *)
LoadIsLeases == \A w \in Workers : ~failed[w] => load[w] = Cardinality(Holders(w))

(* When every thread is at rest no worker keeps a load.                    *)
QuietPool ==
    (\A s \in Seats : pc[s] \in Resting) => \A w \in Workers : load[w] = 0

(* Loads tell the leases, although threads choose by loads that are out of *)
(* date by the time they lease, and release without a lock.  Marking a     *)
(* worker zeroes its load under the feet of those who lease it: their      *)
(* releases wrap the counter around, and the repairs race with each other; *)
(* nothing of it is left when the generation ends.                         *)
LoadsTellLeases == LoadIsLeases /\ QuietPool

(* An engine that has a cache never replaces a record of its registry by   *)
(* one of a later generation: the cache, filled before the registry, keeps *)
(* the candidate from being evaluated again, even one that two threads     *)
(* evaluate at once.  This is said of the life of one engine that began    *)
(* with both stores empty.  An engine without a cache does replace records *)
(* (`commit_candidate` inserts, whatever is there), and so may one that    *)
(* starts from a cache saved up to nine generations before the registry's  *)
(* last record.                                                            *)
LineageStable ==
    [][cached => \A i \in Ids : registry[i] # NoScore => registry'[i] = registry[i]]_vars

(* Every candidate gets one verdict, on its own content: measured in this  *)
(* generation, or in an earlier one when the engine keeps scores; and the  *)
(* next generation begins when all have theirs.                            *)
StepsEvaluate == Abstract!Init /\ [][Abstract!Next]_(Abstract!vars)

(* And every candidate does get its verdict, under weak fairness of the    *)
(* threads: workers that err and are marked, loads that wrap and lists     *)
(* with no healthy worker hold nothing up.                                 *)
ImplementsEvaluation == Abstract!Spec
=============================================================================
