-------------------------- MODULE WorkerPoolProofs --------------------------
(***************************************************************************)
(* Theorems about the worker pool, for any number of threads, workers and  *)
(* candidates.  That every candidate gets its verdict in the end is left   *)
(* to TLC; that no step breaks what Evaluation promises is proved.         *)
(***************************************************************************)
EXTENDS WorkerPool, FiniteSetTheorems, TLAPS

-----------------------------------------------------------------------------
(* Types, and what the steps of a thread rely on                           *)

(* A thread that reads a load reads that of a worker, and one that has     *)
(* called one still knows which.                                           *)
Located ==
    \A s \in Seats :
        /\ pc[s] = "load" => at[s] <= NumWorkers
        /\ pc[s] \in {"call", "release", "repair", "after", "zero"} => lease[s] # 0

Well == TypeOK /\ Located

LEMMA InitWell == Init => Well
BY WorkerPoolAssumption DEF Init, Well, TypeOK, Located, Resting, Workers

(* Overwriting one value of a function keeps its type.                     *)
LEMMA ExceptTyped ==
    ASSUME NEW S, NEW T, NEW f \in [S -> T], NEW x, NEW v \in T
    PROVE  [f EXCEPT ![x] = v] \in [S -> T]
OBVIOUS

LEMMA ReturnWell ==
    ASSUME Well, NEW s \in Seats, NEW v \in {Invalid} \cup {Score(pop[s], g) : g \in 0..MaxGen},
           Return(s, v), UNCHANGED <<cached, gen, pop, failed, load>>,
           cache' \in [Ids -> {NoScore} \cup 0..MaxGen],
           registry' \in [Ids -> {NoScore} \cup 0..MaxGen],
           at' \in [Seats -> 1..NumWorkers + 1], best' \in [Seats -> 0..NumWorkers],
           bestLoad' \in [Seats -> 0..UsizeMax],
           \A r \in Seats : r # s => at'[r] = at[r]
    PROVE  Well'
<1>1. v \in {Invalid} \cup [id : Ids, gen : 0..MaxGen]
  BY DEF Well, TypeOK, Score
<1>2. TypeOK'
  <2>1. verdict' \in [Seats -> {NoScore, Invalid} \cup [id : Ids, gen : 0..MaxGen]]
    BY <1>1 DEF Well, TypeOK, Return
  <2>2. /\ lease' \in [Seats -> 0..NumWorkers] /\ attempts' \in [Seats -> 0..NumWorkers]
        /\ answer' \in [Seats -> {"none", "valid", "invalid", "error"}]
    BY WorkerPoolAssumption DEF Well, TypeOK, Return
  <2>3. pc' \in [Seats -> Resting \cup {"scan", "load", "call", "release", "repair",
                                        "after", "commit", "zero", "local"}]
    BY DEF Well, TypeOK, Return, Goto, Resting
  <2>4. QED
    BY <2>1, <2>2, <2>3 DEF Well, TypeOK
<1>3. Located'
  BY DEF Well, TypeOK, Located, Return, Goto
<1>4. QED
  BY <1>2, <1>3 DEF Well

LEMMA StepWell ==
    ASSUME Well, NEW s \in Seats, Step(s)
    PROVE  Well'
<1> USE WorkerPoolAssumption
<1>1. ASSUME CacheHit(s) PROVE Well'
  <2>1. cache[pop[s]] \in 0..MaxGen
    BY <1>1 DEF CacheHit, Well, TypeOK
  <2>2. QED
    BY <1>1, <2>1, ReturnWell DEF CacheHit, Well, TypeOK, pool, stores, scan
<1>2. ASSUME CacheMiss(s) PROVE Well'
  BY <1>2 DEF CacheMiss, Well, TypeOK, Located, Goto, Resting, pool, stores, scan
<1>3. ASSUME ReadFailed(s) PROVE Well'
  BY <1>3 DEF ReadFailed, Well, TypeOK, Located, Goto, Resting, pool, stores, call
<1>4. ASSUME ReadLoad(s) PROVE Well'
  <2>1. at[s] \in 1..NumWorkers
    BY <1>4 DEF ReadLoad, Well, TypeOK, Located
  <2>2. /\ at' \in [Seats -> 1..NumWorkers + 1] /\ best' \in [Seats -> 0..NumWorkers]
        /\ bestLoad' \in [Seats -> 0..UsizeMax]
    <3>1. at[s] + 1 \in 1..NumWorkers + 1 /\ load[at[s]] \in 0..UsizeMax /\ at[s] \in 0..NumWorkers
      BY <2>1 DEF Well, TypeOK, Workers
    <3>2. at' \in [Seats -> 1..NumWorkers + 1]
      BY <1>4, <3>1 DEF ReadLoad, Well, TypeOK
    <3>3. best' \in [Seats -> 0..NumWorkers] /\ bestLoad' \in [Seats -> 0..UsizeMax]
      BY <1>4, <3>1 DEF ReadLoad, Well, TypeOK
    <3>4. QED
      BY <3>2, <3>3
  <2>3. TypeOK'
    BY <1>4, <2>2 DEF ReadLoad, Well, TypeOK, Goto, pool, stores, call
  <2>4. Located'
    BY <1>4 DEF ReadLoad, Well, TypeOK, Located, Goto, call
  <2>5. QED
    BY <2>3, <2>4 DEF Well
<1>5. ASSUME Lease(s) PROVE Well'
  <2>1. best[s] \in 0..NumWorkers /\ best[s] # 0
    BY <1>5 DEF Lease, Well, TypeOK
  <2>2. load' \in [Workers -> 0..UsizeMax]
    <3>1. load \in [Workers -> 0..UsizeMax] /\ best[s] \in Workers
      BY <2>1 DEF Well, TypeOK, Workers
    <3>2. load' = [load EXCEPT ![best[s]] = IF @ = UsizeMax THEN 0 ELSE @ + 1]
      BY <1>5 DEF Lease
    <3>3. (IF load[best[s]] = UsizeMax THEN 0 ELSE load[best[s]] + 1) \in 0..UsizeMax
      BY <3>1
    <3>4. QED
      BY ONLY <3>1, <3>2, <3>3
  <2>3. lease' = [lease EXCEPT ![s] = best[s]] /\ lease' \in [Seats -> 0..NumWorkers]
    BY <1>5, <2>1 DEF Lease, Well, TypeOK
  <2>4. pc' = [pc EXCEPT ![s] = "call"]
    BY <1>5 DEF Lease, Goto
  <2>5. /\ at' \in [Seats -> 1..NumWorkers + 1] /\ best' \in [Seats -> 0..NumWorkers]
        /\ bestLoad' \in [Seats -> 0..UsizeMax]
    BY <1>5 DEF Lease, ScanOver, Well, TypeOK
  <2>6. TypeOK'
    BY <1>5, <2>2, <2>3, <2>4, <2>5 DEF Lease, Well, TypeOK, stores
  <2>7. Located'
    BY <1>5, <2>1, <2>3, <2>4 DEF Lease, ScanOver, Well, TypeOK, Located
  <2>8. QED
    BY <2>6, <2>7 DEF Well
<1>6. ASSUME NoWorker(s) PROVE Well'
  BY <1>6, ReturnWell DEF NoWorker, ScanOver, Well, TypeOK, pool, stores
<1>7. ASSUME Call(s) PROVE Well'
  BY <1>7 DEF Call, Well, TypeOK, Located, Goto, Resting, pool, stores, scan
<1>8. ASSUME Release(s) PROVE Well'
  <2>1. lease[s] \in Workers
    BY <1>8 DEF Release, Well, TypeOK, Located, Workers
  <2>2. load' \in [Workers -> 0..UsizeMax]
    BY <1>8, <2>1 DEF Release, Well, TypeOK
  <2>3. pc' = [pc EXCEPT ![s] = "repair"] \/ pc' = [pc EXCEPT ![s] = "after"]
    BY <1>8 DEF Release, Goto
  <2>4. TypeOK'
    BY <1>8, <2>2, <2>3 DEF Release, Well, TypeOK, stores, scan, call
  <2>5. Located'
    BY <1>8, <2>3 DEF Release, Well, TypeOK, Located, scan, call
  <2>6. QED
    BY <2>4, <2>5 DEF Well
<1>9. ASSUME Repair(s) PROVE Well'
  BY <1>9 DEF Repair, Well, TypeOK, Located, Goto, Resting, stores, scan, call, Workers
<1>10. ASSUME Valid(s) PROVE Well'
  BY <1>10 DEF Valid, Answered, InsertScore, Well, TypeOK, Located, Goto, Resting, pool, scan,
               call
<1>11. ASSUME Commit(s) PROVE Well'
  <2>1. registry' \in [Ids -> {NoScore} \cup 0..MaxGen]
    BY <1>11 DEF Commit, Well, TypeOK
  <2>2. QED
    BY <1>11, <2>1, ReturnWell DEF Commit, Well, TypeOK, pool, scan
<1>12. ASSUME Rejected(s) PROVE Well'
  BY <1>12, ReturnWell DEF Rejected, Well, TypeOK, pool, stores, scan
<1>13. ASSUME Retry(s) PROVE Well'
  BY <1>13 DEF Retry, Answered, Well, TypeOK, Located, Goto, Resting, pool, stores, scan
<1>14. ASSUME MarkFailed(s) PROVE Well'
  <2>1. failed' \in [Workers -> BOOLEAN] /\ attempts' \in [Seats -> 0..NumWorkers]
    <3>1. failed \in [Workers -> BOOLEAN] /\ attempts \in [Seats -> 0..NumWorkers]
          /\ TRUE \in BOOLEAN /\ 0 \in 0..NumWorkers
      BY DEF Well, TypeOK
    <3>2. /\ failed' = [failed EXCEPT ![lease[s]] = TRUE]
          /\ attempts' = [attempts EXCEPT ![s] = 0]
      BY <1>14 DEF MarkFailed
    <3>3. QED
      BY ONLY <3>1, <3>2, ExceptTyped
  <2>2. pc' = [pc EXCEPT ![s] = "zero"]
    BY <1>14 DEF MarkFailed, Goto
  <2>3. TypeOK'
    BY <1>14, <2>1, <2>2 DEF MarkFailed, Well, TypeOK, stores, scan
  <2>4. Located'
    BY <1>14, <2>2 DEF MarkFailed, Answered, Well, TypeOK, Located, scan
  <2>5. QED
    BY <2>3, <2>4 DEF Well
<1>15. ASSUME ZeroLoad(s) PROVE Well'
  <2>1. load' \in [Workers -> 0..UsizeMax]
    <3>1. load \in [Workers -> 0..UsizeMax] /\ 0 \in 0..UsizeMax
      BY DEF Well, TypeOK
    <3>2. load' = [load EXCEPT ![lease[s]] = 0]
      BY <1>15 DEF ZeroLoad
    <3>3. QED
      BY ONLY <3>1, <3>2, ExceptTyped
  <2>2. pc' = [pc EXCEPT ![s] = "local"]
    BY <1>15 DEF ZeroLoad, Goto
  <2>3. TypeOK'
    BY <1>15, <2>1, <2>2 DEF ZeroLoad, Well, TypeOK, stores, scan, call
  <2>4. Located'
    BY <1>15, <2>2 DEF ZeroLoad, Well, TypeOK, Located, scan, call
  <2>5. QED
    BY <2>3, <2>4 DEF Well
<1>16. ASSUME LocalFallback(s) PROVE Well'
  <2>1. cache' \in [Ids -> {NoScore} \cup 0..MaxGen]
    BY <1>16 DEF LocalFallback, InsertScore, Well, TypeOK
  <2>2. /\ \E v \in {Invalid} \cup {Score(pop[s], g) : g \in 0..MaxGen} : Return(s, v)
        /\ UNCHANGED cached
    BY <1>16 DEF LocalFallback, InsertScore, Well, TypeOK
  <2>3. QED
    BY <1>16, <2>1, <2>2, ReturnWell DEF LocalFallback, Well, TypeOK, pool, scan
<1>17. QED
  BY <1>1, <1>2, <1>3, <1>4, <1>5, <1>6, <1>7, <1>8, <1>9, <1>10, <1>11, <1>12, <1>13, <1>14,
     <1>15, <1>16 DEF Step

LEMMA NextGenerationWell ==
    ASSUME Well, NextGeneration
    PROVE  Well'
BY WorkerPoolAssumption
   DEF NextGeneration, Well, TypeOK, Located, Resting, Workers, stores, scan, call
-----------------------------------------------------------------------------
(* Verdicts, cache and registry                                            *)

Judged == \A s \in Seats : pc[s] = "done" <=> verdict[s] # NoScore

(* In an engine with a cache, a candidate that a thread is evaluating was  *)
(* not measured in an earlier generation; the registry follows the cache.  *)
CacheTells ==
    /\ \A i \in Ids : cache[i] # NoScore => cache[i] \in 0..gen
    /\ \A i \in Ids : registry[i] # NoScore => registry[i] = cache[i]
    /\ \A s \in Seats : pc[s] \notin Resting => cache[pop[s]] \in {NoScore, gen}
    /\ \A s \in Seats : pc[s] = "commit" => cache[pop[s]] = gen

Cached == cached => CacheTells

RecordsKept == \A i \in Ids : registry[i] # NoScore => registry'[i] = registry[i]

LineageKept == cached => RecordsKept

LEMMA ReturnJudges ==
    ASSUME Well, Judged, NEW s \in Seats, pc[s] # "done",
           NEW v \in {Invalid} \cup {Score(pop[s], g) : g \in Abstract!Sources},
           Return(s, v), UNCHANGED <<cached, gen, pop>>
    PROVE  Abstract!Judge(s) /\ Judged'
<1>1. v # NoScore
  <2>1. Abstract!Sources \subseteq 0..MaxGen /\ pop[s] \in Ids
    BY WorkerPoolAssumption DEF Well, TypeOK, Abstract!Sources
  <2>2. QED
    <3>1. NoScore # Invalid /\ NoScore \notin [id : Ids, gen : 0..MaxGen]
      BY WorkerPoolAssumption
    <3>2. v \in {Invalid} \cup [id : Ids, gen : 0..MaxGen]
      BY <2>1 DEF Score
    <3>3. QED
      BY ONLY <3>1, <3>2
<1>2. verdict[s] = NoScore
  BY DEF Judged
<1>3. verdict' = [verdict EXCEPT ![s] = v] /\ pc' = [pc EXCEPT ![s] = "done"]
  BY DEF Return, Goto
<1>4. Abstract!Judge(s)
  <2>1. v \in {Invalid} \cup {Abstract!Score(pop[s], g) : g \in Abstract!Sources}
    BY DEF Abstract!Score, Score
  <2>2. QED
    BY <1>2, <1>3, <2>1 DEF Abstract!Judge
<1>5. Judged'
  BY <1>1, <1>3 DEF Judged, Well, TypeOK
<1>6. QED
  BY <1>4, <1>5

(* The steps of a thread that touch neither the verdicts nor the stores.   *)
LEMMA InnerStep ==
    ASSUME Well, Judged, Cached, NEW s \in Seats, NEW x,
           pc[s] # "done", x \notin {"done", "commit"},
           cached /\ pc[s] \in Resting => cache[pop[s]] = NoScore,
           pc' = [pc EXCEPT ![s] = x], UNCHANGED <<gen, pop, verdict, stores>>
    PROVE  Judged' /\ Cached' /\ UNCHANGED Abstract!vars /\ LineageKept
<1>0. UNCHANGED <<cached, cache, registry>> /\ cached \in BOOLEAN
  BY DEF stores, Well, TypeOK
<1>1. Judged'
  BY DEF Judged, Well, TypeOK
<1>2. ASSUME cached PROVE CacheTells'
  BY <1>0, <1>2 DEF Cached, CacheTells, Well, TypeOK, Resting
<1>3. Cached' /\ LineageKept
  BY <1>0, <1>2 DEF Cached, LineageKept, RecordsKept
<1>4. QED
  BY <1>0, <1>1, <1>3 DEF Abstract!vars

LEMMA Inserted ==
    ASSUME Well, Cached, NEW s \in Seats, pc[s] \notin Resting, InsertScore(s),
           UNCHANGED <<gen, pop, registry>>,
           \A r \in Seats : pc'[r] \notin Resting => pc[r] \notin Resting,
           \A r \in Seats : pc'[r] = "commit" => r = s \/ pc[r] = "commit"
    PROVE  Cached' /\ UNCHANGED cached
<1>0. UNCHANGED cached /\ cached \in BOOLEAN
  BY DEF InsertScore, Well, TypeOK
<1>1. ASSUME cached PROVE CacheTells'
  <2>1. CacheTells
    BY <1>1 DEF Cached
  <2>2. cache[pop[s]] \in {NoScore, gen} /\ gen \in 0..gen
    BY <2>1 DEF CacheTells, Well, TypeOK
  <2>3. cache' = [cache EXCEPT ![pop[s]] = gen]
    BY <1>1 DEF InsertScore
  <2>4. /\ cache'[pop[s]] = gen
        /\ \A i \in Ids : i # pop[s] => cache'[i] = cache[i]
    BY <2>3 DEF Well, TypeOK
  <2>5. \A r \in Seats : pop[r] \in Ids
    BY DEF Well, TypeOK
  <2>6. \A i \in Ids : cache'[i] # NoScore => cache'[i] \in 0..gen
    BY <2>1, <2>2, <2>4 DEF CacheTells
  <2>7. \A i \in Ids : registry[i] # NoScore => registry[i] = cache'[i]
    BY <2>1, <2>2, <2>4 DEF CacheTells
  <2>8. \A r \in Seats : pc'[r] \notin Resting => cache'[pop[r]] \in {NoScore, gen}
    BY <2>1, <2>4, <2>5 DEF CacheTells
  <2>9. \A r \in Seats : pc'[r] = "commit" => cache'[pop[r]] = gen
    BY <2>1, <2>4, <2>5 DEF CacheTells
  <2>10. QED
    BY <2>6, <2>7, <2>8, <2>9 DEF CacheTells
<1>2. QED
  BY <1>0, <1>1 DEF Cached

StepSafe(s) ==
    /\ Judged' /\ Cached' /\ LineageKept
    /\ Abstract!Judge(s) \/ UNCHANGED Abstract!vars

(* A closure that returns without touching the stores.                     *)
LEMMA PlainReturn ==
    ASSUME Well, Judged, Cached, NEW s \in Seats, pc[s] # "done",
           NEW v \in {Invalid} \cup {Score(pop[s], g) : g \in Abstract!Sources},
           Return(s, v), UNCHANGED <<gen, pop, stores>>
    PROVE  StepSafe(s)
<1>1. pc' = [pc EXCEPT ![s] = "done"]
  BY DEF Return, Goto
<1>2. UNCHANGED <<cached, cache, registry>> /\ cached \in BOOLEAN
  BY DEF stores, Well, TypeOK
<1>3. ASSUME cached PROVE CacheTells'
  BY <1>1, <1>2, <1>3 DEF Cached, CacheTells, Well, TypeOK, Resting
<1>4. Cached' /\ LineageKept
  BY <1>2, <1>3 DEF Cached, LineageKept, RecordsKept
<1>5. QED
  BY <1>2, <1>4, ReturnJudges DEF StepSafe

LEMMA StepIsSafe ==
    ASSUME Well, Judged, Cached, NEW s \in Seats, Step(s)
    PROVE  StepSafe(s)
<1>0. gen \in Abstract!Sources
  BY DEF Well, TypeOK, Abstract!Sources
<1>1. CASE CacheHit(s)
  <2>1. cache[pop[s]] \in Abstract!Sources
    BY <1>1 DEF CacheHit, Cached, CacheTells, Well, TypeOK, Abstract!Sources
  <2>2. QED
    BY <1>1, <2>1, PlainReturn DEF CacheHit
<1>2. CASE CacheMiss(s)
  BY <1>2, InnerStep DEF CacheMiss, Goto, StepSafe
<1>3. CASE ReadFailed(s)
  <2>1. /\ pc[s] = "scan" /\ UNCHANGED <<gen, pop, verdict, stores>>
        /\ pc' = [pc EXCEPT ![s] = "scan"] \/ pc' = [pc EXCEPT ![s] = "load"]
    BY <1>3 DEF ReadFailed, Goto, Well, TypeOK
  <2>2. QED
    BY <2>1, InnerStep DEF StepSafe, Resting
<1>4. CASE ReadLoad(s)
  BY <1>4, InnerStep DEF ReadLoad, Goto, StepSafe, Resting
<1>5. CASE Lease(s)
  BY <1>5, InnerStep DEF Lease, ScanEnded, Goto, StepSafe, Resting
<1>6. CASE NoWorker(s)
  BY <1>0, <1>6, PlainReturn DEF NoWorker, ScanEnded
<1>7. CASE Call(s)
  BY <1>7, InnerStep DEF Call, Goto, StepSafe, Resting
<1>8. CASE Release(s)
  <2>1. /\ pc[s] = "release" /\ UNCHANGED <<gen, pop, verdict, stores>>
        /\ pc' = [pc EXCEPT ![s] = "repair"] \/ pc' = [pc EXCEPT ![s] = "after"]
    BY <1>8 DEF Release, Goto
  <2>2. QED
    BY <2>1, InnerStep DEF StepSafe, Resting
<1>9. CASE Repair(s)
  BY <1>9, InnerStep DEF Repair, Goto, StepSafe, Resting
<1>10. CASE Valid(s)
  <2>1. /\ pc[s] = "after" /\ InsertScore(s) /\ pc' = [pc EXCEPT ![s] = "commit"]
        /\ UNCHANGED <<gen, pop, verdict, registry>>
    BY <1>10 DEF Valid, Answered, Goto
  <2>2. /\ pc[s] \notin Resting
        /\ \A r \in Seats : pc'[r] \notin Resting => pc[r] \notin Resting
        /\ \A r \in Seats : pc'[r] = "commit" => r = s \/ pc[r] = "commit"
    BY <2>1 DEF Resting, Well, TypeOK
  <2>3. Judged'
    BY <2>1 DEF Judged, Well, TypeOK
  <2>4. QED
    BY <2>1, <2>2, <2>3, Inserted DEF StepSafe, LineageKept, RecordsKept, Abstract!vars
<1>11. CASE Commit(s)
  <2>1. /\ pc[s] = "commit" /\ Return(s, Score(pop[s], gen))
        /\ registry' \in {registry, [registry EXCEPT ![pop[s]] = gen]}
        /\ UNCHANGED <<cached, gen, pop, cache>> /\ pc' = [pc EXCEPT ![s] = "done"]
        /\ cached \in BOOLEAN
    BY <1>11 DEF Commit, Return, Goto, Well, TypeOK
  <2>2. \A i \in Ids : registry'[i] = registry[i] \/ (i = pop[s] /\ registry'[i] = gen)
    BY <2>1 DEF Well, TypeOK
  <2>3. Abstract!Judge(s) /\ Judged'
    BY <1>0, <2>1, ReturnJudges
  <2>4. ASSUME cached PROVE RecordsKept /\ CacheTells'
    <3>1. CacheTells /\ cache[pop[s]] = gen
      BY <2>1, <2>4 DEF Cached, CacheTells
    <3>2. RecordsKept
      BY <2>2, <3>1 DEF CacheTells, RecordsKept
    <3>3. CacheTells'
      BY <2>1, <2>2, <3>1 DEF CacheTells, Well, TypeOK, Resting
    <3>4. QED
      BY <3>2, <3>3
  <2>5. QED
    BY <2>1, <2>3, <2>4 DEF StepSafe, Cached, LineageKept
<1>12. CASE Rejected(s)
  BY <1>12, PlainReturn DEF Rejected, Answered
<1>13. CASE Retry(s)
  BY <1>13, InnerStep DEF Retry, Answered, Goto, StepSafe, Resting
<1>14. CASE MarkFailed(s)
  BY <1>14, InnerStep DEF MarkFailed, Answered, Goto, StepSafe, Resting
<1>15. CASE ZeroLoad(s)
  BY <1>15, InnerStep DEF ZeroLoad, Goto, StepSafe, Resting
<1>16. CASE LocalFallback(s)
  <2>1. /\ pc[s] = "local" /\ UNCHANGED <<gen, pop, registry>>
        /\ \/ InsertScore(s) /\ Return(s, Score(pop[s], gen))
           \/ UNCHANGED <<cached, cache>> /\ Return(s, Invalid)
    BY <1>16 DEF LocalFallback
  <2>2. CASE UNCHANGED <<cached, cache>> /\ Return(s, Invalid)
    BY <2>1, <2>2, PlainReturn DEF stores
  <2>3. CASE InsertScore(s) /\ Return(s, Score(pop[s], gen))
    <3>1. pc' = [pc EXCEPT ![s] = "done"]
      BY <2>3 DEF Return, Goto
    <3>2. /\ pc[s] \notin Resting
          /\ \A r \in Seats : pc'[r] \notin Resting => pc[r] \notin Resting
          /\ \A r \in Seats : pc'[r] = "commit" => r = s \/ pc[r] = "commit"
      BY <2>1, <3>1 DEF Resting, Well, TypeOK
    <3>3. Cached' /\ UNCHANGED cached
      BY <2>1, <2>3, <3>2, Inserted
    <3>4. Abstract!Judge(s) /\ Judged'
      BY <1>0, <2>1, <2>3, <3>3, ReturnJudges
    <3>5. QED
      BY <2>1, <3>3, <3>4 DEF StepSafe, LineageKept, RecordsKept
  <2>4. QED
    BY <2>1, <2>2, <2>3
<1>17. QED
  BY <1>1, <1>2, <1>3, <1>4, <1>5, <1>6, <1>7, <1>8, <1>9, <1>10, <1>11, <1>12, <1>13, <1>14,
     <1>15, <1>16 DEF Step

LEMMA NextGenerationIsSafe ==
    ASSUME Well, Judged, Cached, NextGeneration
    PROVE  Judged' /\ Cached' /\ LineageKept /\ Abstract!NextGeneration
<1>0. UNCHANGED <<cached, cache, registry>> /\ cached \in BOOLEAN
  BY DEF NextGeneration, stores, Well, TypeOK
<1>1. Abstract!NextGeneration
  BY <1>0 DEF NextGeneration, Judged, Abstract!NextGeneration, Abstract!Scored
<1>2. Judged'
  BY DEF NextGeneration, Judged
<1>3. ASSUME cached PROVE CacheTells'
  BY <1>0, <1>3 DEF NextGeneration, Cached, CacheTells, Well, TypeOK, Resting
<1>4. QED
  BY <1>0, <1>1, <1>2, <1>3 DEF Cached, LineageKept, RecordsKept
-----------------------------------------------------------------------------
(* Loads                                                                   *)

(* The threads about to set a worker's load to zero.                       *)
Zeroing(w) == {s \in Seats : lease[s] = w /\ pc[s] \in {"repair", "zero"}}

(* Only a worker that was marked as failed has its load set to zero.       *)
Marked == \A s \in Seats : pc[s] \in {"repair", "zero"} => failed[lease[s]]

(* The load of a failed worker may be less than the number of its leases,  *)
(* and wrap around, but while it does somebody is about to zero it.        *)
NotWrapped == \A w \in Workers : Zeroing(w) = {} => load[w] <= Cardinality(Holders(w))

Loaded == Marked /\ LoadIsLeases /\ NotWrapped

LEMMA HoldersFinite ==
    ASSUME NEW w
    PROVE  /\ IsFiniteSet(Holders(w)) /\ Cardinality(Holders(w)) \in Nat
           /\ Cardinality(Holders(w)) <= Cardinality(Seats)
           /\ Cardinality(Seats) \in Nat
BY WorkerPoolAssumption, FS_Subset, FS_CardinalityType DEF Holders

(* A thread that does not take or give back a lease, and does not touch    *)
(* the pool.                                                               *)
LEMMA PoolKept ==
    ASSUME Loaded, UNCHANGED pool,
           \A s \in Seats : pc'[s] \in {"call", "release", "repair", "zero"}
                                => pc'[s] = pc[s] /\ lease'[s] = lease[s],
           \A s \in Seats : pc[s] \in {"call", "release", "repair", "zero"}
                                => pc'[s] = pc[s] /\ lease'[s] = lease[s]
    PROVE  Loaded'
<1>1. \A w : Holders(w)' = Holders(w) /\ Zeroing(w)' = Zeroing(w)
  BY DEF Holders, Zeroing
<1>2. QED
  BY <1>1 DEF Loaded, Marked, LoadIsLeases, NotWrapped, pool

LEMMA LeaseLoads ==
    ASSUME Well, Loaded, NEW s \in Seats, Lease(s)
    PROVE  Loaded'
<1>1. PICK b \in Workers :
      /\ pc[s] = "scan" /\ failed' = failed
      /\ load' = [load EXCEPT ![b] = IF @ = UsizeMax THEN 0 ELSE @ + 1]
      /\ lease' = [lease EXCEPT ![s] = b] /\ pc' = [pc EXCEPT ![s] = "call"]
  <2>1. best[s] \in Workers
    BY DEF Lease, Well, TypeOK, Workers
  <2>2. QED
    BY <2>1 DEF Lease, ScanEnded, Goto
<1>2. /\ Holders(b)' = Holders(b) \cup {s} /\ s \notin Holders(b)
      /\ \A w \in Workers : w # b => Holders(w)' = Holders(w)
      /\ \A w \in Workers : Zeroing(w)' = Zeroing(w)
  <2>1. /\ lease'[s] = b /\ pc'[s] = "call"
        /\ \A r \in Seats : r # s => lease'[r] = lease[r] /\ pc'[r] = pc[r]
    BY <1>1 DEF Well, TypeOK
  <2>2. Holders(b)' = Holders(b) \cup {s} /\ s \notin Holders(b)
    BY <1>1, <2>1 DEF Holders
  <2>3. ASSUME NEW w \in Workers, w # b PROVE Holders(w)' = Holders(w)
    BY <1>1, <2>1, <2>3 DEF Holders
  <2>4. ASSUME NEW w \in Workers PROVE Zeroing(w)' = Zeroing(w)
    BY <1>1, <2>1 DEF Zeroing
  <2>5. QED
    BY <2>2, <2>3, <2>4
<1>3. Cardinality(Holders(b)') = Cardinality(Holders(b)) + 1
  BY <1>2, HoldersFinite, FS_AddElement
<1>4. /\ Cardinality(Holders(b)) \in Nat /\ Cardinality(Holders(b)') <= Cardinality(Seats)
      /\ load[b] \in 0..UsizeMax /\ UsizeMax \in Nat /\ Cardinality(Seats) \in Nat
      /\ UsizeMax > Cardinality(Seats)
  <2>1. Holders(b)' \in SUBSET Seats
    BY DEF Holders
  <2>2. Cardinality(Holders(b)') <= Cardinality(Seats)
    BY <2>1, FS_Subset, WorkerPoolAssumption
  <2>3. QED
    BY <1>1, <2>2, HoldersFinite, WorkerPoolAssumption DEF Well, TypeOK
<1>5. \A w \in Workers : load'[w] = IF w = b THEN (IF load[b] = UsizeMax THEN 0 ELSE load[b] + 1)
                                             ELSE load[w]
  BY <1>1 DEF Well, TypeOK
<1>6. ~failed[b] => load'[b] = Cardinality(Holders(b)')
  BY <1>1, <1>3, <1>4, <1>5 DEF Loaded, LoadIsLeases
<1>7. Zeroing(b) = {} => load'[b] <= Cardinality(Holders(b)')
  <2>1. Zeroing(b) = {} => load[b] <= Cardinality(Holders(b))
    BY <1>1 DEF Loaded, NotWrapped
  <2>2. QED
    BY <1>1, <1>3, <1>4, <1>5, <2>1
<1>8. LoadIsLeases' /\ NotWrapped'
  <2>1. ASSUME NEW w \in Workers
        PROVE  /\ ~failed[w] => load'[w] = Cardinality(Holders(w)')
               /\ Zeroing(w) = {} => load'[w] <= Cardinality(Holders(w)')
    <3>1. CASE w = b
      BY <3>1, <1>6, <1>7
    <3>2. CASE w # b
      <4>1. load'[w] = load[w] /\ Holders(w)' = Holders(w)
        BY <3>2, <1>2, <1>5
      <4>2. QED
        BY <4>1 DEF Loaded, LoadIsLeases, NotWrapped
    <3>3. QED
      BY <3>1, <3>2
  <2>2. QED
    BY <1>1, <1>2, <2>1 DEF LoadIsLeases, NotWrapped
<1>9. Marked'
  BY <1>1 DEF Loaded, Marked, Well, TypeOK
<1>10. QED
  BY <1>8, <1>9 DEF Loaded
LEMMA ReleaseLoads ==
    ASSUME Well, Loaded, NEW s \in Seats, Release(s)
    PROVE  Loaded'
<1>1. PICK b \in Workers :
      /\ pc[s] = "release" /\ b = lease[s] /\ UNCHANGED <<failed, lease>>
      /\ load' = [load EXCEPT ![b] = IF @ = 0 THEN UsizeMax ELSE @ - 1]
      /\ pc' = [pc EXCEPT ![s] = IF load[b] = 0 THEN "repair" ELSE "after"]
  <2>1. lease[s] \in Workers
    BY DEF Release, Well, TypeOK, Located, Workers
  <2>2. QED
    BY <2>1 DEF Release, Goto, call
<1>2. /\ lease'[s] = b /\ pc'[s] = (IF load[b] = 0 THEN "repair" ELSE "after")
      /\ \A r \in Seats : r # s => lease'[r] = lease[r] /\ pc'[r] = pc[r]
  BY <1>1 DEF Well, TypeOK
<1>3. Holders(b)' = Holders(b) \ {s} /\ s \in Holders(b)
  BY <1>1, <1>2 DEF Holders
<1>4. \A w \in Workers : w # b => Holders(w)' = Holders(w)
  BY <1>1, <1>2 DEF Holders
<1>5. \A w \in Workers : Zeroing(w) \subseteq Zeroing(w)'
  BY <1>1, <1>2 DEF Zeroing
<1>6. load[b] = 0 => s \in Zeroing(b)'
  BY <1>1, <1>2 DEF Zeroing
<1>7. /\ Cardinality(Holders(b)') = Cardinality(Holders(b)) - 1
      /\ Cardinality(Holders(b)) \in Nat /\ Cardinality(Holders(b)) # 0
      /\ load[b] \in 0..UsizeMax /\ UsizeMax \in Nat
  <2>1. IsFiniteSet(Holders(b)) /\ Cardinality(Holders(b)) \in Nat
    BY HoldersFinite
  <2>2. Cardinality(Holders(b) \ {s}) = Cardinality(Holders(b)) - 1
    BY <1>3, <2>1, FS_RemoveElement
  <2>3. Cardinality(Holders(b)) # 0
    BY <1>3, <2>1, FS_EmptySet
  <2>4. QED
    BY <1>3, <2>1, <2>2, <2>3, WorkerPoolAssumption DEF Well, TypeOK
<1>8. \A w \in Workers : load'[w] = IF w = b THEN (IF load[b] = 0 THEN UsizeMax ELSE load[b] - 1)
                                             ELSE load[w]
  BY <1>1 DEF Well, TypeOK
<1>9. ASSUME NEW w \in Workers
      PROVE  /\ ~failed[w] => load'[w] = Cardinality(Holders(w)')
             /\ Zeroing(w)' = {} => load'[w] <= Cardinality(Holders(w)')
  <2>1. CASE w # b
    BY <2>1, <1>4, <1>5, <1>8 DEF Loaded, LoadIsLeases, NotWrapped
  <2>2. CASE w = b /\ load[b] = 0
    <3>1. failed[b]
      BY <2>2, <1>7 DEF Loaded, LoadIsLeases
    <3>2. QED
      BY <2>2, <3>1, <1>6
  <2>3. CASE w = b /\ load[b] # 0
    <3>1. load'[b] = load[b] - 1
      BY <1>8, <2>3
    <3>2. ~failed[b] => load[b] = Cardinality(Holders(b))
      BY DEF Loaded, LoadIsLeases
    <3>3. Zeroing(b)' = {} => load[b] <= Cardinality(Holders(b))
      BY <1>5 DEF Loaded, NotWrapped
    <3>4. QED
      BY <2>3, <3>1, <3>2, <3>3, <1>7
  <2>4. QED
    BY <2>1, <2>2, <2>3
<1>10. LoadIsLeases' /\ NotWrapped'
  BY <1>1, <1>9 DEF LoadIsLeases, NotWrapped
<1>11. Marked'
  <2>1. load[b] = 0 => failed[b]
    BY <1>7 DEF Loaded, LoadIsLeases
  <2>2. QED
    BY <1>1, <1>2, <2>1 DEF Loaded, Marked
<1>12. QED
  BY <1>10, <1>11 DEF Loaded

(* Repair and ZeroLoad: a failed worker's load becomes zero.               *)
LEMMA ZeroedLoads ==
    ASSUME Well, Loaded, NEW s \in Seats, pc[s] \in {"repair", "zero"},
           NEW x, x \notin {"call", "release", "repair", "zero"},
           load' = [load EXCEPT ![lease[s]] = 0], UNCHANGED <<failed, lease>>,
           pc' = [pc EXCEPT ![s] = x]
    PROVE  Loaded'
<1>1. PICK b \in Workers : b = lease[s]
  BY DEF Well, TypeOK, Located, Workers
<1>2. /\ failed[b] /\ load'[b] = 0 /\ \A w \in Workers : w # b => load'[w] = load[w]
      /\ \A r \in Seats : r # s => pc'[r] = pc[r]
      /\ pc'[s] = x
  BY <1>1 DEF Loaded, Marked, Well, TypeOK
<1>3. \A w \in Workers : Holders(w)' = Holders(w)
  BY <1>2 DEF Holders
<1>4. \A w \in Workers : w # b => Zeroing(w)' = Zeroing(w)
  BY <1>1, <1>2 DEF Zeroing
<1>5. LoadIsLeases' /\ NotWrapped'
  <2>1. LoadIsLeases'
    BY <1>1, <1>2, <1>3 DEF Loaded, LoadIsLeases
  <2>2. NotWrapped'
    BY <1>1, <1>2, <1>3, <1>4, HoldersFinite DEF Loaded, NotWrapped
  <2>3. QED
    BY <2>1, <2>2
<1>6. Marked'
  BY <1>2 DEF Loaded, Marked
<1>7. QED
  BY <1>5, <1>6 DEF Loaded

LEMMA MarkFailedLoads ==
    ASSUME Well, Loaded, NEW s \in Seats, MarkFailed(s)
    PROVE  Loaded'
<1>1. PICK b \in Workers :
      /\ b = lease[s] /\ failed' = [failed EXCEPT ![b] = TRUE] /\ UNCHANGED <<load, lease>>
      /\ pc[s] = "after" /\ pc' = [pc EXCEPT ![s] = "zero"]
  <2>1. lease[s] \in Workers
    BY DEF MarkFailed, Answered, Well, TypeOK, Located, Workers
  <2>2. QED
    BY <2>1 DEF MarkFailed, Answered, Goto
<1>2. /\ failed'[b] = TRUE /\ \A w \in Workers : w # b => failed'[w] = failed[w]
      /\ \A r \in Seats : r # s => pc'[r] = pc[r]
      /\ pc'[s] = "zero"
  BY <1>1 DEF Well, TypeOK
<1>3. \A w \in Workers : Holders(w)' = Holders(w) /\ Zeroing(w) \subseteq Zeroing(w)'
  BY <1>1, <1>2 DEF Holders, Zeroing
<1>4. LoadIsLeases'
  BY <1>1, <1>2, <1>3 DEF Loaded, LoadIsLeases
<1>5. NotWrapped'
  BY <1>1, <1>3 DEF Loaded, NotWrapped
<1>6. Marked'
  <2>1. \A r \in Seats : pc[r] \in {"repair", "zero"} => lease[r] \in Workers
    BY DEF Well, TypeOK, Located, Workers
  <2>2. QED
    BY <1>1, <1>2, <2>1 DEF Loaded, Marked
<1>7. QED
  BY <1>4, <1>5, <1>6 DEF Loaded
LEMMA StepLoads ==
    ASSUME Well, Loaded, NEW s \in Seats, Step(s)
    PROVE  Loaded'
<1>1. ASSUME NEW x, pc[s] \notin {"call", "release", "repair", "zero"},
             x \notin {"call", "release", "repair", "zero"},
             pc' = [pc EXCEPT ![s] = x], UNCHANGED pool,
             lease' \in {lease, [lease EXCEPT ![s] = 0]}
      PROVE  Loaded'
  <2>1. \A r \in Seats : r # s => pc'[r] = pc[r] /\ lease'[r] = lease[r]
    BY <1>1 DEF Well, TypeOK
  <2>2. pc'[s] = x
    BY <1>1 DEF Well, TypeOK
  <2>3. QED
    BY <1>1, <2>1, <2>2, PoolKept
<1>2. CASE CacheHit(s)
  BY <1>1, <1>2 DEF CacheHit, Return, Goto
<1>3. CASE CacheMiss(s)
  BY <1>1, <1>3 DEF CacheMiss, Goto
<1>4. CASE ReadFailed(s)
  <2>1. /\ pc[s] = "scan" /\ UNCHANGED <<pool, lease>>
        /\ pc' = [pc EXCEPT ![s] = "scan"] \/ pc' = [pc EXCEPT ![s] = "load"]
    BY <1>4 DEF ReadFailed, Goto, call, Well, TypeOK
  <2>2. QED
    BY <1>1, <2>1
<1>5. CASE ReadLoad(s)
  BY <1>1, <1>5 DEF ReadLoad, Goto, call
<1>6. CASE NoWorker(s)
  BY <1>1, <1>6 DEF NoWorker, ScanEnded, Return, Goto
<1>7. CASE Call(s)
  <2>1. \A r \in Seats : r # s => pc'[r] = pc[r]
    BY <1>7 DEF Call, Goto, Well, TypeOK
  <2>2. /\ pc[s] = "call" /\ pc'[s] = "release" /\ lease' = lease /\ UNCHANGED pool
    BY <1>7 DEF Call, Goto, Well, TypeOK
  <2>3. \A w : Holders(w)' = Holders(w) /\ Zeroing(w)' = Zeroing(w)
    BY <2>1, <2>2 DEF Holders, Zeroing
  <2>4. Marked'
    BY <2>1, <2>2 DEF Loaded, Marked, pool
  <2>5. QED
    BY <2>2, <2>3, <2>4 DEF Loaded, LoadIsLeases, NotWrapped, pool
<1>8. CASE Repair(s)
  BY <1>8, ZeroedLoads DEF Repair, Goto, call
<1>9. CASE Valid(s)
  BY <1>1, <1>9 DEF Valid, Answered, Goto, call
<1>10. CASE Commit(s)
  BY <1>1, <1>10 DEF Commit, Return, Goto
<1>11. CASE Rejected(s)
  BY <1>1, <1>11 DEF Rejected, Answered, Return, Goto
<1>12. CASE Retry(s)
  BY <1>1, <1>12 DEF Retry, Answered, Goto
<1>13. CASE ZeroLoad(s)
  BY <1>13, ZeroedLoads DEF ZeroLoad, Goto, call
<1>14. CASE LocalFallback(s)
  BY <1>1, <1>14 DEF LocalFallback, Return, Goto
<1>15. QED
  BY <1>2, <1>3, <1>4, <1>5, <1>6, <1>7, <1>8, <1>9, <1>10, <1>11, <1>12, <1>13, <1>14,
     LeaseLoads, ReleaseLoads, MarkFailedLoads DEF Step

LEMMA NextGenerationLoads ==
    ASSUME Well, NextGeneration
    PROVE  Loaded'
<1>1. /\ \A s \in Seats : pc'[s] = "waiting"
      /\ \A w \in Workers : load'[w] = 0 /\ ~failed'[w]
  BY DEF NextGeneration
<1>2. \A w : Holders(w)' = {}
  BY <1>1 DEF Holders
<1>3. \A w : Cardinality(Holders(w)') = 0
  BY <1>2, FS_EmptySet
<1>4. QED
  BY <1>1, <1>3 DEF Loaded, Marked, LoadIsLeases, NotWrapped

-----------------------------------------------------------------------------
(* The theorems                                                            *)

IInv == Well /\ Judged /\ Cached /\ Loaded

LEMMA InitIInv == Init => IInv
<1> SUFFICES ASSUME Init PROVE IInv
  OBVIOUS
<1>1. Judged /\ Cached
  BY DEF Init, Judged, Cached, CacheTells, Resting
<1>2. \A w : Holders(w) = {}
  BY DEF Init, Holders
<1>3. \A w : Cardinality(Holders(w)) = 0
  BY <1>2, FS_EmptySet
<1>4. Loaded
  BY <1>3 DEF Init, Loaded, Marked, LoadIsLeases, NotWrapped
<1>5. QED
  BY <1>1, <1>4, InitWell DEF IInv

LEMMA NextKeeps ==
    ASSUME IInv, [Next]_vars
    PROVE  /\ IInv'
           /\ Abstract!Next \/ UNCHANGED Abstract!vars
           /\ LineageKept
<1>1. CASE \E s \in Seats : Step(s)
  <2>1. PICK s \in Seats : Step(s)
    BY <1>1
  <2>2. Well' /\ Loaded' /\ StepSafe(s)
    BY <2>1, StepWell, StepLoads, StepIsSafe DEF IInv
  <2>3. QED
    BY <2>2 DEF StepSafe, IInv, Abstract!Next
<1>2. CASE NextGeneration
  BY <1>2, NextGenerationWell, NextGenerationIsSafe, NextGenerationLoads DEF IInv, Abstract!Next
<1>3. CASE UNCHANGED vars
  <2>1. Well'
    BY <1>3 DEF IInv, Well, TypeOK, Located, vars, pool, stores, scan, call
  <2>2. Judged' /\ Cached' /\ LineageKept /\ UNCHANGED Abstract!vars
    <3>1. UNCHANGED <<cached, cache, registry, gen, pop, verdict, pc>> /\ cached \in BOOLEAN
      BY <1>3 DEF IInv, Well, TypeOK, vars, stores
    <3>2. QED
      BY <3>1 DEF IInv, Judged, Cached, CacheTells, LineageKept, RecordsKept, Abstract!vars
  <2>3. Loaded'
    BY <1>3, PoolKept DEF IInv, vars, call
  <2>4. QED
    BY <2>1, <2>2, <2>3 DEF IInv
<1>4. QED
  BY <1>1, <1>2, <1>3 DEF Next

LEMMA Invariant == Spec => []IInv
<1>1. IInv /\ [Next]_vars => IInv'
  BY NextKeeps
<1>2. QED
  BY <1>1, InitIInv, PTL DEF Spec

(* The pool, the stores and the locals of every thread are well formed.    *)
THEOREM PoolAlwaysTyped == Spec => []TypeOK
<1>1. IInv => TypeOK
  BY DEF IInv, Well
<1>2. QED
  BY <1>1, Invariant, PTL

(* The load of a healthy worker is the number of its leases, and a pool at *)
(* rest has none, whatever `release` and `mark_failed` did in between.     *)
THEOREM LoadsAlwaysTellLeases == Spec => []LoadsTellLeases
<1>1. IInv => LoadsTellLeases
  <2> SUFFICES ASSUME IInv PROVE LoadsTellLeases
    OBVIOUS
  <2>1. ASSUME \A s \in Seats : pc[s] \in Resting, NEW w \in Workers
        PROVE  load[w] = 0
    <3>1. Holders(w) = {} /\ Zeroing(w) = {}
      BY <2>1 DEF Holders, Zeroing, Resting
    <3>2. load[w] <= 0 /\ load[w] \in 0..UsizeMax
      BY <3>1, FS_EmptySet DEF IInv, Loaded, NotWrapped, Well, TypeOK
    <3>3. QED
      BY <3>2, WorkerPoolAssumption
  <2>2. QED
    BY <2>1 DEF IInv, Loaded, LoadsTellLeases, QuietPool
<1>2. QED
  BY <1>1, Invariant, PTL

(* In an engine with a cache the record of a candidate is never replaced   *)
(* by that of a later generation (`EvaluationCache`, `commit_candidate`).  *)
THEOREM LineageAlwaysStable == Spec => LineageStable
<1>1. IInv /\ [Next]_vars => [LineageKept]_vars
  BY NextKeeps
<1>2. QED
  BY <1>1, Invariant, PTL DEF Spec, LineageStable, LineageKept, RecordsKept

(* Every step of the threads is a step of the evaluation that the engine   *)
(* expects, or none.                                                       *)
THEOREM EveryStepEvaluates == Spec => StepsEvaluate
<1>1. Init => Abstract!Init
  BY DEF Init, Abstract!Init
<1>2. IInv /\ [Next]_vars => [Abstract!Next]_(Abstract!vars)
  BY NextKeeps
<1>3. QED
  BY <1>1, <1>2, Invariant, PTL DEF Spec, StepsEvaluate
=============================================================================
