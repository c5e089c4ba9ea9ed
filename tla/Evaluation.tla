----------------------------- MODULE Evaluation -----------------------------
(***************************************************************************)
(* What the Forge engine expects of an evaluation of its population: every *)
(* candidate of a generation gets one verdict, and gets it eventually.  A  *)
(* verdict is Invalid, or the score of that very content, measured in this *)
(* generation or, by an engine that keeps scores, in an earlier one.       *)
(***************************************************************************)
EXTENDS Naturals

CONSTANTS Seats,    \* positions of a population
          Ids,      \* contents of a candidate: what its id is a hash of
          NoScore, Invalid,
          MaxGen    \* bound: generations

VARIABLES cached,   \* does the engine keep scores?
          gen,      \* the generation
          pop,      \* the candidate of each seat
          verdict   \* NoScore, Invalid, or [id, gen]: a score, and where from

vars == <<cached, gen, pop, verdict>>

Score(i, g) == [id |-> i, gen |-> g]

Scores == [id : Ids, gen : 0..MaxGen]

Scored == \A s \in Seats : verdict[s] # NoScore

-----------------------------------------------------------------------------
Init ==
    /\ cached \in BOOLEAN
    /\ gen = 0
    /\ pop \in [Seats -> Ids]
    /\ verdict = [s \in Seats |-> NoScore]

(* The generations a score may come from.                                  *)
Sources == IF cached THEN 0..gen ELSE {gen}

Judge(s) ==
    /\ verdict[s] = NoScore
    /\ \E v \in {Invalid} \cup {Score(pop[s], g) : g \in Sources} :
          verdict' = [verdict EXCEPT ![s] = v]
    /\ UNCHANGED <<cached, gen, pop>>

NextGeneration ==
    /\ Scored /\ gen < MaxGen
    /\ gen' = gen + 1
    /\ pop' \in [Seats -> Ids]
    /\ verdict' = [s \in Seats |-> NoScore]
    /\ UNCHANGED cached

Next == (\E s \in Seats : Judge(s)) \/ NextGeneration

Fairness == WF_vars(NextGeneration) /\ \A s \in Seats : WF_vars(Judge(s))

Spec == Init /\ [][Next]_vars /\ Fairness

=============================================================================
