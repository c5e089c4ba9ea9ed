--------------------------- MODULE ParetoArchive ---------------------------
(***************************************************************************)
(* The order of Forge's elite archive (evolve.rs, domain.rs): fronts of    *)
(* non-dominated individuals, and within a front the crowding distance.    *)
(* An individual is [id, gen, obj]: its content, the generation that       *)
(* measured it and its two objectives, smaller being better.  Objectives   *)
(* are naturals: quotients of distances are compared by cross products.    *)
(***************************************************************************)
EXTENDS Naturals, Sequences, FiniteSets

(* `Score::dominates`, of two valid scores.                                *)
Dominates(a, b) ==
    /\ a.obj[1] <= b.obj[1] /\ a.obj[2] <= b.obj[2]
    /\ a.obj # b.obj

Members(s) == {s[k] : k \in DOMAIN s}

Place(s, i) == CHOOSE k \in DOMAIN s : s[k] = i

(* The members of a sequence at the given places.                          *)
At(s, places) == [k \in DOMAIN places |-> s[places[k]]]

(* The sequence of a set in a total order: each after those before it.     *)
InOrder(S, Before(_, _)) ==
    [k \in 1..Cardinality(S) |->
        CHOOSE x \in S : Cardinality({y \in S : Before(y, x)}) = k - 1]

Ascending(S) == InOrder(S, LAMBDA i, j : i < j)

(***************************************************************************)
(* The fronts of an archive, as sequences of indices: the first in the     *)
(* order of the archive, each other in the order in which its members lose *)
(* their last dominator.                                                   *)
(***************************************************************************)
Dominators(archive, i) == {j \in DOMAIN archive : Dominates(archive[j], archive[i])}

NextFront(archive, fronts) ==
    LET done == UNION {Members(f) : f \in Members(fronts)}
        last == fronts[Len(fronts)]
        Release(i) == CHOOSE k \in DOMAIN last :
            /\ last[k] \in Dominators(archive, i)
            /\ \A m \in k + 1..Len(last) : last[m] \notin Dominators(archive, i)
        Before(i, j) == Release(i) < Release(j) \/ (Release(i) = Release(j) /\ i < j)
    IN InOrder({i \in DOMAIN archive \ done : Dominators(archive, i) \subseteq done}, Before)

Fronts(archive) ==
    LET peeled[n \in 0..Len(archive)] ==
            IF n = 0 THEN << Ascending({i \in DOMAIN archive : Dominators(archive, i) = {}}) >>
            ELSE LET fronts == peeled[n - 1]
                     next == NextFront(archive, fronts)
                 IN  IF next = <<>> THEN fronts ELSE Append(fronts, next)
    IN peeled[Len(archive)]

(***************************************************************************)
(* Crowding distances of a front: infinite at both ends of each objective  *)
(* and in fronts of one or two, else the sum over the objectives of the    *)
(* gap between the neighbours over the range.                              *)
(***************************************************************************)
Infinite == [ends |-> 1, gap |-> 0]

Distance(archive, front, i) ==
    LET Value(o, j) == archive[j].obj[o]
        Row(o) ==
            LET Before(a, b) ==
                    \/ Value(o, a) < Value(o, b)
                    \/ Value(o, a) = Value(o, b) /\ Place(front, a) < Place(front, b)
            IN InOrder(Members(front), Before)
        n == Len(front)
        Span(o) == Value(o, Row(o)[n]) - Value(o, Row(o)[1])
        Norm(o) == IF Span(o) = 0 THEN 1 ELSE Span(o)
        Gap(o) == LET row == Row(o) k == Place(row, i)
                  IN Value(o, row[k + 1]) - Value(o, row[k - 1])
    IN IF n <= 2 \/ \E o \in 1..2 : Place(Row(o), i) \in {1, n} THEN Infinite
       ELSE [ends |-> 0, gap |-> Gap(1) * Norm(2) + Gap(2) * Norm(1)]

Wider(d, e) == d.ends > e.ends \/ (d.ends = e.ends /\ d.gap > e.gap)

(* Faulty variant: the archive in the order in which it grew.              *)
Unsorted(archive) == archive

(* `sort_by_pareto_domination`: by front, then by distance, a stable sort. *)
ParetoSorted(archive) ==
    LET fronts == Fronts(archive)
        Rank(i) == CHOOSE n \in DOMAIN fronts : i \in Members(fronts[n])
        Key(i) == [index |-> i, rank |-> Rank(i), dist |-> Distance(archive, fronts[Rank(i)], i)]
        Before(x, y) ==
            \/ x.rank < y.rank
            \/ x.rank = y.rank /\ Wider(x.dist, y.dist)
            \/ x.rank = y.rank /\ x.dist = y.dist /\ x.index < y.index
        keys == InOrder({Key(i) : i \in DOMAIN archive}, Before)
    IN IF Len(archive) <= 1 THEN archive
       ELSE At(archive, [k \in DOMAIN keys |-> keys[k].index])

(* `retain`: the first of each id stays.                                   *)
FirstOfEachId(archive) ==
    LET First(i) == \A j \in 1..i - 1 : archive[j].id # archive[i].id
    IN At(archive, Ascending({i \in DOMAIN archive : First(i)}))

(* `cmp_primary`, in a stable sort.                                        *)
ByPrimary(found) ==
    LET Before(i, j) ==
            \/ found[i].obj[1] < found[j].obj[1]
            \/ found[i].obj[1] = found[j].obj[1] /\ i < j
    IN At(found, InOrder(DOMAIN found, Before))

(* Faulty variant: no truncation.                                          *)
ArchivedWhole(archive, found, survivors) ==
    ParetoSorted(FirstOfEachId(archive \o ByPrimary(found)))

(* What a generation makes of the archive.                                 *)
Archived(archive, found, survivors) ==
    LET all == ParetoSorted(FirstOfEachId(archive \o ByPrimary(found)))
        n == IF survivors = 0 THEN 1 ELSE survivors
    IN SubSeq(all, 1, IF Len(all) < n THEN Len(all) ELSE n)

=============================================================================
