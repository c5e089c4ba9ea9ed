------------------------- MODULE ForgeEngineProofs -------------------------
(***************************************************************************)
(* Theorems about ForgeEngine, for every population, every survivor count  *)
(* and every bound: the order of the archive, which rests on the lemmas    *)
(* about the operators of ParetoArchive, and what it means for a campaign  *)
(* and its checkpoints over crashes and lost commits.                      *)
(***************************************************************************)
EXTENDS ForgeEngine, FiniteSetTheorems, SequenceTheorems, WellFoundedInduction,
        NaturalsInduction, TLAPS

-----------------------------------------------------------------------------
\* Induction over sets of numbers, and the largest of finitely many.

LEMMA SetInduction ==
  ASSUME NEW A, 0 \in A, \A k \in Nat : k \in A => k + 1 \in A
  PROVE  Nat \subseteq A
<1> DEFINE less == OpToRel(<, Nat)
<1>1. IsWellFoundedOn(less, Nat)
  BY NatLessThanWellFounded
<1>2. \A x, y \in Nat : y < x => <<y, x>> \in less
  BY DEF OpToRel
<1> HIDE DEF less
<1> SUFFICES ASSUME Nat \ A # {} PROVE FALSE
  OBVIOUS
<1>3. PICK x \in Nat \ A : \A y \in Nat \ A : ~(<<y, x>> \in less)
  BY <1>1, WFMin
<1>4. x \in Nat /\ x # 0 /\ x - 1 \in Nat /\ x - 1 < x /\ x - 1 + 1 = x
  BY <1>3
<1>5. x - 1 \in A
  BY <1>2, <1>3, <1>4
<1> QED BY <1>3, <1>4, <1>5

\* The smallest value of a function to numbers.
LEMMA SmallestExists ==
  ASSUME NEW T, T # {}, NEW g \in [T -> Nat]
  PROVE  \E x \in T : \A y \in T : g[x] <= g[y]
<1> DEFINE A == {n \in Nat : \A x \in T : g[x] <= n => \E z \in T : \A y \in T : g[z] <= g[y]}
<1>1. 0 \in A
  OBVIOUS
<1>2. ASSUME NEW n \in Nat, n \in A PROVE n + 1 \in A
  <2>1. ASSUME NEW x \in T, g[x] <= n + 1
        PROVE  \E z \in T : \A y \in T : g[z] <= g[y]
    <3>1. CASE \E y \in T : g[y] <= n
      BY <3>1, <1>2
    <3>2. CASE ~ \E y \in T : g[y] <= n
      <4>1. \A y \in T : g[x] <= g[y]
        BY <3>2, <2>1
      <4> QED BY <4>1
    <3> QED BY <3>1, <3>2
  <2> QED BY <2>1
<1> HIDE DEF A
<1>3. Nat \subseteq A
  BY <1>1, <1>2, SetInduction
<1>4. PICK x \in T : TRUE
  OBVIOUS
<1>5. g[x] \in A /\ g[x] <= g[x]
  BY <1>3
<1> QED BY <1>5 DEF A

LEMMA LargestExists ==
  ASSUME NEW n \in Nat, NEW T \in SUBSET (1 .. n), T # {}
  PROVE  \E k \in T : \A m \in T : m <= k
<1> DEFINE g == [x \in T |-> n - x]
<1>1. g \in [T -> Nat]
  OBVIOUS
<1>2. PICK x \in T : \A y \in T : g[x] <= g[y]
  BY <1>1, SmallestExists
<1>3. \A y \in T : n - x <= n - y
  BY <1>2
<1>4. \A y \in T : y <= x
  BY <1>3
<1> QED BY <1>4

-----------------------------------------------------------------------------
\* Members of sequences.

LEMMA MemberAt ==
  ASSUME NEW s, NEW k \in DOMAIN s
  PROVE  s[k] \in Members(s)
BY DEF Members

LEMMA Appended ==
  ASSUME NEW E, NEW q \in Seq(E), NEW x \in E
  PROVE  /\ Append(q, x) \in Seq(E) /\ Len(Append(q, x)) = Len(q) + 1
         /\ DOMAIN Append(q, x) = 1 .. Len(q) + 1 /\ Append(q, x) # << >>
         /\ Append(q, x)[Len(q) + 1] = x
         /\ \A m \in 1 .. Len(q) : Append(q, x)[m] = q[m]
OBVIOUS

LEMMA SeqWider ==
  ASSUME NEW T, NEW S \in SUBSET T, NEW s \in Seq(S)
  PROVE  s \in Seq(T)
OBVIOUS

LEMMA MemberOf ==
  ASSUME NEW s, NEW x \in Members(s)
  PROVE  \E k \in DOMAIN s : s[k] = x
BY DEF Members

-----------------------------------------------------------------------------
\* Sorting.  `R` is a strict total order of `S`; the k-th in order is the one
\* with k - 1 members before it.

Total(S, R) ==
    /\ \A x \in S : <<x, x>> \notin R
    /\ \A x, y, z \in S : <<x, y>> \in R /\ <<y, z>> \in R => <<x, z>> \in R
    /\ \A x, y \in S : x # y => <<x, y>> \in R \/ <<y, x>> \in R

Preds(S, R, x) == {y \in S : <<y, x>> \in R}

Places(S, R) ==
    \A k \in 1 .. Cardinality(S) : \E x \in S : Cardinality(Preds(S, R, x)) = k - 1

LEMMA TotalSubset ==
  ASSUME NEW S, NEW R, Total(S, R), NEW T \in SUBSET S
  PROVE  Total(T, R)
BY DEF Total

\* The last in an order, by the number of those before it.
LEMMA LastOfAll ==
  ASSUME NEW S, IsFiniteSet(S), NEW R, Total(S, R), NEW x \in S,
         Cardinality(Preds(S, R, x)) = Cardinality(S) - 1
  PROVE  \A y \in S \ {x} : <<y, x>> \in R
<1>1. Preds(S, R, x) \subseteq S \ {x}
  BY DEF Preds, Total
<1>2. IsFiniteSet(S \ {x}) /\ Cardinality(S \ {x}) = Cardinality(S) - 1
  BY FS_RemoveElement
<1>3. Preds(S, R, x) = S \ {x}
  BY <1>1, <1>2, FS_Subset
<1> QED BY <1>3 DEF Preds

LEMMA PlacesExist ==
  ASSUME NEW S, IsFiniteSet(S), NEW R, Total(S, R)
  PROVE  Places(S, R)
<1> DEFINE A == {n \in Nat : \A T \in SUBSET S :
                    Cardinality(T) = n => Places(T, R)}
<1>1. 0 \in A
  BY DEF Places
<1>2. ASSUME NEW n \in Nat, n \in A PROVE n + 1 \in A
  <2> SUFFICES ASSUME NEW T \in SUBSET S, Cardinality(T) = n + 1
               PROVE  Places(T, R)
    OBVIOUS
  <2>1. IsFiniteSet(T) /\ Total(T, R)
    BY FS_Subset, TotalSubset
  <2>2. T # {}
    BY <2>1, FS_EmptySet
  <2>3. ASSUME NEW m \in T
        PROVE  IsFiniteSet(T \ {m}) /\ Cardinality(T \ {m}) = n /\ Places(T \ {m}, R)
    <3>1. IsFiniteSet(T \ {m}) /\ Cardinality(T \ {m}) = n
      BY <2>1, FS_RemoveElement
    <3> QED BY <3>1, <1>2
  <2>4. PICK m \in T : \A y \in T \ {m} : <<y, m>> \in R
    <3>1. PICK a \in T : TRUE
      BY <2>2
    <3>2. CASE n = 0
      <4>1. T \ {a} = {}
        BY <2>3, <3>2, FS_EmptySet
      <4> QED BY <4>1
    <3>3. CASE n # 0
      <4> DEFINE U == T \ {a}
      <4>1. IsFiniteSet(U) /\ Cardinality(U) = n /\ Places(U, R) /\ Total(U, R) /\ U \subseteq T
        BY <2>1, <2>3, TotalSubset
      <4>2. n \in 1 .. Cardinality(U)
        BY <3>3, <4>1
      <4> HIDE DEF U
      <4>3. PICK x \in U : Cardinality(Preds(U, R, x)) = n - 1
        BY <4>1, <4>2 DEF Places
      <4>4. \A y \in U \ {x} : <<y, x>> \in R
        BY <4>1, <4>3, LastOfAll
      <4>5. x \in T /\ x # a
        BY DEF U
      <4>6. CASE <<a, x>> \in R
        BY <4>4, <4>5, <4>6 DEF U
      <4>7. CASE <<x, a>> \in R
        <5>1. \A y \in T \ {a} : <<y, a>> \in R
          BY <4>4, <4>5, <4>7, <2>1 DEF U, Total
        <5> QED BY <5>1
      <4> QED BY <4>5, <4>6, <4>7, <2>1 DEF Total
    <3> QED BY <3>2, <3>3
  <2>5. ASSUME NEW k \in 1 .. Cardinality(T)
        PROVE  \E x \in T : Cardinality(Preds(T, R, x)) = k - 1
    <3>1. CASE k = n + 1
      <4>1. Preds(T, R, m) = T \ {m}
        BY <2>1, <2>4 DEF Preds, Total
      <4> QED BY <4>1, <2>3, <3>1
    <3>2. CASE k # n + 1
      <4>1. k \in 1 .. Cardinality(T \ {m})
        BY <2>3, <3>2
      <4>2. PICK x \in T \ {m} : Cardinality(Preds(T \ {m}, R, x)) = k - 1
        BY <2>3, <4>1 DEF Places
      <4>3. <<m, x>> \notin R
        BY <2>1, <2>4 DEF Total
      <4>4. Preds(T, R, x) = Preds(T \ {m}, R, x)
        BY <4>3 DEF Preds
      <4> QED BY <4>2, <4>4
    <3> QED BY <3>1, <3>2
  <2> QED BY <2>5 DEF Places
<1> HIDE DEF A
<1>3. Cardinality(S) \in A
  BY <1>1, <1>2, SetInduction, FS_CardinalityType
<1> QED BY <1>3 DEF A

\* `s` is the sequence of `S` in the order of `R`.
Sorted(s, S, R) ==
    /\ s \in [1 .. Cardinality(S) -> S]
    /\ \A k \in 1 .. Cardinality(S) : Cardinality(Preds(S, R, s[k])) = k - 1

LEMMA MorePreds ==
  ASSUME NEW S, IsFiniteSet(S), NEW R, Total(S, R), NEW x \in S, NEW y \in S, <<x, y>> \in R
  PROVE  /\ Cardinality(Preds(S, R, x)) \in Nat /\ Cardinality(Preds(S, R, y)) \in Nat
         /\ Cardinality(Preds(S, R, x)) < Cardinality(Preds(S, R, y))
<1>1. /\ IsFiniteSet(Preds(S, R, x)) /\ IsFiniteSet(Preds(S, R, y))
      /\ Cardinality(Preds(S, R, x)) \in Nat /\ Cardinality(Preds(S, R, y)) \in Nat
  BY FS_Subset, FS_CardinalityType DEF Preds
<1>2. Preds(S, R, x) \subseteq Preds(S, R, y) /\ x \in Preds(S, R, y) /\ x \notin Preds(S, R, x)
  BY DEF Preds, Total
<1> QED BY <1>1, <1>2, FS_Subset

\* A sorted sequence holds every member once, each after those before it.
LEMMA SortedFacts ==
  ASSUME NEW S, IsFiniteSet(S), NEW R, Total(S, R), NEW s, Sorted(s, S, R)
  PROVE  /\ s \in Seq(S) /\ Len(s) = Cardinality(S) /\ DOMAIN s = 1 .. Cardinality(S)
         /\ Members(s) = S
         /\ \A i, j \in DOMAIN s : i < j => <<s[i], s[j]>> \in R /\ s[i] # s[j]
<1> DEFINE n == Cardinality(S)
<1>1. n \in Nat
  BY FS_CardinalityType
<1>2. s \in [1 .. n -> S] /\ DOMAIN s = 1 .. n
  BY DEF Sorted
<1>3. s \in Seq(S) /\ Len(s) = n
  BY <1>1, <1>2
<1>4. ASSUME NEW x \in S, NEW y \in S,
             Cardinality(Preds(S, R, x)) = Cardinality(Preds(S, R, y))
      PROVE  x = y
  <2>1. <<x, y>> \notin R
    BY <1>4, MorePreds
  <2>2. <<y, x>> \notin R
    BY <1>4, MorePreds
  <2> QED BY <2>1, <2>2 DEF Total
<1>5. \A x \in S : Cardinality(Preds(S, R, x)) \in 0 .. n - 1
  <2> TAKE x \in S
  <2>1. Preds(S, R, x) \subseteq S \ {x}
    BY DEF Preds, Total
  <2>2. IsFiniteSet(S \ {x}) /\ Cardinality(S \ {x}) = n - 1
    BY FS_RemoveElement
  <2>3. /\ Cardinality(Preds(S, R, x)) \in Nat
        /\ Cardinality(Preds(S, R, x)) <= Cardinality(S \ {x})
    BY <2>1, <2>2, FS_Subset, FS_CardinalityType
  <2> QED BY <2>2, <2>3, <1>1
<1>6. Members(s) = S
  <2>1. ASSUME NEW x \in S PROVE x \in Members(s)
    <3> DEFINE c == Cardinality(Preds(S, R, x))
    <3>1. c \in 0 .. n - 1
      BY <1>5
    <3> HIDE DEF c
    <3>2. PICK k \in 1 .. n : k - 1 = c
      BY <3>1, <1>1
    <3>3. s[k] \in S /\ k \in DOMAIN s
      BY <1>2
    <3>4. Cardinality(Preds(S, R, s[k])) = k - 1
      BY DEF Sorted
    <3>5. Cardinality(Preds(S, R, s[k])) = Cardinality(Preds(S, R, x))
      BY <3>2, <3>4 DEF c
    <3>6. s[k] = x
      BY <3>3, <3>5, <1>4
    <3> QED BY <3>3, <3>6, MemberAt
  <2>2. ASSUME NEW x \in Members(s) PROVE x \in S
    BY <1>2 DEF Members
  <2> QED BY <2>1, <2>2
<1>7. ASSUME NEW i \in 1 .. n, NEW j \in 1 .. n, i < j
      PROVE  <<s[i], s[j]>> \in R /\ s[i] # s[j]
  <2>1. s[i] \in S /\ s[j] \in S
    BY <1>2
  <2>2. Cardinality(Preds(S, R, s[i])) = i - 1 /\ Cardinality(Preds(S, R, s[j])) = j - 1
    BY DEF Sorted
  <2>3. s[i] # s[j]
    BY <1>7, <2>2
  <2>4. <<s[j], s[i]>> \notin R
    BY <1>7, <2>1, <2>2, MorePreds
  <2> QED BY <2>1, <2>3, <2>4 DEF Total
<1> QED BY <1>2, <1>3, <1>6, <1>7

-----------------------------------------------------------------------------
\* The orders of the model: by number, and by one value and then another.

Less(S) == {p \in S \X S : p[1] < p[2]}

Lex(S, g, h) ==
    {p \in S \X S : g[p[1]] < g[p[2]] \/ (g[p[1]] = g[p[2]] /\ h[p[1]] < h[p[2]])}

LEMMA LessTotal ==
  ASSUME NEW S \in SUBSET Nat
  PROVE  Total(S, Less(S))
<1>1. \A x, y \in S : <<x, y>> \in Less(S) <=> x < y
  BY DEF Less
<1>2. \A x, y : <<x, y>> \in Less(S) => x \in S /\ y \in S
  BY DEF Less
<1> QED BY <1>1, <1>2 DEF Total

LEMMA LexTotal ==
  ASSUME NEW S, NEW g \in [S -> Int], NEW h \in [S -> Int],
         \A x, y \in S : h[x] = h[y] => x = y
  PROVE  Total(S, Lex(S, g, h))
<1>1. \A x, y \in S : <<x, y>> \in Lex(S, g, h)
                        <=> g[x] < g[y] \/ (g[x] = g[y] /\ h[x] < h[y])
  BY DEF Lex
<1>2. \A x \in S : g[x] \in Int /\ h[x] \in Int
  OBVIOUS
<1>3. \A x \in S : <<x, x>> \notin Lex(S, g, h)
  BY <1>1, <1>2
<1>4. ASSUME NEW x \in S, NEW y \in S, NEW z \in S,
             <<x, y>> \in Lex(S, g, h), <<y, z>> \in Lex(S, g, h)
      PROVE  <<x, z>> \in Lex(S, g, h)
  <2>1. g[x] < g[y] \/ (g[x] = g[y] /\ h[x] < h[y])
    BY <1>1, <1>4
  <2>2. g[y] < g[z] \/ (g[y] = g[z] /\ h[y] < h[z])
    BY <1>1, <1>4
  <2>3. g[x] < g[z] \/ (g[x] = g[z] /\ h[x] < h[z])
    BY <2>1, <2>2, <1>2
  <2> QED BY <2>3, <1>1
<1>5. ASSUME NEW x \in S, NEW y \in S, x # y
      PROVE  <<x, y>> \in Lex(S, g, h) \/ <<y, x>> \in Lex(S, g, h)
  <2>1. h[x] # h[y]
    BY <1>5
  <2> QED BY <2>1, <1>1, <1>2
<1> QED BY <1>3, <1>4, <1>5 DEF Total

\* A strictly increasing sequence of the members of `S`.
Increasing(s, S) ==
    /\ s \in Seq(S) /\ Len(s) = Cardinality(S) /\ Members(s) = S
    /\ \A i, j \in DOMAIN s : i < j => s[i] < s[j]

LEMMA AscendingIs ==
  ASSUME NEW S \in SUBSET Nat, IsFiniteSet(S)
  PROVE  Increasing(Ascending(S), S)
<1> DEFINE s == Ascending(S)
           R == Less(S)
<1>1. Total(S, R)
  BY LessTotal
<1>2. \A x \in S : {y \in S : y < x} = Preds(S, R, x)
  BY DEF Less, Preds
<1>3. Places(S, R)
  BY <1>1, PlacesExist
<1>4. s = [k \in 1 .. Cardinality(S) |->
              CHOOSE x \in S : Cardinality({y \in S : y < x}) = k - 1]
  BY DEF Ascending, InOrder
<1>5. ASSUME NEW k \in 1 .. Cardinality(S)
      PROVE  s[k] \in S /\ Cardinality({y \in S : y < s[k]}) = k - 1
  <2>1. s[k] = CHOOSE x \in S : Cardinality({y \in S : y < x}) = k - 1
    BY <1>4
  <2>2. \E x \in S : Cardinality({y \in S : y < x}) = k - 1
    <3>1. PICK x \in S : Cardinality(Preds(S, R, x)) = k - 1
      BY <1>3 DEF Places
    <3> QED BY <3>1, <1>2
  <2> HIDE DEF s
  <2> QED BY <2>1, <2>2
<1>6. Sorted(s, S, R)
  <2>1. s \in [1 .. Cardinality(S) -> S]
    BY <1>4, <1>5
  <2> HIDE DEF s, R
  <2>2. \A k \in 1 .. Cardinality(S) : Cardinality(Preds(S, R, s[k])) = k - 1
    BY <1>2, <1>5
  <2> QED BY <2>1, <2>2 DEF Sorted
<1> HIDE DEF s
<1>7. /\ s \in Seq(S) /\ Len(s) = Cardinality(S) /\ Members(s) = S
      /\ \A i, j \in DOMAIN s : i < j => <<s[i], s[j]>> \in R
  BY <1>1, <1>6, SortedFacts
<1>8. \A i, j \in DOMAIN s : i < j => s[i] < s[j]
  BY <1>7 DEF Less
<1>9. Increasing(s, S)
  BY <1>7, <1>8 DEF Increasing
<1> QED BY <1>9 DEF s

-----------------------------------------------------------------------------
\* Individuals, and sequences of them at given places.

LEMMA EliteValues ==
  ASSUME NEW e \in Elites
  PROVE  /\ e.obj \in Objectives /\ e.obj = <<e.obj[1], e.obj[2]>>
         /\ e.obj[1] \in Nat /\ e.obj[2] \in Nat /\ e.id \in Ids
<1>1. e.obj \in Objectives /\ e.id \in Ids
  BY DEF Elites
<1>2. e.obj \in Nat \X Nat
  BY <1>1, ForgeEngineAssumption
<1> QED BY <1>1, <1>2

LEMMA AtFacts ==
  ASSUME NEW E, NEW a \in Seq(E), NEW p \in Seq(DOMAIN a)
  PROVE  /\ At(a, p) \in Seq(E) /\ Len(At(a, p)) = Len(p) /\ DOMAIN At(a, p) = DOMAIN p
         /\ \A k \in DOMAIN p : At(a, p)[k] = a[p[k]] /\ p[k] \in DOMAIN a
         /\ Members(At(a, p)) = {a[i] : i \in Members(p)}
<1>1. \A k \in DOMAIN p : p[k] \in DOMAIN a /\ a[p[k]] \in E
  OBVIOUS
<1>2. DOMAIN p = 1 .. Len(p) /\ Len(p) \in Nat
  OBVIOUS
<1>3. At(a, p) \in Seq(E) /\ Len(At(a, p)) = Len(p) /\ DOMAIN At(a, p) = DOMAIN p
  BY <1>1, <1>2 DEF At
<1>4. \A k \in DOMAIN p : At(a, p)[k] = a[p[k]]
  BY DEF At
<1>5. Members(At(a, p)) = {a[i] : i \in Members(p)}
  BY <1>3, <1>4 DEF Members
<1> QED BY <1>1, <1>3, <1>4, <1>5

LEMMA ByPrimaryFacts ==
  ASSUME NEW found \in Seq(Elites)
  PROVE  ByPrimary(found) \in Seq(Elites) /\ Members(ByPrimary(found)) = Members(found)
<1> DEFINE S == DOMAIN found
           Before(i, j) ==
                \/ found[i].obj[1] < found[j].obj[1]
                \/ found[i].obj[1] = found[j].obj[1] /\ i < j
           g == [i \in S |-> found[i].obj[1]]
           h == [i \in S |-> i]
           R == Lex(S, g, h)
           s == InOrder(S, Before)
<1>1. S = 1 .. Len(found) /\ Len(found) \in Nat /\ IsFiniteSet(S)
  BY FS_Interval
<1>2. g \in [S -> Int] /\ h \in [S -> Int] /\ \A x, y \in S : h[x] = h[y] => x = y
  BY EliteValues, <1>1
<1>3. Total(S, R)
  BY <1>2, LexTotal
<1>4. ASSUME NEW x \in S PROVE {y \in S : Before(y, x)} = Preds(S, R, x)
  <2>1. \A y \in S : Before(y, x) <=> <<y, x>> \in R
    BY DEF Lex
  <2> QED BY <2>1 DEF Preds
<1>5. s = [k \in 1 .. Cardinality(S) |->
              CHOOSE x \in S : Cardinality({y \in S : Before(y, x)}) = k - 1]
  BY DEF InOrder
<1> HIDE DEF S, Before, R, s
<1>6. Places(S, R)
  BY <1>1, <1>3, PlacesExist
<1>7. ASSUME NEW k \in 1 .. Cardinality(S)
      PROVE  s[k] \in S /\ Cardinality({y \in S : Before(y, s[k])}) = k - 1
  <2>1. s[k] = CHOOSE x \in S : Cardinality({y \in S : Before(y, x)}) = k - 1
    BY <1>5
  <2>2. \E x \in S : Cardinality({y \in S : Before(y, x)}) = k - 1
    <3>1. PICK x \in S : Cardinality(Preds(S, R, x)) = k - 1
      BY <1>6 DEF Places
    <3> QED BY <3>1, <1>4
  <2> QED BY <2>1, <2>2
<1>8. Sorted(s, S, R)
  <2>1. s \in [1 .. Cardinality(S) -> S]
    BY <1>5, <1>7
  <2>2. \A k \in 1 .. Cardinality(S) : Cardinality(Preds(S, R, s[k])) = k - 1
    BY <1>4, <1>7
  <2> QED BY <2>1, <2>2 DEF Sorted
<1>9. s \in Seq(S) /\ Members(s) = S
  BY <1>1, <1>3, <1>8, SortedFacts
<1>10. ByPrimary(found) = At(found, s)
  BY DEF ByPrimary, s, S, Before
<1>11. Members(found) = {found[i] : i \in S}
  BY DEF Members, S
<1> QED BY <1>9, <1>10, <1>11, AtFacts DEF S

-----------------------------------------------------------------------------
\* Domination is a strict order, along which the sum of the objectives rises.

Weight(e) == e.obj[1] + e.obj[2]

LEMMA DominatesOrder ==
  ASSUME NEW e \in Elites, NEW f \in Elites
  PROVE  /\ Weight(e) \in Nat
         /\ ~Dominates(e, e)
         /\ Dominates(e, f) => Weight(e) < Weight(f)
         /\ \A g \in Elites : Dominates(e, f) /\ Dominates(f, g) => Dominates(e, g)
<1>1. /\ e.obj = <<e.obj[1], e.obj[2]>> /\ e.obj[1] \in Nat /\ e.obj[2] \in Nat
      /\ f.obj = <<f.obj[1], f.obj[2]>> /\ f.obj[1] \in Nat /\ f.obj[2] \in Nat
  BY EliteValues
<1>2. e.obj # f.obj => e.obj[1] # f.obj[1] \/ e.obj[2] # f.obj[2]
  BY <1>1
<1>3. Dominates(e, f) => Weight(e) < Weight(f)
  BY <1>1, <1>2 DEF Dominates, Weight
<1>4. ASSUME NEW g \in Elites, Dominates(e, f), Dominates(f, g) PROVE Dominates(e, g)
  <2>1. g.obj[1] \in Nat /\ g.obj[2] \in Nat
    BY EliteValues
  <2>2. e.obj[1] <= g.obj[1] /\ e.obj[2] <= g.obj[2]
    BY <1>1, <1>4, <2>1 DEF Dominates
  <2>3. e.obj[1] < f.obj[1] \/ e.obj[2] < f.obj[2]
    BY <1>1, <1>2, <1>4 DEF Dominates
  <2>4. f.obj[1] <= g.obj[1] /\ f.obj[2] <= g.obj[2]
    BY <1>4 DEF Dominates
  <2>5. e.obj[1] # g.obj[1] \/ e.obj[2] # g.obj[2]
    BY <1>1, <2>1, <2>3, <2>4
  <2> QED BY <2>2, <2>5 DEF Dominates
<1> QED BY <1>1, <1>3, <1>4 DEF Weight, Dominates

-----------------------------------------------------------------------------
\* The fronts.

Done(f) == UNION {Members(g) : g \in Members(f)}

Ready(a, f) == {i \in DOMAIN a \ Done(f) : Dominators(a, i) \subseteq Done(f)}

\* A front: members of the archive, none twice.
Front(a, s) == s \in Seq(DOMAIN a) /\ Len(s) = Cardinality(Members(s))

\* The fronts so far: each individual is in one front at most, its dominators
\* are in earlier ones, and what is not in any front is not free unless one of
\* its dominators is in the last.
FrontsOK(a, f) ==
    /\ f \in Seq(Seq(DOMAIN a)) /\ f # << >>
    /\ \A m \in DOMAIN f : Front(a, f[m])
    /\ \A m \in DOMAIN f : \A i \in Members(f[m]) : \A j \in Dominators(a, i) :
          \E l \in DOMAIN f : l < m /\ j \in Members(f[l])
    /\ \A m, l \in DOMAIN f : m # l => Members(f[m]) \cap Members(f[l]) = {}
    /\ \A i \in DOMAIN a \ Done(f) : \E j \in Dominators(a, i) :
          j \notin Done(f) \/ j \in Members(f[Len(f)])

LEMMA DoneIs ==
  ASSUME NEW f
  PROVE  \A x : x \in Done(f) <=> \E m \in DOMAIN f : x \in Members(f[m])
BY DEF Done, Members

LEMMA DoneInside ==
  ASSUME NEW a, NEW f, FrontsOK(a, f)
  PROVE  Done(f) \subseteq DOMAIN a
<1>1. \A m \in DOMAIN f : f[m] \in Seq(DOMAIN a)
  BY DEF FrontsOK, Front
<1>2. ASSUME NEW m \in DOMAIN f, NEW x \in Members(f[m]) PROVE x \in DOMAIN a
  <2>1. PICK k \in DOMAIN f[m] : f[m][k] = x
    BY MemberOf
  <2> QED BY <2>1, <1>1
<1> QED BY <1>2, DoneIs

LEMMA IncreasingFront ==
  ASSUME NEW a \in Seq(Elites), NEW S \in SUBSET (DOMAIN a), NEW s, Increasing(s, S)
  PROVE  Front(a, s) /\ Members(s) = S
<1>1. s \in Seq(DOMAIN a)
  BY DEF Increasing
<1> QED BY <1>1 DEF Increasing, Front

LEMMA DominatorsIn ==
  ASSUME NEW a, NEW i
  PROVE  /\ Dominators(a, i) \subseteq DOMAIN a
         /\ \A j \in DOMAIN a : j \in Dominators(a, i) <=> Dominates(a[j], a[i])
BY DEF Dominators

LEMMA FirstFront ==
  ASSUME NEW a \in Seq(Elites)
  PROVE  FrontsOK(a, << Ascending({i \in DOMAIN a : Dominators(a, i) = {}}) >>)
<1> DEFINE S == {i \in DOMAIN a : Dominators(a, i) = {}}
           s == Ascending(S)
           f == << s >>
<1>1. S \in SUBSET Nat /\ S \in SUBSET (DOMAIN a) /\ IsFiniteSet(S)
  <2>1. DOMAIN a = 1 .. Len(a) /\ IsFiniteSet(1 .. Len(a))
    BY FS_Interval
  <2> QED BY <2>1, FS_Subset
<1>2. Increasing(s, S)
  BY <1>1, AscendingIs
<1>3. Front(a, s) /\ Members(s) = S
  BY <1>1, <1>2, IncreasingFront
<1>4. \A i \in S : Dominators(a, i) = {}
  OBVIOUS
<1>5. \A i \in DOMAIN a \ S : Dominators(a, i) # {}
  OBVIOUS
<1> HIDE DEF S, s
<1>6. DOMAIN f = {1} /\ f[1] = s /\ Len(f) = 1 /\ f # << >>
  OBVIOUS
<1>7. f \in Seq(Seq(DOMAIN a))
  BY <1>3 DEF Front
<1>8. Done(f) = S
  <2>1. \A x : x \in Done(f) <=> \E m \in DOMAIN f : x \in Members(f[m])
    BY DoneIs
  <2>2. \A x : x \in Done(f) <=> x \in S
    BY <2>1, <1>3, <1>6
  <2> QED BY <2>2
<1> HIDE DEF f
<1>9. \A m \in DOMAIN f : Front(a, f[m])
  BY <1>3, <1>6
<1>10. \A m \in DOMAIN f : \A i \in Members(f[m]) : Dominators(a, i) = {}
  BY <1>3, <1>4, <1>6
<1>11. \A m, l \in DOMAIN f : m = l
  BY <1>6
<1>12. \A i \in DOMAIN a \ Done(f) : \E j \in Dominators(a, i) : j \notin Done(f) \/ j \in Members(f[Len(f)])
  BY <1>3, <1>5, <1>6, <1>8
<1>13. FrontsOK(a, f)
  BY <1>6, <1>7, <1>9, <1>10, <1>11, <1>12 DEF FrontsOK
<1> QED BY <1>13 DEF f, s, S

\* Something is ready as long as something is left.
LEMMA SomethingReady ==
  ASSUME NEW a \in Seq(Elites), NEW f, DOMAIN a \ Done(f) # {}
  PROVE  Ready(a, f) # {}
<1> DEFINE T == DOMAIN a \ Done(f)
           g == [i \in T |-> Weight(a[i])]
<1>1. \A i \in DOMAIN a : a[i] \in Elites
  OBVIOUS
<1>2. g \in [T -> Nat]
  BY <1>1, DominatesOrder
<1>3. PICK x \in T : \A y \in T : g[x] <= g[y]
  BY <1>2, SmallestExists
<1>4. \A y \in T : Weight(a[x]) <= Weight(a[y])
  BY <1>3
<1>5. ASSUME NEW j \in Dominators(a, x), j \notin Done(f) PROVE FALSE
  <2>1. j \in T /\ Dominates(a[j], a[x])
    BY <1>5, DominatorsIn
  <2>2. Weight(a[j]) < Weight(a[x]) /\ Weight(a[j]) \in Nat /\ Weight(a[x]) \in Nat
    BY <1>1, <2>1, DominatesOrder
  <2> QED BY <1>4, <2>1, <2>2
<1>6. x \in Ready(a, f)
  BY <1>5 DEF Ready
<1> QED BY <1>6

LEMMA AppendedFront ==
  ASSUME NEW a \in Seq(Elites), NEW f, FrontsOK(a, f),
         NEW s, Front(a, s), Members(s) = Ready(a, f)
  PROVE  /\ FrontsOK(a, Append(f, s))
         /\ Done(Append(f, s)) = Done(f) \cup Ready(a, f)
<1> DEFINE h == Append(f, s)
           n == Len(f)
<1>1. /\ f \in Seq(Seq(DOMAIN a)) /\ n \in Nat /\ DOMAIN f = 1 .. n
      /\ s \in Seq(DOMAIN a)
  BY DEF FrontsOK, Front
<1>2. /\ h \in Seq(Seq(DOMAIN a)) /\ Len(h) = n + 1 /\ DOMAIN h = 1 .. n + 1 /\ h # << >>
      /\ h[n + 1] = s /\ \A m \in 1 .. n : h[m] = f[m]
  <2> DEFINE E == Seq(DOMAIN a)
  <2>1. f \in Seq(E) /\ s \in E
    BY <1>1
  <2> HIDE DEF E
  <2>2. h \in Seq(E) /\ Len(h) = n + 1 /\ DOMAIN h = 1 .. n + 1 /\ h # << >>
    BY <2>1, Appended
  <2>3. h[n + 1] = s /\ \A m \in 1 .. n : h[m] = f[m]
    BY <2>1, Appended
  <2> QED BY <2>2, <2>3 DEF E
<1> HIDE DEF h, n
<1>3. \A m \in DOMAIN h : m = n + 1 \/ m \in DOMAIN f
  BY <1>1, <1>2
<1>4. n + 1 \in DOMAIN h /\ \A m \in DOMAIN f : m \in DOMAIN h /\ m < n + 1 /\ h[m] = f[m]
  BY <1>1, <1>2
<1>5. Done(h) = Done(f) \cup Ready(a, f)
  <2>1. \A x : x \in Done(h) <=> x \in Done(f) \/ x \in Members(s)
    BY <1>2, <1>3, <1>4, DoneIs
  <2> QED BY <2>1
<1>6. \A m \in DOMAIN h : Front(a, h[m])
  BY <1>2, <1>3, <1>4 DEF FrontsOK
<1>7. ASSUME NEW m \in DOMAIN h, NEW i \in Members(h[m]), NEW j \in Dominators(a, i)
      PROVE  \E l \in DOMAIN h : l < m /\ j \in Members(h[l])
  <2>1. CASE m = n + 1
    <3>1. j \in Done(f)
      BY <2>1, <1>2, <1>7 DEF Ready
    <3>2. PICK l \in DOMAIN f : j \in Members(f[l])
      BY <3>1, DoneIs
    <3> QED BY <3>2, <1>4, <2>1
  <2>2. CASE m \in DOMAIN f
    <3>1. i \in Members(f[m])
      BY <2>2, <1>4, <1>7
    <3>2. PICK l \in DOMAIN f : l < m /\ j \in Members(f[l])
      BY <2>2, <3>1, <1>7 DEF FrontsOK
    <3> QED BY <3>2, <1>4
  <2> QED BY <2>1, <2>2, <1>3
<1>8. ASSUME NEW m \in DOMAIN h, NEW l \in DOMAIN h, m # l, NEW x,
             x \in Members(h[m]), x \in Members(h[l])
      PROVE  FALSE
  <2>1. x \in Members(s) => x \notin Done(f)
    BY DEF Ready
  <2>2. \A k \in DOMAIN f : x \in Members(f[k]) => x \in Done(f)
    BY DoneIs
  <2>3. CASE m \in DOMAIN f /\ l \in DOMAIN f
    BY <2>3, <1>4, <1>8 DEF FrontsOK
  <2>4. CASE m = n + 1 /\ l \in DOMAIN f
    BY <2>1, <2>2, <2>4, <1>2, <1>4, <1>8
  <2>5. CASE l = n + 1 /\ m \in DOMAIN f
    BY <2>1, <2>2, <2>5, <1>2, <1>4, <1>8
  <2> QED BY <2>3, <2>4, <2>5, <1>3, <1>8
<1>9. ASSUME NEW i \in DOMAIN a \ Done(h)
      PROVE  \E j \in Dominators(a, i) : j \notin Done(h) \/ j \in Members(h[Len(h)])
  <2>1. i \in DOMAIN a /\ i \notin Done(f) /\ i \notin Ready(a, f)
    BY <1>5
  <2>2. PICK j \in Dominators(a, i) : j \notin Done(f)
    BY <2>1 DEF Ready
  <2>3. j \notin Done(h) \/ j \in Members(h[Len(h)])
    BY <2>2, <1>2, <1>5
  <2> QED BY <2>3
<1>10. \A m, l \in DOMAIN h : m # l => Members(h[m]) \cap Members(h[l]) = {}
  BY <1>8
<1>11. FrontsOK(a, h)
  BY <1>2, <1>6, <1>7, <1>9, <1>10 DEF FrontsOK
<1> QED BY <1>5, <1>11 DEF h

\* The front that is peeled next, in the order in which its members lose their
\* last dominator.
LEMMA NextFrontIs ==
  ASSUME NEW a \in Seq(Elites), NEW f, FrontsOK(a, f)
  PROVE  Front(a, NextFront(a, f)) /\ Members(NextFront(a, f)) = Ready(a, f)
<1> DEFINE done == UNION {Members(g) : g \in Members(f)}
           last == f[Len(f)]
           Release(i) == CHOOSE k \in DOMAIN last :
               /\ last[k] \in Dominators(a, i)
               /\ \A m \in k + 1..Len(last) : last[m] \notin Dominators(a, i)
           Before(i, j) == Release(i) < Release(j) \/ (Release(i) = Release(j) /\ i < j)
           S == {i \in DOMAIN a \ done : Dominators(a, i) \subseteq done}
           s == InOrder(S, Before)
           g == [i \in S |-> Release(i)]
           h == [i \in S |-> i]
           R == Lex(S, g, h)
<1>1. NextFront(a, f) = s
  BY DEF NextFront
<1>2. S = Ready(a, f) /\ done = Done(f)
  BY DEF Ready, Done
<1>3. S \in SUBSET Nat /\ S \in SUBSET (DOMAIN a) /\ IsFiniteSet(S)
  <2>1. DOMAIN a = 1 .. Len(a) /\ IsFiniteSet(1 .. Len(a))
    BY FS_Interval
  <2> QED BY <2>1, FS_Subset
<1>4. last \in Seq(DOMAIN a) /\ DOMAIN last = 1 .. Len(last) /\ Len(last) \in Nat
  <2>1. f \in Seq(Seq(DOMAIN a)) /\ f # << >>
    BY DEF FrontsOK
  <2>2. Len(f) \in DOMAIN f
    BY <2>1
  <2>3. last \in Seq(DOMAIN a)
    BY <2>1, <2>2
  <2> HIDE DEF last
  <2> QED BY <2>3
<1>5. s = [k \in 1 .. Cardinality(S) |->
              CHOOSE x \in S : Cardinality({y \in S : Before(y, x)}) = k - 1]
  BY DEF InOrder
<1>6. ASSUME NEW i \in S PROVE Release(i) \in Nat
  <2> DEFINE T == {k \in DOMAIN last : last[k] \in Dominators(a, i)}
  <2>1. i \in DOMAIN a \ Done(f) /\ Dominators(a, i) \subseteq Done(f)
    BY <1>2
  <2>2. PICK j \in Dominators(a, i) : j \notin Done(f) \/ j \in Members(last)
    BY <2>1 DEF FrontsOK
  <2>3. j \in Members(last)
    BY <2>1, <2>2
  <2>4. T # {}
    BY <2>2, <2>3, MemberOf
  <2>5. T \in SUBSET (1 .. Len(last))
    BY <1>4
  <2>6. \A k \in T : k \in DOMAIN last /\ last[k] \in Dominators(a, i)
    OBVIOUS
  <2>7. \A k \in DOMAIN last : last[k] \in Dominators(a, i) => k \in T
    OBVIOUS
  <2> HIDE DEF T, last
  <2>8. PICK k \in T : \A m \in T : m <= k
    BY <1>4, <2>4, <2>5, LargestExists
  <2>9. ASSUME NEW m \in k + 1 .. Len(last) PROVE last[m] \notin Dominators(a, i)
    <3>1. k \in 1 .. Len(last) /\ m \in 1 .. Len(last) /\ ~(m <= k)
      BY <2>5, <1>4
    <3> QED BY <3>1, <1>4, <2>7, <2>8
  <2>10. \E k_1 \in DOMAIN last :
            /\ last[k_1] \in Dominators(a, i)
            /\ \A m \in k_1 + 1 .. Len(last) : last[m] \notin Dominators(a, i)
    BY <2>6, <2>9
  <2>11. Release(i) \in DOMAIN last
    BY <2>10
  <2> QED BY <2>11, <1>4
<1> HIDE DEF Release, done, last, S, s
<1>7. Total(S, R)
  <2>1. g \in [S -> Int] /\ h \in [S -> Int]
    BY <1>3, <1>6
  <2>2. \A x, y \in S : h[x] = h[y] => x = y
    OBVIOUS
  <2> HIDE DEF g, h
  <2> QED BY <2>1, <2>2, LexTotal
<1>8. ASSUME NEW x \in S PROVE {y \in S : Before(y, x)} = Preds(S, R, x)
  <2>1. \A y \in S : Before(y, x) <=> <<y, x>> \in R
    BY DEF Lex
  <2> QED BY <2>1 DEF Preds
<1> HIDE DEF Before, R
<1>9. Places(S, R)
  BY <1>3, <1>7, PlacesExist
<1>10. ASSUME NEW k \in 1 .. Cardinality(S)
       PROVE  s[k] \in S /\ Cardinality({y \in S : Before(y, s[k])}) = k - 1
  <2>1. s[k] = CHOOSE x \in S : Cardinality({y \in S : Before(y, x)}) = k - 1
    BY <1>5
  <2>2. \E x \in S : Cardinality({y \in S : Before(y, x)}) = k - 1
    <3>1. PICK x \in S : Cardinality(Preds(S, R, x)) = k - 1
      BY <1>9 DEF Places
    <3> QED BY <3>1, <1>8
  <2> QED BY <2>1, <2>2
<1>11. Sorted(s, S, R)
  <2>1. s \in [1 .. Cardinality(S) -> S]
    BY <1>5, <1>10
  <2>2. \A k \in 1 .. Cardinality(S) : Cardinality(Preds(S, R, s[k])) = k - 1
    BY <1>8, <1>10
  <2> QED BY <2>1, <2>2 DEF Sorted
<1>12. s \in Seq(S) /\ Len(s) = Cardinality(S) /\ Members(s) = S
  BY <1>3, <1>7, <1>11, SortedFacts
<1>13. s \in Seq(DOMAIN a)
  BY <1>3, <1>12, SeqWider
<1> QED BY <1>1, <1>2, <1>12, <1>13 DEF Front

Peel(a, f) == IF NextFront(a, f) = << >> THEN f ELSE Append(f, NextFront(a, f))

LEMMA Peeled ==
  ASSUME NEW a \in Seq(Elites), NEW f, FrontsOK(a, f)
  PROVE  FrontsOK(a, Peel(a, f)) /\ Done(Peel(a, f)) = Done(f) \cup Ready(a, f)
<1>1. Front(a, NextFront(a, f)) /\ Members(NextFront(a, f)) = Ready(a, f)
  BY NextFrontIs
<1>2. CASE NextFront(a, f) = << >>
  <2>1. Members(<< >>) = {}
    BY DEF Members
  <2>2. Ready(a, f) = {} /\ Peel(a, f) = f
    BY <1>1, <1>2, <2>1 DEF Peel
  <2> QED BY <2>2
<1>3. CASE NextFront(a, f) # << >>
  BY <1>1, <1>3, AppendedFront DEF Peel
<1> QED BY <1>2, <1>3

\* `n` steps of a loop.
Iterated(F, n, D, base, G) ==
    F \in [0 .. n -> D] /\ F[0] = base /\ \A m \in 1 .. n : F[m] = G[F[m - 1]]

LEMMA IterationExists ==
  ASSUME NEW D, NEW base \in D, NEW G \in [D -> D], NEW n \in Nat
  PROVE  \E F : Iterated(F, n, D, base, G)
<1> DEFINE A == {k \in Nat : \E F : Iterated(F, k, D, base, G)}
<1>1. 0 \in A
  <2> DEFINE F == [k \in 0 .. 0 |-> base]
  <2>1. F \in [0 .. 0 -> D] /\ F[0] = base
    OBVIOUS
  <2> HIDE DEF F
  <2>2. Iterated(F, 0, D, base, G)
    BY <2>1 DEF Iterated
  <2> QED BY <2>2
<1>2. ASSUME NEW k \in Nat, k \in A PROVE k + 1 \in A
  <2>1. PICK F : Iterated(F, k, D, base, G)
    BY <1>2
  <2> DEFINE H == [m \in 0 .. k + 1 |-> IF m = k + 1 THEN G[F[k]] ELSE F[m]]
  <2>2. F \in [0 .. k -> D] /\ F[0] = base /\ \A m \in 1 .. k : F[m] = G[F[m - 1]]
    BY <2>1 DEF Iterated
  <2>3. F[k] \in D /\ G[F[k]] \in D
    BY <2>2
  <2>4. H \in [0 .. k + 1 -> D] /\ H[0] = base /\ H[k + 1] = G[F[k]]
    BY <2>2, <2>3
  <2>5. \A m \in 0 .. k : H[m] = F[m]
    OBVIOUS
  <2> HIDE DEF H
  <2>6. ASSUME NEW m \in 1 .. k + 1 PROVE H[m] = G[H[m - 1]]
    <3>1. m - 1 \in 0 .. k /\ H[m - 1] = F[m - 1]
      BY <2>5
    <3>2. CASE m = k + 1
      BY <3>1, <3>2, <2>4
    <3>3. CASE m # k + 1
      <4>1. m \in 1 .. k /\ m \in 0 .. k
        BY <3>3
      <4> QED BY <4>1, <3>1, <2>2, <2>5
    <3> QED BY <3>2, <3>3
  <2>7. Iterated(H, k + 1, D, base, G)
    BY <2>4, <2>6 DEF Iterated
  <2> QED BY <2>7
<1> HIDE DEF A
<1>3. n \in A
  BY <1>1, <1>2, SetInduction
<1> QED BY <1>3 DEF A

\* The fronts of an archive hold each of its members.
LEMMA FrontsFacts ==
  ASSUME NEW a \in Seq(Elites)
  PROVE  FrontsOK(a, Fronts(a)) /\ Done(Fronts(a)) = DOMAIN a
<1> DEFINE n == Len(a)
<1>2. n \in Nat /\ DOMAIN a = 1 .. n /\ IsFiniteSet(DOMAIN a) /\ Cardinality(DOMAIN a) = n
  <2>1. n \in Nat /\ DOMAIN a = 1 .. n
    OBVIOUS
  <2> HIDE DEF n
  <2> QED BY <2>1, FS_Interval
<1> DEFINE base == << Ascending({i \in DOMAIN a : Dominators(a, i) = {}}) >>
           D == {f \in Seq(Seq(DOMAIN a)) : FrontsOK(a, f)}
           G == [f \in D |-> Peel(a, f)]
           Body(P) == [m \in 0 .. n |-> IF m = 0 THEN base
                         ELSE IF NextFront(a, P[m - 1]) = << >> THEN P[m - 1]
                              ELSE Append(P[m - 1], NextFront(a, P[m - 1]))]
           P == CHOOSE Q : Q = Body(Q)
<1>1. Fronts(a) = P[n]
  BY DEF Fronts
<1>3. base \in D
  BY FirstFront DEF FrontsOK
<1>4. G \in [D -> D]
  <2>1. ASSUME NEW f \in D PROVE Peel(a, f) \in D
    <3>1. FrontsOK(a, Peel(a, f))
      BY Peeled
    <3> QED BY <3>1 DEF FrontsOK
  <2> QED BY <2>1
<1>5. \A Q : Body(Q) = [m \in 0 .. n |-> IF m = 0 THEN base ELSE Peel(a, Q[m - 1])]
  BY DEF Peel
<1>6. \A f \in D : G[f] = Peel(a, f) /\ FrontsOK(a, f)
  OBVIOUS
<1> HIDE DEF D, G, base, n, Body
<1>7. PICK F : Iterated(F, n, D, base, G)
  BY <1>2, <1>3, <1>4, IterationExists
<1>8. F = Body(F)
  <2>1. F \in [0 .. n -> D] /\ F[0] = base /\ \A m \in 1 .. n : F[m] = G[F[m - 1]]
    BY <1>7 DEF Iterated
  <2>2. ASSUME NEW m \in 0 .. n
        PROVE  F[m] = IF m = 0 THEN base ELSE Peel(a, F[m - 1])
    <3>1. CASE m = 0
      BY <3>1, <2>1
    <3>2. CASE m # 0
      <4>1. m \in 1 .. n /\ m - 1 \in 0 .. n
        BY <3>2, <1>2
      <4>2. F[m - 1] \in D /\ F[m] = G[F[m - 1]]
        BY <4>1, <2>1
      <4> QED BY <4>2, <1>6, <3>2
    <3> QED BY <3>1, <3>2
  <2> QED BY <2>1, <2>2, <1>5
<1>9. P = Body(P)
  BY <1>8
<1>10. P = [m \in 0 .. n |-> IF m = 0 THEN base ELSE Peel(a, P[m - 1])]
  BY <1>5, <1>9
<1> HIDE DEF P
<1> DEFINE A == {m \in Nat : m <= n =>
                    /\ FrontsOK(a, P[m])
                    /\ Done(P[m]) = DOMAIN a
                       \/ (IsFiniteSet(Done(P[m])) /\ Cardinality(Done(P[m])) >= m)}
<1>11. 0 \in A
  <2>1. P[0] = base
    BY <1>2, <1>10
  <2>2. FrontsOK(a, base)
    BY <1>3, <1>6
  <2>3. Done(base) \subseteq DOMAIN a
    BY <2>2, DoneInside
  <2>4. IsFiniteSet(Done(base)) /\ Cardinality(Done(base)) \in Nat
    BY <2>3, <1>2, FS_Subset, FS_CardinalityType
  <2> QED BY <2>1, <2>2, <2>4
<1>12. ASSUME NEW m \in Nat, m \in A PROVE m + 1 \in A
  <2> SUFFICES ASSUME m + 1 <= n
               PROVE  /\ FrontsOK(a, P[m + 1])
                      /\ Done(P[m + 1]) = DOMAIN a
                         \/ (IsFiniteSet(Done(P[m + 1])) /\ Cardinality(Done(P[m + 1])) >= m + 1)
    OBVIOUS
  <2>1. P[m + 1] = Peel(a, P[m])
    <3>1. \A k \in 0 .. n : P[k] = IF k = 0 THEN base ELSE Peel(a, P[k - 1])
      BY <1>10
    <3>2. PICK k \in 0 .. n : k = m + 1
      BY <1>2
    <3>3. k # 0 /\ k - 1 = m
      BY <3>2
    <3>4. P[k] = Peel(a, P[m])
      BY <3>1, <3>3
    <3> QED BY <3>2, <3>4
  <2>2. /\ FrontsOK(a, P[m])
        /\ Done(P[m]) = DOMAIN a \/ (IsFiniteSet(Done(P[m])) /\ Cardinality(Done(P[m])) >= m)
    BY <1>2, <1>12
  <2>3. FrontsOK(a, P[m + 1]) /\ Done(P[m + 1]) = Done(P[m]) \cup Ready(a, P[m])
    BY <2>1, <2>2, Peeled
  <2>4. Done(P[m]) \subseteq DOMAIN a /\ Done(P[m + 1]) \subseteq DOMAIN a
    BY <2>2, <2>3, DoneInside
  <2>5. CASE Done(P[m]) = DOMAIN a
    BY <2>3, <2>4, <2>5
  <2>6. CASE Done(P[m]) # DOMAIN a
    <3>1. PICK x \in Ready(a, P[m]) : TRUE
      BY <2>4, <2>6, SomethingReady
    <3>2. x \notin Done(P[m]) /\ x \in Done(P[m + 1])
      BY <3>1, <2>3 DEF Ready
    <3>3. IsFiniteSet(Done(P[m])) /\ IsFiniteSet(Done(P[m + 1]))
      BY <2>4, <1>2, FS_Subset
    <3>4. /\ Cardinality(Done(P[m]) \cup {x}) = Cardinality(Done(P[m])) + 1
          /\ IsFiniteSet(Done(P[m]) \cup {x})
      BY <3>2, <3>3, FS_AddElement
    <3>5. Done(P[m]) \cup {x} \subseteq Done(P[m + 1])
      BY <3>2, <2>3
    <3>6. Cardinality(Done(P[m]) \cup {x}) <= Cardinality(Done(P[m + 1]))
      BY <3>3, <3>5, FS_Subset
    <3>7. /\ Cardinality(Done(P[m])) \in Nat /\ Cardinality(Done(P[m + 1])) \in Nat
          /\ Cardinality(Done(P[m])) >= m
      BY <2>2, <2>6, <3>3, FS_CardinalityType
    <3>8. Cardinality(Done(P[m + 1])) >= m + 1
      BY <3>4, <3>6, <3>7
    <3> QED BY <2>3, <3>3, <3>8
  <2> QED BY <2>5, <2>6
<1> HIDE DEF A
<1>13. n \in A
  BY <1>2, <1>11, <1>12, SetInduction
<1>14. /\ FrontsOK(a, P[n])
       /\ Done(P[n]) = DOMAIN a \/ (IsFiniteSet(Done(P[n])) /\ Cardinality(Done(P[n])) >= n)
  BY <1>2, <1>13 DEF A
<1>15. Done(P[n]) = DOMAIN a
  <2>1. Done(P[n]) \subseteq DOMAIN a
    BY <1>14, DoneInside
  <2>2. CASE Cardinality(Done(P[n])) >= n
    <3>1. Cardinality(Done(P[n])) <= n /\ Cardinality(Done(P[n])) \in Nat
      BY <1>2, <2>1, FS_Subset, FS_CardinalityType
    <3>2. Cardinality(Done(P[n])) = Cardinality(DOMAIN a)
      BY <1>2, <2>2, <3>1
    <3> QED BY <1>2, <2>1, <3>2, FS_Subset
  <2> QED BY <1>14, <2>2
<1> QED BY <1>1, <1>14, <1>15

-----------------------------------------------------------------------------
\* The crowding distance of a member of a front is a pair of numbers.

Distances == [ends : {0, 1}, gap : Int]

RowOf(a, f, o) ==
    LET Before(x, y) ==
            \/ a[x].obj[o] < a[y].obj[o]
            \/ a[x].obj[o] = a[y].obj[o] /\ Place(f, x) < Place(f, y)
    IN InOrder(Members(f), Before)

LEMMA PlaceFacts ==
  ASSUME NEW s, NEW x \in Members(s)
  PROVE  Place(s, x) \in DOMAIN s /\ s[Place(s, x)] = x
BY MemberOf DEF Place

LEMMA FrontFacts ==
  ASSUME NEW a \in Seq(Elites), NEW f, Front(a, f)
  PROVE  /\ Members(f) \subseteq DOMAIN a /\ IsFiniteSet(Members(f))
         /\ Len(f) \in Nat /\ DOMAIN f = 1 .. Len(f) /\ Cardinality(Members(f)) = Len(f)
         /\ DOMAIN a = 1 .. Len(a) /\ Len(a) \in Nat
<1>1. f \in Seq(DOMAIN a) /\ Cardinality(Members(f)) = Len(f)
  BY DEF Front
<1>2. Len(f) \in Nat /\ DOMAIN f = 1 .. Len(f) /\ \A k \in DOMAIN f : f[k] \in DOMAIN a
  BY <1>1
<1>3. Members(f) \subseteq DOMAIN a
  BY <1>2 DEF Members
<1>4. DOMAIN a = 1 .. Len(a) /\ Len(a) \in Nat
  OBVIOUS
<1>5. IsFiniteSet(Members(f))
  <2>1. IsFiniteSet(DOMAIN a)
    BY <1>4, FS_Interval
  <2> QED BY <2>1, <1>3, FS_Subset
<1> QED BY <1>1, <1>2, <1>3, <1>4, <1>5

LEMMA RowFacts ==
  ASSUME NEW a \in Seq(Elites), NEW f, Front(a, f), NEW o \in 1 .. 2
  PROVE  /\ RowOf(a, f, o) \in Seq(Members(f)) /\ Len(RowOf(a, f, o)) = Len(f)
         /\ Members(RowOf(a, f, o)) = Members(f)
<1> DEFINE S == Members(f)
           Before(x, y) ==
                \/ a[x].obj[o] < a[y].obj[o]
                \/ a[x].obj[o] = a[y].obj[o] /\ Place(f, x) < Place(f, y)
           g == [x \in S |-> a[x].obj[o]]
           h == [x \in S |-> Place(f, x)]
           R == Lex(S, g, h)
           s == InOrder(S, Before)
<1>1. /\ S \subseteq DOMAIN a /\ IsFiniteSet(S) /\ Cardinality(S) = Len(f)
      /\ DOMAIN f \subseteq Int
  BY FrontFacts
<1>2. \A x \in S : Place(f, x) \in DOMAIN f /\ f[Place(f, x)] = x
  BY PlaceFacts
<1>3. \A x \in S : a[x].obj[o] \in Int
  <2> TAKE x \in S
  <2>1. a[x] \in Elites
    BY <1>1
  <2>2. a[x].obj[1] \in Nat /\ a[x].obj[2] \in Nat
    BY <2>1, EliteValues
  <2>3. o = 1 \/ o = 2
    OBVIOUS
  <2> QED BY <2>2, <2>3
<1> HIDE DEF S
<1>4. g \in [S -> Int] /\ h \in [S -> Int] /\ \A x, y \in S : h[x] = h[y] => x = y
  BY <1>1, <1>2, <1>3
<1>5. Total(S, R)
  BY <1>4, LexTotal
<1>6. ASSUME NEW x \in S PROVE {y \in S : Before(y, x)} = Preds(S, R, x)
  <2>1. \A y \in S : Before(y, x) <=> <<y, x>> \in R
    BY DEF Lex
  <2> QED BY <2>1 DEF Preds
<1>7. s = [k \in 1 .. Cardinality(S) |->
              CHOOSE x \in S : Cardinality({y \in S : Before(y, x)}) = k - 1]
  BY DEF InOrder
<1> HIDE DEF Before, R, s
<1>8. Places(S, R)
  BY <1>1, <1>5, PlacesExist
<1>9. ASSUME NEW k \in 1 .. Cardinality(S)
      PROVE  s[k] \in S /\ Cardinality({y \in S : Before(y, s[k])}) = k - 1
  <2>1. s[k] = CHOOSE x \in S : Cardinality({y \in S : Before(y, x)}) = k - 1
    BY <1>7
  <2>2. \E x \in S : Cardinality({y \in S : Before(y, x)}) = k - 1
    <3>1. PICK x \in S : Cardinality(Preds(S, R, x)) = k - 1
      BY <1>8 DEF Places
    <3> QED BY <3>1, <1>6
  <2> QED BY <2>1, <2>2
<1>10. Sorted(s, S, R)
  <2>1. s \in [1 .. Cardinality(S) -> S]
    BY <1>7, <1>9
  <2>2. \A k \in 1 .. Cardinality(S) : Cardinality(Preds(S, R, s[k])) = k - 1
    BY <1>6, <1>9
  <2> QED BY <2>1, <2>2 DEF Sorted
<1>11. s \in Seq(S) /\ Len(s) = Len(f) /\ Members(s) = S
  BY <1>1, <1>5, <1>10, SortedFacts
<1>12. RowOf(a, f, o) = s
  BY DEF RowOf, s, Before, S
<1> QED BY <1>11, <1>12 DEF S

\* The gap between the neighbours of a member that is at neither end.
Gap(a, f, i, o) ==
    a[RowOf(a, f, o)[Place(RowOf(a, f, o), i) + 1]].obj[o]
        - a[RowOf(a, f, o)[Place(RowOf(a, f, o), i) - 1]].obj[o]

Span(a, f, o) == a[RowOf(a, f, o)[Len(f)]].obj[o] - a[RowOf(a, f, o)[1]].obj[o]

Norm(a, f, o) == IF Span(a, f, o) = 0 THEN 1 ELSE Span(a, f, o)

LEMMA GapFacts ==
  ASSUME NEW a \in Seq(Elites), NEW f, Front(a, f), NEW i \in Members(f), NEW o \in 1 .. 2,
         Len(f) > 2, Place(RowOf(a, f, o), i) \notin {1, Len(f)}
  PROVE  Gap(a, f, i, o) \in Int /\ Norm(a, f, o) \in Int
<1> DEFINE r == RowOf(a, f, o)
           k == Place(r, i)
           n == Len(f)
<1>1. r \in Seq(Members(f)) /\ Len(r) = n /\ Members(r) = Members(f)
  BY RowFacts
<1>2. Members(f) \subseteq DOMAIN a /\ n \in Nat
  BY FrontFacts
<1>3. k \in DOMAIN r
  BY <1>1, PlaceFacts
<1> HIDE DEF r, k, n
<1>4. DOMAIN r = 1 .. n /\ \A m \in 1 .. n : r[m] \in Members(f)
  BY <1>1, <1>2
<1>5. k - 1 \in 1 .. n /\ k + 1 \in 1 .. n /\ 1 \in 1 .. n /\ n \in 1 .. n
  BY <1>2, <1>3, <1>4 DEF k, r, n
<1>6. ASSUME NEW m \in 1 .. n PROVE a[r[m]].obj[o] \in Int
  <2>1. a[r[m]] \in Elites
    BY <1>2, <1>4
  <2>2. a[r[m]].obj[1] \in Nat /\ a[r[m]].obj[2] \in Nat
    BY <2>1, EliteValues
  <2>3. o = 1 \/ o = 2
    OBVIOUS
  <2> QED BY <2>2, <2>3
<1>7. a[r[k + 1]].obj[o] \in Int /\ a[r[k - 1]].obj[o] \in Int
  BY <1>5, <1>6
<1>8. a[r[n]].obj[o] \in Int /\ a[r[1]].obj[o] \in Int
  BY <1>5, <1>6
<1>9. Gap(a, f, i, o) = a[r[k + 1]].obj[o] - a[r[k - 1]].obj[o]
  BY DEF Gap, r, k
<1>10. Span(a, f, o) = a[r[n]].obj[o] - a[r[1]].obj[o]
  BY DEF Span, r, n
<1>11. Gap(a, f, i, o) \in Int
  BY <1>7, <1>9
<1>12. Span(a, f, o) \in Int
  BY <1>8, <1>10
<1> QED BY <1>11, <1>12 DEF Norm

LEMMA DistanceIs ==
  ASSUME NEW a, NEW f, NEW i
  PROVE  Distance(a, f, i) =
           IF Len(f) <= 2 \/ \E o \in 1 .. 2 : Place(RowOf(a, f, o), i) \in {1, Len(f)}
             THEN Infinite
             ELSE [ends |-> 0, gap |-> Gap(a, f, i, 1) * Norm(a, f, 2)
                                         + Gap(a, f, i, 2) * Norm(a, f, 1)]
BY DEF Distance, Gap, Norm, Span, RowOf, InOrder

LEMMA DistanceFacts ==
  ASSUME NEW a \in Seq(Elites), NEW f, Front(a, f), NEW i \in Members(f)
  PROVE  Distance(a, f, i) \in Distances
<1>1. CASE Len(f) <= 2 \/ \E o \in 1 .. 2 : Place(RowOf(a, f, o), i) \in {1, Len(f)}
  <2>1. Distance(a, f, i) = Infinite
    BY <1>1, DistanceIs
  <2> QED BY <2>1 DEF Infinite, Distances
<1>2. CASE ~ (Len(f) <= 2 \/ \E o \in 1 .. 2 : Place(RowOf(a, f, o), i) \in {1, Len(f)})
  <2>1. Len(f) > 2 /\ \A o \in 1 .. 2 : Place(RowOf(a, f, o), i) \notin {1, Len(f)}
    BY <1>2, FrontFacts
  <2>2. \A o \in 1 .. 2 : Gap(a, f, i, o) \in Int /\ Norm(a, f, o) \in Int
    BY <2>1, GapFacts
  <2> DEFINE p == Gap(a, f, i, 1)
             q == Gap(a, f, i, 2)
             u == Norm(a, f, 1)
             v == Norm(a, f, 2)
  <2>3. p \in Int /\ q \in Int /\ u \in Int /\ v \in Int
    BY <2>2
  <2>4. Distance(a, f, i) = [ends |-> 0, gap |-> p * v + q * u]
    BY <1>2, DistanceIs
  <2> HIDE DEF p, q, u, v
  <2>5. p * v + q * u \in Int
    BY <2>3
  <2> QED BY <2>4, <2>5 DEF Distances
<1> QED BY <1>1, <1>2

-----------------------------------------------------------------------------
\* The order by fronts, then distances.

RankOf(a, i) == CHOOSE n \in DOMAIN Fronts(a) : i \in Members(Fronts(a)[n])

KeyOf(a, i) ==
    [index |-> i, rank |-> RankOf(a, i),
     dist |-> Distance(a, Fronts(a)[RankOf(a, i)], i)]

KeysOf(a) == {KeyOf(a, i) : i \in DOMAIN a}

KeyBefore(x, y) ==
    \/ x.rank < y.rank
    \/ x.rank = y.rank /\ Wider(x.dist, y.dist)
    \/ x.rank = y.rank /\ x.dist = y.dist /\ x.index < y.index

KeyOrder(a) == {p \in KeysOf(a) \X KeysOf(a) : KeyBefore(p[1], p[2])}

KeyType(a, x) ==
    /\ x = KeyOf(a, x.index) /\ x.index \in DOMAIN a
    /\ x.rank \in Int /\ x.index \in Int
    /\ x.dist \in Distances

\* An individual has one rank, and its dominators have smaller ones.
LEMMA RankFacts ==
  ASSUME NEW a \in Seq(Elites), NEW i \in DOMAIN a
  PROVE  /\ RankOf(a, i) \in DOMAIN Fronts(a) /\ RankOf(a, i) \in Nat
         /\ i \in Members(Fronts(a)[RankOf(a, i)])
         /\ \A m \in DOMAIN Fronts(a) : i \in Members(Fronts(a)[m]) => m = RankOf(a, i)
<1> DEFINE f == Fronts(a)
<1>1. FrontsOK(a, f) /\ Done(f) = DOMAIN a
  BY FrontsFacts
<1>2. \E m \in DOMAIN f : i \in Members(f[m])
  BY <1>1, DoneIs
<1>3. RankOf(a, i) \in DOMAIN f /\ i \in Members(f[RankOf(a, i)])
  BY <1>2 DEF RankOf
<1>4. f \in Seq(Seq(DOMAIN a))
  BY <1>1 DEF FrontsOK
<1> HIDE DEF f
<1>5. DOMAIN f \subseteq Nat
  BY <1>4
<1>6. \A m, l \in DOMAIN f : m # l => Members(f[m]) \cap Members(f[l]) = {}
  BY <1>1 DEF FrontsOK
<1> QED BY <1>3, <1>5, <1>6 DEF f

LEMMA DominatorRank ==
  ASSUME NEW a \in Seq(Elites), NEW i \in DOMAIN a, NEW j \in DOMAIN a, Dominates(a[j], a[i])
  PROVE  RankOf(a, j) < RankOf(a, i)
<1>1. FrontsOK(a, Fronts(a))
  BY FrontsFacts
<1>2. RankOf(a, i) \in DOMAIN Fronts(a) /\ i \in Members(Fronts(a)[RankOf(a, i)])
  BY RankFacts
<1>3. j \in Dominators(a, i)
  BY DominatorsIn
<1>4. PICK l \in DOMAIN Fronts(a) : l < RankOf(a, i) /\ j \in Members(Fronts(a)[l])
  BY <1>1, <1>2, <1>3 DEF FrontsOK
<1>5. l = RankOf(a, j)
  BY <1>4, RankFacts
<1> QED BY <1>4, <1>5

LEMMA KeysTyped ==
  ASSUME NEW a \in Seq(Elites), NEW x \in KeysOf(a)
  PROVE  KeyType(a, x)
<1>1. PICK i \in DOMAIN a : x = KeyOf(a, i)
  BY DEF KeysOf
<1>2. RankOf(a, i) \in DOMAIN Fronts(a) /\ RankOf(a, i) \in Nat
      /\ i \in Members(Fronts(a)[RankOf(a, i)])
  BY RankFacts
<1>3. Front(a, Fronts(a)[RankOf(a, i)])
  BY <1>2, FrontsFacts DEF FrontsOK
<1>4. Distance(a, Fronts(a)[RankOf(a, i)], i) \in Distances
  BY <1>2, <1>3, DistanceFacts
<1>5. i \in Nat
  OBVIOUS
<1>6. x.index = i /\ x.rank = RankOf(a, i) /\ x.dist = Distance(a, Fronts(a)[RankOf(a, i)], i)
  BY <1>1 DEF KeyOf
<1> QED BY <1>1, <1>2, <1>4, <1>5, <1>6 DEF KeyType

\* The order in plain numbers.
Ordered(r1, e1, g1, i1, r2, e2, g2, i2) ==
    \/ r1 < r2
    \/ r1 = r2 /\ (e1 > e2 \/ (e1 = e2 /\ g1 > g2))
    \/ r1 = r2 /\ e1 = e2 /\ g1 = g2 /\ i1 < i2

LEMMA KeyOrderIs ==
  ASSUME NEW a \in Seq(Elites), NEW x \in KeysOf(a), NEW y \in KeysOf(a)
  PROVE  /\ <<x, y>> \in KeyOrder(a) <=> KeyBefore(x, y)
         /\ KeyBefore(x, y) <=> Ordered(x.rank, x.dist.ends, x.dist.gap, x.index,
                                        y.rank, y.dist.ends, y.dist.gap, y.index)
<1>1. x.dist \in Distances /\ y.dist \in Distances
  BY KeysTyped DEF KeyType
<1>2. x.dist = y.dist <=> x.dist.ends = y.dist.ends /\ x.dist.gap = y.dist.gap
  BY <1>1 DEF Distances
<1> QED BY <1>2 DEF KeyOrder, KeyBefore, Wider, Ordered

LEMMA KeysTotal ==
  ASSUME NEW a \in Seq(Elites)
  PROVE  Total(KeysOf(a), KeyOrder(a))
<1> DEFINE S == KeysOf(a)
           R == KeyOrder(a)
           r == [x \in S |-> x.rank]
           e == [x \in S |-> x.dist.ends]
           g == [x \in S |-> x.dist.gap]
           h == [x \in S |-> x.index]
<1>1. r \in [S -> Int] /\ e \in [S -> Int] /\ g \in [S -> Int] /\ h \in [S -> Int]
  BY KeysTyped DEF KeyType, Distances
<1>2. ASSUME NEW x \in S, NEW y \in S, h[x] = h[y] PROVE x = y
  BY <1>2, KeysTyped DEF KeyType
<1>3. ASSUME NEW x \in S, NEW y \in S
      PROVE  <<x, y>> \in R <=> Ordered(r[x], e[x], g[x], h[x], r[y], e[y], g[y], h[y])
  BY KeyOrderIs
<1> HIDE DEF S, R, r, e, g, h
<1>4. \A x \in S : r[x] \in Int /\ e[x] \in Int /\ g[x] \in Int /\ h[x] \in Int
  BY <1>1
<1>5. ASSUME NEW x \in S PROVE <<x, x>> \notin R
  BY <1>3, <1>4 DEF Ordered
<1>6. ASSUME NEW x \in S, NEW y \in S, NEW z \in S, <<x, y>> \in R, <<y, z>> \in R
      PROVE  <<x, z>> \in R
  <2>1. Ordered(r[x], e[x], g[x], h[x], r[y], e[y], g[y], h[y])
    BY <1>3, <1>6
  <2>2. Ordered(r[y], e[y], g[y], h[y], r[z], e[z], g[z], h[z])
    BY <1>3, <1>6
  <2>3. Ordered(r[x], e[x], g[x], h[x], r[z], e[z], g[z], h[z])
    BY <2>1, <2>2, <1>4 DEF Ordered
  <2> QED BY <2>3, <1>3
<1>7. ASSUME NEW x \in S, NEW y \in S, x # y PROVE <<x, y>> \in R \/ <<y, x>> \in R
  <2>1. h[x] # h[y]
    BY <1>2, <1>7
  <2>2. \/ Ordered(r[x], e[x], g[x], h[x], r[y], e[y], g[y], h[y])
        \/ Ordered(r[y], e[y], g[y], h[y], r[x], e[x], g[x], h[x])
    BY <2>1, <1>4 DEF Ordered
  <2> QED BY <2>2, <1>3
<1>8. Total(S, R)
  BY <1>5, <1>6, <1>7 DEF Total
<1> QED BY <1>8 DEF S, R

\* As many keys as individuals.
LEMMA KeysCounted ==
  ASSUME NEW a \in Seq(Elites)
  PROVE  IsFiniteSet(KeysOf(a)) /\ Cardinality(KeysOf(a)) = Len(a)
<1> DEFINE I == DOMAIN a
           S == KeysOf(a)
           g == [i \in I |-> KeyOf(a, i)]
<1>1. I = 1 .. Len(a) /\ Len(a) \in Nat
  OBVIOUS
<1>2. IsFiniteSet(I) /\ Cardinality(I) = Len(a)
  BY <1>1, FS_Interval
<1>3. S = {g[i] : i \in I}
  BY DEF KeysOf
<1>4. \A i, j \in I : g[i] = g[j] => i = j
  BY DEF KeyOf
<1>5. g \in Bijection(I, S)
  <2> HIDE DEF I, g, S
  <2>1. g \in [I -> S]
    BY <1>3 DEF g
  <2>2. g \in Injection(I, S)
    BY <2>1, <1>4 DEF Injection, IsInjective
  <2>3. \A y \in S : \E i \in I : g[i] = y
    BY <1>3
  <2>4. g \in Surjection(I, S)
    BY <2>1, <2>3 DEF Surjection
  <2> QED BY <2>2, <2>4 DEF Bijection
<1> HIDE DEF g, S, I
<1>6. IsFiniteSet(S) /\ Cardinality(S) = Cardinality(I)
  BY <1>2, <1>5, FS_Bijection DEF ExistsBijection
<1> QED BY <1>2, <1>6 DEF S

\* `p` is a permutation of the places of `a`, along which the rank rises.
Ranked(a, p) ==
    /\ p \in Seq(DOMAIN a) /\ Len(p) = Len(a) /\ Members(p) = DOMAIN a
    /\ \A i, j \in DOMAIN p : i < j =>
          p[i] # p[j] /\ RankOf(a, p[i]) <= RankOf(a, p[j])

LEMMA ParetoSortedIs ==
  ASSUME NEW a \in Seq(Elites)
  PROVE  \E p : Ranked(a, p) /\ ParetoSorted(a) = At(a, p)
<1> DEFINE S == KeysOf(a)
           R == KeyOrder(a)
           n == Len(a)
           s == InOrder(S, KeyBefore)
           p == [k \in DOMAIN s |-> s[k].index]
<1>1. n \in Nat /\ DOMAIN a = 1 .. n
  OBVIOUS
<1>2. Total(S, R) /\ IsFiniteSet(S) /\ Cardinality(S) = n
  BY KeysTotal, KeysCounted
<1>3. \A x \in S : x.index \in DOMAIN a /\ x = KeyOf(a, x.index)
  BY KeysTyped DEF KeyType
<1>4. \A i \in DOMAIN a : KeyOf(a, i) \in S
  BY DEF KeysOf
<1>5. \A i : KeyOf(a, i).index = i /\ KeyOf(a, i).rank = RankOf(a, i)
  BY DEF KeyOf
<1>6. s = [k \in 1 .. Cardinality(S) |->
              CHOOSE x \in S : Cardinality({y \in S : KeyBefore(y, x)}) = k - 1]
  BY DEF InOrder
<1>7. CASE n <= 1
  <2> DEFINE q == [k \in 1 .. n |-> k]
  <2>1. /\ q \in Seq(DOMAIN a) /\ Len(q) = n /\ DOMAIN q = 1 .. n
        /\ \A k \in 1 .. n : q[k] = k
    BY <1>1
  <2>2. ParetoSorted(a) = a
    BY <1>7 DEF ParetoSorted
  <2> HIDE DEF q, n
  <2>3. Members(q) = DOMAIN a
    BY <2>1, <1>1 DEF Members
  <2>4. \A i, j \in DOMAIN q : ~ (i < j)
    BY <1>1, <1>7, <2>1
  <2>5. Ranked(a, q)
    BY <2>1, <2>3, <2>4 DEF Ranked, n
  <2>6. At(a, q) = [k \in 1 .. n |-> a[k]]
    BY <2>1 DEF At
  <2>7. a = [k \in 1 .. n |-> a[k]]
    BY <1>1 DEF n
  <2> QED BY <2>2, <2>5, <2>6, <2>7
<1>8. CASE n > 1
  <2>1. ParetoSorted(a) = At(a, p)
    <3>1. ~(Len(a) <= 1)
      BY <1>8, <1>1
    <3> QED
      BY ONLY <3>1 DEF ParetoSorted, RankOf, KeyOf, KeysOf, KeyBefore, InOrder
  <2> HIDE DEF S, R, n, s
  <2>2. Places(S, R)
    BY <1>2, PlacesExist
  <2>3. ASSUME NEW x \in S PROVE {y \in S : KeyBefore(y, x)} = Preds(S, R, x)
    <3>1. \A y \in S : KeyBefore(y, x) <=> <<y, x>> \in R
      BY KeyOrderIs DEF S, R
    <3> QED BY <3>1 DEF Preds
  <2>4. ASSUME NEW k \in 1 .. Cardinality(S)
        PROVE  s[k] \in S /\ Cardinality({y \in S : KeyBefore(y, s[k])}) = k - 1
    <3>1. s[k] = CHOOSE x \in S : Cardinality({y \in S : KeyBefore(y, x)}) = k - 1
      BY <1>6
    <3>2. \E x \in S : Cardinality({y \in S : KeyBefore(y, x)}) = k - 1
      <4>1. PICK x \in S : Cardinality(Preds(S, R, x)) = k - 1
        BY <2>2 DEF Places
      <4> QED BY <4>1, <2>3
    <3> QED BY <3>1, <3>2
  <2>5. Sorted(s, S, R)
    <3>1. s \in [1 .. Cardinality(S) -> S]
      BY <1>6, <2>4
    <3>2. \A k \in 1 .. Cardinality(S) : Cardinality(Preds(S, R, s[k])) = k - 1
      BY <2>3, <2>4
    <3> QED BY <3>1, <3>2 DEF Sorted
  <2>6. /\ s \in Seq(S) /\ Len(s) = n /\ DOMAIN s = 1 .. n /\ Members(s) = S
        /\ \A i, j \in DOMAIN s : i < j => <<s[i], s[j]>> \in R /\ s[i] # s[j]
    BY <1>2, <2>5, SortedFacts
  <2>7. \A k \in 1 .. n : s[k] \in S
    BY <2>6
  <2>8. DOMAIN p = 1 .. n /\ \A k \in 1 .. n : p[k] = s[k].index
    BY <2>6
  <2>9. p = [k \in 1 .. n |-> s[k].index]
    BY <2>6
  <2> HIDE DEF p
  <2>10. p \in Seq(DOMAIN a) /\ Len(p) = n
    BY <1>1, <1>3, <2>7, <2>9
  <2>11. Members(p) = DOMAIN a
    <3>1. ASSUME NEW i \in DOMAIN a PROVE i \in Members(p)
      <4>1. PICK k \in DOMAIN s : s[k] = KeyOf(a, i)
        BY <1>4, <2>6, MemberOf
      <4>2. p[k] = i /\ k \in DOMAIN p
        BY <4>1, <1>5, <2>6, <2>8
      <4> QED BY <4>2, MemberAt
    <3>2. ASSUME NEW i \in Members(p) PROVE i \in DOMAIN a
      BY <1>3, <2>7, <2>8 DEF Members
    <3> QED BY <3>1, <3>2
  <2>12. ASSUME NEW i \in 1 .. n, NEW j \in 1 .. n, i < j
         PROVE  p[i] # p[j] /\ RankOf(a, p[i]) <= RankOf(a, p[j])
    <3>1. s[i] \in S /\ s[j] \in S /\ <<s[i], s[j]>> \in R /\ s[i] # s[j]
      BY <2>6, <2>7, <2>12
    <3>2. s[i] = KeyOf(a, p[i]) /\ s[j] = KeyOf(a, p[j])
      BY <1>3, <2>7, <2>8
    <3>3. s[i].rank = RankOf(a, p[i]) /\ s[j].rank = RankOf(a, p[j])
      BY <3>2, <1>5
    <3>4. s[i].rank \in Int /\ s[j].rank \in Int
      BY <3>1, KeysTyped DEF KeyType, S
    <3>5. s[i].rank < s[j].rank \/ s[i].rank = s[j].rank
      BY <3>1, KeyOrderIs DEF KeyBefore, S, R
    <3> QED BY <3>1, <3>2, <3>3, <3>4, <3>5
  <2>13. Ranked(a, p)
    BY <2>8, <2>10, <2>11, <2>12 DEF Ranked, n
  <2> QED BY <2>1, <2>13
<1> QED BY <1>1, <1>7, <1>8

-----------------------------------------------------------------------------
\* What a generation makes of the archive.

\* ArchiveRanked, of any sequence of elites.
InRanks(s) ==
    \A i, j \in DOMAIN s : i < j => ~Dominates(s[j], s[i]) /\ s[i].id # s[j].id

OneOfEachId(s) == \A i, j \in DOMAIN s : i # j => s[i].id # s[j].id

LEMMA ParetoSortedFacts ==
  ASSUME NEW a \in Seq(Elites), OneOfEachId(a)
  PROVE  /\ ParetoSorted(a) \in Seq(Elites) /\ Len(ParetoSorted(a)) = Len(a)
         /\ Members(ParetoSorted(a)) = Members(a) /\ InRanks(ParetoSorted(a))
<1> DEFINE r == ParetoSorted(a)
<1>1. PICK p : Ranked(a, p) /\ r = At(a, p)
  BY ParetoSortedIs
<1>2. /\ p \in Seq(DOMAIN a) /\ Len(p) = Len(a) /\ Members(p) = DOMAIN a
      /\ \A i, j \in DOMAIN p : i < j => p[i] # p[j] /\ RankOf(a, p[i]) <= RankOf(a, p[j])
  BY <1>1 DEF Ranked
<1> HIDE DEF r
<1>3. /\ r \in Seq(Elites) /\ Len(r) = Len(p) /\ DOMAIN r = DOMAIN p
      /\ \A k \in DOMAIN p : r[k] = a[p[k]] /\ p[k] \in DOMAIN a
      /\ Members(r) = {a[i] : i \in Members(p)}
  <2> DEFINE E == Elites
  <2> HIDE DEF E
  <2>1. a \in Seq(E) /\ p \in Seq(DOMAIN a)
    BY <1>2 DEF E
  <2>2. /\ At(a, p) \in Seq(E) /\ Len(At(a, p)) = Len(p) /\ DOMAIN At(a, p) = DOMAIN p
        /\ \A k \in DOMAIN p : At(a, p)[k] = a[p[k]] /\ p[k] \in DOMAIN a
        /\ Members(At(a, p)) = {a[i] : i \in Members(p)}
    BY ONLY <2>1, AtFacts
  <2> QED BY <2>2, <1>1 DEF E
<1>4. Members(r) = Members(a)
  <2>1. Members(r) = {a[i] : i \in DOMAIN a}
    BY <1>2, <1>3
  <2> QED BY <2>1 DEF Members
<1>5. ASSUME NEW i \in DOMAIN r, NEW j \in DOMAIN r, i < j
      PROVE  ~Dominates(r[j], r[i]) /\ r[i].id # r[j].id
  <2>1. /\ p[i] \in DOMAIN a /\ p[j] \in DOMAIN a /\ r[i] = a[p[i]] /\ r[j] = a[p[j]]
        /\ p[i] # p[j] /\ RankOf(a, p[i]) <= RankOf(a, p[j])
    BY <1>2, <1>3, <1>5
  <2>2. RankOf(a, p[i]) \in Nat /\ RankOf(a, p[j]) \in Nat
    BY <2>1, RankFacts
  <2>3. ~Dominates(a[p[j]], a[p[i]])
    BY <2>1, <2>2, DominatorRank
  <2> QED BY <2>1, <2>3 DEF OneOfEachId
<1> QED BY <1>2, <1>3, <1>4, <1>5 DEF InRanks, r

\* Nothing that is ranked dominates the first.
LEMMA FirstIsBest ==
  ASSUME NEW r \in Seq(Elites), InRanks(r), NEW x \in Members(r)
  PROVE  r # << >> /\ ~Dominates(x, r[1])
<1>1. PICK k \in DOMAIN r : r[k] = x
  BY MemberOf
<1>2. 1 \in DOMAIN r /\ (k = 1 \/ 1 < k) /\ r[1] \in Elites /\ r # << >>
  BY <1>1
<1> QED BY <1>1, <1>2, DominatesOrder DEF InRanks

LEMMA FirstOfEachIdFacts ==
  ASSUME NEW a \in Seq(Elites)
  PROVE  /\ FirstOfEachId(a) \in Seq(Elites) /\ OneOfEachId(FirstOfEachId(a))
         /\ Members(FirstOfEachId(a)) \subseteq Members(a)
         /\ \A k \in DOMAIN a : (\A j \in 1 .. k - 1 : a[j].id # a[k].id)
                                  => a[k] \in Members(FirstOfEachId(a))
<1> DEFINE S == {i \in DOMAIN a : \A j \in 1 .. i - 1 : a[j].id # a[i].id}
           p == Ascending(S)
           r == FirstOfEachId(a)
<1>1. DOMAIN a = 1 .. Len(a) /\ Len(a) \in Nat
  OBVIOUS
<1>2. S \in SUBSET Nat /\ S \in SUBSET (DOMAIN a) /\ IsFiniteSet(S)
  <2>1. IsFiniteSet(DOMAIN a)
    BY <1>1, FS_Interval
  <2> QED BY <2>1, <1>1, FS_Subset
<1>3. Increasing(p, S)
  BY <1>2, AscendingIs
<1>4. r = At(a, p)
  BY DEF FirstOfEachId
<1>5. \A i \in S : i \in DOMAIN a /\ \A j \in 1 .. i - 1 : a[j].id # a[i].id
  OBVIOUS
<1>6. \A i \in DOMAIN a : (\A j \in 1 .. i - 1 : a[j].id # a[i].id) => i \in S
  OBVIOUS
<1> HIDE DEF S, p, r
<1>7. /\ p \in Seq(S) /\ Members(p) = S /\ DOMAIN p = 1 .. Len(p) /\ Len(p) \in Nat
      /\ \A i, j \in DOMAIN p : i < j => p[i] < p[j]
  BY <1>3 DEF Increasing
<1>8. p \in Seq(DOMAIN a)
  BY <1>2, <1>7, SeqWider
<1>9. /\ r \in Seq(Elites) /\ DOMAIN r = DOMAIN p
      /\ \A k \in DOMAIN p : r[k] = a[p[k]] /\ p[k] \in DOMAIN a
      /\ Members(r) = {a[i] : i \in S}
  BY <1>4, <1>7, <1>8, AtFacts
<1>10. \A k \in DOMAIN p : p[k] \in S
  BY <1>7
<1>11. ASSUME NEW i \in DOMAIN p, NEW j \in DOMAIN p, i < j
       PROVE  r[i].id # r[j].id
  <2>1. p[i] < p[j] /\ p[j] \in S /\ p[i] \in 1 .. Len(a) /\ p[j] \in 1 .. Len(a)
    BY <1>1, <1>7, <1>9, <1>10, <1>11
  <2>2. p[i] \in 1 .. p[j] - 1
    BY <2>1, <1>1
  <2>3. a[p[i]].id # a[p[j]].id
    BY <2>1, <2>2, <1>5
  <2> QED BY <2>3, <1>9
<1>12. OneOfEachId(r)
  <2>1. ASSUME NEW i \in DOMAIN r, NEW j \in DOMAIN r, i # j PROVE r[i].id # r[j].id
    <3>1. i \in DOMAIN p /\ j \in DOMAIN p /\ (i < j \/ j < i)
      BY <2>1, <1>7, <1>9
    <3>2. CASE i < j
      BY <3>1, <3>2, <1>11
    <3>3. CASE j < i
      <4>1. r[j].id # r[i].id
        BY <3>1, <3>3, <1>11
      <4> QED BY <4>1
    <3> QED BY <3>1, <3>2, <3>3
  <2> QED BY <2>1 DEF OneOfEachId
<1>13. Members(r) \subseteq Members(a)
  BY <1>5, <1>9, MemberAt
<1>14. \A k \in S : a[k] \in Members(r)
  BY <1>9
<1> QED BY <1>6, <1>9, <1>12, <1>13, <1>14 DEF r

LEMMA ConcatFacts ==
  ASSUME NEW E, NEW a \in Seq(E), NEW b \in Seq(E)
  PROVE  /\ a \o b \in Seq(E) /\ Len(a \o b) = Len(a) + Len(b) /\ DOMAIN a \subseteq DOMAIN (a \o b)
         /\ \A k \in DOMAIN a : (a \o b)[k] = a[k]
         /\ Members(a \o b) = Members(a) \cup Members(b)
<1>1. /\ a \o b \in Seq(E) /\ Len(a \o b) = Len(a) + Len(b)
      /\ Len(a) \in Nat /\ Len(b) \in Nat
      /\ \A k \in 1 .. Len(a) + Len(b) :
            (a \o b)[k] = IF k <= Len(a) THEN a[k] ELSE b[k - Len(a)]
  BY ConcatProperties
<1> DEFINE c == a \o b
<1>2. DOMAIN c = 1 .. Len(a) + Len(b) /\ DOMAIN a = 1 .. Len(a) /\ DOMAIN b = 1 .. Len(b)
  BY <1>1
<1> HIDE DEF c
<1>3. \A k \in DOMAIN c : c[k] = IF k <= Len(a) THEN a[k] ELSE b[k - Len(a)]
  BY <1>1, <1>2 DEF c
<1>4. ASSUME NEW k \in DOMAIN a PROVE k \in DOMAIN c /\ c[k] = a[k]
  <2>1. k \in DOMAIN c /\ k <= Len(a)
    BY <1>1, <1>2
  <2> QED BY <2>1, <1>3
<1>5. ASSUME NEW k \in DOMAIN b PROVE b[k] \in Members(c)
  <2>1. PICK m \in DOMAIN c : m - Len(a) = k /\ ~(m <= Len(a))
    <3>1. k + Len(a) \in DOMAIN c /\ k + Len(a) - Len(a) = k /\ ~(k + Len(a) <= Len(a))
      BY <1>1, <1>2
    <3> QED BY <3>1
  <2>2. c[m] = b[k]
    BY <2>1, <1>3
  <2> QED BY <2>2, MemberAt
<1>6. ASSUME NEW k \in DOMAIN c PROVE c[k] \in Members(a) \cup Members(b)
  <2>1. CASE k <= Len(a)
    <3>1. k \in DOMAIN a
      BY <2>1, <1>1, <1>2
    <3> QED BY <2>1, <3>1, <1>3, MemberAt
  <2>2. CASE ~(k <= Len(a))
    <3>1. k - Len(a) \in DOMAIN b
      BY <2>2, <1>1, <1>2
    <3> QED BY <2>2, <3>1, <1>3, MemberAt
  <2> QED BY <2>1, <2>2
<1>7. Members(c) = Members(a) \cup Members(b)
  <2>1. ASSUME NEW x \in Members(a) \cup Members(b) PROVE x \in Members(c)
    <3>1. CASE x \in Members(a)
      <4>1. PICK k \in DOMAIN a : a[k] = x
        BY <3>1, MemberOf
      <4> QED BY <4>1, <1>4, MemberAt
    <3>2. CASE x \in Members(b)
      <4>1. PICK k \in DOMAIN b : b[k] = x
        BY <3>2, MemberOf
      <4> QED BY <4>1, <1>5
    <3> QED BY <2>1, <3>1, <3>2
  <2>2. ASSUME NEW x \in Members(c) PROVE x \in Members(a) \cup Members(b)
    <3>1. PICK k \in DOMAIN c : c[k] = x
      BY <2>2, MemberOf
    <3> QED BY <3>1, <1>6
  <2> QED BY <2>1, <2>2
<1> QED BY <1>1, <1>4, <1>7 DEF c

LEMMA SubSeqFacts ==
  ASSUME NEW E, NEW s \in Seq(E), NEW n \in Nat, n <= Len(s)
  PROVE  /\ SubSeq(s, 1, n) \in Seq(E) /\ Len(SubSeq(s, 1, n)) = n
         /\ DOMAIN SubSeq(s, 1, n) = 1 .. n
         /\ \A k \in 1 .. n : k \in DOMAIN s /\ SubSeq(s, 1, n)[k] = s[k]
<1>1. DOMAIN s = 1 .. Len(s) /\ Len(s) \in Nat /\ \A k \in 1 .. n : s[k] \in E /\ k \in DOMAIN s
  OBVIOUS
<1>2. /\ SubSeq(s, 1, n) \in Seq(E)
      /\ Len(SubSeq(s, 1, n)) = IF 1 <= n THEN n - 1 + 1 ELSE 0
      /\ \A i \in 1 .. n - 1 + 1 : SubSeq(s, 1, n)[i] = s[1 + i - 1]
  BY <1>1, SubSeqProperties
<1> DEFINE r == SubSeq(s, 1, n)
<1> HIDE DEF r
<1>3. r \in Seq(E) /\ Len(r) = n
  BY <1>2 DEF r
<1>4. DOMAIN r = 1 .. n
  BY <1>3
<1>5. ASSUME NEW k \in 1 .. n PROVE r[k] = s[k]
  <2>1. k \in 1 .. n - 1 + 1 /\ 1 + k - 1 = k
    OBVIOUS
  <2> QED BY <1>2, <2>1 DEF r
<1> QED BY <1>1, <1>3, <1>4, <1>5 DEF r

\* The archive after a generation, of the archive before it.
NextArchive(r, old, found) ==
    /\ r \in Seq(Elites) /\ Len(r) <= Larger(Survivors, 1)
    /\ InRanks(r)
    /\ IdsOf(r) \subseteq IdsOf(old) \cup IdsOf(found)
    /\ old # << >> => r # << >>
    /\ \A e \in Members(old) : ~Dominates(e, r[1])

LEMMA ArchivedFacts ==
  ASSUME NEW old \in Seq(Elites), NEW found \in Seq(Elites), InRanks(old)
  PROVE  NextArchive(Archived(old, found, Survivors), old, found)
<1> DEFINE b == ByPrimary(found)
           c == old \o b
           d == FirstOfEachId(c)
           all == ParetoSorted(d)
           n == IF Survivors = 0 THEN 1 ELSE Survivors
           m == IF Len(all) < n THEN Len(all) ELSE n
           r == SubSeq(all, 1, m)
<1>1. b \in Seq(Elites) /\ Members(b) = Members(found)
  BY ByPrimaryFacts
<1>2. Archived(old, found, Survivors) = r
  BY DEF Archived
<1> HIDE DEF b
<1>3. /\ c \in Seq(Elites) /\ DOMAIN old \subseteq DOMAIN c /\ \A k \in DOMAIN old : c[k] = old[k]
      /\ Members(c) = Members(old) \cup Members(b)
  BY <1>1, ConcatFacts
<1> HIDE DEF c
<1>4. /\ d \in Seq(Elites) /\ OneOfEachId(d) /\ Members(d) \subseteq Members(c)
      /\ \A k \in DOMAIN c : (\A j \in 1 .. k - 1 : c[j].id # c[k].id) => c[k] \in Members(d)
  BY <1>3, FirstOfEachIdFacts
<1> HIDE DEF d
<1>5. Members(old) \subseteq Members(d)
  <2>1. ASSUME NEW k \in DOMAIN old PROVE old[k] \in Members(d)
    <3>1. DOMAIN old = 1 .. Len(old) /\ Len(old) \in Nat
      OBVIOUS
    <3>2. ASSUME NEW j \in 1 .. k - 1 PROVE c[j].id # c[k].id
      <4>1. j \in DOMAIN old /\ j < k
        BY <3>1
      <4>2. old[j].id # old[k].id
        BY <4>1 DEF InRanks
      <4> QED BY <4>1, <4>2, <1>3
    <3> QED BY <3>2, <1>3, <1>4
  <2> QED BY <2>1 DEF Members
<1>6. /\ all \in Seq(Elites) /\ Len(all) = Len(d)
      /\ Members(all) = Members(d) /\ InRanks(all)
  BY <1>4, ParetoSortedFacts
<1> HIDE DEF all
<1>7. Len(all) \in Nat /\ n \in Nat /\ m \in Nat /\ m <= Len(all) /\ m <= n /\ n = Larger(Survivors, 1)
  BY <1>6, ForgeEngineAssumption DEF Larger
<1>8. all # << >> => m >= 1
  BY <1>6, ForgeEngineAssumption
<1> HIDE DEF n, m
<1>9. /\ r \in Seq(Elites) /\ Len(r) = m /\ DOMAIN r = 1 .. m
      /\ \A k \in 1 .. m : k \in DOMAIN all /\ r[k] = all[k]
  BY <1>6, <1>7, SubSeqFacts
<1> HIDE DEF r
<1>10. Len(r) <= Larger(Survivors, 1)
  BY <1>7, <1>9
<1>11. InRanks(r)
  BY <1>6, <1>9 DEF InRanks
<1>12. IdsOf(r) \subseteq IdsOf(old) \cup IdsOf(found)
  <2>1. ASSUME NEW k \in DOMAIN r PROVE r[k].id \in IdsOf(old) \cup IdsOf(found)
    <3>1. r[k] \in Members(all)
      BY <1>9, MemberAt
    <3>2. r[k] \in Members(old) \cup Members(found)
      BY <3>1, <1>1, <1>3, <1>4, <1>6
    <3> QED BY <3>2 DEF Members, IdsOf
  <2> QED BY <2>1 DEF IdsOf
<1>13. ASSUME NEW e \in Members(old) PROVE r # << >> /\ ~Dominates(e, r[1])
  <2>1. e \in Members(all)
    BY <1>5, <1>6
  <2>2. all # << >> /\ ~Dominates(e, all[1])
    BY <2>1, <1>6, FirstIsBest
  <2>3. 1 \in 1 .. m
    BY <2>2, <1>7, <1>8
  <2> QED BY <2>2, <2>3, <1>9
<1>14. old # << >> => r # << >>
  <2> SUFFICES ASSUME old # << >> PROVE r # << >>
    OBVIOUS
  <2>1. 1 \in DOMAIN old
    OBVIOUS
  <2> QED BY <2>1, <1>13, MemberAt
<1> QED BY <1>2, <1>9, <1>10, <1>11, <1>12, <1>13, <1>14 DEF NextArchive

\* The valid individuals of a generation.
LEMMA FoundFacts ==
  ASSUME pop \in Seq(Ids), gen \in 0 .. Generations,
         NEW scores \in [DOMAIN pop -> Objectives \cup {Invalid}]
  PROVE  Found(scores) \in Seq(Elites) /\ IdsOf(Found(scores)) \subseteq Members(pop)
<1> DEFINE S == {k \in DOMAIN pop : scores[k] # Invalid}
           p == Ascending(S)
           r == [n \in DOMAIN p |->
                    [id |-> pop[p[n]], gen |-> gen, obj |-> scores[p[n]]]]
<1>1. Found(scores) = r
  BY DEF Found
<1>2. S \in SUBSET Nat /\ S \in SUBSET (DOMAIN pop) /\ IsFiniteSet(S)
  <2>1. DOMAIN pop = 1 .. Len(pop) /\ Len(pop) \in Nat
    OBVIOUS
  <2>2. IsFiniteSet(DOMAIN pop)
    BY <2>1, FS_Interval
  <2> QED BY <2>1, <2>2, FS_Subset
<1>3. \A k \in S : pop[k] \in Ids /\ scores[k] \in Objectives /\ k \in DOMAIN pop
  OBVIOUS
<1>4. Increasing(p, S)
  BY <1>2, AscendingIs
<1> HIDE DEF S, p
<1>5. p \in Seq(S) /\ Len(p) \in Nat /\ DOMAIN p = 1 .. Len(p)
  BY <1>4 DEF Increasing
<1>6. \A n \in DOMAIN p : p[n] \in S
  BY <1>5
<1>7. \A n \in 1 .. Len(p) : [id |-> pop[p[n]], gen |-> gen, obj |-> scores[p[n]]] \in Elites
  BY <1>3, <1>5, <1>6 DEF Elites
<1>8. r \in Seq(Elites) /\ DOMAIN r = DOMAIN p
  BY <1>5, <1>7
<1>9. \A n \in DOMAIN p : r[n].id = pop[p[n]] /\ p[n] \in DOMAIN pop
  BY <1>3, <1>6
<1>10. IdsOf(r) \subseteq Members(pop)
  BY <1>8, <1>9, MemberAt DEF IdsOf
<1> QED BY <1>1, <1>8, <1>10

-----------------------------------------------------------------------------
\* The invariant of a campaign.

\* A checkpoint: its archive is ranked and its members are in the population
\* saved with it, and what the running process made of it since.
SavedWell ==
    /\ disk.gen \in 1 .. Generations
    /\ disk.history \in Seq(Entries) /\ Len(disk.history) = disk.gen
    /\ disk.pop \in Seq(Ids) /\ disk.archive \in Seq(Elites)
    /\ Len(disk.archive) <= Larger(Survivors, 1) /\ InRanks(disk.archive)
    /\ IdsOf(disk.archive) \subseteq Members(disk.pop)

Followed ==
    /\ phase = "evaluate" =>
          disk.gen <= gen /\ (disk.gen = gen => archive = disk.archive)
    /\ phase = "commit" =>
          /\ disk.gen <= gen
          /\ disk.gen = gen /\ disk.archive # << >> => archive # << >>
          /\ disk.gen = gen => \A e \in Members(disk.archive) : ~Dominates(e, archive[1])
    /\ phase = "reproduce" =>
          disk.gen <= gen + 1 /\ (disk.gen = gen + 1 => archive = disk.archive)

Progress ==
    /\ phase = "evaluate" => gen < Generations /\ Len(history) = gen
    /\ phase \in {"commit", "reproduce"} => gen < Generations /\ Len(history) = gen + 1
    /\ phase \in {"evaluate", "commit"} => IdsOf(archive) \subseteq Members(pop)

Values ==
    /\ phase \in Phases /\ gen \in 0 .. Generations
    /\ pop \in Seq(Ids) /\ Len(pop) >= Population
    /\ archive \in Seq(Elites) /\ Len(archive) <= Larger(Survivors, 1)
    /\ history \in Seq(Entries) /\ crashes \in 0 .. MaxCrashes

CInv == Values /\ InRanks(archive) /\ Progress /\ (disk # NoState => SavedWell /\ Followed)

LEMMA LoopFacts ==
  ASSUME NEW g \in Nat
  PROVE  /\ Loop(g) = "evaluate" \/ Loop(g) = "report"
         /\ Loop(g) = "evaluate" => g < Generations
BY DEF Loop

LEMMA PopulationsFacts ==
  ASSUME NEW n \in Nat, NEW q \in Populations(n)
  PROVE  q \in Seq(Ids) /\ Len(q) = n
BY DEF Populations

\* The survivors are in front of the completed population.
LEMMA CompletedFacts ==
  ASSUME NEW elites \in Seq(Ids), NEW q \in Completed(elites)
  PROVE  q \in Seq(Ids) /\ Len(q) >= Population /\ Members(elites) \subseteq Members(q)
<1> DEFINE n == Larger(Population, Len(elites)) - Len(elites)
<1>1. PICK rest \in Populations(n) : q = elites \o rest
  BY DEF Completed
<1>2. n \in Nat /\ Len(elites) \in Nat /\ Len(elites) + n >= Population
  BY ForgeEngineAssumption DEF Larger
<1> HIDE DEF n
<1>3. rest \in Seq(Ids) /\ Len(rest) = n
  BY <1>2, PopulationsFacts
<1>4. /\ q \in Seq(Ids) /\ Len(q) = Len(elites) + Len(rest)
      /\ Members(q) = Members(elites) \cup Members(rest)
  <2>1. rest \in Seq(Ids)
    BY <1>3
  <2>2. elites \o rest \in Seq(Ids) /\ Len(elites \o rest) = Len(elites) + Len(rest)
    BY <2>1, ConcatFacts
  <2>3. Members(elites \o rest) = Members(elites) \cup Members(rest)
    BY <2>1, ConcatFacts
  <2> QED BY <2>2, <2>3, <1>1
<1> QED BY <1>2, <1>3, <1>4

LEMMA EmptyArchive == /\ << >> \in Seq(Elites) /\ Len(<< >>) = 0 /\ InRanks(<< >>)
                      /\ IdsOf(<< >>) = {} /\ 0 <= Larger(Survivors, 1)
BY ForgeEngineAssumption DEF InRanks, IdsOf, Larger

LEMMA EmptyHistory == << >> \in Seq(Entries) /\ Len(<< >>) = 0
OBVIOUS

LEMMA InitCInv == Init => CInv
<1> SUFFICES ASSUME Init PROVE CInv
  OBVIOUS
<1>1. /\ phase = Loop(0) /\ gen = 0 /\ pop \in Populations(Population)
      /\ archive = << >> /\ history = << >> /\ disk = NoState /\ crashes = 0
  BY DEF Init
<1>2. pop \in Seq(Ids) /\ Len(pop) = Population
  BY <1>1, PopulationsFacts, ForgeEngineAssumption
<1>3. (phase = "evaluate" \/ phase = "report") /\ (phase = "evaluate" => 0 < Generations)
  BY <1>1, LoopFacts
<1>4. Values
  BY <1>1, <1>2, <1>3, EmptyArchive, EmptyHistory, ForgeEngineAssumption DEF Values, Phases
<1>5. Progress
  BY <1>1, <1>3, EmptyArchive, EmptyHistory DEF Progress
<1> QED BY <1>1, <1>4, <1>5, EmptyArchive DEF CInv

\* The generation's evaluation.
LEMMA EvaluateCInv == CInv /\ Evaluate => CInv'
<1> SUFFICES ASSUME CInv, Evaluate PROVE CInv'
  OBVIOUS
<1>1. /\ phase = "evaluate" /\ phase' = "commit"
      /\ gen' = gen /\ pop' = pop /\ disk' = disk /\ crashes' = crashes
  BY DEF Evaluate
<1>2. PICK scores \in [DOMAIN pop -> Objectives \cup {Invalid}] :
          /\ archive' = Archived(archive, Found(scores), Survivors)
          /\ history' = Append(history, Best(Found(scores)))
  BY DEF Evaluate
<1>3. Values /\ InRanks(archive) /\ gen < Generations /\ Len(history) = gen
      /\ IdsOf(archive) \subseteq Members(pop)
  BY <1>1 DEF CInv, Progress
<1>4. /\ pop \in Seq(Ids) /\ gen \in 0 .. Generations /\ archive \in Seq(Elites)
      /\ Len(pop) >= Population /\ crashes \in 0 .. MaxCrashes
      /\ history \in Seq(Entries)
  BY <1>3 DEF Values
<1>5. Found(scores) \in Seq(Elites) /\ IdsOf(Found(scores)) \subseteq Members(pop)
  BY <1>4, FoundFacts
<1>6. NextArchive(archive', archive, Found(scores))
  BY <1>2, <1>3, <1>4, <1>5, ArchivedFacts
<1>6a. history' \in Seq(Entries) /\ Len(history') = gen + 1
  <2>1. Best(Found(scores)) \in Entries
    BY DEF Best, Entries
  <2> QED BY <2>1, <1>2, <1>3, <1>4, Appended
<1>7. Values'
  BY <1>1, <1>3, <1>4, <1>6, <1>6a, ForgeEngineAssumption DEF Values, Phases, NextArchive
<1>8. InRanks(archive')
  BY <1>6 DEF NextArchive
<1>9. IdsOf(archive') \subseteq Members(pop')
  BY <1>1, <1>3, <1>5, <1>6 DEF NextArchive
<1>10. Progress'
  BY <1>1, <1>3, <1>6a, <1>9 DEF Progress
<1>11. ASSUME disk' # NoState PROVE SavedWell' /\ Followed'
  <2>1. SavedWell /\ disk.gen <= gen /\ (disk.gen = gen => archive = disk.archive)
    BY <1>1, <1>11 DEF CInv, Followed
  <2>2. SavedWell'
    BY <2>1, <1>1 DEF SavedWell
  <2>3. Followed'
    BY <2>1, <1>1, <1>6 DEF Followed, NextArchive
  <2> QED BY <2>2, <2>3
<1> QED BY <1>7, <1>8, <1>10, <1>11 DEF CInv

\* The commit.
LEMMA CommitCInv == CInv /\ Commit => CInv'
<1> SUFFICES ASSUME CInv, Commit PROVE CInv'
  OBVIOUS
<1>1. /\ phase = "commit" /\ phase' = "reproduce" /\ disk' = EngineState
      /\ gen' = gen /\ pop' = pop /\ archive' = archive /\ history' = history
      /\ crashes' = crashes
  BY DEF Commit
<1>2. /\ Values /\ InRanks(archive) /\ gen < Generations /\ Len(history) = gen + 1
      /\ IdsOf(archive) \subseteq Members(pop)
  BY <1>1 DEF CInv, Progress
<1>3. /\ disk'.gen = gen + 1 /\ disk'.pop = pop /\ disk'.archive = archive
      /\ disk'.history = history
  BY <1>1 DEF EngineState
<1>4. Values'
  BY <1>1, <1>2 DEF Values, Phases
<1>5. Progress'
  BY <1>1, <1>2 DEF Progress
<1>6. SavedWell'
  BY <1>2, <1>3, ForgeEngineAssumption DEF SavedWell, Values
<1>7. Followed'
  BY <1>1, <1>2, <1>3 DEF Followed, Values
<1> QED BY <1>1, <1>2, <1>4, <1>5, <1>6, <1>7 DEF CInv

\* The reproduction: the elites stay in front.
LEMMA ReproduceCInv == CInv /\ Reproduce => CInv'
<1> SUFFICES ASSUME CInv, Reproduce PROVE CInv'
  OBVIOUS
<1> DEFINE ids == [k \in DOMAIN archive |-> archive[k].id]
<1>1. /\ phase = "reproduce" /\ phase' = Loop(gen + 1) /\ gen' = gen + 1
      /\ pop' \in Completed(ids)
      /\ archive' = archive /\ history' = history /\ disk' = disk /\ crashes' = crashes
  BY DEF Reproduce
<1>2. Values /\ InRanks(archive) /\ gen < Generations /\ Len(history) = gen + 1
  BY <1>1 DEF CInv, Progress
<1>3. archive \in Seq(Elites) /\ gen \in Nat /\ gen' \in 1 .. Generations
  BY <1>1, <1>2, ForgeEngineAssumption DEF Values
<1>4. \A k \in DOMAIN archive : archive[k] \in Elites /\ archive[k].id \in Ids
  BY <1>3, EliteValues
<1>5. ids \in Seq(Ids)
  BY <1>3, <1>4
<1>6. Members(ids) = IdsOf(archive)
  BY DEF Members, IdsOf
<1> HIDE DEF ids
<1>7. pop' \in Seq(Ids) /\ Len(pop') >= Population /\ IdsOf(archive) \subseteq Members(pop')
  BY <1>1, <1>5, <1>6, CompletedFacts
<1>8. /\ phase' = "evaluate" \/ phase' = "report"
      /\ phase' = "evaluate" => gen' < Generations
  BY <1>1, <1>3, LoopFacts
<1>9. Values'
  BY <1>1, <1>2, <1>3, <1>7, <1>8, ForgeEngineAssumption DEF Values, Phases
<1>10. Progress'
  BY <1>1, <1>2, <1>7, <1>8 DEF Progress
<1>11. ASSUME disk' # NoState PROVE SavedWell' /\ Followed'
  <2>1. SavedWell /\ disk.gen <= gen + 1 /\ (disk.gen = gen + 1 => archive = disk.archive)
    BY <1>1, <1>11 DEF CInv, Followed
  <2>2. SavedWell'
    BY <2>1, <1>1 DEF SavedWell
  <2>3. Followed'
    BY <2>1, <1>1, <1>8 DEF Followed
  <2> QED BY <2>2, <2>3
<1> QED BY <1>1, <1>2, <1>9, <1>10, <1>11 DEF CInv

\* A new process when nothing was saved.
LEMMA RestartCInv == CInv /\ Restart => CInv'
<1> SUFFICES ASSUME CInv, Restart PROVE CInv'
  OBVIOUS
<1>1. /\ disk = NoState /\ disk' = disk /\ crashes' = crashes /\ Values
      /\ phase' = Loop(0) /\ gen' = 0 /\ archive' = << >> /\ history' = << >>
      /\ pop' \in Populations(Population)
  BY DEF Restart, CInv
<1>2. pop' \in Seq(Ids) /\ Len(pop') = Population
  BY <1>1, PopulationsFacts, ForgeEngineAssumption
<1>3. (phase' = "evaluate" \/ phase' = "report") /\ (phase' = "evaluate" => 0 < Generations)
  BY <1>1, LoopFacts
<1>4. Values'
  BY <1>1, <1>2, <1>3, EmptyArchive, EmptyHistory, ForgeEngineAssumption DEF Values, Phases
<1>5. Progress'
  BY <1>1, <1>3, EmptyArchive, EmptyHistory DEF Progress
<1> QED BY <1>1, <1>4, <1>5, EmptyArchive DEF CInv

\* A new process on the checkpoint.
LEMMA ResumeCInv == CInv /\ Resume => CInv'
<1> SUFFICES ASSUME CInv, Resume PROVE CInv'
  OBVIOUS
<1>1. /\ disk # NoState /\ phase' = Loop(gen') /\ disk' = disk /\ crashes' = crashes
      /\ gen' = disk.gen /\ archive' = disk.archive /\ history' = disk.history
      /\ pop' \in Completed(disk.pop)
  BY DEF Resume
<1>2. Values /\ SavedWell
  BY <1>1 DEF CInv
<1>3. /\ disk.gen \in 1 .. Generations
      /\ disk.history \in Seq(Entries) /\ Len(disk.history) = disk.gen
      /\ disk.pop \in Seq(Ids) /\ disk.archive \in Seq(Elites)
      /\ Len(disk.archive) <= Larger(Survivors, 1) /\ InRanks(disk.archive)
      /\ IdsOf(disk.archive) \subseteq Members(disk.pop)
  BY <1>2 DEF SavedWell
<1>4. pop' \in Seq(Ids) /\ Len(pop') >= Population /\ Members(disk.pop) \subseteq Members(pop')
  BY <1>1, <1>3, CompletedFacts
<1>5. /\ phase' = "evaluate" \/ phase' = "report"
      /\ phase' = "evaluate" => gen' < Generations
  BY <1>1, <1>3, LoopFacts, ForgeEngineAssumption
<1>6. Values'
  BY <1>1, <1>2, <1>3, <1>4, <1>5, ForgeEngineAssumption DEF Values, Phases
<1>7. Progress'
  BY <1>1, <1>3, <1>4, <1>5 DEF Progress
<1>8. SavedWell'
  BY <1>1, <1>2 DEF SavedWell
<1>9. Followed'
  BY <1>1, <1>3, <1>5 DEF Followed
<1> QED BY <1>1, <1>3, <1>6, <1>7, <1>8, <1>9 DEF CInv

\* The steps that end a phase and keep the rest.
LEMMA StopCInv ==
  ASSUME CInv, phase' \in {"error", "reported", "down"},
         UNCHANGED <<gen, pop, archive, history, disk>>, crashes' \in 0 .. MaxCrashes
  PROVE  CInv'
<1>1. Values'
  BY DEF CInv, Values, Phases
<1>2. Progress'
  BY DEF Progress
<1>3. disk' # NoState => SavedWell' /\ Followed'
  BY DEF CInv, SavedWell, Followed
<1>4. InRanks(archive')
  BY DEF CInv
<1> QED BY <1>1, <1>2, <1>3, <1>4 DEF CInv

LEMMA CommitFailsCInv == CInv /\ CommitFails => CInv'
<1> SUFFICES ASSUME CInv, CommitFails PROVE CInv'
  OBVIOUS
<1>1. /\ phase = "commit" /\ phase' = "reproduce"
      /\ gen' = gen /\ pop' = pop /\ archive' = archive /\ history' = history
      /\ disk' = disk /\ crashes' = crashes
  BY DEF CommitFails
<1>2. Values /\ InRanks(archive) /\ Progress
  BY DEF CInv
<1>3. Values'
  BY <1>1, <1>2 DEF Values, Phases
<1>4. Progress'
  BY <1>1, <1>2 DEF Progress
<1>5. ASSUME disk' # NoState PROVE SavedWell' /\ Followed'
  <2>1. SavedWell /\ disk.gen <= gen
    BY <1>1, <1>5 DEF CInv, Followed
  <2>2. SavedWell'
    BY <2>1, <1>1 DEF SavedWell
  <2>3. Followed'
    BY <2>1, <1>1, <1>2 DEF Followed, Values, SavedWell
  <2> QED BY <2>2, <2>3
<1> QED BY <1>1, <1>2, <1>3, <1>4, <1>5 DEF CInv

LEMMA NextCInv == CInv /\ [Next]_vars => CInv'
<1> SUFFICES ASSUME CInv, [Next]_vars PROVE CInv'
  OBVIOUS
<1>1. crashes \in 0 .. MaxCrashes
  BY DEF CInv, Values
<1>2. CASE BaselineFails \/ MutationFails \/ HoldoutFails \/ Report \/ LoadFails
  BY <1>1, <1>2, StopCInv DEF BaselineFails, MutationFails, HoldoutFails, Report, LoadFails
<1>3. CASE Crash
  <2>1. crashes' \in 0 .. MaxCrashes
    BY <1>1, <1>3, ForgeEngineAssumption DEF Crash
  <2> QED BY <1>3, <2>1, StopCInv DEF Crash
<1>4. CASE UNCHANGED vars
  BY <1>4 DEF vars, CInv, Values, InRanks, Progress, SavedWell, Followed
<1> QED BY <1>2, <1>3, <1>4, EvaluateCInv, CommitCInv, CommitFailsCInv, ReproduceCInv,
           ResumeCInv, RestartCInv DEF Next

THEOREM AlwaysCInv == Spec => []CInv
BY InitCInv, NextCInv, PTL DEF Spec

-----------------------------------------------------------------------------
\* The campaign and its checkpoint have their types, also over deaths,
\* resumes and lost commits.
THEOREM CampaignAlwaysTyped == Spec => []TypeOK
<1>1. CInv => TypeOK
  <2> SUFFICES ASSUME CInv PROVE TypeOK
    OBVIOUS
  <2>1. disk # NoState =>
            /\ disk.gen \in 0 .. Generations /\ disk.pop \in Seq(Ids)
            /\ disk.archive \in Seq(Elites) /\ disk.history \in Seq(Entries)
    BY ForgeEngineAssumption DEF CInv, SavedWell
  <2> QED BY <2>1 DEF CInv, Values, TypeOK
<1> QED BY <1>1, AlwaysCInv, PTL

\* Every elite is in the population that is evaluated, in the generation that
\* follows a resume too.
THEOREM ElitesAlwaysReevaluated == Spec => []ElitesAreReevaluated
<1>1. CInv => ElitesAreReevaluated
  BY DEF CInv, Progress, ElitesAreReevaluated
<1> QED BY <1>1, AlwaysCInv, PTL

\* The learning curve has an entry for each generation that was run, in memory
\* and in the checkpoint, over deaths, resumes and lost commits.
THEOREM CurveAlwaysPerGeneration == Spec => []CurveIsPerGeneration
<1>1. CInv => CurveIsPerGeneration
  BY DEF CInv, Progress, SavedWell, CurveIsPerGeneration
<1> QED BY <1>1, AlwaysCInv, PTL

\* The archive is ranked: what comes first is dominated by nothing after it,
\* and one content is in it once.
THEOREM ArchiveAlwaysRanked == Spec => []ArchiveRanked
<1>1. CInv => ArchiveRanked
  BY DEF CInv, InRanks, ArchiveRanked
<1> QED BY <1>1, AlwaysCInv, PTL

\* The checkpoint of the next generation is no step back from the last one, by
\* whichever process each was written.
THEOREM CheckpointsNeverRegress == Spec => CheckpointNeverRegresses
<1>1. ASSUME CInv, [Next]_vars
      PROVE  [disk # NoState /\ disk.archive # << >> /\ disk'.gen <= disk.gen + 1 =>
                 /\ disk'.archive # << >>
                 /\ \A e \in Members(disk.archive) : ~Dominates(e, disk'.archive[1])]_disk
  <2>1. CASE disk' = disk
    BY <2>1
  <2>2. CASE disk' # disk
    <3>1. Commit
      BY <1>1, <2>2 DEF Next, vars, Evaluate, BaselineFails, CommitFails, Reproduce,
                        MutationFails, HoldoutFails, Report, Crash, Resume, LoadFails, Restart
    <3>2. phase = "commit" /\ disk'.gen = gen + 1 /\ disk'.archive = archive
      BY <3>1 DEF Commit, EngineState
    <3>3. ASSUME disk # NoState, disk.archive # << >>, disk'.gen <= disk.gen + 1
          PROVE  /\ disk'.archive # << >>
                 /\ \A e \in Members(disk.archive) : ~Dominates(e, disk'.archive[1])
      <4>1. SavedWell /\ Followed /\ gen \in Nat
        BY <1>1, <3>3 DEF CInv, Values
      <4>2. disk.gen \in Nat /\ disk.gen <= gen
        BY <4>1, <3>2 DEF SavedWell, Followed
      <4>3. disk.gen = gen
        BY <4>1, <4>2, <3>2, <3>3
      <4> QED BY <4>1, <4>3, <3>2, <3>3 DEF Followed
    <3> QED BY <3>3
  <2> QED BY <2>1, <2>2
<1> QED BY <1>1, AlwaysCInv, PTL DEF Spec, CheckpointNeverRegresses
=============================================================================
