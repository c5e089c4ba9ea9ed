--------------------------- MODULE TimelineProofs ---------------------------
(***************************************************************************)
(* Theorems about Timeline: the tamper-evident history of a session, for   *)
(* every set of files, every retention policy and every bound.  First the  *)
(* chains and the heads, for which the memories are opaque; then the       *)
(* memories: what a replay computes is well formed, and it is the live     *)
(* memory as long as one process records on its own baseline.              *)
(***************************************************************************)
EXTENDS Timeline, SequenceTheorems, WellFoundedInduction, NaturalsInduction, TLAPS

Fields == {"ops", "baseline", "folded", "chain", "anchor", "baselineHash"}

Entry == {"GENESIS"} \cup (Nat \X Op)

Shape(t) == DOMAIN t = Fields /\ t.ops \in Seq(Op) /\ t.folded \in Nat

\* A link that commits to the steps 0 .. n-1.
Numbered(link, n) ==
    /\ link \in Seq(Entry) /\ Len(link) = n + 1
    /\ \A k \in 1 .. n : link[k + 1][1] = k - 1

\* Every link extends the links before it.
Nested(chain, n) ==
    \A j \in 1 .. Len(chain) : \A i \in 1 .. j :
        \A k \in 1 .. (n + i + 1) : chain[j][k] = chain[i][k]

\* What the links of a timeline say, whatever happened to its operations.
Links(t) ==
    /\ Numbered(t.anchor, t.folded)
    /\ t.chain \in Seq(Seq(Entry))
    /\ \A i \in 1 .. Len(t.chain) : Numbered(t.chain[i], t.folded + i)
    /\ Nested(t.chain, t.folded)
    /\ \A i \in 1 .. Len(t.chain) :
          \A k \in 1 .. t.folded + 1 : t.chain[i][k] = t.anchor[k]

Committed(t) ==
    /\ Commitment(t.baseline) = t.baselineHash
    /\ Chained(t.anchor, t.folded, t.ops, t.chain)

\* The timeline of an open session.
Sound(t) == Shape(t) /\ Links(t) /\ Committed(t)

\* A timeline on disk, damaged or not.
OnDisk(t) == Shape(t) /\ (Links(t) \/ (Legacy(t) /\ t.folded = 0))

-----------------------------------------------------------------------------
\* The operators on timelines.

LEMMA GenesisNumbered == Numbered(GENESIS, 0)
<1>1. GENESIS \in Seq(Entry) /\ Len(GENESIS) = 1
  BY DEF GENESIS, Entry
<1> QED BY <1>1 DEF Numbered

LEMMA StartIsSound ==
  ASSUME NEW m
  PROVE  Sound(StartFrom(m))
<1> DEFINE t == StartFrom(m)
<1>1. /\ t.ops = << >> /\ t.chain = << >> /\ t.folded = 0 /\ t.anchor = GENESIS
      /\ t.baselineHash = Commitment(t.baseline) /\ t.baseline = <<Snapshot(m)>>
      /\ DOMAIN t = Fields
  BY DEF StartFrom, Fields
<1> HIDE DEF t
<1>2. Shape(t)
  BY <1>1 DEF Shape
<1>3. Links(t)
  BY <1>1, GenesisNumbered DEF Links, Nested
<1>4. Committed(t)
  BY <1>1 DEF Committed, Chained
<1> QED BY <1>2, <1>3, <1>4 DEF Sound, t

\* The head of a sound timeline.
LEMMA HeadNumbered ==
  ASSUME NEW t, Shape(t), Links(t), Len(t.chain) = Len(t.ops)
  PROVE  Numbered(TimelineHead(t), LogicalLen(t))
<1>1. Len(t.ops) \in Nat /\ t.chain \in Seq(Seq(Entry)) /\ t.folded \in Nat
  BY DEF Shape, Links
<1>2. CASE t.chain = << >>
  <2>1. LogicalLen(t) = t.folded
    BY <1>1, <1>2 DEF LogicalLen
  <2> QED BY <1>2, <2>1 DEF TimelineHead, HeadOf, Links
<1>3. CASE t.chain # << >>
  <2>1. Len(t.chain) \in 1 .. Len(t.chain)
    BY <1>1, <1>3
  <2> QED BY <1>3, <2>1 DEF TimelineHead, HeadOf, Links, LogicalLen
<1> QED BY <1>2, <1>3

\* Appending a step to a numbered link.
LEMMA LinkNumbered ==
  ASSUME NEW n \in Nat, NEW link, Numbered(link, n), NEW op \in Op
  PROVE  /\ Numbered(Link(link, n, op), n + 1)
         /\ \A k \in 1 .. n + 1 : Link(link, n, op)[k] = link[k]
         /\ Link(link, n, op)[n + 2] = <<n, op>>
<1> DEFINE new == Link(link, n, op)
<1>1. link \in Seq(Entry) /\ Len(link) = n + 1 /\ <<n, op>> \in Entry
  BY DEF Numbered, Entry
<1>2. /\ new \in Seq(Entry) /\ Len(new) = n + 2
      /\ \A k \in 1 .. n + 1 : new[k] = link[k]
      /\ new[n + 2] = <<n, op>>
  BY <1>1, AppendProperties DEF Link
<1> HIDE DEF new
<1>3. \A k \in 1 .. n + 1 : new[k + 1][1] = k - 1
  <2> SUFFICES ASSUME NEW k \in 1 .. n + 1 PROVE new[k + 1][1] = k - 1
    OBVIOUS
  <2>1. CASE k = n + 1
    BY <1>2, <2>1
  <2>2. CASE k # n + 1
    <3>1. k \in 1 .. n /\ k + 1 \in 1 .. n + 1
      BY <2>2
    <3> QED BY <3>1, <1>2 DEF Numbered
  <2> QED BY <2>1, <2>2
<1> QED BY <1>2, <1>3 DEF Numbered, new

\* The head of a timeline agrees with every link on what the link commits to.
LEMMA HeadExtends ==
  ASSUME NEW t, Shape(t), Links(t), Len(t.chain) = Len(t.ops)
  PROVE  /\ \A k \in 1 .. t.folded + 1 : TimelineHead(t)[k] = t.anchor[k]
         /\ \A i \in 1 .. Len(t.chain) : \A k \in 1 .. (t.folded + i + 1) :
               TimelineHead(t)[k] = t.chain[i][k]
<1>1. t.chain \in Seq(Seq(Entry)) /\ t.folded \in Nat
  BY DEF Shape, Links
<1>2. CASE t.chain = << >>
  BY <1>2 DEF TimelineHead, HeadOf
<1>3. CASE t.chain # << >>
  <2>1. Len(t.chain) \in 1 .. Len(t.chain)
    BY <1>1, <1>3
  <2>2. TimelineHead(t) = t.chain[Len(t.chain)]
    BY <1>3 DEF TimelineHead, HeadOf
  <2>3. \A i \in 1 .. Len(t.chain) : i \in 1 .. Len(t.chain)
    OBVIOUS
  <2> QED BY <2>1, <2>2, <2>3 DEF Links, Nested
<1> QED BY <1>2, <1>3
-----------------------------------------------------------------------------
\* `record` keeps a timeline sound and appends one step to its head.

LEMMA RecordedIsSound ==
  ASSUME NEW t, Sound(t), NEW op \in Op
  PROVE  /\ Sound(Recorded(t, op))
         /\ LogicalLen(Recorded(t, op)) = LogicalLen(t) + 1
         /\ \A k \in 1 .. LogicalLen(t) + 1 :
               TimelineHead(Recorded(t, op))[k] = TimelineHead(t)[k]
<1> DEFINE u == Recorded(t, op)
           head == TimelineHead(t)
           link == Link(head, LogicalLen(t), op)
           n == Len(t.ops)
<1>1. /\ Shape(t) /\ Links(t) /\ Committed(t)
      /\ n \in Nat /\ t.folded \in Nat /\ t.ops \in Seq(Op)
      /\ t.chain \in Seq(Seq(Entry)) /\ Len(t.chain) = n
  BY DEF Sound, Shape, Links, Committed, Chained
<1>0. n \in Nat /\ t.folded \in Nat /\ Len(t.chain) = n
  BY <1>1
<1>2. LogicalLen(t) = t.folded + n /\ LogicalLen(t) \in Nat
  BY <1>0 DEF LogicalLen
<1>3. Numbered(head, LogicalLen(t))
  BY <1>1, HeadNumbered
<1>4. /\ Numbered(link, LogicalLen(t) + 1) /\ link \in Seq(Entry)
      /\ \A k \in 1 .. LogicalLen(t) + 1 : link[k] = head[k]
  <2>1. /\ Numbered(link, LogicalLen(t) + 1)
        /\ \A k \in 1 .. LogicalLen(t) + 1 : link[k] = head[k]
    BY <1>2, <1>3, LinkNumbered
  <2> QED BY <2>1 DEF Numbered
<1>5. /\ DOMAIN u = Fields /\ u.folded = t.folded /\ u.anchor = t.anchor
      /\ u.baseline = t.baseline /\ u.baselineHash = t.baselineHash
      /\ u.chain = Append(t.chain, link) /\ u.ops = Append(t.ops, op)
  BY <1>1 DEF Recorded, Shape, Fields
<1>6. /\ u.chain \in Seq(Seq(Entry)) /\ Len(u.chain) = n + 1
      /\ \A i \in 1 .. n : u.chain[i] = t.chain[i]
      /\ u.chain[n + 1] = link /\ u.chain # << >>
  <2>1. t.chain \in Seq(Seq(Entry)) /\ Len(t.chain) = n /\ link \in Seq(Entry)
    BY <1>1, <1>4
  <2>2. u.chain = Append(t.chain, link)
    BY <1>5
  <2> HIDE DEF u, link, n
  <2> QED BY <2>1, <2>2, AppendProperties
<1>7. /\ u.ops \in Seq(Op) /\ Len(u.ops) = n + 1
      /\ \A i \in 1 .. n : u.ops[i] = t.ops[i]
      /\ u.ops[n + 1] = op
  BY <1>1, <1>5, AppendProperties
<1>8. LogicalLen(u) = LogicalLen(t) + 1
  BY <1>1, <1>2, <1>5, <1>7 DEF LogicalLen
<1>9. TimelineHead(u) = link
  BY <1>1, <1>6 DEF TimelineHead, HeadOf
<1>10. /\ \A k \in 1 .. t.folded + 1 : head[k] = t.anchor[k]
       /\ \A i \in 1 .. n : \A k \in 1 .. (t.folded + i + 1) : head[k] = t.chain[i][k]
  <2>1. Shape(t) /\ Links(t) /\ Len(t.chain) = Len(t.ops)
    BY <1>1
  <2> QED BY <2>1, HeadExtends
<1> HIDE DEF u, head, link, n
<1>11. Shape(u)
  BY <1>1, <1>5, <1>7 DEF Shape
<1>12. Links(u)
  <2>0. u.folded = t.folded
    BY <1>5
  <2>1. \A i \in 1 .. n + 1 : Numbered(u.chain[i], u.folded + i)
    <3> SUFFICES ASSUME NEW i \in 1 .. n + 1 PROVE Numbered(u.chain[i], u.folded + i)
      OBVIOUS
    <3>1. CASE i = n + 1
      <4>1. u.folded + i = LogicalLen(t) + 1
        BY <3>1, <1>0, <1>2, <2>0
      <4> QED BY <4>1, <3>1, <1>4, <1>6
    <3>2. CASE i # n + 1
      <4>1. i \in 1 .. n
        BY <3>2, <1>1
      <4> QED BY <4>1, <1>1, <1>5, <1>6 DEF Links
    <3> QED BY <3>1, <3>2
  <2>2. Nested(u.chain, u.folded)
    <3> SUFFICES ASSUME NEW j \in 1 .. n + 1, NEW i \in 1 .. j,
                        NEW k \in 1 .. (t.folded + i + 1)
                 PROVE  u.chain[j][k] = u.chain[i][k]
      BY <1>5, <1>6 DEF Nested
    <3>1. CASE j # n + 1
      <4>1. j \in 1 .. Len(t.chain) /\ i \in 1 .. n /\ j \in 1 .. n
        BY <3>1, <1>0
      <4>2. t.chain[j][k] = t.chain[i][k]
        BY <4>1, <1>1 DEF Links, Nested
      <4> QED BY <4>1, <4>2, <1>6
    <3>2. CASE j = n + 1 /\ i # n + 1
      <4>1. i \in 1 .. n
        BY <3>2, <1>1
      <4>2. k \in 1 .. LogicalLen(t) + 1
        BY <4>1, <1>1, <1>2
      <4>3. head[k] = t.chain[i][k]
        BY <4>1, <1>10
      <4> QED BY <4>1, <4>2, <4>3, <3>2, <1>4, <1>6
    <3>3. CASE j = n + 1 /\ i = n + 1
      BY <3>3
    <3> QED BY <3>1, <3>2, <3>3
  <2>3. \A i \in 1 .. n + 1 : \A k \in 1 .. t.folded + 1 : u.chain[i][k] = t.anchor[k]
    <3> SUFFICES ASSUME NEW i \in 1 .. n + 1, NEW k \in 1 .. t.folded + 1
                 PROVE  u.chain[i][k] = t.anchor[k]
      OBVIOUS
    <3>1. CASE i = n + 1
      <4>1. k \in 1 .. LogicalLen(t) + 1
        BY <1>1, <1>2
      <4> QED BY <4>1, <3>1, <1>4, <1>6, <1>10
    <3>2. CASE i # n + 1
      <4>1. i \in 1 .. n
        BY <3>2, <1>1
      <4> QED BY <4>1, <1>1, <1>6 DEF Links
    <3> QED BY <3>1, <3>2
  <2>4. u.anchor = t.anchor /\ Len(u.chain) = n + 1 /\ Numbered(u.anchor, u.folded)
    BY <1>1, <1>5, <1>6 DEF Links
  <2>5. u.chain \in Seq(Seq(Entry))
    BY <1>6
  <2> QED BY <2>0, <2>1, <2>2, <2>3, <2>4, <2>5 DEF Links
<1>13. Committed(u)
  <2>1. Commitment(u.baseline) = u.baselineHash
    BY <1>1, <1>5 DEF Committed
  <2>2. \A i \in 1 .. n + 1 :
           u.chain[i] = Link(Predecessor(t.anchor, u.chain, i), t.folded + i - 1, u.ops[i])
    <3> SUFFICES ASSUME NEW i \in 1 .. n + 1
                 PROVE  u.chain[i] = Link(Predecessor(t.anchor, u.chain, i),
                                          t.folded + i - 1, u.ops[i])
      OBVIOUS
    <3>1. CASE i # n + 1
      <4>1. i \in 1 .. n /\ (i # 1 => i - 1 \in 1 .. n)
        BY <3>1, <1>1
      <4>2. Predecessor(t.anchor, u.chain, i) = Predecessor(t.anchor, t.chain, i)
        BY <4>1, <1>6 DEF Predecessor
      <4>3. t.chain[i] = Link(Predecessor(t.anchor, t.chain, i), t.folded + i - 1, t.ops[i])
        BY <4>1, <1>1 DEF Committed, Chained
      <4> QED BY <4>1, <4>2, <4>3, <1>6, <1>7
    <3>2. CASE i = n + 1
      <4>1. t.folded + i - 1 = LogicalLen(t)
        BY <3>2, <1>1, <1>2
      <4>2. Predecessor(t.anchor, u.chain, i) = head
        <5>1. CASE n = 0
          BY <5>1, <3>2, <1>1 DEF Predecessor, head, TimelineHead, HeadOf
        <5>2. CASE n # 0
          <6>1. n \in 1 .. n /\ i # 1 /\ i - 1 = n /\ t.chain # << >>
            BY <5>2, <3>2, <1>1
          <6> QED BY <6>1, <1>1, <1>6 DEF Predecessor, head, TimelineHead, HeadOf
        <5> QED BY <5>1, <5>2
      <4> QED BY <4>1, <4>2, <3>2, <1>6, <1>7 DEF link
    <3> QED BY <3>1, <3>2
  <2> QED BY <2>1, <2>2, <1>5, <1>6, <1>7 DEF Committed, Chained
<1>14. Sound(u)
  BY <1>11, <1>12, <1>13 DEF Sound
<1> QED BY <1>4, <1>8, <1>9, <1>14 DEF u, head

\* A compaction keeps a timeline sound, its head and its logical length.
LEMMA CompactedIsSound ==
  ASSUME NEW t, Sound(t), NEW fold \in 1 .. Len(t.ops)
  PROVE  /\ Sound(Compacted(t, fold))
         /\ LogicalLen(Compacted(t, fold)) = LogicalLen(t)
         /\ TimelineHead(Compacted(t, fold)) = TimelineHead(t)
         /\ Len(Compacted(t, fold).ops) = Len(t.ops) - fold
<1> DEFINE u == Compacted(t, fold)
           n == Len(t.ops)
           rest == n - fold
<1>1. /\ Shape(t) /\ Links(t) /\ Committed(t)
      /\ n \in Nat /\ t.folded \in Nat /\ t.ops \in Seq(Op)
      /\ t.chain \in Seq(Seq(Entry)) /\ Len(t.chain) = n
  BY DEF Sound, Shape, Links, Committed, Chained
<1>2. /\ n \in Nat /\ t.folded \in Nat /\ Len(t.chain) = n
      /\ fold \in 1 .. n /\ rest \in Nat
  BY <1>1
<1>3. /\ DOMAIN u = Fields /\ u.folded = t.folded + fold
      /\ u.anchor = t.chain[fold]
      /\ u.baselineHash = Commitment(u.baseline)
      /\ u.chain = SubSeq(t.chain, fold + 1, n)
      /\ u.ops = SubSeq(t.ops, fold + 1, n)
  BY <1>2 DEF Compacted, Fields
<1>4. /\ u.chain \in Seq(Seq(Entry)) /\ Len(u.chain) = rest
      /\ \A i \in 1 .. rest : u.chain[i] = t.chain[fold + i]
  <2>1. \A i \in fold + 1 .. n : t.chain[i] \in Seq(Entry)
    BY <1>1
  <2>2. fold + 1 \in Int /\ n \in Int
    BY <1>2
  <2>3. /\ u.chain \in Seq(Seq(Entry))
        /\ Len(u.chain) = IF fold + 1 <= n THEN n - (fold + 1) + 1 ELSE 0
        /\ \A i \in 1 .. n - (fold + 1) + 1 : u.chain[i] = t.chain[fold + 1 + i - 1]
    BY <1>3, <2>1, <2>2, SubSeqProperties
  <2>4. /\ n - (fold + 1) + 1 = rest
        /\ (IF fold + 1 <= n THEN n - (fold + 1) + 1 ELSE 0) = rest
    BY <1>2
  <2>5. ASSUME NEW i \in 1 .. rest PROVE u.chain[i] = t.chain[fold + i]
    <3>1. i \in 1 .. n - (fold + 1) + 1 /\ fold + 1 + i - 1 = fold + i
      BY <1>2, <2>4
    <3>2. u.chain[i] = t.chain[fold + 1 + i - 1]
      BY <3>1, <2>3
    <3> QED BY <3>1, <3>2
  <2> QED BY <2>3, <2>4, <2>5
<1>5. /\ u.ops \in Seq(Op) /\ Len(u.ops) = rest
      /\ \A i \in 1 .. rest : u.ops[i] = t.ops[fold + i]
  <2>1. \A i \in fold + 1 .. n : t.ops[i] \in Op
    BY <1>1
  <2>2. fold + 1 \in Int /\ n \in Int
    BY <1>2
  <2>3. /\ u.ops \in Seq(Op)
        /\ Len(u.ops) = IF fold + 1 <= n THEN n - (fold + 1) + 1 ELSE 0
        /\ \A i \in 1 .. n - (fold + 1) + 1 : u.ops[i] = t.ops[fold + 1 + i - 1]
    BY <1>3, <2>1, <2>2, SubSeqProperties
  <2>4. /\ n - (fold + 1) + 1 = rest
        /\ (IF fold + 1 <= n THEN n - (fold + 1) + 1 ELSE 0) = rest
    BY <1>2
  <2>5. ASSUME NEW i \in 1 .. rest PROVE u.ops[i] = t.ops[fold + i]
    <3>1. i \in 1 .. n - (fold + 1) + 1 /\ fold + 1 + i - 1 = fold + i
      BY <1>2, <2>4
    <3>2. u.ops[i] = t.ops[fold + 1 + i - 1]
      BY <3>1, <2>3
    <3> QED BY <3>1, <3>2
  <2> QED BY <2>3, <2>4, <2>5
<1>6. \A i \in 1 .. rest : fold + i \in 1 .. n /\ fold \in 1 .. (fold + i)
  BY <1>2
<1>7. u.folded \in Nat /\ u.folded = t.folded + fold
  BY <1>2, <1>3
<1>8. \A i \in 1 .. rest : u.folded + i = t.folded + (fold + i)
  BY <1>2, <1>7
<1>9. n = fold + rest /\ (rest # 0 => rest \in 1 .. rest) /\ n \in 1 .. n
  BY <1>2
<1> HIDE DEF u, n, rest
<1>10. LogicalLen(u) = LogicalLen(t)
  BY <1>2, <1>5, <1>7, <1>9 DEF LogicalLen, n
<1>11. TimelineHead(u) = TimelineHead(t)
  <2>1. TimelineHead(t) = t.chain[n]
    <3>1. t.chain # << >>
      BY <1>1, <1>9
    <3> QED BY <3>1, <1>2 DEF TimelineHead, HeadOf
  <2>2. CASE rest = 0
    <3>1. u.chain = << >> /\ n = fold
      BY <2>2, <1>2, <1>4, <1>9
    <3> QED BY <3>1, <2>1, <1>3 DEF TimelineHead, HeadOf
  <2>3. CASE rest # 0
    <3>1. u.chain # << >> /\ u.chain[rest] = t.chain[n]
      BY <2>3, <1>4, <1>9
    <3> QED BY <3>1, <2>1, <1>4 DEF TimelineHead, HeadOf
  <2> QED BY <2>2, <2>3
<1>12. Shape(u)
  BY <1>3, <1>5, <1>7 DEF Shape
<1>13. Links(u)
  <2>1. Numbered(u.anchor, u.folded)
    BY <1>1, <1>2, <1>3, <1>7 DEF Links
  <2>2. \A i \in 1 .. rest : Numbered(u.chain[i], u.folded + i)
    BY <1>1, <1>2, <1>4, <1>6, <1>8 DEF Links
  <2>3. Nested(u.chain, u.folded)
    <3> SUFFICES ASSUME NEW j \in 1 .. rest, NEW i \in 1 .. j,
                        NEW k \in 1 .. (u.folded + i + 1)
                 PROVE  u.chain[j][k] = u.chain[i][k]
      BY <1>4 DEF Nested
    <3>1. i \in 1 .. rest /\ fold + i \in 1 .. (fold + j) /\ fold + j \in 1 .. n
      BY <1>2, <1>6
    <3>2. k \in 1 .. (t.folded + (fold + i) + 1)
      BY <3>1, <1>8
    <3>3. t.chain[fold + j][k] = t.chain[fold + i][k]
      BY <3>1, <3>2, <1>1, <1>2 DEF Links, Nested
    <3> QED BY <3>1, <3>3, <1>4
  <2>4. \A i \in 1 .. rest : \A k \in 1 .. u.folded + 1 : u.chain[i][k] = u.anchor[k]
    <3> SUFFICES ASSUME NEW i \in 1 .. rest, NEW k \in 1 .. u.folded + 1
                 PROVE  u.chain[i][k] = u.anchor[k]
      OBVIOUS
    <3>1. k \in 1 .. (t.folded + fold + 1)
      BY <1>7
    <3>2. t.chain[fold + i][k] = t.chain[fold][k]
      BY <3>1, <1>1, <1>2, <1>6 DEF Links, Nested
    <3> QED BY <3>2, <1>3, <1>4
  <2> QED BY <2>1, <2>2, <2>3, <2>4, <1>4 DEF Links
<1>14. Committed(u)
  <2>1. \A i \in 1 .. rest :
           u.chain[i] = Link(Predecessor(u.anchor, u.chain, i), u.folded + i - 1, u.ops[i])
    <3> SUFFICES ASSUME NEW i \in 1 .. rest
                 PROVE  u.chain[i] = Link(Predecessor(u.anchor, u.chain, i),
                                          u.folded + i - 1, u.ops[i])
      OBVIOUS
    <3>1. t.chain[fold + i] = Link(Predecessor(t.anchor, t.chain, fold + i),
                                   t.folded + (fold + i) - 1, t.ops[fold + i])
      BY <1>1, <1>2, <1>6 DEF Committed, Chained, n
    <3>2. t.folded + (fold + i) - 1 = u.folded + i - 1
      BY <1>2, <1>7
    <3>3. Predecessor(t.anchor, t.chain, fold + i) = t.chain[fold + i - 1]
      <4>1. fold + i # 1
        BY <1>2
      <4> QED BY <4>1 DEF Predecessor
    <3>4. Predecessor(u.anchor, u.chain, i) = t.chain[fold + i - 1]
      <4>1. CASE i = 1
        <5>1. fold + i - 1 = fold
          BY <4>1, <1>2
        <5> QED BY <4>1, <5>1, <1>3 DEF Predecessor
      <4>2. CASE i # 1
        <5>1. i - 1 \in 1 .. rest /\ fold + (i - 1) = fold + i - 1
          BY <4>2, <1>2
        <5> QED BY <4>2, <5>1, <1>4 DEF Predecessor
      <4> QED BY <4>1, <4>2
    <3> QED BY <3>1, <3>2, <3>3, <3>4, <1>4, <1>5
  <2> QED BY <2>1, <1>3, <1>4, <1>5 DEF Committed, Chained
<1>15. Sound(u)
  BY <1>12, <1>13, <1>14 DEF Sound
<1> QED BY <1>5, <1>10, <1>11, <1>15 DEF u, n, rest

\* A link computed from genesis over the first operations of `ops`.
FromGenesis(link, ops, i) ==
    /\ link \in Seq(Entry) /\ Len(link) = i + 1
    /\ link[1] = "GENESIS"
    /\ \A k \in 1 .. i : link[k + 1] = <<k - 1, ops[k]>>

\* The links of `chain_over`, entry by entry.
LEMMA ChainOverEntries ==
  ASSUME NEW ops \in Seq(Op), NEW i \in 1 .. Len(ops)
  PROVE  FromGenesis(ChainOver(GENESIS, 0, ops)[i], ops, i)
<1> DEFINE steps == [j \in 1 .. i |-> <<0 + j - 1, ops[j]>>]
           link == ChainOver(GENESIS, 0, ops)[i]
<1>0. i \in Nat /\ i # 0 /\ \A j \in 1 .. i : j \in 1 .. Len(ops) /\ 0 + j - 1 = j - 1 /\ j - 1 \in Nat
  OBVIOUS
<1>1. link = GENESIS \o steps
  BY DEF ChainOver
<1>2. \A j \in 1 .. i : <<0 + j - 1, ops[j]>> \in Entry
  BY <1>0 DEF Entry
<1>3. steps \in Seq(Entry) /\ Len(steps) = i /\ \A j \in 1 .. i : steps[j] = <<j - 1, ops[j]>>
  BY <1>0, <1>2
<1>4. /\ GENESIS \in Seq(Entry) /\ Len(GENESIS) = 1 /\ GENESIS[1] = "GENESIS"
  BY DEF GENESIS, Entry
<1> HIDE DEF link, steps
<1>5. /\ link \in Seq(Entry) /\ Len(link) = 1 + i
      /\ \A k \in 1 .. 1 + i : link[k] = IF k <= 1 THEN GENESIS[k] ELSE steps[k - 1]
  <2>1. /\ link \in Seq(Entry) /\ Len(link) = Len(GENESIS) + Len(steps)
        /\ \A k \in 1 .. Len(GENESIS) + Len(steps) :
              link[k] = IF k <= Len(GENESIS) THEN GENESIS[k] ELSE steps[k - Len(GENESIS)]
    BY <1>1, <1>3, <1>4, ConcatProperties
  <2> QED BY <2>1, <1>3, <1>4
<1>6. link[1] = "GENESIS"
  BY <1>0, <1>4, <1>5
<1>7. ASSUME NEW k \in 1 .. i PROVE link[k + 1] = <<k - 1, ops[k]>>
  <2>1. k + 1 \in 1 .. 1 + i /\ ~(k + 1 <= 1) /\ k + 1 - 1 = k
    BY <1>0
  <2>2. link[k + 1] = steps[k + 1 - 1]
    BY <2>1, <1>5
  <2> QED BY <2>1, <2>2, <1>3
<1>8. Len(link) = i + 1
  BY <1>0, <1>5
<1> QED BY <1>5, <1>6, <1>7, <1>8 DEF link, FromGenesis

\* The chain that `open` gives to a sidecar without one.
LEMMA BackfillIsSound ==
  ASSUME NEW t, Shape(t), t.folded = 0
  PROVE  Sound(Backfill(t))
<1> DEFINE u == Backfill(t)
           n == Len(t.ops)
<1>1. /\ DOMAIN u = Fields /\ u.folded = 0 /\ u.anchor = GENESIS
      /\ u.ops = t.ops /\ u.ops \in Seq(Op)
      /\ u.baseline = t.baseline
      /\ u.chain = ChainOver(GENESIS, 0, t.ops)
  BY DEF Backfill, Shape, Fields
<1>2. u.baselineHash = Commitment(u.baseline)
  BY DEF Backfill, Shape, Fields
<1>3. n \in Nat /\ n = Len(u.ops)
  BY <1>1
<1>4. Len(u.chain) = n /\ DOMAIN u.chain = 1 .. n
  BY <1>1, <1>3 DEF ChainOver
<1>5. ASSUME NEW i \in 1 .. n
      PROVE  /\ u.chain[i] \in Seq(Entry) /\ Len(u.chain[i]) = i + 1
             /\ u.chain[i][1] = "GENESIS"
             /\ \A k \in 1 .. i : u.chain[i][k + 1] = <<k - 1, u.ops[k]>>
  <2>1. t.ops \in Seq(Op) /\ i \in 1 .. Len(t.ops)
    BY <1>1
  <2>2. u.chain[i] = ChainOver(GENESIS, 0, t.ops)[i] /\ u.ops = t.ops
    BY <1>1
  <2> HIDE DEF u, n
  <2>3. FromGenesis(u.chain[i], u.ops, i)
    BY <2>1, <2>2, ChainOverEntries
  <2> QED BY <2>3 DEF FromGenesis
<1> HIDE DEF u, n
<1>6. u.chain \in Seq(Seq(Entry))
  <2>1. u.chain = [i \in 1 .. n |-> u.chain[i]]
    BY <1>1, <1>3, <1>4 DEF ChainOver
  <2> QED BY <2>1, <1>3, <1>5
<1>7. ASSUME NEW i \in 1 .. n PROVE Numbered(u.chain[i], u.folded + i)
  <2>1. u.folded + i = i
    BY <1>1, <1>3
  <2>2. \A k \in 1 .. i : u.chain[i][k + 1][1] = k - 1
    BY <1>5
  <2> QED BY <2>1, <2>2, <1>5 DEF Numbered
<1>8. Nested(u.chain, u.folded)
  <2> SUFFICES ASSUME NEW j \in 1 .. n, NEW i \in 1 .. j, NEW k \in 1 .. (u.folded + i + 1)
               PROVE  u.chain[j][k] = u.chain[i][k]
    BY <1>4 DEF Nested
  <2>1. i \in 1 .. n
    BY <1>3
  <2>2. CASE k = 1
    BY <2>1, <2>2, <1>5
  <2>3. CASE k # 1
    <3>1. k - 1 \in 1 .. i /\ k - 1 \in 1 .. j /\ k - 1 + 1 = k
      BY <2>3, <1>1, <1>3
    <3>2. u.chain[i][k - 1 + 1] = <<k - 1 - 1, u.ops[k - 1]>>
      BY <2>1, <3>1, <1>5
    <3>3. u.chain[j][k - 1 + 1] = <<k - 1 - 1, u.ops[k - 1]>>
      BY <3>1, <1>5
    <3> QED BY <3>1, <3>2, <3>3
  <2> QED BY <2>2, <2>3
<1>9. \A i \in 1 .. n : \A k \in 1 .. u.folded + 1 : u.chain[i][k] = u.anchor[k]
  BY <1>1, <1>5 DEF GENESIS
<1>10. Links(u)
  BY <1>1, <1>4, <1>6, <1>7, <1>8, <1>9, GenesisNumbered DEF Links
<1>11. ASSUME NEW i \in 1 .. n
       PROVE  u.chain[i] = Link(Predecessor(u.anchor, u.chain, i), u.folded + i - 1, u.ops[i])
  <2> DEFINE prev == Predecessor(u.anchor, u.chain, i)
             step == <<u.folded + i - 1, u.ops[i]>>
  <2>1. u.folded + i - 1 = i - 1 /\ i - 1 \in Nat /\ u.ops[i] \in Op /\ i \in Nat
    BY <1>1, <1>3
  <2>2. step = <<i - 1, u.ops[i]>> /\ step \in Entry
    BY <2>1 DEF Entry
  <2>3. /\ prev \in Seq(Entry) /\ Len(prev) = i
        /\ \A k \in 1 .. i : prev[k] = u.chain[i][k]
    <3>1. CASE i = 1
      <4>1. prev = GENESIS
        BY <3>1, <1>1 DEF Predecessor
      <4>2. GENESIS \in Seq(Entry) /\ Len(GENESIS) = 1 /\ GENESIS[1] = "GENESIS"
        BY GenesisNumbered DEF Numbered, GENESIS
      <4> QED BY <3>1, <4>1, <4>2, <1>5
    <3>2. CASE i # 1
      <4>1. prev = u.chain[i - 1] /\ i - 1 \in 1 .. n /\ i - 1 + 1 = i
        BY <3>2, <1>3 DEF Predecessor
      <4>2. i - 1 \in 1 .. i /\ \A k \in 1 .. i : k \in 1 .. (u.folded + (i - 1) + 1)
        BY <3>2, <1>1, <2>1
      <4>3. \A k \in 1 .. i : u.chain[i][k] = u.chain[i - 1][k]
        BY <4>2, <1>4, <1>8 DEF Nested
      <4>4. u.chain[i - 1] \in Seq(Entry) /\ Len(u.chain[i - 1]) = i
        <5>1. Len(u.chain[i - 1]) = i - 1 + 1
          BY <4>1, <1>5
        <5> QED BY <5>1, <4>1, <1>5
      <4> QED BY <4>1, <4>3, <4>4
    <3> QED BY <3>1, <3>2
  <2> HIDE DEF prev, step
  <2>4. /\ Append(prev, step) \in Seq(Entry) /\ Len(Append(prev, step)) = i + 1
        /\ \A k \in 1 .. i : Append(prev, step)[k] = u.chain[i][k]
        /\ Append(prev, step)[i + 1] = step
    BY <2>2, <2>3, AppendProperties
  <2>5. u.chain[i][i + 1] = step
    <3>1. i \in 1 .. i
      BY <2>1
    <3> QED BY <3>1, <2>2, <1>5
  <2>6. \A k \in 1 .. i + 1 : Append(prev, step)[k] = u.chain[i][k]
    <3>1. \A k \in 1 .. i + 1 : k \in 1 .. i \/ k = i + 1
      BY <2>1
    <3> QED BY <3>1, <2>4, <2>5
  <2>7. Append(prev, step) = u.chain[i]
    <3>1. u.chain[i] \in Seq(Entry) /\ Len(u.chain[i]) = i + 1
      BY <1>5
    <3> QED BY <3>1, <2>4, <2>6, SeqEqual
  <2> QED BY <2>7 DEF Link, prev, step
<1>12. Shape(u) /\ Committed(u)
  BY <1>1, <1>2, <1>3, <1>4, <1>11 DEF Shape, Committed, Chained
<1> QED BY <1>10, <1>12 DEF Sound, u

-----------------------------------------------------------------------------
\* The inductive invariant.

Extends(head, older) ==
    Len(older) <= Len(head) /\ \A k \in 1 .. Len(older) : head[k] = older[k]

DiskOK ==
    sidecar # << >> => /\ OnDisk(sidecar[1])
                       /\ ~corrupted => Verifies(sidecar[1])

Short(t) == OplogMax > 0 => Len(t.ops) <= OplogMax \/ Len(t.ops) <= OplogKeep

ShortOK ==
    /\ sidecar # << >> => Short(sidecar[1])
    /\ phase = "checkpointing" => Short(tl)

\* The session extends the history on disk, unless it declared it stale.
ExtendsDisk ==
    phase # "down" /\ sidecar # << >> /\ ~corrupted /\ ~healed /\ ~Legacy(sidecar[1])
        => Extends(TimelineHead(tl), TimelineHead(sidecar[1]))

IInv == Sound(tl) /\ DiskOK /\ ShortOK /\ ExtendsDisk

LEMMA HeadIsSeq ==
  ASSUME NEW t, Sound(t)
  PROVE  /\ Numbered(TimelineHead(t), LogicalLen(t))
         /\ Len(TimelineHead(t)) = LogicalLen(t) + 1
         /\ LogicalLen(t) \in Nat
<1>1. Shape(t) /\ Links(t) /\ Len(t.chain) = Len(t.ops)
  BY DEF Sound, Committed, Chained
<1>2. LogicalLen(t) \in Nat
  BY <1>1 DEF LogicalLen, Shape
<1>3. Numbered(TimelineHead(t), LogicalLen(t))
  BY <1>1, HeadNumbered
<1> QED BY <1>2, <1>3 DEF Numbered

LEMMA ExtendsSelf ==
  ASSUME NEW t, Sound(t)
  PROVE  Extends(TimelineHead(t), TimelineHead(t))
<1>1. Len(TimelineHead(t)) \in Nat
  BY HeadIsSeq
<1> QED BY <1>1 DEF Extends

LEMMA ExtendsTransitive ==
  ASSUME NEW a, NEW b, NEW c, Len(a) \in Nat, Len(b) \in Nat, Len(c) \in Nat,
         Extends(a, b), Extends(b, c)
  PROVE  Extends(a, c)
BY DEF Extends

LEMMA RecordedExtends ==
  ASSUME NEW t, Sound(t), NEW op \in Op
  PROVE  Extends(TimelineHead(Recorded(t, op)), TimelineHead(t))
<1>1. /\ Sound(Recorded(t, op))
      /\ LogicalLen(Recorded(t, op)) = LogicalLen(t) + 1
      /\ \A k \in 1 .. LogicalLen(t) + 1 :
            TimelineHead(Recorded(t, op))[k] = TimelineHead(t)[k]
  BY RecordedIsSound
<1>2. /\ Len(TimelineHead(t)) = LogicalLen(t) + 1 /\ LogicalLen(t) \in Nat
      /\ Len(TimelineHead(Recorded(t, op))) = LogicalLen(Recorded(t, op)) + 1
  BY <1>1, HeadIsSeq
<1>3. Len(TimelineHead(t)) <= Len(TimelineHead(Recorded(t, op)))
  BY <1>1, <1>2
<1> QED BY <1>1, <1>2, <1>3 DEF Extends

\* Links never are those of a sidecar without chain.
LEMMA LinksNotLegacy ==
  ASSUME NEW t, Shape(t), Links(t)
  PROVE  ~Legacy(t)
<1>1. Len(t.anchor) = t.folded + 1 /\ t.folded \in Nat
  BY DEF Links, Numbered, Shape
<1>2. Len(NoLink) = 0
  BY DEF NoLink
<1> QED BY <1>1, <1>2 DEF Legacy

\* A sidecar that verifies gives a sound timeline.
LEMMA RestoredIsSound ==
  ASSUME NEW t, OnDisk(t), Verifies(t)
  PROVE  Sound(Restored(t))
<1>1. CASE Legacy(t)
  BY <1>1, LinksNotLegacy, BackfillIsSound DEF OnDisk, Restored
<1>2. CASE ~Legacy(t)
  BY <1>2 DEF OnDisk, Restored, Verifies, Sound, Committed
<1> QED BY <1>1, <1>2

LEMMA SoundVerifies ==
  ASSUME NEW t, Sound(t)
  PROVE  OnDisk(t) /\ Verifies(t) /\ ~Legacy(t)
BY LinksNotLegacy DEF Sound, OnDisk, Committed, Verifies

LEMMA CompactedIfNeededIsSound ==
  ASSUME NEW t, Sound(t)
  PROVE  /\ Sound(CompactedIfNeeded(t)) /\ Short(CompactedIfNeeded(t))
         /\ LogicalLen(CompactedIfNeeded(t)) = LogicalLen(t)
         /\ TimelineHead(CompactedIfNeeded(t)) = TimelineHead(t)
<1>1. Len(t.ops) \in Nat /\ OplogMax \in Nat /\ OplogKeep \in Nat
  BY TimelineAssumption DEF Sound, Shape
<1>2. CASE OplogMax > 0 /\ Len(t.ops) > OplogMax /\ Len(t.ops) > OplogKeep
  <2>1. CompactedIfNeeded(t) = Compacted(t, Len(t.ops) - OplogKeep)
    BY <1>2 DEF CompactedIfNeeded, CompactedTo
  <2> DEFINE fold == Len(t.ops) - OplogKeep
  <2>2. Len(t.ops) - fold = OplogKeep
    BY <1>1
  <2>3. fold \in 1 .. Len(t.ops)
    BY <1>1, <1>2
  <2> HIDE DEF fold
  <2>4. /\ Sound(Compacted(t, fold)) /\ LogicalLen(Compacted(t, fold)) = LogicalLen(t)
        /\ TimelineHead(Compacted(t, fold)) = TimelineHead(t)
        /\ Len(Compacted(t, fold).ops) = Len(t.ops) - fold
    BY <2>3, CompactedIsSound
  <2>5. Len(Compacted(t, fold).ops) <= OplogKeep
    BY <2>2, <2>4, <1>1
  <2> QED BY <2>1, <2>4, <2>5 DEF Short, fold
<1>3. CASE ~(OplogMax > 0 /\ Len(t.ops) > OplogMax /\ Len(t.ops) > OplogKeep)
  <2>1. CompactedIfNeeded(t) = t
    BY <1>3 DEF CompactedIfNeeded, CompactedTo
  <2>2. Short(t)
    BY <1>1, <1>3 DEF Short
  <2> QED BY <2>1, <2>2
<1> QED BY <1>2, <1>3

-----------------------------------------------------------------------------
\* Init and Next preserve the invariant.

LEMMA InitSound == Init => IInv
<1> SUFFICES ASSUME Init PROVE IInv
  OBVIOUS
<1>1. Sound(tl)
  BY StartIsSound DEF Init, NoTimeline
<1>2. phase = "down" /\ corrupted = FALSE
  BY DEF Init
<1>3. CASE sidecar = << >>
  BY <1>1, <1>2, <1>3 DEF IInv, DiskOK, ShortOK, ExtendsDisk
<1>4. ASSUME NEW f \in Files, NEW v \in Versions, sidecar = <<LegacyTimeline(f, v)>>
      PROVE  DiskOK /\ ShortOK
  <2> DEFINE t == LegacyTimeline(f, v)
  <2>1. IngestOp(f, v) \in Op
    BY DEF IngestOp, Op
  <2>2. /\ DOMAIN t = Fields /\ t.ops = <<IngestOp(f, v)>> /\ t.folded = 0 /\ Legacy(t)
    BY DEF LegacyTimeline, Fields, Legacy, NoLink
  <2> HIDE DEF t
  <2>3. t.ops \in Seq(Op) /\ Len(t.ops) = 1
    BY <2>1, <2>2
  <2>4. Shape(t) /\ Verifies(t)
    BY <2>2, <2>3 DEF Shape, Verifies
  <2>5. OplogMax > 0 => 1 <= OplogMax
    BY TimelineAssumption
  <2>6. Short(t)
    BY <2>3, <2>5 DEF Short
  <2>7. sidecar[1] = t
    BY <1>4 DEF t
  <2> QED BY <2>2, <2>4, <2>6, <2>7, <1>2 DEF DiskOK, ShortOK, OnDisk
<1>5. ASSUME sidecar # << >> PROVE DiskOK /\ ShortOK
  <2>1. PICK f \in Files, v \in Versions : sidecar = <<LegacyTimeline(f, v)>>
    BY <1>5 DEF Init
  <2> QED BY <2>1, <1>4
<1> QED BY <1>1, <1>2, <1>3, <1>5 DEF IInv, ExtendsDisk

\* A step that only moves the timeline of the session forward.
LEMMA ForwardStep ==
  ASSUME IInv, phase = "ready", phase' = "ready", Sound(tl'),
         Extends(TimelineHead(tl'), TimelineHead(tl)),
         UNCHANGED <<disk, history>>
  PROVE  IInv'
<1>1. sidecar' = sidecar /\ corrupted' = corrupted /\ healed' = healed
  BY DEF disk, history
<1>2. DiskOK' /\ ShortOK'
  BY <1>1 DEF IInv, DiskOK, ShortOK
<1>3. ASSUME sidecar # << >>, ~corrupted, ~healed, ~Legacy(sidecar[1])
      PROVE  Extends(TimelineHead(tl'), TimelineHead(sidecar[1]))
  <2>1. Extends(TimelineHead(tl), TimelineHead(sidecar[1]))
    BY <1>3 DEF IInv, ExtendsDisk
  <2>2. Sound(sidecar[1])
    BY <1>3, RestoredIsSound DEF IInv, DiskOK, Restored
  <2>3. /\ Len(TimelineHead(tl)) \in Nat /\ Len(TimelineHead(tl')) \in Nat
        /\ Len(TimelineHead(sidecar[1])) \in Nat
    BY <2>2, HeadIsSeq DEF IInv
  <2> QED BY <2>1, <2>3, ExtendsTransitive
<1>4. ExtendsDisk'
  BY <1>1, <1>3 DEF ExtendsDisk
<1> QED BY <1>2, <1>4 DEF IInv

LEMMA RecordStep ==
  ASSUME IInv, NEW op \in Op, phase = "ready", tl' = Recorded(tl, op),
         UNCHANGED <<phase, disk, history>>
  PROVE  IInv'
<1>1. Sound(tl') /\ Extends(TimelineHead(tl'), TimelineHead(tl))
  BY RecordedIsSound, RecordedExtends DEF IInv
<1> QED BY <1>1, ForwardStep

LEMMA BatchStep ==
  ASSUME IInv, NEW op \in Op, NEW op2 \in Op, phase = "ready",
         tl' = Recorded(Recorded(tl, op), op2),
         UNCHANGED <<phase, disk, history>>
  PROVE  IInv'
<1> DEFINE mid == Recorded(tl, op)
<1>1. Sound(tl) /\ Sound(mid) /\ Extends(TimelineHead(mid), TimelineHead(tl))
  BY RecordedIsSound, RecordedExtends DEF IInv
<1> HIDE DEF mid
<1>2. Sound(tl') /\ Extends(TimelineHead(tl'), TimelineHead(mid))
  BY <1>1, RecordedIsSound, RecordedExtends DEF mid
<1>3. /\ Len(TimelineHead(tl)) \in Nat /\ Len(TimelineHead(mid)) \in Nat
      /\ Len(TimelineHead(tl')) \in Nat
  BY <1>1, <1>2, HeadIsSeq
<1>4. Extends(TimelineHead(tl'), TimelineHead(tl))
  BY <1>1, <1>2, <1>3, ExtendsTransitive
<1> QED BY <1>2, <1>4, ForwardStep

\* A session starts on a sound timeline.
LEMMA OpenStep ==
  ASSUME IInv, UNCHANGED <<disk, outside, corrupted>>, phase' = "ready", Sound(tl'),
         \/ sidecar = << >> \/ healed' = TRUE \/ tl' = Restored(sidecar[1])
  PROVE  IInv'
<1>1. sidecar' = sidecar /\ corrupted' = corrupted
  BY DEF disk
<1>2. DiskOK' /\ ShortOK'
  BY <1>1 DEF IInv, DiskOK, ShortOK
<1>3. ASSUME sidecar # << >>, ~healed', ~Legacy(sidecar[1])
      PROVE  Extends(TimelineHead(tl'), TimelineHead(sidecar[1]))
  <2>1. tl' = sidecar[1]
    BY <1>3 DEF Restored
  <2> QED BY <2>1, ExtendsSelf
<1>4. ExtendsDisk'
  BY <1>1, <1>3 DEF ExtendsDisk
<1> QED BY <1>2, <1>4 DEF IInv

\* Damage to a sidecar leaves its links alone.
LEMMA DamageStep ==
  ASSUME IInv, Damage
  PROVE  IInv'
<1> DEFINE t == sidecar[1]
           u == sidecar'[1]
<1>1. /\ phase = "down" /\ sidecar # << >> /\ ~Legacy(t) /\ corrupted' = TRUE
      /\ phase' = phase /\ tl' = tl
  BY DEF Damage, session
<1>2. /\ Shape(t) /\ Links(t) /\ Short(t)
      /\ DOMAIN t = Fields /\ t.ops \in Seq(Op) /\ Len(t.ops) \in Nat
  BY <1>1 DEF IInv, DiskOK, OnDisk, ShortOK, Shape
<1>3. \/ sidecar' = << >>
      \/ \E i \in 1 .. Len(t.ops) : sidecar' = <<[t EXCEPT !.ops[i] = RecallOp]>>
      \/ sidecar' = <<[t EXCEPT !.baseline = <<EmptyMemory>>]>>
  BY DEF Damage
<1>4. RecallOp \in Op
  BY DEF Op
<1>5. ASSUME NEW i \in 1 .. Len(t.ops), sidecar' = <<[t EXCEPT !.ops[i] = RecallOp]>>
      PROVE  /\ DOMAIN u = Fields /\ u.folded = t.folded /\ u.anchor = t.anchor
             /\ u.chain = t.chain /\ u.ops \in Seq(Op) /\ Len(u.ops) = Len(t.ops)
  <2>1. u = [t EXCEPT !.ops[i] = RecallOp]
    BY <1>5
  <2>2. u.ops = [t.ops EXCEPT ![i] = RecallOp]
    BY <2>1, <1>2 DEF Fields
  <2>3. u.ops \in Seq(Op) /\ Len(u.ops) = Len(t.ops)
    BY <2>2, <1>2, <1>4, ExceptSeq
  <2> QED BY <2>1, <2>3, <1>2 DEF Fields
<1>6. ASSUME sidecar' = <<[t EXCEPT !.baseline = <<EmptyMemory>>]>>
      PROVE  /\ DOMAIN u = Fields /\ u.folded = t.folded /\ u.anchor = t.anchor
             /\ u.chain = t.chain /\ u.ops \in Seq(Op) /\ Len(u.ops) = Len(t.ops)
  BY <1>6, <1>2 DEF Fields
<1> HIDE DEF t, u
<1>7. ASSUME sidecar' # << >> PROVE OnDisk(u) /\ Short(u)
  <2>1. /\ DOMAIN u = Fields /\ u.folded = t.folded /\ u.anchor = t.anchor
        /\ u.chain = t.chain /\ u.ops \in Seq(Op) /\ Len(u.ops) = Len(t.ops)
    BY <1>7, <1>3, <1>5, <1>6
  <2>2. Shape(u) /\ Links(u)
    BY <2>1, <1>2 DEF Shape, Links
  <2> QED BY <2>1, <2>2, <1>2 DEF OnDisk, Short
<1> QED BY <1>1, <1>7 DEF IInv, DiskOK, ShortOK, ExtendsDisk, u

LEMMA NextSound == IInv /\ [Next]_vars => IInv'
<1> SUFFICES ASSUME IInv, [Next]_vars PROVE IInv'
  OBVIOUS
<1> USE DEF CanRecord, CanOpen
<1>1. CASE OpenWithoutTimeline
  <2>1. Sound(tl')
    BY <1>1, StartIsSound DEF OpenWithoutTimeline
  <2> QED BY <1>1, <2>1, OpenStep DEF OpenWithoutTimeline
<1>2. CASE OpenWithTimeline
  <2>1. tl' = Restored(sidecar[1]) /\ sidecar # << >> /\ Verifies(sidecar[1])
    BY <1>2 DEF OpenWithTimeline
  <2>2. Sound(tl')
    BY <2>1, RestoredIsSound DEF IInv, DiskOK
  <2> QED BY <1>2, <2>1, <2>2, OpenStep DEF OpenWithTimeline
<1>3. CASE OpenHealing
  <2>1. Sound(tl')
    BY <1>3, StartIsSound DEF OpenHealing
  <2> QED BY <1>3, <2>1, OpenStep DEF OpenHealing
<1>4. CASE OpenRefused
  BY <1>4 DEF OpenRefused, session, disk, IInv, DiskOK, ShortOK, ExtendsDisk
<1>5. ASSUME NEW f \in Files, NEW v \in Versions, Ingest(f, v)
      PROVE  IInv'
  <2>1. IngestOp(f, v) \in Op
    BY DEF IngestOp, Op
  <2> QED BY <2>1, <1>5, RecordStep DEF Ingest
<1>6. ASSUME NEW f \in Files, NEW g \in Files, NEW v \in Versions, NEW w \in Versions,
             IngestBatch(f, v, g, w)
      PROVE  IInv'
  <2>1. IngestOp(f, v) \in Op /\ IngestOp(g, w) \in Op
    BY DEF IngestOp, Op
  <2> QED BY <2>1, <1>6, BatchStep DEF IngestBatch
<1>7. ASSUME NEW f \in Files, Failure(f)
      PROVE  IInv'
  <2>1. FailureOp(f) \in Op
    BY DEF FailureOp, Op
  <2> QED BY <2>1, <1>7, RecordStep DEF Failure
<1>8. ASSUME NEW fs \in FaultLists, PageFault(fs)
      PROVE  IInv'
  <2>1. PageFaultOp(fs) \in Op
    BY DEF PageFaultOp, Op
  <2> QED BY <2>1, <1>8, RecordStep DEF PageFault
<1>9. CASE Recall
  <2>1. RecallOp \in Op
    BY DEF Op
  <2> QED BY <2>1, <1>9, RecordStep DEF Recall
<1>10. CASE Record
  BY <1>10, <1>5, <1>6, <1>7, <1>8, <1>9 DEF Record, Sync
<1>11. ASSUME tl' = CompactedIfNeeded(tl)
       PROVE  /\ Sound(tl') /\ Short(tl') /\ TimelineHead(tl') = TimelineHead(tl)
              /\ Extends(TimelineHead(tl'), TimelineHead(tl))
  <2>1. Sound(tl') /\ Short(tl') /\ TimelineHead(tl') = TimelineHead(tl)
    BY <1>11, CompactedIfNeededIsSound DEF IInv
  <2> QED BY <2>1, ExtendsSelf
<1>12. CASE WriteSnapshot
  <2>1. sidecar' = sidecar /\ corrupted' = corrupted /\ healed' = healed /\ phase = "ready"
        /\ tl' = CompactedIfNeeded(tl)
    BY <1>12 DEF WriteSnapshot, history
  <2> QED BY <2>1, <1>11 DEF IInv, DiskOK, ShortOK, ExtendsDisk
<1>13. CASE SnapshotWriteFails
  BY <1>13, <1>11, ForwardStep DEF SnapshotWriteFails
<1>14. CASE WriteSidecar
  <2>1. sidecar' = <<tl>> /\ tl' = tl /\ phase' = "ready" /\ phase = "checkpointing"
    BY <1>14 DEF WriteSidecar
  <2>2. sidecar'[1] = tl /\ OnDisk(tl) /\ Verifies(tl) /\ Short(tl)
        /\ Extends(TimelineHead(tl), TimelineHead(tl))
    BY <2>1, SoundVerifies, ExtendsSelf DEF IInv, ShortOK
  <2> QED BY <2>1, <2>2 DEF IInv, DiskOK, ShortOK, ExtendsDisk
<1>15. CASE SidecarWriteFails
  BY <1>15 DEF SidecarWriteFails, disk, history, IInv, DiskOK, ShortOK, ExtendsDisk
<1>16. CASE Crash
  <2>1. Sound(tl')
    BY <1>16, StartIsSound DEF Crash, NoTimeline
  <2> QED BY <1>16, <2>1 DEF Crash, disk, IInv, DiskOK, ShortOK, ExtendsDisk
<1>17. ASSUME NEW f \in Files, NEW v \in Versions, OutsideIngest(f, v)
       PROVE  IInv'
  BY <1>17 DEF OutsideIngest, session, IInv, DiskOK, ShortOK, ExtendsDisk
<1>18. CASE Damage
  BY <1>18, DamageStep
<1>19. CASE UNCHANGED vars
  BY <1>19 DEF vars, IInv, DiskOK, ShortOK, ExtendsDisk
<1> QED
  BY <1>1, <1>2, <1>3, <1>4, <1>10, <1>12, <1>13, <1>14, <1>15, <1>16, <1>17, <1>18,
     <1>19 DEF Next

-----------------------------------------------------------------------------
\* What the invariant gives.

LEMMA SpecSound == Spec => []IInv
<1>1. Init => IInv
  BY InitSound
<1>2. IInv /\ [Next]_vars => IInv'
  BY NextSound
<1> QED BY <1>1, <1>2, PTL DEF Spec

\* An open session verifies (`verify_timeline`), compacted, reopened or healed,
\* no damaged sidecar became its timeline, and `open` refuses no sidecar that
\* was not damaged, whatever crashed or failed.
THEOREM ChainsAlwaysVerify == Spec => []ChainsVerify
<1>1. IInv => ChainsVerify
  BY SoundVerifies DEF IInv, DiskOK, ChainsVerify
<1> QED BY <1>1, SpecSound, PTL

\* `compact_if_needed` bounds the persisted op-log.
THEOREM OplogAlwaysBounded == Spec => []OplogBounded
<1>1. IInv => OplogBounded
  BY DEF IInv, ShortOK, Short, OplogBounded
<1> QED BY <1>1, SpecSound, PTL

LEMMA SoundHeadCommits ==
  ASSUME NEW t, Sound(t)
  PROVE  /\ Len(TimelineHead(t)) = LogicalLen(t) + 1
         /\ \A i \in 1 .. LogicalLen(t) : TimelineHead(t)[i + 1][1] = i - 1
         /\ \A i \in 1 .. Len(t.ops) : TimelineHead(t)[t.folded + i + 1][2] = t.ops[i]
<1> DEFINE head == TimelineHead(t)
           n == Len(t.ops)
<1>1. /\ Shape(t) /\ Links(t) /\ Committed(t) /\ Len(t.chain) = n
      /\ n \in Nat /\ t.folded \in Nat /\ t.ops \in Seq(Op)
  BY DEF Sound, Shape, Committed, Chained
<1>2. Len(head) = LogicalLen(t) + 1 /\ Numbered(head, LogicalLen(t))
  BY HeadIsSeq
<1>3. ASSUME NEW i \in 1 .. n PROVE head[t.folded + i + 1][2] = t.ops[i]
  <2> DEFINE prev == Predecessor(t.anchor, t.chain, i)
  <2>1. t.chain[i] = Link(prev, t.folded + i - 1, t.ops[i])
    BY <1>1 DEF Committed, Chained
  <2>2. Numbered(prev, t.folded + i - 1) /\ t.folded + i - 1 \in Nat
    <3>1. CASE i = 1
      <4>1. t.folded + i - 1 = t.folded
        BY <3>1, <1>1
      <4> QED BY <4>1, <3>1, <1>1 DEF Links, Predecessor
    <3>2. CASE i # 1
      <4>1. i - 1 \in 1 .. Len(t.chain) /\ t.folded + (i - 1) = t.folded + i - 1
        BY <3>2, <1>1
      <4>2. prev = t.chain[i - 1]
        BY <3>2 DEF Predecessor
      <4>3. Numbered(t.chain[i - 1], t.folded + (i - 1))
        BY <4>1, <1>1 DEF Links
      <4>4. t.folded + i - 1 \in Nat
        BY <1>1
      <4> QED BY <4>1, <4>2, <4>3, <4>4
    <3> QED BY <3>1, <3>2
  <2> HIDE DEF prev
  <2>3. t.ops[i] \in Op
    BY <1>1
  <2>4. Link(prev, t.folded + i - 1, t.ops[i])[t.folded + i - 1 + 2]
           = <<t.folded + i - 1, t.ops[i]>>
    <3> DEFINE m  == t.folded + i - 1
               op == t.ops[i]
    <3>1. m \in Nat /\ Numbered(prev, m) /\ op \in Op
      BY <2>2, <2>3
    <3> HIDE DEF m, op
    <3>2. Link(prev, m, op)[m + 2] = <<m, op>>
      BY <3>1, LinkNumbered
    <3> QED BY <3>2 DEF m, op
  <2>5. t.folded + i - 1 + 2 = t.folded + i + 1 /\ i \in 1 .. Len(t.chain)
        /\ t.folded + i + 1 \in 1 .. (t.folded + i + 1)
    BY <1>1
  <2>6. head[t.folded + i + 1] = t.chain[i][t.folded + i + 1]
    BY <2>5, <1>1, HeadExtends
  <2> QED BY <2>1, <2>4, <2>5, <2>6
<1> QED BY <1>2, <1>3 DEF Numbered

\* The head commits to every step number since genesis and to every retained
\* operation.
THEOREM HeadAlwaysCommits == Spec => []HeadCommitsToHistory
<1>1. IInv => HeadCommitsToHistory
  BY SoundHeadCommits DEF IInv, HeadCommitsToHistory
<1> QED BY <1>1, SpecSound, PTL

LEMMA RecordedLonger ==
  ASSUME NEW t, Sound(t), NEW op
  PROVE  Len(Recorded(t, op).ops) = Len(t.ops) + 1
<1>1. Recorded(t, op).ops = Append(t.ops, op) /\ t.ops \in Seq(Op)
  BY DEF Recorded, Sound, Shape, Fields
<1> QED BY <1>1

\* A checkpoint never moves the head, nor renumbers a step.
THEOREM CheckpointAlwaysKeepsHead == Spec => CheckpointKeepsHead
<1> DEFINE Kept == TimelineHead(tl') = TimelineHead(tl) /\ LogicalLen(tl') = LogicalLen(tl)
           Idle == phase = "ready" /\ phase' # "down" /\ live' = live
                   /\ Len(tl'.ops) <= Len(tl.ops)
<1>1. IInv /\ [Next]_vars => (Idle => Kept)
  <2> SUFFICES ASSUME IInv, [Next]_vars, Idle PROVE Kept
    OBVIOUS
  <2>1. Sound(tl) /\ Len(tl.ops) \in Nat
    BY DEF IInv, Sound, Shape
  <2>2. CASE tl' = CompactedIfNeeded(tl)
    BY <2>1, <2>2, CompactedIfNeededIsSound
  <2>3. CASE tl' = tl
    BY <2>3
  <2>4. ASSUME NEW op, tl' = Recorded(tl, op) PROVE FALSE
    BY <2>1, <2>4, RecordedLonger
  <2>5. ASSUME NEW op \in Op, NEW op2, tl' = Recorded(Recorded(tl, op), op2) PROVE FALSE
    <3>1. Sound(Recorded(tl, op)) /\ Len(Recorded(tl, op).ops) = Len(tl.ops) + 1
      BY <2>1, RecordedIsSound, RecordedLonger
    <3>2. Len(tl'.ops) = Len(Recorded(tl, op).ops) + 1
      BY <3>1, <2>5, RecordedLonger
    <3> QED BY <2>1, <3>1, <3>2
  <2>6. CASE Record
    <3>1. ASSUME NEW f \in Files, NEW g \in Files, NEW v \in Versions, NEW w \in Versions,
                 IngestBatch(f, v, g, w)
          PROVE FALSE
      <4>1. IngestOp(f, v) \in Op
        BY DEF IngestOp, Op
      <4> QED BY <4>1, <2>5, <3>1 DEF IngestBatch
    <3> QED BY <2>4, <2>6, <3>1 DEF Record, Ingest, Sync, Failure, PageFault, Recall
  <2>7. CASE ~Record /\ Next
    BY <2>2, <2>3, <2>7 DEF Next, CanOpen, OpenWithoutTimeline, OpenWithTimeline,
       OpenHealing, OpenRefused, WriteSnapshot, SnapshotWriteFails, WriteSidecar,
       SidecarWriteFails, Crash, OutsideIngest, Damage, session
  <2> QED BY <2>3, <2>6, <2>7 DEF vars
<1>2. IInv /\ [Next]_vars => [Idle => Kept]_vars
  BY <1>1
<1> QED BY <1>2, SpecSound, PTL DEF Spec, CheckpointKeepsHead

LEMMA ExtendsIsPrefix ==
  ASSUME NEW s \in Seq(Entry), NEW t \in Seq(Entry), Extends(t, s)
  PROVE  IsPrefix(s, t)
<1>1. Len(s) \in Nat /\ Len(t) \in Nat /\ Len(s) <= Len(t)
  BY DEF Extends
<1>2. SubSeq(s, 1, Len(s)) = SubSeq(t, 1, Len(s))
  BY <1>1 DEF Extends
<1> QED BY <1>1, <1>2 DEF IsPrefix

\* What a sidecar write replaces is a prefix of what it writes.
THEOREM DurableHistoryAlwaysGrows == Spec => DurableHistoryOnlyGrows
<1> DEFINE Replaced == sidecar # << >> /\ sidecar' # sidecar
                       /\ ~corrupted' /\ ~corrupted /\ ~healed
           Grown == \/ IsPrefix(TimelineHead(sidecar[1]), TimelineHead(sidecar'[1]))
                    \/ Legacy(sidecar[1])
<1>1. IInv /\ [Next]_vars => (Replaced => Grown)
  <2> SUFFICES ASSUME IInv, [Next]_vars, Replaced, ~Legacy(sidecar[1]) PROVE Grown
    OBVIOUS
  <2>1. WriteSidecar
    BY DEF Next, Record, Ingest, IngestBatch, Sync, Failure, PageFault, Recall,
       OpenWithoutTimeline, OpenWithTimeline, OpenHealing, OpenRefused,
       WriteSnapshot, SnapshotWriteFails, SidecarWriteFails, Crash, OutsideIngest,
       Damage, session, disk, vars
  <2>2. sidecar' = <<tl>> /\ phase # "down"
    BY <2>1 DEF WriteSidecar
  <2>3. Extends(TimelineHead(tl), TimelineHead(sidecar[1])) /\ Sound(tl)
    BY <2>2 DEF IInv, ExtendsDisk
  <2>4. Sound(sidecar[1])
    BY RestoredIsSound DEF IInv, DiskOK, Restored
  <2>5. TimelineHead(tl) \in Seq(Entry) /\ TimelineHead(sidecar[1]) \in Seq(Entry)
    BY <2>3, <2>4, HeadIsSeq DEF Numbered
  <2>6. IsPrefix(TimelineHead(sidecar[1]), TimelineHead(tl))
    BY <2>3, <2>5, ExtendsIsPrefix
  <2> QED BY <2>2, <2>6
<1>2. IInv /\ [Next]_vars => [Replaced => Grown]_vars
  BY <1>1
<1> QED BY <1>2, SpecSound, PTL DEF Spec, DurableHistoryOnlyGrows

-----------------------------------------------------------------------------
\* Folds.  The induction is over sets of numbers, so that a lemma about a fold
\* is used like any other; the steps of a fold are a function `F`, one function
\* on `D` for each place of the sequence.

LEMMA SetInduction ==
  ASSUME NEW A, 0 \in A, \A k \in Nat : k \in A => k + 1 \in A
  PROVE  Nat \subseteq A
<1> DEFINE less == OpToRel(<, Nat)
<1>1. IsWellFoundedOn(less, Nat)
  BY NatLessThanWellFounded
<1>2. \A x, y \in Nat : y < x => <<y, x>> \in less
  BY DEF OpToRel
<1> HIDE DEF less
<1> SUFFICES ASSUME Nat \ A # {} PROVE FALSE
  OBVIOUS
<1>3. PICK x \in Nat \ A : \A y \in Nat \ A : ~(<<y, x>> \in less)
  BY <1>1, WFMin
<1>4. x \in Nat /\ x # 0 /\ x - 1 \in Nat /\ x - 1 < x /\ x - 1 + 1 = x
  BY <1>3
<1>5. x - 1 \in A
  BY <1>2, <1>3, <1>4
<1> QED BY <1>3, <1>4, <1>5

LEMMA MaxOfTop ==
  ASSUME NEW k \in Nat, NEW s \in SUBSET (1 .. k + 1), k + 1 \in s
  PROVE  Max(s) = k + 1
<1>1. \A y \in s : k + 1 >= y
  OBVIOUS
<1>2. \A x \in s : (\A y \in s : x >= y) => x = k + 1
  OBVIOUS
<1> QED BY <1>1, <1>2 DEF Max

LEMMA MaxInside ==
  ASSUME NEW n \in Nat, NEW s \in SUBSET (1 .. n), s # {}
  PROVE  Max(s) \in s
<1> DEFINE A == {k \in Nat : \A t \in SUBSET (1 .. k) : t # {} => Max(t) \in t}
<1>1. 0 \in A
  <2>1. \A t \in SUBSET (1 .. 0) : t = {}
    OBVIOUS
  <2> QED BY <2>1
<1>2. ASSUME NEW k \in Nat, k \in A PROVE k + 1 \in A
  <2>1. ASSUME NEW t \in SUBSET (1 .. k + 1), t # {} PROVE Max(t) \in t
    <3>1. CASE k + 1 \in t
      BY <3>1, MaxOfTop
    <3>2. CASE k + 1 \notin t
      <4>1. t \in SUBSET (1 .. k)
        BY <3>2
      <4> QED BY <4>1, <2>1, <1>2
    <3> QED BY <3>1, <3>2
  <2> QED BY <2>1
<1> HIDE DEF A
<1>3. n \in A
  BY <1>1, <1>2, SetInduction
<1> QED BY <1>3 DEF A

\* The fold of a sequence of `n` steps as a function of the places that are
\* folded, the highest of them last.
Iterates(h, n, base, F) ==
    \A s \in SUBSET (1 .. n) :
        h[s] = IF s = {} THEN base ELSE F[Max(s)][h[s \ {Max(s)}]]

Iterable(n, D, base, F) == \E h \in [SUBSET (1 .. n) -> D] : Iterates(h, n, base, F)

LEMMA IterExists ==
  ASSUME NEW D, NEW base \in D, NEW n \in Nat, NEW F \in [1 .. n -> [D -> D]]
  PROVE  Iterable(n, D, base, F)
<1> DEFINE A == {k \in Nat : k <= n => Iterable(k, D, base, F)}
<1>1. 0 \in A
  <2> DEFINE h == [s \in SUBSET (1 .. 0) |-> base]
  <2>1. h \in [SUBSET (1 .. 0) -> D] /\ \A s \in SUBSET (1 .. 0) : s = {} /\ h[s] = base
    OBVIOUS
  <2> HIDE DEF h
  <2>2. Iterates(h, 0, base, F)
    BY <2>1 DEF Iterates
  <2>3. Iterable(0, D, base, F)
    BY <2>1, <2>2 DEF Iterable
  <2> QED BY <2>3
<1>2. ASSUME NEW k \in Nat, k \in A PROVE k + 1 \in A
  <2> SUFFICES ASSUME k + 1 <= n PROVE Iterable(k + 1, D, base, F)
    OBVIOUS
  <2>1. PICK h \in [SUBSET (1 .. k) -> D] : Iterates(h, k, base, F)
    <3>1. Iterable(k, D, base, F)
      BY <1>2
    <3> QED BY <3>1 DEF Iterable
  <2> DEFINE low(s) == s \ {k + 1}
             j == [s \in SUBSET (1 .. k + 1) |->
                     IF k + 1 \in s THEN F[k + 1][h[low(s)]] ELSE h[s]]
  <2>2. k + 1 \in 1 .. n /\ F[k + 1] \in [D -> D]
    OBVIOUS
  <2>3. ASSUME NEW s \in SUBSET (1 .. k + 1)
        PROVE  /\ low(s) \in SUBSET (1 .. k) /\ h[low(s)] \in D
               /\ k + 1 \notin s => low(s) = s
    <3>1. low(s) \in SUBSET (1 .. k)
      OBVIOUS
    <3>2. h[low(s)] \in D
      BY <3>1
    <3> QED BY <3>1, <3>2
  <2> HIDE DEF low
  <2>4. j \in [SUBSET (1 .. k + 1) -> D]
    <3>1. ASSUME NEW s \in SUBSET (1 .. k + 1)
          PROVE  (IF k + 1 \in s THEN F[k + 1][h[low(s)]] ELSE h[s]) \in D
      BY <2>2, <2>3
    <3> QED BY <3>1
  <2>5. ASSUME NEW s \in SUBSET (1 .. k + 1)
        PROVE  j[s] = IF s = {} THEN base ELSE F[Max(s)][j[s \ {Max(s)}]]
    <3>1. CASE k + 1 \in s
      <4>1. Max(s) = k + 1 /\ s # {}
        BY <3>1, MaxOfTop
      <4>2. s \ {k + 1} \in SUBSET (1 .. k + 1) /\ k + 1 \notin s \ {k + 1}
        OBVIOUS
      <4>3. j[s \ {k + 1}] = h[s \ {k + 1}]
        BY <4>2
      <4>4. j[s] = F[k + 1][h[s \ {k + 1}]]
        BY <3>1 DEF low
      <4> QED BY <4>1, <4>3, <4>4
    <3>2. CASE k + 1 \notin s
      <4>1. s \in SUBSET (1 .. k) /\ j[s] = h[s]
        BY <2>3, <3>2
      <4>2. CASE s = {}
        BY <4>1, <4>2, <2>1 DEF Iterates
      <4>3. CASE s # {}
        <5>1. Max(s) \in s
          BY <4>1, <4>3, MaxInside
        <5>2. s \ {Max(s)} \in SUBSET (1 .. k + 1) /\ k + 1 \notin s \ {Max(s)}
          BY <3>2
        <5>3. j[s \ {Max(s)}] = h[s \ {Max(s)}]
          BY <5>2
        <5>4. h[s] = F[Max(s)][h[s \ {Max(s)}]]
          BY <4>1, <4>3, <2>1 DEF Iterates
        <5> QED BY <4>1, <4>3, <5>3, <5>4
      <4> QED BY <4>2, <4>3
    <3> QED BY <3>1, <3>2
  <2> HIDE DEF j
  <2>6. Iterates(j, k + 1, base, F)
    BY <2>5 DEF Iterates
  <2> QED BY <2>4, <2>6 DEF Iterable
<1> HIDE DEF A
<1>3. n \in A
  BY <1>1, <1>2, SetInduction
<1> QED BY <1>3 DEF A

\* A fold as the path of its intermediate results.
Path(p, n, D, base, F) ==
    /\ p \in [0 .. n -> D] /\ p[0] = base
    /\ \A k \in 1 .. n : p[k] = F[k][p[k - 1]]

Reaches(v, n, D, base, F) == \E p : Path(p, n, D, base, F) /\ p[n] = v

LEMMA IterPath ==
  ASSUME NEW D, NEW base \in D, NEW n \in Nat, NEW F \in [1 .. n -> [D -> D]],
         NEW h \in [SUBSET (1 .. n) -> D], Iterates(h, n, base, F)
  PROVE  Reaches(h[1 .. n], n, D, base, F)
<1> DEFINE p == [k \in 0 .. n |-> h[1 .. k]]
<1>1. p \in [0 .. n -> D]
  OBVIOUS
<1>2. p[0] = base
  <2>1. 1 .. 0 = {} /\ {} \in SUBSET (1 .. n) /\ p[0] = h[1 .. 0]
    OBVIOUS
  <2> QED BY <2>1 DEF Iterates
<1>3. ASSUME NEW k \in 1 .. n PROVE p[k] = F[k][p[k - 1]]
  <2>1. k - 1 \in 0 .. n /\ k - 1 \in Nat /\ k - 1 + 1 = k /\ k \in 0 .. n
    OBVIOUS
  <2>2. Max(1 .. k) = k
    <3>1. 1 .. k \in SUBSET (1 .. k - 1 + 1) /\ k - 1 + 1 \in 1 .. k
      BY <2>1
    <3> QED BY <3>1, <2>1, MaxOfTop
  <2>3. (1 .. k) \ {k} = 1 .. k - 1 /\ 1 .. k # {} /\ 1 .. k \in SUBSET (1 .. n)
    <3>1. k \in 1 .. k /\ \A x \in 1 .. k : x \in 1 .. n
      BY <2>1
    <3>2. \A x : x \in (1 .. k) \ {k} <=> x \in 1 .. k - 1
      BY <2>1
    <3> QED BY <3>1, <3>2
  <2>4. h[1 .. k] = F[k][h[1 .. k - 1]]
    BY <2>2, <2>3 DEF Iterates
  <2> QED BY <2>1, <2>4
<1>4. n \in 0 .. n /\ p[n] = h[1 .. n]
  OBVIOUS
<1> HIDE DEF p
<1> QED BY <1>1, <1>2, <1>3, <1>4 DEF Path, Reaches

\* Two folds over the same first steps take the same path.
LEMMA PathUnique ==
  ASSUME NEW D, NEW E, NEW base, NEW m \in Nat, NEW n \in Nat, m <= n, NEW F, NEW G,
         NEW p, NEW q, Path(p, m, D, base, F), Path(q, n, E, base, G),
         \A k \in 1 .. m : F[k] = G[k]
  PROVE  \A k \in 0 .. m : p[k] = q[k]
<1> DEFINE A == {k \in Nat : k <= m => p[k] = q[k]}
<1>1. 0 \in A
  BY DEF Path
<1>2. ASSUME NEW k \in Nat, k \in A PROVE k + 1 \in A
  <2> SUFFICES ASSUME k + 1 <= m PROVE p[k + 1] = q[k + 1]
    OBVIOUS
  <2>1. k + 1 \in 1 .. m /\ k + 1 \in 1 .. n /\ k + 1 - 1 = k /\ p[k] = q[k]
    BY <1>2
  <2> QED BY <2>1 DEF Path
<1> HIDE DEF A
<1>3. Nat \subseteq A
  BY <1>1, <1>2, SetInduction
<1> QED BY <1>3 DEF A

\* Induction over sets of places, the highest place removed.
LEMMA PlacesInduction ==
  ASSUME NEW n \in Nat, NEW T, {} \in T,
         \A s \in SUBSET (1 .. n) : s # {} /\ s \ {Max(s)} \in T => s \in T
  PROVE  SUBSET (1 .. n) \subseteq T
<1> DEFINE A == {k \in Nat : k <= n => SUBSET (1 .. k) \subseteq T}
<1>1. 0 \in A
  <2>1. \A s \in SUBSET (1 .. 0) : s = {}
    OBVIOUS
  <2> QED BY <2>1
<1>2. ASSUME NEW k \in Nat, k \in A PROVE k + 1 \in A
  <2> SUFFICES ASSUME k + 1 <= n, NEW s \in SUBSET (1 .. k + 1) PROVE s \in T
    OBVIOUS
  <2>1. CASE k + 1 \in s
    <3>1. Max(s) = k + 1 /\ s # {} /\ s \in SUBSET (1 .. n)
      BY <2>1, MaxOfTop
    <3>2. s \ {k + 1} \in SUBSET (1 .. k)
      OBVIOUS
    <3>3. s \ {Max(s)} \in T
      BY <3>1, <3>2, <1>2
    <3> QED BY <3>1, <3>3
  <2>2. CASE k + 1 \notin s
    <3>1. s \in SUBSET (1 .. k)
      BY <2>2
    <3> QED BY <3>1, <1>2
  <2> QED BY <2>1, <2>2
<1> HIDE DEF A
<1>3. n \in A
  BY <1>1, <1>2, SetInduction
<1> QED BY <1>3 DEF A

-----------------------------------------------------------------------------
\* The operators on memories keep them well formed.

Memories == {m \in Memory : WellFormed(m)}

LEMMA MemoryFields ==
  ASSUME NEW m
  PROVE  m \in Memories <=>
           /\ m \in Memory
           /\ m.source \in [Files -> Versions \cup {NoSource}]
           /\ m.pending \subseteq Present(m) /\ m.hot \subseteq Present(m)
           /\ m.calls \subseteq Present(m) \X Present(m)
BY DEF Memories, WellFormed, Memory

LEMMA MemoryIs ==
  ASSUME NEW source \in [Files -> Versions \cup {NoSource}], NEW pending, NEW calls, NEW hot,
         NEW m, m = [source |-> source, pending |-> pending, calls |-> calls, hot |-> hot],
         pending \subseteq Present(m), calls \subseteq Present(m) \X Present(m),
         hot \subseteq Present(m)
  PROVE  m \in Memories
<1>1. Present(m) \subseteq Files
  BY DEF Present
<1>2. m \in Memory
  BY <1>1 DEF Memory
<1> QED BY <1>2 DEF Memories, WellFormed

LEMMA EmptyOK == EmptyMemory \in Memories /\ Snapshot(EmptyMemory) = EmptyMemory
<1>1. EmptyMemory \in Memories
  <2>1. [f \in Files |-> NoSource] \in [Files -> Versions \cup {NoSource}]
    OBVIOUS
  <2> QED BY <2>1, MemoryIs DEF EmptyMemory
<1> QED BY <1>1 DEF EmptyMemory, Snapshot

LEMMA SnapshotOK ==
  ASSUME NEW m \in Memories
  PROVE  Snapshot(m) \in Memories /\ Snapshot(m).pending = {}
         /\ Snapshot(Snapshot(m)) = Snapshot(m)
         /\ (m.pending = {} => Snapshot(m) = m)
<1>1. m \in Memory /\ WellFormed(m)
  BY DEF Memories
<1>2. /\ Snapshot(m) \in Memory /\ Snapshot(m).pending = {}
      /\ Snapshot(m).source = m.source /\ Snapshot(m).calls = m.calls
      /\ Snapshot(m).hot = m.hot
  BY <1>1 DEF Snapshot, Memory
<1>3. Present(Snapshot(m)) = Present(m)
  BY <1>2 DEF Present
<1>4. Snapshot(m) \in Memories
  BY <1>1, <1>2, <1>3 DEF Memories, WellFormed
<1>5. Snapshot(Snapshot(m)) = Snapshot(m) /\ (m.pending = {} => Snapshot(m) = m)
  BY <1>1 DEF Snapshot, Memory
<1> QED BY <1>2, <1>4, <1>5

LEMMA DeferredOK ==
  ASSUME NEW m \in Memories, NEW f \in Files, NEW v \in Versions
  PROVE  IngestDeferred(m, f, v) \in Memories
<1> DEFINE k == IngestDeferred(m, f, v)
<1>1. /\ m.source \in [Files -> Versions \cup {NoSource}]
      /\ m.pending \subseteq Present(m) /\ m.hot \subseteq Present(m)
      /\ m.calls \subseteq Present(m) \X Present(m)
  BY MemoryFields
<1>2. CASE m.source[f] = v
  BY <1>2 DEF IngestDeferred
<1>3. CASE m.source[f] # v
  <2> DEFINE source == [m.source EXCEPT ![f] = v]
             pending == IF v \in Callers THEN m.pending \cup {f} ELSE m.pending \ {f}
             calls == {e \in m.calls : f \notin {e[1], e[2]}}
             hot == m.hot \ {f}
  <2>1. k = [source |-> source, pending |-> pending, calls |-> calls, hot |-> hot]
    BY <1>3 DEF IngestDeferred
  <2>2. source \in [Files -> Versions \cup {NoSource}] /\ source[f] = v
        /\ \A g \in Files : g # f => source[g] = m.source[g]
    BY <1>1
  <2>3. pending \subseteq m.pending \cup {f} /\ hot \subseteq m.hot /\ calls \subseteq m.calls
    OBVIOUS
  <2> HIDE DEF source, pending, calls, hot, k
  <2>4. Present(m) \cup {f} = Present(k)
    <3>1. k.source = source
      BY <2>1
    <3>2. v # NoSource
      BY VersionsAssumption DEF VersionsAssumption
    <3> QED BY <3>1, <3>2, <2>2 DEF Present
  <2>5. /\ pending \subseteq Present(k) /\ hot \subseteq Present(k)
        /\ calls \subseteq Present(k) \X Present(k)
    BY <1>1, <2>3, <2>4
  <2> QED BY <2>1, <2>2, <2>5, MemoryIs DEF k
<1> QED BY <1>2, <1>3

LEMMA ResolveOK ==
  ASSUME NEW m \in Memories
  PROVE  /\ Resolve(m) \in Memories
         /\ Resolve(m).source = m.source /\ Resolve(m).pending = m.pending
         /\ Resolve(m).hot = m.hot
         /\ Resolve(m).calls = (m.calls \ Prunable(m)) \cup (m.pending \X Targets(m))
<1> DEFINE k == Resolve(m)
<1>1. /\ m \in Memory /\ m.source \in [Files -> Versions \cup {NoSource}]
      /\ m.pending \subseteq Present(m) /\ m.hot \subseteq Present(m)
      /\ m.calls \subseteq Present(m) \X Present(m)
  BY MemoryFields
<1>2. /\ k.source = m.source /\ k.pending = m.pending /\ k.hot = m.hot
      /\ k.calls = (m.calls \ Prunable(m)) \cup (m.pending \X Targets(m))
      /\ k = [source |-> k.source, pending |-> k.pending, calls |-> k.calls, hot |-> k.hot]
  BY <1>1 DEF Resolve, Memory
<1>3. Targets(m) \subseteq Present(m)
  <2>1. \A g \in Files : m.source[g] \in Definers => m.source[g] # NoSource
    BY VersionsAssumption DEF VersionsAssumption
  <2> QED BY <2>1 DEF Targets, Defining, Present
<1>4. Present(k) = Present(m)
  BY <1>2 DEF Present
<1> HIDE DEF k
<1>5. k \in Memories
  <2>1. /\ k.source \in [Files -> Versions \cup {NoSource}]
        /\ k.pending \subseteq Present(k) /\ k.hot \subseteq Present(k)
    BY <1>1, <1>2, <1>4
  <2>2. k.calls \subseteq Present(k) \X Present(k)
    BY <1>1, <1>2, <1>3, <1>4
  <2> QED BY <2>1, <2>2, <1>2, MemoryIs
<1> QED BY <1>2, <1>5 DEF k

LEMMA IngestOK ==
  ASSUME NEW m \in Memories, NEW f \in Files, NEW v \in Versions
  PROVE  IngestSource(m, f, v) \in Memories
BY DeferredOK, ResolveOK DEF IngestSource

LEMMA SignalOK ==
  ASSUME NEW m \in Memories, NEW f \in Files
  PROVE  SignalFailure(m, f) \in Memories
<1>1. /\ m \in Memory /\ m.source \in [Files -> Versions \cup {NoSource}]
      /\ m.pending \subseteq Present(m) /\ m.hot \subseteq Present(m)
      /\ m.calls \subseteq Present(m) \X Present(m)
  BY MemoryFields
<1>2. CASE m.source[f] = NoSource
  BY <1>2 DEF SignalFailure
<1>3. CASE m.source[f] # NoSource
  <2> DEFINE k == SignalFailure(m, f)
             hot == m.hot \cup {f} \cup {g \in Files : <<f, g>> \in m.calls}
  <2>1. /\ k = [source |-> m.source, pending |-> m.pending, calls |-> m.calls, hot |-> hot]
        /\ k.source = m.source
    BY <1>1, <1>3 DEF SignalFailure, Memory
  <2>2. hot \subseteq Present(m)
    BY <1>1, <1>3 DEF Present
  <2> HIDE DEF k, hot
  <2>3. Present(k) = Present(m)
    BY <2>1 DEF Present
  <2> QED BY <1>1, <2>1, <2>2, <2>3, MemoryIs DEF k
<1> QED BY <1>2, <1>3

\* Pressure on one file after the other.
LEMMA SignalsOK ==
  ASSUME NEW m \in Memories, NEW fs \in Seq(Files)
  PROVE  SignalFailures(m, fs) \in Memories
<1> DEFINE n == Len(fs)
           Eq(h) == h = [s \in SUBSET DOMAIN fs |->
                           IF s = {} THEN m ELSE SignalFailure(h[s \ {Max(s)}], fs[Max(s)])]
           F == [i \in 1 .. n |-> [r \in Memories |-> SignalFailure(r, fs[i])]]
<1>1. n \in Nat /\ DOMAIN fs = 1 .. n /\ \A i \in 1 .. n : fs[i] \in Files
  OBVIOUS
<1>2. F \in [1 .. n -> [Memories -> Memories]]
  BY <1>1, SignalOK
<1>3. \A i \in 1 .. n, r \in Memories : F[i][r] = SignalFailure(r, fs[i])
  OBVIOUS
<1> HIDE DEF F, n
<1>4. PICK h \in [SUBSET (1 .. n) -> Memories] : Iterates(h, n, m, F)
  BY <1>1, <1>2, IterExists DEF Iterable
<1>5. Eq(h)
  <2>1. ASSUME NEW s \in SUBSET (1 .. n), s # {}
        PROVE  h[s] = SignalFailure(h[s \ {Max(s)}], fs[Max(s)])
    <3>1. Max(s) \in 1 .. n /\ s \ {Max(s)} \in SUBSET (1 .. n)
      BY <1>1, <2>1, MaxInside
    <3>2. h[s] = F[Max(s)][h[s \ {Max(s)}]]
      BY <1>4, <2>1 DEF Iterates
    <3> QED BY <3>1, <3>2, <1>3
  <2>2. h[{}] = m
    BY <1>4 DEF Iterates
  <2> QED BY <2>1, <2>2, <1>1
<1>6. PICK iter : Eq(iter) /\ SignalFailures(m, fs) = iter[DOMAIN fs]
  <2>1. SignalFailures(m, fs) = (CHOOSE j : Eq(j))[DOMAIN fs]
    BY DEF SignalFailures, FoldLeft, MapThenFoldSet
  <2> HIDE DEF Eq
  <2> QED BY <2>1, <1>5
<1>7. SUBSET (1 .. n) \subseteq {s \in SUBSET (1 .. n) : iter[s] \in Memories}
  <2> DEFINE T == {s \in SUBSET (1 .. n) : iter[s] \in Memories}
  <2>1. {} \in T
    BY <1>6, <1>1
  <2>2. ASSUME NEW s \in SUBSET (1 .. n), s # {}, s \ {Max(s)} \in T PROVE s \in T
    <3>1. Max(s) \in 1 .. n
      BY <1>1, <2>2, MaxInside
    <3>2. iter[s] = SignalFailure(iter[s \ {Max(s)}], fs[Max(s)])
      BY <1>6, <1>1, <2>2
    <3>3. SignalFailure(iter[s \ {Max(s)}], fs[Max(s)]) \in Memories
      BY <3>1, <2>2, <1>1, SignalOK
    <3> QED BY <3>2, <3>3
  <2> HIDE DEF T
  <2>3. SUBSET (1 .. n) \subseteq T
    BY <2>1, <2>2, <1>1, PlacesInduction
  <2> QED BY <2>3 DEF T
<1> QED BY <1>1, <1>6, <1>7

-----------------------------------------------------------------------------
\* Replay.

Replays == [m : Memories, dirty : BOOLEAN]

LEMMA SettleOK ==
  ASSUME NEW r \in Replays
  PROVE  /\ Settle(r) \in Replays /\ Settle(r).m \in Memories
         /\ Settle(r).m = IF r.dirty THEN Resolve(r.m) ELSE r.m
BY ResolveOK DEF Settle, Replays

LEMMA OpCases ==
  ASSUME NEW op \in Op
  PROVE  \/ op.kind = "Ingest" /\ op.file \in Files /\ op.version \in Versions
         \/ op.kind = "Failure" /\ op.file \in Files
         \/ op.kind = "PageFault" /\ op.files \in Seq(Files)
         \/ op.kind = "Recall"
BY TimelineAssumption DEF Op, RecallOp, TimelineAssumption

LEMMA ApplyIs ==
  ASSUME NEW r, NEW op
  PROVE  /\ op.kind = "Ingest" => ApplyOp(r, op) =
               [m |-> IngestDeferred(r.m, op.file, op.version), dirty |-> TRUE]
         /\ op.kind = "Failure" => ApplyOp(r, op) =
               Replaying(Settle(r), SignalFailure(Settle(r).m, op.file))
         /\ op.kind = "PageFault" => ApplyOp(r, op) =
               Replaying(Settle(r), SignalFailures(Settle(r).m, op.files))
         /\ op.kind = "Recall" => ApplyOp(r, op) = Settle(r)
BY DEF ApplyOp

LEMMA ApplyOK ==
  ASSUME NEW r \in Replays, NEW op \in Op
  PROVE  ApplyOp(r, op) \in Replays
<1>1. r.m \in Memories /\ Settle(r) \in Replays /\ Settle(r).m \in Memories
  BY SettleOK DEF Replays
<1>2. ASSUME NEW k \in Memories PROVE Replaying(Settle(r), k) \in Replays
  BY <1>1, <1>2 DEF Replaying, Replays
<1>3. CASE op.kind = "Ingest" /\ op.file \in Files /\ op.version \in Versions
  <2>1. IngestDeferred(r.m, op.file, op.version) \in Memories
    BY <1>1, <1>3, DeferredOK
  <2>2. ApplyOp(r, op) = [m |-> IngestDeferred(r.m, op.file, op.version), dirty |-> TRUE]
    BY <1>3, ApplyIs
  <2> QED BY <2>1, <2>2 DEF Replays
<1>4. CASE op.kind = "Failure" /\ op.file \in Files
  <2>1. SignalFailure(Settle(r).m, op.file) \in Memories
    BY <1>1, <1>4, SignalOK
  <2>2. ApplyOp(r, op) = Replaying(Settle(r), SignalFailure(Settle(r).m, op.file))
    BY <1>4, ApplyIs
  <2> QED BY <2>1, <2>2, <1>2
<1>5. CASE op.kind = "PageFault" /\ op.files \in Seq(Files)
  <2>1. SignalFailures(Settle(r).m, op.files) \in Memories
    BY <1>1, <1>5, SignalsOK
  <2>2. ApplyOp(r, op) = Replaying(Settle(r), SignalFailures(Settle(r).m, op.files))
    BY <1>5, ApplyIs
  <2> QED BY <2>1, <2>2, <1>2
<1>6. CASE op.kind = "Recall"
  <2>1. ApplyOp(r, op) = Settle(r)
    BY <1>6, ApplyIs
  <2> QED BY <2>1, <1>1
<1> QED BY <1>3, <1>4, <1>5, <1>6, OpCases

Steps(ops) == [i \in 1 .. Len(ops) |-> [r \in Replays |-> ApplyOp(r, ops[i])]]

\* The memories a replay goes through.
ReplayPath(p, base, ops) == Path(p, Len(ops), Replays, base, Steps(ops))

LEMMA StepsOK ==
  ASSUME NEW ops \in Seq(Op)
  PROVE  /\ Len(ops) \in Nat /\ DOMAIN ops = 1 .. Len(ops)
         /\ Steps(ops) \in [1 .. Len(ops) -> [Replays -> Replays]]
         /\ \A i \in 1 .. Len(ops), r \in Replays : Steps(ops)[i][r] = ApplyOp(r, ops[i])
<1>1. Len(ops) \in Nat /\ DOMAIN ops = 1 .. Len(ops) /\ \A i \in 1 .. Len(ops) : ops[i] \in Op
  OBVIOUS
<1> QED BY <1>1, ApplyOK DEF Steps

\* What a replay computes: `ApplyOp` of the operations, the first one first.
LEMMA ReplayFolds ==
  ASSUME NEW base \in Replays, NEW ops \in Seq(Op)
  PROVE  \E p : ReplayPath(p, base, ops) /\ FoldLeft(ApplyOp, base, ops) = p[Len(ops)]
<1> DEFINE n == Len(ops)
           Eq(h) == h = [s \in SUBSET DOMAIN ops |->
                           IF s = {} THEN base ELSE ApplyOp(h[s \ {Max(s)}], ops[Max(s)])]
           F == Steps(ops)
<1>1. /\ n \in Nat /\ DOMAIN ops = 1 .. n /\ F \in [1 .. n -> [Replays -> Replays]]
      /\ \A i \in 1 .. n, r \in Replays : F[i][r] = ApplyOp(r, ops[i])
  BY StepsOK
<1> HIDE DEF F, n
<1>2. PICK h \in [SUBSET (1 .. n) -> Replays] : Iterates(h, n, base, F)
  BY <1>1, IterExists DEF Iterable
<1>3. ASSUME NEW s \in SUBSET (1 .. n), s # {}
      PROVE  /\ h[s] = ApplyOp(h[s \ {Max(s)}], ops[Max(s)])
             /\ Max(s) \in 1 .. n /\ s \ {Max(s)} \in SUBSET (1 .. n)
  <2>1. Max(s) \in 1 .. n /\ s \ {Max(s)} \in SUBSET (1 .. n)
    BY <1>1, <1>3, MaxInside
  <2>2. h[s] = F[Max(s)][h[s \ {Max(s)}]]
    BY <1>2, <1>3 DEF Iterates
  <2> QED BY <2>1, <2>2, <1>1
<1>4. h[{}] = base
  BY <1>2 DEF Iterates
<1>5. Eq(h)
  BY <1>1, <1>3, <1>4
<1>6. PICK iter : Eq(iter) /\ FoldLeft(ApplyOp, base, ops) = iter[DOMAIN ops]
  <2>1. FoldLeft(ApplyOp, base, ops) = (CHOOSE j : Eq(j))[DOMAIN ops]
    BY DEF FoldLeft, MapThenFoldSet
  <2> HIDE DEF Eq
  <2> QED BY <2>1, <1>5
<1>7. SUBSET (1 .. n) \subseteq {s \in SUBSET (1 .. n) : iter[s] = h[s]}
  <2> DEFINE T == {s \in SUBSET (1 .. n) : iter[s] = h[s]}
  <2>1. {} \in T
    BY <1>6, <1>1, <1>4
  <2>2. ASSUME NEW s \in SUBSET (1 .. n), s # {}, s \ {Max(s)} \in T PROVE s \in T
    <3>1. iter[s] = ApplyOp(iter[s \ {Max(s)}], ops[Max(s)])
      BY <1>6, <1>1, <2>2
    <3> QED BY <3>1, <1>3, <2>2
  <2> HIDE DEF T
  <2>3. SUBSET (1 .. n) \subseteq T
    BY <2>1, <2>2, <1>1, PlacesInduction
  <2> QED BY <2>3 DEF T
<1>8. FoldLeft(ApplyOp, base, ops) = h[1 .. n]
  BY <1>1, <1>6, <1>7
<1>9. Reaches(h[1 .. n], n, Replays, base, F)
  BY <1>1, <1>2, IterPath
<1> QED BY <1>8, <1>9 DEF Reaches, ReplayPath, F, n

Replayed(base, ops) == FoldLeft(ApplyOp, base, ops)

Fresh(m) == [m |-> m, dirty |-> FALSE]

LEMMA FreshOK ==
  ASSUME NEW m \in Memories
  PROVE  Fresh(m) \in Replays /\ Settle(Fresh(m)).m = m
BY DEF Fresh, Replays, Settle

LEMMA ReplayIs ==
  ASSUME NEW m, NEW ops
  PROVE  Replay(m, ops) = Settle(Replayed(Fresh(m), ops)).m
BY DEF Replay, Replayed, Fresh

LEMMA ReplayedOK ==
  ASSUME NEW base \in Replays, NEW ops \in Seq(Op)
  PROVE  /\ Replayed(base, ops) \in Replays
         /\ Replayed(base, << >>) = base
<1>1. \A q \in Seq(Op) : Len(q) \in Nat
  OBVIOUS
<1>2. Replayed(base, ops) \in Replays
  <2>1. PICK p : ReplayPath(p, base, ops) /\ Replayed(base, ops) = p[Len(ops)]
    BY ReplayFolds DEF Replayed
  <2> QED BY <1>1, <2>1 DEF ReplayPath, Path
<1>3. Replayed(base, << >>) = base
  <2>1. << >> \in Seq(Op) /\ Len(<< >>) = 0
    OBVIOUS
  <2>2. PICK p : ReplayPath(p, base, << >>) /\ Replayed(base, << >>) = p[Len(<< >>)]
    BY <2>1, ReplayFolds DEF Replayed
  <2> QED BY <2>1, <2>2 DEF ReplayPath, Path
<1> QED BY <1>2, <1>3

\* One more operation is applied to what the operations before it gave.
LEMMA ReplayedAppend ==
  ASSUME NEW base \in Replays, NEW ops \in Seq(Op), NEW op \in Op
  PROVE  Replayed(base, Append(ops, op)) = ApplyOp(Replayed(base, ops), op)
<1> DEFINE all == Append(ops, op)
           n == Len(ops)
<1>1. /\ all \in Seq(Op) /\ Len(all) = n + 1 /\ n \in Nat
      /\ \A i \in 1 .. n : all[i] = ops[i]
      /\ all[n + 1] = op
  BY AppendProperties
<1> HIDE DEF all
<1>2. PICK p : ReplayPath(p, base, ops) /\ Replayed(base, ops) = p[n]
  BY ReplayFolds DEF Replayed
<1>3. PICK q : ReplayPath(q, base, all) /\ Replayed(base, all) = q[Len(all)]
  BY <1>1, ReplayFolds DEF Replayed
<1> HIDE DEF n
<1>4. /\ Path(p, n, Replays, base, Steps(ops)) /\ Path(q, n + 1, Replays, base, Steps(all))
      /\ Replayed(base, all) = q[n + 1]
  BY <1>1, <1>2, <1>3 DEF ReplayPath, n
<1>5. \A k \in 1 .. n : Steps(ops)[k] = Steps(all)[k]
  BY <1>1 DEF Steps, n
<1>6. p[n] = q[n]
  <2>1. n + 1 \in Nat /\ n <= n + 1 /\ n \in 0 .. n
    BY <1>1
  <2>2. \A k \in 0 .. n : p[k] = q[k]
    BY <1>1, <1>4, <1>5, <2>1, PathUnique
  <2> QED BY <2>1, <2>2
<1>7. q[n + 1] = ApplyOp(q[n], op)
  <2>1. n + 1 \in 1 .. n + 1 /\ n + 1 - 1 = n /\ n \in 0 .. n + 1
    BY <1>1
  <2>2. q[n + 1] = Steps(all)[n + 1][q[n]] /\ q[n] \in Replays
    BY <2>1, <1>4 DEF Path
  <2>3. \A r \in Replays : Steps(all)[n + 1][r] = ApplyOp(r, op)
    BY <2>1, <1>1 DEF Steps
  <2> QED BY <2>2, <2>3
<1> QED BY <1>2, <1>4, <1>6, <1>7 DEF all

-----------------------------------------------------------------------------
\* Deferred and immediate resolution.  Two memories are alike when they differ
\* only in edges that the next resolution replaces.

Alike(x, y) ==
    /\ x.source = y.source /\ x.pending = y.pending /\ x.hot = y.hot
    /\ x.calls \ Prunable(x) = y.calls \ Prunable(y)

LEMMA AlikeResolved ==
  ASSUME NEW x \in Memories, NEW y \in Memories, Alike(x, y)
  PROVE  Resolve(x) = Resolve(y)
<1>1. /\ x \in Memory /\ y \in Memory
  BY DEF Memories
<1>2. Targets(x) = Targets(y)
  BY DEF Alike, Targets, Defining
<1>3. (x.calls \ Prunable(x)) \cup (x.pending \X Targets(x))
        = (y.calls \ Prunable(y)) \cup (y.pending \X Targets(y))
  BY <1>2 DEF Alike
<1>4. ASSUME NEW z \in Memory
      PROVE  Resolve(z) = [source |-> z.source, pending |-> z.pending,
                           calls |-> (z.calls \ Prunable(z)) \cup (z.pending \X Targets(z)),
                           hot |-> z.hot]
  <2> DEFINE calls == (z.calls \ Prunable(z)) \cup (z.pending \X Targets(z))
  <2>1. Resolve(z) = [z EXCEPT !.calls = calls]
    BY DEF Resolve
  <2> HIDE DEF calls
  <2>2. Resolve(z) = [source |-> z.source, pending |-> z.pending, calls |-> calls, hot |-> z.hot]
    BY <1>4, <2>1 DEF Memory
  <2> QED BY <2>2 DEF calls
<1> QED BY <1>1, <1>3, <1>4 DEF Alike

LEMMA ResolvedAlike ==
  ASSUME NEW x \in Memories
  PROVE  Alike(x, Resolve(x))
<1> DEFINE y == Resolve(x)
<1>1. /\ y.source = x.source /\ y.pending = x.pending /\ y.hot = x.hot
      /\ y.calls = (x.calls \ Prunable(x)) \cup (x.pending \X Targets(x))
  BY ResolveOK
<1> HIDE DEF y
<1>2. \A e : e \in Prunable(x) <=> e \in x.calls /\ e[1] \in x.pending
  BY DEF Prunable
<1>3. \A e : e \in Prunable(y) <=> e \in y.calls /\ e[1] \in x.pending
  BY <1>1 DEF Prunable
<1>4. \A e \in x.pending \X Targets(x) : e[1] \in x.pending
  OBVIOUS
<1>5. x.calls \ Prunable(x) = y.calls \ Prunable(y)
  BY <1>1, <1>2, <1>3, <1>4
<1> QED BY <1>1, <1>5 DEF Alike, y

LEMMA DeferredAlike ==
  ASSUME NEW x \in Memories, NEW y \in Memories, Alike(x, y), NEW f \in Files,
         NEW v \in Versions
  PROVE  Alike(IngestDeferred(x, f, v), IngestDeferred(y, f, v))
<1>1. CASE x.source[f] = v
  BY <1>1 DEF Alike, IngestDeferred
<1>2. CASE x.source[f] # v
  <2> DEFINE j == IngestDeferred(x, f, v)
             k == IngestDeferred(y, f, v)
  <2>1. y.source[f] # v
    BY <1>2 DEF Alike
  <2>2. /\ j.source = k.source /\ j.hot = k.hot /\ j.pending = k.pending
        /\ j.calls = {e \in x.calls : f \notin {e[1], e[2]}}
        /\ k.calls = {e \in y.calls : f \notin {e[1], e[2]}}
        /\ \A g : g \in j.pending => g = f \/ g \in x.pending
        /\ \A g : g # f => (g \in j.pending <=> g \in x.pending)
    BY <1>2, <2>1 DEF Alike, IngestDeferred
  <2> HIDE DEF j, k
  <2>3. \A e : e \in x.calls \ Prunable(x) <=> e \in x.calls /\ e[1] \notin x.pending
    BY DEF Prunable
  <2>4. \A e : e \in y.calls \ Prunable(y) <=> e \in y.calls /\ e[1] \notin x.pending
    BY DEF Prunable, Alike
  <2>5. \A e : e \in j.calls \ Prunable(j) <=> e \in j.calls /\ e[1] \notin j.pending
    BY DEF Prunable
  <2>6. \A e : e \in k.calls \ Prunable(k) <=> e \in k.calls /\ e[1] \notin j.pending
    BY <2>2 DEF Prunable
  <2>7. \A e : (e \in x.calls /\ e[1] \notin x.pending) <=> (e \in y.calls /\ e[1] \notin x.pending)
    BY <2>3, <2>4 DEF Alike
  <2>8. \A e : e \in j.calls /\ e[1] \notin j.pending
               <=> e \in x.calls /\ e[1] # f /\ e[2] # f /\ e[1] \notin x.pending
    BY <2>2
  <2>9. \A e : e \in k.calls /\ e[1] \notin j.pending
               <=> e \in y.calls /\ e[1] # f /\ e[2] # f /\ e[1] \notin x.pending
    BY <2>2
  <2>10. j.calls \ Prunable(j) = k.calls \ Prunable(k)
    BY <2>5, <2>6, <2>7, <2>8, <2>9
  <2> QED BY <2>2, <2>10 DEF Alike, j, k
<1> QED BY <1>1, <1>2

\* What a replay settles on, one operation later.
LEMMA SettledIngest ==
  ASSUME NEW r \in Replays, NEW f \in Files, NEW v \in Versions
  PROVE  /\ Settle(ApplyOp(r, IngestOp(f, v))).m = IngestSource(Settle(r).m, f, v)
         /\ ApplyOp(r, IngestOp(f, v)).dirty
         /\ Alike(ApplyOp(r, IngestOp(f, v)).m, IngestDeferred(Settle(r).m, f, v))
<1> DEFINE a == ApplyOp(r, IngestOp(f, v))
           s == Settle(r).m
<1>1. r.m \in Memories /\ s \in Memories
  BY SettleOK DEF Replays
<1>2. a = [m |-> IngestDeferred(r.m, f, v), dirty |-> TRUE]
  <2>1. IngestOp(f, v).kind = "Ingest" /\ IngestOp(f, v).file = f /\ IngestOp(f, v).version = v
    BY DEF IngestOp
  <2> QED BY <2>1, ApplyIs
<1>3. Alike(r.m, s)
  <2>1. CASE r.dirty
    BY <2>1, <1>1, ResolvedAlike, SettleOK
  <2>2. CASE ~r.dirty
    <3>1. s = r.m
      BY <2>2, SettleOK
    <3> QED BY <3>1 DEF Alike
  <2> QED BY <2>1, <2>2
<1> HIDE DEF a, s
<1>4. /\ Alike(IngestDeferred(r.m, f, v), IngestDeferred(s, f, v))
      /\ IngestDeferred(r.m, f, v) \in Memories /\ IngestDeferred(s, f, v) \in Memories
  BY <1>1, <1>3, DeferredAlike, DeferredOK
<1>5. Resolve(IngestDeferred(r.m, f, v)) = Resolve(IngestDeferred(s, f, v))
  BY <1>4, AlikeResolved
<1>6. Settle(a).m = Resolve(IngestDeferred(r.m, f, v)) /\ a.dirty /\ a.m = IngestDeferred(r.m, f, v)
  BY <1>2 DEF Settle
<1> QED BY <1>4, <1>5, <1>6 DEF IngestSource, a, s

LEMMA SettledBatch ==
  ASSUME NEW r \in Replays, NEW f \in Files, NEW v \in Versions, NEW g \in Files,
         NEW w \in Versions
  PROVE  Settle(ApplyOp(ApplyOp(r, IngestOp(f, v)), IngestOp(g, w))).m
            = Resolve(IngestDeferred(IngestDeferred(Settle(r).m, f, v), g, w))
<1> DEFINE a == ApplyOp(r, IngestOp(f, v))
           d == IngestDeferred(Settle(r).m, f, v)
<1>1. IngestOp(f, v) \in Op
  BY DEF IngestOp, Op
<1>2. a \in Replays /\ a.m \in Memories /\ d \in Memories /\ Alike(a.m, d) /\ a.dirty
  <2>1. a \in Replays
    BY <1>1, ApplyOK
  <2>2. d \in Memories
    BY SettleOK, DeferredOK
  <2>3. Alike(a.m, d) /\ a.dirty
    BY SettledIngest
  <2> QED BY <2>1, <2>2, <2>3 DEF Replays
<1> HIDE DEF a, d
<1>3. Settle(ApplyOp(a, IngestOp(g, w))).m = Resolve(IngestDeferred(a.m, g, w))
  <2>1. IngestOp(g, w).kind = "Ingest" /\ IngestOp(g, w).file = g /\ IngestOp(g, w).version = w
    BY DEF IngestOp
  <2>2. ApplyOp(a, IngestOp(g, w)) = [m |-> IngestDeferred(a.m, g, w), dirty |-> TRUE]
    BY <2>1, ApplyIs
  <2> QED BY <2>2 DEF Settle
<1>4. /\ Alike(IngestDeferred(a.m, g, w), IngestDeferred(d, g, w))
      /\ IngestDeferred(a.m, g, w) \in Memories /\ IngestDeferred(d, g, w) \in Memories
  BY <1>2, DeferredAlike, DeferredOK
<1>5. Resolve(IngestDeferred(a.m, g, w)) = Resolve(IngestDeferred(d, g, w))
  BY <1>4, AlikeResolved
<1> QED BY <1>3, <1>5 DEF a, d

LEMMA SettledRead ==
  ASSUME NEW r \in Replays
  PROVE  /\ \A f : Settle(ApplyOp(r, FailureOp(f))).m = SignalFailure(Settle(r).m, f)
         /\ \A fs : Settle(ApplyOp(r, PageFaultOp(fs))).m = SignalFailures(Settle(r).m, fs)
         /\ Settle(ApplyOp(r, RecallOp)).m = Settle(r).m
<1>1. Settle(r) \in Replays /\ Settle(r).dirty = FALSE
  <2>1. r.dirty \in BOOLEAN
    BY DEF Replays
  <2> QED BY <2>1, SettleOK DEF Settle
<1>2. \A k : Settle(Replaying(Settle(r), k)).m = k
  <2>1. DOMAIN Settle(r) = {"m", "dirty"}
    BY <1>1 DEF Replays
  <2> QED BY <2>1, <1>1 DEF Replaying, Settle
<1>3. ASSUME NEW f PROVE Settle(ApplyOp(r, FailureOp(f))).m = SignalFailure(Settle(r).m, f)
  <2>1. FailureOp(f).kind = "Failure" /\ FailureOp(f).file = f
    BY DEF FailureOp
  <2>2. ApplyOp(r, FailureOp(f)) = Replaying(Settle(r), SignalFailure(Settle(r).m, f))
    BY <2>1, ApplyIs
  <2> QED BY <2>2, <1>2
<1>4. ASSUME NEW fs
      PROVE  Settle(ApplyOp(r, PageFaultOp(fs))).m = SignalFailures(Settle(r).m, fs)
  <2>1. PageFaultOp(fs).kind = "PageFault" /\ PageFaultOp(fs).files = fs
    BY DEF PageFaultOp
  <2>2. ApplyOp(r, PageFaultOp(fs)) = Replaying(Settle(r), SignalFailures(Settle(r).m, fs))
    BY <2>1, ApplyIs
  <2> QED BY <2>2, <1>2
<1>5. Settle(ApplyOp(r, RecallOp)).m = Settle(r).m
  <2>1. RecallOp.kind = "Recall"
    BY DEF RecallOp
  <2>2. ApplyOp(r, RecallOp) = Settle(r)
    BY <2>1, ApplyIs
  <2> QED BY <2>2, <1>1 DEF Settle
<1> QED BY <1>3, <1>4, <1>5

-----------------------------------------------------------------------------
\* The invariant of the memories: live, persisted and committed as a baseline.
\* A snapshot carries no call site, so that a timeline that starts from one
\* starts from the memory itself.

Based(t) == t.baseline = << >> \/ \E m \in Memories : t.baseline = <<m>>

Counted ==
    /\ phase \in {"down", "ready", "checkpointing"}
    /\ opens \in 0 .. MaxOpens /\ outside \in 0 .. MaxOutside
    /\ {ownBase, healed, corrupted} \subseteq BOOLEAN

SnapshotSound == snapshot = << >> \/ \E m \in Memories : snapshot = <<m>> /\ m.pending = {}

SidecarSound == sidecar = << >> \/ \E t : sidecar = <<t>> /\ Based(t)

\* What the recorded operations settle on.
Settled(t) == Settle(Replayed(Fresh(BaselineMemory(t)), t.ops)).m

Mirrors == phase # "down" /\ ownBase /\ tl.folded = 0 => Settled(tl) = live

MInv ==
    /\ Counted /\ SnapshotSound /\ SidecarSound
    /\ live \in Memories /\ Based(tl) /\ Mirrors

LEMMA BasedMemory ==
  ASSUME NEW t, Based(t)
  PROVE  BaselineMemory(t) \in Memories
BY EmptyOK DEF Based, BaselineMemory

LEMMA StartOK ==
  ASSUME NEW m \in Memories
  PROVE  /\ Based(StartFrom(m)) /\ StartFrom(m).folded = 0
         /\ Settled(StartFrom(m)) = Snapshot(m)
<1> DEFINE t == StartFrom(m)
<1>1. t.baseline = <<Snapshot(m)>> /\ t.ops = << >> /\ t.folded = 0
  BY DEF StartFrom
<1>2. Snapshot(m) \in Memories
  BY SnapshotOK
<1>3. BaselineMemory(t) = Snapshot(m)
  BY <1>1 DEF BaselineMemory
<1> HIDE DEF t
<1>4. << >> \in Seq(Op)
  OBVIOUS
<1>5. Settled(t) = Snapshot(m)
  BY <1>1, <1>2, <1>3, <1>4, FreshOK, ReplayedOK DEF Settled
<1> QED BY <1>1, <1>2, <1>5 DEF Based, t

LEMMA ReplayToOK ==
  ASSUME NEW t, Shape(t), Based(t), NEW step \in Nat
  PROVE  ReplayTo(t, step) \in Memories
<1> DEFINE upto == IF step <= LogicalLen(t) THEN step ELSE LogicalLen(t)
           tail == IF upto <= t.folded THEN 0 ELSE upto - t.folded
           ops == SubSeq(t.ops, 1, tail)
<1>1. t.ops \in Seq(Op) /\ t.folded \in Nat /\ Len(t.ops) \in Nat
  BY DEF Shape
<1>2. tail \in 0 .. Len(t.ops)
  BY <1>1 DEF LogicalLen
<1>3. ReplayTo(t, step) = Settle(Replayed(Fresh(BaselineMemory(t)), ops)).m
  BY ReplayIs DEF ReplayTo
<1> HIDE DEF tail
<1>4. ops \in Seq(Op)
  <2>1. \A i \in 1 .. tail : t.ops[i] \in Op
    BY <1>1, <1>2
  <2> QED BY <2>1, <1>2, SubSeqProperties
<1> HIDE DEF ops
<1>5. Fresh(BaselineMemory(t)) \in Replays
  BY BasedMemory, FreshOK
<1> QED BY <1>3, <1>4, <1>5, ReplayedOK, SettleOK

LEMMA CompactedBased ==
  ASSUME NEW t, Sound(t), Based(t)
  PROVE  /\ Based(CompactedIfNeeded(t))
         /\ CompactedIfNeeded(t).folded = 0 => CompactedIfNeeded(t) = t
<1>1. Shape(t) /\ t.folded \in Nat /\ Len(t.ops) \in Nat /\ OplogKeep \in Nat
  BY TimelineAssumption DEF Sound, Shape
<1>2. CASE Len(t.ops) > OplogKeep /\ CompactedIfNeeded(t) = Compacted(t, Len(t.ops) - OplogKeep)
  <2> DEFINE fold == Len(t.ops) - OplogKeep
             u == Compacted(t, fold)
  <2>1. fold \in Nat /\ fold # 0 /\ t.folded + fold \in Nat /\ t.folded + fold # 0
    BY <1>1, <1>2
  <2>2. u.baseline = <<Snapshot(ReplayTo(t, t.folded + fold))>> /\ u.folded = t.folded + fold
    BY DEF Compacted
  <2> HIDE DEF fold, u
  <2>3. Snapshot(ReplayTo(t, t.folded + fold)) \in Memories
    BY <1>1, <2>1, ReplayToOK, SnapshotOK
  <2> QED BY <1>2, <2>1, <2>2, <2>3 DEF Based, fold, u
<1>3. CASE CompactedIfNeeded(t) = t
  BY <1>3
<1> QED BY <1>2, <1>3 DEF CompactedIfNeeded, CompactedTo

LEMMA RecordedIs ==
  ASSUME NEW t, Shape(t), NEW op \in Op
  PROVE  /\ Recorded(t, op).baseline = t.baseline /\ Recorded(t, op).folded = t.folded
         /\ Recorded(t, op).ops = Append(t.ops, op)
BY DEF Recorded, Shape, Fields

LEMMA RecordedSettled ==
  ASSUME NEW t, Shape(t), Based(t), NEW op \in Op
  PROVE  /\ Based(Recorded(t, op))
         /\ Replayed(Fresh(BaselineMemory(t)), t.ops) \in Replays
         /\ Replayed(Fresh(BaselineMemory(Recorded(t, op))), Recorded(t, op).ops)
               = ApplyOp(Replayed(Fresh(BaselineMemory(t)), t.ops), op)
<1> DEFINE u == Recorded(t, op)
           b == Fresh(BaselineMemory(t))
<1>1. u.baseline = t.baseline /\ u.ops = Append(t.ops, op) /\ t.ops \in Seq(Op)
  BY RecordedIs DEF Shape
<1>2. b \in Replays
  BY BasedMemory, FreshOK
<1>3. Fresh(BaselineMemory(u)) = b /\ Based(u)
  BY <1>1 DEF BaselineMemory, Based
<1> HIDE DEF u, b
<1>4. Replayed(b, t.ops) \in Replays
      /\ Replayed(b, Append(t.ops, op)) = ApplyOp(Replayed(b, t.ops), op)
  BY <1>1, <1>2, ReplayedOK, ReplayedAppend
<1> QED BY <1>1, <1>3, <1>4 DEF u, b

LEMMA LoadedOK ==
  ASSUME SnapshotSound
  PROVE  Loaded \in Memories /\ Snapshot(Loaded) = Loaded
<1>1. CASE snapshot = << >>
  BY <1>1, EmptyOK DEF Loaded
<1>2. CASE \E m \in Memories : snapshot = <<m>> /\ m.pending = {}
  BY <1>2, SnapshotOK DEF Loaded
<1> QED BY <1>1, <1>2 DEF SnapshotSound

LEMMA SavedOK ==
  ASSUME NEW m \in Memories, snapshot' = <<Snapshot(m)>>
  PROVE  SnapshotSound'
BY SnapshotOK DEF SnapshotSound

LEMMA InitMInv == Init => MInv
<1> SUFFICES ASSUME Init PROVE MInv
  OBVIOUS
<1>1. /\ phase = "down" /\ live = EmptyMemory /\ tl = StartFrom(EmptyMemory)
      /\ opens = 0 /\ outside = 0 /\ ownBase = TRUE /\ healed = FALSE /\ corrupted = FALSE
  BY DEF Init, NoTimeline
<1>2. Counted
  <2>1. 0 \in 0 .. MaxOpens /\ 0 \in 0 .. MaxOutside
    BY TimelineAssumption DEF TimelineAssumption
  <2>2. opens \in 0 .. MaxOpens /\ outside \in 0 .. MaxOutside
    BY <2>1, <1>1
  <2>3. {ownBase, healed, corrupted} \subseteq BOOLEAN
    BY <1>1
  <2> QED BY <2>2, <2>3, <1>1 DEF Counted
<1>3. live \in Memories /\ Based(tl) /\ Mirrors
  BY <1>1, EmptyOK, StartOK DEF Mirrors
<1>4. SnapshotSound
  <2>1. CASE snapshot = << >>
    BY <2>1 DEF SnapshotSound
  <2>2. ASSUME NEW f \in Files, NEW v \in Versions,
               snapshot = <<Snapshot(IngestSource(EmptyMemory, f, v))>>
        PROVE  SnapshotSound
    <3>1. IngestSource(EmptyMemory, f, v) \in Memories
      BY EmptyOK, IngestOK
    <3> QED BY <2>2, <3>1, SnapshotOK DEF SnapshotSound
  <2> QED BY <2>1, <2>2 DEF Init
<1>5. SidecarSound
  <2>1. ASSUME NEW f \in Files, NEW v \in Versions, sidecar = <<LegacyTimeline(f, v)>>
        PROVE  SidecarSound
    BY <2>1 DEF SidecarSound, Based, LegacyTimeline
  <2>2. CASE sidecar = << >>
    BY <2>2 DEF SidecarSound
  <2> QED BY <2>1, <2>2 DEF Init
<1> QED BY <1>2, <1>3, <1>4, <1>5 DEF MInv

\* A new session on the timeline `t` and the loaded memory.
LEMMA OpenMemory ==
  ASSUME MInv, Counted', UNCHANGED disk, live' = Loaded,
         \/ ownBase' = TRUE /\ tl' = StartFrom(Loaded)
         \/ ownBase' = FALSE /\ Based(tl')
  PROVE  MInv'
<1>1. snapshot' = snapshot /\ sidecar' = sidecar
  BY DEF disk
<1>2. SnapshotSound' /\ SidecarSound'
  BY <1>1 DEF MInv, SnapshotSound, SidecarSound
<1>3. Loaded \in Memories /\ Snapshot(Loaded) = Loaded
  BY LoadedOK DEF MInv
<1>4. Based(tl') /\ Mirrors'
  BY <1>3, StartOK DEF Mirrors
<1> QED BY <1>2, <1>3, <1>4 DEF MInv

LEMMA CountedOpen ==
  ASSUME MInv, opens < MaxOpens, opens' = opens + 1, UNCHANGED <<outside, corrupted>>,
         phase' \in {"ready", phase}, ownBase' \in {TRUE, FALSE, ownBase},
         healed' \in {TRUE, FALSE, healed}
  PROVE  Counted'
<1>1. opens' \in 0 .. MaxOpens /\ outside' \in 0 .. MaxOutside
  BY TimelineAssumption DEF MInv, Counted, TimelineAssumption
<1>2. phase' \in {"down", "ready", "checkpointing"}
  BY DEF MInv, Counted
<1>3. {ownBase', healed', corrupted'} \subseteq BOOLEAN
  BY DEF MInv, Counted
<1> QED BY <1>1, <1>2, <1>3 DEF Counted

LEMMA RestoredBased ==
  ASSUME MInv, sidecar # << >>
  PROVE  Based(Restored(sidecar[1]))
<1>1. PICK t : sidecar = <<t>> /\ Based(t)
  BY DEF MInv, SidecarSound
<1>2. Restored(sidecar[1]).baseline = t.baseline
  BY <1>1 DEF Restored, Backfill
<1> QED BY <1>1, <1>2 DEF Based

\* One recorded operation, in the timeline and in the live memory.
LEMMA RecordMemory ==
  ASSUME IInv, MInv, phase = "ready", UNCHANGED <<phase, disk, history>>, NEW op \in Op,
         tl' = Recorded(tl, op), live' \in Memories,
         \A r \in Replays : Settle(r).m = live => Settle(ApplyOp(r, op)).m = live'
  PROVE  MInv'
<1>1. /\ phase' = phase /\ snapshot' = snapshot /\ sidecar' = sidecar /\ ownBase' = ownBase
      /\ Counted'
  BY DEF MInv, Counted, disk, history
<1>2. SnapshotSound' /\ SidecarSound'
  BY <1>1 DEF MInv, SnapshotSound, SidecarSound
<1>3. Shape(tl) /\ Based(tl)
  BY DEF IInv, Sound, MInv
<1> DEFINE r == Replayed(Fresh(BaselineMemory(tl)), tl.ops)
<1>4. /\ Based(tl') /\ r \in Replays
      /\ Replayed(Fresh(BaselineMemory(tl')), tl'.ops) = ApplyOp(r, op)
      /\ tl'.folded = tl.folded
  BY <1>3, RecordedSettled, RecordedIs
<1>5. Settled(tl') = Settle(ApplyOp(r, op)).m
  BY <1>4 DEF Settled
<1>6. Settled(tl) = Settle(r).m
  BY DEF Settled
<1> HIDE DEF r
<1>7. Mirrors'
  BY <1>1, <1>4, <1>5, <1>6 DEF MInv, Mirrors
<1> QED BY <1>1, <1>2, <1>4, <1>7 DEF MInv

LEMMA IngestMemory ==
  ASSUME IInv, MInv, NEW f \in Files, NEW v \in Versions, Ingest(f, v)
  PROVE  MInv'
<1>1. /\ phase = "ready" /\ UNCHANGED <<phase, disk, history>>
      /\ tl' = Recorded(tl, IngestOp(f, v)) /\ live' = IngestSource(live, f, v)
  BY DEF Ingest, CanRecord
<1>2. IngestOp(f, v) \in Op /\ live' \in Memories
  BY <1>1, IngestOK DEF IngestOp, Op, MInv
<1>3. ASSUME NEW r \in Replays, Settle(r).m = live
      PROVE  Settle(ApplyOp(r, IngestOp(f, v))).m = live'
  BY <1>1, <1>3, SettledIngest
<1> QED BY <1>1, <1>2, <1>3, RecordMemory

LEMMA ReadMemory ==
  ASSUME IInv, MInv,
         \/ \E f \in Files : Failure(f)
         \/ \E fs \in FaultLists : PageFault(fs)
         \/ Recall
  PROVE  MInv'
<1>1. ASSUME NEW f \in Files, Failure(f) PROVE MInv'
  <2>1. /\ phase = "ready" /\ UNCHANGED <<phase, disk, history>>
        /\ tl' = Recorded(tl, FailureOp(f)) /\ live' = SignalFailure(live, f)
    BY <1>1 DEF Failure, CanRecord
  <2>2. FailureOp(f) \in Op /\ live' \in Memories
    BY <2>1, SignalOK DEF FailureOp, Op, MInv
  <2>3. ASSUME NEW r \in Replays, Settle(r).m = live
        PROVE  Settle(ApplyOp(r, FailureOp(f))).m = live'
    BY <2>1, <2>3, SettledRead
  <2> QED BY <2>1, <2>2, <2>3, RecordMemory
<1>2. ASSUME NEW fs \in FaultLists, PageFault(fs) PROVE MInv'
  <2>1. /\ phase = "ready" /\ UNCHANGED <<phase, disk, history>>
        /\ tl' = Recorded(tl, PageFaultOp(fs)) /\ live' = SignalFailures(live, fs)
    BY <1>2 DEF PageFault, CanRecord
  <2>2. fs \in Seq(Files)
    BY TimelineAssumption DEF TimelineAssumption
  <2>3. PageFaultOp(fs) \in Op /\ live' \in Memories
    BY <2>1, <2>2, SignalsOK DEF PageFaultOp, Op, MInv
  <2>4. ASSUME NEW r \in Replays, Settle(r).m = live
        PROVE  Settle(ApplyOp(r, PageFaultOp(fs))).m = live'
    BY <2>1, <2>4, SettledRead
  <2> QED BY <2>1, <2>3, <2>4, RecordMemory
<1>3. CASE Recall
  <2>1. /\ phase = "ready" /\ UNCHANGED <<phase, disk, history>>
        /\ tl' = Recorded(tl, RecallOp) /\ live' = live
    BY <1>3 DEF Recall, CanRecord
  <2>2. RecallOp \in Op /\ live' \in Memories
    BY <2>1 DEF Op, MInv
  <2>3. ASSUME NEW r \in Replays, Settle(r).m = live
        PROVE  Settle(ApplyOp(r, RecallOp)).m = live'
    BY <2>1, <2>3, SettledRead
  <2> QED BY <2>1, <2>2, <2>3, RecordMemory
<1> QED BY <1>1, <1>2, <1>3

LEMMA BatchMemory ==
  ASSUME IInv, MInv, NEW f \in Files, NEW v \in Versions, NEW g \in Files, NEW w \in Versions,
         IngestBatch(f, v, g, w)
  PROVE  MInv'
<1> DEFINE o == IngestOp(f, v)
           p == IngestOp(g, w)
           t == Recorded(tl, o)
           r == Replayed(Fresh(BaselineMemory(tl)), tl.ops)
<1>1. /\ phase = "ready" /\ UNCHANGED <<phase, disk, history>> /\ tl' = Recorded(t, p)
      /\ live' = Resolve(IngestDeferred(IngestDeferred(live, f, v), g, w))
  BY DEF IngestBatch, CanRecord
<1>2. o \in Op /\ p \in Op
  BY DEF IngestOp, Op
<1>3. /\ phase' = phase /\ snapshot' = snapshot /\ sidecar' = sidecar /\ ownBase' = ownBase
      /\ Counted'
  BY <1>1 DEF MInv, Counted, disk, history
<1>4. SnapshotSound' /\ SidecarSound'
  BY <1>3 DEF MInv, SnapshotSound, SidecarSound
<1>5. live' \in Memories
  BY <1>1, DeferredOK, ResolveOK DEF MInv
<1>6. Shape(tl) /\ Based(tl) /\ Sound(t) /\ Shape(t)
  <2>1. Sound(tl) /\ Sound(t)
    BY <1>2, RecordedIsSound DEF IInv
  <2> QED BY <2>1 DEF Sound, MInv
<1> HIDE DEF t, o, p
<1>7. /\ Based(t) /\ r \in Replays /\ t.folded = tl.folded
      /\ Replayed(Fresh(BaselineMemory(t)), t.ops) = ApplyOp(r, o)
  BY <1>2, <1>6, RecordedSettled, RecordedIs DEF t
<1> HIDE DEF r
<1>8. /\ Based(tl') /\ tl'.folded = t.folded
      /\ Replayed(Fresh(BaselineMemory(tl')), tl'.ops) = ApplyOp(ApplyOp(r, o), p)
  BY <1>1, <1>2, <1>6, <1>7, RecordedSettled, RecordedIs
<1>9. Settle(ApplyOp(ApplyOp(r, o), p)).m
         = Resolve(IngestDeferred(IngestDeferred(Settle(r).m, f, v), g, w))
  BY <1>7, SettledBatch DEF o, p
<1>10. Settled(tl') = Settle(ApplyOp(ApplyOp(r, o), p)).m /\ Settled(tl) = Settle(r).m
  BY <1>8 DEF Settled, r
<1>11. Mirrors'
  BY <1>1, <1>3, <1>7, <1>8, <1>9, <1>10 DEF MInv, Mirrors
<1> QED BY <1>3, <1>4, <1>5, <1>8, <1>11 DEF MInv

\* A checkpoint compacts, and the live memory stays.
LEMMA CompactMemory ==
  ASSUME IInv, MInv, phase # "down", phase' # "down", Counted', SnapshotSound',
         tl' = CompactedIfNeeded(tl), UNCHANGED <<live, sidecar, ownBase>>
  PROVE  MInv'
<1>1. Based(tl') /\ (tl'.folded = 0 => tl' = tl)
  BY CompactedBased DEF IInv, MInv
<1>2. SidecarSound' /\ Mirrors'
  BY <1>1 DEF MInv, SidecarSound, Mirrors
<1> QED BY <1>1, <1>2 DEF MInv

LEMMA DamageMemory ==
  ASSUME IInv, MInv, Damage
  PROVE  MInv'
<1>1. /\ corrupted' = TRUE /\ UNCHANGED <<phase, live, tl, snapshot, opens, outside,
                                          ownBase, healed>>
  BY DEF Damage, session
<1>2. Counted' /\ SnapshotSound' /\ Mirrors'
  BY <1>1 DEF MInv, Counted, SnapshotSound, Mirrors
<1>3. SidecarSound'
  <2>1. PICK t : sidecar = <<t>> /\ Based(t)
    BY DEF Damage, MInv, SidecarSound
  <2>2. Shape(t)
    BY <2>1 DEF IInv, DiskOK, OnDisk
  <2>3. CASE sidecar' = << >>
    BY <2>3 DEF SidecarSound
  <2>4. ASSUME NEW i, sidecar' = <<[t EXCEPT !.ops[i] = RecallOp]>> PROVE SidecarSound'
    <3>1. [t EXCEPT !.ops[i] = RecallOp].baseline = t.baseline
      BY <2>2 DEF Shape, Fields
    <3> QED BY <2>1, <2>4, <3>1 DEF SidecarSound, Based
  <2>5. CASE sidecar' = <<[t EXCEPT !.baseline = <<EmptyMemory>>]>>
    <3>1. [t EXCEPT !.baseline = <<EmptyMemory>>].baseline = <<EmptyMemory>>
      BY <2>2 DEF Shape, Fields
    <3> QED BY <2>5, <3>1, EmptyOK DEF SidecarSound, Based
  <2> QED BY <2>1, <2>3, <2>4, <2>5 DEF Damage
<1> QED BY <1>1, <1>2, <1>3 DEF MInv

LEMMA NextMInv == IInv /\ MInv /\ [Next]_vars => MInv'
<1> SUFFICES ASSUME IInv, MInv, [Next]_vars PROVE MInv'
  OBVIOUS
<1>1. CASE OpenWithoutTimeline
  <2>1. /\ opens < MaxOpens /\ opens' = opens + 1 /\ UNCHANGED <<outside, corrupted, disk>>
        /\ phase' = "ready" /\ ownBase' = TRUE /\ healed' = FALSE
        /\ live' = Loaded /\ tl' = StartFrom(Loaded)
    BY <1>1 DEF OpenWithoutTimeline, CanOpen
  <2>2. Counted'
    BY <2>1, CountedOpen
  <2> QED BY <2>1, <2>2, OpenMemory
<1>2. CASE OpenWithTimeline
  <2>1. /\ opens < MaxOpens /\ opens' = opens + 1 /\ UNCHANGED <<outside, corrupted, disk>>
        /\ phase' = "ready" /\ ownBase' = FALSE /\ healed' = FALSE
        /\ live' = Loaded /\ tl' = Restored(sidecar[1]) /\ sidecar # << >>
    BY <1>2 DEF OpenWithTimeline, CanOpen
  <2>2. Counted' /\ Based(tl')
    BY <2>1, CountedOpen, RestoredBased
  <2> QED BY <2>1, <2>2, OpenMemory
<1>3. CASE OpenHealing
  <2>1. /\ opens < MaxOpens /\ opens' = opens + 1 /\ UNCHANGED <<outside, corrupted, disk>>
        /\ phase' = "ready" /\ ownBase' = TRUE /\ healed' = TRUE
        /\ live' = Loaded /\ tl' = StartFrom(Loaded)
    BY <1>3 DEF OpenHealing, CanOpen
  <2>2. Counted'
    BY <2>1, CountedOpen
  <2> QED BY <2>1, <2>2, OpenMemory
<1>4. CASE OpenRefused
  <2>1. /\ opens < MaxOpens /\ opens' = opens + 1
        /\ UNCHANGED <<phase, live, tl, snapshot, sidecar, outside, ownBase, healed, corrupted>>
    BY <1>4 DEF OpenRefused, CanOpen, session, disk
  <2>2. Counted'
    BY <2>1, CountedOpen
  <2> QED BY <2>1, <2>2 DEF MInv, SnapshotSound, SidecarSound, Mirrors
<1>5. CASE Record
  <2>1. ASSUME NEW f \in Files, NEW v \in Versions, Ingest(f, v) \/ Sync(f, v) PROVE MInv'
    BY <2>1, IngestMemory DEF Sync
  <2>2. ASSUME NEW f \in Files, NEW v \in Versions, NEW h \in Files, NEW w \in Versions,
               IngestBatch(f, v, h, w)
        PROVE  MInv'
    BY <2>2, BatchMemory
  <2>3. CASE \/ \E f \in Files : Failure(f)
             \/ \E fs \in FaultLists : PageFault(fs)
             \/ Recall
    BY <2>3, ReadMemory
  <2> QED BY <1>5, <2>1, <2>2, <2>3 DEF Record
<1>6. CASE WriteSnapshot
  <2>1. /\ phase = "ready" /\ phase' = "checkpointing" /\ tl' = CompactedIfNeeded(tl)
        /\ snapshot' = <<Snapshot(live)>> /\ UNCHANGED <<live, sidecar, history>>
    BY <1>6 DEF WriteSnapshot
  <2>2. Counted' /\ SnapshotSound'
    BY <2>1, SavedOK DEF MInv, Counted, history
  <2> QED BY <2>1, <2>2, CompactMemory DEF history
<1>7. CASE SnapshotWriteFails
  <2>1. /\ phase = "ready" /\ tl' = CompactedIfNeeded(tl)
        /\ UNCHANGED <<phase, live, snapshot, sidecar, history>>
    BY <1>7 DEF SnapshotWriteFails, disk
  <2>2. Counted' /\ SnapshotSound'
    BY <2>1 DEF MInv, Counted, SnapshotSound, history
  <2> QED BY <2>1, <2>2, CompactMemory DEF history
<1>8. CASE WriteSidecar
  <2>1. /\ sidecar' = <<tl>> /\ corrupted' = FALSE /\ phase' = "ready" /\ phase # "down"
        /\ UNCHANGED <<live, tl, snapshot, opens, outside, ownBase, healed>>
    BY <1>8 DEF WriteSidecar
  <2>2. Counted'
    BY <2>1 DEF MInv, Counted
  <2> QED BY <2>1, <2>2 DEF MInv, SnapshotSound, SidecarSound, Mirrors
<1>9. CASE SidecarWriteFails
  <2>1. /\ phase' = "ready" /\ phase # "down"
        /\ UNCHANGED <<live, tl, snapshot, sidecar, opens, outside, ownBase, healed, corrupted>>
    BY <1>9 DEF SidecarWriteFails, disk, history
  <2>2. Counted'
    BY <2>1 DEF MInv, Counted
  <2> QED BY <2>1, <2>2 DEF MInv, SnapshotSound, SidecarSound, Mirrors
<1>10. CASE Crash
  <2>1. /\ phase' = "down" /\ live' = EmptyMemory /\ tl' = StartFrom(EmptyMemory)
        /\ ownBase' = TRUE /\ healed' = FALSE
        /\ UNCHANGED <<snapshot, sidecar, opens, outside, corrupted>>
    BY <1>10 DEF Crash, NoTimeline, disk
  <2>2. Counted'
    BY <2>1 DEF MInv, Counted
  <2> QED BY <2>1, <2>2, EmptyOK, StartOK DEF MInv, SnapshotSound, SidecarSound, Mirrors
<1>11. ASSUME NEW f \in Files, NEW v \in Versions, OutsideIngest(f, v) PROVE MInv'
  <2>1. /\ outside < MaxOutside /\ snapshot' = <<Snapshot(IngestSource(Loaded, f, v))>>
        /\ outside' = outside + 1
        /\ UNCHANGED <<phase, live, tl, sidecar, opens, ownBase, healed, corrupted>>
    BY <1>11 DEF OutsideIngest, session
  <2>2. IngestSource(Loaded, f, v) \in Memories
    BY LoadedOK, IngestOK DEF MInv
  <2>3. SnapshotSound'
    BY <2>1, <2>2, SavedOK
  <2>4. outside' \in 0 .. MaxOutside
    BY <2>1, TimelineAssumption DEF MInv, Counted, TimelineAssumption
  <2>5. Counted'
    BY <2>1, <2>4 DEF MInv, Counted
  <2> QED BY <2>1, <2>3, <2>5 DEF MInv, SidecarSound, Mirrors
<1>12. CASE Damage
  BY <1>12, DamageMemory
<1>13. CASE UNCHANGED vars
  BY <1>13 DEF vars, MInv, Counted, SnapshotSound, SidecarSound, Mirrors
<1> QED
  BY <1>1, <1>2, <1>3, <1>4, <1>5, <1>6, <1>7, <1>8, <1>9, <1>10, <1>11, <1>12, <1>13 DEF Next

LEMMA SpecMemories == Spec => []MInv
BY InitMInv, NextMInv, SpecSound, PTL DEF Spec

\* Every variable has its type; and every memory, live, persisted, reloaded,
\* committed as a baseline or replayed, is well formed: no call edge dangles
\* and no file that is not there is under pressure, whatever was ingested,
\* resolved, compacted, crashed or damaged.
THEOREM TimelineAlwaysTyped == Spec => []TypeOK
<1>1. ASSUME IInv, MInv PROVE TypeOK
  <2>1. ASSUME NEW t, Shape(t), Based(t) PROVE TimelineOK(t)
    <3>1. t.baseline = << >> \/ (Len(t.baseline) = 1 /\ WellFormed(t.baseline[1]))
      <4>1. CASE t.baseline # << >>
        <5>1. PICK m \in Memories : t.baseline = <<m>>
          BY <2>1, <4>1 DEF Based
        <5>2. WellFormed(m)
          BY <5>1 DEF Memories
        <5>3. Len(<<m>>) = 1 /\ <<m>>[1] = m
          OBVIOUS
        <5> QED BY <5>1, <5>2, <5>3
      <4> QED BY <4>1
    <3> QED BY <2>1, <3>1 DEF Shape, Fields, TimelineOK
  <2>2. TimelineOK(tl) /\ WellFormed(live)
    BY <1>1, <2>1 DEF IInv, Sound, MInv, Memories
  <2>3. snapshot = << >> \/ (Len(snapshot) = 1 /\ WellFormed(snapshot[1]))
    BY <1>1 DEF MInv, SnapshotSound, Memories
  <2>4. sidecar = << >> \/ (Len(sidecar) = 1 /\ TimelineOK(sidecar[1]))
    <3>1. CASE sidecar # << >>
      <4>1. PICK t : sidecar = <<t>> /\ Based(t)
        BY <1>1, <3>1 DEF MInv, SidecarSound
      <4>2. Shape(t)
        BY <1>1, <4>1 DEF IInv, DiskOK, OnDisk
      <4> QED BY <2>1, <4>1, <4>2
    <3> QED BY <3>1
  <2>5. /\ phase \in {"down", "ready", "checkpointing"}
        /\ opens \in 0 .. MaxOpens /\ outside \in 0 .. MaxOutside
        /\ {ownBase, healed, corrupted} \subseteq BOOLEAN
    BY <1>1 DEF MInv, Counted
  <2> QED BY <2>2, <2>3, <2>4, <2>5 DEF TypeOK
<1> QED BY <1>1, SpecSound, SpecMemories, PTL

\* replay == live: while the process that records took the baseline itself and
\* nothing was folded into it, replaying the recorded operations gives the live
\* memory, although a replay defers every resolution that the live session
\* performed at once, and a batch deferred one that the live session did not.
THEOREM ReplayAlwaysLive == Spec => []ReplayIsLiveInOneProcess
<1>1. ASSUME IInv, MInv PROVE ReplayIsLiveInOneProcess
  <2> SUFFICES ASSUME phase = "ready", ownBase, tl.folded = 0 PROVE ReplaysTo(tl, live)
    BY DEF ReplayIsLiveInOneProcess
  <2>1. tl.ops \in Seq(Op) /\ Len(tl.ops) \in Nat
    BY <1>1 DEF IInv, Sound, Shape
  <2>2. Settled(tl) = live
    BY <1>1 DEF MInv, Mirrors
  <2>3. LogicalLen(tl) = Len(tl.ops)
    BY <2>1 DEF LogicalLen
  <2>4. SubSeq(tl.ops, 1, Len(tl.ops)) = tl.ops
    BY <2>1
  <2>5. ReplayTo(tl, LogicalLen(tl)) = Replay(BaselineMemory(tl), tl.ops)
    <3> DEFINE n == LogicalLen(tl)
               upto == IF n <= LogicalLen(tl) THEN n ELSE LogicalLen(tl)
               tail == IF upto <= tl.folded THEN 0 ELSE upto - tl.folded
    <3>1. ReplayTo(tl, n) = Replay(BaselineMemory(tl), SubSeq(tl.ops, 1, tail))
      BY DEF ReplayTo
    <3>2. upto = Len(tl.ops)
      BY <2>3
    <3> HIDE DEF upto
    <3>3. tail = Len(tl.ops)
      BY <3>2, <2>1
    <3> HIDE DEF n, tail
    <3>4. SubSeq(tl.ops, 1, tail) = tl.ops
      BY <3>3, <2>4
    <3>5. n = LogicalLen(tl)
      BY DEF n
    <3> QED BY <3>1, <3>4, <3>5
  <2>6. Replay(BaselineMemory(tl), tl.ops) = Settled(tl)
    BY ReplayIs DEF Settled
  <2> QED BY <2>2, <2>5, <2>6 DEF ReplaysTo
<1> QED BY <1>1, SpecSound, SpecMemories, PTL

=============================================================================
