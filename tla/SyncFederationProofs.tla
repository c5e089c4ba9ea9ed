------------------------ MODULE SyncFederationProofs ------------------------
(***************************************************************************)
(* Theorems about SyncFederation, for any number of workspaces, agents and *)
(* bundles: first what keys, logs and signatures keep whatever is          *)
(* interleaved, then, with one process at a time on a workspace, who       *)
(* diverges and whose views agree.                                         *)
(***************************************************************************)
EXTENDS SyncFederation, SequenceTheorems, FiniteSetTheorems, TLAPS

\* Links that agent `x` recorded, when `e` tells what each workspace did.
EverOf(x, e) == UNION {e[w] : w \in {v \in Workspaces : IdOf[v] = x}}

\* An imported log is chained from genesis, by links in S.
LogOK(log, S) ==
    /\ log.ops \in Seq(Ops) /\ log.chain \in Seq(S)
    /\ Chained(GENESIS, 0, log.ops, log.chain)

Fields == {"agent", "ops", "chain", "anchor", "folded", "foreign", "known_keys"}

\* A copy of the sidecar of `w`: its chain is its own, and every imported log
\* is authentic.
SessionOK(w, s, e) ==
    /\ DOMAIN s = Fields /\ s.agent \in {NoAgent, IdOf[w]} /\ s.folded \in Nat
    /\ s.ops \in Seq(Ops) /\ s.chain \in Seq(e[w]) /\ Len(s.chain) = Len(s.ops)
    /\ \A x \in DOMAIN s.foreign : LogOK(s.foreign[x], EverOf(x, e))

BundleFields == {"agent", "first", "anchor", "ops", "chain", "pubkey", "sig"}

\* A bundle carries links of its author; the rest may have been damaged.
BundleOK(b, e) ==
    /\ DOMAIN b = BundleFields /\ b.first \in Nat /\ b.ops \in Seq(Ops)
    /\ b.chain \in Seq(EverOf(b.agent, e))

\* The inductive invariant.
IInv ==
    /\ DOMAIN disk = Workspaces /\ DOMAIN server = Workspaces
    /\ DOMAIN cli = Workspaces /\ DOMAIN ever = Workspaces
    /\ \A w \in Workspaces :
          /\ SessionOK(w, disk[w], ever)
          /\ server[w] # << >> => SessionOK(w, server[w][1], ever)
          /\ cli[w] # << >> => SessionOK(w, cli[w][1], ever)
    /\ \A b \in wire : BundleOK(b, ever)

-----------------------------------------------------------------------------
\* What `import_bundle` appends to a log.

LEMMA NoLogOK == ASSUME NEW S PROVE LogOK(NoLog, S)
BY DEF NoLog, LogOK, Chained

\* `new` is `old`, of length n, and the elements of `seq`, which starts at
\* the absolute position k, that are beyond it.
Appended(new, old, seq, k, n) ==
    /\ Len(new) = IF n < k + Len(seq) THEN k + Len(seq) ELSE n
    /\ \A i \in 1 .. n : new[i] = old[i]
    /\ \A i \in 1 .. Len(new) : i > n => new[i] = seq[i - k]

LEMMA FreshElements ==
  ASSUME NEW S, NEW d \in Nat, NEW seq \in Seq(S)
  PROVE  /\ SubSeq(seq, d + 1, Len(seq)) \in Seq(S)
         /\ Len(SubSeq(seq, d + 1, Len(seq)))
              = IF d < Len(seq) THEN Len(seq) - d ELSE 0
         /\ \A i \in 1 .. Len(seq) - d : SubSeq(seq, d + 1, Len(seq))[i] = seq[d + i]
<1> DEFINE f == SubSeq(seq, d + 1, Len(seq))
<1>1. Len(seq) \in Nat /\ d + 1 \in Int
  OBVIOUS
<1>3. \A i \in d + 1 .. Len(seq) : seq[i] \in S
  BY <1>1
<1>4. /\ f \in Seq(S)
      /\ Len(f) = IF d + 1 <= Len(seq) THEN Len(seq) - (d + 1) + 1 ELSE 0
      /\ \A i \in 1 .. Len(seq) - (d + 1) + 1 : f[i] = seq[d + 1 + i - 1]
  BY <1>1, <1>3, SubSeqProperties
<1> HIDE DEF f
<1>5. Len(f) = IF d < Len(seq) THEN Len(seq) - d ELSE 0
  BY <1>1, <1>4
<1>6. ASSUME NEW i \in 1 .. Len(seq) - d PROVE f[i] = seq[d + i]
  <2>1. i \in 1 .. Len(seq) - (d + 1) + 1 /\ d + 1 + i - 1 = d + i
    BY <1>1
  <2>2. f[i] = seq[d + 1 + i - 1]
    BY <2>1, <1>4
  <2> QED BY <2>1, <2>2
<1> QED BY <1>4, <1>5, <1>6 DEF f

\* `extend_from_slice` of what is new.
LEMMA AppendFresh ==
  ASSUME NEW S, NEW b, NEW log, NEW n \in Nat, NEW k \in Nat, Len(log.ops) = n,
         b.first = k, k <= n,
         NEW old \in Seq(S), Len(old) = n, NEW seq \in Seq(S)
  PROVE  /\ old \o Fresh(b, log, seq) \in Seq(S)
         /\ Appended(old \o Fresh(b, log, seq), old, seq, k, n)
<1> DEFINE f == Fresh(b, log, seq)
           new == old \o f
           m == Len(seq)
           d == n - k
<1>1. n \in Nat /\ k \in Nat /\ m \in Nat /\ k <= n /\ d \in Nat
  OBVIOUS
<1>2. f = SubSeq(seq, d + 1, Len(seq))
  BY DEF Fresh
<1>2a. /\ f \in Seq(S) /\ Len(f) = IF d < m THEN m - d ELSE 0
       /\ \A i \in 1 .. m - d : f[i] = seq[d + i]
  <2>1. /\ SubSeq(seq, d + 1, Len(seq)) \in Seq(S)
        /\ Len(SubSeq(seq, d + 1, Len(seq)))
             = IF d < Len(seq) THEN Len(seq) - d ELSE 0
        /\ \A i \in 1 .. Len(seq) - d :
              SubSeq(seq, d + 1, Len(seq))[i] = seq[d + i]
    <3> HIDE DEF d
    <3> QED BY <1>1, FreshElements
  <2> QED BY <2>1, <1>2
<1> HIDE DEF f
<1>3a. /\ new \in Seq(S) /\ Len(new) = Len(old) + Len(f)
       /\ \A i \in 1 .. Len(old) + Len(f) :
             new[i] = IF i <= Len(old) THEN old[i] ELSE f[i - Len(old)]
  BY <1>2a, ConcatProperties
<1> HIDE DEF new
<1>3. /\ new \in Seq(S) /\ Len(new) = n + Len(f)
      /\ \A i \in 1 .. n + Len(f) : new[i] = IF i <= n THEN old[i] ELSE f[i - n]
  BY <1>3a
<1>4. Len(new) = IF n < k + m THEN k + m ELSE n
  BY <1>1, <1>2a, <1>3
<1>5. ASSUME NEW i \in 1 .. n PROVE new[i] = old[i]
  <2>1. i \in 1 .. n + Len(f) /\ i <= n
    BY <1>1, <1>2a
  <2> QED BY <2>1, <1>3
<1> HIDE DEF m
<1>6. ASSUME NEW i \in 1 .. Len(new), i > n PROVE new[i] = seq[i - k]
  <2>1. i - n \in 1 .. m - d /\ d + (i - n) = i - k
    BY <1>1, <1>4, <1>6
  <2>2. ~(i <= n) /\ i \in 1 .. n + Len(f)
    BY <1>1, <1>3, <1>6
  <2>3. new[i] = f[i - n]
    BY <2>2, <1>3
  <2>4. f[i - n] = seq[d + (i - n)]
    BY <2>1, <1>2a
  <2> QED BY <2>1, <2>3, <2>4
<1> QED BY <1>3, <1>4, <1>5, <1>6 DEF new, f, m, Appended

\* A bundle that passes the checks extends a sound log to a sound log.
LEMMA ExtendedOK ==
  ASSUME NEW S, NEW log, LogOK(log, S), NEW b,
         b.first \in Nat, b.ops \in Seq(Ops), b.chain \in Seq(S),
         Intact(b), b.first <= Len(log.ops), Continues(b, log)
  PROVE  /\ LogOK(Extended(log, b), S)
         /\ IsPrefix(log.chain, Extended(log, b).chain)
<1> DEFINE new == Extended(log, b)
           n == Len(log.ops)
           k == b.first
<1>1. /\ n \in Nat /\ k \in Nat /\ k <= n
      /\ log.ops \in Seq(Ops) /\ log.chain \in Seq(S) /\ Len(log.chain) = n
      /\ b.ops \in Seq(Ops) /\ b.chain \in Seq(S) /\ Len(b.chain) = Len(b.ops)
      /\ Len(b.ops) \in Nat
  BY DEF LogOK, Chained, Intact
<1>2. /\ new.ops = log.ops \o Fresh(b, log, b.ops)
      /\ new.chain = log.chain \o Fresh(b, log, b.chain)
  BY DEF Extended
<1> DEFINE m == IF n < k + Len(b.ops) THEN k + Len(b.ops) ELSE n
<1>3. /\ new.ops \in Seq(Ops) /\ Len(new.ops) = m
      /\ \A i \in 1 .. n : new.ops[i] = log.ops[i]
      /\ \A i \in 1 .. m : i > n => new.ops[i] = b.ops[i - k]
  <2>1. log.ops \o Fresh(b, log, b.ops) \in Seq(Ops)
        /\ Appended(log.ops \o Fresh(b, log, b.ops), log.ops, b.ops, k, n)
    BY <1>1, AppendFresh
  <2> QED BY <2>1, <1>2 DEF Appended
<1>4. /\ new.chain \in Seq(S) /\ Len(new.chain) = m
      /\ \A i \in 1 .. n : new.chain[i] = log.chain[i]
      /\ \A i \in 1 .. m : i > n => new.chain[i] = b.chain[i - k]
  <2>1. log.chain \o Fresh(b, log, b.chain) \in Seq(S)
        /\ Appended(log.chain \o Fresh(b, log, b.chain), log.chain, b.chain, k, n)
    BY <1>1, AppendFresh
  <2> DEFINE c == log.chain \o Fresh(b, log, b.chain)
  <2>2. Len(c) = m
    BY <2>1, <1>1 DEF Appended
  <2>3. new.chain = c
    BY <1>2
  <2> HIDE DEF c
  <2> QED BY <2>1, <2>2, <2>3 DEF Appended, c
<1>5. m \in Nat /\ n <= m /\ \A i \in 1 .. m : i > n => i - k \in 1 .. Len(b.ops) /\ k + (i - k) = i
  BY <1>1
<1> HIDE DEF new, n, k, m
<1>6. ASSUME NEW i \in 1 .. m
      PROVE  new.chain[i] = Link(Predecessor(GENESIS, new.chain, i), 0 + i - 1, new.ops[i])
  <2>1. CASE i <= n
    <3>1. i \in 1 .. n /\ (i # 1 => i - 1 \in 1 .. n)
      BY <2>1, <1>1
    <3>2. log.chain[i] = Link(Predecessor(GENESIS, log.chain, i), 0 + i - 1, log.ops[i])
      BY <3>1 DEF LogOK, Chained, n
    <3>3. Predecessor(GENESIS, new.chain, i) = Predecessor(GENESIS, log.chain, i)
      BY <3>1, <1>4 DEF Predecessor
    <3> QED BY <3>1, <3>2, <3>3, <1>3, <1>4
  <2>2. CASE i > n
    <3>1. i - k \in 1 .. Len(b.ops) /\ k + (i - k) = i
      BY <2>2, <1>5
    <3>2. new.chain[i] = b.chain[i - k] /\ new.ops[i] = b.ops[i - k]
      BY <2>2, <1>3, <1>4
    <3>3. b.chain[i - k] = Link(Predecessor(b.anchor, b.chain, i - k), k + (i - k) - 1, b.ops[i - k])
      BY <3>1 DEF Intact, Chained, k
    <3>4. k + (i - k) - 1 = 0 + i - 1
      BY <3>1, <1>1
    <3>5. Predecessor(b.anchor, b.chain, i - k) = Predecessor(GENESIS, new.chain, i)
      <4>1. CASE i - k = 1 /\ i = 1
        <5>1. k = 0
          BY <4>1, <1>1
        <5> QED BY <4>1, <5>1 DEF Predecessor, Intact, k
      <4>2. CASE i - k = 1 /\ i # 1
        <5>1. k > 0 /\ k = n /\ i - 1 = n /\ n \in 1 .. n
          BY <4>2, <2>2, <1>1
        <5>2. b.anchor = log.chain[k]
          BY <5>1 DEF Continues, k
        <5>3. new.chain[i - 1] = log.chain[k]
          BY <5>1, <1>4
        <5> QED BY <4>2, <5>2, <5>3 DEF Predecessor
      <4>3. CASE i - k # 1 /\ i - 1 > n
        <5>1. i - 1 \in 1 .. m /\ i # 1 /\ (i - 1) - k = i - k - 1
          BY <4>3, <2>2, <1>1, <1>5
        <5>2. new.chain[i - 1] = b.chain[(i - 1) - k]
          BY <5>1, <4>3, <1>4
        <5> QED BY <4>3, <5>1, <5>2 DEF Predecessor
      <4>4. CASE i - k # 1 /\ ~(i - 1 > n)
        <5>1. i # 1 /\ i - 1 = n /\ n \in 1 .. n /\ n - k = i - k - 1
              /\ n - k \in 1 .. Len(b.chain) /\ k + (n - k) = n /\ n <= Len(log.chain)
          BY <4>4, <2>2, <3>1, <1>1
        <5>2. b.chain[n - k] = log.chain[n]
          <6>1. k + (n - k) <= Len(log.chain) => b.chain[n - k] = log.chain[k + (n - k)]
            BY <5>1 DEF Continues, k
          <6> QED BY <6>1, <5>1
        <5>3. new.chain[i - 1] = log.chain[n]
          BY <5>1, <1>4
        <5> QED BY <4>4, <5>1, <5>2, <5>3 DEF Predecessor
      <4> QED BY <4>1, <4>2, <4>3, <4>4
    <3> QED BY <3>2, <3>3, <3>4, <3>5
  <2> QED BY <2>1, <2>2, <1>1, <1>5
<1>7. LogOK(new, S)
  BY <1>3, <1>4, <1>6 DEF LogOK, Chained
<1>8. SubSeq(log.chain, 1, n) = SubSeq(new.chain, 1, n)
  BY <1>1, <1>4, <1>5
<1>9. IsPrefix(log.chain, new.chain)
  BY <1>1, <1>4, <1>5, <1>8 DEF IsPrefix
<1> QED BY <1>7, <1>9 DEF new

-----------------------------------------------------------------------------
\* What a workspace has recorded is never unrecorded.

Later(e, f) == \A w \in Workspaces : e[w] \subseteq f[w]

LEMMA EverOfGrows ==
  ASSUME NEW e, NEW f, Later(e, f), NEW x PROVE EverOf(x, e) \subseteq EverOf(x, f)
BY DEF Later, EverOf

LEMMA SeqGrows ==
  ASSUME NEW S, NEW T, S \subseteq T, NEW seq \in Seq(S) PROVE seq \in Seq(T)
<1>1. \A i \in 1 .. Len(seq) : seq[i] \in T
  OBVIOUS
<1>2. seq = [i \in 1 .. Len(seq) |-> seq[i]] /\ Len(seq) \in Nat
  OBVIOUS
<1> QED BY <1>1, <1>2

LEMMA SessionLater ==
  ASSUME NEW e, NEW f, Later(e, f), NEW w \in Workspaces, NEW s, SessionOK(w, s, e)
  PROVE  SessionOK(w, s, f)
<1>1. s.chain \in Seq(f[w])
  <2>1. e[w] \subseteq f[w] /\ s.chain \in Seq(e[w])
    BY DEF Later, SessionOK
  <2> QED BY <2>1, SeqGrows
<1>2. ASSUME NEW x \in DOMAIN s.foreign PROVE LogOK(s.foreign[x], EverOf(x, f))
  <2>1. LogOK(s.foreign[x], EverOf(x, e))
    BY DEF SessionOK
  <2>2. s.foreign[x].chain \in Seq(EverOf(x, e))
    BY <2>1 DEF LogOK
  <2>3. s.foreign[x].chain \in Seq(EverOf(x, f))
    BY <2>2, EverOfGrows, SeqGrows
  <2> QED BY <2>1, <2>3 DEF LogOK
<1> QED BY <1>1, <1>2 DEF SessionOK

LEMMA BundleLater ==
  ASSUME NEW e, NEW f, Later(e, f), NEW b, BundleOK(b, e) PROVE BundleOK(b, f)
<1>1. b.chain \in Seq(EverOf(b.agent, f))
  <2>1. b.chain \in Seq(EverOf(b.agent, e))
    BY DEF BundleOK
  <2> QED BY <2>1, EverOfGrows, SeqGrows
<1> QED BY <1>1 DEF BundleOK

-----------------------------------------------------------------------------
\* What each operation does to a copy.

LEMMA RestartedOK ==
  ASSUME NEW e, NEW w \in Workspaces, NEW s, SessionOK(w, s, e)
  PROVE  SessionOK(w, Restarted(s), e)
BY DEF SessionOK, Restarted, Fields

LEMMA AgentSetOK ==
  ASSUME NEW e, NEW w \in Workspaces, NEW s, SessionOK(w, s, e)
  PROVE  SessionOK(w, [s EXCEPT !.agent = IdOf[w]], e)
BY DEF SessionOK, Fields

\* Compaction drops links but keeps the rest in step.
LEMMA CompactedOK ==
  ASSUME NEW e, NEW w \in Workspaces, NEW s, SessionOK(w, s, e),
         OplogMax \in Nat, OplogKeep \in Nat
  PROVE  SessionOK(w, CompactedIfNeeded(s), e) /\ CompactedIfNeeded(s).agent = s.agent
<1>1. CASE ~(OplogMax > 0 /\ Len(s.ops) > OplogMax /\ Len(s.ops) > OplogKeep)
  BY <1>1 DEF CompactedIfNeeded
<1>2. CASE OplogMax > 0 /\ Len(s.ops) > OplogMax /\ Len(s.ops) > OplogKeep
  <2> DEFINE d == Len(s.ops) - OplogKeep
             c == CompactedIfNeeded(s)
  <2>1. /\ s.ops \in Seq(Ops) /\ s.chain \in Seq(e[w]) /\ Len(s.chain) = Len(s.ops)
        /\ DOMAIN s = Fields /\ s.folded \in Nat /\ Len(s.ops) \in Nat
    BY DEF SessionOK
  <2>2. d \in Nat
    BY <1>2, <2>1
  <2>3. c = Compacted(s, d)
    BY <1>2 DEF CompactedIfNeeded
  <2> HIDE DEF c, d
  <2>4. /\ SubSeq(s.ops, d + 1, Len(s.ops)) \in Seq(Ops)
        /\ Len(SubSeq(s.ops, d + 1, Len(s.ops)))
             = IF d < Len(s.ops) THEN Len(s.ops) - d ELSE 0
    <3> DEFINE q == s.ops
    <3>1. q \in Seq(Ops)
      BY <2>1
    <3> HIDE DEF q
    <3>2. /\ SubSeq(q, d + 1, Len(q)) \in Seq(Ops)
          /\ Len(SubSeq(q, d + 1, Len(q))) = IF d < Len(q) THEN Len(q) - d ELSE 0
      BY <3>1, <2>2, FreshElements
    <3> QED BY <3>2 DEF q
  <2>5. /\ SubSeq(s.chain, d + 1, Len(s.chain)) \in Seq(e[w])
        /\ Len(SubSeq(s.chain, d + 1, Len(s.chain)))
             = IF d < Len(s.chain) THEN Len(s.chain) - d ELSE 0
    <3> DEFINE S == e[w]
               q == s.chain
    <3>1. q \in Seq(S)
      BY <2>1
    <3> HIDE DEF S, q
    <3>2. /\ SubSeq(q, d + 1, Len(q)) \in Seq(S)
          /\ Len(SubSeq(q, d + 1, Len(q))) = IF d < Len(q) THEN Len(q) - d ELSE 0
      BY <3>1, <2>2, FreshElements
    <3> QED BY <3>2 DEF S, q
  <2>6. /\ c.ops = SubSeq(s.ops, d + 1, Len(s.ops))
        /\ c.chain = SubSeq(s.chain, d + 1, Len(s.chain))
        /\ c.folded = s.folded + d /\ DOMAIN c = Fields
        /\ c.agent = s.agent /\ c.foreign = s.foreign
    BY <2>1, <2>3 DEF Compacted, Fields
  <2>7. c.folded \in Nat /\ Len(c.chain) = Len(c.ops)
    BY <2>1, <2>2, <2>4, <2>5, <2>6
  <2>8. SessionOK(w, c, e)
    BY <2>4, <2>5, <2>6, <2>7 DEF SessionOK
  <2> QED BY <2>6, <2>8 DEF c
<1> QED BY <1>1, <1>2

\* The whole of `import_bundle`.
LEMMA ImportedOK ==
  ASSUME NEW e, NEW w \in Workspaces, NEW s, SessionOK(w, s, e),
         NEW b, BundleOK(b, e), Verdict(w, s, b) = "Added"
  PROVE  /\ SessionOK(w, Imported(s, b), e)
         /\ b.agent \in DOMAIN s.foreign =>
               IsPrefix(s.foreign[b.agent].chain, Imported(s, b).foreign[b.agent].chain)
<1> DEFINE log == Known(s, b.agent)
           S == EverOf(b.agent, e)
           t == Imported(s, b)
<1>1. /\ Intact(b) /\ ~(b.first > Len(log.ops)) /\ Continues(b, log)
  BY DEF Verdict
<1>2. LogOK(log, S)
  BY NoLogOK DEF Known, SessionOK
<1>3. b.first <= Len(log.ops)
  BY <1>1, <1>2 DEF LogOK, BundleOK
<1> HIDE DEF log, S
<1>4. LogOK(Extended(log, b), S) /\ IsPrefix(log.chain, Extended(log, b).chain)
  BY <1>1, <1>2, <1>3, ExtendedOK DEF BundleOK, S
<1>5. /\ t.foreign = Put(s.foreign, b.agent, Extended(log, b))
      /\ DOMAIN t = Fields /\ t.agent = s.agent /\ t.folded = s.folded
      /\ t.ops = s.ops /\ t.chain = s.chain
  BY DEF Imported, SessionOK, Fields, log
<1> HIDE DEF t
<1>6. ASSUME NEW x \in DOMAIN t.foreign PROVE LogOK(t.foreign[x], EverOf(x, e))
  <2>1. CASE x = b.agent
    BY <1>4, <1>5, <2>1 DEF Put, S
  <2>2. CASE x # b.agent
    <3>1. x \in DOMAIN s.foreign /\ t.foreign[x] = s.foreign[x]
      BY <1>5, <2>2 DEF Put
    <3> QED BY <3>1 DEF SessionOK
  <2> QED BY <2>1, <2>2
<1>7. SessionOK(w, t, e)
  BY <1>5, <1>6 DEF SessionOK
<1>8. b.agent \in DOMAIN s.foreign =>
         IsPrefix(s.foreign[b.agent].chain, t.foreign[b.agent].chain)
  BY <1>4, <1>5 DEF Put, log, Known
<1> QED BY <1>7, <1>8 DEF t

\* `export_bundle` of a session whose agent is set.
LEMMA ExportedOK ==
  ASSUME NEW e, NEW w \in Workspaces, NEW s, SessionOK(w, s, e), s.agent = IdOf[w],
         NEW since \in Nat, s.folded <= since, NEW k
  PROVE  BundleOK(Bundle(s, since, k), e)
<1> DEFINE d == since - s.folded
           b == Bundle(s, since, k)
<1>1. /\ s.ops \in Seq(Ops) /\ s.chain \in Seq(e[w]) /\ s.folded \in Nat /\ d \in Nat
  BY DEF SessionOK
<1>2. /\ DOMAIN b = BundleFields /\ b.first = since /\ b.agent = IdOf[w]
      /\ b.ops = SubSeq(s.ops, d + 1, Len(s.ops))
      /\ b.chain = SubSeq(s.chain, d + 1, Len(s.chain))
  BY DEF Bundle, BundleFields
<1> HIDE DEF b, d
<1>3. b.ops \in Seq(Ops)
  BY <1>1, <1>2, FreshElements
<1>4. b.chain \in Seq(e[w])
  BY <1>1, <1>2, FreshElements
<1>5. e[w] \subseteq EverOf(b.agent, e)
  BY <1>2 DEF EverOf
<1>6. b.chain \in Seq(EverOf(b.agent, e))
  BY <1>4, <1>5, SeqGrows
<1> QED BY <1>2, <1>3, <1>6 DEF BundleOK, b

\* Damage changes no link and no author.
LEMMA MangledOK ==
  ASSUME NEW e, NEW b, BundleOK(b, e),
         NEW bad \in Damaged(b), MaxLen \in Nat
  PROVE  BundleOK(bad, e)
<1>1. CASE \E i \in 1 .. Len(b.ops), o \in Ops : bad = [b EXCEPT !.ops[i] = o]
  <2>1. PICK i \in 1 .. Len(b.ops), o \in Ops : bad = [b EXCEPT !.ops[i] = o]
    BY <1>1
  <2>2. [b.ops EXCEPT ![i] = o] \in Seq(Ops)
    BY <2>1, ExceptSeq DEF BundleOK
  <2>3. /\ bad.ops = [b.ops EXCEPT ![i] = o] /\ DOMAIN bad = BundleFields
        /\ bad.first = b.first /\ bad.chain = b.chain /\ bad.agent = b.agent
    BY <2>1 DEF BundleOK, BundleFields
  <2> QED BY <2>2, <2>3 DEF BundleOK
<1>2. CASE bad = [b EXCEPT !.ops = SubSeq(@, 2, Len(@))]
  <2>1. SubSeq(b.ops, 1 + 1, Len(b.ops)) \in Seq(Ops)
    BY FreshElements DEF BundleOK
  <2>2. /\ bad.ops = SubSeq(b.ops, 2, Len(b.ops)) /\ DOMAIN bad = BundleFields
        /\ bad.first = b.first /\ bad.chain = b.chain /\ bad.agent = b.agent
    BY <1>2 DEF BundleOK, BundleFields
  <2> QED BY <2>1, <2>2 DEF BundleOK
<1>3. CASE \E n \in 0 .. MaxLen : bad = [b EXCEPT !.first = n]
  BY <1>3 DEF BundleOK, BundleFields
<1> QED BY <1>1, <1>2, <1>3 DEF Damaged

\* `record`: the new link is one the workspace has now recorded.
LEMMA RecordedOK ==
  ASSUME NEW e, NEW f, Later(e, f), NEW w \in Workspaces, NEW s, SessionOK(w, s, e),
         NEW op \in Ops, SessionHead(Recorded(s, op)) \in f[w]
  PROVE  SessionOK(w, Recorded(s, op), f)
<1> DEFINE t == Recorded(s, op)
           l == Link(SessionHead(s), LogicalLen(s), op)
<1>1. SessionOK(w, s, f)
  BY SessionLater
<1>2. /\ s.ops \in Seq(Ops) /\ s.chain \in Seq(f[w]) /\ Len(s.chain) = Len(s.ops)
      /\ DOMAIN s = Fields
  BY <1>1 DEF SessionOK
<1>3. /\ t.ops = Append(s.ops, op) /\ t.chain = Append(s.chain, l)
      /\ DOMAIN t = Fields /\ t.agent = s.agent /\ t.foreign = s.foreign
      /\ t.folded = s.folded
  BY <1>2 DEF Recorded, Fields
<1> HIDE DEF t, l
<1>4. l \in f[w]
  <2>1. Append(s.chain, l) # << >> /\ Append(s.chain, l)[Len(Append(s.chain, l))] = l
    <3>1. s.chain \in Seq(f[w] \cup {l})
      BY <1>2, SeqGrows
    <3> QED BY <3>1, AppendProperties
  <2>2. SessionHead(t) = l
    BY <1>3, <2>1 DEF SessionHead, HeadOf
  <2> QED BY <2>2 DEF t
<1>5. t.ops \in Seq(Ops) /\ t.chain \in Seq(f[w]) /\ Len(t.chain) = Len(t.ops)
  <2>1. Append(s.ops, op) \in Seq(Ops) /\ Len(Append(s.ops, op)) = Len(s.ops) + 1
    BY <1>2, AppendProperties
  <2>2. Append(s.chain, l) \in Seq(f[w]) /\ Len(Append(s.chain, l)) = Len(s.chain) + 1
    <3> DEFINE S == f[w]
               c == s.chain
    <3>1. c \in Seq(S) /\ l \in S
      BY <1>2, <1>4
    <3> HIDE DEF S, c
    <3>2. Append(c, l) \in Seq(S) /\ Len(Append(c, l)) = Len(c) + 1
      BY <3>1, AppendProperties
    <3> QED BY <3>2 DEF S, c
  <2> QED BY <1>2, <1>3, <2>1, <2>2
<1> QED BY <1>1, <1>3, <1>5 DEF SessionOK, t

-----------------------------------------------------------------------------
\* The invariant.

LEMMA InitIInv == Init => IInv
<1> SUFFICES ASSUME Init PROVE IInv
  OBVIOUS
<1>1. \A w \in Workspaces : SessionOK(w, NewSidecar, ever)
  BY DEF SessionOK, NewSidecar, Fields
<1> QED BY <1>1 DEF Init, IInv

LEMMA OpenedOK ==
  ASSUME IInv, NEW w \in Workspaces PROVE SessionOK(w, Opened(w), ever)
BY RestartedOK DEF IInv, Opened

LEMMA NextIInv == IInv /\ [Next]_vars => IInv'
<1> SUFFICES ASSUME IInv, [Next]_vars PROVE IInv'
  OBVIOUS
<1> USE FederationAssumption DEF FederationAssumption
<1>1. ASSUME NEW w \in Workspaces, StartServer(w) PROVE IInv'
  <2>1. SessionOK(w, Opened(w), ever)
    BY OpenedOK
  <2>2. server'[w] # << >> => server'[w][1] = Opened(w)
    BY <1>1 DEF StartServer, IInv
  <2>3. \A v \in Workspaces : v # w => server'[v] = server[v]
    BY <1>1 DEF StartServer, IInv
  <2> QED BY <1>1, <2>1, <2>2, <2>3 DEF StartServer, IInv
<1>2. ASSUME NEW w \in Workspaces, NEW op \in Ops, Record(w, op) PROVE IInv'
  <2> DEFINE s == Recorded(server[w][1], op)
  <2>1. ever' = [ever EXCEPT ![w] = @ \cup {SessionHead(s)}] /\ server' = [server EXCEPT ![w] = <<s>>]
    BY <1>2 DEF Record
  <2>2. Later(ever, ever') /\ SessionHead(s) \in ever'[w]
    BY <2>1 DEF IInv, Later
  <2> DEFINE f == ever'
  <2>3. SessionOK(w, s, f)
    BY <2>2, <1>2, RecordedOK DEF IInv, Record
  <2>4. \A v \in Workspaces : \A t : SessionOK(v, t, ever) => SessionOK(v, t, f)
    BY <2>2, SessionLater
  <2>5. \A b : BundleOK(b, ever) => BundleOK(b, f)
    BY <2>2, BundleLater
  <2> HIDE DEF s
  <2>6. server'[w][1] = s /\ \A v \in Workspaces : v # w => server'[v] = server[v]
    BY <2>1 DEF IInv
  <2> QED BY <1>2, <2>1, <2>3, <2>4, <2>5, <2>6 DEF IInv, Record
<1>3. ASSUME NEW w \in Workspaces, SaveServer(w) PROVE IInv'
  <2> DEFINE s == CompactedIfNeeded(server[w][1])
  <2>1. SessionOK(w, s, ever)
    BY <1>3, CompactedOK DEF IInv, SaveServer
  <2> HIDE DEF s
  <2>2. server' = [server EXCEPT ![w] = <<s>>] /\ disk' = [disk EXCEPT ![w] = s]
    BY <1>3 DEF SaveServer, s
  <2>3. \A v \in Workspaces :
           /\ disk'[v] = IF v = w THEN s ELSE disk[v]
           /\ server'[v] = IF v = w THEN <<s>> ELSE server[v]
    BY <2>2 DEF IInv
  <2> QED BY <1>3, <2>1, <2>2, <2>3 DEF IInv, SaveServer
<1>4. ASSUME NEW w \in Workspaces, StopServer(w) PROVE IInv'
  <2>1. \A v \in Workspaces : server'[v] = IF v = w THEN << >> ELSE server[v]
    BY <1>4 DEF IInv, StopServer
  <2> QED BY <1>4, <2>1 DEF IInv, StopServer
<1>5. ASSUME NEW w \in Workspaces, OpenCli(w) PROVE IInv'
  <2>1. SessionOK(w, Opened(w), ever)
    BY OpenedOK
  <2>2. \A v \in Workspaces :
           cli'[v] = IF v = w THEN <<Opened(w), PublicKey(w)>> ELSE cli[v]
    BY <1>5 DEF OpenCli, IInv
  <2> QED BY <1>5, <2>1, <2>2 DEF OpenCli, IInv
<1>6. ASSUME NEW w \in Workspaces, NEW since \in 0 .. MaxLen, Export(w, since) PROVE IInv'
  <2> DEFINE r == [cli[w][1] EXCEPT !.agent = IdOf[w]]
             s == CompactedIfNeeded(r)
             b == Bundle(s, since, cli[w][2])
  <2>1. SessionOK(w, r, ever) /\ r.agent = IdOf[w]
    BY <1>6, AgentSetOK DEF IInv, Export, SessionOK, Fields
  <2> HIDE DEF r
  <2>2. SessionOK(w, s, ever) /\ s.agent = IdOf[w]
    BY <2>1, CompactedOK
  <2>3. /\ disk' = [disk EXCEPT ![w] = s] /\ cli' = [cli EXCEPT ![w] = << >>]
        /\ wire' = IF since < s.folded THEN wire ELSE wire \cup {b}
    BY <1>6 DEF Export, r
  <2> HIDE DEF s
  <2>4. ASSUME ~(since < s.folded) PROVE BundleOK(b, ever)
    <3>1. since \in Nat /\ s.folded <= since
      BY <2>2, <2>4 DEF SessionOK
    <3> QED BY <2>2, <3>1, ExportedOK
  <2> HIDE DEF b
  <2>5. \A c \in wire' : BundleOK(c, ever)
    BY <2>3, <2>4 DEF IInv
  <2>6. \A v \in Workspaces :
           /\ disk'[v] = IF v = w THEN s ELSE disk[v]
           /\ cli'[v] = IF v = w THEN << >> ELSE cli[v]
    BY <2>3 DEF IInv
  <2> QED BY <1>6, <2>2, <2>3, <2>5, <2>6 DEF IInv, Export
<1>7. ASSUME NEW w \in Workspaces, NEW b \in wire, Import(w, b) PROVE IInv'
  <2> DEFINE r == Imported(cli[w][1], b)
             s == CompactedIfNeeded(r)
  <2>1. SessionOK(w, r, ever)
    BY <1>7, ImportedOK DEF IInv, Import
  <2>2. disk' = [disk EXCEPT ![w] = s] /\ cli' = [cli EXCEPT ![w] = << >>]
    BY <1>7 DEF Import
  <2> HIDE DEF r
  <2>3. SessionOK(w, s, ever)
    BY <2>1, CompactedOK
  <2> HIDE DEF s
  <2>4. \A v \in Workspaces :
           /\ disk'[v] = IF v = w THEN s ELSE disk[v]
           /\ cli'[v] = IF v = w THEN << >> ELSE cli[v]
    BY <2>2 DEF IInv
  <2> QED BY <1>7, <2>2, <2>3, <2>4 DEF IInv, Import
<1>8. ASSUME NEW w \in Workspaces, NEW b \in wire, Refuse(w, b) PROVE IInv'
  <2>1. \A v \in Workspaces : cli'[v] = IF v = w THEN << >> ELSE cli[v]
    BY <1>8 DEF IInv, Refuse
  <2> QED BY <1>8, <2>1 DEF IInv, Refuse
<1>9. ASSUME NEW w \in Workspaces, Keygen(w) \/ DeleteKey(w) \/ GoStale(w) PROVE IInv'
  BY <1>9 DEF IInv, Keygen, DeleteKey, GoStale
<1>10. ASSUME NEW b \in wire, Mangle(b) PROVE IInv'
  <2>1. PICK bad \in Damaged(b) : wire' = wire \cup {bad}
    BY <1>10 DEF Mangle
  <2>2. BundleOK(bad, ever)
    BY MangledOK DEF IInv
  <2>3. \A c \in wire' : BundleOK(c, ever)
    BY <2>1, <2>2 DEF IInv
  <2> QED BY <1>10, <2>3 DEF Mangle, IInv
<1>11. CASE UNCHANGED vars
  BY <1>11 DEF IInv, vars
<1> QED BY <1>1, <1>2, <1>3, <1>4, <1>5, <1>6, <1>7, <1>8, <1>9, <1>10, <1>11 DEF Next

\* Whatever is lost, duplicated, reordered or damaged, and even when server
\* and command line overwrite each other's checkpoint, an imported log
\* (`import_bundle`) is what its agent recorded, from genesis, link by link.
THEOREM ForeignLogsAlwaysAuthentic == Spec => []ForeignLogsAuthentic
<1>1. IInv => ForeignLogsAuthentic
  <2> SUFFICES ASSUME IInv, NEW w \in Workspaces, NEW x \in DOMAIN disk[w].foreign,
                      disk[w].foreign[x].ops # << >>
               PROVE  /\ Chained(GENESIS, 0, disk[w].foreign[x].ops, disk[w].foreign[x].chain)
                      /\ \E v \in Workspaces :
                            IdOf[v] = x /\ HeadOf(GENESIS, disk[w].foreign[x].chain) \in ever[v]
    BY DEF ForeignLogsAuthentic, Sidecars
  <2> DEFINE log == disk[w].foreign[x]
  <2>1. LogOK(log, EverOf(x, ever))
    BY DEF IInv, SessionOK
  <2> HIDE DEF log
  <2>2. /\ log.chain \in Seq(EverOf(x, ever)) /\ Len(log.chain) = Len(log.ops)
        /\ log.ops \in Seq(Ops) /\ Chained(GENESIS, 0, log.ops, log.chain)
    BY <2>1 DEF LogOK, Chained
  <2>3. log.chain # << >>
    <3>1. log.ops # << >>
      BY DEF log
    <3> QED BY <2>2, <3>1, EmptySeq
  <2>4. HeadOf(GENESIS, log.chain) \in EverOf(x, ever)
    BY <2>2, <2>3 DEF HeadOf
  <2> QED BY <2>2, <2>4 DEF EverOf, log
<1> QED BY <1>1, InitIInv, NextIInv, PTL DEF Spec

-----------------------------------------------------------------------------
\* One process at a time: every open copy knows what the sidecar knows.

SameKnowledge(s, t) == s.foreign = t.foreign /\ s.known_keys = t.known_keys

InStep ==
    \A w \in Workspaces :
        /\ server[w] = << >> \/ cli[w] = << >>
        /\ server[w] # << >> => SameKnowledge(server[w][1], disk[w])
        /\ cli[w] # << >> => SameKnowledge(cli[w][1], disk[w])

\* What a step does to a sidecar: nothing to its imported logs and its pinned
\* keys, or one accepted import.
Learned(w) ==
    \/ SameKnowledge(disk'[w], disk[w])
    \/ \E b \in wire :
          /\ cli[w] # << >> /\ Verdict(w, cli[w][1], b) = "Added"
          /\ SameKnowledge(disk'[w], Imported(cli[w][1], b))

LEMMA OpenedKnowledge ==
  ASSUME IInv, NEW w \in Workspaces PROVE SameKnowledge(Opened(w), disk[w])
BY DEF Opened, Restarted, SameKnowledge, IInv, SessionOK, Fields

LEMMA CompactedKnowledge ==
  ASSUME NEW e, NEW w, NEW s, SessionOK(w, s, e)
  PROVE  SameKnowledge(CompactedIfNeeded(s), s)
BY DEF CompactedIfNeeded, Compacted, SameKnowledge, SessionOK, Fields

LEMMA RecordedKnowledge ==
  ASSUME NEW e, NEW w, NEW s, SessionOK(w, s, e), NEW op
  PROVE  SameKnowledge(Recorded(s, op), s)
BY DEF Recorded, SameKnowledge, SessionOK, Fields

LEMMA InitInStep == Init => InStep
BY DEF Init, InStep

LEMMA NextLearned ==
  ASSUME ~Concurrent
  PROVE  IInv /\ InStep /\ [Next]_vars => InStep' /\ \A w \in Workspaces : Learned(w)
<1> SUFFICES ASSUME IInv, InStep, [Next]_vars
             PROVE  InStep' /\ \A w \in Workspaces : Learned(w)
  OBVIOUS
<1> USE FederationAssumption DEF FederationAssumption
<1> DEFINE Goal == InStep' /\ \A w \in Workspaces : Learned(w)
<1>1. ASSUME NEW w \in Workspaces, StartServer(w) PROVE Goal
  <2>1. SameKnowledge(Opened(w), disk[w])
    BY OpenedKnowledge
  <2>2. \A v \in Workspaces : server'[v] = IF v = w THEN <<Opened(w)>> ELSE server[v]
    BY <1>1 DEF StartServer, IInv
  <2> QED BY <1>1, <2>1, <2>2 DEF StartServer, InStep, Learned, SameKnowledge
<1>2. ASSUME NEW w \in Workspaces, NEW op \in Ops, Record(w, op) PROVE Goal
  <2> DEFINE s == Recorded(server[w][1], op)
  <2>1. SameKnowledge(s, server[w][1])
    BY <1>2, RecordedKnowledge DEF IInv, Record
  <2>2. \A v \in Workspaces : server'[v] = IF v = w THEN <<s>> ELSE server[v]
    BY <1>2 DEF Record, IInv
  <2> HIDE DEF s
  <2> QED BY <1>2, <2>1, <2>2 DEF Record, InStep, Learned, SameKnowledge
<1>3. ASSUME NEW w \in Workspaces, SaveServer(w) PROVE Goal
  <2> DEFINE s == CompactedIfNeeded(server[w][1])
  <2>1. SameKnowledge(s, server[w][1])
    BY <1>3, CompactedKnowledge DEF IInv, SaveServer
  <2>2. server' = [server EXCEPT ![w] = <<s>>] /\ disk' = [disk EXCEPT ![w] = s]
    BY <1>3 DEF SaveServer
  <2> HIDE DEF s
  <2>3. \A v \in Workspaces : /\ server'[v] = IF v = w THEN <<s>> ELSE server[v]
                              /\ disk'[v] = IF v = w THEN s ELSE disk[v]
    BY <2>2 DEF IInv
  <2> QED BY <1>3, <2>1, <2>3 DEF SaveServer, InStep, Learned, SameKnowledge
<1>4. ASSUME NEW w \in Workspaces, StopServer(w) PROVE Goal
  <2>1. \A v \in Workspaces : server'[v] = IF v = w THEN << >> ELSE server[v]
    BY <1>4 DEF StopServer, IInv
  <2> QED BY <1>4, <2>1 DEF StopServer, InStep, Learned, SameKnowledge
<1>5. ASSUME NEW w \in Workspaces, OpenCli(w) PROVE Goal
  <2>1. SameKnowledge(Opened(w), disk[w])
    BY OpenedKnowledge
  <2>2. \A v \in Workspaces :
           cli'[v] = IF v = w THEN <<Opened(w), PublicKey(w)>> ELSE cli[v]
    BY <1>5 DEF OpenCli, IInv
  <2> QED BY <1>5, <2>1, <2>2 DEF OpenCli, InStep, Learned, SameKnowledge
<1>6. ASSUME NEW w \in Workspaces, NEW since \in 0 .. MaxLen, Export(w, since) PROVE Goal
  <2> DEFINE r == [cli[w][1] EXCEPT !.agent = IdOf[w]]
             s == CompactedIfNeeded(r)
  <2>1. SessionOK(w, r, ever) /\ SameKnowledge(r, cli[w][1])
    BY <1>6, AgentSetOK DEF IInv, Export, SessionOK, Fields, SameKnowledge
  <2> HIDE DEF r
  <2>2. SameKnowledge(s, r)
    BY <2>1, CompactedKnowledge
  <2>3. disk' = [disk EXCEPT ![w] = s] /\ cli' = [cli EXCEPT ![w] = << >>]
    BY <1>6 DEF Export, r
  <2> HIDE DEF s
  <2>4. \A v \in Workspaces : /\ cli'[v] = IF v = w THEN << >> ELSE cli[v]
                              /\ disk'[v] = IF v = w THEN s ELSE disk[v]
    BY <2>3 DEF IInv
  <2> QED BY <1>6, <2>1, <2>2, <2>4 DEF Export, InStep, Learned, SameKnowledge
<1>7. ASSUME NEW w \in Workspaces, NEW b \in wire, Import(w, b) PROVE Goal
  <2> DEFINE r == Imported(cli[w][1], b)
             s == CompactedIfNeeded(r)
  <2>1. SessionOK(w, r, ever)
    BY <1>7, ImportedOK DEF IInv, Import
  <2>2. SameKnowledge(s, r)
    BY <2>1, CompactedKnowledge
  <2>3. disk' = [disk EXCEPT ![w] = s] /\ cli' = [cli EXCEPT ![w] = << >>]
    BY <1>7 DEF Import
  <2> HIDE DEF s
  <2>4. \A v \in Workspaces : /\ cli'[v] = IF v = w THEN << >> ELSE cli[v]
                              /\ disk'[v] = IF v = w THEN s ELSE disk[v]
    BY <2>3 DEF IInv
  <2>5. Learned(w)
    BY <1>7, <2>2, <2>4 DEF Import, Learned, SameKnowledge
  <2>6. \A v \in Workspaces : v # w => SameKnowledge(disk'[v], disk[v])
    BY <2>4 DEF SameKnowledge
  <2>7. InStep'
    BY <1>7, <2>4 DEF Import, InStep, SameKnowledge
  <2> QED BY <2>5, <2>6, <2>7 DEF Learned
<1>8. ASSUME NEW w \in Workspaces, NEW b \in wire, Refuse(w, b) PROVE Goal
  <2>1. \A v \in Workspaces : cli'[v] = IF v = w THEN << >> ELSE cli[v]
    BY <1>8 DEF Refuse, IInv
  <2> QED BY <1>8, <2>1 DEF Refuse, InStep, Learned, SameKnowledge
<1>9. ASSUME NEW w \in Workspaces, Keygen(w) \/ DeleteKey(w) \/ GoStale(w) PROVE Goal
  BY <1>9 DEF Keygen, DeleteKey, GoStale, InStep, Learned, SameKnowledge
<1>10. ASSUME NEW b \in wire, Mangle(b) PROVE Goal
  BY <1>10 DEF Mangle, InStep, Learned, SameKnowledge
<1>11. CASE UNCHANGED vars
  BY <1>11 DEF vars, InStep, Learned, SameKnowledge
<1> QED BY <1>1, <1>2, <1>3, <1>4, <1>5, <1>6, <1>7, <1>8, <1>9, <1>10, <1>11 DEF Next

\* `known_keys`: "immutable after" the first signed bundle: an accepted import
\* pins a first key or finds the one that is pinned.
LEMMA StepKeepsKeys ==
  ASSUME ~Concurrent, IInv, InStep, [Next]_vars, NEW w \in Workspaces
  PROVE  KeysKept(w)
<1> DEFINE Kept(x) == /\ x \in DOMAIN disk'[w].known_keys
                      /\ disk'[w].known_keys[x] = disk[w].known_keys[x]
<1>1. ASSUME NEW x \in DOMAIN disk[w].known_keys PROVE Kept(x)
  <2>1. Learned(w)
    BY NextLearned
  <2>2. CASE SameKnowledge(disk'[w], disk[w])
    BY <2>2 DEF SameKnowledge
  <2>3. ASSUME NEW b \in wire, cli[w] # << >>, Verdict(w, cli[w][1], b) = "Added",
               SameKnowledge(disk'[w], Imported(cli[w][1], b))
        PROVE  Kept(x)
    <3> DEFINE s == cli[w][1]
    <3>1. s.known_keys = disk[w].known_keys /\ DOMAIN s = Fields
      BY <2>3 DEF InStep, SameKnowledge, IInv, SessionOK
    <3>2. ~KeyChanged(s, b)
      BY <2>3 DEF Verdict
    <3> HIDE DEF s
    <3>3. Imported(s, b).known_keys
             = IF Signed(b) THEN Put(s.known_keys, b.agent, b.pubkey) ELSE s.known_keys
      BY <3>1 DEF Imported, Fields
    <3>4. disk'[w].known_keys = Imported(s, b).known_keys
      BY <2>3 DEF SameKnowledge, s
    <3> QED BY <1>1, <3>1, <3>2, <3>3, <3>4 DEF KeyChanged, Put
  <2> QED BY <2>1, <2>2, <2>3 DEF Learned
<1> QED BY <1>1 DEF KeysKept

\* `foreign` is "Grow-only": an import extends a log and keeps every link it had.
LEMMA StepExtendsLogs ==
  ASSUME ~Concurrent, IInv, InStep, [Next]_vars, NEW w \in Workspaces
  PROVE  LogsExtended(w)
<1> DEFINE Grown(x) ==
              /\ x \in DOMAIN disk'[w].foreign
              /\ IsPrefix(disk[w].foreign[x].chain, disk'[w].foreign[x].chain)
<1>1. ASSUME NEW x \in DOMAIN disk[w].foreign PROVE Grown(x)
  <2>1. Learned(w)
    BY NextLearned
  <2>2. IsPrefix(disk[w].foreign[x].chain, disk[w].foreign[x].chain)
    <3> DEFINE c == disk[w].foreign[x].chain
    <3>1. c \in Seq(EverOf(x, ever))
      BY <1>1 DEF IInv, SessionOK, LogOK
    <3> HIDE DEF c
    <3>2. Len(c) <= Len(c) /\ SubSeq(c, 1, Len(c)) = SubSeq(c, 1, Len(c))
      BY <3>1
    <3>3. IsPrefix(c, c)
      BY <3>1, <3>2 DEF IsPrefix
    <3> QED BY <3>3 DEF c
  <2>3. CASE SameKnowledge(disk'[w], disk[w])
    BY <1>1, <2>2, <2>3 DEF SameKnowledge
  <2>4. ASSUME NEW b \in wire, cli[w] # << >>, Verdict(w, cli[w][1], b) = "Added",
               SameKnowledge(disk'[w], Imported(cli[w][1], b))
        PROVE  Grown(x)
    <3> DEFINE s == cli[w][1]
               t == Imported(s, b)
    <3>1. SessionOK(w, s, ever) /\ BundleOK(b, ever) /\ s.foreign = disk[w].foreign
      BY <2>4 DEF InStep, SameKnowledge, IInv
    <3>2. x = b.agent => IsPrefix(s.foreign[x].chain, t.foreign[x].chain)
      BY <1>1, <3>1, <2>4, ImportedOK
    <3>3. t.foreign = Put(s.foreign, b.agent, Extended(Known(s, b.agent), b))
      BY <3>1 DEF Imported, SessionOK, Fields
    <3>4. disk'[w].foreign = t.foreign
      BY <2>4 DEF SameKnowledge
    <3> HIDE DEF s, t
    <3>5. x \in DOMAIN t.foreign /\ (x # b.agent => t.foreign[x] = s.foreign[x])
      BY <1>1, <3>1, <3>3 DEF Put
    <3> QED BY <2>2, <3>1, <3>2, <3>4, <3>5
  <2> QED BY <2>1, <2>3, <2>4 DEF Learned
<1> QED BY <1>1 DEF LogsExtended

\* A log that an import changes ends where the bundle ends.
LEMMA ExtendedHead ==
  ASSUME NEW S, NEW log, LogOK(log, S), NEW b,
         b.first \in Nat, b.ops \in Seq(Ops), b.chain \in Seq(S),
         Intact(b), b.first <= Len(log.ops), Extended(log, b).chain # log.chain
  PROVE  HeadOf(b.anchor, b.chain) = HeadOf(GENESIS, Extended(log, b).chain)
<1> DEFINE new == log.chain \o Fresh(b, log, b.chain)
           n == Len(log.ops)
           k == b.first
           m == Len(b.chain)
<1>1. /\ n \in Nat /\ k \in Nat /\ k <= n /\ m \in Nat
      /\ log.ops \in Seq(Ops) /\ log.chain \in Seq(S) /\ Len(log.chain) = n
      /\ Len(b.ops) = m
  BY DEF LogOK, Chained, Intact
<1>2. new \in Seq(S) /\ Appended(new, log.chain, b.chain, k, n)
  BY <1>1, AppendFresh
<1>3. Extended(log, b).chain = new
  BY DEF Extended
<1>4. n < k + m
  <2>1. SUFFICES ASSUME ~(n < k + m) PROVE FALSE
    OBVIOUS
  <2> DEFINE f == SubSeq(b.chain, (n - k) + 1, Len(b.chain))
  <2>2. f \in Seq(S) /\ Len(f) = 0
    <3>1. n - k \in Nat /\ ~(n - k < m)
      BY <1>1, <2>1
    <3>2. f \in Seq(S) /\ Len(f) = IF n - k < Len(b.chain) THEN Len(b.chain) - (n - k) ELSE 0
      BY <3>1, FreshElements
    <3> HIDE DEF f
    <3> QED BY <3>1, <3>2
  <2>5. Fresh(b, log, b.chain) = f
    BY DEF Fresh
  <2> HIDE DEF f
  <2>3. Fresh(b, log, b.chain) = << >>
    BY <2>2, <2>5
  <2> QED BY <1>1, <1>3, <2>3
<1>5. Len(new) = k + m /\ new[k + m] = b.chain[m] /\ m > 0
  <2> HIDE DEF new
  <2>1. Len(new) = k + m
    BY <1>1, <1>2, <1>4 DEF Appended
  <2> HIDE DEF n, k, m
  <2>2. k + m \in 1 .. Len(new) /\ k + m > n /\ (k + m) - k = m /\ m > 0
    <3>1. k \in Nat /\ n \in Nat /\ m \in Nat /\ n < k + m /\ k <= n
      BY <1>1, <1>4
    <3>2. k + m \in 1 .. k + m /\ k + m > n /\ (k + m) - k = m /\ m > 0
      BY <3>1
    <3> QED BY <2>1, <3>2
  <2>3. new[k + m] = b.chain[(k + m) - k]
    BY <1>2, <2>2 DEF Appended
  <2> QED BY <2>1, <2>2, <2>3
<1> HIDE DEF new
<1>6. b.chain # << >> /\ new # << >>
  BY <1>1, <1>2, <1>4, <1>5
<1> QED BY <1>3, <1>5, <1>6 DEF HeadOf

\* What changes the log of a pinned agent carries its key and its signature.
LEMMA StepGrowsSigned ==
  ASSUME ~Concurrent, IInv, InStep, [Next]_vars, NEW w \in Workspaces
  PROVE  GrowthSigned(w)
<1> DEFINE By(b, x) ==
              /\ b.agent = x /\ b.pubkey = disk[w].known_keys[x]
              /\ GoodSignature(b)
              /\ HeadOf(b.anchor, b.chain) = HeadOf(GENESIS, Known(disk'[w], x).chain)
<1>1. ASSUME NEW x \in DOMAIN disk[w].known_keys,
             Known(disk'[w], x).chain # Known(disk[w], x).chain
      PROVE  \E b \in wire : By(b, x)
  <2>1. Learned(w)
    BY NextLearned
  <2>2. ~SameKnowledge(disk'[w], disk[w])
    BY <1>1 DEF SameKnowledge, Known
  <2>3. PICK b \in wire : /\ cli[w] # << >> /\ Verdict(w, cli[w][1], b) = "Added"
                         /\ SameKnowledge(disk'[w], Imported(cli[w][1], b))
    BY <2>1, <2>2 DEF Learned
  <2> DEFINE s == cli[w][1]
             log == Known(s, b.agent)
  <2>4. /\ SessionOK(w, s, ever) /\ BundleOK(b, ever)
        /\ s.foreign = disk[w].foreign /\ s.known_keys = disk[w].known_keys
    BY <2>3 DEF InStep, SameKnowledge, IInv
  <2>5. /\ ~KeyChanged(s, b) /\ ~Downgraded(s, b) /\ (Signed(b) => GoodSignature(b))
        /\ Intact(b) /\ ~(b.first > Len(log.ops))
    BY <2>3 DEF Verdict
  <2>6. disk'[w].foreign = Put(s.foreign, b.agent, Extended(log, b))
    BY <2>3, <2>4 DEF SameKnowledge, Imported, SessionOK, Fields
  <2> HIDE DEF s, log
  <2>7. x = b.agent
    BY <1>1, <2>4, <2>6 DEF Known, Put
  <2>8. b.pubkey = disk[w].known_keys[x] /\ GoodSignature(b)
    BY <1>1, <2>4, <2>5, <2>7 DEF KeyChanged, Downgraded
  <2>9. Known(disk'[w], x).chain = Extended(log, b).chain /\ log = Known(disk[w], x)
    BY <2>4, <2>6, <2>7 DEF Known, Put, log
  <2>10. LogOK(log, EverOf(b.agent, ever))
    BY <2>4, NoLogOK DEF Known, SessionOK, log
  <2>11. HeadOf(b.anchor, b.chain) = HeadOf(GENESIS, Extended(log, b).chain)
    <3>1. b.first <= Len(log.ops)
      BY <2>4, <2>5, <2>10 DEF LogOK, BundleOK
    <3> QED BY <1>1, <2>4, <2>5, <2>9, <2>10, <3>1, ExtendedHead DEF BundleOK
  <2> QED BY <2>7, <2>8, <2>9, <2>11
<1> QED BY <1>1 DEF GrowthSigned

\* For any history of exports, imports, rotations, damage and crashes, as long as
\* the server and the command line do not have the workspace open at the same
\* time: pinned keys are immutable, imported logs only grow, and a pinned log
\* grows only by what its key signed.
THEOREM KnowledgeAlwaysGrows ==
  ASSUME ~Concurrent PROVE Spec => KnowledgeOnlyGrows
<1>1. IInv /\ InStep /\ [Next]_vars
        => [\A w \in Workspaces : KeysKept(w) /\ LogsExtended(w) /\ GrowthSigned(w)]_vars
  BY StepKeepsKeys, StepExtendsLogs, StepGrowsSigned
<1>2. IInv /\ InStep /\ [Next]_vars => InStep'
  BY NextLearned
<1> QED BY <1>1, <1>2, InitIInv, InitInStep, NextIInv, PTL DEF Spec, KnowledgeOnlyGrows

-----------------------------------------------------------------------------
(***************************************************************************)
(* Who diverges and whose views agree: every link lists the whole history  *)
(* before it, so a timeline, an imported log and a bundle are each a       *)
(* segment of the history that its last link lists.                        *)
(***************************************************************************)

\* What a link lists: where it starts, then steps with their operations.
Elements == {"GENESIS"} \cup (Nat \X Ops)

Links == Seq(Elements)

\* The link that lists the first n elements of H.
Upto(H, n) == [i \in 1 .. n |-> H[i]]

\* The chain from the anchor on, which lists p elements, is the rest of the
\* history H, and `ops` are its operations.
Segment(H, p, anchor, ops, chain) ==
    /\ H \in Links /\ Len(H) > 0 /\ H[1] = "GENESIS"
    /\ p \in Nat /\ p > 0 /\ Len(H) = p + Len(chain)
    /\ ops \in Seq(Ops) /\ chain \in Seq(Links) /\ Len(ops) = Len(chain)
    /\ anchor = Upto(H, p) /\ H = HeadOf(anchor, chain)
    /\ \A i \in 1 .. Len(chain) : chain[i] = Upto(H, p + i)
    /\ \A i \in 1 .. Len(ops) : H[p + i] = <<p + i - 2, ops[i]>>

\* H is an earlier history of G.
Before(H, G) == Len(H) <= Len(G) /\ H = Upto(G, Len(H))

-----------------------------------------------------------------------------
LEMMA UptoLink ==
  ASSUME NEW H \in Links, NEW n \in 0 .. Len(H)
  PROVE  /\ Upto(H, n) \in Links /\ Len(Upto(H, n)) = n
         /\ \A i \in 1 .. n : Upto(H, n)[i] = H[i]
<1>1. \A i \in 1 .. n : H[i] \in Elements
  BY DEF Links
<1>2. n \in Nat
  BY DEF Links
<1> QED BY <1>1, <1>2, IsASeq DEF Upto, Links

LEMMA UptoAll == ASSUME NEW H \in Links PROVE Upto(H, Len(H)) = H
BY DEF Upto, Links

LEMMA UptoNext ==
  ASSUME NEW H \in Links, NEW n \in Nat, n < Len(H)
  PROVE  Append(Upto(H, n), H[n + 1]) = Upto(H, n + 1)
<1>1. /\ Upto(H, n) \in Seq(Elements) /\ Len(Upto(H, n)) = n
      /\ \A i \in 1 .. n : Upto(H, n)[i] = H[i]
  BY UptoLink DEF Links
<1>2. /\ Upto(H, n + 1) \in Seq(Elements) /\ Len(Upto(H, n + 1)) = n + 1
      /\ \A i \in 1 .. n + 1 : Upto(H, n + 1)[i] = H[i]
  <2>1. n + 1 \in 0 .. Len(H)
    BY DEF Links
  <2> QED BY <2>1, UptoLink DEF Links
<1>3. H[n + 1] \in Elements
  BY DEF Links
<1> HIDE DEF Upto
<1>4. /\ Append(Upto(H, n), H[n + 1]) \in Seq(Elements)
      /\ Len(Append(Upto(H, n), H[n + 1])) = n + 1
      /\ \A i \in 1 .. n : Append(Upto(H, n), H[n + 1])[i] = Upto(H, n)[i]
      /\ Append(Upto(H, n), H[n + 1])[n + 1] = H[n + 1]
  BY <1>1, <1>3, AppendProperties
<1> QED BY <1>1, <1>2, <1>4, SeqEqual

LEMMA UptoOfAppend ==
  ASSUME NEW H \in Links, NEW e \in Elements
  PROVE  /\ Append(H, e) \in Links /\ Len(Append(H, e)) = Len(H) + 1
         /\ Append(H, e)[Len(H) + 1] = e
         /\ \A i \in 1 .. Len(H) : Append(H, e)[i] = H[i]
         /\ \A n \in 0 .. Len(H) : Upto(Append(H, e), n) = Upto(H, n)
<1>1. /\ Append(H, e) \in Links /\ Len(Append(H, e)) = Len(H) + 1
      /\ Append(H, e)[Len(H) + 1] = e
      /\ \A i \in 1 .. Len(H) : Append(H, e)[i] = H[i]
  BY AppendProperties DEF Links
<1>2. ASSUME NEW n \in 0 .. Len(H) PROVE Upto(Append(H, e), n) = Upto(H, n)
  <2>1. \A i \in 1 .. n : Append(H, e)[i] = H[i]
    BY <1>1 DEF Links
  <2> QED BY <2>1 DEF Upto
<1> QED BY <1>1, <1>2

LEMMA UptoOfUpto ==
  ASSUME NEW H, NEW m \in Nat, NEW n \in 0 .. m PROVE Upto(Upto(H, m), n) = Upto(H, n)
BY DEF Upto

\* Histories that grow stay comparable.
LEMMA BeforeTransitive ==
  ASSUME NEW F \in Links, NEW G \in Links, NEW H \in Links, Before(F, G), Before(G, H)
  PROVE  Before(F, H)
<1>1. Len(F) \in Nat /\ Len(G) \in Nat /\ Len(H) \in Nat
  BY DEF Links
<1>2. Upto(Upto(H, Len(G)), Len(F)) = Upto(H, Len(F))
  BY <1>1, UptoOfUpto DEF Before
<1>3. F = Upto(G, Len(F)) /\ G = Upto(H, Len(G))
  BY DEF Before
<1> QED BY <1>1, <1>2, <1>3 DEF Before

LEMMA BeforeItself == ASSUME NEW H \in Links PROVE Before(H, H)
<1>1. Len(H) \in Nat
  BY DEF Links
<1> QED BY <1>1, UptoAll DEF Before

LEMMA BeforeAppend ==
  ASSUME NEW H \in Links, NEW e \in Elements PROVE Before(H, Append(H, e))
<1>1. Len(H) \in Nat /\ Len(H) \in 0 .. Len(H)
  BY DEF Links
<1> QED BY <1>1, UptoAll, UptoOfAppend DEF Before

-----------------------------------------------------------------------------
\* What compaction keeps and what an export takes: the links from the d-th on.
LEMMA SegmentSuffix ==
  ASSUME NEW H, NEW p, NEW anchor, NEW ops, NEW chain, Segment(H, p, anchor, ops, chain),
         NEW d \in 0 .. Len(chain)
  PROVE  Segment(H, p + d, IF d = 0 THEN anchor ELSE chain[d],
                 SubSeq(ops, d + 1, Len(ops)), SubSeq(chain, d + 1, Len(chain)))
<1> DEFINE a == IF d = 0 THEN anchor ELSE chain[d]
           o == SubSeq(ops, d + 1, Len(ops))
           c == SubSeq(chain, d + 1, Len(chain))
           n == Len(chain)
<1>1. /\ n \in Nat /\ d \in Nat /\ d <= n /\ Len(ops) = n /\ p \in Nat /\ p > 0
      /\ ops \in Seq(Ops) /\ chain \in Seq(Links) /\ Len(H) = p + n
  BY DEF Segment
<1>0. H \in Links /\ Len(H) > 0 /\ H[1] = "GENESIS"
  BY DEF Segment
<1>2. /\ o \in Seq(Ops) /\ Len(o) = n - d
      /\ \A i \in 1 .. n - d : o[i] = ops[d + i]
  <2>1. /\ o \in Seq(Ops) /\ Len(o) = IF d < Len(ops) THEN Len(ops) - d ELSE 0
        /\ \A i \in 1 .. Len(ops) - d : o[i] = ops[d + i]
    BY <1>1, FreshElements, Zenon
  <2> HIDE DEF o, n
  <2> QED BY <1>1, <2>1
<1>3. /\ c \in Seq(Links) /\ Len(c) = n - d
      /\ \A i \in 1 .. n - d : c[i] = chain[d + i]
  <2>1. /\ c \in Seq(Links) /\ Len(c) = IF d < n THEN n - d ELSE 0
        /\ \A i \in 1 .. n - d : c[i] = chain[d + i]
    BY <1>1, FreshElements, Zenon
  <2> HIDE DEF c, n
  <2> QED BY <1>1, <2>1
<1> HIDE DEF o, c, n
<1>4. a = Upto(H, p + d)
  <2>1. CASE d = 0
    BY <2>1, <1>1 DEF Segment
  <2>2. CASE d # 0
    BY <2>2, <1>1 DEF Segment, n
  <2> QED BY <2>1, <2>2
<1>5. H = HeadOf(a, c)
  <2>1. CASE d = n /\ d = 0
    <3>4. n \in Nat /\ Len(c) = n - d
      BY <1>1, <1>3
    <3>5. n - d = 0
      BY <2>1, <3>4
    <3>3. Len(c) = 0
      BY <3>4, <3>5
    <3>2. Len(c) = 0 /\ Len(chain) = 0
      BY <2>1, <3>3 DEF n
    <3>1. c = << >> /\ chain = << >>
      BY <3>2, <1>1, <1>3, EmptySeq
    <3> QED BY <2>1, <3>1 DEF HeadOf, Segment
  <2>2. CASE d = n /\ d # 0
    <3>1. c = << >> /\ chain # << >>
      BY <2>2, <1>1, <1>3 DEF n
    <3> QED BY <2>2, <3>1 DEF HeadOf, Segment, n
  <2>3. CASE d # n
    <3>1. c # << >> /\ chain # << >> /\ c[Len(c)] = chain[n]
      BY <2>3, <1>1, <1>3 DEF n
    <3> QED BY <3>1 DEF HeadOf, Segment, n
  <2> QED BY <2>1, <2>2, <2>3
<1>6. \A i \in 1 .. Len(c) : c[i] = Upto(H, (p + d) + i)
  <2> TAKE i \in 1 .. Len(c)
  <2>1. d + i \in 1 .. n /\ p + (d + i) = (p + d) + i
    BY <1>1, <1>3
  <2> QED BY <2>1, <1>3 DEF Segment, n
<1>7. \A i \in 1 .. Len(o) : H[(p + d) + i] = <<(p + d) + i - 2, o[i]>>
  <2> TAKE i \in 1 .. Len(o)
  <2>1. d + i \in 1 .. Len(ops) /\ p + (d + i) = (p + d) + i /\ i \in 1 .. n - d
        /\ p + (d + i) - 2 = (p + d) + i - 2
    BY <1>1, <1>2
  <2> DEFINE q == (p + d) + i
             k == d + i
  <2>3. H[p + k] = <<p + k - 2, ops[k]>>
    BY <2>1 DEF Segment
  <2>4. p + k = q /\ p \in Nat /\ k \in Nat /\ q \in Nat
    BY <1>1, <2>1
  <2> HIDE DEF k, q
  <2>2. H[q] = <<q - 2, ops[k]>>
    BY <2>3, <2>4
  <2>5. o[i] = ops[k]
    BY <2>1, <1>2 DEF k
  <2>6. H[q] = <<q - 2, o[i]>>
    BY <2>2, <2>5
  <2>7. q = (p + d) + i /\ i \in Nat /\ p \in Nat /\ d \in Nat
    BY <1>1, <1>2 DEF q
  <2>8. (p + d) + i - 2 = q - 2
    BY ONLY <2>7
  <2>9. H[(p + d) + i] = H[q]
    BY ONLY <2>7
  <2> QED BY ONLY <2>6, <2>8, <2>9
<1>8. p + d \in Nat /\ p + d > 0 /\ Len(H) = (p + d) + Len(c) /\ Len(o) = Len(c)
  BY <1>1, <1>2, <1>3
<1> HIDE DEF a
<1>9. Segment(H, p + d, a, o, c)
  BY <1>0, <1>1, <1>2, <1>3, <1>4, <1>5, <1>6, <1>7, <1>8 DEF Segment
<1> QED BY <1>9 DEF a, o, c

\* `record`: one more operation, one more link.
LEMMA SegmentRecorded ==
  ASSUME NEW H, NEW p, NEW anchor, NEW ops, NEW chain, Segment(H, p, anchor, ops, chain),
         NEW op \in Ops, NEW l, l = Link(H, p - 1 + Len(ops), op)
  PROVE  /\ Segment(l, p, anchor, Append(ops, op), Append(chain, l))
         /\ Before(H, l)
<1> DEFINE o == Append(ops, op)
           c == Append(chain, l)
           e == <<p - 1 + Len(ops), op>>
           n == Len(chain)
<1>1. /\ n \in Nat /\ Len(ops) = n /\ p \in Nat /\ p > 0 /\ Len(H) = p + n
      /\ ops \in Seq(Ops) /\ chain \in Seq(Links)
      /\ H \in Links /\ anchor = Upto(H, p) /\ p \in 0 .. Len(H)
  BY DEF Segment
<1>0. H[1] = "GENESIS"
  BY DEF Segment
<1>2. e \in Elements /\ l = Append(H, e)
  BY <1>1 DEF Elements, Link
<1> HIDE DEF n
<1>3. /\ l \in Links /\ Len(l) = p + n + 1 /\ l[p + n + 1] = e
      /\ \A i \in 1 .. p + n : l[i] = H[i]
      /\ \A i \in 0 .. p + n : Upto(l, i) = Upto(H, i)
  <2>1. /\ l \in Links /\ Len(l) = Len(H) + 1 /\ l[Len(H) + 1] = e
        /\ \A i \in 1 .. Len(H) : l[i] = H[i]
        /\ \A i \in 0 .. Len(H) : Upto(l, i) = Upto(H, i)
    <3> HIDE DEF e
    <3>1. /\ Append(H, e) \in Links /\ Len(Append(H, e)) = Len(H) + 1
          /\ Append(H, e)[Len(H) + 1] = e
          /\ \A i \in 1 .. Len(H) : Append(H, e)[i] = H[i]
          /\ \A i \in 0 .. Len(H) : Upto(Append(H, e), i) = Upto(H, i)
      BY <1>1, <1>2, UptoOfAppend
    <3> QED BY <3>1, <1>2, Zenon
  <2> HIDE DEF e
  <2> QED BY <1>1, <2>1
<1>4. /\ o \in Seq(Ops) /\ Len(o) = n + 1 /\ o[n + 1] = op
      /\ \A i \in 1 .. n : o[i] = ops[i]
  BY <1>1, AppendProperties
<1>5. /\ c \in Seq(Links) /\ c # << >> /\ Len(c) = n + 1 /\ c[n + 1] = l
      /\ \A i \in 1 .. n : c[i] = chain[i]
  BY <1>1, <1>3, AppendProperties DEF n
<1> HIDE DEF o, c
<1>6. \A i \in 1 .. Len(c) : c[i] = Upto(l, p + i)
  <2> TAKE i \in 1 .. Len(c)
  <2>1. CASE i = n + 1
    <3>1. Upto(l, p + (n + 1)) = l
      BY <1>1, <1>3, UptoAll
    <3> QED BY <2>1, <3>1, <1>5
  <2>2. CASE i # n + 1
    <3>1. i \in 1 .. n /\ p + i \in 0 .. p + n
      BY <2>2, <1>1, <1>5
    <3>2. chain[i] = Upto(H, p + i)
      BY <3>1 DEF Segment, n
    <3> QED BY <3>1, <3>2, <1>3, <1>5
  <2> QED BY <2>1, <2>2
<1>7. \A i \in 1 .. Len(o) : l[p + i] = <<p + i - 2, o[i]>>
  <2> TAKE i \in 1 .. Len(o)
  <2>1. CASE i = n + 1
    <3>1. p + (n + 1) = p + n + 1 /\ p - 1 + n = p + (n + 1) - 2
      BY <1>1
    <3> QED BY <2>1, <3>1, <1>1, <1>3, <1>4
  <2>2. CASE i # n + 1
    <3>1. i \in 1 .. n /\ p + i \in 1 .. p + n
      BY <2>2, <1>1, <1>4
    <3>2. H[p + i] = <<p + i - 2, ops[i]>>
      BY <3>1, <1>1 DEF Segment
    <3> QED BY <3>1, <3>2, <1>3, <1>4
  <2> QED BY <2>1, <2>2
<1>8. l = HeadOf(anchor, c) /\ anchor = Upto(l, p) /\ l[1] = "GENESIS" /\ Len(l) > 0
  <2>1. 1 \in 1 .. p + n /\ p \in 0 .. p + n
    BY <1>1
  <2>2. anchor = Upto(l, p) /\ l[1] = "GENESIS" /\ Len(l) > 0
    BY <2>1, <1>0, <1>1, <1>3
  <2>3. l = HeadOf(anchor, c)
    BY <1>5 DEF HeadOf
  <2> QED BY <2>2, <2>3
<1>9. Len(l) = p + Len(c) /\ Len(o) = Len(c)
  BY <1>1, <1>3, <1>4, <1>5
<1>10. Segment(l, p, anchor, o, c)
  BY <1>1, <1>3, <1>4, <1>5, <1>6, <1>7, <1>8, <1>9 DEF Segment
<1>11. Before(H, l)
  BY <1>1, <1>2, BeforeAppend
<1> QED BY <1>10, <1>11 DEF o, c

\* An undamaged segment is intact.
LEMMA SegmentIntact ==
  ASSUME NEW H, NEW b, b.first \in Nat,
         Segment(H, b.first + 1, b.anchor, b.ops, b.chain)
  PROVE  Intact(b)
<1> DEFINE n == Len(b.chain)
           p == b.first + 1
<1>1. /\ n \in Nat /\ p \in Nat /\ p > 0 /\ H \in Links /\ Len(b.ops) = n
      /\ Len(H) = p + n
  BY DEF Segment
<1>2. ASSUME NEW i \in 1 .. Len(b.ops)
      PROVE  b.chain[i] = Link(Predecessor(b.anchor, b.chain, i), b.first + i - 1, b.ops[i])
  <2>1. Predecessor(b.anchor, b.chain, i) = Upto(H, p + i - 1)
    <3>1. CASE i = 1
      <4>1. p + i - 1 = p
        BY <3>1, <1>1
      <4> QED BY <4>1, <3>1 DEF Predecessor, Segment
    <3>2. CASE i # 1
      <4>1. i - 1 \in 1 .. n /\ p + (i - 1) = p + i - 1
        BY <3>2, <1>1
      <4>2. b.chain[i - 1] = Upto(H, p + (i - 1))
        BY <4>1 DEF Segment
      <4> QED BY <4>1, <4>2, <3>2 DEF Predecessor
    <3> QED BY <3>1, <3>2
  <2>2. H[p + i] = <<b.first + i - 1, b.ops[i]>>
    <3>1. p + i - 2 = b.first + i - 1
      BY <1>1
    <3> QED BY <3>1 DEF Segment
  <2>3. Append(Upto(H, p + i - 1), H[p + i]) = Upto(H, p + i)
    <3>1. p + i - 1 \in Nat /\ p + i - 1 < Len(H) /\ (p + i - 1) + 1 = p + i
      BY <1>1
    <3> QED BY <3>1, <1>1, UptoNext
  <2>4. b.chain[i] = Upto(H, p + i)
    BY <1>1 DEF Segment
  <2> QED BY <2>1, <2>2, <2>3, <2>4 DEF Link
<1>3. b.first = 0 => b.anchor = GENESIS
  <2> SUFFICES ASSUME b.first = 0 PROVE b.anchor = GENESIS
    OBVIOUS
  <2>2. b.anchor = Upto(H, b.first + 1) /\ b.first + 1 = 1 /\ H[1] = "GENESIS"
    BY DEF Segment
  <2>1. b.anchor = [i \in 1 .. 1 |-> H[i]] /\ H[1] = "GENESIS"
    BY <2>2 DEF Upto
  <2> QED BY <2>1 DEF GENESIS
<1> QED BY <1>1, <1>2, <1>3 DEF Intact, Chained

\* Two segments of one history from genesis have the same operations.
LEMMA SameHeadSameOps ==
  ASSUME NEW H, NEW a1, NEW o1, NEW c1, Segment(H, 1, a1, o1, c1),
         NEW a2, NEW o2, NEW c2, Segment(H, 1, a2, o2, c2)
  PROVE  o1 = o2
<1>1. /\ o1 \in Seq(Ops) /\ o2 \in Seq(Ops) /\ Len(o1) = Len(o2)
  BY DEF Segment
<1>2. ASSUME NEW i \in 1 .. Len(o1) PROVE o1[i] = o2[i]
  <2>1. <<1 + i - 2, o1[i]>> = <<1 + i - 2, o2[i]>>
    BY <1>1 DEF Segment
  <2> QED BY <2>1
<1> QED BY <1>1, <1>2, SeqEqual

-----------------------------------------------------------------------------
\* An earlier history lists the same things, as far as it goes.
LEMMA UptoOfEarlier ==
  ASSUME NEW H, NEW G, Len(H) \in Nat, Before(H, G), NEW n \in 0 .. Len(H)
  PROVE  Upto(H, n) = Upto(G, n)
<1>1. H = Upto(G, Len(H))
  BY DEF Before
<1>2. Upto(Upto(G, Len(H)), n) = Upto(G, n)
  BY UptoOfUpto
<1> QED BY <1>1, <1>2

\* The bundles and the log of one agent whose history only grew agree.
LEMMA SegmentsAgree ==
  ASSUME NEW G \in Links, NEW log, NEW L, Segment(L, 1, GENESIS, log.ops, log.chain),
         Before(L, G), NEW b, NEW B, b.first \in Nat,
         Segment(B, b.first + 1, b.anchor, b.ops, b.chain), Before(B, G)
  PROVE  b.first <= Len(log.ops) => Continues(b, log)
<1> SUFFICES ASSUME b.first <= Len(log.ops) PROVE Continues(b, log)
  OBVIOUS
<1> DEFINE n == Len(log.chain)
           k == b.first
           m == Len(b.chain)
<1>1. /\ n \in Nat /\ k \in Nat /\ m \in Nat /\ k <= n /\ Len(log.ops) = n
      /\ Len(L) = n + 1 /\ Len(B) = k + 1 + m
  <2>3. log.chain \in Seq(Links) /\ b.chain \in Seq(Links) /\ Len(log.ops) = n
    BY DEF Segment
  <2>4. n \in Nat /\ m \in Nat
    BY <2>3
  <2>1. /\ n \in Nat /\ k \in Nat /\ m \in Nat /\ k <= Len(log.ops)
        /\ Len(log.ops) = n
    BY <2>3, <2>4
  <2>2. Len(L) = 1 + n /\ Len(B) = (k + 1) + m
    BY DEF Segment
  <2> HIDE DEF n, k, m
  <2> QED BY <2>1, <2>2
<1> HIDE DEF n, k, m
<1>2. ASSUME NEW i \in 1 .. n PROVE log.chain[i] = Upto(G, i + 1)
  <2>1. i + 1 \in 0 .. Len(L) /\ Len(L) \in Nat /\ 1 + i = i + 1
    BY <1>1
  <2>2. log.chain[i] = Upto(L, 1 + i)
    BY DEF Segment, n
  <2> QED BY <2>1, <2>2, UptoOfEarlier
<1>3. ASSUME NEW i \in 1 .. m PROVE b.chain[i] = Upto(G, (k + i) + 1)
  <2>1. (k + i) + 1 \in 0 .. Len(B) /\ Len(B) \in Nat /\ (k + 1) + i = (k + i) + 1
    BY <1>1
  <2>2. b.chain[i] = Upto(B, (k + 1) + i)
    BY DEF Segment, m, k
  <2> QED BY <2>1, <2>2, UptoOfEarlier
<1>4. b.anchor = Upto(G, k + 1)
  <2>1. k + 1 \in 0 .. Len(B) /\ Len(B) \in Nat
    BY <1>1
  <2>2. b.anchor = Upto(B, k + 1)
    BY DEF Segment, k
  <2> QED BY <2>1, <2>2, UptoOfEarlier
<1>5. ASSUME k > 0 PROVE b.anchor = log.chain[k]
  <2>1. k \in 1 .. n
    BY <1>1, <1>5
  <2> QED BY <2>1, <1>2, <1>4
<1>6. ASSUME NEW i \in 1 .. m, k + i <= n PROVE b.chain[i] = log.chain[k + i]
  <2>1. k + i \in 1 .. n
    BY <1>1, <1>6
  <2> QED BY <2>1, <1>2, <1>3
<1> QED BY <1>5, <1>6 DEF Continues, n, k, m

\* A log that is a segment from the first link, and a bundle that is a segment
\* of its own and that `import_bundle` lets through.
Extending(log, L, b, G, p, told) ==
  /\ Segment(L, 1, GENESIS, log.ops, log.chain)
  /\ Segment(G, p, b.anchor, told, b.chain)
  /\ b.first \in Nat /\ b.ops \in Seq(Ops)
  /\ Intact(b) /\ b.first <= Len(log.ops) /\ Continues(b, log)

\* An accepted bundle, damaged or not, makes of the log a segment again, and
\* the log ends where it did or where the bundle ends.
LEMMA SegmentExtended ==
  ASSUME NEW log, NEW L, NEW b, NEW G, NEW p, NEW told,
         Extending(log, L, b, G, p, told)
  PROVE  \E K \in {L, G} :
            Segment(K, 1, GENESIS, Extended(log, b).ops, Extended(log, b).chain)
<1> USE DEF Extending
<1> DEFINE n == Len(log.chain)
           k == b.first
           m == Len(b.chain)
           o == log.ops \o Fresh(b, log, b.ops)
           c == log.chain \o Fresh(b, log, b.chain)
<1>1. /\ n \in Nat /\ k \in Nat /\ m \in Nat /\ k <= n /\ Len(log.ops) = n
      /\ Len(b.ops) = m /\ Len(L) = n + 1 /\ Len(G) = p + m /\ p \in Nat /\ p > 0
      /\ L \in Links /\ G \in Links
      /\ log.ops \in Seq(Ops) /\ log.chain \in Seq(Links)
      /\ b.ops \in Seq(Ops) /\ b.chain \in Seq(Links)
  BY DEF Segment, Intact, Chained
<1>2. /\ o \in Seq(Ops) /\ Appended(o, log.ops, b.ops, k, n)
      /\ c \in Seq(Links) /\ Appended(c, log.chain, b.chain, k, n)
  BY <1>1, AppendFresh
<1>3. Extended(log, b).ops = o /\ Extended(log, b).chain = c
  BY DEF Extended
<1> HIDE DEF n, k, m, o, c
<1>4. p = k + 1
  <2>1. b.anchor = Upto(G, p) /\ Len(b.anchor) = p
    <3>1. p \in 0 .. Len(G)
      BY <1>1
    <3> QED BY <3>1, <1>1, UptoLink DEF Segment
  <2>2. CASE k = 0
    <3>1. b.anchor = GENESIS
      BY <2>2 DEF Intact, k
    <3>2. Len(GENESIS) = 1
      BY DEF GENESIS
    <3>3. p = 1
      BY <2>1, <3>1, <3>2
    <3> QED BY <2>2, <3>3
  <2>3. CASE k > 0
    <3>1. b.anchor = log.chain[k] /\ k \in 1 .. n
      BY <2>3, <1>1 DEF Continues, k
    <3>2. log.chain[k] = Upto(L, 1 + k) /\ 1 + k \in 0 .. Len(L)
      BY <3>1, <1>1 DEF Segment, n
    <3>3. Len(log.chain[k]) = 1 + k
      BY <3>2, <1>1, UptoLink
    <3> QED BY <2>1, <3>1, <3>3, <1>1
  <2> QED BY <1>1, <2>2, <2>3
<1>7. n \in Nat /\ k \in Nat /\ m \in Nat /\ k <= n
  BY <1>1
<1>5. CASE k + m <= n
  <2>1. Len(o) = n /\ Len(c) = n
    BY <1>1, <1>2, <1>5 DEF Appended, m
  <2>2. o = log.ops
    <3>1. \A i \in 1 .. Len(o) : o[i] = log.ops[i]
      BY <2>1, <1>2 DEF Appended
    <3>2. o \in Seq(Ops) /\ log.ops \in Seq(Ops) /\ Len(o) = Len(log.ops)
      BY <2>1, <1>1, <1>2
    <3> QED BY ONLY <3>1, <3>2, SeqEqual
  <2>3. c = log.chain
    <3>1. Len(log.chain) = n
      BY DEF n
    <3>2. \A i \in 1 .. Len(c) : c[i] = log.chain[i]
      BY <2>1, <1>2 DEF Appended
    <3>3. c \in Seq(Links) /\ log.chain \in Seq(Links) /\ Len(c) = Len(log.chain)
      BY <3>1, <2>1, <1>1, <1>2
    <3> QED BY ONLY <3>2, <3>3, SeqEqual
  <2> QED BY <2>2, <2>3, <1>3
<1>6. CASE k + m > n
  <2>1. L = Upto(G, n + 1)
    <3>1. CASE k = n /\ n = 0
      <4>1. b.anchor = GENESIS /\ log.chain = << >>
        BY <3>1, <1>1, EmptySeq DEF Intact, k, n
      <4>2. L = GENESIS
        BY <4>1 DEF Segment, HeadOf
      <4> QED BY <3>1, <4>1, <4>2, <1>4 DEF Segment
    <3>2. CASE k = n /\ n > 0
      <4>1. b.anchor = log.chain[n] /\ log.chain # << >>
        BY <3>2, <1>1 DEF Continues, k, n
      <4>2. L = log.chain[n]
        BY <4>1 DEF Segment, HeadOf, n
      <4> QED BY <3>2, <4>1, <4>2, <1>4 DEF Segment
    <3>3. CASE k < n
      <4>1. n - k \in 1 .. m /\ k + (n - k) = n /\ p + (n - k) = n + 1 /\ n > 0
        BY <3>3, <1>1, <1>4, <1>6
      <4>2. b.chain[n - k] = log.chain[n]
        <5>1. k + (n - k) <= n => b.chain[n - k] = log.chain[k + (n - k)]
          BY <4>1 DEF Continues, k, m, n
        <5> QED BY <5>1, <4>1, <1>1
      <4>3. L = log.chain[n]
        <5>1. log.chain # << >>
          BY <4>1, <1>1 DEF n
        <5> QED BY <5>1 DEF Segment, HeadOf, n
      <4>4. b.chain[n - k] = Upto(G, p + (n - k))
        BY <4>1 DEF Segment, m
      <4> QED BY <4>1, <4>2, <4>3, <4>4
    <3> QED BY <1>1, <3>1, <3>2, <3>3
  <2>2. /\ Len(c) = k + m /\ Len(o) = k + m /\ Len(G) = 1 + (k + m)
        /\ \A i \in 1 .. n : c[i] = log.chain[i] /\ o[i] = log.ops[i]
        /\ \A i \in 1 .. k + m : i > n => c[i] = b.chain[i - k] /\ o[i] = b.ops[i - k]
    <3>1. /\ Len(c) = k + m /\ \A i \in 1 .. n : c[i] = log.chain[i]
          /\ \A i \in 1 .. Len(c) : i > n => c[i] = b.chain[i - k]
      BY <1>1, <1>2, <1>6 DEF Appended, m
    <3>2. /\ Len(o) = k + m /\ \A i \in 1 .. n : o[i] = log.ops[i]
          /\ \A i \in 1 .. Len(o) : i > n => o[i] = b.ops[i - k]
      BY <1>1, <1>2, <1>6 DEF Appended
    <3>3. Len(G) = 1 + (k + m)
      BY <1>1, <1>4
    <3> QED BY <3>1, <3>2, <3>3
  <2>3. ASSUME NEW i \in 1 .. k + m PROVE c[i] = Upto(G, 1 + i)
    <3>1. CASE i > n
      <4>1. i - k \in 1 .. m /\ p + (i - k) = 1 + i
        BY <3>1, <1>4, <1>7
      <4>2. b.chain[i - k] = Upto(G, p + (i - k))
        BY <4>1 DEF Segment, m
      <4> QED BY <3>1, <4>1, <4>2, <2>2
    <3>2. CASE ~(i > n)
      <4>1. i \in 1 .. n /\ 1 + i \in 0 .. n + 1 /\ n + 1 \in Nat
        BY <3>2, <1>1
      <4>2. log.chain[i] = Upto(L, 1 + i)
        BY <4>1 DEF Segment, n
      <4>3. Upto(L, 1 + i) = Upto(G, 1 + i)
        BY <4>1, <2>1, UptoOfUpto
      <4> QED BY <4>1, <4>2, <4>3, <2>2
    <3> QED BY <3>1, <3>2
  <2>4. ASSUME NEW i \in 1 .. k + m PROVE G[1 + i] = <<1 + i - 2, o[i]>>
    <3>1. CASE i > n
      <4> DEFINE j == i - k
                 e == <<k + j - 1, b.ops[j]>>
      <4>1. /\ j \in 1 .. m /\ p + j = 1 + i /\ k + j - 1 = 1 + i - 2 /\ j \in Nat
            /\ k + j - 1 \in Nat /\ p + j - 1 \in 0 .. Len(G) /\ p + j \in 0 .. Len(G)
            /\ p + j \in 1 .. p + j /\ (p + j - 1) + 1 = p + j
        BY <3>1, <1>1, <1>4
      <4>2. e \in Elements
        BY <4>1, <1>1 DEF Elements
      <4>3. Predecessor(b.anchor, b.chain, j) = Upto(G, p + j - 1)
        <5>1. CASE j = 1
          <6>1. p + j - 1 = p
            BY <5>1, <1>1
          <6> QED BY <5>1, <6>1 DEF Predecessor, Segment
        <5>2. CASE j # 1
          <6>1. j - 1 \in 1 .. m /\ p + (j - 1) = p + j - 1
            BY <5>2, <4>1, <1>1
          <6>2. b.chain[j - 1] = Upto(G, p + (j - 1))
            BY <6>1 DEF Segment, m
          <6> QED BY <5>2, <6>1, <6>2 DEF Predecessor
        <5> QED BY <5>1, <5>2
      <4>4. b.chain[j] = Append(Upto(G, p + j - 1), e)
        <5>1. b.chain[j] = Link(Predecessor(b.anchor, b.chain, j), b.first + j - 1, b.ops[j])
          BY <4>1, <1>1 DEF Intact, Chained
        <5> QED BY <5>1, <4>3 DEF Link, k
      <4>5. b.chain[j] = Upto(G, p + j)
        BY <4>1 DEF Segment, m
      <4> HIDE DEF e
      <4>6. Append(Upto(G, p + j - 1), e)[p + j] = e
        <5>1. Upto(G, p + j - 1) \in Links /\ Len(Upto(G, p + j - 1)) = p + j - 1
          BY <4>1, <1>1, UptoLink
        <5>2. Append(Upto(G, p + j - 1), e)[(p + j - 1) + 1] = e
          BY <5>1, <4>2, UptoOfAppend
        <5> QED BY <5>2, <4>1
      <4>7. Upto(G, p + j)[p + j] = G[p + j]
        BY <4>1, <1>1, UptoLink
      <4>8. G[p + j] = e
        BY <4>4, <4>5, <4>6, <4>7
      <4>9. o[i] = b.ops[j]
        BY <3>1, <2>2
      <4> QED BY <4>1, <4>8, <4>9 DEF e
    <3>2. CASE ~(i > n)
      <4>1. i \in 1 .. n /\ 1 + i \in 1 .. n + 1 /\ n + 1 \in 0 .. Len(G)
        BY <3>2, <1>1, <1>4, <1>6
      <4>2. L[1 + i] = <<1 + i - 2, log.ops[i]>>
        BY <4>1, <1>1 DEF Segment
      <4>3. L[1 + i] = G[1 + i]
        BY <4>1, <2>1 DEF Upto
      <4> QED BY <4>1, <4>2, <4>3, <2>2
    <3> QED BY <3>1, <3>2
  <2>5. G = HeadOf(GENESIS, c)
    <3>1. k + m \in 1 .. k + m /\ c # << >>
      BY <1>1, <1>6, <2>2
    <3>2. c[k + m] = Upto(G, 1 + (k + m))
      BY <3>1, <2>3
    <3>3. c[k + m] = G
      BY <3>2, <2>2, <1>1, UptoAll
    <3> QED BY <3>1, <3>3, <2>2 DEF HeadOf
  <2>6. GENESIS = Upto(G, 1) /\ Len(G) > 0 /\ G[1] = "GENESIS"
    <3>1. Len(G) > 0 /\ G[1] = "GENESIS"
      BY DEF Segment
    <3>2. Upto(G, 1) = <<"GENESIS">>
      BY <3>1 DEF Upto
    <3> QED BY <3>1, <3>2 DEF GENESIS
  <2>7. Segment(G, 1, GENESIS, o, c)
    BY <1>1, <1>2, <2>2, <2>3, <2>4, <2>5, <2>6 DEF Segment
  <2> QED BY <2>7, <1>3
<1> QED BY <1>1, <1>5, <1>6

-----------------------------------------------------------------------------
\* The invariant: every timeline, log and bundle is a segment, and every key
\* one that its agent generated.

LogSegment(log) == Segment(HeadOf(GENESIS, log.chain), 1, GENESIS, log.ops, log.chain)

\* `k` is a key of the agent `x`, when `g` tells the keys there are.
KeyOf(x, k, g) ==
    \E w \in Workspaces : /\ IdOf[w] = x
                          /\ \E n \in 1 .. g[w].generation : k = <<w, n>>

SessionWell(s, g) ==
    /\ Segment(SessionHead(s), s.folded + 1, s.anchor, s.ops, s.chain)
    /\ DOMAIN s.foreign \subseteq Ids /\ DOMAIN s.known_keys \subseteq DOMAIN s.foreign
    /\ \A x \in DOMAIN s.foreign : LogSegment(s.foreign[x])
    /\ \A x \in DOMAIN s.known_keys : KeyOf(x, s.known_keys[x], g)

\* Damage leaves the links, the author and the key.
BundleWell(b, g) ==
    /\ b.agent \in Ids /\ (Signed(b) => KeyOf(b.agent, b.pubkey, g))
    /\ \E p \in Nat, told \in Seq(Ops) :
          Segment(HeadOf(b.anchor, b.chain), p, b.anchor, told, b.chain)

Undamaged(b) ==
    /\ Segment(HeadOf(b.anchor, b.chain), b.first + 1, b.anchor, b.ops, b.chain)
    /\ Signed(b) => GoodSignature(b)

KeysWell ==
    /\ key \in [Workspaces -> [generation : 0 .. MaxKeys, present : BOOLEAN]]
    /\ \A w \in Workspaces : key[w].present => key[w].generation > 0

CliKey(w) ==
    cli[w] # << >> => \/ cli[w][2] = NoKey
                      \/ \E n \in 1 .. key[w].generation : cli[w][2] = <<w, n>>

WireWell ==
    /\ IsFiniteSet(wire) /\ Cardinality(wire) <= MaxWire /\ mangled \subseteq wire
    /\ \A b \in wire : BundleWell(b, key)
    /\ \A b \in wire \ mangled : Undamaged(b)

Well ==
    /\ \A w \in Workspaces :
          /\ SessionWell(disk[w], key)
          /\ server[w] # << >> => SessionWell(server[w][1], key)
          /\ cli[w] # << >> => SessionWell(cli[w][1], key)
          /\ CliKey(w)
    /\ KeysWell /\ WireWell
    /\ stale \in [Workspaces -> BOOLEAN]
    /\ restarted \subseteq Workspaces /\ rejected \subseteq Ids

-----------------------------------------------------------------------------
\* What each operation does to a copy.

LEMMA NoLogSegment == LogSegment(NoLog)
<1>1. Len(GENESIS) = 1 /\ GENESIS[1] = "GENESIS" /\ GENESIS \in Seq(Elements)
  BY DEF GENESIS, Elements
<1>2. Upto(GENESIS, 1) = GENESIS
  BY DEF Upto, GENESIS
<1>3. << >> \in Seq(Ops) /\ << >> \in Seq(Links) /\ Len(<< >>) = 0
  OBVIOUS
<1> QED BY <1>1, <1>2, <1>3 DEF LogSegment, Segment, NoLog, HeadOf, Links

LEMMA KnownSegment ==
  ASSUME NEW s, NEW g, SessionWell(s, g), NEW x PROVE LogSegment(Known(s, x))
BY NoLogSegment DEF SessionWell, Known

LEMMA NewWell == ASSUME NEW g PROVE SessionWell(NewSidecar, g)
<1>1. Segment(GENESIS, 1, GENESIS, << >>, << >>)
  BY NoLogSegment DEF LogSegment, NoLog, HeadOf
<1>2. SessionHead(NewSidecar) = GENESIS /\ NewSidecar.folded + 1 = 1
  BY DEF SessionHead, HeadOf, NewSidecar
<1>3. /\ NewSidecar.anchor = GENESIS /\ NewSidecar.ops = << >> /\ NewSidecar.chain = << >>
      /\ DOMAIN NewSidecar.foreign = {} /\ DOMAIN NewSidecar.known_keys = {}
  BY DEF NewSidecar
<1> QED BY <1>1, <1>2, <1>3 DEF SessionWell

LEMMA RestartedWell ==
  ASSUME NEW g, NEW s, DOMAIN s = Fields, SessionWell(s, g)
  PROVE  SessionWell(Restarted(s), g)
<1> DEFINE t == Restarted(s)
<1>1. /\ t.anchor = GENESIS /\ t.ops = << >> /\ t.chain = << >> /\ t.folded = 0
      /\ t.foreign = s.foreign /\ t.known_keys = s.known_keys
  BY DEF Restarted, Fields
<1> HIDE DEF t
<1>2. SessionHead(t) = GENESIS /\ t.folded + 1 = 1
  BY <1>1 DEF SessionHead, HeadOf
<1>3. Segment(GENESIS, 1, GENESIS, << >>, << >>)
  BY NoLogSegment DEF LogSegment, NoLog, HeadOf
<1>4. SessionWell(t, g)
  BY <1>1, <1>2, <1>3 DEF SessionWell
<1> QED BY <1>4 DEF t

LEMMA AgentSetWell ==
  ASSUME NEW g, NEW s, DOMAIN s = Fields, SessionWell(s, g), NEW x
  PROVE  /\ SessionWell([s EXCEPT !.agent = x], g)
         /\ SessionHead([s EXCEPT !.agent = x]) = SessionHead(s)
BY DEF SessionWell, SessionHead, Fields

LEMMA RecordedWell ==
  ASSUME NEW g, NEW s, DOMAIN s = Fields, s.folded \in Nat, SessionWell(s, g),
         NEW op \in Ops
  PROVE  /\ SessionWell(Recorded(s, op), g)
         /\ Before(SessionHead(s), SessionHead(Recorded(s, op)))
<1> DEFINE t == Recorded(s, op)
           H == SessionHead(s)
           l == Link(H, LogicalLen(s), op)
<1>1. /\ t.anchor = s.anchor /\ t.ops = Append(s.ops, op) /\ t.chain = Append(s.chain, l)
      /\ t.folded = s.folded /\ t.foreign = s.foreign /\ t.known_keys = s.known_keys
  BY DEF Recorded, Fields
<1>2. Segment(H, s.folded + 1, s.anchor, s.ops, s.chain)
  BY DEF SessionWell
<1>3. l = Link(H, (s.folded + 1) - 1 + Len(s.ops), op)
  <2>1. s.folded + 1 \in Nat /\ s.folded + 1 > 0 /\ Len(s.ops) \in Nat
    BY <1>2 DEF Segment
  <2>2. s.folded = (s.folded + 1) - 1
    BY <2>1
  <2> QED BY <2>2 DEF LogicalLen
<1> HIDE DEF t, H, l
<1>4. /\ Segment(l, s.folded + 1, s.anchor, Append(s.ops, op), Append(s.chain, l))
      /\ Before(H, l)
  BY <1>2, <1>3, SegmentRecorded
<1>5. SessionHead(t) = l
  BY <1>1, <1>4 DEF SessionHead, Segment
<1>6. SessionWell(t, g)
  BY <1>1, <1>4, <1>5 DEF SessionWell
<1> QED BY <1>4, <1>5, <1>6 DEF t, H

LEMMA CompactedWell ==
  ASSUME NEW g, NEW s, DOMAIN s = Fields, s.folded \in Nat, SessionWell(s, g),
         OplogMax \in Nat, OplogKeep \in Nat
  PROVE  /\ SessionWell(CompactedIfNeeded(s), g)
         /\ SessionHead(CompactedIfNeeded(s)) = SessionHead(s)
<1>1. CASE ~(OplogMax > 0 /\ Len(s.ops) > OplogMax /\ Len(s.ops) > OplogKeep)
  BY <1>1 DEF CompactedIfNeeded
<1>2. CASE OplogMax > 0 /\ Len(s.ops) > OplogMax /\ Len(s.ops) > OplogKeep
  <2> DEFINE d == Len(s.ops) - OplogKeep
             t == CompactedIfNeeded(s)
             H == SessionHead(s)
  <2>1. Segment(H, s.folded + 1, s.anchor, s.ops, s.chain)
    BY DEF SessionWell
  <2>2. d \in 0 .. Len(s.chain) /\ d # 0 /\ d \in Nat
    <3>1. Len(s.ops) = Len(s.chain) /\ Len(s.ops) \in Nat
      BY <2>1 DEF Segment
    <3> QED BY <3>1, <1>2
  <2>3. t = Compacted(s, d)
    BY <1>2 DEF CompactedIfNeeded
  <2>4. /\ t.ops = SubSeq(s.ops, d + 1, Len(s.ops))
        /\ t.chain = SubSeq(s.chain, d + 1, Len(s.chain))
        /\ t.anchor = s.chain[d] /\ t.folded = s.folded + d
        /\ t.foreign = s.foreign /\ t.known_keys = s.known_keys
    BY <2>3 DEF Compacted, Fields
  <2> HIDE DEF d, t, H
  <2>5. Segment(H, (s.folded + 1) + d, t.anchor, t.ops, t.chain)
    BY <2>1, <2>2, <2>4, SegmentSuffix
  <2>6. (s.folded + 1) + d = t.folded + 1
    BY <2>2, <2>4
  <2>7. SessionHead(t) = H
    BY <2>5 DEF SessionHead, Segment
  <2>8. SessionWell(t, g)
    BY <2>4, <2>5, <2>6, <2>7 DEF SessionWell
  <2> QED BY <2>7, <2>8 DEF t, H
<1> QED BY <1>1, <1>2

LEMMA ImportedWell ==
  ASSUME NEW g, NEW s, DOMAIN s = Fields, SessionWell(s, g), NEW w,
         NEW b, b.first \in Nat, b.ops \in Seq(Ops), BundleWell(b, g),
         Verdict(w, s, b) = "Added"
  PROVE  /\ SessionWell(Imported(s, b), g)
         /\ SessionHead(Imported(s, b)) = SessionHead(s)
         /\ b.agent \in DOMAIN Imported(s, b).foreign
         /\ HeadOf(GENESIS, Imported(s, b).foreign[b.agent].chain)
              \in {HeadOf(GENESIS, Known(s, b.agent).chain), HeadOf(b.anchor, b.chain)}
         /\ \A x \in DOMAIN Imported(s, b).foreign : x # b.agent =>
               /\ x \in DOMAIN s.foreign
               /\ Imported(s, b).foreign[x] = s.foreign[x]
<1> DEFINE log == Known(s, b.agent)
           new == Extended(log, b)
           t == Imported(s, b)
           G == HeadOf(b.anchor, b.chain)
<1>1. Intact(b) /\ ~(b.first > Len(log.ops)) /\ Continues(b, log)
  BY DEF Verdict
<1>2. LogSegment(log)
  BY KnownSegment
<1>3. PICK p \in Nat, told \in Seq(Ops) : Segment(G, p, b.anchor, told, b.chain)
  BY DEF BundleWell
<1>4. /\ t.foreign = Put(s.foreign, b.agent, new)
      /\ t.known_keys = IF Signed(b) THEN Put(s.known_keys, b.agent, b.pubkey) ELSE s.known_keys
      /\ t.folded = s.folded /\ t.anchor = s.anchor /\ t.ops = s.ops /\ t.chain = s.chain
  BY DEF Imported, Fields
<1> HIDE DEF log, new, t, G
<1>5. \E K \in {HeadOf(GENESIS, log.chain), G} : Segment(K, 1, GENESIS, new.ops, new.chain)
  <2>1. b.first <= Len(log.ops)
    <3>1. Len(log.ops) \in Nat
      BY <1>2 DEF LogSegment, Segment
    <3> QED BY <1>1, <3>1
  <2> DEFINE L == HeadOf(GENESIS, log.chain)
  <2>2. Segment(L, 1, GENESIS, log.ops, log.chain)
    BY <1>2 DEF LogSegment
  <2> HIDE DEF L
  <2>3. Extending(log, L, b, G, p, told)
    BY <1>1, <1>3, <2>1, <2>2 DEF Extending
  <2>4. \E K \in {L, G} :
           Segment(K, 1, GENESIS, Extended(log, b).ops, Extended(log, b).chain)
    BY ONLY <2>3, SegmentExtended
  <2> QED BY <2>4 DEF L, new
<1>6. LogSegment(new) /\ HeadOf(GENESIS, new.chain) \in {HeadOf(GENESIS, log.chain), G}
  BY <1>5 DEF LogSegment, Segment
<1>7. \A x \in DOMAIN t.foreign :
         IF x = b.agent THEN t.foreign[x] = new
         ELSE x \in DOMAIN s.foreign /\ t.foreign[x] = s.foreign[x]
  BY <1>4 DEF Put
<1>8. DOMAIN t.foreign = DOMAIN s.foreign \cup {b.agent}
  BY <1>4 DEF Put
<1>9. \A x \in DOMAIN t.foreign : LogSegment(t.foreign[x])
  BY <1>6, <1>7 DEF SessionWell
<1>10. \A x \in DOMAIN t.known_keys : KeyOf(x, t.known_keys[x], g)
  BY <1>4 DEF Put, SessionWell, BundleWell
<1>11. DOMAIN t.known_keys \subseteq DOMAIN t.foreign
  BY <1>4, <1>8 DEF Put, SessionWell
<1>12. DOMAIN t.foreign \subseteq Ids
  BY <1>8 DEF SessionWell, BundleWell
<1>13. SessionHead(t) = SessionHead(s)
  BY <1>4 DEF SessionHead
<1>14. SessionWell(t, g)
  BY <1>4, <1>9, <1>10, <1>11, <1>12, <1>13 DEF SessionWell
<1>15. b.agent \in DOMAIN t.foreign /\ t.foreign[b.agent] = new
  BY <1>7, <1>8
<1> QED BY <1>6, <1>7, <1>13, <1>14, <1>15 DEF t, log, G

\* `export_bundle`: what is exported is undamaged and ends where the timeline
\* ends.
LEMMA ExportedWell ==
  ASSUME NEW g, NEW s, s.folded \in Nat, SessionWell(s, g), s.agent \in Ids,
         NEW since \in Nat, s.folded <= since, since <= LogicalLen(s),
         NEW k, k = NoKey \/ KeyOf(s.agent, k, g)
  PROVE  LET b == Bundle(s, since, k)
         IN  /\ BundleWell(b, g) /\ Undamaged(b) /\ b.agent = s.agent
             /\ HeadOf(b.anchor, b.chain) = SessionHead(s)
<1> DEFINE d == since - s.folded
           b == Bundle(s, since, k)
           H == SessionHead(s)
<1>1. Segment(H, s.folded + 1, s.anchor, s.ops, s.chain)
  BY DEF SessionWell
<1>2. Len(s.ops) = Len(s.chain) /\ Len(s.ops) \in Nat
  BY <1>1 DEF Segment
<1>3. d \in 0 .. Len(s.chain) /\ d \in Nat /\ (s.folded + 1) + d = since + 1
  BY <1>2 DEF LogicalLen
<1>4. /\ b.first = since /\ b.agent = s.agent /\ b.pubkey = k
      /\ b.anchor = IF d = 0 THEN s.anchor ELSE s.chain[d]
      /\ b.ops = SubSeq(s.ops, d + 1, Len(s.ops))
      /\ b.chain = SubSeq(s.chain, d + 1, Len(s.chain))
  BY DEF Bundle
<1>5. Signed(b) => GoodSignature(b)
  BY DEF Bundle, Signed, GoodSignature, Payload
<1> HIDE DEF d, b, H
<1>6. Segment(H, b.first + 1, b.anchor, b.ops, b.chain)
  BY <1>1, <1>3, <1>4, SegmentSuffix
<1>7. HeadOf(b.anchor, b.chain) = H
  BY <1>6 DEF Segment
<1>8. Undamaged(b)
  BY <1>5, <1>6, <1>7 DEF Undamaged
<1>9. b.first + 1 \in Nat /\ b.ops \in Seq(Ops)
  BY <1>6 DEF Segment
<1>10. BundleWell(b, g)
  BY <1>4, <1>6, <1>7, <1>9 DEF BundleWell, Signed
<1> QED BY <1>4, <1>7, <1>8, <1>10 DEF b, H

LEMMA MangledWell ==
  ASSUME NEW g, NEW b, DOMAIN b = BundleFields, BundleWell(b, g), NEW bad \in Damaged(b)
  PROVE  /\ BundleWell(bad, g) /\ bad.agent = b.agent
         /\ HeadOf(bad.anchor, bad.chain) = HeadOf(b.anchor, b.chain)
<1>1. /\ bad.agent = b.agent /\ bad.pubkey = b.pubkey
      /\ bad.anchor = b.anchor /\ bad.chain = b.chain
  BY DEF Damaged, BundleFields
<1> QED BY <1>1 DEF BundleWell, Signed

\* Keys are only added.
Rekeyed(g, h) == \A w \in Workspaces : g[w].generation <= h[w].generation

LEMMA KeysStay ==
  ASSUME NEW g, NEW h, Rekeyed(g, h),
         \A w \in Workspaces : g[w].generation \in Nat /\ h[w].generation \in Nat
  PROVE  /\ \A x, k : KeyOf(x, k, g) => KeyOf(x, k, h)
         /\ \A s : SessionWell(s, g) => SessionWell(s, h)
         /\ \A b : BundleWell(b, g) => BundleWell(b, h)
<1>1. ASSUME NEW x, NEW k, KeyOf(x, k, g) PROVE KeyOf(x, k, h)
  <2>1. PICK w \in Workspaces : IdOf[w] = x /\ \E n \in 1 .. g[w].generation : k = <<w, n>>
    BY <1>1 DEF KeyOf
  <2>2. 1 .. g[w].generation \subseteq 1 .. h[w].generation
    BY DEF Rekeyed
  <2> QED BY <2>1, <2>2 DEF KeyOf
<1>2. ASSUME NEW s, SessionWell(s, g) PROVE SessionWell(s, h)
  BY <1>1, <1>2 DEF SessionWell
<1>3. ASSUME NEW b, BundleWell(b, g) PROVE BundleWell(b, h)
  BY <1>1, <1>3 DEF BundleWell
<1> QED BY <1>1, <1>2, <1>3

-----------------------------------------------------------------------------
LEMMA InitWell == Init => Well
<1> SUFFICES ASSUME Init PROVE Well
  OBVIOUS
<1> USE FederationAssumption DEF FederationAssumption
<1>1. SessionWell(NewSidecar, key)
  BY NewWell
<1>2. KeysWell
  BY DEF Init, KeysWell
<1>3. WireWell
  BY FS_EmptySet DEF Init, WireWell
<1> QED BY <1>1, <1>2, <1>3 DEF Init, Well, CliKey

LEMMA OpenedWell ==
  ASSUME IInv, Well, NEW w \in Workspaces PROVE SessionWell(Opened(w), key)
BY RestartedWell DEF IInv, Well, SessionOK, Opened

\* A step that leaves the keys and the bundles alone.
LEMMA SameWire ==
  ASSUME Well, UNCHANGED <<key, wire, mangled>> PROVE KeysWell' /\ WireWell'
BY DEF Well, KeysWell, WireWell, BundleWell, Undamaged, KeyOf, Signed, GoodSignature, Payload

LEMMA NextWell == IInv /\ Well /\ [Next]_vars => Well'
<1> SUFFICES ASSUME IInv, Well, [Next]_vars PROVE Well'
  OBVIOUS
<1> USE FederationAssumption DEF FederationAssumption
<1>0. /\ \A w \in Workspaces :
            /\ SessionWell(disk[w], key) /\ CliKey(w)
            /\ server[w] # << >> => SessionWell(server[w][1], key)
            /\ cli[w] # << >> => SessionWell(cli[w][1], key)
      /\ KeysWell /\ WireWell /\ stale \in [Workspaces -> BOOLEAN]
      /\ restarted \subseteq Workspaces /\ rejected \subseteq Ids
  BY DEF Well
<1>00. /\ DOMAIN disk = Workspaces /\ DOMAIN server = Workspaces /\ DOMAIN cli = Workspaces
       /\ \A w \in Workspaces :
             /\ DOMAIN disk[w] = Fields /\ disk[w].folded \in Nat
             /\ server[w] # << >> =>
                   DOMAIN server[w][1] = Fields /\ server[w][1].folded \in Nat
             /\ cli[w] # << >> => DOMAIN cli[w][1] = Fields /\ cli[w][1].folded \in Nat
       /\ \A b \in wire :
             DOMAIN b = BundleFields /\ b.first \in Nat /\ b.ops \in Seq(Ops)
  BY DEF IInv, SessionOK, BundleOK
<1>1. ASSUME NEW w \in Workspaces, StartServer(w) PROVE Well'
  <2>1. SessionWell(Opened(w), key)
    BY OpenedWell
  <2>2. \A v \in Workspaces : server'[v] = IF v = w THEN <<Opened(w)>> ELSE server[v]
    BY <1>1, <1>00 DEF StartServer
  <2>3. KeysWell' /\ WireWell'
    BY <1>1, SameWire DEF StartServer
  <2>4. restarted' \subseteq Workspaces
    BY <1>0, <1>1 DEF StartServer, Restarting
  <2> QED BY <1>0, <1>1, <2>1, <2>2, <2>3, <2>4 DEF StartServer, Well, CliKey
<1>2. ASSUME NEW w \in Workspaces, NEW op \in Ops, Record(w, op) PROVE Well'
  <2> DEFINE s == Recorded(server[w][1], op)
  <2>1. SessionWell(s, key)
    BY <1>0, <1>00, <1>2, RecordedWell DEF Record
  <2>2. \A v \in Workspaces : server'[v] = IF v = w THEN <<s>> ELSE server[v]
    BY <1>2, <1>00 DEF Record
  <2> HIDE DEF s
  <2>3. KeysWell' /\ WireWell'
    BY <1>2, SameWire DEF Record
  <2> QED BY <1>0, <1>2, <2>1, <2>2, <2>3 DEF Record, Well, CliKey
<1>3. ASSUME NEW w \in Workspaces, SaveServer(w) PROVE Well'
  <2> DEFINE s == CompactedIfNeeded(server[w][1])
  <2>1. SessionWell(s, key)
    BY <1>0, <1>00, <1>3, CompactedWell DEF SaveServer
  <2> HIDE DEF s
  <2>2. server' = [server EXCEPT ![w] = <<s>>] /\ disk' = [disk EXCEPT ![w] = s]
    BY <1>3 DEF SaveServer, s
  <2>3. \A v \in Workspaces : /\ server'[v] = IF v = w THEN <<s>> ELSE server[v]
                              /\ disk'[v] = IF v = w THEN s ELSE disk[v]
    BY <2>2, <1>00
  <2>4. KeysWell' /\ WireWell'
    BY <1>3, SameWire DEF SaveServer
  <2>5. stale' \in [Workspaces -> BOOLEAN]
    BY <1>0, <1>3 DEF SaveServer
  <2> QED BY <1>0, <1>3, <2>1, <2>3, <2>4, <2>5 DEF SaveServer, Well, CliKey
<1>4. ASSUME NEW w \in Workspaces, StopServer(w) PROVE Well'
  <2>1. \A v \in Workspaces : server'[v] = IF v = w THEN << >> ELSE server[v]
    BY <1>4, <1>00 DEF StopServer
  <2>2. KeysWell' /\ WireWell'
    BY <1>4, SameWire DEF StopServer
  <2> QED BY <1>0, <1>4, <2>1, <2>2 DEF StopServer, Well, CliKey
<1>5. ASSUME NEW w \in Workspaces, OpenCli(w) PROVE Well'
  <2>1. SessionWell(Opened(w), key)
    BY OpenedWell
  <2>2. \A v \in Workspaces :
           cli'[v] = IF v = w THEN <<Opened(w), PublicKey(w)>> ELSE cli[v]
    BY <1>5, <1>00 DEF OpenCli
  <2>3. KeysWell' /\ WireWell'
    BY <1>5, SameWire DEF OpenCli
  <2>4. restarted' \subseteq Workspaces
    BY <1>0, <1>5 DEF OpenCli, Restarting
  <2>5. PublicKey(w) = NoKey \/ \E n \in 1 .. key[w].generation : PublicKey(w) = <<w, n>>
    <3>1. key[w].present => key[w].generation \in 1 .. key[w].generation
      BY <1>0 DEF KeysWell
    <3> QED BY <3>1 DEF PublicKey
  <2>6. \A v \in Workspaces : CliKey(v)'
    BY <1>0, <1>5, <2>2, <2>5 DEF OpenCli, CliKey
  <2> QED BY <1>0, <1>5, <2>1, <2>2, <2>3, <2>4, <2>6 DEF OpenCli, Well
<1>6. ASSUME NEW w \in Workspaces, NEW since \in 0 .. MaxLen, Export(w, since) PROVE Well'
  <2> DEFINE r == [cli[w][1] EXCEPT !.agent = IdOf[w]]
             s == CompactedIfNeeded(r)
             k == cli[w][2]
             b == Bundle(s, since, k)
  <2>0. cli[w] # << >> /\ DOMAIN cli[w][1] = Fields /\ SessionOK(w, cli[w][1], ever)
    BY <1>6, <1>00 DEF Export, IInv
  <2>1. SessionWell(r, key) /\ SessionOK(w, r, ever) /\ r.agent = IdOf[w]
    BY <1>0, <2>0, AgentSetWell, AgentSetOK DEF Fields
  <2>2. /\ disk' = [disk EXCEPT ![w] = s] /\ cli' = [cli EXCEPT ![w] = << >>]
        /\ wire' = IF since < s.folded THEN wire ELSE wire \cup {b}
        /\ since <= LogicalLen(s) /\ Cardinality(wire) < MaxWire
        /\ mangled' = mangled /\ key' = key
    BY <1>6 DEF Export
  <2> HIDE DEF r
  <2>3. SessionWell(s, key)
    BY <2>1, CompactedWell DEF SessionOK
  <2>4. SessionOK(w, s, ever) /\ s.agent = IdOf[w]
    BY <2>1, CompactedOK
  <2> HIDE DEF s
  <2>5. k = NoKey \/ KeyOf(s.agent, k, key)
    BY <1>0, <2>0, <2>4 DEF CliKey, KeyOf
  <2> HIDE DEF k
  <2>6. ASSUME ~(since < s.folded) PROVE BundleWell(b, key) /\ Undamaged(b)
    <3>1. since \in Nat /\ s.folded <= since /\ s.agent \in Ids /\ s.folded \in Nat
      BY <2>4, <2>6 DEF SessionOK
    <3> QED BY <2>2, <2>3, <2>5, <3>1, ExportedWell
  <2> HIDE DEF b
  <2>7. IsFiniteSet(wire') /\ Cardinality(wire') <= MaxWire /\ wire \subseteq wire'
    <3>1. IsFiniteSet(wire) /\ Cardinality(wire) \in Nat /\ Cardinality(wire) <= MaxWire
      BY <1>0, FS_CardinalityType DEF WireWell
    <3>3. /\ IsFiniteSet(wire \cup {b})
          /\ Cardinality(wire \cup {b})
               = IF b \in wire THEN Cardinality(wire) ELSE Cardinality(wire) + 1
      BY <3>1, FS_AddElement
    <3>2. IsFiniteSet(wire \cup {b}) /\ Cardinality(wire \cup {b}) <= MaxWire
      BY <3>1, <3>3, <2>2
    <3> QED BY <2>2, <3>1, <3>2
  <2>8. /\ \A c \in wire' : BundleWell(c, key)
        /\ \A c \in wire' \ mangled : Undamaged(c)
    BY <1>0, <2>2, <2>6 DEF WireWell
  <2>9. WireWell' /\ KeysWell'
    BY <1>0, <2>2, <2>7, <2>8 DEF WireWell, KeysWell, Undamaged
  <2>10. \A v \in Workspaces : /\ disk'[v] = IF v = w THEN s ELSE disk[v]
                               /\ cli'[v] = IF v = w THEN << >> ELSE cli[v]
    BY <2>2, <1>00
  <2>11. stale' \in [Workspaces -> BOOLEAN]
    BY <1>0, <1>6 DEF Export
  <2> QED BY <1>0, <1>6, <2>2, <2>3, <2>9, <2>10, <2>11 DEF Export, Well, CliKey
<1>7. ASSUME NEW w \in Workspaces, NEW b \in wire, Import(w, b) PROVE Well'
  <2> DEFINE r == Imported(cli[w][1], b)
             s == CompactedIfNeeded(r)
  <2>1. SessionWell(r, key)
    BY <1>0, <1>00, <1>7, ImportedWell DEF Import, WireWell
  <2>2. SessionOK(w, r, ever)
    BY <1>7, ImportedOK DEF IInv, Import
  <2>3. disk' = [disk EXCEPT ![w] = s] /\ cli' = [cli EXCEPT ![w] = << >>]
    BY <1>7 DEF Import
  <2> HIDE DEF r
  <2>4. SessionWell(s, key)
    BY <2>1, <2>2, CompactedWell DEF SessionOK
  <2> HIDE DEF s
  <2>5. \A v \in Workspaces : /\ disk'[v] = IF v = w THEN s ELSE disk[v]
                              /\ cli'[v] = IF v = w THEN << >> ELSE cli[v]
    BY <2>3, <1>00
  <2>6. KeysWell' /\ WireWell'
    BY <1>7, SameWire DEF Import
  <2>7. stale' \in [Workspaces -> BOOLEAN]
    BY <1>0, <1>7 DEF Import
  <2> QED BY <1>0, <1>7, <2>4, <2>5, <2>6, <2>7 DEF Import, Well, CliKey
<1>8. ASSUME NEW w \in Workspaces, NEW b \in wire, Refuse(w, b) PROVE Well'
  <2>1. \A v \in Workspaces : cli'[v] = IF v = w THEN << >> ELSE cli[v]
    BY <1>8, <1>00 DEF Refuse
  <2>2. KeysWell' /\ WireWell'
    BY <1>8, SameWire DEF Refuse
  <2>3. rejected' \subseteq Ids
    BY <1>0, <1>8 DEF Refuse, WireWell, BundleWell
  <2> QED BY <1>0, <1>8, <2>1, <2>2, <2>3 DEF Refuse, Well, CliKey
<1>9. ASSUME NEW w \in Workspaces, Keygen(w) \/ DeleteKey(w) PROVE Well'
  <2>1. /\ UNCHANGED <<disk, stale, server, cli, wire, mangled, restarted, rejected>>
        /\ \/ key' = [key EXCEPT ![w].present = FALSE]
           \/ /\ key[w].generation < MaxKeys
              /\ key' = [key EXCEPT ![w] = [generation |-> @.generation + 1, present |-> TRUE]]
    BY <1>9 DEF Keygen, DeleteKey
  <2>0. /\ key \in [Workspaces -> [generation : 0 .. MaxKeys, present : BOOLEAN]]
        /\ \A v \in Workspaces : key[v].present => key[v].generation > 0
    BY <1>0 DEF KeysWell
  <2> DEFINE n == key[w].generation
  <2>01. n \in 0 .. MaxKeys
    BY <2>0
  <2>02. /\ key' \in [Workspaces -> [generation : 0 .. MaxKeys, present : BOOLEAN]]
         /\ \A v \in Workspaces : v # w => key'[v] = key[v]
         /\ key'[w].present => key'[w].generation > 0
         /\ key'[w].generation \in {n, n + 1}
    <3>1. CASE key' = [key EXCEPT ![w].present = FALSE]
      <4>1. key'[w] = [generation |-> n, present |-> FALSE]
        BY <2>0, <3>1
      <4> HIDE DEF n
      <4>2. key'[w] \in [generation : 0 .. MaxKeys, present : BOOLEAN]
        BY <4>1, <2>01
      <4> QED BY <2>0, <3>1, <4>1, <4>2
    <3>2. CASE /\ n < MaxKeys
               /\ key' = [key EXCEPT ![w] = [generation |-> @.generation + 1, present |-> TRUE]]
      <4>1. key'[w] = [generation |-> n + 1, present |-> TRUE]
        BY <2>0, <3>2
      <4> HIDE DEF n
      <4>2. n + 1 \in 0 .. MaxKeys /\ n + 1 > 0
        BY <2>01, <3>2
      <4>3. key'[w] \in [generation : 0 .. MaxKeys, present : BOOLEAN]
        BY <4>1, <4>2
      <4> QED BY <2>0, <3>2, <4>1, <4>2, <4>3
    <3> QED BY <2>1, <3>1, <3>2
  <2>2. KeysWell'
    BY <2>0, <2>02 DEF KeysWell
  <2>3. \A v \in Workspaces : key[v].generation \in Nat /\ key'[v].generation \in Nat
    BY <1>0, <2>2 DEF KeysWell
  <2> DEFINE h == key'
  <2>4. Rekeyed(key, h)
    <3>1. \A v \in Workspaces : key[v].generation <= h[v].generation
      BY <2>01, <2>02, <2>3
    <3> QED BY <3>1 DEF Rekeyed
  <2>5. /\ \A s : SessionWell(s, key) => SessionWell(s, h)
        /\ \A b : BundleWell(b, key) => BundleWell(b, h)
    <3> HIDE DEF h
    <3>1. \A v \in Workspaces : key[v].generation \in Nat /\ h[v].generation \in Nat
      BY <2>3 DEF h
    <3> QED BY <2>4, <3>1, KeysStay
  <2>6. WireWell'
    BY <1>0, <2>1, <2>5 DEF WireWell, Undamaged
  <2>7. \A v \in Workspaces : CliKey(v)'
    <3> TAKE v \in Workspaces
    <3>1. 1 .. key[v].generation \subseteq 1 .. key'[v].generation
      BY <2>3, <2>4 DEF Rekeyed
    <3> QED BY <3>1, <1>0, <2>1 DEF CliKey
  <2> QED BY <1>0, <2>1, <2>2, <2>5, <2>6, <2>7 DEF Well
<1>10. ASSUME NEW w \in Workspaces, GoStale(w) PROVE Well'
  <2>1. KeysWell' /\ WireWell'
    BY <1>10, SameWire DEF GoStale
  <2>2. stale' \in [Workspaces -> BOOLEAN]
    BY <1>0, <1>10 DEF GoStale
  <2> QED BY <1>0, <1>10, <2>1, <2>2 DEF GoStale, Well, CliKey
<1>11. ASSUME NEW b \in wire, Mangle(b) PROVE Well'
  <2>1. PICK bad \in Damaged(b) :
           /\ wire' = wire \cup {bad} /\ mangled' = mangled \cup {bad}
    BY <1>11 DEF Mangle
  <2>2. BundleWell(bad, key)
    BY <1>0, <1>00, MangledWell DEF WireWell
  <2>3. IsFiniteSet(wire') /\ Cardinality(wire') <= MaxWire
    <3>1. IsFiniteSet(wire) /\ Cardinality(wire) \in Nat /\ Cardinality(wire) < MaxWire
      BY <1>0, <1>11, FS_CardinalityType DEF WireWell, Mangle
    <3>3. /\ IsFiniteSet(wire \cup {bad})
          /\ Cardinality(wire \cup {bad})
               = IF bad \in wire THEN Cardinality(wire) ELSE Cardinality(wire) + 1
      BY <3>1, FS_AddElement
    <3>2. IsFiniteSet(wire \cup {bad}) /\ Cardinality(wire \cup {bad}) <= MaxWire
      BY <3>1, <3>3
    <3> QED BY <2>1, <3>1, <3>2
  <2>4. WireWell' /\ KeysWell'
    BY <1>0, <1>11, <2>1, <2>2, <2>3 DEF WireWell, KeysWell, Undamaged, Mangle
  <2> QED BY <1>0, <1>11, <2>4 DEF Mangle, Well, CliKey
<1>12. CASE UNCHANGED vars
  <2>1. KeysWell' /\ WireWell'
    BY <1>12, SameWire DEF vars
  <2> QED BY <1>0, <1>12, <2>1 DEF vars, Well, CliKey
<1> QED BY <1>1, <1>2, <1>3, <1>4, <1>5, <1>6, <1>7, <1>8, <1>9, <1>10, <1>11, <1>12 DEF Next

\* The sidecars, the copies of them, the keys and the bundles have their types,
\* whatever is imported, damaged or interleaved; every pinned agent has a log.
THEOREM FederationAlwaysTyped == Spec => []TypeOK
<1>1. IInv /\ Well => TypeOK
  <2> SUFFICES ASSUME IInv, Well PROVE TypeOK
    OBVIOUS
  <2> USE FederationAssumption DEF FederationAssumption
  <2>1. ASSUME NEW w \in Workspaces, NEW s, SessionOK(w, s, ever), SessionWell(s, key)
        PROVE  TimelineOK(s)
    <3>1. s.agent \in Ids \cup {NoAgent} /\ s.folded \in Nat /\ s.ops \in Seq(Ops)
          /\ Len(s.chain) = Len(s.ops)
      BY <2>1 DEF SessionOK
    <3>2. DOMAIN s.foreign \subseteq Ids /\ DOMAIN s.known_keys \subseteq Ids
      BY <2>1 DEF SessionWell
    <3>3. \A x \in DOMAIN s.foreign : s.foreign[x].ops \in Seq(Ops)
      BY <2>1 DEF SessionOK, LogOK
    <3>4. ASSUME NEW x \in DOMAIN s.known_keys
          PROVE  s.known_keys[x] \in Workspaces \X (1 .. MaxKeys)
      <4>1. KeyOf(x, s.known_keys[x], key)
        BY <2>1 DEF SessionWell
      <4>2. \A v \in Workspaces : 1 .. key[v].generation \subseteq 1 .. MaxKeys
        BY DEF Well, KeysWell
      <4> QED BY <4>1, <4>2 DEF KeyOf
    <3> QED BY <3>1, <3>2, <3>3, <3>4 DEF TimelineOK
  <2>2. \A w \in Workspaces : /\ TimelineOK(disk[w])
                              /\ server[w] # << >> => TimelineOK(server[w][1])
                              /\ cli[w] # << >> => TimelineOK(cli[w][1])
    BY <2>1 DEF IInv, Well
  <2> QED BY <2>2 DEF Well, KeysWell, WireWell, SessionWell, TypeOK
<1> QED BY <1>1, InitIInv, NextIInv, InitWell, NextWell, PTL DEF Spec

-----------------------------------------------------------------------------
\* One process at a time: whatever is known of an agent that did not restart
\* is an earlier history of its own.

BundlesBehind(w, H) ==
    \A b \in wire : b.agent = IdOf[w] => Before(HeadOf(b.anchor, b.chain), H)

LogsBehind(w, H) ==
    \A v \in Workspaces : IdOf[w] \in DOMAIN disk[v].foreign =>
        Before(HeadOf(GENESIS, disk[v].foreign[IdOf[w]].chain), H)

Lineage(w) ==
    LET H == SessionHead(disk[w])
    IN  /\ server[w] # << >> => Before(H, SessionHead(server[w][1]))
        /\ cli[w] # << >> => SessionHead(cli[w][1]) = H
        /\ BundlesBehind(w, H) /\ LogsBehind(w, H)

Lineages == \A w \in Workspaces : w \notin restarted => Lineage(w)

LEMMA SessionHeadLink ==
  ASSUME NEW s, NEW g, SessionWell(s, g)
  PROVE  SessionHead(s) \in Links /\ Before(GENESIS, SessionHead(s))
<1> DEFINE H == SessionHead(s)
<1>1. H \in Links /\ Len(H) > 0 /\ H[1] = "GENESIS"
  BY DEF SessionWell, Segment
<1> HIDE DEF H
<1>2. Len(GENESIS) = 1 /\ Upto(H, 1) = GENESIS
  BY <1>1 DEF GENESIS, Upto
<1>3. Len(H) \in Nat
  BY <1>1 DEF Links
<1> QED BY <1>1, <1>2, <1>3 DEF Before, H

LEMMA LogHeadLink == ASSUME NEW log, LogSegment(log) PROVE HeadOf(GENESIS, log.chain) \in Links
BY DEF LogSegment, Segment

LEMMA BundleHeadLink ==
  ASSUME NEW b, NEW g, BundleWell(b, g) PROVE HeadOf(b.anchor, b.chain) \in Links
BY DEF BundleWell, Segment

\* What was behind a history is behind a later one.
LEMMA StillBehind ==
  ASSUME Well, NEW w \in Workspaces, NEW H \in Links, NEW G \in Links, Before(H, G)
  PROVE  /\ BundlesBehind(w, H) => BundlesBehind(w, G)
         /\ LogsBehind(w, H) => LogsBehind(w, G)
<1>1. ASSUME BundlesBehind(w, H), NEW b \in wire, b.agent = IdOf[w]
      PROVE  Before(HeadOf(b.anchor, b.chain), G)
  <2>1. HeadOf(b.anchor, b.chain) \in Links
    BY BundleHeadLink DEF Well, WireWell
  <2>2. Before(HeadOf(b.anchor, b.chain), H)
    BY <1>1 DEF BundlesBehind
  <2> QED BY <2>1, <2>2, BeforeTransitive
<1>2. ASSUME LogsBehind(w, H), NEW v \in Workspaces, IdOf[w] \in DOMAIN disk[v].foreign
      PROVE  Before(HeadOf(GENESIS, disk[v].foreign[IdOf[w]].chain), G)
  <2> DEFINE log == disk[v].foreign[IdOf[w]]
  <2>1. LogSegment(log)
    BY <1>2 DEF Well, SessionWell
  <2>2. HeadOf(GENESIS, log.chain) \in Links
    BY <2>1, LogHeadLink
  <2>3. Before(HeadOf(GENESIS, log.chain), H)
    BY <1>2 DEF LogsBehind
  <2> QED BY <2>2, <2>3, BeforeTransitive
<1> QED BY <1>1, <1>2 DEF BundlesBehind, LogsBehind

LEMMA InitLineages == Init => Lineages
<1> SUFFICES ASSUME Init, NEW w \in Workspaces PROVE Lineage(w)
  BY DEF Lineages
<1> QED BY DEF Init, Lineage, BundlesBehind, LogsBehind, NewSidecar

\* A step that changes no sidecar and adds no bundle.
LEMMA SameBehind ==
  ASSUME NEW w \in Workspaces, UNCHANGED disk,
         \A b \in wire' : b.agent = IdOf[w] => \E c \in wire :
             /\ c.agent = IdOf[w]
             /\ HeadOf(b.anchor, b.chain) = HeadOf(c.anchor, c.chain),
         BundlesBehind(w, SessionHead(disk[w])), LogsBehind(w, SessionHead(disk[w]))
  PROVE  /\ BundlesBehind(w, SessionHead(disk[w]))'
         /\ LogsBehind(w, SessionHead(disk[w]))'
BY DEF BundlesBehind, LogsBehind

LEMMA NextLineages ==
  ASSUME ~Concurrent PROVE IInv /\ Well /\ InStep /\ Lineages /\ [Next]_vars => Lineages'
<1> SUFFICES ASSUME IInv, Well, InStep, Lineages, [Next]_vars,
                    NEW u \in Workspaces, u \notin restarted'
             PROVE  Lineage(u)'
  BY DEF Lineages
<1> USE FederationAssumption DEF FederationAssumption
<1> DEFINE H == SessionHead(disk[u])
<1>0. /\ DOMAIN disk = Workspaces /\ DOMAIN server = Workspaces /\ DOMAIN cli = Workspaces
      /\ \A w \in Workspaces :
            /\ DOMAIN disk[w] = Fields /\ disk[w].folded \in Nat
            /\ server[w] # << >> =>
                  DOMAIN server[w][1] = Fields /\ server[w][1].folded \in Nat
            /\ cli[w] # << >> => DOMAIN cli[w][1] = Fields /\ cli[w][1].folded \in Nat
      /\ \A b \in wire :
            DOMAIN b = BundleFields /\ b.first \in Nat /\ b.ops \in Seq(Ops)
  BY DEF IInv, SessionOK, BundleOK
<1>00. /\ \A w \in Workspaces :
             /\ SessionWell(disk[w], key)
             /\ server[w] # << >> => SessionWell(server[w][1], key)
             /\ cli[w] # << >> => SessionWell(cli[w][1], key)
       /\ \A b \in wire : BundleWell(b, key)
  BY DEF Well, WireWell
<1>000. H \in Links
  BY <1>00, SessionHeadLink
<1>r. restarted \subseteq restarted'
  BY DEF Next, vars, StartServer, Record, SaveServer, StopServer, OpenCli, Export, Import,
         Refuse, Keygen, DeleteKey, GoStale, Mangle, Restarting
<1>l. /\ server[u] # << >> => Before(H, SessionHead(server[u][1]))
      /\ cli[u] # << >> => SessionHead(cli[u][1]) = H
      /\ BundlesBehind(u, H) /\ LogsBehind(u, H)
  BY <1>r DEF Lineages, Lineage
<1>1. ASSUME NEW w \in Workspaces, StartServer(w) PROVE Lineage(u)'
  <2>1. server' = [server EXCEPT ![w] = <<Opened(w)>>] /\ UNCHANGED <<disk, cli, wire>>
    BY <1>1 DEF StartServer
  <2>2. BundlesBehind(u, H)' /\ LogsBehind(u, H)'
    BY <1>l, <2>1, SameBehind
  <2>3. w = u => Opened(w) = disk[u]
    BY <1>1 DEF StartServer, Restarting, Opened
  <2>4. server'[u] # << >> => Before(H, SessionHead(server'[u][1]))
    <3>1. CASE w = u
      <4>1. server'[u][1] = disk[u]
        BY <1>0, <2>1, <2>3, <3>1
      <4> QED BY <4>1, <1>000, BeforeItself
    <3>2. CASE w # u
      BY <3>2, <1>l, <2>1
    <3> QED BY <3>1, <3>2
  <2> QED BY <1>l, <2>1, <2>2, <2>4 DEF Lineage
<1>2. ASSUME NEW w \in Workspaces, NEW op \in Ops, Record(w, op) PROVE Lineage(u)'
  <2> DEFINE s == server[w][1]
             t == Recorded(s, op)
  <2>1. /\ server' = [server EXCEPT ![w] = <<t>>] /\ UNCHANGED <<disk, cli, wire>>
        /\ server[w] # << >>
    BY <1>2 DEF Record
  <2>2. BundlesBehind(u, H)' /\ LogsBehind(u, H)'
    BY <1>l, <2>1, SameBehind
  <2>3. SessionWell(s, key) /\ SessionWell(t, key) /\ Before(SessionHead(s), SessionHead(t))
    BY <1>0, <1>00, <2>1, RecordedWell
  <2> HIDE DEF t
  <2>4. server'[u] # << >> => Before(H, SessionHead(server'[u][1]))
    <3>1. CASE w = u
      <4>1. server'[u][1] = t /\ Before(H, SessionHead(s))
        BY <1>0, <1>l, <2>1, <3>1
      <4>2. SessionHead(s) \in Links /\ SessionHead(t) \in Links
        BY <2>3, SessionHeadLink
      <4>3. Before(H, SessionHead(t))
        <5> HIDE DEF s, H
        <5> QED BY <4>1, <4>2, <2>3, <1>000, BeforeTransitive
      <4> QED BY <4>1, <4>3
    <3>2. CASE w # u
      BY <3>2, <1>l, <2>1
    <3> QED BY <3>1, <3>2
  <2> QED BY <1>l, <2>1, <2>2, <2>4 DEF Lineage
<1>3. ASSUME NEW w \in Workspaces, SaveServer(w) PROVE Lineage(u)'
  <2> DEFINE s == CompactedIfNeeded(server[w][1])
             G == SessionHead(s)
  <2>1. /\ server[w] # << >> /\ UNCHANGED <<cli, wire>>
        /\ server' = [server EXCEPT ![w] = <<s>>] /\ disk' = [disk EXCEPT ![w] = s]
    BY <1>3 DEF SaveServer
  <2>2. SessionWell(s, key) /\ G = SessionHead(server[w][1])
    BY <1>0, <1>00, <2>1, CompactedWell
  <2>3. s.foreign = disk[w].foreign
    <3>1. SessionOK(w, server[w][1], ever)
      BY <2>1 DEF IInv
    <3>2. SameKnowledge(s, server[w][1])
      BY <3>1, CompactedKnowledge
    <3> QED BY <2>1, <3>2 DEF InStep, SameKnowledge
  <2> HIDE DEF s
  <2>4. \A v \in Workspaces : /\ disk'[v] = IF v = w THEN s ELSE disk[v]
                              /\ server'[v] = IF v = w THEN <<s>> ELSE server[v]
                              /\ disk'[v].foreign = disk[v].foreign
    BY <1>0, <2>1, <2>3
  <2>5. ASSUME NEW K, BundlesBehind(u, K), LogsBehind(u, K), K = SessionHead(disk'[u])
        PROVE  BundlesBehind(u, SessionHead(disk[u]))' /\ LogsBehind(u, SessionHead(disk[u]))'
    BY <2>1, <2>4, <2>5 DEF BundlesBehind, LogsBehind
  <2>6. CASE w = u
    <3>1. SessionHead(disk'[u]) = G /\ SessionHead(server'[u][1]) = G /\ G \in Links
      BY <2>2, <2>4, <2>6, SessionHeadLink
    <3>2. Before(H, G) /\ cli[u] = << >>
      BY <1>l, <2>1, <2>2, <2>6 DEF InStep
    <3> HIDE DEF G
    <3>3. BundlesBehind(u, G) /\ LogsBehind(u, G)
      <4> HIDE DEF H
      <4> QED BY <1>l, <1>000, <3>1, <3>2, StillBehind
    <3>4. Before(G, G)
      BY <3>1, BeforeItself
    <3> QED BY <2>1, <2>5, <3>1, <3>2, <3>3, <3>4 DEF Lineage
  <2>7. CASE w # u
    <3>1. disk'[u] = disk[u] /\ server'[u] = server[u] /\ cli' = cli
      BY <2>1, <2>4, <2>7
    <3> QED BY <1>l, <2>5, <3>1 DEF Lineage
  <2> QED BY <2>6, <2>7
<1>4. ASSUME NEW w \in Workspaces, StopServer(w) PROVE Lineage(u)'
  <2>1. server' = [server EXCEPT ![w] = << >>] /\ UNCHANGED <<disk, cli, wire>>
    BY <1>4 DEF StopServer
  <2>2. BundlesBehind(u, H)' /\ LogsBehind(u, H)'
    BY <1>l, <2>1, SameBehind
  <2>3. server'[u] # << >> => server'[u] = server[u]
    BY <1>0, <2>1
  <2> QED BY <1>l, <2>1, <2>2, <2>3 DEF Lineage
<1>5. ASSUME NEW w \in Workspaces, OpenCli(w) PROVE Lineage(u)'
  <2>1. /\ cli' = [cli EXCEPT ![w] = <<Opened(w), PublicKey(w)>>]
        /\ UNCHANGED <<disk, server, wire>>
    BY <1>5 DEF OpenCli
  <2>2. BundlesBehind(u, H)' /\ LogsBehind(u, H)'
    BY <1>l, <2>1, SameBehind
  <2>3. w = u => Opened(w) = disk[u]
    BY <1>5 DEF OpenCli, Restarting, Opened
  <2>4. cli'[u] # << >> => SessionHead(cli'[u][1]) = H
    <3>1. w = u => cli'[u][1] = disk[u]
      BY <1>0, <2>1, <2>3
    <3>2. w # u => cli'[u] = cli[u]
      BY <1>0, <2>1
    <3> QED BY <1>l, <3>1, <3>2
  <2> QED BY <1>l, <2>1, <2>2, <2>4 DEF Lineage
<1>6. ASSUME NEW w \in Workspaces, NEW since \in 0 .. MaxLen, Export(w, since)
      PROVE  Lineage(u)'
  <2> DEFINE r == [cli[w][1] EXCEPT !.agent = IdOf[w]]
             s == CompactedIfNeeded(r)
             k == cli[w][2]
             b == Bundle(s, since, k)
             G == SessionHead(s)
  <2>0. /\ cli[w] # << >> /\ SessionOK(w, cli[w][1], ever) /\ SessionWell(cli[w][1], key)
        /\ DOMAIN cli[w][1] = Fields
    BY <1>0, <1>00, <1>6 DEF Export, IInv
  <2>1. /\ SessionWell(r, key) /\ SessionHead(r) = SessionHead(cli[w][1])
        /\ SessionOK(w, r, ever) /\ r.agent = IdOf[w] /\ r.foreign = cli[w][1].foreign
    BY <2>0, AgentSetWell, AgentSetOK DEF Fields
  <2>2. /\ disk' = [disk EXCEPT ![w] = s] /\ cli' = [cli EXCEPT ![w] = << >>]
        /\ wire' = IF since < s.folded THEN wire ELSE wire \cup {b}
        /\ since <= LogicalLen(s) /\ server' = server
    BY <1>6 DEF Export
  <2> HIDE DEF r
  <2>3. /\ SessionWell(s, key) /\ G = SessionHead(cli[w][1])
        /\ SessionOK(w, s, ever) /\ s.agent = IdOf[w]
    BY <2>1, CompactedWell, CompactedOK DEF SessionOK
  <2>4. s.foreign = disk[w].foreign
    <3>1. SameKnowledge(s, r)
      BY <2>1, CompactedKnowledge
    <3> QED BY <2>0, <2>1, <3>1 DEF InStep, SameKnowledge
  <2> HIDE DEF s
  <2>5. k = NoKey \/ KeyOf(s.agent, k, key)
    BY <2>0, <2>3 DEF CliKey, KeyOf, Well
  <2> HIDE DEF k
  <2>6. ASSUME ~(since < s.folded)
        PROVE  b.agent = IdOf[w] /\ HeadOf(b.anchor, b.chain) = G
    <3>1. since \in Nat /\ s.folded <= since /\ s.agent \in Ids /\ s.folded \in Nat
      BY <2>3, <2>6 DEF SessionOK
    <3> QED BY <2>2, <2>3, <2>5, <3>1, ExportedWell
  <2> HIDE DEF b
  <2>7. \A v \in Workspaces : /\ disk'[v] = IF v = w THEN s ELSE disk[v]
                              /\ cli'[v] = IF v = w THEN << >> ELSE cli[v]
                              /\ disk'[v].foreign = disk[v].foreign
    BY <1>0, <2>2, <2>4
  <2>8. SessionHead(disk'[u]) = H
    BY <1>l, <2>0, <2>3, <2>7
  <2>9. \A c \in wire' : c.agent = IdOf[u] => Before(HeadOf(c.anchor, c.chain), H)
    <3> TAKE c \in wire'
    <3>1. CASE c \in wire
      BY <1>l, <3>1 DEF BundlesBehind
    <3>2. CASE c \notin wire
      <4>1. c = b /\ c.agent = IdOf[w] /\ HeadOf(c.anchor, c.chain) = G
        BY <2>2, <2>6, <3>2
      <4>2. c.agent = IdOf[u] => u = w /\ G = H
        BY <4>1, <1>l, <2>0, <2>3
      <4>3. Before(H, H)
        BY <1>000, BeforeItself
      <4> QED BY <4>1, <4>2, <4>3
    <3> QED BY <3>1, <3>2
  <2>10. BundlesBehind(u, H)' /\ LogsBehind(u, H)'
    BY <1>l, <2>7, <2>8, <2>9 DEF BundlesBehind, LogsBehind
  <2>11. server'[u] # << >> => Before(SessionHead(disk'[u]), SessionHead(server'[u][1]))
    BY <1>l, <2>2, <2>8
  <2>12. cli'[u] # << >> => SessionHead(cli'[u][1]) = SessionHead(disk'[u])
    BY <1>l, <2>7, <2>8
  <2> QED BY <2>10, <2>11, <2>12 DEF Lineage
<1>7. ASSUME NEW w \in Workspaces, NEW b \in wire, Import(w, b) PROVE Lineage(u)'
  <2> DEFINE q == cli[w][1]
             r == Imported(q, b)
             s == CompactedIfNeeded(r)
             G == HeadOf(b.anchor, b.chain)
             x == b.agent
  <2>1. /\ cli[w] # << >> /\ Verdict(w, q, b) = "Added" /\ UNCHANGED <<server, wire>>
        /\ disk' = [disk EXCEPT ![w] = s] /\ cli' = [cli EXCEPT ![w] = << >>]
    BY <1>7 DEF Import
  <2>2. /\ SessionWell(r, key) /\ SessionHead(r) = SessionHead(q)
        /\ HeadOf(GENESIS, r.foreign[x].chain) \in {HeadOf(GENESIS, Known(q, x).chain), G}
        /\ \A y \in DOMAIN r.foreign : y # x =>
              y \in DOMAIN q.foreign /\ r.foreign[y] = q.foreign[y]
    BY <1>0, <1>00, <2>1, ImportedWell
  <2>3. SessionOK(w, r, ever)
    BY <2>1, ImportedOK DEF IInv
  <2>4. q.foreign = disk[w].foreign
    BY <2>1 DEF InStep, SameKnowledge
  <2> HIDE DEF r
  <2>5. SessionHead(s) = SessionHead(q) /\ s.foreign = r.foreign
    <3>1. DOMAIN r = Fields /\ r.folded \in Nat
      BY <2>3 DEF SessionOK
    <3>2. SessionHead(s) = SessionHead(r)
      BY <2>2, <3>1, CompactedWell
    <3>3. SameKnowledge(s, r)
      BY <2>3, CompactedKnowledge
    <3> QED BY <2>2, <3>2, <3>3 DEF SameKnowledge
  <2> HIDE DEF s
  <2>6. \A v \in Workspaces : /\ disk'[v] = IF v = w THEN s ELSE disk[v]
                              /\ cli'[v] = IF v = w THEN << >> ELSE cli[v]
    BY <1>0, <2>1
  <2>7. SessionHead(disk'[u]) = H
    BY <1>l, <2>1, <2>5, <2>6
  <2>8. ASSUME NEW v \in Workspaces, IdOf[u] \in DOMAIN disk'[v].foreign
        PROVE  Before(HeadOf(GENESIS, disk'[v].foreign[IdOf[u]].chain), H)
    <3>1. CASE v # w \/ IdOf[u] # x
      <4>1. /\ IdOf[u] \in DOMAIN disk[v].foreign
            /\ disk'[v].foreign[IdOf[u]] = disk[v].foreign[IdOf[u]]
        BY <2>2, <2>4, <2>5, <2>6, <2>8, <3>1
      <4> QED BY <4>1, <1>l DEF LogsBehind
    <3>2. CASE v = w /\ IdOf[u] = x
      <4>1. disk'[v].foreign[IdOf[u]].chain = r.foreign[x].chain
        BY <2>5, <2>6, <3>2
      <4>2. Before(G, H)
        BY <1>l, <3>2 DEF BundlesBehind
      <4>3. Before(HeadOf(GENESIS, Known(q, x).chain), H)
        <5>1. CASE x \in DOMAIN q.foreign
          <6>1. Known(q, x) = disk[w].foreign[IdOf[u]] /\ IdOf[u] \in DOMAIN disk[w].foreign
            BY <5>1, <2>4, <3>2 DEF Known
          <6> QED BY <6>1, <1>l DEF LogsBehind
        <5>2. CASE x \notin DOMAIN q.foreign
          <6>1. HeadOf(GENESIS, Known(q, x).chain) = GENESIS
            BY <5>2 DEF Known, NoLog, HeadOf
          <6>2. Before(GENESIS, H)
            BY <1>00, SessionHeadLink
          <6> QED BY <6>1, <6>2
        <5> QED BY <5>1, <5>2
      <4> QED BY <2>2, <4>1, <4>2, <4>3
    <3> QED BY <3>1, <3>2
  <2>9. BundlesBehind(u, H)' /\ LogsBehind(u, H)'
    BY <1>l, <2>1, <2>7, <2>8 DEF BundlesBehind, LogsBehind
  <2>10. server'[u] # << >> => Before(SessionHead(disk'[u]), SessionHead(server'[u][1]))
    BY <1>l, <2>1, <2>7
  <2>11. cli'[u] # << >> => SessionHead(cli'[u][1]) = SessionHead(disk'[u])
    BY <1>l, <2>6, <2>7
  <2> QED BY <2>9, <2>10, <2>11 DEF Lineage
<1>8. ASSUME NEW w \in Workspaces, NEW b \in wire, Refuse(w, b) PROVE Lineage(u)'
  <2>1. cli' = [cli EXCEPT ![w] = << >>] /\ UNCHANGED <<disk, server, wire>>
    BY <1>8 DEF Refuse
  <2>2. BundlesBehind(u, H)' /\ LogsBehind(u, H)'
    BY <1>l, <2>1, SameBehind
  <2>3. cli'[u] # << >> => cli'[u] = cli[u]
    BY <1>0, <2>1
  <2> QED BY <1>l, <2>1, <2>2, <2>3 DEF Lineage
<1>9. ASSUME UNCHANGED <<disk, server, cli, wire>> PROVE Lineage(u)'
  <2>1. BundlesBehind(u, H)' /\ LogsBehind(u, H)'
    BY <1>l, <1>9, SameBehind
  <2> QED BY <1>l, <1>9, <2>1 DEF Lineage
<1>10. ASSUME NEW b \in wire, Mangle(b) PROVE Lineage(u)'
  <2>1. PICK bad \in Damaged(b) : wire' = wire \cup {bad}
    BY <1>10 DEF Mangle
  <2>2. bad.agent = b.agent /\ HeadOf(bad.anchor, bad.chain) = HeadOf(b.anchor, b.chain)
    BY <1>0, <1>00, MangledWell
  <2>3. UNCHANGED <<disk, server, cli>>
    BY <1>10 DEF Mangle
  <2>4. BundlesBehind(u, H)' /\ LogsBehind(u, H)'
    BY <1>l, <2>1, <2>2, <2>3, SameBehind
  <2> QED BY <1>l, <2>3, <2>4 DEF Lineage
<1>11. ASSUME NEW w \in Workspaces, Keygen(w) \/ DeleteKey(w) \/ GoStale(w) PROVE Lineage(u)'
  BY <1>9, <1>11 DEF Keygen, DeleteKey, GoStale
<1>12. CASE UNCHANGED vars
  BY <1>9, <1>12 DEF vars
<1> QED BY <1>1, <1>2, <1>3, <1>4, <1>5, <1>6, <1>7, <1>8, <1>10, <1>11, <1>12 DEF Next
-----------------------------------------------------------------------------
\* Who is accused: an undamaged bundle of an agent that neither restarted nor
\* rotated its key passes every check but those of order, of a missing
\* signature and of the reader.
LEMMA HonestAccepted ==
  ASSUME IInv, Well, InStep, Lineages,
         NEW v \in Workspaces, cli[v] # << >>, NEW b \in wire, b \notin mangled,
         NEW w \in Workspaces, IdOf[w] = b.agent, w \notin restarted,
         key[w].generation <= 1
  PROVE  Verdict(v, cli[v][1], b) \notin {"BadSignature", "KeyMismatch", "Tampered", "Diverged"}
<1> USE FederationAssumption DEF FederationAssumption
<1> DEFINE s == cli[v][1]
           x == b.agent
           log == Known(s, x)
           B == HeadOf(b.anchor, b.chain)
           L == HeadOf(GENESIS, log.chain)
           H == SessionHead(disk[w])
<1>1. /\ SessionWell(s, key) /\ SessionWell(disk[w], key) /\ BundleWell(b, key)
      /\ Undamaged(b) /\ b.first \in Nat /\ s.foreign = disk[v].foreign
  BY DEF Well, WireWell, IInv, BundleOK, InStep, SameKnowledge
<1>2. Signed(b) => GoodSignature(b)
  BY <1>1 DEF Undamaged
<1>3. ASSUME NEW k, KeyOf(x, k, key) PROVE k = <<w, 1>>
  <2>1. key[w].generation \in Nat
    BY DEF Well, KeysWell
  <2>2. PICK n \in 1 .. key[w].generation : k = <<w, n>>
    BY <1>3 DEF KeyOf
  <2>3. n = 1
    BY <2>1, <2>2
  <2> QED BY <2>2, <2>3
<1>4. ~KeyChanged(s, b)
  <2> SUFFICES ASSUME Signed(b), x \in DOMAIN s.known_keys
               PROVE  s.known_keys[x] = b.pubkey
    BY DEF KeyChanged
  <2>1. KeyOf(x, s.known_keys[x], key) /\ KeyOf(x, b.pubkey, key)
    BY <1>1 DEF SessionWell, BundleWell
  <2> QED BY <1>3, <2>1
<1>5. Segment(B, b.first + 1, b.anchor, b.ops, b.chain)
  BY <1>1 DEF Undamaged
<1>6. Intact(b)
  BY <1>1, <1>5, SegmentIntact
<1>7. H \in Links /\ Before(GENESIS, H)
  BY <1>1, SessionHeadLink
<1>8. Before(B, H) /\ LogsBehind(w, H)
  BY DEF Lineages, Lineage, BundlesBehind
<1>9. Before(L, H)
  <2>1. CASE x \in DOMAIN s.foreign
    <3>1. log = disk[v].foreign[IdOf[w]] /\ IdOf[w] \in DOMAIN disk[v].foreign
      BY <2>1, <1>1 DEF Known
    <3> QED BY <3>1, <1>8 DEF LogsBehind
  <2>2. CASE x \notin DOMAIN s.foreign
    <3>1. L = GENESIS
      BY <2>2 DEF Known, NoLog, HeadOf
    <3> QED BY <3>1, <1>7
  <2> QED BY <2>1, <2>2
<1>10. Segment(L, 1, GENESIS, log.ops, log.chain)
  BY <1>1, KnownSegment DEF LogSegment
<1>11. b.first <= Len(log.ops) => Continues(b, log)
  <2> HIDE DEF B, L, H, log
  <2> QED BY <1>1, <1>5, <1>7, <1>8, <1>9, <1>10, SegmentsAgree
<1>12. Len(log.ops) \in Nat
  BY <1>10 DEF Segment
<1>13. b.first > Len(log.ops) \/ Continues(b, log)
  <2> HIDE DEF log
  <2> QED BY <1>1, <1>11, <1>12
<1> QED BY <1>2, <1>4, <1>6, <1>13 DEF Verdict

LEMMA NextOnlyRestarts ==
  IInv /\ Well /\ InStep /\ Lineages /\ OnlyRestartsDiverge /\ [Next]_vars
    => OnlyRestartsDiverge'
<1> SUFFICES ASSUME IInv, Well, InStep, Lineages, OnlyRestartsDiverge, [Next]_vars,
                    NEW w \in Workspaces, IdOf[w] \in rejected',
                    w \notin restarted', ~(key[w].generation > 1)'
             PROVE  FALSE
  BY DEF OnlyRestartsDiverge
<1>1. KeysWell /\ DOMAIN key = Workspaces
  BY DEF Well, KeysWell
<1>2. restarted \subseteq restarted'
  BY DEF Next, vars, StartServer, Record, SaveServer, StopServer, OpenCli, Export, Import,
         Refuse, Keygen, DeleteKey, GoStale, Mangle, Restarting
<1>3. key'[w].generation \in {key[w].generation, key[w].generation + 1}
  <2>1. ASSUME NEW u \in Workspaces, Keygen(u) \/ DeleteKey(u)
        PROVE  key'[w].generation \in {key[w].generation, key[w].generation + 1}
    BY <1>1, <2>1 DEF KeysWell, Keygen, DeleteKey
  <2>2. UNCHANGED key => key'[w].generation = key[w].generation
    OBVIOUS
  <2> QED BY <2>1, <2>2 DEF Next, vars, StartServer, Record, SaveServer, StopServer,
                            OpenCli, Export, Import, Refuse, GoStale, Mangle
<1>4. key[w].generation \in Nat
  BY <1>1 DEF KeysWell
<1>5. key[w].generation <= 1 /\ w \notin restarted
  BY <1>2, <1>3, <1>4
<1>6. IdOf[w] \notin rejected
  BY <1>4, <1>5 DEF OnlyRestartsDiverge
<1>7. PICK v \in Workspaces, b \in wire : Refuse(v, b) /\ IdOf[w] \in rejected'
  BY <1>6 DEF Next, vars, StartServer, Record, SaveServer, StopServer, OpenCli, Export,
              Import, Keygen, DeleteKey, GoStale, Mangle
<1>8. /\ cli[v] # << >> /\ b \notin mangled /\ b.agent = IdOf[w]
      /\ Verdict(v, cli[v][1], b) \in {"BadSignature", "KeyMismatch", "Tampered", "Diverged"}
  BY <1>6, <1>7 DEF Refuse
<1> QED BY <1>5, <1>8, HonestAccepted

\* `import_bundle` accuses nobody falsely: whatever is lost, duplicated, reordered
\* or damaged, as long as one process at a time works on a workspace, a refusal of
\* an undamaged bundle as forged, tampered with, diverging or signed by another
\* key is about an agent whose timeline was restarted or whose key was rotated.
THEOREM OnlyRestartsAlwaysDiverge ==
  ASSUME ~Concurrent PROVE Spec => []OnlyRestartsDiverge
<1>1. Init => OnlyRestartsDiverge
  BY DEF Init, OnlyRestartsDiverge
<1>2. IInv /\ InStep /\ [Next]_vars => InStep'
  BY NextLearned
<1>3. IInv /\ Well /\ InStep /\ Lineages /\ [Next]_vars => Lineages'
  BY NextLineages
<1> QED BY <1>1, <1>2, <1>3, InitIInv, InitWell, InitInStep, InitLineages, NextIInv,
           NextWell, NextOnlyRestarts, PTL DEF Spec
-----------------------------------------------------------------------------
\* Whose views agree: a workspace has no log of itself, and no bundle bears a
\* name that its workspace did not save.
Named ==
    /\ \A w \in Workspaces :
          /\ IdOf[w] \notin DOMAIN disk[w].foreign
          /\ server[w] # << >> => server[w][1].agent = disk[w].agent
          /\ cli[w] # << >> => cli[w][1].agent = disk[w].agent
    /\ \A b \in wire, w \in Workspaces : b.agent = IdOf[w] => disk[w].agent = IdOf[w]

LEMMA AgentKept ==
  ASSUME NEW s, DOMAIN s = Fields
  PROVE  /\ CompactedIfNeeded(s).agent = s.agent /\ Restarted(s).agent = s.agent
         /\ \A op \in Ops : Recorded(s, op).agent = s.agent
         /\ \A b : /\ Imported(s, b).agent = s.agent
                   /\ DOMAIN Imported(s, b).foreign = DOMAIN s.foreign \cup {b.agent}
BY DEF CompactedIfNeeded, Compacted, Restarted, Recorded, Imported, Put, Fields

LEMMA InitNamed == Init => Named
BY DEF Init, Named, NewSidecar

LEMMA NextNamed == IInv /\ InStep /\ Named /\ [Next]_vars => Named'
<1> SUFFICES ASSUME IInv, InStep, Named, [Next]_vars PROVE Named'
  OBVIOUS
<1> USE FederationAssumption DEF FederationAssumption
<1>0. /\ DOMAIN disk = Workspaces /\ DOMAIN server = Workspaces /\ DOMAIN cli = Workspaces
      /\ \A w \in Workspaces :
            /\ DOMAIN disk[w] = Fields
            /\ server[w] # << >> => DOMAIN server[w][1] = Fields
            /\ cli[w] # << >> =>
                  DOMAIN cli[w][1] = Fields /\ cli[w][1].agent \in {NoAgent, IdOf[w]}
  BY DEF IInv, SessionOK
<1>1. ASSUME NEW w \in Workspaces PROVE Opened(w).agent = disk[w].agent
  BY <1>0, AgentKept DEF Opened
<1>2. ASSUME NEW w \in Workspaces, StartServer(w) PROVE Named'
  <2>1. /\ UNCHANGED <<disk, cli, wire>>
        /\ \A v \in Workspaces : server'[v] = IF v = w THEN <<Opened(w)>> ELSE server[v]
    BY <1>0, <1>2 DEF StartServer
  <2> QED BY <1>1, <2>1 DEF Named
<1>3. ASSUME NEW w \in Workspaces, NEW op \in Ops, Record(w, op) PROVE Named'
  <2> DEFINE s == Recorded(server[w][1], op)
  <2>1. /\ server[w] # << >> /\ UNCHANGED <<disk, cli, wire>>
        /\ \A v \in Workspaces : server'[v] = IF v = w THEN <<s>> ELSE server[v]
    BY <1>0, <1>3 DEF Record
  <2>2. s.agent = disk[w].agent
    BY <1>0, <2>1, AgentKept DEF Named
  <2> HIDE DEF s
  <2> QED BY <2>1, <2>2 DEF Named
<1>4. ASSUME NEW w \in Workspaces, SaveServer(w) PROVE Named'
  <2> DEFINE s == CompactedIfNeeded(server[w][1])
  <2>1. /\ server[w] # << >> /\ UNCHANGED <<cli, wire>>
        /\ \A v \in Workspaces : /\ server'[v] = IF v = w THEN <<s>> ELSE server[v]
                                 /\ disk'[v] = IF v = w THEN s ELSE disk[v]
    BY <1>0, <1>4 DEF SaveServer
  <2>2. s.agent = disk[w].agent
    BY <1>0, <2>1, AgentKept DEF Named
  <2>3. s.foreign = disk[w].foreign
    <3>1. SameKnowledge(s, server[w][1])
      BY <2>1, CompactedKnowledge DEF IInv
    <3> QED BY <2>1, <3>1 DEF InStep, SameKnowledge
  <2> HIDE DEF s
  <2> QED BY <2>1, <2>2, <2>3 DEF Named
<1>5. ASSUME NEW w \in Workspaces, StopServer(w) PROVE Named'
  <2>1. /\ UNCHANGED <<disk, cli, wire>>
        /\ \A v \in Workspaces : server'[v] = IF v = w THEN << >> ELSE server[v]
    BY <1>0, <1>5 DEF StopServer
  <2> QED BY <2>1 DEF Named
<1>6. ASSUME NEW w \in Workspaces, OpenCli(w) PROVE Named'
  <2>1. /\ UNCHANGED <<disk, server, wire>>
        /\ \A v \in Workspaces :
              cli'[v] = IF v = w THEN <<Opened(w), PublicKey(w)>> ELSE cli[v]
    BY <1>0, <1>6 DEF OpenCli
  <2> QED BY <1>1, <2>1 DEF Named
<1>7. ASSUME NEW w \in Workspaces, NEW since \in 0 .. MaxLen, Export(w, since) PROVE Named'
  <2> DEFINE r == [cli[w][1] EXCEPT !.agent = IdOf[w]]
             s == CompactedIfNeeded(r)
             b == Bundle(s, since, cli[w][2])
  <2>1. /\ cli[w] # << >> /\ server[w] = << >> /\ UNCHANGED server
        /\ \A v \in Workspaces : /\ cli'[v] = IF v = w THEN << >> ELSE cli[v]
                                 /\ disk'[v] = IF v = w THEN s ELSE disk[v]
        /\ wire' \subseteq wire \cup {b}
    BY <1>0, <1>7 DEF Export, InStep
  <2>2. DOMAIN r = Fields /\ r.agent = IdOf[w] /\ r.foreign = disk[w].foreign
        /\ SessionOK(w, r, ever)
    BY <1>0, <2>1, AgentSetOK DEF Fields, InStep, SameKnowledge, IInv
  <2> HIDE DEF r
  <2>3. s.agent = IdOf[w]
    BY <2>2, AgentKept
  <2>4. s.foreign = disk[w].foreign
    BY <2>2, CompactedKnowledge DEF SameKnowledge
  <2> HIDE DEF s
  <2>5. b.agent = IdOf[w]
    BY <2>3 DEF Bundle
  <2> HIDE DEF b
  <2> QED BY <2>1, <2>3, <2>4, <2>5 DEF Named
<1>8. ASSUME NEW w \in Workspaces, NEW b \in wire, Import(w, b) PROVE Named'
  <2> DEFINE q == cli[w][1]
             r == Imported(q, b)
             s == CompactedIfNeeded(r)
  <2>1. /\ cli[w] # << >> /\ server[w] = << >> /\ Verdict(w, q, b) = "Added"
        /\ UNCHANGED <<server, wire>>
        /\ \A v \in Workspaces : /\ cli'[v] = IF v = w THEN << >> ELSE cli[v]
                                 /\ disk'[v] = IF v = w THEN s ELSE disk[v]
    BY <1>0, <1>8 DEF Import, InStep
  <2>2. b.agent # q.agent
    BY <2>1 DEF Verdict
  <2>3. r.agent = q.agent /\ DOMAIN r.foreign = DOMAIN q.foreign \cup {b.agent}
    BY <1>0, <2>1, AgentKept
  <2>4. SessionOK(w, r, ever)
    BY <2>1, ImportedOK DEF IInv
  <2> HIDE DEF r
  <2>5. s.agent = r.agent /\ s.foreign = r.foreign
    BY <2>4, AgentKept, CompactedKnowledge DEF SessionOK, SameKnowledge
  <2> HIDE DEF s
  <2>6. q.agent = disk[w].agent /\ q.foreign = disk[w].foreign
    BY <2>1 DEF Named, InStep, SameKnowledge
  <2>7. IdOf[w] \notin DOMAIN s.foreign /\ s.agent = disk[w].agent
    BY <2>2, <2>3, <2>5, <2>6 DEF Named
  <2> QED BY <2>1, <2>7 DEF Named
<1>9. ASSUME NEW w \in Workspaces, NEW b \in wire, Refuse(w, b) PROVE Named'
  <2>1. /\ UNCHANGED <<disk, server, wire>>
        /\ \A v \in Workspaces : cli'[v] = IF v = w THEN << >> ELSE cli[v]
    BY <1>0, <1>9 DEF Refuse
  <2> QED BY <2>1 DEF Named
<1>10. ASSUME NEW w \in Workspaces, Keygen(w) \/ DeleteKey(w) \/ GoStale(w) PROVE Named'
  BY <1>10 DEF Keygen, DeleteKey, GoStale, Named
<1>11. ASSUME NEW b \in wire, Mangle(b) PROVE Named'
  <2>1. PICK bad \in Damaged(b) : wire' = wire \cup {bad}
    BY <1>11 DEF Mangle
  <2>2. bad.agent = b.agent
    BY <2>1 DEF Damaged, IInv, BundleOK, BundleFields
  <2> QED BY <1>11, <2>1, <2>2 DEF Mangle, Named
<1>12. CASE UNCHANGED vars
  BY <1>12 DEF vars, Named
<1> QED BY <1>2, <1>3, <1>4, <1>5, <1>6, <1>7, <1>8, <1>9, <1>10, <1>11, <1>12 DEF Next

\* What `merged_view` replays of an agent is told by the head of its chain.
LEMMA StreamOfHead ==
  ASSUME IInv, Well, Named, NEW w \in Workspaces,
         disk[w].agent # NoAgent, disk[w].folded = 0,
         NEW x \in DOMAIN KnownHeads(disk[w])
  PROVE  /\ DOMAIN Streams(disk[w]) = DOMAIN KnownHeads(disk[w])
         /\ \E anchor, chain : Segment(KnownHeads(disk[w])[x], 1, anchor,
                                       Streams(disk[w])[x], chain)
<1> DEFINE s == disk[w]
<1>1. s.agent = IdOf[w] /\ s.agent \notin DOMAIN s.foreign /\ SessionWell(s, key)
  BY DEF IInv, SessionOK, Named, Well
<1> HIDE DEF s
<1>2. s.agent # NoAgent /\ s.folded = 0 /\ x \in DOMAIN KnownHeads(s)
  BY DEF s
<1>3. DOMAIN Streams(s) = DOMAIN KnownHeads(s) /\ x \in DOMAIN s.foreign \cup {s.agent}
  BY <1>2 DEF Streams, KnownHeads
<1>4. CASE x = s.agent
  <2>1. KnownHeads(s)[x] = SessionHead(s) /\ Streams(s)[x] = s.ops
    BY <1>1, <1>2, <1>4 DEF Streams, KnownHeads
  <2>2. s.folded + 1 = 1
    BY <1>2
  <2>3. Segment(SessionHead(s), 1, s.anchor, s.ops, s.chain)
    BY <1>1, <2>2 DEF SessionWell
  <2> QED BY <1>3, <2>1, <2>3 DEF s
<1>5. CASE x # s.agent
  <2>1. /\ x \in DOMAIN s.foreign
        /\ KnownHeads(s)[x] = HeadOf(GENESIS, s.foreign[x].chain)
        /\ Streams(s)[x] = s.foreign[x].ops
    BY <1>2, <1>3, <1>5 DEF Streams, KnownHeads
  <2>2. LogSegment(s.foreign[x])
    BY <1>1, <2>1 DEF SessionWell
  <2> QED BY <1>3, <2>1, <2>2 DEF LogSegment, s
<1> QED BY <1>4, <1>5

\* `merged_view` "converges": as long as one process at a time works on a
\* workspace, two workspaces that agree on every chain head replay the same
\* operations under the same names, unless one of them compacted.
THEOREM ViewsAlwaysConverge ==
  ASSUME ~Concurrent PROVE Spec => []ViewsConverge
<1>1. IInv /\ Well /\ Named => ViewsConverge
  <2> SUFFICES ASSUME IInv, Well, Named, NEW v \in Workspaces, NEW w \in Workspaces,
                      disk[v].agent # NoAgent, disk[w].agent # NoAgent,
                      disk[v].folded = 0, disk[w].folded = 0,
                      KnownHeads(disk[v]) = KnownHeads(disk[w])
               PROVE  Streams(disk[v]) = Streams(disk[w])
    BY DEF ViewsConverge, Sidecars
  <2> DEFINE D == DOMAIN KnownHeads(disk[v])
  <2>1. ASSUME NEW x \in D PROVE Streams(disk[v])[x] = Streams(disk[w])[x]
    <3>1. PICK a1, c1 : Segment(KnownHeads(disk[v])[x], 1, a1, Streams(disk[v])[x], c1)
      BY StreamOfHead
    <3>2. PICK a2, c2 : Segment(KnownHeads(disk[v])[x], 1, a2, Streams(disk[w])[x], c2)
      BY StreamOfHead
    <3> QED BY <3>1, <3>2, SameHeadSameOps
  <2>2. DOMAIN Streams(disk[v]) = D /\ DOMAIN Streams(disk[w]) = D
    <3>1. disk[v].agent \in D /\ disk[v].agent \in DOMAIN KnownHeads(disk[w])
      BY DEF KnownHeads
    <3> QED BY <3>1, StreamOfHead
  <2>3. \A s \in {disk[v], disk[w]} : Streams(s) = [x \in DOMAIN Streams(s) |-> Streams(s)[x]]
    BY DEF Streams
  <2> QED BY <2>1, <2>2, <2>3
<1>2. IInv /\ InStep /\ [Next]_vars => InStep'
  BY NextLearned
<1> QED BY <1>1, <1>2, InitIInv, InitWell, InitInStep, InitNamed, NextIInv, NextWell,
           NextNamed, PTL DEF Spec
=============================================================================
