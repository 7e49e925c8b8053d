--------------------------- MODULE SequenceLemmas ---------------------------
(***************************************************************************)
(* What FoldLeft and FlattenSeq compute, step by step, and when a function  *)
(* may be defined by recursion.                                            *)
(***************************************************************************)
EXTENDS Naturals, FiniteSetsExt, SequencesExt, WellFoundedInduction, TLAPS

\* A set that has 0 and the successors of its numbers has all numbers.
LEMMA NatsBySteps ==
  ASSUME NEW S, 0 \in S, \A n \in Nat : n \in S => n + 1 \in S
  PROVE  Nat \subseteq S
<1> DEFINE T == Nat \ S
<1> SUFFICES ASSUME T # {} PROVE FALSE
  OBVIOUS
<1>1. PICK x \in T : \A y \in T : ~(<<y, x>> \in OpToRel(<, Nat))
  <2>1. T \subseteq Nat
    OBVIOUS
  <2> QED
    BY ONLY <2>1, T # {}, WFMin, NatLessThanWellFounded
<1>2. \A y \in T : ~(y < x)
  BY <1>1 DEF OpToRel
<1>3. x - 1 \in Nat /\ x - 1 \notin T
  BY <1>2
<1> QED
  BY <1>3

\* A set of numbers that is not empty has a least one.
LEMMA MinIsLeast ==
  ASSUME NEW S, S \subseteq Nat, S # {}
  PROVE  Min(S) \in S /\ \A k \in S : Min(S) <= k
<1> DEFINE Below == {n \in Nat : \A k \in S : n <= k}
<1>1. PICK n \in Nat : n \in Below /\ n + 1 \notin Below
  <2>1. 0 \in Below
    OBVIOUS
  <2>2. PICK k \in S : TRUE
    OBVIOUS
  <2>3. k + 1 \in Nat /\ k + 1 \notin Below
    BY <2>2
  <2> HIDE DEF Below
  <2> QED
    BY <2>1, <2>3, NatsBySteps
<1>2. n \in S
  BY <1>1
<1> QED
  BY <1>1, <1>2 DEF Min

\* A set of numbers up to n that is not empty has a greatest one.
LEMMA MaxIsGreatest ==
  ASSUME NEW n \in Nat, NEW S, S \subseteq 0 .. n, S # {}
  PROVE  Max(S) \in S /\ \A k \in S : k <= Max(S)
<1> DEFINE T == {n - k : k \in S}
<1>1. T \subseteq Nat /\ T # {}
  <2>1. PICK k \in S : TRUE
    OBVIOUS
  <2>2. n - k \in T
    OBVIOUS
  <2> QED
    BY <2>2
<1>2. PICK m \in T : \A k \in T : m <= k
  <2> HIDE DEF T
  <2> QED
    BY <1>1, MinIsLeast
<1>3. n - m \in S /\ \A k \in S : k <= n - m
  BY <1>2
<1> QED
  BY <1>3 DEF Max

-----------------------------------------------------------------------------
\* The runs of a fold over the numbers up to n.
IsFold(h, n, base, G) ==
  h = [s \in SUBSET (1 .. n) |-> IF s = {} THEN base ELSE G[<<Max(s), h[s \ {Max(s)}]>>]]

\* Such a function exists, whatever is computed in its steps.
LEMMA FoldExists ==
  ASSUME NEW n \in Nat, NEW X, NEW base \in X, NEW G \in [(1 .. n) \X X -> X]
  PROVE  \E h \in [SUBSET (1 .. n) -> X] : IsFold(h, n, base, G)
<1> DEFINE Has(k) == k <= n => \E h \in [SUBSET (1 .. k) -> X] : IsFold(h, k, base, G)
           S == {k \in Nat : Has(k)}
<1>1. Has(0)
  <2> DEFINE h == [s \in SUBSET (1 .. 0) |-> base]
  <2>1. h \in [SUBSET (1 .. 0) -> X]
    OBVIOUS
  <2>2. IsFold(h, 0, base, G)
    <3>1. \A s \in SUBSET (1 .. 0) : s = {}
      OBVIOUS
    <3> QED
      BY <3>1 DEF IsFold
  <2> QED
    BY <2>1, <2>2
<1>2. ASSUME NEW k \in Nat, Has(k) PROVE Has(k + 1)
  <2> SUFFICES ASSUME k + 1 <= n
               PROVE  \E h \in [SUBSET (1 .. (k + 1)) -> X] : IsFold(h, k + 1, base, G)
    OBVIOUS
  <2>0. k <= n
    OBVIOUS
  <2>1. PICK h \in [SUBSET (1 .. k) -> X] : IsFold(h, k, base, G)
    BY <1>2, <2>0, Zenon
  <2> DEFINE g == [s \in SUBSET (1 .. (k + 1)) |->
                     IF k + 1 \in s THEN G[<<k + 1, h[s \ {k + 1}]>>] ELSE h[s]]
  <2>2. \A s \in SUBSET (1 .. (k + 1)) :
          s \ {k + 1} \in SUBSET (1 .. k) /\ (k + 1 \notin s => s \in SUBSET (1 .. k))
    OBVIOUS
  <2>3. g \in [SUBSET (1 .. (k + 1)) -> X]
    BY <2>1, <2>2
  <2>4. ASSUME NEW s \in SUBSET (1 .. (k + 1)), s # {}
        PROVE  Max(s) \in s /\ \A i \in s : i <= Max(s)
    <3>1. k + 1 \in Nat /\ s \subseteq 0 .. (k + 1)
      OBVIOUS
    <3> QED
      BY ONLY <2>4, <3>1, MaxIsGreatest
  <2>5. ASSUME NEW s \in SUBSET (1 .. (k + 1))
        PROVE  g[s] = IF s = {} THEN base ELSE G[<<Max(s), g[s \ {Max(s)}]>>]
    <3>1. CASE k + 1 \in s
      <4>1. Max(s) = k + 1
        <5>1. Max(s) \in 1 .. (k + 1) /\ k + 1 <= Max(s)
          BY <3>1, <2>4
        <5> QED
          BY <5>1
      <4>2. g[s] = G[<<k + 1, h[s \ {k + 1}]>>]
        BY <3>1
      <4>3. g[s \ {k + 1}] = h[s \ {k + 1}]
        BY <2>2
      <4> HIDE DEF g
      <4> QED
        BY <3>1, <4>1, <4>2, <4>3
    <3>2. CASE k + 1 \notin s
      <4>1. s \in SUBSET (1 .. k) /\ s \ {Max(s)} \in SUBSET (1 .. k)
        BY <2>2, <3>2
      <4>2. g[s] = h[s] /\ g[s \ {Max(s)}] = h[s \ {Max(s)}]
        BY <3>2, <4>1
      <4>3. h[s] = IF s = {} THEN base ELSE G[<<Max(s), h[s \ {Max(s)}]>>]
        BY <2>1, <4>1 DEF IsFold
      <4> HIDE DEF g
      <4> QED
        BY <4>2, <4>3
    <3> QED
      BY <3>1, <3>2
  <2>6. g = [s \in SUBSET (1 .. (k + 1)) |-> g[s]]
    OBVIOUS
  <2>7. IsFold(g, k + 1, base, G)
    <3> HIDE DEF g
    <3> QED
      BY <2>5, <2>6 DEF IsFold
  <2> HIDE DEF g
  <2> QED
    BY <2>3, <2>7
<1>3. Nat \subseteq S
  <2> HIDE DEF Has
  <2>1. 0 \in S /\ \A k \in Nat : k \in S => k + 1 \in S
    BY <1>1, <1>2
  <2> HIDE DEF S
  <2> QED
    BY <2>1, NatsBySteps
<1>4. Has(n)
  <2> HIDE DEF Has
  <2> QED
    BY <1>3
<1>5. n <= n
  OBVIOUS
<1> QED
  BY <1>4, <1>5, Zenon

\* The steps of a fold along a sequence take the numbers up to its length one
\* after the other.
LEMMA UpTo ==
  ASSUME NEW n \in Nat, NEW k \in 1 .. n
  PROVE  /\ 1 .. k \in SUBSET (1 .. n) /\ 1 .. k # {}
         /\ Max(1 .. k) = k
         /\ (1 .. k) \ {k} = 1 .. (k - 1)
<1>1. 1 .. k \subseteq 0 .. n /\ 1 .. k # {} /\ k \in 1 .. k
  OBVIOUS
<1>2. Max(1 .. k) \in 1 .. k /\ k <= Max(1 .. k)
  BY <1>1, MaxIsGreatest
<1> QED
  BY <1>1, <1>2


\* The results f[i] of n steps, each computed from the one before.
IsRun(f, n, base, G) == f[0] = base /\ \A i \in 1 .. n : f[i] = G[<<i, f[i - 1]>>]

\* What a step may compute from its number and the result of the step before
\* is the result of steps that follow one another.
LEMMA RunExists ==
  ASSUME NEW n \in Nat, NEW X, NEW base \in X, NEW G \in [(1 .. n) \X X -> X]
  PROVE  \E f \in [0 .. n -> X] : IsRun(f, n, base, G)
<1>1. PICK h \in [SUBSET (1 .. n) -> X] : IsFold(h, n, base, G)
  BY FoldExists
<1> DEFINE f == [i \in 0 .. n |-> h[1 .. i]]
<1>2. \A i \in 0 .. n : 1 .. i \in SUBSET (1 .. n)
  OBVIOUS
<1>3. f \in [0 .. n -> X]
  BY <1>2
<1>4. f[0] = base
  <2>1. 1 .. 0 = {} /\ {} \in SUBSET (1 .. n) /\ f[0] = h[1 .. 0]
    OBVIOUS
  <2>2. h[{}] = base
    BY <1>1 DEF IsFold
  <2> HIDE DEF f
  <2> QED
    BY <2>1, <2>2
<1>5. ASSUME NEW i \in 1 .. n PROVE f[i] = G[<<i, f[i - 1]>>]
  <2>1. h[1 .. i] = G[<<Max(1 .. i), h[(1 .. i) \ {Max(1 .. i)}]>>]
    BY <1>1, UpTo DEF IsFold
  <2>2. h[1 .. i] = G[<<i, h[1 .. (i - 1)]>>]
    BY <2>1, UpTo
  <2>3. f[i] = h[1 .. i] /\ f[i - 1] = h[1 .. (i - 1)]
    OBVIOUS
  <2> HIDE DEF f
  <2> QED
    BY <2>2, <2>3
<1> HIDE DEF f
<1>6. IsRun(f, n, base, G)
  BY <1>4, <1>5 DEF IsRun
<1> QED
  BY <1>3, <1>6

\* A function that computes a step wherever the one before has a result in X.
Computes(fold, n, X, base, G) ==
  /\ fold[{}] = base
  /\ \A s \in SUBSET (1 .. n) :
       s # {} /\ fold[s \ {Max(s)}] \in X => fold[s] = G[<<Max(s), fold[s \ {Max(s)}]>>]

HasRun(fold, n, X, base, G) ==
  \E f \in [0 .. n -> X] : /\ IsRun(f, n, base, G)
                           /\ \A i \in 1 .. n : f[i - 1] \in X
                           /\ f[n] = fold[1 .. n]

\* It has a run.
LEMMA FoldIsRun ==
  ASSUME NEW n \in Nat, NEW X, NEW base \in X, NEW G \in [(1 .. n) \X X -> X], NEW fold,
         Computes(fold, n, X, base, G)
  PROVE  HasRun(fold, n, X, base, G)
<1>1. ASSUME NEW i \in 1 .. n, fold[1 .. (i - 1)] \in X
      PROVE  fold[1 .. i] = G[<<i, fold[1 .. (i - 1)]>>] /\ fold[1 .. i] \in X
  <2>1. fold[1 .. i] = G[<<i, fold[1 .. (i - 1)]>>]
    BY <1>1, UpTo DEF Computes
  <2> QED
    BY <1>1, <2>1
<1> DEFINE T == {i \in Nat : i \in 0 .. n => fold[1 .. i] \in X}
<1>2. fold[1 .. 0] = base
  <2>1. 1 .. 0 = {}
    OBVIOUS
  <2> QED
    BY <2>1 DEF Computes
<1>3. Nat \subseteq T
  <2>1. 0 \in T
    BY <1>2
  <2>2. ASSUME NEW i \in Nat, i \in T PROVE i + 1 \in T
    <3> SUFFICES ASSUME i + 1 \in 1 .. n PROVE fold[1 .. (i + 1)] \in X
      OBVIOUS
    <3>1. fold[1 .. ((i + 1) - 1)] \in X
      <4>1. fold[1 .. i] \in X /\ (i + 1) - 1 = i
        BY <2>2
      <4> QED
        BY <4>1
    <3> QED
      BY <1>1, <3>1
  <2> HIDE DEF T
  <2> QED
    BY <2>1, <2>2, NatsBySteps
<1> DEFINE f == [i \in 0 .. n |-> fold[1 .. i]]
<1>4. f \in [0 .. n -> X]
  BY <1>3
<1>5. IsRun(f, n, base, G)
  <2>1. \A i \in 0 .. n : f[i] = fold[1 .. i] /\ fold[1 .. i] \in X
    BY <1>3
  <2>2. \A i \in 1 .. n : i \in 0 .. n /\ i - 1 \in 0 .. n
    OBVIOUS
  <2>3. f[0] = base
    BY <1>2, <2>1
  <2> HIDE DEF f
  <2> QED
    BY <1>1, <2>1, <2>2, <2>3 DEF IsRun
<1>6. f[n] = fold[1 .. n]
  OBVIOUS
<1>7. \A i \in 1 .. n : f[i - 1] \in X
  BY <1>3
<1> HIDE DEF f
<1> QED
  BY <1>4, <1>5, <1>6, <1>7 DEF HasRun

-----------------------------------------------------------------------------
\* Where the elements of a concatenation come from.
LEMMA ConcatElements ==
  ASSUME NEW E, NEW s \in Seq(E), NEW t \in Seq(E)
  PROVE  /\ s \o t \in Seq(E)
         /\ Len(s \o t) = Len(s) + Len(t)
         /\ \A k \in 1 .. Len(s) : (s \o t)[k] = s[k]
         /\ \A k \in 1 .. Len(t) : (s \o t)[Len(s) + k] = t[k]
         /\ ToSet(s \o t) = ToSet(s) \cup ToSet(t)
<1>1. /\ s \o t \in Seq(E)
      /\ Len(s \o t) = Len(s) + Len(t)
      /\ \A k \in 1 .. Len(s) : (s \o t)[k] = s[k]
      /\ \A k \in 1 .. Len(t) : (s \o t)[Len(s) + k] = t[k]
  OBVIOUS
<1>2. /\ DOMAIN (s \o t) = 1 .. Len(s \o t) /\ DOMAIN s = 1 .. Len(s) /\ DOMAIN t = 1 .. Len(t)
      /\ Len(s) \in Nat /\ Len(t) \in Nat
  OBVIOUS
<1>3. ASSUME NEW k \in DOMAIN (s \o t) PROVE (s \o t)[k] \in ToSet(s) \cup ToSet(t)
  <2>1. CASE k \in 1 .. Len(s)
    BY <1>1, <1>2, <2>1 DEF ToSet
  <2>2. CASE k - Len(s) \in 1 .. Len(t)
    <3>1. (s \o t)[Len(s) + (k - Len(s))] = t[k - Len(s)] /\ Len(s) + (k - Len(s)) = k
      BY <1>1, <1>2, <2>2
    <3> QED
      BY <1>2, <2>2, <3>1 DEF ToSet
  <2> QED
    BY <1>1, <1>2, <2>1, <2>2
<1>4. ASSUME NEW k \in 1 .. Len(s) PROVE s[k] \in ToSet(s \o t)
  <2>1. k \in DOMAIN (s \o t) /\ (s \o t)[k] = s[k]
    BY <1>1, <1>2
  <2> QED
    BY <2>1 DEF ToSet
<1>5. ASSUME NEW k \in 1 .. Len(t) PROVE t[k] \in ToSet(s \o t)
  <2>1. Len(s) + k \in DOMAIN (s \o t) /\ (s \o t)[Len(s) + k] = t[k]
    BY <1>1, <1>2
  <2> QED
    BY <2>1 DEF ToSet
<1>6. ToSet(s \o t) = ToSet(s) \cup ToSet(t)
  <2>1. ToSet(s \o t) \subseteq ToSet(s) \cup ToSet(t)
    BY <1>3 DEF ToSet
  <2>2. ToSet(s) \subseteq ToSet(s \o t)
    BY <1>2, <1>4 DEF ToSet
  <2>3. ToSet(t) \subseteq ToSet(s \o t)
    BY <1>2, <1>5 DEF ToSet
  <2> QED
    BY <2>1, <2>2, <2>3
<1> QED
  BY <1>1, <1>6

\* FlattenSeq appends the sequences one after the other.
LEMMA FlattenSteps ==
  ASSUME NEW E, NEW seqs \in Seq(Seq(E))
  PROVE  \E f \in [0 .. Len(seqs) -> Seq(E)] :
           /\ f[0] = <<>>
           /\ \A i \in 1 .. Len(seqs) : f[i] = f[i - 1] \o seqs[i]
           /\ FlattenSeq(seqs) = f[Len(seqs)]
<1> DEFINE n == Len(seqs)
           G == [p \in (1 .. n) \X Seq(E) |-> p[2] \o seqs[p[1]]]
<1>1. n \in Nat /\ <<>> \in Seq(E) /\ \A i \in 1 .. n : seqs[i] \in Seq(E)
  OBVIOUS
<1>2. G \in [(1 .. n) \X Seq(E) -> Seq(E)]
  BY <1>1
<1>3. PICK f \in [0 .. n -> Seq(E)] : f[0] = <<>> /\ \A i \in 1 .. n : f[i] = G[<<i, f[i - 1]>>]
  <2> DEFINE X == Seq(E)
             base == <<>>
  <2>1. n \in Nat /\ base \in X /\ G \in [(1 .. n) \X X -> X]
    BY <1>1, <1>2
  <2>2. \E f \in [0 .. n -> X] : IsRun(f, n, base, G)
    <3> HIDE DEF n, G, X, base
    <3> QED
      BY <2>1, RunExists
  <2> QED
    BY <2>2 DEF IsRun
<1>4. \A i \in 1 .. n : i - 1 \in 0 .. n /\ f[i] = f[i - 1] \o seqs[i]
  BY <1>3
<1> HIDE DEF G
<1>5. ASSUME n # 0 PROVE f[1] = seqs[1] /\ 1 \in 1 .. n
  <2>1. 1 \in 1 .. n
    BY <1>1, <1>5
  <2>2. f[1] = f[1 - 1] \o seqs[1]
    BY <1>4, <2>1
  <2>3. f[1 - 1] = <<>> /\ seqs[1] \in Seq(E)
    BY <1>1, <1>3, <2>1
  <2> QED
    BY <2>1, <2>2, <2>3
<1>6. FlattenSeq(seqs) = f[n]
  <2>1. CASE n = 0
    <3>1. FlattenSeq(seqs) = <<>>
      BY <2>1 DEF FlattenSeq
    <3> QED
      BY <1>3, <2>1, <3>1
  <2>2. CASE n # 0
    <3> DEFINE Step(g, i) == IF i = 1 THEN seqs[i] ELSE g[i - 1] \o seqs[i]
               flatten == CHOOSE g : g = [i \in 1 .. n |-> Step(g, i)]
               g0 == [i \in 1 .. n |-> f[i]]
    <3>1. ASSUME NEW i \in 1 .. n PROVE g0[i] = Step(g0, i)
      <4>1. CASE i = 1
        BY <1>5, <2>2, <4>1
      <4>2. CASE i # 1
        <5>1. i - 1 \in 1 .. n
          BY <4>2
        <5> QED
          BY <1>4, <4>2, <5>1
      <4> QED
        BY <4>1, <4>2
    <3>2. g0 = [i \in 1 .. n |-> Step(g0, i)]
      <4>1. g0 = [i \in 1 .. n |-> g0[i]]
        OBVIOUS
      <4> HIDE DEF g0, Step
      <4> QED
        BY <3>1, <4>1
    <3>3. flatten = [i \in 1 .. n |-> Step(flatten, i)]
      <4> HIDE DEF g0, Step
      <4> QED
        BY <3>2
    <3>4. FlattenSeq(seqs) = flatten[n]
      BY <2>2 DEF FlattenSeq
    <3> HIDE DEF flatten
    <3>5. \A i \in 1 .. n : flatten[i] = Step(flatten, i)
      <4> HIDE DEF Step
      <4> QED
        BY <3>3
    <3> DEFINE T == {i \in Nat : i + 1 \in 1 .. n => flatten[i + 1] = f[i + 1]}
    <3>6. 0 \in T
      BY <1>5, <2>2, <3>5
    <3>7. ASSUME NEW i \in Nat, i \in T PROVE i + 1 \in T
      <4> SUFFICES ASSUME i + 2 \in 1 .. n PROVE flatten[i + 2] = f[i + 2]
        OBVIOUS
      <4>1. i + 1 \in 1 .. n /\ i + 2 # 1 /\ (i + 2) - 1 = i + 1
        OBVIOUS
      <4>2. flatten[i + 2] = flatten[i + 1] \o seqs[i + 2]
        BY <3>5, <4>1
      <4>3. f[i + 2] = f[i + 1] \o seqs[i + 2]
        BY <1>4, <4>1
      <4> QED
        BY <3>7, <4>1, <4>2, <4>3
    <3>8. n - 1 \in Nat /\ n - 1 \in T
      <4>1. n - 1 \in Nat
        BY <1>1, <2>2
      <4> HIDE DEF T
      <4> QED
        BY <3>6, <3>7, <4>1, NatsBySteps
    <3> QED
      BY <1>1, <2>2, <3>4, <3>8
  <2> QED
    BY <2>1, <2>2
<1> QED
  BY <1>3, <1>4, <1>6

\* Sequence all has those of seqs one after the other: at[i] is where the i-th begins.
Places(seqs, all, at) ==
  /\ \A i \in 1 .. Len(seqs) : \A k \in 1 .. Len(seqs[i]) :
       /\ at[i] + k \in 1 .. Len(all)
       /\ all[at[i] + k] = seqs[i][k]
  /\ \A i, j \in 1 .. Len(seqs) : i < j => at[i] + Len(seqs[i]) <= at[j]
  /\ \A x \in 1 .. Len(all) : \E i \in 1 .. Len(seqs) : \E k \in 1 .. Len(seqs[i]) : x = at[i] + k

\* Its elements are those of the sequences, and each sequence has its place.
LEMMA FlattenElements ==
  ASSUME NEW E, NEW seqs \in Seq(Seq(E))
  PROVE  /\ FlattenSeq(seqs) \in Seq(E)
         /\ ToSet(FlattenSeq(seqs)) = UNION {ToSet(seqs[i]) : i \in DOMAIN seqs}
         /\ \E at \in [1 .. Len(seqs) -> Nat] : Places(seqs, FlattenSeq(seqs), at)
<1> DEFINE n == Len(seqs)
<1>1. PICK f \in [0 .. n -> Seq(E)] :
        /\ f[0] = <<>>
        /\ \A i \in 1 .. n : f[i] = f[i - 1] \o seqs[i]
        /\ FlattenSeq(seqs) = f[n]
  BY FlattenSteps
<1>2. n \in Nat /\ DOMAIN seqs = 1 .. n /\ \A i \in 1 .. n : seqs[i] \in Seq(E)
  OBVIOUS
<1> HIDE DEF n
<1>3. \A i \in 0 .. n : f[i] \in Seq(E) /\ Len(f[i]) \in Nat
  BY <1>1
<1>4. ASSUME NEW i \in 1 .. n
      PROVE  /\ Len(f[i]) = Len(f[i - 1]) + Len(seqs[i])
             /\ \A k \in 1 .. Len(f[i - 1]) : f[i][k] = f[i - 1][k]
             /\ \A k \in 1 .. Len(seqs[i]) : f[i][Len(f[i - 1]) + k] = seqs[i][k]
             /\ ToSet(f[i]) = ToSet(f[i - 1]) \cup ToSet(seqs[i])
  <2>1. f[i] = f[i - 1] \o seqs[i] /\ f[i - 1] \in Seq(E) /\ seqs[i] \in Seq(E)
    BY <1>1, <1>2, i - 1 \in 0 .. n
  <2> DEFINE s == f[i - 1]
             u == seqs[i]
  <2>2. s \in Seq(E) /\ u \in Seq(E) /\ f[i] = s \o u
    BY <2>1
  <2> HIDE DEF s, u
  <2>3. /\ Len(f[i]) = Len(s) + Len(u)
        /\ \A k \in 1 .. Len(s) : f[i][k] = s[k]
        /\ \A k \in 1 .. Len(u) : f[i][Len(s) + k] = u[k]
        /\ ToSet(f[i]) = ToSet(s) \cup ToSet(u)
    BY <2>2, ConcatElements
  <2> QED
    BY <2>3, Zenon DEF s, u
<1> DEFINE Grows(k) == k \in 0 .. n =>
             /\ \A i \in 0 .. k : /\ Len(f[i]) <= Len(f[k])
                                  /\ \A m \in 1 .. Len(f[i]) : f[k][m] = f[i][m]
             /\ ToSet(f[k]) = UNION {ToSet(seqs[i]) : i \in 1 .. k}
           S == {k \in Nat : Grows(k)}
<1>5. Grows(0)
  BY <1>1, <1>3 DEF ToSet
<1>6. ASSUME NEW k \in Nat, Grows(k) PROVE Grows(k + 1)
  <2> SUFFICES ASSUME k + 1 \in 0 .. n
               PROVE  /\ \A i \in 0 .. (k + 1) : /\ Len(f[i]) <= Len(f[k + 1])
                                                 /\ \A m \in 1 .. Len(f[i]) : f[k + 1][m] = f[i][m]
                      /\ ToSet(f[k + 1]) = UNION {ToSet(seqs[i]) : i \in 1 .. (k + 1)}
    OBVIOUS
  <2>1. k \in 0 .. n /\ k + 1 \in 1 .. n /\ (k + 1) - 1 = k
    BY <1>2
  <2>2. /\ Len(f[k + 1]) = Len(f[k]) + Len(seqs[k + 1])
        /\ \A m \in 1 .. Len(f[k]) : f[k + 1][m] = f[k][m]
        /\ ToSet(f[k + 1]) = ToSet(f[k]) \cup ToSet(seqs[k + 1])
    <3> DEFINE j == k + 1
    <3>1. j \in 1 .. n /\ j - 1 = k
      BY <2>1
    <3> HIDE DEF j
    <3>2. /\ Len(f[j]) = Len(f[j - 1]) + Len(seqs[j])
          /\ \A m \in 1 .. Len(f[j - 1]) : f[j][m] = f[j - 1][m]
          /\ ToSet(f[j]) = ToSet(f[j - 1]) \cup ToSet(seqs[j])
      BY <1>4, <3>1
    <3> QED
      BY <3>1, <3>2 DEF j
  <2>3. Len(seqs[k + 1]) \in Nat /\ Len(f[k]) \in Nat
    BY <1>2, <1>3, <2>1
  <2>4. /\ \A i \in 0 .. k : /\ Len(f[i]) <= Len(f[k])
                             /\ \A m \in 1 .. Len(f[i]) : f[k][m] = f[i][m]
        /\ ToSet(f[k]) = UNION {ToSet(seqs[i]) : i \in 1 .. k}
    BY <1>6, <2>1
  <2>5. 1 .. (k + 1) = (1 .. k) \cup {k + 1} /\ 0 .. (k + 1) = (0 .. k) \cup {k + 1}
    OBVIOUS
  <2>6. ASSUME NEW i \in 0 .. k
        PROVE  Len(f[i]) <= Len(f[k + 1]) /\ \A m \in 1 .. Len(f[i]) : f[k + 1][m] = f[i][m]
    <3>1. Len(f[i]) \in Nat /\ Len(f[i]) <= Len(f[k])
      BY <1>2, <1>3, <2>1, <2>4
    <3>2. Len(f[i]) <= Len(f[k + 1])
      BY <1>2, <2>1, <2>2, <2>3, <3>1
    <3>3. ASSUME NEW m \in 1 .. Len(f[i]) PROVE f[k + 1][m] = f[i][m]
      <4>1. m \in 1 .. Len(f[k])
        BY <2>3, <3>1
      <4> QED
        BY <2>2, <2>4, <4>1
    <3> QED
      BY <3>2, <3>3
  <2>7. ToSet(f[k + 1]) = UNION {ToSet(seqs[i]) : i \in 1 .. (k + 1)}
    BY <2>2, <2>4, <2>5
  <2> QED
    BY <1>3, <2>1, <2>5, <2>6, <2>7
<1>7. \A k \in 0 .. n : Grows(k)
  <2> HIDE DEF Grows
  <2>1. 0 \in S /\ \A k \in Nat : k \in S => k + 1 \in S
    BY <1>5, <1>6
  <2> HIDE DEF S
  <2>2. Nat \subseteq S
    BY <2>1, NatsBySteps
  <2> QED
    BY <1>2, <2>2 DEF S
<1>8. \A i \in 0 .. n : /\ Len(f[i]) <= Len(f[n])
                        /\ \A m \in 1 .. Len(f[i]) : f[n][m] = f[i][m]
  BY <1>2, <1>7
<1>9. FlattenSeq(seqs) \in Seq(E) /\ ToSet(FlattenSeq(seqs)) = UNION {ToSet(seqs[i]) : i \in DOMAIN seqs}
  BY <1>1, <1>2, <1>3, <1>7
<1> HIDE DEF Grows
<1> DEFINE at == [i \in 1 .. n |-> Len(f[i - 1])]
<1>10. at \in [1 .. n -> Nat]
  BY <1>3
<1>11. ASSUME NEW i \in 1 .. n, NEW k \in 1 .. Len(seqs[i])
       PROVE  at[i] + k \in 1 .. Len(f[n]) /\ f[n][at[i] + k] = seqs[i][k]
  <2>1. at[i] = Len(f[i - 1]) /\ Len(f[i - 1]) \in Nat /\ Len(seqs[i]) \in Nat /\ Len(f[n]) \in Nat
    BY <1>2, <1>3
  <2>2. Len(f[i]) = Len(f[i - 1]) + Len(seqs[i]) /\ f[i][Len(f[i - 1]) + k] = seqs[i][k]
    BY <1>4
  <2>3. Len(f[i]) <= Len(f[n]) /\ \A m \in 1 .. Len(f[i]) : f[n][m] = f[i][m]
    BY <1>8
  <2> DEFINE m == Len(f[i - 1]) + k
  <2>4. m \in 1 .. Len(f[i]) /\ Len(f[i]) \in Nat
    BY <1>2, <2>1, <2>2
  <2>5. at[i] + k = m
    BY <2>1
  <2>6. m \in 1 .. Len(f[n])
    <3> HIDE DEF m
    <3> QED
      BY <2>1, <2>3, <2>4
  <2>7. f[n][m] = f[i][m]
    <3> HIDE DEF m
    <3> QED
      BY <2>3, <2>4
  <2>8. f[i][m] = seqs[i][k]
    BY <2>2
  <2> HIDE DEF at, m
  <2> QED
    BY <2>5, <2>6, <2>7, <2>8
<1>12. ASSUME NEW i \in 1 .. n, NEW j \in 1 .. n, i < j PROVE at[i] + Len(seqs[i]) <= at[j]
  <2>1. i \in 0 .. (j - 1) /\ j - 1 \in 0 .. n
    BY <1>2, <1>12
  <2>2. Len(f[i]) <= Len(f[j - 1])
    BY <1>7, <2>1 DEF Grows
  <2> QED
    BY <1>2, <1>4, <2>2
<1> DEFINE Covered(k) == k \in 0 .. n =>
             \A x \in 1 .. Len(f[k]) : \E i \in 1 .. n : \E m \in 1 .. Len(seqs[i]) : x = at[i] + m
           C == {k \in Nat : Covered(k)}
<1>13. Covered(0)
  BY <1>1
<1>14. ASSUME NEW k \in Nat, Covered(k) PROVE Covered(k + 1)
  <2> SUFFICES ASSUME k + 1 \in 0 .. n, NEW x \in 1 .. Len(f[k + 1])
               PROVE  \E i \in 1 .. n : \E m \in 1 .. Len(seqs[i]) : x = at[i] + m
    OBVIOUS
  <2>1. k \in 0 .. n /\ k + 1 \in 1 .. n /\ (k + 1) - 1 = k
    BY <1>2
  <2>2. at[k + 1] = Len(f[k]) /\ Len(f[k]) \in Nat /\ Len(seqs[k + 1]) \in Nat
    BY <1>2, <1>3, <2>1
  <2>3. Len(f[k + 1]) = Len(f[k]) + Len(seqs[k + 1])
    <3>1. \A i \in 1 .. n : i = k + 1 => f[i - 1] = f[k]
      BY <2>1
    <3> QED
      BY <1>4, <2>1, <3>1
  <2> HIDE DEF at
  <2>4. CASE x <= Len(f[k])
    <3>1. x \in 1 .. Len(f[k])
      BY <2>2, <2>3, <2>4
    <3> QED
      BY <1>14, <2>1, <3>1
  <2>5. CASE x > Len(f[k])
    <3> DEFINE a == Len(f[k])
               b == Len(seqs[k + 1])
               m == x - a
    <3>1. x \in 1 .. (a + b) /\ x > a /\ a \in Nat /\ b \in Nat
      BY <2>2, <2>3, <2>5
    <3> HIDE DEF a, b
    <3>2. m \in 1 .. b /\ x = a + m
      BY <3>1
    <3> HIDE DEF m
    <3> QED
      BY <2>1, <2>2, <3>2 DEF a, b
  <2>6. x <= Len(f[k]) \/ x > Len(f[k])
    BY <2>2, <2>3
  <2> QED
    BY <2>4, <2>5, <2>6
<1>15. Covered(n)
  <2> HIDE DEF Covered
  <2>1. 0 \in C /\ \A k \in Nat : k \in C => k + 1 \in C
    BY <1>13, <1>14
  <2> HIDE DEF C
  <2>2. Nat \subseteq C
    BY <2>1, NatsBySteps
  <2> QED
    BY <1>2, <2>2 DEF C
<1>16. \A x \in 1 .. Len(f[n]) : \E i \in 1 .. n : \E m \in 1 .. Len(seqs[i]) : x = at[i] + m
  BY <1>2, <1>15
<1> HIDE DEF at, Covered
<1>17. Places(seqs, FlattenSeq(seqs), at)
  BY <1>1, <1>11, <1>12, <1>16 DEF Places, n
<1> QED
  BY <1>9, <1>10, <1>17 DEF n

-----------------------------------------------------------------------------
\* Every set of points that is not empty has one without a link into the set.
Founded(D, L) == \A S \in SUBSET D : S # {} => \E s \in S : L[s] \cap S = {}

\* What is computed at a point depends on what has been computed at its links.
ByLinks(G, D, L, X) ==
  \A s \in D : \A g, h \in [D -> X] : (\A l \in L[s] : g[l] = h[l]) => G[<<s, g>>] = G[<<s, h>>]

\* A relation that has what is computed from it.
ClosedUnder(R, G, D, L, X) ==
  \A s \in D : \A h \in [D -> X] : (\A l \in L[s] : <<l, h[l]>> \in R) => <<s, G[<<s, h>>]>> \in R

HasFunction(G, D, X) == \E g \in [D -> X] : \A s \in D : g[s] = G[<<s, g>>]

\* Then there is a function with the value computed at every point.
LEMMA RecursionAlongLinks ==
  ASSUME NEW D, NEW L \in [D -> SUBSET D], NEW X, X # {}, NEW G \in [D \X [D -> X] -> X],
         Founded(D, L), ByLinks(G, D, L, X)
  PROVE  HasFunction(G, D, X)
<1> DEFINE R == {p \in D \X X : \A Q \in SUBSET (D \X X) : ClosedUnder(Q, G, D, L, X) => p \in Q}
           Known(s) == \E v \in X : <<s, v>> \in R /\ \A w \in X : <<s, w>> \in R => w = v
           Unknown == {s \in D : ~Known(s)}
<1>1. ClosedUnder(R, G, D, L, X)
  <2> SUFFICES ASSUME NEW s \in D, NEW h \in [D -> X], \A l \in L[s] : <<l, h[l]>> \in R
               PROVE  <<s, G[<<s, h>>]>> \in R
    BY DEF ClosedUnder
  <2>1. <<s, G[<<s, h>>]>> \in D \X X
    OBVIOUS
  <2>2. ASSUME NEW Q \in SUBSET (D \X X), ClosedUnder(Q, G, D, L, X) PROVE <<s, G[<<s, h>>]>> \in Q
    <3>1. \A l \in L[s] : <<l, h[l]>> \in Q
      BY <2>2
    <3> QED
      BY <2>2, <3>1 DEF ClosedUnder
  <2> QED
    BY <2>1, <2>2
<1>2. Unknown = {}
  <2> SUFFICES ASSUME Unknown # {} PROVE FALSE
    OBVIOUS
  <2>1. PICK s \in Unknown : L[s] \cap Unknown = {}
    <3>1. Unknown \in SUBSET D
      OBVIOUS
    <3> HIDE DEF Unknown
    <3> QED
      BY <3>1 DEF Founded
  <2>2. \A l \in L[s] : l \in D /\ Known(l)
    BY <2>1
  <2> DEFINE value(l) == CHOOSE v \in X : <<l, v>> \in R
             h == [l \in D |-> IF Known(l) THEN value(l) ELSE CHOOSE v \in X : TRUE]
             v0 == G[<<s, h>>]
  <2>3. \A l \in D : Known(l) => value(l) \in X /\ <<l, value(l)>> \in R
    <3> HIDE DEF R
    <3> QED
      OBVIOUS
  <2>4. h \in [D -> X]
    <3> HIDE DEF Known, value, R
    <3> QED
      BY <2>3
  <2>5. \A l \in L[s] : <<l, h[l]>> \in R
    <3> HIDE DEF Known, value, R
    <3> QED
      BY <2>2, <2>3
  <2>6. s \in D /\ v0 \in X
    <3> HIDE DEF h, R
    <3> QED
      BY <2>4
  <2>7. <<s, v0>> \in R
    <3> HIDE DEF h, R
    <3> QED
      BY <1>1, <2>4, <2>5, <2>6 DEF ClosedUnder
  <2>8. \A l \in L[s] : \A w \in X : <<l, w>> \in R => w = h[l]
    <3> HIDE DEF h, R
    <3> QED
      BY <2>2, <2>4, <2>5
  <2>9. ASSUME NEW w \in X, <<s, w>> \in R, w # v0 PROVE FALSE
    <3> DEFINE Q == R \ {<<s, w>>}
    <3>1. Q \in SUBSET (D \X X)
      OBVIOUS
    <3>2. ClosedUnder(Q, G, D, L, X)
      <4> SUFFICES ASSUME NEW t \in D, NEW g \in [D -> X], \A l \in L[t] : <<l, g[l]>> \in Q
                   PROVE  <<t, G[<<t, g>>]>> \in Q
        BY DEF ClosedUnder
      <4> HIDE DEF R, h
      <4>1. \A l \in L[t] : <<l, g[l]>> \in R
        OBVIOUS
      <4>2. <<t, G[<<t, g>>]>> \in R
        BY <1>1, <4>1 DEF ClosedUnder
      <4>3. CASE t # s
        BY <4>2, <4>3
      <4>4. CASE t = s
        <5>1. \A l \in L[s] : g[l] = h[l]
          BY <2>2, <2>8, <4>1, <4>4
        <5>2. G[<<s, g>>] = v0
          BY <2>4, <2>6, <5>1 DEF ByLinks
        <5> QED
          BY <2>9, <4>2, <4>4, <5>2
      <4> QED
        BY <4>3, <4>4
    <3> HIDE DEF Q
    <3>3. <<s, w>> \in Q
      BY <2>9, <3>1, <3>2
    <3> QED
      BY <3>3 DEF Q
  <2>10. Known(s)
    <3> HIDE DEF R, v0
    <3> QED
      BY <2>6, <2>7, <2>9
  <2> QED
    BY <2>1, <2>10
<1>3. \A s \in D : Known(s)
  BY <1>2
<1> DEFINE g == [s \in D |-> CHOOSE v \in X : <<s, v>> \in R]
<1> HIDE DEF R
<1>4. \A s \in D : g[s] \in X /\ <<s, g[s]>> \in R /\ \A w \in X : <<s, w>> \in R => w = g[s]
  BY <1>3
<1>5. g \in [D -> X]
  BY <1>4
<1> HIDE DEF g
<1>6. ASSUME NEW s \in D PROVE g[s] = G[<<s, g>>]
  <2>1. \A l \in L[s] : <<l, g[l]>> \in R
    BY <1>4
  <2>2. <<s, G[<<s, g>>]>> \in R /\ G[<<s, g>>] \in X
    BY <1>1, <1>5, <2>1 DEF ClosedUnder
  <2> QED
    BY <1>4, <2>2
<1> QED
  BY <1>5, <1>6 DEF HasFunction

-----------------------------------------------------------------------------
(* Sequences, one element after the other.                                 *)

LEMMA SequencesBySteps ==
  ASSUME NEW E, NEW T, <<>> \in T, \A s \in Seq(E) : \A x \in E : s \in T => Append(s, x) \in T
  PROVE  Seq(E) \subseteq T
<1> DEFINE Has(n) == \A s \in Seq(E) : Len(s) = n => s \in T
           N == {n \in Nat : Has(n)}
<1>1. Has(0)
  <2>1. \A s \in Seq(E) : Len(s) = 0 => s = <<>>
    OBVIOUS
  <2> QED
    BY <2>1
<1>2. ASSUME NEW n \in Nat, Has(n) PROVE Has(n + 1)
  <2> SUFFICES ASSUME NEW s \in Seq(E), Len(s) = n + 1 PROVE s \in T
    OBVIOUS
  <2> DEFINE t == SubSeq(s, 1, n)
             x == s[n + 1]
  <2>1. t \in Seq(E) /\ Len(t) = n /\ x \in E
    OBVIOUS
  <2>2. s = Append(t, x)
    OBVIOUS
  <2> HIDE DEF t, x
  <2> QED
    BY <1>2, <2>1, <2>2
<1>3. Nat \subseteq N
  <2> HIDE DEF Has
  <2>1. 0 \in N /\ \A n \in Nat : n \in N => n + 1 \in N
    BY <1>1, <1>2
  <2> HIDE DEF N
  <2> QED
    BY <2>1, NatsBySteps
<1> QED
  <2> SUFFICES ASSUME NEW s \in Seq(E) PROVE s \in T
    OBVIOUS
  <2> DEFINE n == Len(s)
  <2>1. n \in Nat
    OBVIOUS
  <2>2. Has(n)
    <3> HIDE DEF Has, n
    <3> QED
      BY <1>3, <2>1
  <2> QED
    BY <2>2

\* No sequence is flattened, and one more.
LEMMA FlattenNone == FlattenSeq(<<>>) = <<>>
<1>1. Len(<<>>) = 0
  OBVIOUS
<1> QED
  BY <1>1 DEF FlattenSeq

LEMMA FlattenOneMore ==
  ASSUME NEW E, NEW seqs \in Seq(Seq(E)), NEW s \in Seq(E)
  PROVE  FlattenSeq(Append(seqs, s)) = FlattenSeq(seqs) \o s
<1> DEFINE X == Seq(E)
           n == Len(seqs)
           all == Append(seqs, s)
<1>1. seqs \in Seq(X) /\ s \in X
  OBVIOUS
<1> HIDE DEF X
<1>2. /\ n \in Nat /\ all \in Seq(X) /\ Len(all) = n + 1
      /\ all[n + 1] = s /\ \A i \in 1 .. n : all[i] = seqs[i]
  BY <1>1
<1> HIDE DEF all, n
<1>3. PICK f \in [0 .. n -> X] :
        /\ f[0] = <<>>
        /\ \A i \in 1 .. n : f[i] = f[i - 1] \o seqs[i]
        /\ FlattenSeq(seqs) = f[n]
  BY <1>1, FlattenSteps DEF X, n
<1>4. PICK g \in [0 .. (n + 1) -> X] :
        /\ g[0] = <<>>
        /\ \A i \in 1 .. (n + 1) : g[i] = g[i - 1] \o all[i]
        /\ FlattenSeq(all) = g[n + 1]
  <2> DEFINE m == Len(all)
  <2>1. \E g \in [0 .. m -> X] :
          /\ g[0] = <<>>
          /\ \A i \in 1 .. m : g[i] = g[i - 1] \o all[i]
          /\ FlattenSeq(all) = g[m]
    BY <1>2, FlattenSteps DEF X
  <2>2. m = n + 1
    BY <1>2
  <2> HIDE DEF m
  <2> QED
    BY <2>1, <2>2
<1> DEFINE T == {i \in Nat : i <= n => g[i] = f[i]}
<1>5. 0 \in T
  BY <1>3, <1>4
<1>6. ASSUME NEW i \in Nat, i \in T PROVE i + 1 \in T
  <2> SUFFICES ASSUME i + 1 <= n PROVE g[i + 1] = f[i + 1]
    OBVIOUS
  <2>1. i + 1 \in 1 .. n /\ i + 1 \in 1 .. (n + 1) /\ (i + 1) - 1 = i /\ i <= n
    BY <1>2
  <2>2. g[i + 1] = g[i] \o all[i + 1] /\ f[i + 1] = f[i] \o seqs[i + 1]
    BY <1>3, <1>4, <2>1
  <2> QED
    BY <1>2, <1>6, <2>1, <2>2
<1>7. g[n] = f[n]
  <2> HIDE DEF T
  <2>1. Nat \subseteq T
    BY <1>5, <1>6, NatsBySteps
  <2> QED
    BY <1>2, <2>1 DEF T
<1>8. g[n + 1] = g[n] \o all[n + 1]
  <2>1. n \in Nat
    BY <1>2
  <2>2. n + 1 \in 1 .. (n + 1) /\ (n + 1) - 1 = n
    BY <2>1
  <2> QED
    BY <1>4, <2>2
<1> QED
  BY <1>2, <1>3, <1>4, <1>7, <1>8 DEF all

\* A sequence is two others, if it has the elements of both.
LEMMA JoinedIs ==
  ASSUME NEW E, NEW s \in Seq(E), NEW a \in Seq(E), NEW b \in Seq(E), Len(s) = Len(a) + Len(b),
         \A j \in 1 .. Len(a) : a[j] = s[j], \A j \in 1 .. Len(b) : b[j] = s[Len(a) + j]
  PROVE  s = a \o b
<1> DEFINE e == a \o b
<1>1. /\ e \in Seq(E) /\ Len(e) = Len(a) + Len(b)
      /\ \A k \in 1 .. Len(a) : e[k] = a[k]
      /\ \A k \in 1 .. Len(b) : e[Len(a) + k] = b[k]
  BY ConcatElements
<1> HIDE DEF e
<1>2. Len(a) \in Nat /\ Len(b) \in Nat
  OBVIOUS
<1>3. \A j \in 1 .. Len(s) : j \in 1 .. Len(a) \/ (j - Len(a) \in 1 .. Len(b) /\ Len(a) + (j - Len(a)) = j)
  BY <1>2
<1>4. \A j \in 1 .. Len(s) : e[j] = s[j]
  <2> SUFFICES ASSUME NEW j \in 1 .. Len(s) PROVE e[j] = s[j]
    OBVIOUS
  <2>1. CASE j \in 1 .. Len(a)
    BY <1>1, <2>1
  <2>2. CASE j - Len(a) \in 1 .. Len(b) /\ Len(a) + (j - Len(a)) = j
    <3> DEFINE k == j - Len(a)
    <3>1. k \in 1 .. Len(b) /\ Len(a) + k = j
      BY <2>2
    <3> HIDE DEF k
    <3>2. e[Len(a) + k] = b[k] /\ b[k] = s[Len(a) + k]
      BY <1>1, <3>1
    <3> QED
      BY <3>1, <3>2
  <2> QED
    BY <1>3, <2>1, <2>2
<1>5. e = s
  <2>1. Len(e) = Len(s) /\ e \in Seq(E) /\ s \in Seq(E)
    BY <1>1
  <2>2. e = [k \in 1 .. Len(e) |-> e[k]]
    BY ONLY <2>1
  <2>3. s = [k \in 1 .. Len(s) |-> s[k]]
    BY ONLY <2>1
  <2> QED
    BY ONLY <1>4, <2>1, <2>2, <2>3
<1> QED
  BY <1>5 DEF e
=============================================================================
