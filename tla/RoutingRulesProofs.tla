------------------------- MODULE RoutingRulesProofs -------------------------
(***************************************************************************)
(* The order of the backends, their endpoints and where requests go, for   *)
(* any metadata, number of rules, services and ports.                      *)
(***************************************************************************)
EXTENDS RoutingRules, SequenceLemmas, FiniteSetTheorems

-----------------------------------------------------------------------------
(* Merging.                                                                *)

\* The endpoints are looked at one after the other.
LEMMA MergeSteps ==
  ASSUME NEW E, NEW servers \in Seq(E), NEW eps \in Seq(E)
  PROVE  \E f \in [0 .. Len(eps) -> Seq(E)] :
           /\ f[0] = servers
           /\ \A i \in 1 .. Len(eps) : f[i] = AddMissing(f[i - 1], eps[i])
           /\ AddEndpoints(servers, eps) = f[Len(eps)]
<1> DEFINE n == Len(eps)
           X == Seq(E)
           G == [p \in (1 .. n) \X X |-> AddMissing(p[2], eps[p[1]])]
           Step(h, s) == IF s = {} THEN servers ELSE AddMissing(h[s \ {Max(s)}], eps[Max(s)])
           fold == CHOOSE h : h = [s \in SUBSET DOMAIN eps |-> Step(h, s)]
<1>1. n \in Nat /\ DOMAIN eps = 1 .. n /\ \A i \in 1 .. n : eps[i] \in E
  OBVIOUS
<1>2. \A s \in X : \A i \in 1 .. n : AddMissing(s, eps[i]) \in X
  BY <1>1 DEF AddMissing
<1>3. AddEndpoints(servers, eps) = fold[DOMAIN eps]
  BY DEF AddEndpoints, FoldLeft, MapThenFoldSet
<1>4. PICK h \in [SUBSET (1 .. n) -> X] : IsFold(h, n, servers, G)
  <2>1. G \in [(1 .. n) \X X -> X]
    BY <1>2
  <2> HIDE DEF n, G, X
  <2> QED
    BY <1>1, <2>1, FoldExists DEF X
<1>5. ASSUME NEW s \in SUBSET (1 .. n) PROVE h[s] = Step(h, s)
  <2>1. CASE s = {}
    BY <1>4, <2>1 DEF IsFold
  <2>2. CASE s # {}
    <3>1. Max(s) \in 1 .. n
      BY <1>1, <2>2, MaxIsGreatest, s \subseteq 0 .. n
    <3>2. s \ {Max(s)} \in SUBSET (1 .. n)
      OBVIOUS
    <3>3. h[s] = G[<<Max(s), h[s \ {Max(s)}]>>]
      BY <1>4, <2>2 DEF IsFold
    <3> QED
      BY <2>2, <3>1, <3>2, <3>3
  <2> QED
    BY <2>1, <2>2
<1>6. \A s \in SUBSET (1 .. n) : fold[s] = Step(fold, s)
  <2>1. h = [s \in SUBSET DOMAIN eps |-> Step(h, s)]
    <3> HIDE DEF Step, n
    <3> QED
      BY <1>1, <1>5
  <2> HIDE DEF Step, n
  <2> QED
    BY <1>1, <2>1
<1> HIDE DEF fold
<1>7. HasRun(fold, n, X, servers, G)
  <2>1. fold[{}] = servers
    BY <1>6
  <2>2. ASSUME NEW s \in SUBSET (1 .. n), s # {}, fold[s \ {Max(s)}] \in X
        PROVE  fold[s] = G[<<Max(s), fold[s \ {Max(s)}]>>]
    <3>1. Max(s) \in 1 .. n
      BY <1>1, <2>2, MaxIsGreatest, s \subseteq 0 .. n
    <3> QED
      BY <1>6, <2>2, <3>1
  <2>3. Computes(fold, n, X, servers, G)
    <3> HIDE DEF n, G, X
    <3> QED
      BY <2>1, <2>2 DEF Computes
  <2>4. servers \in X /\ G \in [(1 .. n) \X X -> X]
    BY <1>2
  <2> HIDE DEF n, G, X
  <2> QED
    BY <1>1, <2>3, <2>4, FoldIsRun
<1>8. PICK f \in [0 .. n -> X] : /\ IsRun(f, n, servers, G)
                                 /\ \A i \in 1 .. n : f[i - 1] \in X
                                 /\ f[n] = fold[1 .. n]
  BY <1>7 DEF HasRun
<1>9. \A i \in 1 .. n : f[i] = AddMissing(f[i - 1], eps[i])
  <2>1. \A i \in 1 .. n : f[i - 1] \in X /\ f[i] = G[<<i, f[i - 1]>>]
    <3> HIDE DEF n, X, G
    <3> QED
      BY <1>8 DEF IsRun
  <2> HIDE DEF X
  <2> QED
    BY <2>1
<1> QED
  BY <1>1, <1>3, <1>8, <1>9 DEF IsRun

\* An endpoint is appended unless its address is there.
LEMMA AddElements ==
  ASSUME NEW E, NEW s \in Seq(E), NEW e \in E
  PROVE  /\ AddMissing(s, e) \in Seq(E)
         /\ IPs(AddMissing(s, e)) = IPs(s) \cup {e.ip}
         /\ ToSet(AddMissing(s, e)) \subseteq ToSet(s) \cup {e}
         /\ Distinct(s) => Distinct(AddMissing(s, e))
<1>1. CASE e.ip \in IPs(s)
  BY <1>1 DEF AddMissing
<1>2. CASE e.ip \notin IPs(s)
  <2> DEFINE a == Append(s, e)
  <2>1. /\ a \in Seq(E) /\ DOMAIN a = 1 .. (Len(s) + 1) /\ DOMAIN s = 1 .. Len(s) /\ Len(s) \in Nat
        /\ \A i \in 1 .. Len(s) : a[i] = s[i]
        /\ a[Len(s) + 1] = e
    OBVIOUS
  <2>2. AddMissing(s, e) = a
    BY <1>2 DEF AddMissing
  <2> HIDE DEF a
  <2>3. 1 .. (Len(s) + 1) = (1 .. Len(s)) \cup {Len(s) + 1}
    BY <2>1
  <2>4. IPs(a) = IPs(s) \cup {e.ip}
    <3>1. IPs(a) \subseteq IPs(s) \cup {e.ip}
      BY <2>1, <2>3 DEF IPs
    <3>2. IPs(s) \subseteq IPs(a) /\ e.ip \in IPs(a)
      BY <2>1, <2>3 DEF IPs
    <3> QED
      BY <3>1, <3>2
  <2>5. ToSet(a) \subseteq ToSet(s) \cup {e}
    BY <2>1, <2>3 DEF ToSet
  <2>6. \A i \in 1 .. Len(s) : s[i].ip # e.ip
    BY <1>2, <2>1 DEF IPs
  <2>7. Distinct(s) => Distinct(a)
    BY <2>1, <2>3, <2>6 DEF Distinct
  <2> QED
    BY <2>1, <2>2, <2>4, <2>5, <2>7
<1> QED
  BY <1>1, <1>2

\* Merging endpoints adds the addresses that are missing, and none twice.
LEMMA MergeElements ==
  ASSUME NEW E, NEW servers \in Seq(E), NEW eps \in Seq(E)
  PROVE  /\ AddEndpoints(servers, eps) \in Seq(E)
         /\ IPs(AddEndpoints(servers, eps)) = IPs(servers) \cup IPs(eps)
         /\ ToSet(AddEndpoints(servers, eps)) \subseteq ToSet(servers) \cup ToSet(eps)
         /\ Distinct(servers) => Distinct(AddEndpoints(servers, eps))
<1> DEFINE n == Len(eps)
<1>1. PICK f \in [0 .. n -> Seq(E)] :
        /\ f[0] = servers
        /\ \A i \in 1 .. n : f[i] = AddMissing(f[i - 1], eps[i])
        /\ AddEndpoints(servers, eps) = f[n]
  BY MergeSteps
<1>2. n \in Nat /\ DOMAIN eps = 1 .. n /\ \A i \in 1 .. n : eps[i] \in E
  OBVIOUS
<1> HIDE DEF n
<1> DEFINE Added(i) == i \in 0 .. n =>
             /\ IPs(f[i]) = IPs(servers) \cup {eps[k].ip : k \in 1 .. i}
             /\ ToSet(f[i]) \subseteq ToSet(servers) \cup ToSet(eps)
             /\ Distinct(servers) => Distinct(f[i])
           T == {i \in Nat : Added(i)}
<1>3. Added(0)
  BY <1>1
<1>4. ASSUME NEW i \in Nat, Added(i) PROVE Added(i + 1)
  <2> SUFFICES ASSUME i + 1 \in 0 .. n
               PROVE  /\ IPs(f[i + 1]) = IPs(servers) \cup {eps[k].ip : k \in 1 .. (i + 1)}
                      /\ ToSet(f[i + 1]) \subseteq ToSet(servers) \cup ToSet(eps)
                      /\ Distinct(servers) => Distinct(f[i + 1])
    OBVIOUS
  <2>1. i \in 0 .. n /\ i + 1 \in 1 .. n /\ (i + 1) - 1 = i /\ f[i] \in Seq(E) /\ eps[i + 1] \in E
    BY <1>2
  <2>2. f[i + 1] = AddMissing(f[i], eps[i + 1])
    BY <1>1, <2>1
  <2>3. /\ IPs(f[i + 1]) = IPs(f[i]) \cup {eps[i + 1].ip}
        /\ ToSet(f[i + 1]) \subseteq ToSet(f[i]) \cup {eps[i + 1]}
        /\ Distinct(f[i]) => Distinct(f[i + 1])
    <3> DEFINE s == f[i]
               e == eps[i + 1]
    <3>1. s \in Seq(E) /\ e \in E /\ f[i + 1] = AddMissing(s, e)
      BY <2>1, <2>2
    <3> HIDE DEF s, e
    <3>2. /\ IPs(f[i + 1]) = IPs(s) \cup {e.ip}
          /\ ToSet(f[i + 1]) \subseteq ToSet(s) \cup {e}
          /\ Distinct(s) => Distinct(f[i + 1])
      BY <3>1, AddElements
    <3> QED
      BY <3>2 DEF s, e
  <2>4. /\ IPs(f[i]) = IPs(servers) \cup {eps[k].ip : k \in 1 .. i}
        /\ ToSet(f[i]) \subseteq ToSet(servers) \cup ToSet(eps)
        /\ Distinct(servers) => Distinct(f[i])
    BY <1>4, <2>1
  <2>5. 1 .. (i + 1) = (1 .. i) \cup {i + 1}
    OBVIOUS
  <2>6. eps[i + 1] \in ToSet(eps)
    BY <1>2, <2>1 DEF ToSet
  <2>7. {eps[k].ip : k \in 1 .. (i + 1)} = {eps[k].ip : k \in 1 .. i} \cup {eps[i + 1].ip}
    BY <2>5
  <2> QED
    BY <2>3, <2>4, <2>6, <2>7
<1>5. Added(n)
  <2> HIDE DEF Added
  <2>1. 0 \in T /\ \A i \in Nat : i \in T => i + 1 \in T
    BY <1>3, <1>4
  <2> HIDE DEF T
  <2>2. n \in T
    BY <1>2, <2>1, NatsBySteps
  <2> QED
    BY <2>2 DEF T
<1>6. n \in 0 .. n /\ f[n] \in Seq(E)
  BY <1>2
<1>7. IPs(eps) = {eps[k].ip : k \in 1 .. n}
  BY <1>2 DEF IPs
<1> QED
  BY <1>1, <1>5, <1>6, <1>7, Zenon

-----------------------------------------------------------------------------
(* Sorting.                                                                *)

Ordered(seq) == \A i, j \in DOMAIN seq : i < j => InOrder(seq[i], seq[j])

\* Less is no strict order: it holds both ways for two backends with host and
\* path.  Yet it agrees with the documented order, which is total.
LEMMA LessIsInOrder ==
  ASSUME NEW a, NEW b, a.priority \in Nat, b.priority \in Nat
  PROVE  IF Less(a, b) THEN InOrder(a, b) ELSE InOrder(b, a)
<1>1. Class(a) \in 1 .. 6 /\ Class(b) \in 1 .. 6
  BY DEF Class
<1>2. LessByPattern(a, b) => Class(a) <= Class(b)
  BY DEF LessByPattern, Class
<1>3. ~LessByPattern(a, b) => Class(b) <= Class(a)
  BY DEF LessByPattern, Class
<1> QED
  BY <1>1, <1>2, <1>3 DEF Less, InOrder

LEMMA InOrderTransitive ==
  ASSUME NEW a, NEW b, NEW c, a.priority \in Nat, b.priority \in Nat, c.priority \in Nat,
         InOrder(a, b), InOrder(b, c)
  PROVE  InOrder(a, c)
<1>1. Class(a) \in 1 .. 6 /\ Class(b) \in 1 .. 6 /\ Class(c) \in 1 .. 6
  BY DEF Class
<1> QED
  BY <1>1 DEF InOrder

\* Where a backend is inserted.
LEMMA InsertPlace ==
  ASSUME NEW E, NEW s \in Seq(E), NEW b \in E
  PROVE  \E k \in 0 .. Len(s) :
           /\ InsertSorted(s, b) \in Seq(E)
           /\ Len(InsertSorted(s, b)) = Len(s) + 1
           /\ \A i \in 1 .. k : InsertSorted(s, b)[i] = s[i]
           /\ InsertSorted(s, b)[k + 1] = b
           /\ \A i \in (k + 1) .. Len(s) : InsertSorted(s, b)[i + 1] = s[i]
           /\ k > 0 => ~Less(b, s[k])
           /\ \A i \in (k + 1) .. Len(s) : Less(b, s[i])
<1> DEFINE n == Len(s)
           behind == {0} \cup {i \in DOMAIN s : ~Less(b, s[i])}
           k == Max(behind)
           left == SubSeq(s, 1, k)
           right == SubSeq(s, k + 1, n)
<1>1. n \in Nat /\ DOMAIN s = 1 .. n /\ \A i \in 1 .. n : s[i] \in E
  OBVIOUS
<1>2. k \in behind /\ \A i \in behind : i <= k
  <2>1. behind \subseteq 0 .. n /\ behind # {}
    BY <1>1
  <2> HIDE DEF behind, n
  <2> QED
    BY <1>1, <2>1, MaxIsGreatest
<1>3. /\ k \in 0 .. n
      /\ k > 0 => ~Less(b, s[k])
      /\ \A i \in (k + 1) .. n : Less(b, s[i])
  <2>1. k \in 0 .. n /\ (k > 0 => ~Less(b, s[k]))
    <3> HIDE DEF k
    <3> QED
      BY <1>1, <1>2
  <2>2. ASSUME NEW i \in (k + 1) .. n PROVE Less(b, s[i])
    <3>1. i \in 1 .. n /\ ~(i <= k)
      <4> HIDE DEF k, n
      <4> QED
        BY <1>1, <2>1
    <3>2. i \notin behind
      BY <1>2, <3>1
    <3> HIDE DEF k
    <3> QED
      BY <1>1, <3>1, <3>2
  <2> QED
    BY <2>1, <2>2
<1>4. InsertSorted(s, b) = left \o <<b>> \o right
  BY DEF InsertSorted
<1> HIDE DEF k, behind
<1>5. /\ left \in Seq(E) /\ Len(left) = k /\ \A i \in 1 .. k : left[i] = s[i]
      /\ right \in Seq(E) /\ Len(right) = n - k /\ \A i \in 1 .. (n - k) : right[i] = s[k + i]
  <2>1. /\ left \in Seq(E) /\ Len(left) = k /\ \A i \in 1 .. k : left[i] = s[i]
    <3> HIDE DEF n
    <3>1. \A i \in 1 .. k : s[i] \in E
      BY <1>1, <1>3
    <3> QED
      BY <1>3, <3>1
  <2>2. right \in Seq(E) /\ Len(right) = n - k /\ \A i \in 1 .. (n - k) : right[i] = s[k + i]
    <3> HIDE DEF n
    <3>1. \A i \in (k + 1) .. n : s[i] \in E
      BY <1>1, <1>3
    <3>2. k + 1 \in Nat /\ n - k \in Nat
      BY <1>1, <1>3
    <3>3. right \in Seq(E) /\ Len(right) = n - k
      BY <1>1, <1>3, <3>1, <3>2
    <3>4. ASSUME NEW i \in 1 .. (n - k) PROVE right[i] = s[k + i]
      <4>1. right[i] = s[((k + 1) + i) - 1]
        BY <1>1, <1>3, <3>2
      <4>2. ((k + 1) + i) - 1 = k + i
        BY <1>1, <1>3
      <4> HIDE DEF right
      <4> QED
        BY <4>1, <4>2
    <3> QED
      BY <3>3, <3>4
  <2> QED
    BY <2>1, <2>2
<1> HIDE DEF left, right
<1> DEFINE m == left \o <<b>>
<1>6. m \in Seq(E) /\ Len(m) = k + 1 /\ (\A i \in 1 .. k : m[i] = s[i]) /\ m[k + 1] = b
  BY <1>1, <1>3, <1>5
<1> HIDE DEF m
<1> DEFINE r == m \o right
<1>7. /\ r \in Seq(E) /\ Len(r) = n + 1
      /\ \A i \in 1 .. (k + 1) : r[i] = m[i]
      /\ \A i \in 1 .. (n - k) : r[(k + 1) + i] = right[i]
  <2>1. /\ r \in Seq(E) /\ Len(r) = Len(m) + Len(right)
        /\ \A i \in 1 .. Len(m) : r[i] = m[i]
        /\ \A i \in 1 .. Len(right) : r[Len(m) + i] = right[i]
    <3>1. m \in Seq(E) /\ right \in Seq(E)
      BY <1>5, <1>6
    <3> QED
      BY <3>1, ConcatElements
  <2>2. (k + 1) + (n - k) = n + 1
    <3> HIDE DEF n
    <3> QED
      BY <1>1, <1>3
  <2>3. Len(m) = k + 1 /\ Len(right) = n - k
    BY <1>5, <1>6
  <2> HIDE DEF r, n
  <2> QED
    BY <2>1, <2>2, <2>3
<1>8. InsertSorted(s, b) = r
  BY <1>4 DEF m
<1> HIDE DEF r
<1>9. (\A i \in 1 .. k : r[i] = s[i]) /\ r[k + 1] = b
  BY <1>3, <1>6, <1>7
<1>10. ASSUME NEW i \in (k + 1) .. n PROVE r[i + 1] = s[i]
  <2>1. i - k \in 1 .. (n - k) /\ (k + 1) + (i - k) = i + 1 /\ k + (i - k) = i
    <3> HIDE DEF n
    <3> QED
      BY <1>1, <1>3
  <2>2. r[(k + 1) + (i - k)] = right[i - k] /\ right[i - k] = s[k + (i - k)]
    BY <1>5, <1>7, <2>1
  <2> QED
    BY <2>1, <2>2
<1> QED
  BY <1>3, <1>7, <1>8, <1>9, <1>10

\* Inserting keeps the order, adds just that backend, and adds no path that was
\* there.
LEMMA InsertElements ==
  ASSUME NEW E, \A e \in E : e.priority \in Nat, NEW s \in Seq(E), NEW b \in E
  PROVE  /\ InsertSorted(s, b) \in Seq(E)
         /\ ToSet(InsertSorted(s, b)) = ToSet(s) \cup {b}
         /\ Ordered(s) => Ordered(InsertSorted(s, b))
         /\ DistinctPaths(s) /\ (\A i \in DOMAIN s : <<s[i].host, s[i].path>> # <<b.host, b.path>>)
              => DistinctPaths(InsertSorted(s, b))
<1> DEFINE n == Len(s)
           r == InsertSorted(s, b)
<1>1. n \in Nat /\ DOMAIN s = 1 .. n /\ \A i \in 1 .. n : s[i] \in E
  OBVIOUS
<1>2. PICK k \in 0 .. n :
        /\ r \in Seq(E) /\ Len(r) = n + 1
        /\ \A i \in 1 .. k : r[i] = s[i]
        /\ r[k + 1] = b
        /\ \A i \in (k + 1) .. n : r[i + 1] = s[i]
        /\ k > 0 => ~Less(b, s[k])
        /\ \A i \in (k + 1) .. n : Less(b, s[i])
  BY InsertPlace
<1> HIDE DEF n, r
<1>3. DOMAIN r = 1 .. (n + 1)
  BY <1>2
<1>4. ASSUME NEW i \in 1 .. (n + 1)
      PROVE  \/ i \in 1 .. k /\ i \in 1 .. n /\ r[i] = s[i]
             \/ i = k + 1 /\ r[i] = b
             \/ i - 1 \in (k + 1) .. n /\ i - 1 \in 1 .. n /\ r[i] = s[i - 1]
  <2>1. CASE i \in 1 .. k
    BY <1>1, <1>2, <2>1
  <2>2. CASE i = k + 1
    BY <1>2, <2>2
  <2>3. CASE i > k + 1
    <3>1. i - 1 \in (k + 1) .. n /\ i - 1 \in 1 .. n /\ (i - 1) + 1 = i
      BY <1>1, <2>3
    <3> QED
      BY <1>2, <3>1
  <2> QED
    BY <1>1, <2>1, <2>2, <2>3
<1>5. ToSet(r) = ToSet(s) \cup {b}
  <2>1. ToSet(r) \subseteq ToSet(s) \cup {b}
    BY <1>1, <1>3, <1>4 DEF ToSet
  <2>2. b \in ToSet(r)
    <3>1. k + 1 \in DOMAIN r
      BY <1>1, <1>3
    <3> QED
      BY <1>2, <3>1 DEF ToSet
  <2>3. ASSUME NEW i \in 1 .. n PROVE s[i] \in ToSet(r)
    <3>1. CASE i \in 1 .. k
      <4>1. i \in DOMAIN r
        BY <1>1, <1>3
      <4> QED
        BY <1>2, <3>1, <4>1 DEF ToSet
    <3>2. CASE i \in (k + 1) .. n
      <4>1. i + 1 \in DOMAIN r
        BY <1>1, <1>3
      <4> QED
        BY <1>2, <3>2, <4>1 DEF ToSet
    <3> QED
      BY <1>1, <3>1, <3>2
  <2> QED
    BY <1>1, <2>1, <2>2, <2>3 DEF ToSet
<1>6. ASSUME Ordered(s) PROVE Ordered(r)
  <2>1. \A i \in 1 .. n : s[i] \in E /\ s[i].priority \in Nat
    BY <1>1
  <2>2. \A i \in (k + 1) .. n : InOrder(b, s[i])
    <3>1. \A i \in (k + 1) .. n : i \in 1 .. n /\ Less(b, s[i])
      BY <1>1, <1>2
    <3> QED
      BY <2>1, <3>1, LessIsInOrder
  <2>3. ASSUME NEW i \in 1 .. k PROVE InOrder(s[i], b)
    <3>1. k \in 1 .. n /\ i \in 1 .. n
      BY <1>1
    <3>2. InOrder(s[k], b)
      BY <1>2, <2>1, <3>1, LessIsInOrder
    <3>3. CASE i < k
      <4>1. InOrder(s[i], s[k])
        BY <1>1, <1>6, <3>1, <3>3 DEF Ordered
      <4> QED
        BY <2>1, <3>1, <3>2, <4>1, InOrderTransitive
    <3> QED
      BY <1>1, <3>2, <3>3
  <2>4. ASSUME NEW i \in 1 .. n, NEW j \in 1 .. n, i < j PROVE InOrder(s[i], s[j])
    BY <1>1, <1>6, <2>4 DEF Ordered
  <2>5. ASSUME NEW i \in 1 .. (n + 1), NEW j \in 1 .. (n + 1), i < j PROVE InOrder(r[i], r[j])
    <3>1. CASE i \in 1 .. k /\ i \in 1 .. n /\ r[i] = s[i]
      <4>1. CASE j \in 1 .. n /\ r[j] = s[j]
        BY <2>4, <2>5, <3>1, <4>1
      <4>2. CASE r[j] = b
        BY <2>3, <3>1, <4>2
      <4>3. CASE j - 1 \in (k + 1) .. n /\ j - 1 \in 1 .. n /\ r[j] = s[j - 1]
        <5>1. i < j - 1
          BY <1>1, <3>1, <4>3
        <5> QED
          BY <2>4, <3>1, <4>3, <5>1
      <4> QED
        BY <1>4, <4>1, <4>2, <4>3
    <3>2. CASE i = k + 1 /\ r[i] = b
      <4>1. ~(j \in 1 .. k) /\ j # k + 1
        BY <1>1, <2>5, <3>2
      <4>2. j - 1 \in (k + 1) .. n /\ r[j] = s[j - 1]
        BY <1>4, <4>1
      <4> QED
        BY <2>2, <3>2, <4>2
    <3>3. CASE i - 1 \in (k + 1) .. n /\ i - 1 \in 1 .. n /\ r[i] = s[i - 1]
      <4>1. ~(j \in 1 .. k) /\ j # k + 1 /\ i - 1 < j - 1
        BY <1>1, <2>5, <3>3
      <4>2. j - 1 \in 1 .. n /\ r[j] = s[j - 1]
        BY <1>4, <4>1
      <4> QED
        BY <2>4, <3>3, <4>1, <4>2
    <3> QED
      BY <1>4, <3>1, <3>2, <3>3
  <2> QED
    BY <1>3, <2>5 DEF Ordered
<1>7. ASSUME DistinctPaths(s), \A i \in DOMAIN s : <<s[i].host, s[i].path>> # <<b.host, b.path>>
      PROVE  DistinctPaths(r)
  <2>1. ASSUME NEW i \in 1 .. (n + 1), NEW j \in 1 .. (n + 1), i # j
        PROVE  <<r[i].host, r[i].path>> # <<r[j].host, r[j].path>>
    <3> DEFINE From(x, y) == x \in 1 .. n /\ r[y] = s[x]
    <3>1. CASE i = k + 1
      <4>1. j # k + 1
        BY <2>1, <3>1
      <4>2. \E x \in 1 .. n : r[j] = s[x]
        BY <1>4, <4>1
      <4> QED
        BY <1>1, <1>2, <1>7, <3>1, <4>2
    <3>2. CASE j = k + 1
      <4>1. i # k + 1
        BY <2>1, <3>2
      <4>2. \E x \in 1 .. n : r[i] = s[x]
        BY <1>4, <4>1
      <4> QED
        BY <1>1, <1>2, <1>7, <3>2, <4>2
    <3>3. CASE i # k + 1 /\ j # k + 1
      <4>1. \E x \in 1 .. n, y \in 1 .. n : x # y /\ r[i] = s[x] /\ r[j] = s[y]
        <5>1. \/ i \in 1 .. k /\ i \in 1 .. n /\ r[i] = s[i]
              \/ i - 1 \in (k + 1) .. n /\ i - 1 \in 1 .. n /\ r[i] = s[i - 1]
          BY <1>4, <3>3
        <5>2. \/ j \in 1 .. k /\ j \in 1 .. n /\ r[j] = s[j]
              \/ j - 1 \in (k + 1) .. n /\ j - 1 \in 1 .. n /\ r[j] = s[j - 1]
          BY <1>4, <3>3
        <5> QED
          BY <1>1, <2>1, <5>1, <5>2
      <4> QED
        BY <1>1, <1>7, <4>1 DEF DistinctPaths
    <3> QED
      BY <3>1, <3>2, <3>3
  <2> QED
    BY <1>3, <2>1 DEF DistinctPaths
<1> QED
  BY <1>2, <1>5, <1>6, <1>7 DEF r

\* The backends are inserted one after the other.
LEMMA SortSteps ==
  ASSUME NEW E, NEW s \in Seq(E)
  PROVE  \E f \in [0 .. Len(s) -> Seq(E)] :
           /\ f[0] = <<>>
           /\ \A i \in 1 .. Len(s) : f[i] = InsertSorted(f[i - 1], s[i])
           /\ Sort(s) = f[Len(s)]
<1> DEFINE n == Len(s)
           X == Seq(E)
           G == [p \in (1 .. n) \X X |-> InsertSorted(p[2], s[p[1]])]
           Step(h, u) == IF u = {} THEN <<>> ELSE InsertSorted(h[u \ {Max(u)}], s[Max(u)])
           fold == CHOOSE h : h = [u \in SUBSET DOMAIN s |-> Step(h, u)]
<1>1. n \in Nat /\ DOMAIN s = 1 .. n /\ \A i \in 1 .. n : s[i] \in E
  OBVIOUS
<1>2. \A u \in X : \A i \in 1 .. n : InsertSorted(u, s[i]) \in X
  BY <1>1, InsertPlace
<1>3. Sort(s) = fold[DOMAIN s]
  BY DEF Sort, FoldLeft, MapThenFoldSet
<1>4. PICK h \in [SUBSET (1 .. n) -> X] : IsFold(h, n, <<>>, G)
  <2>1. <<>> \in X /\ G \in [(1 .. n) \X X -> X]
    BY <1>2
  <2> HIDE DEF n, G, X
  <2> QED
    BY <1>1, <2>1, FoldExists
<1>5. ASSUME NEW u \in SUBSET (1 .. n) PROVE h[u] = Step(h, u)
  <2>1. CASE u = {}
    BY <1>4, <2>1 DEF IsFold
  <2>2. CASE u # {}
    <3>1. Max(u) \in 1 .. n
      BY <1>1, <2>2, MaxIsGreatest, u \subseteq 0 .. n
    <3>2. u \ {Max(u)} \in SUBSET (1 .. n)
      OBVIOUS
    <3>3. h[u] = G[<<Max(u), h[u \ {Max(u)}]>>]
      BY <1>4, <2>2 DEF IsFold
    <3> QED
      BY <2>2, <3>1, <3>2, <3>3
  <2> QED
    BY <2>1, <2>2
<1>6. \A u \in SUBSET (1 .. n) : fold[u] = Step(fold, u)
  <2>1. h = [u \in SUBSET DOMAIN s |-> Step(h, u)]
    <3> HIDE DEF Step, n
    <3> QED
      BY <1>1, <1>5
  <2> HIDE DEF Step, n
  <2> QED
    BY <1>1, <2>1
<1> HIDE DEF fold
<1>7. HasRun(fold, n, X, <<>>, G)
  <2>1. fold[{}] = <<>>
    BY <1>6
  <2>2. ASSUME NEW u \in SUBSET (1 .. n), u # {}, fold[u \ {Max(u)}] \in X
        PROVE  fold[u] = G[<<Max(u), fold[u \ {Max(u)}]>>]
    <3>1. Max(u) \in 1 .. n
      BY <1>1, <2>2, MaxIsGreatest, u \subseteq 0 .. n
    <3> QED
      BY <1>6, <2>2, <3>1
  <2>3. Computes(fold, n, X, <<>>, G)
    <3> HIDE DEF n, G, X
    <3> QED
      BY <2>1, <2>2 DEF Computes
  <2>4. <<>> \in X /\ G \in [(1 .. n) \X X -> X]
    BY <1>2
  <2> HIDE DEF n, G, X
  <2> QED
    BY <1>1, <2>3, <2>4, FoldIsRun
<1>8. PICK f \in [0 .. n -> X] : /\ IsRun(f, n, <<>>, G)
                                 /\ \A i \in 1 .. n : f[i - 1] \in X
                                 /\ f[n] = fold[1 .. n]
  BY <1>7 DEF HasRun
<1>9. \A i \in 1 .. n : f[i] = InsertSorted(f[i - 1], s[i])
  <2>1. \A i \in 1 .. n : f[i - 1] \in X /\ f[i] = G[<<i, f[i - 1]>>]
    <3> HIDE DEF n, X, G
    <3> QED
      BY <1>8 DEF IsRun
  <2> HIDE DEF X
  <2> QED
    BY <2>1
<1> QED
  BY <1>1, <1>3, <1>8, <1>9 DEF IsRun

\* Sorting keeps the backends, puts them in order, and leaves their paths apart.
LEMMA SortElements ==
  ASSUME NEW E, \A e \in E : e.priority \in Nat, NEW s \in Seq(E)
  PROVE  /\ Sort(s) \in Seq(E)
         /\ ToSet(Sort(s)) = ToSet(s)
         /\ Ordered(Sort(s))
         /\ DistinctPaths(s) => DistinctPaths(Sort(s))
<1> DEFINE n == Len(s)
<1>0. ASSUME NEW u \in Seq(E), NEW b \in E
      PROVE  /\ ToSet(InsertSorted(u, b)) = ToSet(u) \cup {b}
             /\ Ordered(u) => Ordered(InsertSorted(u, b))
             /\ DistinctPaths(u) /\ (\A j \in DOMAIN u : <<u[j].host, u[j].path>> # <<b.host, b.path>>)
                  => DistinctPaths(InsertSorted(u, b))
  BY InsertElements
<1>1. PICK f \in [0 .. n -> Seq(E)] :
        /\ f[0] = <<>>
        /\ \A i \in 1 .. n : f[i] = InsertSorted(f[i - 1], s[i])
        /\ Sort(s) = f[n]
  BY SortSteps
<1>2. n \in Nat /\ DOMAIN s = 1 .. n /\ \A i \in 1 .. n : s[i] \in E
  OBVIOUS
<1> HIDE DEF n
<1> DEFINE Inserted(i) == i \in 0 .. n =>
             /\ ToSet(f[i]) = {s[k] : k \in 1 .. i}
             /\ Ordered(f[i])
             /\ DistinctPaths(s) => DistinctPaths(f[i])
           T == {i \in Nat : Inserted(i)}
<1>3. Inserted(0)
  BY <1>1 DEF ToSet, Ordered, DistinctPaths
<1>4. ASSUME NEW i \in Nat, Inserted(i) PROVE Inserted(i + 1)
  <2> SUFFICES ASSUME i + 1 \in 1 .. n
               PROVE  /\ ToSet(f[i + 1]) = {s[k] : k \in 1 .. (i + 1)}
                      /\ Ordered(f[i + 1])
                      /\ DistinctPaths(s) => DistinctPaths(f[i + 1])
    OBVIOUS
  <2> DEFINE u == f[i]
             b == s[i + 1]
  <2>1. i \in 0 .. n /\ (i + 1) - 1 = i
    BY <1>2
  <2>2. u \in Seq(E) /\ b \in E /\ f[i + 1] = InsertSorted(u, b)
    BY <1>1, <1>2, <2>1
  <2>3. /\ ToSet(u) = {s[k] : k \in 1 .. i}
        /\ Ordered(u)
        /\ DistinctPaths(s) => DistinctPaths(u)
    BY <1>4, <2>1
  <2>4. ASSUME DistinctPaths(s), NEW j \in DOMAIN u
        PROVE  <<u[j].host, u[j].path>> # <<b.host, b.path>>
    <3>1. PICK k \in 1 .. i : u[j] = s[k]
      BY <2>3 DEF ToSet
    <3>2. k \in 1 .. n /\ i + 1 \in 1 .. n /\ k # i + 1
      BY <1>2
    <3> QED
      BY <1>2, <2>4, <3>1, <3>2 DEF DistinctPaths
  <2>5. 1 .. (i + 1) = (1 .. i) \cup {i + 1}
    OBVIOUS
  <2>6. {s[k] : k \in 1 .. (i + 1)} = {s[k] : k \in 1 .. i} \cup {b}
    BY <2>5
  <2> HIDE DEF u, b
  <2>7. /\ ToSet(f[i + 1]) = ToSet(u) \cup {b}
        /\ Ordered(f[i + 1])
        /\ DistinctPaths(s) => DistinctPaths(f[i + 1])
    <3>1. /\ ToSet(InsertSorted(u, b)) = ToSet(u) \cup {b}
          /\ Ordered(u) => Ordered(InsertSorted(u, b))
          /\ DistinctPaths(u) /\ (\A j \in DOMAIN u : <<u[j].host, u[j].path>> # <<b.host, b.path>>)
               => DistinctPaths(InsertSorted(u, b))
      BY <1>0, <2>2, Zenon
    <3> QED
      BY <2>2, <2>3, <2>4, <3>1
  <2> QED
    BY <2>3, <2>6, <2>7
<1>5. Inserted(n)
  <2> HIDE DEF Inserted
  <2>1. 0 \in T /\ \A i \in Nat : i \in T => i + 1 \in T
    BY <1>3, <1>4
  <2> HIDE DEF T
  <2>2. n \in T
    BY <1>2, <2>1, NatsBySteps
  <2> QED
    BY <2>2 DEF T
<1>6. n \in 0 .. n /\ f[n] \in Seq(E)
  BY <1>2
<1>7. ToSet(s) = {s[k] : k \in 1 .. n}
  BY <1>2 DEF ToSet
<1> QED
  BY <1>1, <1>5, <1>6, <1>7

-----------------------------------------------------------------------------
(* The endpoints of a service.                                             *)

\* What an endpoint can be made from.
Addresses == UNION {ToSet(Services[s].ips) : s \in DOMAIN Services}
Address(i) == [ip |-> i, state |-> "running"]
HostName(s) == [ip |-> Services[s].cname, state |-> "cname"]
Sources ==
  (UNION {ToSet(Services[s].containers) : s \in DOMAIN Services})
  \cup {Address(i) : i \in Addresses} \cup {HostName(s) : s \in DOMAIN Services}

LEMMA ThoseElements ==
  ASSUME NEW E, NEW s \in Seq(E), NEW S
  PROVE  Those(s, S) \in Seq(E) /\ ToSet(Those(s, S)) = ToSet(s) \cap S
<1> DEFINE seqs == [i \in DOMAIN s |-> IF s[i] \in S THEN <<s[i]>> ELSE <<>>]
<1>1. Len(s) \in Nat /\ DOMAIN s = 1 .. Len(s) /\ \A i \in DOMAIN s : s[i] \in E
  OBVIOUS
<1>2. seqs \in Seq(Seq(E)) /\ DOMAIN seqs = DOMAIN s
  <2>1. \A i \in DOMAIN s : (IF s[i] \in S THEN <<s[i]>> ELSE <<>>) \in Seq(E)
    BY <1>1
  <2> QED
    BY <1>1, <2>1
<1>3. \A i \in DOMAIN s : ToSet(seqs[i]) = {s[i]} \cap S
  BY DEF ToSet
<1>4. Those(s, S) = FlattenSeq(seqs)
  BY DEF Those
<1> HIDE DEF seqs
<1>5. FlattenSeq(seqs) \in Seq(E) /\ ToSet(FlattenSeq(seqs)) = UNION {ToSet(seqs[i]) : i \in DOMAIN seqs}
  BY <1>2, FlattenElements
<1>6. UNION {ToSet(seqs[i]) : i \in DOMAIN seqs} = {s[i] : i \in DOMAIN s} \cap S
  BY <1>2, <1>3
<1> QED
  BY <1>4, <1>5, <1>6 DEF ToSet

\* The endpoints of a service that is no alias.
LEMMA OwnEndpoints ==
  ASSUME NEW s \in DOMAIN Services
  PROVE  Direct(Services[s]) \in Seq(Sources)
<1> DEFINE v == Services[s]
<1>1. IsSequence(v.containers) /\ IsSequence(v.ips)
  BY ServicesAssumption
<1>2. v.containers \in Seq(Sources)
  <2>1. ToSet(v.containers) \subseteq Sources
    BY DEF Sources
  <2>2. v.containers \in Seq(ToSet(v.containers))
    BY <1>1 DEF IsSequence
  <2> HIDE DEF v
  <2> DEFINE c == v.containers
             E == ToSet(c)
  <2>3. c \in Seq(E) /\ E \subseteq Sources
    BY <2>1, <2>2
  <2> HIDE DEF c, E
  <2> QED
    BY <2>3 DEF c
<1>3. Candidates(v) \in Seq(Sources)
  <2> HIDE DEF v
  <2> QED
    BY <1>2, ThoseElements DEF Candidates
<1>4. External(v) \in Seq(Sources)
  <2> DEFINE addresses == [i \in DOMAIN v.ips |-> [ip |-> v.ips[i], state |-> "running"]]
             name == IF v.cname = None THEN <<>> ELSE <<[ip |-> v.cname, state |-> "cname"]>>
  <2>1. addresses \in Seq(Sources)
    <3>1. \A i \in DOMAIN v.ips : Address(v.ips[i]) \in Sources
      <4>1. \A i \in DOMAIN v.ips : v.ips[i] \in Addresses
        BY DEF ToSet, Addresses
      <4> QED
        BY <4>1 DEF Sources
    <3>2. Len(v.ips) \in Nat /\ DOMAIN v.ips = 1 .. Len(v.ips)
      <4> DEFINE E == ToSet(v.ips)
      <4>1. v.ips \in Seq(E)
        BY <1>1 DEF IsSequence
      <4> HIDE DEF E, v
      <4> QED
        BY <4>1
    <3> HIDE DEF v
    <3> QED
      BY <3>1, <3>2 DEF Address
  <2>2. name \in Seq(Sources)
    <3>1. HostName(s) \in Sources
      BY DEF Sources
    <3> QED
      BY <3>1 DEF HostName
  <2>3. External(v) = addresses \o name
    BY DEF External
  <2> HIDE DEF addresses, name
  <2> QED
    BY <2>1, <2>2, <2>3
<1> QED
  BY <1>3, <1>4 DEF Direct

\* Links lead to the end, so that the endpoints of every service are found; those
\* of an alias are those of its links.
LEMMA EndpointsFound ==
  /\ EndpointsOf \in [DOMAIN Services -> Seq(Sources)]
  /\ \A s \in DOMAIN Services :
       EndpointsOf[s] =
         IF Services[s].kind = "dnsService"
         THEN FlattenSeq([i \in DOMAIN Services[s].links |-> EndpointsOf[Services[s].links[i]]])
         ELSE Direct(Services[s])
<1> DEFINE D == DOMAIN Services
           X == Seq(Sources)
           L == [s \in D |-> ToSet(Services[s].links)]
           Linked(h, s) == [i \in DOMAIN Services[s].links |-> h[Services[s].links[i]]]
           Step(h, s) ==
             IF Services[s].kind = "dnsService" THEN FlattenSeq(Linked(h, s))
             ELSE Direct(Services[s])
           G == [p \in D \X [D -> X] |-> Step(p[2], p[1])]
<1>1. \A s \in D : /\ Services[s].links \in Seq(D)
                   /\ DOMAIN Services[s].links = 1 .. Len(Services[s].links)
                   /\ Len(Services[s].links) \in Nat
                   /\ \A i \in DOMAIN Services[s].links :
                        Services[s].links[i] \in D /\ Services[s].links[i] \in L[s]
  <2> SUFFICES ASSUME NEW s \in D
               PROVE  /\ Services[s].links \in Seq(D)
                      /\ DOMAIN Services[s].links = 1 .. Len(Services[s].links)
                      /\ Len(Services[s].links) \in Nat
                      /\ \A i \in DOMAIN Services[s].links :
                           Services[s].links[i] \in D /\ Services[s].links[i] \in L[s]
    OBVIOUS
  <2> DEFINE links == Services[s].links
  <2>1. links \in Seq(D)
    BY ServicesAssumption
  <2>2. L[s] = ToSet(links)
    OBVIOUS
  <2> HIDE DEF links, D, L
  <2>3. /\ DOMAIN links = 1 .. Len(links) /\ Len(links) \in Nat
        /\ \A i \in DOMAIN links : links[i] \in D /\ links[i] \in L[s]
    BY <2>1, <2>2 DEF ToSet
  <2> QED
    BY <2>1, <2>3 DEF links
<1>2. L \in [D -> SUBSET D]
  <2>1. \A s \in D : ToSet(Services[s].links) \subseteq D
    BY <1>1 DEF ToSet
  <2> QED
    BY <2>1
<1>3. Founded(D, L)
  BY ServicesAssumption DEF Founded
<1>4. ASSUME NEW s \in D, NEW h, \A i \in DOMAIN Services[s].links : h[Services[s].links[i]] \in X
      PROVE  Step(h, s) \in X
  <2>1. Linked(h, s) \in Seq(X)
    <3> DEFINE links == Services[s].links
    <3>1. DOMAIN links = 1 .. Len(links) /\ Len(links) \in Nat /\ \A i \in DOMAIN links : h[links[i]] \in X
      BY <1>1, <1>4
    <3> HIDE DEF links, X
    <3>2. [i \in DOMAIN links |-> h[links[i]]] \in Seq(X)
      BY <3>1
    <3> QED
      BY <3>2 DEF links
  <2>2. FlattenSeq(Linked(h, s)) \in X
    <3> HIDE DEF Linked
    <3> QED
      BY <2>1, FlattenElements
  <2>3. Direct(Services[s]) \in X
    BY OwnEndpoints
  <2> HIDE DEF Linked, X
  <2> QED
    BY <2>2, <2>3
<1>5. G \in [D \X [D -> X] -> X]
  <2>1. \A s \in D : \A h \in [D -> X] : Step(h, s) \in X
    <3> HIDE DEF Step, X
    <3> QED
      BY <1>1, <1>4
  <2> HIDE DEF Step, X, D
  <2> QED
    BY <2>1
<1>6. ASSUME NEW s \in D, NEW g, NEW h, \A l \in L[s] : g[l] = h[l] PROVE Step(g, s) = Step(h, s)
  <2>1. Linked(g, s) = Linked(h, s)
    BY <1>1, <1>6
  <2> HIDE DEF Linked
  <2> QED
    BY <2>1
<1>7. ByLinks(G, D, L, X)
  <2>1. \A s \in D : \A g, h \in [D -> X] : (\A l \in L[s] : g[l] = h[l]) => Step(g, s) = Step(h, s)
    BY <1>6
  <2> HIDE DEF Step, X, D, L
  <2> QED
    BY <2>1 DEF ByLinks
<1>8. PICK g \in [D -> X] : \A s \in D : g[s] = G[<<s, g>>]
  <2>1. <<>> \in X
    OBVIOUS
  <2> HIDE DEF D, L, X, G
  <2>2. X # {}
    BY <2>1
  <2>3. HasFunction(G, D, X)
    BY <1>2, <1>3, <1>5, <1>7, <2>2, RecursionAlongLinks
  <2> QED
    BY <2>3 DEF HasFunction
<1>9. g = [s \in D |-> Step(g, s)]
  <2>1. \A s \in D : g[s] = Step(g, s)
    <3> HIDE DEF Step
    <3> QED
      BY <1>8
  <2> HIDE DEF Step, D
  <2> QED
    BY <1>8, <2>1
<1>10. EndpointsOf = CHOOSE h : h = [s \in D |-> Step(h, s)]
  BY DEF EndpointsOf
<1>11. EndpointsOf = [s \in D |-> Step(EndpointsOf, s)]
  <2> HIDE DEF Step, D
  <2> QED
    BY <1>9, <1>10
<1>12. \A s \in D : EndpointsOf[s] = Step(EndpointsOf, s)
  <2> HIDE DEF Step, D
  <2> QED
    BY <1>11
<1>13. \A s \in D : EndpointsOf[s] \in X
  <2> DEFINE Bad == {s \in D : EndpointsOf[s] \notin X}
  <2> SUFFICES ASSUME Bad # {} PROVE FALSE
    OBVIOUS
  <2>1. PICK s \in Bad : L[s] \cap Bad = {}
    <3>1. Bad \in SUBSET D
      OBVIOUS
    <3> HIDE DEF Bad, D, L
    <3> QED
      BY <1>3, <3>1 DEF Founded
  <2>2. \A i \in DOMAIN Services[s].links : EndpointsOf[Services[s].links[i]] \in X
    <3> HIDE DEF X, L
    <3> QED
      BY <1>1, <2>1
  <2>3. Step(EndpointsOf, s) \in X
    <3> HIDE DEF X, Step
    <3> QED
      BY <1>4, <2>2
  <2> HIDE DEF X, Step
  <2> QED
    BY <1>12, <2>3
<1>14. EndpointsOf \in [D -> X]
  <2>1. EndpointsOf = [s \in D |-> EndpointsOf[s]]
    <3> DEFINE e == EndpointsOf
    <3> HIDE DEF Step, D, e
    <3> QED
      BY <1>11 DEF e
  <2> HIDE DEF X, D
  <2> QED
    BY <1>13, <2>1
<1> QED
  BY <1>12, <1>14

-----------------------------------------------------------------------------
(* The inductive invariant.                                                *)

\* The service of a rule may not be there; that of a rule that is taken is.
RuleFit(r) ==
  /\ DOMAIN r = RuleFields
  /\ r.source \in ToSet(Ports) \cup {0}
  /\ r.priority \in Nat /\ r.weight \in Int
  /\ r.service \in DOMAIN Services \cup {None}
RuleOK(r) == RuleFit(r) /\ r.service \in DOMAIN Services

BackendOK(b) ==
  /\ DOMAIN b = {"host", "path", "form", "priority", "uuid", "check", "servers"}
  /\ b.priority \in Nat
  /\ IsSequence(b.servers)

RulesOK(rules) == IsSequence(rules) /\ \A r \in ToSet(rules) : RuleFit(r)
BackendsOK(backends) == IsSequence(backends) /\ \A b \in ToSet(backends) : BackendOK(b)

Typed ==
  /\ metadata \in Inputs
  /\ read \in 1..(Len(metadata.rules) + 1)
  /\ RulesOK(portRules)
  /\ next \in 1..(Len(portRules) + 1)
  /\ \A i \in 1..(next - 1) : ~Unknown(portRules[i])
  /\ sorted \in BOOLEAN
  /\ unread \subseteq DOMAIN metadata.rules
  /\ DOMAIN frontends = ToSet(Ports)
  /\ \A p \in ToSet(Ports) : BackendsOK(frontends[p]) /\ DistinctPaths(frontends[p])

\* Rules are read, then made into backends, then these are sorted.
Staged ==
  /\ Reading => next = 1 /\ \A p \in ToSet(Ports) : frontends[p] = <<>>
  /\ sorted => ~Reading /\ ~Looking

\* Backend b of port p is what the rules that have been taken make of it.
MadeOf(b, own) ==
  /\ IPs(b.servers) = UNION {IPs(Endpoints(r)) : r \in own}
  /\ (\A r \in own : Distinct(Endpoints(r))) => Distinct(b.servers)
  /\ \A ep \in Servers(b) : \E r \in own : ep \in ToSet(Endpoints(r))
  /\ \E r \in own : b.form = Pattern(r).form
OwnOf(taken, p, b) == {r \in taken : r.source = p /\ SamePath(b, r)}
MergesOf(backends, taken) ==
  /\ \A p \in ToSet(Ports) : \A b \in ToSet(backends[p]) : MadeOf(b, OwnOf(taken, p, b))
  /\ \A r \in taken : \E b \in ToSet(backends[r.source]) : SamePath(b, r)
Merges == MergesOf(frontends, Taken)

InOrderWhenSorted == sorted => \A p \in ToSet(Ports) : Ordered(frontends[p])

IInv == Typed /\ Staged /\ Merges /\ InOrderWhenSorted

LEMMA InitIsIInv == Init => IInv
<1> SUFFICES ASSUME Init PROVE IInv
  OBVIOUS
<1>1. metadata \in Inputs /\ IsSequence(metadata.rules) /\ Len(metadata.rules) \in Nat
  <2>1. metadata \in Inputs
    BY DEF Init
  <2>2. IsSequence(metadata.rules)
    BY <2>1, InputsAssumption
  <2> DEFINE rules == metadata.rules
             E == ToSet(rules)
  <2>3. rules \in Seq(E)
    BY <2>2 DEF IsSequence
  <2> HIDE DEF rules, E
  <2>4. Len(rules) \in Nat
    BY <2>3
  <2> QED
    BY <2>1, <2>2, <2>4 DEF rules
<1>2. ToSet(<<>>) = {} /\ <<>> \in Seq({}) /\ DOMAIN <<>> = {} /\ Len(<<>>) = 0
  BY DEF ToSet
<1>3. Typed
  <2>1. RulesOK(portRules)
    BY <1>2 DEF Init, RulesOK, IsSequence
  <2>2. ASSUME NEW p \in ToSet(Ports) PROVE BackendsOK(frontends[p]) /\ DistinctPaths(frontends[p])
    <3>1. frontends[p] = <<>>
      BY DEF Init
    <3> QED
      BY <1>2, <3>1 DEF BackendsOK, DistinctPaths, IsSequence
  <2>3. /\ read \in 1..(Len(metadata.rules) + 1)
        /\ next \in 1..(Len(portRules) + 1)
        /\ 1..(next - 1) = {}
        /\ sorted \in BOOLEAN
        /\ unread \subseteq DOMAIN metadata.rules
        /\ DOMAIN frontends = ToSet(Ports)
    <3>1. read = 1 /\ next = 1 /\ Len(portRules) = 0 /\ sorted = FALSE /\ unread = {}
      BY <1>2 DEF Init
    <3>2. DOMAIN frontends = ToSet(Ports)
      BY DEF Init
    <3>3. 1 \in 1..(Len(metadata.rules) + 1) /\ 1 \in 1..(0 + 1) /\ 1..(1 - 1) = {}
      BY <1>1
    <3> QED
      BY <3>1, <3>2, <3>3
  <2> QED
    BY <1>1, <2>1, <2>2, <2>3 DEF Typed
<1>4. Staged /\ InOrderWhenSorted
  BY DEF Init, Staged, InOrderWhenSorted
<1>5. Merges
  <2>1. Taken = {}
    BY DEF Init, Taken
  <2> QED
    BY <1>2, <2>1 DEF Init, Merges, MergesOf
<1> QED
  BY <1>3, <1>4, <1>5 DEF IInv

\* Sequences of rules, and of backends, that are extended.
LEMMA SequenceOf ==
  ASSUME NEW E, NEW s \in Seq(E)
  PROVE  /\ IsSequence(s) /\ ToSet(s) \subseteq E
         /\ Len(s) \in Nat /\ DOMAIN s = 1 .. Len(s)
<1>1. Len(s) \in Nat /\ DOMAIN s = 1 .. Len(s) /\ \A i \in DOMAIN s : s[i] \in E
  OBVIOUS
<1>2. ToSet(s) \subseteq E /\ \A i \in DOMAIN s : s[i] \in ToSet(s)
  BY <1>1 DEF ToSet
<1> DEFINE F == ToSet(s)
<1> HIDE DEF F
<1>3. s \in Seq(F)
  BY <1>1, <1>2 DEF F
<1> QED
  BY <1>1, <1>2, <1>3 DEF F, IsSequence

LEMMA Extended ==
  ASSUME NEW s, IsSequence(s), NEW x
  PROVE  /\ IsSequence(Append(s, x)) /\ ToSet(Append(s, x)) = ToSet(s) \cup {x}
         /\ Len(s) \in Nat /\ DOMAIN s = 1 .. Len(s)
         /\ Len(Append(s, x)) = Len(s) + 1 /\ DOMAIN Append(s, x) = 1 .. (Len(s) + 1)
         /\ \A i \in 1 .. Len(s) : Append(s, x)[i] = s[i]
         /\ Append(s, x)[Len(s) + 1] = x
<1> DEFINE E == ToSet(s) \cup {x}
           a == Append(s, x)
<1>1. s \in Seq(E)
  <2> DEFINE F == ToSet(s)
  <2>1. s \in Seq(F) /\ F \subseteq E
    BY DEF IsSequence
  <2> HIDE DEF F, E
  <2> QED
    BY <2>1
<1>2. x \in E
  OBVIOUS
<1> HIDE DEF E
<1>3. /\ a \in Seq(E) /\ Len(s) \in Nat /\ DOMAIN s = 1 .. Len(s)
      /\ Len(a) = Len(s) + 1 /\ DOMAIN a = 1 .. (Len(s) + 1)
      /\ \A i \in 1 .. Len(s) : a[i] = s[i]
      /\ a[Len(s) + 1] = x
  BY <1>1, <1>2
<1> HIDE DEF a
<1>4. IsSequence(a)
  BY <1>3, SequenceOf
<1>5. 1 .. (Len(s) + 1) = (1 .. Len(s)) \cup {Len(s) + 1}
  BY <1>3
<1>6. ToSet(a) = ToSet(s) \cup {x}
  BY <1>3, <1>5 DEF ToSet
<1> QED
  BY <1>3, <1>4, <1>6 DEF a

\* The rules that take the place of others.
LEMMA FlattenedRules ==
  ASSUME NEW n \in Nat, NEW seqs, seqs = [i \in 1 .. n |-> seqs[i]], \A i \in 1 .. n : RulesOK(seqs[i])
  PROVE  /\ RulesOK(FlattenSeq(seqs))
         /\ ToSet(FlattenSeq(seqs)) = UNION {ToSet(seqs[i]) : i \in 1 .. n}
<1> DEFINE E == UNION {ToSet(seqs[i]) : i \in 1 .. n}
<1>1. ASSUME NEW i \in 1 .. n PROVE seqs[i] \in Seq(E)
  <2> DEFINE s == seqs[i]
             F == ToSet(s)
  <2>1. s \in Seq(F) /\ F \subseteq E
    BY DEF RulesOK, IsSequence
  <2> HIDE DEF s, F, E
  <2> QED
    BY <2>1 DEF s
<1> HIDE DEF E
<1>2. seqs \in Seq(Seq(E))
  <2> DEFINE X == Seq(E)
  <2> HIDE DEF X
  <2>1. seqs \in [1 .. n -> X]
    BY <1>1 DEF X
  <2>2. seqs \in Seq(X)
    BY <2>1
  <2> QED
    BY <2>2 DEF X
<1>3. FlattenSeq(seqs) \in Seq(E) /\ ToSet(FlattenSeq(seqs)) = UNION {ToSet(seqs[i]) : i \in DOMAIN seqs}
  BY <1>2, FlattenElements
<1>4. IsSequence(FlattenSeq(seqs)) /\ ToSet(FlattenSeq(seqs)) \subseteq E
  BY <1>3, SequenceOf
<1>5. \A r \in E : RuleFit(r)
  BY DEF E, RulesOK
<1> QED
  BY <1>3, <1>4, <1>5 DEF RulesOK

LEMMA RulesJoined ==
  ASSUME NEW s, NEW t, RulesOK(s), RulesOK(t)
  PROVE  RulesOK(s \o t) /\ ToSet(s \o t) = ToSet(s) \cup ToSet(t) /\ Len(s) \in Nat /\ Len(t) \in Nat /\ Len(s \o t) = Len(s) + Len(t)
<1> DEFINE E == ToSet(s) \cup ToSet(t)
<1>1. s \in Seq(E) /\ t \in Seq(E)
  <2> DEFINE F == ToSet(s)
             G == ToSet(t)
  <2>1. s \in Seq(F) /\ t \in Seq(G) /\ F \subseteq E /\ G \subseteq E
    BY DEF RulesOK, IsSequence
  <2> HIDE DEF F, G, E
  <2> QED
    BY <2>1
<1>2. \A r \in E : RuleFit(r)
  BY DEF RulesOK
<1> HIDE DEF E
<1>3. s \o t \in Seq(E) /\ Len(s \o t) = Len(s) + Len(t) /\ ToSet(s \o t) = ToSet(s) \cup ToSet(t)
  BY <1>1, ConcatElements
<1>4. IsSequence(s \o t) /\ ToSet(s \o t) \subseteq E
  BY <1>3, SequenceOf
<1>5. Len(s) \in Nat /\ Len(t) \in Nat
  BY <1>1
<1> QED
  BY <1>2, <1>3, <1>4, <1>5 DEF RulesOK

\* The services that a selector looks at.
LEMMA ServicesFound ==
  ASSUME NEW region, NEW environment
  PROVE  ServicesOf(region, environment) \in Seq(DOMAIN Services)
<1>1. ASSUME NEW name PROVE InEnvironment(region, name) \in Seq(DOMAIN Services)
  <2> DEFINE there == IF region = None THEN OwnRegion ELSE region
             found == {i \in DOMAIN Environments :
                         Environments[i].region = there /\ Environments[i].name = name}
  <2>1. DOMAIN Environments \subseteq Nat
    <3> DEFINE E == ToSet(Environments)
    <3>1. Environments \in Seq(E)
      BY ServicesAssumption DEF IsSequence
    <3> HIDE DEF E
    <3> QED
      BY <3>1
  <2>2. CASE found = {}
    <3>1. InEnvironment(region, name) = <<>>
      BY <2>2 DEF InEnvironment
    <3>2. <<>> \in Seq(DOMAIN Services)
      OBVIOUS
    <3> QED
      BY <3>1, <3>2
  <2>3. CASE found # {}
    <3>1. Min(found) \in DOMAIN Environments
      BY <2>1, <2>3, MinIsLeast, found \subseteq Nat
    <3>2. Environments[Min(found)] \in ToSet(Environments)
      BY <3>1 DEF ToSet
    <3>3. Environments[Min(found)].services \in Seq(DOMAIN Services)
      BY <3>2, ServicesAssumption
    <3>4. InEnvironment(region, name) = Environments[Min(found)].services
      BY <2>3 DEF InEnvironment
    <3> QED
      BY <3>3, <3>4
  <2> QED
    BY <2>2, <2>3
<1> QED
  BY <1>1, ServicesAssumption DEF ServicesOf

\* A rule with a selector becomes rules for the services it finds.
LEMMA SelectedRules ==
  ASSUME NEW r, DOMAIN r = RuleFields, r.source \in ToSet(Ports) \cup {0}, r.weight \in Int,
         NEW s \in DOMAIN Services
  PROVE  RulesOK(Selected(r, s))
<1> DEFINE own == Services[s].rules
<1>1. IsSequence(own)
  BY ServicesAssumption
<1>2. RuleFit(ForService(r, s))
  <2> DEFINE f == ForService(r, s)
  <2>1. /\ DOMAIN f = RuleFields /\ f.source = r.source /\ f.weight = r.weight
        /\ f.priority = 0 /\ f.service = NameFor(r, s)
    BY DEF ForService, RuleFields
  <2> HIDE DEF f
  <2>2. RuleFit(f)
    BY <2>1 DEF RuleFit, NameFor
  <2> QED
    BY <2>2 DEF f
<1>3. ASSUME NEW o PROVE RuleFit(OwnRule(r, s, o))
  <2> DEFINE f == OwnRule(r, s, o)
  <2>1. DOMAIN f = RuleFields /\ f.source = ForService(r, s).source
        /\ f.weight = ForService(r, s).weight /\ f.priority = ForService(r, s).priority /\ f.service = ForService(r, s).service
    BY <1>2 DEF OwnRule, RuleFit, RuleFields
  <2> HIDE DEF f
  <2>2. RuleFit(f)
    BY <1>2, <2>1 DEF RuleFit
  <2> QED
    BY <2>2 DEF f
<1>4. RulesOK(<<>>)
  <2>1. ToSet(<<>>) = {} /\ <<>> \in Seq({})
    BY DEF ToSet
  <2> QED
    BY <2>1 DEF RulesOK, IsSequence
<1>5. RulesOK([i \in DOMAIN own |-> OwnRule(r, s, own[i])])
  <2> DEFINE rules == [i \in DOMAIN own |-> OwnRule(r, s, own[i])]
             E == {OwnRule(r, s, own[i]) : i \in DOMAIN own}
  <2>1. own \in Seq(ToSet(own))
    BY <1>1 DEF IsSequence
  <2>2. Len(own) \in Nat /\ DOMAIN own = 1 .. Len(own)
    <3> DEFINE o == own
               F == ToSet(o)
    <3>1. o \in Seq(F)
      BY <2>1
    <3> HIDE DEF o, F
    <3>2. Len(o) \in Nat /\ DOMAIN o = 1 .. Len(o)
      BY <3>1
    <3> QED
      BY <3>2 DEF o
  <2>3. rules \in Seq(E)
    <3> HIDE DEF own
    <3> QED
      BY <2>2
  <2>4. \A x \in E : RuleFit(x)
    BY <1>3
  <2> HIDE DEF rules, E
  <2>5. RulesOK(rules)
    BY <2>3, <2>4, SequenceOf DEF RulesOK
  <2> QED
    BY <2>5 DEF rules
<1>6. RulesOK(<<ForService(r, s)>>)
  <2> DEFINE f == ForService(r, s)
             one == <<f>>
  <2>1. RuleFit(f)
    BY <1>2
  <2> HIDE DEF f
  <2>2. one \in Seq({f})
    OBVIOUS
  <2> HIDE DEF one
  <2>3. RulesOK(one)
    BY <2>1, <2>2, SequenceOf DEF RulesOK
  <2> QED
    BY <2>3 DEF one, f
<1> HIDE DEF own
<1> QED
  BY <1>4, <1>5, <1>6 DEF Selected, own

\* The endpoints of a rule, for any preference.
LEMMA EndpointsTyped ==
  ASSUME NEW r, RuleOK(r)
  PROVE  IsSequence(Endpoints(r))
<1> DEFINE found == EndpointsOf[r.service]
           eps == [i \in DOMAIN found |-> Server(found[i], r)]
           E == {Server(c, r) : c \in Sources}
<1>1. found \in Seq(Sources)
  BY EndpointsFound DEF RuleOK
<1>2. eps \in Seq(E)
  <2> HIDE DEF found
  <2>1. Len(found) \in Nat /\ DOMAIN found = 1 .. Len(found) /\ \A i \in DOMAIN found : found[i] \in Sources
    BY <1>1
  <2>2. \A i \in DOMAIN found : Server(found[i], r) \in E
    BY <2>1
  <2> HIDE DEF E
  <2> QED
    BY <2>1, <2>2
<1>3. Endpoints(r) = eps
  BY DEF Endpoints
<1> HIDE DEF eps, E
<1> QED
  BY <1>2, <1>3, SequenceOf

-----------------------------------------------------------------------------
(* The steps.                                                              *)

\* What rules lead to depends on nothing but the metadata.
LEMMA Unchanging ==
  ASSUME UNCHANGED metadata
  PROVE  /\ \A r : Endpoints(r)' = Endpoints(r)
         /\ \A r : Skipped(r)' <=> Skipped(r)
<1>1. EndpointsOf' = EndpointsOf
  BY DEF EndpointsOf, Direct, Candidates, Contingency
<1>2. \A r : Endpoints(r)' = Endpoints(r)
  BY <1>1 DEF Endpoints
<1> QED
  BY <1>2 DEF Skipped

LEMMA MergesUnchanging ==
  ASSUME UNCHANGED metadata, MergesOf(frontends', Taken')
  PROVE  Merges'
<1>1. \A r : Endpoints(r)' = Endpoints(r)
  BY Unchanging
<1>2. ASSUME NEW b, NEW own, MadeOf(b, own) PROVE MadeOf(b, own)'
  BY <1>1, <1>2 DEF MadeOf
<1> QED
  BY <1>2 DEF Merges, MergesOf, OwnOf, SamePath, Pattern

\* The rules taken when the next has been looked at.
LEMMA TakenNext ==
  ASSUME Typed, Looking, UNCHANGED <<metadata, read, portRules>>, next' = next + 1
  PROVE  /\ Taken' = IF Skipped(Rule) THEN Taken ELSE Taken \cup {Rule}
         /\ next' \in 1..(Len(portRules') + 1)
         /\ ~Unknown(Rule) => \A i \in 1..(next' - 1) : ~Unknown(portRules'[i])
         /\ ~Unknown(Rule) /\ ~Skipped(Rule) => RuleOK(Rule)
         /\ ~Reading' /\ ~Reading
<1>1. RulesOK(portRules) /\ next \in 1..(Len(portRules) + 1)
  BY DEF Typed
<1>2. Len(portRules) \in Nat /\ DOMAIN portRules = 1 .. Len(portRules)
  <2> DEFINE E == ToSet(portRules)
  <2>1. portRules \in Seq(E)
    BY <1>1 DEF RulesOK, IsSequence
  <2> HIDE DEF E
  <2> QED
    BY <2>1
<1>3. next \in 1 .. Len(portRules)
  BY <1>1, <1>2 DEF Looking
<1>4. 1 .. (next' - 1) = (1 .. (next - 1)) \cup {next}
  BY <1>2, <1>3
<1>5. Taken' = {portRules[i] : i \in {j \in 1 .. (next' - 1) : ~Skipped(portRules[j])}}
  BY Unchanging DEF Taken
<1>6. Taken' = IF Skipped(Rule) THEN Taken ELSE Taken \cup {Rule}
  <2>1. CASE Skipped(portRules[next])
    <3>1. {j \in 1 .. (next' - 1) : ~Skipped(portRules[j])} = {j \in 1 .. (next - 1) : ~Skipped(portRules[j])}
      BY <1>4, <2>1
    <3> QED
      BY <1>5, <2>1, <3>1 DEF Taken, Rule
  <2>2. CASE ~Skipped(portRules[next])
    <3>1. {j \in 1 .. (next' - 1) : ~Skipped(portRules[j])}
            = {j \in 1 .. (next - 1) : ~Skipped(portRules[j])} \cup {next}
      BY <1>4, <2>2
    <3> QED
      BY <1>5, <2>2, <3>1 DEF Taken, Rule
  <2> QED
    BY <2>1, <2>2
<1>7. ~Unknown(Rule) /\ ~Skipped(Rule) => RuleOK(Rule)
  <2>1. RuleFit(Rule)
    BY <1>1, <1>2, <1>3 DEF RulesOK, Rule, ToSet
  <2> QED
    BY <2>1 DEF RuleFit, RuleOK, Skipped, Unknown
<1>8. next' \in 1..(Len(portRules') + 1)
  BY <1>2, <1>3
<1>9. ~Unknown(Rule) => \A i \in 1..(next' - 1) : ~Unknown(portRules'[i])
  BY <1>4 DEF Typed, Rule
<1> QED
  BY <1>6, <1>7, <1>8, <1>9 DEF Looking, Reading

\* A rule of the metadata has been read.
LEMMA RuleRead ==
  ASSUME IInv, Reading, read' = read + 1, RulesOK(portRules'), unread' \subseteq DOMAIN metadata.rules,
         UNCHANGED <<metadata, next, frontends, sorted>>
  PROVE  IInv'
<1>1. next = 1 /\ ~sorted /\ \A p \in ToSet(Ports) : frontends[p] = <<>>
  BY DEF IInv, Staged
<1>2. Len(portRules') \in Nat
  <2> DEFINE E == ToSet(portRules')
  <2>1. portRules' \in Seq(E)
    BY DEF RulesOK, IsSequence
  <2> HIDE DEF E
  <2> QED
    BY <2>1
<1>3. Typed'
  <2>1. read' \in 1..(Len(metadata'.rules) + 1)
    BY DEF IInv, Typed, Reading
  <2>2. next' \in 1..(Len(portRules') + 1) /\ 1..(next' - 1) = {}
    BY <1>1, <1>2
  <2>3. RulesOK(portRules)'
    BY DEF RulesOK, RuleFit, IsSequence
  <2>4. \A p \in ToSet(Ports) : BackendsOK(frontends[p])' /\ DistinctPaths(frontends[p])'
    BY DEF IInv, Typed, BackendsOK, BackendOK, DistinctPaths, IsSequence
  <2> QED
    BY <2>1, <2>2, <2>3, <2>4 DEF IInv, Typed
<1>4. Staged' /\ InOrderWhenSorted'
  BY <1>1 DEF Staged, InOrderWhenSorted
<1>5. Merges'
  <2>1. Taken' = {}
    BY <1>1 DEF Taken
  <2>2. ToSet(<<>>) = {}
    BY DEF ToSet
  <2>3. MergesOf(frontends', Taken')
    BY <1>1, <2>1, <2>2 DEF MergesOf
  <2> QED
    BY <2>3, MergesUnchanging
<1> QED
  BY <1>3, <1>4, <1>5 DEF IInv

LEMMA KeepRuleKeeps == IInv /\ KeepRule => IInv'
<1> SUFFICES ASSUME IInv, KeepRule PROVE IInv'
  OBVIOUS
<1>1. DOMAIN metadata.rules = 1 .. Len(metadata.rules) /\ Len(metadata.rules) \in Nat
  BY InputsAssumption, SequenceOf DEF IInv, Typed, IsSequence
<1>2. LBRule \in ToSet(metadata.rules)
  <2>1. read \in 1 .. Len(metadata.rules)
    BY <1>1 DEF KeepRule, Reading, IInv, Typed
  <2> QED
    BY <1>1, <2>1 DEF LBRule, ToSet
<1>3. RuleFit(LBRule)
  BY <1>2, InputsAssumption DEF KeepRule, RuleFit, IInv, Typed
<1>4. RulesOK(portRules')
  <2>1. RulesOK(portRules)
    BY DEF IInv, Typed
  <2> QED
    BY <1>3, <2>1, Extended DEF RulesOK, KeepRule
<1> QED
  BY <1>4, RuleRead DEF KeepRule, IInv, Typed

LEMMA SelectServicesKeeps == IInv /\ SelectServices => IInv'
<1> SUFFICES ASSUME IInv, SelectServices PROVE IInv'
  OBVIOUS
<1> DEFINE services == ServicesOf(LBRule.region, LBRule.environment)
           selected == [i \in DOMAIN services |-> Selected(LBRule, services[i])]
<1>1. DOMAIN metadata.rules = 1 .. Len(metadata.rules) /\ Len(metadata.rules) \in Nat
  BY InputsAssumption, SequenceOf DEF IInv, Typed, IsSequence
<1>2. LBRule \in ToSet(metadata.rules)
  <2>1. read \in 1 .. Len(metadata.rules)
    BY <1>1 DEF SelectServices, Reading, IInv, Typed
  <2> QED
    BY <1>1, <2>1 DEF LBRule, ToSet
<1>3. DOMAIN LBRule = RuleFields /\ LBRule.source \in ToSet(Ports) \cup {0} /\ LBRule.weight \in Int
  BY <1>2, InputsAssumption DEF IInv, Typed
<1>4. services \in Seq(DOMAIN Services)
  BY ServicesFound
<1>5. portRules' = portRules \o FlattenSeq(selected)
  BY DEF SelectServices
<1> HIDE DEF services
<1>6. Len(services) \in Nat /\ DOMAIN services = 1 .. Len(services) /\ \A i \in DOMAIN services : services[i] \in DOMAIN Services
  BY <1>4
<1>7. \A i \in 1 .. Len(services) : RulesOK(selected[i])
  BY <1>3, <1>6, SelectedRules
<1>8. selected = [i \in 1 .. Len(services) |-> selected[i]]
  BY <1>6
<1> HIDE DEF selected
<1>9. RulesOK(FlattenSeq(selected))
  BY <1>6, <1>7, <1>8, FlattenedRules
<1>10. RulesOK(portRules')
  BY <1>5, <1>9, RulesJoined DEF IInv, Typed
<1> QED
  BY <1>10, RuleRead DEF SelectServices, IInv, Typed

LEMMA CannotSelectKeeps == IInv /\ CannotSelect => IInv'
<1> SUFFICES ASSUME IInv, CannotSelect PROVE IInv'
  OBVIOUS
<1>1. DOMAIN metadata.rules = 1 .. Len(metadata.rules) /\ Len(metadata.rules) \in Nat
  BY InputsAssumption, SequenceOf DEF IInv, Typed, IsSequence
<1>2. read \in DOMAIN metadata.rules
  BY <1>1 DEF CannotSelect, Reading, IInv, Typed
<1>3. unread' \subseteq DOMAIN metadata.rules
  BY <1>2 DEF CannotSelect, IInv, Typed
<1>4. RulesOK(portRules')
  BY DEF CannotSelect, IInv, Typed
<1> QED
  BY <1>3, <1>4, RuleRead DEF CannotSelect

LEMMA TakenOK ==
  ASSUME Typed
  PROVE  \A r \in Taken : RuleOK(r) /\ r.source \in ToSet(Ports)
<1>1. RulesOK(portRules) /\ next \in 1..(Len(portRules) + 1)
  BY DEF Typed
<1>2. Len(portRules) \in Nat /\ DOMAIN portRules = 1 .. Len(portRules)
  BY <1>1, SequenceOf DEF RulesOK, IsSequence
<1>3. \A i \in 1 .. (next - 1) : portRules[i] \in ToSet(portRules)
  BY <1>1, <1>2 DEF ToSet
<1>4. ASSUME NEW r \in Taken PROVE RuleFit(r) /\ ~Skipped(r) /\ ~Unknown(r)
  BY <1>1, <1>3 DEF Taken, RulesOK, Typed
<1> QED
  BY <1>4 DEF RuleFit, RuleOK, Skipped, Unknown

\* A rule has been looked at.
LEMMA RuleLookedAt ==
  ASSUME IInv, Looking, ~Unknown(Rule), next' = next + 1, DOMAIN frontends' = ToSet(Ports),
         \A p \in ToSet(Ports) : BackendsOK(frontends'[p]) /\ DistinctPaths(frontends'[p]),
         MergesOf(frontends', Taken'),
         UNCHANGED <<metadata, read, portRules, sorted, unread>>
  PROVE  IInv'
<1>1. /\ next' \in 1..(Len(portRules') + 1) /\ ~Reading' /\ ~Reading
      /\ \A i \in 1..(next' - 1) : ~Unknown(portRules'[i])
  BY TakenNext DEF IInv
<1>2. Typed'
  <2>1. \A p \in ToSet(Ports) : BackendsOK(frontends[p])' /\ DistinctPaths(frontends[p])'
    BY DEF BackendsOK, BackendOK, DistinctPaths, IsSequence
  <2>2. RulesOK(portRules)'
    BY DEF IInv, Typed, RulesOK, RuleFit, IsSequence
  <2> QED
    BY <1>1, <2>1, <2>2 DEF IInv, Typed, Unknown
<1>3. ~sorted
  BY DEF IInv, Staged
<1>4. Staged' /\ InOrderWhenSorted'
  BY <1>1, <1>3 DEF Staged, InOrderWhenSorted
<1>5. Merges'
  BY MergesUnchanging
<1> QED
  BY <1>2, <1>4, <1>5 DEF IInv

LEMMA SkipRuleKeeps == IInv /\ SkipRule => IInv'
<1> SUFFICES ASSUME IInv, SkipRule PROVE IInv'
  OBVIOUS
<1>1. Taken' = Taken
  BY TakenNext DEF SkipRule, IInv
<1>2. MergesOf(frontends', Taken')
  BY <1>1 DEF SkipRule, IInv, Merges
<1>3. \A p \in ToSet(Ports) : BackendsOK(frontends'[p]) /\ DistinctPaths(frontends'[p])
  BY DEF SkipRule, IInv, Typed
<1> QED
  BY <1>2, <1>3, RuleLookedAt DEF SkipRule, IInv, Typed

\* A backend is made of one rule.
LEMMA MadeOfOne ==
  ASSUME NEW r, RuleOK(r)
  PROVE  /\ BackendOK(NewBackend(r)) /\ SamePath(NewBackend(r), r)
         /\ MadeOf(NewBackend(r), {r})
<1> DEFINE b == NewBackend(r)
<1>1. /\ DOMAIN b = {"host", "path", "form", "priority", "uuid", "check", "servers"}
      /\ b.host = Pattern(r).host /\ b.path = Pattern(r).path /\ b.form = Pattern(r).form
      /\ b.priority = r.priority
      /\ b.servers = Endpoints(r)
  BY DEF NewBackend
<1> HIDE DEF b
<1>2. BackendOK(b)
  BY <1>1, EndpointsTyped DEF BackendOK, RuleFit, RuleOK
<1>3. SamePath(b, r)
  BY <1>1 DEF SamePath
<1>4. MadeOf(b, {r})
  BY <1>1 DEF MadeOf, Servers
<1> QED
  BY <1>2, <1>3, <1>4 DEF b

LEMMA AddRuleKeeps == IInv /\ AddRule => IInv'
<1> SUFFICES ASSUME IInv, AddRule PROVE IInv'
  OBVIOUS
<1> DEFINE b == NewBackend(Rule)
           p == Rule.source
<1>1. RuleOK(Rule) /\ Taken' = Taken \cup {Rule}
  BY TakenNext DEF AddRule, IInv
<1>2. p \in ToSet(Ports)
  BY <1>1 DEF AddRule, RuleFit, RuleOK, Skipped
<1>3. BackendOK(b) /\ SamePath(b, Rule) /\ MadeOf(b, {Rule})
  BY <1>1, MadeOfOne
<1>4. frontends' = [frontends EXCEPT ![p] = Append(@, b)]
  BY DEF AddRule
<1>5. \A c \in ToSet(frontends[p]) : ~SamePath(c, Rule)
  BY DEF AddRule
<1> HIDE DEF b, p
<1>6. /\ DOMAIN frontends' = ToSet(Ports)
      /\ frontends'[p] = Append(frontends[p], b)
      /\ \A o \in ToSet(Ports) : o # p => frontends'[o] = frontends[o]
  BY <1>2, <1>4 DEF IInv, Typed
<1>7. BackendsOK(frontends[p]) /\ DistinctPaths(frontends[p])
  BY <1>2 DEF IInv, Typed
<1> DEFINE n == Len(frontends[p])
<1>8. /\ IsSequence(frontends'[p])
      /\ ToSet(frontends'[p]) = ToSet(frontends[p]) \cup {b}
      /\ n \in Nat /\ DOMAIN frontends[p] = 1 .. n /\ DOMAIN frontends'[p] = 1 .. (n + 1)
      /\ \A i \in 1 .. n : frontends'[p][i] = frontends[p][i]
      /\ frontends'[p][n + 1] = b
  BY <1>6, <1>7, Extended DEF BackendsOK
<1> HIDE DEF n
<1>9. BackendsOK(frontends'[p])
  BY <1>3, <1>7, <1>8 DEF BackendsOK
<1>10. DistinctPaths(frontends'[p])
  <2>1. \A i \in 1 .. n : <<frontends[p][i].host, frontends[p][i].path>> # <<b.host, b.path>>
    <3>1. \A i \in 1 .. n : ~SamePath(frontends[p][i], Rule)
      BY <1>5, <1>8 DEF ToSet
    <3> QED
      BY <1>3, <3>1 DEF SamePath
  <2>2. 1 .. (n + 1) = (1 .. n) \cup {n + 1}
    BY <1>8
  <2>3. ASSUME NEW i \in 1 .. (n + 1), NEW j \in 1 .. (n + 1), i # j
        PROVE  <<frontends'[p][i].host, frontends'[p][i].path>> # <<frontends'[p][j].host, frontends'[p][j].path>>
    <3>1. CASE i \in 1 .. n /\ j \in 1 .. n
      BY <1>7, <1>8, <2>3, <3>1 DEF DistinctPaths
    <3>2. CASE i = n + 1 /\ j \in 1 .. n
      BY <1>8, <2>1, <3>2
    <3>3. CASE i \in 1 .. n /\ j = n + 1
      BY <1>8, <2>1, <3>3
    <3> QED
      BY <2>2, <2>3, <3>1, <3>2, <3>3
  <2> QED
    BY <1>8, <2>3 DEF DistinctPaths
<1>11. \A o \in ToSet(Ports) : BackendsOK(frontends'[o]) /\ DistinctPaths(frontends'[o])
  BY <1>6, <1>9, <1>10 DEF IInv, Typed
<1>12. \A r \in Taken : r.source \in ToSet(Ports) => \E c \in ToSet(frontends[r.source]) : SamePath(c, r)
  BY DEF IInv, Merges, MergesOf
<1>13. MergesOf(frontends', Taken')
  <2>1. ASSUME NEW o \in ToSet(Ports), NEW c \in ToSet(frontends'[o])
        PROVE  MadeOf(c, OwnOf(Taken', o, c))
    <3>1. CASE o = p /\ c = b
      <4>1. ASSUME NEW r \in Taken, r.source = p PROVE ~SamePath(b, r)
        <5>1. PICK d \in ToSet(frontends[p]) : SamePath(d, r)
          BY <1>2, <1>12, <4>1
        <5> QED
          BY <1>3, <1>5, <5>1 DEF SamePath
      <4>2. OwnOf(Taken', o, c) = {Rule}
        BY <1>1, <1>3, <3>1, <4>1 DEF OwnOf, p
      <4> QED
        BY <1>3, <3>1, <4>2
    <3>2. CASE c \in ToSet(frontends[o]) /\ (o = p => ~SamePath(c, Rule))
      <4>1. OwnOf(Taken', o, c) = OwnOf(Taken, o, c)
        BY <1>1, <3>2 DEF OwnOf, p
      <4> QED
        BY <3>2, <4>1 DEF IInv, Merges, MergesOf
    <3> QED
      BY <1>5, <1>6, <1>8, <3>1, <3>2
  <2>2. ASSUME NEW r \in Taken' PROVE \E c \in ToSet(frontends'[r.source]) : SamePath(c, r)
    <3>1. CASE r = Rule
      BY <1>3, <1>8, <3>1 DEF p
    <3>2. CASE r \in Taken
      <4>1. PICK c \in ToSet(frontends[r.source]) : SamePath(c, r)
        BY <3>2 DEF IInv, Merges, MergesOf
      <4>2. CASE r.source = p
        BY <1>8, <4>1, <4>2
      <4>3. CASE r.source # p
        <5>1. frontends'[r.source] = frontends[r.source]
          BY <1>6, <3>2, <4>3, TakenOK DEF IInv
        <5> QED
          BY <4>1, <5>1
      <4> QED
        BY <4>2, <4>3
    <3> QED
      BY <1>1, <3>1, <3>2
  <2> QED
    BY <2>1, <2>2 DEF MergesOf
<1> QED
  BY <1>6, <1>11, <1>13, RuleLookedAt DEF AddRule

\* A backend that gets the endpoints of another rule.
LEMMA MadeOfMore ==
  ASSUME NEW b, BackendOK(b), NEW own, NEW r, RuleOK(r), MadeOf(b, own)
  PROVE  /\ BackendOK(Merged(b, r)) /\ MadeOf(Merged(b, r), own \cup {r})
         /\ Merged(b, r).host = b.host /\ Merged(b, r).path = b.path
<1> DEFINE m == Merged(b, r)
           old == b.servers
           eps == Endpoints(r)
           all == AddEndpoints(old, eps)
           E == ToSet(old) \cup ToSet(eps)
<1>1. IsSequence(old) /\ IsSequence(eps)
  BY EndpointsTyped DEF BackendOK
<1>2. /\ DOMAIN m = {"host", "path", "form", "priority", "uuid", "check", "servers"}
      /\ m.host = b.host /\ m.path = b.path /\ m.form = b.form /\ m.priority = b.priority
      /\ m.servers = all
  BY DEF Merged, BackendOK
<1> HIDE DEF m, old, eps
<1>3. old \in Seq(E) /\ eps \in Seq(E)
  <2> DEFINE F == ToSet(old)
             G == ToSet(eps)
  <2>1. old \in Seq(F) /\ eps \in Seq(G) /\ F \subseteq E /\ G \subseteq E
    BY <1>1 DEF IsSequence
  <2> HIDE DEF F, G, E
  <2> QED
    BY <2>1
<1> HIDE DEF E
<1>4. /\ all \in Seq(E)
      /\ IPs(all) = IPs(old) \cup IPs(eps)
      /\ ToSet(all) \subseteq ToSet(old) \cup ToSet(eps)
      /\ Distinct(old) => Distinct(all)
  BY <1>3, MergeElements
<1> HIDE DEF all
<1>5. BackendOK(m)
  BY <1>2, <1>4, SequenceOf DEF BackendOK
<1>6. /\ IPs(old) = UNION {IPs(Endpoints(x)) : x \in own}
      /\ (\A x \in own : Distinct(Endpoints(x))) => Distinct(old)
      /\ \A ep \in ToSet(old) : \E x \in own : ep \in ToSet(Endpoints(x))
      /\ \E x \in own : b.form = Pattern(x).form
  BY DEF MadeOf, Servers, old
<1>7. MadeOf(m, own \cup {r})
  <2>1. IPs(m.servers) = UNION {IPs(Endpoints(x)) : x \in own \cup {r}}
    BY <1>2, <1>4, <1>6 DEF eps
  <2>2. ASSUME \A x \in own \cup {r} : Distinct(Endpoints(x)) PROVE Distinct(m.servers)
    BY <1>2, <1>4, <1>6, <2>2
  <2>3. \A ep \in Servers(m) : \E x \in own \cup {r} : ep \in ToSet(Endpoints(x))
    BY <1>2, <1>4, <1>6 DEF eps, Servers
  <2>4. \E x \in own \cup {r} : m.form = Pattern(x).form
    BY <1>2, <1>6
  <2> QED
    BY <2>1, <2>2, <2>3, <2>4 DEF MadeOf
<1> QED
  BY <1>2, <1>5, <1>7 DEF m

LEMMA MergeRuleKeeps == IInv /\ MergeRule => IInv'
<1> SUFFICES ASSUME IInv, MergeRule PROVE IInv'
  OBVIOUS
<1> DEFINE p == Rule.source
<1>1. RuleOK(Rule) /\ Taken' = Taken \cup {Rule}
  BY TakenNext DEF MergeRule, IInv
<1>2. p \in ToSet(Ports)
  BY <1>1 DEF MergeRule, RuleFit, RuleOK, Skipped
<1>3. PICK i \in DOMAIN frontends[p] :
        /\ SamePath(frontends[p][i], Rule)
        /\ frontends' = [frontends EXCEPT ![p][i] = Merged(@, Rule)]
  BY DEF MergeRule
<1> DEFINE old == frontends[p]
           new == frontends'[p]
           b == old[i]
           m == Merged(b, Rule)
<1>4. BackendsOK(old) /\ DistinctPaths(old)
  BY <1>2 DEF IInv, Typed
<1>5. /\ DOMAIN frontends' = ToSet(Ports)
      /\ new = [old EXCEPT ![i] = m]
      /\ \A o \in ToSet(Ports) : o # p => frontends'[o] = frontends[o]
  BY <1>2, <1>3 DEF IInv, Typed
<1>6. b \in ToSet(old) /\ SamePath(b, Rule)
  BY <1>3 DEF ToSet
<1>7. BackendOK(b) /\ MadeOf(b, OwnOf(Taken, p, b))
  BY <1>2, <1>4, <1>6 DEF BackendsOK, IInv, Merges, MergesOf
<1>8. /\ BackendOK(m) /\ MadeOf(m, OwnOf(Taken, p, b) \cup {Rule})
      /\ m.host = b.host /\ m.path = b.path
  BY <1>1, <1>7, MadeOfMore
<1>9. i \in DOMAIN old
  BY <1>3
<1>10. \A o \in ToSet(Ports) : \A c \in ToSet(frontends[o]) : MadeOf(c, OwnOf(Taken, o, c))
  BY DEF IInv, Merges, MergesOf
<1>11. \A r \in Taken : /\ r.source \in ToSet(Ports)
                        /\ \E c \in ToSet(frontends[r.source]) : SamePath(c, r)
  BY TakenOK DEF IInv, Merges, MergesOf
<1> HIDE DEF m, b, old, new, p
<1>12. IsSequence(old)
  BY <1>4 DEF BackendsOK
<1>13. /\ Len(old) \in Nat /\ DOMAIN old = 1 .. Len(old)
       /\ DOMAIN new = DOMAIN old /\ new[i] = m
       /\ \A j \in DOMAIN old : j # i => new[j] = old[j]
  BY <1>5, <1>9, <1>12, SequenceOf DEF IsSequence
<1>14. BackendsOK(new)
  <2> DEFINE E == ToSet(old) \cup {m}
  <2>1. \A j \in DOMAIN old : new[j] \in E
    BY <1>13 DEF ToSet
  <2>2. \A c \in E : BackendOK(c)
    BY <1>4, <1>8 DEF BackendsOK
  <2> HIDE DEF E
  <2>3. new \in Seq(E)
    <3>1. new = [j \in 1 .. Len(old) |-> new[j]]
      BY <1>5, <1>13
    <3> QED
      BY <1>13, <2>1, <3>1
  <2> QED
    BY <2>2, <2>3, SequenceOf DEF BackendsOK
<1>15. DistinctPaths(new)
  <2>1. \A j \in DOMAIN new : new[j].host = old[j].host /\ new[j].path = old[j].path
    BY <1>8, <1>13 DEF b
  <2> QED
    BY <1>4, <1>13, <2>1 DEF DistinctPaths
<1>16. \A o \in ToSet(Ports) : BackendsOK(frontends'[o]) /\ DistinctPaths(frontends'[o])
  BY <1>5, <1>14, <1>15 DEF IInv, Typed, new
<1>17. MergesOf(frontends', Taken')
  <2>1. ASSUME NEW o \in ToSet(Ports), NEW c \in ToSet(frontends'[o])
        PROVE  MadeOf(c, OwnOf(Taken', o, c))
    <3>1. CASE o = p /\ c = m
      <4>1. OwnOf(Taken', o, c) = OwnOf(Taken, p, b) \cup {Rule}
        BY <1>1, <1>6, <1>8, <3>1 DEF OwnOf, SamePath, p
      <4> QED
        BY <1>8, <3>1, <4>1
    <3>2. CASE c \in ToSet(frontends[o]) /\ (o = p => ~SamePath(c, Rule))
      <4>1. OwnOf(Taken', o, c) = OwnOf(Taken, o, c)
        BY <1>1, <3>2 DEF OwnOf, p
      <4> QED
        BY <1>10, <3>2, <4>1
    <3>3. ASSUME o = p, c # m PROVE c \in ToSet(frontends[o]) /\ ~SamePath(c, Rule)
      <4>1. PICK j \in DOMAIN old : j # i /\ c = old[j]
        BY <1>13, <3>3 DEF ToSet, new
      <4>2. <<c.host, c.path>> # <<b.host, b.path>>
        BY <1>4, <1>9, <4>1 DEF DistinctPaths, b
      <4>3. c \in ToSet(frontends[o])
        BY <3>3, <4>1 DEF ToSet, old
      <4> QED
        BY <1>6, <4>2, <4>3 DEF SamePath
    <3> QED
      BY <1>5, <3>1, <3>2, <3>3
  <2>2. ASSUME NEW r \in Taken' PROVE \E c \in ToSet(frontends'[r.source]) : SamePath(c, r)
    <3>1. m \in ToSet(frontends'[p]) /\ SamePath(m, Rule)
      BY <1>6, <1>8, <1>9, <1>13 DEF ToSet, SamePath, new
    <3>2. CASE r = Rule
      BY <3>1, <3>2 DEF p
    <3>3. CASE r \in Taken /\ r.source = p
      <4>1. PICK j \in DOMAIN old : SamePath(old[j], r)
        BY <1>11, <3>3 DEF ToSet, old
      <4>2. SamePath(new[j], r)
        BY <1>8, <1>13, <4>1 DEF SamePath, b
      <4>3. new[j] \in ToSet(new)
        BY <1>13, <4>1 DEF ToSet
      <4> QED
        BY <3>3, <4>2, <4>3 DEF new
    <3>4. CASE r \in Taken /\ r.source # p
      BY <1>5, <1>11, <3>4
    <3> QED
      BY <1>1, <3>2, <3>3, <3>4
  <2> QED
    BY <2>1, <2>2 DEF MergesOf
<1> QED
  BY <1>5, <1>16, <1>17, RuleLookedAt DEF MergeRule

LEMMA SortBackendsKeeps == IInv /\ SortBackends => IInv'
<1> SUFFICES ASSUME IInv, SortBackends PROVE IInv'
  OBVIOUS
<1>1. /\ DOMAIN frontends' = ToSet(Ports)
      /\ \A p \in ToSet(Ports) : frontends'[p] = Sort(frontends[p])
  BY DEF SortBackends
<1>2. ASSUME NEW p \in ToSet(Ports)
      PROVE  /\ BackendsOK(frontends'[p]) /\ DistinctPaths(frontends'[p])
             /\ Ordered(frontends'[p])
             /\ ToSet(frontends'[p]) = ToSet(frontends[p])
  <2> DEFINE s == frontends[p]
             E == ToSet(s)
  <2>1. s \in Seq(E) /\ DistinctPaths(s) /\ \A b \in E : BackendOK(b)
    BY DEF IInv, Typed, BackendsOK, IsSequence
  <2>2. frontends'[p] = Sort(s)
    BY <1>1
  <2>3. \A b \in E : b.priority \in Nat
    BY <2>1 DEF BackendOK
  <2>4. E = ToSet(s)
    OBVIOUS
  <2> HIDE DEF s, E
  <2>5. /\ Sort(s) \in Seq(E) /\ ToSet(Sort(s)) = ToSet(s)
        /\ Ordered(Sort(s)) /\ DistinctPaths(Sort(s))
    BY <2>1, <2>3, SortElements
  <2>6. BackendsOK(Sort(s))
    BY <2>1, <2>4, <2>5, SequenceOf DEF BackendsOK
  <2> QED
    BY <2>2, <2>5, <2>6 DEF s
<1>3. Taken' = Taken
  BY Unchanging DEF SortBackends, Taken
<1>4. MergesOf(frontends', Taken')
  BY <1>2, <1>3, TakenOK DEF IInv, Merges, MergesOf
<1>5. Typed'
  <2>1. \A p \in ToSet(Ports) : BackendsOK(frontends[p])' /\ DistinctPaths(frontends[p])'
    BY <1>2 DEF BackendsOK, BackendOK, DistinctPaths, IsSequence
  <2>2. RulesOK(portRules)'
    BY DEF SortBackends, IInv, Typed, RulesOK, RuleFit, IsSequence
  <2> QED
    BY <1>1, <2>1, <2>2 DEF SortBackends, IInv, Typed, Unknown
<1>6. Staged'
  BY DEF SortBackends, Staged, Reading, Looking
<1>7. InOrderWhenSorted'
  BY <1>2 DEF InOrderWhenSorted, Ordered, InOrder, Class
<1>8. Merges'
  BY <1>4, MergesUnchanging DEF SortBackends
<1> QED
  BY <1>5, <1>6, <1>7, <1>8 DEF IInv

LEMMA NothingChanges == IInv /\ UNCHANGED vars => IInv'
<1> SUFFICES ASSUME IInv, UNCHANGED vars PROVE IInv'
  OBVIOUS
<1>1. Taken' = Taken
  BY Unchanging DEF vars, Taken
<1>2. Merges'
  BY <1>1, MergesUnchanging DEF vars, IInv, Merges
<1>3. Typed'
  <2>1. \A p \in ToSet(Ports) : BackendsOK(frontends[p])' /\ DistinctPaths(frontends[p])'
    BY DEF vars, IInv, Typed, BackendsOK, BackendOK, DistinctPaths, IsSequence
  <2>2. RulesOK(portRules)'
    BY DEF vars, IInv, Typed, RulesOK, RuleFit, IsSequence
  <2> QED
    BY <2>1, <2>2 DEF vars, IInv, Typed, Unknown
<1>4. Staged' /\ InOrderWhenSorted'
  BY DEF vars, IInv, Staged, InOrderWhenSorted, Reading, Looking, Ordered, InOrder, Class
<1> QED
  BY <1>2, <1>3, <1>4 DEF IInv

LEMMA IInvIsInductive == IInv /\ [Next]_vars => IInv'
BY KeepRuleKeeps, SelectServicesKeeps, CannotSelectKeeps, SkipRuleKeeps, MergeRuleKeeps,
   AddRuleKeeps, SortBackendsKeeps, NothingChanges DEF Next

LEMMA SpecKeepsIInv == Spec => []IInv
BY InitIsIInv, IInvIsInductive, PTL DEF Spec

-----------------------------------------------------------------------------
(* The theorems.                                                           *)

\* BuildConfigFromMetadata: however many rules there are and whatever they
\* select, no two backends of a port are for the same host and path, and the
\* indices stay in their sequences.
THEOREM TypesHold == Spec => []TypeOK
<1>1. IInv => TypeOK
  BY DEF IInv, Typed, TypeOK
<1> QED
  BY <1>1, SpecKeepsIInv, PTL

\* BackendServices.Less and sort.Sort: though Less holds both ways for two
\* backends with host and path, any number of backends is sorted as the comment in
\* Less says.
THEOREM BackendsInDocumentedOrder == Spec => []InDocumentedOrder
<1>1. IInv => InDocumentedOrder
  BY DEF IInv, InOrderWhenSorted, InDocumentedOrder, Ordered
<1> QED
  BY <1>1, SpecKeepsIInv, PTL

\* BuildConfigFromMetadata: merging rules for one path, in any order and of any
\* services and aliases, loses no address and adds none twice.
THEOREM TargetsComplete == Spec => []MergedTargetsComplete
<1>1. IInv => MergedTargetsComplete
  BY DEF IInv, Merges, MergesOf, MadeOf, OwnOf, MergedTargetsComplete, Everywhere
<1> QED
  BY <1>1, SpecKeepsIInv, PTL

-----------------------------------------------------------------------------
(* Where requests go.                                                      *)

\* An empty path is the beginning of every path.
LEMMA EmptyPathMatches ==
  ASSUME IInv, NEW p \in ToSet(Ports), NEW q \in Requests(p)
  PROVE  PathMatches(<<>>, q)
<1>1. PICK m \in Inputs : \E r \in ToSet(m.rules) : q.path = r.path
  BY DEF Requests, Paths
<1>2. IsSequence(q.path)
  BY <1>1, InputsAssumption
<1> DEFINE t == q.path
           E == ToSet(t)
<1>3. t \in Seq(E)
  BY <1>2 DEF IsSequence
<1> HIDE DEF t, E
<1>4. Len(t) \in Nat /\ SubSeq(t, 1, 0) = <<>> /\ Len(<<>>) = 0 /\ SubSeq(<<>>, 1, 0) = <<>>
  BY <1>3
<1>5. IsPrefix(<<>>, t)
  BY <1>4 DEF IsPrefix
<1> QED
  BY <1>5 DEF PathMatches, t

\* The backends that are written are those of the ports whose protocol is
\* supported; each has its place.
LEMMA BackendsPlaced ==
  ASSUME IInv
  PROVE  /\ DOMAIN AllBackends \subseteq Nat
         /\ \A p \in ToSet(Ports) : Supported(p) =>
              \E start \in Nat : \A i \in DOMAIN frontends[p] :
                start + i \in DOMAIN AllBackends /\ AllBackends[start + i] = frontends[p][i]
<1> DEFINE n == Len(Ports)
           seqs == [i \in DOMAIN Ports |-> IF Supported(Ports[i]) THEN frontends[Ports[i]] ELSE <<>>]
           E == UNION {ToSet(frontends[p]) : p \in ToSet(Ports)}
<1>1. n \in Nat /\ DOMAIN Ports = 1 .. n /\ \A i \in 1 .. n : Ports[i] \in ToSet(Ports)
  <2>1. n \in Nat /\ DOMAIN Ports = 1 .. n
    BY PortsAssumption, SequenceOf DEF IsSequence
  <2> QED
    BY <2>1 DEF ToSet
<1>2. \A p \in ToSet(Ports) : frontends[p] \in Seq(E)
  <2> SUFFICES ASSUME NEW p \in ToSet(Ports) PROVE frontends[p] \in Seq(E)
    OBVIOUS
  <2> DEFINE s == frontends[p]
             F == ToSet(s)
  <2>1. s \in Seq(F) /\ F \subseteq E
    BY DEF IInv, Typed, BackendsOK, IsSequence
  <2> HIDE DEF s, F, E
  <2> QED
    BY <2>1 DEF s
<1> HIDE DEF E, n
<1>3. seqs \in Seq(Seq(E))
  <2> DEFINE X == Seq(E)
  <2>1. \A i \in 1 .. n : (IF Supported(Ports[i]) THEN frontends[Ports[i]] ELSE <<>>) \in X
    BY <1>1, <1>2
  <2> HIDE DEF X
  <2>2. seqs \in Seq(X)
    BY <1>1, <2>1
  <2> QED
    BY <2>2 DEF X
<1>4. AllBackends = FlattenSeq(seqs) /\ DOMAIN seqs = 1 .. n
  BY <1>1 DEF AllBackends
<1>5. \A i \in 1 .. n : Supported(Ports[i]) => seqs[i] = frontends[Ports[i]]
  BY <1>1
<1> HIDE DEF seqs
<1>6. Len(seqs) = n
  BY <1>1, <1>3, <1>4
<1>7. /\ AllBackends \in Seq(E)
      /\ \E at \in [1 .. n -> Nat] : Places(seqs, AllBackends, at)
  BY <1>3, <1>4, <1>6, FlattenElements
<1>8. DOMAIN AllBackends = 1 .. Len(AllBackends)
  BY <1>7
<1>9. ASSUME NEW p \in ToSet(Ports), Supported(p)
      PROVE  \E start \in Nat : \A i \in DOMAIN frontends[p] :
               start + i \in DOMAIN AllBackends /\ AllBackends[start + i] = frontends[p][i]
  <2>1. PICK x \in 1 .. n : p = Ports[x]
    BY <1>1 DEF ToSet
  <2>2. seqs[x] = frontends[p] /\ DOMAIN frontends[p] = 1 .. Len(frontends[p])
    BY <1>2, <1>5, <1>9, <2>1
  <2>3. PICK at \in [1 .. n -> Nat] :
          \A i \in 1 .. n : \A k \in 1 .. Len(seqs[i]) :
            /\ at[i] + k \in 1 .. Len(AllBackends)
            /\ AllBackends[at[i] + k] = seqs[i][k]
    BY <1>6, <1>7 DEF Places
  <2>4. at[x] \in Nat
    BY <2>1
  <2>5. \A i \in DOMAIN frontends[p] :
          at[x] + i \in 1 .. Len(AllBackends) /\ AllBackends[at[x] + i] = frontends[p][i]
    BY <2>1, <2>2, <2>3
  <2> QED
    BY <1>8, <2>4, <2>5
<1> QED
  BY <1>8, <1>9

\* With names of their own, backends are found by their names.
LEMMA FoundByName ==
  ASSUME IInv, NEW p \in ToSet(Ports), Supported(p), NEW i \in DOMAIN frontends[p],
         \A x, y \in DOMAIN AllBackends : x # y => AllBackends[x].uuid # AllBackends[y].uuid
  PROVE  /\ Acls(frontends[p][i], p) = {frontends[p][i]}
         /\ WrittenBackend(frontends[p][i].uuid) = frontends[p][i]
<1> DEFINE b == frontends[p][i]
<1>1. PICK start \in Nat : \A j \in DOMAIN frontends[p] :
        start + j \in DOMAIN AllBackends /\ AllBackends[start + j] = frontends[p][j]
  BY BackendsPlaced
<1>2. DOMAIN frontends[p] \subseteq Nat
  BY SequenceOf DEF IInv, Typed, BackendsOK, IsSequence
<1>3. ASSUME NEW j \in DOMAIN frontends[p], frontends[p][j].uuid = b.uuid PROVE j = i
  <2>1. start + j = start + i
    BY <1>1, <1>3
  <2> QED
    BY <1>2, <2>1
<1>4. Acls(b, p) = {b}
  BY <1>3 DEF Acls, ToSet
<1>5. WrittenBackend(b.uuid) = b
  <2> DEFINE named == {x \in DOMAIN AllBackends : AllBackends[x].uuid = b.uuid}
  <2>1. start + i \in named
    BY <1>1
  <2>2. named \subseteq Nat
    BY BackendsPlaced
  <2>3. Min(named) \in named
    <3> HIDE DEF named
    <3> QED
      BY <2>1, <2>2, MinIsLeast
  <2>4. Min(named) = start + i
    <3>1. AllBackends[Min(named)].uuid = AllBackends[start + i].uuid /\ Min(named) \in DOMAIN AllBackends
      BY <1>1, <2>3
    <3> HIDE DEF named
    <3> QED
      BY <1>1, <3>1
  <2>5. WrittenBackend(b.uuid) = AllBackends[Min(named)]
    BY DEF WrittenBackend
  <2> HIDE DEF named
  <2> QED
    BY <1>1, <2>4, <2>5
<1> QED
  BY <1>4, <1>5

\* A backend matches a request if the rules it is made of do.
LEMMA MatchesLikeItsRules ==
  ASSUME IInv, Unambiguous, NEW p \in ToSet(Ports), Supported(p), NEW q \in Requests(p),
         NEW i \in DOMAIN frontends[p], NEW r \in OwnOf(Taken, p, frontends[p][i])
  PROVE  RuleMatches(r, q) <=> Matches(frontends[p][i], q)
<1> DEFINE b == frontends[p][i]
<1>1. q.port = p /\ r.source = p /\ r \in Taken /\ b.host = Pattern(r).host /\ b.path = Pattern(r).path
  BY DEF Requests, OwnOf, SamePath
<1>2. Acls(b, p) = {b}
  <2>1. \A x, y \in DOMAIN AllBackends : x # y => AllBackends[x].uuid # AllBackends[y].uuid
    BY DEF Unambiguous
  <2> QED
    BY <2>1, FoundByName
<1>3. b \in ToSet(frontends[p])
  BY DEF ToSet
<1>4. PICK x \in OwnOf(Taken, p, b) : b.form = Pattern(x).form
  BY <1>3 DEF IInv, Merges, MergesOf, MadeOf
<1>5. x \in Taken /\ x.source = p /\ b.host = Pattern(x).host /\ b.path = Pattern(x).path
  BY <1>4 DEF OwnOf, SamePath
<1> HIDE DEF b
<1>6. ASSUME b.host # None
      PROVE  /\ Pattern(r).host = r.host
             /\ HostMatches(r.host, r.form, q) <=> HostAcl(b, q)
  <2>1. Protocol[p] \in HttpLike
    BY <1>1, <1>6 DEF Pattern
  <2>2. /\ Pattern(r).host = r.host /\ Pattern(r).path = r.path
        /\ Pattern(x).host = x.host /\ Pattern(x).path = x.path /\ Pattern(x).form = x.form
    BY <1>1, <1>5, <2>1 DEF Pattern
  <2>3. r.host = b.host /\ x.host = b.host /\ r.path = b.path /\ x.path = b.path /\ b.form = x.form
    BY <1>1, <1>4, <1>5, <2>2
  <2>4. r.form = x.form
    BY <1>1, <1>5, <2>3 DEF Unambiguous
  <2>5. Protocol[p] = "sni" => r.form = "eq"
    BY <1>1 DEF Unambiguous
  <2> QED
    BY <1>1, <2>2, <2>3, <2>4, <2>5 DEF HostAcl
<1>7. Matches(b, q) <=> /\ b.host # None => HostAcl(b, q)
                        /\ b.path # <<>> => PathMatches(b.path, q)
  BY <1>1, <1>2 DEF Matches
<1>8. b.path = <<>> => PathMatches(b.path, q)
  BY EmptyPathMatches
<1>9. Matches(b, q) <=> RuleMatches(r, q)
  BY <1>1, <1>6, <1>7, <1>8 DEF RuleMatches
<1> QED
  BY <1>9 DEF b

\* A request gets one of the backends that match it, if there is one.
LEMMA ChosenMatches ==
  ASSUME IInv, NEW p \in ToSet(Ports), NEW q, q.port = p, Matching(q) # {}
  PROVE  \E i \in Matching(q) : Chosen(q) = frontends[p][i]
<1> DEFINE S == IF Conditional(q) # {} THEN Conditional(q) ELSE Matching(q)
<1>1. S # {} /\ S \subseteq Matching(q)
  BY DEF Conditional
<1>2. Matching(q) \subseteq Nat
  <2>1. DOMAIN frontends[p] \subseteq Nat
    BY SequenceOf DEF IInv, Typed, BackendsOK, IsSequence
  <2> QED
    BY <2>1 DEF Matching
<1>3. Chosen(q) = frontends[p][Min(S)]
  BY DEF Chosen
<1> HIDE DEF S
<1>4. Min(S) \in S
  BY <1>1, <1>2, MinIsLeast, S \subseteq Nat
<1> QED
  BY <1>1, <1>3, <1>4

LEMMA RoutedWhenMerged == IInv => RoutedByMatchingRule
<1> SUFFICES ASSUME IInv, Unambiguous,
                    NEW p \in {r.source : r \in Taken}, NEW q \in Requests(p)
             PROVE  LET fit == {r \in Taken : Supported(p) /\ RuleMatches(r, q)}
                        servers == WrittenBackend(Chosen(q).uuid).servers
                    IN IF fit = {} THEN Matching(q) = {}
                       ELSE Matching(q) # {} /\ IPs(servers) \subseteq UNION {IPs(Endpoints(r)) : r \in fit}
  BY DEF RoutedByMatchingRule
<1> DEFINE fit == {r \in Taken : Supported(p) /\ RuleMatches(r, q)}
<1>1. p \in ToSet(Ports) /\ q.port = p
  BY TakenOK DEF IInv, Requests
<1>2. \A r \in fit : r.source = p
  BY <1>1 DEF RuleMatches
<1>3. ASSUME NEW i \in Matching(q)
      PROVE  /\ i \in DOMAIN frontends[p] /\ Supported(p)
             /\ OwnOf(Taken, p, frontends[p][i]) # {}
             /\ OwnOf(Taken, p, frontends[p][i]) \subseteq fit
             /\ IPs(frontends[p][i].servers)
                  = UNION {IPs(Endpoints(r)) : r \in OwnOf(Taken, p, frontends[p][i])}
  <2>1. i \in DOMAIN frontends[p] /\ Supported(p) /\ Matches(frontends[p][i], q)
    BY <1>1, <1>3 DEF Matching
  <2>2. frontends[p][i] \in ToSet(frontends[p])
    BY <2>1 DEF ToSet
  <2>3. MadeOf(frontends[p][i], OwnOf(Taken, p, frontends[p][i]))
    BY <1>1, <2>2 DEF IInv, Merges, MergesOf
  <2>4. \A r \in OwnOf(Taken, p, frontends[p][i]) : r \in Taken /\ RuleMatches(r, q)
    BY <1>1, <2>1, MatchesLikeItsRules DEF OwnOf
  <2> QED
    BY <2>1, <2>3, <2>4 DEF MadeOf
<1>4. ASSUME NEW r \in fit PROVE Matching(q) # {}
  <2>1. r \in Taken /\ r.source = p /\ Supported(p) /\ RuleMatches(r, q)
    BY <1>2
  <2>2. PICK b \in ToSet(frontends[p]) : SamePath(b, r)
    BY <2>1 DEF IInv, Merges, MergesOf
  <2>3. PICK i \in DOMAIN frontends[p] : b = frontends[p][i]
    BY <2>2 DEF ToSet
  <2>4. r \in OwnOf(Taken, p, frontends[p][i])
    BY <2>1, <2>2, <2>3 DEF OwnOf
  <2>5. Matches(frontends[p][i], q)
    BY <1>1, <2>1, <2>4, MatchesLikeItsRules
  <2> QED
    BY <1>1, <2>1, <2>3, <2>5 DEF Matching
<1>5. CASE fit = {}
  <2>1. Matching(q) = {}
    BY <1>3, <1>5
  <2> QED
    BY <1>5, <2>1
<1>6. CASE fit # {}
  <2>1. Matching(q) # {}
    BY <1>4, <1>6
  <2>2. PICK i \in Matching(q) : Chosen(q) = frontends[p][i]
    BY <1>1, <2>1, ChosenMatches
  <2>3. WrittenBackend(Chosen(q).uuid) = frontends[p][i]
    <3>1. \A x, y \in DOMAIN AllBackends : x # y => AllBackends[x].uuid # AllBackends[y].uuid
      BY DEF Unambiguous
    <3>2. i \in DOMAIN frontends[p] /\ Supported(p)
      BY <1>3
    <3> QED
      BY <1>1, <2>2, <3>1, <3>2, FoundByName
  <2>4. OwnOf(Taken, p, frontends[p][i]) \subseteq fit
    BY <1>3
  <2>5. IPs(frontends[p][i].servers)
          = UNION {IPs(Endpoints(r)) : r \in OwnOf(Taken, p, frontends[p][i])}
    BY <1>3
  <2> HIDE DEF fit
  <2>6. IPs(WrittenBackend(Chosen(q).uuid).servers) \subseteq UNION {IPs(Endpoints(r)) : r \in fit}
    BY <2>3, <2>4, <2>5
  <2> QED
    BY <1>6, <2>1, <2>6 DEF fit
<1> QED
  BY <1>5, <1>6

\* BuildConfigFromMetadata, Less and the template: for any rules that are not
\* ambiguous, a request gets a server of a rule it matches, and no request is
\* refused or sent elsewhere though such a rule exists.
THEOREM RequestsRouted == Spec => []RoutedByMatchingRule
BY RoutedWhenMerged, SpecKeepsIInv, PTL
-----------------------------------------------------------------------------
(* What a list of equations selects.                                       *)

\* The text of an equation.
LEMMA EquationMatches ==
  ASSUME NEW a, NEW c, a \notin Marks, c \notin Marks,
         NEW labels, \A l \in labels : l = <<l[1], l[2]>>
  PROVE  ConstraintMatches(<<a, "=", c>>, labels) <=> <<a, c>> \in labels
<1> DEFINE t == <<a, "=", c>>
           E == {a, "=", c}
<1>1. t \in Seq(E) /\ Len(t) = 3 /\ DOMAIN t = 1 .. 3 /\ t[1] = a /\ t[2] = "=" /\ t[3] = c
  OBVIOUS
<1> HIDE DEF t, E
<1>2. Equals(t) = {2}
  <2>1. a \notin {"=", "!="} /\ c \notin {"=", "!="}
    BY DEF Marks
  <2>2. \A i \in 1 .. 3 : i = 1 \/ i = 2 \/ i = 3
    OBVIOUS
  <2> QED
    BY <1>1, <2>1, <2>2 DEF Equals
<1>3. Cardinality(Equals(t)) = 1
  BY <1>2, FS_Singleton
<1>4. KeyOf(t, 2) = <<a>>
  <2> DEFINE u == SubSeq(t, 1, 1)
  <2>1. u \in Seq(E) /\ Len(u) = 1 /\ u[1] = a
    BY <1>1
  <2> HIDE DEF u
  <2>2. u = <<a>>
    BY <2>1
  <2>3. KeyOf(t, 2) = u \o <<>>
    BY <1>1 DEF KeyOf, u
  <2> QED
    BY <2>1, <2>2, <2>3
<1>5. ValueOf(t, 2) = <<c>>
  <2> DEFINE u == SubSeq(t, 3, 3)
  <2>1. u \in Seq(E) /\ Len(u) = 1 /\ u[1] = c
    BY <1>1
  <2>2. ValueOf(t, 2) = u
    BY <1>1 DEF ValueOf
  <2> HIDE DEF u
  <2> QED
    BY <2>1, <2>2
<1>6. ConstraintMatches(t, labels) <=> \E l \in labels : <<a>> = <<l[1]>> /\ <<c>> = <<l[2]>>
  BY <1>2, <1>3, <1>4, <1>5 DEF ConstraintMatches
<1>7. \A l \in labels : (<<a>> = <<l[1]>> /\ <<c>> = <<l[2]>>) <=> a = l[1] /\ c = l[2]
  OBVIOUS
<1>8. (\E l \in labels : a = l[1] /\ c = l[2]) <=> <<a, c>> \in labels
  OBVIOUS
<1> QED
  BY <1>6, <1>7, <1>8 DEF t

Scans(E) == [done : Seq(Seq(E)), current : Seq(E), inList : BOOLEAN]
Start == [done |-> <<>>, current |-> <<>>, inList |-> FALSE]
Scanned(selector) == FoldLeft(ReadToken, Start, selector)

LEMMA StartsAsScan == ASSUME NEW E PROVE Start \in Scans(E)
BY DEF Start, Scans

LEMMA TokenRead ==
  ASSUME NEW E, NEW scan \in Scans(E), NEW token \in E
  PROVE  ReadToken(scan, token) \in Scans(E)
<1>1. /\ Append(scan.done, scan.current) \in Seq(Seq(E)) /\ <<>> \in Seq(E)
      /\ Append(scan.current, token) \in Seq(E)
  <2> DEFINE d == scan.done
             c == scan.current
             X == Seq(E)
  <2>1. d \in Seq(X) /\ c \in X
    BY DEF Scans
  <2>2. Append(c, token) \in X
    BY <2>1
  <2> HIDE DEF d, c, X
  <2>3. Append(d, c) \in Seq(X)
    BY <2>1
  <2> QED
    BY <2>2, <2>3 DEF d, c, X
<1> QED
  BY <1>1 DEF ReadToken, Scans

\* The tokens are read one after the other.
LEMMA ScanSteps ==
  ASSUME NEW E, NEW selector \in Seq(E)
  PROVE  \E f \in [0 .. Len(selector) -> Scans(E)] :
           /\ f[0] = Start
           /\ \A i \in 1 .. Len(selector) : f[i] = ReadToken(f[i - 1], selector[i])
           /\ Scanned(selector) = f[Len(selector)]
<1> DEFINE n == Len(selector)
           X == Scans(E)
           G == [p \in (1 .. n) \X X |-> ReadToken(p[2], selector[p[1]])]
           Step(h, u) == IF u = {} THEN Start ELSE ReadToken(h[u \ {Max(u)}], selector[Max(u)])
           fold == CHOOSE h : h = [u \in SUBSET DOMAIN selector |-> Step(h, u)]
<1>1. n \in Nat /\ DOMAIN selector = 1 .. n /\ \A i \in 1 .. n : selector[i] \in E
  OBVIOUS
<1>2. \A u \in X : \A i \in 1 .. n : ReadToken(u, selector[i]) \in X
  BY <1>1, TokenRead
<1>3. Scanned(selector) = fold[DOMAIN selector]
  BY DEF Scanned, FoldLeft, MapThenFoldSet
<1>4. PICK h \in [SUBSET (1 .. n) -> X] : IsFold(h, n, Start, G)
  <2>1. Start \in X /\ G \in [(1 .. n) \X X -> X]
    BY <1>2, StartsAsScan
  <2> HIDE DEF n, G, X
  <2> QED
    BY <1>1, <2>1, FoldExists
<1>5. ASSUME NEW u \in SUBSET (1 .. n) PROVE h[u] = Step(h, u)
  <2>1. CASE u = {}
    BY <1>4, <2>1 DEF IsFold
  <2>2. CASE u # {}
    <3>1. Max(u) \in 1 .. n
      BY <1>1, <2>2, MaxIsGreatest, u \subseteq 0 .. n
    <3>2. u \ {Max(u)} \in SUBSET (1 .. n)
      OBVIOUS
    <3>3. h[u] = G[<<Max(u), h[u \ {Max(u)}]>>]
      BY <1>4, <2>2 DEF IsFold
    <3> QED
      BY <2>2, <3>1, <3>2, <3>3
  <2> QED
    BY <2>1, <2>2
<1>6. \A u \in SUBSET (1 .. n) : fold[u] = Step(fold, u)
  <2>1. h = [u \in SUBSET DOMAIN selector |-> Step(h, u)]
    <3> HIDE DEF Step, n
    <3> QED
      BY <1>1, <1>5
  <2> HIDE DEF Step, n
  <2> QED
    BY <1>1, <2>1
<1> HIDE DEF fold
<1>7. HasRun(fold, n, X, Start, G)
  <2>1. fold[{}] = Start
    BY <1>6
  <2>2. ASSUME NEW u \in SUBSET (1 .. n), u # {}, fold[u \ {Max(u)}] \in X
        PROVE  fold[u] = G[<<Max(u), fold[u \ {Max(u)}]>>]
    <3>1. Max(u) \in 1 .. n
      BY <1>1, <2>2, MaxIsGreatest, u \subseteq 0 .. n
    <3> QED
      BY <1>6, <2>2, <3>1
  <2>3. Computes(fold, n, X, Start, G)
    <3> HIDE DEF n, G, X
    <3> QED
      BY <2>1, <2>2 DEF Computes
  <2>4. Start \in X /\ G \in [(1 .. n) \X X -> X]
    BY <1>2, StartsAsScan
  <2> HIDE DEF n, G, X
  <2> QED
    BY <1>1, <2>3, <2>4, FoldIsRun
<1>8. PICK f \in [0 .. n -> X] : /\ IsRun(f, n, Start, G)
                                 /\ \A i \in 1 .. n : f[i - 1] \in X
                                 /\ f[n] = fold[1 .. n]
  BY <1>7 DEF HasRun
<1>9. \A i \in 1 .. n : f[i] = ReadToken(f[i - 1], selector[i])
  <2>1. \A i \in 1 .. n : f[i - 1] \in X /\ f[i] = G[<<i, f[i - 1]>>]
    <3> HIDE DEF n, X, G
    <3> QED
      BY <1>8 DEF IsRun
  <2> HIDE DEF X
  <2> QED
    BY <2>1
<1> QED
  BY <1>1, <1>3, <1>8, <1>9 DEF IsRun

\* What has been read of a list of equations.
TextsRead(selector, i) ==
  {<<selector[j - 1], "=", selector[j + 1]>> :
     j \in {k \in DOMAIN selector : k % 4 = 2 /\ k + 2 <= i}}
BeingRead(selector, i) ==
  IF i % 4 = 0 THEN <<>>
  ELSE IF i % 4 = 1 THEN <<selector[i]>>
  ELSE IF i % 4 = 2 THEN <<selector[i - 1], "=">>
  ELSE <<selector[i - 2], "=", selector[i]>>
IsRead(scan, selector, i) ==
  /\ ~scan.inList
  /\ ToSet(scan.done) = TextsRead(selector, i)
  /\ scan.current = BeingRead(selector, i)

LEMMA EquationTokens ==
  ASSUME NEW E, NEW selector \in Seq(E), IsEquations(selector)
  PROVE  /\ Len(selector) \in Nat /\ DOMAIN selector = 1 .. Len(selector) /\ Len(selector) % 4 = 3
         /\ \A i \in DOMAIN selector :
              /\ i % 4 = 2 => selector[i] = "="
              /\ i % 4 = 0 => selector[i] = ","
              /\ i % 4 = 1 \/ i % 4 = 3 => selector[i] \notin Marks
<1>1. Len(selector) \in Nat /\ DOMAIN selector = 1 .. Len(selector)
  OBVIOUS
<1>2. /\ Len(selector) % 4 = 3
      /\ \A i \in DOMAIN selector :
           /\ i % 4 = 2 => selector[i] = "="
           /\ i % 4 = 0 => selector[i] = ","
           /\ i % 4 \in {1, 3} => selector[i] \notin Marks
  BY Zenon DEF IsEquations
<1> QED
  BY <1>1, <1>2

LEMMA EquationRead ==
  ASSUME NEW E, NEW selector \in Seq(E), IsEquations(selector), NEW i \in Nat, i + 1 \in DOMAIN selector,
         NEW scan \in Scans(E), IsRead(scan, selector, i)
  PROVE  IsRead(ReadToken(scan, selector[i + 1]), selector, i + 1)
<1> DEFINE n == Len(selector)
           token == selector[i + 1]
           after == ReadToken(scan, token)
           Whole(k) == {j \in DOMAIN selector : j % 4 = 2 /\ j + 2 <= k}
           Text(j) == <<selector[j - 1], "=", selector[j + 1]>>
<1>1. n \in Nat /\ DOMAIN selector = 1 .. n /\ \A j \in 1 .. n : selector[j] \in E
  OBVIOUS
<1>2. /\ DOMAIN scan = {"done", "current", "inList"} /\ ~scan.inList
      /\ ToSet(scan.done) = {Text(j) : j \in Whole(i)}
      /\ IsSequence(scan.done)
      /\ scan.current \in Seq(E)
  <2>1. scan.done \in Seq(Seq(E)) /\ scan.current \in Seq(E) /\ DOMAIN scan = {"done", "current", "inList"}
    BY DEF Scans
  <2>2. IsSequence(scan.done)
    <3> DEFINE d == scan.done
               X == Seq(E)
    <3>1. d \in Seq(X)
      BY <2>1
    <3> HIDE DEF d, X
    <3>2. IsSequence(d)
      BY <3>1, SequenceOf
    <3> QED
      BY <3>2 DEF d
  <2> QED
    BY <2>1, <2>2 DEF IsRead, TextsRead
<1>3. i % 4 \in 0 .. 3
  OBVIOUS
<1>4. ASSUME i % 4 = 0
      PROVE  /\ token \notin Marks /\ scan.current = <<>>
             /\ BeingRead(selector, i + 1) = Append(<<>>, token)
  <2>1. (i + 1) % 4 = 1 /\ i + 1 \in DOMAIN selector
    BY <1>4
  <2>2. token \notin Marks
    BY <2>1, EquationTokens
  <2>3. scan.current = <<>>
    BY <1>4 DEF IsRead, BeingRead
  <2>4. BeingRead(selector, i + 1) = <<selector[i + 1]>>
    BY <2>1 DEF BeingRead
  <2> QED
    BY <2>2, <2>3, <2>4
<1>5. ASSUME i % 4 = 1
      PROVE  /\ token = "=" /\ scan.current = <<selector[i]>>
             /\ BeingRead(selector, i + 1) = Append(<<selector[i]>>, token)
  <2>1. (i + 1) % 4 = 2 /\ (i + 1) - 1 = i
    BY <1>5
  <2>2. token = "=" /\ scan.current = <<selector[i]>>
    BY <1>5, <2>1, EquationTokens DEF IsRead, BeingRead
  <2>3. BeingRead(selector, i + 1) = <<selector[(i + 1) - 1], "=">>
    BY <2>1 DEF BeingRead
  <2> QED
    BY <2>1, <2>2, <2>3
<1>6. ASSUME i % 4 = 2
      PROVE  /\ token \notin Marks /\ scan.current = <<selector[i - 1], "=">>
             /\ BeingRead(selector, i + 1) = Append(<<selector[i - 1], "=">>, token)
  <2>1. (i + 1) % 4 = 3 /\ (i + 1) - 2 = i - 1
    BY <1>6
  <2>2. token \notin Marks /\ scan.current = <<selector[i - 1], "=">>
    <3>1. token \notin Marks
      BY <2>1, i + 1 \in DOMAIN selector, EquationTokens
    <3>2. scan.current = <<selector[i - 1], "=">>
      BY <1>6 DEF IsRead, BeingRead
    <3> QED
      BY <3>1, <3>2
  <2>3. BeingRead(selector, i + 1) = <<selector[(i + 1) - 2], "=", selector[i + 1]>>
    BY <2>1 DEF BeingRead
  <2> QED
    BY <2>1, <2>2, <2>3
<1>7. ASSUME i % 4 = 3
      PROVE  /\ token = "," /\ scan.current = Text(i - 1)
             /\ BeingRead(selector, i + 1) = <<>>
  <2>1. (i + 1) % 4 = 0 /\ (i - 1) - 1 = i - 2 /\ (i - 1) + 1 = i
    BY <1>7
  <2>2. token = ","
    BY <1>7, <2>1, EquationTokens
  <2>3. scan.current = <<selector[i - 2], "=", selector[i]>>
    BY <1>7 DEF IsRead, BeingRead
  <2>4. BeingRead(selector, i + 1) = <<>>
    BY <2>1 DEF BeingRead
  <2> QED
    BY <2>1, <2>2, <2>3, <2>4
<1> HIDE DEF Text, token
<1>8. ASSUME i % 4 # 3
      PROVE  IsRead(after, selector, i + 1)
  <2>1. token \notin {"(", ")", ","}
    <3>1. {"(", ")", ","} \subseteq Marks
      BY DEF Marks
    <3>2. "=" \notin {"(", ")", ","}
      OBVIOUS
    <3>3. i % 4 = 0 \/ i % 4 = 1 \/ i % 4 = 2
      BY <1>3, <1>8
    <3>4. token \notin Marks \/ token = "="
      BY <1>4, <1>5, <1>6, <3>3
    <3> QED
      BY <3>1, <3>2, <3>4
  <2>2. after = [scan EXCEPT !.current = Append(@, token)]
    BY <2>1 DEF ReadToken
  <2>3. after.inList = scan.inList /\ after.done = scan.done /\ after.current = Append(scan.current, token)
    BY <1>2, <2>2
  <2>4. Whole(i + 1) = Whole(i)
    <3>1. \A j \in DOMAIN selector : j % 4 = 2 => j + 2 # i + 1
      BY <1>1, <1>8
    <3>2. \A j \in DOMAIN selector : j + 2 # i + 1 => (j + 2 <= i + 1 <=> j + 2 <= i)
      BY <1>1
    <3> QED
      BY <3>1, <3>2
  <2>5. after.current = BeingRead(selector, i + 1)
    <3>1. i % 4 = 0 \/ i % 4 = 1 \/ i % 4 = 2
      BY <1>3, <1>8
    <3> HIDE DEF after
    <3>2. CASE i % 4 = 0
      BY <1>4, <2>3, <3>2
    <3>3. CASE i % 4 = 1
      BY <1>5, <2>3, <3>3
    <3>4. CASE i % 4 = 2
      BY <1>6, <2>3, <3>4
    <3> QED
      BY <3>1, <3>2, <3>3, <3>4
  <2>6. TextsRead(selector, i + 1) = {Text(j) : j \in Whole(i + 1)}
    BY DEF TextsRead, Text
  <2> QED
    BY <1>2, <2>3, <2>4, <2>5, <2>6 DEF IsRead
<1>9. ASSUME i % 4 = 3
      PROVE  IsRead(after, selector, i + 1)
  <2>1. after = [scan EXCEPT !.done = Append(@, scan.current), !.current = <<>>]
    BY <1>2, <1>7, <1>9 DEF ReadToken
  <2>2. after.inList = scan.inList /\ after.done = Append(scan.done, scan.current) /\ after.current = <<>>
    BY <1>2, <2>1
  <2>3. Whole(i + 1) = Whole(i) \cup {i - 1}
    <3>1. i - 1 \in DOMAIN selector /\ (i - 1) % 4 = 2 /\ (i - 1) + 2 <= i + 1
      BY <1>1, <1>9
    <3>2. \A j \in DOMAIN selector : j + 2 <= i + 1 <=> (j + 2 <= i \/ j = i - 1)
      BY <1>1
    <3> QED
      BY <3>1, <3>2
  <2>4. ToSet(after.done) = {Text(j) : j \in Whole(i)} \cup {Text(i - 1)}
    <3> DEFINE d == scan.done
               c == scan.current
               new == after.done
    <3>1. new = Append(d, c) /\ IsSequence(d) /\ c = Text(i - 1)
      BY <1>2, <1>7, <1>9, <2>2
    <3>2. ToSet(d) = {Text(j) : j \in Whole(i)}
      BY <1>2
    <3> HIDE DEF d, c, new
    <3>3. ToSet(new) = ToSet(d) \cup {c}
      BY <3>1, Extended
    <3> HIDE DEF Whole
    <3>4. ToSet(new) = {Text(j) : j \in Whole(i)} \cup {Text(i - 1)}
      BY <3>1, <3>2, <3>3
    <3> QED
      BY <3>4 DEF new
  <2>5. {Text(j) : j \in Whole(i + 1)} = {Text(j) : j \in Whole(i)} \cup {Text(i - 1)}
    <3> HIDE DEF Whole
    <3> QED
      BY <2>3
  <2>6. TextsRead(selector, i + 1) = {Text(j) : j \in Whole(i + 1)}
    BY DEF TextsRead, Text
  <2> QED
    BY <1>2, <1>7, <1>9, <2>2, <2>4, <2>5, <2>6 DEF IsRead
<1> QED
  BY <1>8, <1>9 DEF token

\* A selector that is a list of equations asks for what it says.
LEMMA SelectorAsks ==
  ASSUME NEW selector, IsSequence(selector), IsEquations(selector),
         NEW labels, \A l \in labels : l = <<l[1], l[2]>>
  PROVE  IsSelectorMatch(selector, labels) <=> Asks(selector, labels)
<1> DEFINE E == ToSet(selector)
           n == Len(selector)
           Text(j) == <<selector[j - 1], "=", selector[j + 1]>>
           Middles == {j \in DOMAIN selector : j % 4 = 2}
<1>1. selector \in Seq(E)
  BY DEF IsSequence
<1> HIDE DEF E
<1>2. n \in Nat /\ DOMAIN selector = 1 .. n /\ n % 4 = 3
  BY <1>1, EquationTokens
<1>3. PICK f \in [0 .. n -> Scans(E)] :
        /\ f[0] = Start
        /\ \A i \in 1 .. n : f[i] = ReadToken(f[i - 1], selector[i])
        /\ Scanned(selector) = f[n]
  BY <1>1, ScanSteps
<1> HIDE DEF n
<1> DEFINE Has(i) == i \in 0 .. n => IsRead(f[i], selector, i)
           T == {i \in Nat : Has(i)}
<1>4. Has(0)
  <2>1. TextsRead(selector, 0) = {} /\ BeingRead(selector, 0) = <<>>
    BY <1>2 DEF TextsRead, BeingRead
  <2> QED
    BY <1>3, <2>1 DEF IsRead, Start, ToSet
<1>5. ASSUME NEW i \in Nat, Has(i) PROVE Has(i + 1)
  <2> SUFFICES ASSUME i + 1 \in 0 .. n PROVE IsRead(f[i + 1], selector, i + 1)
    OBVIOUS
  <2>1. i \in 0 .. n /\ i + 1 \in 1 .. n /\ (i + 1) - 1 = i
    BY <1>2
  <2>2. f[i] \in Scans(E) /\ IsRead(f[i], selector, i) /\ f[i + 1] = ReadToken(f[i], selector[i + 1])
    BY <1>3, <1>5, <2>1
  <2> QED
    BY <1>1, <1>2, <2>1, <2>2, EquationRead
<1>6. IsRead(f[n], selector, n)
  <2> HIDE DEF Has
  <2>1. 0 \in T /\ \A i \in Nat : i \in T => i + 1 \in T
    BY <1>4, <1>5
  <2> HIDE DEF T
  <2>2. n \in T
    BY <1>2, <2>1, NatsBySteps
  <2>3. Has(n)
    BY <2>2 DEF T
  <2> QED
    BY <1>2, <2>3 DEF Has
<1> DEFINE scan == f[n]
<1>7. ConstraintTexts(selector) = Append(scan.done, scan.current)
  <2>1. selector[n] # ","
    <3>1. n \in DOMAIN selector /\ n % 4 = 3
      BY <1>2
    <3>2. "," \in Marks
      BY DEF Marks
    <3> QED
      BY <1>1, <3>1, <3>2, EquationTokens
  <2>2. Scanned(selector) = scan
    BY <1>3
  <2> QED
    BY <2>1, <2>2 DEF ConstraintTexts, Scanned, Start, Last, n
<1>8. ToSet(scan.done) = {Text(j) : j \in {k \in DOMAIN selector : k % 4 = 2 /\ k + 2 <= n}}
      /\ scan.current = Text(n - 1)
  <2>1. (n - 1) - 1 = n - 2 /\ (n - 1) + 1 = n
    BY <1>2
  <2>2. BeingRead(selector, n) = <<selector[n - 2], "=", selector[n]>>
    BY <1>2 DEF BeingRead
  <2> HIDE DEF scan
  <2> QED
    BY <1>6, <2>1, <2>2 DEF IsRead, TextsRead, scan
<1>9. ToSet(ConstraintTexts(selector)) = {Text(j) : j \in Middles}
  <2> DEFINE d == scan.done
             X == Seq(E)
  <2>1. d \in Seq(X)
    BY <1>2, <1>3 DEF Scans
  <2> HIDE DEF X, d
  <2>2. IsSequence(d)
    BY <2>1, SequenceOf
  <2>3. ToSet(Append(d, scan.current)) = ToSet(d) \cup {scan.current}
    BY <2>2, Extended
  <2>4. Middles = {k \in DOMAIN selector : k % 4 = 2 /\ k + 2 <= n} \cup {n - 1}
    <3>1. n - 1 \in DOMAIN selector /\ (n - 1) % 4 = 2
      BY <1>2
    <3>2. \A k \in DOMAIN selector : k % 4 = 2 => (k + 2 <= n \/ k = n - 1)
      BY <1>2
    <3> QED
      BY <3>1, <3>2
  <2> HIDE DEF Middles, Text, scan
  <2> QED
    BY <1>7, <1>8, <2>3, <2>4 DEF d
<1>10. \A j \in Middles : j - 1 \in DOMAIN selector /\ selector[j - 1] \notin Marks
                         /\ j + 1 \in DOMAIN selector /\ selector[j + 1] \notin Marks
  <2> SUFFICES ASSUME NEW j \in Middles
               PROVE  j - 1 \in DOMAIN selector /\ selector[j - 1] \notin Marks
                      /\ j + 1 \in DOMAIN selector /\ selector[j + 1] \notin Marks
    OBVIOUS
  <2>1. /\ j - 1 \in DOMAIN selector /\ (j - 1) % 4 = 1
        /\ j + 1 \in DOMAIN selector /\ (j + 1) % 4 = 3
    BY <1>2
  <2> QED
    BY <1>1, <2>1, EquationTokens
<1>11. \A j \in Middles : ConstraintMatches(Text(j), labels) <=> <<selector[j - 1], selector[j + 1]>> \in labels
  BY <1>10, EquationMatches
<1>12. selector # <<>>
  <2>1. n # 0
    BY <1>2
  <2> QED
    BY <2>1 DEF n
<1>13. IsSelectorMatch(selector, labels)
         <=> \A j \in Middles : <<selector[j - 1], selector[j + 1]>> \in labels
  <2> HIDE DEF Middles, Text
  <2> QED
    BY <1>9, <1>11, <1>12 DEF IsSelectorMatch
<1> QED
  BY <1>13 DEF Asks
-----------------------------------------------------------------------------
(* What rules ask for.                                                     *)

\* The rules that take the place of rule r when they can be read.
Becomes(r) ==
  IF r.selector = <<>> THEN {r}
  ELSE UNION {ToSet(Selected(r, s)) : s \in ToSet(ServicesOf(r.region, r.environment))}

\* processSelector has replaced each rule it has read, but not those whose
\* environment could not be read.
ReadRules ==
  /\ unread \subseteq 1..(read - 1)
  /\ ToSet(portRules) = UNION {Becomes(metadata.rules[i]) : i \in 1..(read - 1) \ unread}

LEMMA RulesIndexed ==
  ASSUME IInv
  PROVE  /\ DOMAIN metadata.rules = 1 .. Len(metadata.rules) /\ Len(metadata.rules) \in Nat
         /\ read \in Nat /\ Reading => LBRule \in ToSet(metadata.rules)
BY InputsAssumption, SequenceOf DEF IInv, Typed, IsSequence, Reading, LBRule, ToSet

LEMMA BecomesUnchanging ==
  ASSUME UNCHANGED metadata
  PROVE  \A r : Becomes(r)' = Becomes(r)
BY DEF Becomes, Selected, OwnRule

\* Rule read has been looked at.
LEMMA OneMoreRead ==
  ASSUME IInv, ReadRules, Reading, UNCHANGED metadata, read' = read + 1,
         \/ unread' = unread /\ ToSet(portRules') = ToSet(portRules) \cup Becomes(LBRule)
         \/ unread' = unread \cup {read} /\ portRules' = portRules
  PROVE  ReadRules'
<1>1. read \in Nat /\ 1 .. (read' - 1) = (1 .. (read - 1)) \cup {read} /\ read \notin 1 .. (read - 1)
      /\ read \notin unread
  <2>1. read \in Nat /\ read >= 1
    BY RulesIndexed DEF IInv, Typed
  <2> QED
    BY <2>1 DEF ReadRules
<1>2. \A r : Becomes(r)' = Becomes(r)
  BY BecomesUnchanging
<1>3. CASE unread' = unread /\ ToSet(portRules') = ToSet(portRules) \cup Becomes(LBRule)
  <2>1. 1 .. (read' - 1) \ unread' = ((1 .. (read - 1)) \ unread) \cup {read}
    BY <1>1, <1>3
  <2>2. UNION {Becomes(metadata.rules[i]) : i \in 1..(read' - 1) \ unread'}
          = (UNION {Becomes(metadata.rules[i]) : i \in 1..(read - 1) \ unread}) \cup Becomes(LBRule)
    BY <2>1 DEF LBRule
  <2> QED
    BY <1>1, <1>2, <1>3, <2>2 DEF ReadRules
<1>4. CASE unread' = unread \cup {read} /\ portRules' = portRules
  <2>1. 1 .. (read' - 1) \ unread' = (1 .. (read - 1)) \ unread
    BY <1>1, <1>4
  <2>2. unread' \subseteq 1 .. (read' - 1)
    BY <1>1, <1>4 DEF ReadRules
  <2>3. UNION {Becomes(metadata.rules[i])' : i \in (1..(read - 1) \ unread)}
          = UNION {Becomes(metadata.rules[i]) : i \in (1..(read - 1) \ unread)}
    BY <1>2
  <2>4. ToSet(portRules') = UNION {Becomes(metadata.rules[i]) : i \in 1..(read - 1) \ unread}
    BY <1>4 DEF ReadRules
  <2> QED
    BY <2>1, <2>2, <2>3, <2>4 DEF ReadRules
<1> QED
  BY <1>3, <1>4

LEMMA ReadRulesAtFirst == Init => ReadRules
<1> SUFFICES ASSUME Init PROVE ReadRules
  OBVIOUS
<1>1. ToSet(portRules) = {} /\ unread = {} /\ 1 .. (read - 1) = {}
  BY DEF Init, ToSet
<1> QED
  BY <1>1 DEF ReadRules

LEMMA ReadRulesKept == IInv /\ ReadRules /\ [Next]_vars => ReadRules'
<1> SUFFICES ASSUME IInv, ReadRules, [Next]_vars PROVE ReadRules'
  OBVIOUS
<1>1. CASE KeepRule
  <2>1. ToSet(portRules') = ToSet(portRules) \cup Becomes(LBRule)
    <3>1. IsSequence(portRules)
      BY DEF IInv, Typed, RulesOK
    <3> QED
      BY <1>1, <3>1, Extended DEF KeepRule, Becomes
  <2> QED
    BY <1>1, <2>1, OneMoreRead DEF KeepRule
<1>2. CASE SelectServices
  <2> DEFINE services == ServicesOf(LBRule.region, LBRule.environment)
             selected == [i \in DOMAIN services |-> Selected(LBRule, services[i])]
  <2>1. Reading /\ LBRule.selector # <<>> /\ portRules' = portRules \o FlattenSeq(selected)
    BY <1>2 DEF SelectServices
  <2>2. DOMAIN LBRule = RuleFields /\ LBRule.source \in ToSet(Ports) \cup {0} /\ LBRule.weight \in Int
    BY <2>1, RulesIndexed, InputsAssumption DEF IInv, Typed
  <2>3. services \in Seq(DOMAIN Services)
    BY ServicesFound
  <2>4. Becomes(LBRule) = UNION {ToSet(Selected(LBRule, s)) : s \in ToSet(services)}
    BY <2>1 DEF Becomes
  <2> HIDE DEF services
  <2>5. Len(services) \in Nat /\ DOMAIN services = 1 .. Len(services)
        /\ \A i \in DOMAIN services : services[i] \in DOMAIN Services
    BY <2>3
  <2>6. \A i \in 1 .. Len(services) : RulesOK(selected[i])
    BY <2>2, <2>5, SelectedRules
  <2>7. selected = [i \in 1 .. Len(services) |-> selected[i]]
    BY <2>5
  <2>8. Becomes(LBRule) = UNION {ToSet(selected[i]) : i \in 1 .. Len(services)}
    <3>1. ToSet(services) = {services[i] : i \in 1 .. Len(services)}
      BY <2>5 DEF ToSet
    <3>2. \A i \in 1 .. Len(services) : selected[i] = Selected(LBRule, services[i])
      BY <2>5
    <3> HIDE DEF selected
    <3> QED
      BY <2>4, <3>1, <3>2
  <2> HIDE DEF selected
  <2>9. RulesOK(FlattenSeq(selected)) /\ ToSet(FlattenSeq(selected)) = Becomes(LBRule)
    BY <2>5, <2>6, <2>7, <2>8, FlattenedRules
  <2>10. ToSet(portRules') = ToSet(portRules) \cup Becomes(LBRule)
    BY <2>1, <2>9, RulesJoined DEF IInv, Typed
  <2> QED
    BY <1>2, <2>1, <2>10, OneMoreRead DEF SelectServices
<1>3. CASE CannotSelect
  BY <1>3, OneMoreRead DEF CannotSelect
<1>4. ASSUME UNCHANGED <<metadata, read, portRules, unread>> PROVE ReadRules'
  BY <1>4, BecomesUnchanging DEF ReadRules
<1>5. CASE SkipRule \/ MergeRule \/ AddRule \/ SortBackends \/ UNCHANGED vars
  BY <1>4, <1>5 DEF SkipRule, MergeRule, AddRule, SortBackends, vars
<1> QED
  BY <1>1, <1>2, <1>3, <1>5 DEF Next

LEMMA SpecKeepsReadRules == Spec => []ReadRules
BY SpecKeepsIInv, ReadRulesAtFirst, ReadRulesKept, PTL DEF Spec

-----------------------------------------------------------------------------
\* What rule r asks for with rule o of service s.
OwnPattern(r, s, o) ==
  IF metadata.skipTargetRules /\ Services[s].kind = "loadBalancerService"
  THEN Pattern([r EXCEPT !.host = None, !.form = "eq", !.path = <<>>])
  ELSE Pattern([r EXCEPT !.host = o.host, !.form = o.form, !.path = o.path])

LEMMA SelectedPattern ==
  ASSUME NEW r, DOMAIN r = RuleFields, NEW s
  PROVE  /\ ForService(r, s).source = r.source /\ ForService(r, s).service = NameFor(r, s)
         /\ Pattern(ForService(r, s)) = Pattern(r) /\ ForService(r, s).form = r.form
<1> DEFINE f == ForService(r, s)
<1>1. /\ DOMAIN f = RuleFields /\ f.source = r.source /\ f.service = NameFor(r, s)
      /\ f.host = r.host /\ f.form = r.form /\ f.path = r.path
  BY DEF ForService, RuleFields
<1> HIDE DEF f
<1> QED
  BY <1>1 DEF Pattern, f

LEMMA OwnRulePattern ==
  ASSUME NEW r, DOMAIN r = RuleFields, NEW s, NEW o
  PROVE  /\ OwnRule(r, s, o).source = r.source /\ OwnRule(r, s, o).service = NameFor(r, s)
         /\ OwnRule(r, s, o).form \in {"eq", o.form}
         /\ Pattern(OwnRule(r, s, o)) = OwnPattern(r, s, o)
<1> DEFINE f == ForService(r, s)
           x == OwnRule(r, s, o)
           skip == metadata.skipTargetRules /\ Services[s].kind = "loadBalancerService"
<1>1. /\ DOMAIN f = RuleFields /\ f.source = r.source /\ f.service = NameFor(r, s)
  BY DEF ForService, RuleFields
<1>2. ASSUME NEW h, NEW fm, NEW p
      PROVE  LET e == [r EXCEPT !.host = h, !.form = fm, !.path = p] IN
             e.source = r.source /\ e.host = h /\ e.form = fm /\ e.path = p
  BY DEF RuleFields
<1>3. /\ x.source = f.source /\ x.service = f.service
      /\ x.host = IF skip THEN None ELSE o.host
      /\ x.form = IF skip THEN "eq" ELSE o.form
      /\ x.path = IF skip THEN <<>> ELSE o.path
  <2> HIDE DEF f
  <2> QED
    BY <1>1 DEF OwnRule, RuleFields, f
<1> HIDE DEF f, x
<1>4. Pattern(x) = OwnPattern(r, s, o)
  BY <1>1, <1>2, <1>3 DEF Pattern, OwnPattern
<1> QED
  BY <1>1, <1>3, <1>4 DEF x

LEMMA SelectedService ==
  ASSUME NEW r, DOMAIN r = RuleFields, NEW s \in DOMAIN Services, NEW x \in ToSet(Selected(r, s))
  PROVE  x.service = NameFor(r, s) /\ x.source = r.source /\ (r.form \in Forms => x.form \in Forms)
<1> DEFINE own == Services[s].rules
<1>1. CASE Selected(r, s) = <<>>
  BY <1>1 DEF ToSet
<1>2. CASE Selected(r, s) = <<ForService(r, s)>>
  <2>1. x = ForService(r, s)
    BY <1>2 DEF ToSet
  <2> QED
    BY <2>1, SelectedPattern
<1>3. CASE Selected(r, s) = [i \in DOMAIN own |-> OwnRule(r, s, own[i])]
  <2> HIDE DEF own
  <2>1. PICK i \in DOMAIN own : x = OwnRule(r, s, own[i])
    BY <1>3 DEF ToSet
  <2>2. own[i].form \in Forms
    <3>1. own[i] \in ToSet(own)
      BY DEF ToSet
    <3> QED
      BY <3>1, ServicesAssumption DEF own
  <2> DEFINE c == own[i]
  <2> HIDE DEF c
  <2>3. OwnRule(r, s, c).source = r.source /\ OwnRule(r, s, c).service = NameFor(r, s)
        /\ OwnRule(r, s, c).form \in {"eq", c.form}
    BY OwnRulePattern
  <2>4. c.form \in Forms /\ "eq" \in Forms /\ x = OwnRule(r, s, c)
    BY <2>1, <2>2 DEF Forms, c
  <2> QED
    BY <2>3, <2>4
<1> QED
  BY <1>1, <1>2, <1>3 DEF Selected

\* What a rule with a selector asks for is what the rules for the services it
\* finds ask for.
LEMMA SelectorAsksFor ==
  ASSUME IInv, NEW r \in ToSet(metadata.rules), r.selector # <<>>, IsEquations(r.selector),
         NEW s \in DOMAIN Services
  PROVE  AskedFor(r, s) =
           IF s \in ToSet(ServicesOf(r.region, r.environment))
           THEN {Pattern(x) : x \in ToSet(Selected(r, s))} ELSE {}
<1> DEFINE own == Services[s].rules
           labels == Services[s].labels
           found == ServicesOf(r.region, r.environment)
           Of == ToSet(Selected(r, s))
<1>1. DOMAIN r = RuleFields /\ IsSequence(r.selector) /\ IsEquations(r.selector)
  BY InputsAssumption DEF IInv, Typed
<1>2. IsSelectorMatch(r.selector, labels) <=> Asks(r.selector, labels)
  BY <1>1, SelectorAsks, ServicesAssumption
<1>3. CASE s \notin ToSet(found) \/ ~Asks(r.selector, labels)
  <2>1. AskedFor(r, s) = {}
    BY <1>3, Zenon DEF AskedFor
  <2>2. ~Asks(r.selector, labels) => Of = {}
    <3> SUFFICES ASSUME ~Asks(r.selector, labels) PROVE Of = {}
      OBVIOUS
    <3>1. Selected(r, s) = <<>>
      BY <1>2 DEF Selected
    <3> QED
      BY <3>1 DEF ToSet
  <2> QED
    BY <1>3, <2>1, <2>2
<1>4. ASSUME s \in ToSet(found), Asks(r.selector, labels)
      PROVE  AskedFor(r, s) = {Pattern(x) : x \in Of}
  <2>1. CASE own = <<>>
    <3>1. AskedFor(r, s) = IF r.target # 0 THEN {Pattern(r)} ELSE {}
      BY <1>4, <2>1 DEF AskedFor
    <3>2. Of = IF r.target # 0 THEN {ForService(r, s)} ELSE {}
      BY <1>2, <1>4, <2>1 DEF Selected, ToSet
    <3>3. Pattern(ForService(r, s)) = Pattern(r)
      BY <1>1, SelectedPattern
    <3> QED
      BY <3>1, <3>2, <3>3
  <2>2. CASE own # <<>>
    <3>1. Of = {OwnRule(r, s, o) : o \in ToSet(own)}
      <4>1. Selected(r, s) = [i \in DOMAIN own |-> OwnRule(r, s, own[i])]
        BY <1>2, <1>4, <2>2 DEF Selected
      <4> HIDE DEF own
      <4> QED
        BY <4>1 DEF ToSet
    <3>2. \E o : o \in ToSet(own)
      <4> DEFINE seq == own
                 E == ToSet(seq)
      <4>1. seq \in Seq(E) /\ seq # <<>>
        BY <2>2, ServicesAssumption DEF IsSequence
      <4> HIDE DEF seq, E
      <4>2. 1 \in DOMAIN seq
        BY <4>1
      <4>3. seq[1] \in ToSet(seq)
        BY <4>2 DEF ToSet
      <4> QED
        BY <4>3 DEF seq
    <3>3. \A o : Pattern(OwnRule(r, s, o)) = OwnPattern(r, s, o)
      BY <1>1, OwnRulePattern
    <3>4. AskedFor(r, s) = {OwnPattern(r, s, o) : o \in ToSet(own)}
      <4>1. CASE metadata.skipTargetRules /\ Services[s].kind = "loadBalancerService"
        <5>1. AskedFor(r, s) = {Pattern([r EXCEPT !.host = None, !.form = "eq", !.path = <<>>])}
          BY <1>4, <2>2, <4>1 DEF AskedFor
        <5>2. \A o : OwnPattern(r, s, o) = Pattern([r EXCEPT !.host = None, !.form = "eq", !.path = <<>>])
          BY <4>1 DEF OwnPattern
        <5> QED
          BY <3>2, <5>1, <5>2
      <4>2. CASE ~(metadata.skipTargetRules /\ Services[s].kind = "loadBalancerService")
        BY <1>4, <2>2, <4>2, Zenon DEF AskedFor, OwnPattern
      <4> QED
        BY <4>1, <4>2
    <3> HIDE DEF own, Of
    <3> QED
      BY <3>1, <3>2, <3>3, <3>4
  <2> QED
    BY <2>1, <2>2
<1> QED
  BY <1>3, <1>4

\* So what the rules that rule r becomes ask for is what r asks for.
LEMMA BecomesWhatItAsks ==
  ASSUME IInv, NEW r \in ToSet(metadata.rules), r.selector # <<>> => IsEquations(r.selector),
         ~Unresolvable(r), NEW s \in DOMAIN Services
  PROVE  AskedFor(r, s) = {Pattern(x) : x \in {y \in Becomes(r) : y.service = s}}
<1> DEFINE found == ServicesOf(r.region, r.environment)
           Of(t) == ToSet(Selected(r, t))
<1>1. CASE r.selector = <<>>
  BY <1>1 DEF AskedFor, Becomes
<1>2. CASE r.selector # <<>>
  <2>1. DOMAIN r = RuleFields
    BY InputsAssumption DEF IInv, Typed
  <2>2. \A t \in DOMAIN Services : \A x \in Of(t) : x.service = t
    BY <1>2, <2>1, SelectedService DEF NameFor, Unresolvable
  <2>3. ToSet(found) \subseteq DOMAIN Services
    BY ServicesFound, SequenceOf
  <2>4. {y \in Becomes(r) : y.service = s} = IF s \in ToSet(found) THEN Of(s) ELSE {}
    <3>1. Becomes(r) = UNION {Of(t) : t \in ToSet(found)}
      BY <1>2 DEF Becomes
    <3> HIDE DEF Of, found
    <3> QED
      BY <2>2, <2>3, <3>1
  <2>5. AskedFor(r, s) = IF s \in ToSet(found) THEN {Pattern(x) : x \in Of(s)} ELSE {}
    BY <1>2, SelectorAsksFor
  <2> HIDE DEF Of, found
  <2> QED
    BY <2>4, <2>5
<1> QED
  BY <1>1, <1>2

\* A rule for services of this environment that are named by a region becomes
\* rules for services that are not there, if it asks for any.
LEMMA UnresolvableAsks ==
  ASSUME IInv, NEW r \in ToSet(metadata.rules), IsEquations(r.selector), Unresolvable(r)
  PROVE  /\ \A x \in Becomes(r) : x.service = None
         /\ Becomes(r) # {} <=> \E s \in DOMAIN Services : AskedFor(r, s) # {}
<1> DEFINE found == ServicesOf(r.region, r.environment)
           Of(t) == ToSet(Selected(r, t))
<1>1. DOMAIN r = RuleFields /\ r.selector # <<>>
  BY InputsAssumption DEF IInv, Typed, Unresolvable
<1>2. ToSet(found) \subseteq DOMAIN Services
  BY ServicesFound, SequenceOf
<1>3. Becomes(r) = UNION {Of(t) : t \in ToSet(found)}
  BY <1>1 DEF Becomes
<1>4. \A t \in DOMAIN Services : \A x \in Of(t) : x.service = None
  BY <1>1, SelectedService DEF NameFor, Unresolvable
<1>5. \A s \in DOMAIN Services :
        AskedFor(r, s) = IF s \in ToSet(found) THEN {Pattern(x) : x \in Of(s)} ELSE {}
  BY <1>1, SelectorAsksFor
<1> HIDE DEF Of, found
<1>6. \A x \in Becomes(r) : x.service = None
  BY <1>2, <1>3, <1>4
<1>7. Becomes(r) # {} <=> \E s \in DOMAIN Services : AskedFor(r, s) # {}
  BY <1>2, <1>3, <1>5
<1> QED
  BY <1>6, <1>7

\* The addresses of a rule are those of its service.
LEMMA RuleAddresses ==
  ASSUME NEW r, RuleOK(r)
  PROVE  /\ IPs(Endpoints(r)) = AddressesOf(r.service)
         /\ Skipped(r) <=> r.source = 0 \/ r.service \notin Able
<1> DEFINE s == r.service
           found == EndpointsOf[s]
<1>1. s \in DOMAIN Services
  BY DEF RuleOK
<1>2. Len(found) \in Nat /\ DOMAIN found = 1 .. Len(found)
  <2>1. found \in Seq(Sources)
    BY <1>1, EndpointsFound
  <2> HIDE DEF found
  <2> QED
    BY <2>1
<1>3. Services[s].kind = "container" => found = Candidates(Services[s])
  BY <1>1, EndpointsFound DEF Direct
<1>4. Endpoints(r) = [i \in DOMAIN found |-> Server(found[i], r)]
  BY DEF Endpoints
<1>5. AddressesOf(s) = {found[i].ip : i \in DOMAIN found}
  BY DEF AddressesOf
<1> HIDE DEF found
<1>6. \A i \in DOMAIN found : Server(found[i], r).ip = found[i].ip
  BY DEF Server
<1>7. IPs(Endpoints(r)) = {found[i].ip : i \in DOMAIN found}
  BY <1>4, <1>6 DEF IPs
<1>8. Endpoints(r) = <<>> <=> found = <<>>
  <2>1. found = <<>> <=> DOMAIN found = {}
    <3>1. found \in Seq(Sources)
      BY <1>1, EndpointsFound DEF found
    <3> QED
      BY <3>1
  <2>2. Endpoints(r) = <<>> <=> DOMAIN Endpoints(r) = {}
    BY <1>2, <1>4
  <2>3. DOMAIN Endpoints(r) = DOMAIN found
    BY <1>4
  <2> QED
    BY <2>1, <2>2, <2>3
<1>9. Skipped(r) <=> r.source = 0 \/ ~Services[s].active
                       \/ (Services[s].kind = "container" /\ found = <<>>)
  BY <1>8 DEF Skipped
<1> QED
  BY <1>1, <1>3, <1>5, <1>7, <1>9 DEF Able

\* The rules read are those that the rules of the metadata have become.
LEMMA RulesFromMetadata ==
  ASSUME IInv, ReadRules, ~Reading
  PROVE  /\ \A r \in ReadOnes : /\ r \in ToSet(metadata.rules)
                                /\ \A x \in Becomes(r) :
                                     x \in ToSet(portRules) /\ x.source = r.source /\ x.form \in Forms
         /\ \A x \in ToSet(portRules) : RuleFit(x) /\ (x.source # 0 => \E r \in ReadOnes : x \in Becomes(r))
<1> DEFINE places == DOMAIN metadata.rules \ unread
<1>1. read - 1 = Len(metadata.rules) /\ DOMAIN metadata.rules = 1 .. (read - 1)
  BY RulesIndexed DEF IInv, Typed, Reading
<1>2. ToSet(portRules) = UNION {Becomes(metadata.rules[i]) : i \in places}
  BY <1>1 DEF ReadRules
<1>3. ASSUME NEW i \in places, NEW x \in Becomes(metadata.rules[i])
      PROVE  x.source = metadata.rules[i].source /\ x.form \in Forms
  <2> DEFINE r == metadata.rules[i]
  <2>1. r \in ToSet(metadata.rules)
    BY DEF ToSet
  <2>2. DOMAIN r = RuleFields /\ r.form \in Forms
    BY <2>1, InputsAssumption DEF IInv, Typed, Forms
  <2>3. x \in Becomes(r)
    OBVIOUS
  <2> HIDE DEF r
  <2>4. x.source = r.source /\ x.form \in Forms
    <3>1. CASE r.selector = <<>>
      BY <2>2, <2>3, <3>1 DEF Becomes
    <3>2. CASE r.selector # <<>>
      <4>1. PICK s \in ToSet(ServicesOf(r.region, r.environment)) : x \in ToSet(Selected(r, s))
        BY <2>3, <3>2 DEF Becomes
      <4>2. s \in DOMAIN Services
        BY ServicesFound, SequenceOf
      <4> QED
        BY <2>2, <4>1, <4>2, SelectedService
    <3> QED
      BY <3>1, <3>2
  <2> QED
    BY <2>4 DEF r
<1>4. \A i \in places : metadata.rules[i] \in ToSet(metadata.rules)
  BY DEF ToSet
<1>5. \A x \in ToSet(portRules) : RuleFit(x)
  BY DEF IInv, Typed, RulesOK
<1>6. ReadOnes = {r \in {metadata.rules[i] : i \in places} : r.source # 0}
  BY DEF ReadOnes
<1>7. \A x \in ToSet(portRules) : x.source # 0 => \E r \in ReadOnes : x \in Becomes(r)
  BY <1>2, <1>3, <1>6
<1> HIDE DEF places
<1>8. ASSUME NEW r \in ReadOnes
      PROVE  /\ r \in ToSet(metadata.rules)
             /\ \A x \in Becomes(r) : x \in ToSet(portRules) /\ x.source = r.source /\ x.form \in Forms
  <2>1. PICK i \in places : r = metadata.rules[i]
    BY <1>6
  <2> QED
    BY <1>2, <1>3, <1>4, <2>1
<1> QED
  BY <1>5, <1>7, <1>8

\* When all rules have been read and looked at, the rules of backends are those
\* that the rules of the metadata have become, for services that are able.
LEMMA TakenFromMetadata ==
  ASSUME IInv, ReadRules, ~Reading, ~Looking
  PROVE  /\ Taken = UNION {{x \in Becomes(r) : x.service \in Able} : r \in ReadOnes}
         /\ \A r \in ReadOnes : /\ r \in ToSet(metadata.rules)
                                /\ \A x \in Becomes(r) : RuleOK(x) /\ x.source = r.source /\ x.form \in Forms
<1>1. RulesOK(portRules) /\ DOMAIN portRules = 1 .. (next - 1)
  <2>1. RulesOK(portRules) /\ next \in 1..(Len(portRules) + 1)
    BY DEF IInv, Typed
  <2>2. Len(portRules) \in Nat /\ DOMAIN portRules = 1 .. Len(portRules)
    BY <2>1, SequenceOf DEF RulesOK, IsSequence
  <2>3. next - 1 = Len(portRules)
    BY <2>1, <2>2 DEF Looking
  <2> QED
    BY <2>1, <2>2, <2>3
<1>2. Taken = {x \in ToSet(portRules) : ~Skipped(x)}
  BY <1>1 DEF Taken, ToSet
<1>3. \A x \in ToSet(portRules) : RuleFit(x) /\ ~Unknown(x)
  BY <1>1 DEF IInv, Typed, RulesOK, ToSet
<1>4. \A x \in ToSet(portRules) : x.source # 0 => RuleOK(x)
  BY <1>3 DEF RuleFit, RuleOK, Unknown
<1>5. \A x \in ToSet(portRules) : ~Skipped(x) <=> x.source # 0 /\ x.service \in Able
  <2>1. ASSUME NEW x \in ToSet(portRules), x.source = 0 PROVE Skipped(x)
    BY <2>1 DEF Skipped
  <2> QED
    BY <1>4, <2>1, RuleAddresses
<1>6. /\ \A r \in ReadOnes : /\ r \in ToSet(metadata.rules) /\ r.source # 0
                             /\ \A x \in Becomes(r) :
                                  x \in ToSet(portRules) /\ x.source = r.source /\ x.form \in Forms
      /\ \A x \in ToSet(portRules) : x.source # 0 => \E r \in ReadOnes : x \in Becomes(r)
  BY RulesFromMetadata DEF ReadOnes
<1>7. Taken = UNION {{x \in Becomes(r) : x.service \in Able} : r \in ReadOnes}
  BY <1>2, <1>5, <1>6
<1> QED
  BY <1>4, <1>6, <1>7

\* Then none of them asks for services of this environment that are named by a
\* region.
LEMMA NoneUnresolvable ==
  ASSUME IInv, ReadRules, ~Reading, ~Looking,
         \A r \in ReadOnes : r.selector # <<>> => IsEquations(r.selector)
  PROVE  \A r \in ReadOnes : Unresolvable(r) =>
           Becomes(r) = {} /\ \A s \in DOMAIN Services : AskedFor(r, s) = {}
<1> SUFFICES ASSUME NEW r \in ReadOnes, Unresolvable(r)
             PROVE  Becomes(r) = {} /\ \A s \in DOMAIN Services : AskedFor(r, s) = {}
  OBVIOUS
<1>1. r \in ToSet(metadata.rules) /\ IsEquations(r.selector)
  BY TakenFromMetadata DEF Unresolvable
<1>2. \A x \in Becomes(r) : x.service \in DOMAIN Services
  BY TakenFromMetadata DEF RuleOK
<1>3. /\ \A x \in Becomes(r) : x.service = None
      /\ Becomes(r) # {} <=> \E s \in DOMAIN Services : AskedFor(r, s) # {}
  BY <1>1, UnresolvableAsks
<1>4. None \notin DOMAIN Services
  BY ServicesAssumption
<1>5. \A x \in Becomes(r) : FALSE
  BY <1>2, <1>3, <1>4
<1>6. Becomes(r) = {}
  BY <1>5
<1> QED
  BY <1>3, <1>6

\* The build fails on nothing but such a rule.
LEMMA FailsOnUnresolvable ==
  ASSUME IInv, ReadRules, Failed, \A r \in ReadOnes : r.selector # <<>> => IsEquations(r.selector)
  PROVE  \E r \in ReadOnes, s \in DOMAIN Services : Unresolvable(r) /\ AskedFor(r, s) # {}
<1>1. ~Reading /\ Looking /\ Rule.source # 0 /\ Rule.service = None
  BY DEF Failed, Looking, Unknown
<1>2. Rule \in ToSet(portRules)
  <2>1. RulesOK(portRules) /\ next \in 1..(Len(portRules) + 1)
    BY DEF IInv, Typed
  <2>2. Len(portRules) \in Nat /\ DOMAIN portRules = 1 .. Len(portRules)
    BY <2>1, SequenceOf DEF RulesOK, IsSequence
  <2>3. next \in DOMAIN portRules
    BY <1>1, <2>1, <2>2 DEF Looking
  <2> QED
    BY <2>3 DEF Rule, ToSet
<1>3. PICK r \in ReadOnes : Rule \in Becomes(r) /\ r \in ToSet(metadata.rules)
  BY <1>1, <1>2, RulesFromMetadata
<1>4. r.selector # <<>>
  <2>1. r.selector = <<>> => r.service \in DOMAIN Services /\ Becomes(r) = {r}
    BY <1>3, InputsAssumption DEF IInv, Typed, Becomes
  <2> QED
    BY <1>1, <1>3, <2>1, ServicesAssumption
<1>5. Unresolvable(r)
  <2>1. DOMAIN r = RuleFields
    BY <1>3, InputsAssumption DEF IInv, Typed
  <2>2. PICK s \in ToSet(ServicesOf(r.region, r.environment)) : Rule \in ToSet(Selected(r, s))
    BY <1>3, <1>4 DEF Becomes
  <2>3. s \in DOMAIN Services
    BY ServicesFound, SequenceOf
  <2>4. NameFor(r, s) = None
    BY <1>1, <2>1, <2>2, <2>3, SelectedService
  <2> QED
    BY <1>4, <2>3, <2>4, ServicesAssumption DEF NameFor, Unresolvable
<1> QED
  BY <1>3, <1>4, <1>5, UnresolvableAsks

\* So backends have the addresses that rules ask for.
LEMMA TargetsAsAskedWhenMerged ==
  ASSUME IInv, ReadRules, sorted, \A r \in ReadOnes : r.selector # <<>> => IsEquations(r.selector)
  PROVE  /\ \A p \in ToSet(Ports) : \A b \in ToSet(frontends[p]) : IPs(b.servers) = AddressesWanted(p, b)
         /\ \A r \in ReadOnes, s \in Able : \A f \in AskedFor(r, s) :
              \E b \in ToSet(frontends[r.source]) : b.host = f.host /\ b.path = f.path
<1>1. ~Reading /\ ~Looking
  BY DEF IInv, Staged
<1>2. /\ Taken = UNION {{x \in Becomes(r) : x.service \in Able} : r \in ReadOnes}
      /\ \A r \in ReadOnes : /\ r \in ToSet(metadata.rules)
                             /\ \A x \in Becomes(r) : RuleOK(x) /\ x.source = r.source /\ x.form \in Forms
  BY <1>1, TakenFromMetadata
<1>3. ASSUME NEW r \in ReadOnes, NEW s \in DOMAIN Services
      PROVE  AskedFor(r, s) = {Pattern(x) : x \in {y \in Becomes(r) : y.service = s}}
  <2>1. CASE ~Unresolvable(r)
    BY <1>2, <2>1, BecomesWhatItAsks
  <2>2. CASE Unresolvable(r)
    <3>1. Becomes(r) = {} /\ AskedFor(r, s) = {}
      BY <1>1, <2>2, NoneUnresolvable
    <3> QED
      BY <3>1
  <2> QED
    BY <2>1, <2>2
<1>4. ASSUME NEW p \in ToSet(Ports), NEW b \in ToSet(frontends[p])
      PROVE  IPs(b.servers) = AddressesWanted(p, b)
  <2>1. IPs(b.servers) = UNION {IPs(Endpoints(x)) : x \in OwnOf(Taken, p, b)}
    BY DEF IInv, Merges, MergesOf, MadeOf
  <2>2. ASSUME NEW x \in OwnOf(Taken, p, b)
        PROVE  \E f \in Forms : x.service \in Wanted(p, PatternOf(b, f))
    <3>1. x \in Taken /\ x.source = p /\ SamePath(b, x)
      BY DEF OwnOf
    <3>2. PICK r \in ReadOnes : x \in Becomes(r) /\ x.service \in Able
      BY <1>2, <3>1
    <3>3. r.source = p /\ x.form \in Forms /\ x.service \in DOMAIN Services
      BY <1>2, <3>1, <3>2 DEF RuleOK
    <3>4. Pattern(x) \in AskedFor(r, x.service)
      BY <1>3, <3>2, <3>3
    <3>5. Pattern(x) = PatternOf(b, Pattern(x).form) /\ Pattern(x).form \in Forms
      BY <3>1, <3>3 DEF Pattern, PatternOf, SamePath, Forms
    <3> QED
      BY <3>2, <3>3, <3>4, <3>5 DEF Wanted
  <2>3. ASSUME NEW f \in Forms, NEW s \in Wanted(p, PatternOf(b, f))
        PROVE  \E x \in OwnOf(Taken, p, b) : x.service = s
    <3>1. PICK r \in ReadOnes : r.source = p /\ PatternOf(b, f) \in AskedFor(r, s)
      BY DEF Wanted
    <3>2. s \in Able /\ s \in DOMAIN Services
      BY DEF Wanted, Able
    <3>3. PICK x \in Becomes(r) : x.service = s /\ PatternOf(b, f) = Pattern(x)
      BY <1>3, <3>1, <3>2
    <3>4. x \in Taken /\ x.source = p
      BY <1>2, <3>1, <3>2, <3>3
    <3>5. SamePath(b, x)
      BY <3>3 DEF SamePath, PatternOf
    <3> QED
      BY <3>3, <3>4, <3>5 DEF OwnOf
  <2>4. \A x \in OwnOf(Taken, p, b) : IPs(Endpoints(x)) = AddressesOf(x.service)
    <3>1. \A x \in OwnOf(Taken, p, b) : RuleOK(x)
      BY TakenOK DEF OwnOf, IInv
    <3> QED
      BY <3>1, RuleAddresses
  <2> DEFINE O == OwnOf(Taken, p, b)
             W == UNION {Wanted(p, PatternOf(b, f)) : f \in Forms}
  <2>5. W = {x.service : x \in O}
    BY <2>2, <2>3
  <2>6. AddressesWanted(p, b) = UNION {AddressesOf(s) : s \in W}
    BY DEF AddressesWanted
  <2> HIDE DEF O, W
  <2>7. UNION {AddressesOf(s) : s \in W} = UNION {AddressesOf(x.service) : x \in O}
    BY <2>5
  <2>8. UNION {AddressesOf(x.service) : x \in O} = UNION {IPs(Endpoints(x)) : x \in O}
    BY <2>4 DEF O
  <2> QED
    BY <2>1, <2>6, <2>7, <2>8 DEF O
<1>5. ASSUME NEW r \in ReadOnes, NEW s \in Able, NEW f \in AskedFor(r, s)
      PROVE  \E b \in ToSet(frontends[r.source]) : b.host = f.host /\ b.path = f.path
  <2>1. s \in DOMAIN Services
    BY DEF Able
  <2>2. PICK x \in Becomes(r) : x.service = s /\ f = Pattern(x)
    BY <1>3, <2>1
  <2>3. x \in Taken /\ x.source = r.source
    BY <1>2, <2>2
  <2>4. PICK b \in ToSet(frontends[x.source]) : SamePath(b, x)
    BY <2>3 DEF IInv, Merges, MergesOf
  <2> QED
    BY <2>2, <2>3, <2>4 DEF SamePath
<1> QED
  BY <1>4, <1>5

\* processSelector and BuildConfigFromMetadata together: for any rules, services,
\* regions and links, when selectors are lists of equations, the build fails
\* exactly when a rule selects services of this environment by a region, and
\* otherwise a backend has the addresses of exactly the services that rules ask
\* for under its host and path, and each pattern a rule asks for has a backend.
THEOREM TargetsAsRulesAsk == Spec => []TargetsAsAsked
<1>1. IInv /\ ReadRules => TargetsAsAsked
  <2> SUFFICES ASSUME IInv, ReadRules, \A r \in ReadOnes : r.selector # <<>> => IsEquations(r.selector)
               PROVE  TargetsAsAsked
    BY DEF TargetsAsAsked, Everywhere
  <2> DEFINE fatal == \E r \in ReadOnes, s \in DOMAIN Services : Unresolvable(r) /\ AskedFor(r, s) # {}
  <2>1. Failed => fatal
    BY FailsOnUnresolvable
  <2>2. ASSUME sorted
        PROVE  /\ ~fatal
               /\ \A p \in ToSet(Ports) : \A b \in ToSet(frontends[p]) : IPs(b.servers) = AddressesWanted(p, b)
               /\ \A r \in ReadOnes, s \in Able : \A f \in AskedFor(r, s) :
                    \E b \in ToSet(frontends[r.source]) : b.host = f.host /\ b.path = f.path
    <3>1. ~Reading /\ ~Looking
      BY <2>2 DEF IInv, Staged
    <3>2. ~fatal
      BY <3>1, NoneUnresolvable
    <3> QED
      BY <2>2, <3>2, TargetsAsAskedWhenMerged
  <2> QED
    BY <2>1, <2>2 DEF TargetsAsAsked, Everywhere
<1> QED
  BY <1>1, SpecKeepsIInv, SpecKeepsReadRules, PTL
=============================================================================
