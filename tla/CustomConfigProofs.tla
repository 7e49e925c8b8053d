------------------------- MODULE CustomConfigProofs -------------------------
(***************************************************************************)
(* What is written of the user's configuration, of the defaults and of the *)
(* weights, for any custom configuration, rules and services.              *)
(***************************************************************************)
EXTENDS CustomConfig, RoutingRulesProofs, SequenceTheorems

-----------------------------------------------------------------------------
(* The elements of a sequence that are in a set.                           *)

LEMMA ThoseOfNone == \A S : Those(<<>>, S) = <<>>
<1> SUFFICES ASSUME NEW S PROVE Those(<<>>, S) = <<>>
  OBVIOUS
<1>1. [i \in DOMAIN <<>> |-> IF <<>>[i] \in S THEN <<<<>>[i]>> ELSE <<>>] = <<>>
  OBVIOUS
<1> QED
  BY <1>1, FlattenNone DEF Those

LEMMA ThoseOneMore ==
  ASSUME NEW E, NEW s \in Seq(E), NEW x \in E, NEW S
  PROVE  Those(Append(s, x), S) = IF x \in S THEN Append(Those(s, S), x) ELSE Those(s, S)
<1> DEFINE n == Len(s)
           a == Append(s, x)
           Pick(y) == IF y \in S THEN <<y>> ELSE <<>>
           before == [i \in DOMAIN s |-> Pick(s[i])]
           after == [i \in DOMAIN a |-> Pick(a[i])]
<1>1. /\ n \in Nat /\ DOMAIN s = 1 .. n /\ DOMAIN a = 1 .. (n + 1)
      /\ a[n + 1] = x /\ \A i \in 1 .. n : a[i] = s[i] /\ s[i] \in E
  OBVIOUS
<1>2. \A y \in E : Pick(y) \in Seq(E)
  OBVIOUS
<1> HIDE DEF Pick, a, n
<1> DEFINE X == Seq(E)
           p == Pick(x)
<1>3. before \in Seq(X) /\ p \in X /\ Len(before) = n
  <2> HIDE DEF X
  <2> QED
    BY <1>1, <1>2 DEF X
<1>4. after = Append(before, p)
  <2> HIDE DEF X
  <2> DEFINE b == before
  <2>1. DOMAIN after = 1 .. (n + 1) /\ \A i \in 1 .. (n + 1) : after[i] = Pick(a[i])
    BY <1>1
  <2>2. \A i \in 1 .. n : b[i] = Pick(s[i])
    BY <1>1
  <2> HIDE DEF b, p, before
  <2>3. /\ DOMAIN Append(b, p) = 1 .. (n + 1)
        /\ \A i \in 1 .. n : Append(b, p)[i] = b[i]
        /\ Append(b, p)[n + 1] = p
    BY <1>3 DEF b
  <2>4. after = [i \in 1 .. (n + 1) |-> after[i]] /\ Append(b, p) = [i \in 1 .. (n + 1) |-> Append(b, p)[i]]
    <3>1. after = [i \in 1 .. (n + 1) |-> after[i]]
      BY <1>1
    <3>2. b \in Seq(X) /\ p \in X /\ Len(b) = n
      BY <1>3 DEF b, p
    <3> HIDE DEF X, after
    <3>3. Append(b, p) \in Seq(X) /\ Len(Append(b, p)) = n + 1
      BY <3>2
    <3> DEFINE q == Append(b, p)
    <3> HIDE DEF q
    <3>4. q \in Seq(X) /\ Len(q) = n + 1
      BY <3>3 DEF q
    <3>5. q = [i \in 1 .. Len(q) |-> q[i]]
      BY <3>4
    <3> QED
      BY <3>1, <3>4, <3>5 DEF q
  <2>5. \A i \in 1 .. (n + 1) : after[i] = Append(b, p)[i]
    <3>1. \A i \in 1 .. (n + 1) : i \in 1 .. n \/ i = n + 1
      BY <1>1
    <3> HIDE DEF after
    <3> QED
      BY <1>1, <2>1, <2>2, <2>3, <3>1 DEF p
  <2> HIDE DEF after
  <2> QED
    BY <2>4, <2>5 DEF b
<1>5. FlattenSeq(after) = FlattenSeq(before) \o p
  <2> HIDE DEF after, before, p
  <2> QED
    BY <1>3, <1>4, FlattenOneMore
<1>6. Those(a, S) = FlattenSeq(after) /\ Those(s, S) = FlattenSeq(before)
  BY DEF Those, Pick
<1>7. Those(s, S) \in Seq(E)
  BY ThoseElements
<1> HIDE DEF after, before
<1>8. Those(a, S) = Those(s, S) \o p
  BY <1>5, <1>6
<1>9. Those(a, S) = IF x \in S THEN Append(Those(s, S), x) ELSE Those(s, S)
  <2> DEFINE t == Those(s, S)
  <2>1. t \in Seq(E) /\ Those(a, S) = t \o p
    BY <1>7, <1>8
  <2> HIDE DEF t
  <2>2. x \in S => t \o <<x>> = Append(t, x)
    BY <2>1
  <2>3. t \o <<>> = t
    BY <2>1
  <2> QED
    BY <2>1, <2>2, <2>3 DEF p, Pick, t
<1> QED
  BY <1>9 DEF a

LEMMA ThoseJoined ==
  ASSUME NEW E, NEW s \in Seq(E), NEW t \in Seq(E), NEW S
  PROVE  Those(s \o t, S) = Those(s, S) \o Those(t, S)
<1> DEFINE Has(u) == Those(s \o u, S) = Those(s, S) \o Those(u, S)
           T == {u \in Seq(E) : Has(u)}
<1>1. \A u \in Seq(E) : Those(u, S) \in Seq(E)
  BY ThoseElements
<1>2. Has(<<>>)
  <2> DEFINE a == Those(s, S)
  <2>1. s \o <<>> = s
    OBVIOUS
  <2>2. a \in Seq(E)
    BY <1>1
  <2> HIDE DEF a
  <2>3. a \o <<>> = a
    BY <2>2
  <2> QED
    BY <2>1, <2>3, ThoseOfNone DEF a
<1>3. ASSUME NEW u \in Seq(E), NEW x \in E, Has(u) PROVE Has(Append(u, x))
  <2> DEFINE a == Those(s, S)
             b == Those(u, S)
  <2>1. s \o Append(u, x) = Append(s \o u, x) /\ s \o u \in Seq(E)
    OBVIOUS
  <2>2. a \in Seq(E) /\ b \in Seq(E)
    BY <1>1
  <2>3. Those(s \o u, S) = a \o b
    BY <1>3
  <2> HIDE DEF a, b
  <2>4. a \o Append(b, x) = Append(a \o b, x)
    BY <2>2
  <2>5. Those(Append(s \o u, x), S) = IF x \in S THEN Append(a \o b, x) ELSE a \o b
    <3> DEFINE w == s \o u
    <3>1. w \in Seq(E) /\ Those(w, S) = a \o b
      BY <2>1, <2>3
    <3> HIDE DEF w
    <3>2. Those(Append(w, x), S) = IF x \in S THEN Append(a \o b, x) ELSE a \o b
      BY <3>1, ThoseOneMore
    <3> QED
      BY <3>2 DEF w
  <2>6. Those(Append(u, x), S) = IF x \in S THEN Append(b, x) ELSE b
    BY ThoseOneMore DEF b
  <2> QED
    BY <2>1, <2>4, <2>5, <2>6 DEF a
<1>4. Seq(E) \subseteq T
  <2> HIDE DEF Has
  <2>1. <<>> \in T /\ \A u \in Seq(E) : \A x \in E : u \in T => Append(u, x) \in T
    <3>1. <<>> \in Seq(E) /\ \A u \in Seq(E) : \A x \in E : Append(u, x) \in Seq(E)
      OBVIOUS
    <3> QED
      BY <1>2, <1>3, <3>1
  <2> HIDE DEF T
  <2> QED
    BY <2>1, SequencesBySteps
<1> QED
  BY <1>4

\* Which elements are taken depends on nothing but the elements of the sequence.
LEMMA ThoseDepend ==
  ASSUME NEW s, NEW S, NEW R, \A x \in ToSet(s) : x \in S <=> x \in R
  PROVE  Those(s, S) = Those(s, R)
<1>1. \A i \in DOMAIN s : s[i] \in S <=> s[i] \in R
  BY DEF ToSet
<1> QED
  BY <1>1 DEF Those

LEMMA ThoseTwice ==
  ASSUME NEW E, NEW s \in Seq(E), NEW S, NEW R
  PROVE  Those(Those(s, S), R) = Those(s, S \cap R)
<1> DEFINE Has(u) == Those(Those(u, S), R) = Those(u, S \cap R)
           T == {u \in Seq(E) : Has(u)}
<1>1. \A u \in Seq(E) : Those(u, S) \in Seq(E)
  BY ThoseElements
<1>2. Has(<<>>)
  BY ThoseOfNone
<1>3. ASSUME NEW u \in Seq(E), NEW x \in E, Has(u) PROVE Has(Append(u, x))
  <2> DEFINE a == Those(u, S)
             Q == S \cap R
  <2>1. Those(Append(u, x), S) = IF x \in S THEN Append(a, x) ELSE a
    BY ThoseOneMore
  <2>2. Those(Append(u, x), Q) = IF x \in Q THEN Append(Those(u, Q), x) ELSE Those(u, Q)
    BY ThoseOneMore
  <2>3. a \in Seq(E) /\ Those(a, R) = Those(u, Q)
    BY <1>1, <1>3
  <2> HIDE DEF a
  <2>4. Those(Append(a, x), R) = IF x \in R THEN Append(Those(a, R), x) ELSE Those(a, R)
    BY <2>3, ThoseOneMore
  <2>5. x \in Q <=> x \in S /\ x \in R
    OBVIOUS
  <2> HIDE DEF Q
  <2>6. Those(Those(Append(u, x), S), R) = Those(Append(u, x), Q)
    <3>1. CASE x \in S
      <4>1. Those(Append(u, x), S) = Append(a, x)
        BY <2>1, <3>1
      <4>2. Those(Append(a, x), R) = Those(Append(u, x), Q)
        BY <2>2, <2>3, <2>4, <2>5, <3>1
      <4> QED
        BY <4>1, <4>2
    <3>2. CASE x \notin S
      BY <2>1, <2>2, <2>3, <2>5, <3>2
    <3> QED
      BY <3>1, <3>2
  <2> QED
    BY <2>6 DEF Q
<1>4. Seq(E) \subseteq T
  <2> HIDE DEF Has
  <2>1. <<>> \in T /\ \A u \in Seq(E) : \A x \in E : u \in T => Append(u, x) \in T
    <3>1. <<>> \in Seq(E) /\ \A u \in Seq(E) : \A x \in E : Append(u, x) \in Seq(E)
      OBVIOUS
    <3> QED
      BY <1>2, <1>3, <3>1
  <2> HIDE DEF T
  <2> QED
    BY <2>1, SequencesBySteps
<1> QED
  BY <1>4

LEMMA ThoseAll ==
  ASSUME NEW E, NEW s \in Seq(E), NEW S
  PROVE  /\ ToSet(s) \subseteq S => Those(s, S) = s
         /\ ToSet(s) \cap S = {} => Those(s, S) = <<>>
<1> DEFINE Has(u) == /\ ToSet(u) \subseteq S => Those(u, S) = u
                     /\ ToSet(u) \cap S = {} => Those(u, S) = <<>>
           T == {u \in Seq(E) : Has(u)}
<1>1. Has(<<>>)
  BY ThoseOfNone
<1>2. ASSUME NEW u \in Seq(E), NEW x \in E, Has(u) PROVE Has(Append(u, x))
  <2>1. ToSet(Append(u, x)) = ToSet(u) \cup {x}
    BY SequenceOf, Extended
  <2>2. Those(Append(u, x), S) = IF x \in S THEN Append(Those(u, S), x) ELSE Those(u, S)
    BY ThoseOneMore
  <2> QED
    BY <1>2, <2>1, <2>2
<1>3. Seq(E) \subseteq T
  <2> HIDE DEF Has
  <2>1. <<>> \in T /\ \A u \in Seq(E) : \A x \in E : u \in T => Append(u, x) \in T
    <3>1. <<>> \in Seq(E) /\ \A u \in Seq(E) : \A x \in E : Append(u, x) \in Seq(E)
      OBVIOUS
    <3> QED
      BY <1>1, <1>2, <3>1
  <2> HIDE DEF T
  <2> QED
    BY <2>1, SequencesBySteps
<1> QED
  BY <1>3

LEMMA ThoseOne ==
  ASSUME NEW E, NEW s \in Seq(E), NEW S, NEW i \in DOMAIN s, \A j \in DOMAIN s : s[j] \in S <=> j = i
  PROVE  Those(s, S) = <<s[i]>>
<1> DEFINE n == Len(s)
           a == SubSeq(s, 1, i - 1)
           x == s[i]
           b == SubSeq(s, i + 1, n)
<1>1. n \in Nat /\ DOMAIN s = 1 .. n /\ i \in 1 .. n
  OBVIOUS
<1>2. /\ a \in Seq(E) /\ Len(a) = i - 1 /\ DOMAIN a = 1 .. (i - 1) /\ \A j \in 1 .. (i - 1) : a[j] = s[j]
      /\ b \in Seq(E) /\ Len(b) = n - i /\ DOMAIN b = 1 .. (n - i) /\ \A j \in 1 .. (n - i) : b[j] = s[i + j]
      /\ x \in E
  <2>1. i - 1 \in 0 .. n /\ n - i \in Nat /\ i + 1 \in 1 .. (n + 1)
    BY <1>1
  <2>2. a \in Seq(E) /\ Len(a) = i - 1 /\ \A j \in 1 .. (i - 1) : a[j] = s[j]
    BY <1>1, <2>1
  <2>3. b \in Seq(E) /\ Len(b) = n - i
    BY <1>1, <2>1
  <2>4. ASSUME NEW j \in 1 .. (n - i) PROVE b[j] = s[i + j]
    <3>1. b[j] = s[((i + 1) + j) - 1]
      BY <1>1, <2>1
    <3>2. ((i + 1) + j) - 1 = i + j
      BY <1>1, <2>1
    <3> HIDE DEF b, n
    <3> QED
      BY <3>1, <3>2
  <2>5. x \in E
    BY <1>1
  <2> HIDE DEF a, b, n, x
  <2> QED
    BY <2>2, <2>3, <2>4, <2>5
<1>3. s = Append(a, x) \o b
  <2>1. Append(a, x) \in Seq(E) /\ Len(Append(a, x)) = i
        /\ \A j \in 1 .. i : Append(a, x)[j] = s[j]
    <3> HIDE DEF a, b
    <3> QED
      BY <1>1, <1>2
  <2> DEFINE d == Append(a, x)
  <2> HIDE DEF a, b, d, n
  <2>2. d \in Seq(E) /\ b \in Seq(E) /\ Len(d) = i /\ Len(b) = n - i /\ Len(s) = n
    BY <1>1, <1>2, <2>1 DEF d, n
  <2>3. (\A j \in 1 .. i : d[j] = s[j]) /\ (\A j \in 1 .. (n - i) : b[j] = s[i + j])
    BY <1>2, <2>1 DEF d
  <2> QED
    <3>1. Len(s) = Len(d) + Len(b)
      BY <1>1, <2>2
    <3>2. \A j \in 1 .. Len(d) : d[j] = s[j]
      BY <2>2, <2>3
    <3>3. \A j \in 1 .. Len(b) : b[j] = s[Len(d) + j]
      BY <2>2, <2>3
    <3>4. s = d \o b
      BY <2>2, <3>1, <3>2, <3>3, JoinedIs
    <3> QED
      BY <3>4 DEF d
<1>4. x \in S /\ (\A j \in DOMAIN a : a[j] \notin S) /\ (\A j \in DOMAIN b : b[j] \notin S)
  <2>1. \A j \in 1 .. (i - 1) : j \in DOMAIN s /\ j # i
    BY <1>1
  <2>2. \A j \in 1 .. (n - i) : i + j \in DOMAIN s /\ i + j # i
    BY <1>1
  <2> HIDE DEF a, b, n
  <2> QED
    BY <1>2, <2>1, <2>2
<1>9. a \in Seq(E) /\ b \in Seq(E) /\ x \in E /\ x \in S
  BY <1>2, <1>4
<1> HIDE DEF a, b, n, x
<1>5. ToSet(a) \cap S = {} /\ ToSet(b) \cap S = {}
  BY <1>4 DEF ToSet
<1>6. Those(a, S) = <<>> /\ Those(b, S) = <<>>
  BY <1>2, <1>5, ThoseAll
<1>7. Those(Append(a, x), S) = <<x>>
  <2>1. Those(Append(a, x), S) = Append(<<>>, x)
    BY <1>6, <1>9, ThoseOneMore
  <2> QED
    BY <2>1
<1>8. Those(s, S) = <<x>> \o <<>>
  <2> DEFINE d == Append(a, x)
  <2>1. d \in Seq(E) /\ s = d \o b /\ Those(d, S) = <<x>>
    BY <1>3, <1>7, <1>9
  <2> HIDE DEF d
  <2>2. Those(d \o b, S) = Those(d, S) \o Those(b, S)
    <3>1. d \in Seq(E) /\ b \in Seq(E)
      BY <1>9, <2>1
    <3> QED
      BY ONLY <3>1, ThoseJoined
  <2> QED
    BY <1>6, <2>1, <2>2
<1> QED
  BY <1>8 DEF x

-----------------------------------------------------------------------------
(* The inductive invariant.                                                *)

UserKeys == Sections \cup DOMAIN DefaultConfig
OptionLists == {l.options : l \in {x \in ToSet(metadata.config) : x.kind = "server"}}

\* The default lines of section k that none of the first n lines replaces.
LeftOf(k, n) ==
  {d \in ToSet(DefaultConfig[k]) :
     \A l \in ToSet(GivenUntil(k, n)) : l.value = None \/ l.name # d.name}
Following(k) == IF appended /\ k \in DOMAIN DefaultConfig THEN defaultConfig[k] ELSE <<>>

\* Each line is under the section it belongs to, the default lines are those that
\* are left, and nothing is read when these have been appended.
TextInv ==
  /\ metadata \in Inputs
  /\ line \in 1..(Len(metadata.config) + 1)
  /\ appended \in BOOLEAN
  /\ appended => line = Len(metadata.config) + 1
  /\ key = SectionAt(line)
  /\ DOMAIN defaultConfig = DOMAIN DefaultConfig
  /\ \A k \in DOMAIN DefaultConfig : defaultConfig[k] = Those(DefaultConfig[k], LeftOf(k, line - 1))
  /\ \A k \in UserKeys : Lines(k) = GivenUntil(k, line - 1) \o Following(k)
  /\ \A k \in DOMAIN customConfigMap : k.server => customConfigMap[k] \in Seq(OptionLists)
  /\ \A k \in DOMAIN customConfigMap : k.server \/ k \in UserKeys

LEMMA ConfigIndexed ==
  ASSUME metadata \in Inputs
  PROVE  /\ metadata.config \in Seq(ToSet(metadata.config))
         /\ Len(metadata.config) \in Nat /\ DOMAIN metadata.config = 1 .. Len(metadata.config)
         /\ \A i \in DOMAIN metadata.config : metadata.config[i] \in ToSet(metadata.config)
<1> DEFINE config == metadata.config
           E == ToSet(config)
<1>1. config \in Seq(E)
  BY CustomAssumption DEF IsSequence
<1> HIDE DEF config, E
<1>2. Len(config) \in Nat /\ DOMAIN config = 1 .. Len(config)
  BY <1>1
<1> QED
  BY <1>1, <1>2 DEF config, E, ToSet

\* What is given for a section, one line more.
LEMMA GivenNone ==
  ASSUME NEW k
  PROVE  GivenUntil(k, 0) = <<>>
<1> DEFINE seqs == [i \in 1 .. 0 |-> IF metadata.config[i].kind = "directive" /\ SectionAt(i) = k
                                     THEN <<metadata.config[i]>> ELSE <<>>]
<1>1. seqs = <<>>
  OBVIOUS
<1> QED
  BY <1>1, FlattenNone DEF GivenUntil

LEMMA GivenOneMore ==
  ASSUME metadata \in Inputs, NEW k, NEW n \in 1 .. Len(metadata.config)
  PROVE  GivenUntil(k, n) = GivenUntil(k, n - 1) \o
           (IF metadata.config[n].kind = "directive" /\ SectionAt(n) = k
            THEN <<metadata.config[n]>> ELSE <<>>)
<1> DEFINE E == ToSet(metadata.config)
           X == Seq(E)
           Give(i) == IF metadata.config[i].kind = "directive" /\ SectionAt(i) = k
                      THEN <<metadata.config[i]>> ELSE <<>>
           before == [i \in 1 .. (n - 1) |-> Give(i)]
           after == [i \in 1 .. n |-> Give(i)]
<1>1. n \in Nat /\ n - 1 \in Nat /\ \A i \in 1 .. n : Give(i) \in X
  <2>1. n \in Nat /\ n - 1 \in Nat /\ \A i \in 1 .. n : metadata.config[i] \in E
    BY ConfigIndexed
  <2> HIDE DEF E
  <2>2. \A i \in 1 .. n : <<metadata.config[i]>> \in X /\ <<>> \in X
    BY <2>1
  <2> HIDE DEF X
  <2> QED
    BY <2>1, <2>2
<1> HIDE DEF X, Give
<1>2. before \in Seq(X) /\ Len(before) = n - 1
  BY <1>1
<1>3. after = Append(before, Give(n))
  <2> DEFINE b == before
             g == Give(n)
             q == Append(b, g)
  <2>1. b \in Seq(X) /\ Len(b) = n - 1 /\ g \in X /\ \A i \in 1 .. (n - 1) : b[i] = Give(i)
    BY <1>1, <1>2
  <2> HIDE DEF b, g
  <2>2. /\ q \in Seq(X) /\ Len(q) = (n - 1) + 1
        /\ \A i \in 1 .. (n - 1) : q[i] = b[i]
        /\ q[(n - 1) + 1] = g
    BY <1>1, <2>1
  <2> HIDE DEF q
  <2>3. (n - 1) + 1 = n
    BY <1>1
  <2>4. q = [i \in 1 .. n |-> q[i]]
    <3>1. q \in Seq(X) /\ Len(q) = n
      BY <2>2, <2>3
    <3> QED
      BY ONLY <3>1
  <2>5. \A i \in 1 .. n : q[i] = Give(i)
    <3>1. \A i \in 1 .. n : i \in 1 .. (n - 1) \/ i = n
      BY <1>1
    <3> QED
      BY <2>1, <2>2, <2>3, <3>1 DEF g
  <2>6. q = after
    BY <2>4, <2>5
  <2> QED
    BY <2>6 DEF q, b, g
<1>4. FlattenSeq(after) = FlattenSeq(before) \o Give(n)
  <2> DEFINE g == Give(n)
  <2>1. g \in X /\ before \in Seq(X) /\ after = Append(before, g)
    BY <1>1, <1>2, <1>3
  <2> HIDE DEF before, after, g
  <2> QED
    BY <2>1, FlattenOneMore DEF X, g
<1> QED
  BY <1>4 DEF GivenUntil, Give

LEMMA GivenTyped ==
  ASSUME metadata \in Inputs, NEW k
  PROVE  \A n \in 0 .. Len(metadata.config) : GivenUntil(k, n) \in Seq(ToSet(metadata.config))
<1> DEFINE E == ToSet(metadata.config)
           m == Len(metadata.config)
           T == {n \in Nat : n <= m => GivenUntil(k, n) \in Seq(E)}
<1>1. 0 \in T
  <2>1. GivenUntil(k, 0) = <<>>
    BY GivenNone
  <2> HIDE DEF E
  <2>2. <<>> \in Seq(E)
    OBVIOUS
  <2> QED
    BY <2>1, <2>2
<1>2. ASSUME NEW n \in Nat, n \in T PROVE n + 1 \in T
  <2> SUFFICES ASSUME n + 1 <= m PROVE GivenUntil(k, n + 1) \in Seq(E)
    OBVIOUS
  <2>1. m \in Nat /\ n + 1 \in 1 .. m /\ (n + 1) - 1 = n /\ n <= m
    BY ConfigIndexed
  <2> DEFINE a == GivenUntil(k, n)
             x == metadata.config[n + 1]
             b == IF x.kind = "directive" /\ SectionAt(n + 1) = k THEN <<x>> ELSE <<>>
  <2>2. GivenUntil(k, n + 1) = a \o b
    BY <2>1, GivenOneMore
  <2>3. a \in Seq(E)
    BY <1>2, <2>1
  <2>4. x \in E
    BY <2>1, ConfigIndexed
  <2> HIDE DEF a, x, E
  <2>5. b \in Seq(E)
    BY <2>4
  <2> HIDE DEF b
  <2>6. a \o b \in Seq(E)
    BY ONLY <2>3, <2>5
  <2> QED
    BY <2>2, <2>6
<1>3. Nat \subseteq T
  <2> HIDE DEF T
  <2> QED
    BY <1>1, <1>2, NatsBySteps
<1> QED
  BY <1>3, ConfigIndexed

LEMMA SectionOneMore ==
  ASSUME metadata \in Inputs, NEW n \in 1 .. Len(metadata.config)
  PROVE  SectionAt(n + 1) = IF metadata.config[n].kind = "section" THEN metadata.config[n].key
                            ELSE SectionAt(n)
<1> DEFINE Heads(i) == {j \in 1 .. (i - 1) : metadata.config[j].kind = "section"}
<1>1. n \in Nat /\ 1 .. ((n + 1) - 1) = (1 .. (n - 1)) \cup {n}
  BY ConfigIndexed
<1>2. CASE metadata.config[n].kind = "section"
  <2>1. n \in Heads(n + 1) /\ Heads(n + 1) \subseteq 0 .. n
    BY <1>1, <1>2
  <2>2. Max(Heads(n + 1)) = n
    <3> DEFINE h == Heads(n + 1)
    <3>1. n \in h /\ h \subseteq 0 .. n
      BY <2>1
    <3> HIDE DEF h
    <3>2. Max(h) \in 0 .. n /\ n <= Max(h)
      BY <1>1, <3>1, MaxIsGreatest
    <3>3. Max(h) = n
      BY <1>1, <3>2
    <3> QED
      BY <3>3 DEF h
  <2> QED
    BY <1>2, <2>1, <2>2 DEF SectionAt
<1>3. CASE metadata.config[n].kind # "section"
  <2>1. Heads(n + 1) = Heads(n)
    BY <1>1, <1>3
  <2> QED
    BY <1>3, <2>1 DEF SectionAt
<1> QED
  BY <1>2, <1>3

LEMMA SectionKnown ==
  ASSUME metadata \in Inputs
  PROVE  \A n \in 1 .. (Len(metadata.config) + 1) : SectionAt(n) \in Sections
<1> SUFFICES ASSUME NEW n \in 1 .. (Len(metadata.config) + 1) PROVE SectionAt(n) \in Sections
  OBVIOUS
<1> DEFINE heads == {j \in 1 .. (n - 1) : metadata.config[j].kind = "section"}
<1>1. CASE heads = {}
  BY <1>1 DEF SectionAt, Sections
<1>2. CASE heads # {}
  <2>1. Len(metadata.config) \in Nat /\ n - 1 \in Nat /\ heads \subseteq 0 .. (n - 1)
    BY ConfigIndexed
  <2>2. Max(heads) \in heads
    <3> HIDE DEF heads
    <3> QED
      BY <1>2, <2>1, MaxIsGreatest
  <2>3. Max(heads) \in DOMAIN metadata.config /\ metadata.config[Max(heads)].kind = "section"
    BY <2>1, <2>2, ConfigIndexed
  <2>4. metadata.config[Max(heads)] \in ToSet(metadata.config)
    BY <2>3, ConfigIndexed
  <2>5. SectionAt(n) = metadata.config[Max(heads)].key
    BY <1>2 DEF SectionAt
  <2> HIDE DEF heads
  <2> QED
    BY <2>3, <2>4, <2>5 DEF Sections
<1> QED
  BY <1>1, <1>2

LEMMA UserKeysPlain ==
  ASSUME metadata \in Inputs
  PROVE  \A k \in UserKeys : /\ ~k.server /\ DOMAIN k = {"keyword", "lower", "name", "server"}
                            /\ k \in {Key(k.keyword, k.name), InCapitals(Key(k.keyword, k.name))}
<1>1. ASSUME NEW word, NEW name, NEW k, k \in {Key(word, name), InCapitals(Key(word, name))}
      PROVE  /\ ~k.server /\ DOMAIN k = {"keyword", "lower", "name", "server"}
             /\ k \in {Key(k.keyword, k.name), InCapitals(Key(k.keyword, k.name))}
  <2>1. k.keyword = word /\ k.name = name /\ ~k.server
        /\ DOMAIN k = {"keyword", "lower", "name", "server"}
    BY <1>1 DEF Key, InCapitals
  <2> QED
    BY <1>1, <2>1
<1>2. \A k \in {NoSection} \cup DOMAIN DefaultConfig : \E word, name : k = Key(word, name)
  BY DefaultConfigAssumption DEF NoSection, Global, Defaults, AnyBackend
<1>3. \A l \in ToSet(metadata.config) : l.kind = "section" =>
        \E word, name : l.key \in {Key(word, name), InCapitals(Key(word, name))}
  BY CustomAssumption
<1>4. \A k \in UserKeys : \E word, name : k \in {Key(word, name), InCapitals(Key(word, name))}
  BY <1>2, <1>3 DEF UserKeys, Sections
<1> QED
  BY <1>1, <1>4

-----------------------------------------------------------------------------
(* The steps.                                                              *)

LEMMA GivenUnchanging ==
  ASSUME UNCHANGED metadata
  PROVE  /\ \A k, n : GivenUntil(k, n)' = GivenUntil(k, n)
         /\ \A n : SectionAt(n)' = SectionAt(n)
         /\ \A k, n : LeftOf(k, n)' = LeftOf(k, n)
         /\ UserKeys' = UserKeys /\ OptionLists' = OptionLists
<1>1. \A n : SectionAt(n)' = SectionAt(n)
  BY DEF SectionAt
<1>2. \A k, n : GivenUntil(k, n)' = GivenUntil(k, n)
  BY <1>1 DEF GivenUntil
<1>3. \A k, n : LeftOf(k, n)' = LeftOf(k, n)
  BY <1>2 DEF LeftOf
<1>4. UserKeys' = UserKeys /\ OptionLists' = OptionLists
  BY DEF UserKeys, Sections, OptionLists
<1> QED
  BY <1>1, <1>2, <1>3, <1>4

LEMMA TextAtFirst == BuildInit => TextInv
<1> SUFFICES ASSUME BuildInit PROVE TextInv
  OBVIOUS
<1>1. metadata \in Inputs /\ line = 1 /\ key = NoSection /\ customConfigMap = <<>>
      /\ defaultConfig = DefaultConfig /\ appended = FALSE /\ line - 1 = 0
  BY DEF BuildInit, Init
<1>2. line \in 1 .. (Len(metadata.config) + 1)
  BY <1>1, ConfigIndexed
<1>3. key = SectionAt(line)
  <2>1. {j \in 1 .. (line - 1) : metadata.config[j].kind = "section"} = {}
    BY <1>1
  <2> QED
    BY <1>1, <2>1 DEF SectionAt
<1>4. DOMAIN customConfigMap = {}
  BY <1>1
<1>5. \A k : GivenUntil(k, line - 1) = <<>>
  BY <1>1, GivenNone
<1>6. ASSUME NEW k \in DOMAIN DefaultConfig PROVE defaultConfig[k] = Those(DefaultConfig[k], LeftOf(k, line - 1))
  <2> DEFINE d == DefaultConfig[k]
             E == ToSet(d)
             L == LeftOf(k, line - 1)
  <2>1. ToSet(<<>>) = {}
    BY DEF ToSet
  <2>2. L = E
    BY <1>5, <2>1 DEF LeftOf
  <2>3. d \in Seq(E) /\ E = ToSet(d)
    BY DefaultConfigAssumption DEF IsSequence
  <2> HIDE DEF d, E, L
  <2>4. Those(d, L) = d
    BY <2>2, <2>3, ThoseAll
  <2> QED
    BY <1>1, <2>4 DEF d, L
<1>7. \A k \in UserKeys : Lines(k) = GivenUntil(k, line - 1) \o Following(k)
  <2>1. \A k : Lines(k) = <<>> /\ Following(k) = <<>>
    BY <1>1, <1>4 DEF Lines, Following
  <2>2. <<>> \o <<>> = <<>>
    OBVIOUS
  <2> QED
    BY <1>5, <2>1, <2>2
<1> QED
  BY <1>1, <1>2, <1>3, <1>4, <1>6, <1>7 DEF TextInv

\* A line has been read.
LEMMA LineRead ==
  ASSUME TextInv, line <= Len(metadata.config), UNCHANGED <<metadata, appended>>, line' = line + 1,
         key' = SectionAt(line + 1), DOMAIN defaultConfig' = DOMAIN DefaultConfig,
         \A k \in DOMAIN DefaultConfig : defaultConfig'[k] = Those(DefaultConfig[k], LeftOf(k, line)),
         \A k \in UserKeys : Lines(k)' = GivenUntil(k, line),
         \A k \in DOMAIN customConfigMap' : k.server => customConfigMap'[k] \in Seq(OptionLists),
         \A k \in DOMAIN customConfigMap' : k.server \/ k \in UserKeys
  PROVE  TextInv'
<1>1. line \in Nat /\ line' - 1 = line /\ line' \in 1 .. (Len(metadata.config) + 1) /\ ~appended
  <2>1. metadata \in Inputs /\ line \in 1 .. (Len(metadata.config) + 1)
        /\ (appended => line = Len(metadata.config) + 1)
    BY DEF TextInv
  <2>2. Len(metadata.config) \in Nat
    BY <2>1, ConfigIndexed
  <2> QED
    BY <2>1, <2>2
<1>2. \A k \in UserKeys : Lines(k)' = GivenUntil(k, line) \o Following(k)'
  <2>1. \A k : Following(k)' = <<>>
    BY <1>1 DEF Following
  <2>2. ASSUME NEW k PROVE GivenUntil(k, line) \o <<>> = GivenUntil(k, line)
    <3> DEFINE g == GivenUntil(k, line)
    <3>1. g \in Seq(ToSet(metadata.config))
      BY <1>1, GivenTyped, ConfigIndexed DEF TextInv
    <3> HIDE DEF g
    <3> QED
      BY <3>1 DEF g
  <2> QED
    BY <2>1, <2>2
<1> QED
  BY <1>1, <1>2, GivenUnchanging DEF TextInv

\* What AppendTo does to the lines of each key.
LEMMA LinesAppended ==
  ASSUME NEW k, NEW lines, AppendTo(k, lines)
  PROVE  /\ DOMAIN customConfigMap' = DOMAIN customConfigMap \cup {k}
         /\ \A j : Lines(j)' = IF j = k THEN Lines(k) \o lines ELSE Lines(j)
         /\ \A j \in DOMAIN customConfigMap' :
              customConfigMap'[j] = IF j = k THEN Lines(k) \o lines ELSE customConfigMap[j]
BY DEF AppendTo, Lines

LEMMA BeforeReading ==
  ASSUME TextInv, Customising
  PROVE  /\ line \in 1 .. Len(metadata.config) /\ ~appended /\ metadata \in Inputs
         /\ \A k \in UserKeys : Lines(k) = GivenUntil(k, line - 1)
<1>1. /\ line \in 1 .. Len(metadata.config) /\ ~appended /\ metadata \in Inputs
      /\ line - 1 \in 0 .. Len(metadata.config)
  <2>1. metadata \in Inputs /\ line \in 1 .. (Len(metadata.config) + 1)
        /\ (appended => line = Len(metadata.config) + 1) /\ line <= Len(metadata.config)
    BY DEF TextInv, Customising
  <2>2. Len(metadata.config) \in Nat
    BY <2>1, ConfigIndexed
  <2> QED
    BY <2>1, <2>2
<1>2. ASSUME NEW k \in UserKeys PROVE Lines(k) = GivenUntil(k, line - 1)
  <2> DEFINE g == GivenUntil(k, line - 1)
  <2>1. g \in Seq(ToSet(metadata.config))
    BY <1>1, GivenTyped
  <2>2. Lines(k) = g \o <<>>
    BY <1>1 DEF TextInv, Following
  <2> HIDE DEF g
  <2> QED
    BY <2>1, <2>2 DEF g
<1> QED
  BY <1>1, <1>2

\* A line that is no directive changes none that are given.
LEMMA NothingGiven ==
  ASSUME TextInv, Customising, Line.kind # "directive"
  PROVE  /\ \A k : GivenUntil(k, line) = GivenUntil(k, line - 1)
         /\ \A k : LeftOf(k, line) = LeftOf(k, line - 1)
<1>1. ASSUME NEW k PROVE GivenUntil(k, line) = GivenUntil(k, line - 1)
  <2> DEFINE g == GivenUntil(k, line - 1)
  <2>1. line \in 1 .. Len(metadata.config) /\ metadata \in Inputs /\ line - 1 \in 0 .. Len(metadata.config)
    BY BeforeReading
  <2>2. g \in Seq(ToSet(metadata.config))
    BY <2>1, GivenTyped
  <2>3. GivenUntil(k, line) = g \o <<>>
    BY <2>1, GivenOneMore DEF Line
  <2> HIDE DEF g
  <2> QED
    BY <2>2, <2>3 DEF g
<1> QED
  BY <1>1 DEF LeftOf

LEMMA SkipBlankKeeps == TextInv /\ SkipBlank => TextInv'
<1> SUFFICES ASSUME TextInv, SkipBlank PROVE TextInv'
  OBVIOUS
<1>1. Customising /\ Line.kind = "blank" /\ line' = line + 1
      /\ UNCHANGED <<metadata, key, customConfigMap, defaultConfig, appended>>
  BY DEF SkipBlank, vars
<1>2. line \in 1 .. Len(metadata.config) /\ metadata \in Inputs
      /\ \A k \in UserKeys : Lines(k) = GivenUntil(k, line - 1)
  BY <1>1, BeforeReading
<1>3. key' = SectionAt(line + 1)
  BY <1>1, <1>2, SectionOneMore DEF TextInv, Line
<1>4. \A k : GivenUntil(k, line) = GivenUntil(k, line - 1) /\ LeftOf(k, line) = LeftOf(k, line - 1)
  BY <1>1, NothingGiven
<1>5. \A k \in UserKeys : Lines(k)' = GivenUntil(k, line)
  BY <1>1, <1>2, <1>4 DEF Lines
<1> QED
  BY <1>1, <1>3, <1>4, <1>5, LineRead DEF TextInv, Customising

LEMMA OpenSectionKeeps == TextInv /\ OpenSection => TextInv'
<1> SUFFICES ASSUME TextInv, OpenSection PROVE TextInv'
  OBVIOUS
<1>1. Customising /\ Line.kind = "section" /\ line' = line + 1 /\ key' = Line.key
      /\ UNCHANGED <<metadata, customConfigMap, defaultConfig, appended>>
  BY DEF OpenSection, vars
<1>2. line \in 1 .. Len(metadata.config) /\ metadata \in Inputs
      /\ \A k \in UserKeys : Lines(k) = GivenUntil(k, line - 1)
  BY <1>1, BeforeReading
<1>3. key' = SectionAt(line + 1)
  BY <1>1, <1>2, SectionOneMore DEF Line
<1>4. \A k : GivenUntil(k, line) = GivenUntil(k, line - 1) /\ LeftOf(k, line) = LeftOf(k, line - 1)
  BY <1>1, NothingGiven
<1>5. \A k \in UserKeys : Lines(k)' = GivenUntil(k, line)
  BY <1>1, <1>2, <1>4 DEF Lines
<1> QED
  BY <1>1, <1>3, <1>4, <1>5, LineRead DEF TextInv, Customising

LEMMA ReadServerLineKeeps == TextInv /\ ReadServerLine => TextInv'
<1> SUFFICES ASSUME TextInv, ReadServerLine PROVE TextInv'
  OBVIOUS
<1>1. Customising /\ Line.kind = "server" /\ line' = line + 1
      /\ AppendTo(ServerKey(key), <<Line.options>>)
      /\ UNCHANGED <<metadata, key, defaultConfig, appended>>
  BY DEF ReadServerLine, vars
<1>2. line \in 1 .. Len(metadata.config) /\ metadata \in Inputs
      /\ \A k \in UserKeys : Lines(k) = GivenUntil(k, line - 1)
  BY <1>1, BeforeReading
<1>3. key' = SectionAt(line + 1)
  BY <1>1, <1>2, SectionOneMore DEF TextInv, Line
<1>4. \A k : GivenUntil(k, line) = GivenUntil(k, line - 1) /\ LeftOf(k, line) = LeftOf(k, line - 1)
  BY <1>1, NothingGiven
<1>5. key \in UserKeys
  BY <1>2, SectionKnown DEF TextInv, UserKeys
<1>6. ServerKey(key).server /\ ServerKey(key) \notin UserKeys
  <2>1. "server" \in DOMAIN key /\ \A k \in UserKeys : ~k.server
    BY <1>2, <1>5, UserKeysPlain
  <2>2. ServerKey(key).server
    BY <2>1 DEF ServerKey
  <2> QED
    BY <2>1, <2>2
<1>7. \A k \in UserKeys : Lines(k)' = GivenUntil(k, line)
  <2>1. \A k \in UserKeys : Lines(k)' = Lines(k)
    BY <1>1, <1>6, LinesAppended
  <2> QED
    BY <1>2, <1>4, <2>1
<1>8. \A k \in DOMAIN customConfigMap' : k.server \/ k \in UserKeys
  <2>1. DOMAIN customConfigMap' = DOMAIN customConfigMap \cup {ServerKey(key)}
    BY <1>1, LinesAppended
  <2>2. \A k \in DOMAIN customConfigMap : k.server \/ k \in UserKeys
    BY DEF TextInv
  <2> QED
    BY <1>6, <2>1, <2>2
<1>9. ASSUME NEW k \in DOMAIN customConfigMap', k.server PROVE customConfigMap'[k] \in Seq(OptionLists)
  <2> DEFINE s == ServerKey(key)
             X == OptionLists
             old == Lines(s)
             o == Line.options
  <2>1. /\ customConfigMap'[k] = IF k = s THEN old \o <<o>> ELSE customConfigMap[k]
        /\ DOMAIN customConfigMap' = DOMAIN customConfigMap \cup {s}
    BY <1>1, LinesAppended
  <2>2. o \in X
    BY <1>1, <1>2, ConfigIndexed DEF OptionLists, Line
  <2>3. old \in Seq(X)
    <3>1. <<>> \in Seq(X)
      OBVIOUS
    <3>2. s \in DOMAIN customConfigMap => customConfigMap[s] \in Seq(X)
      BY <1>6 DEF TextInv
    <3> QED
      BY <3>1, <3>2 DEF Lines
  <2>4. k # s => customConfigMap[k] \in Seq(X)
    BY <1>9, <2>1 DEF TextInv
  <2> HIDE DEF s, X, old, o
  <2>5. old \o <<o>> \in Seq(X)
    BY <2>2, <2>3
  <2>6. customConfigMap'[k] \in Seq(X)
    BY <2>1, <2>4, <2>5
  <2> QED
    BY <2>6 DEF X
<1> QED
  BY <1>1, <1>3, <1>4, <1>7, <1>9, <1>8, LineRead DEF TextInv, Customising

\* The default lines that directive l leaves.
LEMMA RemainingLeft ==
  ASSUME NEW k \in DOMAIN DefaultConfig, NEW L, L \subseteq ToSet(DefaultConfig[k]), NEW l
  PROVE  Remaining(Those(DefaultConfig[k], L), l)
           = Those(DefaultConfig[k], {d \in L : l.value = None \/ l.name # d.name})
<1> DEFINE d == DefaultConfig[k]
           E == ToSet(d)
           M == {x \in L : l.value = None \/ l.name # x.name}
<1>1. d \in Seq(E) /\ L \subseteq E /\ E = ToSet(d)
  BY DefaultConfigAssumption DEF IsSequence
<1> HIDE DEF d, E
<1>2. ToSet(Those(d, L)) = L
  <2>1. ToSet(Those(d, L)) = ToSet(d) \cap L
    BY <1>1, ThoseElements
  <2> QED
    BY <1>1, <2>1
<1>3. Remaining(Those(d, L), l) = Those(Those(d, L), M)
  BY <1>2 DEF Remaining
<1>4. L \cap M = M
  OBVIOUS
<1> HIDE DEF M
<1>5. Those(Those(d, L), M) = Those(d, L \cap M)
  BY <1>1, ThoseTwice
<1>6. Remaining(Those(d, L), l) = Those(d, M)
  BY <1>3, <1>4, <1>5
<1> QED
  BY <1>6 DEF d, M

LEMMA ReadDirectiveKeeps == TextInv /\ ReadDirective => TextInv'
<1> SUFFICES ASSUME TextInv, ReadDirective PROVE TextInv'
  OBVIOUS
<1>1. /\ Customising /\ Line.kind = "directive" /\ line' = line + 1
      /\ AppendTo(key, <<Line>>)
      /\ UNCHANGED <<metadata, key, appended>>
      /\ defaultConfig' = [k \in DOMAIN defaultConfig |->
                             IF k = key THEN Remaining(defaultConfig[k], Line) ELSE defaultConfig[k]]
  BY DEF ReadDirective, vars
<1>2. line \in 1 .. Len(metadata.config) /\ metadata \in Inputs
      /\ \A k \in UserKeys : Lines(k) = GivenUntil(k, line - 1)
  BY <1>1, BeforeReading
<1>3. key = SectionAt(line) /\ key' = SectionAt(line + 1)
  BY <1>1, <1>2, SectionOneMore DEF TextInv, Line
<1>4. \A k : GivenUntil(k, line) = GivenUntil(k, line - 1) \o (IF k = key THEN <<Line>> ELSE <<>>)
  BY <1>1, <1>2, <1>3, GivenOneMore DEF Line
<1>5. ASSUME NEW k PROVE GivenUntil(k, line - 1) \o <<>> = GivenUntil(k, line - 1)
                         /\ ToSet(GivenUntil(k, line - 1) \o <<Line>>) = ToSet(GivenUntil(k, line - 1)) \cup {Line}
  <2> DEFINE g == GivenUntil(k, line - 1)
             E == ToSet(metadata.config)
             x == Line
  <2>1. line - 1 \in 0 .. Len(metadata.config)
    BY <1>2, ConfigIndexed
  <2>2. g \in Seq(E) /\ x \in E
    BY <1>2, <2>1, GivenTyped, ConfigIndexed DEF Line
  <2> HIDE DEF g, E, x
  <2>3. g \o <<>> = g /\ <<x>> \in Seq(E) /\ ToSet(<<x>>) = {x}
    BY <2>2 DEF ToSet
  <2>4. ToSet(g \o <<x>>) = ToSet(g) \cup {x}
    <3>1. g \o <<x>> = Append(g, x)
      BY ONLY <2>2
    <3>2. ToSet(Append(g, x)) = ToSet(g) \cup {x}
      BY <2>2, SequenceOf, Extended
    <3> QED
      BY <3>1, <3>2
  <2> QED
    BY <2>3, <2>4 DEF g, x
<1>6. \A k \in UserKeys : Lines(k)' = GivenUntil(k, line)
  <2>1. \A k \in UserKeys : Lines(k)' = IF k = key THEN Lines(k) \o <<Line>> ELSE Lines(k)
    BY <1>1, LinesAppended
  <2> QED
    BY <1>2, <1>4, <1>5, <2>1
<1>7. ASSUME NEW k \in DOMAIN DefaultConfig
      PROVE  defaultConfig'[k] = Those(DefaultConfig[k], LeftOf(k, line))
  <2>1. DOMAIN defaultConfig = DOMAIN DefaultConfig
        /\ defaultConfig[k] = Those(DefaultConfig[k], LeftOf(k, line - 1))
    BY DEF TextInv
  <2>2. CASE k # key
    <3>1. GivenUntil(k, line) = GivenUntil(k, line - 1)
      BY <1>4, <1>5, <2>2
    <3>2. LeftOf(k, line) = LeftOf(k, line - 1)
      BY <3>1 DEF LeftOf
    <3> QED
      BY <1>1, <2>1, <2>2, <3>2
  <2>3. CASE k = key
    <3> DEFINE L == LeftOf(k, line - 1)
    <3>1. ToSet(GivenUntil(k, line)) = ToSet(GivenUntil(k, line - 1)) \cup {Line}
      BY <1>4, <1>5, <2>3
    <3>2. LeftOf(k, line) = {d \in L : Line.value = None \/ Line.name # d.name}
      BY <3>1 DEF LeftOf
    <3>3. L \subseteq ToSet(DefaultConfig[k])
      BY DEF LeftOf
    <3>4. defaultConfig'[k] = Remaining(Those(DefaultConfig[k], L), Line)
      BY <1>1, <2>1, <2>3
    <3> HIDE DEF L
    <3> QED
      BY <3>2, <3>3, <3>4, RemainingLeft
  <2> QED
    BY <2>2, <2>3
<1>8. DOMAIN defaultConfig' = DOMAIN DefaultConfig
  BY <1>1 DEF TextInv
<1>9. ASSUME NEW k \in DOMAIN customConfigMap', k.server PROVE customConfigMap'[k] \in Seq(OptionLists)
  <2>1. key \in UserKeys
    BY <1>2, SectionKnown DEF TextInv, UserKeys
  <2>2. ~key.server
    BY <1>2, <2>1, UserKeysPlain
  <2>3. k # key /\ k \in DOMAIN customConfigMap /\ customConfigMap'[k] = customConfigMap[k]
    BY <1>1, <1>9, <2>2, LinesAppended
  <2> QED
    BY <1>9, <2>3 DEF TextInv
<1>10. \A k \in DOMAIN customConfigMap' : k.server \/ k \in UserKeys
  <2>1. DOMAIN customConfigMap' = DOMAIN customConfigMap \cup {key}
    BY <1>1, LinesAppended
  <2>2. key \in UserKeys /\ UserKeys' = UserKeys
    BY <1>1, <1>2, SectionKnown, GivenUnchanging DEF TextInv, UserKeys
  <2> QED
    BY <2>1, <2>2 DEF TextInv
<1> QED
  BY <1>1, <1>3, <1>6, <1>7, <1>8, <1>9, <1>10, LineRead DEF TextInv, Customising

LEMMA AppendDefaultsKeeps == TextInv /\ AppendDefaults => TextInv'
<1> SUFFICES ASSUME TextInv, AppendDefaults PROVE TextInv'
  OBVIOUS
<1>1. /\ sorted /\ ~Customising /\ ~appended /\ appended' = TRUE
      /\ UNCHANGED <<metadata, line, key, defaultConfig>>
      /\ customConfigMap' = [k \in DOMAIN customConfigMap \cup DOMAIN defaultConfig |->
                               IF k \in DOMAIN defaultConfig THEN Lines(k) \o defaultConfig[k]
                               ELSE customConfigMap[k]]
  BY DEF AppendDefaults, vars
<1>2. metadata \in Inputs /\ line = Len(metadata.config) + 1
  <2>1. metadata \in Inputs /\ line \in 1 .. (Len(metadata.config) + 1) /\ ~(line <= Len(metadata.config))
    BY <1>1 DEF TextInv, Customising
  <2>2. Len(metadata.config) \in Nat
    BY <2>1, ConfigIndexed
  <2> QED
    BY <2>1, <2>2
<1>3. DOMAIN defaultConfig = DOMAIN DefaultConfig
  BY DEF TextInv
<1>4. ASSUME NEW k \in UserKeys PROVE Lines(k)' = GivenUntil(k, line - 1) \o Following(k)'
  <2> DEFINE g == GivenUntil(k, line - 1)
  <2>1. g \in Seq(ToSet(metadata.config))
    <3>1. line - 1 \in 0 .. Len(metadata.config)
      BY <1>2, ConfigIndexed
    <3> QED
      BY <1>2, <3>1, GivenTyped
  <2>2. Lines(k) = g \o <<>>
    BY <1>1 DEF TextInv, Following
  <2> HIDE DEF g
  <2>3. Lines(k) = g /\ g \o <<>> = g
    BY <2>1, <2>2
  <2>4. CASE k \in DOMAIN DefaultConfig
    <3>1. Lines(k)' = Lines(k) \o defaultConfig[k]
      BY <1>1, <1>3, <2>4 DEF Lines
    <3>2. Following(k)' = defaultConfig[k]
      BY <1>1, <2>4 DEF Following
    <3> QED
      BY <2>3, <3>1, <3>2 DEF g
  <2>5. CASE k \notin DOMAIN DefaultConfig
    <3>1. Lines(k)' = Lines(k)
      BY <1>1, <1>3, <2>5 DEF Lines
    <3>2. Following(k)' = <<>>
      BY <2>5 DEF Following
    <3> QED
      BY <2>3, <3>1, <3>2 DEF g
  <2> QED
    BY <2>4, <2>5
<1>5. ASSUME NEW k \in DOMAIN customConfigMap', k.server PROVE customConfigMap'[k] \in Seq(OptionLists)
  <2>1. k \notin DOMAIN DefaultConfig
    BY <1>2, <1>5, UserKeysPlain DEF UserKeys
  <2>2. k \in DOMAIN customConfigMap /\ customConfigMap'[k] = customConfigMap[k]
    BY <1>1, <1>3, <2>1
  <2> QED
    BY <1>5, <2>2 DEF TextInv
<1>6. \A k \in DOMAIN customConfigMap' : k.server \/ k \in UserKeys
  BY <1>1, <1>3 DEF TextInv, UserKeys
<1> QED
  BY <1>1, <1>2, <1>4, <1>5, <1>6, GivenUnchanging DEF TextInv

LEMMA NoTextChanges ==
  ASSUME TextInv, UNCHANGED <<metadata, textVars>>
  PROVE  TextInv'
<1>1. \A k : Lines(k)' = Lines(k) /\ Following(k)' = Following(k)
  BY DEF textVars, Lines, Following
<1> QED
  BY <1>1, GivenUnchanging DEF textVars, TextInv

LEMMA TextInvIsInductive == TextInv /\ [BuildNext]_buildVars => TextInv'
<1> SUFFICES ASSUME TextInv, [BuildNext]_buildVars PROVE TextInv'
  OBVIOUS
<1>1. CASE Next /\ UNCHANGED textVars
  <2>1. UNCHANGED metadata
    BY <1>1 DEF Next, KeepRule, SelectServices, CannotSelect, SkipRule, MergeRule, AddRule, SortBackends
  <2> QED
    BY <1>1, <2>1, NoTextChanges
<1>2. CASE UNCHANGED buildVars
  BY <1>2, NoTextChanges DEF buildVars, vars
<1> QED
  BY <1>1, <1>2, SkipBlankKeeps, OpenSectionKeeps, ReadServerLineKeeps, ReadDirectiveKeeps,
     AppendDefaultsKeeps DEF BuildNext

LEMMA SpecKeepsTextInv == BuildSpec => []TextInv
BY TextAtFirst, TextInvIsInductive, PTL DEF BuildSpec

-----------------------------------------------------------------------------
(* When the defaults have been appended.                                   *)

\* The lines under a key that is no server's are the user's and the defaults.
LEMMA LinesWhenAppended ==
  ASSUME TextInv, appended
  PROVE  /\ metadata \in Inputs
         /\ \A k \in UserKeys : Lines(k) = Given(k) \o Following(k)
         /\ \A k \in UserKeys \ DOMAIN DefaultConfig : Lines(k) = Given(k)
         /\ \A k \in DOMAIN DefaultConfig :
              Following(k) = Those(DefaultConfig[k], LeftOf(k, Len(metadata.config)))
         /\ \A k : ~k.server /\ k \notin UserKeys => Lines(k) = <<>>
<1>1. metadata \in Inputs /\ Len(metadata.config) \in Nat /\ line - 1 = Len(metadata.config)
  <2>1. metadata \in Inputs /\ line = Len(metadata.config) + 1
    BY DEF TextInv
  <2>2. Len(metadata.config) \in Nat
    BY <2>1, ConfigIndexed
  <2> QED
    BY <2>1, <2>2
<1>2. \A k \in UserKeys : Lines(k) = Given(k) \o Following(k)
  BY <1>1 DEF TextInv, Given
<1>3. ASSUME NEW k \in UserKeys \ DOMAIN DefaultConfig PROVE Lines(k) = Given(k)
  <2> DEFINE g == Given(k)
  <2>1. g \in Seq(ToSet(metadata.config))
    BY <1>1, GivenTyped DEF Given
  <2>2. Lines(k) = g \o <<>>
    BY <1>2 DEF Following
  <2> HIDE DEF g
  <2> QED
    BY <2>1, <2>2 DEF g
<1>4. \A k \in DOMAIN DefaultConfig :
        Following(k) = Those(DefaultConfig[k], LeftOf(k, Len(metadata.config)))
  BY <1>1 DEF TextInv, Following
<1>5. \A k : ~k.server /\ k \notin UserKeys => Lines(k) = <<>>
  BY DEF TextInv, Lines
<1> QED
  BY <1>1, <1>2, <1>3, <1>4, <1>5

Defaulted == UNION {ToSet(DefaultConfig[k]) : k \in DOMAIN DefaultConfig}

LEMMA LinesTyped ==
  ASSUME TextInv, appended
  PROVE  /\ \A k : ~k.server => Lines(k) \in Seq(ToSet(metadata.config) \cup Defaulted)
         /\ \A k : Given(k) \in Seq(ToSet(metadata.config))
<1> DEFINE C == ToSet(metadata.config)
           E == C \cup Defaulted
<1>1. ASSUME NEW k PROVE Given(k) \in Seq(C)
  BY GivenTyped, LinesWhenAppended, ConfigIndexed DEF Given
<1>2. ASSUME NEW k \in DOMAIN DefaultConfig PROVE Following(k) \in Seq(E)
  <2> DEFINE d == DefaultConfig[k]
             D == ToSet(d)
             f == Following(k)
  <2>1. d \in Seq(D) /\ D \subseteq E
    BY DefaultConfigAssumption DEF IsSequence, Defaulted
  <2>2. f = Those(d, LeftOf(k, Len(metadata.config)))
    BY LinesWhenAppended
  <2> HIDE DEF d, D, f, E
  <2>3. f \in Seq(D)
    BY <2>1, <2>2, ThoseElements
  <2>4. f \in Seq(E)
    BY ONLY <2>1, <2>3
  <2> QED
    BY <2>4 DEF f
<1>3. ASSUME NEW k, ~k.server PROVE Lines(k) \in Seq(E)
  <2> DEFINE g == Given(k)
             f == Following(k)
  <2>1. g \in Seq(C) /\ C \subseteq E
    BY <1>1
  <2>2. k \in UserKeys => Lines(k) = g \o f
    BY LinesWhenAppended
  <2>3. k \notin UserKeys => Lines(k) = <<>>
    BY <1>3, LinesWhenAppended
  <2>4. f = <<>> \/ f \in Seq(E)
    BY <1>2 DEF Following
  <2> HIDE DEF g, f, C, E
  <2>5. <<>> \in Seq(E)
    BY ONLY TRUE
  <2>6. g \in Seq(E) /\ f \in Seq(E)
    <3>1. g \in Seq(E)
      BY ONLY <2>1
    <3> QED
      BY <2>4, <2>5, <3>1
  <2>7. g \o f \in Seq(E)
    BY ONLY <2>6
  <2> QED
    BY <2>2, <2>3, <2>5, <2>7
<1> QED
  BY <1>1, <1>3

LEMMA CarriesInside ==
  ASSUME NEW E, NEW before \in Seq(E), NEW lines \in Seq(E), NEW after \in Seq(E)
  PROVE  /\ Carries(before \o (lines \o after), lines)
         /\ Carries((before \o lines) \o after, lines)
         /\ Carries(lines \o after, lines)
         /\ Carries(lines, lines)
         /\ Carries(lines, <<>>)
<1>1. ASSUME NEW a \in Seq(E), NEW b \in Seq(E) PROVE Carries(a \o (lines \o b), lines)
  <2> DEFINE text == a \o (lines \o b)
             n == Len(lines)
             m == Len(a)
             s == SubSeq(text, m + 1, m + n)
  <2>1. n \in Nat /\ m \in Nat
    OBVIOUS
  <2>2. text \in Seq(E) /\ Len(text) = m + (n + Len(b)) /\ Len(b) \in Nat
    OBVIOUS
  <2>3. \A i \in 1 .. n : text[m + i] = lines[i]
    OBVIOUS
  <2> HIDE DEF text
  <2>4. s \in Seq(E) /\ Len(s) = n /\ \A i \in 1 .. n : s[i] = text[m + i]
    <3> HIDE DEF n, m
    <3>1. /\ m + 1 \in 1 .. (Len(text) + 1) /\ m + n \in m .. Len(text)
          /\ (m + n) - (m + 1) + 1 = n
          /\ \A i \in 1 .. n : (m + 1) + i - 1 = m + i
      BY <2>1, <2>2
    <3>2. \A i \in (m + 1) .. (m + n) : text[i] \in E
      BY <2>1, <2>2
    <3>3. s = [i \in 1 .. n |-> text[m + i]]
      BY <2>1, <3>1
    <3>4. \A i \in 1 .. n : m + i \in (m + 1) .. (m + n)
      BY <2>1
    <3> HIDE DEF s
    <3> QED
      BY <2>1, <3>2, <3>3, <3>4
  <2> HIDE DEF s
  <2>5. s = lines
    <3>1. s = [i \in 1 .. n |-> s[i]]
      BY ONLY <2>4
    <3>2. lines = [i \in 1 .. n |-> lines[i]]
      BY ONLY lines \in Seq(E)
    <3>3. \A i \in 1 .. n : s[i] = lines[i]
      BY <2>3, <2>4
    <3> QED
      BY <3>1, <3>2, <3>3
  <2>6. m \in 0 .. (Len(text) - n)
    <3> HIDE DEF m, n
    <3> QED
      BY <2>1, <2>2
  <2> QED
    BY <2>5, <2>6 DEF Carries, s, text
<1>2. /\ (before \o lines) \o after = before \o (lines \o after)
      /\ <<>> \o (lines \o after) = lines \o after
      /\ <<>> \o (lines \o <<>>) = lines
      /\ <<>> \in Seq(E)
  <2>1. <<>> \in Seq(E) /\ lines \o after \in Seq(E)
    OBVIOUS
  <2> QED
    BY <2>1, ConcatAssociative, ConcatEmptySeq
<1>3. Carries(lines, <<>>)
  <2>1. SubSeq(lines, 1, 0) = <<>>
    OBVIOUS
  <2>2. 0 \in 0 .. (Len(lines) - Len(<<>>)) /\ 0 + 1 = 1 /\ 0 + Len(<<>>) = 0
    OBVIOUS
  <2> QED
    BY <2>1, <2>2 DEF Carries
<1>4. Carries(<<>> \o (lines \o after), lines) /\ Carries(<<>> \o (lines \o <<>>), lines)
  BY <1>1, <1>2
<1> QED
  BY <1>1, <1>2, <1>3, <1>4

LEMMA Regrouped ==
  ASSUME NEW F, NEW a, NEW b, a \in Seq(F), b \in Seq(F)
  PROVE  \A c, d \in Seq(F) : (a \o (b \o c)) \o d = a \o (b \o (c \o d)) /\ c \o d \in Seq(F)
<1> DEFINE X == Seq(F)
           Joined(s, t) == s \o t
<1>1. \A s, t \in X : Joined(s, t) \in X
  OBVIOUS
<1>2. \A s, t, u \in X : Joined(Joined(s, t), u) = Joined(s, Joined(t, u))
  BY ONLY ConcatAssociative
<1>3. a \in X /\ b \in X
  OBVIOUS
<1> HIDE DEF X, Joined
<1>4. \A c, d \in X : Joined(Joined(a, Joined(b, c)), d) = Joined(a, Joined(b, Joined(c, d))) /\ Joined(c, d) \in X
  BY <1>1, <1>2, <1>3
<1> QED
  BY ONLY <1>4 DEF X, Joined

\* A backend begins with the user's lines for it and for all backends.
LEMMA BackendBegins ==
  ASSUME TextInv, appended, NEW u
  PROVE  \E F : /\ Given(AnyBackend) \in Seq(F)
                /\ \E start \in Seq(F), follow \in Seq(F) :
                     /\ Lines(Backend(u)) = start
                     /\ BackendText(u) = start \o (Given(AnyBackend) \o follow)
<1> DEFINE E == ToSet(metadata.config) \cup Defaulted
           check == WrittenBackend(u).check
           x == Directive("timeout check", check)
           y == Directive("cookie", Cookie)
           z == Directive("mode", Protocol[PortOf(u)])
           F == E \cup {x, y, z}
           start == Lines(Backend(u))
           any == Lines(AnyBackend)
           given == Given(AnyBackend)
           left == Following(AnyBackend)
           more == When(check # None, <<x>>)
           cookie == When(Sticky(PortOf(u)), <<y>>)
           mode == <<z>>
<1>1. start \in Seq(E) /\ given \in Seq(E) /\ left \in Seq(E)
  <2>1. start \in Seq(E)
    <3>1. ~Backend(u).server
      BY DEF Backend, Key
    <3> QED
      BY <3>1, LinesTyped
  <2>2. AnyBackend \in DOMAIN DefaultConfig
    BY DefaultConfigAssumption
  <2>3. given \in Seq(ToSet(metadata.config)) /\ ToSet(metadata.config) \subseteq E
    BY LinesTyped
  <2>4. left \in Seq(ToSet(DefaultConfig[AnyBackend])) /\ ToSet(DefaultConfig[AnyBackend]) \subseteq E
    <3> DEFINE d == DefaultConfig[AnyBackend]
               D == ToSet(d)
    <3>1. d \in Seq(D) /\ D \subseteq Defaulted
      BY <2>2, DefaultConfigAssumption DEF IsSequence, Defaulted
    <3>2. left = Those(d, LeftOf(AnyBackend, Len(metadata.config)))
      BY <2>2, LinesWhenAppended
    <3> HIDE DEF d, D, left
    <3>3. left \in Seq(D)
      BY <3>1, <3>2, ThoseElements
    <3> QED
      BY <3>1, <3>3 DEF d, D
  <2> HIDE DEF E, start, given, left
  <2> QED
    BY <2>1, <2>3, <2>4, SeqMonotonic
<1>2. more \in Seq(F) /\ cookie \in Seq(F) /\ mode \in Seq(F)
  <2> HIDE DEF x, y, z, E
  <2>1. x \in F /\ y \in F /\ z \in F
    OBVIOUS
  <2> HIDE DEF F
  <2>2. <<>> \in Seq(F) /\ <<x>> \in Seq(F) /\ <<y>> \in Seq(F) /\ <<z>> \in Seq(F)
    BY <2>1
  <2> QED
    BY <2>2 DEF When
<1>3. any = given \o left
  BY LinesWhenAppended, DefaultConfigAssumption DEF UserKeys
<1>4. BackendText(u) = (((start \o any) \o more) \o cookie) \o mode
  BY DEF BackendText
<1>5. E \subseteq F
  <2> HIDE DEF E, x, y, z
  <2> QED
    OBVIOUS
<1> HIDE DEF E, F, start, any, given, left, more, cookie, mode, x, y, z, check
<1>6. start \in Seq(F) /\ given \in Seq(F) /\ left \in Seq(F)
  BY <1>1, <1>5, SeqMonotonic
<1> DEFINE follow == ((left \o more) \o cookie) \o mode
<1>7. follow \in Seq(F)
  BY <1>2, <1>6
<1>8. (((start \o (given \o left)) \o more) \o cookie) \o mode = start \o (given \o follow)
  <2> DEFINE a == left \o more
             b == a \o cookie
  <2>1. \A c, d \in Seq(F) : (start \o (given \o c)) \o d = start \o (given \o (c \o d)) /\ c \o d \in Seq(F)
    BY ONLY <1>6, Regrouped
  <2>2. (start \o (given \o left)) \o more = start \o (given \o a) /\ a \in Seq(F)
    BY ONLY <1>2, <1>6, <2>1, Zenon
  <2> HIDE DEF a
  <2>3. (start \o (given \o a)) \o cookie = start \o (given \o b) /\ b \in Seq(F)
    BY ONLY <1>2, <2>1, <2>2, Zenon
  <2>4. follow = b \o mode
    BY DEF a
  <2> HIDE DEF b, follow
  <2>5. (start \o (given \o b)) \o mode = start \o (given \o (b \o mode))
    BY ONLY <1>2, <2>1, <2>3, Zenon
  <2> QED
    BY <2>2, <2>3, <2>4, <2>5
<1> HIDE DEF follow
<1>9. BackendText(u) = start \o (given \o follow)
  BY <1>3, <1>4, <1>8
<1> QED
  BY <1>6, <1>7, <1>9 DEF start, given

LEMMA WrittenWhenAppended == TextInv => CustomLinesWritten
<1> SUFFICES ASSUME TextInv, appended, NEW k \in Sections, ~Unwritten(k)
             PROVE  IF k \in {Frontend(p) : p \in Built}
                    THEN /\ \A text \in Destinations(k) : text = OtherLines(Given(k))
                         /\ AcceptProxy(k.name[2]) <=> AcceptProxyLine \in ToSet(Given(k))
                    ELSE \A text \in Destinations(k) : Carries(text, Given(k))
  BY DEF CustomLinesWritten
<1> DEFINE E == ToSet(metadata.config) \cup Defaulted
<1>1. /\ metadata \in Inputs /\ k \in UserKeys /\ ~k.server
      /\ k \in {Key(k.keyword, k.name), InCapitals(Key(k.keyword, k.name))}
      /\ DOMAIN DefaultConfig = {Global, Defaults, AnyBackend}
  BY LinesWhenAppended, UserKeysPlain, DefaultConfigAssumption DEF UserKeys
<1>2. /\ \A j : ~j.server => Lines(j) \in Seq(E)
      /\ Given(k) \in Seq(E) /\ Given(k) \in Seq(ToSet(metadata.config))
  <2>1. ToSet(metadata.config) \subseteq E /\ Given(k) \in Seq(ToSet(metadata.config))
    BY LinesTyped
  <2> HIDE DEF E
  <2>2. Given(k) \in Seq(E)
    BY <2>1, SeqMonotonic
  <2> QED
    BY <2>1, <2>2, LinesTyped DEF E
<1> HIDE DEF E
<1>3. <<>> \in Seq(E)
  OBVIOUS
<1>4. CASE k \in {Frontend(p) : p \in Built}
  <2> PICK p \in Built : k = Frontend(p)
    BY <1>4
  <2>1. k.keyword = "frontend" /\ k.name[2] = p
    BY DEF Frontend, Key
  <2>2. k \notin DOMAIN DefaultConfig /\ k # NoSection
    BY <1>1, <2>1, NoneAssumption DEF Global, Defaults, AnyBackend, NoSection, Key
  <2>3. Lines(Frontend(p)) = Given(k)
    BY <1>1, <2>2, LinesWhenAppended
  <2>4. Destinations(k) = {FrontendText(p)}
    BY <1>1, <1>4, <2>1, <2>2 DEF Destinations
  <2> QED
    BY <1>4, <2>1, <2>3, <2>4 DEF FrontendText, AcceptProxy
<1>5. CASE k \notin {Frontend(p) : p \in Built}
  <2> SUFFICES ASSUME NEW text \in Destinations(k) PROVE Carries(text, Given(k))
    BY <1>5
  <2> DEFINE given == Given(k)
             left == Following(k)
  <2>0. k \in DOMAIN DefaultConfig => left \in Seq(E)
    <3> SUFFICES ASSUME k \in DOMAIN DefaultConfig PROVE left \in Seq(E)
      OBVIOUS
    <3>1. left \in Seq(Defaulted) /\ Defaulted \subseteq E
      <4> DEFINE d == DefaultConfig[k]
                 D == ToSet(d)
      <4>1. d \in Seq(D) /\ D \subseteq Defaulted
        BY DefaultConfigAssumption DEF IsSequence, Defaulted
      <4>2. left = Those(d, LeftOf(k, Len(metadata.config)))
        BY LinesWhenAppended
      <4>3. Defaulted \subseteq E
        BY DEF E
      <4> HIDE DEF d, D, left
      <4>4. left \in Seq(D)
        BY <4>1, <4>2, ThoseElements
      <4>5. left \in Seq(Defaulted)
        BY <4>1, <4>4, SeqMonotonic
      <4> QED
        BY <4>3, <4>5
    <3> HIDE DEF left
    <3> QED
      BY <3>1, SeqMonotonic
  <2>1. \A after \in Seq(E) : Carries(given \o after, given)
    <3> HIDE DEF given
    <3> QED
      BY <1>2, CarriesInside DEF given
  <2>2. \A any \in Seq(E) : Carries(any, <<>>)
    BY CarriesInside
  <2>3. k \in DOMAIN DefaultConfig => Lines(k) = given \o left
    BY <1>1, LinesWhenAppended
  <2>4. k \notin DOMAIN DefaultConfig => Lines(k) = given
    BY <1>1, LinesWhenAppended
  <2>5. Carries(given, given)
    BY <1>2, CarriesInside
  <2>6. CASE k = Global
    <3>1. text = Lines(k)
      BY <2>6 DEF Destinations
    <3> HIDE DEF given, left
    <3>2. Carries(text, given)
      BY <1>1, <2>0, <2>1, <2>3, <2>6, <3>1
    <3> QED
      BY <3>2 DEF given
  <2>7. CASE k \in {Defaults, NoSection}
    <3>1. k # Global
      BY <2>7, NoneAssumption DEF Global, Defaults, NoSection, Key
    <3>2. text = Lines(Defaults) \o When(Extra(NoSection), Lines(NoSection))
      BY <2>7, <3>1 DEF Destinations, DefaultsText
    <3> DEFINE more == When(Extra(NoSection), Lines(NoSection))
               defaults == Lines(Defaults)
    <3>3. more \in Seq(E) /\ defaults \in Seq(E)
      <4>1. ~NoSection.server /\ ~Defaults.server
        BY DEF NoSection, Defaults, Key
      <4> QED
        BY <1>2, <1>3, <4>1 DEF When
    <3>4. CASE k = Defaults
      <4>1. defaults = given \o left /\ left \in Seq(E) /\ given \in Seq(E)
        BY <1>1, <1>2, <2>0, <2>3, <3>4
      <4> HIDE DEF given, left, more, defaults
      <4>2. text = given \o (left \o more) /\ left \o more \in Seq(E)
        <5>1. left \o more \in Seq(E)
          BY ONLY <3>3, <4>1
        <5>2. (given \o left) \o more = given \o (left \o more)
          BY ONLY <3>3, <4>1, ConcatAssociative
        <5> QED
          BY <3>2, <4>1, <5>1, <5>2 DEF more, defaults
      <4>3. Carries(text, given)
        BY <2>1, <4>2
      <4> QED
        BY <4>3 DEF given
    <3>5. CASE k = NoSection
      <4>1. k \notin DOMAIN DefaultConfig /\ k.keyword = None
        BY <1>1, <3>5, NoneAssumption DEF Global, Defaults, AnyBackend, NoSection, Key
      <4>2. k \notin Processed
        BY <4>1, NoneAssumption DEF Processed, Frontend, Backend, Key
      <4>3. k \in DOMAIN customConfigMap => Extra(k)
        BY <4>1, <4>2, NoneAssumption DEF Extra
      <4>4. CASE k \in DOMAIN customConfigMap
        <5>1. more = given
          BY <2>4, <3>5, <4>1, <4>3, <4>4 DEF When
        <5> HIDE DEF given, more, defaults
        <5>2. text = defaults \o given /\ given \in Seq(E)
          BY <1>2, <3>2, <5>1 DEF more, defaults, given
        <5>3. text = defaults \o (given \o <<>>)
          <6>1. given \o <<>> = given
            BY <5>2
          <6> QED
            BY <5>2, <6>1
        <5>4. Carries(defaults \o (given \o <<>>), given)
          BY <1>3, <3>3, <5>2, CarriesInside
        <5> QED
          BY <5>3, <5>4 DEF given
      <4>5. CASE k \notin DOMAIN customConfigMap
        <5>1. given = <<>>
          BY <2>4, <4>1, <4>5 DEF Lines
        <5>2. text \in Seq(E)
          <6> HIDE DEF more, defaults
          <6> QED
            BY <3>2, <3>3 DEF more, defaults
        <5> QED
          BY <2>2, <5>1, <5>2
      <4> QED
        BY <4>4, <4>5
    <3> QED
      BY <2>7, <3>4, <3>5
  <2>8. CASE k = AnyBackend
    <3>1. k # Global /\ k \notin {Defaults, NoSection}
      BY <2>8, NoneAssumption DEF Global, Defaults, NoSection, AnyBackend, Key
    <3>2. PICK u \in Uuids : text = BackendText(u)
      BY <2>8, <3>1 DEF Destinations
    <3>3. PICK F : \E start \in Seq(F), follow \in Seq(F) :
                     given \in Seq(F) /\ text = start \o (given \o follow)
      BY <2>8, <3>2, BackendBegins
    <3>4. PICK start \in Seq(F), follow \in Seq(F) : given \in Seq(F) /\ text = start \o (given \o follow)
      BY <3>3
    <3> HIDE DEF given
    <3>5. Carries(text, given)
      BY <3>4, CarriesInside
    <3> QED
      BY <3>5 DEF given
  <2>9. CASE k \notin {Global, Defaults, NoSection, AnyBackend} /\ k \in {Backend(u) : u \in Uuids}
    <3>1. PICK u \in Uuids : k = Backend(u)
      BY <2>9
    <3>2. k.name = u
      BY <3>1 DEF Backend, Key
    <3>3. text = BackendText(u)
      BY <1>5, <2>9, <3>2 DEF Destinations
    <3>4. Lines(Backend(u)) = given
      BY <1>1, <2>4, <2>9, <3>1
    <3>5. PICK F : \E start \in Seq(F), other \in Seq(F), follow \in Seq(F) :
                     start = given /\ text = start \o (other \o follow)
      BY <3>3, <3>4, BackendBegins
    <3>6. PICK start \in Seq(F), other \in Seq(F), follow \in Seq(F) :
                     start = given /\ text = start \o (other \o follow)
      BY <3>5
    <3>7. other \o follow \in Seq(F)
      BY <3>6
    <3> HIDE DEF given
    <3>8. Carries(text, given)
      BY <3>6, <3>7, CarriesInside
    <3> QED
      BY <3>8 DEF given
  <2>10. CASE k \notin {Global, Defaults, NoSection, AnyBackend} /\ k \notin {Backend(u) : u \in Uuids}
    <3>1. text = When(Extra(k), Lines(k)) /\ Lines(k) = given
      BY <1>1, <1>5, <2>4, <2>10 DEF Destinations
    <3>2. CASE k \notin DOMAIN customConfigMap
      <4>1. given = <<>> /\ text = <<>>
        BY <3>1, <3>2 DEF Lines, When
      <4> QED
        BY <1>3, <2>2, <4>1
    <3>3. CASE k \in DOMAIN customConfigMap
      <4>1. ~(k.keyword \in {"global", "backend", "defaults"} /\ k.name = None /\ ~k.server)
        <5> SUFFICES ASSUME k.keyword \in {"global", "backend", "defaults"}, k.name = None PROVE FALSE
          OBVIOUS
        <5>1. k # Key(k.keyword, k.name)
          BY <2>10 DEF Global, Defaults, AnyBackend
        <5>2. ~k.lower
          BY <1>1, <5>1 DEF InCapitals, Key
        <5> QED
          BY <5>2 DEF Unwritten
      <4>2. k \notin Processed
        BY <1>5, <2>10 DEF Unwritten
      <4>3. Extra(k)
        BY <1>1, <3>3, <4>1, <4>2 DEF Extra
      <4>4. text = given
        BY <3>1, <4>3 DEF When
      <4> QED
        BY <2>5, <4>4
    <3> QED
      BY <3>2, <3>3
  <2> QED
    BY <2>6, <2>7, <2>8, <2>9, <2>10
<1> QED
  BY <1>4, <1>5

\* The lines of one name in a sequence.
LEMMA NamedElements ==
  ASSUME NEW E, NEW s \in Seq(E), NEW n
  PROVE  /\ Named(s, n) \in Seq(E)
         /\ ToSet(Named(s, n)) = {x \in ToSet(s) : x.name = n}
<1> DEFINE S == {x \in ToSet(s) : x.name = n}
<1>1. Named(s, n) = Those(s, S)
  BY DEF Named
<1>2. ToSet(s) \cap S = S
  OBVIOUS
<1> HIDE DEF S
<1>3. Those(s, S) \in Seq(E) /\ ToSet(Those(s, S)) = ToSet(s) \cap S
  BY ThoseElements
<1> QED
  BY <1>1, <1>2, <1>3 DEF S

LEMMA NamedJoined ==
  ASSUME NEW E, NEW s \in Seq(E), NEW t \in Seq(E), NEW n
  PROVE  Named(s \o t, n) = Named(s, n) \o Named(t, n)
<1> DEFINE S == {x \in ToSet(s \o t) : x.name = n}
           A == {x \in ToSet(s) : x.name = n}
           B == {x \in ToSet(t) : x.name = n}
<1>1. ToSet(s \o t) = ToSet(s) \cup ToSet(t)
  BY ConcatElements
<1>2. (\A x \in ToSet(s) : x \in S <=> x \in A) /\ (\A x \in ToSet(t) : x \in S <=> x \in B)
  BY <1>1
<1>3. Named(s \o t, n) = Those(s \o t, S) /\ Named(s, n) = Those(s, A) /\ Named(t, n) = Those(t, B)
  BY DEF Named
<1> HIDE DEF S, A, B
<1>4. Those(s \o t, S) = Those(s, S) \o Those(t, S)
  BY ThoseJoined
<1>5. Those(s, S) = Those(s, A)
  BY <1>2, ThoseDepend
<1>6. Those(t, S) = Those(t, B)
  BY <1>2, ThoseDepend
<1> QED
  BY <1>3, <1>4, <1>5, <1>6

\* The lines of a default's name, when defaults have been appended.
LEMMA DefaultFollows ==
  ASSUME TextInv, appended, NEW k \in DOMAIN DefaultConfig, NEW i \in DOMAIN DefaultConfig[k]
  PROVE  LET default == DefaultConfig[k][i]
             same == Named(Given(k), default.name)
             given == \E l \in ToSet(same) : l.value # None
         IN Named(Lines(k), default.name) = same \o When(~given, <<default>>)
<1> DEFINE d == DefaultConfig[k]
           D == ToSet(d)
           name == d[i].name
           g == Given(k)
           left == LeftOf(k, Len(metadata.config))
           f == Following(k)
           value == \E l \in ToSet(Named(g, name)) : l.value # None
           C == ToSet(metadata.config)
           E == C \cup D
<1>1. /\ d \in Seq(D) /\ D = ToSet(d) /\ i \in DOMAIN d
      /\ \A j \in DOMAIN d : d[j] \in D /\ (j # i => d[j].name # name)
  BY DefaultConfigAssumption DEF IsSequence, ToSet
<1>2. g \in Seq(C) /\ Lines(k) = g \o f /\ f = Those(d, left)
  BY LinesTyped, LinesWhenAppended DEF UserKeys
<1>3. left = {x \in D : \A l \in ToSet(g) : l.value = None \/ l.name # x.name}
  BY DEF LeftOf, Given
<1>4. C \subseteq E /\ D \subseteq E
  OBVIOUS
<1> SUFFICES Named(Lines(k), name) = Named(g, name) \o (IF ~value THEN <<d[i]>> ELSE <<>>)
  BY DEF When
<1> HIDE DEF d, D, name, g, left, f, C, E
<1>5. ToSet(Named(g, name)) = {x \in ToSet(g) : x.name = name}
  BY <1>2, NamedElements
<1>6. value <=> d[i] \notin left
  <2>1. d[i].name = name
    BY DEF name
  <2> QED
    BY <1>1, <1>3, <1>5, <2>1
<1> HIDE DEF value
<1> DEFINE N == {x \in ToSet(f) : x.name = name}
           M == left \cap N
<1>7. ToSet(f) = left /\ f \in Seq(D)
  <2>1. ToSet(f) = D \cap left /\ f \in Seq(D)
    BY <1>1, <1>2, ThoseElements
  <2> QED
    BY <1>3, <2>1
<1>8. Named(f, name) = Those(d, M)
  <2>1. Named(f, name) = Those(f, N)
    BY DEF Named
  <2> HIDE DEF N
  <2>2. Those(Those(d, left), N) = Those(d, left \cap N)
    BY <1>1, ThoseTwice
  <2> QED
    BY <1>2, <2>1, <2>2
<1>9. \A j \in DOMAIN d : d[j] \in M <=> (j = i /\ d[i] \in left)
  BY <1>1, <1>7 DEF name
<1> HIDE DEF M
<1>10. Those(d, M) = IF ~value THEN <<d[i]>> ELSE <<>>
  <2>1. CASE d[i] \in left
    <3>1. \A j \in DOMAIN d : d[j] \in M <=> j = i
      BY <1>9, <2>1
    <3>2. Those(d, M) = <<d[i]>>
      BY <1>1, <3>1, ThoseOne
    <3> QED
      BY <1>6, <2>1, <3>2
  <2>2. CASE d[i] \notin left
    <3>1. ToSet(d) \cap M = {}
      BY <1>9, <2>2 DEF ToSet
    <3>2. Those(d, M) = <<>>
      BY <1>1, <3>1, ThoseAll
    <3> QED
      BY <1>6, <2>2, <3>2
  <2> QED
    BY <2>1, <2>2
<1>11. Named(g \o f, name) = Named(g, name) \o Named(f, name)
  <2>1. g \in Seq(E) /\ f \in Seq(E)
    BY <1>2, <1>4, <1>7, SeqMonotonic
  <2> QED
    BY <2>1, NamedJoined
<1> QED
  BY <1>2, <1>8, <1>10, <1>11

LEMMA YieldWhenAppended == TextInv => DefaultsYield
<1> SUFFICES ASSUME TextInv, appended, NEW k \in DOMAIN DefaultConfig, NEW i \in DOMAIN DefaultConfig[k]
             PROVE  LET default == DefaultConfig[k][i]
                        same == Named(Given(k), default.name)
                        written == Named(Lines(k), default.name)
                    IN /\ same = <<>> => written = <<default>>
                       /\ (\E l \in ToSet(same) : l.value # None) => written = same
  BY DEF DefaultsYield
<1> DEFINE default == DefaultConfig[k][i]
           same == Named(Given(k), default.name)
           written == Named(Lines(k), default.name)
           C == ToSet(metadata.config)
<1>1. written = same \o (IF \E l \in ToSet(same) : l.value # None THEN <<>> ELSE <<default>>)
  BY DefaultFollows DEF When
<1>2. same \in Seq(C)
  <2> DEFINE g == Given(k)
             name == default.name
  <2>1. g \in Seq(C)
    BY LinesTyped DEF UserKeys
  <2> HIDE DEF g, C, name
  <2> QED
    BY <2>1, ThoseElements DEF Named, g, name
<1> HIDE DEF default, same, written, C
<1>3. CASE \E l \in ToSet(same) : l.value # None
  <2>1. ToSet(<<>>) = {}
    BY DEF ToSet
  <2>2. same # <<>>
    BY <1>3, <2>1
  <2>3. written = same \o <<>>
    BY <1>1, <1>3
  <2>4. written = same
    BY <1>2, <2>3
  <2> QED
    BY <1>3, <2>2, <2>4 DEF default, same, written
<1>4. CASE ~\E l \in ToSet(same) : l.value # None
  <2>1. same = <<>> => written = <<default>>
    BY <1>1, <1>4
  <2> QED
    BY <1>4, <2>1 DEF default, same, written
<1> QED
  BY <1>3, <1>4

-----------------------------------------------------------------------------
(* The weights of servers.                                                 *)

\* The backends of a port that is written come before those of the next.
PortsAt(at) ==
  /\ \A i \in DOMAIN Ports : Supported(Ports[i]) => \A k \in DOMAIN frontends[Ports[i]] :
       /\ k \in Nat
       /\ at[i] + k \in DOMAIN AllBackends
       /\ AllBackends[at[i] + k] = frontends[Ports[i]][k]
       /\ \A j \in DOMAIN Ports : i < j => at[i] + k <= at[j]
  /\ \A x \in DOMAIN AllBackends : \E i \in DOMAIN Ports :
       /\ Supported(Ports[i])
       /\ \E k \in DOMAIN frontends[Ports[i]] : k > 0 /\ x = at[i] + k

LEMMA PortsInOrder ==
  ASSUME IInv
  PROVE  /\ DOMAIN AllBackends \subseteq Nat /\ DOMAIN Ports \subseteq Nat
         /\ \E at \in [DOMAIN Ports -> Nat] : PortsAt(at)
<1> DEFINE n == Len(Ports)
           seqs == [i \in DOMAIN Ports |-> IF Supported(Ports[i]) THEN frontends[Ports[i]] ELSE <<>>]
           E == UNION {ToSet(frontends[p]) : p \in ToSet(Ports)}
<1>1. n \in Nat /\ DOMAIN Ports = 1 .. n /\ \A i \in 1 .. n : Ports[i] \in ToSet(Ports)
  <2>1. n \in Nat /\ DOMAIN Ports = 1 .. n
    BY PortsAssumption, SequenceOf DEF IsSequence
  <2> QED
    BY <2>1 DEF ToSet
<1>2. \A p \in ToSet(Ports) : frontends[p] \in Seq(E)
  <2> SUFFICES ASSUME NEW p \in ToSet(Ports) PROVE frontends[p] \in Seq(E)
    OBVIOUS
  <2> DEFINE s == frontends[p]
             F == ToSet(s)
  <2>1. s \in Seq(F) /\ F \subseteq E
    BY DEF IInv, Typed, BackendsOK, IsSequence
  <2> HIDE DEF s, F, E
  <2> QED
    BY <2>1 DEF s
<1> HIDE DEF E, n
<1>3. seqs \in Seq(Seq(E))
  <2> DEFINE X == Seq(E)
  <2>1. \A i \in 1 .. n : (IF Supported(Ports[i]) THEN frontends[Ports[i]] ELSE <<>>) \in X
    BY <1>1, <1>2
  <2> HIDE DEF X
  <2>2. seqs \in Seq(X)
    BY <1>1, <2>1
  <2> QED
    BY <2>2 DEF X
<1>4. AllBackends = FlattenSeq(seqs) /\ DOMAIN seqs = 1 .. n
  BY <1>1 DEF AllBackends
<1>5. \A i \in 1 .. n : seqs[i] = IF Supported(Ports[i]) THEN frontends[Ports[i]] ELSE <<>>
  BY <1>1
<1> HIDE DEF seqs
<1>6. Len(seqs) = n
  BY <1>1, <1>3, <1>4
<1>7. /\ AllBackends \in Seq(E)
      /\ \E at \in [1 .. n -> Nat] : Places(seqs, AllBackends, at)
  BY <1>3, <1>4, <1>6, FlattenElements
<1>8. DOMAIN AllBackends = 1 .. Len(AllBackends)
  BY <1>7
<1>9. PICK at \in [1 .. n -> Nat] : Places(seqs, AllBackends, at)
  BY <1>7
<1>10. /\ \A i \in 1 .. n : \A k \in 1 .. Len(seqs[i]) :
            /\ at[i] + k \in 1 .. Len(AllBackends)
            /\ AllBackends[at[i] + k] = seqs[i][k]
       /\ \A i, j \in 1 .. n : i < j => at[i] + Len(seqs[i]) <= at[j]
       /\ \A x \in 1 .. Len(AllBackends) : \E i \in 1 .. n : \E k \in 1 .. Len(seqs[i]) : x = at[i] + k
  BY <1>6, <1>9 DEF Places
<1>11. \A i \in 1 .. n : Supported(Ports[i]) =>
         /\ seqs[i] = frontends[Ports[i]] /\ Len(seqs[i]) \in Nat
         /\ DOMAIN frontends[Ports[i]] = 1 .. Len(seqs[i])
  BY <1>1, <1>2, <1>5
<1>12. ASSUME NEW i \in 1 .. n, Supported(Ports[i]), NEW k \in DOMAIN frontends[Ports[i]]
       PROVE  /\ k \in Nat
              /\ at[i] + k \in DOMAIN AllBackends
              /\ AllBackends[at[i] + k] = frontends[Ports[i]][k]
              /\ \A j \in 1 .. n : i < j => at[i] + k <= at[j]
  <2>1. k \in 1 .. Len(seqs[i]) /\ Len(seqs[i]) \in Nat /\ seqs[i] = frontends[Ports[i]]
    BY <1>11, <1>12
  <2>2. at[i] \in Nat /\ \A j \in 1 .. n : at[j] \in Nat
    OBVIOUS
  <2>3. \A j \in 1 .. n : i < j => at[i] + Len(seqs[i]) <= at[j]
    BY <1>10
  <2>4. \A j \in 1 .. n : i < j => at[i] + k <= at[j]
    BY <2>1, <2>2, <2>3
  <2>5. at[i] + k \in DOMAIN AllBackends /\ AllBackends[at[i] + k] = seqs[i][k]
    BY <1>8, <1>10, <2>1
  <2> QED
    BY <2>1, <2>4, <2>5
<1>13. ASSUME NEW x \in DOMAIN AllBackends
       PROVE  \E i \in 1 .. n : /\ Supported(Ports[i])
                                /\ \E k \in DOMAIN frontends[Ports[i]] : k > 0 /\ x = at[i] + k
  <2>1. PICK i \in 1 .. n : \E k \in 1 .. Len(seqs[i]) : x = at[i] + k
    BY <1>8, <1>10
  <2>2. PICK k \in 1 .. Len(seqs[i]) : x = at[i] + k
    BY <2>1
  <2>3. Supported(Ports[i])
    <3> SUFFICES ASSUME ~Supported(Ports[i]) PROVE FALSE
      OBVIOUS
    <3>1. seqs[i] = <<>>
      BY <1>5
    <3>2. k \in 1 .. 0
      BY <2>2, <3>1
    <3> QED
      BY <3>2
  <2> QED
    BY <1>11, <2>2, <2>3
<1>14. DOMAIN AllBackends \subseteq Nat /\ DOMAIN Ports \subseteq Nat
  BY <1>1, <1>8
<1>15. at \in [DOMAIN Ports -> Nat]
  BY <1>1
<1>16. PortsAt(at)
  BY <1>1, <1>12, <1>13 DEF PortsAt
<1> QED
  BY <1>14, <1>15, <1>16

\* What is written for a name is a backend of the first port that has the name.
LEMMA WrittenPlaced ==
  ASSUME IInv, NEW u \in Uuids
  PROVE  PortOf(u) \in ToSet(Ports) /\ WrittenBackend(u) \in ToSet(frontends[PortOf(u)])
<1>1. DOMAIN AllBackends \subseteq Nat /\ DOMAIN Ports \subseteq Nat
  BY PortsInOrder
<1>2. PICK at \in [DOMAIN Ports -> Nat] : PortsAt(at)
  BY PortsInOrder
<1>3. /\ \A i \in DOMAIN Ports : Supported(Ports[i]) => \A k \in DOMAIN frontends[Ports[i]] :
           /\ k \in Nat
           /\ at[i] + k \in DOMAIN AllBackends
           /\ AllBackends[at[i] + k] = frontends[Ports[i]][k]
           /\ \A j \in DOMAIN Ports : i < j => at[i] + k <= at[j]
      /\ \A x \in DOMAIN AllBackends : \E i \in DOMAIN Ports :
           /\ Supported(Ports[i])
           /\ \E k \in DOMAIN frontends[Ports[i]] : k > 0 /\ x = at[i] + k
  BY <1>2 DEF PortsAt
<1> DEFINE named == {x \in DOMAIN AllBackends : AllBackends[x].uuid = u}
           m == Min(named)
           ports == {i \in DOMAIN Ports :
                       Supported(Ports[i]) /\ \E b \in ToSet(frontends[Ports[i]]) : b.uuid = u}
           first == Min(ports)
<1>4. named # {} /\ named \subseteq Nat
  BY <1>1 DEF Uuids
<1>5. m \in named /\ \A x \in named : m <= x
  <2> HIDE DEF named
  <2> QED
    BY <1>4, MinIsLeast
<1>6. PICK i \in DOMAIN Ports : Supported(Ports[i]) /\ \E k \in DOMAIN frontends[Ports[i]] : k > 0 /\ m = at[i] + k
  <2> HIDE DEF m
  <2> QED
    BY <1>3, <1>5
<1>7. PICK k \in DOMAIN frontends[Ports[i]] : k > 0 /\ m = at[i] + k
  BY <1>6
<1>8. WrittenBackend(u) = frontends[Ports[i]][k] /\ frontends[Ports[i]][k].uuid = u
  <2>1. WrittenBackend(u) = AllBackends[m] /\ AllBackends[m].uuid = u
    <3> HIDE DEF m
    <3>1. AllBackends[m].uuid = u
      BY <1>5
    <3> QED
      BY <3>1 DEF WrittenBackend, m
  <2> HIDE DEF m
  <2> QED
    BY <1>3, <1>6, <1>7, <2>1
<1>9. i \in ports
  BY <1>6, <1>8 DEF ToSet
<1>10. first \in ports /\ \A j \in ports : first <= j
  <2>1. ports # {} /\ ports \subseteq Nat
    BY <1>1, <1>9
  <2> HIDE DEF ports
  <2> QED
    BY <2>1, MinIsLeast
<1>11. PortOf(u) = Ports[first]
  BY DEF PortOf
<1> HIDE DEF m, first
<1>12. i = first
  <2> SUFFICES ASSUME first < i PROVE FALSE
    BY <1>1, <1>9, <1>10
  <2>1. PICK b \in ToSet(frontends[Ports[first]]) : b.uuid = u
    BY <1>10
  <2>2. PICK l \in DOMAIN frontends[Ports[first]] : b = frontends[Ports[first]][l]
    BY DEF ToSet
  <2>3. /\ first \in DOMAIN Ports /\ Supported(Ports[first])
        /\ l \in Nat /\ at[first] + l \in DOMAIN AllBackends
        /\ AllBackends[at[first] + l] = b /\ at[first] + l <= at[i]
    BY <1>3, <1>10, <2>2
  <2>4. m <= at[first] + l
    BY <1>5, <2>1, <2>3
  <2>5. at[first] \in Nat /\ at[i] \in Nat /\ k \in Nat /\ k > 0 /\ l \in Nat
    BY <1>3, <1>6, <1>7, <2>3
  <2> QED
    BY <1>7, <2>3, <2>4, <2>5
<1>13. Ports[first] \in ToSet(Ports)
  BY <1>10 DEF ToSet
<1> QED
  BY <1>8, <1>11, <1>12, <1>13 DEF ToSet

\* The one server line of the user's, with what is added.
LEMMA ServerTextIs ==
  ASSUME TextInv, NEW u, NEW ep, Len(Lines(ServerKey(Backend(u)))) <= 1
  PROVE  \E X : \E own \in Seq(X) :
           /\ ServerText(u, ep) = own \o AddedOptions(u, ep) \/ (own = <<>> /\ ServerText(u, ep) = AddedOptions(u, ep))
           /\ FlattenSeq(Lines(ServerKey(Backend(u)))) = own
<1> DEFINE k == ServerKey(Backend(u))
           custom == Lines(k)
           O == OptionLists
<1>1. k.server
  BY DEF ServerKey, Backend, Key
<1>2. custom = <<>> \/ custom \in Seq(O)
  BY <1>1 DEF TextInv, Lines
<1>3. CASE custom = <<>>
  <2>1. <<>> \in Seq({})
    OBVIOUS
  <2>2. ServerText(u, ep) = AddedOptions(u, ep)
    BY <1>3 DEF ServerText
  <2> QED
    BY <1>3, <2>1, <2>2, FlattenNone
<1>4. CASE custom # <<>>
  <2> DEFINE c == custom[1]
             X == ToSet(c)
             E == Seq(X)
  <2>1. custom \in Seq(O) /\ Len(custom) <= 1 /\ custom # <<>>
    BY <1>2, <1>4
  <2> HIDE DEF custom, O
  <2>2. Len(custom) = 1 /\ c \in O
    <3> DEFINE n == Len(custom)
    <3>1. n \in Nat /\ n # 0
      BY ONLY <2>1, EmptySeq
    <3>2. n <= 1
      BY <2>1
    <3> HIDE DEF n
    <3>3. n = 1
      BY <3>1, <3>2
    <3>4. Len(custom) = 1
      BY <3>3 DEF n
    <3> QED
      BY <2>1, <3>4
  <2>3. custom = [i \in 1 .. 1 |-> custom[i]]
    BY <2>1, <2>2
  <2>4. c \in E
    <3>1. PICK l \in ToSet(metadata.config) : l.kind = "server" /\ c = l.options
      BY <2>2 DEF O, OptionLists
    <3>2. IsSequence(l.options)
      BY <3>1, CustomAssumption DEF TextInv
    <3> QED
      BY <3>1, <3>2 DEF IsSequence
  <2> HIDE DEF c, X
  <2>5. custom = Append(<<>>, c)
    <3>1. Append(<<>>, c) = [i \in 1 .. 1 |-> c]
      OBVIOUS
    <3>2. custom = [i \in 1 .. 1 |-> c]
      BY <2>3 DEF c
    <3> QED
      BY <3>1, <3>2
  <2>6. FlattenSeq(Append(<<>>, c)) = FlattenSeq(<<>>) \o c
    <3>1. <<>> \in Seq(E)
      OBVIOUS
    <3> QED
      BY <2>4, <3>1, FlattenOneMore
  <2>7. <<>> \o c = c
    BY <2>4, ConcatEmptySeq
  <2>8. FlattenSeq(custom) = c
    BY <2>5, <2>6, <2>7, FlattenNone
  <2>9. ServerText(u, ep) = c \o AddedOptions(u, ep)
    BY <2>1, <2>2 DEF ServerText, custom, c
  <2>10. \E own \in E : /\ ServerText(u, ep) = own \o AddedOptions(u, ep)
                        /\ FlattenSeq(custom) = own
    BY <2>4, <2>8, <2>9
  <2> QED
    BY <2>10 DEF custom
<1> QED
  BY <1>3, <1>4

\* Nothing that is added but its weight has that name.
LEMMA WeightAdded ==
  ASSUME NEW u, NEW ep
  PROVE  \E Y : /\ AddedOptions(u, ep) \in Seq(Y)
                /\ Named(AddedOptions(u, ep), "weight") = WeightOption(ep.weight)
<1> DEFINE check == WrittenBackend(u).check
           o1 == Directive("check", check)
           o2 == Directive("check", None)
           o3 == Directive("resolvers", "rancher")
           o4 == Directive("cookie", ep.ip)
           o5 == Directive("weight", ep.weight)
           Z == {o1, o2, o3, o4}
           Y == Z \cup {o5}
           a == When(check # None, <<o1>>)
           b == When(ep.cname, When(check = None, <<o2>>) \o <<o3>>)
           c == When(Sticky(PortOf(u)), <<o4>>)
           w == WeightOption(ep.weight)
<1>1. (\A z \in Z : z.name # "weight") /\ o5.name = "weight"
  BY DEF Directive
<1>2. AddedOptions(u, ep) = ((a \o b) \o c) \o w
  BY DEF AddedOptions
<1>3. w = <<>> \/ w = <<o5>>
  BY DEF WeightOption, When
<1>4. (a = <<>> \/ a = <<o1>>) /\ (c = <<>> \/ c = <<o4>>)
  BY DEF When
<1>5. b = <<>> \/ b = <<>> \o <<o3>> \/ b = <<o2>> \o <<o3>>
  BY DEF When
<1>6. o1 \in Z /\ o2 \in Z /\ o3 \in Z /\ o4 \in Z /\ o5 \in {o5}
  <2> HIDE DEF o1, o2, o3, o4, o5
  <2> QED
    OBVIOUS
<1>7. Z \subseteq Y /\ {o5} \subseteq Y
  <2> HIDE DEF o5, o1, o2, o3, o4
  <2> QED
    OBVIOUS
<1> HIDE DEF a, b, c, w, o1, o2, o3, o4, Z, Y, check
<1>8. a \in Seq(Z) /\ b \in Seq(Z) /\ c \in Seq(Z)
  <2>1. <<>> \in Seq(Z) /\ <<o1>> \in Seq(Z) /\ <<o2>> \in Seq(Z) /\ <<o3>> \in Seq(Z) /\ <<o4>> \in Seq(Z)
    BY <1>6
  <2>2. <<>> \o <<o3>> \in Seq(Z) /\ <<o2>> \o <<o3>> \in Seq(Z)
    BY <2>1
  <2> QED
    BY <1>4, <1>5, <2>1, <2>2
<1> DEFINE d == (a \o b) \o c
<1>9. d \in Seq(Z)
  BY <1>8
<1> HIDE DEF d
<1>10. Named(d, "weight") = <<>>
  <2> DEFINE N == {x \in ToSet(d) : x.name = "weight"}
  <2>1. ToSet(d) \cap N = {}
    <3>1. ToSet(d) \subseteq Z
      BY <1>9, SequenceOf
    <3> QED
      BY <1>1, <3>1
  <2> HIDE DEF N
  <2>2. Those(d, N) = <<>>
    BY <1>9, <2>1, ThoseAll
  <2> QED
    BY <2>2 DEF Named, N
<1> HIDE DEF o5
<1>11. w \in Seq({o5})
  <2>1. <<>> \in Seq({o5}) /\ <<o5>> \in Seq({o5})
    OBVIOUS
  <2> QED
    BY <1>3, <2>1
<1>12. Named(w, "weight") = w
  <2> DEFINE N == {x \in ToSet(w) : x.name = "weight"}
  <2>1. ToSet(w) \subseteq N
    <3>1. ToSet(w) \subseteq {o5}
      BY <1>11, SequenceOf
    <3> QED
      BY <1>1, <3>1
  <2> HIDE DEF N
  <2>2. Those(w, N) = w
    BY <1>11, <2>1, ThoseAll
  <2> QED
    BY <2>2 DEF Named, N
<1>13. d \in Seq(Y) /\ w \in Seq(Y)
  BY <1>7, <1>9, <1>11, SeqMonotonic
<1>14. Named(d \o w, "weight") = Named(d, "weight") \o Named(w, "weight")
  BY <1>13, NamedJoined
<1>15. <<>> \o w = w
  BY <1>13, ConcatEmptySeq
<1>16. d \o w \in Seq(Y)
  BY <1>13
<1>17. AddedOptions(u, ep) = d \o w
  BY <1>2 DEF d
<1> QED
  BY <1>10, <1>12, <1>14, <1>15, <1>16, <1>17 DEF w

\* The weight added comes last, so it is the one of the server; without one the
\* user's line decides.
LEMMA WeightOfServer ==
  ASSUME TextInv, NEW u, NEW ep, ep.weight \in Int, Len(Lines(ServerKey(Backend(u)))) <= 1
  PROVE  LET options == FlattenSeq(Lines(ServerKey(Backend(u))))
             custom == {o.value : o \in {x \in ToSet(options) : x.name = "weight"}}
         IN EffectiveWeight(u, ep) \in
              IF ep.weight \in (0..256) \ {1} THEN {ep.weight}
              ELSE IF custom = {} THEN {1} ELSE custom
<1> DEFINE options == FlattenSeq(Lines(ServerKey(Backend(u))))
           weighty == {x \in ToSet(options) : x.name = "weight"}
           text == ServerText(u, ep)
           added == AddedOptions(u, ep)
           w == WeightOption(ep.weight)
           weights == Named(text, "weight")
<1>1. PICK X : \E own \in Seq(X) : /\ text = own \o added \/ (own = <<>> /\ text = added)
                                   /\ options = own
  BY ServerTextIs
<1>2. options \in Seq(X) /\ (text = options \o added \/ (options = <<>> /\ text = added))
  BY <1>1
<1>3. PICK Y : added \in Seq(Y) /\ Named(added, "weight") = w
  BY WeightAdded
<1> HIDE DEF options, added, text, w
<1> DEFINE Z == X \cup Y
<1>4. options \in Seq(Z) /\ added \in Seq(Z)
  <2>1. X \subseteq Z /\ Y \subseteq Z
    OBVIOUS
  <2> HIDE DEF Z
  <2> QED
    BY <1>2, <1>3, <2>1, SeqMonotonic
<1> HIDE DEF Z
<1>5. text = options \o added
  BY <1>2, <1>3, ConcatEmptySeq
<1> DEFINE mine == Named(options, "weight")
<1>6. weights = mine \o w
  <2>1. Named(options \o added, "weight") = Named(options, "weight") \o Named(added, "weight")
    BY <1>4, NamedJoined
  <2> QED
    BY <1>3, <1>5, <2>1
<1>7. mine \in Seq(X) /\ ToSet(mine) = weighty
  BY <1>2, NamedElements
<1> HIDE DEF mine, weights, weighty
<1>8. EffectiveWeight(u, ep) = IF weights = <<>> THEN 1 ELSE weights[Len(weights)].value
  BY DEF EffectiveWeight, weights, text
<1>9. CASE ep.weight \in (0..256) \ {1}
  <2> DEFINE x == Directive("weight", ep.weight)
  <2>1. w = <<x>>
    <3> DEFINE v == ep.weight
    <3>1. v \in (0..256) \ {1}
      BY <1>9
    <3> HIDE DEF v
    <3>2. v # 1 /\ v >= 0 /\ v < 257
      BY <3>1
    <3> QED
      BY <3>2, Zenon DEF v, w, WeightOption, When
  <2>2. x.value = ep.weight
    BY DEF Directive
  <2> HIDE DEF x
  <2>3. weights = Append(mine, x)
    BY <1>6, <1>7, <2>1
  <2>4. weights # <<>> /\ weights[Len(weights)] = x
    BY <1>7, <2>3
  <2> QED
    BY <1>8, <1>9, <2>2, <2>4
<1>10. CASE ep.weight \notin (0..256) \ {1}
  <2>1. w = <<>>
    <3> DEFINE v == ep.weight
    <3>1. v \in Int /\ v \notin (0..256) \ {1}
      BY <1>10
    <3> HIDE DEF v
    <3>2. ~(v # 1 /\ v >= 0 /\ v < 257)
      BY <3>1
    <3> QED
      BY <3>2, Zenon DEF v, w, WeightOption, When
  <2>2. weights = mine
    BY <1>6, <1>7, <2>1, ConcatEmptySeq
  <2>3. CASE mine = <<>>
    <3>1. weighty = {}
      BY <1>7, <2>3 DEF ToSet
    <3> QED
      BY <1>8, <1>10, <2>2, <2>3, <3>1 DEF weighty, options
  <2>4. CASE mine # <<>>
    <3>1. mine[Len(mine)] \in weighty
      <4>1. Len(mine) \in DOMAIN mine
        BY <1>7, <2>4
      <4> QED
        BY <1>7, <4>1 DEF ToSet
    <3>2. EffectiveWeight(u, ep) \in {o.value : o \in weighty}
      BY <1>8, <2>2, <2>4, <3>1
    <3> QED
      BY <1>10, <3>2 DEF weighty, options
  <2> QED
    BY <2>3, <2>4
<1> QED
  BY <1>9, <1>10

\* A server has the weight of a rule, as its container is.
LEMMA WeightsWhenMerged == IInv /\ TextInv => WeightsAsRuled
<1> SUFFICES ASSUME IInv, TextInv, appended, NEW u \in Uuids, Len(Lines(ServerKey(Backend(u)))) <= 1,
                    NEW ep \in Servers(WrittenBackend(u))
             PROVE  LET leading == {r \in Taken : r.source = PortOf(u) /\ SamePath(WrittenBackend(u), r)}
                        behind(r) == {c \in ToSet(EndpointsOf[r.service]) : c.ip = ep.ip}
                        options == FlattenSeq(Lines(ServerKey(Backend(u))))
                        custom == {o.value : o \in {x \in ToSet(options) : x.name = "weight"}}
                        allowed(w) == IF w \in (0..256) \ {1} THEN {w}
                                      ELSE IF custom = {} THEN {1} ELSE custom
                    IN \E r \in leading : \E c \in behind(r) :
                         EffectiveWeight(u, ep) \in IF c.state = "stopping" THEN {0} ELSE allowed(r.weight)
  BY DEF WeightsAsRuled
<1> DEFINE p == PortOf(u)
           b == WrittenBackend(u)
           options == FlattenSeq(Lines(ServerKey(Backend(u))))
           custom == {o.value : o \in {x \in ToSet(options) : x.name = "weight"}}
<1>1. p \in ToSet(Ports) /\ b \in ToSet(frontends[p])
  BY WrittenPlaced
<1>2. PICK r \in OwnOf(Taken, p, b) : ep \in ToSet(Endpoints(r))
  <2>1. \A x \in Servers(b) : \E r \in OwnOf(Taken, p, b) : x \in ToSet(Endpoints(r))
    BY <1>1 DEF IInv, Merges, MergesOf, MadeOf
  <2> QED
    BY <2>1
<1>3. r \in Taken /\ r.source = p /\ SamePath(b, r) /\ r.weight \in Int /\ r.service \in DOMAIN Services
  BY <1>2, TakenOK DEF OwnOf, IInv, RuleOK, RuleFit
<1>4. PICK j \in DOMAIN EndpointsOf[r.service] : ep = Server(EndpointsOf[r.service][j], r)
  BY <1>2 DEF Endpoints, ToSet
<1> DEFINE c == EndpointsOf[r.service][j]
<1>5. c \in ToSet(EndpointsOf[r.service]) /\ c.ip = ep.ip
      /\ ep.weight = IF c.state = "stopping" THEN 0 ELSE r.weight
  BY <1>4 DEF Server, ToSet
<1>6. ep.weight \in Int
  BY <1>3, <1>5
<1>7. EffectiveWeight(u, ep) \in
        IF ep.weight \in (0..256) \ {1} THEN {ep.weight}
        ELSE IF custom = {} THEN {1} ELSE custom
  BY <1>6, WeightOfServer
<1> HIDE DEF c, custom
<1>8. EffectiveWeight(u, ep) \in
        IF c.state = "stopping" THEN {0}
        ELSE IF r.weight \in (0..256) \ {1} THEN {r.weight}
             ELSE IF custom = {} THEN {1} ELSE custom
  <2>1. CASE c.state = "stopping"
    <3>1. ep.weight = 0 /\ 0 \in (0..256) \ {1}
      BY <1>5, <2>1
    <3> QED
      BY <1>7, <2>1, <3>1
  <2>2. CASE c.state # "stopping"
    BY <1>5, <1>7, <2>2
  <2> QED
    BY <2>1, <2>2
<1> QED
  BY <1>3, <1>5, <1>8 DEF custom

-----------------------------------------------------------------------------
(* The theorems.                                                           *)

\* BuildCustomConfig comes last in BuildConfigFromMetadata and changes nothing of
\* what has been done before: all that holds of Spec holds of the whole.
THEOREM CustomConfigKeepsBackends == BuildSpec => Spec
<1>1. BuildInit => Init
  BY DEF BuildInit
<1>2. [BuildNext]_buildVars => [Next]_vars
  BY DEF BuildNext, buildVars, SkipBlank, OpenSection, ReadServerLine, ReadDirective, AppendDefaults
<1> QED
  BY <1>1, <1>2, PTL DEF BuildSpec, Spec

\* BuildCustomConfig and the template: every directive of the user's is written in
\* its section, in the order given, however many sections and lines there are.
THEOREM UserLinesWritten == BuildSpec => []CustomLinesWritten
BY SpecKeepsTextInv, WrittenWhenAppended, PTL

\* GetDefaultConfig and BuildCustomConfig: whatever the user writes and in however
\* many parts, a default of which the user has no line is written once, and one
\* that the user gives a value is not written.
THEOREM DefaultsYielding == BuildSpec => []DefaultsYield
BY SpecKeepsTextInv, YieldWhenAppended, PTL

\* BuildConfigFromMetadata, BuildCustomConfig and the template together: every
\* server has a weight that a rule and its container ask for, and none at all
\* when the container is stopping.
THEOREM WeightsRuled == BuildSpec => []WeightsAsRuled
<1>1. BuildSpec => []IInv
  BY CustomConfigKeepsBackends, SpecKeepsIInv, PTL
<1> QED
  BY <1>1, SpecKeepsTextInv, WeightsWhenMerged, PTL
=============================================================================
