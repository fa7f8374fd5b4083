----------------------------- MODULE FormatProofs -----------------------------
(***************************************************************************)
(* Proofs about the two parsers, SlurmOutput and JobRequest, for any       *)
(* records, scripts and requests. The parsers work through their texts     *)
(* with the folds of the community modules, which are recursive: NatWF and *)
(* FoldExists show what a fold is by induction on its length, over sets of *)
(* numbers, so that a parser becomes a run of single steps, and what it    *)
(* returns an invariant of that run.                                       *)
(***************************************************************************)
EXTENDS JobRequest, SlurmOutput, WellFoundedInduction, SequenceTheorems, FiniteSetTheorems, TLAPS

(* Induction over the natural numbers, for a set. *)
LEMMA NatWF == \A T \in SUBSET Nat : T # {} => \E x \in T : \A y \in T : x <= y
<1> SUFFICES ASSUME NEW T \in SUBSET Nat, T # {} PROVE \E x \in T : \A y \in T : x <= y
  OBVIOUS
<1> DEFINE R == {ss \in Nat \X Nat : ss[1] < ss[2]}
<1>0. IsWellFoundedOn(R, Nat)
  BY NatLessThanWellFounded, Zenon DEF OpToRel
<1>1. \E x \in T : \A y \in T : ~ (<<y, x>> \in R)
  <2> HIDE DEF R
  <2> QED BY WFMin, <1>0
<1>2. PICK x \in T : \A y \in T : ~ (<<y, x>> \in R)
  BY <1>1
<1>3. \A y \in T : ~(y < x)
  <2>1. ASSUME NEW y \in T, y < x PROVE FALSE
    <3>1. <<y, x>> \in Nat \X Nat /\ <<y, x>>[1] = y /\ <<y, x>>[2] = x
      OBVIOUS
    <3>2. <<y, x>> \in R
      BY <2>1, <3>1
    <3> QED
      BY <1>2, <3>2
  <2> QED
    BY <2>1
<1> QED
  BY <1>3

LEMMA NatInduct == ASSUME NEW S, 0 \in S, \A n \in Nat : n \in S => n + 1 \in S PROVE Nat \subseteq S
<1> SUFFICES ASSUME Nat \ S # {} PROVE FALSE
  OBVIOUS
<1>1. PICK x \in Nat \ S : \A y \in Nat \ S : x <= y
  BY NatWF
<1>2. x # 0 /\ x - 1 \in Nat
  BY <1>1
<1>3. x - 1 \in S
  BY <1>1, <1>2
<1> QED
  BY <1>1, <1>2, <1>3

LEMMA MaxIs == ASSUME NEW S, NEW m \in Int, m \in S, S \subseteq Int, \A k \in S : k <= m PROVE Max(S) = m
<1>1. \E x \in S : \A y \in S : x >= y
  <2>1. \A y \in S : m >= y
    OBVIOUS
  <2> QED
    BY <2>1
<1>2. Max(S) \in S /\ \A y \in S : Max(S) >= y
  BY <1>1, Zenon DEF Max
<1>3. Max(S) >= m /\ Max(S) <= m /\ Max(S) \in Int
  BY <1>2
<1> QED
  BY <1>3

LEMMA MaxOfSet ==
  \A n \in Nat : \A s \in SUBSET (1 .. n) : s # {} => Max(s) \in s /\ \A k \in s : k <= Max(s)
<1> DEFINE P == {n \in Nat : \A s \in SUBSET (1 .. n) : s # {} => \E m \in s : \A k \in s : k <= m}
<1>1. 0 \in P
  <2>1. \A s \in SUBSET (1 .. 0) : s = {}
    OBVIOUS
  <2> QED
    BY <2>1
<1>2. ASSUME NEW n \in Nat, n \in P PROVE n + 1 \in P
  <2> SUFFICES ASSUME NEW s \in SUBSET (1 .. n + 1), s # {} PROVE \E m \in s : \A k \in s : k <= m
    OBVIOUS
  <2>1. CASE n + 1 \in s
    BY <2>1
  <2>2. CASE n + 1 \notin s
    <3>1. s \in SUBSET (1 .. n)
      BY <2>2
    <3> QED
      BY <1>2, <3>1
  <2> QED
    BY <2>1, <2>2
<1> HIDE DEF P
<1>3. Nat \subseteq P
  BY <1>1, <1>2, NatInduct
<1> SUFFICES ASSUME NEW n \in Nat, NEW s \in SUBSET (1 .. n), s # {}
             PROVE  Max(s) \in s /\ \A k \in s : k <= Max(s)
  OBVIOUS
<1>4. PICK m \in s : \A k \in s : k <= m
  BY <1>3 DEF P
<1>5. Max(s) = m
  <2>1. m \in Int /\ s \subseteq Int
    OBVIOUS
  <2> QED
    BY <1>4, <2>1, MaxIs
<1> QED
  BY <1>4, <1>5

\* What the folds of the community modules are: the step of k, G[k], applied to
\* what comes before k.
IsFold(g, n, G, base) ==
  \A s \in SUBSET (1 .. n) : g[s] = IF s = {} THEN base ELSE G[Max(s)][g[s \ {Max(s)}]]

LEMMA FoldExists ==
  ASSUME NEW X, NEW base \in X
  PROVE  \A n \in Nat : \A G \in [1 .. n -> [X -> X]] : \E g \in [SUBSET (1 .. n) -> X] : IsFold(g, n, G, base)
<1> DEFINE P == {n \in Nat : \A G \in [1 .. n -> [X -> X]] : \E g \in [SUBSET (1 .. n) -> X] : IsFold(g, n, G, base)}
<1>1. 0 \in P
  <2> SUFFICES ASSUME NEW G \in [1 .. 0 -> [X -> X]] PROVE \E g \in [SUBSET (1 .. 0) -> X] : IsFold(g, 0, G, base)
    OBVIOUS
  <2>1. \A s \in SUBSET (1 .. 0) : s = {}
    OBVIOUS
  <2>2. [s \in SUBSET (1 .. 0) |-> base] \in [SUBSET (1 .. 0) -> X]
    OBVIOUS
  <2> QED
    BY <2>1, <2>2 DEF IsFold
<1>2. ASSUME NEW n \in Nat, n \in P PROVE n + 1 \in P
  <2>0. n + 1 \in Nat
    OBVIOUS
  <2> SUFFICES ASSUME NEW G \in [1 .. n + 1 -> [X -> X]] PROVE \E g \in [SUBSET (1 .. n + 1) -> X] : IsFold(g, n + 1, G, base)
    BY <2>0, Zenon
  <2>1. PICK H : H = [k \in 1 .. n |-> G[k]]
    OBVIOUS
  <2>2. H \in [1 .. n -> [X -> X]]
    BY <2>1
  <2>3. PICK h \in [SUBSET (1 .. n) -> X] : IsFold(h, n, H, base)
    BY <1>2, <2>2
  <2> DEFINE g == [s \in SUBSET (1 .. n + 1) |-> IF n + 1 \in s THEN G[n + 1][h[s \ {n + 1}]] ELSE h[s]]
  <2>4. \A s \in SUBSET (1 .. n + 1) : /\ s \ {n + 1} \in SUBSET (1 .. n)
                                       /\ n + 1 \notin s => s \in SUBSET (1 .. n)
    OBVIOUS
  <2>5. g \in [SUBSET (1 .. n + 1) -> X]
    BY <2>3, <2>4
  <2>6. ASSUME NEW s \in SUBSET (1 .. n + 1) PROVE g[s] = IF s = {} THEN base ELSE G[Max(s)][g[s \ {Max(s)}]]
    <3>1. CASE n + 1 \in s
      <4>1. Max(s) = n + 1
        <5>1. n + 1 \in Int /\ s \subseteq Int /\ \A k \in s : k <= n + 1
          OBVIOUS
        <5> QED
          BY <3>1, <5>1, MaxIs
      <4>2. s \ {n + 1} \in SUBSET (1 .. n + 1) /\ n + 1 \notin s \ {n + 1}
        OBVIOUS
      <4>3. g[s \ {n + 1}] = h[s \ {n + 1}]
        BY <4>2
      <4> QED
        BY <3>1, <4>1, <4>3
    <3>2. CASE n + 1 \notin s
      <4>1. s \in SUBSET (1 .. n) /\ g[s] = h[s]
        BY <2>4, <3>2
      <4>2. CASE s = {}
        BY <2>3, <4>1, <4>2 DEF IsFold
      <4>3. CASE s # {}
        <5>1. Max(s) \in s /\ Max(s) \in 1 .. n
          BY <4>1, <4>3, MaxOfSet
        <5>2. h[s] = H[Max(s)][h[s \ {Max(s)}]]
          BY <2>3, <4>1, <4>3 DEF IsFold
        <5>3. H[Max(s)] = G[Max(s)]
          BY <2>1, <5>1
        <5>4. s \ {Max(s)} \in SUBSET (1 .. n + 1) /\ n + 1 \notin s \ {Max(s)}
          BY <3>2
        <5>5. g[s \ {Max(s)}] = h[s \ {Max(s)}]
          BY <5>4
        <5> QED
          BY <4>1, <4>3, <5>2, <5>3, <5>5
      <4> QED
        BY <4>2, <4>3
    <3> QED
      BY <3>1, <3>2
  <2> HIDE DEF g
  <2>7. IsFold(g, n + 1, G, base)
    BY <2>6 DEF IsFold
  <2> QED
    BY <2>5, <2>7
<1> HIDE DEF P
<1>3. Nat \subseteq P
  BY <1>1, <1>2, NatInduct
<1> QED
  BY <1>3 DEF P

Texts(T) == Seq(Seq(T)) \ {<<>>}

SplitStep(parts, token, sep) ==
  IF token = sep THEN Append(parts, <<>>) ELSE [parts EXCEPT ![Len(parts)] = Append(@, token)]

SplitSteps(s, sep, it) ==
  [d \in SUBSET DOMAIN s |->
     IF d = {} THEN <<<<>>>> ELSE SplitStep(it[d \ {Max(d)}], s[Max(d)], sep)]

LEMMA SplitIs ==
  ASSUME NEW s, NEW sep
  PROVE  Split(s, sep) = (CHOOSE it : it = SplitSteps(s, sep, it))[DOMAIN s]
  BY DEF Split, FoldLeft, MapThenFoldSet, SplitStep, SplitSteps

LEMMA SplitStepType ==
  ASSUME NEW T, NEW parts \in Texts(T), NEW token \in T, NEW sep PROVE SplitStep(parts, token, sep) \in Texts(T)
<1>1. parts \in Seq(Seq(T)) /\ Len(parts) \in 1 .. Len(parts) /\ Len(parts) \in Nat
  BY LenProperties, EmptySeq DEF Texts
<1>2. parts[Len(parts)] \in Seq(T)
  BY <1>1, ElementOfSeq
<1>3. Append(parts[Len(parts)], token) \in Seq(T)
  BY <1>2, AppendProperties
<1>4. PICK p : p = [parts EXCEPT ![Len(parts)] = Append(parts[Len(parts)], token)]
  OBVIOUS
<1>5. p \in Seq(Seq(T)) /\ Len(p) = Len(parts)
  BY <1>1, <1>3, <1>4, ExceptSeq
<1>6. p # <<>>
  BY <1>1, <1>5, EmptySeq
<1>7. Append(parts, <<>>) \in Seq(Seq(T)) /\ Append(parts, <<>>) # <<>>
  BY <1>1, AppendProperties, EmptySeq
<1> QED
  BY <1>4, <1>5, <1>6, <1>7 DEF SplitStep, Texts

LEMMA InitialSets ==
  ASSUME NEW k \in Nat, k # 0 PROVE 1 .. k # {} /\ Max(1 .. k) = k /\ (1 .. k) \ {k} = 1 .. k - 1
<1>1. Max(1 .. k) = k
  <2>1. k \in Int /\ k \in 1 .. k /\ 1 .. k \subseteq Int /\ \A j \in 1 .. k : j <= k
    OBVIOUS
  <2> QED
    BY <2>1, MaxIs
<1> QED
  BY <1>1

\* v[k] is what Split has after k tokens.
SplitRun(T, s, sep, v) ==
  /\ v \in [0 .. Len(s) -> Texts(T)] /\ v[0] = <<<<>>>> /\ Split(s, sep) = v[Len(s)]
  /\ \A k \in 1 .. Len(s) : v[k] = SplitStep(v[k - 1], s[k], sep)

\* Split works through the tokens from the left.
LEMMA SplitFold ==
  ASSUME NEW T, NEW s \in Seq(T), NEW sep
  PROVE  \E v : SplitRun(T, s, sep, v)
<1> DEFINE n == Len(s)
           G == [k \in 1 .. n |-> [p \in Texts(T) |-> SplitStep(p, s[k], sep)]]
<1>1. n \in Nat /\ DOMAIN s = 1 .. n /\ \A k \in 1 .. n : s[k] \in T
  BY LenProperties, ElementOfSeq
<1>2. G \in [1 .. n -> [Texts(T) -> Texts(T)]]
  BY <1>1, SplitStepType
<1>3. <<<<>>>> \in Texts(T)
  <2>1. <<>> \in Seq(T)
    BY EmptySeq
  <2> QED
    BY <2>1 DEF Texts
<1>4. PICK g \in [SUBSET (1 .. n) -> Texts(T)] :
         IsFold(g, n, G, <<<<>>>>)
  <2> HIDE DEF G, n
  <2> QED
    BY <1>1, <1>2, <1>3, FoldExists
<1>5. g = SplitSteps(s, sep, g)
  <2>1. ASSUME NEW d \in SUBSET (1 .. n), d # {} PROVE G[Max(d)][g[d \ {Max(d)}]] = SplitStep(g[d \ {Max(d)}], s[Max(d)], sep)
    <3>1. Max(d) \in 1 .. n /\ d \ {Max(d)} \in SUBSET (1 .. n)
      BY <1>1, <2>1, MaxOfSet
    <3> QED
      BY <3>1
  <2>2. \A d \in SUBSET (1 .. n) : g[d] = IF d = {} THEN <<<<>>>> ELSE SplitStep(g[d \ {Max(d)}], s[Max(d)], sep)
    BY <1>4, <2>1 DEF IsFold
  <2> HIDE DEF G, n
  <2> QED
    BY <1>1, <2>2 DEF SplitSteps
<1>6. PICK it : it = SplitSteps(s, sep, it) /\ Split(s, sep) = it[DOMAIN s]
  <2>1. PICK it : it = CHOOSE x : x = SplitSteps(s, sep, x)
    OBVIOUS
  <2>2. it = SplitSteps(s, sep, it)
    BY <1>5, <2>1, Zenon
  <2> QED
    BY <2>1, <2>2, SplitIs, Zenon
<1> HIDE DEF G, n
<1>7. \A d \in SUBSET (1 .. n) : it[d] = IF d = {} THEN <<<<>>>> ELSE SplitStep(it[d \ {Max(d)}], s[Max(d)], sep)
  BY <1>1, <1>6 DEF SplitSteps
<1> DEFINE v == [k \in 0 .. n |-> it[1 .. k]]
<1>8. v[0] = <<<<>>>>
  <2>1. 0 \in 0 .. n /\ 1 .. 0 = {} /\ {} \in SUBSET (1 .. n)
    BY <1>1
  <2> QED
    BY <1>7, <2>1
<1>9. ASSUME NEW k \in 1 .. n PROVE v[k] = SplitStep(v[k - 1], s[k], sep)
  <2>1. 1 .. k \in SUBSET (1 .. n) /\ 1 .. k # {} /\ Max(1 .. k) = k /\ (1 .. k) \ {k} = 1 .. k - 1
    BY <1>1, InitialSets
  <2>2. it[1 .. k] = SplitStep(it[1 .. k - 1], s[k], sep)
    BY <1>7, <2>1
  <2> QED
    BY <1>1, <2>2
<1>10. v \in [0 .. n -> Texts(T)]
  <2> DEFINE P == {k \in Nat : k <= n => v[k] \in Texts(T)}
  <2> HIDE DEF v
  <2>1. 0 \in P
    BY <1>3, <1>8
  <2>2. ASSUME NEW k \in Nat, k \in P PROVE k + 1 \in P
    <3> SUFFICES ASSUME k + 1 <= n PROVE v[k + 1] \in Texts(T)
      OBVIOUS
    <3>1. k + 1 \in 1 .. n /\ v[k] \in Texts(T)
      BY <1>1, <2>2
    <3> QED
      BY <1>1, <1>9, <3>1, SplitStepType
  <2> HIDE DEF P
  <2>3. Nat \subseteq P
    BY <2>1, <2>2, NatInduct
  <2>4. \A k \in 0 .. n : v[k] \in Texts(T)
    BY <1>1, <2>3 DEF P
  <2> QED
    BY <2>4 DEF v
<1>11. Split(s, sep) = v[n]
  BY <1>1, <1>6
<1> HIDE DEF v
<1>12. SplitRun(T, s, sep, v)
  BY <1>8, <1>9, <1>10, <1>11 DEF n, SplitRun
<1> QED
  BY <1>12

LEMMA SplitEmpty == \A sep : Split(<<>>, sep) = <<<<>>>>
<1> SUFFICES ASSUME NEW sep PROVE Split(<<>>, sep) = <<<<>>>>
  OBVIOUS
<1>1. <<>> \in Seq({}) /\ Len(<<>>) = 0
  BY EmptySeq
<1>2. \E v : SplitRun({}, <<>>, sep, v)
  BY <1>1, SplitFold
<1> QED
  BY <1>1, <1>2, Zenon DEF SplitRun

LEMMA SplitAppend ==
  ASSUME NEW T, NEW s \in Seq(T), NEW token \in T, NEW sep
  PROVE  /\ Split(s, sep) \in Texts(T)
         /\ Split(Append(s, token), sep) = SplitStep(Split(s, sep), token, sep)
<1> DEFINE n == Len(s)
           a == Append(s, token)
<1>1. n \in Nat /\ a \in Seq(T) /\ Len(a) = n + 1 /\ a[n + 1] = token /\ \A k \in 1 .. n : a[k] = s[k]
  BY LenProperties, AppendProperties
<1>2. PICK v : SplitRun(T, s, sep, v)
  BY SplitFold
<1> HIDE DEF a
<1>3. PICK w : SplitRun(T, a, sep, w)
  BY <1>1, SplitFold
<1>10. /\ v \in [0 .. n -> Texts(T)] /\ v[0] = <<<<>>>> /\ Split(s, sep) = v[n]
       /\ \A k \in 1 .. n : v[k] = SplitStep(v[k - 1], s[k], sep)
  BY <1>2, Zenon DEF SplitRun
<1>11. /\ w \in [0 .. n + 1 -> Texts(T)] /\ w[0] = <<<<>>>> /\ Split(a, sep) = w[n + 1]
       /\ \A k \in 1 .. n + 1 : w[k] = SplitStep(w[k - 1], a[k], sep)
  BY <1>1, <1>3, Zenon DEF SplitRun
<1> HIDE DEF n
<1> DEFINE P == {k \in Nat : k <= n => v[k] = w[k]}
<1>4. 0 \in P
  BY <1>10, <1>11
<1>5. ASSUME NEW k \in Nat, k \in P PROVE k + 1 \in P
  <2> SUFFICES ASSUME k + 1 <= n PROVE v[k + 1] = w[k + 1]
    OBVIOUS
  <2>1. k + 1 \in 1 .. n /\ k + 1 \in 1 .. n + 1 /\ k + 1 - 1 = k /\ v[k] = w[k]
    BY <1>1, <1>5
  <2>2. v[k + 1] = SplitStep(v[k], s[k + 1], sep)
    BY <1>10, <2>1
  <2>3. w[k + 1] = SplitStep(w[k], a[k + 1], sep)
    BY <1>11, <2>1
  <2> QED
    BY <1>1, <2>1, <2>2, <2>3
<1> HIDE DEF P
<1>6. Nat \subseteq P
  BY <1>4, <1>5, NatInduct
<1>7. v[n] = w[n]
  BY <1>1, <1>6 DEF P
<1>8. w[n + 1] = SplitStep(w[n], a[n + 1], sep)
  <2>1. n + 1 \in 1 .. n + 1 /\ (n + 1) - 1 = n
    BY <1>1
  <2>2. w[n + 1] = SplitStep(w[(n + 1) - 1], a[n + 1], sep)
    BY <1>11, <2>1, Zenon
  <2> QED
    BY <2>1, <2>2, Zenon
<1> QED
  BY <1>1, <1>10, <1>11, <1>7, <1>8 DEF a

\* What a token adds, by the last part.
LEMMA SplitStepIs ==
  ASSUME NEW T, NEW p \in Seq(Seq(T)), NEW q \in Seq(T), NEW token \in T, NEW sep
  PROVE  SplitStep(Append(p, q), token, sep) =
           IF token = sep THEN Append(Append(p, q), <<>>) ELSE Append(p, Append(q, token))
<1> DEFINE a == Append(p, q)
           b == Append(p, Append(q, token))
<1>1. CASE token = sep
  BY <1>1 DEF SplitStep
<1>2. CASE token # sep
  <2>1. Append(q, token) \in Seq(T)
    BY AppendProperties
  <2>2. /\ a \in Seq(Seq(T)) /\ Len(a) = Len(p) + 1 /\ a[Len(p) + 1] = q
        /\ \A k \in 1 .. Len(p) : a[k] = p[k]
    BY AppendProperties
  <2>3. /\ b \in Seq(Seq(T)) /\ Len(b) = Len(p) + 1 /\ b[Len(p) + 1] = Append(q, token)
        /\ \A k \in 1 .. Len(p) : b[k] = p[k]
    BY <2>1, AppendProperties
  <2>4. Len(p) \in Nat
    BY LenProperties
  <2>5. PICK c : c = [a EXCEPT ![Len(a)] = Append(q, token)]
    OBVIOUS
  <2>6. SplitStep(a, token, sep) = c
    BY <1>2, <2>2, <2>5 DEF SplitStep
  <2> HIDE DEF a, b
  <2>7. c \in Seq(Seq(T)) /\ Len(c) = Len(a) /\ \A k \in 1 .. Len(a) : c[k] = IF k = Len(a) THEN Append(q, token) ELSE a[k]
    <3>1. Len(a) \in 1 .. Len(a)
      BY <2>2, <2>4
    <3> QED
      BY <2>1, <2>2, <2>5, <3>1, ExceptSeq
  <2>8. \A k \in 1 .. Len(c) : c[k] = b[k]
    <3> SUFFICES ASSUME NEW k \in 1 .. Len(c) PROVE c[k] = b[k]
      OBVIOUS
    <3>1. CASE k = Len(p) + 1
      BY <2>2, <2>3, <2>7, <3>1
    <3>2. CASE k # Len(p) + 1
      <4>1. k \in 1 .. Len(p)
        BY <2>2, <2>4, <2>7, <3>2
      <4> QED
        BY <2>2, <2>3, <2>4, <2>7, <3>2, <4>1
    <3> QED
      BY <3>1, <3>2
  <2>9. c = b
    BY <2>2, <2>3, <2>7, <2>8, SeqEqual
  <2> QED
    BY <1>2, <2>6, <2>9 DEF a, b
<1> QED
  BY <1>1, <1>2

\* s splits into the parts p and the part q that is not ended.
SplitsTo(T, s, sep, p, q) ==
  s \in Seq(T) /\ p \in Seq(Seq(T)) /\ q \in Seq(T) /\ Split(s, sep) = Append(p, q)

LEMMA SplitsWord ==
  ASSUME NEW T, NEW s, NEW sep, NEW p, NEW q, SplitsTo(T, s, sep, p, q), NEW token \in T, token # sep
  PROVE  SplitsTo(T, Append(s, token), sep, p, Append(q, token))
<1>1. Split(Append(s, token), sep) = SplitStep(Append(p, q), token, sep)
  BY SplitAppend DEF SplitsTo
<1>2. SplitStep(Append(p, q), token, sep) = Append(p, Append(q, token))
  BY SplitStepIs DEF SplitsTo
<1> QED
  BY <1>1, <1>2, AppendProperties DEF SplitsTo

LEMMA SplitsSep ==
  ASSUME NEW T, NEW s, NEW sep \in T, NEW p, NEW q, SplitsTo(T, s, sep, p, q)
  PROVE  SplitsTo(T, Append(s, sep), sep, Append(p, q), <<>>)
<1>1. Split(Append(s, sep), sep) = SplitStep(Append(p, q), sep, sep)
  BY SplitAppend DEF SplitsTo
<1>2. SplitStep(Append(p, q), sep, sep) = Append(Append(p, q), <<>>)
  BY SplitStepIs DEF SplitsTo
<1> QED
  BY <1>1, <1>2, AppendProperties, EmptySeq DEF SplitsTo

LEMMA SplitsNone == \A T, sep : SplitsTo(T, <<>>, sep, <<>>, <<>>)
  BY SplitEmpty, EmptySeq DEF SplitsTo

LEMMA AppendIs ==
  \A S : \A s, t \in Seq(S) : \A x \in S : Len(t) = Len(s) + 1 /\ (\A k \in 1 .. Len(s) : t[k] = s[k]) /\ t[Len(s) + 1] = x
    => Append(s, x) = t
<1> SUFFICES ASSUME  NEW S, NEW s \in Seq(S), NEW x \in S, NEW t \in Seq(S), Len(t) = Len(s) + 1,
         \A k \in 1 .. Len(s) : t[k] = s[k], t[Len(s) + 1] = x
  PROVE  Append(s, x) = t
  OBVIOUS
<1>1. PICK a : a = Append(s, x)
  OBVIOUS
<1>2. a \in Seq(S) /\ Len(a) = Len(s) + 1 /\ a[Len(s) + 1] = x /\ \A k \in 1 .. Len(s) : a[k] = s[k]
  BY <1>1, AppendProperties
<1>3. \A k \in 1 .. Len(s) + 1 : a[k] = t[k]
  BY <1>2, LenProperties
<1>4. a = t
  BY <1>2, <1>3, SeqEqual
<1> QED
  BY <1>1, <1>4

LEMMA Tuple1 == \A a : Append(<<>>, a) = <<a>>
  OBVIOUS

LEMMA Tuple2 == \A a, b : Append(<<a>>, b) = <<a, b>>
<1> SUFFICES ASSUME NEW a, NEW b PROVE Append(<<a>>, b) = <<a, b>>
  OBVIOUS
<1>1. PICK S, p, q : S = {a, b} /\ p = <<a>> /\ q = <<a, b>>
  OBVIOUS
<1>2. p \in Seq(S) /\ q \in Seq(S) /\ b \in S
  BY <1>1
<1>3. Len(q) = Len(p) + 1 /\ (\A k \in 1 .. Len(p) : q[k] = p[k]) /\ q[Len(p) + 1] = b
  BY <1>1
<1>4. Append(p, b) = q
  BY <1>2, <1>3, AppendIs, Zenon
<1> QED
  BY <1>1, <1>4, Zenon

LEMMA Tuple3 == \A a, b, c : Append(<<a, b>>, c) = <<a, b, c>>
<1> SUFFICES ASSUME NEW a, NEW b, NEW c PROVE Append(<<a, b>>, c) = <<a, b, c>>
  OBVIOUS
<1>1. PICK S, p, q : S = {a, b, c} /\ p = <<a, b>> /\ q = <<a, b, c>>
  OBVIOUS
<1>2. p \in Seq(S) /\ q \in Seq(S) /\ c \in S
  BY <1>1
<1>3. Len(q) = Len(p) + 1 /\ (\A k \in 1 .. Len(p) : q[k] = p[k]) /\ q[Len(p) + 1] = c
  BY <1>1
<1>4. Append(p, c) = q
  BY <1>2, <1>3, AppendIs, Zenon
<1> QED
  BY <1>1, <1>4, Zenon

LEMMA Tuple4 == \A a, b, c, d : Append(<<a, b, c>>, d) = <<a, b, c, d>>
<1> SUFFICES ASSUME NEW a, NEW b, NEW c, NEW d PROVE Append(<<a, b, c>>, d) = <<a, b, c, d>>
  OBVIOUS
<1>1. PICK S, p, q : S = {a, b, c, d} /\ p = <<a, b, c>> /\ q = <<a, b, c, d>>
  OBVIOUS
<1>2. p \in Seq(S) /\ q \in Seq(S) /\ d \in S
  BY <1>1
<1>3. Len(q) = Len(p) + 1 /\ (\A k \in 1 .. Len(p) : q[k] = p[k]) /\ q[Len(p) + 1] = d
  BY <1>1
<1>4. Append(p, d) = q
  BY <1>2, <1>3, AppendIs, Zenon
<1> QED
  BY <1>1, <1>4, Zenon

LEMMA Tuple5 == \A a, b, c, d, e : Append(<<a, b, c, d>>, e) = <<a, b, c, d, e>>
<1> SUFFICES ASSUME NEW a, NEW b, NEW c, NEW d, NEW e PROVE Append(<<a, b, c, d>>, e) = <<a, b, c, d, e>>
  OBVIOUS
<1>1. PICK S, p, q : S = {a, b, c, d, e} /\ p = <<a, b, c, d>> /\ q = <<a, b, c, d, e>>
  OBVIOUS
<1>2. p \in Seq(S) /\ q \in Seq(S) /\ e \in S
  BY <1>1
<1>3. Len(q) = Len(p) + 1 /\ (\A k \in 1 .. Len(p) : q[k] = p[k]) /\ q[Len(p) + 1] = e
  BY <1>1
<1>4. Append(p, e) = q
  BY <1>2, <1>3, AppendIs, Zenon
<1> QED
  BY <1>1, <1>4, Zenon

LEMMA Tuple6 == \A a, b, c, d, e, f : Append(<<a, b, c, d, e>>, f) = <<a, b, c, d, e, f>>
<1> SUFFICES ASSUME NEW a, NEW b, NEW c, NEW d, NEW e, NEW f PROVE Append(<<a, b, c, d, e>>, f) = <<a, b, c, d, e, f>>
  OBVIOUS
<1>1. PICK S, p, q : S = {a, b, c, d, e, f} /\ p = <<a, b, c, d, e>> /\ q = <<a, b, c, d, e, f>>
  OBVIOUS
<1>2. p \in Seq(S) /\ q \in Seq(S) /\ f \in S
  BY <1>1
<1>3. Len(q) = Len(p) + 1 /\ (\A k \in 1 .. Len(p) : q[k] = p[k]) /\ q[Len(p) + 1] = f
  BY <1>1
<1>4. Append(p, f) = q
  BY <1>2, <1>3, AppendIs, Zenon
<1> QED
  BY <1>1, <1>4, Zenon

LEMMA Tuple7 == \A a, b, c, d, e, f, g : Append(<<a, b, c, d, e, f>>, g) = <<a, b, c, d, e, f, g>>
<1> SUFFICES ASSUME NEW a, NEW b, NEW c, NEW d, NEW e, NEW f, NEW g PROVE Append(<<a, b, c, d, e, f>>, g) = <<a, b, c, d, e, f, g>>
  OBVIOUS
<1>1. PICK S, p, q : S = {a, b, c, d, e, f, g} /\ p = <<a, b, c, d, e, f>> /\ q = <<a, b, c, d, e, f, g>>
  OBVIOUS
<1>2. p \in Seq(S) /\ q \in Seq(S) /\ g \in S
  BY <1>1
<1>3. Len(q) = Len(p) + 1 /\ (\A k \in 1 .. Len(p) : q[k] = p[k]) /\ q[Len(p) + 1] = g
  BY <1>1
<1>4. Append(p, g) = q
  BY <1>2, <1>3, AppendIs, Zenon
<1> QED
  BY <1>1, <1>4, Zenon

LEMMA SplitsOne ==
  ASSUME NEW T, NEW sep, NEW a \in T, a # sep PROVE SplitsTo(T, <<a>>, sep, <<>>, <<a>>)
<1>1. SplitsTo(T, Append(<<>>, a), sep, <<>>, Append(<<>>, a))
  BY SplitsNone, SplitsWord, Zenon
<1>2. Append(<<>>, a) = <<a>>
  BY Tuple1, Zenon
<1> QED
  BY <1>1, <1>2, Zenon

LEMMA SplitsTwo ==
  ASSUME NEW T, NEW sep \in T, NEW a \in T, NEW b \in T, a # sep, b # sep
  PROVE  SplitsTo(T, <<a, sep, b>>, sep, <<<<a>>>>, <<b>>)
<1>1. SplitsTo(T, Append(<<a>>, sep), sep, Append(<<>>, <<a>>), <<>>)
  BY SplitsOne, SplitsSep, Zenon
<1>2. Append(<<a>>, sep) = <<a, sep>> /\ Append(<<>>, <<a>>) = <<<<a>>>>
  BY Tuple1, Tuple2, Zenon
<1>3. SplitsTo(T, <<a, sep>>, sep, <<<<a>>>>, <<>>)
  BY <1>1, <1>2, Zenon
<1>4. SplitsTo(T, Append(<<a, sep>>, b), sep, <<<<a>>>>, Append(<<>>, b))
  BY <1>3, SplitsWord, Zenon
<1>5. Append(<<a, sep>>, b) = <<a, sep, b>> /\ Append(<<>>, b) = <<b>>
  BY Tuple1, Tuple3, Zenon
<1> QED
  BY <1>4, <1>5, Zenon

LEMMA SplitsThree ==
  ASSUME NEW T, NEW sep \in T, NEW a \in T, NEW b \in T, NEW c \in T, a # sep, b # sep, c # sep
  PROVE  SplitsTo(T, <<a, sep, b, sep, c>>, sep, <<<<a>>, <<b>>>>, <<c>>)
<1>1. SplitsTo(T, Append(<<a, sep, b>>, sep), sep, Append(<<<<a>>>>, <<b>>), <<>>)
  BY SplitsTwo, SplitsSep, Zenon
<1>2. Append(<<a, sep, b>>, sep) = <<a, sep, b, sep>> /\ Append(<<<<a>>>>, <<b>>) = <<<<a>>, <<b>>>>
  BY Tuple2, Tuple4, Zenon
<1>3. SplitsTo(T, <<a, sep, b, sep>>, sep, <<<<a>>, <<b>>>>, <<>>)
  BY <1>1, <1>2, Zenon
<1>4. SplitsTo(T, Append(<<a, sep, b, sep>>, c), sep, <<<<a>>, <<b>>>>, Append(<<>>, c))
  BY <1>3, SplitsWord, Zenon
<1>5. Append(<<a, sep, b, sep>>, c) = <<a, sep, b, sep, c>> /\ Append(<<>>, c) = <<c>>
  BY Tuple1, Tuple5, Zenon
<1> QED
  BY <1>4, <1>5, Zenon

LEMMA SplitsDays ==
  ASSUME NEW T, NEW sep \in T, NEW z \in T, NEW y \in T, NEW a \in T, NEW b \in T, NEW c \in T,
         z # sep, y # sep, a # sep, b # sep, c # sep
  PROVE  SplitsTo(T, <<z, y, a, sep, b, sep, c>>, sep, <<<<z, y, a>>, <<b>>>>, <<c>>)
<1>1. SplitsTo(T, Append(<<z>>, y), sep, <<>>, Append(<<z>>, y))
  BY SplitsOne, SplitsWord, Zenon
<1>2. Append(<<z>>, y) = <<z, y>>
  BY Tuple2, Zenon
<1>3. SplitsTo(T, <<z, y>>, sep, <<>>, <<z, y>>)
  BY <1>1, <1>2, Zenon
<1>4. SplitsTo(T, Append(<<z, y>>, a), sep, <<>>, Append(<<z, y>>, a))
  BY <1>3, SplitsWord, Zenon
<1>5. Append(<<z, y>>, a) = <<z, y, a>>
  BY Tuple3, Zenon
<1>6. SplitsTo(T, <<z, y, a>>, sep, <<>>, <<z, y, a>>)
  BY <1>4, <1>5, Zenon
<1>7. SplitsTo(T, Append(<<z, y, a>>, sep), sep, Append(<<>>, <<z, y, a>>), <<>>)
  BY <1>6, SplitsSep, Zenon
<1>8. Append(<<z, y, a>>, sep) = <<z, y, a, sep>> /\ Append(<<>>, <<z, y, a>>) = <<<<z, y, a>>>>
  BY Tuple1, Tuple4, Zenon
<1>9. SplitsTo(T, <<z, y, a, sep>>, sep, <<<<z, y, a>>>>, <<>>)
  BY <1>7, <1>8, Zenon
<1>10. SplitsTo(T, Append(<<z, y, a, sep>>, b), sep, <<<<z, y, a>>>>, Append(<<>>, b))
  BY <1>9, SplitsWord, Zenon
<1>11. Append(<<z, y, a, sep>>, b) = <<z, y, a, sep, b>> /\ Append(<<>>, b) = <<b>>
  BY Tuple1, Tuple5, Zenon
<1>12. SplitsTo(T, <<z, y, a, sep, b>>, sep, <<<<z, y, a>>>>, <<b>>)
  BY <1>10, <1>11, Zenon
<1>13. SplitsTo(T, Append(<<z, y, a, sep, b>>, sep), sep, Append(<<<<z, y, a>>>>, <<b>>), <<>>)
  BY <1>12, SplitsSep, Zenon
<1>14. Append(<<z, y, a, sep, b>>, sep) = <<z, y, a, sep, b, sep>> /\ Append(<<<<z, y, a>>>>, <<b>>) = <<<<z, y, a>>, <<b>>>>
  BY Tuple2, Tuple6, Zenon
<1>15. SplitsTo(T, <<z, y, a, sep, b, sep>>, sep, <<<<z, y, a>>, <<b>>>>, <<>>)
  BY <1>13, <1>14, Zenon
<1>16. SplitsTo(T, Append(<<z, y, a, sep, b, sep>>, c), sep, <<<<z, y, a>>, <<b>>>>, Append(<<>>, c))
  BY <1>15, SplitsWord, Zenon
<1>17. Append(<<z, y, a, sep, b, sep>>, c) = <<z, y, a, sep, b, sep, c>> /\ Append(<<>>, c) = <<c>>
  BY Tuple1, Tuple7, Zenon
<1> QED
  BY <1>16, <1>17, Zenon

LEMMA SplitOne == \A sep, a : a # sep => Split(<<a>>, sep) = <<<<a>>>>
<1> SUFFICES ASSUME NEW sep, NEW a, a # sep PROVE Split(<<a>>, sep) = <<<<a>>>>
  OBVIOUS
<1>1. SplitsTo({a}, <<a>>, sep, <<>>, <<a>>)
  <2>1. a \in {a}
    OBVIOUS
  <2> QED
    BY <2>1, SplitsOne, Zenon
<1>2. Append(<<>>, <<a>>) = <<<<a>>>>
  BY Tuple1, Zenon
<1> QED
  BY <1>1, <1>2, Zenon DEF SplitsTo

LEMMA SplitTwo == \A sep, a, b : a # sep /\ b # sep => Split(<<a, sep, b>>, sep) = <<<<a>>, <<b>>>>
<1> SUFFICES ASSUME NEW sep, NEW a, NEW b, a # sep, b # sep PROVE Split(<<a, sep, b>>, sep) = <<<<a>>, <<b>>>>
  OBVIOUS
<1>1. PICK T : sep \in T /\ a \in T /\ b \in T
  <2>1. sep \in {sep, a, b} /\ a \in {sep, a, b} /\ b \in {sep, a, b}
    OBVIOUS
  <2> QED
    BY <2>1, Zenon
<1>2. SplitsTo(T, <<a, sep, b>>, sep, <<<<a>>>>, <<b>>)
  BY <1>1, SplitsTwo, Zenon
<1>3. Append(<<<<a>>>>, <<b>>) = <<<<a>>, <<b>>>>
  BY Tuple2, Zenon
<1> QED
  BY <1>2, <1>3, Zenon DEF SplitsTo

LEMMA SplitThree ==
  \A sep, a, b, c : a # sep /\ b # sep /\ c # sep =>
    Split(<<a, sep, b, sep, c>>, sep) = <<<<a>>, <<b>>, <<c>>>>
<1> SUFFICES ASSUME NEW sep, NEW a, NEW b, NEW c, a # sep, b # sep, c # sep
             PROVE  Split(<<a, sep, b, sep, c>>, sep) = <<<<a>>, <<b>>, <<c>>>>
  OBVIOUS
<1>1. PICK T : sep \in T /\ a \in T /\ b \in T /\ c \in T
  <2>1. sep \in {sep, a, b, c} /\ a \in {sep, a, b, c} /\ b \in {sep, a, b, c} /\ c \in {sep, a, b, c}
    OBVIOUS
  <2> QED
    BY <2>1, Zenon
<1>2. SplitsTo(T, <<a, sep, b, sep, c>>, sep, <<<<a>>, <<b>>>>, <<c>>)
  BY <1>1, SplitsThree, Zenon
<1>3. Append(<<<<a>>, <<b>>>>, <<c>>) = <<<<a>>, <<b>>, <<c>>>>
  BY Tuple3, Zenon
<1> QED
  BY <1>2, <1>3, Zenon DEF SplitsTo

LEMMA SplitDays ==
  \A sep, z, y, a, b, c : z # sep /\ y # sep /\ a # sep /\ b # sep /\ c # sep =>
    Split(<<z, y, a, sep, b, sep, c>>, sep) = <<<<z, y, a>>, <<b>>, <<c>>>>
<1> SUFFICES ASSUME NEW sep, NEW z, NEW y, NEW a, NEW b, NEW c, z # sep, y # sep, a # sep, b # sep, c # sep
             PROVE  Split(<<z, y, a, sep, b, sep, c>>, sep) = <<<<z, y, a>>, <<b>>, <<c>>>>
  OBVIOUS
<1>1. PICK T : sep \in T /\ z \in T /\ y \in T /\ a \in T /\ b \in T /\ c \in T
  <2>1. PICK T : T = {sep, z, y, a, b, c}
    OBVIOUS
  <2>2. sep \in T /\ z \in T /\ y \in T /\ a \in T /\ b \in T /\ c \in T
    BY <2>1
  <2> QED
    BY <2>2, Zenon
<1>2. SplitsTo(T, <<z, y, a, sep, b, sep, c>>, sep, <<<<z, y, a>>, <<b>>>>, <<c>>)
  BY <1>1, SplitsDays, Zenon
<1>3. Append(<<<<z, y, a>>, <<b>>>>, <<c>>) = <<<<z, y, a>>, <<b>>, <<c>>>>
  BY Tuple3, Zenon
<1> QED
  BY <1>2, <1>3, Zenon DEF SplitsTo

-----------------------------------------------------------------------------
(* Sums. *)

SumSteps(w, n, it) == [d \in SUBSET (1 .. n) |-> IF d = {} THEN 0 ELSE it[d \ {Max(d)}] + w[Max(d)]]

\* r is the sum of w[1] to w[n].
IsSum(w, n, r) ==
  \E v \in [0 .. n -> Int] : v[0] = 0 /\ r = v[n] /\ \A k \in 1 .. n : v[k] = v[k - 1] + w[k]

LEMMA SumExists ==
  ASSUME NEW n \in Nat, NEW w \in [1 .. n -> Int] PROVE \E g : g = SumSteps(w, n, g)
<1> DEFINE G == [k \in 1 .. n |-> [x \in Int |-> x + w[k]]]
<1>1. G \in [1 .. n -> [Int -> Int]] /\ 0 \in Int
  OBVIOUS
<1>2. PICK g \in [SUBSET (1 .. n) -> Int] : IsFold(g, n, G, 0)
  <2> HIDE DEF G
  <2> QED
    BY <1>1, FoldExists
<1>3. ASSUME NEW d \in SUBSET (1 .. n), d # {} PROVE G[Max(d)][g[d \ {Max(d)}]] = g[d \ {Max(d)}] + w[Max(d)]
  <2>1. Max(d) \in 1 .. n /\ d \ {Max(d)} \in SUBSET (1 .. n)
    BY <1>3, MaxOfSet
  <2> QED
    BY <2>1
<1> HIDE DEF G
<1>4. \A d \in SUBSET (1 .. n) : g[d] = IF d = {} THEN 0 ELSE g[d \ {Max(d)}] + w[Max(d)]
  BY <1>2, <1>3 DEF IsFold
<1>5. g = SumSteps(w, n, g)
  BY <1>4 DEF SumSteps
<1> QED
  BY <1>5

LEMMA SumFold ==
  ASSUME NEW n \in Nat, NEW w \in [1 .. n -> Int], NEW it, it = SumSteps(w, n, it) PROVE IsSum(w, n, it[1 .. n])
<1>1. \A d \in SUBSET (1 .. n) : it[d] = IF d = {} THEN 0 ELSE it[d \ {Max(d)}] + w[Max(d)]
  BY DEF SumSteps
<1> DEFINE v == [k \in 0 .. n |-> it[1 .. k]]
<1>2. v[0] = 0
  <2>1. 0 \in 0 .. n /\ 1 .. 0 = {} /\ {} \in SUBSET (1 .. n)
    OBVIOUS
  <2> QED
    BY <1>1, <2>1
<1>3. ASSUME NEW k \in 1 .. n PROVE v[k] = v[k - 1] + w[k]
  <2>0. k \in Nat /\ k # 0 /\ 1 .. k \in SUBSET (1 .. n)
    OBVIOUS
  <2>1. 1 .. k \in SUBSET (1 .. n) /\ 1 .. k # {} /\ Max(1 .. k) = k /\ (1 .. k) \ {k} = 1 .. k - 1
    BY <2>0, InitialSets
  <2>2. it[1 .. k] = it[1 .. k - 1] + w[k]
    BY <1>1, <2>1
  <2> QED
    BY <2>2
<1>4. v \in [0 .. n -> Int]
  <2> DEFINE P == {k \in Nat : k <= n => v[k] \in Int}
  <2> HIDE DEF v
  <2>1. 0 \in P
    BY <1>2
  <2>2. ASSUME NEW k \in Nat, k \in P PROVE k + 1 \in P
    <3> SUFFICES ASSUME k + 1 <= n PROVE v[k + 1] \in Int
      OBVIOUS
    <3>1. k + 1 \in 1 .. n /\ v[k] \in Int
      BY <2>2
    <3> QED
      BY <1>3, <3>1
  <2> HIDE DEF P
  <2>3. Nat \subseteq P
    BY <2>1, <2>2, NatInduct
  <2>4. \A k \in 0 .. n : v[k] \in Int
    BY <2>3 DEF P
  <2> QED
    BY <2>4 DEF v
<1>5. it[1 .. n] = v[n]
  OBVIOUS
<1> HIDE DEF v
<1> QED
  BY <1>2, <1>3, <1>4, <1>5 DEF IsSum

LEMMA SumIsNat ==
  ASSUME NEW n \in Nat, NEW w \in [1 .. n -> Nat], NEW r, IsSum(w, n, r) PROVE r \in Nat
<1>1. PICK v \in [0 .. n -> Int] : v[0] = 0 /\ r = v[n] /\ \A k \in 1 .. n : v[k] = v[k - 1] + w[k]
  BY DEF IsSum
<1> DEFINE P == {k \in Nat : k <= n => v[k] \in Nat}
<1>2. 0 \in P
  BY <1>1
<1>3. ASSUME NEW k \in Nat, k \in P PROVE k + 1 \in P
  <2> SUFFICES ASSUME k + 1 <= n PROVE v[k + 1] \in Nat
    OBVIOUS
  <2>1. k + 1 \in 1 .. n /\ v[k] \in Nat
    BY <1>3
  <2> QED
    BY <1>1, <2>1
<1> HIDE DEF P
<1>4. Nat \subseteq P
  BY <1>2, <1>3, NatInduct
<1> QED
  BY <1>1, <1>4 DEF P

-----------------------------------------------------------------------------
(* Durations. *)

UnitSteps(units, numbers, indices, it) ==
  [d \in SUBSET DOMAIN indices |->
     IF d = {} THEN 0
     ELSE it[d \ {Max(d)}] + units[indices[Max(d)]] * ParseInt(numbers[indices[Max(d)]]).value]

LEMMA InUnitsFold ==
  ASSUME NEW units, NEW numbers, NEW indices, indices = [i \in DOMAIN numbers |-> i],
         \A i \in DOMAIN numbers : ParseInt(numbers[i]).ok
  PROVE  InUnits(units, numbers) =
           Duration((CHOOSE it : it = UnitSteps(units, numbers, indices, it))[DOMAIN indices])
<1>1. InUnits(units, numbers) =
        Duration(FoldLeftDomain(LAMBDA sum, i : sum + units[i] * ParseInt(numbers[i]).value, 0, numbers))
  BY DEF InUnits
<1>2. FoldLeftDomain(LAMBDA sum, i : sum + units[i] * ParseInt(numbers[i]).value, 0, numbers)
        = FoldLeft(LAMBDA sum, i : sum + units[i] * ParseInt(numbers[i]).value, 0, indices)
  BY DEF FoldLeftDomain
<1>3. FoldLeft(LAMBDA sum, i : sum + units[i] * ParseInt(numbers[i]).value, 0, indices)
        = (CHOOSE it : it = UnitSteps(units, numbers, indices, it))[DOMAIN indices]
  BY DEF FoldLeft, MapThenFoldSet, UnitSteps
<1>4. FoldLeftDomain(LAMBDA sum, i : sum + units[i] * ParseInt(numbers[i]).value, 0, numbers)
        = (CHOOSE it : it = UnitSteps(units, numbers, indices, it))[DOMAIN indices]
  BY <1>2, <1>3, Zenon
<1> QED
  BY <1>1, <1>4, Zenon

\* w[i] is what the i-th of n numbers counts in seconds.
Weights(units, numbers, n, w) ==
  /\ n \in Nat /\ DOMAIN numbers = 1 .. n /\ w \in [1 .. n -> Int]
  /\ \A i \in 1 .. n : ParseInt(numbers[i]).ok /\ units[i] * ParseInt(numbers[i]).value = w[i]

LEMMA InUnitsIs ==
  ASSUME NEW units, NEW numbers, NEW n, NEW w, Weights(units, numbers, n, w)
  PROVE  \E r : IsSum(w, n, r) /\ InUnits(units, numbers) = Duration(r)
<1>0. /\ n \in Nat /\ DOMAIN numbers = 1 .. n /\ w \in [1 .. n -> Int]
      /\ \A i \in 1 .. n : ParseInt(numbers[i]).ok /\ units[i] * ParseInt(numbers[i]).value = w[i]
  BY Zenon DEF Weights
<1>1. PICK indices : indices = [i \in DOMAIN numbers |-> i]
  OBVIOUS
<1>2. DOMAIN indices = 1 .. n /\ \A i \in 1 .. n : indices[i] = i
  BY <1>0, <1>1
<1>3. ASSUME NEW d \in SUBSET (1 .. n), d # {}
      PROVE  units[indices[Max(d)]] * ParseInt(numbers[indices[Max(d)]]).value = w[Max(d)]
  <2>1. Max(d) \in 1 .. n
    BY <1>0, <1>3, MaxOfSet
  <2>2. indices[Max(d)] = Max(d)
    BY <1>2, <2>1
  <2> QED
    BY <1>0, <2>1, <2>2, Zenon
<1>4. \A it : UnitSteps(units, numbers, indices, it) = SumSteps(w, n, it)
  <2> SUFFICES ASSUME NEW it PROVE UnitSteps(units, numbers, indices, it) = SumSteps(w, n, it)
    OBVIOUS
  <2>1. \A d \in SUBSET (1 .. n) :
          (IF d = {} THEN 0
           ELSE it[d \ {Max(d)}] + units[indices[Max(d)]] * ParseInt(numbers[indices[Max(d)]]).value)
          = IF d = {} THEN 0 ELSE it[d \ {Max(d)}] + w[Max(d)]
    BY <1>3, Zenon
  <2>2. [d \in SUBSET (1 .. n) |->
           IF d = {} THEN 0
           ELSE it[d \ {Max(d)}] + units[indices[Max(d)]] * ParseInt(numbers[indices[Max(d)]]).value]
        = [d \in SUBSET (1 .. n) |-> IF d = {} THEN 0 ELSE it[d \ {Max(d)}] + w[Max(d)]]
    BY <2>1, Zenon
  <2> QED
    BY <1>2, <2>2, Zenon DEF SumSteps, UnitSteps
<1>5. PICK it : it = CHOOSE x : x = UnitSteps(units, numbers, indices, x)
  OBVIOUS
<1>6. it = UnitSteps(units, numbers, indices, it)
  <2>1. \E g : g = UnitSteps(units, numbers, indices, g)
    BY <1>0, <1>4, SumExists, Zenon
  <2> QED
    BY <1>5, <2>1, Zenon
<1>7. IsSum(w, n, it[1 .. n])
  BY <1>0, <1>4, <1>6, SumFold, Zenon
<1>8. InUnits(units, numbers) = Duration(it[1 .. n])
  <2>1. \A i \in DOMAIN numbers : ParseInt(numbers[i]).ok
    BY <1>0, Zenon
  <2>2. InUnits(units, numbers) =
          Duration((CHOOSE x : x = UnitSteps(units, numbers, indices, x))[DOMAIN indices])
    BY <1>1, <2>1, InUnitsFold, Zenon
  <2> QED
    BY <1>2, <1>5, <2>2, Zenon
<1> QED
  BY <1>7, <1>8

LEMMA SumOfThree ==
  ASSUME NEW w \in [1 .. 3 -> Int], NEW r, IsSum(w, 3, r) PROVE r = w[1] + w[2] + w[3]
<1>1. PICK v \in [0 .. 3 -> Int] : v[0] = 0 /\ r = v[3] /\ \A k \in 1 .. 3 : v[k] = v[k - 1] + w[k]
  BY DEF IsSum
<1>2. v[1] = v[0] + w[1] /\ v[2] = v[1] + w[2] /\ v[3] = v[2] + w[3]
  BY <1>1
<1> QED
  BY <1>1, <1>2

LEMMA SumOfFour ==
  ASSUME NEW w \in [1 .. 4 -> Int], NEW r, IsSum(w, 4, r) PROVE r = w[1] + w[2] + w[3] + w[4]
<1>1. PICK v \in [0 .. 4 -> Int] : v[0] = 0 /\ r = v[4] /\ \A k \in 1 .. 4 : v[k] = v[k - 1] + w[k]
  BY DEF IsSum
<1>2. v[1] = v[0] + w[1] /\ v[2] = v[1] + w[2] /\ v[3] = v[2] + w[3] /\ v[4] = v[3] + w[4]
  BY <1>1
<1> QED
  BY <1>1, <1>2

LEMMA ParseNum == \A n \in Nat : ParseInt(<<Num(n)>>).ok /\ ParseInt(<<Num(n)>>).value = n
  BY DEF ParseInt, Num, IsNum, Parsed

LEMMA ClockInUnits ==
  ASSUME NEW h \in Nat, NEW m \in Nat, NEW s \in Nat
  PROVE  InUnits(<<Hour, Minute, 1>>, <<<<Num(h)>>, <<Num(m)>>, <<Num(s)>>>>) = Duration(3600 * h + 60 * m + s)
<1>0. 3 \in Nat
  OBVIOUS
<1> DEFINE wide == [i \in 1 .. 3 |-> IF i = 1 THEN 3600 * h ELSE IF i = 2 THEN 60 * m ELSE s]
<1>1. PICK w : w = wide
  <2> HIDE DEF wide
  <2> QED
    OBVIOUS
<1>9. PICK units, numbers : units = <<Hour, Minute, 1>> /\ numbers = <<<<Num(h)>>, <<Num(m)>>, <<Num(s)>>>>
  BY Zenon
<1>2. w \in [1 .. 3 -> Int] /\ w[1] = 3600 * h /\ w[2] = 60 * m /\ w[3] = s /\ DOMAIN numbers = 1 .. 3
  BY <1>1, <1>9
<1>3. units[1] = 3600 /\ units[2] = 60 /\ units[3] = 1
  BY <1>9 DEF Hour, Minute
<1>4. numbers[1] = <<Num(h)>> /\ numbers[2] = <<Num(m)>> /\ numbers[3] = <<Num(s)>>
  BY <1>9
<1>5. \A i \in 1 .. 3 : ParseInt(numbers[i]).ok /\ units[i] * ParseInt(numbers[i]).value = w[i]
  <2> SUFFICES ASSUME NEW i \in 1 .. 3 PROVE ParseInt(numbers[i]).ok /\ units[i] * ParseInt(numbers[i]).value = w[i]
    OBVIOUS
  <2>0. i = 1 \/ i = 2 \/ i = 3
    OBVIOUS
  <2>1. CASE i = 1
    <3>1. ParseInt(numbers[i]).ok /\ ParseInt(numbers[i]).value = h
      BY <1>4, <2>1, ParseNum, Zenon
    <3> QED
      BY <1>2, <1>3, <2>1, <3>1
  <2>2. CASE i = 2
    <3>1. ParseInt(numbers[i]).ok /\ ParseInt(numbers[i]).value = m
      BY <1>4, <2>2, ParseNum, Zenon
    <3> QED
      BY <1>2, <1>3, <2>2, <3>1
  <2>3. CASE i = 3
    <3>1. ParseInt(numbers[i]).ok /\ ParseInt(numbers[i]).value = s
      BY <1>4, <2>3, ParseNum, Zenon
    <3> QED
      BY <1>2, <1>3, <2>3, <3>1
  <2> QED
    BY <2>0, <2>1, <2>2, <2>3
<1>6. PICK r : IsSum(w, 3, r) /\ InUnits(units, numbers) = Duration(r)
  <2>1. Weights(units, numbers, 3, w)
    BY <1>2, <1>5, <1>0 DEF Weights
  <2> QED
    BY <2>1, InUnitsIs, Zenon
<1>7. r = 3600 * h + 60 * m + s
  BY <1>2, <1>6, SumOfThree
<1>8. InUnits(units, numbers) = Duration(3600 * h + 60 * m + s)
  BY <1>6, <1>7
<1> QED
  BY <1>8, <1>9

LEMMA DaysInUnits ==
  ASSUME NEW d \in Nat, NEW h \in Nat, NEW m \in Nat, NEW s \in Nat
  PROVE  InUnits(<<Day, Hour, Minute, 1>>, <<<<Num(d)>>, <<Num(h)>>, <<Num(m)>>, <<Num(s)>>>>)
           = Duration(86400 * d + 3600 * h + 60 * m + s)
<1>0. 4 \in Nat
  OBVIOUS
<1> DEFINE wide == [i \in 1 .. 4 |-> IF i = 1 THEN 86400 * d ELSE IF i = 2 THEN 3600 * h ELSE IF i = 3 THEN 60 * m ELSE s]
<1>1. PICK w : w = wide
  <2> HIDE DEF wide
  <2> QED
    OBVIOUS
<1>9. PICK units, numbers : units = <<Day, Hour, Minute, 1>> /\ numbers = <<<<Num(d)>>, <<Num(h)>>, <<Num(m)>>, <<Num(s)>>>>
  BY Zenon
<1>2. /\ w \in [1 .. 4 -> Int] /\ w[1] = 86400 * d /\ w[2] = 3600 * h /\ w[3] = 60 * m /\ w[4] = s
      /\ DOMAIN numbers = 1 .. 4
  BY <1>1, <1>9
<1>3. units[1] = 86400 /\ units[2] = 3600 /\ units[3] = 60 /\ units[4] = 1
  BY <1>9 DEF Day, Hour, Minute
<1>4. numbers[1] = <<Num(d)>> /\ numbers[2] = <<Num(h)>> /\ numbers[3] = <<Num(m)>> /\ numbers[4] = <<Num(s)>>
  BY <1>9
<1>5. \A i \in 1 .. 4 : ParseInt(numbers[i]).ok /\ units[i] * ParseInt(numbers[i]).value = w[i]
  <2> SUFFICES ASSUME NEW i \in 1 .. 4 PROVE ParseInt(numbers[i]).ok /\ units[i] * ParseInt(numbers[i]).value = w[i]
    OBVIOUS
  <2>0. i = 1 \/ i = 2 \/ i = 3 \/ i = 4
    OBVIOUS
  <2>1. CASE i = 1
    <3>1. ParseInt(numbers[i]).ok /\ ParseInt(numbers[i]).value = d
      BY <1>4, <2>1, ParseNum, Zenon
    <3> QED
      BY <1>2, <1>3, <2>1, <3>1
  <2>2. CASE i = 2
    <3>1. ParseInt(numbers[i]).ok /\ ParseInt(numbers[i]).value = h
      BY <1>4, <2>2, ParseNum, Zenon
    <3> QED
      BY <1>2, <1>3, <2>2, <3>1
  <2>3. CASE i = 3
    <3>1. ParseInt(numbers[i]).ok /\ ParseInt(numbers[i]).value = m
      BY <1>4, <2>3, ParseNum, Zenon
    <3> QED
      BY <1>2, <1>3, <2>3, <3>1
  <2>4. CASE i = 4
    <3>1. ParseInt(numbers[i]).ok /\ ParseInt(numbers[i]).value = s
      BY <1>4, <2>4, ParseNum, Zenon
    <3> QED
      BY <1>2, <1>3, <2>4, <3>1
  <2> QED
    BY <2>0, <2>1, <2>2, <2>3, <2>4
<1>6. PICK r : IsSum(w, 4, r) /\ InUnits(units, numbers) = Duration(r)
  <2>1. Weights(units, numbers, 4, w)
    BY <1>2, <1>5, <1>0 DEF Weights
  <2> QED
    BY <2>1, InUnitsIs, Zenon
<1>7. r = 86400 * d + 3600 * h + 60 * m + s
  BY <1>2, <1>6, SumOfFour
<1>8. InUnits(units, numbers) = Duration(86400 * d + 3600 * h + 60 * m + s)
  BY <1>6, <1>7
<1> QED
  BY <1>8, <1>9

LEMMA ClockArithmetic ==
  \A t \in Nat : /\ t < 86400 => 3600 * ((t % 86400) \div 3600) + 60 * ((t % 3600) \div 60) + (t % 60) = t
                 /\ 86400 * (t \div 86400) + 3600 * ((t % 86400) \div 3600) + 60 * ((t % 3600) \div 60) + (t % 60) = t
                 /\ t \div 86400 \in Nat /\ (t % 86400) \div 3600 \in Nat /\ (t % 3600) \div 60 \in Nat /\ t % 60 \in Nat
  OBVIOUS

LEMMA NumIs == \A n \in Nat : IsNum(Num(n)) /\ Num(n).num = n /\ Num(n).word = ""
  BY DEF Num, IsNum

LEMMA WordIs == \A w : Word(w).word = w
  BY DEF Word

LEMMA Separators ==
  /\ Dash # Colon /\ Unlimited # Colon /\ Unlimited # Dash
  /\ Dash.word = "-" /\ Colon.word = ":" /\ Comma.word = "," /\ Percent.word = "%" /\ Unlimited.word = "UNLIMITED"
<1>1. ":" # "-" /\ "UNLIMITED" # ":" /\ "UNLIMITED" # "-"
  BY Zenon
<1>2. Dash.word = "-" /\ Colon.word = ":" /\ Comma.word = "," /\ Percent.word = "%" /\ Unlimited.word = "UNLIMITED"
  BY WordIs, Zenon DEF Colon, Dash, Comma, Percent, Unlimited
<1> QED
  BY <1>1, <1>2, Zenon

LEMMA NumNotSeparator ==
  \A n \in Nat : /\ Num(n) # Colon /\ Num(n) # Dash /\ Num(n) # Comma
                 /\ Num(n) # Percent /\ Num(n) # Unlimited
<1>1. "" # ":" /\ "" # "-" /\ "" # "," /\ "" # "%" /\ "" # "UNLIMITED"
  BY Zenon
<1> QED
  BY <1>1, NumIs, Separators, Zenon

LEMMA ConcatIs ==
  \A S : \A s, t, u \in Seq(S) :
    /\ Len(u) = Len(s) + Len(t)
    /\ \A k \in 1 .. Len(s) : u[k] = s[k]
    /\ \A k \in 1 .. Len(t) : u[Len(s) + k] = t[k]
    => s \o t = u
<1> SUFFICES ASSUME NEW S, NEW s \in Seq(S), NEW t \in Seq(S), NEW u \in Seq(S), Len(u) = Len(s) + Len(t),
                    \A k \in 1 .. Len(s) : u[k] = s[k], \A k \in 1 .. Len(t) : u[Len(s) + k] = t[k]
             PROVE  s \o t = u
  BY Zenon
<1>0. Len(s) \in Nat /\ Len(t) \in Nat
  BY LenProperties
<1>1. PICK c : c = s \o t
  OBVIOUS
<1>2. /\ c \in Seq(S) /\ Len(c) = Len(s) + Len(t)
      /\ \A k \in 1 .. Len(s) + Len(t) : c[k] = IF k <= Len(s) THEN s[k] ELSE t[k - Len(s)]
  BY <1>1, ConcatProperties
<1>3. \A k \in 1 .. Len(c) : c[k] = u[k]
  <2> SUFFICES ASSUME NEW k \in 1 .. Len(c) PROVE c[k] = u[k]
    OBVIOUS
  <2>1. CASE k <= Len(s)
    BY <1>0, <1>2, <2>1
  <2>2. CASE ~(k <= Len(s))
    <3>1. k - Len(s) \in 1 .. Len(t) /\ Len(s) + (k - Len(s)) = k
      BY <1>0, <1>2, <2>2
    <3>2. u[Len(s) + (k - Len(s))] = t[k - Len(s)]
      BY <3>1, Zenon
    <3> QED
      BY <1>2, <2>2, <3>1, <3>2
  <2> QED
    BY <2>1, <2>2
<1>4. c = u
  BY <1>2, <1>3, SeqEqual
<1> QED
  BY <1>1, <1>4

LEMMA ConcatPairs == \A a, b, c, d : <<a, b>> \o <<c, d>> = <<a, b, c, d>>
<1> SUFFICES ASSUME NEW a, NEW b, NEW c, NEW d PROVE <<a, b>> \o <<c, d>> = <<a, b, c, d>>
  OBVIOUS
<1>1. PICK S, s, t, u : S = {a, b, c, d} /\ s = <<a, b>> /\ t = <<c, d>> /\ u = <<a, b, c, d>>
  OBVIOUS
<1>2. s \in Seq(S) /\ t \in Seq(S) /\ u \in Seq(S)
  BY <1>1
<1>3. Len(s) = 2 /\ Len(t) = 2 /\ Len(u) = Len(s) + Len(t)
  BY <1>1
<1>4. (\A k \in 1 .. Len(s) : u[k] = s[k]) /\ \A k \in 1 .. Len(t) : u[Len(s) + k] = t[k]
  <2>1. u[1] = a /\ u[2] = b /\ u[3] = c /\ u[4] = d /\ s[1] = a /\ s[2] = b /\ t[1] = c /\ t[2] = d
    BY <1>1
  <2> QED
    BY <1>3, <2>1
<1>5. s \o t = u
  BY <1>2, <1>3, <1>4, ConcatIs, Zenon
<1> QED
  BY <1>1, <1>5, Zenon

LEMMA ConcatClock == \A y, z, a, b, c, d, e : <<y, z>> \o <<a, b, c, d, e>> = <<y, z, a, b, c, d, e>>
<1> SUFFICES ASSUME NEW y, NEW z, NEW a, NEW b, NEW c, NEW d, NEW e
             PROVE  <<y, z>> \o <<a, b, c, d, e>> = <<y, z, a, b, c, d, e>>
  OBVIOUS
<1>1. PICK S, s, t, u : /\ S = {y, z, a, b, c, d, e} /\ s = <<y, z>> /\ t = <<a, b, c, d, e>>
                        /\ u = <<y, z, a, b, c, d, e>>
  OBVIOUS
<1>2. s \in Seq(S) /\ t \in Seq(S) /\ u \in Seq(S)
  BY <1>1
<1>3. Len(s) = 2 /\ Len(t) = 5 /\ Len(u) = Len(s) + Len(t)
  BY <1>1
<1>4. (\A k \in 1 .. Len(s) : u[k] = s[k]) /\ \A k \in 1 .. Len(t) : u[Len(s) + k] = t[k]
  <2>1. /\ u[1] = y /\ u[2] = z /\ u[3] = a /\ u[4] = b /\ u[5] = c /\ u[6] = d /\ u[7] = e /\ s[1] = y /\ s[2] = z
        /\ t[1] = a /\ t[2] = b /\ t[3] = c /\ t[4] = d /\ t[5] = e
    BY <1>1
  <2> QED
    BY <1>3, <2>1
<1>5. s \o t = u
  BY <1>2, <1>3, <1>4, ConcatIs, Zenon
<1> QED
  BY <1>1, <1>5, Zenon

LEMMA PartsCases ==
  ASSUME NEW parts, Len(parts) = 3
  PROVE  /\ Contains(parts[1], Dash) =>
              PartsDuration(parts) =
                InUnits(<<Day, Hour, Minute, 1>>, <<Before(parts[1], Dash), After(parts[1], Dash)>> \o Tail(parts))
         /\ ~Contains(parts[1], Dash) => PartsDuration(parts) = InUnits(<<Hour, Minute, 1>>, parts)
<1>1. ~(Len(parts) > 3) /\ Len(parts) <= 3
  BY SMT
<1>2. Units(TRUE, Len(parts)) = <<Day, Hour, Minute, 1>>
  BY SMT DEF Units
<1>3. Units(FALSE, Len(parts)) = <<Hour, Minute, 1>>
  BY SMT DEF Units
<1> QED
  BY <1>1, <1>2, <1>3, Zenon DEF PartsDuration

LEMMA LongText == \A s : Len(s) > 1 => s \notin {<<>>, <<Unlimited>>}
<1> SUFFICES ASSUME NEW s, Len(s) > 1, s = <<>> \/ s = <<Unlimited>> PROVE FALSE
  OBVIOUS
<1>1. ~(Len(<<>>) > 1) /\ ~(Len(<<Unlimited>>) > 1)
  OBVIOUS
<1> QED
  BY <1>1, Zenon

LEMMA ParseOfParts == \A s : Len(s) > 1 => ParseDuration(s) = PartsDuration(Split(s, Colon))
  BY LongText, Zenon DEF ParseDuration

LEMMA ClockParsed ==
  ASSUME NEW h \in Nat, NEW m \in Nat, NEW s \in Nat
  PROVE  ParseDuration(<<Num(h), Colon, Num(m), Colon, Num(s)>>) = Duration(3600 * h + 60 * m + s)
<1>1. PICK x, y, z : x = Num(h) /\ y = Num(m) /\ z = Num(s)
  OBVIOUS
<1>2. x # Colon /\ y # Colon /\ z # Colon /\ x # Dash
  BY <1>1, NumNotSeparator, Zenon
<1>3. PICK parts : parts = <<<<x>>, <<y>>, <<z>>>>
  OBVIOUS
<1>4. Len(parts) = 3 /\ parts[1] = <<x>>
  BY <1>3
<1>5. ~Contains(parts[1], Dash)
  BY <1>2, <1>4 DEF Contains
<1>6. PartsDuration(parts) = InUnits(<<Hour, Minute, 1>>, parts)
  BY <1>4, <1>5, PartsCases, Zenon
<1>7. InUnits(<<Hour, Minute, 1>>, parts) = Duration(3600 * h + 60 * m + s)
  BY <1>1, <1>3, ClockInUnits
<1>8. Split(<<x, Colon, y, Colon, z>>, Colon) = parts
  BY <1>2, <1>3, SplitThree, Zenon
<1>9. ParseDuration(<<x, Colon, y, Colon, z>>) = PartsDuration(parts)
  <2>1. Len(<<x, Colon, y, Colon, z>>) > 1
    OBVIOUS
  <2> QED
    BY <1>8, <2>1, ParseOfParts, Zenon
<1> QED
  BY <1>1, <1>6, <1>7, <1>9

LEMMA FirstAtIs ==
  ASSUME NEW s, NEW sep, NEW k \in 1 .. Len(s), s[k] = sep, \A i \in 1 .. k - 1 : s[i] # sep, Len(s) \in Nat
  PROVE  FirstAt(s, sep) = k
<1>1. \E i \in 1 .. Len(s) : s[i] = sep /\ \A j \in 1 .. (i - 1) : s[j] # sep
  OBVIOUS
<1>2. PICK f : f = FirstAt(s, sep)
  OBVIOUS
<1>3. f \in 1 .. Len(s) /\ s[f] = sep /\ \A j \in 1 .. (f - 1) : s[j] # sep
  BY <1>1, <1>2, Zenon DEF FirstAt
<1>4. f = k
  BY <1>3
<1> QED
  BY <1>2, <1>4

LEMMA OneOf ==
  ASSUME NEW S, NEW s \in Seq(S), NEW i \in 1 .. Len(s) PROVE SubSeq(s, i, i) = <<s[i]>>
<1>1. Len(s) \in Nat /\ s[i] \in S
  BY LenProperties, ElementOfSeq
<1>2. PICK a : a = SubSeq(s, i, i)
  OBVIOUS
<1>3. a \in Seq(S) /\ Len(a) = 1
  <2>1. \A k \in i .. i : s[k] \in S
    BY <1>1
  <2> QED
    BY <1>1, <1>2, <2>1, SubSeqProperties
<1>4. a[1] = s[i]
  BY <1>1, <1>2
<1>5. a = <<s[i]>>
  BY <1>3, <1>4
<1> QED
  BY <1>2, <1>5

LEMMA DaysParts ==
  ASSUME NEW d, NEW h, d # Dash
  PROVE  /\ Contains(<<d, Dash, h>>, Dash)
         /\ Before(<<d, Dash, h>>, Dash) = <<d>> /\ After(<<d, Dash, h>>, Dash) = <<h>>
<1>1. PICK s, S : s = <<d, Dash, h>> /\ S = {d, Dash, h}
  OBVIOUS
<1>2. Len(s) = 3 /\ s[1] = d /\ s[2] = Dash /\ s[3] = h /\ s \in Seq(S)
  BY <1>1
<1>3. FirstAt(s, Dash) = 2
  <2>1. 2 \in 1 .. Len(s) /\ Len(s) \in Nat
    BY <1>2
  <2>2. \A i \in 1 .. 2 - 1 : s[i] # Dash
    BY <1>2
  <2> QED
    BY <1>2, <2>1, <2>2, FirstAtIs
<1>4. SubSeq(s, 1, 1) = <<d>> /\ SubSeq(s, 3, 3) = <<h>>
  <2>1. 1 \in 1 .. Len(s) /\ 3 \in 1 .. Len(s)
    BY <1>2
  <2> QED
    BY <1>2, <2>1, OneOf, Zenon
<1>5. Contains(s, Dash)
  BY <1>2 DEF Contains
<1>6. 2 - 1 = 1 /\ 2 + 1 = 3
  OBVIOUS
<1>7. Before(s, Dash) = <<d>> /\ After(s, Dash) = <<h>>
  BY <1>2, <1>3, <1>4, <1>6, Zenon DEF Before, After
<1> QED
  BY <1>1, <1>5, <1>7

LEMMA TailOfThree == \A a, b, c : Tail(<<a, b, c>>) = <<b, c>>
  OBVIOUS

LEMMA DaysParsed ==
  ASSUME NEW d \in Nat, NEW h \in Nat, NEW m \in Nat, NEW s \in Nat
  PROVE  ParseDuration(<<Num(d), Dash, Num(h), Colon, Num(m), Colon, Num(s)>>)
           = Duration(86400 * d + 3600 * h + 60 * m + s)
<1>1. PICK w, x, y, z : w = Num(d) /\ x = Num(h) /\ y = Num(m) /\ z = Num(s)
  OBVIOUS
<1>2. w # Colon /\ x # Colon /\ y # Colon /\ z # Colon /\ w # Dash /\ Dash # Colon
  BY <1>1, NumNotSeparator, Separators, Zenon
<1>3. PICK parts : parts = <<<<w, Dash, x>>, <<y>>, <<z>>>>
  OBVIOUS
<1>4. Len(parts) = 3 /\ parts[1] = <<w, Dash, x>>
  BY <1>3
<1>5. Contains(parts[1], Dash) /\ Before(parts[1], Dash) = <<w>> /\ After(parts[1], Dash) = <<x>>
  <2>1. Contains(<<w, Dash, x>>, Dash) /\ Before(<<w, Dash, x>>, Dash) = <<w>> /\ After(<<w, Dash, x>>, Dash) = <<x>>
    BY <1>2, DaysParts, Zenon
  <2> QED
    BY <1>4, <2>1, Zenon
<1>6. Tail(parts) = <<<<y>>, <<z>>>>
  BY <1>3, TailOfThree, Zenon
<1>7. PartsDuration(parts) = InUnits(<<Day, Hour, Minute, 1>>, <<<<w>>, <<x>>, <<y>>, <<z>>>>)
  <2>1. PartsDuration(parts) = InUnits(<<Day, Hour, Minute, 1>>, <<<<w>>, <<x>>>> \o <<<<y>>, <<z>>>>)
    BY <1>4, <1>5, <1>6, PartsCases, Zenon
  <2>2. <<<<w>>, <<x>>>> \o <<<<y>>, <<z>>>> = <<<<w>>, <<x>>, <<y>>, <<z>>>>
    BY ConcatPairs, Zenon
  <2> QED
    BY <2>1, <2>2, Zenon
<1>8. InUnits(<<Day, Hour, Minute, 1>>, <<<<w>>, <<x>>, <<y>>, <<z>>>>) = Duration(86400 * d + 3600 * h + 60 * m + s)
  BY <1>1, DaysInUnits
<1>9. Split(<<w, Dash, x, Colon, y, Colon, z>>, Colon) = parts
  <2>1. Split(<<w, Dash, x, Colon, y, Colon, z>>, Colon) = <<<<w, Dash, x>>, <<y>>, <<z>>>>
    <3>1. PICK dash, colon : dash = Dash /\ colon = Colon
      OBVIOUS
    <3>2. Split(<<w, dash, x, colon, y, colon, z>>, colon) = <<<<w, dash, x>>, <<y>>, <<z>>>>
      BY <1>2, <3>1, SplitDays
    <3> QED
      BY <3>1, <3>2
  <2> QED
    BY <1>3, <2>1, Zenon
<1>10. ParseDuration(<<w, Dash, x, Colon, y, Colon, z>>) = PartsDuration(parts)
  <2>1. Len(<<w, Dash, x, Colon, y, Colon, z>>) > 1
    OBVIOUS
  <2> QED
    BY <1>9, <2>1, ParseOfParts, Zenon
<1> QED
  BY <1>1, <1>7, <1>8, <1>10

LEMMA TimeTextIs ==
  ASSUME NEW t \in Nat, NEW clock,
         clock = <<Num((t % Day) \div Hour), Colon, Num((t % Hour) \div Minute), Colon, Num(t % Minute)>>
  PROVE  /\ t < Day => TimeText(Num(t)) = clock
         /\ ~(t < Day) => TimeText(Num(t)) = <<Num(t \div Day), Dash>> \o clock
<1>1. PICK u : u = Num(t)
  OBVIOUS
<1>2. IsNum(u) /\ u.num = t
  BY <1>1, NumIs
<1>3. TimeText(u) =
        LET c == <<Num((u.num % Day) \div Hour), Colon,
                   Num((u.num % Hour) \div Minute), Colon, Num(u.num % Minute)>>
        IN  IF u.num < Day THEN c ELSE <<Num(u.num \div Day), Dash>> \o c
  BY <1>2, Zenon DEF TimeText
<1>4. clock = <<Num((u.num % Day) \div Hour), Colon, Num((u.num % Hour) \div Minute), Colon, Num(u.num % Minute)>>
  BY <1>2, Zenon
<1>5. TimeText(u) = IF u.num < Day THEN clock ELSE <<Num(u.num \div Day), Dash>> \o clock
  BY <1>3, <1>4, Zenon
<1> QED
  BY <1>1, <1>2, <1>5, Zenon

\* A duration of Slurm's comes back as the number of seconds.
LEMMA TimeParsed == \A t \in Nat : ParseDuration(TimeText(Num(t))) = Duration(t)
<1> SUFFICES ASSUME NEW t \in Nat PROVE ParseDuration(TimeText(Num(t))) = Duration(t)
  OBVIOUS
<1>1. PICK d, h, m, s : d = t \div Day /\ h = (t % Day) \div Hour /\ m = (t % Hour) \div Minute /\ s = t % Minute
  BY Zenon
<1>2. /\ d \in Nat /\ h \in Nat /\ m \in Nat /\ s \in Nat
      /\ t < Day => 3600 * h + 60 * m + s = t
      /\ 86400 * d + 3600 * h + 60 * m + s = t
  <2>1. Day = 86400 /\ Hour = 3600 /\ Minute = 60
    BY SMT DEF Day, Hour, Minute
  <2> QED
    BY <1>1, <2>1, ClockArithmetic, SMT
<1>3. PICK clock : clock = <<Num(h), Colon, Num(m), Colon, Num(s)>>
  OBVIOUS
<1>4. clock = <<Num((t % Day) \div Hour), Colon, Num((t % Hour) \div Minute), Colon, Num(t % Minute)>>
  BY <1>1, <1>3, Zenon
<1>5. CASE t < Day
  <2>1. TimeText(Num(t)) = clock
    BY <1>4, <1>5, TimeTextIs, Zenon
  <2>2. ParseDuration(<<Num(h), Colon, Num(m), Colon, Num(s)>>) = Duration(3600 * h + 60 * m + s)
    BY <1>2, ClockParsed, SMT
  <2>3. 3600 * h + 60 * m + s = t
    BY <1>2, <1>5, SMT
  <2> QED
    BY <1>3, <2>1, <2>2, <2>3, SMT
<1>6. CASE ~(t < Day)
  <2>1. TimeText(Num(t)) = <<Num(d), Dash>> \o clock
    BY <1>1, <1>4, <1>6, TimeTextIs, Zenon
  <2>2. TimeText(Num(t)) = <<Num(d), Dash, Num(h), Colon, Num(m), Colon, Num(s)>>
    <3>1. PICK v, w, x, y, z, dash, colon : /\ v = Num(d) /\ w = Num(h) /\ y = Num(m) /\ z = Num(s)
                                            /\ dash = Dash /\ colon = Colon
      OBVIOUS
    <3>2. <<v, dash>> \o <<w, colon, y, colon, z>> = <<v, dash, w, colon, y, colon, z>>
      BY ConcatClock
    <3> QED
      BY <1>3, <2>1, <3>1, <3>2
  <2>3. ParseDuration(<<Num(d), Dash, Num(h), Colon, Num(m), Colon, Num(s)>>) = Duration(86400 * d + 3600 * h + 60 * m + s)
    BY <1>2, DaysParsed, SMT
  <2>4. 86400 * d + 3600 * h + 60 * m + s = t
    BY <1>2, SMT
  <2> QED
    BY <2>2, <2>3, <2>4, SMT
<1> QED
  BY <1>5, <1>6

-----------------------------------------------------------------------------
(* What is read out of a job's records and steps. *)

LEMMA MaxOfOne == \A k \in Nat : Max({k}) = k
<1> SUFFICES ASSUME NEW k \in Nat PROVE Max({k}) = k
  OBVIOUS
<1>1. k \in Int /\ k \in {k} /\ {k} \subseteq Int /\ \A j \in {k} : j <= k
  OBVIOUS
<1> QED
  BY <1>1, MaxIs

\* Of the n fields of block only the k-th has the key.
IsField(block, n, k, key) ==
  /\ DOMAIN block = 1 .. n /\ k \in 1 .. n /\ block[k].key = key /\ block[k].eqs = 1
  /\ \A i \in 1 .. n : i # k => block[i].key # key

LEMMA OnlyField ==
  ASSUME NEW block, NEW n, NEW k, NEW key, IsField(block, n, k, key)
  PROVE  key \in Keys(block) /\ Get(block, key) = block[k].text
<1> USE DEF IsField
<1>1. {i \in DOMAIN block : block[i].key = key /\ block[i].eqs = 1} = {k}
  OBVIOUS
<1>2. Max({k}) = k
  <2>1. k \in Nat
    OBVIOUS
  <2> QED
    BY <2>1, MaxOfOne
<1>3. k \in {i \in DOMAIN block : block[i].eqs = 1}
  OBVIOUS
<1>4. key \in Keys(block)
  BY <1>3 DEF Keys
<1> QED
  BY <1>1, <1>2, <1>4, Zenon DEF Get

LEMMA FieldIs == \A key, text : Field(key, text).key = key /\ Field(key, text).eqs = 1 /\ Field(key, text).text = text
  BY DEF Field

LEMMA NestedIs == \A key : Nested(key).key = key
  BY DEF Nested

LEMMA JobFields ==
  ASSUME NEW r
  PROVE  /\ {"JobState", "RunTime", "TimeLimit", "StartTime"} \subseteq Keys(ShowJob(r))
         /\ Get(ShowJob(r), "JobState") = <<Word(r.State)>>
         /\ Get(ShowJob(r), "RunTime") = TimeText(Num(r.RunTime))
         /\ Get(ShowJob(r), "TimeLimit") = TimeText(r.TimeLimit)
         /\ Get(ShowJob(r), "StartTime") = <<LocalTime(r.StartTime)>>
<1>1. PICK b : b = ShowJob(r)
  OBVIOUS
<1>2. PICK f1, f2, f3, f4, f5 :
        /\ f1 = Field("JobState", <<Word(r.State)>>) /\ f2 = Field("RunTime", TimeText(Num(r.RunTime)))
        /\ f3 = Field("TimeLimit", TimeText(r.TimeLimit)) /\ f4 = Field("StartTime", <<LocalTime(r.StartTime)>>)
        /\ f5 = Nested("TRES")
  OBVIOUS
<1>3. b = <<f1, f2, f3, f4, f5>>
  BY <1>1, <1>2, Zenon DEF ShowJob
<1>4. DOMAIN b = 1 .. 5 /\ b[1] = f1 /\ b[2] = f2 /\ b[3] = f3 /\ b[4] = f4 /\ b[5] = f5
  BY <1>3
<1>5. /\ f1.key = "JobState" /\ f2.key = "RunTime" /\ f3.key = "TimeLimit" /\ f4.key = "StartTime" /\ f5.key = "TRES"
      /\ f1.eqs = 1 /\ f2.eqs = 1 /\ f3.eqs = 1 /\ f4.eqs = 1
      /\ f1.text = <<Word(r.State)>> /\ f2.text = TimeText(Num(r.RunTime)) /\ f3.text = TimeText(r.TimeLimit)
      /\ f4.text = <<LocalTime(r.StartTime)>>
  BY <1>2, FieldIs, NestedIs
<1>6. /\ b[1].key = "JobState" /\ b[2].key = "RunTime" /\ b[3].key = "TimeLimit" /\ b[4].key = "StartTime" /\ b[5].key = "TRES"
      /\ b[1].eqs = 1 /\ b[2].eqs = 1 /\ b[3].eqs = 1 /\ b[4].eqs = 1
  BY <1>4, <1>5, Zenon
<1>7. "JobState" \in Keys(b) /\ Get(b, "JobState") = b[1].text
  <2>1. \A i \in 1 .. 5 : i # 1 => b[i].key # "JobState"
    BY <1>6
  <2>2. 1 \in 1 .. 5
    OBVIOUS
  <2> QED
    <3>1. IsField(b, 5, 1, "JobState")
      BY <1>4, <1>6, <2>1, <2>2, Zenon DEF IsField
    <3> QED
      BY <3>1, OnlyField
<1>8. "RunTime" \in Keys(b) /\ Get(b, "RunTime") = b[2].text
  <2>1. \A i \in 1 .. 5 : i # 2 => b[i].key # "RunTime"
    BY <1>6
  <2>2. 2 \in 1 .. 5
    OBVIOUS
  <2> QED
    <3>1. IsField(b, 5, 2, "RunTime")
      BY <1>4, <1>6, <2>1, <2>2, Zenon DEF IsField
    <3> QED
      BY <3>1, OnlyField
<1>9. "TimeLimit" \in Keys(b) /\ Get(b, "TimeLimit") = b[3].text
  <2>1. \A i \in 1 .. 5 : i # 3 => b[i].key # "TimeLimit"
    BY <1>6
  <2>2. 3 \in 1 .. 5
    OBVIOUS
  <2> QED
    <3>1. IsField(b, 5, 3, "TimeLimit")
      BY <1>4, <1>6, <2>1, <2>2, Zenon DEF IsField
    <3> QED
      BY <3>1, OnlyField
<1>10. "StartTime" \in Keys(b) /\ Get(b, "StartTime") = b[4].text
  <2>1. \A i \in 1 .. 5 : i # 4 => b[i].key # "StartTime"
    BY <1>6
  <2>2. 4 \in 1 .. 5
    OBVIOUS
  <2> QED
    <3>1. IsField(b, 5, 4, "StartTime")
      BY <1>4, <1>6, <2>1, <2>2, Zenon DEF IsField
    <3> QED
      BY <3>1, OnlyField
<1>11. /\ Get(b, "JobState") = <<Word(r.State)>> /\ Get(b, "RunTime") = TimeText(Num(r.RunTime))
       /\ Get(b, "TimeLimit") = TimeText(r.TimeLimit) /\ Get(b, "StartTime") = <<LocalTime(r.StartTime)>>
  BY <1>4, <1>5, <1>7, <1>8, <1>9, <1>10, Zenon
<1>12. {"JobState", "RunTime", "TimeLimit", "StartTime"} \subseteq Keys(b)
  BY <1>7, <1>8, <1>9, <1>10
<1> QED
  BY <1>1, <1>11, <1>12, Zenon

LEMMA Single == \A y : Len(<<y>>) = 1 /\ <<y>>[1] = y /\ 1 \in DOMAIN <<y>>
  OBVIOUS

LEMMA ContainsSingle == \A y, z : Contains(<<y>>, z) => y = z
<1> SUFFICES ASSUME NEW y, NEW z, Contains(<<y>>, z) PROVE y = z
  OBVIOUS
<1>1. PICK i \in 1 .. Len(<<y>>) : <<y>>[i] = z
  BY Zenon DEF Contains
<1>2. i = 1
  BY <1>1
<1> QED
  BY <1>1, <1>2

\* A word in the place of a duration.
LEMMA WordParsed ==
  ASSUME NEW x, ~IsNum(x), x # Unlimited, x # Colon, x # Dash
  PROVE  ParseDuration(<<x>>) = InvalidDuration
<1>3. <<x>> \notin {<<>>, <<Unlimited>>}
  OBVIOUS
<1>4. Split(<<x>>, Colon) = <<<<x>>>>
  BY SplitOne, Zenon
<1>5. PICK y, parts : y = <<x>> /\ parts = <<y>>
  OBVIOUS
<1>6. Len(parts) = 1 /\ 1 \in DOMAIN parts /\ parts[1] = y /\ Len(y) = 1 /\ y[1] = x
  BY <1>5, Single, Zenon
<1>7. ~Contains(y, Dash)
  BY <1>5, ContainsSingle, Zenon
<1>8. ~(Len(parts) > 3) /\ ~(Len(parts) <= 3 /\ Contains(parts[1], Dash))
  <2>1. ~Contains(parts[1], Dash)
    BY <1>6, <1>7, Zenon
  <2>2. ~(Len(parts) > 3)
    BY <1>6
  <2> QED
    BY <2>1, <2>2, Zenon
<1>9. PartsDuration(parts) = InUnits(Units(FALSE, Len(parts)), parts)
  BY <1>8, Zenon DEF PartsDuration
<1>10. ~ParseInt(y).ok
  BY <1>6 DEF ParseInt, NotParsed
<1>11. InUnits(Units(FALSE, Len(parts)), parts) = InvalidDuration
  <2>1. \E i \in DOMAIN parts : ~ParseInt(parts[i]).ok
    BY <1>6, <1>10
  <2> QED
    BY <2>1, Zenon DEF InUnits
<1> QED
  BY <1>3, <1>4, <1>5, <1>9, <1>11, Zenon DEF ParseDuration

LEMMA PartitionLimitParsed == ParseDuration(<<Word("Partition_Limit")>>) = InvalidDuration
<1>1. "Partition_Limit" # "" /\ "Partition_Limit" # "UNLIMITED" /\ "Partition_Limit" # ":" /\ "Partition_Limit" # "-"
  BY Zenon
<1>2. Word("Partition_Limit").word = "Partition_Limit"
  BY WordIs, Zenon
<1>3. Word("Partition_Limit") # Unlimited /\ Word("Partition_Limit") # Colon /\ Word("Partition_Limit") # Dash
  BY <1>1, <1>2, Separators, Zenon
<1>4. ~IsNum(Word("Partition_Limit"))
  BY <1>1, <1>2, Zenon DEF IsNum
<1> QED
  BY <1>3, <1>4, WordParsed, Zenon

LEMMA SecondsIs == \A t \in Seconds : t.num \in Nat /\ t = Num(t.num) /\ t # Unlimited /\ t # Unknown
<1> SUFFICES ASSUME NEW t \in Seconds PROVE t.num \in Nat /\ t = Num(t.num) /\ t # Unlimited /\ t # Unknown
  OBVIOUS
<1>1. t.num \in Nat /\ t.word = ""
  BY DEF Seconds
<1>2. t = Num(t.num)
  BY DEF Seconds, Num
<1>3. "UNLIMITED" # "" /\ "Unknown" # "" /\ Unknown.word = "Unknown"
  BY WordIs, Zenon DEF Unknown
<1> QED
  BY <1>1, <1>2, <1>3, Separators, Zenon

\* What becomes of a limit: no answer for Partition_Limit.
LEMMA LimitTold ==
  ASSUME NEW t \in Seconds \cup {Unlimited, Word("Partition_Limit")}, NEW d, d = DurationField(ParseDuration(TimeText(t)))
  PROVE  /\ d.ok <=> t # Word("Partition_Limit")
         /\ d.ok => Told(d, t)
<1>0. "Partition_Limit" # "" /\ "Partition_Limit" # "UNLIMITED" /\ "UNLIMITED" # "" /\ Word("Partition_Limit").word = "Partition_Limit"
  BY WordIs, Zenon
<1>1. CASE t \in Seconds
  <2>1. t = Num(t.num) /\ t.num \in Nat /\ t # Unlimited /\ t # Unknown
    BY <1>1, SecondsIs
  <2>2. ParseDuration(TimeText(t)) = Duration(t.num)
    BY <2>1, TimeParsed, Zenon
  <2>3. Duration(t.num).kind = "duration" /\ Duration(t.num).value = t.num
    BY DEF Duration
  <2>4. d = Parsed(t.num)
    BY <2>2, <2>3 DEF DurationField
  <2>5. d.ok
    BY <2>4 DEF Parsed
  <2>6. t # Word("Partition_Limit")
    BY <2>1, <1>0, NumIs, Zenon
  <2> QED
    BY <2>1, <2>4, <2>5, <2>6 DEF Told
<1>2. CASE t = Unlimited
  <2>1. ~IsNum(t)
    BY <1>0, <1>2, Separators, Zenon DEF IsNum
  <2>2. TimeText(t) = <<Unlimited>>
    BY <1>2, <2>1, Zenon DEF TimeText
  <2>3. ParseDuration(TimeText(t)) = ErrDurationIsUnlimited
    BY <2>2 DEF ParseDuration
  <2>4. d = Nil
    BY <2>3 DEF DurationField, ErrDurationIsUnlimited
  <2>5. d.ok
    BY <2>4 DEF Nil
  <2>6. t # Word("Partition_Limit")
    BY <1>0, <1>2, Separators, Zenon
  <2> QED
    BY <1>2, <2>4, <2>5, <2>6 DEF Told
<1>3. CASE t = Word("Partition_Limit")
  <2>1. ~IsNum(t)
    BY <1>0, <1>3, Zenon DEF IsNum
  <2>2. TimeText(t) = <<Word("Partition_Limit")>>
    BY <1>3, <2>1, Zenon DEF TimeText
  <2>3. ParseDuration(TimeText(t)) = InvalidDuration
    BY <2>2, PartitionLimitParsed, Zenon
  <2>4. d = NotParsed
    BY <2>3 DEF DurationField, InvalidDuration
  <2>5. ~d.ok
    BY <2>4 DEF NotParsed
  <2> QED
    BY <1>3, <2>5
<1> QED
  BY <1>1, <1>2, <1>3

\* A point in time that Slurm prints in local time is read as UTC.
LEMMA StampTold ==
  ASSUME NEW t \in Stamps
  PROVE  parseTime(<<LocalTime(t)>>).ok /\ ToldTime(parseTime(<<LocalTime(t)>>), t)
<1>0. "T" # "Unknown" /\ Unknown.word = "Unknown"
  BY WordIs, Zenon DEF Unknown
<1>1. PICK u, s : u = LocalTime(t) /\ s = <<u>>
  OBVIOUS
<1>2. s[1] = u /\ s # <<>> /\ (s = <<Unknown>> <=> u = Unknown)
  BY <1>1
<1>3. CASE t = Unknown
  <2>1. u = Unknown
    BY <1>0, <1>1, <1>3, Zenon DEF LocalTime
  <2>2. parseTime(s) = Nil
    BY <1>2, <2>1 DEF parseTime
  <2> QED
    BY <1>1, <1>3, <2>2 DEF ToldTime, Nil
<1>4. CASE t # Unknown
  <2>1. t.word = "T"
    BY <1>4 DEF Stamps
  <2>2. u = Stamp(t.num + Zone)
    BY <1>1, <2>1, Zenon DEF LocalTime
  <2>3. u.word = "T" /\ u.num = t.num + Zone
    BY <2>2 DEF Stamp
  <2>4. u # Unknown
    BY <1>0, <2>3, Zenon
  <2>5. parseTime(s) = Parsed(u.num)
    BY <1>2, <2>3, <2>4 DEF parseTime
  <2>6. Parsed(u.num).ok
    BY DEF Parsed
  <2> QED
    BY <1>1, <1>4, <2>3, <2>5, <2>6 DEF ToldTime
<1> QED
  BY <1>3, <1>4

LEMMA RecordTold ==
  ASSUME NEW r \in JobRecord, NEW f, f = fillFromSlurmFields(ShowJob(r))
  PROVE  /\ f.State = r.State /\ f.RunTime = Parsed(r.RunTime) /\ ToldTime(f.StartTime, r.StartTime)
         /\ Readable(f) <=> r.TimeLimit # Word("Partition_Limit")
         /\ Readable(f) => Told(f.TimeLimit, r.TimeLimit)
<1>1. /\ r.RunTime \in Nat /\ r.StartTime \in Stamps
      /\ r.TimeLimit \in Seconds \cup {Unlimited, Word("Partition_Limit")}
  BY DEF JobRecord
<1>2. PICK b : b = ShowJob(r)
  OBVIOUS
<1>3. /\ "JobState" \in Keys(b) /\ "RunTime" \in Keys(b) /\ "TimeLimit" \in Keys(b) /\ "StartTime" \in Keys(b)
      /\ Get(b, "JobState") = <<Word(r.State)>> /\ Get(b, "RunTime") = TimeText(Num(r.RunTime))
      /\ Get(b, "TimeLimit") = TimeText(r.TimeLimit) /\ Get(b, "StartTime") = <<LocalTime(r.StartTime)>>
  BY <1>2, JobFields
<1>4. "RunTime" # "StartTime" /\ "TimeLimit" # "StartTime"
  BY Zenon
<1>5. Filled(b, "RunTime") = DurationField(ParseDuration(TimeText(Num(r.RunTime))))
  BY <1>3, <1>4, Zenon DEF Filled
<1>6. Filled(b, "TimeLimit") = DurationField(ParseDuration(TimeText(r.TimeLimit)))
  BY <1>3, <1>4, Zenon DEF Filled
<1>7. Filled(b, "StartTime") = parseTime(<<LocalTime(r.StartTime)>>)
  BY <1>3, Zenon DEF Filled
<1>8. Filled(b, "RunTime") = Parsed(r.RunTime)
  <2>1. ParseDuration(TimeText(Num(r.RunTime))) = Duration(r.RunTime)
    BY <1>1, TimeParsed, Zenon
  <2> QED
    BY <1>5, <2>1 DEF DurationField, Duration
<1>9. /\ f.State = Get(b, "JobState")[1].word /\ f.RunTime = Filled(b, "RunTime")
      /\ f.TimeLimit = Filled(b, "TimeLimit") /\ f.StartTime = Filled(b, "StartTime")
  BY <1>2, <1>3 DEF fillFromSlurmFields
<1>10. f.State = r.State
  <2>1. <<Word(r.State)>>[1] = Word(r.State)
    BY Single, Zenon
  <2> QED
    BY <1>3, <1>9, <2>1, WordIs, Zenon
<1>11. f.RunTime = Parsed(r.RunTime) /\ f.RunTime.ok
  BY <1>8, <1>9 DEF Parsed
<1>12. f.StartTime.ok /\ ToldTime(f.StartTime, r.StartTime)
  BY <1>1, <1>7, <1>9, StampTold, Zenon
<1>13. /\ f.TimeLimit.ok <=> r.TimeLimit # Word("Partition_Limit")
       /\ f.TimeLimit.ok => Told(f.TimeLimit, r.TimeLimit)
  <2>1. f.TimeLimit = DurationField(ParseDuration(TimeText(r.TimeLimit)))
    BY <1>6, <1>9, Zenon
  <2> QED
    BY <1>1, <2>1, LimitTold, Zenon
<1> QED
  BY <1>10, <1>11, <1>12, <1>13, Zenon DEF Readable

\* The answer of JobInfo for the text scontrol prints of the records js.
InfoOf(js) == JobInfo([i \in DOMAIN js |-> ShowJob(js[i])])

LEMMA InfoTold ==
  ASSUME NEW js \in Seq(JobRecord), NEW a, a = InfoOf(js)
  PROVE  /\ ~a.ok <=> \E i \in DOMAIN js : js[i].TimeLimit = Word("Partition_Limit")
         /\ a.ok => /\ DOMAIN a.infos = DOMAIN js
                    /\ \A i \in DOMAIN js :
                         /\ a.infos[i].State = ProtoStatus(js[i].State)
                         /\ a.infos[i].RunTime = Parsed(js[i].RunTime)
                         /\ Told(a.infos[i].TimeLimit, js[i].TimeLimit)
                         /\ ToldTime(a.infos[i].StartTime, js[i].StartTime)
<1>1. PICK blocks : blocks = [i \in DOMAIN js |-> ShowJob(js[i])]
  OBVIOUS
<1>2. PICK infos : infos = [i \in DOMAIN blocks |-> fillFromSlurmFields(blocks[i])]
  OBVIOUS
<1>3. /\ DOMAIN blocks = DOMAIN js /\ DOMAIN infos = DOMAIN js
      /\ \A i \in DOMAIN js : infos[i] = fillFromSlurmFields(ShowJob(js[i]))
  BY <1>1, <1>2
<1>4. \A i \in DOMAIN js : js[i] \in JobRecord
  OBVIOUS
<1>6. a = mapSInfoToProtoInfo(infos)
  BY <1>1, <1>2, Zenon DEF InfoOf, JobInfo
<1>7. \A i \in DOMAIN js : Readable(infos[i]) <=> js[i].TimeLimit # Word("Partition_Limit")
  BY <1>3, <1>4, RecordTold, Zenon
<1>8. ~Error.ok
  BY DEF Error
<1>9. CASE \E i \in DOMAIN js : ~Readable(infos[i])
  <2>1. a = Error
    BY <1>3, <1>6, <1>9, Zenon DEF mapSInfoToProtoInfo
  <2> QED
    BY <1>7, <1>8, <1>9, <2>1, Zenon
<1>10. CASE \A i \in DOMAIN js : Readable(infos[i])
  <2>1. PICK list : list = [i \in DOMAIN infos |-> [infos[i] EXCEPT !.State = ProtoStatus(infos[i].State)]]
    OBVIOUS
  <2>2. a = [ok |-> TRUE, infos |-> list]
    BY <1>3, <1>6, <1>10, <2>1, Zenon DEF mapSInfoToProtoInfo
  <2>3. a.ok /\ a.infos = list
    BY <2>2
  <2>4. DOMAIN list = DOMAIN js
    BY <1>3, <2>1
  <2>5. ASSUME NEW i \in DOMAIN js
        PROVE  /\ list[i].State = ProtoStatus(js[i].State) /\ list[i].RunTime = Parsed(js[i].RunTime)
               /\ Told(list[i].TimeLimit, js[i].TimeLimit) /\ ToldTime(list[i].StartTime, js[i].StartTime)
    <3>1. PICK f, g : f = infos[i] /\ g = [f EXCEPT !.State = ProtoStatus(f.State)]
      OBVIOUS
    <3>2. list[i] = g
      BY <1>3, <2>1, <3>1
    <3>3. f = fillFromSlurmFields(ShowJob(js[i])) /\ Readable(f)
      BY <1>3, <1>10, <3>1, Zenon
    <3>4. /\ f.State = js[i].State /\ f.RunTime = Parsed(js[i].RunTime)
          /\ ToldTime(f.StartTime, js[i].StartTime) /\ Told(f.TimeLimit, js[i].TimeLimit)
      BY <1>4, <3>3, RecordTold, Zenon
    <3>5. DOMAIN f = {"State", "RunTime", "TimeLimit", "StartTime"}
      BY <3>3 DEF fillFromSlurmFields
    <3>6. /\ g.State = ProtoStatus(f.State) /\ g.RunTime = f.RunTime
          /\ g.TimeLimit = f.TimeLimit /\ g.StartTime = f.StartTime
      BY <3>1, <3>5
    <3> QED
      BY <3>2, <3>4, <3>6, Zenon
  <2> QED
    BY <1>7, <1>10, <2>3, <2>4, <2>5, Zenon
<1> QED
  BY <1>9, <1>10, Zenon

\* Slurm's records of jobs and steps stay, and an answer that has been given is
\* the one for them, unless the call failed.
InfoInv ==
  jobs \in Seq(JobRecord) /\ ("info" \in DOMAIN replies => replies["info"] \in {InfoOf(jobs), CallFailed})

LEMMA ReplyKeeps ==
  ASSUME NEW key, NEW answer, Reply(key, answer)
  PROVE  /\ DOMAIN replies' = DOMAIN replies \cup {key}
         /\ \A k \in DOMAIN replies' : replies'[k] = IF k = key THEN answer ELSE replies[k]
  BY DEF Reply

LEMMA OtherSteps ==
  ASSUME [QueryNext \/ NodeNext]_outputVars
  PROVE  /\ jobs' = jobs /\ steps' = steps
         /\ "info" \in DOMAIN replies' =>
              \/ replies'["info"] \in {InfoOf(jobs), CallFailed}
              \/ "info" \in DOMAIN replies /\ replies'["info"] = replies["info"]
         /\ "steps" \in DOMAIN replies' =>
              \/ replies'["steps"] \in {IF SJobSteps.ok THEN [SJobSteps EXCEPT !.steps = toProtoSteps(@)] ELSE Error,
                                       CallFailed}
              \/ "steps" \in DOMAIN replies /\ replies'["steps"] = replies["steps"]
<1>0. "info" # "steps" /\ "info" # "names" /\ "info" # "resources" /\ "info" # "hosts" /\ "info" # "capacity"
      /\ "steps" # "names" /\ "steps" # "resources" /\ "steps" # "hosts" /\ "steps" # "capacity"
  BY Zenon
<1> USE DEF SlurmUnchanged
<1>1. CASE QueryJobInfo
  BY <1>0, <1>1, ReplyKeeps DEF QueryJobInfo, InfoOf
<1>2. CASE QueryJobSteps
  BY <1>0, <1>2, ReplyKeeps DEF QueryJobSteps
<1>3. CASE QueryPartitions
  BY <1>0, <1>3, ReplyKeeps DEF QueryPartitions
<1>4. CASE QueryResources
  BY <1>0, <1>4, ReplyKeeps DEF QueryResources
<1>5. CASE QueryPartition
  BY <1>0, <1>5, ReplyKeeps DEF QueryPartition
<1>6. CASE QueryNodes
  BY <1>0, <1>6, ReplyKeeps DEF QueryNodes
<1>7. CASE NewNodeOrDie
  <2>1. jobs' = jobs /\ steps' = steps
    BY <1>7 DEF NewNodeOrDie
  <2>2. replies' = Restrict(replies, DOMAIN replies \ {"hosts", "capacity"})
    BY <1>7 DEF NewNodeOrDie
  <2>3. \A k \in DOMAIN replies' : k \in DOMAIN replies /\ replies'[k] = replies[k]
    BY <2>2 DEF Restrict
  <2> QED
    BY <2>1, <2>3, Zenon
<1>8. CASE NotifyNodeStatus
  BY <1>8 DEF NotifyNodeStatus
<1>9. CASE \E hosts \in SUBSET DOMAIN Hosts : Reconfigure(hosts)
  BY <1>9 DEF Reconfigure
<1>10. ASSUME NEW key, QueryFails(key)
       PROVE  /\ jobs' = jobs /\ steps' = steps
              /\ \A k \in DOMAIN replies' : replies'[k] = CallFailed \/ (k \in DOMAIN replies /\ replies'[k] = replies[k])
  BY <1>10, ReplyKeeps DEF QueryFails
<1>11. CASE CapacityFails
  BY <1>10, <1>11, Zenon DEF CapacityFails
<1>12. CASE \E key \in {"info", "steps", "names", "resources"} : QueryFails(key)
  BY <1>10, <1>12, Zenon
<1>13. CASE UNCHANGED outputVars
  BY <1>13 DEF outputVars
<1> QED
  BY <1>1, <1>2, <1>3, <1>4, <1>5, <1>6, <1>7, <1>8, <1>9, <1>11, <1>12, <1>13 DEF QueryNext, NodeNext

LEMMA InfoStays == OutputSpec => []InfoInv
<1>1. OutputInit => InfoInv
  <2> SUFFICES ASSUME OutputInit PROVE InfoInv
    OBVIOUS
  <2>1. jobs \in Seq(JobRecord)
    BY JobListsAssumption DEF OutputInit
  <2>2. "info" \notin DOMAIN replies
    BY DEF OutputInit
  <2> QED
    BY <2>1, <2>2, Zenon DEF InfoInv
<1>2. InfoInv /\ [QueryNext \/ NodeNext]_outputVars => InfoInv'
  BY OtherSteps, Zenon DEF InfoInv
<1> QED
  BY <1>1, <1>2, PTL DEF OutputSpec

LEMMA PhaseOfStates ==
  ASSUME NEW states, NEW told, DOMAIN told = DOMAIN states, \A i \in DOMAIN states : told[i] = ProtoStatus(states[i])
  PROVE  /\ Terminal(slurmState2PodPhase(told)) => \A i \in DOMAIN states : states[i] \in EndedStates
         /\ slurmState2PodPhase(told) = "Succeeded" <=> \A i \in DOMAIN states : states[i] = "COMPLETED"
         /\ (\A i \in DOMAIN states : states[i] \in EndedStates) /\ ~Terminal(slurmState2PodPhase(told))
              => \E i \in DOMAIN states : states[i] \notin JobStatus
<1>1. \A i \in DOMAIN states : /\ told[i] \in Statuses(told)
                               /\ states[i] \in JobStatus => told[i] = states[i]
                               /\ states[i] \notin JobStatus => told[i] = "UNKNOWN"
  BY DEF Statuses, ProtoStatus
<1>2. \A s \in Statuses(told) : \E i \in DOMAIN states : s = told[i]
  BY DEF Statuses
<1>3. CASE isAllSlurmJobEnded(told)
  <2>1. \A s \in Statuses(told) : s # "UNKNOWN" /\ s # "PENDING" /\ s # "RUNNING"
    BY <1>3 DEF isAllSlurmJobEnded
  <2>2. \A i \in DOMAIN states : states[i] \in {"COMPLETED", "CANCELLED", "FAILED", "TIMEOUT"} /\ told[i] = states[i]
    BY <1>1, <2>1 DEF JobStatus
  <2>3. slurmState2PodPhase(told) = EndedPhase(told)
    BY <1>3 DEF slurmState2PodPhase
  <2>4. EndedPhase(told) \in {"Succeeded", "Failed"}
    BY DEF EndedPhase
  <2>5. EndedPhase(told) = "Succeeded" <=> \A s \in Statuses(told) : s \notin {"FAILED", "CANCELLED", "TIMEOUT"}
    BY DEF EndedPhase
  <2>6. EndedPhase(told) = "Succeeded" <=> \A i \in DOMAIN states : states[i] = "COMPLETED"
    BY <1>1, <1>2, <2>2, <2>5
  <2> QED
    BY <2>2, <2>3, <2>4, <2>6 DEF Terminal, EndedStates
<1>4. CASE ~isAllSlurmJobEnded(told)
  <2>1. PICK s \in Statuses(told) : s \in {"UNKNOWN", "PENDING", "RUNNING"}
    BY <1>4 DEF isAllSlurmJobEnded
  <2>2. slurmState2PodPhase(told) = ActivePhase(told)
    BY <1>4 DEF slurmState2PodPhase
  <2>3. ActivePhase(told) \in {"Running", "Pending", "Unknown"}
    BY DEF ActivePhase
  <2>4. PICK i \in DOMAIN states : s = told[i]
    BY <1>2
  <2>5. states[i] # "COMPLETED" /\ (states[i] \in EndedStates => states[i] \notin JobStatus)
    BY <1>1, <2>1, <2>4 DEF JobStatus, EndedStates
  <2> QED
    BY <2>2, <2>3, <2>4, <2>5 DEF Terminal
<1> QED
  BY <1>3, <1>4

(* A phase that ends a worker pod is told of a job all of whose tasks have
   ended, Succeeded only of one that completed, and an ended job without such
   a phase has a state that JobStatus does not name. *)
THEOREM PhaseTells == OutputSpec => []PhaseTellsState
<1>1. InfoInv => PhaseTellsState
  <2> SUFFICES ASSUME InfoInv, Answered("info") PROVE PhaseTellsState
    BY Zenon DEF PhaseTellsState
  <2>1. PICK a : a = replies["info"]
    OBVIOUS
  <2>2. a = InfoOf(jobs) /\ a.ok /\ jobs \in Seq(JobRecord)
    <3>1. ~CallFailed.ok
      BY DEF CallFailed
    <3> QED
      BY <2>1, <3>1, Zenon DEF InfoInv, Answered, Unasked
  <2>3. DOMAIN a.infos = DOMAIN jobs /\ \A i \in DOMAIN jobs : a.infos[i].State = ProtoStatus(jobs[i].State)
    BY <2>2, InfoTold, Zenon
  <2>4. PICK states, told : states = [i \in DOMAIN jobs |-> jobs[i].State] /\ told = [i \in DOMAIN a.infos |-> a.infos[i].State]
    OBVIOUS
  <2>5. /\ DOMAIN states = DOMAIN jobs /\ DOMAIN told = DOMAIN jobs
        /\ \A i \in DOMAIN jobs : states[i] = jobs[i].State /\ told[i] = ProtoStatus(jobs[i].State)
    BY <2>3, <2>4
  <2>6. /\ Terminal(slurmState2PodPhase(told)) => \A i \in DOMAIN jobs : jobs[i].State \in EndedStates
        /\ slurmState2PodPhase(told) = "Succeeded" <=> \A i \in DOMAIN jobs : jobs[i].State = "COMPLETED"
        /\ (\A i \in DOMAIN jobs : jobs[i].State \in EndedStates) /\ ~Terminal(slurmState2PodPhase(told))
             => \E i \in DOMAIN jobs : jobs[i].State \notin JobStatus
    <3>1. DOMAIN told = DOMAIN states /\ \A i \in DOMAIN states : told[i] = ProtoStatus(states[i])
      BY <2>5, Zenon
    <3>2. /\ Terminal(slurmState2PodPhase(told)) => \A i \in DOMAIN states : states[i] \in EndedStates
          /\ slurmState2PodPhase(told) = "Succeeded" <=> \A i \in DOMAIN states : states[i] = "COMPLETED"
          /\ (\A i \in DOMAIN states : states[i] \in EndedStates) /\ ~Terminal(slurmState2PodPhase(told))
               => \E i \in DOMAIN states : states[i] \notin JobStatus
      BY <3>1, PhaseOfStates, Zenon
    <3> QED
      BY <2>5, <3>2, Zenon
  <2> QED
    BY <2>1, <2>4, <2>6, Zenon DEF PhaseTellsState
<1> QED
  BY <1>1, InfoStays, PTL

\* What parseSacctResponse makes of a line with two times, an exit code and a state.
StepOf(l) == [Start |-> parseTime(l[1]), End |-> parseTime(l[2]),
              ExitCode |-> ParseInt(Split(l[3], Colon)[1]), Status |-> l[4][1].word]

Unreadable(l) ==
  \/ Len(l) # 7 \/ Len(Split(l[3], Colon)) # 2
  \/ ~(StepOf(l).Start.ok /\ StepOf(l).End.ok /\ StepOf(l).ExitCode.ok)

LEMMA StepTimeTold ==
  ASSUME NEW t \in Stamps \cup {Word("None")}
  PROVE  /\ parseTime(<<LocalTime(t)>>).ok <=> t # Word("None")
         /\ parseTime(<<LocalTime(t)>>).ok => ToldTime(parseTime(<<LocalTime(t)>>), t)
<1>0. "None" # "T" /\ "None" # "Unknown" /\ Word("None").word = "None" /\ Unknown.word = "Unknown"
  BY WordIs, Zenon DEF Unknown
<1>1. CASE t \in Stamps
  <2>1. t # Word("None")
    <3>1. t.word = "T" \/ t = Unknown
      BY <1>1 DEF Stamps
    <3> QED
      BY <1>0, <3>1, Zenon
  <2> QED
    BY <1>1, <2>1, StampTold, Zenon
<1>2. CASE t = Word("None")
  <2>1. PICK s : s = <<LocalTime(t)>>
    OBVIOUS
  <2>3. t # Unknown /\ t.word # "T" /\ LocalTime(t) = t
    BY <1>0, <1>2, Zenon DEF LocalTime
  <2>2. s[1] = t /\ s # <<>> /\ (s = <<Unknown>> <=> t = Unknown)
    BY <2>1, <2>3
  <2>4. parseTime(s) = NotParsed
    BY <2>2, <2>3 DEF parseTime
  <2>5. ~NotParsed.ok
    BY DEF NotParsed
  <2> QED
    BY <1>2, <2>1, <2>4, <2>5, Zenon
<1> QED
  BY <1>1, <1>2

LEMMA ExitCodeTold ==
  \A n \in Nat : /\ Len(Split(<<Num(n), Colon, Num(0)>>, Colon)) = 2
                 /\ ParseInt(Split(<<Num(n), Colon, Num(0)>>, Colon)[1]) = Parsed(n)
<1> SUFFICES ASSUME NEW n \in Nat
             PROVE  /\ Len(Split(<<Num(n), Colon, Num(0)>>, Colon)) = 2
                    /\ ParseInt(Split(<<Num(n), Colon, Num(0)>>, Colon)[1]) = Parsed(n)
  OBVIOUS
<1>0. 0 \in Nat
  OBVIOUS
<1>1. PICK x, y, p : x = Num(n) /\ y = Num(0) /\ p = <<<<x>>, <<y>>>>
  OBVIOUS
<1>2. x # Colon /\ y # Colon
  BY <1>0, <1>1, NumNotSeparator, Zenon
<1>3. Split(<<x, Colon, y>>, Colon) = p
  BY <1>1, <1>2, SplitTwo, Zenon
<1>4. Len(p) = 2 /\ p[1] = <<x>>
  BY <1>1
<1>5. ParseInt(<<x>>) = Parsed(n)
  <2>1. Len(<<x>>) = 1 /\ <<x>>[1] = x /\ IsNum(x) /\ x.num = n
    BY <1>1, NumIs
  <2> QED
    BY <2>1 DEF ParseInt
<1> QED
  BY <1>1, <1>3, <1>4, <1>5, Zenon

LEMMA LineTold ==
  ASSUME NEW s \in StepRecord, NEW f, f = StepOf(SacctLine(s))
  PROVE  /\ Unreadable(SacctLine(s)) <=> Word("None") \in {s.Start, s.End}
         /\ ~Unreadable(SacctLine(s)) => ToldTime(f.Start, s.Start) /\ ToldTime(f.End, s.End)
         /\ f.ExitCode = Parsed(s.ExitCode) /\ f.Status = s.State
<1>1. s.Start \in Stamps \cup {Word("None")} /\ s.End \in Stamps \cup {Word("None")} /\ s.ExitCode \in Nat
  BY DEF StepRecord
<1>2. PICK l1, l2, l3, l4, l5, l6, l7 :
        /\ l1 = <<LocalTime(s.Start)>> /\ l2 = <<LocalTime(s.End)>> /\ l3 = <<Num(s.ExitCode), Colon, Num(0)>> /\ l4 = <<Word(s.State)>>
        /\ l5 = <<Word("id")>> /\ l6 = <<Word("name")>> /\ l7 = <<>>
  OBVIOUS
<1>3. PICK l : l = SacctLine(s)
  OBVIOUS
<1>4. l = <<l1, l2, l3, l4, l5, l6, l7>>
  BY <1>2, <1>3, Zenon DEF SacctLine
<1>5. Len(l) = 7 /\ l[1] = l1 /\ l[2] = l2 /\ l[3] = l3 /\ l[4] = l4
  BY <1>4
<1>6. Len(Split(l[3], Colon)) = 2 /\ ParseInt(Split(l[3], Colon)[1]) = Parsed(s.ExitCode)
  BY <1>1, <1>2, <1>5, ExitCodeTold, Zenon
<1>7. l[4][1].word = s.State
  <2>1. <<Word(s.State)>>[1] = Word(s.State)
    BY Single, Zenon
  <2>2. l[4] = <<Word(s.State)>>
    BY <1>2, <1>5, Zenon
  <2> QED
    BY <2>1, <2>2, WordIs, Zenon
<1>8. /\ f.Start = parseTime(l[1]) /\ f.End = parseTime(l[2])
      /\ f.ExitCode = ParseInt(Split(l[3], Colon)[1]) /\ f.Status = l[4][1].word
  BY <1>3 DEF StepOf
<1>9. f.Start = parseTime(<<LocalTime(s.Start)>>) /\ f.End = parseTime(<<LocalTime(s.End)>>)
  BY <1>2, <1>5, <1>8, Zenon
<1>10. f.ExitCode = Parsed(s.ExitCode) /\ f.ExitCode.ok
  BY <1>6, <1>8 DEF Parsed
<1>11. Unreadable(l) <=> ~(f.Start.ok /\ f.End.ok)
  BY <1>3, <1>5, <1>6, <1>10, Zenon DEF Unreadable
<1>12. /\ f.Start.ok <=> s.Start # Word("None")
       /\ f.Start.ok => ToldTime(f.Start, s.Start)
       /\ f.End.ok <=> s.End # Word("None")
       /\ f.End.ok => ToldTime(f.End, s.End)
  BY <1>1, <1>9, StepTimeTold, Zenon
<1>13. Word("None") \in {s.Start, s.End} <=> s.Start = Word("None") \/ s.End = Word("None")
  BY Zenon
<1> QED
  BY <1>3, <1>7, <1>8, <1>10, <1>11, <1>12, <1>13, Zenon

\* The answer of JobSteps for the text sacct prints of the steps ss.
StepsRead(ss) == parseSacctResponse(SacctLines(ss))
StepsOf(ss) ==
  IF StepsRead(ss).ok THEN [StepsRead(ss) EXCEPT !.steps = toProtoSteps(@)] ELSE Error

LEMMA StepsTold ==
  ASSUME NEW ss \in Seq(StepRecord), NEW a, a = StepsOf(ss)
  PROVE  /\ ~a.ok => ss = <<>> \/ \E i \in DOMAIN ss : Word("None") \in {ss[i].Start, ss[i].End}
         /\ a.ok => ss # <<>>
         /\ a.ok => \A i \in DOMAIN ss :
                      /\ ToldTime(a.steps[i].Start, ss[i].Start) /\ ToldTime(a.steps[i].End, ss[i].End)
                      /\ a.steps[i].ExitCode = Parsed(ss[i].ExitCode)
                      /\ a.steps[i].Status \in {ss[i].State, "UNKNOWN"}
<1>1. PICK lines : lines = SacctLines(ss)
  OBVIOUS
<1>2. ss # <<>> => DOMAIN lines = DOMAIN ss /\ \A i \in DOMAIN ss : lines[i] = SacctLine(ss[i])
  BY <1>1 DEF SacctLines
<1>3. \A i \in DOMAIN ss : ss[i] \in StepRecord
  OBVIOUS
<1>4. parseSacctResponse(lines) =
        IF \E i \in DOMAIN lines : Unreadable(lines[i]) THEN Error
        ELSE [ok |-> TRUE, steps |-> [i \in DOMAIN lines |-> StepOf(lines[i])]]
  BY Zenon DEF parseSacctResponse, Unreadable, StepOf
<1>5. ~Error.ok
  BY DEF Error
<1>6. CASE ss # <<>> /\ \E i \in DOMAIN ss : Unreadable(lines[i])
  <2>1. parseSacctResponse(lines) = Error
    BY <1>2, <1>4, <1>6, Zenon
  <2>2. a = Error
    BY <1>1, <1>5, <2>1, Zenon DEF StepsOf, StepsRead
  <2>3. \E i \in DOMAIN ss : Word("None") \in {ss[i].Start, ss[i].End}
    BY <1>2, <1>3, <1>6, LineTold, Zenon
  <2> QED
    BY <1>5, <2>2, <2>3, Zenon
<1>7. CASE ss # <<>> /\ \A i \in DOMAIN ss : ~Unreadable(lines[i])
  <2>1. PICK list, r : list = [i \in DOMAIN lines |-> StepOf(lines[i])] /\ r = [ok |-> TRUE, steps |-> list]
    OBVIOUS
  <2>2. parseSacctResponse(lines) = r
    BY <1>2, <1>4, <1>7, <2>1, Zenon
  <2>3. r.ok /\ r.steps = list
    BY <2>1
  <2>4. a = [r EXCEPT !.steps = toProtoSteps(@)]
    BY <1>1, <2>2, <2>3, Zenon DEF StepsOf, StepsRead
  <2>5. a.ok /\ a.steps = toProtoSteps(list)
    BY <2>1, <2>4
  <2>6. ASSUME NEW i \in DOMAIN ss
        PROVE  /\ ToldTime(a.steps[i].Start, ss[i].Start) /\ ToldTime(a.steps[i].End, ss[i].End)
               /\ a.steps[i].ExitCode = Parsed(ss[i].ExitCode)
               /\ a.steps[i].Status \in {ss[i].State, "UNKNOWN"}
    <3>1. PICK f, g : f = list[i] /\ g = [f EXCEPT !.Status = ProtoStatus(@)]
      OBVIOUS
    <3>2. f = StepOf(SacctLine(ss[i]))
      BY <1>2, <2>1, <3>1
    <3>3. a.steps[i] = g
      <4>1. DOMAIN list = DOMAIN ss
        BY <1>2, <2>1
      <4> QED
        BY <2>5, <3>1, <4>1 DEF toProtoSteps
    <3>4. ~Unreadable(SacctLine(ss[i])) /\ ss[i] \in StepRecord
      BY <1>2, <1>3, <1>7, Zenon
    <3>5. /\ ToldTime(f.Start, ss[i].Start) /\ ToldTime(f.End, ss[i].End)
          /\ f.ExitCode = Parsed(ss[i].ExitCode) /\ f.Status = ss[i].State
      BY <3>2, <3>4, LineTold, Zenon
    <3>6. DOMAIN f = {"Start", "End", "ExitCode", "Status"}
      BY <3>2 DEF StepOf
    <3>7. g.Start = f.Start /\ g.End = f.End /\ g.ExitCode = f.ExitCode /\ g.Status = ProtoStatus(f.Status)
      BY <3>1, <3>6
    <3>8. ProtoStatus(f.Status) \in {f.Status, "UNKNOWN"}
      BY DEF ProtoStatus
    <3> QED
      BY <3>3, <3>5, <3>7, <3>8, Zenon
  <2> QED
    BY <1>7, <2>5, <2>6, Zenon
<1>8. CASE ss = <<>>
  <2>1. PICK line : line = <<<<>>>>
    OBVIOUS
  <2>2. lines = <<line>>
    BY <1>1, <1>8, <2>1, Zenon DEF SacctLines
  <2>3. Len(line) # 7
    BY <2>1
  <2>4. Unreadable(line)
    BY <2>3 DEF Unreadable
  <2>5. 1 \in DOMAIN lines /\ lines[1] = line
    BY <2>2, Single, Zenon
  <2>6. parseSacctResponse(lines) = Error
    BY <1>4, <2>4, <2>5, Zenon
  <2>7. a = Error
    BY <1>1, <1>5, <2>6, Zenon DEF StepsOf, StepsRead
  <2> QED
    BY <1>5, <1>8, <2>7, Zenon
<1> QED
  BY <1>6, <1>7, <1>8, Zenon

StepsInv ==
  steps \in Seq(StepRecord) /\ ("steps" \in DOMAIN replies => replies["steps"] \in {StepsOf(steps), CallFailed})

LEMMA StepsStay == OutputSpec => []StepsInv
<1>1. OutputInit => StepsInv
  <2> SUFFICES ASSUME OutputInit PROVE StepsInv
    OBVIOUS
  <2>1. steps \in Seq(StepRecord)
    BY StepListsAssumption DEF OutputInit
  <2>2. "steps" \notin DOMAIN replies
    BY DEF OutputInit
  <2> QED
    BY <2>1, <2>2, Zenon DEF StepsInv
<1>2. InfoInv /\ StepsInv /\ [QueryNext \/ NodeNext]_outputVars => StepsInv'
  <2> SUFFICES ASSUME StepsInv, [QueryNext \/ NodeNext]_outputVars PROVE StepsInv'
    OBVIOUS
  <2>1. SJobSteps = StepsRead(steps)
    BY Zenon DEF SJobSteps, StepsRead
  <2>2. steps' = steps /\
        ("steps" \in DOMAIN replies' =>
           \/ replies'["steps"] \in {IF SJobSteps.ok THEN [SJobSteps EXCEPT !.steps = toProtoSteps(@)] ELSE Error,
                                    CallFailed}
           \/ "steps" \in DOMAIN replies /\ replies'["steps"] = replies["steps"])
    BY OtherSteps, Zenon
  <2>3. (IF SJobSteps.ok THEN [SJobSteps EXCEPT !.steps = toProtoSteps(@)] ELSE Error) = StepsOf(steps)
    BY <2>1, Zenon DEF StepsOf
  <2> QED
    BY <2>2, <2>3, Zenon DEF StepsInv
<1> QED
  BY <1>1, <1>2, InfoStays, PTL DEF OutputSpec

(* The run times and limits that JobInfo and JobSteps answer are those Slurm
   printed, to the second, in every format Slurm prints them in, and points in
   time are all ahead by the zone of the agent's host; without a failed call
   an answer is refused only for a limit Partition_Limit, for no step, or for a
   time None. *)
THEOREM TimesAreExact == OutputSpec => []TimesExact
<1>0. ~CallFailed.ok /\ CallFailed.why = "call"
  BY DEF CallFailed
<1>1. InfoInv /\ StepsInv => TimesExact
  <2> SUFFICES ASSUME InfoInv, StepsInv PROVE TimesExact
    OBVIOUS
  <2>1. ASSUME "info" \in DOMAIN replies
        PROVE  /\ ~replies["info"].ok =>
                    \/ replies["info"].why = "call"
                    \/ \E i \in DOMAIN jobs : jobs[i].TimeLimit = Word("Partition_Limit")
               /\ replies["info"].ok =>
                    \A i \in DOMAIN jobs :
                      /\ replies["info"].infos[i].RunTime = Parsed(jobs[i].RunTime)
                      /\ Told(replies["info"].infos[i].TimeLimit, jobs[i].TimeLimit)
                      /\ ToldTime(replies["info"].infos[i].StartTime, jobs[i].StartTime)
    <3>1. replies["info"] \in {InfoOf(jobs), CallFailed} /\ jobs \in Seq(JobRecord)
      BY <2>1, Zenon DEF InfoInv
    <3>2. CASE replies["info"] = InfoOf(jobs)
      BY <3>1, <3>2, InfoTold, Zenon
    <3>3. CASE replies["info"] = CallFailed
      BY <1>0, <3>3, Zenon
    <3> QED
      BY <3>1, <3>2, <3>3, Zenon
  <2>2. ASSUME "steps" \in DOMAIN replies
        PROVE  /\ ~replies["steps"].ok =>
                    \/ replies["steps"].why = "call" \/ steps = <<>>
                    \/ \E i \in DOMAIN steps : Word("None") \in {steps[i].Start, steps[i].End}
               /\ replies["steps"].ok => steps # <<>>
               /\ replies["steps"].ok =>
                    \A i \in DOMAIN steps :
                      /\ ToldTime(replies["steps"].steps[i].Start, steps[i].Start)
                      /\ ToldTime(replies["steps"].steps[i].End, steps[i].End)
                      /\ replies["steps"].steps[i].ExitCode = Parsed(steps[i].ExitCode)
                      /\ replies["steps"].steps[i].Status \in {steps[i].State, "UNKNOWN"}
    <3>1. replies["steps"] \in {StepsOf(steps), CallFailed} /\ steps \in Seq(StepRecord)
      BY <2>2, Zenon DEF StepsInv
    <3>2. CASE replies["steps"] = StepsOf(steps)
      BY <3>1, <3>2, StepsTold
    <3>3. CASE replies["steps"] = CallFailed
      BY <1>0, <3>3, Zenon
    <3> QED
      BY <3>1, <3>2, <3>3, Zenon
  <2> QED
    BY <2>1, <2>2, Zenon DEF TimesExact, Answered, Refused, Unasked, OnlyCallFails
<1> QED
  BY <1>1, InfoStays, StepsStay, PTL

-----------------------------------------------------------------------------
(* The script parser. *)

\* The words of scripts are those of any set W; a job's script has all strings.
Tokens(W) == [word : W, num : Nat]
Values(W) == Seq(Tokens(W))
ScriptWords(W) == [name : W, eq : BOOLEAN, value : Values(W)]
ScriptLines(W) == [kind : {"blank", "sbatch", "comment", "command"}, words : Seq(ScriptWords(W))]

\* What the parser may have read: numbers and times of the script, and no array.
Statuses3 == {"ok", "error", "panic"}
Times(W) == {0} \cup {ParseDuration(text).value : text \in Values(W)}
Read(W) ==
  [Nodes : Int, CpusPerTask : Int, MemPerCpu : Int, NtasksPerNode : Int, Ntasks : {0},
   Array : {<<>>}, WallTime : Times(W)]
Accs(W) == [status : Statuses3, res : Read(W), skip : BOOLEAN]
Flagged == {"Nodes", "CpusPerTask", "MemPerCpu", "NtasksPerNode"}

LEMMA ParsedInt ==
  \A W : \A text \in Values(W) :
    /\ ParseInt(text).ok \in BOOLEAN /\ ParseInt(text).value \in Int
    /\ ParseInt(text).ok /\ (text = <<>> \/ text[1] # Dash) =>
         Len(text) = 1 /\ ParseInt(text).value = text[1].num /\ text[1].num \in Nat
<1> SUFFICES ASSUME NEW W, NEW text \in Values(W)
             PROVE  /\ ParseInt(text).ok \in BOOLEAN /\ ParseInt(text).value \in Int
                    /\ ParseInt(text).ok /\ (text = <<>> \/ text[1] # Dash) =>
                         Len(text) = 1 /\ ParseInt(text).value = text[1].num /\ text[1].num \in Nat
  OBVIOUS
<1>1. Len(text) \in Nat /\ (text = <<>> => Len(text) = 0) /\ \A i \in 1 .. Len(text) : text[i].num \in Nat
  <2>1. Len(text) \in Nat /\ (text = <<>> => Len(text) = 0)
    BY LenProperties, EmptySeq DEF Values
  <2>2. ASSUME NEW i \in 1 .. Len(text) PROVE text[i].num \in Nat
    <3>1. text[i] \in Tokens(W)
      BY <2>2, ElementOfSeq DEF Values
    <3> QED
      BY <3>1 DEF Tokens
  <2> QED
    BY <2>1, <2>2
<1>2. CASE Len(text) = 1 /\ IsNum(text[1])
  <2>1. text[1].num \in Nat
    BY <1>1, <1>2
  <2>2. ParseInt(text) = Parsed(text[1].num)
    BY <1>2, Zenon DEF ParseInt
  <2> QED
    BY <1>2, <2>1, <2>2 DEF Parsed
<1>3. CASE ~(Len(text) = 1 /\ IsNum(text[1])) /\ Len(text) = 2 /\ text[1] = Dash /\ IsNum(text[2])
  <2>1. text[2].num \in Nat
    BY <1>1, <1>3
  <2>2. ParseInt(text) = Parsed(-text[2].num)
    BY <1>3, Zenon DEF ParseInt
  <2>3. text # <<>>
    BY <1>1, <1>3
  <2> QED
    BY <1>3, <2>1, <2>2, <2>3 DEF Parsed
<1>4. CASE ~(Len(text) = 1 /\ IsNum(text[1])) /\ ~(Len(text) = 2 /\ text[1] = Dash /\ IsNum(text[2]))
  <2>1. ParseInt(text) = NotParsed
    BY <1>4, Zenon DEF ParseInt
  <2> QED
    BY <2>1 DEF NotParsed
<1> QED
  BY <1>2, <1>3, <1>4

LEMMA FirstSep ==
  ASSUME NEW T, NEW s \in Seq(T), NEW sep, Contains(s, sep)
  PROVE  /\ FirstAt(s, sep) \in 1 .. Len(s) /\ s[FirstAt(s, sep)] = sep
         /\ \A k \in 1 .. FirstAt(s, sep) - 1 : s[k] # sep
         /\ Before(s, sep) \in Seq(T)
         /\ FirstAt(s, sep) > 1 => Before(s, sep) # <<>> /\ Before(s, sep)[1] = s[1]
<1>0. Len(s) \in Nat
  BY LenProperties
<1>1. PICK S : S = {i \in 1 .. Len(s) : s[i] = sep}
  OBVIOUS
<1>2. S \in SUBSET Nat /\ S # {}
  BY <1>0, <1>1 DEF Contains
<1>3. PICK i \in S : \A y \in S : i <= y
  BY <1>2, NatWF
<1>4. i \in 1 .. Len(s) /\ s[i] = sep /\ \A k \in 1 .. (i - 1) : s[k] # sep
  BY <1>0, <1>1, <1>3
<1>5. /\ FirstAt(s, sep) \in 1 .. Len(s) /\ s[FirstAt(s, sep)] = sep
      /\ \A k \in 1 .. FirstAt(s, sep) - 1 : s[k] # sep
  BY <1>4, Zenon DEF FirstAt
<1>6. PICK n : n = FirstAt(s, sep)
  OBVIOUS
<1>7. Before(s, sep) = SubSeq(s, 1, n - 1) /\ n \in 1 .. Len(s)
  BY <1>5, <1>6 DEF Before
<1>8. n - 1 \in Nat /\ n - 1 <= Len(s) /\ n - 1 \in 1 - 1 .. Len(s) /\ 1 \in 1 .. Len(s) + 1
  BY <1>0, <1>7
<1>9. PICK t : t = SubSeq(s, 1, n - 1)
  OBVIOUS
<1>10. t \in Seq(T) /\ Len(t) = n - 1 /\ \A k \in 1 .. n - 1 : t[k] = s[k]
  BY <1>0, <1>7, <1>8, <1>9, SubSeqProperties
<1>11. n > 1 => t # <<>> /\ t[1] = s[1]
  BY <1>7, <1>10, EmptySeq
<1> QED
  BY <1>5, <1>6, <1>7, <1>9, <1>10, <1>11

\* The text whose number counts: the minimum of a range of nodes.
FieldText(f, text) == IF f = "Nodes" /\ Contains(text, Dash) THEN Before(text, Dash) ELSE text

LEMMA FieldTextType == \A W, f : \A text \in Values(W) : FieldText(f, text) \in Values(W)
  BY FirstSep DEF FieldText, Values

\* A number that is read is the one the text begins with.
LEMMA ReadsAtLeast ==
  ASSUME NEW W, NEW text \in Values(W), text = <<>> \/ text[1] # Dash, NEW f,
         ParseInt(FieldText(f, text)).ok
  PROVE  ParseInt(FieldText(f, text)).value = AtLeast(text) /\ AtLeast(text) \in Nat
<1>1. CASE ~(f = "Nodes" /\ Contains(text, Dash))
  <2>1. FieldText(f, text) = text
    BY <1>1, Zenon DEF FieldText
  <2> QED
    BY <2>1, ParsedInt DEF AtLeast
<1>2. CASE f = "Nodes" /\ Contains(text, Dash)
  <2>1. PICK t : t = Before(text, Dash)
    OBVIOUS
  <2>2. FieldText(f, text) = t
    BY <1>2, <2>1, Zenon DEF FieldText
  <2>3. FirstAt(text, Dash) \in 1 .. Len(text) /\ text[FirstAt(text, Dash)] = Dash /\ Len(text) \in Nat
    BY <1>2, FirstSep, LenProperties DEF Values
  <2>4. text # <<>>
    BY <2>3, EmptySeq
  <2>5. FirstAt(text, Dash) > 1
    BY <2>3, <2>4
  <2>6. t \in Values(W) /\ t[1] = text[1]
    BY <1>2, <2>1, <2>5, FirstSep DEF Values
  <2> QED
    BY <2>2, <2>4, <2>6, ParsedInt DEF AtLeast
<1> QED
  BY <1>1, <1>2

LEMMA SetIntType ==
  ASSUME NEW W, NEW acc \in Accs(W), NEW text \in Values(W), NEW field \in Flagged
  PROVE  /\ SetInt(acc, field, text) \in Accs(W)
         /\ SetInt(acc, field, text).skip = acc.skip
         /\ SetInt(acc, field, text).status \in {acc.status, "error"}
         /\ SetInt(acc, field, text).status = "ok" => ParseInt(text).ok
         /\ ParseInt(text).ok =>
              /\ SetInt(acc, field, text).res[field] = ParseInt(text).value
              /\ SetInt(acc, field, text).status = acc.status
         /\ \A f \in DOMAIN acc.res : f # field => SetInt(acc, field, text).res[f] = acc.res[f]
<1>1. ParseInt(text).value \in Int
  BY ParsedInt
<1>2. CASE ParseInt(text).ok
  <2>1. PICK b : b = [acc EXCEPT !.res[field] = ParseInt(text).value]
    OBVIOUS
  <2>2. SetInt(acc, field, text) = b
    BY <1>2, <2>1 DEF SetInt
  <2>3. b.skip = acc.skip /\ b.status = acc.status /\ b.res = [acc.res EXCEPT ![field] = ParseInt(text).value]
    BY <2>1 DEF Accs
  <2>4. /\ b.res \in Read(W) /\ b.res[field] = ParseInt(text).value
        /\ \A f \in DOMAIN acc.res : f # field => b.res[f] = acc.res[f]
    BY <1>1, <2>3 DEF Accs, Read, Flagged
  <2>5. b \in Accs(W)
    BY <2>1, <2>3, <2>4 DEF Accs
  <2> QED
    BY <1>2, <2>2, <2>3, <2>4, <2>5
<1>3. CASE ~ParseInt(text).ok
  <2>1. SetInt(acc, field, text) = [acc EXCEPT !.status = "error"]
    BY <1>3 DEF SetInt
  <2>2. "error" # "ok"
    OBVIOUS
  <2> QED
    BY <1>3, <2>1, <2>2 DEF Accs, Statuses3
<1> QED
  BY <1>2, <1>3

LEMMA DurationKinds ==
  ASSUME NEW T, NEW text \in Seq(T) PROVE ParseDuration(text).kind \in {"duration", "unlimited", "invalid"}
<1>1. ErrDurationIsUnlimited.kind = "unlimited" /\ InvalidDuration.kind = "invalid" /\ \A n : Duration(n).kind = "duration"
  BY DEF ErrDurationIsUnlimited, InvalidDuration, Duration
<1>2. \A units, numbers : InUnits(units, numbers).kind \in {"duration", "invalid"}
  <2> SUFFICES ASSUME NEW units, NEW numbers PROVE InUnits(units, numbers).kind \in {"duration", "invalid"}
    OBVIOUS
  <2>1. InUnits(units, numbers) = InvalidDuration \/ \E n : InUnits(units, numbers) = Duration(n)
    BY Zenon DEF InUnits
  <2> QED
    BY <1>1, <2>1, Zenon
<1>3. ASSUME NEW parts, Len(parts) \in Nat PROVE PartsDuration(parts).kind \in {"duration", "invalid"}
  <2>1. CASE Len(parts) > 3
    <3>1. ~(Len(parts) <= 3 /\ Contains(parts[1], Dash))
      BY <1>3, <2>1
    <3>2. PartsDuration(parts) = InvalidDuration
      BY <2>1, <3>1, Zenon DEF PartsDuration
    <3> QED
      BY <1>1, <3>2, Zenon
  <2>2. CASE ~(Len(parts) > 3) /\ Len(parts) <= 3 /\ Contains(parts[1], Dash)
    <3>1. PartsDuration(parts) = InUnits(Units(TRUE, Len(parts)),
                                       <<Before(parts[1], Dash), After(parts[1], Dash)>> \o Tail(parts))
      BY <2>2, Zenon DEF PartsDuration
    <3> QED
      BY <1>2, <3>1, Zenon
  <2>3. CASE ~(Len(parts) > 3) /\ ~(Len(parts) <= 3 /\ Contains(parts[1], Dash))
    <3>1. PartsDuration(parts) = InUnits(Units(FALSE, Len(parts)), parts)
      BY <2>3, Zenon DEF PartsDuration
    <3> QED
      BY <1>2, <3>1, Zenon
  <2> QED
    BY <1>3, <2>1, <2>2, <2>3
<1>4. Len(Split(text, Colon)) \in Nat
  <2>1. PICK v : SplitRun(T, text, Colon, v)
    BY SplitFold
  <2>2. Len(text) \in Nat
    BY LenProperties
  <2>3. Len(text) \in 0 .. Len(text)
    BY <2>2
  <2>4. Split(text, Colon) \in Texts(T)
    BY <2>1, <2>3 DEF SplitRun
  <2> QED
    BY <2>4, LenProperties DEF Texts
<1>5. ParseDuration(text) = ErrDurationIsUnlimited \/ ParseDuration(text) = PartsDuration(Split(text, Colon))
  BY Zenon DEF ParseDuration
<1> QED
  BY <1>1, <1>3, <1>4, <1>5, Zenon

LEMMA SetTimeType ==
  ASSUME NEW W, NEW acc \in Accs(W), NEW text \in Values(W), NEW b, b = SetTime(acc, ParseDuration(text))
  PROVE  /\ b \in Accs(W) /\ b.skip = acc.skip /\ b.status \in {acc.status, "error"}
         /\ \A f \in Flagged : b.res[f] = acc.res[f]
<1>1. PICK d : d = ParseDuration(text)
  OBVIOUS
<1>2. d.value \in Times(W) /\ d.kind \in {"duration", "unlimited", "invalid"}
  BY <1>1, DurationKinds DEF Times, Values
<1>0. b = SetTime(acc, d)
  BY <1>1
<1>3. CASE d.kind = "duration"
  <2>1. b = [acc EXCEPT !.res.WallTime = d.value]
    BY <1>0, <1>3 DEF SetTime
  <2>3. b.skip = acc.skip /\ b.status = acc.status /\ b.res = [acc.res EXCEPT !.WallTime = d.value]
    BY <2>1 DEF Accs
  <2>4. b.res \in Read(W) /\ \A f \in Flagged : b.res[f] = acc.res[f]
    BY <1>2, <2>3 DEF Accs, Read, Flagged
  <2>5. b \in Accs(W)
    BY <2>1, <2>3, <2>4 DEF Accs
  <2> QED
    BY <2>3, <2>4, <2>5
<1>4. CASE d.kind = "unlimited"
  <2>1. b = acc
    BY <1>0, <1>4 DEF SetTime
  <2> QED
    BY <2>1
<1>5. CASE d.kind = "invalid"
  <2>1. b = [acc EXCEPT !.status = "error"]
    BY <1>0, <1>5 DEF SetTime
  <2> QED
    BY <2>1 DEF Accs, Statuses3
<1> QED
  BY <1>2, <1>3, <1>4, <1>5, Zenon

LEMMA FlagsAre ==
  /\ DOMAIN FlagsOf = Flagged
  /\ FlagsOf["Nodes"] = {"--nodes", "-N"} /\ FlagsOf["CpusPerTask"] = {"--cpus-per-task", "-c"}
  /\ FlagsOf["MemPerCpu"] = {"--mem-per-cpu"} /\ FlagsOf["NtasksPerNode"] = {"--ntasks-per-node"}
  BY DEF FlagsOf, Flagged

\* What a parameter with value text makes of acc.
Applied(W, acc, param, text, b) ==
  /\ b \in Accs(W) /\ b.skip = acc.skip /\ b.status \in {acc.status, "error"}
  /\ \A f \in Flagged :
       /\ param \in FlagsOf[f] /\ b.status = "ok" =>
            ParseInt(FieldText(f, text)).ok /\ b.res[f] = ParseInt(FieldText(f, text)).value
       /\ param \notin FlagsOf[f] => b.res[f] = acc.res[f]

LEMMA IntApplied ==
  ASSUME NEW W, NEW acc \in Accs(W), NEW text \in Values(W), NEW param, NEW field \in Flagged,
         param \in FlagsOf[field], \A f \in Flagged : f # field => param \notin FlagsOf[f],
         NEW b, b = SetInt(acc, field, FieldText(field, text))
  PROVE  Applied(W, acc, param, text, b)
<1>1. PICK t : t = FieldText(field, text)
  OBVIOUS
<1>2. t \in Values(W)
  BY <1>1, FieldTextType
<1>3. /\ b \in Accs(W) /\ b.skip = acc.skip /\ b.status \in {acc.status, "error"}
      /\ b.status = "ok" => ParseInt(t).ok
      /\ ParseInt(t).ok => b.res[field] = ParseInt(t).value
      /\ \A f \in DOMAIN acc.res : f # field => b.res[f] = acc.res[f]
  BY <1>1, <1>2, SetIntType
<1>4. Flagged \subseteq DOMAIN acc.res
  BY DEF Accs, Read, Flagged
<1> QED
  BY <1>1, <1>3, <1>4, Zenon DEF Applied

LEMMA ParamApplied ==
  ASSUME NEW W, NEW acc \in Accs(W), NEW param, NEW text \in Values(W)
  PROVE  Applied(W, acc, param, text, applySbatchParam(acc, param, text))
<1>1. PICK b : b = applySbatchParam(acc, param, text)
  OBVIOUS
<1>2. Flagged = {"Nodes", "CpusPerTask", "MemPerCpu", "NtasksPerNode"}
  BY DEF Flagged
<1>3. /\ "--time" \notin {"--nodes", "-N", "--cpus-per-task", "-c", "--mem-per-cpu", "--ntasks-per-node"}
      /\ "-t" \notin {"--nodes", "-N", "--cpus-per-task", "-c", "--mem-per-cpu", "--ntasks-per-node"}
      /\ "--nodes" \notin {"--cpus-per-task", "-c", "--mem-per-cpu", "--ntasks-per-node"}
      /\ "-N" \notin {"--cpus-per-task", "-c", "--mem-per-cpu", "--ntasks-per-node"}
      /\ "--cpus-per-task" \notin {"--mem-per-cpu", "--ntasks-per-node"}
      /\ "-c" \notin {"--mem-per-cpu", "--ntasks-per-node"}
      /\ "--mem-per-cpu" # "--ntasks-per-node"
      /\ "CpusPerTask" # "Nodes" /\ "MemPerCpu" # "Nodes" /\ "NtasksPerNode" # "Nodes"
  OBVIOUS
<1>4. CASE param \in {"--time", "-t"}
  <2>1. b = SetTime(acc, ParseDuration(text))
    BY <1>1, <1>3, <1>4, Zenon DEF applySbatchParam
  <2>2. /\ b \in Accs(W) /\ b.skip = acc.skip /\ b.status \in {acc.status, "error"}
        /\ \A f \in Flagged : b.res[f] = acc.res[f]
    BY <2>1, SetTimeType
  <2>3. \A f \in Flagged : param \notin FlagsOf[f]
    BY <1>2, <1>3, <1>4, FlagsAre
  <2> QED
    BY <1>1, <2>2, <2>3, Zenon DEF Applied
<1>5. CASE param \in {"--nodes", "-N"}
  <2>1. b = SetInt(acc, "Nodes", FieldText("Nodes", text))
    BY <1>1, <1>3, <1>5, Zenon DEF applySbatchParam, FieldText
  <2>2. "Nodes" \in Flagged /\ param \in FlagsOf["Nodes"] /\ \A f \in Flagged : f # "Nodes" => param \notin FlagsOf[f]
    BY <1>2, <1>3, <1>5, FlagsAre
  <2> QED
    BY <1>1, <2>1, <2>2, IntApplied, Zenon
<1>6. CASE param = "--mem-per-cpu"
  <2>1. b = SetInt(acc, "MemPerCpu", FieldText("MemPerCpu", text))
    BY <1>1, <1>3, <1>6, Zenon DEF applySbatchParam, FieldText
  <2>2. "MemPerCpu" \in Flagged /\ param \in FlagsOf["MemPerCpu"] /\ \A f \in Flagged : f # "MemPerCpu" => param \notin FlagsOf[f]
    BY <1>2, <1>3, <1>6, FlagsAre
  <2> QED
    BY <1>1, <2>1, <2>2, IntApplied, Zenon
<1>7. CASE param \in {"--cpus-per-task", "-c"}
  <2>1. b = SetInt(acc, "CpusPerTask", FieldText("CpusPerTask", text))
    BY <1>1, <1>3, <1>7, Zenon DEF applySbatchParam, FieldText
  <2>2. /\ "CpusPerTask" \in Flagged /\ param \in FlagsOf["CpusPerTask"]
        /\ \A f \in Flagged : f # "CpusPerTask" => param \notin FlagsOf[f]
    BY <1>2, <1>3, <1>7, FlagsAre
  <2> QED
    BY <1>1, <2>1, <2>2, IntApplied, Zenon
<1>8. CASE param = "--ntasks-per-node"
  <2>1. b = SetInt(acc, "NtasksPerNode", FieldText("NtasksPerNode", text))
    BY <1>1, <1>3, <1>8, Zenon DEF applySbatchParam, FieldText
  <2>2. /\ "NtasksPerNode" \in Flagged /\ param \in FlagsOf["NtasksPerNode"]
        /\ \A f \in Flagged : f # "NtasksPerNode" => param \notin FlagsOf[f]
    BY <1>2, <1>3, <1>8, FlagsAre
  <2> QED
    BY <1>1, <2>1, <2>2, IntApplied, Zenon
<1>9. CASE param \notin {"--time", "-t", "--nodes", "-N", "--mem-per-cpu", "--cpus-per-task", "-c", "--ntasks-per-node"}
  <2>1. b = acc
    BY <1>1, <1>9, Zenon DEF applySbatchParam
  <2>2. \A f \in Flagged : param \notin FlagsOf[f]
    BY <1>2, <1>9, FlagsAre
  <2> QED
    BY <1>1, <2>1, <2>2, Zenon DEF Applied
<1> QED
  BY <1>4, <1>5, <1>6, <1>7, <1>8, <1>9, Zenon

LEMMA WordTextType ==
  ASSUME NEW W, NEW word \in ScriptWords(W)
  PROVE  /\ WordText(word) \in Values(W) /\ word.value \in Values(W) /\ word.eq \in BOOLEAN
         /\ ~word.eq => WordText(word) = word.value
<1>1. word.value \in Values(W) /\ word.name \in W /\ word.eq \in BOOLEAN
  BY DEF ScriptWords
<1>2. Word(word.name) \in Tokens(W)
  BY <1>1 DEF Word, Tokens
<1>3. <<Word(word.name)>> \in Values(W)
  BY <1>2 DEF Values
<1> QED
  BY <1>1, <1>3, Zenon DEF WordText

\* The value that follows a flag, in the same word or in the next one.
ValueOf(words, j) == IF words[j].eq THEN words[j].value ELSE WordText(words[j + 1])

\* What the j-th word makes of a.
Scanned(W, words, a, j, b) ==
  \/ a.status # "ok" /\ b = a
  \/ a.status = "ok" /\ a.skip /\ b = [a EXCEPT !.skip = FALSE]
  \/ a.status = "ok" /\ ~a.skip /\ ~words[j].eq /\ j = Len(words) /\ b = [a EXCEPT !.status = "panic"]
  \/ /\ a.status = "ok" /\ ~a.skip /\ (words[j].eq \/ j # Len(words))
     /\ ValueOf(words, j) \in Values(W)
     /\ \E c : Applied(W, a, words[j].name, ValueOf(words, j), c) /\ b = [c EXCEPT !.skip = ~words[j].eq]

LEMMA ScanWordIs ==
  ASSUME NEW W, NEW words \in Seq(ScriptWords(W)), NEW a \in Accs(W), NEW j \in 1 .. Len(words)
  PROVE  Scanned(W, words, a, j, ScanWord(words, a, j))
<1>1. Len(words) \in Nat /\ words[j] \in ScriptWords(W) /\ words[j].eq \in BOOLEAN /\ a.skip \in BOOLEAN
  BY LenProperties, ElementOfSeq, WordTextType DEF Accs
<1>2. CASE a.status # "ok"
  BY <1>2, Zenon DEF ScanWord, Scanned
<1>3. CASE a.status = "ok" /\ a.skip
  BY <1>3, Zenon DEF ScanWord, Scanned
<1>4. CASE a.status = "ok" /\ ~a.skip /\ ~words[j].eq /\ j = Len(words)
  BY <1>4, Zenon DEF ScanWord, Scanned
<1>5. CASE a.status = "ok" /\ ~a.skip /\ (words[j].eq \/ j # Len(words))
  <2>1. ScanWord(words, a, j) = [applySbatchParam(a, words[j].name, ValueOf(words, j)) EXCEPT !.skip = ~words[j].eq]
    BY <1>5, Zenon DEF ScanWord, ValueOf
  <2>2. ValueOf(words, j) \in Values(W)
    <3>1. CASE words[j].eq
      BY <1>1, <3>1, WordTextType DEF ValueOf
    <3>2. CASE ~words[j].eq
      <4>1. j + 1 \in 1 .. Len(words)
        BY <1>1, <1>5, <3>2
      <4>2. words[j + 1] \in ScriptWords(W)
        BY <4>1, ElementOfSeq
      <4> QED
        BY <3>2, <4>2, WordTextType DEF ValueOf
    <3> QED
      BY <3>1, <3>2
  <2>3. Applied(W, a, words[j].name, ValueOf(words, j), applySbatchParam(a, words[j].name, ValueOf(words, j)))
    BY <2>2, ParamApplied
  <2> QED
    BY <1>5, <2>1, <2>2, <2>3, Zenon DEF Scanned
<1> QED
  BY <1>2, <1>3, <1>4, <1>5

LEMMA ScannedType ==
  ASSUME NEW W, NEW words, NEW a \in Accs(W), NEW j, NEW b, Scanned(W, words, a, j, b), words[j].eq \in BOOLEAN
  PROVE  b \in Accs(W)
<1>1. CASE b = a
  BY <1>1
<1>2. CASE b = [a EXCEPT !.skip = FALSE]
  BY <1>2 DEF Accs
<1>3. CASE b = [a EXCEPT !.status = "panic"]
  BY <1>3 DEF Accs, Statuses3
<1>4. CASE \E c : Applied(W, a, words[j].name, ValueOf(words, j), c) /\ b = [c EXCEPT !.skip = ~words[j].eq]
  <2>1. PICK c : c \in Accs(W) /\ b = [c EXCEPT !.skip = ~words[j].eq]
    BY <1>4, Zenon DEF Applied
  <2> QED
    BY <2>1 DEF Accs
<1> QED
  BY <1>1, <1>2, <1>3, <1>4, Zenon DEF Scanned

\* A run of n steps from base.
IsRun(X, n, G, base, v) ==
  v \in [0 .. n -> X] /\ v[0] = base /\ \A k \in 1 .. n : v[k] = G[k][v[k - 1]]

\* What a fold satisfies on the initial sets of its indices.
Folded(X, n, G, base, it) ==
  /\ base \in X /\ n \in Nat /\ G \in [1 .. n -> [X -> X]] /\ it[{}] = base
  /\ \A k \in 1 .. n : it[1 .. k - 1] \in X => it[1 .. k] = G[k][it[1 .. k - 1]]

\* A fold is the last state of a run.
LEMMA RunOfFold ==
  \A Y, m, H, b, f : Folded(Y, m, H, b, f) => \E r : IsRun(Y, m, H, b, r) /\ f[1 .. m] = r[m]
<1> SUFFICES ASSUME NEW X, NEW n, NEW G, NEW base, NEW it, Folded(X, n, G, base, it)
             PROVE  \E v : IsRun(X, n, G, base, v) /\ it[1 .. n] = v[n]
  OBVIOUS
<1>0. /\ base \in X /\ n \in Nat /\ G \in [1 .. n -> [X -> X]] /\ it[{}] = base
      /\ \A k \in 1 .. n : it[1 .. k - 1] \in X => it[1 .. k] = G[k][it[1 .. k - 1]]
  BY Zenon DEF Folded
<1> DEFINE v == [k \in 0 .. n |-> it[1 .. k]]
<1>1. v[0] = base
  <2>1. 0 \in 0 .. n /\ 1 .. 0 = {}
    BY <1>0
  <2> QED
    BY <1>0, <2>1
<1>2. ASSUME NEW k \in 1 .. n, v[k - 1] \in X PROVE v[k] = G[k][v[k - 1]]
  <2>1. k \in 0 .. n /\ k - 1 \in 0 .. n
    BY <1>0
  <2>2. v[k] = it[1 .. k] /\ v[k - 1] = it[1 .. k - 1]
    BY <2>1
  <2> QED
    BY <1>0, <1>2, <2>2, Zenon
<1>3. v[n] = it[1 .. n]
  BY <1>0
<1>4. v = [k \in 0 .. n |-> v[k]]
  OBVIOUS
<1> HIDE DEF v
<1> DEFINE P == {k \in Nat : k <= n => v[k] \in X}
<1>5. 0 \in P
  BY <1>0, <1>1
<1>6. ASSUME NEW k \in Nat, k \in P PROVE k + 1 \in P
  <2> SUFFICES ASSUME k + 1 <= n PROVE v[k + 1] \in X
    OBVIOUS
  <2>1. k + 1 \in 1 .. n /\ k <= n /\ (k + 1) - 1 = k
    BY <1>0
  <2>3. v[k] \in X
    BY <1>6, <2>1
  <2>2. v[k + 1] = G[k + 1][v[k]]
    BY <1>2, <2>1, <2>3
  <2> QED
    BY <1>0, <2>1, <2>2, <2>3
<1> HIDE DEF P
<1>7. Nat \subseteq P
  BY <1>5, <1>6, NatInduct
<1>8. \A k \in 0 .. n : v[k] \in X
  BY <1>0, <1>7 DEF P
<1>9. v \in [0 .. n -> X]
  BY <1>4, <1>8
<1>10. \A k \in 1 .. n : v[k] = G[k][v[k - 1]]
  <2> SUFFICES ASSUME NEW k \in 1 .. n PROVE v[k] = G[k][v[k - 1]]
    OBVIOUS
  <2>1. k - 1 \in 0 .. n
    BY <1>0
  <2> QED
    BY <1>2, <1>8, <2>1
<1> QED
  BY <1>1, <1>3, <1>9, <1>10 DEF IsRun

WordSteps(words, base, indices, it) ==
  [d \in SUBSET DOMAIN indices |->
     IF d = {} THEN base ELSE ScanWord(words, it[d \ {Max(d)}], indices[Max(d)])]

WordFold(words, base, indices) == CHOOSE it : it = WordSteps(words, base, indices, it)

LEMMA ScanLineIs ==
  ASSUME NEW acc, NEW line, line.kind # "blank", NEW words, words = line.words,
         NEW base, base = [acc EXCEPT !.skip = FALSE], NEW indices, indices = [j \in DOMAIN words |-> j]
  PROVE  ScanLine(acc, line) = WordFold(words, base, indices)[DOMAIN indices]
<1>1. words = line.words /\ base = [acc EXCEPT !.skip = FALSE]
  OBVIOUS
<1>2. ScanLine(acc, line) = FoldLeftDomain(LAMBDA a, j : ScanWord(words, a, j), base, words)
  BY <1>1 DEF ScanLine
<1>3. FoldLeftDomain(LAMBDA a, j : ScanWord(words, a, j), base, words)
        = FoldLeft(LAMBDA a, j : ScanWord(words, a, j), base, indices)
  BY <1>1 DEF FoldLeftDomain
<1>4. FoldLeft(LAMBDA a, j : ScanWord(words, a, j), base, indices)
        = (CHOOSE it : it = WordSteps(words, base, indices, it))[DOMAIN indices]
  BY DEF FoldLeft, MapThenFoldSet, WordSteps
<1>5. ScanLine(acc, line) = FoldLeft(LAMBDA a, j : ScanWord(words, a, j), base, indices)
  BY <1>2, <1>3, Zenon
<1>6. ScanLine(acc, line) = (CHOOSE it : it = WordSteps(words, base, indices, it))[DOMAIN indices]
  BY <1>4, <1>5, Zenon
<1> QED
  BY <1>6, Zenon DEF WordFold

LineSteps(base, lines, it) ==
  [d \in SUBSET DOMAIN lines |-> IF d = {} THEN base ELSE ScanLine(it[d \ {Max(d)}], lines[Max(d)])]

LEMMA LinesAre ==
  ASSUME NEW base, NEW lines
  PROVE  FoldLeft(ScanLine, base, lines) = (CHOOSE it : it = LineSteps(base, lines, it))[DOMAIN lines]
  BY DEF FoldLeft, MapThenFoldSet, LineSteps

\* v[k] is what the parser knows after k words of a line.
WordRun(W, words, acc, v) ==
  /\ v \in [0 .. Len(words) -> Accs(W)] /\ v[0] = [acc EXCEPT !.skip = FALSE]
  /\ \A k \in 1 .. Len(words) : Scanned(W, words, v[k - 1], k, v[k]) /\ v[k] = ScanWord(words, v[k - 1], k)

LEMMA WordRunExists ==
  ASSUME NEW W, NEW line \in ScriptLines(W), line.kind # "blank", NEW acc \in Accs(W)
  PROVE  \E v : WordRun(W, line.words, acc, v) /\ ScanLine(acc, line) = v[Len(line.words)]
<1>1. PICK words, base : words = line.words /\ base = [acc EXCEPT !.skip = FALSE]
  OBVIOUS
<1>2. words \in Seq(ScriptWords(W)) /\ base \in Accs(W)
  BY <1>1 DEF ScriptLines, Accs
<1>21. PICK n, X : n = Len(words) /\ X = Accs(W)
  OBVIOUS
<1>22. PICK G : G = [k \in 1 .. n |-> [a \in X |-> ScanWord(words, a, k)]]
  OBVIOUS
<1>3. n \in Nat /\ DOMAIN words = 1 .. n /\ \A k \in 1 .. n : words[k] \in ScriptWords(W)
  BY <1>2, <1>21, LenProperties, ElementOfSeq
<1>4. ASSUME NEW k \in 1 .. n, NEW a \in X
      PROVE  ScanWord(words, a, k) \in X /\ Scanned(W, words, a, k, ScanWord(words, a, k))
  <2>1. Scanned(W, words, a, k, ScanWord(words, a, k))
    BY <1>2, <1>21, ScanWordIs
  <2>2. words[k].eq \in BOOLEAN
    BY <1>3, WordTextType
  <2> QED
    BY <1>21, <2>1, <2>2, ScannedType
<1>5. G \in [1 .. n -> [X -> X]]
  BY <1>4, <1>22
<1>6. PICK indices : indices = [j \in DOMAIN words |-> j]
  OBVIOUS
<1>7. DOMAIN indices = 1 .. n /\ \A k \in 1 .. n : indices[k] = k
  BY <1>3, <1>6
<1>8. \A k \in 1 .. n : \A a \in X : G[k][a] = ScanWord(words, a, k)
  BY <1>22
<1>20. base \in X
  BY <1>2, <1>21
<1>9. PICK g \in [SUBSET (1 .. n) -> X] : IsFold(g, n, G, base)
  BY <1>3, <1>5, <1>20, FoldExists
<1>10. g = WordSteps(words, base, indices, g)
  <2>1. ASSUME NEW d \in SUBSET (1 .. n), d # {}
        PROVE  G[Max(d)][g[d \ {Max(d)}]] = ScanWord(words, g[d \ {Max(d)}], indices[Max(d)])
    <3>1. Max(d) \in 1 .. n /\ d \ {Max(d)} \in SUBSET (1 .. n)
      BY <1>3, <2>1, MaxOfSet
    <3>2. g[d \ {Max(d)}] \in X
      BY <3>1
    <3> QED
      BY <1>7, <1>8, <3>1, <3>2
  <2>2. \A d \in SUBSET (1 .. n) :
          g[d] = IF d = {} THEN base ELSE ScanWord(words, g[d \ {Max(d)}], indices[Max(d)])
    BY <1>9, <2>1 DEF IsFold
  <2> QED
    BY <1>7, <2>2 DEF WordSteps
<1>11. PICK it : it = WordFold(words, base, indices)
  OBVIOUS
<1>12. it = WordSteps(words, base, indices, it)
  BY <1>10, <1>11, Zenon DEF WordFold
<1>13. \A d \in SUBSET (1 .. n) :
         it[d] = IF d = {} THEN base ELSE ScanWord(words, it[d \ {Max(d)}], indices[Max(d)])
  BY <1>7, <1>12 DEF WordSteps
<1>14. it[{}] = base
  BY <1>13
<1>15. ASSUME NEW k \in 1 .. n, it[1 .. k - 1] \in X PROVE it[1 .. k] = G[k][it[1 .. k - 1]]
  <2>0. k \in Nat /\ k # 0 /\ 1 .. k \in SUBSET (1 .. n)
    BY <1>3
  <2>1. 1 .. k \in SUBSET (1 .. n) /\ 1 .. k # {} /\ Max(1 .. k) = k /\ (1 .. k) \ {k} = 1 .. k - 1
    BY <2>0, InitialSets
  <2>2. it[1 .. k] = ScanWord(words, it[1 .. k - 1], indices[k])
    BY <1>13, <2>1
  <2> QED
    BY <1>7, <1>8, <1>15, <2>2
<1>16. PICK v : IsRun(X, n, G, base, v) /\ it[1 .. n] = v[n]
  <2>1. \A k \in 1 .. n : it[1 .. k - 1] \in X => it[1 .. k] = G[k][it[1 .. k - 1]]
    BY <1>15
  <2>2. Folded(X, n, G, base, it)
    BY <1>3, <1>5, <1>14, <1>20, <2>1 DEF Folded
  <2> QED
    BY <2>2, RunOfFold, SMT
<1>17. ScanLine(acc, line) = v[n]
  <2>2. ScanLine(acc, line) = WordFold(words, base, indices)[DOMAIN indices]
    BY <1>1, <1>6, ScanLineIs, SMT
  <2>3. ScanLine(acc, line) = it[DOMAIN indices]
    BY <1>11, <2>2, Zenon
  <2> QED
    BY <1>7, <1>16, <2>3
<1>18. ASSUME NEW k \in 1 .. n PROVE Scanned(W, words, v[k - 1], k, v[k]) /\ v[k] = ScanWord(words, v[k - 1], k)
  <2>1. k - 1 \in 0 .. n
    BY <1>3
  <2>2. v[k - 1] \in X /\ v[k] = G[k][v[k - 1]]
    BY <1>16, <2>1 DEF IsRun
  <2> QED
    BY <1>4, <1>8, <2>2
<1>19. WordRun(W, words, acc, v)
  BY <1>1, <1>16, <1>18, <1>21 DEF WordRun, IsRun
<1> QED
  BY <1>1, <1>17, <1>19, <1>21

LEMMA ScanLineType ==
  ASSUME NEW W, NEW line \in ScriptLines(W), NEW acc \in Accs(W) PROVE ScanLine(acc, line) \in Accs(W)
<1>1. CASE line.kind = "blank"
  BY <1>1 DEF ScanLine
<1>2. CASE line.kind # "blank"
  <2>1. PICK v : WordRun(W, line.words, acc, v) /\ ScanLine(acc, line) = v[Len(line.words)]
    BY <1>2, WordRunExists
  <2>2. Len(line.words) \in 0 .. Len(line.words)
    BY LenProperties DEF ScriptLines
  <2> QED
    BY <2>1, <2>2 DEF WordRun
<1> QED
  BY <1>1, <1>2

\* u[k] is what the parser knows after k lines.
LineRun(W, lines, u) ==
  /\ u \in [0 .. Len(lines) -> Accs(W)] /\ u[0] = Extracted("ok", NoResources)
  /\ \A k \in 1 .. Len(lines) : u[k] = ScanLine(u[k - 1], lines[k])

LEMMA StartType == \A W : Extracted("ok", NoResources) \in Accs(W)
  BY DEF Extracted, NoResources, Accs, Read, Times, Statuses3

LEMMA LineRunExists ==
  ASSUME NEW W, NEW lines \in Seq(ScriptLines(W))
  PROVE  \E u : LineRun(W, lines, u) /\ FoldLeft(ScanLine, Extracted("ok", NoResources), lines) = u[Len(lines)]
<1>1. PICK base : base = Extracted("ok", NoResources)
  OBVIOUS
<1>2. base \in Accs(W)
  BY <1>1, StartType
<1>21. PICK n, X : n = Len(lines) /\ X = Accs(W)
  OBVIOUS
<1>22. PICK G : G = [k \in 1 .. n |-> [a \in X |-> ScanLine(a, lines[k])]]
  OBVIOUS
<1>3. n \in Nat /\ DOMAIN lines = 1 .. n /\ \A k \in 1 .. n : lines[k] \in ScriptLines(W)
  BY <1>21, LenProperties, ElementOfSeq
<1>5. G \in [1 .. n -> [X -> X]]
  BY <1>3, <1>21, <1>22, ScanLineType
<1>8. \A k \in 1 .. n : \A a \in X : G[k][a] = ScanLine(a, lines[k])
  BY <1>22
<1>20. base \in X
  BY <1>2, <1>21
<1>9. PICK g \in [SUBSET (1 .. n) -> X] : IsFold(g, n, G, base)
  BY <1>3, <1>5, <1>20, FoldExists
<1>10. g = LineSteps(base, lines, g)
  <2>1. ASSUME NEW d \in SUBSET (1 .. n), d # {}
        PROVE  G[Max(d)][g[d \ {Max(d)}]] = ScanLine(g[d \ {Max(d)}], lines[Max(d)])
    <3>1. Max(d) \in 1 .. n /\ d \ {Max(d)} \in SUBSET (1 .. n)
      BY <1>3, <2>1, MaxOfSet
    <3>2. g[d \ {Max(d)}] \in X
      BY <3>1
    <3> QED
      BY <1>8, <3>1, <3>2
  <2>2. \A d \in SUBSET (1 .. n) : g[d] = IF d = {} THEN base ELSE ScanLine(g[d \ {Max(d)}], lines[Max(d)])
    BY <1>9, <2>1 DEF IsFold
  <2> QED
    BY <1>3, <2>2 DEF LineSteps
<1>11. PICK it : it = CHOOSE x : x = LineSteps(base, lines, x)
  OBVIOUS
<1>12. it = LineSteps(base, lines, it)
  BY <1>10, <1>11, Zenon
<1>13. \A d \in SUBSET (1 .. n) : it[d] = IF d = {} THEN base ELSE ScanLine(it[d \ {Max(d)}], lines[Max(d)])
  BY <1>3, <1>12 DEF LineSteps
<1>14. it[{}] = base
  BY <1>13
<1>15. ASSUME NEW k \in 1 .. n, it[1 .. k - 1] \in X PROVE it[1 .. k] = G[k][it[1 .. k - 1]]
  <2>0. k \in Nat /\ k # 0 /\ 1 .. k \in SUBSET (1 .. n)
    BY <1>3
  <2>1. 1 .. k \in SUBSET (1 .. n) /\ 1 .. k # {} /\ Max(1 .. k) = k /\ (1 .. k) \ {k} = 1 .. k - 1
    BY <2>0, InitialSets
  <2>2. it[1 .. k] = ScanLine(it[1 .. k - 1], lines[k])
    BY <1>13, <2>1
  <2> QED
    BY <1>8, <1>15, <2>2
<1>16. PICK u : IsRun(X, n, G, base, u) /\ it[1 .. n] = u[n]
  <2>1. \A k \in 1 .. n : it[1 .. k - 1] \in X => it[1 .. k] = G[k][it[1 .. k - 1]]
    BY <1>15
  <2>2. Folded(X, n, G, base, it)
    BY <1>3, <1>5, <1>14, <1>20, <2>1 DEF Folded
  <2> QED
    BY <2>2, RunOfFold, SMT
<1>17. FoldLeft(ScanLine, base, lines) = u[n]
  BY <1>3, <1>11, <1>16, LinesAre, Zenon
<1>18. ASSUME NEW k \in 1 .. n PROVE u[k] = ScanLine(u[k - 1], lines[k])
  <2>1. k - 1 \in 0 .. n
    BY <1>3
  <2>2. u[k - 1] \in X /\ u[k] = G[k][u[k - 1]]
    BY <1>16, <2>1 DEF IsRun
  <2> QED
    BY <1>8, <2>2
<1>19. LineRun(W, lines, u)
  BY <1>1, <1>16, <1>18, <1>21 DEF LineRun, IsRun
<1> QED
  BY <1>1, <1>17, <1>19, <1>21

NonEqFlag(word) == ~word.eq /\ IsFlag(word)

\* What Valued says of one word.
LEMMA ValuedIs ==
  ASSUME NEW W, NEW line \in ScriptLines(W), Valued(line), NEW j \in 1 .. Len(line.words)
  PROVE  /\ line.words[j].value = <<>> \/ line.words[j].value[1] # Dash
         /\ NonEqFlag(line.words[j]) =>
              j + 1 \in 1 .. Len(line.words) /\ ~IsFlag(line.words[j + 1]) /\ ~line.words[j + 1].eq
         /\ ~line.words[j].eq /\ ~IsFlag(line.words[j]) => j > 1 /\ NonEqFlag(line.words[j - 1])
<1>1. PICK words : words = line.words
  OBVIOUS
<1>2. words \in Seq(ScriptWords(W))
  BY <1>1 DEF ScriptLines
<1>3. Len(words) \in Nat /\ DOMAIN words = 1 .. Len(words) /\ j \in 1 .. Len(words)
  BY <1>1, <1>2, LenProperties
<1>4. /\ words[j].value = <<>> \/ words[j].value[1] # Dash
      /\ ~words[j].eq => IF IsFlag(words[j])
                         THEN j < Len(words) /\ ~IsFlag(words[j + 1]) /\ ~words[j + 1].eq
                         ELSE j > 1 /\ ~words[j - 1].eq /\ IsFlag(words[j - 1])
  BY <1>1, <1>3, Zenon DEF Valued
<1>5. j < Len(words) => j + 1 \in 1 .. Len(words)
  BY <1>3
<1> QED
  BY <1>1, <1>4, <1>5, Zenon DEF NonEqFlag

\* In a line whose flags have values, the word that is skipped is the value of
\* the flag before it.
LEMMA SkipsAre ==
  ASSUME NEW W, NEW line \in ScriptLines(W), Valued(line), NEW acc \in Accs(W), NEW v,
         WordRun(W, line.words, acc, v)
  PROVE  \A k \in 0 .. Len(line.words) :
           v[k].status = "ok" => (v[k].skip <=> k # 0 /\ NonEqFlag(line.words[k]))
<1>1. PICK words, n : words = line.words /\ n = Len(words)
  OBVIOUS
<1>2. words \in Seq(ScriptWords(W)) /\ n \in Nat
  BY <1>1, LenProperties DEF ScriptLines
<1>3. v \in [0 .. n -> Accs(W)] /\ v[0] = [acc EXCEPT !.skip = FALSE] /\ \A k \in 1 .. n : Scanned(W, words, v[k - 1], k, v[k])
  BY <1>1 DEF WordRun
<1> DEFINE Inv(k) == v[k].status = "ok" => (v[k].skip <=> k # 0 /\ NonEqFlag(words[k]))
           P == {k \in Nat : k <= n => Inv(k)}
<1>4. 0 \in P
  BY <1>3 DEF Accs
<1>5. ASSUME NEW k \in Nat, k \in P PROVE k + 1 \in P
  <2> SUFFICES ASSUME k + 1 <= n PROVE Inv(k + 1)
    OBVIOUS
  <2>1. k + 1 \in 1 .. n /\ k \in 0 .. n /\ (k + 1) - 1 = k /\ k <= n /\ k + 1 # 0
    BY <1>2
  <2>2. PICK a, b, j : a = v[k] /\ b = v[k + 1] /\ j = k + 1
    OBVIOUS
  <2>3. a \in Accs(W) /\ Scanned(W, words, a, j, b) /\ j \in 1 .. n
    BY <1>3, <2>1, <2>2
  <2>4. a.status = "ok" => (a.skip <=> k # 0 /\ NonEqFlag(words[k]))
    BY <1>5, <2>1, <2>2
  <2>5. /\ NonEqFlag(words[j]) => ~IsFlag(words[j + 1]) /\ ~words[j + 1].eq
        /\ ~words[j].eq /\ ~IsFlag(words[j]) => j > 1 /\ NonEqFlag(words[j - 1])
    BY <1>1, <2>3, ValuedIs
  <2>6. k # 0 => (NonEqFlag(words[k]) => ~IsFlag(words[k + 1]) /\ ~words[k + 1].eq)
    <3> SUFFICES ASSUME k # 0 PROVE NonEqFlag(words[k]) => ~IsFlag(words[k + 1]) /\ ~words[k + 1].eq
      OBVIOUS
    <3>1. k \in 1 .. Len(line.words)
      BY <1>1, <2>1
    <3> QED
      BY <1>1, <3>1, ValuedIs
  <2>7. b.status = "ok" => (b.skip <=> NonEqFlag(words[j]))
    <3>1. CASE a.status # "ok" /\ b = a
      BY <3>1
    <3>2. CASE a.status = "ok" /\ a.skip /\ b = [a EXCEPT !.skip = FALSE]
      <4>1. ~b.skip
        BY <2>3, <3>2 DEF Accs
      <4>2. ~NonEqFlag(words[j])
        BY <2>2, <2>4, <2>6, <3>2 DEF NonEqFlag
      <4> QED
        BY <4>1, <4>2
    <3>3. CASE a.status = "ok" /\ ~a.skip /\ ~words[j].eq /\ j = Len(words) /\ b = [a EXCEPT !.status = "panic"]
      BY <2>3, <3>3 DEF Accs
    <3>4. CASE /\ a.status = "ok" /\ ~a.skip
               /\ \E c : Applied(W, a, words[j].name, ValueOf(words, j), c) /\ b = [c EXCEPT !.skip = ~words[j].eq]
      <4>1. PICK c : c \in Accs(W) /\ b = [c EXCEPT !.skip = ~words[j].eq]
        BY <3>4, Zenon DEF Applied
      <4>2. b.skip = ~words[j].eq
        BY <4>1 DEF Accs
      <4>3. ~words[j].eq => IsFlag(words[j])
        <5> SUFFICES ASSUME ~words[j].eq, ~IsFlag(words[j]) PROVE FALSE
          OBVIOUS
        <5>1. j > 1 /\ NonEqFlag(words[j - 1]) /\ j - 1 = k /\ k # 0
          BY <2>2, <2>5
        <5> QED
          BY <2>4, <3>4, <5>1
      <4> QED
        BY <4>2, <4>3 DEF NonEqFlag
    <3> QED
      BY <2>3, <3>1, <3>2, <3>3, <3>4, Zenon DEF Scanned
  <2> QED
    BY <2>1, <2>2, <2>7
<1> HIDE DEF P
<1>6. Nat \subseteq P
  BY <1>4, <1>5, NatInduct
<1>7. \A k \in 0 .. n : Inv(k)
  <2> HIDE DEF Inv
  <2> QED
    BY <1>2, <1>6 DEF P
<1> QED
  BY <1>1, <1>7

\* Only a flag without a value at the end of a line takes the parser down.
BadEnd(line) == ~Valued(line) /\ ~line.words[Len(line.words)].eq

LEMMA PanicLine ==
  ASSUME NEW W, NEW line \in ScriptLines(W), NEW acc \in Accs(W), NEW v, WordRun(W, line.words, acc, v)
  PROVE  \A k \in 0 .. Len(line.words) : v[k].status = "panic" => acc.status = "panic" \/ BadEnd(line)
<1>1. PICK words, n : words = line.words /\ n = Len(words)
  OBVIOUS
<1>2. words \in Seq(ScriptWords(W)) /\ n \in Nat
  BY <1>1, LenProperties DEF ScriptLines
<1>3. v \in [0 .. n -> Accs(W)] /\ v[0] = [acc EXCEPT !.skip = FALSE] /\ \A k \in 1 .. n : Scanned(W, words, v[k - 1], k, v[k])
  BY <1>1 DEF WordRun
<1> DEFINE P == {k \in Nat : k <= n => (v[k].status = "panic" => acc.status = "panic" \/ BadEnd(line))}
<1>4. 0 \in P
  BY <1>3 DEF Accs
<1>5. ASSUME NEW k \in Nat, k \in P PROVE k + 1 \in P
  <2> SUFFICES ASSUME k + 1 <= n, v[k + 1].status = "panic" PROVE acc.status = "panic" \/ BadEnd(line)
    OBVIOUS
  <2>1. k + 1 \in 1 .. n /\ k \in 0 .. n /\ (k + 1) - 1 = k /\ k <= n /\ k + 1 # 0
    BY <1>2
  <2>2. PICK a, b, j : a = v[k] /\ b = v[k + 1] /\ j = k + 1
    OBVIOUS
  <2>3. a \in Accs(W) /\ Scanned(W, words, a, j, b) /\ j \in 1 .. n
    BY <1>3, <2>1, <2>2
  <2>4. a.status = "panic" => acc.status = "panic" \/ BadEnd(line)
    BY <1>5, <2>1, <2>2
  <2>5. CASE a.status # "ok" /\ b = a
    BY <2>2, <2>4, <2>5
  <2>6. CASE a.status = "ok" /\ a.skip /\ b = [a EXCEPT !.skip = FALSE]
    BY <2>2, <2>3, <2>6 DEF Accs
  <2>7. CASE a.status = "ok" /\ ~a.skip /\ ~words[j].eq /\ j = Len(words) /\ b = [a EXCEPT !.status = "panic"]
    <3>1. ~Valued(line)
      <4> SUFFICES ASSUME Valued(line) PROVE FALSE
        OBVIOUS
      <4>1. /\ NonEqFlag(words[j]) => j + 1 \in 1 .. Len(words)
            /\ ~words[j].eq /\ ~IsFlag(words[j]) => j > 1 /\ NonEqFlag(words[j - 1])
        BY <1>1, <2>3, ValuedIs
      <4>2. ~IsFlag(words[j])
        BY <1>1, <1>2, <2>7, <4>1 DEF NonEqFlag
      <4>3. j > 1 /\ NonEqFlag(words[j - 1]) /\ j - 1 = k /\ k # 0
        BY <2>2, <2>7, <4>1, <4>2
      <4>4. a.status = "ok" => (a.skip <=> k # 0 /\ NonEqFlag(words[k]))
        BY <1>1, <2>1, <2>2, SkipsAre
      <4> QED
        BY <2>7, <4>3, <4>4
    <3> QED
      BY <1>1, <2>7, <3>1 DEF BadEnd
  <2>8. CASE /\ a.status = "ok"
             /\ \E c : Applied(W, a, words[j].name, ValueOf(words, j), c) /\ b = [c EXCEPT !.skip = ~words[j].eq]
    <3>1. PICK c : c \in Accs(W) /\ b = [c EXCEPT !.skip = ~words[j].eq] /\ c.status \in {a.status, "error"}
      BY <2>8, Zenon DEF Applied
    <3>2. b.status = c.status
      BY <3>1 DEF Accs
    <3> QED
      BY <2>2, <2>8, <3>1, <3>2
  <2> QED
    BY <2>3, <2>5, <2>6, <2>7, <2>8, Zenon DEF Scanned
<1> HIDE DEF P
<1>6. Nat \subseteq P
  BY <1>4, <1>5, NatInduct
<1> QED
  BY <1>1, <1>2, <1>6 DEF P

LEMMA DirectiveIs ==
  ASSUME NEW W, NEW script \in Seq(ScriptLines(W)), NEW names
  PROVE  /\ \A d \in Directives(script, names) :
              /\ d = <<d[1], d[2]>> /\ d[1] \in 1 .. Len(script) /\ d[2] \in 1 .. Len(script[d[1]].words)
              /\ script[d[1]].kind = "sbatch" /\ script[d[1]].words[d[2]].name \in names
              /\ \A i \in 1 .. d[1] : script[i].kind # "command"
         /\ \A i \in 1 .. Len(script) : \A j \in 1 .. Len(script[i].words) :
              /\ script[i].kind = "sbatch" /\ script[i].words[j].name \in names
              /\ \A k \in 1 .. i : script[k].kind # "command"
              => <<i, j>> \in Directives(script, names)
<1>1. /\ DOMAIN script = 1 .. Len(script)
      /\ \A i \in 1 .. Len(script) : DOMAIN script[i].words = 1 .. Len(script[i].words)
  <2>1. \A i \in 1 .. Len(script) : script[i] \in ScriptLines(W)
    BY ElementOfSeq
  <2>2. \A i \in 1 .. Len(script) : script[i].words \in Seq(ScriptWords(W))
    BY <2>1 DEF ScriptLines
  <2> QED
    BY <2>2, LenProperties
<1>2. PICK U : U = UNION {{i} \X DOMAIN script[i].words : i \in DOMAIN script}
  OBVIOUS
<1>3. \A d \in U : d = <<d[1], d[2]>> /\ d[1] \in DOMAIN script /\ d[2] \in DOMAIN script[d[1]].words
  <2> SUFFICES ASSUME NEW d \in U
               PROVE  d = <<d[1], d[2]>> /\ d[1] \in DOMAIN script /\ d[2] \in DOMAIN script[d[1]].words
    OBVIOUS
  <2>1. PICK i \in DOMAIN script : d \in {i} \X DOMAIN script[i].words
    BY <1>2
  <2>2. d = <<d[1], d[2]>> /\ d[1] = i /\ d[2] \in DOMAIN script[i].words
    BY <2>1
  <2> QED
    BY <2>1, <2>2
<1>4. ASSUME NEW i \in DOMAIN script, NEW j \in DOMAIN script[i].words PROVE <<i, j>> \in U
  <2>1. <<i, j>> \in {i} \X DOMAIN script[i].words
    OBVIOUS
  <2> QED
    BY <1>2, <2>1
<1>5. Directives(script, names) =
        {d \in U : /\ script[d[1]].kind = "sbatch"
                   /\ \A i \in 1 .. d[1] : script[i].kind # "command"
                   /\ script[d[1]].words[d[2]].name \in names}
  BY <1>2 DEF Directives
<1>6. ASSUME NEW d \in Directives(script, names)
      PROVE  /\ d = <<d[1], d[2]>> /\ d[1] \in 1 .. Len(script) /\ d[2] \in 1 .. Len(script[d[1]].words)
             /\ script[d[1]].kind = "sbatch" /\ script[d[1]].words[d[2]].name \in names
             /\ \A i \in 1 .. d[1] : script[i].kind # "command"
  BY <1>1, <1>3, <1>5
<1>7. ASSUME NEW i \in 1 .. Len(script), NEW j \in 1 .. Len(script[i].words),
             script[i].kind = "sbatch", script[i].words[j].name \in names,
             \A k \in 1 .. i : script[k].kind # "command"
      PROVE  <<i, j>> \in Directives(script, names)
  <2>1. <<i, j>> \in U /\ <<i, j>>[1] = i /\ <<i, j>>[2] = j
    BY <1>1, <1>4
  <2> QED
    BY <1>5, <1>7, <2>1
<1> QED
  BY <1>6, <1>7

\* The directives up to the j-th word of line i, and the value of the last of them.
UpTo(script, names, i, j) == {d \in Directives(script, names) : d[1] < i \/ (d[1] = i /\ d[2] <= j)}
Reads(script, D, r) ==
  \/ D = {} /\ r = 0
  \/ r \in Nat /\ \E d \in D : (\A e \in D : Later(d, e)) /\ r = AtLeast(DirectiveText(script, d))

\* Line i of a script is a #SBATCH line before the first command.
HeaderLine(W, script, i) ==
  /\ script \in Seq(ScriptLines(W)) /\ i \in 1 .. Len(script)
  /\ script[i].kind = "sbatch" /\ \A k \in 1 .. i : script[k].kind # "command"

LEMMA NoDirective ==
  ASSUME NEW W, NEW script \in Seq(ScriptLines(W)), NEW i \in 1 .. Len(script), NEW j \in 1 .. Len(script[i].words),
         NEW names, script[i].words[j].name \notin names
  PROVE  UpTo(script, names, i, j) = UpTo(script, names, i, j - 1)
<1>1. \A d \in Directives(script, names) :
         d[1] \in Int /\ d[2] \in Int /\ script[d[1]].words[d[2]].name \in names
  BY DirectiveIs
<1>2. \A d \in Directives(script, names) : ~(d[1] = i /\ d[2] = j)
  BY <1>1
<1>3. \A d \in Directives(script, names) : d[1] = i => (d[2] <= j <=> d[2] <= j - 1)
  BY <1>1, <1>2
<1> QED
  BY <1>3 DEF UpTo

LEMMA OneDirective ==
  ASSUME NEW W, NEW script, NEW i, HeaderLine(W, script, i), NEW j \in 1 .. Len(script[i].words), NEW names,
         script[i].words[j].name \in names, AtLeast(DirectiveText(script, <<i, j>>)) \in Nat
  PROVE  Reads(script, UpTo(script, names, i, j), AtLeast(DirectiveText(script, <<i, j>>)))
<1>1. <<i, j>> \in Directives(script, names)
  BY DirectiveIs DEF HeaderLine
<1>2. i \in Int /\ <<i, j>>[1] = i /\ <<i, j>>[2] = j
  BY DEF HeaderLine
<1>3. <<i, j>> \in UpTo(script, names, i, j)
  BY <1>1, <1>2 DEF UpTo
<1>4. \A e \in UpTo(script, names, i, j) : e[1] \in Int /\ e[2] \in Int /\ (e[1] < i \/ (e[1] = i /\ e[2] <= j))
  BY DirectiveIs DEF HeaderLine, UpTo
<1>5. \A e \in UpTo(script, names, i, j) : Later(<<i, j>>, e)
  BY <1>2, <1>4 DEF Later
<1> QED
  BY <1>3, <1>5 DEF Reads

\* The text that a flag of such a line gets, and what it starts with.
LEMMA ValueIsText ==
  ASSUME NEW W, NEW script, NEW i, HeaderLine(W, script, i), Valued(script[i]),
         NEW j \in 1 .. Len(script[i].words), IsFlag(script[i].words[j])
  PROVE  LET text == ValueOf(script[i].words, j)
         IN  text = DirectiveText(script, <<i, j>>) /\ (text = <<>> \/ text[1] # Dash)
<1>1. PICK words : words = script[i].words
  OBVIOUS
<1>2. script[i] \in ScriptLines(W)
  BY ElementOfSeq DEF HeaderLine
<1>3. words \in Seq(ScriptWords(W))
  BY <1>1, <1>2 DEF ScriptLines
<1>4. <<i, j>>[1] = i /\ <<i, j>>[2] = j
  OBVIOUS
<1>5. DirectiveText(script, <<i, j>>) = IF words[j].eq THEN words[j].value ELSE words[j + 1].value
  BY <1>1, <1>4, Zenon DEF DirectiveText
<1>6. CASE words[j].eq
  <2>1. words[j].value = <<>> \/ words[j].value[1] # Dash
    BY <1>1, <1>2, ValuedIs
  <2>2. ValueOf(words, j) = words[j].value
    BY <1>6, Zenon DEF ValueOf
  <2> QED
    BY <1>1, <1>5, <1>6, <2>1, <2>2
<1>7. CASE ~words[j].eq
  <2>1. j + 1 \in 1 .. Len(words) /\ ~words[j + 1].eq
    BY <1>1, <1>2, <1>7, ValuedIs DEF NonEqFlag
  <2>2. words[j + 1].value = <<>> \/ words[j + 1].value[1] # Dash
    BY <1>1, <1>2, <2>1, ValuedIs
  <2>3. words[j + 1] \in ScriptWords(W)
    BY <1>3, <2>1, ElementOfSeq
  <2>4. ValueOf(words, j) = words[j + 1].value
    BY <1>7, <2>1, Zenon DEF ValueOf, WordText
  <2> QED
    BY <1>1, <1>5, <1>7, <2>2, <2>4
<1> QED
  BY <1>6, <1>7

LEMMA NotFlag == \A f \in Flagged : "" \notin FlagsOf[f]
<1>1. /\ "" # "--nodes" /\ "" # "-N" /\ "" # "--cpus-per-task" /\ "" # "-c"
      /\ "" # "--mem-per-cpu" /\ "" # "--ntasks-per-node"
  BY Zenon
<1>2. /\ "" \notin {"--nodes", "-N"} /\ "" \notin {"--cpus-per-task", "-c"}
      /\ "" \notin {"--mem-per-cpu"} /\ "" \notin {"--ntasks-per-node"}
  BY <1>1, Zenon
<1> QED
  BY <1>2, FlagsAre, Zenon DEF Flagged

LEMMA LineReads ==
  ASSUME NEW W, NEW script, NEW i, HeaderLine(W, script, i), Valued(script[i]), NEW acc \in Accs(W), NEW v,
         WordRun(W, script[i].words, acc, v), NEW f \in Flagged,
         acc.status = "ok" => Reads(script, UpTo(script, FlagsOf[f], i, 0), acc.res[f])
  PROVE  \A k \in 0 .. Len(script[i].words) :
           v[k].status = "ok" => Reads(script, UpTo(script, FlagsOf[f], i, k), v[k].res[f])
<1>1. PICK words, n, names : words = script[i].words /\ n = Len(words) /\ names = FlagsOf[f]
  OBVIOUS
<1>2. script \in Seq(ScriptLines(W)) /\ i \in 1 .. Len(script) /\ script[i] \in ScriptLines(W)
  BY ElementOfSeq DEF HeaderLine
<1>3. words \in Seq(ScriptWords(W)) /\ n \in Nat
  BY <1>1, <1>2, LenProperties DEF ScriptLines
<1>4. v \in [0 .. n -> Accs(W)] /\ v[0] = [acc EXCEPT !.skip = FALSE] /\ \A k \in 1 .. n : Scanned(W, words, v[k - 1], k, v[k])
  BY <1>1 DEF WordRun
<1> DEFINE Inv(k) == v[k].status = "ok" => Reads(script, UpTo(script, names, i, k), v[k].res[f])
           P == {k \in Nat : k <= n => Inv(k)}
<1>5. 0 \in P
  <2>1. v[0].status = acc.status /\ v[0].res = acc.res
    BY <1>4 DEF Accs
  <2> QED
    BY <1>1, <2>1
<1>6. ASSUME NEW k \in Nat, k \in P PROVE k + 1 \in P
  <2> SUFFICES ASSUME k + 1 <= n PROVE Inv(k + 1)
    OBVIOUS
  <2>1. k + 1 \in 1 .. n /\ k \in 0 .. n /\ (k + 1) - 1 = k /\ k <= n /\ k + 1 # 0
    BY <1>3
  <2>2. PICK a, b, j : a = v[k] /\ b = v[k + 1] /\ j = k + 1
    OBVIOUS
  <2>3. a \in Accs(W) /\ Scanned(W, words, a, j, b) /\ j \in 1 .. n /\ j - 1 = k
    BY <1>4, <2>1, <2>2
  <2>4. a.status = "ok" => Reads(script, UpTo(script, names, i, j - 1), a.res[f])
    BY <1>6, <2>1, <2>2, <2>3
  <2>5. words[j].name \notin names => UpTo(script, names, i, j) = UpTo(script, names, i, j - 1)
    BY <1>1, <1>2, <2>3, NoDirective
  <2>6. b.status = "ok" => Reads(script, UpTo(script, names, i, j), b.res[f])
    <3>1. CASE a.status # "ok" /\ b = a
      BY <3>1
    <3>2. CASE a.status = "ok" /\ a.skip /\ b = [a EXCEPT !.skip = FALSE]
      <4>1. b.res = a.res
        BY <2>3, <3>2 DEF Accs
      <4>2. k # 0 /\ NonEqFlag(words[k])
        BY <1>1, <1>2, <2>1, <2>2, <3>2, SkipsAre
      <4>3. k \in 1 .. Len(script[i].words)
        BY <1>1, <2>1, <4>2
      <4>4. ~IsFlag(words[k + 1])
        BY <1>1, <1>2, <4>2, <4>3, ValuedIs
      <4>5. words[j].name \notin names
        BY <1>1, <2>2, <4>4, NotFlag DEF IsFlag
      <4> QED
        BY <2>4, <2>5, <3>2, <4>1, <4>5
    <3>3. CASE a.status = "ok" /\ ~a.skip /\ ~words[j].eq /\ j = Len(words) /\ b = [a EXCEPT !.status = "panic"]
      BY <2>3, <3>3 DEF Accs
    <3>4. CASE /\ a.status = "ok" /\ ~a.skip /\ ValueOf(words, j) \in Values(W)
               /\ \E c : Applied(W, a, words[j].name, ValueOf(words, j), c) /\ b = [c EXCEPT !.skip = ~words[j].eq]
      <4>1. PICK c : Applied(W, a, words[j].name, ValueOf(words, j), c) /\ b = [c EXCEPT !.skip = ~words[j].eq]
        BY <3>4
      <4>2. /\ c \in Accs(W)
            /\ words[j].name \in names /\ c.status = "ok" =>
                 /\ ParseInt(FieldText(f, ValueOf(words, j))).ok
                 /\ c.res[f] = ParseInt(FieldText(f, ValueOf(words, j))).value
            /\ words[j].name \notin names => c.res[f] = a.res[f]
        BY <1>1, <4>1, Zenon DEF Applied
      <4>3. b.status = c.status /\ b.res = c.res
        BY <4>1, <4>2 DEF Accs
      <4>4. CASE words[j].name \notin names
        BY <2>4, <2>5, <3>4, <4>2, <4>3, <4>4
      <4>5. CASE words[j].name \in names /\ b.status = "ok"
        <5>1. IsFlag(words[j])
          BY <1>1, <4>5, NotFlag DEF IsFlag
        <5>2. PICK text : text = ValueOf(words, j)
          OBVIOUS
        <5>3. text = DirectiveText(script, <<i, j>>) /\ (text = <<>> \/ text[1] # Dash)
          BY <1>1, <2>3, <5>1, <5>2, ValueIsText
        <5>4. text \in Values(W) /\ ParseInt(FieldText(f, text)).ok
          BY <3>4, <4>2, <4>3, <4>5, <5>2
        <5>5. c.res[f] = AtLeast(DirectiveText(script, <<i, j>>)) /\ AtLeast(DirectiveText(script, <<i, j>>)) \in Nat
          BY <4>2, <4>3, <4>5, <5>2, <5>3, <5>4, ReadsAtLeast
        <5>6. Reads(script, UpTo(script, names, i, j), AtLeast(DirectiveText(script, <<i, j>>)))
          BY <1>1, <2>3, <4>5, <5>5, OneDirective
        <5> QED
          BY <4>3, <5>5, <5>6
      <4> QED
        BY <4>4, <4>5
    <3> QED
      BY <2>3, <3>1, <3>2, <3>3, <3>4, Zenon DEF Scanned
  <2> QED
    BY <2>2, <2>6
<1> HIDE DEF P
<1>7. Nat \subseteq P
  BY <1>5, <1>6, NatInduct
<1>8. \A k \in 0 .. n : Inv(k)
  <2> HIDE DEF Inv
  <2> QED
    BY <1>3, <1>7 DEF P
<1> QED
  BY <1>1, <1>8

\* The lines of a header, and the one that ends it.
IsHeader(script, header, m) ==
  /\ m \in 0 .. Len(script) /\ Len(header) = m
  /\ \A k \in 1 .. m : header[k] = script[k] /\ script[k].kind \in {"blank", "sbatch"}
  /\ m < Len(script) => script[m + 1].kind \in {"comment", "command"}

LEMMA HeaderIs ==
  ASSUME NEW W, NEW script \in Seq(ScriptLines(W))
  PROVE  Header(script) \in Seq(ScriptLines(W)) /\ \E m \in Nat : IsHeader(script, Header(script), m)
<1>1. Len(script) \in Nat /\ DOMAIN script = 1 .. Len(script) /\ \A i \in 1 .. Len(script) : script[i] \in ScriptLines(W)
  BY LenProperties, ElementOfSeq
<1>2. PICK ends : ends = {i \in DOMAIN script : script[i].kind \in {"comment", "command"}}
  OBVIOUS
<1>3. PICK m : m = IF ends = {} THEN Len(script) ELSE Min(ends) - 1
  OBVIOUS
<1>4. Header(script) = SubSeq(script, 1, m)
  BY <1>2, <1>3, Zenon DEF Header
<1>5. m \in 0 .. Len(script) /\ (\A k \in 1 .. m : k \notin ends) /\ (m < Len(script) => m + 1 \in ends)
  <2>1. CASE ends = {}
    BY <1>1, <1>3, <2>1
  <2>2. CASE ends # {}
    <3>1. ends \in SUBSET Nat /\ ends \subseteq 1 .. Len(script)
      BY <1>1, <1>2
    <3>2. PICK x \in ends : \A y \in ends : x <= y
      BY <2>2, <3>1, NatWF
    <3>3. Min(ends) \in ends /\ \A y \in ends : Min(ends) <= y
      BY <3>2, Zenon DEF Min
    <3>4. m = Min(ends) - 1 /\ Min(ends) \in 1 .. Len(script)
      BY <1>3, <2>2, <3>1, <3>3
    <3>5. m \in 0 .. Len(script) /\ m + 1 = Min(ends) /\ \A k \in 1 .. m : ~(Min(ends) <= k)
      BY <1>1, <3>4
    <3> QED
      BY <3>3, <3>5
  <2> QED
    BY <2>1, <2>2
<1>6. m \in Nat /\ m \in 1 - 1 .. Len(script) /\ 1 \in 1 .. Len(script) + 1
  BY <1>1, <1>5
<1>7. PICK header : header = SubSeq(script, 1, m)
  OBVIOUS
<1>8. header \in Seq(ScriptLines(W)) /\ Len(header) = m /\ \A k \in 1 .. m : header[k] = script[k]
  BY <1>1, <1>5, <1>6, <1>7, SubSeqProperties
<1>9. \A k \in 1 .. m : script[k].kind \in {"blank", "sbatch"}
  <2> SUFFICES ASSUME NEW k \in 1 .. m PROVE script[k].kind \in {"blank", "sbatch"}
    OBVIOUS
  <2>1. k \in 1 .. Len(script)
    BY <1>1, <1>5
  <2>2. script[k].kind \notin {"comment", "command"}
    BY <1>1, <1>2, <1>5, <2>1
  <2>3. script[k].kind \in {"blank", "sbatch", "comment", "command"}
    BY <1>1, <2>1 DEF ScriptLines
  <2> QED
    BY <2>2, <2>3
<1>10. m < Len(script) => script[m + 1].kind \in {"comment", "command"}
  BY <1>2, <1>5
<1>11. IsHeader(script, header, m)
  BY <1>5, <1>8, <1>9, <1>10 DEF IsHeader
<1> QED
  BY <1>4, <1>6, <1>7, <1>8, <1>11

LEMMA PlainIs ==
  ASSUME NEW W, NEW script \in Seq(ScriptLines(W)), Plain(script)
  PROVE  /\ \A i \in 1 .. Len(script) : script[i].kind = "sbatch" => Valued(script[i])
         /\ \A i, k \in 1 .. Len(script) : i < k /\ script[i].kind = "comment" => script[k].kind # "sbatch"
<1>1. DOMAIN script = 1 .. Len(script)
  BY LenProperties
<1> QED
  BY <1>1, Zenon DEF Plain

LEMMA ScriptReads ==
  ASSUME NEW W, NEW script \in Seq(ScriptLines(W)), Plain(script), NEW header \in Seq(ScriptLines(W)), NEW m \in Nat,
         IsHeader(script, header, m), NEW u, LineRun(W, header, u), NEW f \in Flagged, u[m].status = "ok"
  PROVE  Reads(script, Directives(script, FlagsOf[f]), u[m].res[f])
<1>0. PICK names : names = FlagsOf[f]
  OBVIOUS
<1>1. /\ Len(script) \in Nat /\ m \in 0 .. Len(script) /\ Len(header) = m
      /\ \A k \in 1 .. m : header[k] = script[k] /\ script[k].kind \in {"blank", "sbatch"}
      /\ m < Len(script) => script[m + 1].kind \in {"comment", "command"}
  BY LenProperties DEF IsHeader
<1>2. /\ u \in [0 .. m -> Accs(W)] /\ u[0] = Extracted("ok", NoResources)
      /\ \A k \in 1 .. m : u[k] = ScanLine(u[k - 1], header[k])
  BY <1>1 DEF LineRun
<1>3. \A d \in Directives(script, names) : d[1] \in 1 .. Len(script) /\ d[2] \in Nat /\ d[2] >= 1
  BY DirectiveIs
<1> DEFINE Inv(k) == u[k].status = "ok" => Reads(script, UpTo(script, names, k + 1, 0), u[k].res[f])
           P == {k \in Nat : k <= m => Inv(k)}
<1>4. 0 \in P
  <2>1. UpTo(script, names, 0 + 1, 0) = {}
    BY <1>3 DEF UpTo
  <2>2. u[0].res[f] = 0
    BY <1>2 DEF Extracted, NoResources, Flagged
  <2> QED
    BY <2>1, <2>2 DEF Reads
<1>5. ASSUME NEW k \in Nat, k \in P PROVE k + 1 \in P
  <2> SUFFICES ASSUME k + 1 <= m PROVE Inv(k + 1)
    OBVIOUS
  <2>1. PICK i, a, b, line : i = k + 1 /\ a = u[k] /\ b = u[i] /\ line = script[i]
    OBVIOUS
  <2>2. i \in 1 .. m /\ i \in 1 .. Len(script) /\ k \in 0 .. m /\ i - 1 = k /\ k <= m
    BY <1>1, <2>1
  <2>3. line \in ScriptLines(W) /\ a \in Accs(W) /\ b = ScanLine(a, line) /\ line.kind \in {"blank", "sbatch"}
    BY <1>1, <1>2, <2>1, <2>2, ElementOfSeq
  <2>4. a.status = "ok" => Reads(script, UpTo(script, names, i, 0), a.res[f])
    BY <1>5, <2>1, <2>2
  <2>5. CASE line.kind = "blank"
    <3>1. b = a
      BY <2>3, <2>5 DEF ScanLine
    <3>2. \A d \in Directives(script, names) : d[1] # i
      <4> SUFFICES ASSUME NEW d \in Directives(script, names), d[1] = i PROVE FALSE
        OBVIOUS
      <4>1. script[d[1]].kind = "sbatch"
        BY DirectiveIs
      <4> QED
        BY <2>1, <2>5, <4>1
    <3>3. \A d \in Directives(script, names) : d[1] < i + 1 <=> d[1] < i
      BY <1>3, <2>2, <3>2
    <3>4. UpTo(script, names, i + 1, 0) = UpTo(script, names, i, 0)
      BY <1>3, <3>2, <3>3 DEF UpTo
    <3> QED
      BY <2>1, <2>4, <3>1, <3>4
  <2>6. CASE line.kind = "sbatch"
    <3>1. Valued(line) /\ HeaderLine(W, script, i)
      <4>1. Valued(line)
        BY <2>1, <2>2, <2>6, PlainIs
      <4>2. \A j \in 1 .. i : script[j].kind # "command"
        <5> SUFFICES ASSUME NEW j \in 1 .. i PROVE script[j].kind # "command"
          OBVIOUS
        <5>1. j \in 1 .. m
          BY <2>2
        <5> QED
          BY <1>1, <5>1
      <4> QED
        BY <2>1, <2>2, <2>6, <4>1, <4>2 DEF HeaderLine
    <3>2. PICK v : WordRun(W, line.words, a, v) /\ ScanLine(a, line) = v[Len(line.words)]
      BY <2>3, <2>6, WordRunExists
    <3>3. Len(line.words) \in Nat /\ Len(line.words) \in 0 .. Len(line.words)
      BY <2>3, LenProperties DEF ScriptLines
    <3>4. b.status = "ok" => Reads(script, UpTo(script, names, i, Len(line.words)), b.res[f])
      <4>1. a.status = "ok" => Reads(script, UpTo(script, FlagsOf[f], i, 0), a.res[f])
        BY <1>0, <2>4
      <4>2. \A j \in 0 .. Len(script[i].words) :
              v[j].status = "ok" => Reads(script, UpTo(script, FlagsOf[f], i, j), v[j].res[f])
        BY <2>1, <2>3, <3>1, <3>2, <4>1, LineReads
      <4> QED
        BY <1>0, <2>1, <2>3, <3>2, <3>3, <4>2
    <3>5. \A d \in Directives(script, names) : d[1] = i => d[2] <= Len(line.words)
      BY <2>1, DirectiveIs
    <3>6. \A d \in Directives(script, names) :
            (d[1] < i + 1 \/ (d[1] = i + 1 /\ d[2] <= 0)) <=> (d[1] < i \/ (d[1] = i /\ d[2] <= Len(line.words)))
      BY <1>3, <2>2, <3>5
    <3>7. UpTo(script, names, i + 1, 0) = UpTo(script, names, i, Len(line.words))
      BY <3>6 DEF UpTo
    <3> QED
      BY <2>1, <3>4, <3>7
  <2> QED
    BY <2>3, <2>5, <2>6
<1> HIDE DEF P
<1>6. Nat \subseteq P
  BY <1>4, <1>5, NatInduct
<1>7. Inv(m)
  <2> HIDE DEF Inv
  <2> QED
    BY <1>6 DEF P
<1>8. UpTo(script, names, m + 1, 0) = Directives(script, names)
  <2>1. ASSUME NEW d \in Directives(script, names) PROVE d[1] <= m
    <3> SUFFICES ASSUME ~(d[1] <= m) PROVE FALSE
      OBVIOUS
    <3>1. d[1] \in 1 .. Len(script) /\ script[d[1]].kind = "sbatch" /\ \A j \in 1 .. d[1] : script[j].kind # "command"
      BY DirectiveIs
    <3>2. m + 1 \in 1 .. d[1] /\ m < Len(script) /\ m + 1 \in 1 .. Len(script)
      BY <1>1, <3>1
    <3>3. script[m + 1].kind = "comment"
      BY <1>1, <3>1, <3>2
    <3>4. m + 1 < d[1]
      <4>1. m + 1 # d[1]
        BY <3>1, <3>3
      <4> QED
        BY <3>1, <3>2, <4>1
    <3> QED
      BY <3>1, <3>2, <3>3, <3>4, PlainIs
  <2>2. \A d \in Directives(script, names) : d[1] < m + 1
    BY <1>3, <2>1
  <2> QED
    BY <2>2 DEF UpTo
<1> QED
  BY <1>0, <1>7, <1>8

LEMMA ScriptPanics ==
  ASSUME NEW W, NEW header \in Seq(ScriptLines(W)), NEW u, LineRun(W, header, u), u[Len(header)].status = "panic"
  PROVE  \E i \in 1 .. Len(header) : header[i].kind # "blank" /\ BadEnd(header[i])
<1>1. PICK m : m = Len(header) /\ m \in Nat
  BY LenProperties
<1>2. /\ u \in [0 .. m -> Accs(W)] /\ u[0] = Extracted("ok", NoResources)
      /\ \A k \in 1 .. m : u[k] = ScanLine(u[k - 1], header[k])
  BY <1>1 DEF LineRun
<1> DEFINE Bad(k) == \E i \in 1 .. k : header[i].kind # "blank" /\ BadEnd(header[i])
           P == {k \in Nat : k <= m => (u[k].status = "panic" => Bad(k))}
<1>3. 0 \in P
  BY <1>2 DEF Extracted
<1>4. ASSUME NEW k \in Nat, k \in P PROVE k + 1 \in P
  <2> SUFFICES ASSUME k + 1 <= m, u[k + 1].status = "panic" PROVE Bad(k + 1)
    OBVIOUS
  <2>1. k + 1 \in 1 .. m /\ k \in 0 .. m /\ (k + 1) - 1 = k /\ k <= m
    BY <1>1
  <2>2. PICK a, line : a = u[k] /\ line = header[k + 1]
    OBVIOUS
  <2>3. line \in ScriptLines(W) /\ a \in Accs(W) /\ u[k + 1] = ScanLine(a, line)
    BY <1>1, <1>2, <2>1, <2>2, ElementOfSeq
  <2>4. a.status = "panic" => Bad(k + 1)
    <3> SUFFICES ASSUME a.status = "panic" PROVE Bad(k + 1)
      OBVIOUS
    <3>1. PICK i \in 1 .. k : header[i].kind # "blank" /\ BadEnd(header[i])
      BY <1>4, <2>1, <2>2
    <3>2. i \in 1 .. k + 1
      OBVIOUS
    <3> QED
      BY <3>1, <3>2
  <2>5. CASE line.kind = "blank"
    BY <2>3, <2>4, <2>5 DEF ScanLine
  <2>6. CASE line.kind # "blank"
    <3>1. PICK v : WordRun(W, line.words, a, v) /\ ScanLine(a, line) = v[Len(line.words)]
      BY <2>3, <2>6, WordRunExists
    <3>2. Len(line.words) \in 0 .. Len(line.words)
      BY <2>3, LenProperties DEF ScriptLines
    <3>3. a.status = "panic" \/ BadEnd(line)
      BY <2>3, <3>1, <3>2, PanicLine
    <3>4. k + 1 \in 1 .. k + 1
      OBVIOUS
    <3> QED
      BY <2>2, <2>4, <2>6, <3>3, <3>4
  <2> QED
    BY <2>5, <2>6
<1> HIDE DEF P
<1>5. Nat \subseteq P
  BY <1>3, <1>4, NatInduct
<1>6. u[m].status = "panic" => Bad(m)
  <2> HIDE DEF Bad
  <2> QED
    BY <1>1, <1>5 DEF P
<1> QED
  BY <1>1, <1>6

\* What extractBatchResourcesFromScript makes of a script.
LEMMA ExtractedIs ==
  ASSUME NEW W, NEW script \in Seq(ScriptLines(W)), NEW e, e = extractBatchResourcesFromScript(script)
  PROVE  /\ e.status \in Statuses3 /\ e.res \in Read(W)
         /\ Plain(script) /\ e.status = "ok" =>
              \A f \in Flagged : Reads(script, Directives(script, FlagsOf[f]), e.res[f])
         /\ e.status = "panic" => \E i \in 1 .. Len(script) : script[i].kind = "sbatch" /\ BadEnd(script[i])
<1>1. PICK header, m : header = Header(script) /\ header \in Seq(ScriptLines(W)) /\ m \in Nat /\ IsHeader(script, header, m)
  BY HeaderIs
<1>2. PICK u : LineRun(W, header, u) /\ FoldLeft(ScanLine, Extracted("ok", NoResources), header) = u[Len(header)]
  BY <1>1, LineRunExists
<1>3. Len(header) = m
  BY <1>1 DEF IsHeader
<1>4. e = [status |-> u[m].status, res |-> u[m].res]
  BY <1>1, <1>2, <1>3, Zenon DEF extractBatchResourcesFromScript
<1>5. e.status = u[m].status /\ e.res = u[m].res /\ u[m] \in Accs(W)
  BY <1>1, <1>2, <1>3, <1>4 DEF LineRun
<1>6. e.status \in Statuses3 /\ e.res \in Read(W)
  BY <1>5 DEF Accs
<1>7. Plain(script) /\ e.status = "ok" =>
        \A f \in Flagged : Reads(script, Directives(script, FlagsOf[f]), e.res[f])
  BY <1>1, <1>2, <1>5, ScriptReads
<1>8. ASSUME e.status = "panic" PROVE \E i \in 1 .. Len(script) : script[i].kind = "sbatch" /\ BadEnd(script[i])
  <2>1. PICK i \in 1 .. m : header[i].kind # "blank" /\ BadEnd(header[i])
    BY <1>1, <1>2, <1>3, <1>5, <1>8, ScriptPanics
  <2>2. i \in 1 .. Len(script) /\ header[i] = script[i] /\ script[i].kind \in {"blank", "sbatch"}
    BY <1>1, LenProperties DEF IsHeader
  <2> QED
    BY <2>1, <2>2
<1> QED
  BY <1>6, <1>7, <1>8

\* The last directive is the one that is read.
LEMMA LastIs ==
  ASSUME NEW W, NEW script \in Seq(ScriptLines(W)), NEW names, NEW r, Reads(script, Directives(script, names), r)
  PROVE  r = IF Directives(script, names) = {} THEN 0 ELSE AtLeast(LastDirective(script, names))
<1>1. PICK D : D = Directives(script, names)
  OBVIOUS
<1>2. CASE D = {}
  BY <1>1, <1>2 DEF Reads
<1>3. CASE D # {}
  <2>1. PICK d \in D : (\A e \in D : Later(d, e)) /\ r = AtLeast(DirectiveText(script, d))
    BY <1>1, <1>3 DEF Reads
  <2>2. PICK c : c = CHOOSE x \in D : \A e \in D : Later(x, e)
    OBVIOUS
  <2>3. c \in D /\ \A e \in D : Later(c, e)
    BY <2>1, <2>2, Zenon
  <2>4. \A e \in D : e = <<e[1], e[2]>> /\ e[1] \in Int /\ e[2] \in Int
    BY <1>1, DirectiveIs
  <2>5. c[1] = d[1] /\ c[2] = d[2]
    BY <2>1, <2>3, <2>4 DEF Later
  <2>6. c = d
    BY <2>1, <2>3, <2>4, <2>5
  <2>7. LastDirective(script, names) = DirectiveText(script, c)
    BY <1>1, <2>2, Zenon DEF LastDirective
  <2> QED
    BY <1>1, <1>3, <2>1, <2>6, <2>7
<1> QED
  BY <1>2, <1>3

-----------------------------------------------------------------------------
(* The way of a request. *)

LEMMA JobsAre ==
  ASSUME NEW j \in Jobs
  PROVE  /\ j.script \in Seq(ScriptLines(STRING)) /\ j.spec \in JobSpec
         /\ j.spec.Array \in Values(STRING)
<1>1. j \in [spec : JobSpec, script : Seq(ScriptLine)]
  BY JobsAssumption
<1>2. ScriptLine = ScriptLines(STRING)
  BY Zenon DEF ScriptLine, ScriptLines, ScriptWord, ScriptWords, Values, Token, Tokens
<1>3. Seq(Token) = Values(STRING)
  BY Zenon DEF Values, Token, Tokens
<1>4. j.spec \in JobSpec /\ j.script \in Seq(ScriptLine)
  BY <1>1
<1>5. j.spec.Array \in Seq(Token)
  BY <1>4 DEF JobSpec
<1> QED
  BY <1>2, <1>3, <1>4, <1>5

PodSteps == {"created", "pending", "scheduled", "requested", "submitted"}
JobSteps == PodSteps \cup {"reconcile", "error", "panic", "rejected"}

\* Where the request is, everything it has brought with it is what the job said.
RequestInv ==
  /\ step \in JobSteps \cup {"container", "containerSubmitted"}
  /\ step \in JobSteps => job \in Jobs
  /\ step \in {"container", "containerSubmitted"} => job \in Containers
  /\ step = "containerSubmitted" => opts = [Script |-> buildSLURMScript(job), Partition |-> job.Partition]
  /\ step = "panic" => extractBatchResourcesFromScript(job.script).status = "panic"
  /\ step \in PodSteps =>
       /\ extractBatchResourcesFromScript(job.script).status = "ok"
       /\ pod = newSizeCarPodForSJ(job, extractBatchResourcesFromScript(job.script).res) /\ Admitted(pod)
  /\ step = "pending" => \A partition \in Partitions : ~Fits(pod, VirtualNode(partition))
  /\ step \in {"scheduled", "requested", "submitted"} => node.labels = pod.affinity
  /\ step \in {"requested", "submitted"} => request = newSubmitRequestForPod(pod, node)
  /\ step = "submitted" => request.Partition # "" /\ opts = getSbatchOpts(request)

LEMMA RequestStart == RequestInit => RequestInv
<1> SUFFICES ASSUME RequestInit PROVE RequestInv
  OBVIOUS
<1>1. CASE step = "reconcile" /\ job \in Jobs
  BY <1>1 DEF RequestInv, JobSteps, PodSteps
<1>2. CASE step = "container" /\ job \in Containers
  BY <1>2 DEF RequestInv, JobSteps, PodSteps
<1> QED
  BY <1>1, <1>2 DEF RequestInit

LEMMA RequestStep == RequestInv /\ [RequestNext]_requestVars => RequestInv'
<1> SUFFICES ASSUME RequestInv, [RequestNext]_requestVars PROVE RequestInv'
  OBVIOUS
<1>1. CASE CreateSizeCarPod
  <2>1. PICK e, p : e = extractBatchResourcesFromScript(job.script) /\ p = newSizeCarPodForSJ(job, e.res)
    OBVIOUS
  <2>2. step = "reconcile" /\ job' = job /\ job \in Jobs
    BY <1>1 DEF CreateSizeCarPod, RequestInv, JobSteps, PodSteps
  <2>3. e.status \in {"ok", "error", "panic"}
    <3>1. job.script \in Seq(ScriptLines(STRING))
      BY <2>2, JobsAre
    <3> QED
      BY <2>1, <3>1, ExtractedIs DEF Statuses3
  <2>4. \/ e.status # "ok" /\ step' = e.status
        \/ e.status = "ok" /\ step' = "rejected"
        \/ e.status = "ok" /\ Admitted(p) /\ step' = "created" /\ pod' = p
    BY <1>1, <2>1, Zenon DEF CreateSizeCarPod
  <2>5. CASE e.status # "ok" /\ step' = e.status
    BY <2>1, <2>2, <2>3, <2>5 DEF RequestInv, JobSteps, PodSteps
  <2>6. CASE e.status = "ok" /\ step' = "rejected"
    BY <2>1, <2>2, <2>6 DEF RequestInv, JobSteps, PodSteps
  <2>7. CASE e.status = "ok" /\ Admitted(p) /\ step' = "created" /\ pod' = p
    <3>1. Admitted(pod')
      BY <2>7
    <3>2. pod' = newSizeCarPodForSJ(job, extractBatchResourcesFromScript(job.script).res)
      BY <2>1, <2>7, Zenon
    <3> QED
      BY <2>1, <2>2, <2>7, <3>1, <3>2 DEF RequestInv, JobSteps, PodSteps
  <2> QED
    BY <2>4, <2>5, <2>6, <2>7
<1>2. CASE Unschedulable
  BY <1>2 DEF Unschedulable, RequestInv, JobSteps, PodSteps
<1>3. ASSUME NEW partition \in Partitions, Schedule(partition) PROVE RequestInv'
  <2>1. step = "created" /\ step' = "scheduled" /\ job' = job /\ pod' = pod /\ node' = VirtualNode(partition)
    BY <1>3 DEF Schedule
  <2>2. node'.labels = pod.affinity
    BY <1>3, <2>1 DEF Schedule, Fits
  <2> QED
    BY <2>1, <2>2 DEF RequestInv, JobSteps, PodSteps
<1>4. CASE CreatePod
  BY <1>4 DEF CreatePod, RequestInv, JobSteps, PodSteps
<1>5. CASE SubmitJob
  <2>1. step = "requested" /\ UNCHANGED <<job, pod, node, request>>
    BY <1>5 DEF SubmitJob
  <2>2. step' = "error" \/ (step' = "submitted" /\ request.Partition # "" /\ opts' = getSbatchOpts(request))
    BY <1>5, Zenon DEF SubmitJob
  <2>3. CASE step' = "error"
    BY <2>1, <2>3 DEF RequestInv, JobSteps, PodSteps
  <2>4. CASE step' = "submitted" /\ request.Partition # "" /\ opts' = getSbatchOpts(request)
    <3>1. opts' = getSbatchOpts(request')
      BY <2>1, <2>4
    <3> QED
      BY <2>1, <2>4, <3>1 DEF RequestInv, JobSteps, PodSteps
  <2> QED
    BY <2>2, <2>3, <2>4
<1>6. CASE SubmitJobContainer
  BY <1>6 DEF SubmitJobContainer, RequestInv, JobSteps, PodSteps
<1>7. CASE UNCHANGED requestVars
  BY <1>7 DEF requestVars, RequestInv
<1> QED
  BY <1>1, <1>2, <1>3, <1>4, <1>5, <1>6, <1>7 DEF RequestNext

LEMMA RequestStays == RequestSpec => []RequestInv
  BY RequestStart, RequestStep, PTL DEF RequestSpec

\* A number comes back from its label.
LEMMA LabelTold ==
  ASSUME NEW labels, NEW f, NEW n \in Int, n > 0, f \in DOMAIN labels, labels[f] = Itoa(n)
  PROVE  LabelInt(labels, f) = n
<1>1. Itoa(n) = <<Num(n)>> /\ n \in Nat
  BY DEF Itoa
<1>2. ParseInt(labels[f]).ok /\ ParseInt(labels[f]).value = n
  BY <1>1, ParseNum
<1> QED
  BY <1>2, Zenon DEF LabelInt

Numbers == {"Nodes", "CpusPerTask", "MemPerCpu", "NtasksPerNode", "Ntasks"}

LEMMA LabelsTell ==
  ASSUME NEW spec \in JobSpec, NEW labels, labels = getResourceRequestLabelsForPod(spec)
  PROVE  /\ \A f \in Numbers : LabelInt(labels, f) = IF spec[f] > 0 THEN spec[f] ELSE 0
         /\ "Array" \in DOMAIN labels <=> spec.Array # <<>>
         /\ "Array" \in DOMAIN labels => labels["Array"] = spec.Array
<1>0. "Array" \notin Numbers /\ SpecFields = Numbers \cup {"Array"}
  BY DEF Numbers, SpecFields
<1>1. DOMAIN labels = {g \in SpecFields : Given(spec, g)}
  BY DEF getResourceRequestLabelsForPod
<1>2. \A f \in DOMAIN labels : labels[f] = IF f = "Array" THEN spec.Array ELSE Itoa(spec[f])
  BY DEF getResourceRequestLabelsForPod
<1>3. ASSUME NEW f \in Numbers PROVE LabelInt(labels, f) = IF spec[f] > 0 THEN spec[f] ELSE 0
  <2>1. spec[f] \in Int /\ f # "Array"
    BY <1>0 DEF JobSpec, Numbers
  <2>2. f \in DOMAIN labels <=> spec[f] > 0
    BY <1>0, <1>1, <2>1, Zenon DEF Given
  <2>3. CASE spec[f] > 0
    <3>1. f \in DOMAIN labels /\ labels[f] = Itoa(spec[f])
      BY <1>2, <2>1, <2>2, <2>3
    <3> QED
      BY <2>1, <2>3, <3>1, LabelTold
  <2>4. CASE ~(spec[f] > 0)
    <3>1. f \notin DOMAIN labels
      BY <2>2, <2>4
    <3> QED
      BY <2>4, <3>1, Zenon DEF LabelInt
  <2> QED
    BY <2>3, <2>4
<1>4. "Array" \in DOMAIN labels <=> spec.Array # <<>>
  BY <1>0, <1>1, Zenon DEF Given
<1> QED
  BY <1>2, <1>3, <1>4

\* The options that are words, and those that the spec decides.
SaidWords == {"Partition", "RunAsUser", "WorkingDir"}
WordOptions == SaidWords \cup {"RunAsGroup"}

(* What a SlurmBridgeJob's spec says reaches sbatch unchanged, on every way
   through labels, scheduler, kubelet and agent, and nothing else does; but
   its RunAsGroup, Gres and Licenses never do. *)
THEOREM SpecReaches == RequestSpec => []SpecReachesSbatch
<1>1. RequestInv => SpecReachesSbatch
  <2> SUFFICES ASSUME RequestInv, step = "submitted" PROVE SpecReachesSbatch
    BY Zenon DEF SpecReachesSbatch
  <2>1. job \in Jobs /\ node.labels = pod.affinity /\ request = newSubmitRequestForPod(pod, node)
        /\ request.Partition # "" /\ opts = getSbatchOpts(request)
    BY DEF RequestInv, JobSteps, PodSteps
  <2>2. PICK res : pod = newSizeCarPodForSJ(job, res)
    BY DEF RequestInv, PodSteps
  <2>3. PICK spec, labels : spec = job.spec /\ labels = getResourceRequestLabelsForPod(spec)
    OBVIOUS
  <2>4. spec \in JobSpec
    BY <2>1, <2>3, JobsAre
  <2>5. /\ pod.labels = labels /\ pod.affinity.partition = spec.Partition
        /\ pod.RunAsUser = spec.RunAsUser /\ pod.WorkingDir = spec.WorkingDir
    BY <2>2, <2>3 DEF newSizeCarPodForSJ, affinityForSj
  <2>6. /\ \A f \in Numbers : request[f] = LabelInt(labels, f)
        /\ request.Array = IF "Array" \in DOMAIN labels THEN labels["Array"] ELSE <<>>
        /\ request.Partition = spec.Partition /\ request.RunAsUser = spec.RunAsUser
        /\ request.WorkingDir = spec.WorkingDir /\ request.RunAsGroup = ""
    <3>1. PICK r, n, p : r = request /\ n = node /\ p = pod
      OBVIOUS
    <3>2. r = newSubmitRequestForPod(p, n) /\ p.labels = labels /\ n.labels = p.affinity
      BY <2>1, <2>5, <3>1
    <3>3. /\ r.Nodes = LabelInt(p.labels, "Nodes") /\ r.CpusPerTask = LabelInt(p.labels, "CpusPerTask")
          /\ r.MemPerCpu = LabelInt(p.labels, "MemPerCpu") /\ r.Ntasks = LabelInt(p.labels, "Ntasks")
          /\ r.NtasksPerNode = LabelInt(p.labels, "NtasksPerNode")
      BY <3>2 DEF newSubmitRequestForPod
    <3>4. /\ r.Array = IF "Array" \in DOMAIN p.labels THEN p.labels["Array"] ELSE <<>>
          /\ r.Partition = n.labels.partition /\ r.RunAsUser = p.RunAsUser /\ r.WorkingDir = p.WorkingDir
          /\ r.RunAsGroup = ""
      BY <3>2 DEF newSubmitRequestForPod
    <3>5. \A f \in Numbers : r[f] = LabelInt(labels, f)
      BY <3>2, <3>3 DEF Numbers
    <3> QED
      BY <2>5, <3>1, <3>2, <3>4, <3>5
  <2>7. /\ \A f \in Numbers : request[f] = IF spec[f] > 0 THEN spec[f] ELSE 0
        /\ request.Array = spec.Array
    <3>1. /\ \A f \in Numbers : LabelInt(labels, f) = IF spec[f] > 0 THEN spec[f] ELSE 0
          /\ "Array" \in DOMAIN labels <=> spec.Array # <<>>
          /\ "Array" \in DOMAIN labels => labels["Array"] = spec.Array
      BY <2>3, <2>4, LabelsTell
    <3>2. \A f \in Numbers : request[f] = IF spec[f] > 0 THEN spec[f] ELSE 0
      BY <2>6, <3>1, Zenon
    <3> QED
      BY <2>6, <3>1, <3>2, Zenon
  <2>8. SpecFields = Numbers \cup {"Array"} /\ "Array" \notin Numbers /\ SpecFields \cap Dropped = {}
    BY DEF Numbers, SpecFields, Dropped
  <2>9. \A f \in SpecFields : /\ Given(request, f) <=> Given(spec, f)
                              /\ Given(spec, f) => request[f] = spec[f]
    <3> SUFFICES ASSUME NEW f \in SpecFields
                 PROVE  (Given(request, f) <=> Given(spec, f)) /\ (Given(spec, f) => request[f] = spec[f])
      OBVIOUS
    <3>1. CASE f = "Array"
      BY <2>7, <3>1, Zenon DEF Given
    <3>2. CASE f \in Numbers
      <4>1. f # "Array" /\ spec[f] \in Int /\ request[f] = IF spec[f] > 0 THEN spec[f] ELSE 0
        BY <2>4, <2>7, <2>8, <3>2 DEF JobSpec, Numbers
      <4>2. (request[f] > 0 <=> spec[f] > 0) /\ (spec[f] > 0 => request[f] = spec[f])
        BY <4>1
      <4> QED
        BY <4>1, <4>2, Zenon DEF Given
    <3> QED
      BY <2>8, <3>1, <3>2
  <2>10. /\ DOMAIN opts = {f \in SpecFields : Given(request, f)} \cup {f \in WordOptions : request[f] # ""}
         /\ \A o \in DOMAIN opts : opts[o] = request[o]
    <3>1. WordOptions = {"Partition", "RunAsUser", "RunAsGroup", "WorkingDir"}
      BY DEF WordOptions, SaidWords
    <3> QED
      BY <2>1, <3>1, Zenon DEF getSbatchOpts, Selected
  <2>11. \A f \in SaidWords : request[f] = spec[f]
    BY <2>6 DEF SaidWords
  <2>12. {f \in WordOptions : request[f] # ""} = {f \in SaidWords : spec[f] # ""}
    <3>1. request["RunAsGroup"] = ""
      BY <2>6
    <3> QED
      BY <2>11, <3>1, Zenon DEF WordOptions
  <2>13. {f \in SpecFields : Given(request, f)} = {f \in SpecFields : Given(spec, f)}
    BY <2>9, Zenon
  <2>14. ASSUME NEW o \in DOMAIN opts PROVE opts[o] = spec[o]
    <3>1. opts[o] = request[o]
      BY <2>10
    <3>2. o \in {f \in SpecFields : Given(spec, f)} \/ o \in SaidWords
      BY <2>10, <2>12, <2>13, Zenon
    <3> QED
      BY <2>9, <2>11, <3>1, <3>2, Zenon
  <2>15. PICK words : words = {"Partition", "RunAsUser", "WorkingDir"} \cup Dropped
    OBVIOUS
  <2>16. words = SaidWords \cup Dropped /\ SaidWords \cap Dropped = {}
    BY <2>15 DEF SaidWords, Dropped
  <2>17. DOMAIN opts = ({f \in SpecFields : Given(spec, f)} \cup {f \in words : spec[f] # ""}) \ Dropped
    BY <2>8, <2>10, <2>12, <2>13, <2>16, Zenon
  <2> QED
    BY <2>3, <2>14, <2>15, <2>17, Zenon DEF SpecReachesSbatch
<1> QED
  BY <1>1, RequestStays, PTL

-----------------------------------------------------------------------------
(* The script of a container. *)

LEMMA SumOfTwo ==
  ASSUME NEW w \in [1 .. 2 -> Int], NEW r, IsSum(w, 2, r) PROVE r = w[1] + w[2]
<1>1. PICK v \in [0 .. 2 -> Int] : v[0] = 0 /\ r = v[2] /\ \A k \in 1 .. 2 : v[k] = v[k - 1] + w[k]
  BY DEF IsSum
<1>2. v[1] = v[0] + w[1] /\ v[2] = v[1] + w[2]
  BY <1>1
<1> QED
  BY <1>1, <1>2

LEMMA SecondsInUnits ==
  ASSUME NEW t \in Nat PROVE InUnits(<<Minute, 1>>, <<<<Num(0)>>, <<Num(t)>>>>) = Duration(t)
<1>0. 2 \in Nat /\ 0 \in Nat
  OBVIOUS
<1>1. PICK w : w = [i \in 1 .. 2 |-> IF i = 1 THEN 0 ELSE t]
  OBVIOUS
<1>9. PICK units, numbers : units = <<Minute, 1>> /\ numbers = <<<<Num(0)>>, <<Num(t)>>>>
  BY Zenon
<1>2. w \in [1 .. 2 -> Int] /\ w[1] = 0 /\ w[2] = t /\ DOMAIN numbers = 1 .. 2
  BY <1>1, <1>9
<1>3. units[1] \in Int /\ units[2] = 1
  BY <1>9 DEF Minute
<1>4. numbers[1] = <<Num(0)>> /\ numbers[2] = <<Num(t)>>
  BY <1>9
<1>5. \A i \in 1 .. 2 : ParseInt(numbers[i]).ok /\ units[i] * ParseInt(numbers[i]).value = w[i]
  <2> SUFFICES ASSUME NEW i \in 1 .. 2 PROVE ParseInt(numbers[i]).ok /\ units[i] * ParseInt(numbers[i]).value = w[i]
    OBVIOUS
  <2>0. i = 1 \/ i = 2
    OBVIOUS
  <2>1. CASE i = 1
    <3>1. ParseInt(numbers[i]).ok /\ ParseInt(numbers[i]).value = 0
      BY <1>0, <1>4, <2>1, ParseNum, Zenon
    <3> QED
      BY <1>2, <1>3, <2>1, <3>1
  <2>2. CASE i = 2
    <3>1. ParseInt(numbers[i]).ok /\ ParseInt(numbers[i]).value = t
      BY <1>4, <2>2, ParseNum, Zenon
    <3> QED
      BY <1>2, <1>3, <2>2, <3>1
  <2> QED
    BY <2>0, <2>1, <2>2
<1>6. PICK r : IsSum(w, 2, r) /\ InUnits(units, numbers) = Duration(r)
  <2>1. Weights(units, numbers, 2, w)
    BY <1>2, <1>5, <1>0 DEF Weights
  <2> QED
    BY <2>1, InUnitsIs, Zenon
<1>7. r = t
  BY <1>2, <1>6, SumOfTwo
<1>8. InUnits(units, numbers) = Duration(t)
  BY <1>6, <1>7
<1> QED
  BY <1>8, <1>9

\* A wall time in seconds, as no minutes and those seconds, is read back.
LEMMA SecondsParsed == ASSUME NEW t \in Nat PROVE ParseDuration(<<Num(0), Colon, Num(t)>>) = Duration(t)
<1>1. PICK x, y : x = Num(0) /\ y = Num(t)
  OBVIOUS
<1>2. x # Colon /\ y # Colon /\ x # Dash
  <2>1. 0 \in Nat
    OBVIOUS
  <2> QED
    BY <1>1, <2>1, NumNotSeparator, Zenon
<1>3. PICK parts : parts = <<<<x>>, <<y>>>>
  OBVIOUS
<1>4. Len(parts) = 2 /\ parts[1] = <<x>>
  BY <1>3
<1>5. ~Contains(parts[1], Dash)
  BY <1>2, <1>4 DEF Contains
<1>6. PartsDuration(parts) = InUnits(<<Minute, 1>>, parts)
  <2>1. ~(Len(parts) > 3) /\ Len(parts) <= 3
    BY <1>4, SMT
  <2>2. Units(FALSE, Len(parts)) = <<Minute, 1>>
    BY <1>4, SMT DEF Units
  <2> QED
    BY <1>5, <2>1, <2>2, Zenon DEF PartsDuration
<1>7. InUnits(<<Minute, 1>>, parts) = Duration(t)
  BY <1>1, <1>3, SecondsInUnits
<1>8. Split(<<x, Colon, y>>, Colon) = parts
  BY <1>2, <1>3, SplitTwo, Zenon
<1>9. ParseDuration(<<x, Colon, y>>) = PartsDuration(parts)
  <2>1. Len(<<x, Colon, y>>) > 1
    OBVIOUS
  <2> QED
    BY <1>8, <2>1, ParseOfParts, Zenon
<1> QED
  BY <1>1, <1>6, <1>7, <1>9

\* A line with one flag and its value is that parameter.
LEMMA OneAssign ==
  ASSUME NEW W, NEW name \in W, NEW value \in Values(W), NEW acc \in Accs(W), acc.status = "ok", ~acc.skip
  PROVE  LET b == applySbatchParam(acc, name, value)
         IN  /\ Line("sbatch", <<Assign(name, value)>>) \in ScriptLines(W)
             /\ Applied(W, acc, name, value, b)
             /\ ScanLine(acc, Line("sbatch", <<Assign(name, value)>>)) = b
<1>1. PICK w, words, line : w = Assign(name, value) /\ words = <<w>> /\ line = Line("sbatch", words)
  OBVIOUS
<1>2. w \in ScriptWords(W) /\ w.eq /\ w.name = name /\ w.value = value
  BY <1>1 DEF Assign, ScriptWords
<1>3. words \in Seq(ScriptWords(W)) /\ Len(words) = 1 /\ words[1] = w
  BY <1>1, <1>2
<1>4. line \in ScriptLines(W) /\ line.kind = "sbatch" /\ line.words = words
  BY <1>1, <1>3 DEF Line, ScriptLines
<1>5. PICK v : WordRun(W, words, acc, v) /\ ScanLine(acc, line) = v[1]
  <2>1. line.kind # "blank"
    BY <1>4
  <2> QED
    BY <1>3, <1>4, <2>1, WordRunExists
<1>6. v[0] = acc /\ v[1] = ScanWord(words, v[0], 1)
  <2>1. v[0] = [acc EXCEPT !.skip = FALSE] /\ v[1] = ScanWord(words, v[1 - 1], 1)
    BY <1>3, <1>5 DEF WordRun
  <2>2. [acc EXCEPT !.skip = FALSE] = acc
    BY DEF Accs
  <2> QED
    BY <2>1, <2>2
<1>7. PICK b : b = applySbatchParam(acc, name, value)
  OBVIOUS
<1>8. Applied(W, acc, name, value, b)
  BY <1>7, ParamApplied
<1>9. v[1] = [b EXCEPT !.skip = FALSE]
  <2>1. ScanWord(words, acc, 1) = [applySbatchParam(acc, words[1].name, words[1].value) EXCEPT !.skip = ~words[1].eq]
    BY <1>2, <1>3, Zenon DEF ScanWord
  <2> QED
    BY <1>2, <1>3, <1>6, <1>7, <2>1
<1>10. [b EXCEPT !.skip = FALSE] = b
  <2>1. b \in Accs(W) /\ b.skip = acc.skip
    BY <1>8, Zenon DEF Applied
  <2> QED
    BY <2>1 DEF Accs
<1> QED
  BY <1>1, <1>4, <1>5, <1>7, <1>8, <1>9, <1>10

Reading(lines) == FoldLeft(ScanLine, Extracted("ok", NoResources), lines)

LEMMA ReadingAppend ==
  ASSUME NEW W, NEW lines \in Seq(ScriptLines(W)), NEW line \in ScriptLines(W)
  PROVE  Reading(lines) \in Accs(W) /\ Reading(Append(lines, line)) = ScanLine(Reading(lines), line)
<1>1. PICK n, a : n = Len(lines) /\ a = Append(lines, line)
  OBVIOUS
<1>2. n \in Nat /\ a \in Seq(ScriptLines(W)) /\ Len(a) = n + 1 /\ a[n + 1] = line /\ \A k \in 1 .. n : a[k] = lines[k]
  BY <1>1, LenProperties, AppendProperties
<1>3. PICK u : LineRun(W, lines, u) /\ Reading(lines) = u[n]
  BY <1>1, LineRunExists, Zenon DEF Reading
<1>4. PICK v : LineRun(W, a, v) /\ Reading(a) = v[n + 1]
  BY <1>2, LineRunExists, Zenon DEF Reading
<1> DEFINE P == {k \in Nat : k <= n => v[k] = u[k]}
<1>5. 0 \in P
  BY <1>3, <1>4 DEF LineRun
<1>6. ASSUME NEW k \in Nat, k \in P PROVE k + 1 \in P
  <2> SUFFICES ASSUME k + 1 <= n PROVE v[k + 1] = u[k + 1]
    OBVIOUS
  <2>1. k + 1 \in 1 .. n /\ k + 1 \in 1 .. n + 1 /\ k <= n /\ (k + 1) - 1 = k
    BY <1>2
  <2>2. v[k + 1] = ScanLine(v[k], a[k + 1]) /\ u[k + 1] = ScanLine(u[k], lines[k + 1])
    BY <1>1, <1>2, <1>3, <1>4, <2>1 DEF LineRun
  <2>3. v[k] = u[k] /\ a[k + 1] = lines[k + 1]
    BY <1>2, <1>6, <2>1
  <2> QED
    BY <2>2, <2>3
<1> HIDE DEF P
<1>7. Nat \subseteq P
  BY <1>5, <1>6, NatInduct
<1>8. v[n] = u[n]
  BY <1>2, <1>7 DEF P
<1>9. v[n + 1] = ScanLine(v[n], line)
  <2>1. n + 1 \in 1 .. Len(a) /\ (n + 1) - 1 = n
    BY <1>2
  <2>2. v[n + 1] = ScanLine(v[n], a[n + 1])
    BY <1>4, <2>1 DEF LineRun
  <2> QED
    BY <1>2, <2>2
<1>10. u[n] \in Accs(W)
  BY <1>1, <1>2, <1>3 DEF LineRun
<1> QED
  BY <1>1, <1>3, <1>4, <1>8, <1>9, <1>10

\* What the parser has read after the lines of a header.
Got(W, lines, t, n, c) ==
  /\ lines \in Seq(ScriptLines(W)) /\ \A k \in 1 .. Len(lines) : lines[k].kind \in {"blank", "sbatch"}
  /\ Reading(lines) \in Accs(W) /\ Reading(lines).status = "ok" /\ ~Reading(lines).skip
  /\ Reading(lines).res.WallTime = t /\ Reading(lines).res.Nodes = n /\ Reading(lines).res.CpusPerTask = c

LEMMA ConcatOne == \A S : \A s \in Seq(S) : \A x \in S : s \o <<x>> = Append(s, x)
<1> SUFFICES ASSUME NEW S, NEW s \in Seq(S), NEW x \in S PROVE s \o <<x>> = Append(s, x)
  OBVIOUS
<1>1. PICK t, u : t = <<x>> /\ u = Append(s, x)
  OBVIOUS
<1>2. t \in Seq(S) /\ Len(t) = 1 /\ t[1] = x
  BY <1>1
<1>3. u \in Seq(S) /\ Len(u) = Len(s) + 1 /\ u[Len(s) + 1] = x /\ \A k \in 1 .. Len(s) : u[k] = s[k]
  BY <1>1, AppendProperties
<1>4. Len(u) = Len(s) + Len(t) /\ \A k \in 1 .. Len(t) : u[Len(s) + k] = t[k]
  BY <1>2, <1>3
<1>5. s \o t = u
  BY <1>2, <1>3, <1>4, ConcatIs, Zenon
<1> QED
  BY <1>1, <1>5

\* One more line with one flag.
LEMMA GotOne ==
  ASSUME NEW W, NEW lines, NEW t, NEW n, NEW c, Got(W, lines, t, n, c), NEW name \in W, NEW value \in Values(W),
         NEW b, b = applySbatchParam(Reading(lines), name, value), b.status = "ok"
  PROVE  Got(W, lines \o <<Line("sbatch", <<Assign(name, value)>>)>>, b.res.WallTime, b.res.Nodes, b.res.CpusPerTask)
<1>1. PICK line, all, acc : /\ line = Line("sbatch", <<Assign(name, value)>>) /\ all = Append(lines, line)
                            /\ acc = Reading(lines)
  OBVIOUS
<1>2. /\ lines \in Seq(ScriptLines(W)) /\ \A k \in 1 .. Len(lines) : lines[k].kind \in {"blank", "sbatch"}
      /\ acc \in Accs(W) /\ acc.status = "ok" /\ ~acc.skip
  BY <1>1, Zenon DEF Got
<1>3. line \in ScriptLines(W) /\ Applied(W, acc, name, value, b) /\ ScanLine(acc, line) = b
  BY <1>1, <1>2, OneAssign
<1>4. Reading(all) = b /\ b \in Accs(W) /\ b.skip = acc.skip
  <2>1. Reading(all) = ScanLine(acc, line)
    BY <1>1, <1>2, <1>3, ReadingAppend
  <2> QED
    BY <1>3, <2>1, Zenon DEF Applied
<1>5. /\ all \in Seq(ScriptLines(W)) /\ Len(all) = Len(lines) + 1 /\ all[Len(lines) + 1] = line
      /\ Len(lines) \in Nat /\ \A k \in 1 .. Len(lines) : all[k] = lines[k]
  BY <1>1, <1>2, <1>3, AppendProperties, LenProperties
<1>6. \A k \in 1 .. Len(all) : all[k].kind \in {"blank", "sbatch"}
  <2> SUFFICES ASSUME NEW k \in 1 .. Len(all) PROVE all[k].kind \in {"blank", "sbatch"}
    OBVIOUS
  <2>1. line.kind = "sbatch"
    BY <1>1 DEF Line
  <2>2. k = Len(lines) + 1 \/ k \in 1 .. Len(lines)
    BY <1>5
  <2> QED
    BY <1>2, <1>5, <2>1, <2>2
<1>7. Got(W, all, b.res.WallTime, b.res.Nodes, b.res.CpusPerTask)
  BY <1>2, <1>4, <1>5, <1>6, Zenon DEF Got
<1>8. lines \o <<line>> = all
  BY <1>1, <1>2, <1>3, ConcatOne, Zenon
<1> QED
  BY <1>1, <1>7, <1>8, Zenon

LEMMA NoneIsLeftOut ==
  \A W : \A lines \in Seq(ScriptLines(W)) : \A n, word : n = 0 => lines \o NonZero(n, word) = lines
<1> SUFFICES ASSUME NEW W, NEW lines \in Seq(ScriptLines(W)), NEW n, NEW word, n = 0
             PROVE  lines \o NonZero(n, word) = lines
  OBVIOUS
<1>1. NonZero(n, word) = <<>>
  BY Zenon DEF NonZero
<1>2. lines \o <<>> = lines
  BY ConcatEmptySeq
<1> QED
  BY <1>1, <1>2

\* The words of the scripts that SubmitJobContainer writes.
Written == {"", ":", "--time", "--mem", "--nodes", "--cpus-per-task", "run", "verify", "pull -U", "pull", "rm"}

LEMMA WrittenValues ==
  ASSUME NEW n \in Nat
  PROVE  <<Num(n)>> \in Values(Written) /\ <<Num(0), Colon, Num(n)>> \in Values(Written)
<1>1. Num(n) \in Tokens(Written) /\ Num(0) \in Tokens(Written) /\ Colon \in Tokens(Written)
  BY DEF Num, Colon, Word, Tokens, Written
<1> QED
  BY <1>1 DEF Values

LEMMA GotStart == Got(Written, <<Line("blank", <<>>)>>, 0, 0, 0)
<1>1. PICK line, lines : line = Line("blank", <<>>) /\ lines = Append(<<>>, line)
  OBVIOUS
<1>2. line \in ScriptLines(Written) /\ line.kind = "blank"
  <2>1. <<>> \in Seq(ScriptWords(Written))
    BY EmptySeq
  <2> QED
    BY <1>1, <2>1 DEF Line, ScriptLines
<1>3. <<>> \in Seq(ScriptLines(Written)) /\ Len(<<>>) = 0
  BY EmptySeq
<1>4. Reading(<<>>) = Extracted("ok", NoResources)
  <2>1. PICK u : LineRun(Written, <<>>, u) /\ Reading(<<>>) = u[0]
    BY <1>3, LineRunExists DEF Reading
  <2> QED
    BY <2>1 DEF LineRun
<1>5. Reading(lines) = Extracted("ok", NoResources)
  <2>1. Reading(lines) = ScanLine(Reading(<<>>), line)
    BY <1>1, <1>2, <1>3, ReadingAppend
  <2> QED
    BY <1>2, <1>4, <2>1 DEF ScanLine
<1>6. lines = <<line>>
  BY <1>1, Tuple1
<1>7. lines \in Seq(ScriptLines(Written)) /\ \A k \in 1 .. Len(lines) : lines[k].kind \in {"blank", "sbatch"}
  BY <1>2, <1>6
<1>8. /\ Extracted("ok", NoResources).status = "ok" /\ ~Extracted("ok", NoResources).skip
      /\ Extracted("ok", NoResources).res.WallTime = 0 /\ Extracted("ok", NoResources).res.Nodes = 0
      /\ Extracted("ok", NoResources).res.CpusPerTask = 0 /\ Extracted("ok", NoResources) \in Accs(Written)
  BY StartType DEF Extracted, NoResources
<1> QED
  BY <1>1, <1>5, <1>6, <1>7, <1>8, Zenon DEF Got

LEMMA GotTime ==
  ASSUME NEW lines, NEW n, NEW c, Got(Written, lines, 0, n, c), NEW t \in Nat
  PROVE  Got(Written, lines \o NonZero(t, Assign("--time", <<Num(0), Colon, Num(t)>>)), t, n, c)
<1>0. PICK word : word = Assign("--time", <<Num(0), Colon, Num(t)>>)
  OBVIOUS
<1>1. lines \in Seq(ScriptLines(Written))
  BY Zenon DEF Got
<1>2. CASE t = 0
  <2>1. lines \o NonZero(t, word) = lines
    BY <1>1, <1>2, NoneIsLeftOut, Zenon
  <2> QED
    BY <1>0, <1>2, <2>1
<1>3. CASE t # 0
  <2>1. PICK acc, value : acc = Reading(lines) /\ value = <<Num(0), Colon, Num(t)>>
    OBVIOUS
  <2>2. acc \in Accs(Written) /\ acc.status = "ok" /\ acc.res.Nodes = n /\ acc.res.CpusPerTask = c
    BY <2>1, Zenon DEF Got
  <2>3. PICK b : b = applySbatchParam(acc, "--time", value)
    OBVIOUS
  <2>4. b = SetTime(acc, Duration(t))
    <3>1. ParseDuration(value) = Duration(t)
      BY <2>1, SecondsParsed, Zenon
    <3>2. "--time" \notin {"--nodes", "-N", "--mem-per-cpu", "--cpus-per-task", "-c", "--ntasks-per-node"}
      OBVIOUS
    <3>3. b = SetTime(acc, ParseDuration(value))
      BY <2>3, <3>2, Zenon DEF applySbatchParam
    <3> QED
      BY <3>1, <3>3
  <2>5. b = [acc EXCEPT !.res.WallTime = t]
    <3>1. Duration(t).kind = "duration" /\ Duration(t).value = t
      BY DEF Duration
    <3>2. "duration" # "unlimited" /\ "duration" # "invalid"
      OBVIOUS
    <3> QED
      BY <2>4, <3>1, <3>2, Zenon DEF SetTime
  <2>6. b.status = "ok" /\ b.res.WallTime = t /\ b.res.Nodes = n /\ b.res.CpusPerTask = c
    BY <2>2, <2>5 DEF Accs, Read
  <2>7. "--time" \in Written /\ value \in Values(Written)
    BY <2>1, WrittenValues DEF Written
  <2>8. Got(Written, lines \o <<Line("sbatch", <<Assign("--time", value)>>)>>, t, n, c)
    BY <2>1, <2>3, <2>6, <2>7, GotOne
  <2>9. NonZero(t, word) = <<Line("sbatch", <<word>>)>>
    BY <1>3, Zenon DEF NonZero
  <2> QED
    BY <1>0, <2>1, <2>8, <2>9
<1> QED
  BY <1>2, <1>3

LEMMA GotMem ==
  ASSUME NEW lines, NEW t, NEW n, NEW c, Got(Written, lines, t, n, c), NEW m \in Nat
  PROVE  Got(Written, lines \o NonZero(m, Assign("--mem", <<Num(m)>>)), t, n, c)
<1>0. PICK word : word = Assign("--mem", <<Num(m)>>)
  OBVIOUS
<1>1. lines \in Seq(ScriptLines(Written))
  BY Zenon DEF Got
<1>2. CASE m = 0
  <2>1. lines \o NonZero(m, word) = lines
    BY <1>1, <1>2, NoneIsLeftOut, Zenon
  <2> QED
    BY <1>0, <1>2, <2>1
<1>3. CASE m # 0
  <2>1. PICK acc, value : acc = Reading(lines) /\ value = <<Num(m)>>
    OBVIOUS
  <2>2. acc.status = "ok" /\ acc.res.WallTime = t /\ acc.res.Nodes = n /\ acc.res.CpusPerTask = c
    BY <2>1, Zenon DEF Got
  <2>3. PICK b : b = applySbatchParam(acc, "--mem", value)
    OBVIOUS
  <2>4. b = acc
    <3>1. "--mem" \notin {"--time", "-t", "--nodes", "-N", "--mem-per-cpu", "--cpus-per-task", "-c", "--ntasks-per-node"}
      OBVIOUS
    <3> QED
      BY <2>3, <3>1, Zenon DEF applySbatchParam
  <2>7. "--mem" \in Written /\ value \in Values(Written)
    BY <2>1, WrittenValues DEF Written
  <2>8. Got(Written, lines \o <<Line("sbatch", <<Assign("--mem", value)>>)>>, t, n, c)
    BY <2>1, <2>2, <2>3, <2>4, <2>7, GotOne
  <2>9. NonZero(m, word) = <<Line("sbatch", <<word>>)>>
    BY <1>3, Zenon DEF NonZero
  <2> QED
    BY <1>0, <2>1, <2>8, <2>9
<1> QED
  BY <1>2, <1>3

\* A number is read as it is, also where a range is allowed.
LEMMA NumberRead ==
  ASSUME NEW W, NEW acc \in Accs(W), NEW m \in Nat, NEW field \in {"Nodes", "CpusPerTask"}, NEW b,
         b = SetInt(acc, field, FieldText(field, <<Num(m)>>))
  PROVE  b = [acc EXCEPT !.res[field] = m]
<1>1. PICK x : x = Num(m)
  OBVIOUS
<1>2. x # Dash
  BY <1>1, NumNotSeparator, Zenon
<1>3. ~Contains(<<x>>, Dash)
  BY <1>2, ContainsSingle, Zenon
<1>4. FieldText(field, <<x>>) = <<x>>
  BY <1>3, Zenon DEF FieldText
<1>5. ParseInt(<<x>>).ok /\ ParseInt(<<x>>).value = m
  BY <1>1, ParseNum, Zenon
<1> QED
  BY <1>1, <1>4, <1>5, Zenon DEF SetInt

LEMMA GotNodes ==
  ASSUME NEW lines, NEW t, NEW c, Got(Written, lines, t, 0, c), NEW m \in Nat
  PROVE  Got(Written, lines \o NonZero(m, Assign("--nodes", <<Num(m)>>)), t, m, c)
<1>0. PICK word : word = Assign("--nodes", <<Num(m)>>)
  OBVIOUS
<1>1. lines \in Seq(ScriptLines(Written))
  BY Zenon DEF Got
<1>2. CASE m = 0
  <2>1. lines \o NonZero(m, word) = lines
    BY <1>1, <1>2, NoneIsLeftOut, Zenon
  <2> QED
    BY <1>0, <1>2, <2>1
<1>3. CASE m # 0
  <2>1. PICK acc, value : acc = Reading(lines) /\ value = <<Num(m)>>
    OBVIOUS
  <2>2. acc \in Accs(Written) /\ acc.status = "ok" /\ acc.res.WallTime = t /\ acc.res.CpusPerTask = c
    BY <2>1, Zenon DEF Got
  <2>3. PICK b : b = applySbatchParam(acc, "--nodes", value)
    OBVIOUS
  <2>4. b = [acc EXCEPT !.res.Nodes = m]
    <3>1. "--nodes" \notin {"--time", "-t", "--mem-per-cpu", "--cpus-per-task", "-c", "--ntasks-per-node"}
      OBVIOUS
    <3>2. b = SetInt(acc, "Nodes", FieldText("Nodes", value))
      BY <2>3, <3>1, Zenon DEF applySbatchParam, FieldText
    <3>3. "Nodes" \in {"Nodes", "CpusPerTask"}
      OBVIOUS
    <3>4. b = [acc EXCEPT !.res["Nodes"] = m]
      BY <2>1, <2>2, <3>2, <3>3, NumberRead
    <3> QED
      BY <3>4
  <2>6. b.status = "ok" /\ b.res.WallTime = t /\ b.res.Nodes = m /\ b.res.CpusPerTask = c
    BY <2>2, <2>4 DEF Accs, Read
  <2>7. "--nodes" \in Written /\ value \in Values(Written)
    BY <2>1, WrittenValues DEF Written
  <2>8. Got(Written, lines \o <<Line("sbatch", <<Assign("--nodes", value)>>)>>, t, m, c)
    BY <2>1, <2>3, <2>6, <2>7, GotOne
  <2>9. NonZero(m, word) = <<Line("sbatch", <<word>>)>>
    BY <1>3, Zenon DEF NonZero
  <2> QED
    BY <1>0, <2>1, <2>8, <2>9
<1> QED
  BY <1>2, <1>3

LEMMA GotCpus ==
  ASSUME NEW lines, NEW t, NEW n, Got(Written, lines, t, n, 0), NEW m \in Nat
  PROVE  Got(Written, lines \o NonZero(m, Assign("--cpus-per-task", <<Num(m)>>)), t, n, m)
<1>0. PICK word : word = Assign("--cpus-per-task", <<Num(m)>>)
  OBVIOUS
<1>1. lines \in Seq(ScriptLines(Written))
  BY Zenon DEF Got
<1>2. CASE m = 0
  <2>1. lines \o NonZero(m, word) = lines
    BY <1>1, <1>2, NoneIsLeftOut, Zenon
  <2> QED
    BY <1>0, <1>2, <2>1
<1>3. CASE m # 0
  <2>1. PICK acc, value : acc = Reading(lines) /\ value = <<Num(m)>>
    OBVIOUS
  <2>2. acc \in Accs(Written) /\ acc.status = "ok" /\ acc.res.WallTime = t /\ acc.res.Nodes = n
    BY <2>1, Zenon DEF Got
  <2>3. PICK b : b = applySbatchParam(acc, "--cpus-per-task", value)
    OBVIOUS
  <2>4. b = [acc EXCEPT !.res.CpusPerTask = m]
    <3>1. "--cpus-per-task" \notin {"--time", "-t", "--mem-per-cpu", "--nodes", "-N", "--ntasks-per-node"}
      OBVIOUS
    <3>2. b = SetInt(acc, "CpusPerTask", FieldText("CpusPerTask", value))
      <4>1. "CpusPerTask" # "Nodes"
        OBVIOUS
      <4> QED
        BY <2>3, <3>1, <4>1, Zenon DEF applySbatchParam, FieldText
    <3>3. "CpusPerTask" \in {"Nodes", "CpusPerTask"}
      OBVIOUS
    <3>4. b = [acc EXCEPT !.res["CpusPerTask"] = m]
      BY <2>1, <2>2, <3>2, <3>3, NumberRead
    <3> QED
      BY <3>4
  <2>6. b.status = "ok" /\ b.res.WallTime = t /\ b.res.CpusPerTask = m /\ b.res.Nodes = n
    BY <2>2, <2>4 DEF Accs, Read
  <2>7. "--cpus-per-task" \in Written /\ value \in Values(Written)
    BY <2>1, WrittenValues DEF Written
  <2>8. Got(Written, lines \o <<Line("sbatch", <<Assign("--cpus-per-task", value)>>)>>, t, n, m)
    BY <2>1, <2>3, <2>6, <2>7, GotOne
  <2>9. NonZero(m, word) = <<Line("sbatch", <<word>>)>>
    BY <1>3, Zenon DEF NonZero
  <2> QED
    BY <1>0, <2>1, <2>8, <2>9
<1> QED
  BY <1>2, <1>3

LEMMA CommandIs ==
  ASSUME NEW name \in Written PROVE Command(name) \in ScriptLines(Written) /\ Command(name).kind = "command"
<1>1. PICK token, word : token = Word(name) /\ word = Bare(name)
  OBVIOUS
<1>2. token \in Tokens(Written)
  BY <1>1 DEF Word, Tokens
<1>3. word = [name |-> name, eq |-> FALSE, value |-> <<token>>] /\ <<token>> \in Values(Written)
  BY <1>1, <1>2 DEF Bare, Values
<1>4. word \in ScriptWords(Written)
  BY <1>3 DEF ScriptWords
<1>5. <<word>> \in Seq(ScriptWords(Written))
  BY <1>4
<1> QED
  BY <1>1, <1>5 DEF Command, Line, ScriptLines

\* What follows the header of a container's script.
LEMMA CommandsAre ==
  ASSUME NEW r \in Containers, NEW commands, commands = ImageCommands(r)
  PROVE  commands \in Seq(ScriptLines(Written)) /\ Len(commands) >= 1 /\ commands[1].kind = "command"
<1>0. r.Local \in BOOLEAN /\ r.AllowUnsigned \in BOOLEAN
  BY ContainersAssumption
<1>1. "run" \in Written /\ "verify" \in Written /\ "rm" \in Written /\ "pull" \in Written /\ "pull -U" \in Written
  BY DEF Written
<1>2. PICK L, run, verify, rm, pull :
        /\ L = ScriptLines(Written) /\ run = Command("run") /\ verify = Command("verify") /\ rm = Command("rm")
        /\ pull = Command(IF r.AllowUnsigned THEN "pull -U" ELSE "pull")
  OBVIOUS
<1>3. run \in L /\ verify \in L /\ rm \in L /\ run.kind = "command" /\ verify.kind = "command"
  BY <1>1, <1>2, CommandIs
<1>4. pull \in L /\ pull.kind = "command"
  <2>1. CASE r.AllowUnsigned
    BY <1>1, <1>2, <2>1, CommandIs
  <2>2. CASE ~r.AllowUnsigned
    BY <1>1, <1>2, <2>2, CommandIs
  <2> QED
    BY <2>1, <2>2
<1>5. commands = <<run>> \/ commands = <<verify, run>> \/ commands = <<pull, run, rm>>
  <2>1. CASE r.Local /\ r.AllowUnsigned
    BY <1>2, <2>1, Zenon DEF ImageCommands, buildRunCommand
  <2>2. CASE r.Local /\ ~r.AllowUnsigned
    BY <1>2, <2>2, Zenon DEF ImageCommands, buildRunCommand
  <2>3. CASE ~r.Local
    BY <1>2, <2>3, Zenon DEF ImageCommands, buildRunCommand
  <2> QED
    BY <1>0, <2>1, <2>2, <2>3
<1>6. CASE commands = <<run>>
  <2>1. commands \in Seq(L)
    BY <1>3, <1>6
  <2>2. Len(commands) = 1 /\ commands[1] = run
    BY <1>6
  <2>3. Len(commands) >= 1 /\ commands[1].kind = "command"
    BY <1>3, <2>2
  <2>4. commands \in Seq(ScriptLines(Written))
    BY <1>2, <2>1, Zenon
  <2> QED
    BY <2>3, <2>4
<1>7. CASE commands = <<verify, run>>
  <2>1. commands \in Seq(L)
    BY <1>3, <1>7
  <2>2. Len(commands) = 2 /\ commands[1] = verify
    BY <1>7
  <2>3. Len(commands) >= 1 /\ commands[1].kind = "command"
    BY <1>3, <2>2
  <2>4. commands \in Seq(ScriptLines(Written))
    BY <1>2, <2>1, Zenon
  <2> QED
    BY <2>3, <2>4
<1>8. CASE commands = <<pull, run, rm>>
  <2>1. commands \in Seq(L)
    BY <1>3, <1>4, <1>8
  <2>2. Len(commands) = 3 /\ commands[1] = pull
    BY <1>8
  <2>3. Len(commands) >= 1 /\ commands[1].kind = "command"
    BY <1>3, <1>4, <2>2
  <2>4. commands \in Seq(ScriptLines(Written))
    BY <1>2, <2>1, Zenon
  <2> QED
    BY <2>3, <2>4
<1> QED
  BY <1>5, <1>6, <1>7, <1>8

LEMMA HeaderEnds ==
  ASSUME NEW lines, NEW t, NEW n, NEW c, Got(Written, lines, t, n, c),
         NEW commands \in Seq(ScriptLines(Written)), Len(commands) >= 1, commands[1].kind = "command"
  PROVE  Header(lines \o commands) = lines
<1>1. PICK script, L : script = lines \o commands /\ L = ScriptLines(Written)
  OBVIOUS
<1>2. /\ lines \in Seq(L) /\ commands \in Seq(L) /\ Len(lines) \in Nat /\ Len(commands) \in Nat
      /\ \A k \in 1 .. Len(lines) : lines[k].kind \in {"blank", "sbatch"}
  BY <1>1, LenProperties DEF Got
<1>3. /\ script \in Seq(L) /\ Len(script) = Len(lines) + Len(commands)
      /\ \A k \in 1 .. Len(lines) + Len(commands) : script[k] = IF k <= Len(lines) THEN lines[k] ELSE commands[k - Len(lines)]
  BY <1>1, <1>2, ConcatProperties
<1>4. PICK header, m : header = Header(script) /\ header \in Seq(L) /\ m \in Nat /\ IsHeader(script, header, m)
  BY <1>1, <1>3, HeaderIs
<1>5. /\ m \in 0 .. Len(script) /\ Len(header) = m
      /\ \A k \in 1 .. m : header[k] = script[k] /\ script[k].kind \in {"blank", "sbatch"}
      /\ m < Len(script) => script[m + 1].kind \in {"comment", "command"}
  BY <1>4 DEF IsHeader
<1>0. m \in Nat /\ Len(commands) >= 1
  BY <1>4
<1>6. ~(m > Len(lines))
  <2> SUFFICES ASSUME m > Len(lines) PROVE FALSE
    OBVIOUS
  <2>1. Len(lines) + 1 \in 1 .. m /\ Len(lines) + 1 \in 1 .. Len(lines) + Len(commands) /\ ~(Len(lines) + 1 <= Len(lines))
        /\ (Len(lines) + 1) - Len(lines) = 1
    BY <1>0, <1>2
  <2>2. script[Len(lines) + 1] = commands[1]
    BY <1>3, <2>1
  <2> QED
    BY <1>5, <2>1, <2>2
<1>7. ~(m < Len(lines))
  <2> SUFFICES ASSUME m < Len(lines) PROVE FALSE
    OBVIOUS
  <2>1. m + 1 \in 1 .. Len(lines) /\ m + 1 \in 1 .. Len(lines) + Len(commands) /\ m + 1 <= Len(lines) /\ m < Len(script)
    BY <1>0, <1>2, <1>3
  <2>2. script[m + 1] = lines[m + 1]
    BY <1>3, <2>1
  <2> QED
    BY <1>2, <1>5, <2>1, <2>2
<1>8. Len(header) = Len(lines)
  BY <1>2, <1>5, <1>6, <1>7
<1>9. \A k \in 1 .. Len(header) : header[k] = lines[k]
  <2> SUFFICES ASSUME NEW k \in 1 .. Len(header) PROVE header[k] = lines[k]
    OBVIOUS
  <2>1. k \in 1 .. Len(lines) + Len(commands) /\ k <= Len(lines) /\ k \in 1 .. m
    BY <1>2, <1>5, <1>8
  <2> QED
    BY <1>3, <1>5, <2>1
<1>10. header = lines
  BY <1>2, <1>4, <1>8, <1>9, SeqEqual
<1> QED
  BY <1>1, <1>4, <1>10

\* The script of a container says what its request says.
LEMMA ContainerRead ==
  ASSUME NEW r \in Containers, NEW e, e = extractBatchResourcesFromScript(buildSLURMScript(r))
  PROVE  /\ e.status = "ok" /\ e.res.WallTime = r.WallTime
         /\ e.res.Nodes = r.Nodes /\ e.res.CpusPerTask = r.CpuPerNode
<1>0. r.WallTime \in Nat /\ r.MemPerNode \in Nat /\ r.Nodes \in Nat /\ r.CpuPerNode \in Nat
  BY ContainersAssumption
<1>1. PICK a : a = <<Line("blank", <<>>)>> \o NonZero(r.WallTime, Assign("--time", <<Num(0), Colon, Num(r.WallTime)>>))
  OBVIOUS
<1>2. PICK b : b = a \o NonZero(r.MemPerNode, Assign("--mem", <<Num(r.MemPerNode)>>))
  OBVIOUS
<1>3. PICK c : c = b \o NonZero(r.Nodes, Assign("--nodes", <<Num(r.Nodes)>>))
  OBVIOUS
<1>4. PICK d : d = c \o NonZero(r.CpuPerNode, Assign("--cpus-per-task", <<Num(r.CpuPerNode)>>))
  OBVIOUS
<1>5. PICK commands : commands = ImageCommands(r)
  OBVIOUS
<1>6. buildSLURMScript(r) = d \o commands
  BY <1>1, <1>2, <1>3, <1>4, <1>5, Zenon DEF buildSLURMScript
<1>7. Got(Written, a, r.WallTime, 0, 0)
  BY <1>0, <1>1, GotStart, GotTime
<1>8. Got(Written, b, r.WallTime, 0, 0)
  BY <1>0, <1>2, <1>7, GotMem
<1>9. Got(Written, c, r.WallTime, r.Nodes, 0)
  BY <1>0, <1>3, <1>8, GotNodes
<1>10. Got(Written, d, r.WallTime, r.Nodes, r.CpuPerNode)
  BY <1>0, <1>4, <1>9, GotCpus
<1>11. Header(d \o commands) = d
  BY <1>5, <1>10, CommandsAre, HeaderEnds
<1>12. e = [status |-> Reading(d).status, res |-> Reading(d).res]
  BY <1>6, <1>11, Zenon DEF extractBatchResourcesFromScript, Reading
<1>13. e.status = Reading(d).status /\ e.res = Reading(d).res
  BY <1>12
<1> QED
  BY <1>10, <1>13, Zenon DEF Got

(* The operator reads a plain script as sbatch does, flag by flag; only a     *)
(* flag without its value at the end of a line takes it down; and the script  *)
(* that the agent writes for a container asks for what the request asks for.  *)
THEOREM ScriptRead == RequestSpec => []ScriptReadAsSbatch
<1>1. RequestInv => ScriptReadAsSbatch
  <2> SUFFICES ASSUME RequestInv PROVE ScriptReadAsSbatch
    OBVIOUS
  <2>1. ASSUME OfJob, NEW e, e = extractBatchResourcesFromScript(job.script)
        PROVE  /\ Plain(job.script) /\ e.status = "ok" =>
                    \A f \in DOMAIN FlagsOf :
                      e.res[f] = IF Directives(job.script, FlagsOf[f]) = {} THEN 0
                                 ELSE AtLeast(LastDirective(job.script, FlagsOf[f]))
               /\ step = "panic" =>
                    \E i \in DOMAIN job.script :
                      LET line == job.script[i]
                      IN  line.kind = "sbatch" /\ ~Valued(line) /\ ~line.words[Len(line.words)].eq
    <3>1. step \in JobSteps
      BY <2>1 DEF RequestInv, OfJob
    <3>2. job \in Jobs /\ (step = "panic" => e.status = "panic")
      BY <2>1, <3>1 DEF RequestInv
    <3>3. PICK script, W : script = job.script /\ script \in Seq(ScriptLines(W))
      BY <3>2, JobsAre
    <3>4. /\ Plain(script) /\ e.status = "ok" => \A f \in Flagged : Reads(script, Directives(script, FlagsOf[f]), e.res[f])
          /\ e.status = "panic" => \E i \in 1 .. Len(script) : script[i].kind = "sbatch" /\ BadEnd(script[i])
      BY <2>1, <3>3, ExtractedIs
    <3>5. ASSUME Plain(script), e.status = "ok", NEW f \in Flagged
          PROVE  e.res[f] = IF Directives(script, FlagsOf[f]) = {} THEN 0 ELSE AtLeast(LastDirective(script, FlagsOf[f]))
      BY <3>3, <3>4, <3>5, LastIs
    <3>6. ASSUME step = "panic"
          PROVE  \E i \in DOMAIN script :
                   script[i].kind = "sbatch" /\ ~Valued(script[i]) /\ ~script[i].words[Len(script[i].words)].eq
      <4>1. PICK i \in 1 .. Len(script) : script[i].kind = "sbatch" /\ BadEnd(script[i])
        BY <3>2, <3>4, <3>6
      <4>2. i \in DOMAIN script
        BY <3>3, <4>1, LenProperties
      <4> QED
        BY <4>1, <4>2, Zenon DEF BadEnd
    <3> QED
      BY <3>3, <3>5, <3>6, FlagsAre, Zenon
  <2>2. ASSUME step = "containerSubmitted", NEW e, e = extractBatchResourcesFromScript(opts.Script)
        PROVE  /\ e.status = "ok" /\ e.res.WallTime = job.WallTime
               /\ e.res.Nodes = job.Nodes /\ e.res.CpusPerTask = job.CpuPerNode
    <3>1. job \in Containers /\ opts.Script = buildSLURMScript(job)
      BY <2>2 DEF RequestInv
    <3> QED
      BY <2>2, <3>1, ContainerRead
  <2> QED
    BY <2>1, <2>2, Zenon DEF ScriptReadAsSbatch
<1> QED
  BY <1>1, RequestStays, PTL

-----------------------------------------------------------------------------
(* What the pod reserves. *)

\* The sum of a field of the hosts of a partition.
TotalOfHosts(nodes, field) == FoldLeft(LAMBDA sum, n : sum + n[field], 0, nodes)

NodeSteps(nodes, field, it) ==
  [d \in SUBSET DOMAIN nodes |-> IF d = {} THEN 0 ELSE it[d \ {Max(d)}] + nodes[Max(d)][field]]

LEMMA CapacityFold ==
  ASSUME NEW nodes, NEW field
  PROVE  TotalOfHosts(nodes, field) = (CHOOSE it : it = NodeSteps(nodes, field, it))[DOMAIN nodes]
  BY DEF TotalOfHosts, FoldLeft, MapThenFoldSet, NodeSteps

LEMMA TotalIsSum ==
  ASSUME NEW nodes, NEW field, NEW n \in Nat, DOMAIN nodes = 1 .. n, NEW w \in [1 .. n -> Int],
         \A k \in 1 .. n : w[k] = nodes[k][field]
  PROVE  IsSum(w, n, TotalOfHosts(nodes, field))
<1>6. \A it : NodeSteps(nodes, field, it) = SumSteps(w, n, it)
  <2> SUFFICES ASSUME NEW it PROVE NodeSteps(nodes, field, it) = SumSteps(w, n, it)
    OBVIOUS
  <2>1. ASSUME NEW d \in SUBSET (1 .. n), d # {} PROVE nodes[Max(d)][field] = w[Max(d)]
    BY <2>1, MaxOfSet
  <2> QED
    BY <2>1 DEF NodeSteps, SumSteps
<1>7. PICK it : it = CHOOSE x : x = NodeSteps(nodes, field, x)
  OBVIOUS
<1>8. it = SumSteps(w, n, it)
  <2>1. PICK g : g = SumSteps(w, n, g)
    BY SumExists
  <2>2. g = NodeSteps(nodes, field, g)
    BY <1>6, <2>1
  <2>3. it = NodeSteps(nodes, field, it)
    BY <1>7, <2>2, Zenon
  <2> QED
    BY <1>6, <2>3
<1>9. IsSum(w, n, it[1 .. n])
  BY <1>8, SumFold
<1>11. TotalOfHosts(nodes, field) = it[1 .. n]
  BY <1>7, CapacityFold
<1> QED
  BY <1>9, <1>11

LEMMA CapacityIsNat ==
  ASSUME NEW nodes \in Seq([Cpus : Nat, Memory : Nat]), NEW field \in {"Cpus", "Memory"}
  PROVE  TotalOfHosts(nodes, field) \in Nat
<1>1. PICK n : n = Len(nodes)
  OBVIOUS
<1>2. n \in Nat /\ DOMAIN nodes = 1 .. n /\ \A k \in 1 .. n : nodes[k] \in [Cpus : Nat, Memory : Nat]
  BY <1>1, LenProperties, ElementOfSeq
<1>3. \A k \in 1 .. n : nodes[k][field] \in Nat
  <2>1. CASE field = "Cpus"
    BY <1>2, <2>1
  <2>2. CASE field = "Memory"
    BY <1>2, <2>2
  <2> QED
    BY <2>1, <2>2
<1>4. PICK w : w = [k \in 1 .. n |-> nodes[k][field]]
  OBVIOUS
<1>5. w \in [1 .. n -> Nat] /\ w \in [1 .. n -> Int] /\ \A k \in 1 .. n : w[k] = nodes[k][field]
  BY <1>3, <1>4
<1>6. IsSum(w, n, TotalOfHosts(nodes, field))
  BY <1>2, <1>5, TotalIsSum
<1> QED
  BY <1>2, <1>5, <1>6, SumIsNat

LEMMA CapacityIs ==
  \A nodes : /\ GetPartitionCapacity(nodes).cpu = TotalOfHosts(nodes, "Cpus")
             /\ GetPartitionCapacity(nodes).memory = TotalOfHosts(nodes, "Memory") * 2 * 1024
             /\ GetPartitionCapacity(nodes).pods = TotalOfHosts(nodes, "Cpus")
<1> SUFFICES ASSUME NEW nodes
             PROVE  /\ GetPartitionCapacity(nodes).cpu = TotalOfHosts(nodes, "Cpus")
                    /\ GetPartitionCapacity(nodes).memory = TotalOfHosts(nodes, "Memory") * 2 * 1024
                    /\ GetPartitionCapacity(nodes).pods = TotalOfHosts(nodes, "Cpus")
  OBVIOUS
<1> QED
  BY DEF GetPartitionCapacity, TotalOfHosts

\* What the spec or else the script says.
Wanted(spec, res, f) == IF spec[f] > 0 THEN spec[f] ELSE res[f]

LEMMA RequiredIs ==
  ASSUME NEW W, NEW spec, NEW res \in Read(W), NEW q, q = setRequireResourceBySpec(spec, res)
  PROVE  /\ DOMAIN q = {"Nodes", "CpusPerTask", "MemPerCpu", "NtasksPerNode", "Ntasks", "Array", "WallTime"}
         /\ \A f \in Numbers : q[f] = Wanted(spec, res, f)
         /\ q.Array = spec.Array
<1>1. DOMAIN res = {"Nodes", "CpusPerTask", "MemPerCpu", "NtasksPerNode", "Ntasks", "Array", "WallTime"} /\ res.Array = <<>>
  BY DEF Read
<1>2. Numbers \subseteq SpecFields /\ Numbers \subseteq DOMAIN res /\ "Array" \notin Numbers /\ "Array" \in SpecFields
  BY <1>1 DEF Numbers, SpecFields
<1>3. q = [f \in DOMAIN res |-> IF f \in SpecFields /\ Given(spec, f) THEN spec[f] ELSE res[f]]
  BY Zenon DEF setRequireResourceBySpec
<1>4. DOMAIN q = DOMAIN res /\ \A f \in DOMAIN res : q[f] = IF f \in SpecFields /\ Given(spec, f) THEN spec[f] ELSE res[f]
  BY <1>3
<1>5. \A f \in Numbers : Given(spec, f) <=> spec[f] > 0
  BY <1>2, Zenon DEF Given
<1>6. \A f \in Numbers : q[f] = Wanted(spec, res, f)
  BY <1>2, <1>4, <1>5, Zenon DEF Wanted
<1>7. q["Array"] = spec["Array"]
  <2>1. "Array" \in DOMAIN res
    BY <1>1
  <2>2. Given(spec, "Array") <=> spec.Array # <<>>
    BY Zenon DEF Given
  <2>3. CASE Given(spec, "Array")
    BY <1>2, <1>4, <2>1, <2>3, Zenon
  <2>4. CASE ~Given(spec, "Array")
    <3>1. q["Array"] = res["Array"]
      BY <1>4, <2>1, <2>4, Zenon
    <3> QED
      BY <1>1, <2>2, <2>4, <3>1
  <2> QED
    BY <2>3, <2>4
<1> QED
  BY <1>1, <1>4, <1>6, <1>7

Defaulted(n, d) == IF n = 0 THEN d ELSE n

LEMMA DefaultedIs ==
  ASSUME NEW q, DOMAIN q = {"Nodes", "CpusPerTask", "MemPerCpu", "NtasksPerNode", "Ntasks", "Array", "WallTime"},
         NEW r, r = setDefaultRequireResource(q)
  PROVE  /\ r.Nodes = Defaulted(q.Nodes, 1) /\ r.CpusPerTask = Defaulted(q.CpusPerTask, 1)
         /\ r.MemPerCpu = Defaulted(q.MemPerCpu, 1024)
         /\ r.NtasksPerNode = q.NtasksPerNode /\ r.Ntasks = q.Ntasks /\ r.Array = q.Array
<1>1. r = [f \in DOMAIN q |-> IF f \in DOMAIN Default /\ q[f] = 0 THEN Default[f] ELSE q[f]]
  BY Zenon DEF setDefaultRequireResource
<1>2. \A f \in DOMAIN q : r[f] = IF f \in DOMAIN Default /\ q[f] = 0 THEN Default[f] ELSE q[f]
  BY <1>1
<1>3. DOMAIN Default = {"Nodes", "CpusPerTask", "MemPerCpu"} /\ Default.Nodes = 1 /\ Default.CpusPerTask = 1 /\ Default.MemPerCpu = 1024
  BY DEF Default
<1>4. "NtasksPerNode" \notin DOMAIN Default /\ "Ntasks" \notin DOMAIN Default /\ "Array" \notin DOMAIN Default
  BY <1>3
<1>5. r["NtasksPerNode"] = q["NtasksPerNode"] /\ r["Ntasks"] = q["Ntasks"] /\ r["Array"] = q["Array"]
  BY <1>2, <1>4
<1>6. r["Nodes"] = IF q["Nodes"] = 0 THEN 1 ELSE q["Nodes"]
  BY <1>2, <1>3
<1>7. r["CpusPerTask"] = IF q["CpusPerTask"] = 0 THEN 1 ELSE q["CpusPerTask"]
  BY <1>2, <1>3
<1>8. r["MemPerCpu"] = IF q["MemPerCpu"] = 0 THEN 1024 ELSE q["MemPerCpu"]
  BY <1>2, <1>3
<1> QED
  BY <1>5, <1>6, <1>7, <1>8 DEF Defaulted

\* What a job with a script that can be read asks for.
ScriptOk(j, e) == j \in Jobs /\ e = extractBatchResourcesFromScript(j.script) /\ e.status = "ok"

\* The script leaves the number of tasks and the array to the spec.
SpecDecides(j) == \A f \in DOMAIN Unread : ~LeftToScript(j, f)

LEMMA SpecDecidesIs ==
  \A j : SpecDecides(j) => ~LeftToScript(j, "Ntasks") /\ ~LeftToScript(j, "Array")
<1>1. DOMAIN Unread = {"Ntasks", "Array"}
  BY DEF Unread
<1> QED
  BY <1>1, Zenon DEF SpecDecides

LEMMA FlagsRead ==
  /\ \A f \in Flagged : SbatchFlags(f) = FlagsOf[f]
  /\ SbatchFlags("Ntasks") = Unread["Ntasks"]
<1>1. DOMAIN FlagsOf = Flagged /\ "Ntasks" \notin Flagged
  BY DEF FlagsOf, Flagged
<1> QED
  BY <1>1, Zenon DEF SbatchFlags

LEMMA WantedIs ==
  ASSUME NEW j, NEW e, ScriptOk(j, e), Plain(j.script), SpecDecides(j), NEW f \in Numbers
  PROVE  Wanted(j.spec, e.res, f) = Asked(j, f) /\ Asked(j, f) \in Nat
<1>1. PICK spec, script, W : /\ spec = j.spec /\ script = j.script /\ spec \in JobSpec
                             /\ script \in Seq(ScriptLines(W))
  BY JobsAre DEF ScriptOk
<1>2. spec[f] \in Int /\ f # "Array"
  BY <1>1 DEF JobSpec, Numbers
<1>3. Given(spec, f) <=> spec[f] > 0
  BY <1>2, Zenon DEF Given
<1>4. Numbers = Flagged \cup {"Ntasks"} /\ "Ntasks" \notin Flagged
  BY DEF Numbers, Flagged
<1>5. /\ Given(spec, f) => Asked(j, f) = spec[f]
      /\ ~Given(spec, f) =>
           Asked(j, f) = IF Directives(script, SbatchFlags(f)) = {} THEN 0
                         ELSE AtLeast(LastDirective(script, SbatchFlags(f)))
  BY <1>1, Zenon DEF Asked
<1>6. /\ e.res \in Read(W)
      /\ \A g \in Flagged : Reads(script, Directives(script, FlagsOf[g]), e.res[g])
  BY <1>1, ExtractedIs DEF ScriptOk
<1>7. CASE Given(spec, f)
  <2>1. spec[f] > 0 /\ spec[f] \in Nat
    BY <1>2, <1>3, <1>7
  <2> QED
    BY <1>1, <1>5, <1>7, <2>1 DEF Wanted
<1>8. CASE ~Given(spec, f) /\ f \in Flagged
  <2>1. ~(spec[f] > 0)
    BY <1>3, <1>8
  <2>2. Reads(script, Directives(script, FlagsOf[f]), e.res[f])
    BY <1>6, <1>8
  <2>3. Asked(j, f) = IF Directives(script, FlagsOf[f]) = {} THEN 0 ELSE AtLeast(LastDirective(script, FlagsOf[f]))
    BY <1>5, <1>8, FlagsRead, Zenon
  <2>4. e.res[f] = Asked(j, f)
    BY <1>1, <2>3, <1>8, <2>2, LastIs
  <2>5. e.res[f] \in Nat
    BY <2>2 DEF Reads
  <2> QED
    BY <1>1, <2>1, <2>4, <2>5 DEF Wanted
<1>9. CASE ~Given(spec, f) /\ f \notin Flagged
  <2>1. ~(spec[f] > 0)
    BY <1>3, <1>9
  <2>2. f = "Ntasks"
    BY <1>4, <1>9
  <2>3. e.res[f] = 0
    BY <1>6, <2>2 DEF Read
  <2>4. Directives(script, SbatchFlags(f)) = {}
    BY <1>1, <1>9, <2>2, SpecDecidesIs, FlagsRead, Zenon DEF LeftToScript
  <2>5. Asked(j, f) = 0
    BY <1>5, <1>9, <2>4, Zenon
  <2> QED
    BY <1>1, <2>1, <2>3, <2>5 DEF Wanted
<1> QED
  BY <1>7, <1>8, <1>9

LEMMA TokenIs == \A W : \A x \in Tokens(W) : x = [word |-> x.word, num |-> x.num] /\ x.num \in Nat
<1> SUFFICES ASSUME NEW W, NEW x \in [word : W, num : Nat] PROVE x = [word |-> x.word, num |-> x.num] /\ x.num \in Nat
  BY Zenon DEF Tokens
<1> QED
  OBVIOUS

\* A job array that the API server takes as a label: a number or a range.
LEMMA ArrayIs ==
  ASSUME NEW j \in Jobs, NEW res, Admitted(newSizeCarPodForSJ(j, res)), j.spec.Array # <<>>
  PROVE  \/ \E n \in Nat : j.spec.Array = <<Num(n)>>
         \/ \E m \in Nat, n \in Nat : j.spec.Array = <<Num(m), Dash, Num(n)>>
<1>1. PICK spec, a : spec = j.spec /\ a = spec.Array /\ spec \in JobSpec /\ a \in Values(STRING)
  BY JobsAre
<1>2. PICK labels : labels = getResourceRequestLabelsForPod(spec)
  OBVIOUS
<1>3. PICK p : p = newSizeCarPodForSJ(j, res) /\ Admitted(p)
  OBVIOUS
<1>4. p.labels = labels
  BY <1>1, <1>2, <1>3 DEF newSizeCarPodForSJ
<1>5. "Array" \in DOMAIN labels /\ labels["Array"] = a
  BY <1>1, <1>2, LabelsTell
<1>6. ValidLabelValue(a)
  BY <1>3, <1>4, <1>5, Zenon DEF Admitted
<1>7. \A i \in DOMAIN a : a[i] \notin {Comma, Colon, Percent}
  BY <1>6, Zenon DEF ValidLabelValue
<1>8. \/ Len(a) = 1 /\ IsNum(a[1])
      \/ Len(a) = 3 /\ IsNum(a[1]) /\ a[2] = Dash /\ IsNum(a[3])
  BY <1>1, <1>7, ArraysAssumption
<1>9. \A x \in Tokens(STRING) : IsNum(x) => x = Num(x.num) /\ x.num \in Nat
  BY TokenIs, Zenon DEF IsNum, Num
<1>10. CASE Len(a) = 1 /\ IsNum(a[1])
  <2>1. a = <<a[1]>> /\ a[1] \in Tokens(STRING)
    BY <1>1, <1>10 DEF Values
  <2> QED
    BY <1>1, <1>9, <1>10, <2>1, Zenon
<1>11. CASE Len(a) = 3 /\ IsNum(a[1]) /\ a[2] = Dash /\ IsNum(a[3])
  <2>1. a = <<a[1], a[2], a[3]>> /\ a[1] \in Tokens(STRING) /\ a[3] \in Tokens(STRING)
    BY <1>1, <1>11 DEF Values
  <2>2. a[1] = Num(a[1].num) /\ a[1].num \in Nat /\ a[3] = Num(a[3].num) /\ a[3].num \in Nat
    BY <1>9, <1>11, <2>1
  <2>3. a = <<Num(a[1].num), Dash, Num(a[3].num)>>
    BY <1>11, <2>1, <2>2, Zenon
  <2> QED
    BY <1>1, <2>2, <2>3, Zenon
<1> QED
  BY <1>8, <1>10, <1>11

LEMMA LengthOne == ASSUME NEW n \in Nat PROVE parseArrayLen(<<Num(n)>>) = 1
<1>1. PICK x : x = Num(n)
  OBVIOUS
<1>2. x # Dash /\ x # Comma
  BY <1>1, NumNotSeparator, Zenon
<1>3. ~Contains(<<x>>, Dash)
  BY <1>2, ContainsSingle, Zenon
<1>4. Split(<<x>>, Comma) = <<<<x>>>>
  BY <1>2, SplitOne, Zenon
<1>5. PICK parts : parts = <<<<x>>>>
  OBVIOUS
<1>6. parseArrayLen(<<x>>) = Len(parts)
  BY <1>3, <1>4, <1>5, Zenon DEF parseArrayLen
<1>7. Len(parts) = 1
  BY <1>5
<1> QED
  BY <1>1, <1>6, <1>7

LEMMA LengthRange ==
  ASSUME NEW m \in Nat, NEW n \in Nat PROVE parseArrayLen(<<Num(m), Dash, Num(n)>>) = n - m + 1
<1>1. PICK x, y : x = Num(m) /\ y = Num(n)
  OBVIOUS
<1>2. x # Dash /\ y # Dash
  BY <1>1, NumNotSeparator, Zenon
<1>3. Contains(<<x, Dash, y>>, Dash)
  BY <1>2, DaysParts, Zenon
<1>4. PICK bounds : bounds = <<<<x>>, <<y>>>>
  OBVIOUS
<1>5. bounds[1] = <<x>> /\ bounds[2] = <<y>>
  BY <1>4
<1>6. Split(<<x, Dash, y>>, Dash) = bounds
  BY <1>2, <1>4, SplitTwo, Zenon
<1>7. parseArrayLen(<<x, Dash, y>>) = ParseInt(<<y>>).value - ParseInt(<<x>>).value + 1
  BY <1>3, <1>5, <1>6, Zenon DEF parseArrayLen
<1>8. ParseInt(<<x>>).value = m /\ ParseInt(<<y>>).value = n
  BY <1>1, ParseNum, Zenon
<1> QED
  BY <1>1, <1>7, <1>8

\* How many elements the operator counts.
Elements(array) == IF array = <<>> THEN 1 ELSE parseArrayLen(array)

WantedOf(spec, res) == [f \in Numbers |-> Wanted(spec, res, f)]

\* The CPUs and the memory that a pod reserves for what a job wants.
Tasks(want) ==
  IF want["Ntasks"] > 0 THEN want["Ntasks"]
  ELSE IF want["NtasksPerNode"] > 0 /\ Defaulted(want["Nodes"], 1) > 0
       THEN want["NtasksPerNode"] * Defaulted(want["Nodes"], 1) ELSE 1
PodCpus(want, elements) == Defaulted(want["CpusPerTask"], 1) * Tasks(want) * elements
PodMemory(cpus, want) == cpus * Defaulted(want["MemPerCpu"], 1024) * 1024

\* The pod of a job that can be read.
Reserved(j, e, p, want) ==
  /\ want \in [Numbers -> Int] /\ Elements(j.spec.Array) \in Int /\ p.limits.cpu \in Int
  /\ p.limits.cpu = PodCpus(want, Elements(j.spec.Array))
  /\ p.limits.memory = PodMemory(p.limits.cpu, want)

LEMMA ReservedIs ==
  \A j, e : ScriptOk(j, e) /\ Admitted(newSizeCarPodForSJ(j, e.res)) =>
    Reserved(j, e, newSizeCarPodForSJ(j, e.res), WantedOf(j.spec, e.res))
<1> SUFFICES ASSUME NEW j, NEW e, ScriptOk(j, e), NEW p, p = newSizeCarPodForSJ(j, e.res), Admitted(p),
                    NEW want, want = WantedOf(j.spec, e.res)
             PROVE  Reserved(j, e, p, want)
  BY Zenon
<1>1. PICK spec, res, W : /\ spec = j.spec /\ res = e.res /\ spec \in JobSpec /\ res \in Read(W) /\ j \in Jobs
  <2>1. j.spec \in JobSpec /\ j.script \in Seq(ScriptLines(STRING)) /\ j \in Jobs
    BY JobsAre DEF ScriptOk
  <2>2. e.res \in Read(STRING)
    BY <2>1, ExtractedIs DEF ScriptOk
  <2> QED
    BY <2>1, <2>2
<1>2. PICK q : q = setRequireResourceBySpec(spec, res)
  OBVIOUS
<1>3. PICK r : r = setDefaultRequireResource(q)
  OBVIOUS
<1>4. /\ DOMAIN q = {"Nodes", "CpusPerTask", "MemPerCpu", "NtasksPerNode", "Ntasks", "Array", "WallTime"}
      /\ (\A f \in Numbers : q[f] = Wanted(spec, res, f)) /\ q.Array = spec.Array
  BY <1>1, <1>2, RequiredIs
<1>5. /\ r.Nodes = Defaulted(q.Nodes, 1) /\ r.CpusPerTask = Defaulted(q.CpusPerTask, 1)
      /\ r.MemPerCpu = Defaulted(q.MemPerCpu, 1024)
      /\ r.NtasksPerNode = q.NtasksPerNode /\ r.Ntasks = q.Ntasks /\ r.Array = q.Array
  BY <1>3, <1>4, DefaultedIs
<1>6. Numbers = {"Nodes", "CpusPerTask", "MemPerCpu", "NtasksPerNode", "Ntasks"}
  BY DEF Numbers
<1>7. want \in [Numbers -> Int] /\ \A f \in Numbers : q[f] = want[f]
  <2>1. \A f \in Numbers : spec[f] \in Int /\ res[f] \in Int
    BY <1>1, <1>6 DEF JobSpec, Read
  <2>2. \A f \in Numbers : Wanted(spec, res, f) \in Int
    BY <2>1 DEF Wanted
  <2> QED
    BY <1>1, <1>4, <2>2 DEF WantedOf
<1>8. /\ r.Nodes = Defaulted(want["Nodes"], 1) /\ r.CpusPerTask = Defaulted(want["CpusPerTask"], 1)
      /\ r.MemPerCpu = Defaulted(want["MemPerCpu"], 1024)
      /\ r.NtasksPerNode = want["NtasksPerNode"] /\ r.Ntasks = want["Ntasks"] /\ r.Array = spec.Array
  <2>1. /\ q.Nodes = want["Nodes"] /\ q.CpusPerTask = want["CpusPerTask"] /\ q.MemPerCpu = want["MemPerCpu"]
        /\ q.NtasksPerNode = want["NtasksPerNode"] /\ q.Ntasks = want["Ntasks"]
    BY <1>6, <1>7
  <2> QED
    BY <1>4, <1>5, <2>1
<1>9. PICK elements : elements = Elements(spec.Array)
  OBVIOUS
<1>10. elements \in Int
  <2>1. CASE spec.Array = <<>>
    BY <1>9, <2>1 DEF Elements
  <2>2. CASE spec.Array # <<>>
    <3>1. elements = parseArrayLen(spec.Array)
      BY <1>9, <2>2, Zenon DEF Elements
    <3>2. CASE \E n \in Nat : spec.Array = <<Num(n)>>
      BY <3>1, <3>2, LengthOne
    <3>3. CASE \E m \in Nat, n \in Nat : spec.Array = <<Num(m), Dash, Num(n)>>
      <4>1. PICK m \in Nat, n \in Nat : spec.Array = <<Num(m), Dash, Num(n)>>
        BY <3>3
      <4>2. elements = n - m + 1
        BY <3>1, <4>1, LengthRange
      <4> QED
        BY <4>2
    <3> QED
      BY <1>1, <2>2, <3>2, <3>3, ArrayIs
  <2> QED
    BY <2>1, <2>2
<1>11. PICK tasks : tasks = Tasks(want)
  OBVIOUS
<1>12. /\ tasks \in Int /\ Defaulted(want["CpusPerTask"], 1) \in Int
       /\ want["Ntasks"] \in Int /\ want["NtasksPerNode"] \in Int /\ Defaulted(want["Nodes"], 1) \in Int
  <2>1. \A f \in Numbers : want[f] \in Int
    BY <1>7
  <2>2. /\ want["Ntasks"] \in Int /\ want["NtasksPerNode"] \in Int
        /\ want["Nodes"] \in Int /\ want["CpusPerTask"] \in Int
    BY <1>6, <2>1
  <2>3. Defaulted(want["Nodes"], 1) \in Int /\ Defaulted(want["CpusPerTask"], 1) \in Int
    BY <2>2 DEF Defaulted
  <2> QED
    BY <1>11, <2>2, <2>3 DEF Tasks
<1>13. CpuCount(r) = Defaulted(want["CpusPerTask"], 1) * tasks * elements
  <2>1. PICK t : t = CASE r.Ntasks > 0 -> r.Ntasks
                       [] r.Ntasks <= 0 /\ r.NtasksPerNode > 0 /\ r.Nodes > 0 -> r.NtasksPerNode * r.Nodes
                       [] OTHER -> 1
    OBVIOUS
  <2>2. t = tasks
    BY <1>8, <1>11, <1>12, <2>1 DEF Tasks
  <2>3. CpuCount(r) = r.CpusPerTask * t * (IF r.Array = <<>> THEN 1 ELSE parseArrayLen(r.Array))
    BY <2>1, Zenon DEF CpuCount
  <2>4. PICK l : l = IF r.Array = <<>> THEN 1 ELSE parseArrayLen(r.Array)
    OBVIOUS
  <2>5. l = elements
    BY <1>8, <1>9, <2>4, Zenon DEF Elements
  <2>6. CpuCount(r) = r.CpusPerTask * t * l
    BY <2>3, <2>4, Zenon
  <2> QED
    BY <1>8, <2>2, <2>5, <2>6
<1>14. p.limits = [cpu |-> CpuCount(r), memory |-> CpuCount(r) * r.MemPerCpu * 1024]
  BY <1>1, <1>2, <1>3 DEF newSizeCarPodForSJ, genResourceListForPod
<1>15. p.limits.cpu = CpuCount(r) /\ p.limits.memory = CpuCount(r) * r.MemPerCpu * 1024
  BY <1>14
<1>16. p.limits.cpu \in Int
  BY <1>10, <1>12, <1>13, <1>15
<1>17. p.limits.memory = PodMemory(p.limits.cpu, want)
  BY <1>8, <1>15 DEF PodMemory
<1>18. p.limits.cpu = PodCpus(want, elements)
  BY <1>11, <1>13, <1>15 DEF PodCpus
<1>19. Elements(j.spec.Array) \in Int /\ elements = Elements(j.spec.Array)
  BY <1>1, <1>9, <1>10
<1> QED
  BY <1>7, <1>16, <1>17, <1>18, <1>19 DEF Reserved

LEMMA SplitWhole == \A sep, a, b, c : a # sep /\ b # sep /\ c # sep => Split(<<a, b, c>>, sep) = <<<<a, b, c>>>>
<1> SUFFICES ASSUME NEW sep, NEW a, NEW b, NEW c, a # sep, b # sep, c # sep
             PROVE  Split(<<a, b, c>>, sep) = <<<<a, b, c>>>>
  OBVIOUS
<1>0. PICK T : a \in T /\ b \in T /\ c \in T
  <2>1. a \in {a, b, c} /\ b \in {a, b, c} /\ c \in {a, b, c}
    OBVIOUS
  <2> QED
    BY <2>1, Zenon
<1>1. SplitsTo(T, Append(<<a>>, b), sep, <<>>, Append(<<a>>, b))
  BY <1>0, SplitsOne, SplitsWord, Zenon
<1>2. Append(<<a>>, b) = <<a, b>>
  BY Tuple2, Zenon
<1>3. SplitsTo(T, <<a, b>>, sep, <<>>, <<a, b>>)
  BY <1>1, <1>2, Zenon
<1>4. SplitsTo(T, Append(<<a, b>>, c), sep, <<>>, Append(<<a, b>>, c))
  BY <1>0, <1>3, SplitsWord, Zenon
<1>5. Append(<<a, b>>, c) = <<a, b, c>> /\ Append(<<>>, <<a, b, c>>) = <<<<a, b, c>>>>
  BY Tuple1, Tuple3, Zenon
<1> QED
  BY <1>4, <1>5, Zenon DEF SplitsTo

LEMMA OnePart == \A a : ToSet(<<a>>) = {a} /\ <<a>>[1] = a
  BY DEF ToSet

\* The indices of an array without lists, steps and limits.
LEMMA PlainIndices ==
  ASSUME NEW array, Split(array, Percent) = <<array>>, Split(array, Comma) = <<array>>,
         Split(array, Colon) = <<array>>, ~Contains(array, Colon), NEW bounds, bounds = Split(array, Dash),
         NEW first \in Nat, NEW last \in Nat, first = bounds[1][1].num,
         last = IF Len(bounds) = 1 THEN bounds[1][1].num ELSE bounds[2][1].num
  PROVE  ArrayIndices(array) = first .. last
<1>1. IndicesOf(array) = {i \in first .. last : (i - first) % 1 = 0}
  <2>1. Split(array, Colon)[1] = array
    BY OnePart, Zenon
  <2> QED
    BY <2>1, Zenon DEF IndicesOf
<1>2. IndicesOf(array) = first .. last
  <2>1. \A i \in first .. last : (i - first) % 1 = 0
    OBVIOUS
  <2> QED
    BY <1>1, <2>1
<1>3. ArrayIndices(array) = UNION {IndicesOf(part) : part \in {array}}
  <2>1. Split(array, Percent)[1] = array
    BY OnePart, Zenon
  <2>2. ToSet(Split(Split(array, Percent)[1], Comma)) = {array}
    BY <2>1, OnePart, Zenon
  <2> QED
    BY <2>2, Zenon DEF ArrayIndices
<1>4. UNION {IndicesOf(part) : part \in {array}} = IndicesOf(array)
  OBVIOUS
<1> QED
  BY <1>2, <1>3, <1>4

LEMMA IndicesOne == ASSUME NEW n \in Nat PROVE ArrayIndices(<<Num(n)>>) = n .. n
<1>1. PICK x : x = Num(n) /\ x.num = n
  BY NumIs
<1>2. x # Dash /\ x # Comma /\ x # Colon /\ x # Percent
  BY <1>1, NumNotSeparator, Zenon
<1>3. PICK array, bounds : array = <<x>> /\ bounds = <<array>>
  OBVIOUS
<1>4. /\ Split(array, Percent) = <<array>> /\ Split(array, Comma) = <<array>> /\ Split(array, Colon) = <<array>>
      /\ Split(array, Dash) = bounds
  BY <1>2, <1>3, SplitOne, Zenon
<1>5. ~Contains(array, Colon)
  BY <1>2, <1>3, ContainsSingle, Zenon
<1>6. Len(bounds) = 1 /\ bounds[1][1].num = n
  BY <1>1, <1>3
<1>7. ArrayIndices(array) = n .. n
  BY <1>4, <1>5, <1>6, PlainIndices
<1> QED
  BY <1>1, <1>3, <1>7

LEMMA IndicesRange == ASSUME NEW m \in Nat, NEW n \in Nat PROVE ArrayIndices(<<Num(m), Dash, Num(n)>>) = m .. n
<1>1. PICK x, y : x = Num(m) /\ y = Num(n) /\ x.num = m /\ y.num = n
  BY NumIs
<1>2. x # Dash /\ x # Comma /\ x # Colon /\ x # Percent /\ y # Dash /\ y # Comma /\ y # Colon /\ y # Percent
  BY <1>1, NumNotSeparator, Zenon
<1>3. Dash # Comma /\ Dash # Colon /\ Dash # Percent
  <2>1. "-" # "," /\ "-" # "%"
    BY Zenon
  <2> QED
    BY <2>1, Separators, Zenon
<1>4. PICK array, bounds : array = <<x, Dash, y>> /\ bounds = <<<<x>>, <<y>>>>
  OBVIOUS
<1>5. /\ Split(array, Percent) = <<array>> /\ Split(array, Comma) = <<array>> /\ Split(array, Colon) = <<array>>
  BY <1>2, <1>3, <1>4, SplitWhole, Zenon
<1>6. Split(array, Dash) = bounds
  BY <1>2, <1>4, SplitTwo, Zenon
<1>7. ~Contains(array, Colon)
  <2>1. DOMAIN array = 1 .. 3 /\ array[1] = x /\ array[2] = Dash /\ array[3] = y
    BY <1>4
  <2> QED
    BY <1>2, <1>3, <2>1 DEF Contains
<1>8. Len(bounds) = 2 /\ bounds[1][1].num = m /\ bounds[2][1].num = n
  BY <1>1, <1>4
<1>9. ArrayIndices(array) = m .. n
  <2>1. /\ m = bounds[1][1].num
        /\ n = IF Len(bounds) = 1 THEN bounds[1][1].num ELSE bounds[2][1].num
    BY <1>8
  <2>2. bounds = Split(array, Dash)
    BY <1>6
  <2> QED
    BY <1>5, <1>7, <2>1, <2>2, PlainIndices
<1> QED
  BY <1>1, <1>4, <1>9

\* An array that does not make the reservation negative has the elements that are counted.
LEMMA ElementsCounted ==
  ASSUME NEW j \in Jobs, NEW res, Admitted(newSizeCarPodForSJ(j, res)), NEW array, array = j.spec.Array,
         Elements(array) \in Int, Elements(array) >= 0
  PROVE  Elements(array) = IF array = <<>> THEN 1 ELSE Cardinality(ArrayIndices(array))
<1>1. CASE array = <<>>
  BY <1>1 DEF Elements
<1>2. CASE array # <<>>
  <2>1. Elements(array) = parseArrayLen(array)
    BY <1>2, Zenon DEF Elements
  <2>2. \/ \E n \in Nat : array = <<Num(n)>>
        \/ \E m \in Nat, n \in Nat : array = <<Num(m), Dash, Num(n)>>
    BY <1>2, ArrayIs
  <2>3. CASE \E n \in Nat : array = <<Num(n)>>
    <3>1. PICK n \in Nat : array = <<Num(n)>>
      BY <2>3
    <3>2. Elements(array) = 1
      BY <2>1, <3>1, LengthOne
    <3>3. ArrayIndices(array) = n .. n
      BY <3>1, IndicesOne
    <3>4. Cardinality(n .. n) = 1
      <4>0. n \in Int
        OBVIOUS
      <4>1. Cardinality(n .. n) = IF n > n THEN 0 ELSE n - n + 1
        BY <4>0, FS_Interval
      <4> QED
        BY <4>1
    <3> QED
      BY <1>2, <3>2, <3>3, <3>4
  <2>4. CASE \E m \in Nat, n \in Nat : array = <<Num(m), Dash, Num(n)>>
    <3>1. PICK m \in Nat, n \in Nat : array = <<Num(m), Dash, Num(n)>>
      BY <2>4
    <3>2. Elements(array) = n - m + 1
      BY <2>1, <3>1, LengthRange
    <3>3. ArrayIndices(array) = m .. n
      BY <3>1, IndicesRange
    <3>4. Cardinality(m .. n) = n - m + 1
      <4>1. Cardinality(m .. n) = IF m > n THEN 0 ELSE n - m + 1
        BY FS_Interval
      <4> QED
        BY <3>2, <4>1
    <3> QED
      BY <1>2, <3>2, <3>3, <3>4
  <2> QED
    BY <2>2, <2>3, <2>4
<1> QED
  BY <1>1, <1>2

LEMMA MaxOfPair == ASSUME NEW n \in Nat PROVE Max({n, 1}) = Defaulted(n, 1)
<1>1. CASE n = 0
  <2>1. 1 \in Int /\ 1 \in {n, 1} /\ {n, 1} \subseteq Int /\ \A k \in {n, 1} : k <= 1
    BY <1>1
  <2>2. Max({n, 1}) = 1
    BY <2>1, MaxIs
  <2> QED
    BY <1>1, <2>2 DEF Defaulted
<1>2. CASE n # 0
  <2>1. n \in Int /\ n \in {n, 1} /\ {n, 1} \subseteq Int /\ \A k \in {n, 1} : k <= n
    BY <1>2
  <2>2. Max({n, 1}) = n
    BY <2>1, MaxIs
  <2> QED
    BY <1>2, <2>2 DEF Defaulted
<1> QED
  BY <1>1, <1>2

LEMMA NotNegative == ASSUME NEW p \in Nat, p >= 1, NEW n \in Int, p * n >= 0 PROVE n >= 0
  OBVIOUS

LEMMA Product == ASSUME NEW c \in Nat, NEW t \in Nat, NEW n \in Int PROVE c * t * n = t * c * n /\ c * t \in Nat
  OBVIOUS

LEMMA ProductPositive == ASSUME NEW c \in Nat, NEW t \in Nat, c >= 1, t >= 1 PROVE c * t >= 1
  OBVIOUS

\* What Slurm counts as the tasks of a job.
SlurmTasks(j) ==
  CASE Asked(j, "Ntasks") > 0 -> Asked(j, "Ntasks")
    [] Asked(j, "Ntasks") = 0 /\ Asked(j, "NtasksPerNode") > 0 ->
         Asked(j, "NtasksPerNode") * Max({Asked(j, "Nodes"), 1})
    [] OTHER -> Max({Asked(j, "Nodes"), 1})

LEMMA SlurmCpusAre ==
  \A j : SlurmCpus(j) = SlurmTasks(j) * Max({Asked(j, "CpusPerTask"), 1})
                        * (IF AskedArray(j) = <<>> THEN 1 ELSE Cardinality(ArrayIndices(AskedArray(j))))
  BY DEF SlurmCpus, SlurmTasks

(* What the pod reserves and what sbatch will give differ in the number of *)
(* tasks at most, and then the pod reserves less.                          *)
PodAndSlurm(j, p, tasks, slurmTasks, cpus, elements) ==
  /\ tasks \in Nat /\ slurmTasks \in Nat /\ cpus \in Nat /\ elements \in Nat
  /\ tasks <= slurmTasks
  /\ Asked(j, "Ntasks") > 0 \/ Asked(j, "NtasksPerNode") > 0 \/ Asked(j, "Nodes") <= 1
     => tasks = slurmTasks
  /\ p.limits.cpu = cpus * tasks * elements
  /\ SlurmCpus(j) = slurmTasks * cpus * elements

LEMMA PodAndSlurmAre ==
  \A j, e : ScriptOk(j, e) /\ Admitted(newSizeCarPodForSJ(j, e.res)) /\ Plain(j.script) /\ SpecDecides(j) =>
    \E t, s, c, n : PodAndSlurm(j, newSizeCarPodForSJ(j, e.res), t, s, c, n)
<1> SUFFICES ASSUME NEW j, NEW e, ScriptOk(j, e), NEW p, p = newSizeCarPodForSJ(j, e.res), Admitted(p),
                    Plain(j.script), SpecDecides(j)
             PROVE  \E t, s, c, n : PodAndSlurm(j, p, t, s, c, n)
  BY Zenon
<1>1. PICK want, array : want = WantedOf(j.spec, e.res) /\ array = j.spec.Array
  OBVIOUS
<1>2. Reserved(j, e, p, want)
  BY <1>1, ReservedIs, Zenon
<1>3. PICK cpu, elements : cpu = p.limits.cpu /\ elements = Elements(array)
  OBVIOUS
<1>4. cpu \in Int /\ elements \in Int /\ cpu = PodCpus(want, elements)
  BY <1>1, <1>2, <1>3, Zenon DEF Reserved
<1>5. \A f \in Numbers : want[f] = Asked(j, f) /\ Asked(j, f) \in Nat
  <2> SUFFICES ASSUME NEW f \in Numbers PROVE want[f] = Asked(j, f) /\ Asked(j, f) \in Nat
    OBVIOUS
  <2>1. want[f] = Wanted(j.spec, e.res, f)
    BY <1>1 DEF WantedOf
  <2> QED
    BY <2>1, WantedIs
<1>6. PICK nodes, cpus, perNode, ntasks :
        /\ nodes = Asked(j, "Nodes") /\ cpus = Asked(j, "CpusPerTask")
        /\ perNode = Asked(j, "NtasksPerNode") /\ ntasks = Asked(j, "Ntasks")
  OBVIOUS
<1>7. /\ nodes \in Nat /\ cpus \in Nat /\ perNode \in Nat /\ ntasks \in Nat
      /\ want["Nodes"] = nodes /\ want["CpusPerTask"] = cpus
      /\ want["NtasksPerNode"] = perNode /\ want["Ntasks"] = ntasks
  <2>1. "Nodes" \in Numbers /\ "CpusPerTask" \in Numbers /\ "NtasksPerNode" \in Numbers /\ "Ntasks" \in Numbers
    BY DEF Numbers
  <2> QED
    BY <1>5, <1>6, <2>1
<1>8. PICK N, C : N = Defaulted(nodes, 1) /\ C = Defaulted(cpus, 1)
  OBVIOUS
<1>9. N \in Nat /\ N >= 1 /\ C \in Nat /\ C >= 1 /\ (nodes <= 1 => N = 1)
  BY <1>7, <1>8 DEF Defaulted
<1>10. Max({nodes, 1}) = N /\ Max({cpus, 1}) = C
  BY <1>7, <1>8, MaxOfPair
<1>11. PICK T, S : T = Tasks(want) /\ S = SlurmTasks(j)
  OBVIOUS
<1>12. T = IF ntasks > 0 THEN ntasks ELSE IF perNode > 0 THEN perNode * N ELSE 1
  BY <1>7, <1>8, <1>9, <1>11 DEF Tasks
<1>13. T \in Nat /\ T >= 1
  BY <1>7, <1>9, <1>12, ProductPositive
<1>14. S = IF ntasks > 0 THEN ntasks ELSE IF perNode > 0 THEN perNode * N ELSE N
  <2>1. S = CASE ntasks > 0 -> ntasks [] ntasks = 0 /\ perNode > 0 -> perNode * N [] OTHER -> N
    BY <1>6, <1>10, <1>11, Zenon DEF SlurmTasks
  <2> QED
    BY <1>7, <2>1
<1>15. S \in Nat /\ T <= S /\ (ntasks > 0 \/ perNode > 0 \/ nodes <= 1 => T = S)
  <2>1. perNode * N \in Nat
    BY <1>7, <1>9
  <2>2. PICK q : q = perNode * N
    OBVIOUS
  <2> QED
    BY <1>7, <1>9, <1>12, <1>14, <2>1, <2>2
<1>16. cpu = C * T * elements
  BY <1>4, <1>7, <1>8, <1>11, Zenon DEF PodCpus
<1>17. elements >= 0
  <2>1. cpu >= 0
    BY <1>3 DEF Admitted
  <2>2. PICK q : q = C * T /\ q \in Nat /\ q >= 1
    BY <1>9, <1>13, ProductPositive
  <2>3. q * elements >= 0
    BY <1>16, <2>1, <2>2
  <2> QED
    BY <1>4, <2>2, <2>3, NotNegative
<1>18. elements = IF array = <<>> THEN 1 ELSE Cardinality(ArrayIndices(array))
  <2>1. j \in Jobs
    BY DEF ScriptOk
  <2> QED
    BY <1>1, <1>3, <1>4, <1>17, <2>1, ElementsCounted
<1>19. AskedArray(j) = array
  BY <1>1, SpecDecidesIs, Zenon DEF AskedArray
<1>20. SlurmCpus(j) = S * C * elements
  BY <1>6, <1>10, <1>11, <1>18, <1>19, SlurmCpusAre, Zenon
<1>21. elements \in Nat
  BY <1>4, <1>17
<1>22. PodAndSlurm(j, p, T, S, C, elements)
  BY <1>3, <1>6, <1>9, <1>13, <1>15, <1>16, <1>20, <1>21, Zenon DEF PodAndSlurm
<1> QED
  BY <1>22, Zenon

(* The pod reserves the CPUs that Slurm will give the job, over all elements
   of a job array, whatever the spec and the script say of nodes, tasks and
   CPUs, but for the cases that ReservationExact leaves out. *)
THEOREM ReservationIsExact == RequestSpec => []ReservationExact
<1>1. RequestInv => ReservationExact
  <2> SUFFICES ASSUME RequestInv, step \in PodSteps, Plain(job.script), SpecDecides(job),
                      Asked(job, "Ntasks") > 0 \/ Asked(job, "NtasksPerNode") > 0 \/ Asked(job, "Nodes") <= 1
               PROVE  pod.limits.cpu = SlurmCpus(job)
    BY Zenon DEF ReservationExact, PodSteps, SpecDecides
  <2>1. PICK e, p : /\ e = extractBatchResourcesFromScript(job.script) /\ p = newSizeCarPodForSJ(job, e.res)
                    /\ p = pod /\ Admitted(p) /\ ScriptOk(job, e)
    BY DEF RequestInv, PodSteps, JobSteps, ScriptOk
  <2>2. PICK t, s, c, n : PodAndSlurm(job, p, t, s, c, n)
    BY <2>1, PodAndSlurmAre, Zenon
  <2>3. t = s /\ p.limits.cpu = c * t * n /\ SlurmCpus(job) = s * c * n
    BY <2>2, Zenon DEF PodAndSlurm
  <2>4. t \in Nat /\ c \in Nat /\ n \in Int
    BY <2>2 DEF PodAndSlurm
  <2> QED
    BY <2>1, <2>3, <2>4, Product
<1> QED
  BY <1>1, RequestStays, PTL

LEMMA Scaled == ASSUME NEW a \in Nat, NEW b \in Nat, a <= b, NEW c \in Nat PROVE a * c <= b * c
  OBVIOUS

LEMMA PodAtMost ==
  ASSUME NEW t \in Nat, NEW s \in Nat, NEW c \in Nat, NEW n \in Nat, t <= s
  PROVE  c * t * n <= s * c * n /\ c * t * n \in Nat /\ s * c * n \in Nat
<1>1. c * t = t * c /\ t * c <= s * c /\ t * c \in Nat /\ s * c \in Nat
  BY Scaled
<1>2. PICK a, b : a = t * c /\ b = s * c /\ a \in Nat /\ b \in Nat /\ a <= b
  BY <1>1
<1>3. a * n <= b * n /\ a * n \in Nat /\ b * n \in Nat
  BY <1>2, Scaled
<1> QED
  BY <1>1, <1>2, <1>3

(* A pod that fits no node of its partition belongs to a job that Slurm could
   not run there at once either, by its CPUs or by the memory on them, but for
   the causes that PendingNeedsDemand names. *)
THEOREM PendingIsNeeded == RequestSpec => []PendingNeedsDemand
<1>1. RequestInv => PendingNeedsDemand
  <2> SUFFICES ASSUME RequestInv, step = "pending", NEW partition \in Partitions, partition.name = job.spec.Partition,
                      Plain(job.script), SpecDecides(job), NEW asked1, asked1 = Asked(job, "MemPerCpu"),
                      TotalOfHosts(partition.nodes, "Cpus") # 0
               PROVE  \/ SlurmCpus(job) > TotalOfHosts(partition.nodes, "Cpus")
                      \/ SlurmCpus(job) * (IF asked1 = 0 THEN Default.MemPerCpu ELSE asked1)
                           > TotalOfHosts(partition.nodes, "Memory")
    BY Zenon DEF PendingNeedsDemand, TotalOfHosts, SpecDecides
  <2>1. PICK e, p : /\ e = extractBatchResourcesFromScript(job.script) /\ p = newSizeCarPodForSJ(job, e.res)
                    /\ p = pod /\ Admitted(p) /\ ScriptOk(job, e) /\ job \in Jobs
    BY DEF RequestInv, PodSteps, JobSteps, ScriptOk
  <2>2. PICK n, tc, tm : n = VirtualNode(partition) /\ tc = TotalOfHosts(partition.nodes, "Cpus") /\ tm = TotalOfHosts(partition.nodes, "Memory")
    OBVIOUS
  <2>3. ~Fits(p, n)
    BY <2>1, <2>2 DEF RequestInv
  <2>4. tm \in Nat /\ tc \in Nat /\ tc >= 1
    <3>1. partition.nodes \in Seq([Cpus : Nat, Memory : Nat])
      BY PartitionsAssumption
    <3>2. tm \in Nat /\ tc \in Nat
      BY <2>2, <3>1, CapacityIsNat
    <3> QED
      BY <2>2, <3>2
  <2>5. n.capacity.cpu = tc /\ n.capacity.memory = tm * 2 * 1024 /\ n.capacity.pods = tc
    <3>1. n.capacity = GetPartitionCapacity(partition.nodes)
      BY <2>2 DEF VirtualNode
    <3> QED
      BY <2>2, <3>1, CapacityIs
  <2>6. p.affinity = n.labels /\ n.taints \subseteq p.tolerations
    <3>1. n.labels = setDefaultSlurmVKFlags(partition.name) /\ n.taints = DefaultTolerations
      BY <2>2 DEF VirtualNode, getDefaultTaints
    <3>2. p.affinity = affinityForSj(job.spec) /\ p.tolerations = DefaultTolerations
      BY <2>1 DEF newSizeCarPodForSJ
    <3>3. affinityForSj(job.spec) = setDefaultSlurmVKFlags(partition.name)
      BY Zenon DEF affinityForSj, setDefaultSlurmVKFlags
    <3> QED
      BY <3>1, <3>2, <3>3
  <2>7. ~(p.limits.cpu <= tc) \/ ~(p.limits.memory <= tm * 2 * 1024)
    BY <2>3, <2>4, <2>5, <2>6 DEF Fits
  <2>8. PICK c, m : c = p.limits.cpu /\ m = Defaulted(asked1, 1024)
    OBVIOUS
  <2>9. PICK want : want = WantedOf(job.spec, e.res)
    OBVIOUS
  <2>10. c \in Int /\ p.limits.memory = PodMemory(c, want)
    <3>1. Reserved(job, e, p, want)
      BY <2>1, <2>9, ReservedIs, Zenon
    <3> QED
      BY <2>8, <3>1, Zenon DEF Reserved
  <2>11. want["MemPerCpu"] = asked1 /\ asked1 \in Nat
    <3>1. "MemPerCpu" \in Numbers
      BY DEF Numbers
    <3>2. Wanted(job.spec, e.res, "MemPerCpu") = asked1 /\ asked1 \in Nat
      BY <2>1, <3>1, WantedIs
    <3> QED
      BY <2>9, <3>1, <3>2 DEF WantedOf
  <2>12. m \in Nat /\ m = IF asked1 = 0 THEN Default.MemPerCpu ELSE asked1
    BY <2>8, <2>11 DEF Defaulted, Default
  <2>13. PICK x : x = c * m
    OBVIOUS
  <2>14. x \in Int /\ p.limits.memory = x * 1024
    BY <2>8, <2>10, <2>11, <2>12, <2>13 DEF PodMemory
  <2>15. c > tc \/ x > tm
    BY <2>4, <2>7, <2>8, <2>10, <2>14
  <2>16. PICK k : k = SlurmCpus(job)
    OBVIOUS
  <2>17. c \in Nat /\ k \in Nat /\ c <= k
    <3>1. PICK t, s, q, l : PodAndSlurm(job, p, t, s, q, l)
      BY <2>1, PodAndSlurmAre, Zenon
    <3>2. c = q * t * l /\ k = s * q * l
      BY <2>8, <2>16, <3>1, Zenon DEF PodAndSlurm
    <3>3. t \in Nat /\ s \in Nat /\ q \in Nat /\ l \in Nat /\ t <= s
      BY <3>1 DEF PodAndSlurm
    <3> QED
      BY <3>2, <3>3, PodAtMost
  <2>18. x <= k * m /\ k * m \in Int
    BY <2>12, <2>13, <2>17, Scaled
  <2>19. k > tc \/ k * m > tm
    BY <2>4, <2>14, <2>15, <2>17, <2>18
  <2> QED
    BY <2>2, <2>12, <2>16, <2>19
<1> QED
  BY <1>1, RequestStays, PTL

-----------------------------------------------------------------------------

-----------------------------------------------------------------------------
(* Sums over sets, which do not depend on the order. *)

\* The order SetToSeq chooses has each element once.
LEMMA SetToSeqIs ==
  ASSUME NEW S, IsFiniteSet(S), NEW f, f = SetToSeq(S), NEW n, n = Cardinality(S)
  PROVE  /\ n \in Nat /\ f \in [1 .. n -> S] /\ f \in Seq(S) /\ Len(f) = n
         /\ \A i, j \in 1 .. n : f[i] = f[j] => i = j
         /\ \A x \in S : \E i \in 1 .. n : f[i] = x
<1>1. n \in Nat /\ ExistsBijection(1 .. n, S)
  BY FS_CardinalityType
<1>2. \E h \in [1 .. n -> S] : IsInjective(h)
  BY <1>1 DEF ExistsBijection, Bijection, Injection, IsInjective
<1>3. f \in [1 .. n -> S] /\ IsInjective(f)
  <2>1. f = CHOOSE h \in [1 .. n -> S] : IsInjective(h)
    BY DEF SetToSeq
  <2> QED
    BY <1>2, <2>1, Zenon
<1>4. \A i, j \in 1 .. n : f[i] = f[j] => i = j
  BY <1>3 DEF IsInjective
<1>5. f \in Surjection(1 .. n, S)
  <2>1. f \in Injection(1 .. n, S)
    BY <1>3 DEF Injection
  <2>2. Cardinality(1 .. n) = n
    BY <1>1, FS_Interval
  <2> QED
    BY <2>1, <2>2, FS_Injection
<1>6. \A x \in S : \E i \in 1 .. n : f[i] = x
  BY <1>5 DEF Surjection
<1>7. f \in Seq(S) /\ Len(f) = n
  BY <1>1, <1>3
<1> QED
  BY <1>1, <1>3, <1>4, <1>6, <1>7

\* g sums up v over the subsets of S.
Additive(g, S, v) ==
  /\ g \in [SUBSET S -> Nat] /\ g[{}] = 0
  /\ \A s \in SUBSET S : \A x \in s : g[s] = g[s \ {x}] + v[x]

LEMMA AdditiveExists ==
  \A S : IsFiniteSet(S) => \A v : (\A x \in S : v[x] \in Nat) => \E g : Additive(g, S, v)
<1> DEFINE P == {k \in Nat : \A S : IsFiniteSet(S) /\ Cardinality(S) = k =>
                               \A v : (\A x \in S : v[x] \in Nat) => \E g : Additive(g, S, v)}
<1>1. 0 \in P
  <2> SUFFICES ASSUME NEW S, IsFiniteSet(S), Cardinality(S) = 0, NEW v PROVE \E g : Additive(g, S, v)
    OBVIOUS
  <2>1. S = {}
    BY FS_EmptySet
  <2>2. [s \in SUBSET S |-> 0] \in [SUBSET S -> Nat]
    OBVIOUS
  <2>3. Additive([s \in SUBSET S |-> 0], S, v)
    BY <2>1, <2>2 DEF Additive
  <2> QED
    BY <2>3
<1>2. ASSUME NEW k \in Nat, k \in P PROVE k + 1 \in P
  <2> SUFFICES ASSUME NEW S, IsFiniteSet(S), Cardinality(S) = k + 1, NEW v, \A x \in S : v[x] \in Nat
               PROVE  \E g : Additive(g, S, v)
    OBVIOUS
  <2>1. PICK y : y \in S
    BY FS_EmptySet
  <2>2. PICK A : A = S \ {y}
    OBVIOUS
  <2>3. IsFiniteSet(A) /\ Cardinality(A) = k
    BY <2>1, <2>2, FS_RemoveElement
  <2>4. \A x \in A : v[x] \in Nat
    BY <2>2
  <2>5. PICK h : Additive(h, A, v)
    BY <1>2, <2>3, <2>4
  <2> HIDE DEF P
  <2>6. /\ h \in [SUBSET A -> Nat] /\ h[{}] = 0
        /\ \A s \in SUBSET A : \A x \in s : h[s] = h[s \ {x}] + v[x]
    BY <2>5 DEF Additive
  <2>7. PICK g : g = [s \in SUBSET S |-> IF y \in s THEN h[s \ {y}] + v[y] ELSE h[s]]
    OBVIOUS
  <2>8. \A s \in SUBSET S : s \ {y} \in SUBSET A /\ (y \notin s => s \in SUBSET A)
    BY <2>2
  <2>9. /\ \A s \in SUBSET S : y \in s => g[s] = h[s \ {y}] + v[y]
        /\ \A s \in SUBSET S : y \notin s => g[s] = h[s]
    BY <2>7
  <2>10. g \in [SUBSET S -> Nat]
    <3>1. v[y] \in Nat
      BY <2>1
    <3>2. \A s \in SUBSET S : (IF y \in s THEN h[s \ {y}] + v[y] ELSE h[s]) \in Nat
      BY <2>6, <2>8, <3>1
    <3> QED
      BY <2>7, <3>2
  <2>11. g[{}] = 0
    BY <2>6, <2>9
  <2>12. ASSUME NEW s \in SUBSET S, NEW x \in s PROVE g[s] = g[s \ {x}] + v[x]
    <3>1. v[x] \in Nat /\ v[y] \in Nat
      BY <2>1
    <3>2. CASE x = y
      <4>1. s \ {x} \in SUBSET S /\ y \notin s \ {x}
        BY <3>2
      <4> QED
        BY <2>9, <3>2, <4>1
    <3>3. CASE x # y /\ y \notin s
      <4>1. s \ {x} \in SUBSET S /\ y \notin s \ {x} /\ s \in SUBSET A
        BY <2>8, <3>3
      <4> QED
        BY <2>6, <2>9, <3>3, <4>1
    <3>4. CASE x # y /\ y \in s
      <4>1. PICK r, t : r = s \ {y} /\ t = s \ {x}
        OBVIOUS
      <4>2. t \in SUBSET S /\ y \in t /\ t \ {y} = r \ {x} /\ r \in SUBSET A /\ r \ {x} \in SUBSET A /\ x \in r
        BY <2>8, <3>4, <4>1
      <4>3. h[r] = h[r \ {x}] + v[x] /\ h[r \ {x}] \in Nat
        BY <2>6, <4>2
      <4>4. g[s] = h[r] + v[y] /\ g[t] = h[r \ {x}] + v[y]
        BY <2>9, <3>4, <4>1, <4>2
      <4> QED
        BY <3>1, <4>1, <4>3, <4>4
    <3> QED
      BY <3>2, <3>3, <3>4
  <2> QED
    BY <2>10, <2>11, <2>12 DEF Additive
<1> HIDE DEF P
<1>3. Nat \subseteq P
  BY <1>1, <1>2, NatInduct
<1> SUFFICES ASSUME NEW S, IsFiniteSet(S), NEW v, \A x \in S : v[x] \in Nat PROVE \E g : Additive(g, S, v)
  OBVIOUS
<1>4. Cardinality(S) \in P
  BY <1>3, FS_CardinalityType
<1> QED
  BY <1>4 DEF P

\* What FoldSet computes.
FoldSteps(S, field, it) ==
  [s \in SUBSET S |-> IF s = {} THEN 0
                      ELSE it[s \ {CHOOSE x \in s : TRUE}] + Hosts[CHOOSE x \in s : TRUE][field]]

LEMMA SumOverFold ==
  ASSUME NEW S, NEW field
  PROVE  SumOver(S, field) = (CHOOSE it : it = FoldSteps(S, field, it))[S]
  BY DEF SumOver, FoldSet, MapThenFoldSet, FoldSteps

LEMMA SumOverIs ==
  ASSUME NEW S, IsFiniteSet(S), NEW field, NEW v, \A x \in S : v[x] = Hosts[x][field], NEW g, Additive(g, S, v)
  PROVE  SumOver(S, field) = g[S]
<1>0. /\ g \in [SUBSET S -> Nat] /\ g[{}] = 0
      /\ \A s \in SUBSET S : \A x \in s : g[s] = g[s \ {x}] + v[x]
  BY DEF Additive
<1>1. \A s : s # {} => (CHOOSE x \in s : TRUE) \in s
  OBVIOUS
<1>2. g = FoldSteps(S, field, g)
  <2>1. ASSUME NEW s \in SUBSET S, s # {}
        PROVE  g[s] = g[s \ {CHOOSE x \in s : TRUE}] + Hosts[CHOOSE x \in s : TRUE][field]
    <3>1. PICK x : x = CHOOSE y \in s : TRUE
      OBVIOUS
    <3>2. x \in s
      BY <1>1, <2>1, <3>1
    <3>3. g[s] = g[s \ {x}] + v[x] /\ v[x] = Hosts[x][field]
      BY <1>0, <3>2
    <3> QED
      BY <3>1, <3>3, Zenon
  <2>2. \A s \in SUBSET S : g[s] = IF s = {} THEN 0
                                   ELSE g[s \ {CHOOSE x \in s : TRUE}] + Hosts[CHOOSE x \in s : TRUE][field]
    BY <1>0, <2>1, Zenon
  <2>3. g = [s \in SUBSET S |-> g[s]]
    BY <1>0
  <2>4. [s \in SUBSET S |-> g[s]] = [s \in SUBSET S |->
            IF s = {} THEN 0 ELSE g[s \ {CHOOSE x \in s : TRUE}] + Hosts[CHOOSE x \in s : TRUE][field]]
    BY <2>2, Zenon
  <2> QED
    BY <2>3, <2>4, Zenon DEF FoldSteps
<1>3. PICK it : it = CHOOSE h : h = FoldSteps(S, field, h)
  OBVIOUS
<1>4. it = FoldSteps(S, field, it)
  BY <1>2, <1>3, Zenon
<1>5. \A s \in SUBSET S : it[s] = IF s = {} THEN 0
                                  ELSE it[s \ {CHOOSE x \in s : TRUE}] + Hosts[CHOOSE x \in s : TRUE][field]
  BY <1>4, Zenon DEF FoldSteps
<1>6. SumOver(S, field) = it[S]
  BY <1>3, SumOverFold, Zenon
<1> DEFINE P == {k \in Nat : \A s \in SUBSET S : Cardinality(s) = k => it[s] = g[s]}
<1>7. \A s \in SUBSET S : IsFiniteSet(s) /\ Cardinality(s) \in Nat
  BY FS_Subset, FS_CardinalityType
<1>8. 0 \in P
  <2> SUFFICES ASSUME NEW s \in SUBSET S, Cardinality(s) = 0 PROVE it[s] = g[s]
    OBVIOUS
  <2>1. s = {}
    BY <1>7, FS_EmptySet
  <2> QED
    BY <1>0, <1>5, <2>1
<1>9. ASSUME NEW k \in Nat, k \in P PROVE k + 1 \in P
  <2> SUFFICES ASSUME NEW s \in SUBSET S, Cardinality(s) = k + 1 PROVE it[s] = g[s]
    OBVIOUS
  <2>1. s # {}
    BY FS_EmptySet
  <2>2. PICK x : x = CHOOSE y \in s : TRUE
    OBVIOUS
  <2>3. x \in s
    BY <1>1, <2>1, <2>2
  <2>4. it[s] = it[s \ {x}] + Hosts[x][field]
    BY <1>5, <2>1, <2>2, Zenon
  <2>5. g[s] = g[s \ {x}] + Hosts[x][field]
    BY <1>0, <2>3
  <2>6. Cardinality(s \ {x}) = k /\ s \ {x} \in SUBSET S
    <3>1. IsFiniteSet(s)
      BY <1>7
    <3>2. Cardinality(s \ {x}) = Cardinality(s) - 1
      BY <2>3, <3>1, FS_RemoveElement
    <3> QED
      BY <3>2
  <2>7. it[s \ {x}] = g[s \ {x}]
    BY <1>9, <2>6
  <2> QED
    BY <2>4, <2>5, <2>7
<1> HIDE DEF P
<1>10. Nat \subseteq P
  BY <1>8, <1>9, NatInduct
<1>11. it[S] = g[S]
  BY <1>7, <1>10 DEF P
<1> QED
  BY <1>6, <1>11

\* Along any order of the set the sum is the same.
\* f lists the members of S, each once, and w their values.
ListsOnce(f, n, S) ==
  /\ n \in Nat /\ f \in [1 .. n -> S]
  /\ \A i, j \in 1 .. n : f[i] = f[j] => i = j
  /\ \A x \in S : \E i \in 1 .. n : f[i] = x
ValuesAlong(w, f, n, v) == \A k \in 1 .. n : w[k] = v[f[k]]

LEMMA SumAlong ==
  ASSUME NEW S, NEW n, NEW f, ListsOnce(f, n, S), NEW v, NEW g, Additive(g, S, v),
         NEW w, ValuesAlong(w, f, n, v), NEW r, IsSum(w, n, r)
  PROVE  r = g[S]
<1> USE DEF ListsOnce, ValuesAlong
<1>0. /\ g \in [SUBSET S -> Nat] /\ g[{}] = 0
      /\ \A s \in SUBSET S : \A x \in s : g[s] = g[s \ {x}] + v[x]
  BY DEF Additive
<1>1. PICK u \in [0 .. n -> Int] : u[0] = 0 /\ r = u[n] /\ \A k \in 1 .. n : u[k] = u[k - 1] + w[k]
  BY DEF IsSum
<1> DEFINE Firsts(k) == {f[i] : i \in 1 .. k}
           P == {k \in Nat : k <= n => u[k] = g[Firsts(k)]}
<1>2. 0 \in P
  <2>1. Firsts(0) = {}
    OBVIOUS
  <2> QED
    BY <1>0, <1>1, <2>1
<1>3. ASSUME NEW k \in Nat, k \in P PROVE k + 1 \in P
  <2> SUFFICES ASSUME k + 1 <= n PROVE u[k + 1] = g[Firsts(k + 1)]
    OBVIOUS
  <2>1. k + 1 \in 1 .. n /\ u[k] = g[Firsts(k)]
    BY <1>3
  <2>2. u[k + 1] = u[k] + v[f[k + 1]]
    BY <1>1, <2>1
  <2>3. Firsts(k + 1) \in SUBSET S /\ f[k + 1] \in Firsts(k + 1)
    BY <2>1
  <2>4. Firsts(k + 1) \ {f[k + 1]} = Firsts(k)
    <3>1. \A i \in 1 .. k + 1 : i \in 1 .. n /\ (f[i] = f[k + 1] => i = k + 1)
      BY <2>1
    <3>2. \A i \in 1 .. k + 1 : i \in 1 .. k \/ i = k + 1
      OBVIOUS
    <3>3. \A i \in 1 .. k : i \in 1 .. k + 1 /\ i # k + 1
      OBVIOUS
    <3> QED
      BY <3>1, <3>2, <3>3
  <2>5. g[Firsts(k + 1)] = g[Firsts(k)] + v[f[k + 1]]
    <3> HIDE DEF Firsts
    <3>1. PICK s, t, y : s = Firsts(k + 1) /\ t = Firsts(k) /\ y = f[k + 1]
      BY Zenon
    <3>2. s \in SUBSET S /\ y \in s /\ s \ {y} = t
      BY <2>3, <2>4, <3>1, Zenon
    <3>3. g[s] = g[s \ {y}] + v[y]
      BY <1>0, <3>2
    <3> QED
      BY <3>1, <3>2, <3>3, Zenon
  <2> QED
    BY <2>1, <2>2, <2>5
<1>5. u[n] = g[Firsts(n)]
  <2> HIDE DEF P
  <2>1. Nat \subseteq P
    BY <1>2, <1>3, NatInduct
  <2>2. n \in P
    BY <2>1
  <2> HIDE DEF Firsts
  <2> QED
    BY <2>2 DEF P
<1>6. Firsts(n) = S
  OBVIOUS
<1> HIDE DEF Firsts
<1> QED
  BY <1>1, <1>5, <1>6

\* The order in which the nodes of a set of hosts are added up does not matter.
LEMMA CapacityTold ==
  ASSUME NEW S \in SUBSET DOMAIN Hosts, NEW f, f = SetToSeq(S), NEW nodes, DOMAIN nodes = DOMAIN f,
         NEW field \in {"Cpus", "Memory"}, \A i \in DOMAIN f : nodes[i][field] = Hosts[f[i]][field]
  PROVE  TotalOfHosts(nodes, field) = SumOver(S, field)
<1>0. IsFiniteSet(S) /\ \A h \in S : Hosts[h].Cpus \in Nat /\ Hosts[h].Memory \in Nat
  BY HostsAssumption, FS_Subset
<1>1. PICK n : n = Cardinality(S)
  OBVIOUS
<1>2. /\ n \in Nat /\ f \in [1 .. n -> S] /\ DOMAIN f = 1 .. n
      /\ \A i, j \in 1 .. n : f[i] = f[j] => i = j
      /\ \A x \in S : \E i \in 1 .. n : f[i] = x
  BY <1>0, <1>1, SetToSeqIs
<1>3. PICK v : v = [h \in S |-> Hosts[h][field]]
  OBVIOUS
<1>4. \A h \in S : v[h] = Hosts[h][field] /\ v[h] \in Nat
  <2>1. CASE field = "Cpus"
    BY <1>0, <1>3, <2>1
  <2>2. CASE field = "Memory"
    BY <1>0, <1>3, <2>2
  <2> QED
    BY <2>1, <2>2
<1>5. PICK g : Additive(g, S, v)
  BY <1>0, <1>4, AdditiveExists
<1>6. PICK w : w = [k \in 1 .. n |-> v[f[k]]]
  OBVIOUS
<1>7. w \in [1 .. n -> Int] /\ \A k \in 1 .. n : w[k] = v[f[k]] /\ w[k] = nodes[k][field]
  BY <1>2, <1>4, <1>6
<1>8. IsSum(w, n, TotalOfHosts(nodes, field))
  BY <1>2, <1>7, TotalIsSum
<1>9. TotalOfHosts(nodes, field) = g[S]
  <2>1. PICK r : r = TotalOfHosts(nodes, field)
    OBVIOUS
  <2>2. IsSum(w, n, r)
    BY <1>8, <2>1
  <2>3. ValuesAlong(w, f, n, v)
    BY <1>7 DEF ValuesAlong
  <2>4. ListsOnce(f, n, S)
    BY <1>2 DEF ListsOnce
  <2>5. r = g[S]
    BY <1>5, <2>2, <2>3, <2>4, SumAlong
  <2> QED
    BY <2>1, <2>5
<1>10. SumOver(S, field) = g[S]
  BY <1>0, <1>4, <1>5, SumOverIs
<1> QED
  BY <1>9, <1>10

\* What the hosts have together is a number.
LEMMA SumNatural ==
  ASSUME NEW S \in SUBSET DOMAIN Hosts, NEW field \in {"Cpus", "Memory"} PROVE SumOver(S, field) \in Nat
<1>0. IsFiniteSet(S) /\ \A h \in S : Hosts[h].Cpus \in Nat /\ Hosts[h].Memory \in Nat
  BY HostsAssumption, FS_Subset
<1>1. PICK v : v = [h \in S |-> Hosts[h][field]]
  OBVIOUS
<1>2. \A h \in S : v[h] = Hosts[h][field] /\ v[h] \in Nat
  <2>1. CASE field = "Cpus"
    BY <1>0, <1>1, <2>1
  <2>2. CASE field = "Memory"
    BY <1>0, <1>1, <2>2
  <2> QED
    BY <2>1, <2>2
<1>3. PICK g : Additive(g, S, v)
  BY <1>0, <1>2, AdditiveExists
<1>4. SumOver(S, field) = g[S]
  BY <1>0, <1>2, <1>3, SumOverIs
<1> QED
  BY <1>3, <1>4 DEF Additive

-----------------------------------------------------------------------------
(* Lists of hosts come back from their text. *)

JoinStep(text, i, word) == text \o (IF i = 1 THEN <<>> ELSE <<Comma>>) \o word

JoinSteps(words, indices, it) ==
  [d \in SUBSET DOMAIN indices |->
     IF d = {} THEN <<>> ELSE JoinStep(it[d \ {Max(d)}], indices[Max(d)], words[indices[Max(d)]])]

JoinPick(words, indices) == CHOOSE it : it = JoinSteps(words, indices, it)

Indices(list) == [i \in DOMAIN list |-> i]

LEMMA IndicesAre == \A list : DOMAIN Indices(list) = DOMAIN list /\ \A i \in DOMAIN list : Indices(list)[i] = i
  BY DEF Indices

LEMMA JoinFold == \A words : Join(words) = JoinPick(words, Indices(words))[DOMAIN Indices(words)]
<1> SUFFICES ASSUME NEW words PROVE Join(words) = JoinPick(words, Indices(words))[DOMAIN Indices(words)]
  OBVIOUS
<1>1. Join(words) = FoldLeft(LAMBDA text, i : text \o (IF i = 1 THEN <<>> ELSE <<Comma>>) \o words[i], <<>>, Indices(words))
  BY DEF Join, FoldLeftDomain, Indices
<1>2. FoldLeft(LAMBDA text, i : text \o (IF i = 1 THEN <<>> ELSE <<Comma>>) \o words[i], <<>>, Indices(words))
        = JoinPick(words, Indices(words))[DOMAIN Indices(words)]
  BY DEF FoldLeft, MapThenFoldSet, JoinSteps, JoinStep, JoinPick
<1> QED
  BY <1>1, <1>2, Zenon

HostSteps(names, indices, it) ==
  [d \in SUBSET DOMAIN indices |->
     IF d = {} THEN <<>> ELSE JoinStep(it[d \ {Max(d)}], indices[Max(d)], <<Word(names[indices[Max(d)]])>>)]

HostPick(names, indices) == CHOOSE it : it = HostSteps(names, indices, it)

LEMMA HostListFold ==
  \A hosts : hosts # {} =>
    HostList(hosts) = HostPick(SetToSeq(hosts), Indices(SetToSeq(hosts)))[DOMAIN Indices(SetToSeq(hosts))]
<1> SUFFICES ASSUME NEW hosts, hosts # {}
             PROVE  HostList(hosts) = HostPick(SetToSeq(hosts), Indices(SetToSeq(hosts)))[DOMAIN Indices(SetToSeq(hosts))]
  OBVIOUS
<1>1. HostList(hosts) =
        FoldLeftDomain(LAMBDA text, i : text \o (IF i = 1 THEN <<>> ELSE <<Comma>>) \o <<Word(SetToSeq(hosts)[i])>>,
                       <<>>, SetToSeq(hosts))
  BY Zenon DEF HostList
<1>2. FoldLeftDomain(LAMBDA text, i : text \o (IF i = 1 THEN <<>> ELSE <<Comma>>) \o <<Word(SetToSeq(hosts)[i])>>,
                     <<>>, SetToSeq(hosts))
        = FoldLeft(LAMBDA text, i : text \o (IF i = 1 THEN <<>> ELSE <<Comma>>) \o <<Word(SetToSeq(hosts)[i])>>,
                   <<>>, Indices(SetToSeq(hosts)))
  BY DEF FoldLeftDomain, Indices
<1>3. FoldLeft(LAMBDA text, i : text \o (IF i = 1 THEN <<>> ELSE <<Comma>>) \o <<Word(SetToSeq(hosts)[i])>>,
               <<>>, Indices(SetToSeq(hosts)))
        = HostPick(SetToSeq(hosts), Indices(SetToSeq(hosts)))[DOMAIN Indices(SetToSeq(hosts))]
  BY DEF FoldLeft, MapThenFoldSet, HostSteps, JoinStep, HostPick
<1> QED
  BY <1>1, <1>2, <1>3, Zenon

\* scontrol's list of hosts is their names joined by commas.
LEMMA ListIsJoin ==
  ASSUME NEW hosts, hosts # {}, NEW names, names = SetToSeq(hosts), NEW n \in Nat, DOMAIN names = 1 .. n,
         NEW words, words = [i \in DOMAIN names |-> <<Word(names[i])>>]
  PROVE  HostList(hosts) = Join(words)
<1>0. DOMAIN words = DOMAIN names
  OBVIOUS
<1>1. PICK indices : indices = Indices(names)
  OBVIOUS
<1>2. DOMAIN indices = 1 .. n /\ (\A i \in 1 .. n : indices[i] = i) /\ indices = Indices(words)
  <2>1. Indices(words) = Indices(names)
    BY <1>0, Zenon DEF Indices
  <2> QED
    BY <1>1, <2>1, IndicesAre
<1>3. ASSUME NEW d \in SUBSET (1 .. n), d # {}
      PROVE  <<Word(names[indices[Max(d)]])>> = words[indices[Max(d)]]
  <2>1. Max(d) \in 1 .. n
    BY <1>3, MaxOfSet
  <2>2. indices[Max(d)] \in DOMAIN names
    BY <1>2, <2>1
  <2>3. \A i \in DOMAIN names : words[i] = <<Word(names[i])>>
    OBVIOUS
  <2> QED
    BY <2>2, <2>3, Zenon
<1>4. \A it : HostSteps(names, indices, it) = JoinSteps(words, indices, it)
  <2> SUFFICES ASSUME NEW it PROVE HostSteps(names, indices, it) = JoinSteps(words, indices, it)
    OBVIOUS
  <2>1. \A d \in SUBSET (1 .. n) :
          (IF d = {} THEN <<>> ELSE JoinStep(it[d \ {Max(d)}], indices[Max(d)], <<Word(names[indices[Max(d)]])>>))
          = IF d = {} THEN <<>> ELSE JoinStep(it[d \ {Max(d)}], indices[Max(d)], words[indices[Max(d)]])
    BY <1>3, Zenon
  <2>2. [d \in SUBSET (1 .. n) |->
           IF d = {} THEN <<>> ELSE JoinStep(it[d \ {Max(d)}], indices[Max(d)], <<Word(names[indices[Max(d)]])>>)]
        = [d \in SUBSET (1 .. n) |->
             IF d = {} THEN <<>> ELSE JoinStep(it[d \ {Max(d)}], indices[Max(d)], words[indices[Max(d)]])]
    BY <2>1, Zenon
  <2> QED
    BY <1>2, <2>2, Zenon DEF HostSteps, JoinSteps
<1>5. HostPick(names, indices) = JoinPick(words, indices)
  <2>1. \A it : (it = HostSteps(names, indices, it)) <=> (it = JoinSteps(words, indices, it))
    BY <1>4, Zenon
  <2> QED
    BY <2>1, Zenon DEF HostPick, JoinPick
<1> QED
  BY <1>1, <1>2, <1>5, HostListFold, JoinFold, Zenon

LEMMA JoinStepType ==
  ASSUME NEW T, Comma \in T, NEW text \in Seq(T), NEW i, NEW word \in Seq(T) PROVE JoinStep(text, i, word) \in Seq(T)
<1>1. <<>> \in Seq(T) /\ <<Comma>> \in Seq(T)
  OBVIOUS
<1>2. PICK sep : sep = (IF i = 1 THEN <<>> ELSE <<Comma>>)
  OBVIOUS
<1>3. sep \in Seq(T)
  BY <1>1, <1>2
<1>4. text \o sep \in Seq(T)
  BY <1>3, ConcatProperties
<1>5. (text \o sep) \o word \in Seq(T)
  BY <1>4, ConcatProperties
<1> QED
  BY <1>2, <1>5 DEF JoinStep

\* v[k] is what Join has after k words.
JoinRun(T, words, v) ==
  /\ v \in [0 .. Len(words) -> Seq(T)] /\ v[0] = <<>> /\ Join(words) = v[Len(words)]
  /\ \A k \in 1 .. Len(words) : v[k] = JoinStep(v[k - 1], k, words[k])

LEMMA JoinRuns ==
  ASSUME NEW T, Comma \in T, NEW words \in Seq(Seq(T)) PROVE \E v : JoinRun(T, words, v)
<1> DEFINE n == Len(words)
           G == [k \in 1 .. n |-> [x \in Seq(T) |-> JoinStep(x, k, words[k])]]
<1>1. n \in Nat /\ DOMAIN words = 1 .. n /\ \A k \in 1 .. n : words[k] \in Seq(T)
  BY LenProperties, ElementOfSeq
<1>2. G \in [1 .. n -> [Seq(T) -> Seq(T)]]
  BY <1>1, JoinStepType
<1>3. <<>> \in Seq(T)
  BY EmptySeq
<1>4. PICK g \in [SUBSET (1 .. n) -> Seq(T)] : IsFold(g, n, G, <<>>)
  <2> HIDE DEF G, n
  <2> QED
    BY <1>1, <1>2, <1>3, FoldExists
<1>5. PICK indices : indices = Indices(words)
  OBVIOUS
<1>6. DOMAIN indices = 1 .. n /\ \A i \in 1 .. n : indices[i] = i
  BY <1>1, <1>5, IndicesAre
<1>7. \A d \in SUBSET (1 .. n) : d # {} => Max(d) \in 1 .. n /\ indices[Max(d)] = Max(d) /\ d \ {Max(d)} \in SUBSET (1 .. n)
  BY <1>1, <1>6, MaxOfSet
<1>8. g = JoinSteps(words, indices, g)
  <2>1. ASSUME NEW d \in SUBSET (1 .. n), d # {}
        PROVE  G[Max(d)][g[d \ {Max(d)}]] = JoinStep(g[d \ {Max(d)}], indices[Max(d)], words[indices[Max(d)]])
    BY <1>7, <2>1
  <2>2. \A d \in SUBSET (1 .. n) :
          g[d] = IF d = {} THEN <<>> ELSE JoinStep(g[d \ {Max(d)}], indices[Max(d)], words[indices[Max(d)]])
    BY <1>4, <2>1 DEF IsFold
  <2> HIDE DEF G, n
  <2> QED
    BY <1>6, <2>2 DEF JoinSteps
<1>9. PICK it : it = JoinPick(words, indices)
  OBVIOUS
<1>10. it = JoinSteps(words, indices, it)
  BY <1>8, <1>9, Zenon DEF JoinPick
<1> HIDE DEF G, n
<1>11. Join(words) = it[1 .. n]
  BY <1>5, <1>6, <1>9, JoinFold, Zenon
<1>12. \A d \in SUBSET (1 .. n) : it[d] = IF d = {} THEN <<>> ELSE JoinStep(it[d \ {Max(d)}], Max(d), words[Max(d)])
  BY <1>6, <1>7, <1>10 DEF JoinSteps
<1> DEFINE v == [k \in 0 .. n |-> it[1 .. k]]
<1>13. v[0] = <<>>
  <2>1. 0 \in 0 .. n /\ 1 .. 0 = {} /\ {} \in SUBSET (1 .. n)
    BY <1>1
  <2> QED
    BY <1>12, <2>1
<1>14. ASSUME NEW k \in 1 .. n PROVE v[k] = JoinStep(v[k - 1], k, words[k])
  <2>0. k \in Nat /\ k # 0 /\ 1 .. k \in SUBSET (1 .. n)
    BY <1>1
  <2>1. 1 .. k \in SUBSET (1 .. n) /\ 1 .. k # {} /\ Max(1 .. k) = k /\ (1 .. k) \ {k} = 1 .. k - 1
    BY <2>0, InitialSets
  <2>2. it[1 .. k] = JoinStep(it[1 .. k - 1], k, words[k])
    BY <1>12, <2>1
  <2> QED
    BY <1>1, <2>2
<1>15. v \in [0 .. n -> Seq(T)]
  <2> DEFINE P == {k \in Nat : k <= n => v[k] \in Seq(T)}
  <2> HIDE DEF v
  <2>1. 0 \in P
    BY <1>3, <1>13
  <2>2. ASSUME NEW k \in Nat, k \in P PROVE k + 1 \in P
    <3> SUFFICES ASSUME k + 1 <= n PROVE v[k + 1] \in Seq(T)
      OBVIOUS
    <3>1. k + 1 \in 1 .. n /\ v[k] \in Seq(T) /\ words[k + 1] \in Seq(T)
      BY <1>1, <2>2
    <3>2. v[k + 1] = JoinStep(v[k], k + 1, words[k + 1])
      BY <1>1, <1>14, <3>1
    <3> QED
      BY <3>1, <3>2, JoinStepType
  <2> HIDE DEF P
  <2>3. Nat \subseteq P
    BY <2>1, <2>2, NatInduct
  <2>4. \A k \in 0 .. n : v[k] \in Seq(T)
    BY <1>1, <2>3 DEF P
  <2> QED
    BY <2>4 DEF v
<1>16. Join(words) = v[n]
  BY <1>1, <1>11
<1> HIDE DEF v
<1>17. JoinRun(T, words, v)
  BY <1>13, <1>14, <1>15, <1>16 DEF n, JoinRun
<1> QED
  BY <1>17

\* What joins words of one token each splits into them again.
LEMMA SplitJoined ==
  ASSUME NEW T, Comma \in T, NEW words \in Seq(Seq(T)), words # <<>>,
         \A i \in DOMAIN words : \E token \in T : token # Comma /\ words[i] = <<token>>
  PROVE  Split(Join(words), Comma) = words
<1>0. PICK n : n = Len(words)
  OBVIOUS
<1>1. n \in Nat /\ DOMAIN words = 1 .. n /\ n # 0 /\ \A k \in 1 .. n : words[k] \in Seq(T)
  BY <1>0, LenProperties, ElementOfSeq, EmptySeq
<1>2. PICK v : JoinRun(T, words, v)
  BY JoinRuns
<1>3. /\ v \in [0 .. n -> Seq(T)] /\ v[0] = <<>> /\ Join(words) = v[n]
      /\ \A k \in 1 .. n : v[k] = JoinStep(v[k - 1], k, words[k])
  BY <1>0, <1>2 DEF JoinRun
<1> DEFINE Splits(k) == \E p : SplitsTo(T, v[k], Comma, p, words[k]) /\ Len(p) = k - 1 /\ \A i \in 1 .. k - 1 : p[i] = words[i]
           P == {k \in Nat : 1 <= k /\ k <= n => Splits(k)}
<1>4. 0 \in P
  OBVIOUS
<1>5. ASSUME NEW k \in Nat, k \in P PROVE k + 1 \in P
  <2> SUFFICES ASSUME k + 1 <= n PROVE Splits(k + 1)
    OBVIOUS
  <2>1. k + 1 \in 1 .. n /\ k \in 0 .. n /\ v[k] \in Seq(T)
    BY <1>1, <1>3
  <2>2. PICK token \in T : token # Comma /\ words[k + 1] = <<token>>
    BY <1>1, <2>1
  <2>3. v[k + 1] = JoinStep(v[k], k + 1, <<token>>)
    <3>1. (k + 1) - 1 = k
      OBVIOUS
    <3>2. v[k + 1] = JoinStep(v[(k + 1) - 1], k + 1, words[k + 1])
      BY <1>3, <2>1
    <3> QED
      BY <2>2, <3>1, <3>2, Zenon
  <2>4. CASE k = 0
    <3>1. v[k + 1] = Append(<<>>, token)
      <4>1. <<>> \o <<>> = <<>> /\ <<>> \o <<token>> = <<token>>
        BY EmptySeq, ConcatEmptySeq
      <4>2. v[k + 1] = <<>> \o <<>> \o <<token>>
        <5>1. k + 1 = 1 /\ v[k] = <<>>
          BY <1>3, <2>4
        <5>2. v[k + 1] = JoinStep(<<>>, 1, <<token>>)
          BY <2>3, <5>1, Zenon
        <5> QED
          BY <5>2, Zenon DEF JoinStep
      <4> QED
        BY <4>1, <4>2, Tuple1, Zenon
    <3>2. SplitsTo(T, Append(<<>>, token), Comma, <<>>, Append(<<>>, token))
      BY <2>2, SplitsNone, SplitsWord
    <3>3. SplitsTo(T, v[k + 1], Comma, <<>>, words[k + 1])
      BY <2>2, <3>1, <3>2, Tuple1, Zenon
    <3>4. Len(<<>>) = (k + 1) - 1 /\ \A i \in 1 .. (k + 1) - 1 : <<>>[i] = words[i]
      BY <2>4, EmptySeq
    <3> QED
      BY <3>3, <3>4
  <2>5. CASE k # 0
    <3>1. PICK p : SplitsTo(T, v[k], Comma, p, words[k]) /\ Len(p) = k - 1 /\ \A i \in 1 .. k - 1 : p[i] = words[i]
      BY <1>5, <2>1, <2>5
    <3>2. v[k + 1] = Append(Append(v[k], Comma), token)
      <4>1. v[k] \o <<Comma>> = Append(v[k], Comma)
        BY <2>1, ConcatOne, Zenon
      <4>2. Append(v[k], Comma) \in Seq(T)
        BY <2>1, AppendProperties
      <4>3. Append(v[k], Comma) \o <<token>> = Append(Append(v[k], Comma), token)
        BY <4>2, ConcatOne, Zenon
      <4>4. k + 1 # 1
        BY <2>5
      <4>5. v[k + 1] = v[k] \o <<Comma>> \o <<token>>
        BY <2>3, <4>4, Zenon DEF JoinStep
      <4> QED
        BY <4>1, <4>3, <4>5, Zenon
    <3>3. SplitsTo(T, Append(v[k], Comma), Comma, Append(p, words[k]), <<>>)
      BY <3>1, SplitsSep
    <3>4. SplitsTo(T, v[k + 1], Comma, Append(p, words[k]), words[k + 1])
      <4>1. SplitsTo(T, Append(Append(v[k], Comma), token), Comma, Append(p, words[k]), Append(<<>>, token))
        BY <2>2, <3>3, SplitsWord
      <4> QED
        BY <2>2, <3>2, <4>1, Tuple1, Zenon
    <3>5. PICK q : q = Append(p, words[k])
      OBVIOUS
    <3>6. p \in Seq(Seq(T)) /\ words[k] \in Seq(T)
      BY <3>1 DEF SplitsTo
    <3>7. Len(q) = k /\ q[k] = words[k] /\ \A i \in 1 .. k - 1 : q[i] = words[i]
      <4>1. Len(q) = Len(p) + 1 /\ q[Len(p) + 1] = words[k] /\ \A i \in 1 .. Len(p) : q[i] = p[i]
        BY <3>5, <3>6, AppendProperties
      <4> QED
        BY <2>5, <3>1, <4>1
    <3>8. Len(q) = (k + 1) - 1 /\ \A i \in 1 .. (k + 1) - 1 : q[i] = words[i]
      BY <2>5, <3>7
    <3>9. SplitsTo(T, v[k + 1], Comma, q, words[k + 1])
      BY <3>4, <3>5
    <3> QED
      BY <3>8, <3>9
  <2> QED
    BY <2>4, <2>5
<1>6. Splits(n)
  <2> HIDE DEF P
  <2>1. Nat \subseteq P
    BY <1>4, <1>5, NatInduct
  <2>2. n \in P /\ 1 <= n
    BY <1>1, <2>1
  <2> HIDE DEF Splits
  <2> QED
    BY <1>1, <2>2 DEF P
<1>7. PICK p : SplitsTo(T, v[n], Comma, p, words[n]) /\ Len(p) = n - 1 /\ \A i \in 1 .. n - 1 : p[i] = words[i]
  BY <1>6
<1>8. p \in Seq(Seq(T)) /\ Split(v[n], Comma) = Append(p, words[n])
  BY <1>7 DEF SplitsTo
<1>9. Append(p, words[n]) = words
  <2>1. words[n] \in Seq(T) /\ n = Len(p) + 1
    BY <1>1, <1>7
  <2>2. Len(words) = Len(p) + 1 /\ words[Len(p) + 1] = words[n] /\ \A i \in 1 .. Len(p) : words[i] = p[i]
    BY <1>0, <1>7, <2>1
  <2> QED
    BY <1>8, <2>1, <2>2, AppendIs
<1> QED
  BY <1>3, <1>8, <1>9

ListTokens == {Comma} \cup {Word(h) : h \in DOMAIN Hosts}

\* The names of hosts, each a text of its own, in the order of scontrol's list.
NameTexts(hosts) == [i \in DOMAIN SetToSeq(hosts) |-> <<Word(SetToSeq(hosts)[i])>>]

LEMMA HostsListed ==
  ASSUME NEW hosts \in SUBSET DOMAIN Hosts, hosts # {}
  PROVE  /\ HostList(hosts) = Join(NameTexts(hosts))
         /\ Split(HostList(hosts), Comma) = NameTexts(hosts)
<1>0. IsFiniteSet(hosts)
  BY HostsAssumption, FS_Subset
<1>1. PICK names, n, words : names = SetToSeq(hosts) /\ n = Cardinality(hosts) /\ words = NameTexts(hosts)
  OBVIOUS
<1>2. n \in Nat /\ names \in [1 .. n -> hosts] /\ DOMAIN names = 1 .. n
  BY <1>0, <1>1, SetToSeqIs
<1>3. DOMAIN words = 1 .. n /\ \A i \in 1 .. n : words[i] = <<Word(names[i])>>
  BY <1>1, <1>2 DEF NameTexts
<1>4. n # 0
  BY <1>0, <1>1, FS_EmptySet
<1>5. \A i \in 1 .. n : \E token \in ListTokens : token # Comma /\ words[i] = <<token>>
  <2> SUFFICES ASSUME NEW i \in 1 .. n PROVE \E token \in ListTokens : token # Comma /\ words[i] = <<token>>
    OBVIOUS
  <2>1. names[i] \in DOMAIN Hosts
    BY <1>2
  <2>2. Word(names[i]) \in ListTokens
    BY <2>1 DEF ListTokens
  <2>3. names[i] # ","
    BY <2>1, HostsAssumption
  <2>4. Word(names[i]) # Comma
    BY <2>3, WordIs, Separators, Zenon
  <2> QED
    BY <1>3, <2>2, <2>4
<1>6. words \in Seq(Seq(ListTokens)) /\ words # <<>>
  <2>1. \A i \in 1 .. n : words[i] \in Seq(ListTokens)
    <3> SUFFICES ASSUME NEW i \in 1 .. n PROVE words[i] \in Seq(ListTokens)
      OBVIOUS
    <3>1. PICK token \in ListTokens : words[i] = <<token>>
      BY <1>5
    <3> QED
      BY <3>1
  <2>2. words \in [1 .. n -> Seq(ListTokens)]
    <3>1. words = [i \in 1 .. n |-> <<Word(names[i])>>]
      BY <1>1, <1>2, Zenon DEF NameTexts
    <3> QED
      BY <1>3, <2>1, <3>1
  <2>3. words \in Seq(Seq(ListTokens))
    BY <1>2, <2>2
  <2>4. words # <<>>
    BY <1>2, <1>3, <1>4, EmptySeq
  <2> QED
    BY <2>3, <2>4
<1>7. HostList(hosts) = Join(words)
  <2>1. words = [i \in DOMAIN names |-> <<Word(names[i])>>]
    BY <1>1, Zenon DEF NameTexts
  <2> QED
    BY <1>1, <1>2, <2>1, ListIsJoin
<1>8. Comma \in ListTokens
  BY DEF ListTokens
<1>9. Split(Join(words), Comma) = words
  BY <1>3, <1>5, <1>6, <1>8, SplitJoined
<1> QED
  BY <1>1, <1>7, <1>9

\* f lists the hosts, and a their names.
Lists(hosts, n, f, a) ==
  /\ f \in [1 .. n -> hosts] /\ DOMAIN a = 1 .. n /\ \A i \in 1 .. n : a[i] = <<Word(f[i])>>
  /\ \A x \in hosts : \E i \in 1 .. n : f[i] = x

LEMMA TextsList == \A hosts \in SUBSET DOMAIN Hosts : \E n, f : Lists(hosts, n, f, NameTexts(hosts))
<1> SUFFICES ASSUME NEW hosts \in SUBSET DOMAIN Hosts PROVE \E n, f : Lists(hosts, n, f, NameTexts(hosts))
  OBVIOUS
<1>1. IsFiniteSet(hosts)
  BY HostsAssumption, FS_Subset
<1>2. PICK n, f, a : f = SetToSeq(hosts) /\ n = Cardinality(hosts) /\ a = NameTexts(hosts)
  OBVIOUS
<1>3. f \in [1 .. n -> hosts] /\ \A x \in hosts : \E i \in 1 .. n : f[i] = x
  BY <1>1, <1>2, SetToSeqIs
<1>4. DOMAIN a = 1 .. n /\ \A i \in 1 .. n : a[i] = <<Word(f[i])>>
  BY <1>2, <1>3 DEF NameTexts
<1>5. Lists(hosts, n, f, a)
  BY <1>3, <1>4, Zenon DEF Lists
<1> QED
  BY <1>2, <1>5, Zenon

LEMMA WordsDiffer == \A x, y : <<Word(x)>> = <<Word(y)>> => x = y
<1> SUFFICES ASSUME NEW x, NEW y, <<Word(x)>> = <<Word(y)>> PROVE x = y
  OBVIOUS
<1>1. PICK u, w : u = Word(x) /\ w = Word(y)
  OBVIOUS
<1>2. <<u>> = <<w>>
  BY <1>1
<1>3. u = w
  BY <1>2
<1>4. Word(x).word = x /\ Word(y).word = y
  BY WordIs
<1> QED
  BY <1>1, <1>3, <1>4

\* The list names no other set of hosts.
LEMMA FoundOnly ==
  ASSUME NEW hosts \in SUBSET DOMAIN Hosts, hosts # {} PROVE Found(HostList(hosts)) = {hosts}
<1>1. hosts \in Found(HostList(hosts))
  BY DEF Found
<1>2. ASSUME NEW others \in Found(HostList(hosts)) PROVE others = hosts
  <2>1. others \in SUBSET DOMAIN Hosts /\ others # {} /\ HostList(others) = HostList(hosts)
    BY DEF Found
  <2>2. PICK a : a = NameTexts(hosts) /\ a = NameTexts(others)
    BY <2>1, HostsListed
  <2>3. PICK n, f : Lists(hosts, n, f, a)
    BY <2>2, TextsList
  <2>4. PICK m, g : Lists(others, m, g, a)
    BY <2>1, <2>2, TextsList
  <2>5. 1 .. m = 1 .. n /\ \A i \in 1 .. n : f[i] = g[i]
    <3>1. 1 .. m = 1 .. n
      BY <2>3, <2>4, Zenon DEF Lists
    <3>2. \A i \in 1 .. n : a[i] = <<Word(f[i])>> /\ a[i] = <<Word(g[i])>>
      BY <2>3, <2>4, <3>1, Zenon DEF Lists
    <3>3. \A i \in 1 .. n : f[i] = g[i]
      BY <3>2, WordsDiffer, Zenon
    <3> QED
      BY <3>1, <3>3
  <2>6. \A x : x \in others <=> x \in hosts
    <3>1. /\ \A i \in 1 .. n : f[i] \in hosts /\ g[i] \in others
          /\ \A x \in hosts : \E i \in 1 .. n : f[i] = x
          /\ \A x \in others : \E i \in 1 .. n : g[i] = x
      BY <2>3, <2>4, <2>5 DEF Lists
    <3> QED
      BY <2>5, <3>1, Zenon
  <2> QED
    BY <2>6
<1> QED
  BY <1>1, <1>2

LEMMA NoneFound == Split(HostList({}), Comma) = <<<<Word("(null)")>>>> /\ Found(<<Word("(null)")>>) = {}
<1>1. HostList({}) = <<Word("(null)")>>
  BY DEF HostList
<1>2. "(null)" # ","
  BY Zenon
<1>3. Word("(null)") # Comma
  BY <1>2, WordIs, Separators, Zenon
<1>4. Split(HostList({}), Comma) = <<<<Word("(null)")>>>>
  BY <1>1, <1>3, SplitOne, Zenon
<1>5. ASSUME NEW hosts \in Found(<<Word("(null)")>>) PROVE FALSE
  <2>1. hosts \in SUBSET DOMAIN Hosts /\ hosts # {} /\ HostList(hosts) = <<Word("(null)")>>
    BY DEF Found
  <2>2. NameTexts(hosts) = <<<<Word("(null)")>>>>
    BY <2>1, HostsListed, <1>1, <1>4, Zenon
  <2>3. PICK a : a = NameTexts(hosts)
    OBVIOUS
  <2>4. PICK n, f : Lists(hosts, n, f, a)
    BY <2>1, <2>3, TextsList
  <2>5. 1 \in DOMAIN a /\ a[1] = <<Word("(null)")>>
    <3>1. PICK y : y = <<Word("(null)")>>
      OBVIOUS
    <3>2. a = <<y>>
      BY <2>2, <2>3, <3>1
    <3> QED
      BY <3>1, <3>2
  <2>6. f[1] \in hosts /\ <<Word(f[1])>> = <<Word("(null)")>>
    BY <2>4, <2>5 DEF Lists
  <2>7. f[1] = "(null)"
    BY <2>6, WordsDiffer, Zenon
  <2>8. f[1] \in DOMAIN Hosts
    BY <2>1, <2>6
  <2> QED
    BY <2>7, <2>8, HostsAssumption, Zenon
<1> QED
  BY <1>4, <1>5, Zenon

-----------------------------------------------------------------------------
(* What is read out of a partition and its nodes. *)

LEMMA MinOfOne == \A k \in Nat : Min({k}) = k
<1> SUFFICES ASSUME NEW k \in Nat PROVE Min({k}) = k
  OBVIOUS
<1>1. \E x \in {k} : \A y \in {k} : x <= y
  OBVIOUS
<1>2. Min({k}) \in {k}
  BY <1>1, Zenon DEF Min
<1> QED
  BY <1>2

LEMMA OnlyFirst ==
  \A block, n, k, key : IsField(block, n, k, key) => First(block, key) = Split(block[k].text, Comma)[1]
<1> SUFFICES ASSUME NEW block, NEW n, NEW k, NEW key, IsField(block, n, k, key)
             PROVE  First(block, key) = Split(block[k].text, Comma)[1]
  OBVIOUS
<1>1. {i \in DOMAIN block : block[i].key = key /\ block[i].eqs = 1} = {k}
  BY DEF IsField
<1>2. Min({k}) = k
  <2>1. k \in Nat
    BY DEF IsField
  <2> QED
    BY <2>1, MinOfOne
<1> QED
  BY <1>1, <1>2, Zenon DEF First

\* The block of a partition: texts of the fields, by key.
IsPartition(b, hosts, l) ==
  /\ IsField(b, 9, 2, "MaxNodes") /\ b[2].text = <<l.MaxNodes>>
  /\ IsField(b, 9, 3, "MaxTime") /\ b[3].text = TimeText(l.MaxTime)
  /\ IsField(b, 9, 4, "MaxCPUsPerNode") /\ b[4].text = <<l.MaxCPUsPerNode>>
  /\ IsField(b, 9, 5, "Nodes") /\ b[5].text = HostList(hosts)
  /\ IsField(b, 9, 6, "TotalCPUs") /\ b[6].text = <<Num(l.TotalCPUs)>>
  /\ IsField(b, 9, 7, "TotalNodes") /\ b[7].text = <<Num(Cardinality(hosts))>>
  /\ IsField(b, 9, 8, l.MemKey) /\ b[8].text = <<l.MaxMem>>
  /\ l.MemKey # "MaxMemPerNode" => "MaxMemPerNode" \notin Keys(b)

LEMMA PartitionFields ==
  ASSUME NEW hosts, NEW l \in PartitionLimits, NEW b, b = ShowPartition(hosts, l) PROVE IsPartition(b, hosts, l)
<1>1. PICK f1, f2, f3, f4, f5, f6, f7, f8, f9 :
         /\ f1 = Field("PartitionName", <<Word("p")>>) /\ f2 = Field("MaxNodes", <<l.MaxNodes>>)
         /\ f3 = Field("MaxTime", TimeText(l.MaxTime)) /\ f4 = Field("MaxCPUsPerNode", <<l.MaxCPUsPerNode>>)
         /\ f5 = Field("Nodes", HostList(hosts)) /\ f6 = Field("TotalCPUs", <<Num(l.TotalCPUs)>>)
         /\ f7 = Field("TotalNodes", <<Num(Cardinality(hosts))>>) /\ f8 = Field(l.MemKey, <<l.MaxMem>>)
         /\ f9 = Nested("TRES")
  BY Zenon
<1>2. b = <<f1, f2, f3, f4, f5, f6, f7, f8, f9>>
  BY <1>1, Zenon DEF ShowPartition
<1>3. /\ DOMAIN b = 1 .. 9 /\ b[1] = f1 /\ b[2] = f2 /\ b[3] = f3 /\ b[4] = f4 /\ b[5] = f5
      /\ b[6] = f6 /\ b[7] = f7 /\ b[8] = f8 /\ b[9] = f9
  BY <1>2
<1>4. /\ b[1].key = "PartitionName" /\ b[2].key = "MaxNodes" /\ b[3].key = "MaxTime" /\ b[4].key = "MaxCPUsPerNode"
      /\ b[5].key = "Nodes" /\ b[6].key = "TotalCPUs" /\ b[7].key = "TotalNodes" /\ b[8].key = l.MemKey /\ b[9].key = "TRES"
  <2>1. /\ f1.key = "PartitionName" /\ f2.key = "MaxNodes" /\ f3.key = "MaxTime" /\ f4.key = "MaxCPUsPerNode"
        /\ f5.key = "Nodes" /\ f6.key = "TotalCPUs" /\ f7.key = "TotalNodes" /\ f8.key = l.MemKey /\ f9.key = "TRES"
    BY <1>1, FieldIs, NestedIs
  <2> QED
    BY <1>3, <2>1, Zenon
<1>5. /\ b[2].eqs = 1 /\ b[3].eqs = 1 /\ b[4].eqs = 1 /\ b[5].eqs = 1 /\ b[6].eqs = 1 /\ b[7].eqs = 1 /\ b[8].eqs = 1
      /\ b[2].text = <<l.MaxNodes>> /\ b[3].text = TimeText(l.MaxTime) /\ b[4].text = <<l.MaxCPUsPerNode>>
      /\ b[5].text = HostList(hosts) /\ b[6].text = <<Num(l.TotalCPUs)>>
      /\ b[7].text = <<Num(Cardinality(hosts))>> /\ b[8].text = <<l.MaxMem>>
  <2>1. f2.eqs = 1 /\ f3.eqs = 1 /\ f4.eqs = 1 /\ f5.eqs = 1 /\ f6.eqs = 1 /\ f7.eqs = 1 /\ f8.eqs = 1
    BY <1>1, FieldIs
  <2>2. /\ f2.text = <<l.MaxNodes>> /\ f3.text = TimeText(l.MaxTime) /\ f4.text = <<l.MaxCPUsPerNode>>
        /\ f5.text = HostList(hosts) /\ f6.text = <<Num(l.TotalCPUs)>>
        /\ f7.text = <<Num(Cardinality(hosts))>> /\ f8.text = <<l.MaxMem>>
    BY <1>1, FieldIs
  <2> QED
    BY <1>3, <2>1, <2>2, Zenon
<1>6. l.MemKey \in {"MaxMemPerNode", "MaxMemPerCPU"}
  BY DEF PartitionLimits
<1>7. \A i \in 1 .. 9 : i = 1 \/ i = 2 \/ i = 3 \/ i = 4 \/ i = 5 \/ i = 6 \/ i = 7 \/ i = 8 \/ i = 9
  OBVIOUS
<1>8. /\ \A i \in 1 .. 9 : i # 2 => b[i].key # "MaxNodes"
      /\ \A i \in 1 .. 9 : i # 3 => b[i].key # "MaxTime"
      /\ \A i \in 1 .. 9 : i # 4 => b[i].key # "MaxCPUsPerNode"
      /\ \A i \in 1 .. 9 : i # 5 => b[i].key # "Nodes"
  BY <1>4, <1>6, <1>7
<1>9. /\ \A i \in 1 .. 9 : i # 6 => b[i].key # "TotalCPUs"
      /\ \A i \in 1 .. 9 : i # 7 => b[i].key # "TotalNodes"
      /\ \A i \in 1 .. 9 : i # 8 => b[i].key # "MaxMemPerNode" /\ b[i].key # "MaxMemPerCPU"
  BY <1>4, <1>6, <1>7
<1>10. \A k \in 2 .. 8 : k \in 1 .. 9
  OBVIOUS
<1>11. /\ IsField(b, 9, 2, "MaxNodes") /\ IsField(b, 9, 3, "MaxTime") /\ IsField(b, 9, 4, "MaxCPUsPerNode")
       /\ IsField(b, 9, 5, "Nodes")
  BY <1>3, <1>4, <1>5, <1>8 DEF IsField
<1>12. IsField(b, 9, 6, "TotalCPUs") /\ IsField(b, 9, 7, "TotalNodes") /\ IsField(b, 9, 8, l.MemKey)
  BY <1>3, <1>4, <1>5, <1>6, <1>9 DEF IsField
<1>13. l.MemKey # "MaxMemPerNode" => "MaxMemPerNode" \notin Keys(b)
  BY <1>3, <1>4, <1>9 DEF Keys
<1> QED
  BY <1>5, <1>11, <1>12, <1>13, Zenon DEF IsPartition

LEMMA NodeFields ==
  ASSUME NEW h \in DOMAIN Hosts
  PROVE  /\ ParseInt(Get(ShowNode(h), "CPUTot")).value = Hosts[h].Cpus
         /\ ParseInt(Get(ShowNode(h), "RealMemory")).value = Hosts[h].Memory
<1>0. Hosts[h].Cpus \in Nat /\ Hosts[h].Memory \in Nat
  BY HostsAssumption
<1>1. PICK b, f1, f2, f3, f4 :
         /\ b = ShowNode(h) /\ f1 = Field("CPUTot", <<Num(Hosts[h].Cpus)>>)
         /\ f2 = Field("RealMemory", <<Num(Hosts[h].Memory)>>)
         /\ f3 = Field("CPUAlloc", <<Num(0)>>) /\ f4 = Nested("CfgTRES")
  BY Zenon
<1>2. b = <<f1, f2, f3, f4>>
  BY <1>1, Zenon DEF ShowNode
<1>3. DOMAIN b = 1 .. 4 /\ b[1] = f1 /\ b[2] = f2 /\ b[3] = f3 /\ b[4] = f4
  BY <1>2
<1>4. /\ b[1].key = "CPUTot" /\ b[2].key = "RealMemory" /\ b[3].key = "CPUAlloc" /\ b[4].key = "CfgTRES"
      /\ b[1].eqs = 1 /\ b[2].eqs = 1
      /\ b[1].text = <<Num(Hosts[h].Cpus)>> /\ b[2].text = <<Num(Hosts[h].Memory)>>
  <2>1. /\ f1.key = "CPUTot" /\ f2.key = "RealMemory" /\ f3.key = "CPUAlloc" /\ f4.key = "CfgTRES"
        /\ f1.eqs = 1 /\ f2.eqs = 1
        /\ f1.text = <<Num(Hosts[h].Cpus)>> /\ f2.text = <<Num(Hosts[h].Memory)>>
    BY <1>1, FieldIs, NestedIs
  <2> QED
    BY <1>3, <2>1, Zenon
<1>5. IsField(b, 4, 1, "CPUTot") /\ IsField(b, 4, 2, "RealMemory")
  BY <1>3, <1>4 DEF IsField
<1>6. Get(b, "CPUTot") = <<Num(Hosts[h].Cpus)>> /\ Get(b, "RealMemory") = <<Num(Hosts[h].Memory)>>
  BY <1>4, <1>5, OnlyField
<1> QED
  BY <1>0, <1>1, <1>6, ParseNum, Zenon

LEMMA JoinOne == \A w : Join(<<<<w>>>>) = <<w>>
<1> SUFFICES ASSUME NEW w PROVE Join(<<<<w>>>>) = <<w>>
  OBVIOUS
<1>1. PICK T, words, u : T = {Comma, w} /\ u = <<w>> /\ words = <<u>>
  OBVIOUS
<1>2. Comma \in T /\ w \in T
  BY <1>1
<1>3. u \in Seq(T)
  BY <1>1, <1>2
<1>4. words \in Seq(Seq(T)) /\ Len(words) = 1 /\ words[1] = u
  BY <1>1, <1>3
<1>5. PICK v : JoinRun(T, words, v)
  BY <1>2, <1>4, JoinRuns
<1>6. v[0] = <<>> /\ Join(words) = v[1] /\ v[1] = JoinStep(v[0], 1, u)
  <2>1. /\ v[0] = <<>> /\ Join(words) = v[Len(words)]
        /\ \A k \in 1 .. Len(words) : v[k] = JoinStep(v[k - 1], k, words[k])
    BY <1>5 DEF JoinRun
  <2>2. 1 \in 1 .. Len(words) /\ 1 - 1 = 0
    BY <1>4
  <2> QED
    BY <1>4, <2>1, <2>2
<1>7. v[1] = <<>> \o <<>> \o u
  BY <1>6, Zenon DEF JoinStep
<1>8. <<>> \o <<>> = <<>> /\ <<>> \o u = u
  BY <1>3, EmptySeq, ConcatEmptySeq
<1> QED
  BY <1>1, <1>6, <1>7, <1>8, Zenon

\* The hosts of the list, each once, or an error for a partition without hosts.
LEMMA NodesTold ==
  ASSUME NEW hosts \in SUBSET DOMAIN Hosts, NEW l \in PartitionLimits,
         NEW r, r = Nodes(parsePartition(ShowPartition(hosts, l)))
  PROVE  /\ r.ok <=> hosts # {}
         /\ r.ok => GetPartitionCapacity(r.nodes) = CapacityOf(hosts)
<1>1. PICK text : text = Split(HostList(hosts), Comma)
  OBVIOUS
<1>2. parsePartition(ShowPartition(hosts, l)) = text
  <2>1. PICK b : b = ShowPartition(hosts, l)
    OBVIOUS
  <2>2. IsPartition(b, hosts, l)
    BY <2>1, PartitionFields
  <2>3. Get(b, "Nodes") = HostList(hosts)
    BY <2>2, OnlyField DEF IsPartition
  <2> QED
    BY <1>1, <2>1, <2>3, Zenon DEF parsePartition
<1>3. r = Nodes(text)
  BY <1>2
<1>4. CASE hosts = {}
  <2>1. text = <<<<Word("(null)")>>>> /\ Found(<<Word("(null)")>>) = {}
    BY <1>1, <1>4, NoneFound, Zenon
  <2>2. Found(Join(text)) = {}
    BY <2>1, JoinOne, Zenon
  <2>3. r = Error
    BY <1>3, <2>2, Zenon DEF Nodes
  <2> QED
    BY <1>4, <2>3 DEF Error
<1>5. CASE hosts # {}
  <2>1. HostList(hosts) = Join(text)
    BY <1>1, <1>5, HostsListed, Zenon
  <2>2. Found(Join(text)) = {hosts}
    BY <1>5, <2>1, FoundOnly, Zenon
  <2>3. PICK f : f = SetToSeq(hosts)
    OBVIOUS
  <2>4. PICK nodes : nodes = [i \in DOMAIN f |-> [Cpus |-> ParseInt(Get(ShowNode(f[i]), "CPUTot")).value,
                                                   Memory |-> ParseInt(Get(ShowNode(f[i]), "RealMemory")).value]]
    OBVIOUS
  <2>5. (CHOOSE found \in {hosts} : TRUE) = hosts
    OBVIOUS
  <2>6. r.ok /\ r.nodes = nodes
    <3>1. Found(Join(text)) # {} /\ (CHOOSE found \in Found(Join(text)) : TRUE) = hosts
      <4>1. {hosts} # {}
        OBVIOUS
      <4> QED
        BY <2>2, <2>5, <4>1, Zenon
    <3>2. Nodes(text) = [ok |-> TRUE, nodes |-> nodes]
      BY <2>3, <2>4, <3>1, Zenon DEF Nodes
    <3> QED
      BY <1>3, <3>2
  <2>7. \A i \in DOMAIN f : f[i] \in hosts
    <3>1. PICK n : n = Cardinality(hosts)
      OBVIOUS
    <3>2. IsFiniteSet(hosts)
      BY HostsAssumption, FS_Subset
    <3>3. f \in [1 .. n -> hosts]
      BY <2>3, <3>1, <3>2, SetToSeqIs
    <3> QED
      BY <3>3
  <2>8. DOMAIN nodes = DOMAIN f /\ \A i \in DOMAIN f : nodes[i].Cpus = Hosts[f[i]].Cpus /\ nodes[i].Memory = Hosts[f[i]].Memory
    <3>1. ASSUME NEW i \in DOMAIN f PROVE nodes[i].Cpus = Hosts[f[i]].Cpus /\ nodes[i].Memory = Hosts[f[i]].Memory
      <4>1. f[i] \in DOMAIN Hosts
        BY <2>7
      <4>2. /\ nodes[i].Cpus = ParseInt(Get(ShowNode(f[i]), "CPUTot")).value
            /\ nodes[i].Memory = ParseInt(Get(ShowNode(f[i]), "RealMemory")).value
        BY <2>4
      <4> QED
        BY <4>1, <4>2, NodeFields
    <3> QED
      BY <2>4, <3>1
  <2>9. TotalOfHosts(nodes, "Cpus") = SumOver(hosts, "Cpus")
    BY <2>3, <2>8, CapacityTold
  <2>10. TotalOfHosts(nodes, "Memory") = SumOver(hosts, "Memory")
    BY <2>3, <2>8, CapacityTold
  <2>11. GetPartitionCapacity(nodes) = [cpu |-> SumOver(hosts, "Cpus"), memory |-> SumOver(hosts, "Memory") * 2 * 1024,
                                        pods |-> SumOver(hosts, "Cpus")]
    <3>1. GetPartitionCapacity(nodes) = [cpu |-> TotalOfHosts(nodes, "Cpus"), memory |-> TotalOfHosts(nodes, "Memory") * 2 * 1024,
                                         pods |-> TotalOfHosts(nodes, "Cpus")]
      BY DEF GetPartitionCapacity, TotalOfHosts
    <3> QED
      BY <2>9, <2>10, <3>1
  <2>12. SumOver(hosts, "Memory") * 2 * 1024 = 2048 * SumOver(hosts, "Memory")
    BY SumNatural
  <2> QED
    BY <1>5, <2>6, <2>11, <2>12 DEF CapacityOf
<1> QED
  BY <1>4, <1>5

\* A text without the separator is one part.
LEMMA SplitsWhole ==
  ASSUME NEW T, NEW s \in Seq(T), NEW sep, \A i \in 1 .. Len(s) : s[i] # sep PROVE Split(s, sep) = <<s>>
<1>0. PICK n : n = Len(s)
  OBVIOUS
<1>1. n \in Nat /\ DOMAIN s = 1 .. n /\ \A k \in 1 .. n : s[k] \in T /\ s[k] # sep
  BY <1>0, LenProperties, ElementOfSeq
<1>2. PICK v : SplitRun(T, s, sep, v)
  BY SplitFold
<1>3. v[0] = <<<<>>>> /\ Split(s, sep) = v[n] /\ \A k \in 1 .. n : v[k] = SplitStep(v[k - 1], s[k], sep)
  BY <1>0, <1>2 DEF SplitRun
<1>4. <<>> \in Seq(T) /\ <<>> \in Seq(Seq(T)) /\ Len(<<>>) = 0
  BY EmptySeq
<1> DEFINE Whole(k) == \E q \in Seq(T) : v[k] = Append(<<>>, q) /\ Len(q) = k /\ \A i \in 1 .. k : q[i] = s[i]
           P == {k \in Nat : k <= n => Whole(k)}
<1>5. 0 \in P
  <2>1. v[0] = Append(<<>>, <<>>)
    BY <1>3, Tuple1, Zenon
  <2>2. PICK e : e = <<>>
    OBVIOUS
  <2>3. e \in Seq(T) /\ Len(e) = 0 /\ v[0] = Append(<<>>, e) /\ \A i \in 1 .. 0 : e[i] = s[i]
    BY <1>4, <2>1, <2>2
  <2>4. Whole(0)
    BY <2>3, Zenon
  <2> QED
    BY <2>4
<1>6. ASSUME NEW k \in Nat, k \in P PROVE k + 1 \in P
  <2> SUFFICES ASSUME k + 1 <= n PROVE Whole(k + 1)
    OBVIOUS
  <2>1. k + 1 \in 1 .. n /\ (k + 1) - 1 = k
    BY <1>1
  <2>2. PICK q \in Seq(T) : v[k] = Append(<<>>, q) /\ Len(q) = k /\ \A i \in 1 .. k : q[i] = s[i]
    BY <1>1, <1>6
  <2>3. PICK token : token = s[k + 1] /\ token \in T /\ token # sep
    BY <1>1, <2>1
  <2>4. v[k + 1] = SplitStep(Append(<<>>, q), token, sep)
    <3>1. v[k + 1] = SplitStep(v[(k + 1) - 1], s[k + 1], sep)
      BY <1>3, <2>1
    <3> QED
      BY <2>1, <2>2, <2>3, <3>1, Zenon
  <2>5. v[k + 1] = Append(<<>>, Append(q, token))
    <3>1. PICK p : p = <<>>
      OBVIOUS
    <3>2. p \in Seq(Seq(T)) /\ v[k + 1] = SplitStep(Append(p, q), token, sep)
      BY <1>4, <2>4, <3>1, Zenon
    <3>3. v[k + 1] = Append(p, Append(q, token))
      BY <2>3, <3>2, SplitStepIs
    <3> QED
      BY <3>1, <3>3
  <2>6. PICK t : t = Append(q, token)
    OBVIOUS
  <2>7. t \in Seq(T) /\ Len(t) = Len(q) + 1 /\ t[Len(q) + 1] = token /\ \A i \in 1 .. Len(q) : t[i] = q[i]
    BY <2>3, <2>6, AppendProperties
  <2>8. Len(t) = k + 1 /\ \A i \in 1 .. k + 1 : t[i] = s[i]
    BY <2>2, <2>3, <2>7
  <2> QED
    BY <2>5, <2>6, <2>7, <2>8
<1>7. Whole(n)
  <2> HIDE DEF P
  <2>1. n \in P
    BY <1>1, <1>5, <1>6, NatInduct
  <2> HIDE DEF Whole
  <2> QED
    BY <1>1, <2>1 DEF P
<1>8. PICK q \in Seq(T) : v[n] = Append(<<>>, q) /\ Len(q) = n /\ \A i \in 1 .. n : q[i] = s[i]
  BY <1>7
<1>9. q = s
  BY <1>0, <1>8, SeqEqual
<1> QED
  BY <1>3, <1>8, <1>9, Tuple1, Zenon

\* A number or no limit, as it is printed and read.
LEMMA AmountIs ==
  \A t \in Amounts : /\ t = Unlimited \/ (t # Unlimited /\ t.num \in Nat /\ t = Num(t.num))
                     /\ t # Comma
<1> SUFFICES ASSUME NEW t \in Amounts
             PROVE  (t = Unlimited \/ (t # Unlimited /\ t.num \in Nat /\ t = Num(t.num))) /\ t # Comma
  OBVIOUS
<1>1. CASE t \in Seconds
  <2>1. t.num \in Nat /\ t = Num(t.num) /\ t # Unlimited
    BY <1>1, SecondsIs
  <2> QED
    BY <2>1, NumNotSeparator
<1>2. CASE t = Unlimited
  <2>1. "UNLIMITED" # ","
    BY Zenon
  <2> QED
    BY <1>2, <2>1, Separators, Zenon
<1> QED
  BY <1>1, <1>2 DEF Amounts

LEMMA AmountRead ==
  ASSUME NEW t \in Amounts, NEW b, NEW n, NEW k, NEW key, IsField(b, n, k, key), b[k].text = <<t>>, NEW instead
  PROVE  Limit(b, key, instead) = IF t = Unlimited THEN instead ELSE Parsed(t.num)
<1>1. key \in Keys(b)
  BY OnlyField
<1>2. PICK text : text = <<t>>
  OBVIOUS
<1>3. First(b, key) = text
  <2>1. First(b, key) = Split(<<t>>, Comma)[1]
    <3>1. First(b, key) = Split(b[k].text, Comma)[1]
      BY OnlyFirst
    <3> QED
      BY <3>1, Zenon
  <2>2. Split(<<t>>, Comma) = <<text>>
    BY <1>2, AmountIs, SplitOne, Zenon
  <2> QED
    BY <2>1, <2>2
<1>4. text = <<Unlimited>> <=> t = Unlimited
  BY <1>2
<1>5. CASE t = Unlimited
  BY <1>1, <1>3, <1>4, <1>5, Zenon DEF Limit
<1>6. CASE t # Unlimited
  <2>1. ~(key \notin Keys(b)) /\ ~(key \in Keys(b) /\ First(b, key) = <<Unlimited>>)
    BY <1>1, <1>3, <1>4, <1>6, Zenon
  <2>2. Limit(b, key, instead) = ParseInt(First(b, key))
    BY <2>1, Zenon DEF Limit
  <2>3. t = Num(t.num) /\ t.num \in Nat
    BY <1>6, AmountIs
  <2>4. Len(text) = 1 /\ text[1] = t /\ IsNum(t)
    BY <1>2, <2>3, NumIs
  <2>5. ParseInt(text) = Parsed(t.num)
    BY <2>4 DEF ParseInt
  <2> QED
    BY <1>3, <1>6, <2>2, <2>5
<1> QED
  BY <1>5, <1>6

LEMMA TotalRead ==
  ASSUME NEW t \in Nat, NEW b, NEW n, NEW k, NEW key, IsField(b, n, k, key), b[k].text = <<Num(t)>>
  PROVE  TotalOf(b, key) = Parsed(t)
<1>1. key \in Keys(b)
  BY OnlyField
<1>2. PICK text : text = <<Num(t)>>
  OBVIOUS
<1>3. First(b, key) = text
  <2>1. First(b, key) = Split(<<Num(t)>>, Comma)[1]
    <3>1. First(b, key) = Split(b[k].text, Comma)[1]
      BY OnlyFirst
    <3> QED
      BY <3>1, Zenon
  <2>2. Split(<<Num(t)>>, Comma) = <<text>>
    BY <1>2, NumNotSeparator, SplitOne, Zenon
  <2> QED
    BY <2>1, <2>2
<1>4. Len(text) = 1 /\ IsNum(text[1]) /\ text[1].num = t
  BY <1>2, NumIs
<1>5. ParseInt(text) = Parsed(t)
  BY <1>4 DEF ParseInt
<1> QED
  BY <1>1, <1>3, <1>5, Zenon DEF TotalOf

LEMMA TimePlain ==
  ASSUME NEW t \in Amounts PROVE Split(TimeText(t), Comma) = <<TimeText(t)>>
<1>0. ":" # "," /\ "-" # "," /\ "" # ","
  BY Zenon
<1>1. CASE ~IsNum(t)
  <2>1. TimeText(t) = <<t>>
    BY <1>1, Zenon DEF TimeText
  <2>2. t # Comma
    BY AmountIs
  <2>3. Split(<<t>>, Comma) = <<<<t>>>>
    BY <2>2, SplitOne, Zenon
  <2> QED
    BY <2>1, <2>3, Zenon
<1>2. CASE IsNum(t)
  <2>1. PICK w, x, y, z, c, d : /\ w = Num(t.num \div Day) /\ x = Num((t.num % Day) \div Hour)
                                /\ y = Num((t.num % Hour) \div Minute) /\ z = Num(t.num % Minute)
                                /\ c = Colon /\ d = Dash
    BY Zenon
  <2>2. w # Comma /\ x # Comma /\ y # Comma /\ z # Comma
    <3>1. \A n : Num(n).word = ""
      BY DEF Num
    <3> QED
      BY <1>0, <2>1, <3>1, Separators, Zenon
  <2>3. c # Comma /\ d # Comma
    BY <1>0, <2>1, Separators, Zenon
  <2>4. PICK T, s, u : T = {w, x, y, z, c, d} /\ s = <<x, c, y, c, z>> /\ u = <<w, d, x, c, y, c, z>>
    OBVIOUS
  <2>5. s \in Seq(T) /\ u \in Seq(T) /\ Len(s) = 5 /\ Len(u) = 7
    BY <2>4
  <2>6. (\A i \in 1 .. 5 : s[i] # Comma) /\ \A i \in 1 .. 7 : u[i] # Comma
    BY <2>2, <2>3, <2>4
  <2>7. TimeText(t) = s \/ TimeText(t) = u
    <3>1. TimeText(t) = s \/ TimeText(t) = <<w, d>> \o s
      BY <1>2, <2>1, <2>4, Zenon DEF TimeText
    <3>2. <<w, d>> \o s = u
      <4>1. <<w, d>> \o <<x, c, y, c, z>> = <<w, d, x, c, y, c, z>>
        BY ConcatClock
      <4> QED
        BY <2>4, <4>1
    <3> QED
      BY <3>1, <3>2
  <2>8. Split(s, Comma) = <<s>> /\ Split(u, Comma) = <<u>>
    BY <2>5, <2>6, SplitsWhole
  <2> QED
    BY <2>7, <2>8, Zenon
<1> QED
  BY <1>1, <1>2

LEMMA TimeRead ==
  ASSUME NEW t \in Amounts, NEW d, d = ParseDuration(TimeText(t))
  PROVE  d.kind # "invalid" /\ d.value = IF t = Unlimited THEN 0 ELSE t.num
<1>1. CASE t = Unlimited
  <2>1. "UNLIMITED" # "" /\ "unlimited" # "invalid"
    BY Zenon
  <2>2. ~IsNum(t)
    BY <1>1, <2>1, Separators, Zenon DEF IsNum
  <2>3. TimeText(t) = <<Unlimited>>
    BY <1>1, <2>2, Zenon DEF TimeText
  <2>4. d = ErrDurationIsUnlimited
    BY <2>3 DEF ParseDuration
  <2> QED
    BY <1>1, <2>1, <2>4 DEF ErrDurationIsUnlimited
<1>2. CASE t # Unlimited
  <2>1. t = Num(t.num) /\ t.num \in Nat
    BY <1>2, AmountIs
  <2>2. d = Duration(t.num)
    BY <2>1, TimeParsed, Zenon
  <2> QED
    BY <1>2, <2>2 DEF Duration
<1> QED
  BY <1>1, <1>2

\* What PartitionTold says of the limits.
ResourcesTold(a) ==
  LET list == a.list
      Bound(limit, instead) == IF limit = Unlimited THEN instead ELSE limit.num
  IN  /\ a.ok
      /\ \A f \in DOMAIN list : ~Automatic(f) => list[f] = config.value[f]
      /\ Automatic("CPUPerNode") => list["CPUPerNode"] = Bound(limits.MaxCPUsPerNode, limits.TotalCPUs)
      /\ Automatic("WallTime") => list["WallTime"] = Bound(limits.MaxTime, 0)
      /\ Automatic("MemPerNode") /\ limits.MemKey = "MaxMemPerNode" =>
           list["MemPerNode"] = Bound(limits.MaxMem, -1)

\* The limits as the agent parses them.
LEMMA LimitsRead ==
  ASSUME NEW hosts, IsFiniteSet(hosts), NEW l \in PartitionLimits, NEW b, b = ShowPartition(hosts, l),
         NEW r, r = parseResources(b)
  PROVE  /\ DOMAIN r = {"Nodes", "CPUPerNode", "MemPerNode", "WallTime"} /\ \A f \in DOMAIN r : r[f].ok
         /\ r["CPUPerNode"].value = IF l.MaxCPUsPerNode = Unlimited THEN l.TotalCPUs ELSE l.MaxCPUsPerNode.num
         /\ r["WallTime"].value = IF l.MaxTime = Unlimited THEN 0 ELSE l.MaxTime.num
         /\ l.MemKey = "MaxMemPerNode" =>
              r["MemPerNode"].value = IF l.MaxMem = Unlimited THEN -1 ELSE l.MaxMem.num
<1>1. /\ l.MaxNodes \in Amounts /\ l.MaxTime \in Amounts /\ l.MaxCPUsPerNode \in Amounts /\ l.MaxMem \in Amounts
      /\ l.TotalCPUs \in Nat /\ Cardinality(hosts) \in Nat
  BY FS_CardinalityType DEF PartitionLimits
<1>2. IsPartition(b, hosts, l)
  BY PartitionFields
<1>3. \A n : Parsed(n).ok /\ Parsed(n).value = n
  BY DEF Parsed
<1>4. TotalOf(b, "TotalCPUs") = Parsed(l.TotalCPUs) /\ TotalOf(b, "TotalNodes") = Parsed(Cardinality(hosts))
  BY <1>1, <1>2, TotalRead DEF IsPartition
<1>5. PICK nodes, cpus, mem, time, wall :
         /\ nodes = Limit(b, "MaxNodes", TotalOf(b, "TotalNodes"))
         /\ cpus = Limit(b, "MaxCPUsPerNode", TotalOf(b, "TotalCPUs"))
         /\ mem = Limit(b, "MaxMemPerNode", Parsed(-1))
         /\ time = ParseDuration(First(b, "MaxTime"))
         /\ wall = [ok |-> time.kind # "invalid", value |-> time.value]
  BY Zenon
<1>6. r = [Nodes |-> nodes, CPUPerNode |-> cpus, MemPerNode |-> mem, WallTime |-> wall]
  BY <1>5, Zenon DEF parseResources
<1>7. nodes.ok
  <2>1. nodes = IF l.MaxNodes = Unlimited THEN TotalOf(b, "TotalNodes") ELSE Parsed(l.MaxNodes.num)
    BY <1>1, <1>2, <1>5, AmountRead DEF IsPartition
  <2> QED
    BY <1>3, <1>4, <2>1, Zenon
<1>8. cpus.ok /\ cpus.value = IF l.MaxCPUsPerNode = Unlimited THEN l.TotalCPUs ELSE l.MaxCPUsPerNode.num
  <2>1. cpus = IF l.MaxCPUsPerNode = Unlimited THEN TotalOf(b, "TotalCPUs") ELSE Parsed(l.MaxCPUsPerNode.num)
    BY <1>1, <1>2, <1>5, AmountRead DEF IsPartition
  <2> QED
    BY <1>3, <1>4, <2>1, Zenon
<1>9. /\ mem.ok
      /\ l.MemKey = "MaxMemPerNode" => mem.value = IF l.MaxMem = Unlimited THEN -1 ELSE l.MaxMem.num
  <2>1. CASE l.MemKey = "MaxMemPerNode"
    <3>1. IsField(b, 9, 8, "MaxMemPerNode") /\ b[8].text = <<l.MaxMem>>
      BY <1>2, <2>1, Zenon DEF IsPartition
    <3>2. mem = IF l.MaxMem = Unlimited THEN Parsed(-1) ELSE Parsed(l.MaxMem.num)
      BY <1>1, <1>5, <3>1, AmountRead
    <3> QED
      BY <1>3, <3>2
  <2>2. CASE l.MemKey # "MaxMemPerNode"
    <3>1. "MaxMemPerNode" \notin Keys(b)
      BY <1>2, <2>2, Zenon DEF IsPartition
    <3>2. mem = Parsed(0)
      BY <1>5, <3>1 DEF Limit
    <3> QED
      BY <1>3, <2>2, <3>2
  <2> QED
    BY <2>1, <2>2
<1>10. wall.ok /\ wall.value = IF l.MaxTime = Unlimited THEN 0 ELSE l.MaxTime.num
  <2>1. IsField(b, 9, 3, "MaxTime") /\ b[3].text = TimeText(l.MaxTime)
    BY <1>2, Zenon DEF IsPartition
  <2>2. PICK text : text = TimeText(l.MaxTime)
    OBVIOUS
  <2>3. First(b, "MaxTime") = Split(b[3].text, Comma)[1]
    BY <2>1, OnlyFirst
  <2>4. Split(text, Comma) = <<text>>
    BY <1>1, <2>2, TimePlain, Zenon
  <2>5. First(b, "MaxTime") = text
    BY <2>1, <2>2, <2>3, <2>4
  <2>6. time = ParseDuration(TimeText(l.MaxTime))
    BY <1>5, <2>2, <2>5, Zenon
  <2>7. time.kind # "invalid" /\ time.value = IF l.MaxTime = Unlimited THEN 0 ELSE l.MaxTime.num
    BY <1>1, <2>6, TimeRead
  <2> QED
    BY <1>5, <2>7
<1> QED
  BY <1>6, <1>7, <1>8, <1>9, <1>10

LEMMA ResourcesAre ==
  ASSUME NEW hosts, IsFiniteSet(hosts), limits \in PartitionLimits
  PROVE  ResourcesTold(Resources(ShowPartition(hosts, limits)))
<1>1. PICK b, r, l : b = ShowPartition(hosts, limits) /\ r = parseResources(b) /\ l = limits
  OBVIOUS
<1>2. /\ DOMAIN r = {"Nodes", "CPUPerNode", "MemPerNode", "WallTime"} /\ \A f \in DOMAIN r : r[f].ok
      /\ r["CPUPerNode"].value = IF l.MaxCPUsPerNode = Unlimited THEN l.TotalCPUs ELSE l.MaxCPUsPerNode.num
      /\ r["WallTime"].value = IF l.MaxTime = Unlimited THEN 0 ELSE l.MaxTime.num
      /\ l.MemKey = "MaxMemPerNode" =>
           r["MemPerNode"].value = IF l.MaxMem = Unlimited THEN -1 ELSE l.MaxMem.num
  BY <1>1, LimitsRead
<1>3. PICK list : list = [f \in DOMAIN r |-> IF Automatic(f) THEN r[f].value ELSE config.value[f]]
  OBVIOUS
<1>4. PICK a : a = Resources(b)
  OBVIOUS
<1>5. a = [ok |-> TRUE, list |-> list]
  BY <1>1, <1>2, <1>3, <1>4, Zenon DEF Resources
<1>6. a.ok /\ a.list = list
  BY <1>5
<1>7. /\ \A f \in DOMAIN list : ~Automatic(f) => list[f] = config.value[f]
      /\ \A f \in DOMAIN r : Automatic(f) => list[f] = r[f].value
  BY <1>3
<1>8. "CPUPerNode" \in DOMAIN r /\ "WallTime" \in DOMAIN r /\ "MemPerNode" \in DOMAIN r
  BY <1>2
<1>9. ResourcesTold(a)
  BY <1>1, <1>2, <1>6, <1>7, <1>8, Zenon DEF ResourcesTold
<1> QED
  BY <1>1, <1>4, <1>9

\* The names of partitions, each once.
NamesTold(names) ==
  /\ ToSet(names) = IF partitions = {} THEN {""} ELSE partitions
  /\ Len(names) = Cardinality(ToSet(names))

LEMMA ListOf ==
  \A S : \A n \in Nat : \A s \in [1 .. n -> S] : s \in Seq(S) /\ Len(s) = n
  OBVIOUS

LEMMA PartitionNamesAre ==
  ASSUME IsFiniteSet(partitions) PROVE NamesTold(PartitionNames)
<1>1. PICK names : names = PartitionNames
  OBVIOUS
<1>2. CASE partitions = {}
  <2>1. PICK f, block, blocks : f = [key |-> "No", eqs |-> 0, text |-> <<>>] /\ block = <<f>> /\ blocks = <<block>>
    OBVIOUS
  <2>2. ShowPartitions = blocks
    BY <1>2, <2>1, Zenon DEF ShowPartitions
  <2>3. DOMAIN block = {1} /\ block[1] = f /\ f.eqs = 0 /\ DOMAIN blocks = {1} /\ blocks[1] = block
    BY <2>1
  <2>4. Keys(block) = {}
    BY <2>3 DEF Keys
  <2>5. names = [i \in {1} |-> IF "PartitionName" \in Keys(blocks[i]) THEN Get(blocks[i], "PartitionName")[1].word ELSE ""]
    BY <1>1, <2>2, <2>3, Zenon DEF PartitionNames, parsePartitionsNames
  <2>6. DOMAIN names = {1} /\ names[1] = ""
    BY <2>3, <2>4, <2>5
  <2>7. names \in [1 .. 1 -> {""}]
    <3>1. names = [i \in {1} |-> ""]
      BY <2>3, <2>4, <2>5, Zenon
    <3>2. {1} = 1 .. 1
      OBVIOUS
    <3>3. names \in [{1} -> {""}]
      BY <3>1, Zenon
    <3> QED
      BY <3>2, <3>3, Zenon
  <2>8. Len(names) = 1 /\ ToSet(names) = {""}
    <3>1. names \in Seq({""}) /\ Len(names) = 1
      BY <2>7, ListOf, 1 \in Nat, Zenon
    <3>2. \A i \in DOMAIN names : names[i] = ""
      BY <2>6, Zenon
    <3>3. ToSet(names) = {names[i] : i \in DOMAIN names}
      BY Zenon DEF ToSet
    <3> QED
      BY <2>6, <3>1, <3>3
  <2> QED
    BY <1>1, <1>2, <2>8, FS_Singleton DEF NamesTold
<1>3. CASE partitions # {}
  <2>1. PICK list, n : list = SetToSeq(partitions) /\ n = Cardinality(partitions)
    OBVIOUS
  <2>2. /\ n \in Nat /\ list \in [1 .. n -> partitions] /\ DOMAIN list = 1 .. n
        /\ \A x \in partitions : \E i \in 1 .. n : list[i] = x
    BY <2>1, SetToSeqIs
  <2>3. PICK blocks : blocks = [i \in DOMAIN list |-> <<Field("PartitionName", <<Word(list[i])>>), Nested("TRES")>>]
    OBVIOUS
  <2>4. ShowPartitions = blocks
    BY <1>3, <2>1, <2>3, Zenon DEF ShowPartitions
  <2>5. ASSUME NEW i \in 1 .. n
        PROVE  /\ "PartitionName" \in Keys(blocks[i])
               /\ Get(blocks[i], "PartitionName")[1].word = list[i]
    <3>1. PICK b, f, g : b = blocks[i] /\ f = Field("PartitionName", <<Word(list[i])>>) /\ g = Nested("TRES")
      OBVIOUS
    <3>2. b = <<f, g>>
      BY <2>2, <2>3, <3>1
    <3>3. DOMAIN b = 1 .. 2 /\ b[1] = f /\ b[2] = g
      BY <3>2
    <3>4. f.key = "PartitionName" /\ f.eqs = 1 /\ f.text = <<Word(list[i])>> /\ g.key = "TRES"
      BY <3>1, FieldIs, NestedIs
    <3>5. IsField(b, 2, 1, "PartitionName")
      BY <3>3, <3>4 DEF IsField
    <3>6. "PartitionName" \in Keys(b) /\ Get(b, "PartitionName") = <<Word(list[i])>>
      BY <3>3, <3>4, <3>5, OnlyField
    <3>7. <<Word(list[i])>>[1] = Word(list[i])
      BY Single, Zenon
    <3> QED
      BY <3>1, <3>6, <3>7, WordIs, Zenon
  <2>6. DOMAIN blocks = 1 .. n
    BY <2>2, <2>3
  <2>7. names = [i \in 1 .. n |-> IF "PartitionName" \in Keys(blocks[i]) THEN Get(blocks[i], "PartitionName")[1].word ELSE ""]
    BY <1>1, <2>4, <2>6, Zenon DEF PartitionNames, parsePartitionsNames
  <2>8. DOMAIN names = 1 .. n /\ \A i \in 1 .. n : names[i] = list[i]
    BY <2>5, <2>7
  <2>9. names \in Seq(partitions) /\ Len(names) = n
    <3>1. names = [i \in 1 .. n |-> list[i]]
      BY <2>5, <2>7, Zenon
    <3>2. names \in [1 .. n -> partitions]
      BY <2>2, <3>1
    <3> QED
      BY <2>2, <2>8, <3>2
  <2>10. ToSet(names) = partitions
    BY <2>2, <2>8 DEF ToSet
  <2> QED
    BY <1>1, <1>3, <2>1, <2>9, <2>10, Zenon DEF NamesTold
<1> QED
  BY <1>2, <1>3

\* An answer to the questions for the capacity of the hosts, and to the others.
CapacityGiven(a, hosts) ==
  /\ a.ok => hosts # {} /\ a.list = CapacityOf(hosts)
  /\ ~a.ok => a.why = "call" \/ hosts = {}
NamesGiven(a) == (a.ok => NamesTold(a.list)) /\ (~a.ok => a.why = "call")
ResourcesGiven(a) == (a.ok => ResourcesTold(a)) /\ (~a.ok => a.why = "call")

\* What has been told of the partition, and what the kubelet made of it.
NodeInv ==
  /\ limits \in PartitionLimits /\ partitions \in SUBSET Names
  /\ members \in SUBSET DOMAIN Hosts /\ asked \in SUBSET DOMAIN Hosts
  /\ "hosts" \in DOMAIN replies =>
       /\ kubelet \in {"starting", "refreshing"}
       /\ replies["hosts"] = parsePartition(ShowPartition(asked, limits))
  /\ "capacity" \in DOMAIN replies =>
       /\ kubelet \in {"starting", "refreshing"}
       /\ CapacityGiven(replies["capacity"], asked)
  /\ kubelet \in {"running", "refreshing", "refreshed", "kept"} =>
       served # {} /\ advertised = CapacityOf(served)
  /\ kubelet \in {"running", "refreshed"} => served = asked
  /\ "names" \in DOMAIN replies => NamesGiven(replies["names"])
  /\ "resources" \in DOMAIN replies => ResourcesGiven(replies["resources"])

\* What the invariant says of the kubelet alone.
KubeletTold ==
  /\ kubelet \in {"running", "refreshing", "refreshed", "kept"} =>
       served # {} /\ advertised = CapacityOf(served)
  /\ kubelet \in {"running", "refreshed"} => served = asked

\* The reply to QueryNodes.
Capacity(r) == IF r.ok THEN [ok |-> TRUE, list |-> GetPartitionCapacity(r.nodes)] ELSE Error

LEMMA CapacityReply ==
  ASSUME NEW hosts \in SUBSET DOMAIN Hosts, NEW l \in PartitionLimits,
         NEW a, a = Capacity(Nodes(parsePartition(ShowPartition(hosts, l))))
  PROVE  CapacityGiven(a, hosts)
<1>1. PICK r : r = Nodes(parsePartition(ShowPartition(hosts, l)))
  OBVIOUS
<1>2. (r.ok <=> hosts # {}) /\ (r.ok => GetPartitionCapacity(r.nodes) = CapacityOf(hosts))
  BY <1>1, NodesTold
<1>3. a = IF r.ok THEN [ok |-> TRUE, list |-> GetPartitionCapacity(r.nodes)] ELSE Error
  BY <1>1, Zenon DEF Capacity
<1>4. PICK c : c = GetPartitionCapacity(r.nodes)
  OBVIOUS
<1>5. CASE r.ok
  <2>1. a = [ok |-> TRUE, list |-> c]
    BY <1>3, <1>4, <1>5, Zenon
  <2>2. a.ok = TRUE /\ a.list = c
    BY <2>1
  <2> QED
    BY <1>2, <1>4, <1>5, <2>2, Zenon DEF CapacityGiven
<1>6. CASE ~r.ok
  <2>1. a = Error
    BY <1>3, <1>6, Zenon
  <2>2. ~a.ok
    BY <2>1 DEF Error
  <2> QED
    BY <1>2, <1>6, <2>2, Zenon DEF CapacityGiven
<1> QED
  BY <1>5, <1>6

\* A call that fails is an answer to every question.
LEMMA FailedGiven ==
  /\ \A hosts : CapacityGiven(CallFailed, hosts)
  /\ NamesGiven(CallFailed) /\ ResourcesGiven(CallFailed)
<1>1. CallFailed.ok = FALSE /\ CallFailed.why = "call"
  BY DEF CallFailed
<1> QED
  BY <1>1, Zenon DEF CapacityGiven, NamesGiven, ResourcesGiven

\* The words for the state of the kubelet, and the queries, are different ones.
LEMMA NodeWords ==
  /\ "starting" # "running" /\ "starting" # "refreshing" /\ "starting" # "refreshed" /\ "starting" # "kept"
  /\ "exited" # "running" /\ "exited" # "refreshing" /\ "exited" # "refreshed" /\ "exited" # "kept"
  /\ "refreshing" # "running" /\ "refreshing" # "refreshed" /\ "kept" # "running" /\ "kept" # "refreshed"
  /\ "running" # "refreshed"
  /\ "hosts" # "capacity" /\ "hosts" # "names" /\ "hosts" # "resources"
  /\ "capacity" # "names" /\ "capacity" # "resources"
  BY Zenon

LEMMA NodeInit == OutputInit => NodeInv
<1> SUFFICES ASSUME OutputInit PROVE NodeInv
  OBVIOUS
<1>1. replies = <<>> /\ kubelet = "starting" /\ asked = {} /\ limits \in PartitionLimits
      /\ partitions \in SUBSET Names /\ members \in SUBSET DOMAIN Hosts
  BY LimitsAssumption, Zenon DEF OutputInit
<1>2. DOMAIN replies = {}
  BY <1>1
<1>3. kubelet \notin {"running", "refreshing", "refreshed", "kept"} /\ kubelet \notin {"running", "refreshed"}
  BY <1>1, NodeWords, Zenon
<1> QED
  BY <1>1, <1>2, <1>3, Zenon DEF NodeInv

\* What is told of the partition does not change with what is kept.
LEMMA GivenKept ==
  ASSUME limits' = limits, partitions' = partitions, config' = config,
         "names" \in DOMAIN replies' => NamesGiven(replies'["names"]),
         "resources" \in DOMAIN replies' => ResourcesGiven(replies'["resources"])
  PROVE  /\ "names" \in DOMAIN replies' => NamesGiven(replies["names"])'
         /\ "resources" \in DOMAIN replies' => ResourcesGiven(replies["resources"])'
  BY DEF NamesGiven, ResourcesGiven, NamesTold, ResourcesTold, Automatic

\* A step that only adds a reply to a query about the partition itself or about jobs.
LEMMA QueryKeepsNode ==
  ASSUME NodeInv, NEW key \in {"info", "steps", "names", "resources"}, NEW answer, Reply(key, answer),
         SlurmUnchanged, UNCHANGED nodeVars,
         key = "names" => NamesGiven(answer), key = "resources" => ResourcesGiven(answer)
  PROVE  NodeInv'
<1>0. key # "hosts" /\ key # "capacity"
  BY Zenon
<1>1. /\ limits' = limits /\ partitions' = partitions /\ members' = members /\ config' = config
      /\ kubelet' = kubelet /\ advertised' = advertised /\ asked' = asked /\ served' = served
  BY DEF SlurmUnchanged, nodeVars
<1>2. /\ DOMAIN replies' = DOMAIN replies \cup {key}
      /\ \A k \in DOMAIN replies' : replies'[k] = IF k = key THEN answer ELSE replies[k]
  BY ReplyKeeps
<1>3. /\ "hosts" \in DOMAIN replies' => "hosts" \in DOMAIN replies /\ replies'["hosts"] = replies["hosts"]
      /\ "capacity" \in DOMAIN replies' => "capacity" \in DOMAIN replies /\ replies'["capacity"] = replies["capacity"]
  BY <1>0, <1>2, Zenon
<1>4. /\ "names" \in DOMAIN replies' => NamesGiven(replies'["names"])
      /\ "resources" \in DOMAIN replies' => ResourcesGiven(replies'["resources"])
  BY <1>2, Zenon DEF NodeInv
<1>5. /\ "names" \in DOMAIN replies' => NamesGiven(replies["names"])'
      /\ "resources" \in DOMAIN replies' => ResourcesGiven(replies["resources"])'
  BY <1>1, <1>4, GivenKept
<1> QED
  BY <1>1, <1>3, <1>5, Zenon DEF NodeInv

LEMMA QueryPartitionKeeps == NodeInv /\ QueryPartition => NodeInv'
<1> SUFFICES ASSUME NodeInv, QueryPartition PROVE NodeInv'
  OBVIOUS
<1>1. /\ limits' = limits /\ partitions' = partitions /\ members' = members /\ config' = config
      /\ kubelet' = kubelet /\ advertised' = advertised /\ asked' = members /\ served' = served
      /\ kubelet \in {"starting", "refreshing"} /\ "capacity" \notin DOMAIN replies
  BY DEF QueryPartition, Asking, SlurmUnchanged, Unasked
<1>2. /\ DOMAIN replies' = DOMAIN replies \cup {"hosts"}
      /\ \A k \in DOMAIN replies' : replies'[k] = IF k = "hosts" THEN PartitionHosts ELSE replies[k]
  BY ReplyKeeps DEF QueryPartition
<1>3. "capacity" \notin DOMAIN replies'
  BY <1>1, <1>2, NodeWords, Zenon
<1>4. replies'["hosts"] = PartitionHosts /\ PartitionHosts = parsePartition(ShowPartition(members, limits))
  BY <1>2, Zenon DEF PartitionHosts
<1>5. kubelet \notin {"running", "refreshed"}
  BY <1>1, NodeWords, Zenon
<1>6. /\ "names" \in DOMAIN replies' => NamesGiven(replies'["names"])
      /\ "resources" \in DOMAIN replies' => ResourcesGiven(replies'["resources"])
  BY <1>2, NodeWords, Zenon DEF NodeInv
<1>7. /\ "names" \in DOMAIN replies' => NamesGiven(replies["names"])'
      /\ "resources" \in DOMAIN replies' => ResourcesGiven(replies["resources"])'
  BY <1>1, <1>6, GivenKept
<1> QED
  BY <1>1, <1>3, <1>4, <1>5, <1>7, Zenon DEF NodeInv

\* An answer to GetPartitionCapacity, from either question.
LEMMA CapacityKeeps ==
  ASSUME NodeInv, Asking, NEW a, Reply("capacity", a), CapacityGiven(a, asked), SlurmUnchanged, UNCHANGED nodeVars
  PROVE  NodeInv'
<1>1. /\ limits' = limits /\ partitions' = partitions /\ members' = members /\ config' = config
      /\ kubelet' = kubelet /\ advertised' = advertised /\ asked' = asked /\ served' = served
      /\ kubelet \in {"starting", "refreshing"}
  BY DEF Asking, SlurmUnchanged, nodeVars
<1>2. /\ DOMAIN replies' = DOMAIN replies \cup {"capacity"}
      /\ \A k \in DOMAIN replies' : replies'[k] = IF k = "capacity" THEN a ELSE replies[k]
  BY ReplyKeeps
<1>3. /\ "hosts" \in DOMAIN replies' => "hosts" \in DOMAIN replies /\ replies'["hosts"] = replies["hosts"]
      /\ replies'["capacity"] = a
      /\ "names" \in DOMAIN replies' => NamesGiven(replies'["names"])
      /\ "resources" \in DOMAIN replies' => ResourcesGiven(replies'["resources"])
  BY <1>2, NodeWords, Zenon DEF NodeInv
<1>4. /\ "names" \in DOMAIN replies' => NamesGiven(replies["names"])'
      /\ "resources" \in DOMAIN replies' => ResourcesGiven(replies["resources"])'
  BY <1>1, <1>3, GivenKept
<1> QED
  BY <1>1, <1>3, <1>4, Zenon DEF NodeInv

LEMMA QueryNodesKeeps == NodeInv /\ QueryNodes => NodeInv'
<1> SUFFICES ASSUME NodeInv, QueryNodes PROVE NodeInv'
  OBVIOUS
<1>1. "hosts" \in DOMAIN replies /\ Asking /\ SlurmUnchanged /\ UNCHANGED nodeVars
  BY Zenon DEF QueryNodes, Unasked
<1>2. PICK a : a = Capacity(Nodes(replies["hosts"]))
  OBVIOUS
<1>3. Reply("capacity", a)
  BY <1>2, Zenon DEF QueryNodes, Capacity
<1>4. a = Capacity(Nodes(parsePartition(ShowPartition(asked, limits))))
  BY <1>1, <1>2, Zenon DEF NodeInv
<1>5. asked \in SUBSET DOMAIN Hosts /\ limits \in PartitionLimits
  BY DEF NodeInv
<1>6. CapacityGiven(a, asked)
  BY <1>4, <1>5, CapacityReply
<1> QED
  BY <1>1, <1>3, <1>6, CapacityKeeps

LEMMA NewNodeKeeps == NodeInv /\ NewNodeOrDie => NodeInv'
<1> SUFFICES ASSUME NodeInv, NewNodeOrDie PROVE NodeInv'
  OBVIOUS
<1>1. PICK a : a = replies["capacity"]
  OBVIOUS
<1>2. /\ limits' = limits /\ partitions' = partitions /\ members' = members /\ config' = config /\ asked' = asked
      /\ "capacity" \in DOMAIN replies
      /\ advertised' = IF a.ok THEN a.list ELSE advertised
      /\ served' = IF a.ok THEN asked ELSE served
      /\ kubelet' = CASE kubelet = "refreshing" -> IF a.ok THEN "refreshed" ELSE "kept"
                      [] kubelet = "starting" /\ a.ok -> "running"
                      [] OTHER -> "exited"
      /\ replies' = Restrict(replies, DOMAIN replies \ {"hosts", "capacity"})
  BY <1>1 DEF NewNodeOrDie, SlurmUnchanged, Unasked
<1>3. /\ DOMAIN replies' = DOMAIN replies \ {"hosts", "capacity"}
      /\ \A k \in DOMAIN replies' : replies'[k] = replies[k]
  BY <1>2 DEF Restrict
<1>4. /\ "hosts" \notin DOMAIN replies' /\ "capacity" \notin DOMAIN replies'
      /\ "names" \in DOMAIN replies' => NamesGiven(replies'["names"])
      /\ "resources" \in DOMAIN replies' => ResourcesGiven(replies'["resources"])
  BY <1>3, NodeWords, Zenon DEF NodeInv
<1>5. /\ "names" \in DOMAIN replies' => NamesGiven(replies["names"])'
      /\ "resources" \in DOMAIN replies' => ResourcesGiven(replies["resources"])'
  BY <1>2, <1>4, GivenKept
<1>6. /\ kubelet \in {"starting", "refreshing"}
      /\ a.ok => asked # {} /\ a.list = CapacityOf(asked)
      /\ kubelet = "refreshing" => served # {} /\ advertised = CapacityOf(served)
  BY <1>1, <1>2, Zenon DEF NodeInv, CapacityGiven
<1>7. KubeletTold'
  <2>1. CASE a.ok
    <3>1. served' = asked' /\ served' # {} /\ advertised' = CapacityOf(served')
      BY <1>2, <1>6, <2>1, Zenon
    <3> QED
      BY <3>1, Zenon DEF KubeletTold, CapacityOf
  <2>2. CASE ~a.ok /\ kubelet = "refreshing"
    <3>1. kubelet' = "kept"
      BY <1>2, <2>2
    <3>2. served' # {} /\ advertised' = CapacityOf(served')
      BY <1>2, <1>6, <2>2, Zenon
    <3>3. kubelet' \notin {"running", "refreshed"}
      BY <3>1, NodeWords, Zenon
    <3> QED
      BY <3>2, <3>3, Zenon DEF KubeletTold
  <2>3. CASE ~a.ok /\ kubelet = "starting"
    <3>1. kubelet' = "exited"
      BY <1>2, <2>3
    <3>2. kubelet' \notin {"running", "refreshing", "refreshed", "kept"} /\ kubelet' \notin {"running", "refreshed"}
      BY <3>1, NodeWords, Zenon
    <3> QED
      BY <3>2, Zenon DEF KubeletTold
  <2> QED
    BY <1>6, <2>1, <2>2, <2>3, Zenon
<1>8. limits \in PartitionLimits /\ partitions \in SUBSET Names /\ members \in SUBSET DOMAIN Hosts /\ asked \in SUBSET DOMAIN Hosts
  BY DEF NodeInv
<1> QED
  BY <1>2, <1>4, <1>5, <1>7, <1>8, Zenon DEF NodeInv, KubeletTold

LEMMA OtherNodeSteps ==
  NodeInv /\ (NotifyNodeStatus \/ (\E hosts \in SUBSET DOMAIN Hosts : Reconfigure(hosts)) \/ UNCHANGED outputVars) => NodeInv'
<1>1. ASSUME NodeInv, NotifyNodeStatus PROVE NodeInv'
  <2>1. /\ limits' = limits /\ partitions' = partitions /\ members' = members /\ config' = config
        /\ kubelet = "running" /\ kubelet' = "refreshing" /\ advertised' = advertised /\ asked' = asked
        /\ replies' = replies /\ served' = served
    BY <1>1 DEF NotifyNodeStatus, SlurmUnchanged
  <2>2. served # {} /\ advertised = CapacityOf(served)
    BY <1>1, <2>1, Zenon DEF NodeInv
  <2>3. /\ "hosts" \notin DOMAIN replies' /\ "capacity" \notin DOMAIN replies'
        /\ "names" \in DOMAIN replies' => NamesGiven(replies'["names"])
        /\ "resources" \in DOMAIN replies' => ResourcesGiven(replies'["resources"])
    BY <1>1, <2>1, NodeWords, Zenon DEF NodeInv
  <2>4. /\ "names" \in DOMAIN replies' => NamesGiven(replies["names"])'
        /\ "resources" \in DOMAIN replies' => ResourcesGiven(replies["resources"])'
    BY <2>1, <2>3, GivenKept
  <2>5. kubelet' \notin {"running", "refreshed"}
    BY <2>1, NodeWords, Zenon
  <2>6. /\ limits \in PartitionLimits /\ partitions \in SUBSET Names
        /\ members \in SUBSET DOMAIN Hosts /\ asked \in SUBSET DOMAIN Hosts
    BY <1>1 DEF NodeInv
  <2> QED
    BY <2>1, <2>2, <2>3, <2>4, <2>5, <2>6, Zenon DEF NodeInv
<1>2. ASSUME NodeInv, NEW hosts \in SUBSET DOMAIN Hosts, Reconfigure(hosts) \/ UNCHANGED outputVars PROVE NodeInv'
  <2>1. /\ limits' = limits /\ partitions' = partitions /\ members' \in {members, hosts} /\ config' = config
        /\ kubelet' = kubelet /\ advertised' = advertised /\ asked' = asked
        /\ replies' = replies /\ served' = served
    BY <1>2 DEF Reconfigure, outputVars, nodeVars
  <2>2. /\ "names" \in DOMAIN replies' => NamesGiven(replies'["names"])
        /\ "resources" \in DOMAIN replies' => ResourcesGiven(replies'["resources"])
    BY <1>2, <2>1, Zenon DEF NodeInv
  <2>3. /\ "names" \in DOMAIN replies' => NamesGiven(replies["names"])'
        /\ "resources" \in DOMAIN replies' => ResourcesGiven(replies["resources"])'
    BY <2>1, <2>2, GivenKept
  <2>4. members' \in SUBSET DOMAIN Hosts
    BY <1>2, <2>1 DEF NodeInv
  <2> QED
    BY <1>2, <2>1, <2>3, <2>4, Zenon DEF NodeInv
<1> QED
  <2>1. {} \in SUBSET DOMAIN Hosts
    OBVIOUS
  <2> QED
    BY <1>1, <1>2, <2>1, Zenon

LEMMA NodeStep == NodeInv /\ [QueryNext \/ NodeNext]_outputVars => NodeInv'
<1> SUFFICES ASSUME NodeInv, [QueryNext \/ NodeNext]_outputVars PROVE NodeInv'
  OBVIOUS
<1>1. CASE QueryJobInfo
  <2>1. PICK a : a = JobInfo([i \in DOMAIN jobs |-> ShowJob(jobs[i])])
    OBVIOUS
  <2>2. Reply("info", a) /\ SlurmUnchanged /\ UNCHANGED nodeVars
    BY <1>1, <2>1, Zenon DEF QueryJobInfo
  <2> QED
    BY <2>2, QueryKeepsNode
<1>2. CASE QueryJobSteps
  <2>1. PICK a : a = IF SJobSteps.ok THEN [SJobSteps EXCEPT !.steps = toProtoSteps(@)] ELSE Error
    OBVIOUS
  <2>2. Reply("steps", a) /\ SlurmUnchanged /\ UNCHANGED nodeVars
    BY <1>2, <2>1 DEF QueryJobSteps
  <2> QED
    BY <2>2, QueryKeepsNode
<1>3. CASE QueryPartitions
  <2>1. PICK a, names : names = PartitionNames /\ a = [ok |-> TRUE, list |-> names]
    OBVIOUS
  <2>2. Reply("names", a) /\ SlurmUnchanged /\ UNCHANGED nodeVars
    BY <1>3, <2>1, Zenon DEF QueryPartitions
  <2>3. IsFiniteSet(partitions)
    BY NamesAssumption, FS_Subset DEF NodeInv
  <2>4. NamesTold(names)
    BY <2>1, <2>3, PartitionNamesAre
  <2>5. a.ok = TRUE /\ a.list = names
    BY <2>1
  <2>6. NamesGiven(a)
    BY <2>4, <2>5, Zenon DEF NamesGiven
  <2> QED
    BY <2>2, <2>6, QueryKeepsNode
<1>4. CASE QueryResources
  <2>1. PICK a : a = Resources(ShowPartition(members, limits))
    OBVIOUS
  <2>2. Reply("resources", a) /\ SlurmUnchanged /\ UNCHANGED nodeVars
    BY <1>4, <2>1, Zenon DEF QueryResources
  <2>3. IsFiniteSet(members) /\ limits \in PartitionLimits
    BY HostsAssumption, FS_Subset DEF NodeInv
  <2>4. ResourcesTold(a)
    BY <2>1, <2>3, ResourcesAre
  <2>5. ResourcesGiven(a)
    BY <2>4, Zenon DEF ResourcesGiven, ResourcesTold
  <2> QED
    BY <2>2, <2>5, QueryKeepsNode
<1>5. ASSUME NEW key \in {"info", "steps", "names", "resources"}, QueryFails(key) PROVE NodeInv'
  <2>1. Reply(key, CallFailed) /\ SlurmUnchanged /\ UNCHANGED nodeVars
    BY <1>5 DEF QueryFails
  <2> QED
    BY <2>1, FailedGiven, QueryKeepsNode
<1>6. CASE CapacityFails
  <2>1. Asking /\ Reply("capacity", CallFailed) /\ SlurmUnchanged /\ UNCHANGED nodeVars
    BY <1>6 DEF CapacityFails, QueryFails
  <2>2. CapacityGiven(CallFailed, asked)
    BY FailedGiven, Zenon
  <2> QED
    BY <2>1, <2>2, CapacityKeeps
<1> QED
  BY <1>1, <1>2, <1>3, <1>4, <1>5, <1>6, QueryPartitionKeeps, QueryNodesKeeps, NewNodeKeeps, OtherNodeSteps, Zenon
     DEF QueryNext, NodeNext

LEMMA NodeTold == NodeInv => PartitionTold
<1> SUFFICES ASSUME NodeInv PROVE PartitionTold
  OBVIOUS
<1>1. ~Unasked("names") => NamesGiven(replies["names"])
  BY DEF NodeInv, Unasked
<1>2. ~Unasked("resources") => ResourcesGiven(replies["resources"])
  BY DEF NodeInv, Unasked
<1>3. ~Unasked("capacity") => CapacityGiven(replies["capacity"], asked)
  BY DEF NodeInv, Unasked
<1>4. /\ Answered("names") => NamesTold(replies["names"].list)
      /\ OnlyCallFails("names") /\ OnlyCallFails("resources")
      /\ Answered("resources") => ResourcesTold(replies["resources"])
      /\ Answered("capacity") => replies["capacity"].list = CapacityOf(asked)
      /\ OnlyCallFails("capacity") \/ asked = {}
  BY <1>1, <1>2, <1>3, Zenon DEF Answered, Refused, OnlyCallFails, NamesGiven, ResourcesGiven, CapacityGiven
<1>5. KubeletTold
  BY DEF NodeInv, KubeletTold
<1> QED
  BY <1>4, <1>5 DEF PartitionTold, KubeletTold, NamesTold, ResourcesTold

\* Unless a call fails, what the agent tells of a partition is what Slurm has,
\* whatever its hosts and limits are: Partitions, Resources, Partition and Nodes
\* of the agent, and the capacity GetPartitionCapacity of the kubelet makes of
\* them; and when one fails the node keeps what it had (PartitionTold).
THEOREM PartitionIsTold == OutputSpec => []PartitionTold
<1>1. NodeInv /\ [QueryNext \/ NodeNext]_outputVars => NodeInv'
  BY NodeStep
<1> QED
  BY <1>1, NodeInit, NodeTold, PTL DEF OutputSpec
=============================================================================
