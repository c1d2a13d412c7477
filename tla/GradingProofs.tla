---------------------------- MODULE GradingProofs ----------------------------
(***************************************************************************)
(* Theorems about the CI jobs of Grading.                                  *)
(***************************************************************************)
EXTENDS Grading, LeastNumbers

------------------------------------------------------------------------------
(* Folds over sequences.  A fold is a function on the sets of indices, that *)
(* takes the largest off.                                                   *)

LEMMA MaxIs ==
  ASSUME NEW n \in Nat, NEW S, S \subseteq 1..n, S # {}
  PROVE  Max(S) \in S /\ \A y \in S : y <= Max(S)
<1> DEFINE T == {n - x : x \in S}
<1>1. T \subseteq Nat /\ T # {}
  <2>1. \A x \in S : n - x \in Nat
    OBVIOUS
  <2> QED  BY <2>1
<1>2. PICK d \in T : \A e \in T : d <= e
  <2> HIDE DEF T
  <2> QED  BY <1>1, LeastNatural
<1>3. PICK x \in S : d = n - x
  BY <1>2
<1>4. \A y \in S : x >= y
  <2> TAKE y \in S
  <2>1. n - x <= n - y
    BY <1>2, <1>3
  <2> QED  BY <2>1
<1>5. \E m \in S : \A y \in S : m >= y
  BY <1>4
<1>6. Max(S) \in S /\ \A y \in S : Max(S) >= y
  BY <1>5 DEF Max
<1> QED  BY <1>6

LEMMA MaxOfPrefix ==
  ASSUME NEW k \in Nat
  PROVE  Max(1..(k + 1)) = k + 1 /\ (1..(k + 1)) \ {k + 1} = 1..k
<1>1. Max(1..(k + 1)) \in 1..(k + 1) /\ \A y \in 1..(k + 1) : y <= Max(1..(k + 1))
  BY MaxIs
<1>2. k + 1 <= Max(1..(k + 1))
  BY <1>1
<1>3. Max(1..(k + 1)) = k + 1
  BY <1>1, <1>2
<1> QED  BY <1>3

(* h[S] folds op over the elements of s at the indices S, of which n is the *)
(* largest.                                                                *)
Recurs(h, op, base, s, n) ==
    \A S \in SUBSET (1..n) :
        h[S] = IF S = {} THEN base ELSE op[<<h[S \ {Max(S)}], s[Max(S)]>>]

LEMMA RecursionExists ==
  ASSUME NEW n \in Nat, NEW A, NEW E, NEW base \in A, NEW s \in [1..n -> E], NEW op \in [A \X E -> A]
  PROVE  \E h \in [SUBSET (1..n) -> A] : Recurs(h, op, base, s, n)
<1> DEFINE Rec(h, k) == \A S \in SUBSET (1..k) :
                          h[S] = IF S = {} THEN base ELSE op[<<h[S \ {Max(S)}], s[Max(S)]>>]
           Is(k) == \E h \in [SUBSET (1..k) -> A] : Rec(h, k)
           T == {k \in Nat : k <= n => Is(k)}
<1>1. Is(0)
  <2>1. SUBSET (1..0) = {{}}
    OBVIOUS
  <2> DEFINE h == [S \in SUBSET (1..0) |-> base]
  <2>2. h \in [SUBSET (1..0) -> A]
    OBVIOUS
  <2>3. Rec(h, 0)
    BY <2>1
  <2> QED  BY <2>2, <2>3
<1>2. ASSUME NEW k \in Nat, k + 1 <= n, NEW g \in [SUBSET (1..k) -> A], Rec(g, k)
      PROVE  \E h \in [SUBSET (1..(k + 1)) -> A] : Rec(h, k + 1)
  <2> DEFINE h == [S \in SUBSET (1..(k + 1)) |->
                     IF k + 1 \in S THEN op[<<g[S \ {k + 1}], s[k + 1]>>] ELSE g[S]]
  <2>1. k + 1 \in Nat /\ k + 1 \in 1..n /\ s[k + 1] \in E
    BY <1>2
  <2>2. \A S \in SUBSET (1..(k + 1)) : S \ {k + 1} \in SUBSET (1..k) /\ (k + 1 \notin S => S \in SUBSET (1..k))
    OBVIOUS
  <2>3. ASSUME NEW S \in SUBSET (1..(k + 1)) PROVE h[S] \in A
    <3>1. CASE k + 1 \in S
      <4>1. <<g[S \ {k + 1}], s[k + 1]>> \in A \X E
        BY <2>1, <2>2
      <4> QED  BY <3>1, <4>1
    <3>2. CASE k + 1 \notin S
      BY <3>2, <2>2
    <3> QED  BY <3>1, <3>2
  <2>4. h \in [SUBSET (1..(k + 1)) -> A]
    BY <2>3
  <2>5. ASSUME NEW S \in SUBSET (1..(k + 1))
        PROVE  h[S] = IF S = {} THEN base ELSE op[<<h[S \ {Max(S)}], s[Max(S)]>>]
    <3>1. CASE k + 1 \in S
      <4>1. Max(S) \in S /\ \A y \in S : y <= Max(S)
        BY <3>1, <2>1, MaxIs
      <4>2. Max(S) = k + 1
        <5>1. k + 1 <= Max(S) /\ Max(S) \in 1..(k + 1)
          BY <3>1, <4>1
        <5> QED  BY <5>1
      <4>3. h[S \ {k + 1}] = g[S \ {k + 1}]
        BY <2>2
      <4>4. h[S] = op[<<g[S \ {k + 1}], s[k + 1]>>]
        BY <3>1
      <4> QED  BY <3>1, <4>2, <4>3, <4>4
    <3>2. CASE k + 1 \notin S
      <4>1. S \in SUBSET (1..k) /\ h[S] = g[S]
        BY <2>2, <3>2
      <4>2. CASE S = {}
        BY <1>2, <4>1, <4>2
      <4>3. CASE S # {}
        <5>1. Max(S) \in S
          BY <4>1, <4>3, MaxIs
        <5>2. S \ {Max(S)} \in SUBSET (1..k) /\ h[S \ {Max(S)}] = g[S \ {Max(S)}]
          BY <4>1, <3>2
        <5>3. g[S] = op[<<g[S \ {Max(S)}], s[Max(S)]>>]
          BY <1>2, <4>1, <4>3
        <5> QED  BY <4>1, <4>3, <5>2, <5>3
      <4> QED  BY <4>2, <4>3
    <3> QED  BY <3>1, <3>2
  <2>6. Rec(h, k + 1)
    BY <2>5
  <2> HIDE DEF h, Rec
  <2> QED  BY <2>4, <2>6
<1>6. ASSUME NEW k \in Nat, k \in T PROVE k + 1 \in T
  <2> HIDE DEF Rec
  <2>1. ASSUME k + 1 <= n PROVE Is(k + 1)
    <3>1. k <= n /\ Is(k)
      <4> HIDE DEF Is
      <4> QED  BY <1>6, <2>1
    <3>2. PICK g \in [SUBSET (1..k) -> A] : Rec(g, k)
      BY <3>1
    <3> QED  BY <1>2, <2>1, <3>2
  <2> HIDE DEF Is
  <2> QED  BY <2>1
<1>3. Nat \subseteq T
  <2>1. 0 \in T
    <3> HIDE DEF Is
    <3> QED  BY <1>1
  <2> HIDE DEF T
  <2> QED  BY <2>1, <1>6, SetInduction
<1>4. Is(n)
  <2> HIDE DEF Is
  <2>1. n \in T /\ n <= n
    BY <1>3
  <2> QED  BY <2>1
<1>5. \E h \in [SUBSET (1..n) -> A] : Rec(h, n)
  BY <1>4
<1>7. \A h : Rec(h, n) => Recurs(h, op, base, s, n)
  BY DEF Recurs
<1> HIDE DEF Rec
<1> QED  BY <1>5, <1>7

(* Sums and products of shares are integers.                               *)
LEMMA SumIsInt ==
  ASSUME NEW n \in Nat, NEW s \in [1..n -> Int]
  PROVE  SumSeq(s) \in Int
<1> DEFINE Rec(g) == [S \in SUBSET DOMAIN s |->
                        IF S = {} THEN 0 ELSE g[S \ {Max(S)}] + s[Max(S)]]
           op == [p \in Int \X Int |-> p[1] + p[2]]
           G == CHOOSE g : g = Rec(g)
<1>1. SumSeq(s) = G[DOMAIN s]
  BY DEF SumSeq, FoldLeft, MapThenFoldSet
<1>2. \E g : g = Rec(g)
  <2>1. op \in [Int \X Int -> Int] /\ 0 \in Int
    OBVIOUS
  <2> HIDE DEF op
  <2>2. PICK h \in [SUBSET (1..n) -> Int] : Recurs(h, op, 0, s, n)
    BY <2>1, RecursionExists
  <2>3. ASSUME NEW S \in SUBSET (1..n), S # {}
        PROVE  h[S] = h[S \ {Max(S)}] + s[Max(S)]
    <3>1. Max(S) \in S
      BY <2>3, MaxIs
    <3>2. s[Max(S)] \in Int /\ h[S \ {Max(S)}] \in Int
      BY <3>1
    <3>3. h[S] = op[<<h[S \ {Max(S)}], s[Max(S)]>>]
      BY <2>2, <2>3 DEF Recurs
    <3> QED  BY <3>2, <3>3 DEF op
  <2>4. h = Rec(h)
    BY <2>2, <2>3 DEF Recurs
  <2> QED  BY <2>4
<1>3. G = Rec(G)
  BY <1>2
<1> HIDE DEF G
<1> DEFINE T == {k \in Nat : k <= n => G[1..k] \in Int}
<1>4. 0 \in T
  <2>1. 1..0 = {} /\ G[{}] = 0
    BY <1>3
  <2>2. G[1..0] \in Int
    BY <2>1
  <2> QED  BY <2>2
<1>5. \A k \in Nat : k \in T => k + 1 \in T
  <2> SUFFICES ASSUME NEW k \in Nat, k \in T, k + 1 <= n PROVE G[1..(k + 1)] \in Int
    OBVIOUS
  <2>1. 1..(k + 1) \in SUBSET DOMAIN s /\ 1..(k + 1) # {} /\ G[1..k] \in Int /\ s[k + 1] \in Int
    OBVIOUS
  <2>2. Max(1..(k + 1)) = k + 1 /\ (1..(k + 1)) \ {k + 1} = 1..k
    BY MaxOfPrefix
  <2>3. G[1..(k + 1)] = G[1..k] + s[k + 1]
    <3> HIDE DEF T
    <3> QED  BY <1>3, <2>1, <2>2
  <2> QED  BY <2>1, <2>3
<1>6. Nat \subseteq T
  <2> HIDE DEF T
  <2> QED  BY <1>4, <1>5, SetInduction
<1>7. G[1..n] \in Int
  BY <1>6
<1> QED  BY <1>1, <1>7

LEMMA ProductIsInt ==
  ASSUME NEW n \in Nat, NEW s \in [1..n -> Int]
  PROVE  FoldLeft(LAMBDA p, w : (p * w) \div Full, Full, s) \in Int
<1> DEFINE Rec(g) == [S \in SUBSET DOMAIN s |->
                        IF S = {} THEN Full ELSE (g[S \ {Max(S)}] * s[Max(S)]) \div Full]
           op == [p \in Int \X Int |-> (p[1] * p[2]) \div Full]
           G == CHOOSE g : g = Rec(g)
<1>1. FoldLeft(LAMBDA p, w : (p * w) \div Full, Full, s) = G[DOMAIN s]
  BY DEF FoldLeft, MapThenFoldSet
<1>2. \E g : g = Rec(g)
  <2>1. op \in [Int \X Int -> Int] /\ Full \in Int
    BY FullAssumption
  <2> HIDE DEF op
  <2>2. PICK h \in [SUBSET (1..n) -> Int] : Recurs(h, op, Full, s, n)
    BY <2>1, RecursionExists
  <2>3. ASSUME NEW S \in SUBSET (1..n), S # {}
        PROVE  h[S] = (h[S \ {Max(S)}] * s[Max(S)]) \div Full
    <3>1. Max(S) \in S
      BY <2>3, MaxIs
    <3>2. s[Max(S)] \in Int /\ h[S \ {Max(S)}] \in Int
      BY <3>1
    <3>3. h[S] = op[<<h[S \ {Max(S)}], s[Max(S)]>>]
      BY <2>2, <2>3 DEF Recurs
    <3> QED  BY <3>2, <3>3 DEF op
  <2>4. h = Rec(h)
    BY <2>2, <2>3 DEF Recurs
  <2> QED  BY <2>4
<1>3. G = Rec(G)
  BY <1>2
<1> HIDE DEF G
<1> DEFINE T == {k \in Nat : k <= n => G[1..k] \in Int}
<1>4. 0 \in T
  <2>1. 1..0 = {} /\ G[{}] = Full
    BY <1>3
  <2>2. G[1..0] \in Int
    BY <2>1, FullAssumption
  <2> QED  BY <2>2
<1>5. \A k \in Nat : k \in T => k + 1 \in T
  <2> SUFFICES ASSUME NEW k \in Nat, k \in T, k + 1 <= n PROVE G[1..(k + 1)] \in Int
    OBVIOUS
  <2>1. 1..(k + 1) \in SUBSET DOMAIN s /\ 1..(k + 1) # {} /\ G[1..k] \in Int /\ s[k + 1] \in Int
    OBVIOUS
  <2>2. Max(1..(k + 1)) = k + 1 /\ (1..(k + 1)) \ {k + 1} = 1..k
    BY MaxOfPrefix
  <2>3. G[1..(k + 1)] = (G[1..k] * s[k + 1]) \div Full
    <3> HIDE DEF T
    <3> QED  BY <1>3, <2>1, <2>2
  <2> QED  BY <2>1, <2>3, FullAssumption
<1>6. Nat \subseteq T
  <2> HIDE DEF T
  <2> QED  BY <1>4, <1>5, SetInduction
<1>7. G[1..n] \in Int
  BY <1>6
<1> QED  BY <1>1, <1>7

(* q holds the first k elements of s that are in X, in their order.        *)
Selects(q, s, X, k) ==
    /\ \A i \in DOMAIN q : \E a \in 1..k : s[a] \in X /\ q[i] = s[a]
    /\ \A a \in 1..k : s[a] \in X => \E i \in DOMAIN q : q[i] = s[a]
    /\ \A i, j \in DOMAIN q : i < j => \E a, b \in 1..k : a < b /\ q[i] = s[a] /\ q[j] = s[b]

LEMMA SelectsNext ==
  ASSUME NEW E, NEW X, NEW k \in Nat, NEW n \in Nat, k + 1 <= n, NEW s \in [1..n -> E],
         NEW p \in Seq(E), Selects(p, s, X, k)
  PROVE  /\ s[k + 1] \notin X => Selects(p, s, X, k + 1)
         /\ s[k + 1] \in X => Selects(Append(p, s[k + 1]), s, X, k + 1)
<1>0. 1..k \subseteq 1..(k + 1) /\ \A a \in 1..(k + 1) : a = k + 1 \/ a \in 1..k
  OBVIOUS
<1>1. ASSUME s[k + 1] \notin X PROVE Selects(p, s, X, k + 1)
  <2>1. \A i \in DOMAIN p : \E a \in 1..(k + 1) : s[a] \in X /\ p[i] = s[a]
    BY <1>0 DEF Selects
  <2>2. \A a \in 1..(k + 1) : s[a] \in X => \E i \in DOMAIN p : p[i] = s[a]
    BY <1>0, <1>1 DEF Selects
  <2>3. \A i, j \in DOMAIN p : i < j => \E a, b \in 1..(k + 1) : a < b /\ p[i] = s[a] /\ p[j] = s[b]
    BY <1>0 DEF Selects
  <2> QED  BY <2>1, <2>2, <2>3 DEF Selects
<1>2. ASSUME s[k + 1] \in X PROVE Selects(Append(p, s[k + 1]), s, X, k + 1)
  <2> DEFINE q == Append(p, s[k + 1])
             m == Len(p)
  <2>1. s[k + 1] \in E
    OBVIOUS
  <2>2. /\ m \in Nat /\ DOMAIN p = 1..m /\ DOMAIN q = 1..(m + 1)
        /\ q[m + 1] = s[k + 1] /\ \A i \in 1..m : q[i] = p[i]
    BY <2>1
  <2> HIDE DEF q, m
  <2>3. \A i \in DOMAIN q : \E a \in 1..(k + 1) : s[a] \in X /\ q[i] = s[a]
    <3> TAKE i \in DOMAIN q
    <3>1. CASE i = m + 1
      BY <1>2, <2>2, <3>1
    <3>2. CASE i \in 1..m
      <4>1. PICK a \in 1..k : s[a] \in X /\ p[i] = s[a]
        BY <2>2, <3>2 DEF Selects
      <4> QED  BY <1>0, <2>2, <3>2, <4>1
    <3> QED  BY <2>2, <3>1, <3>2
  <2>4. \A a \in 1..(k + 1) : s[a] \in X => \E i \in DOMAIN q : q[i] = s[a]
    <3> SUFFICES ASSUME NEW a \in 1..(k + 1), s[a] \in X PROVE \E i \in DOMAIN q : q[i] = s[a]
      OBVIOUS
    <3>1. CASE a = k + 1
      <4>1. m + 1 \in DOMAIN q
        BY <2>2
      <4> QED  BY <2>2, <3>1, <4>1
    <3>2. CASE a \in 1..k
      <4>1. PICK i \in 1..m : p[i] = s[a]
        BY <2>2, <3>2 DEF Selects
      <4>2. i \in DOMAIN q
        BY <2>2
      <4> QED  BY <2>2, <4>1, <4>2
    <3> QED  BY <1>0, <3>1, <3>2
  <2>5. \A i, j \in DOMAIN q : i < j => \E a, b \in 1..(k + 1) : a < b /\ q[i] = s[a] /\ q[j] = s[b]
    <3> SUFFICES ASSUME NEW i \in DOMAIN q, NEW j \in DOMAIN q, i < j
                 PROVE  \E a, b \in 1..(k + 1) : a < b /\ q[i] = s[a] /\ q[j] = s[b]
      OBVIOUS
    <3>1. i \in 1..m
      BY <2>2
    <3>2. CASE j = m + 1
      <4>1. PICK a \in 1..k : p[i] = s[a]
        BY <2>2, <3>1 DEF Selects
      <4>2. a \in 1..(k + 1) /\ k + 1 \in 1..(k + 1) /\ a < k + 1
        OBVIOUS
      <4>3. q[i] = s[a] /\ q[j] = s[k + 1]
        BY <2>2, <3>1, <3>2, <4>1
      <4> QED  BY <4>2, <4>3
    <3>3. CASE j \in 1..m
      <4>1. \E a, b \in 1..k : a < b /\ p[i] = s[a] /\ p[j] = s[b]
        BY <2>2, <3>1, <3>3 DEF Selects
      <4>2. q[i] = p[i] /\ q[j] = p[j]
        BY <2>2, <3>1, <3>3
      <4> QED  BY <1>0, <4>1, <4>2
    <3> QED  BY <2>2, <3>2, <3>3
  <2>6. Selects(q, s, X, k + 1)
    BY <2>3, <2>4, <2>5 DEF Selects
  <2> QED  BY <2>6 DEF q
<1> QED  BY <1>1, <1>2

(* Among takes the elements of s that are in X.                             *)
LEMMA AmongIs ==
  ASSUME NEW n \in Nat, NEW E, NEW s \in [1..n -> E], NEW X
  PROVE  Among(s, X) \in Seq(E) /\ Selects(Among(s, X), s, X, n)
<1> DEFINE Rec(g) == [S \in SUBSET DOMAIN s |->
                        IF S = {} THEN <<>>
                        ELSE IF s[Max(S)] \in X THEN Append(g[S \ {Max(S)}], s[Max(S)])
                                                ELSE g[S \ {Max(S)}]]
           op == [p \in Seq(E) \X E |-> IF p[2] \in X THEN Append(p[1], p[2]) ELSE p[1]]
           G == CHOOSE g : g = Rec(g)
<1>1. Among(s, X) = G[DOMAIN s]
  BY DEF Among, FoldLeft, MapThenFoldSet
<1>2. \E g : g = Rec(g)
  <2>1. op \in [Seq(E) \X E -> Seq(E)] /\ <<>> \in Seq(E)
    OBVIOUS
  <2> HIDE DEF op
  <2>2. PICK h \in [SUBSET (1..n) -> Seq(E)] : Recurs(h, op, <<>>, s, n)
    BY <2>1, RecursionExists
  <2>3. ASSUME NEW S \in SUBSET (1..n), S # {}
        PROVE  h[S] = IF s[Max(S)] \in X THEN Append(h[S \ {Max(S)}], s[Max(S)]) ELSE h[S \ {Max(S)}]
    <3>1. Max(S) \in S
      BY <2>3, MaxIs
    <3>2. s[Max(S)] \in E /\ h[S \ {Max(S)}] \in Seq(E)
      BY <3>1
    <3>3. h[S] = op[<<h[S \ {Max(S)}], s[Max(S)]>>]
      BY <2>2, <2>3 DEF Recurs
    <3> QED  BY <3>2, <3>3 DEF op
  <2>4. h = Rec(h)
    BY <2>2, <2>3 DEF Recurs
  <2> QED  BY <2>4
<1>3. G = Rec(G)
  BY <1>2
<1> HIDE DEF G
<1> DEFINE F == [k \in 0..n |-> G[1..k]]
<1>4. G[{}] = <<>>
  BY <1>3
<1>5. ASSUME NEW k \in 0..(n - 1)
      PROVE  G[1..(k + 1)] = IF s[k + 1] \in X THEN Append(G[1..k], s[k + 1]) ELSE G[1..k]
  <2>1. 1..(k + 1) \in SUBSET DOMAIN s /\ 1..(k + 1) # {}
    OBVIOUS
  <2>2. Max(1..(k + 1)) = k + 1 /\ (1..(k + 1)) \ {k + 1} = 1..k
    <3>1. k \in Nat
      OBVIOUS
    <3> QED  BY <3>1, MaxOfPrefix
  <2> QED  BY <1>3, <2>1, <2>2
<1>6. \A k \in 0..n : G[1..k] \in Seq(E)
  <2> DEFINE T == {k \in Nat : k <= n => G[1..k] \in Seq(E)}
  <2>1. 0 \in T
    <3>1. 1..0 = {}
      OBVIOUS
    <3>2. G[1..0] = <<>> /\ <<>> \in Seq(E)
      BY <1>4, <3>1
    <3> QED  BY <3>2
  <2>2. \A k \in Nat : k \in T => k + 1 \in T
    <3> SUFFICES ASSUME NEW k \in Nat, k \in T, k + 1 <= n PROVE G[1..(k + 1)] \in Seq(E)
      OBVIOUS
    <3>1. k \in 0..(n - 1) /\ s[k + 1] \in E /\ G[1..k] \in Seq(E)
      OBVIOUS
    <3>2. Append(G[1..k], s[k + 1]) \in Seq(E)
      BY <3>1
    <3>3. G[1..(k + 1)] = IF s[k + 1] \in X THEN Append(G[1..k], s[k + 1]) ELSE G[1..k]
      <4> HIDE DEF T
      <4> QED  BY <1>5, <3>1
    <3> HIDE DEF T
    <3> QED  BY <3>1, <3>2, <3>3
  <2>3. Nat \subseteq T
    BY <2>1, <2>2, SetInduction
  <2> QED  BY <2>3
<1>7. F \in [0..n -> Seq(E)]
  BY <1>6
<1>8. F[0] = <<>> /\ F[n] = G[DOMAIN s]
  BY <1>4
<1>9. \A k \in 0..(n - 1) : F[k + 1] = IF s[k + 1] \in X THEN Append(F[k], s[k + 1]) ELSE F[k]
  BY <1>5
<1> HIDE DEF F
<1> DEFINE Is(k) == k <= n => Selects(F[k], s, X, k)
           T == {k \in Nat : Is(k)}
<1>11. 0 \in T
  <2>1. DOMAIN <<>> = {} /\ 1..0 = {}
    OBVIOUS
  <2>2. Selects(<<>>, s, X, 0)
    BY <2>1 DEF Selects
  <2>3. Selects(F[0], s, X, 0)
    BY <1>8, <2>2
  <2>4. 0 \in Nat
    OBVIOUS
  <2> QED  BY <2>3, <2>4
<1>12. \A k \in Nat : k \in T => k + 1 \in T
  <2> SUFFICES ASSUME NEW k \in Nat, Is(k), k + 1 <= n PROVE Selects(F[k + 1], s, X, k + 1)
    <3>1. \A k \in Nat : k + 1 \in Nat
      OBVIOUS
    <3>2. SUFFICES ASSUME NEW k \in Nat, Is(k) PROVE Is(k + 1)
      <4> HIDE DEF Is
      <4> QED  BY <3>1
    <3> QED  BY <3>2
  <2>0. k \in 0..(n - 1) /\ k <= n /\ k \in 0..n
    OBVIOUS
  <2>1. k \in 0..(n - 1) /\ F[k] \in Seq(E) /\ Selects(F[k], s, X, k)
    BY <1>7, <2>0
  <2>2. F[k + 1] = IF s[k + 1] \in X THEN Append(F[k], s[k + 1]) ELSE F[k]
    BY <1>9, <2>1
  <2>3. /\ s[k + 1] \notin X => Selects(F[k], s, X, k + 1)
        /\ s[k + 1] \in X => Selects(Append(F[k], s[k + 1]), s, X, k + 1)
    BY <2>1, SelectsNext
  <2> QED  BY <2>2, <2>3
<1>13. Nat \subseteq T
  <2> HIDE DEF T
  <2> QED  BY <1>11, <1>12, SetInduction
<1>14. F[n] \in Seq(E) /\ Selects(F[n], s, X, n)
  BY <1>7, <1>13
<1> QED  BY <1>1, <1>8, <1>14

------------------------------------------------------------------------------
(* The two shares of a score.                                               *)

LEMMA MinIs ==
  ASSUME NEW n \in Nat, NEW S, S \subseteq 1..n, S # {}
  PROVE  Min(S) \in S /\ \A y \in S : Min(S) <= y
<1>1. \E x \in S : \A y \in S : x <= y
  <2>1. S \subseteq Nat
    OBVIOUS
  <2> QED  BY <2>1, LeastNatural
<1> QED  BY <1>1 DEF Min

(* The steps of a group come one after the other, all after its start, and *)
(* no two leave the same share.                                            *)
Ordered(g) ==
    /\ g \in [start : Int, steps : Seq([mult : Int, when : Date]), end : Date]
    /\ \A i \in DOMAIN g.steps : DateOf(g, g.steps[i].when) > g.start
    /\ \A i, j \in DOMAIN g.steps :
         i < j => /\ DateOf(g, g.steps[i].when) < DateOf(g, g.steps[j].when)
                  /\ g.steps[i].mult # g.steps[j].mult

LEMMA DateIsInt ==
  ASSUME NEW g, g.start \in Int, NEW d \in Date
  PROVE  DateOf(g, d) \in Int
BY DEF DateOf, Date

LEMMA ValidIsOrdered ==
  ASSUME NEW g, IsSchedule(g), ValidDates(g)
  PROVE  Ordered(g)
<1> DEFINE D(i) == DateOf(g, g.steps[i].when)
           n == Len(g.steps)
           E == [mult : Int, when : Date]
<1>0. \A i, j \in DOMAIN g.steps : g.steps[i].mult = g.steps[j].mult => i = j
  BY DEF IsSchedule
<1>1. g.start \in Int /\ g.steps \in Seq(E)
  BY DEF IsSchedule
<1>2. n \in Nat /\ DOMAIN g.steps = 1..n /\ \A i \in 1..n : g.steps[i] \in E
  <2> HIDE DEF E
  <2> QED  BY <1>1
<1>3. \A i \in 1..n : g.steps[i].when \in Date
  <2>1. \A x \in E : x.when \in Date
    OBVIOUS
  <2> HIDE DEF E
  <2> QED  BY <1>2, <2>1
<1>4. \A i \in 1..n : D(i) \in Int
  BY <1>1, <1>3, DateIsInt
<1>5. \A i \in 1..n : D(i) > IF i = 1 THEN g.start ELSE D(i - 1)
  BY <1>2 DEF ValidDates
<1> HIDE DEF D, n, E
<1> DEFINE Is(j) == j <= n => \A i \in 1..j : /\ D(i) > g.start
                                              /\ i < j => D(i) < D(j)
           T == {j \in Nat : Is(j)}
<1>6. 0 \in T
  <2>1. 1..0 = {} /\ 0 \in Nat
    OBVIOUS
  <2> QED  BY <2>1
<1>7. \A j \in Nat : j \in T => j + 1 \in T
  <2> SUFFICES ASSUME NEW j \in Nat, Is(j) PROVE Is(j + 1)
    <3>1. \A k \in Nat : k + 1 \in Nat
      OBVIOUS
    <3> HIDE DEF Is
    <3> QED  BY <3>1
  <2> SUFFICES ASSUME j + 1 <= n, NEW i \in 1..(j + 1)
               PROVE  D(i) > g.start /\ (i < j + 1 => D(i) < D(j + 1))
    OBVIOUS
  <2>1. j + 1 \in 1..n /\ D(j + 1) \in Int /\ g.start \in Int
    BY <1>1, <1>2, <1>4
  <2>2. D(j + 1) > IF j = 0 THEN g.start ELSE D(j)
    <3>1. (j + 1) - 1 = j /\ (j + 1 = 1 <=> j = 0)
      OBVIOUS
    <3> QED  BY <1>5, <2>1, <3>1
  <2>3. CASE j = 0
    BY <2>1, <2>2, <2>3
  <2>4. CASE j # 0
    <3>1. j \in 1..n /\ D(j) \in Int /\ j \in 1..j /\ j <= n
      BY <1>2, <1>4, <2>4
    <3>2. D(j) > g.start /\ \A k \in 1..j : D(k) > g.start /\ (k < j => D(k) < D(j))
      <4>1. \A k \in 1..j : D(k) > g.start /\ (k < j => D(k) < D(j))
        BY <3>1
      <4> QED  BY <3>1, <4>1
    <3>3. D(j + 1) > D(j)
      BY <2>2, <2>4
    <3>4. CASE i = j + 1
      BY <2>1, <3>1, <3>2, <3>3, <3>4
    <3>5. CASE i = j
      BY <2>1, <3>1, <3>2, <3>3, <3>5
    <3>6. CASE i \in 1..j /\ i < j
      <4>1. i \in 1..n /\ D(i) \in Int /\ D(i) > g.start /\ D(i) < D(j)
        BY <1>2, <1>4, <3>1, <3>2, <3>6
      <4> QED  BY <2>1, <3>1, <3>3, <4>1
    <3> QED  BY <3>4, <3>5, <3>6
  <2> QED  BY <2>3, <2>4
<1>8. Nat \subseteq T
  <2> HIDE DEF T
  <2> QED  BY <1>6, <1>7, SetInduction
<1>9. \A j \in 1..n : Is(j)
  BY <1>2, <1>8
<1>10. \A i \in 1..n : D(i) > g.start
  <2> TAKE i \in 1..n
  <2>1. i <= n /\ i \in 1..i /\ Is(i)
    <3> HIDE DEF Is
    <3> QED  BY <1>2, <1>9
  <2>2. \A k \in 1..i : D(k) > g.start
    BY <2>1
  <2> QED  BY <2>1, <2>2
<1>11. \A i, j \in 1..n : i < j => D(i) < D(j)
  <2> TAKE i, j \in 1..n
  <2>1. j <= n /\ (i < j => i \in 1..j)
    BY <1>2
  <2>2. Is(j)
    <3> HIDE DEF Is
    <3> QED  BY <1>9
  <2>3. \A k \in 1..j : k < j => D(k) < D(j)
    BY <2>1, <2>2
  <2> QED  BY <2>1, <2>3
<1>12. \A i, j \in 1..n : i < j => g.steps[i].mult # g.steps[j].mult
  <2> TAKE i, j \in 1..n
  <2>1. i < j => i # j
    BY <1>2
  <2> QED  BY <1>0, <1>2, <2>1
<1>13. g \in [start : Int, steps : Seq([mult : Int, when : Date]), end : Date]
  BY DEF IsSchedule
<1> QED  BY <1>2, <1>10, <1>11, <1>12, <1>13 DEF Ordered, D

(* Leaving steps out keeps their order.                                     *)
LEMMA LocalisedIsOrdered ==
  ASSUME NEW g, Ordered(g)
  PROVE  Ordered(Localised(g))
<1> DEFINE s == g.steps
           n == Len(s)
           E == [mult : Int, when : Date]
           X == {x \in Range(s) : ~x.when.delta}
           q == Among(s, X)
           h == Localised(g)
<1>1. s \in Seq(E) /\ n \in Nat /\ DOMAIN s = 1..n /\ s \in [1..n -> E]
  <2>1. s \in Seq(E)
    BY DEF Ordered
  <2> HIDE DEF E, s
  <2> QED  BY <2>1
<1>2. q \in Seq(E) /\ Selects(q, s, X, n)
  <2> HIDE DEF s, n, E, X
  <2> QED  BY <1>1, AmongIs
<1>3. h = [g EXCEPT !.steps = q]
  BY DEF Localised
<1>4. h.start = g.start /\ h.end = g.end /\ h.steps = q
  BY <1>3 DEF Ordered
<1>5. \A d : DateOf(h, d) = DateOf(g, d)
  BY <1>4 DEF DateOf
<1>6. /\ \A i \in 1..n : DateOf(g, s[i].when) > g.start
      /\ \A i, j \in 1..n : i < j => /\ DateOf(g, s[i].when) < DateOf(g, s[j].when)
                                     /\ s[i].mult # s[j].mult
  BY <1>1 DEF Ordered
<1>7. h \in [start : Int, steps : Seq([mult : Int, when : Date]), end : Date]
  BY <1>2, <1>3 DEF Ordered
<1> HIDE DEF h, q, s, n, E, X
<1>8. ASSUME NEW i \in DOMAIN q PROVE DateOf(h, q[i].when) > h.start
  <2>1. PICK a \in 1..n : q[i] = s[a]
    BY <1>2 DEF Selects
  <2> QED  BY <1>4, <1>5, <1>6, <2>1
<1>9. ASSUME NEW i \in DOMAIN q, NEW j \in DOMAIN q, i < j
      PROVE  DateOf(h, q[i].when) < DateOf(h, q[j].when) /\ q[i].mult # q[j].mult
  <2>1. PICK a, b \in 1..n : a < b /\ q[i] = s[a] /\ q[j] = s[b]
    BY <1>2, <1>9 DEF Selects
  <2> QED  BY <1>5, <1>6, <2>1
<1>10. Ordered(h)
  BY <1>4, <1>7, <1>8, <1>9 DEF Ordered
<1> QED  BY <1>10 DEF h

(* The dictionary of the checker holds every share with its own date.      *)
LEMMA BeforeIs ==
  ASSUME NEW g, Ordered(g), Sensible(g), NEW i \in Turns(g)
  PROVE  Before(g)[i] = [percent |-> Share(g, i), date |-> Until(g, i)]
<1> DEFINE n == Len(g.steps)
           S == {j \in Turns(g) : Share(g, j) = Share(g, i)}
           E == [mult : Int, when : Date]
<1>1. n \in Nat /\ DOMAIN g.steps = 1..n
  <2>1. g.steps \in Seq(E)
    BY DEF Ordered
  <2> HIDE DEF E
  <2> QED  BY <2>1
<1>2. /\ \A a, b \in 1..n : a < b => g.steps[a].mult # g.steps[b].mult
      /\ \A a \in 1..n : g.steps[a].mult # Whole
  BY <1>1 DEF Ordered, Sensible
<1>3. Turns(g) = 1..(n + 1)
  BY DEF Turns
<1>4. ASSUME NEW j \in 1..(n + 1), Share(g, j) = Share(g, i) PROVE j = i
  <2> HIDE DEF n
  <2>1. i \in 1..(n + 1)
    BY <1>3
  <2>2. \A k \in 1..(n + 1) : k # 1 => k - 1 \in 1..n /\ Share(g, k) = g.steps[k - 1].mult
    BY <1>1 DEF Share
  <2>3. Share(g, 1) = Whole
    BY DEF Share
  <2>4. CASE j = 1
    BY <1>2, <1>4, <2>1, <2>2, <2>3, <2>4
  <2>5. CASE i = 1
    BY <1>2, <1>4, <2>1, <2>2, <2>3, <2>5
  <2>6. CASE i # 1 /\ j # 1
    <3>1. i - 1 \in 1..n /\ j - 1 \in 1..n /\ g.steps[i - 1].mult = g.steps[j - 1].mult
      BY <1>4, <2>1, <2>2, <2>6
    <3>2. ~(i - 1 < j - 1) /\ ~(j - 1 < i - 1)
      BY <1>2, <3>1
    <3> QED  BY <1>1, <2>1, <3>1, <3>2
  <2> QED  BY <2>4, <2>5, <2>6
<1>5. S = {i}
  BY <1>3, <1>4
<1>6. Max({i}) = i
  <2>1. {i} \subseteq 1..(n + 1) /\ n + 1 \in Nat
    BY <1>1, <1>3
  <2>2. Max({i}) \in {i}
    <3> HIDE DEF n
    <3> QED  BY <2>1, MaxIs
  <2> QED  BY <2>2
<1> QED  BY <1>5, <1>6 DEF Before

(* The shares that are still good, and those that have begun.               *)
Open(g, now)  == {i \in DOMAIN Before(g) : now <= Before(g)[i].date}
Begun(g, now) == {i \in DOMAIN After(g) : now >= After(g)[i].date}

(* The share in force: the first that is still good, and the last that has  *)
(* begun.                                                                   *)
InForce(g, now, i) ==
    /\ i \in Turns(g) /\ Min(Open(g, now)) = i /\ Max(Begun(g, now)) = i
    /\ Before(g)[i].percent = Share(g, i) /\ After(g)[i].percent = Share(g, i)
    /\ i # 1 => /\ i - 1 \in Turns(g) /\ Before(g)[i - 1].percent = Share(g, i - 1)
                /\ Before(g)[i - 1].date \in Int /\ Before(g)[i - 1].date < now
    /\ i # Len(After(g)) => /\ i + 1 \in Turns(g) /\ After(g)[i + 1].percent = Share(g, i + 1)
                            /\ After(g)[i].date \in Int /\ After(g)[i + 1].date \in Int
                            /\ After(g)[i].date <= now /\ now < After(g)[i + 1].date

(* Off the dates themselves both sides find the same share in force, or     *)
(* none from the end on.                                                    *)
LEMMA ShareInForce ==
  ASSUME NEW g, Ordered(g), Sensible(g), NEW now \in Int,
         now > g.start, now \notin Instants(g)
  PROVE  \/ Open(g, now) = {} /\ now >= DateOf(g, g.end)
         \/ /\ Open(g, now) # {} /\ Begun(g, now) # {} /\ ~(now >= DateOf(g, g.end))
            /\ \E i : InForce(g, now, i)
<1> DEFINE n == Len(g.steps)
           N == n + 1
           E == [mult : Int, when : Date]
           D(i) == DateOf(g, g.steps[i].when)
           end == DateOf(g, g.end)
           open == Open(g, now)
           begun == Begun(g, now)
<1>1. n \in Nat /\ DOMAIN g.steps = 1..n /\ \A i \in 1..n : g.steps[i] \in E
  <2>1. g.steps \in Seq(E)
    BY DEF Ordered
  <2> HIDE DEF E
  <2> QED  BY <2>1
<1>2. g.start \in Int /\ g.end \in Date
  BY DEF Ordered
<1>3. end \in Int /\ \A i \in 1..n : D(i) \in Int
  <2>1. \A x \in E : x.when \in Date
    OBVIOUS
  <2> HIDE DEF E
  <2> QED  BY <1>1, <1>2, <2>1, DateIsInt
<1>4. /\ \A i \in 1..n : D(i) > g.start /\ D(i) <= end /\ D(i) # now
      /\ \A i, j \in 1..n : i < j => D(i) < D(j)
      /\ end # now
  BY <1>1 DEF Ordered, Sensible, Instants
<1>5. DOMAIN Before(g) = 1..N /\ DOMAIN After(g) = 1..N /\ Len(After(g)) = N
  <2>1. Turns(g) = 1..N /\ N \in Nat
    BY <1>1 DEF Turns
  <2>2. DOMAIN Before(g) = 1..N
    BY <2>1 DEF Before
  <2>3. \E f : After(g) = [i \in 1..N |-> f[i]]
    <3>1. After(g) = [i \in 1..N |-> After(g)[i]]
      BY <2>1 DEF After
    <3> QED  BY <3>1
  <2>4. DOMAIN After(g) = 1..N /\ Len(After(g)) = N
    BY <2>1, <2>3
  <2> QED  BY <2>2, <2>4
<1>6. \A i \in 1..N : /\ Before(g)[i].percent = Share(g, i)
                      /\ Before(g)[i].date = IF i <= n THEN D(i) ELSE end
  <2> TAKE i \in 1..N
  <2>1. i \in Turns(g)
    BY DEF Turns
  <2>2. Before(g)[i] = [percent |-> Share(g, i), date |-> Until(g, i)]
    BY <2>1, BeforeIs
  <2>3. Until(g, i) = IF i <= n THEN D(i) ELSE end
    BY DEF Until
  <2> QED  BY <2>2, <2>3
<1>7. \A i \in 1..N : /\ After(g)[i].percent = Share(g, i)
                      /\ After(g)[i].date = IF i = 1 THEN g.start ELSE D(i - 1)
  BY DEF After, Turns
<1> HIDE DEF n, E, D, end
<1>8. N \in Nat /\ 1 \in 1..N /\ N \in 1..N
  BY <1>1
<1>0. /\ open = {i \in 1..N : now <= Before(g)[i].date}
      /\ begun = {i \in 1..N : now >= After(g)[i].date}
  BY <1>5 DEF Open, Begun
<1>9. 1 \in begun
  BY <1>0, <1>2, <1>7, <1>8
<1>10. CASE now > end
  <2>1. open = {}
    BY <1>0, <1>1, <1>3, <1>4, <1>6, <1>10
  <2>2. now >= DateOf(g, g.end)
    BY <1>3, <1>10 DEF end
  <2> QED  BY <2>1, <2>2
<1>11. CASE now < end
  <2> DEFINE i == Min(open)
  <2>1. open \subseteq 1..N /\ N \in open
    <3>1. ~(N <= n) /\ Before(g)[N].date = end
      <4>1. ~(N <= n)
        BY <1>1
      <4>2. Before(g)[N].date = IF N <= n THEN D(N) ELSE end
        <5> HIDE DEF N
        <5> QED  BY <1>6, <1>8
      <4> QED  BY <4>1, <4>2
    <3> QED  BY <1>3, <1>0, <1>8, <1>11, <3>1
  <2>2. i \in open /\ \A j \in open : i <= j
    <3> HIDE DEF open, N
    <3> QED  BY <1>8, <2>1, MinIs
  <2> HIDE DEF i
  <2>3. i \in 1..N /\ (i = 1 \/ i - 1 \in 1..n) /\ now <= Before(g)[i].date
    BY <1>1, <1>0, <2>2
  <2>4. i \in begun
    <3>1. CASE i = 1
      BY <1>9, <3>1
    <3>2. CASE i # 1
      <4>1. i - 1 \in 1..n /\ i - 1 \in 1..N /\ i - 1 <= n /\ ~(i <= i - 1)
        BY <1>1, <2>3, <3>2
      <4>2. i - 1 \notin open
        BY <2>2, <4>1
      <4>3. Before(g)[i - 1].date = D(i - 1)
        BY <1>6, <4>1
      <4>4. ~(now <= D(i - 1))
        BY <1>0, <4>1, <4>2, <4>3
      <4>5. now >= D(i - 1)
        BY <1>3, <4>1, <4>4
      <4> QED  BY <1>0, <1>7, <2>3, <3>2, <4>5
    <3> QED  BY <3>1, <3>2
  <2>5. ASSUME NEW j \in begun PROVE j <= i
    <3> SUFFICES ASSUME i < j PROVE FALSE
      BY <1>0, <1>8, <2>3
    <3>1. j \in 1..N /\ now >= After(g)[j].date /\ j # 1 /\ j - 1 \in 1..n /\ i \in 1..n
      BY <1>1, <1>0, <2>3
    <3>2. now >= D(j - 1)
      BY <1>7, <3>1
    <3>3. now <= D(i) /\ now # D(i)
      BY <1>4, <1>6, <2>3, <3>1
    <3>4. CASE i = j - 1
      BY <1>3, <3>1, <3>2, <3>3, <3>4
    <3>5. CASE i # j - 1
      <4>1. i < j - 1
        BY <3>1, <3>5
      <4>2. D(i) < D(j - 1)
        BY <1>4, <3>1, <4>1
      <4> QED  BY <1>3, <3>1, <3>2, <3>3, <4>2
    <3> QED  BY <3>4, <3>5
  <2>6. Max(begun) = i
    <3>1. begun \subseteq 1..N /\ begun # {}
      BY <1>0, <1>9
    <3>2. Max(begun) \in begun /\ \A y \in begun : y <= Max(begun)
      <4> HIDE DEF begun, N
      <4> QED  BY <1>8, <3>1, MaxIs
    <3>3. Max(begun) <= i /\ i <= Max(begun)
      BY <2>4, <2>5, <3>2
    <3>4. Max(begun) \in Int
      BY <3>1, <3>2
    <3> QED  BY <2>3, <3>3, <3>4
  <2>7. InForce(g, now, i)
    <3>1. i \in Turns(g)
      BY <2>3 DEF Turns, n, N
    <3>2. Before(g)[i].percent = Share(g, i) /\ After(g)[i].percent = Share(g, i)
      BY <1>6, <1>7, <2>3
    <3>3. ASSUME i # 1
          PROVE  /\ i - 1 \in Turns(g) /\ Before(g)[i - 1].percent = Share(g, i - 1)
                 /\ Before(g)[i - 1].date \in Int /\ Before(g)[i - 1].date < now
      <4>1. i - 1 \in 1..n /\ i - 1 \in 1..N /\ i - 1 <= n /\ ~(i <= i - 1)
        BY <1>1, <2>3, <3>3
      <4>2. i - 1 \notin open
        BY <2>2, <4>1
      <4>3. Before(g)[i - 1].date = D(i - 1) /\ Before(g)[i - 1].percent = Share(g, i - 1)
        BY <1>6, <4>1
      <4>4. D(i - 1) \in Int /\ ~(now <= D(i - 1))
        BY <1>0, <1>3, <4>1, <4>2, <4>3
      <4>5. i - 1 \in Turns(g)
        BY <4>1 DEF Turns, n, N
      <4> QED  BY <4>3, <4>4, <4>5
    <3>4. ASSUME i # N
          PROVE  /\ i + 1 \in Turns(g) /\ After(g)[i + 1].percent = Share(g, i + 1)
                 /\ After(g)[i].date \in Int /\ After(g)[i + 1].date \in Int
                 /\ After(g)[i].date <= now /\ now < After(g)[i + 1].date
      <4>1. i + 1 \in 1..N /\ i \in 1..n /\ i <= n /\ i + 1 # 1 /\ (i + 1) - 1 = i
        BY <1>1, <2>3, <3>4
      <4>2. After(g)[i + 1].date = D(i) /\ After(g)[i + 1].percent = Share(g, i + 1)
        <5> HIDE DEF N
        <5> QED  BY <1>7, <4>1
      <4>3. now < D(i) /\ D(i) \in Int
        BY <1>3, <1>4, <1>6, <2>3, <4>1
      <4>4. After(g)[i].date \in Int /\ After(g)[i].date <= now
        <5>1. now >= After(g)[i].date
          BY <1>0, <2>4
        <5>2. After(g)[i].date \in Int
          BY <1>1, <1>2, <1>3, <1>7, <2>3
        <5> QED  BY <5>1, <5>2
      <4>5. i + 1 \in Turns(g)
        BY <4>1 DEF Turns, n, N
      <4> QED  BY <4>2, <4>3, <4>4, <4>5
    <3> QED  BY <1>5, <2>6, <3>1, <3>2, <3>3, <3>4 DEF InForce, i
  <2>8. open # {} /\ begun # {} /\ ~(now >= DateOf(g, g.end))
    BY <1>3, <1>9, <1>11, <2>1 DEF end
  <2> QED  BY <2>7, <2>8
<1> QED  BY <1>3, <1>4, <1>10, <1>11

LEMMA HardShares ==
  ASSUME NEW g, Ordered(g), Sensible(g), NEW window, NEW now \in Int,
         now > g.start, now \notin Instants(g)
  PROVE  CheckerPercent(g, "hard", window, now) = ServerPercent(g, "hard", now)
<1>1. CASE Open(g, now) = {} /\ now >= DateOf(g, g.end)
  BY <1>1 DEF CheckerPercent, ServerPercent, Open
<1>2. CASE /\ Open(g, now) # {} /\ Begun(g, now) # {} /\ ~(now >= DateOf(g, g.end))
           /\ \E i : InForce(g, now, i)
  <2>1. PICK i : InForce(g, now, i)
    BY <1>2
  <2>2. CheckerPercent(g, "hard", window, now) = Before(g)[i].percent
    BY <1>2, <2>1 DEF CheckerPercent, Open, InForce
  <2>3. ServerPercent(g, "hard", now) = After(g)[i].percent
    BY <1>2, <2>1 DEF ServerPercent, Begun, InForce
  <2> QED  BY <2>1, <2>2, <2>3 DEF InForce
<1> QED  BY <1>1, <1>2, ShareInForce

(* Part of a whole, and its quotient.                                       *)
LEMMA PartOf ==
  ASSUME NEW x \in Int, NEW d \in Int, NEW w \in Int, 0 <= x, x <= w, 0 <= d
  PROVE  0 <= x * d /\ x * d <= w * d
<1>1. \A a \in Int, b \in Int : 0 <= a /\ 0 <= b => 0 <= a * b
  OBVIOUS
<1>2. 0 <= (w - x) * d /\ (w - x) * d = w * d - x * d
  BY <1>1
<1>3. x * d \in Int /\ w * d \in Int
  OBVIOUS
<1> QED  BY <1>1, <1>2, <1>3

LEMMA QuotientAtMost ==
  ASSUME NEW y \in Int, NEW w \in Int, w > 0, NEW d \in Int, y <= w * d
  PROVE  y \div w \in Int /\ y \div w <= d
OBVIOUS

(* A checker that slides from a greater share is above the share in force,  *)
(* and manytask on its way to a smaller one below.                          *)
LEMMA SlidingShares ==
  ASSUME NEW g, Ordered(g), Sensible(g), Falling(g), NEW kind, kind # "hard",
         NEW window \in Int, window > 0, NEW now \in Int, now > g.start, now \notin Instants(g)
  PROVE  CheckerPercent(g, kind, window, now) >= ServerPercent(g, kind, now)
<1>1. CASE Open(g, now) = {} /\ now >= DateOf(g, g.end)
  BY <1>1 DEF CheckerPercent, ServerPercent, Open
<1>2. CASE /\ Open(g, now) # {} /\ Begun(g, now) # {} /\ ~(now >= DateOf(g, g.end))
           /\ \E i : InForce(g, now, i)
  <2>1. PICK i : InForce(g, now, i)
    BY <1>2
  <2>2. /\ \A j \in Turns(g) : Share(g, j) \in Int
        /\ \A j \in Turns(g) : j # 1 => Share(g, j) <= Share(g, j - 1)
    <3> DEFINE E == [mult : Int, when : Date]
    <3>1. g.steps \in Seq(E) /\ \A x \in E : x.mult \in Int
      BY DEF Ordered
    <3>2. \A j \in Turns(g) : j # 1 => j - 1 \in DOMAIN g.steps /\ g.steps[j - 1] \in E
      <4> HIDE DEF E
      <4> QED  BY <3>1 DEF Turns
    <3>3. \A j \in Turns(g) : j # 1 => /\ Share(g, j) = g.steps[j - 1].mult
                                      /\ Share(g, j) \in Int /\ Share(g, j) <= Share(g, j - 1)
      BY <3>1, <3>2 DEF Share, Falling
    <3>4. Share(g, 1) \in Int
      BY DEF Share, Whole
    <3> QED  BY <3>3, <3>4
  <2> DEFINE checker == CheckerPercent(g, kind, window, now)
             server == ServerPercent(g, kind, now)
  <2>3. checker \in Int /\ checker >= Share(g, i)
    <3> DEFINE since == IF i = 1 THEN now ELSE Before(g)[i - 1].date
               was == IF i = 1 THEN Whole ELSE Before(g)[i - 1].percent
    <3>1. checker = IF now - since >= window THEN Share(g, i)
                    ELSE was - ((now - since) * (was - Share(g, i))) \div window
      BY <1>2, <2>1 DEF CheckerPercent, Open, InForce
    <3>2. /\ since \in Int /\ was \in Int /\ Share(g, i) \in Int
          /\ 0 <= now - since /\ 0 <= was - Share(g, i)
      <4>1. CASE i = 1
        <5>1. since = now /\ was = Whole /\ Share(g, i) = Whole
          BY <4>1 DEF Share
        <5> QED  BY <5>1 DEF Whole
      <4>2. CASE i # 1
        <5>1. /\ since \in Int /\ since < now /\ was = Share(g, i - 1)
              /\ i \in Turns(g) /\ i - 1 \in Turns(g)
          BY <2>1, <4>2 DEF InForce
        <5>2. was \in Int /\ Share(g, i) \in Int /\ Share(g, i) <= was
          BY <2>2, <4>2, <5>1
        <5> HIDE DEF since, was
        <5> QED  BY <5>1, <5>2
      <4> QED  BY <4>1, <4>2
    <3> HIDE DEF checker, since, was
    <3>3. CASE now - since >= window
      BY <3>1, <3>2, <3>3
    <3>4. CASE ~(now - since >= window)
      <4>1. (now - since) * (was - Share(g, i)) \in Int
        BY <3>2
      <4>2. (now - since) * (was - Share(g, i)) <= window * (was - Share(g, i))
        <5>1. now - since \in Int /\ was - Share(g, i) \in Int /\ now - since <= window
          BY <3>2, <3>4
        <5> QED  BY <3>2, <5>1, PartOf
      <4>3. ((now - since) * (was - Share(g, i))) \div window \in Int
            /\ ((now - since) * (was - Share(g, i))) \div window <= was - Share(g, i)
        <5>1. was - Share(g, i) \in Int
          BY <3>2
        <5> QED  BY <4>1, <4>2, <5>1, QuotientAtMost
      <4> QED  BY <3>1, <3>2, <3>4, <4>3
    <3> QED  BY <3>3, <3>4
  <2>4. server \in Int /\ server <= Share(g, i)
    <3> DEFINE d == After(g)[i + 1].date - After(g)[i].date
               x == now - After(g)[i].date
               y == After(g)[i + 1].percent - Share(g, i)
    <3>1. server = IF i = Len(After(g)) THEN Share(g, i) ELSE Share(g, i) + (x * y) \div d
      BY <1>2, <2>1 DEF ServerPercent, Begun, InForce
    <3>2. Share(g, i) \in Int
      BY <2>1, <2>2 DEF InForce
    <3>3. CASE i = Len(After(g))
      <4> HIDE DEF server
      <4> QED  BY <3>1, <3>2, <3>3
    <3>4. CASE i # Len(After(g))
      <4>1. i + 1 # 1 /\ (i + 1) - 1 = i
        BY <2>1 DEF InForce, Turns
      <4>2. d \in Int /\ d > 0 /\ x \in Int /\ 0 <= x /\ y \in Int /\ 0 <= -y
        <5>1. /\ After(g)[i].date \in Int /\ After(g)[i + 1].date \in Int
              /\ After(g)[i].date <= now /\ now < After(g)[i + 1].date
              /\ i + 1 \in Turns(g) /\ After(g)[i + 1].percent = Share(g, i + 1)
          BY <2>1, <3>4 DEF InForce
        <5>2. d \in Int /\ d > 0 /\ x \in Int /\ 0 <= x
          BY <5>1
        <5>3. Share(g, i + 1) \in Int /\ Share(g, i + 1) <= Share(g, i)
          BY <2>2, <4>1, <5>1
        <5>4. y \in Int /\ 0 <= -y
          BY <3>2, <5>1, <5>3
        <5> QED  BY <5>2, <5>4
      <4> HIDE DEF server, d, x, y
      <4>3. x * y \in Int /\ x * y <= d * 0
        <5>1. -y \in Int /\ 0 <= x * (-y) /\ x * (-y) = -(x * y)
          BY <4>2, PartOf
        <5> QED  BY <4>2, <5>1
      <4>4. (x * y) \div d \in Int /\ (x * y) \div d <= 0
        BY <4>2, <4>3, QuotientAtMost
      <4> QED  BY <3>1, <3>2, <3>4, <4>4
    <3> QED  BY <3>3, <3>4
  <2>5. Share(g, i) \in Int
    BY <2>1, <2>2 DEF InForce
  <2> QED  BY <2>3, <2>4, <2>5
<1> QED  BY <1>1, <1>2, ShareInForce

(* Every schedule a course may have.                                        *)
LEMMA SharesAgreeAt ==
  ASSUME clock \in Int, conf.window \in Int
  PROVE  SharesAgree
<1> SUFFICES ASSUME NEW name \in Range(Groups), NEW g, g = Localised(Schedule[name]),
                    Sensible(g), clock > g.start, clock \notin Instants(g)
             PROVE  /\ conf.kind = "hard" =>
                         CheckerPercent(g, conf.kind, conf.window, clock)
                           = ServerPercent(g, conf.kind, clock)
                    /\ conf.kind # "hard" /\ conf.window > 0 /\ Falling(g) =>
                         CheckerPercent(g, conf.kind, conf.window, clock)
                           >= ServerPercent(g, conf.kind, clock)
  BY DEF SharesAgree
<1>1. Ordered(Schedule[name])
  BY ScheduleAssumption, ValidIsOrdered
<1>2. Ordered(g)
  BY <1>1, LocalisedIsOrdered
<1> QED  BY <1>2, HardShares, SlidingShares

------------------------------------------------------------------------------
(* Time goes on, and no push changes the window of a course.                *)
TimeCounts == clock \in Int /\ "window" \in DOMAIN conf /\ conf.window \in Nat

LEMMA TimeInit == Init => TimeCounts
  BY CoursesAssumption DEF Init, InitRepositories, TimeCounts, IsConfig

LEMMA TimeNext ==
  ASSUME TimeCounts, [Next]_vars
  PROVE  TimeCounts'
<1>1. CASE UNCHANGED vars
  BY <1>1 DEF TimeCounts, vars, repositories
<1>2. CASE Pass
  BY <1>2 DEF TimeCounts, Pass, Tick
<1>3. CASE Submit
  BY <1>3 DEF TimeCounts, Submit, Edit, Pull
<1>4. CASE TeacherPush
  <2>1. PICK enabled : conf' = [conf EXCEPT !.enabled = enabled] /\ clock' = clock
    BY <1>4 DEF TeacherPush, Revise
  <2> QED  BY <2>1 DEF TimeCounts
<1>5. ASSUME NEW r \in Runs, Work(r) PROVE UNCHANGED <<clock, conf>>
  BY <1>5 DEF Work, Validate, Build, Check, Grade, Deploy, EndGlobal, NextTask, EndTask,
              EndReport, BreakStage, SkipStage, DryStage, RunStage, ReportStage, repositories
<1> QED  BY <1>1, <1>2, <1>3, <1>4, <1>5 DEF Next, TimeCounts

(* Between the dates of a group the checker and manytask take the same     *)
(* share of a score where deadlines are hard, and in an interpolating      *)
(* course with falling shares the checker never less than manytask,        *)
(* whatever the schedule.                                                  *)
THEOREM SharesAgreeAlways == Spec => []SharesAgree
<1>1. TimeCounts => SharesAgree
  BY SharesAgreeAt DEF TimeCounts
<1> QED  BY <1>1, TimeInit, TimeNext, PTL DEF Spec

------------------------------------------------------------------------------
(* What the jobs are made of.                                               *)

(* One sequence after the other.                                            *)
LEMMA FlattenIs ==
  ASSUME NEW n \in Nat \ {0}, NEW E, NEW s \in [1..n -> Seq(E)]
  PROVE  FlattenSeq(s) \in Seq(E)
<1> DEFINE Rec(g, k) == [i \in 1..k |-> IF i = 1 THEN s[i] ELSE g[i - 1] \o s[i]]
           Is(k) == \E g : g = Rec(g, k) /\ \A i \in 1..k : g[i] \in Seq(E)
           T == {k \in Nat : k <= n => Is(k)}
<1>1. Is(0)
  <2>1. 1..0 = {}
    OBVIOUS
  <2> DEFINE g == [i \in 1..0 |-> <<>>]
  <2>2. g = Rec(g, 0)
    BY <2>1
  <2> QED  BY <2>1, <2>2
<1>2. ASSUME NEW k \in Nat, k + 1 <= n, NEW g, g = Rec(g, k), \A i \in 1..k : g[i] \in Seq(E)
      PROVE  Is(k + 1)
  <2> DEFINE x == IF k + 1 = 1 THEN s[k + 1] ELSE g[k] \o s[k + 1]
             h == [i \in 1..(k + 1) |-> IF i = k + 1 THEN x ELSE g[i]]
  <2>1. k + 1 \in 1..n /\ s[k + 1] \in Seq(E) /\ (k + 1) - 1 = k /\ (k # 0 => k \in 1..k)
    BY <1>2
  <2>2. x \in Seq(E)
    <3>1. CASE k = 0
      BY <2>1, <3>1
    <3>2. CASE k # 0
      <4>1. g[k] \in Seq(E) /\ k + 1 # 1
        BY <1>2, <2>1, <3>2
      <4> QED  BY <2>1, <4>1
    <3> QED  BY <3>1, <3>2
  <2> HIDE DEF x
  <2>3. \A i \in 1..k : i \in 1..(k + 1) /\ i # k + 1 /\ (i # 1 => i - 1 \in 1..k)
    OBVIOUS
  <2>4. \A i \in 1..(k + 1) : h[i] \in Seq(E)
    BY <1>2, <2>2
  <2>5. ASSUME NEW i \in 1..(k + 1) PROVE h[i] = IF i = 1 THEN s[i] ELSE h[i - 1] \o s[i]
    <3>1. CASE i \in 1..k
      <4>1. h[i] = g[i] /\ (i # 1 => h[i - 1] = g[i - 1])
        BY <2>3, <3>1
      <4>2. g[i] = IF i = 1 THEN s[i] ELSE g[i - 1] \o s[i]
        BY <1>2, <3>1
      <4> QED  BY <4>1, <4>2
    <3>2. CASE i = k + 1
      <4>1. h[i] = x
        BY <3>2
      <4>2. i # 1 => h[i - 1] = g[k]
        <5>1. i # 1 => k \in 1..(k + 1) /\ k # k + 1 /\ i - 1 = k
          BY <3>2
        <5> QED  BY <5>1
      <4> HIDE DEF h
      <4> QED  BY <3>2, <4>1, <4>2 DEF x
    <3> QED  BY <3>1, <3>2
  <2>6. h = Rec(h, k + 1)
    <3>1. h = [i \in 1..(k + 1) |-> h[i]]
      OBVIOUS
    <3> HIDE DEF h
    <3> QED  BY <2>5, <3>1
  <2> HIDE DEF h, Rec
  <2> QED  BY <2>4, <2>6
<1>3. \A k \in Nat : k \in T => k + 1 \in T
  <2> SUFFICES ASSUME NEW k \in Nat, k + 1 <= n, Is(k) PROVE Is(k + 1)
    <3>1. \A k \in Nat : k + 1 \in Nat /\ (k + 1 <= n => k <= n)
      OBVIOUS
    <3> HIDE DEF Is
    <3> QED  BY <3>1
  <2>1. PICK g : g = Rec(g, k) /\ \A i \in 1..k : g[i] \in Seq(E)
    OBVIOUS
  <2> HIDE DEF Is, Rec
  <2> QED  BY <1>2, <2>1
<1>4. Nat \subseteq T
  <2>1. 0 \in T
    <3>1. 0 \in Nat
      OBVIOUS
    <3> HIDE DEF Is
    <3> QED  BY <1>1, <3>1
  <2> HIDE DEF T
  <2> QED  BY <1>3, <2>1, SetInduction
<1>5. Is(n)
  <2> HIDE DEF Is
  <2>1. n \in T /\ n <= n
    BY <1>4
  <2> QED  BY <2>1
<1> DEFINE G == CHOOSE g : g = Rec(g, n)
<1>6. Len(s) = n /\ n # 0 /\ DOMAIN s = 1..n
  OBVIOUS
<1>7. FlattenSeq(s) = G[n]
  BY <1>6 DEF FlattenSeq
<1>8. G = Rec(G, n)
  BY <1>5
<1> HIDE DEF G
<1>9. \A i \in 1..n : G[i] \in Seq(E)
  <2> DEFINE V == {k \in Nat : k + 1 <= n => G[k + 1] \in Seq(E)}
  <2>1. 0 \in V
    <3>1. 0 \in Nat /\ 1 \in 1..n
      OBVIOUS
    <3>2. G[1] = s[1] /\ s[1] \in Seq(E)
      BY <1>8, <3>1
    <3>3. 0 + 1 = 1
      OBVIOUS
    <3> QED  BY <3>1, <3>2, <3>3
  <2>2. ASSUME NEW k \in Nat, k \in V PROVE k + 1 \in V
    <3> SUFFICES ASSUME (k + 1) + 1 <= n PROVE G[(k + 1) + 1] \in Seq(E)
      <4>1. k + 1 \in Nat
        OBVIOUS
      <4> QED  BY <4>1
    <3>1. G[k + 1] \in Seq(E) /\ (k + 1) + 1 \in 1..n /\ (k + 1) + 1 # 1 /\ ((k + 1) + 1) - 1 = k + 1
      BY <2>2
    <3>2. s[(k + 1) + 1] \in Seq(E)
      BY <3>1
    <3>3. G[(k + 1) + 1] = G[k + 1] \o s[(k + 1) + 1]
      BY <1>8, <3>1
    <3> QED  BY <3>1, <3>2, <3>3
  <2>3. Nat \subseteq V
    <3> HIDE DEF V
    <3> QED  BY <2>1, <2>2, SetInduction
  <2> SUFFICES ASSUME NEW i \in 1..n PROVE G[i] \in Seq(E)
    OBVIOUS
  <2>4. i - 1 \in Nat /\ (i - 1) + 1 = i /\ (i - 1) + 1 <= n
    OBVIOUS
  <2>5. G[(i - 1) + 1] \in Seq(E)
    <3>1. i - 1 \in V
      <4> HIDE DEF V
      <4> QED  BY <2>3, <2>4
    <3> QED  BY <2>4, <3>1
  <2> QED  BY <2>4, <2>5
<1> QED  BY <1>6, <1>7, <1>9

(* The tasks of a course are a sequence, and so are those taken from it.    *)
LEMMA TasksOfGroups == Tasks \in Seq(UNION {Range(TasksOf[g]) : g \in Range(Groups)})
<1> DEFINE E == UNION {Range(TasksOf[g]) : g \in Range(Groups)}
           n == Len(Groups)
           s == [i \in DOMAIN Groups |-> TasksOf[Groups[i]]]
<1>1. n \in Nat /\ DOMAIN Groups = 1..n /\ \A i \in 1..n : Groups[i] \in Range(Groups)
  BY RepositoryAssumption DEF Range
<1>2. ASSUME NEW g \in Range(Groups) PROVE TasksOf[g] \in Seq(E)
  <2>1. TasksOf[g] \in Seq(Range(TasksOf[g])) /\ Range(TasksOf[g]) \subseteq E
    BY RepositoryAssumption
  <2> HIDE DEF E
  <2> QED  BY <2>1
<1> HIDE DEF E
<1>3. s \in [1..n -> Seq(E)]
  BY <1>1, <1>2
<1>4. Tasks = FlattenSeq(s)
  BY DEF Tasks
<1>5. Tasks \in Seq(E)
  <2>1. CASE n = 0
    <3>1. Len(s) = 0
      BY <1>1, <2>1
    <3>2. Tasks = s /\ s = <<>>
      BY <1>1, <1>4, <2>1, <3>1 DEF FlattenSeq
    <3> QED  BY <3>2
  <2>2. CASE n # 0
    <3>1. n \in Nat \ {0}
      BY <1>1, <2>2
    <3> HIDE DEF n, s
    <3> QED  BY <1>3, <1>4, <3>1, FlattenIs
  <2> QED  BY <2>1, <2>2
<1> QED  BY <1>5 DEF E

LEMMA TasksAre == Tasks \in Seq(Range(Tasks))
BY TasksOfGroups DEF Range

LEMMA SomeTasks ==
  ASSUME NEW E, NEW s \in Seq(E), NEW X
  PROVE  Among(s, X) \in Seq(E)
<1>1. Len(s) \in Nat /\ s \in [1..Len(s) -> E]
  OBVIOUS
<1> QED  BY <1>1, AmongIs

LEMMA KnownAre ==
  ASSUME NEW ref, NEW c, NEW last, NEW named
  PROVE  /\ Known(ref, c) \in Seq(Range(Tasks))
         /\ DetectChanges(ref, c, last, named) \in Seq(Range(Tasks))
<1>1. Known(ref, c) \in Seq(Range(Tasks))
  BY TasksAre, SomeTasks DEF Known
<1>2. DetectChanges(ref, c, last, named) \in Seq(Range(Tasks))
  BY <1>1, SomeTasks DEF DetectChanges
<1> QED  BY <1>1, <1>2

(* The least and the greatest of several integers are integers.            *)
LEMMA ExtremesAreInt ==
  ASSUME NEW n \in Nat \ {0}, NEW s \in [1..n -> Int]
  PROVE  Min(Range(s)) \in Int /\ Max(Range(s)) \in Int
<1> DEFINE Least(k) == k + 1 <= n => \E i \in 1..(k + 1) : \A j \in 1..(k + 1) : s[i] <= s[j]
           Most(k) == k + 1 <= n => \E i \in 1..(k + 1) : \A j \in 1..(k + 1) : s[i] >= s[j]
           T == {k \in Nat : Least(k) /\ Most(k)}
<1>1. 0 \in T
  <2>1. 1..(0 + 1) = {1} /\ 0 \in Nat /\ s[1] <= s[1] /\ s[1] >= s[1]
    OBVIOUS
  <2> QED  BY <2>1
<1>2. \A k \in Nat : k \in T => k + 1 \in T
  <2> SUFFICES ASSUME NEW k \in Nat, Least(k), Most(k) PROVE Least(k + 1) /\ Most(k + 1)
    <3>1. \A k \in Nat : k + 1 \in Nat
      OBVIOUS
    <3> HIDE DEF Least, Most
    <3> QED  BY <3>1
  <2> SUFFICES ASSUME (k + 1) + 1 <= n
               PROVE  /\ \E i \in 1..((k + 1) + 1) : \A j \in 1..((k + 1) + 1) : s[i] <= s[j]
                      /\ \E i \in 1..((k + 1) + 1) : \A j \in 1..((k + 1) + 1) : s[i] >= s[j]
    OBVIOUS
  <2> DEFINE m == k + 1
  <2>1. /\ m \in Nat /\ m <= n /\ m + 1 \in 1..(m + 1) /\ 1..m \subseteq 1..(m + 1)
        /\ \A j \in 1..(m + 1) : j = m + 1 \/ j \in 1..m
        /\ \A j \in 1..(m + 1) : s[j] \in Int
    OBVIOUS
  <2>2. PICK a \in 1..m : \A j \in 1..m : s[a] <= s[j]
    BY <2>1
  <2>3. PICK b \in 1..m : \A j \in 1..m : s[b] >= s[j]
    BY <2>1
  <2> HIDE DEF m
  <2>4. \E i \in 1..(m + 1) : \A j \in 1..(m + 1) : s[i] <= s[j]
    <3>1. CASE s[a] <= s[m + 1]
      BY <2>1, <2>2, <3>1
    <3>2. CASE s[m + 1] <= s[a]
      <4>1. \A j \in 1..(m + 1) : s[m + 1] <= s[j]
        BY <2>1, <2>2, <3>2
      <4> QED  BY <2>1, <4>1
    <3> QED  BY <2>1, <3>1, <3>2
  <2>5. \E i \in 1..(m + 1) : \A j \in 1..(m + 1) : s[i] >= s[j]
    <3>1. CASE s[b] >= s[m + 1]
      BY <2>1, <2>3, <3>1
    <3>2. CASE s[m + 1] >= s[b]
      <4>1. \A j \in 1..(m + 1) : s[m + 1] >= s[j]
        BY <2>1, <2>3, <3>2
      <4> QED  BY <2>1, <4>1
    <3> QED  BY <2>1, <3>1, <3>2
  <2> QED  BY <2>4, <2>5 DEF m
<1>3. Nat \subseteq T
  <2> HIDE DEF T
  <2> QED  BY <1>1, <1>2, SetInduction
<1>4. n - 1 \in Nat /\ (n - 1) + 1 = n /\ (n - 1) + 1 <= n
  OBVIOUS
<1>5. Least(n - 1) /\ Most(n - 1)
  <2> HIDE DEF Least, Most
  <2> QED  BY <1>3, <1>4
<1>6. (\E i \in 1..n : \A j \in 1..n : s[i] <= s[j]) /\ (\E i \in 1..n : \A j \in 1..n : s[i] >= s[j])
  BY <1>4, <1>5
<1>7. Range(s) = {s[i] : i \in 1..n}
  BY DEF Range
<1>8. \E x \in Range(s) : \A y \in Range(s) : x <= y
  BY <1>6, <1>7
<1>9. \E x \in Range(s) : \A y \in Range(s) : x >= y
  BY <1>6, <1>7
<1>10. Min(Range(s)) \in Range(s)
  BY <1>8 DEF Min
<1>11. Max(Range(s)) \in Range(s)
  BY <1>9 DEF Max
<1> QED  BY <1>7, <1>10, <1>11

(* What the aggregate plugin makes of integers is an integer.              *)
LEMMA AggregateIsInt ==
  ASSUME NEW n \in Nat, NEW scored \in [1..n -> Int], NEW weights \in Seq(Int), NEW strategy
  PROVE  Aggregate(scored, weights, strategy).percent \in Int
<1> DEFINE ws == [i \in DOMAIN scored |-> scored[i] * (IF weights = <<>> THEN 1 ELSE weights[i])]
<1>1. Len(scored) = n /\ DOMAIN scored = 1..n /\ (scored = <<>> <=> n = 0)
  OBVIOUS
<1>2. Fails.percent \in Int
  BY DEF Fails
<1>3. CASE scored = <<>> \/ (weights # <<>> /\ Len(weights) # Len(scored))
  BY <1>2, <1>3 DEF Aggregate
<1>4. CASE ~(scored = <<>> \/ (weights # <<>> /\ Len(weights) # Len(scored)))
  <2>1. n \in Nat \ {0} /\ (weights # <<>> => Len(weights) = n)
    BY <1>1, <1>4
  <2>2. \A i \in 1..n : (IF weights = <<>> THEN 1 ELSE weights[i]) \in Int
    BY <2>1
  <2>3. ws \in [1..n -> Int]
    BY <1>1, <2>2
  <2>4. Len(ws) = n
    BY <2>3
  <2> HIDE DEF ws
  <2>5. SumSeq(ws) \in Int /\ SumSeq(ws) \div n \in Int
    <3>1. SumSeq(ws) \in Int
      BY <2>1, <2>3, SumIsInt
    <3> QED  BY <2>1, <3>1
  <2>6. Min(Range(ws)) \in Int /\ Max(Range(ws)) \in Int
    BY <2>1, <2>3, ExtremesAreInt
  <2>7. FoldLeft(LAMBDA p, w : (p * w) \div Full, Full, ws) \in Int
    BY <2>1, <2>3, ProductIsInt
  <2>8. Aggregate(scored, weights, strategy)
          = Succeeds(CASE strategy = "mean" -> SumSeq(ws) \div Len(ws)
                       [] strategy = "sum"  -> SumSeq(ws)
                       [] strategy = "min"  -> Min(Range(ws))
                       [] strategy = "max"  -> Max(Range(ws))
                       [] OTHER -> FoldLeft(LAMBDA p, w : (p * w) \div Full, Full, ws))
    BY <1>4 DEF Aggregate, ws
  <2> DEFINE product == FoldLeft(LAMBDA p, w : (p * w) \div Full, Full, ws)
             share == CASE strategy = "mean" -> SumSeq(ws) \div Len(ws)
                        [] strategy = "sum"  -> SumSeq(ws)
                        [] strategy = "min"  -> Min(Range(ws))
                        [] strategy = "max"  -> Max(Range(ws))
                        [] OTHER -> product
  <2>9. product \in Int
    BY <2>7
  <2> HIDE DEF product
  <2>10. share \in Int
    BY <2>4, <2>5, <2>6, <2>9
  <2>11. Aggregate(scored, weights, strategy) = Succeeds(share)
    BY <2>8 DEF product
  <2> HIDE DEF share
  <2> QED  BY <2>10, <2>11 DEF Succeeds
<1> QED  BY <1>3, <1>4

(* Every result of a plugin has a percentage.                              *)
Registered(run) ==
    Head(run.rest).run # "aggregate" \/ \A k \in Range(Head(run.rest).needs) : run.outputs[k].percent \in Int

LEMMA ResultsAreInt ==
  ASSUME NEW run, IsStage(Head(run.rest)), Head(run.rest).run # "report", Registered(run),
         NEW x \in Results(run)
  PROVE  x.percent \in Int
<1> DEFINE s == Head(run.rest)
<1>1. Fails.percent \in Int /\ \A p : Succeeds(p).percent = p
  BY DEF Fails, Succeeds
<1>2. Full \in Int /\ Full \div 2 \in Int
  BY FullAssumption
<1>3. Shares(run) \subseteq Int
  BY <1>2 DEF Shares
<1>4. CASE s.run = "share"
  BY <1>1, <1>3, <1>4 DEF Results
<1>5. CASE s.run = "tests"
  BY <1>1, <1>2, <1>5 DEF Results
<1>6. CASE s.run = "script"
  BY <1>1, <1>2, <1>6 DEF Results
<1>7. CASE s.run = "aggregate"
  <2>1. s.needs \in Seq(Range(s.needs)) /\ s.weights \in Seq(Int)
    BY DEF IsStage
  <2>2. \A k \in Range(s.needs) : run.outputs[k].percent \in Int
    BY <1>7 DEF Registered
  <2>3. Len(s.needs) \in Nat /\ Scored(run) \in [1..Len(s.needs) -> Int]
    <3>1. Len(s.needs) \in Nat /\ DOMAIN s.needs = 1..Len(s.needs)
      BY <2>1
    <3>2. \A i \in DOMAIN s.needs : s.needs[i] \in Range(s.needs)
      BY DEF Range
    <3> QED  BY <2>2, <3>1, <3>2 DEF Scored
  <2>4. Aggregate(Scored(run), s.weights, s.strategy).percent \in Int
    <3> HIDE DEF s
    <3> QED  BY <2>1, <2>3, AggregateIsInt
  <2>5. x = Aggregate(Scored(run), s.weights, s.strategy)
    BY <1>7 DEF Results
  <2> QED  BY <2>4, <2>5
<1> QED  BY <1>4, <1>5, <1>6, <1>7 DEF IsStage

------------------------------------------------------------------------------
(* The jobs.  A course keeps its pipelines, whichever tasks it enables.     *)

Designs == {<<c.conf.pipes, c.conf.own, c.conf.testing>> : c \in Courses}
ConfOK(c) == {"pipes", "own", "testing"} \subseteq DOMAIN c /\ <<c.pipes, c.own, c.testing>> \in Designs

LEMMA DesignOf ==
  ASSUME NEW c, ConfOK(c)
  PROVE  \E d \in Courses : /\ c.pipes = d.conf.pipes /\ c.own = d.conf.own
                            /\ c.testing = d.conf.testing
                            /\ \A which : PipelinesFor(c, which) = PipelinesFor(d.conf, which)
<1>1. PICK d \in Courses : c.pipes = d.conf.pipes /\ c.own = d.conf.own /\ c.testing = d.conf.testing
  BY DEF ConfOK, Designs
<1>2. \A which : PipelinesFor(c, which) = PipelinesFor(d.conf, which)
  BY <1>1 DEF PipelinesFor
<1> QED  BY <1>1, <1>2

LEMMA PipelineIs ==
  ASSUME NEW c
  PROVE  /\ c.pipes.global \in PipelinesFor(c, "global")
         /\ \A ref, t, which : PipelineOf(ref, c, t, which) \in PipelinesFor(c, which)
<1>1. c.pipes.global \in PipelinesFor(c, "global")
  BY DEF PipelinesFor
<1>2. ASSUME NEW ref, NEW t, NEW which PROVE PipelineOf(ref, c, t, which) \in PipelinesFor(c, which)
  <2> DEFINE own(x) == Present(ref, x) /\ x \in DOMAIN c.own /\ which \in DOMAIN c.own[x]
  <2>1. \A x : own(x) => c.own[x][which] \in PipelinesFor(c, which)
    BY DEF PipelinesFor
  <2>2. c.pipes[which] \in PipelinesFor(c, which)
    BY DEF PipelinesFor
  <2>3. PipelineOf(ref, c, t, which)
          \in {c.own[x][which] : x \in {x \in {t, GroupOf(t)} : own(x)}} \cup {c.pipes[which]}
    BY DEF PipelineOf
  <2> HIDE DEF own
  <2> QED  BY <2>1, <2>2, <2>3
<1> QED  BY <1>1, <1>2

LEMMA PipelineOK ==
  ASSUME NEW c, ConfOK(c), NEW which \in {"global", "task", "report"}, NEW p \in PipelinesFor(c, which)
  PROVE  IsPipeline(p)
<1>1. PICK d \in Courses : PipelinesFor(c, which) = PipelinesFor(d.conf, which)
  BY DesignOf
<1> QED  BY <1>1, CoursesAssumption DEF IsConfig

LEMMA EnablingKeeps ==
  ASSUME NEW c, ConfOK(c), NEW enabled
  PROVE  ConfOK([c EXCEPT !.enabled = enabled])
<1> DEFINE d == [c EXCEPT !.enabled = enabled]
<1>1. DOMAIN d = DOMAIN c /\ \A f \in DOMAIN c : f # "enabled" => d[f] = c[f]
  OBVIOUS
<1>2. d.pipes = c.pipes /\ d.own = c.own /\ d.testing = c.testing
  BY <1>1 DEF ConfOK
<1> HIDE DEF d
<1>3. ConfOK(d)
  BY <1>1, <1>2 DEF ConfOK
<1> QED  BY <1>3 DEF d

LEMMA TailOf ==
  ASSUME NEW p, p \in Seq(Range(p)), p # <<>>
  PROVE  /\ Tail(p) \in Seq(Range(Tail(p)))
         /\ Range(p) = {Head(p)} \cup Range(Tail(p))
<1> DEFINE n == Len(p)
           q == Tail(p)
<1>1. n \in Nat /\ n # 0 /\ DOMAIN p = 1..n /\ Head(p) = p[1]
  OBVIOUS
<1>2. DOMAIN q = 1..(n - 1) /\ \A i \in 1..(n - 1) : q[i] = p[i + 1]
  OBVIOUS
<1>3. q \in Seq(Range(p))
  OBVIOUS
<1> HIDE DEF q, n
<1>4. Range(q) \subseteq Range(p)
  <2>1. \A i \in 1..(n - 1) : i + 1 \in 1..n
    BY <1>1
  <2> QED  BY <1>1, <1>2, <2>1 DEF Range
<1>5. p[1] \in Range(p)
  BY <1>1 DEF Range
<1>6. Range(p) \subseteq {p[1]} \cup Range(q)
  <2> SUFFICES ASSUME NEW i \in 1..n PROVE p[i] \in {p[1]} \cup Range(q)
    BY <1>1 DEF Range
  <2>1. CASE i = 1
    BY <2>1
  <2>2. CASE i # 1
    <3>1. i - 1 \in 1..(n - 1) /\ (i - 1) + 1 = i
      BY <1>1, <2>2
    <3>2. q[i - 1] = p[i]
      BY <1>2, <3>1
    <3> QED  BY <1>2, <3>1, <3>2 DEF Range
  <2> QED  BY <2>1, <2>2
<1>7. q \in Seq(Range(q))
  <2>1. Len(q) \in Nat /\ DOMAIN q = 1..Len(q) /\ q = [i \in 1..Len(q) |-> q[i]]
    BY <1>3
  <2>2. \A i \in 1..Len(q) : q[i] \in Range(q)
    BY <2>1 DEF Range
  <2>3. q \in [1..Len(q) -> Range(q)]
    BY <2>1, <2>2
  <2> QED  BY <2>1, <2>3
<1> QED  BY <1>1, <1>4, <1>5, <1>6, <1>7 DEF q

JobFields == {"kind", "step", "exit", "conf", "at", "root", "last", "named", "ref", "files", "todo",
              "rest", "skip", "passed", "outputs", "tasks", "bad", "unsent", "sent"}

JobOK(run) ==
    /\ DOMAIN run = JobFields
    /\ run.kind \in {"course", "grade"}
    /\ run.step \in {"queued", "build", "built", "global", "next", "task", "report", "deploy", "over"}
    /\ ConfOK(run.conf)
    /\ run.step = "built" => ConfOK(run.ref.conf)
    /\ run.step \in {"build", "built", "deploy"} => run.kind = "course"
    /\ run.todo \in Seq(Range(Tasks))
    /\ run.step \in {"task", "report"} => run.todo # <<>>
    /\ run.step \in {"queued", "build", "built", "deploy", "over"} => run.todo = <<>>
    /\ IsPipeline(run.rest)
    /\ \A k \in DOMAIN run.outputs : run.outputs[k].percent \in Int

LEMMA NoPipeline == IsPipeline(<<>>) /\ <<>> \in Seq(Range(Tasks)) /\ DOMAIN <<>> = {}
<1>1. DOMAIN <<>> = {} /\ Range(<<>>) = {} /\ \A E : <<>> \in Seq(E)
  BY DEF Range
<1> QED  BY <1>1 DEF IsPipeline

(* What every assignment of a job leaves in it.                            *)
LEMMA OverIs ==
  ASSUME NEW run, NEW exit, DOMAIN run = JobFields
  PROVE  /\ DOMAIN Over(run, exit) = JobFields
         /\ Over(run, exit).step = "over" /\ Over(run, exit).exit = exit
         /\ Over(run, exit).todo = <<>> /\ Over(run, exit).rest = <<>>
         /\ Over(run, exit).outputs = <<>>
         /\ \A f \in {"kind", "conf", "tasks", "bad", "unsent", "sent"} : Over(run, exit)[f] = run[f]
BY DEF Over, JobFields

LEMMA OverOK ==
  ASSUME NEW run, NEW exit, JobOK(run)
  PROVE  JobOK(Over(run, exit))
<1> DEFINE o == Over(run, exit)
<1>1. /\ DOMAIN o = JobFields /\ o.step = "over" /\ o.todo = <<>> /\ o.rest = <<>> /\ o.outputs = <<>>
      /\ o.kind = run.kind /\ o.conf = run.conf
  BY OverIs DEF JobOK
<1> HIDE DEF o
<1>2. JobOK(o)
  BY <1>1, NoPipeline DEF JobOK
<1> QED  BY <1>2 DEF o

LEMMA SettleIs ==
  ASSUME NEW run, NEW ok, NEW percent, DOMAIN run = JobFields
  PROVE  /\ DOMAIN Settle(run, ok, percent) = JobFields
         /\ Settle(run, ok, percent).rest = Tail(run.rest)
         /\ Settle(run, ok, percent).outputs = Register(run, percent)
         /\ Settle(run, ok, percent).skip
              = (run.skip \/ (~ok /\ ~Head(run.rest).partial /\ Head(run.rest).fail = "fast"))
         /\ Settle(run, ok, percent).passed
              = (run.passed /\ ~(~ok /\ ~Head(run.rest).partial /\ Head(run.rest).fail # "never"))
         /\ \A f \in {"kind", "step", "exit", "conf", "ref", "todo", "tasks", "bad", "unsent", "sent"} :
              Settle(run, ok, percent)[f] = run[f]
BY DEF Settle, JobFields

LEMMA RegisterIs ==
  ASSUME NEW run, NEW percent
  PROVE  /\ Head(run.rest).key = None => Register(run, percent) = run.outputs
         /\ Head(run.rest).key # None =>
              /\ DOMAIN Register(run, percent) = DOMAIN run.outputs \cup {Head(run.rest).key}
              /\ Register(run, percent)[Head(run.rest).key] = [percent |-> percent, of |-> Subject(run)]
              /\ \A k \in DOMAIN run.outputs :
                   k # Head(run.rest).key => Register(run, percent)[k] = run.outputs[k]
<1> DEFINE s == Head(run.rest)
           v == [percent |-> percent, of |-> Subject(run)]
<1>1. Register(run, percent) = IF s.key = None THEN run.outputs ELSE With(run.outputs, s.key, v)
  BY DEF Register
<1> HIDE DEF s, v
<1>2. /\ DOMAIN With(run.outputs, s.key, v) = DOMAIN run.outputs \cup {s.key}
      /\ With(run.outputs, s.key, v)[s.key] = v
      /\ \A x \in DOMAIN run.outputs : x # s.key => With(run.outputs, s.key, v)[x] = run.outputs[x]
  BY DEF With
<1> QED  BY <1>1, <1>2 DEF s, v

LEMMA SettleOK ==
  ASSUME NEW run, NEW ok, NEW percent \in Int, JobOK(run), run.rest # <<>>
  PROVE  JobOK(Settle(run, ok, percent))
<1> DEFINE x == Settle(run, ok, percent)
<1>1. /\ DOMAIN x = JobFields /\ x.rest = Tail(run.rest) /\ x.outputs = Register(run, percent)
      /\ x.kind = run.kind /\ x.step = run.step /\ x.conf = run.conf /\ x.ref = run.ref
      /\ x.todo = run.todo
  BY SettleIs DEF JobOK
<1>2. IsPipeline(Tail(run.rest))
  BY TailOf DEF JobOK, IsPipeline
<1>3. \A k \in DOMAIN Register(run, percent) : Register(run, percent)[k].percent \in Int
  <2>1. \A k \in DOMAIN run.outputs : run.outputs[k].percent \in Int
    BY DEF JobOK
  <2>2. [percent |-> percent, of |-> Subject(run)].percent = percent
    OBVIOUS
  <2> DEFINE key == Head(run.rest).key
             reg == Register(run, percent)
             v   == [percent |-> percent, of |-> Subject(run)]
  <2>3. /\ key = None => reg = run.outputs
        /\ key # None => /\ DOMAIN reg = DOMAIN run.outputs \cup {key}
                         /\ reg[key] = v
                         /\ \A k \in DOMAIN run.outputs : k # key => reg[k] = run.outputs[k]
    BY RegisterIs
  <2> HIDE DEF key, reg, v
  <2>4. \A k \in DOMAIN reg : reg[k].percent \in Int
    <3>1. CASE key = None
      BY <2>1, <2>3, <3>1
    <3>2. CASE key # None
      BY <2>1, <2>2, <2>3, <3>2 DEF v
    <3> QED  BY <3>1, <3>2
  <2> QED  BY <2>4 DEF reg
<1> HIDE DEF x
<1>4. JobOK(x)
  BY <1>1, <1>2, <1>3 DEF JobOK
<1> QED  BY <1>4 DEF x

LEMMA BeginIs ==
  ASSUME NEW run, NEW ref, NEW tasks, DOMAIN run = JobFields
  PROVE  /\ DOMAIN Begin(run, ref, tasks) = JobFields
         /\ Begin(run, ref, tasks).step = "global"
         /\ Begin(run, ref, tasks).ref = ref /\ Begin(run, ref, tasks).conf = ref.conf
         /\ Begin(run, ref, tasks).todo = tasks /\ Begin(run, ref, tasks).tasks = Range(tasks)
         /\ Begin(run, ref, tasks).rest = ref.conf.pipes.global
         /\ \A f \in {"kind", "exit", "skip", "passed", "outputs", "bad", "unsent", "sent"} :
              Begin(run, ref, tasks)[f] = run[f]
BY DEF Begin, JobFields

LEMMA BeginOK ==
  ASSUME NEW run, NEW ref, NEW tasks \in Seq(Range(Tasks)), JobOK(run), ConfOK(ref.conf)
  PROVE  JobOK(Begin(run, ref, tasks))
<1> DEFINE x == Begin(run, ref, tasks)
<1>1. /\ DOMAIN x = JobFields /\ x.step = "global" /\ x.ref = ref /\ x.conf = ref.conf
      /\ x.todo = tasks /\ x.rest = ref.conf.pipes.global /\ x.kind = run.kind /\ x.outputs = run.outputs
  BY BeginIs DEF JobOK
<1>2. IsPipeline(ref.conf.pipes.global)
  <2>1. ref.conf.pipes.global \in PipelinesFor(ref.conf, "global")
    BY PipelineIs
  <2> QED  BY <2>1, PipelineOK
<1> HIDE DEF x
<1>3. JobOK(x)
  BY <1>1, <1>2 DEF JobOK
<1> QED  BY <1>3 DEF x

LEMMA EntersIs ==
  ASSUME NEW run, NEW step, NEW pipeline, DOMAIN run = JobFields
  PROVE  /\ DOMAIN Enters(run, step, pipeline) = JobFields
         /\ Enters(run, step, pipeline).step = step /\ Enters(run, step, pipeline).rest = pipeline
         /\ ~Enters(run, step, pipeline).skip /\ Enters(run, step, pipeline).passed
         /\ \A f \in {"kind", "exit", "conf", "ref", "todo", "outputs", "tasks", "bad", "unsent", "sent"} :
              Enters(run, step, pipeline)[f] = run[f]
BY DEF Enters, JobFields

LEMMA EntersOK ==
  ASSUME NEW run, NEW step \in {"task", "report"}, NEW ref, NEW t, JobOK(run), run.todo # <<>>
  PROVE  JobOK(Enters(run, step, PipelineOf(ref, run.conf, t, step)))
<1> DEFINE p == PipelineOf(ref, run.conf, t, step)
           x == Enters(run, step, p)
<1>0. DOMAIN run = JobFields
  BY DEF JobOK
<1> HIDE DEF p
<1>1. /\ DOMAIN x = JobFields /\ x.step = step /\ x.conf = run.conf
      /\ x.todo = run.todo /\ x.rest = p /\ x.kind = run.kind /\ x.outputs = run.outputs
  BY <1>0, EntersIs
<1>2. IsPipeline(p)
  <2>1. ConfOK(run.conf)
    BY DEF JobOK
  <2>2. p \in PipelinesFor(run.conf, step)
    BY PipelineIs DEF p
  <2> QED  BY <2>1, <2>2, PipelineOK
<1> HIDE DEF x
<1>3. JobOK(x)
  BY <1>1, <1>2 DEF JobOK
<1> QED  BY <1>3 DEF x, p

(* The stage at hand.                                                       *)
LEMMA StageIs ==
  ASSUME NEW run, IsPipeline(run.rest), run.rest # <<>>
  PROVE  Head(run.rest) \in Range(run.rest) /\ IsStage(Head(run.rest))
BY TailOf DEF IsPipeline

LEMMA OutputIs ==
  ASSUME NEW run, JobOK(run), run.rest # <<>>, Resolved(run), Head(run.rest).run = "report"
  PROVE  /\ Head(run.rest).needs[1] \in DOMAIN run.outputs
         /\ run.outputs[Head(run.rest).needs[1]].percent \in Int
<1> DEFINE s == Head(run.rest)
<1>1. s.needs # <<>> /\ s.needs \in Seq(Range(s.needs))
  BY StageIs DEF JobOK, IsStage
<1> HIDE DEF s
<1>2. 1 \in DOMAIN s.needs
  BY <1>1
<1>3. s.needs[1] \in Range(s.needs)
  BY <1>2 DEF Range
<1>4. s.needs[1] \in DOMAIN run.outputs
  BY <1>3 DEF Resolved, Refs, s
<1> QED  BY <1>4 DEF JobOK, s

(* The next job, action by action.                                         *)
JobsInv ==
    /\ ConfOK(conf) /\ ConfOK(image.conf)
    /\ scores \in [Range(Tasks) -> Int]
    /\ DOMAIN runs = Runs
    /\ \A r \in Runs : JobOK(runs[r])

LEMMA BecomeIs ==
  ASSUME NEW r \in Runs, NEW x, DOMAIN runs = Runs, Become(r, x)
  PROVE  DOMAIN runs' = Runs /\ runs'[r] = x /\ \A q \in Runs : q # r => runs'[q] = runs[q]
BY DEF Become

LEMMA MaxOfTwo ==
  ASSUME NEW a \in Int, NEW b \in Int
  PROVE  Max({a, b}) \in Int /\ Max({a, b}) >= a /\ Max({a, b}) >= b
<1>1. \E x \in {a, b} : \A y \in {a, b} : x >= y
  <2>1. CASE a >= b
    BY <2>1
  <2>2. CASE b >= a
    BY <2>2
  <2> QED  BY <2>1, <2>2
<1>2. Max({a, b}) \in {a, b} /\ \A y \in {a, b} : Max({a, b}) >= y
  BY <1>1 DEF Max
<1> QED  BY <1>2

LEMMA StoreIs ==
  ASSUME NEW t, NEW percent \in Int, scores \in [Range(Tasks) -> Int]
  PROVE  /\ Store(t, percent) \in [Range(Tasks) -> Int]
         /\ \A u \in Range(Tasks) : Store(t, percent)[u] >= scores[u]
         /\ \A u \in Range(Tasks) : u # t => Store(t, percent)[u] = scores[u]
         /\ t \in Range(Tasks) => Store(t, percent)[t] >= percent
<1> DEFINE x == Store(t, percent)
<1>1. /\ x = [u \in Range(Tasks) |-> x[u]]
      /\ \A u \in Range(Tasks) : x[u] = IF u = t THEN Max({scores[u], percent}) ELSE scores[u]
  BY DEF Store
<1>2. \A u \in Range(Tasks) : /\ Max({scores[u], percent}) \in Int
                              /\ Max({scores[u], percent}) >= scores[u]
                              /\ Max({scores[u], percent}) >= percent
  <2> HIDE DEF x
  <2> TAKE u \in Range(Tasks)
  <2>1. scores[u] \in Int
    OBVIOUS
  <2> QED  BY <2>1, MaxOfTwo
<1> HIDE DEF x
<1>3. \A u \in Range(Tasks) : x[u] \in Int /\ x[u] >= scores[u]
  <2> TAKE u \in Range(Tasks)
  <2>1. CASE u = t
    BY <1>1, <1>2, <2>1
  <2>2. CASE u # t
    <3>1. x[u] = scores[u] /\ scores[u] \in Int
      BY <1>1, <2>2
    <3> QED  BY <3>1
  <2> QED  BY <2>1, <2>2
<1>4. x \in [Range(Tasks) -> Int]
  BY <1>1, <1>3
<1> QED  BY <1>1, <1>2, <1>3, <1>4 DEF x

(* A job that is queued.                                                    *)
LEMMA QueuedIs ==
  ASSUME NEW kind \in {"course", "grade"}, NEW c, NEW tree, NEW last, NEW named, ConfOK(c)
  PROVE  /\ JobOK(Queued(kind, c, tree, last, named))
         /\ Queued(kind, c, tree, last, named).kind = kind
         /\ Queued(kind, c, tree, last, named).step = "queued"
         /\ Queued(kind, c, tree, last, named).exit = None
         /\ Queued(kind, c, tree, last, named).todo = <<>>
         /\ Queued(kind, c, tree, last, named).sent = <<>>
         /\ Queued(kind, c, tree, last, named).bad = {}
         /\ Queued(kind, c, tree, last, named).unsent = {}
<1> DEFINE x == Queued(kind, c, tree, last, named)
<1>1. /\ DOMAIN x = JobFields /\ x.kind = kind /\ x.step = "queued" /\ x.exit = None
      /\ x.conf = c /\ x.todo = <<>> /\ x.rest = <<>> /\ x.outputs = <<>> /\ x.sent = <<>>
      /\ x.bad = {} /\ x.unsent = {}
  BY DEF Queued, JobFields
<1> HIDE DEF x
<1>2. JobOK(x)
  BY <1>1, NoPipeline DEF JobOK
<1> QED  BY <1>1, <1>2 DEF x

LEMMA ValidateIs ==
  ASSUME JobsInv, NEW r \in Runs, Validate(r)
  PROVE  \E x : Become(r, x) /\ JobOK(x)
<1> DEFINE run == runs[r]
           y == [run EXCEPT !.step = "build"]
<1>1. JobOK(run) /\ run.step = "queued" /\ run.kind = "course"
  BY DEF JobsInv, Validate
<1>2. Become(r, y) \/ Become(r, Over(run, "failed"))
  BY DEF Validate
<1> HIDE DEF run
<1>3. JobOK(Over(run, "failed"))
  BY <1>1, OverOK
<1>4. JobOK(y)
  <2>1. /\ DOMAIN y = JobFields /\ y.step = "build"
        /\ \A f \in {"kind", "conf", "todo", "rest", "outputs"} : y[f] = run[f]
    BY <1>1 DEF JobOK, JobFields
  <2> HIDE DEF y
  <2> QED  BY <1>1, <2>1 DEF JobOK
<1> QED  BY <1>2, <1>3, <1>4 DEF run

LEMMA BuildIs ==
  ASSUME JobsInv, NEW r \in Runs, Build(r)
  PROVE  (\E x : Become(r, x) /\ JobOK(x)) /\ ConfOK(image'.conf)
<1> DEFINE run == runs[r]
           ref == image'
           y == [run EXCEPT !.step = "built", !.ref = ref]
<1>1. JobOK(run) /\ run.step = "build" /\ Become(r, y)
  BY DEF JobsInv, Build
<1>2. ref.conf = run.conf
  BY DEF Build, BuildImage, Export
<1>3. ConfOK(ref.conf)
  BY <1>1, <1>2 DEF JobOK
<1> HIDE DEF run, ref
<1>4. JobOK(y)
  <2>1. /\ DOMAIN y = JobFields /\ y.step = "built" /\ y.ref = ref
        /\ \A f \in {"kind", "conf", "todo", "rest", "outputs"} : y[f] = run[f]
    BY <1>1 DEF JobOK, JobFields
  <2> HIDE DEF y
  <2> QED  BY <1>1, <1>3, <2>1 DEF JobOK
<1> QED  BY <1>1, <1>3, <1>4 DEF ref

LEMMA DeployIs ==
  ASSUME JobsInv, NEW r \in Runs, Deploy(r)
  PROVE  \E x : Become(r, x) /\ JobOK(x)
<1>1. JobOK(runs[r]) /\ Become(r, Over(runs[r], "passed"))
  BY DEF JobsInv, Deploy
<1> QED  BY <1>1, OverOK

LEMMA CheckIs ==
  ASSUME JobsInv, NEW r \in Runs, Check(r)
  PROVE  \E x : Become(r, x) /\ JobOK(x)
<1> DEFINE run == runs[r]
           tasks == Known(run.ref.tree, run.conf)
<1>1. JobOK(run) /\ run.step = "built" /\ Become(r, Begin(run, run.ref, tasks))
  BY DEF JobsInv, Check
<1>2. ConfOK(run.ref.conf)
  BY <1>1 DEF JobOK
<1>3. tasks \in Seq(Range(Tasks))
  BY KnownAre
<1> HIDE DEF run, tasks
<1>4. JobOK(Begin(run, run.ref, tasks))
  BY <1>1, <1>2, <1>3, BeginOK
<1> QED  BY <1>1, <1>4

LEMMA GradeIs ==
  ASSUME JobsInv, NEW r \in Runs, Grade(r)
  PROVE  \E x : Become(r, x) /\ JobOK(x)
<1> DEFINE run == runs[r]
           tasks == DetectChanges(image.tree, image.conf, run.last, run.named)
<1>1. JobOK(run) /\ ConfOK(image.conf)
  BY DEF JobsInv
<1>2. \/ \E exit : Become(r, Over(run, exit))
      \/ Become(r, Begin(run, image, tasks))
  BY DEF Grade
<1>3. tasks \in Seq(Range(Tasks))
  BY KnownAre
<1> HIDE DEF run, tasks
<1>4. JobOK(Begin(run, image, tasks)) /\ \A exit : JobOK(Over(run, exit))
  BY <1>1, <1>3, BeginOK, OverOK
<1> QED  BY <1>2, <1>4

LEMMA EndGlobalIs ==
  ASSUME JobsInv, NEW r \in Runs, EndGlobal(r)
  PROVE  \E x : Become(r, x) /\ JobOK(x)
<1> DEFINE run == runs[r]
           y == [run EXCEPT !.step = "next"]
<1>1. JobOK(run) /\ run.step = "global"
  BY DEF JobsInv, EndGlobal
<1>2. Become(r, y) \/ Become(r, Over(run, "failed"))
  BY DEF EndGlobal
<1> HIDE DEF run
<1>3. JobOK(Over(run, "failed"))
  BY <1>1, OverOK
<1>4. JobOK(y)
  <2>1. /\ DOMAIN y = JobFields /\ y.step = "next"
        /\ \A f \in {"kind", "conf", "todo", "rest", "outputs"} : y[f] = run[f]
    BY <1>1 DEF JobOK, JobFields
  <2> HIDE DEF y
  <2> QED  BY <1>1, <2>1 DEF JobOK
<1> QED  BY <1>2, <1>3, <1>4 DEF run

(* The end of all tasks: a course goes on to its export.                    *)
LEMMA ConcludeIs ==
  ASSUME NEW run, JobOK(run), run.todo = <<>>
  PROVE  JobOK(Conclude(run))
<1> DEFINE y == [run EXCEPT !.step = "deploy"]
<1>1. (\E exit : Conclude(run) = Over(run, exit)) \/ (run.kind = "course" /\ Conclude(run) = y)
  BY DEF Conclude
<1>2. \A exit : JobOK(Over(run, exit))
  BY OverOK
<1>3. run.kind = "course" => JobOK(y)
  <2>1. /\ DOMAIN y = JobFields /\ y.step = "deploy"
        /\ \A f \in {"kind", "conf", "todo", "rest", "outputs"} : y[f] = run[f]
    BY DEF JobOK, JobFields
  <2> HIDE DEF y
  <2> QED  BY <2>1 DEF JobOK
<1> QED  BY <1>1, <1>2, <1>3

LEMMA NextTaskIs ==
  ASSUME JobsInv, NEW r \in Runs, NextTask(r)
  PROVE  \E x : Become(r, x) /\ JobOK(x)
<1> DEFINE run == runs[r]
           p == PipelineOf(run.ref.tree, run.conf, Head(run.todo), "task")
<1>1. JobOK(run)
  BY DEF JobsInv
<1>2. \/ run.todo = <<>> /\ Become(r, Conclude(run))
      \/ Become(r, Over(run, "broken"))
      \/ run.todo # <<>> /\ Become(r, Enters(run, "task", p))
  BY DEF NextTask
<1> HIDE DEF run
<1>3. JobOK(Over(run, "broken")) /\ (run.todo = <<>> => JobOK(Conclude(run)))
  BY <1>1, OverOK, ConcludeIs
<1>4. run.todo # <<>> => JobOK(Enters(run, "task", p))
  BY <1>1, EntersOK
<1> QED  BY <1>2, <1>3, <1>4

(* The next task's turn.                                                    *)
LEMMA DropIs ==
  ASSUME NEW run, JobOK(run), run.todo # <<>>, NEW bad, NEW unsent
  PROVE  JobOK([run EXCEPT !.step = "next", !.todo = Tail(@), !.bad = bad, !.unsent = unsent])
<1> DEFINE y == [run EXCEPT !.step = "next", !.todo = Tail(@), !.bad = bad, !.unsent = unsent]
<1>1. /\ DOMAIN y = JobFields /\ y.step = "next" /\ y.todo = Tail(run.todo)
      /\ \A f \in {"kind", "conf", "rest", "outputs"} : y[f] = run[f]
  BY DEF JobOK, JobFields
<1>2. Tail(run.todo) \in Seq(Range(Tasks))
  BY DEF JobOK
<1> HIDE DEF y
<1>3. JobOK(y)
  BY <1>1, <1>2 DEF JobOK
<1> QED  BY <1>3 DEF y

LEMMA EndTaskIs ==
  ASSUME JobsInv, NEW r \in Runs, EndTask(r)
  PROVE  \E x : Become(r, x) /\ JobOK(x)
<1> DEFINE run == runs[r]
           p == PipelineOf(run.ref.tree, run.conf, Head(run.todo), "report")
           y == [run EXCEPT !.step = "next", !.todo = Tail(@), !.bad = @ \cup {Head(run.todo)}]
           z == [run EXCEPT !.step = "next", !.todo = Tail(@), !.bad = run.bad \cup {Head(run.todo)},
                            !.unsent = run.unsent]
<1>1. JobOK(run) /\ run.step = "task" /\ run.todo # <<>>
  BY DEF JobsInv, EndTask, JobOK
<1>2. Become(r, Enters(run, "report", p)) \/ Become(r, y)
  BY DEF EndTask
<1> HIDE DEF run
<1>3. y = z
  BY <1>1 DEF JobOK, JobFields
<1>4. JobOK(z) /\ JobOK(Enters(run, "report", p))
  BY <1>1, DropIs, EntersOK
<1> QED  BY <1>2, <1>3, <1>4

LEMMA EndReportIs ==
  ASSUME JobsInv, NEW r \in Runs, EndReport(r)
  PROVE  \E x : Become(r, x) /\ JobOK(x)
<1> DEFINE run == runs[r]
           more == IF run.passed THEN {} ELSE {Head(run.todo)}
           y == [run EXCEPT !.step = "next", !.todo = Tail(@), !.unsent = @ \cup more]
           z == [run EXCEPT !.step = "next", !.todo = Tail(@), !.bad = run.bad,
                            !.unsent = run.unsent \cup more]
<1>1. JobOK(run) /\ run.step = "report" /\ run.todo # <<>>
  BY DEF JobsInv, EndReport, JobOK
<1>2. Become(r, y)
  BY DEF EndReport
<1> HIDE DEF run, more
<1>3. y = z
  BY <1>1 DEF JobOK, JobFields
<1>4. JobOK(z)
  BY <1>1, DropIs
<1> QED  BY <1>2, <1>3, <1>4

LEMMA BreakStageIs ==
  ASSUME JobsInv, NEW r \in Runs, BreakStage(r)
  PROVE  \E x : Become(r, x) /\ JobOK(x)
<1>1. JobOK(runs[r]) /\ Become(r, Over(runs[r], "broken"))
  BY DEF JobsInv, BreakStage
<1> QED  BY <1>1, OverOK

LEMMA SkipStageIs ==
  ASSUME JobsInv, NEW r \in Runs, SkipStage(r)
  PROVE  \E x : Become(r, x) /\ JobOK(x)
<1> DEFINE run == runs[r]
           y == [run EXCEPT !.rest = Tail(@)]
<1>1. JobOK(run) /\ run.rest # <<>> /\ Become(r, y)
  BY DEF JobsInv, SkipStage, AtStage
<1> HIDE DEF run
<1>2. JobOK(y)
  <2>1. /\ DOMAIN y = JobFields /\ y.rest = Tail(run.rest)
        /\ \A f \in {"kind", "step", "conf", "ref", "todo", "outputs"} : y[f] = run[f]
    BY <1>1 DEF JobOK, JobFields
  <2>2. IsPipeline(Tail(run.rest))
    BY <1>1, TailOf DEF JobOK, IsPipeline
  <2> HIDE DEF y
  <2> QED  BY <1>1, <2>1, <2>2 DEF JobOK
<1> QED  BY <1>1, <1>2

LEMMA DryStageIs ==
  ASSUME JobsInv, NEW r \in Runs, DryStage(r)
  PROVE  \E x : Become(r, x) /\ JobOK(x)
<1>1. JobOK(runs[r]) /\ runs[r].rest # <<>> /\ Become(r, Settle(runs[r], TRUE, Full))
  BY DEF JobsInv, DryStage, Runnable, AtStage
<1>2. Full \in Int
  BY FullAssumption
<1> QED  BY <1>1, <1>2, SettleOK

LEMMA RunStageIs ==
  ASSUME JobsInv, NEW r \in Runs, RunStage(r)
  PROVE  \E x : Become(r, x) /\ JobOK(x)
<1> DEFINE run == runs[r]
<1>1. /\ JobOK(run) /\ run.rest # <<>> /\ Resolved(run) /\ Head(run.rest).run # "report"
      /\ \E result \in Results(run) : Become(r, Settle(run, result.ok, result.percent))
  BY DEF JobsInv, RunStage, Runnable, AtStage
<1> HIDE DEF run
<1>2. PICK result \in Results(run) : Become(r, Settle(run, result.ok, result.percent))
  BY <1>1
<1>3. IsStage(Head(run.rest))
  BY <1>1, StageIs DEF JobOK
<1>4. Registered(run)
  BY <1>1 DEF Registered, Resolved, Refs, JobOK
<1>5. result.percent \in Int
  BY <1>1, <1>2, <1>3, <1>4, ResultsAreInt
<1>6. JobOK(Settle(run, result.ok, result.percent))
  BY <1>1, <1>5, SettleOK
<1> QED  BY <1>2, <1>6

(* A report was stored, or not; its stage is over, or the job is.           *)
LEMMA ReportStageIs ==
  ASSUME JobsInv, NEW r \in Runs, ReportStage(r)
  PROVE  \E x : Become(r, x) /\ JobOK(x)
<1> DEFINE run == runs[r]
           t == Subject(run)
           output == run.outputs[Head(run.rest).needs[1]]
           s == Settle(run, TRUE, Full)
           y == [s EXCEPT !.sent = With(@, t, output)]
<1>1. /\ JobOK(run) /\ run.rest # <<>>
      /\ Become(r, y) \/ Become(r, Settle(run, FALSE, 0)) \/ Become(r, Over(run, "broken"))
  BY DEF JobsInv, ReportStage, Runnable, AtStage
<1> HIDE DEF run, t, output
<1>2. Full \in Int /\ 0 \in Int
  BY FullAssumption
<1>3. JobOK(s) /\ JobOK(Settle(run, FALSE, 0)) /\ JobOK(Over(run, "broken"))
  BY <1>1, <1>2, SettleOK, OverOK
<1> HIDE DEF s
<1>4. JobOK(y)
  <2>1. /\ DOMAIN y = JobFields
        /\ \A f \in {"kind", "step", "conf", "ref", "todo", "rest", "outputs"} : y[f] = s[f]
    BY <1>3 DEF JobOK, JobFields
  <2> HIDE DEF y
  <2> QED  BY <1>3, <2>1 DEF JobOK
<1> QED  BY <1>1, <1>3, <1>4

(* All steps of a job.                                                      *)
LEMMA WorkIs ==
  ASSUME JobsInv, NEW r \in Runs, Work(r)
  PROVE  /\ \E x : Become(r, x) /\ JobOK(x)
         /\ ConfOK(image'.conf) /\ conf' = conf
<1>0. ConfOK(image.conf)
  BY DEF JobsInv
<1>1. CASE Validate(r)
  <2>1. UNCHANGED <<conf, image>>
    BY <1>1 DEF Validate, repositories
  <2> QED  BY <1>0, <1>1, <2>1, ValidateIs
<1>2. CASE Build(r)
  <2>1. conf' = conf
    BY <1>2 DEF Build
  <2> QED  BY <1>2, <2>1, BuildIs
<1>3. CASE Check(r)
  <2>1. UNCHANGED <<conf, image>>
    BY <1>3 DEF Check, repositories
  <2> QED  BY <1>0, <1>3, <2>1, CheckIs
<1>4. CASE Grade(r)
  <2>1. UNCHANGED <<conf, image>>
    BY <1>4 DEF Grade, repositories
  <2> QED  BY <1>0, <1>4, <2>1, GradeIs
<1>5. CASE Deploy(r)
  <2>1. UNCHANGED <<conf, image>>
    BY <1>5 DEF Deploy
  <2> QED  BY <1>0, <1>5, <2>1, DeployIs
<1>6. CASE EndGlobal(r)
  <2>1. UNCHANGED <<conf, image>>
    BY <1>6 DEF EndGlobal, repositories
  <2> QED  BY <1>0, <1>6, <2>1, EndGlobalIs
<1>7. CASE NextTask(r)
  <2>1. UNCHANGED <<conf, image>>
    BY <1>7 DEF NextTask, repositories
  <2> QED  BY <1>0, <1>7, <2>1, NextTaskIs
<1>8. CASE EndTask(r)
  <2>1. UNCHANGED <<conf, image>>
    BY <1>8 DEF EndTask, repositories
  <2> QED  BY <1>0, <1>8, <2>1, EndTaskIs
<1>9. CASE EndReport(r)
  <2>1. UNCHANGED <<conf, image>>
    BY <1>9 DEF EndReport, repositories
  <2> QED  BY <1>0, <1>9, <2>1, EndReportIs
<1>10. CASE BreakStage(r)
  <2>1. UNCHANGED <<conf, image>>
    BY <1>10 DEF BreakStage, repositories
  <2> QED  BY <1>0, <1>10, <2>1, BreakStageIs
<1>11. CASE SkipStage(r)
  <2>1. UNCHANGED <<conf, image>>
    BY <1>11 DEF SkipStage, repositories
  <2> QED  BY <1>0, <1>11, <2>1, SkipStageIs
<1>12. CASE DryStage(r)
  <2>1. UNCHANGED <<conf, image>>
    BY <1>12 DEF DryStage, repositories
  <2> QED  BY <1>0, <1>12, <2>1, DryStageIs
<1>13. CASE RunStage(r)
  <2>1. UNCHANGED <<conf, image>>
    BY <1>13 DEF RunStage, repositories
  <2> QED  BY <1>0, <1>13, <2>1, RunStageIs
<1>14. CASE ReportStage(r)
  <2>1. UNCHANGED <<conf, image>>
    BY <1>14 DEF ReportStage
  <2> QED  BY <1>0, <1>14, <2>1, ReportStageIs
<1> QED  BY <1>1, <1>2, <1>3, <1>4, <1>5, <1>6, <1>7, <1>8, <1>9, <1>10, <1>11, <1>12, <1>13, <1>14
         DEF Work

(* What a job may store.                                                    *)
LEMMA WorkScores ==
  ASSUME JobsInv, NEW r \in Runs, Work(r)
  PROVE  \/ scores' = scores
         \/ /\ ReportStage(r)
            /\ scores' = Store(Subject(runs[r]), runs[r].outputs[Head(runs[r].rest).needs[1]].percent)
<1>1. CASE ReportStage(r)
  BY <1>1 DEF ReportStage
<1>2. CASE ~ReportStage(r)
  BY <1>2 DEF Work, Validate, Build, Check, Grade, Deploy, EndGlobal, NextTask, EndTask,
              EndReport, BreakStage, SkipStage, DryStage, RunStage
<1> QED  BY <1>1, <1>2

LEMMA ReportPercent ==
  ASSUME JobsInv, NEW r \in Runs, ReportStage(r)
  PROVE  runs[r].outputs[Head(runs[r].rest).needs[1]].percent \in Int
<1>1. /\ JobOK(runs[r]) /\ runs[r].rest # <<>> /\ Resolved(runs[r])
      /\ Head(runs[r].rest).run = "report"
  BY DEF JobsInv, ReportStage, Runnable, AtStage
<1> QED  BY <1>1, OutputIs

(* A push puts a new job in the place of one that is over.                 *)
LEMMA LaunchIs ==
  ASSUME NEW kind, NEW c, NEW tree, NEW last, NEW named, Launch(kind, c, tree, last, named)
  PROVE  \E r \in Runs : runs[r].step = "over" /\ Become(r, Queued(kind, c, tree, last, named))
<1> DEFINE r == CHOOSE r \in Runs : runs[r].step = "over"
<1>1. r \in Runs /\ runs[r].step = "over"
  BY DEF Launch
<1>2. Become(r, Queued(kind, c, tree, last, named))
  BY DEF Launch
<1> QED  BY <1>1, <1>2

(* Every step of the system is a push, time passing or a step of a job.    *)
LEMMA StepIs ==
  ASSUME JobsInv, Next
  PROVE  \/ /\ \E r \in Runs, kind \in {"course", "grade"} : \E c, tree, last, named :
                 /\ runs[r].step = "over" /\ ConfOK(c)
                 /\ Become(r, Queued(kind, c, tree, last, named))
            /\ ConfOK(conf') /\ UNCHANGED <<image, scores>>
         \/ UNCHANGED <<conf, image, runs, scores>>
         \/ \E r \in Runs : Work(r)
<1>1. CASE Submit
  <2>1. Launch("grade", conf, work'.tree, work'.last, work'.named) /\ UNCHANGED <<conf, image, scores>>
    BY <1>1 DEF Submit, Edit, Pull
  <2>2. ConfOK(conf) /\ ConfOK(conf')
    BY <2>1 DEF JobsInv
  <2>3. \E r \in Runs : runs[r].step = "over"
                        /\ Become(r, Queued("grade", conf, work'.tree, work'.last, work'.named))
    BY <2>1, LaunchIs
  <2> QED  BY <2>1, <2>2, <2>3
<1>2. CASE TeacherPush
  <2>1. PICK tree, enabled :
               /\ Revise(tree, [conf EXCEPT !.enabled = enabled])
               /\ Launch("course", [conf EXCEPT !.enabled = enabled], tree, {}, {})
    BY <1>2 DEF TeacherPush
  <2> DEFINE c == [conf EXCEPT !.enabled = enabled]
  <2>2. ConfOK(c)
    BY EnablingKeeps DEF JobsInv
  <2>3. conf' = c /\ UNCHANGED <<image, scores>>
    BY <1>2, <2>1 DEF TeacherPush, Revise
  <2> HIDE DEF c
  <2>4. \E r \in Runs : runs[r].step = "over" /\ Become(r, Queued("course", c, tree, {}, {}))
    BY <2>1, LaunchIs DEF c
  <2> QED  BY <2>2, <2>3, <2>4
<1>3. CASE Pass
  BY <1>3 DEF Pass, Tick
<1> QED  BY <1>1, <1>2, <1>3 DEF Next

LEMMA JobsNext ==
  ASSUME JobsInv, [Next]_vars
  PROVE  JobsInv'
<1>1. CASE UNCHANGED vars
  <2>1. UNCHANGED <<conf, image, runs, scores>>
    BY <1>1 DEF vars, repositories
  <2> QED  BY <2>1 DEF JobsInv
<1>2. CASE Next
  <2>1. ASSUME NEW r \in Runs, NEW x, Become(r, x), JobOK(x)
        PROVE  DOMAIN runs' = Runs /\ \A q \in Runs : JobOK(runs'[q])
    <3>1. DOMAIN runs = Runs /\ \A q \in Runs : JobOK(runs[q])
      BY DEF JobsInv
    <3>2. DOMAIN runs' = Runs /\ runs'[r] = x /\ \A q \in Runs : q # r => runs'[q] = runs[q]
      BY <2>1, <3>1, BecomeIs
    <3> QED  BY <2>1, <3>1, <3>2
  <2>2. ASSUME NEW r \in Runs, NEW kind \in {"course", "grade"}, NEW c, NEW tree, NEW last, NEW named,
               ConfOK(c), Become(r, Queued(kind, c, tree, last, named))
        PROVE  DOMAIN runs' = Runs /\ \A q \in Runs : JobOK(runs'[q])
    <3>1. JobOK(Queued(kind, c, tree, last, named))
      BY <2>2, QueuedIs
    <3> QED  BY <2>1, <2>2, <3>1
  <2>3. ASSUME NEW r \in Runs, Work(r) PROVE JobsInv'
    <3>1. PICK x : Become(r, x) /\ JobOK(x)
      BY <2>3, WorkIs
    <3>2. ConfOK(image'.conf) /\ ConfOK(conf')
      BY <2>3, WorkIs DEF JobsInv
    <3>3. scores' \in [Range(Tasks) -> Int]
      <4>1. scores \in [Range(Tasks) -> Int]
        BY DEF JobsInv
      <4> QED  BY <2>3, <4>1, WorkScores, ReportPercent, StoreIs
    <3> QED  BY <2>1, <3>1, <3>2, <3>3 DEF JobsInv
  <2>4. ASSUME UNCHANGED <<conf, image, runs, scores>> PROVE JobsInv'
    BY <2>4 DEF JobsInv
  <2>5. ASSUME ConfOK(conf'), UNCHANGED <<image, scores>>,
               DOMAIN runs' = Runs /\ \A q \in Runs : JobOK(runs'[q])
        PROVE  JobsInv'
    BY <2>5 DEF JobsInv
  <2> QED  BY <1>2, <2>2, <2>3, <2>4, <2>5, StepIs
<1> QED  BY <1>1, <1>2

LEMMA JobsInit == Init => JobsInv
<1> SUFFICES ASSUME Init PROVE JobsInv
  OBVIOUS
<1>1. PICK c \in Courses : InitRepositories(c.files, c.conf)
  BY DEF Init
<1>2. conf = c.conf /\ image.conf = c.conf
  BY <1>1 DEF InitRepositories, Export
<1>3. ConfOK(c.conf)
  BY CoursesAssumption DEF IsConfig, ConfOK, Designs
<1> DEFINE q == Queued("grade", conf, <<>>, {}, {})
<1>4. JobOK(q) /\ JobOK(Over(q, "nothing"))
  <2>1. JobOK(q)
    BY <1>2, <1>3, QueuedIs
  <2> HIDE DEF q
  <2> QED  BY <2>1, OverOK
<1>5. runs = [r \in Runs |-> Over(q, "nothing")] /\ scores = [t \in Range(Tasks) |-> 0]
  BY DEF Init, InitGrading
<1> HIDE DEF q
<1> QED  BY <1>2, <1>3, <1>4, <1>5 DEF JobsInv

------------------------------------------------------------------------------
(* What the steps of a job do to it, in eight ways.                         *)

Built(run, step, ref) == [run EXCEPT !.step = step, !.ref = ref]
Goes(run, step) == [run EXCEPT !.step = step]
Dropped(run, bad, unsent) ==
    [run EXCEPT !.step = "next", !.todo = Tail(@), !.bad = bad, !.unsent = unsent]
Passed(run) == [run EXCEPT !.rest = Tail(@)]
Sends(run, t, output) == [run EXCEPT !.sent = With(@, t, output)]
Output(run) == run.outputs[Head(run.rest).needs[1]]

Prepares(run, y) ==
    /\ run.kind = "course"
    /\ \/ run.step = "queued" /\ y = Goes(run, "build")
       \/ run.step = "build" /\ \E ref : y = Built(run, "built", ref)
Starts(run, y) ==
    /\ \/ run.kind = "grade" /\ run.step = "queued"
       \/ run.step = "built"
    /\ \E ref, tasks : /\ tasks \in Seq(Range(Tasks)) /\ ConfOK(ref.conf)
                       /\ y = Begin(run, ref, tasks)
Finishes(run, y) ==
    /\ run.step # "over"
    /\ \E exit :
         /\ y = Over(run, exit)
         /\ exit \in {"passed", "failed"} =>
              \/ run.step = "deploy"
              \/ exit = "failed" /\ run.step \in {"queued", "global"}
              \/ /\ run.step = "next" /\ run.todo = <<>>
                 /\ exit = "passed" => run.bad = {} /\ run.unsent = {}
GoesOn(run, y) ==
    \/ run.step = "global" /\ y = Goes(run, "next")
    \/ run.step = "next" /\ run.todo = <<>> /\ run.kind = "course" /\ y = Goes(run, "deploy")
Opens(run, y) ==
    /\ run.todo # <<>>
    /\ \E ref, step :
         /\ step \in {"task", "report"}
         /\ y = Enters(run, step, PipelineOf(ref, run.conf, Head(run.todo), step))
         /\ step = "task" => run.step = "next"
         /\ step = "report" => run.step = "task" /\ run.rest = <<>> /\ run.passed
Closes(run, y) ==
    /\ run.todo # <<>> /\ run.rest = <<>>
    /\ \/ run.step = "task" /\ y = Dropped(run, run.bad \cup {Head(run.todo)}, run.unsent)
       \/ run.step = "report" /\ run.passed /\ y = Dropped(run, run.bad, run.unsent)
       \/ run.step = "report" /\ ~run.passed
            /\ y = Dropped(run, run.bad, run.unsent \cup {Head(run.todo)})
AtStageOf(run) == run.step \in {"global", "task", "report"} /\ run.rest # <<>> /\ Resolved(run)
RunsStage(run, y) ==
    /\ AtStageOf(run)
    /\ \/ Skipped(run) /\ y = Passed(run)
       \/ /\ ~Skipped(run) /\ (Dry(run) \/ Head(run.rest).run # "report")
          /\ \E ok, percent : percent \in Int /\ y = Settle(run, ok, percent)
Reports(run, y) ==
    /\ AtStageOf(run) /\ ~Skipped(run) /\ ~Dry(run) /\ Head(run.rest).run = "report"
    /\ Output(run).percent \in Int
    /\ \/ /\ y = Sends(Settle(run, TRUE, Full), Subject(run), Output(run))
          /\ scores' = Store(Subject(run), Output(run).percent)
       \/ /\ scores' \in {scores, Store(Subject(run), Output(run).percent)}
          /\ y = Settle(run, FALSE, 0) \/ y = Over(run, "broken")

LEMMA GoesIs ==
  ASSUME NEW run, NEW step, DOMAIN run = JobFields
  PROVE  /\ Goes(run, step).step = step
         /\ \A f \in JobFields \ {"step"} : Goes(run, step)[f] = run[f]
BY DEF JobFields, Goes

LEMMA BuiltIs ==
  ASSUME NEW run, NEW step, NEW ref, DOMAIN run = JobFields
  PROVE  /\ Built(run, step, ref).step = step
         /\ \A f \in JobFields \ {"step", "ref"} : Built(run, step, ref)[f] = run[f]
BY DEF JobFields, Built

LEMMA DroppedIs ==
  ASSUME NEW run, NEW bad, NEW unsent, DOMAIN run = JobFields
  PROVE  /\ Dropped(run, bad, unsent).step = "next"
         /\ Dropped(run, bad, unsent).todo = Tail(run.todo)
         /\ Dropped(run, bad, unsent).bad = bad /\ Dropped(run, bad, unsent).unsent = unsent
         /\ \A f \in JobFields \ {"step", "todo", "bad", "unsent"} :
              Dropped(run, bad, unsent)[f] = run[f]
BY DEF JobFields, Dropped

LEMMA PassedIs ==
  ASSUME NEW run, DOMAIN run = JobFields
  PROVE  /\ Passed(run).rest = Tail(run.rest)
         /\ \A f \in JobFields \ {"rest"} : Passed(run)[f] = run[f]
BY DEF JobFields, Passed

LEMMA SendsIs ==
  ASSUME NEW run, NEW t, NEW output, DOMAIN run = JobFields
  PROVE  /\ Sends(run, t, output).sent = With(run.sent, t, output)
         /\ \A f \in JobFields \ {"sent"} : Sends(run, t, output)[f] = run[f]
BY DEF JobFields, Sends

LEMMA FieldNames ==
  JobFields = {"kind", "step", "exit", "conf", "at", "root", "last", "named", "ref", "files", "todo",
               "rest", "skip", "passed", "outputs", "tasks", "bad", "unsent", "sent"}
BY DEF JobFields

LEMMA ConcludeSteps ==
  ASSUME NEW run, run.step = "next", run.todo = <<>>, NEW y, y = Conclude(run)
  PROVE  Finishes(run, y) \/ GoesOn(run, y)
<1> DEFINE undone == run.bad \cup run.unsent
<1>1. \/ undone # {} /\ y = Over(run, "failed")
      \/ undone = {} /\ run.kind = "course" /\ y = Goes(run, "deploy")
      \/ undone = {} /\ y = Over(run, "passed")
  BY DEF Conclude, Goes
<1>2. undone = {} => run.bad = {} /\ run.unsent = {}
  OBVIOUS
<1> HIDE DEF undone
<1>3. CASE undone # {} /\ y = Over(run, "failed")
  BY <1>3 DEF Finishes
<1>4. CASE undone = {} /\ run.kind = "course" /\ y = Goes(run, "deploy")
  BY <1>4 DEF GoesOn
<1>5. CASE undone = {} /\ y = Over(run, "passed")
  BY <1>2, <1>5 DEF Finishes
<1> QED  BY <1>1, <1>3, <1>4, <1>5

LEMMA WorkSteps ==
  ASSUME JobsInv, NEW r \in Runs, Work(r), NEW y, Become(r, y)
  PROVE  \/ Reports(runs[r], y)
         \/ /\ scores' = scores
            /\ \/ Prepares(runs[r], y) \/ Starts(runs[r], y) \/ Finishes(runs[r], y)
               \/ GoesOn(runs[r], y) \/ Opens(runs[r], y) \/ Closes(runs[r], y)
               \/ RunsStage(runs[r], y)
<1> DEFINE run == runs[r]
<1>0. JobOK(run) /\ DOMAIN run = JobFields /\ ConfOK(run.conf) /\ ConfOK(image.conf)
  BY DEF JobsInv, JobOK
<1>a. ASSUME NEW x, Become(r, x) PROVE y = x
  <2>1. runs'[r] = x /\ runs'[r] = y
    BY <1>a, BecomeIs DEF JobsInv
  <2> QED  BY <2>1
<1>b. ~ReportStage(r) => scores' = scores
  BY WorkScores
<1> HIDE DEF run
<1>1. CASE Validate(r)
  <2>1. run.kind = "course" /\ run.step = "queued" /\ scores' = scores
        /\ (y = Goes(run, "build") \/ y = Over(run, "failed"))
    BY <1>1, <1>a DEF Validate, run, Goes
  <2>2. y = Over(run, "failed") => Finishes(run, y)
    BY <2>1 DEF Finishes
  <2> QED  BY <2>1, <2>2 DEF Prepares, run
<1>2. CASE Build(r)
  <2> DEFINE ref == image'
  <2>1. run.step = "build" /\ y = Built(run, "built", ref) /\ scores' = scores
    BY <1>2, <1>a DEF Build, run, Built
  <2> HIDE DEF ref
  <2>2. run.kind = "course"
    BY <1>0, <2>1 DEF JobOK
  <2>3. Prepares(run, y)
    BY <2>1, <2>2 DEF Prepares
  <2> QED  BY <2>1, <2>3 DEF run
<1>3. CASE Check(r)
  <2> DEFINE tasks == Known(run.ref.tree, run.conf)
             ref == run.ref
  <2>1. run.step = "built" /\ y = Begin(run, ref, tasks) /\ scores' = scores
    BY <1>3, <1>a DEF Check, run
  <2>2. ConfOK(ref.conf)
    BY <1>0, <2>1 DEF JobOK
  <2>3. tasks \in Seq(Range(Tasks))
    BY KnownAre
  <2> HIDE DEF tasks, ref
  <2>4. Starts(run, y)
    BY <2>1, <2>2, <2>3 DEF Starts
  <2> QED  BY <2>1, <2>4 DEF run
<1>4. CASE Grade(r)
  <2> DEFINE tasks == DetectChanges(image.tree, image.conf, run.last, run.named)
             ref == image
  <2>1. run.kind = "grade" /\ run.step = "queued" /\ scores' = scores
        /\ (y = Over(run, "failed") \/ y = Over(run, "nothing") \/ y = Begin(run, ref, tasks))
    BY <1>4, <1>a DEF Grade, run
  <2>2. ConfOK(ref.conf)
    BY <1>0
  <2>3. tasks \in Seq(Range(Tasks))
    BY KnownAre
  <2> HIDE DEF tasks, ref
  <2>4. y = Begin(run, ref, tasks) => Starts(run, y)
    BY <2>1, <2>2, <2>3 DEF Starts
  <2>5. y = Over(run, "failed") \/ y = Over(run, "nothing") => Finishes(run, y)
    BY <2>1 DEF Finishes
  <2> QED  BY <2>1, <2>4, <2>5 DEF run
<1>5. CASE Deploy(r)
  <2>1. run.step = "deploy" /\ y = Over(run, "passed") /\ scores' = scores
    BY <1>5, <1>a DEF Deploy, run
  <2>2. Finishes(run, y)
    BY <2>1 DEF Finishes
  <2> QED  BY <2>1, <2>2 DEF run
<1>6. CASE EndGlobal(r)
  <2>1. run.step = "global" /\ scores' = scores
        /\ (y = Goes(run, "next") \/ y = Over(run, "failed"))
    BY <1>6, <1>a DEF EndGlobal, run, Goes
  <2>2. y = Over(run, "failed") => Finishes(run, y)
    BY <2>1 DEF Finishes
  <2> QED  BY <2>1, <2>2 DEF GoesOn, run
<1>7. CASE NextTask(r)
  <2> DEFINE tree == run.ref.tree
             t == Head(run.todo)
  <2>1. /\ run.step = "next" /\ scores' = scores
        /\ \/ run.todo = <<>> /\ y = Conclude(run)
           \/ y = Over(run, "broken")
           \/ run.todo # <<>> /\ y = Enters(run, "task", PipelineOf(tree, run.conf, t, "task"))
    BY <1>7, <1>a DEF NextTask, run
  <2> HIDE DEF tree
  <2>2. y = Over(run, "broken") => Finishes(run, y)
    BY <2>1 DEF Finishes
  <2>3. CASE run.todo # <<>> /\ y = Enters(run, "task", PipelineOf(tree, run.conf, t, "task"))
    <3>1. Opens(run, y)
      BY <2>1, <2>3 DEF Opens
    <3> QED  BY <2>1, <3>1 DEF run
  <2>4. CASE run.todo = <<>> /\ y = Conclude(run)
    <3>1. Finishes(run, y) \/ GoesOn(run, y)
      BY <2>1, <2>4, ConcludeSteps
    <3> QED  BY <2>1, <3>1 DEF run
  <2> QED  BY <2>1, <2>2, <2>3, <2>4 DEF run
<1>8. CASE EndTask(r)
  <2> DEFINE tree == run.ref.tree
             t == Head(run.todo)
             z == [run EXCEPT !.step = "next", !.todo = Tail(@), !.bad = @ \cup {t}]
  <2>1. /\ run.step = "task" /\ run.rest = <<>> /\ scores' = scores
        /\ \/ run.passed /\ y = Enters(run, "report", PipelineOf(tree, run.conf, t, "report"))
           \/ y = z
    BY <1>8, <1>a DEF EndTask, run
  <2>2. run.todo # <<>>
    BY <1>0, <2>1 DEF JobOK
  <2>3. z = Dropped(run, run.bad \cup {t}, run.unsent)
    BY <1>0 DEF Dropped, JobFields
  <2> HIDE DEF tree, z
  <2>4. CASE run.passed /\ y = Enters(run, "report", PipelineOf(tree, run.conf, t, "report"))
    <3>1. Opens(run, y)
      BY <2>1, <2>2, <2>4 DEF Opens
    <3> QED  BY <2>1, <3>1 DEF run
  <2>5. CASE y = z
    <3>1. Closes(run, y)
      BY <2>1, <2>2, <2>3, <2>5 DEF Closes
    <3> QED  BY <2>1, <3>1 DEF run
  <2> QED  BY <2>1, <2>4, <2>5
<1>9. CASE EndReport(r)
  <2> DEFINE t == Head(run.todo)
             more == IF run.passed THEN {} ELSE {t}
             z == [run EXCEPT !.step = "next", !.todo = Tail(@), !.unsent = @ \cup more]
  <2>1. run.step = "report" /\ run.rest = <<>> /\ scores' = scores /\ y = z
    BY <1>9, <1>a DEF EndReport, run
  <2>2. run.todo # <<>>
    BY <1>0, <2>1 DEF JobOK
  <2>3. z = Dropped(run, run.bad, run.unsent \cup more)
    BY <1>0 DEF Dropped, JobFields
  <2>4. run.passed => run.unsent \cup more = run.unsent
    OBVIOUS
  <2>5. ~run.passed => more = {t}
    OBVIOUS
  <2> HIDE DEF z, more
  <2>6. Closes(run, y)
    BY <2>1, <2>2, <2>3, <2>4, <2>5 DEF Closes
  <2> QED  BY <2>1, <2>6 DEF run
<1>10. CASE BreakStage(r)
  <2>1. run.step # "over" /\ y = Over(run, "broken") /\ scores' = scores
    BY <1>10, <1>a DEF BreakStage, AtStage, run
  <2>2. Finishes(run, y)
    BY <2>1 DEF Finishes
  <2> QED  BY <2>1, <2>2 DEF run
<1>11. CASE SkipStage(r)
  <2>1. AtStageOf(run) /\ Skipped(run) /\ y = Passed(run) /\ scores' = scores
    BY <1>11, <1>a DEF SkipStage, AtStage, AtStageOf, run, Passed
  <2>2. RunsStage(run, y)
    BY <2>1 DEF RunsStage
  <2> QED  BY <2>1, <2>2 DEF run
<1>12. CASE DryStage(r)
  <2>1. AtStageOf(run) /\ ~Skipped(run) /\ Dry(run) /\ y = Settle(run, TRUE, Full) /\ scores' = scores
    BY <1>12, <1>a DEF DryStage, Runnable, AtStage, AtStageOf, run
  <2>2. Full \in Int
    BY FullAssumption
  <2>3. RunsStage(run, y)
    BY <2>1, <2>2 DEF RunsStage
  <2> QED  BY <2>1, <2>3 DEF run
<1>13. CASE RunStage(r)
  <2>1. /\ AtStageOf(run) /\ ~Skipped(run) /\ Head(run.rest).run # "report" /\ scores' = scores
        /\ \E result \in Results(run) : Become(r, Settle(run, result.ok, result.percent))
    BY <1>13 DEF RunStage, Runnable, AtStage, AtStageOf, run
  <2>2. PICK result \in Results(run) : Become(r, Settle(run, result.ok, result.percent))
    BY <2>1
  <2>3. y = Settle(run, result.ok, result.percent)
    BY <1>a, <2>2
  <2>4. IsStage(Head(run.rest))
    BY <1>0, <2>1, StageIs DEF JobOK, AtStageOf
  <2>5. Registered(run)
    BY <1>0, <2>1 DEF Registered, Resolved, Refs, JobOK, AtStageOf
  <2>6. result.percent \in Int
    BY <2>1, <2>2, <2>4, <2>5, ResultsAreInt
  <2>7. RunsStage(run, y)
    BY <2>1, <2>3, <2>6 DEF RunsStage
  <2> QED  BY <2>1, <2>7 DEF run
<1>14. CASE ReportStage(r)
  <2> DEFINE z == [Settle(run, TRUE, Full) EXCEPT !.sent = With(@, Subject(run), Output(run))]
  <2>1. /\ AtStageOf(run) /\ ~Skipped(run) /\ ~Dry(run) /\ Head(run.rest).run = "report"
        /\ \/ scores' = Store(Subject(run), Output(run).percent) /\ Become(r, z)
           \/ /\ scores' \in {scores, Store(Subject(run), Output(run).percent)}
              /\ Become(r, Settle(run, FALSE, 0)) \/ Become(r, Over(run, "broken"))
    BY <1>14 DEF ReportStage, Runnable, AtStage, AtStageOf, run, Output
  <2>2. z = Sends(Settle(run, TRUE, Full), Subject(run), Output(run))
    BY DEF Sends
  <2> HIDE DEF z
  <2>3. \/ scores' = Store(Subject(run), Output(run).percent) /\ y = z
        \/ /\ scores' \in {scores, Store(Subject(run), Output(run).percent)}
           /\ y = Settle(run, FALSE, 0) \/ y = Over(run, "broken")
    BY <1>a, <2>1
  <2>4. Output(run).percent \in Int
    BY <1>14, ReportPercent DEF Output, run
  <2>5. Reports(run, y)
    BY <2>1, <2>2, <2>3, <2>4 DEF Reports
  <2> QED  BY <2>5 DEF run
<1> QED  BY <1>1, <1>2, <1>3, <1>4, <1>5, <1>6, <1>7, <1>8, <1>9, <1>10, <1>11, <1>12, <1>13, <1>14
         DEF Work

------------------------------------------------------------------------------
(* Reports come last: no stage before the report pipeline of a task         *)
(* reports, as docs/checker_plugins.md:122 has it.  The code does not check *)
(* this, so it is a hypothesis of the theorems below.                       *)

NoReports(p) == \A s \in Range(p) : s.run # "report"

InOrder(run) == run.step \in {"global", "task"} => NoReports(run.rest)
ReportsInv == \A r \in Runs : InOrder(runs[r])

LEMMA LastIs ==
  ASSUME ReportsLast, NEW c, ConfOK(c), NEW which \in {"global", "task"}, NEW p \in PipelinesFor(c, which)
  PROVE  NoReports(p)
<1>1. PICK d \in Courses : PipelinesFor(c, which) = PipelinesFor(d.conf, which)
  BY DesignOf
<1> QED  BY <1>1 DEF ReportsLast, NoReports

LEMMA ReportsTail ==
  ASSUME NEW run, JobOK(run), run.rest # <<>>, NoReports(run.rest)
  PROVE  NoReports(Tail(run.rest))
BY TailOf DEF JobOK, IsPipeline, NoReports

LEMMA BeforeReports ==
  ASSUME NEW run, JobOK(run), InOrder(run), NEW y, Reports(run, y)
  PROVE  run.step = "report" /\ run.todo # <<>> /\ run.kind = "grade" /\ Subject(run) = Head(run.todo)
<1>1. run.rest # <<>> /\ run.step \in {"global", "task", "report"} /\ Head(run.rest).run = "report"
      /\ ~Dry(run)
  BY DEF Reports, AtStageOf
<1>2. run.step = "report"
  BY <1>1, TailOf DEF JobOK, IsPipeline, NoReports, InOrder
<1> QED  BY <1>1, <1>2 DEF JobOK, Dry, Subject

LEMMA OrderedSteps ==
  ASSUME ReportsLast, NEW run, JobOK(run), InOrder(run), NEW y,
         \/ Reports(run, y)
         \/ Prepares(run, y) \/ Starts(run, y) \/ Finishes(run, y) \/ GoesOn(run, y)
         \/ Opens(run, y) \/ Closes(run, y) \/ RunsStage(run, y)
  PROVE  InOrder(y)
<1>0. DOMAIN run = JobFields /\ ConfOK(run.conf)
  BY DEF JobOK
<1>1. CASE Reports(run, y)
  <2>1. run.step = "report"
    BY <1>1, BeforeReports
  <2>2. \A ok, percent : /\ Settle(run, ok, percent).step = run.step
                         /\ DOMAIN Settle(run, ok, percent) = JobFields
    BY <1>0, SettleIs
  <2>3. y.step \in {"over", "report"}
    <3>1. CASE y = Over(run, "broken")
      BY <1>0, <3>1, OverIs
    <3>2. CASE y = Settle(run, FALSE, 0)
      BY <2>1, <2>2, <3>2
    <3>3. CASE y = Sends(Settle(run, TRUE, Full), Subject(run), Output(run))
      <4> DEFINE s == Settle(run, TRUE, Full)
                 t == Subject(run)
                 output == Output(run)
      <4>1. s.step = run.step /\ DOMAIN s = JobFields
        BY <2>2
      <4>2. y = Sends(s, t, output)
        BY <3>3
      <4> HIDE DEF s, t, output
      <4>3. Sends(s, t, output).step = s.step
        BY <4>1, SendsIs, FieldNames
      <4> QED  BY <2>1, <4>1, <4>2, <4>3
    <3> QED  BY <1>1, <3>1, <3>2, <3>3 DEF Reports
  <2> QED  BY <2>3 DEF InOrder
<1>2. CASE Prepares(run, y)
  <2>1. y.step \in {"build", "built"}
    BY <1>0, <1>2, GoesIs, BuiltIs DEF Prepares
  <2> QED  BY <2>1 DEF InOrder
<1>3. CASE Starts(run, y)
  <2>1. PICK ref, tasks : ConfOK(ref.conf) /\ y = Begin(run, ref, tasks)
    BY <1>3 DEF Starts
  <2>2. y.rest = ref.conf.pipes.global
    BY <1>0, <2>1, BeginIs
  <2> QED  BY <2>1, <2>2, PipelineIs, LastIs DEF InOrder
<1>4. CASE Finishes(run, y)
  <2>1. y.step = "over"
    BY <1>0, <1>4, OverIs DEF Finishes
  <2> QED  BY <2>1 DEF InOrder
<1>5. CASE GoesOn(run, y)
  <2>1. y.step \in {"next", "deploy"}
    BY <1>0, <1>5, GoesIs DEF GoesOn
  <2> QED  BY <2>1 DEF InOrder
<1>6. CASE Opens(run, y)
  <2>1. PICK ref, step :
               /\ step \in {"task", "report"}
               /\ y = Enters(run, step, PipelineOf(ref, run.conf, Head(run.todo), step))
    BY <1>6 DEF Opens
  <2> DEFINE p == PipelineOf(ref, run.conf, Head(run.todo), step)
  <2>2. step = "task" => NoReports(p)
    BY <1>0, PipelineIs, LastIs
  <2> HIDE DEF p
  <2>3. y.step = step /\ y.rest = p
    BY <1>0, <2>1, EntersIs DEF p
  <2>4. step \in {"task", "report"}
    BY <2>1
  <2> QED  BY <2>2, <2>3, <2>4 DEF InOrder
<1>7. CASE Closes(run, y)
  <2>1. y.step = "next"
    BY <1>0, <1>7, DroppedIs DEF Closes
  <2> QED  BY <2>1 DEF InOrder
<1>8. CASE RunsStage(run, y)
  <2>1. y.rest = Tail(run.rest) /\ y.step = run.step
    <3>1. CASE y = Passed(run)
      BY <1>0, <3>1, PassedIs, FieldNames
    <3>2. CASE \E ok, percent : y = Settle(run, ok, percent)
      BY <1>0, <3>2, SettleIs
    <3> QED  BY <1>8, <3>1, <3>2 DEF RunsStage
  <2> QED  BY <1>8, <2>1, ReportsTail DEF InOrder, RunsStage, AtStageOf
<1> QED  BY <1>1, <1>2, <1>3, <1>4, <1>5, <1>6, <1>7, <1>8

LEMMA ReportsNext ==
  ASSUME ReportsLast, JobsInv, ReportsInv, [Next]_vars
  PROVE  ReportsInv'
<1>0. DOMAIN runs = Runs /\ \A r \in Runs : JobOK(runs[r]) /\ InOrder(runs[r])
  BY DEF JobsInv, ReportsInv
<1>1. ASSUME NEW r \in Runs, NEW y, Become(r, y), InOrder(y) PROVE ReportsInv'
  <2>1. runs'[r] = y /\ \A q \in Runs : q # r => runs'[q] = runs[q]
    BY <1>0, <1>1, BecomeIs
  <2>2. \A q \in Runs : InOrder(runs'[q])
    BY <1>0, <1>1, <2>1
  <2> QED  BY <2>2 DEF ReportsInv
<1>2. CASE runs' = runs
  BY <1>2 DEF ReportsInv, InOrder
<1>3. ASSUME NEW r \in Runs, NEW kind \in {"course", "grade"}, NEW c, NEW tree, NEW last, NEW named,
             ConfOK(c), Become(r, Queued(kind, c, tree, last, named))
      PROVE  ReportsInv'
  <2>1. Queued(kind, c, tree, last, named).step = "queued"
    BY <1>3, QueuedIs
  <2>2. InOrder(Queued(kind, c, tree, last, named))
    BY <2>1 DEF InOrder
  <2> QED  BY <1>1, <1>3, <2>2
<1>4. ASSUME NEW r \in Runs, Work(r) PROVE ReportsInv'
  <2>1. PICK y : Become(r, y)
    BY <1>4, WorkIs
  <2>2. InOrder(y)
    BY <1>0, <1>4, <2>1, WorkSteps, OrderedSteps
  <2> QED  BY <1>1, <2>1, <2>2
<1>5. CASE UNCHANGED vars
  BY <1>2, <1>5 DEF vars
<1> QED  BY <1>2, <1>3, <1>4, <1>5, StepIs

LEMMA ReportsInit == Init => ReportsInv
<1> SUFFICES ASSUME Init PROVE ReportsInv
  OBVIOUS
<1>1. runs = [r \in Runs |-> Over(Queued("grade", conf, <<>>, {}, {}), "nothing")]
  BY DEF Init, InitGrading
<1>2. DOMAIN Queued("grade", conf, <<>>, {}, {}) = JobFields
  BY DEF Queued, JobFields
<1>3. \A r \in Runs : runs[r].step = "over"
  BY <1>1, <1>2, OverIs
<1> QED  BY <1>3 DEF ReportsInv, InOrder

------------------------------------------------------------------------------
(* The jobs implement GradingJobs.                                          *)

LEMMA ViewIs ==
  ASSUME NEW r \in Runs, NEW y, DOMAIN runs = Runs, Become(r, y)
  PROVE  View' = [View EXCEPT ![r] = Seen(y)]
<1>1. runs'[r] = y /\ \A q \in Runs : q # r => runs'[q] = runs[q]
  BY BecomeIs
<1>2. View' = [q \in Runs |-> Seen(runs'[q])]
  BY DEF View
<1>3. \A q \in Runs : Seen(runs'[q]) = IF q = r THEN Seen(y) ELSE Seen(runs[q])
  BY <1>1
<1> QED  BY <1>2, <1>3 DEF View

LEMMA SeenIs ==
  ASSUME NEW run
  PROVE  /\ Seen(run) = [state |-> Seen(run).state, rehearsal |-> run.kind = "course",
                         pending |-> run.todo]
         /\ Seen(run).pending = run.todo
         /\ Seen(run).rehearsal = (run.kind = "course")
         /\ run.step \in {"queued", "build", "built"} => Seen(run).state = "waiting"
         /\ run.step = "over" => Seen(run).state = "over"
         /\ run.step \in {"global", "next", "task", "report", "deploy"} => Seen(run).state = "working"
BY DEF Seen

LEMMA Unseen ==
  ASSUME NEW run, NEW y, y.kind = run.kind, y.todo = run.todo,
         \/ run.step \in {"queued", "build", "built"} /\ y.step \in {"queued", "build", "built"}
         \/ /\ run.step \in {"global", "next", "task", "report", "deploy"}
            /\ y.step \in {"global", "next", "task", "report", "deploy"}
  PROVE  Seen(y) = Seen(run)
BY DEF Seen

Sight(state, rehearsal, pending) == [state |-> state, rehearsal |-> rehearsal, pending |-> pending]
Puts(v, state, pending) == [v EXCEPT !.state = state, !.pending = pending]

LEMMA SetState ==
  ASSUME NEW old, NEW b, NEW todo, NEW state, NEW pending
  PROVE  Puts(Sight(old, b, todo), state, pending) = Sight(state, b, pending)
<1> DEFINE x == Puts(Sight(old, b, todo), state, pending)
           y == Sight(state, b, pending)
           F == {"state", "rehearsal", "pending"}
<1>1. DOMAIN x = F /\ DOMAIN y = F
  BY DEF Puts, Sight
<1>2. x = [f \in F |-> x[f]] /\ y = [f \in F |-> y[f]]
  BY <1>1 DEF Puts, Sight
<1>3. x.state = y.state /\ x.rehearsal = y.rehearsal /\ x.pending = y.pending
  BY DEF Puts, Sight
<1> HIDE DEF x, y
<1>4. \A f \in F : x[f] = y[f]
  BY <1>3
<1> HIDE DEF F
<1>5. [f \in F |-> x[f]] = [f \in F |-> y[f]]
  BY <1>4
<1>6. x = y
  BY <1>2, <1>5, Zenon
<1> QED  BY <1>6 DEF x, y

Turned(r, state, pending) == View' = [View EXCEPT ![r].state = state, ![r].pending = pending]

LEMMA Becoming ==
  ASSUME NEW r \in Runs, NEW y, NEW state, NEW pending, View' = [View EXCEPT ![r] = Seen(y)],
         y.kind = runs[r].kind, Seen(y).state = state, y.todo = pending
  PROVE  Turned(r, state, pending)
<1> DEFINE w == Seen(y)
           z == [View EXCEPT ![r].state = state, ![r].pending = pending]
           b == (runs[r].kind = "course")
           old == Seen(runs[r]).state
           todo == runs[r].todo
<1>1. View[r] = Sight(old, b, todo)
  BY SeenIs DEF View, Sight
<1>0. w = Sight(state, b, pending)
  BY SeenIs DEF Sight
<1>2. DOMAIN View = Runs
  BY DEF View
<1> HIDE DEF w, b, old, todo
<1>3. z[r] = w
  <2>1. z[r] = Puts(View[r], state, pending)
    BY <1>2 DEF Puts
  <2> HIDE DEF z
  <2> QED  BY <1>0, <1>1, <2>1, SetState
<1>4. DOMAIN z = Runs /\ \A q \in Runs : q # r => z[q] = View[q]
  BY <1>2
<1>5. z = [q \in Runs |-> z[q]] /\ [View EXCEPT ![r] = w] = [q \in Runs |-> IF q = r THEN w ELSE View[q]]
  BY <1>2
<1> HIDE DEF z
<1>6. [View EXCEPT ![r] = w] = z
  BY <1>3, <1>4, <1>5
<1> QED  BY <1>6 DEF w, z, Turned

LEMMA JobSteps ==
  ASSUME JobsInv, NEW r \in Runs, NEW y, Become(r, y), InOrder(runs[r]),
         \/ Reports(runs[r], y)
         \/ /\ scores' = scores
            /\ \/ Prepares(runs[r], y) \/ Starts(runs[r], y) \/ Finishes(runs[r], y)
               \/ GoesOn(runs[r], y) \/ Opens(runs[r], y) \/ Closes(runs[r], y)
               \/ RunsStage(runs[r], y)
  PROVE  \/ View' = View /\ scores' = scores
         \/ Promised!Step
<1> DEFINE run == runs[r]
<1>0. JobOK(run) /\ DOMAIN run = JobFields /\ scores \in [Range(Tasks) -> Int]
  BY DEF JobsInv, JobOK
<1>a. View' = [View EXCEPT ![r] = Seen(y)] /\ View[r] = Seen(run) /\ DOMAIN View = Runs
  BY ViewIs DEF JobsInv, View
<1>b. View'[r] = Seen(y)
  BY <1>a
<1>c. Seen(y) = Seen(run) => View' = View
  <2>1. View = [q \in Runs |-> View[q]]
    BY DEF View
  <2> QED  BY <1>a, <2>1
<1>g. \/ Reports(run, y)
      \/ /\ scores' = scores
         /\ \/ Prepares(run, y) \/ Starts(run, y) \/ Finishes(run, y) \/ GoesOn(run, y)
            \/ Opens(run, y) \/ Closes(run, y) \/ RunsStage(run, y)
  OBVIOUS
<1>d. /\ View[r].pending = run.todo /\ View[r].rehearsal = (run.kind = "course")
      /\ run.step \in {"queued", "build", "built"} => View[r].state = "waiting"
      /\ run.step \in {"global", "next", "task", "report", "deploy"} => View[r].state = "working"
      /\ run.step # "over" => View[r].state # "over"
  <2>1. run.step \in {"queued", "build", "built", "global", "next", "task", "report", "deploy", "over"}
    BY <1>0 DEF JobOK
  <2> QED  BY <1>a, <2>1, SeenIs
<1>e. ASSUME NEW state, NEW pending, y.kind = run.kind,
             Seen(y).state = state, y.todo = pending
      PROVE  Turned(r, state, pending)
  BY <1>a, <1>e, Becoming
<1>f. ASSUME NEW exit, y = Over(run, exit)
      PROVE  Turned(r, "over", <<>>)
  <2>1. y.kind = run.kind /\ y.todo = <<>> /\ y.step = "over"
    BY <1>0, <1>f, OverIs
  <2>2. Seen(y).state = "over"
    BY <2>1, SeenIs
  <2> QED  BY <1>e, <2>1, <2>2
<1> HIDE DEF run
<1>1. CASE Reports(run, y)
  <2> DEFINE t == Subject(run)
             percent == Output(run).percent
  <2>1. run.step = "report" /\ run.todo # <<>> /\ run.kind = "grade" /\ t = Head(run.todo)
    BY <1>0, <1>1, BeforeReports DEF run
  <2>2. View[r].state = "working" /\ View[r].pending # <<>> /\ ~View[r].rehearsal
        /\ Head(View[r].pending) = t
    BY <1>d, <2>1
  <2>3. t \in Range(Tasks) /\ percent \in Int
    BY <1>0, <1>1, <2>1 DEF JobOK, Reports
  <2>4. scores' = scores \/ scores' = Store(t, percent)
    BY <1>1 DEF Reports
  <2> HIDE DEF t, percent
  <2>5. /\ scores' \in [Range(Tasks) -> Int]
        /\ \A u \in Range(Tasks) : u # t => scores'[u] = scores[u]
        /\ scores'[t] >= scores[t]
    <3>1. CASE scores' = scores
      <4>1. scores[t] \in Int
        BY <1>0, <2>3
      <4> QED  BY <1>0, <3>1, <4>1
    <3>2. CASE scores' = Store(t, percent)
      BY <1>0, <2>3, <3>2, StoreIs
    <3> QED  BY <2>4, <3>1, <3>2
  <2>6. scores' = [scores EXCEPT ![t] = scores'[t]]
    BY <1>0, <2>3, <2>5
  <2>7. View' = View \/ Turned(r, "over", <<>>)
    <3>1. CASE y = Over(run, "broken")
      BY <1>f, <3>1
    <3>2. \A ok, n : /\ DOMAIN Settle(run, ok, n) = JobFields
                     /\ \A f \in {"kind", "step", "todo"} : Settle(run, ok, n)[f] = run[f]
      BY <1>0, SettleIs
    <3>3. CASE y = Settle(run, FALSE, 0)
      <4>1. y.kind = run.kind /\ y.todo = run.todo /\ y.step = run.step
        BY <3>2, <3>3
      <4> QED  BY <1>c, <2>1, <4>1, Unseen
    <3>4. CASE y = Sends(Settle(run, TRUE, Full), t, Output(run))
      <4> DEFINE s == Settle(run, TRUE, Full)
                 output == Output(run)
      <4>1. DOMAIN s = JobFields /\ s.kind = run.kind /\ s.todo = run.todo /\ s.step = run.step
        BY <3>2
      <4>2. y = Sends(s, t, output)
        BY <3>4
      <4> HIDE DEF s, output
      <4>3. y.kind = s.kind /\ y.todo = s.todo /\ y.step = s.step
        BY <4>1, <4>2, SendsIs, FieldNames
      <4> QED  BY <1>c, <2>1, <4>1, <4>3, Unseen
    <3> QED  BY <1>1, <3>1, <3>3, <3>4 DEF Reports, t
  <2>8. Promised!Record(r)
    BY <2>2, <2>5, <2>6, <2>7 DEF Promised!Record, Promised!Becomes, Turned
  <2> QED  BY <2>8 DEF Promised!Step
<1>2. CASE Prepares(run, y)
  <2>1. y.kind = run.kind /\ y.todo = run.todo
        /\ run.step \in {"queued", "build"} /\ y.step \in {"build", "built"}
    BY <1>0, <1>2, GoesIs, BuiltIs, FieldNames DEF Prepares
  <2>2. Seen(y) = Seen(run)
    BY <2>1, Unseen
  <2> QED  BY <1>1, <1>c, <1>g, <2>2
<1>3. CASE scores' = scores /\ Starts(run, y)
  <2>1. PICK ref, tasks : tasks \in Seq(Range(Tasks)) /\ y = Begin(run, ref, tasks)
    BY <1>3 DEF Starts
  <2>2. y.kind = run.kind /\ y.todo = tasks /\ y.step = "global" /\ run.step \in {"queued", "built"}
    BY <1>0, <1>3, <2>1, BeginIs DEF Starts
  <2>3. Seen(y).state = "working" /\ Seen(y).pending = tasks
    BY <2>2, SeenIs
  <2>4. Turned(r, "working", View'[r].pending)
    <3>1. Turned(r, "working", tasks)
      BY <1>e, <2>2, <2>3
    <3> QED  BY <1>b, <2>3, <3>1
  <2>5. \A i \in DOMAIN View'[r].pending : View'[r].pending[i] \in Range(Tasks)
    <3>1. View'[r].pending = tasks
      BY <1>b, <2>3
    <3>2. \A i \in DOMAIN tasks : tasks[i] \in Range(Tasks)
      BY <2>1
    <3> QED  BY <3>1, <3>2
  <2>6. Promised!Take(r)
    BY <1>3, <1>d, <2>2, <2>4, <2>5 DEF Promised!Take, Promised!Becomes, Turned
  <2> QED  BY <2>6 DEF Promised!Step
<1>4. CASE scores' = scores /\ Finishes(run, y)
  <2>1. run.step # "over" /\ \E exit : y = Over(run, exit)
    BY <1>4 DEF Finishes
  <2>2. Promised!End(r)
    BY <1>4, <1>d, <1>f, <2>1 DEF Promised!End, Promised!Becomes, Turned
  <2> QED  BY <2>2 DEF Promised!Step
<1>5. CASE GoesOn(run, y)
  <2>1. y.kind = run.kind /\ y.todo = run.todo
        /\ run.step \in {"global", "next"} /\ y.step \in {"next", "deploy"}
    BY <1>0, <1>5, GoesIs, FieldNames DEF GoesOn
  <2>2. Seen(y) = Seen(run)
    BY <2>1, Unseen
  <2> QED  BY <1>1, <1>c, <1>g, <2>2
<1>6. CASE Opens(run, y)
  <2>1. PICK ref, step :
               /\ step \in {"task", "report"}
               /\ y = Enters(run, step, PipelineOf(ref, run.conf, Head(run.todo), step))
               /\ run.step \in {"next", "task"}
    BY <1>6 DEF Opens
  <2> DEFINE p == PipelineOf(ref, run.conf, Head(run.todo), step)
  <2>2. y = Enters(run, step, p)
    BY <2>1
  <2> HIDE DEF p
  <2>3. y.kind = run.kind /\ y.todo = run.todo /\ y.step = step
    BY <1>0, <2>2, EntersIs
  <2>4. Seen(y) = Seen(run)
    BY <2>1, <2>3, Unseen
  <2> QED  BY <1>1, <1>c, <1>g, <2>4
<1>7. CASE scores' = scores /\ Closes(run, y)
  <2>1. run.todo # <<>> /\ run.step \in {"task", "report"} /\ \E bad, unsent : y = Dropped(run, bad, unsent)
    BY <1>7 DEF Closes
  <2>b. PICK bad, unsent : y = Dropped(run, bad, unsent)
    BY <2>1
  <2>a. y.kind = run.kind /\ y.todo = Tail(run.todo) /\ y.step = "next"
    <3>1. \A f \in JobFields \ {"step", "todo", "bad", "unsent"} : y[f] = run[f]
      BY <1>0, <2>b, DroppedIs
    <3>2. y.todo = Tail(run.todo) /\ y.step = "next"
      BY <1>0, <2>b, DroppedIs
    <3> QED  BY <3>1, <3>2, FieldNames
  <2>2. Seen(y).state = "working"
    BY <2>a, SeenIs
  <2>3. Turned(r, "working", Tail(View[r].pending))
    <3>1. Turned(r, "working", Tail(run.todo))
      BY <1>e, <2>a, <2>2
    <3> QED  BY <1>d, <3>1
  <2>4. Promised!Settle(r)
    BY <1>7, <1>d, <2>1, <2>3 DEF Promised!Settle, Promised!Becomes, Turned
  <2> QED  BY <2>4 DEF Promised!Step
<1>8. CASE RunsStage(run, y)
  <2>1. y.kind = run.kind /\ y.todo = run.todo /\ y.step = run.step
    <3>1. CASE y = Passed(run)
      BY <1>0, <3>1, PassedIs, FieldNames
    <3>2. CASE \E ok, percent : y = Settle(run, ok, percent)
      BY <1>0, <3>2, SettleIs
    <3> QED  BY <1>8, <3>1, <3>2 DEF RunsStage
  <2>2. Seen(y) = Seen(run)
    BY <1>8, <2>1, Unseen DEF RunsStage, AtStageOf
  <2> QED  BY <1>1, <1>c, <1>g, <2>2
<1> QED  BY <1>1, <1>2, <1>3, <1>4, <1>5, <1>6, <1>7, <1>8, <1>g

LEMMA JobsStep ==
  ASSUME JobsInv, ReportsInv, [Next]_vars
  PROVE  (View' = View /\ scores' = scores) \/ Promised!Step
<1>1. CASE UNCHANGED <<conf, image, runs, scores>>
  BY <1>1 DEF View
<1>2. CASE UNCHANGED vars
  BY <1>1, <1>2 DEF vars, repositories
<1>3. ASSUME NEW r \in Runs, Work(r) PROVE (View' = View /\ scores' = scores) \/ Promised!Step
  <2>1. PICK y : Become(r, y)
    BY <1>3, WorkIs
  <2>2. InOrder(runs[r])
    BY DEF ReportsInv
  <2> QED  BY <1>3, <2>1, <2>2, WorkSteps, JobSteps
<1>4. ASSUME NEW r \in Runs, NEW kind \in {"course", "grade"}, NEW c, NEW tree, NEW last, NEW named,
             runs[r].step = "over", ConfOK(c), Become(r, Queued(kind, c, tree, last, named)),
             scores' = scores
      PROVE  Promised!Step
  <2> DEFINE y == Queued(kind, c, tree, last, named)
             b == (kind = "course")
  <2>1. y.kind = kind /\ y.step = "queued" /\ y.todo = <<>>
    BY <1>4, QueuedIs
  <2>2. Become(r, y)
    BY <1>4
  <2> HIDE DEF y
  <2>3. Seen(y) = [state |-> "waiting", rehearsal |-> b, pending |-> <<>>]
    BY <2>1 DEF Seen
  <2>4. View' = [View EXCEPT ![r] = Seen(y)]
    BY <2>2, ViewIs DEF JobsInv
  <2>5. View[r].state = "over"
    BY <1>4, SeenIs DEF View
  <2>6. b \in BOOLEAN
    OBVIOUS
  <2>7. Promised!Accept(r)
    BY <1>4, <2>3, <2>4, <2>5, <2>6 DEF Promised!Accept
  <2> QED  BY <2>7 DEF Promised!Step
<1> QED  BY <1>1, <1>2, <1>3, <1>4, StepIs

LEMMA JobsBegin == Init => Promised!InitJobs
<1> SUFFICES ASSUME Init PROVE Promised!InitJobs
  OBVIOUS
<1> DEFINE q == Over(Queued("grade", conf, <<>>, {}, {}), "nothing")
<1>1. runs = [r \in Runs |-> q] /\ scores = [t \in Range(Tasks) |-> 0]
  BY DEF Init, InitGrading
<1>2. DOMAIN Queued("grade", conf, <<>>, {}, {}) = JobFields /\ Queued("grade", conf, <<>>, {}, {}).kind = "grade"
  BY DEF Queued, JobFields
<1>3. q.step = "over" /\ q.kind = "grade" /\ q.todo = <<>>
  BY <1>2, OverIs
<1> HIDE DEF q
<1>4. Seen(q) = [state |-> "over", rehearsal |-> FALSE, pending |-> <<>>]
  BY <1>3 DEF Seen
<1> QED  BY <1>1, <1>4 DEF Promised!InitJobs, View

(* The jobs implement GradingJobs, but for its liveness, which is checked:  *)
(* a task is settled when it failed, was refused or was stored, one after   *)
(* the other; a score goes up, and only that of the task at hand; a course  *)
(* run stores none.  (Tester.run, PipelineRunner.run, the report plugin.)   *)
THEOREM JobsImplement ==
  ASSUME ReportsLast
  PROVE  Spec => ImplementsJobs
<1>1. Init => JobsInv /\ ReportsInv
  BY JobsInit, ReportsInit
<1>2. JobsInv /\ ReportsInv /\ [Next]_vars => (JobsInv /\ ReportsInv)'
  BY JobsNext, ReportsNext
<1>3. Spec => [](JobsInv /\ ReportsInv)
  BY <1>1, <1>2, PTL DEF Spec
<1>4. JobsInv /\ ReportsInv /\ [Next]_vars => [Promised!Step]_(Promised!jobVars)
  BY JobsStep DEF Promised!jobVars
<1> QED  BY <1>3, <1>4, JobsBegin, PTL DEF Spec, ImplementsJobs, Promised!JobsSafety

------------------------------------------------------------------------------
(* Every task is settled.  sent holds what manytask stored, and scores only *)
(* grow; of a job that grades, every task is bad, unsent, sent or to do.    *)

Honest(run, stored) ==
    \A t \in DOMAIN run.sent :
        t \in Range(Tasks) /\ run.sent[t].percent \in Int /\ stored[t] >= run.sent[t].percent

Accounted(run) ==
    /\ run.step \in {"queued", "build", "built", "global"} =>
         run.bad = {} /\ run.unsent = {} /\ DOMAIN run.sent = {}
    /\ run.kind = "grade" =>
         /\ run.step = "global" => run.tasks = Range(run.todo)
         /\ run.step \in {"next", "task", "report"} =>
              run.tasks = run.bad \cup run.unsent \cup DOMAIN run.sent \cup Range(run.todo)
         /\ run.step = "report" =>
              /\ run.skip => ~run.passed
              /\ run.passed => Sure(run.rest) \/ Head(run.todo) \in DOMAIN run.sent
         /\ run.step = "over" /\ run.exit = "passed" => run.tasks = DOMAIN run.sent
         /\ run.step = "over" /\ run.exit = "failed" /\ run.bad \cup run.unsent # {} =>
              run.tasks = run.bad \cup run.unsent \cup DOMAIN run.sent
    /\ run.exit # None => run.step = "over"

LEMMA SureIs ==
  ASSUME ReportsAlways, NEW c, ConfOK(c), NEW p \in PipelinesFor(c, "report")
  PROVE  Sure(p)
<1>1. PICK d \in Courses : PipelinesFor(c, "report") = PipelinesFor(d.conf, "report")
  BY DesignOf
<1> QED  BY <1>1 DEF ReportsAlways

LEMMA SureStage ==
  ASSUME NEW run, JobOK(run), run.rest # <<>>, Sure(run.rest)
  PROVE  \/ Sure(Tail(run.rest))
         \/ /\ Head(run.rest).run = "report" /\ Head(run.rest).when = "always"
            /\ ~Head(run.rest).partial /\ Head(run.rest).fail # "never"
BY TailOf DEF JobOK, IsPipeline, Sure

LEMMA TodoIs ==
  ASSUME NEW run, JobOK(run), run.todo # <<>>
  PROVE  Range(run.todo) = {Head(run.todo)} \cup Range(Tail(run.todo))
<1> DEFINE s == run.todo
<1>1. s \in Seq(Range(Tasks)) /\ s # <<>>
  BY DEF JobOK
<1> HIDE DEF s
<1>2. s \in Seq(Range(s))
  <2>1. Len(s) \in Nat /\ DOMAIN s = 1..Len(s) /\ s = [i \in 1..Len(s) |-> s[i]]
    BY <1>1
  <2>2. \A i \in 1..Len(s) : s[i] \in Range(s)
    BY <2>1 DEF Range
  <2>3. s \in [1..Len(s) -> Range(s)]
    BY <2>1, <2>2
  <2> QED  BY <2>1, <2>3
<1> QED  BY <1>1, <1>2, TailOf DEF s

LEMMA HonestGrows ==
  ASSUME NEW run, NEW stored, NEW more, Honest(run, stored),
         stored \in [Range(Tasks) -> Int], more \in [Range(Tasks) -> Int],
         \A t \in Range(Tasks) : more[t] >= stored[t]
  PROVE  Honest(run, more)
<1> SUFFICES ASSUME NEW t \in DOMAIN run.sent
             PROVE  t \in Range(Tasks) /\ run.sent[t].percent \in Int /\ more[t] >= run.sent[t].percent
  BY DEF Honest
<1>1. t \in Range(Tasks) /\ run.sent[t].percent \in Int /\ stored[t] >= run.sent[t].percent
  BY DEF Honest
<1>2. stored[t] \in Int /\ more[t] \in Int /\ more[t] >= stored[t]
  BY <1>1
<1> DEFINE a == run.sent[t].percent
           b == stored[t]
           c == more[t]
<1>3. a \in Int /\ b \in Int /\ c \in Int /\ b >= a /\ c >= b
  BY <1>1, <1>2
<1> HIDE DEF a, b, c
<1>4. c >= a
  BY <1>3
<1> QED  BY <1>1, <1>4 DEF a, c

LEMMA SettledIs ==
  ASSUME NEW run, NEW ok, NEW percent, DOMAIN run = JobFields
  PROVE  /\ DOMAIN Settle(run, ok, percent) = JobFields
         /\ Settle(run, ok, percent).rest = Tail(run.rest)
         /\ Settle(run, ok, percent).skip
              <=> run.skip \/ (~ok /\ ~Head(run.rest).partial /\ Head(run.rest).fail = "fast")
         /\ Settle(run, ok, percent).passed
              <=> run.passed /\ ~(~ok /\ ~Head(run.rest).partial /\ Head(run.rest).fail # "never")
         /\ \A f \in {"kind", "step", "exit", "conf", "ref", "todo", "tasks", "bad", "unsent", "sent"} :
              Settle(run, ok, percent)[f] = run[f]
BY DEF Settle, JobFields

LEMMA SucceededIs ==
  ASSUME NEW run, DOMAIN run = JobFields
  PROVE  /\ DOMAIN Settle(run, TRUE, Full) = JobFields
         /\ Settle(run, TRUE, Full).rest = Tail(run.rest)
         /\ Settle(run, TRUE, Full).skip <=> run.skip
         /\ Settle(run, TRUE, Full).passed <=> run.passed
         /\ \A f \in {"kind", "step", "exit", "conf", "ref", "todo", "tasks", "bad", "unsent", "sent"} :
              Settle(run, TRUE, Full)[f] = run[f]
BY DEF Settle, JobFields

LEMMA RefusedIs ==
  ASSUME NEW run, DOMAIN run = JobFields
  PROVE  /\ DOMAIN Settle(run, FALSE, 0) = JobFields
         /\ Settle(run, FALSE, 0).rest = Tail(run.rest)
         /\ Settle(run, FALSE, 0).skip
              <=> run.skip \/ (~Head(run.rest).partial /\ Head(run.rest).fail = "fast")
         /\ Settle(run, FALSE, 0).passed
              <=> run.passed /\ ~(~Head(run.rest).partial /\ Head(run.rest).fail # "never")
         /\ \A f \in {"kind", "step", "exit", "conf", "ref", "todo", "tasks", "bad", "unsent", "sent"} :
              Settle(run, FALSE, 0)[f] = run[f]
BY DEF Settle, JobFields

LEMMA HonestSteps ==
  ASSUME NEW run, JobOK(run), InOrder(run), Honest(run, scores), NEW y,
         scores \in [Range(Tasks) -> Int],
         \/ Reports(run, y)
         \/ /\ scores' = scores
            /\ \/ Prepares(run, y) \/ Starts(run, y) \/ Finishes(run, y) \/ GoesOn(run, y)
               \/ Opens(run, y) \/ Closes(run, y) \/ RunsStage(run, y)
  PROVE  /\ scores' \in [Range(Tasks) -> Int]
         /\ \A t \in Range(Tasks) : scores'[t] >= scores[t]
         /\ Honest(y, scores')
<1>0. DOMAIN run = JobFields
  BY DEF JobOK
<1>a. \A t \in Range(Tasks) : scores[t] >= scores[t]
  <2> TAKE t \in Range(Tasks)
  <2>1. scores[t] \in Int
    OBVIOUS
  <2> QED  BY <2>1
<1>1. CASE Reports(run, y)
  <2> DEFINE t == Subject(run)
             output == Output(run)
             percent == output.percent
             s == Settle(run, TRUE, Full)
             stored == scores'
  <2>a. run.todo # <<>> /\ t = Head(run.todo)
    BY <1>1, BeforeReports
  <2>b. run.todo \in Seq(Range(Tasks))
    BY DEF JobOK
  <2>c. percent \in Int
    BY <1>1 DEF Reports
  <2>1. t \in Range(Tasks) /\ percent \in Int
    BY <2>a, <2>b, <2>c
  <2>2. stored = scores \/ stored = Store(t, percent)
    BY <1>1 DEF Reports
  <2> HIDE DEF t, stored
  <2>3. stored \in [Range(Tasks) -> Int] /\ \A u \in Range(Tasks) : stored[u] >= scores[u]
    BY <1>a, <2>1, <2>2, StoreIs
  <2>4. Honest(run, stored)
    BY <2>3, HonestGrows
  <2>5. CASE y.sent = run.sent
    BY <2>3, <2>4, <2>5 DEF Honest, stored
  <2>6. CASE y = Sends(s, t, output) /\ stored = Store(t, percent)
    <3>1. DOMAIN s = JobFields /\ s.sent = run.sent
      BY <1>0, SettleIs
    <3> HIDE DEF s, output, percent
    <3>2. y.sent = With(run.sent, t, output)
      BY <2>6, <3>1, SendsIs
    <3>3. stored[t] >= percent
      BY <2>1, <2>6, StoreIs
    <3>4. \A u \in DOMAIN y.sent : \/ u = t /\ y.sent[u] = output
                                   \/ u \in DOMAIN run.sent /\ y.sent[u] = run.sent[u]
      BY <3>2 DEF With
    <3>5. Honest(y, stored)
      BY <2>1, <2>4, <3>3, <3>4 DEF Honest, percent
    <3> QED  BY <2>3, <3>5 DEF stored
  <2>7. \/ y.sent = run.sent
        \/ y = Sends(s, t, output) /\ stored = Store(t, percent)
    <3>a. y = Over(run, "broken") => y.sent = run.sent
      BY <1>0, OverIs
    <3>b. Settle(run, FALSE, 0).sent = run.sent
      BY <1>0, RefusedIs
    <3>1. y = Over(run, "broken") \/ y = Settle(run, FALSE, 0) => y.sent = run.sent
      BY <3>a, <3>b
    <3> QED  BY <1>1, <3>1 DEF Reports, t, stored
  <2> QED  BY <2>5, <2>6, <2>7
<1>2. CASE /\ scores' = scores
           /\ \/ Prepares(run, y) \/ Starts(run, y) \/ Finishes(run, y) \/ GoesOn(run, y)
              \/ Opens(run, y) \/ Closes(run, y) \/ RunsStage(run, y)
  <2>1. y.sent = run.sent
    <3>1. CASE Prepares(run, y)
      BY <1>0, <3>1, GoesIs, BuiltIs, FieldNames DEF Prepares
    <3>2. CASE Starts(run, y)
      BY <1>0, <3>2, BeginIs DEF Starts
    <3>3. CASE Finishes(run, y)
      BY <1>0, <3>3, OverIs DEF Finishes
    <3>4. CASE GoesOn(run, y)
      BY <1>0, <3>4, GoesIs, FieldNames DEF GoesOn
    <3>5. CASE Opens(run, y)
      BY <1>0, <3>5, EntersIs DEF Opens
    <3>6. CASE Closes(run, y)
      <4>1. PICK bad, unsent : y = Dropped(run, bad, unsent)
        BY <3>6 DEF Closes
      <4>2. \A f \in JobFields \ {"step", "todo", "bad", "unsent"} : y[f] = run[f]
        BY <1>0, <4>1, DroppedIs
      <4> QED  BY <4>2, FieldNames
    <3>7. CASE RunsStage(run, y)
      BY <1>0, <3>7, PassedIs, SettleIs, FieldNames DEF RunsStage
    <3> QED  BY <1>2, <3>1, <3>2, <3>3, <3>4, <3>5, <3>6, <3>7
  <2> QED  BY <1>2, <1>a, <2>1 DEF Honest
<1> QED  BY <1>1, <1>2

LEMMA AccountedSteps ==
  ASSUME ReportsAlways, NEW run, JobOK(run), InOrder(run), Accounted(run), NEW y,
         \/ Reports(run, y)
         \/ Prepares(run, y) \/ Starts(run, y) \/ Finishes(run, y) \/ GoesOn(run, y)
         \/ Opens(run, y) \/ Closes(run, y) \/ RunsStage(run, y)
  PROVE  Accounted(y)
<1>0. DOMAIN run = JobFields /\ run.kind \in {"course", "grade"}
  BY DEF JobOK
<1>1. CASE Reports(run, y)
  <2>1. run.step = "report" /\ run.todo # <<>> /\ Subject(run) = Head(run.todo) /\ run.rest # <<>>
    BY <1>1, BeforeReports DEF Reports, AtStageOf
  <2>2. CASE y = Over(run, "broken")
    <3>1. y.step = "over" /\ y.exit = "broken"
      BY <1>0, <2>2, OverIs
    <3> QED  BY <3>1 DEF Accounted
  <2>3. CASE y = Settle(run, FALSE, 0)
    <3> DEFINE s == Head(run.rest)
               hurts == ~s.partial
    <3>1. /\ y.rest = Tail(run.rest)
          /\ y.skip <=> run.skip \/ (~s.partial /\ s.fail = "fast")
          /\ y.passed <=> run.passed /\ ~(~s.partial /\ s.fail # "never")
          /\ y.kind = run.kind /\ y.step = run.step /\ y.exit = run.exit /\ y.todo = run.todo
          /\ y.tasks = run.tasks /\ y.bad = run.bad /\ y.unsent = run.unsent /\ y.sent = run.sent
      BY <1>0, <2>3, RefusedIs
    <3>2. Sure(run.rest) => Sure(Tail(run.rest)) \/ (~s.partial /\ s.fail # "never")
      BY <2>1, SureStage
    <3> HIDE DEF s
    <3> QED  BY <2>1, <3>1, <3>2 DEF Accounted
  <2>4. CASE y = Sends(Settle(run, TRUE, Full), Subject(run), Output(run))
    <3> DEFINE s == Settle(run, TRUE, Full)
               t == Subject(run)
               output == Output(run)
    <3>1. /\ DOMAIN s = JobFields
          /\ s.skip <=> run.skip
          /\ s.passed <=> run.passed
          /\ s.kind = run.kind /\ s.step = run.step /\ s.exit = run.exit /\ s.todo = run.todo
          /\ s.tasks = run.tasks /\ s.bad = run.bad /\ s.unsent = run.unsent /\ s.sent = run.sent
      BY <1>0, SucceededIs
    <3>2. y = Sends(s, t, output)
      BY <2>4
    <3>c. t = Head(run.todo)
      BY <2>1
    <3> HIDE DEF s, t, output
    <3>a. DOMAIN s = JobFields
      BY <3>1
    <3>3. y.sent = With(s.sent, t, output) /\ \A f \in JobFields \ {"sent"} : y[f] = s[f]
      BY <3>a, <3>2, SendsIs
    <3>b. /\ y.skip = s.skip /\ y.passed = s.passed
          /\ y.kind = s.kind /\ y.step = s.step /\ y.exit = s.exit /\ y.todo = s.todo
          /\ y.tasks = s.tasks /\ y.bad = s.bad /\ y.unsent = s.unsent
      BY <3>3, FieldNames
    <3>4. DOMAIN y.sent = DOMAIN run.sent \cup {t}
      BY <3>1, <3>3 DEF With
    <3>5. /\ y.skip <=> run.skip
          /\ y.passed <=> run.passed
          /\ y.kind = run.kind /\ y.step = run.step /\ y.exit = run.exit /\ y.todo = run.todo
          /\ y.tasks = run.tasks /\ y.bad = run.bad /\ y.unsent = run.unsent
      BY <3>1, <3>b
    <3>6. t \in Range(run.todo)
      BY <2>1, <3>c, TodoIs
    <3> QED  BY <2>1, <3>c, <3>4, <3>5, <3>6 DEF Accounted
  <2> QED  BY <1>1, <2>2, <2>3, <2>4 DEF Reports
<1>2. CASE Prepares(run, y)
  <2>1. /\ y.kind = "course" /\ y.step \in {"build", "built"} /\ run.step \in {"queued", "build"}
        /\ y.exit = run.exit /\ y.bad = run.bad /\ y.unsent = run.unsent /\ y.sent = run.sent
    BY <1>0, <1>2, GoesIs, BuiltIs, FieldNames DEF Prepares
  <2> QED  BY <2>1 DEF Accounted
<1>3. CASE Starts(run, y)
  <2>1. PICK ref, tasks : tasks \in Seq(Range(Tasks)) /\ y = Begin(run, ref, tasks)
    BY <1>3 DEF Starts
  <2>2. run.step \in {"queued", "built"}
    BY <1>3 DEF Starts
  <2>3. /\ y.step = "global" /\ y.todo = tasks /\ y.tasks = Range(tasks) /\ y.exit = run.exit
        /\ y.bad = run.bad /\ y.unsent = run.unsent /\ y.sent = run.sent
    BY <1>0, <2>1, BeginIs
  <2> QED  BY <2>2, <2>3 DEF Accounted
<1>4. CASE Finishes(run, y)
  <2>1. PICK exit : /\ y = Over(run, exit)
                    /\ exit \in {"passed", "failed"} =>
                         \/ run.step = "deploy"
                         \/ exit = "failed" /\ run.step \in {"queued", "global"}
                         \/ /\ run.step = "next" /\ run.todo = <<>>
                            /\ exit = "passed" => run.bad = {} /\ run.unsent = {}
    BY <1>4 DEF Finishes
  <2>2. /\ y.step = "over" /\ y.exit = exit /\ y.kind = run.kind /\ y.tasks = run.tasks
        /\ y.bad = run.bad /\ y.unsent = run.unsent /\ y.sent = run.sent
    BY <1>0, <2>1, OverIs
  <2>3. run.step = "deploy" => run.kind = "course"
    BY DEF JobOK
  <2>4. run.todo = <<>> => Range(run.todo) = {}
    BY NoPipeline DEF Range
  <2> QED  BY <2>1, <2>2, <2>3, <2>4 DEF Accounted
<1>5. CASE GoesOn(run, y)
  <2>0. \/ run.step = "global" /\ y = Goes(run, "next")
        \/ run.kind = "course" /\ y = Goes(run, "deploy")
    BY <1>5 DEF GoesOn
  <2>1. PICK step : /\ y = Goes(run, step)
                    /\ \/ run.step = "global" /\ step = "next"
                       \/ run.kind = "course" /\ step = "deploy"
    BY <2>0
  <2>2. y.step = step /\ \A f \in JobFields \ {"step"} : y[f] = run[f]
    BY <1>0, <2>1, GoesIs
  <2>3. /\ y.kind = run.kind /\ y.exit = run.exit /\ y.todo = run.todo /\ y.tasks = run.tasks
        /\ y.bad = run.bad /\ y.unsent = run.unsent /\ y.sent = run.sent
    BY <2>2, FieldNames
  <2>4. run.step \in {"global", "next"}
    BY <1>5 DEF GoesOn
  <2>5. \/ y.step = "next" /\ run.step = "global"
        \/ y.step = "deploy" /\ run.kind = "course"
    BY <2>1, <2>2
  <2> QED  BY <2>3, <2>4, <2>5 DEF Accounted
<1>6. CASE Opens(run, y)
  <2>1. PICK ref, step :
               /\ step \in {"task", "report"}
               /\ y = Enters(run, step, PipelineOf(ref, run.conf, Head(run.todo), step))
               /\ run.step \in {"next", "task"}
    BY <1>6 DEF Opens
  <2> DEFINE p == PipelineOf(ref, run.conf, Head(run.todo), step)
  <2>2. step = "report" => Sure(p)
    <3>1. ConfOK(run.conf)
      BY DEF JobOK
    <3> QED  BY <3>1, PipelineIs, SureIs
  <2>3. y = Enters(run, step, p)
    BY <2>1
  <2> HIDE DEF p
  <2>4. /\ y.step = step /\ y.rest = p /\ ~y.skip /\ y.passed
        /\ y.kind = run.kind /\ y.exit = run.exit /\ y.todo = run.todo /\ y.tasks = run.tasks
        /\ y.bad = run.bad /\ y.unsent = run.unsent /\ y.sent = run.sent
    BY <1>0, <2>3, EntersIs
  <2> QED  BY <2>1, <2>2, <2>4 DEF Accounted
<1>7. CASE Closes(run, y)
  <2>1. PICK bad, unsent :
               /\ y = Dropped(run, bad, unsent)
               /\ \/ run.step = "task" /\ bad = run.bad \cup {Head(run.todo)} /\ unsent = run.unsent
                  \/ run.step = "report" /\ run.passed /\ bad = run.bad /\ unsent = run.unsent
                  \/ run.step = "report" /\ bad = run.bad /\ unsent = run.unsent \cup {Head(run.todo)}
    BY <1>7 DEF Closes
  <2>2. /\ y.step = "next" /\ y.todo = Tail(run.todo) /\ y.bad = bad /\ y.unsent = unsent
        /\ \A f \in JobFields \ {"step", "todo", "bad", "unsent"} : y[f] = run[f]
    BY <1>0, <2>1, DroppedIs
  <2>3. y.kind = run.kind /\ y.exit = run.exit /\ y.tasks = run.tasks /\ y.sent = run.sent
    BY <2>2, FieldNames
  <2>4. run.todo # <<>> /\ run.rest = <<>> /\ run.step \in {"task", "report"}
    BY <1>7 DEF Closes
  <2>5. Range(run.todo) = {Head(run.todo)} \cup Range(y.todo)
    BY <2>2, <2>4, TodoIs
  <2>6. ~Sure(run.rest)
    BY <2>4, NoPipeline DEF Sure, Range
  <2> DEFINE t == Head(run.todo)
             R == Range(y.todo)
             D == DOMAIN run.sent
  <2>7. run.kind = "grade" /\ run.step = "report" /\ run.passed => t \in D
    BY <2>6 DEF Accounted
  <2>8. run.kind = "grade" => run.tasks = run.bad \cup run.unsent \cup D \cup Range(run.todo)
    BY <2>4 DEF Accounted
  <2>9. run.exit = None
    BY <2>4 DEF Accounted
  <2>10. run.kind = "grade" => y.tasks = y.bad \cup y.unsent \cup DOMAIN y.sent \cup R
    <3>1. run.kind = "grade" => run.tasks = run.bad \cup run.unsent \cup D \cup {t} \cup R
      BY <2>5, <2>8
    <3> HIDE DEF t, R, D
    <3>2. \/ bad = run.bad \cup {t} /\ unsent = run.unsent
          \/ (run.kind = "grade" => t \in D) /\ bad = run.bad /\ unsent = run.unsent
          \/ bad = run.bad /\ unsent = run.unsent \cup {t}
      BY <2>1, <2>7 DEF t
    <3>3. DOMAIN y.sent = D
      BY <2>3 DEF D
    <3> QED  BY <2>2, <2>3, <3>1, <3>2, <3>3
  <2> QED  BY <2>2, <2>3, <2>9, <2>10 DEF Accounted
<1>8. CASE RunsStage(run, y)
  <2>0. run.step \in {"global", "task", "report"} /\ run.rest # <<>>
    BY <1>8 DEF RunsStage, AtStageOf
  <2> DEFINE s == Head(run.rest)
  <2>1. /\ y.rest = Tail(run.rest)
        /\ y.kind = run.kind /\ y.step = run.step /\ y.exit = run.exit /\ y.todo = run.todo
        /\ y.tasks = run.tasks /\ y.bad = run.bad /\ y.unsent = run.unsent /\ y.sent = run.sent
    <3>1. CASE y = Passed(run)
      <4>1. y.rest = Tail(run.rest) /\ \A f \in JobFields \ {"rest"} : y[f] = run[f]
        BY <1>0, <3>1, PassedIs
      <4> QED  BY <4>1, FieldNames
    <3>2. CASE \E ok, percent : y = Settle(run, ok, percent)
      BY <1>0, <3>2, SettledIs
    <3> QED  BY <1>8, <3>1, <3>2 DEF RunsStage
  <2>2. /\ (run.skip => ~run.passed) => (y.skip => ~y.passed)
        /\ y.passed => run.passed
    <3>1. CASE y = Passed(run)
      <4>1. \A f \in JobFields \ {"rest"} : y[f] = run[f]
        BY <1>0, <3>1, PassedIs
      <4>2. y.skip = run.skip /\ y.passed = run.passed
        BY <4>1, FieldNames
      <4> QED  BY <4>2
    <3>2. CASE \E ok, percent : y = Settle(run, ok, percent)
      <4>1. PICK ok, percent : y = Settle(run, ok, percent)
        BY <3>2
      <4>2. /\ y.skip <=> run.skip \/ (~ok /\ ~s.partial /\ s.fail = "fast")
            /\ y.passed <=> run.passed /\ ~(~ok /\ ~s.partial /\ s.fail # "never")
        BY <1>0, <4>1, SettledIs
      <4> HIDE DEF s
      <4> QED  BY <4>2
    <3> QED  BY <1>8, <3>1, <3>2 DEF RunsStage
  <2>3. run.kind = "grade" /\ run.step = "report" /\ ~run.skip /\ Sure(run.rest) => Sure(y.rest)
    <3>1. s.run = "report" /\ run.kind = "grade" => Skipped(run)
      BY <1>8 DEF RunsStage, Dry
    <3>2. s.when = "always" /\ ~run.skip => ~Skipped(run)
      BY DEF Skipped
    <3>3. Sure(run.rest) => Sure(Tail(run.rest)) \/ (s.run = "report" /\ s.when = "always")
      BY <2>0, SureStage
    <3> QED  BY <2>1, <3>1, <3>2, <3>3
  <2> HIDE DEF s
  <2> QED  BY <2>0, <2>1, <2>2, <2>3 DEF Accounted
<1> QED  BY <1>1, <1>2, <1>3, <1>4, <1>5, <1>6, <1>7, <1>8

SettledInv == \A r \in Runs : Honest(runs[r], scores) /\ Accounted(runs[r])

LEMMA SettledNext ==
  ASSUME ReportsAlways, JobsInv, ReportsInv, SettledInv, [Next]_vars
  PROVE  SettledInv'
<1>0. /\ DOMAIN runs = Runs /\ scores \in [Range(Tasks) -> Int]
      /\ \A r \in Runs : JobOK(runs[r]) /\ InOrder(runs[r]) /\ Honest(runs[r], scores) /\ Accounted(runs[r])
  BY DEF JobsInv, ReportsInv, SettledInv
<1> DEFINE stored == scores'
<1>1. ASSUME NEW r \in Runs, NEW y, Become(r, y), Honest(y, stored), Accounted(y),
             stored \in [Range(Tasks) -> Int], \A t \in Range(Tasks) : stored[t] >= scores[t]
      PROVE  SettledInv'
  <2>1. runs'[r] = y /\ \A q \in Runs : q # r => runs'[q] = runs[q]
    BY <1>0, <1>1, BecomeIs
  <2> HIDE DEF stored
  <2>2. \A q \in Runs : Honest(runs[q], stored)
    BY <1>0, <1>1, HonestGrows
  <2>3. \A q \in Runs : Honest(runs'[q], stored) /\ Accounted(runs'[q])
    BY <1>0, <1>1, <2>1, <2>2
  <2> QED  BY <2>3 DEF SettledInv, stored
<1>2. CASE runs' = runs /\ scores' = scores
  BY <1>0, <1>2 DEF SettledInv, Honest, Accounted
<1>3. ASSUME NEW r \in Runs, NEW kind \in {"course", "grade"}, NEW c, NEW tree, NEW last, NEW named,
             ConfOK(c), Become(r, Queued(kind, c, tree, last, named)), scores' = scores
      PROVE  SettledInv'
  <2> DEFINE y == Queued(kind, c, tree, last, named)
  <2>1. y.step = "queued" /\ y.exit = None /\ y.sent = <<>> /\ y.bad = {} /\ y.unsent = {}
    BY <1>3, QueuedIs
  <2>2. Become(r, y)
    BY <1>3
  <2> HIDE DEF y
  <2>3. Accounted(y) /\ Honest(y, scores)
    BY <2>1, NoPipeline DEF Accounted, Honest
  <2>4. \A t \in Range(Tasks) : scores[t] >= scores[t]
    <3> TAKE t \in Range(Tasks)
    <3>1. scores[t] \in Int
      BY <1>0
    <3> QED  BY <3>1
  <2> QED  BY <1>0, <1>1, <1>3, <2>2, <2>3, <2>4
<1>4. ASSUME NEW r \in Runs, Work(r) PROVE SettledInv'
  <2>1. PICK y : Become(r, y)
    BY <1>4, WorkIs
  <2> DEFINE run == runs[r]
  <2>2. \/ Reports(run, y)
        \/ /\ scores' = scores
           /\ \/ Prepares(run, y) \/ Starts(run, y) \/ Finishes(run, y) \/ GoesOn(run, y)
              \/ Opens(run, y) \/ Closes(run, y) \/ RunsStage(run, y)
    BY <1>4, <2>1, WorkSteps
  <2>3. JobOK(run) /\ InOrder(run) /\ Honest(run, scores) /\ Accounted(run)
    BY <1>0
  <2> HIDE DEF run
  <2>4. Accounted(y)
    BY <2>2, <2>3, AccountedSteps
  <2>5. /\ stored \in [Range(Tasks) -> Int] /\ Honest(y, stored)
        /\ \A t \in Range(Tasks) : stored[t] >= scores[t]
    BY <1>0, <2>2, <2>3, HonestSteps
  <2> QED  BY <1>1, <2>1, <2>4, <2>5
<1>5. CASE UNCHANGED vars
  BY <1>2, <1>5 DEF vars
<1> QED  BY <1>2, <1>3, <1>4, <1>5, StepIs

LEMMA SettledInit == Init => SettledInv
<1> SUFFICES ASSUME Init PROVE SettledInv
  OBVIOUS
<1> DEFINE q == Queued("grade", conf, <<>>, {}, {})
           p == Over(q, "nothing")
<1>1. runs = [r \in Runs |-> p]
  BY DEF Init, InitGrading
<1>2. DOMAIN q = JobFields /\ q.sent = <<>> /\ q.bad = {} /\ q.unsent = {} /\ q.tasks = {}
  BY DEF Queued, JobFields
<1> HIDE DEF q
<1>3. p.step = "over" /\ p.exit = "nothing" /\ p.sent = <<>>
  BY <1>2, OverIs
<1> HIDE DEF p
<1>4. Accounted(p) /\ Honest(p, scores)
  BY <1>3, NoPipeline DEF Accounted, Honest
<1> QED  BY <1>1, <1>4 DEF SettledInv

LEMMA SettledIsEnough == ASSUME SettledInv PROVE EveryTaskIsSettled
<1> SUFFICES ASSUME NEW r \in Runs
             PROVE  LET run == runs[r] IN
                    /\ \A t \in DOMAIN run.sent : scores[t] >= run.sent[t].percent
                    /\ run.kind = "grade" /\ run.exit = "passed" => run.tasks = DOMAIN run.sent
                    /\ run.kind = "grade" /\ run.exit = "failed" /\ run.bad \cup run.unsent # {}
                         => run.tasks = run.bad \cup run.unsent \cup DOMAIN run.sent
  BY DEF EveryTaskIsSettled
<1>1. runs[r].exit \in {"passed", "failed"} => runs[r].step = "over"
  BY NoneAssumption DEF SettledInv, Accounted
<1> QED  BY <1>1 DEF SettledInv, Honest, Accounted

(* A job that is over says what became of every task it was for, and what   *)
(* it says was stored is stored: of every instance whose report pipelines   *)
(* report, and no others.  (Tester.run, tester.py.)                         *)
THEOREM EveryTaskIsSettledAlways ==
  ASSUME ReportsLast, ReportsAlways
  PROVE  Spec => []EveryTaskIsSettled
<1>1. Init => JobsInv /\ ReportsInv /\ SettledInv
  BY JobsInit, ReportsInit, SettledInit
<1>2. JobsInv /\ ReportsInv /\ SettledInv /\ [Next]_vars => (JobsInv /\ ReportsInv /\ SettledInv)'
  BY JobsNext, ReportsNext, SettledNext
<1>3. SettledInv => EveryTaskIsSettled
  BY SettledIsEnough
<1> QED  BY <1>1, <1>2, <1>3, PTL DEF Spec

------------------------------------------------------------------------------
(* What is reported for a task was measured on it.  An output that a task   *)
(* pipeline always registers is the task's own once the pipeline passed,    *)
(* and stays its own through the report pipeline.                           *)

Backed(run, k) == k \in DOMAIN run.outputs => run.outputs[k].of \in {Head(run.todo), "global"}

OwnOutputs(run) ==
    /\ run.step \in {"queued", "build", "built"} => DOMAIN run.outputs = {} /\ DOMAIN run.sent = {}
    /\ \A k \in DOMAIN run.outputs : Common(run.conf, k) => run.outputs[k].of = "global"
    /\ run.step \in {"task", "report"} =>
         /\ \A s \in Range(run.rest) : ~Common(run.conf, s.key)
         /\ run.skip => ~run.passed
    /\ run.step = "task" /\ run.passed /\ Head(run.todo) \in run.conf.testing =>
         \A k : Steady(run.conf, k) => Backed(run, k) \/ \E s \in Range(run.rest) : Feeds(s, k)
    /\ run.step = "report" /\ ~run.skip /\ Head(run.todo) \in run.conf.testing =>
         \A i \in DOMAIN run.rest : run.rest[i].run = "report" =>
            \/ Backed(run, run.rest[i].needs[1])
            \/ \E j \in 1..(i - 1) : Feeds(run.rest[j], run.rest[i].needs[1])
    /\ \A t \in DOMAIN run.sent : run.sent[t].of \in {t, "global"} \/ t \notin run.conf.testing

\* A stage that was skipped, or came to an end.
Staged(run, y) ==
    /\ y.rest = Tail(run.rest)
    /\ y.step = run.step /\ y.conf = run.conf /\ y.todo = run.todo
    /\ run.skip => y.skip
    /\ y.passed => run.passed
    /\ (run.skip => ~run.passed) => (y.skip => ~y.passed)
    /\ \/ Skipped(run) /\ y.outputs = run.outputs
       \/ ~Skipped(run) /\ \E n : y.outputs = Register(run, n)

LEMMA SettledStage ==
  ASSUME NEW run, NEW ok, NEW percent, DOMAIN run = JobFields, ~Skipped(run)
  PROVE  Staged(run, Settle(run, ok, percent))
<1> DEFINE y == Settle(run, ok, percent)
           s == Head(run.rest)
<1>1. /\ y.rest = Tail(run.rest)
      /\ y.step = run.step /\ y.conf = run.conf /\ y.todo = run.todo
      /\ y.outputs = Register(run, percent)
  BY SettleIs
<1>2. /\ y.skip <=> run.skip \/ (~ok /\ ~s.partial /\ s.fail = "fast")
      /\ y.passed <=> run.passed /\ ~(~ok /\ ~s.partial /\ s.fail # "never")
  BY SettledIs
<1> HIDE DEF y, s
<1>3. Staged(run, y)
  BY <1>1, <1>2 DEF Staged
<1> QED  BY <1>3 DEF y

LEMMA StageSteps ==
  ASSUME NEW run, JobOK(run), NEW y, RunsStage(run, y)
  PROVE  Staged(run, y) /\ y.sent = run.sent
<1>0. DOMAIN run = JobFields
  BY DEF JobOK
<1>1. CASE Skipped(run) /\ y = Passed(run)
  <2>1. y.rest = Tail(run.rest) /\ \A f \in JobFields \ {"rest"} : y[f] = run[f]
    BY <1>0, <1>1, PassedIs
  <2>2. /\ y.step = run.step /\ y.conf = run.conf /\ y.todo = run.todo /\ y.sent = run.sent
        /\ y.skip = run.skip /\ y.passed = run.passed /\ y.outputs = run.outputs
    BY <2>1, FieldNames
  <2> QED  BY <1>1, <2>1, <2>2 DEF Staged
<1>2. CASE ~Skipped(run) /\ \E ok, percent : y = Settle(run, ok, percent)
  <2>1. PICK ok, percent : y = Settle(run, ok, percent)
    BY <1>2
  <2>2. y.sent = run.sent
    BY <1>0, <2>1, SettleIs
  <2> QED  BY <1>0, <1>2, <2>1, <2>2, SettledStage
<1> QED  BY <1>1, <1>2 DEF RunsStage

LEMMA RegisteredIs ==
  ASSUME NEW run, NEW n, Head(run.rest).key # None
  PROVE  /\ DOMAIN Register(run, n) = DOMAIN run.outputs \cup {Head(run.rest).key}
         /\ Register(run, n)[Head(run.rest).key].of = Subject(run)
         /\ \A k \in DOMAIN run.outputs :
              k # Head(run.rest).key => Register(run, n)[k] = run.outputs[k]
<1> DEFINE key == Head(run.rest).key
           more == Register(run, n)
           v == [percent |-> n, of |-> Subject(run)]
<1>1. /\ DOMAIN more = DOMAIN run.outputs \cup {key}
      /\ more[key] = v
      /\ \A k \in DOMAIN run.outputs : k # key => more[k] = run.outputs[k]
  BY RegisterIs
<1>2. v.of = Subject(run)
  OBVIOUS
<1>3. more[key].of = Subject(run)
  BY <1>1, <1>2
<1> HIDE DEF key, more
<1>4. /\ DOMAIN more = DOMAIN run.outputs \cup {key}
      /\ more[key].of = Subject(run)
      /\ \A k \in DOMAIN run.outputs : k # key => more[k] = run.outputs[k]
  BY <1>1, <1>3
<1> QED  BY <1>4 DEF key, more

LEMMA BackedStays ==
  ASSUME NEW run, NEW y, Staged(run, y), run.step \in {"task", "report"}, NEW k
  PROVE  /\ Backed(run, k) => Backed(y, k)
         /\ ~Skipped(run) /\ Feeds(Head(run.rest), k) => Backed(y, k)
<1> DEFINE t == Head(run.todo)
           s == Head(run.rest)
<1>1. Subject(run) = t /\ Head(y.todo) = t
  BY DEF Subject, Staged
<1> HIDE DEF t
<1>2. CASE y.outputs = run.outputs /\ Skipped(run)
  BY <1>1, <1>2 DEF Backed, t
<1>3. CASE ~Skipped(run) /\ \E n : y.outputs = Register(run, n)
  <2>1. PICK n : y.outputs = Register(run, n)
    BY <1>3
  <2>3. CASE s.key = None
    <3>1. y.outputs = run.outputs
      BY <2>1, <2>3, RegisterIs
    <3> QED  BY <1>1, <2>3, <3>1 DEF Backed, Feeds, t
  <2>4. CASE s.key # None
    <3>1. /\ DOMAIN y.outputs = DOMAIN run.outputs \cup {s.key}
          /\ y.outputs[s.key].of = Subject(run)
          /\ \A x \in DOMAIN run.outputs : x # s.key => y.outputs[x] = run.outputs[x]
      <4>1. /\ DOMAIN Register(run, n) = DOMAIN run.outputs \cup {s.key}
            /\ Register(run, n)[s.key].of = Subject(run)
            /\ \A x \in DOMAIN run.outputs : x # s.key => Register(run, n)[x] = run.outputs[x]
        BY <2>4, RegisteredIs
      <4> DEFINE more == Register(run, n)
      <4>2. y.outputs = more
        BY <2>1
      <4> HIDE DEF more, s
      <4> QED  BY <4>1, <4>2 DEF more
    <3> HIDE DEF s
    <3>2. CASE k = s.key
      <4>1. Backed(y, k)
        BY <1>1, <3>1, <3>2 DEF Backed
      <4> QED  BY <4>1
    <3>3. CASE k # s.key
      <4>1. ~Feeds(s, k)
        BY <3>3 DEF Feeds
      <4>2. k \in DOMAIN y.outputs => k \in DOMAIN run.outputs /\ y.outputs[k] = run.outputs[k]
        BY <3>1, <3>3
      <4>3. Backed(run, k) => Backed(y, k)
        BY <1>1, <4>2 DEF Backed, t
      <4> QED  BY <4>1, <4>3 DEF s
    <3> QED  BY <3>2, <3>3
  <2> QED  BY <2>3, <2>4
<1> QED  BY <1>2, <1>3 DEF Staged

\* Outputs that no task registers stay the course's.
LEMMA CommonStays ==
  ASSUME NEW run, NEW y, Staged(run, y), run.step \in {"global", "task", "report"},
         run.step # "global" => ~Common(run.conf, Head(run.rest).key),
         \A k \in DOMAIN run.outputs : Common(run.conf, k) => run.outputs[k].of = "global"
  PROVE  \A k \in DOMAIN y.outputs : Common(y.conf, k) => y.outputs[k].of = "global"
<1> DEFINE s == Head(run.rest)
<1>0. y.conf = run.conf
  BY DEF Staged
<1>1. CASE y.outputs = run.outputs
  BY <1>0, <1>1
<1>2. CASE \E n : y.outputs = Register(run, n)
  <2>1. PICK n : y.outputs = Register(run, n)
    BY <1>2
  <2>2. run.step = "global" => Subject(run) = "global"
    BY DEF Subject
  <2>3. CASE s.key = None
    <3>1. y.outputs = run.outputs
      BY <2>1, <2>3, RegisterIs
    <3> QED  BY <1>1, <3>1
  <2>4. CASE s.key # None
    <3>1. /\ DOMAIN y.outputs = DOMAIN run.outputs \cup {s.key}
          /\ y.outputs[s.key].of = Subject(run)
          /\ \A x \in DOMAIN run.outputs : x # s.key => y.outputs[x] = run.outputs[x]
      <4>1. /\ DOMAIN Register(run, n) = DOMAIN run.outputs \cup {s.key}
            /\ Register(run, n)[s.key].of = Subject(run)
            /\ \A x \in DOMAIN run.outputs : x # s.key => Register(run, n)[x] = run.outputs[x]
        BY <2>4, RegisteredIs
      <4> DEFINE more == Register(run, n)
      <4>2. y.outputs = more
        BY <2>1
      <4> HIDE DEF more, s
      <4> QED  BY <4>1, <4>2 DEF more
    <3> HIDE DEF s
    <3>2. ASSUME NEW k \in DOMAIN y.outputs, Common(run.conf, k) PROVE y.outputs[k].of = "global"
      <4>1. CASE k = s.key
        BY <2>2, <3>1, <3>2, <4>1 DEF s
      <4>2. CASE k # s.key
        BY <3>1, <3>2, <4>2
      <4> QED  BY <4>1, <4>2
    <3> QED  BY <1>0, <3>2
  <2> QED  BY <2>3, <2>4
<1> QED  BY <1>1, <1>2 DEF Staged

\* The stage of a task whose tests are on is skipped only after a failure.
LEMMA SteadyRuns ==
  ASSUME NEW run, run.step \in {"task", "report"}, Head(run.todo) \in run.conf.testing, ~run.skip,
         NEW k, Feeds(Head(run.rest), k)
  PROVE  ~Skipped(run)
BY DEF Skipped, Subject, Feeds

LEMMA OwnStage ==
  ASSUME NEW run, NEW y, JobOK(run), run.rest # <<>>, run.step \in {"global", "task", "report"},
         Staged(run, y), OwnOutputs(run),
         \A t \in DOMAIN y.sent : y.sent[t].of \in {t, "global"} \/ t \notin run.conf.testing
  PROVE  OwnOutputs(y)
<1> DEFINE t == Head(run.todo)
           s == Head(run.rest)
           c == run.conf
<1>0. /\ y.rest = Tail(run.rest) /\ y.step = run.step /\ y.conf = c /\ y.todo = run.todo
      /\ run.skip => y.skip
      /\ y.passed => run.passed
  BY DEF Staged
<1>1. /\ s \in Range(run.rest) /\ Range(run.rest) = {s} \cup Range(Tail(run.rest))
      /\ run.rest \in Seq(Range(run.rest))
  BY TailOf DEF JobOK, IsPipeline
<1>2. \A k \in DOMAIN y.outputs : Common(y.conf, k) => y.outputs[k].of = "global"
  <2>1. run.step # "global" => ~Common(run.conf, s.key)
    BY <1>1 DEF OwnOutputs
  <2>2. \A k \in DOMAIN run.outputs : Common(run.conf, k) => run.outputs[k].of = "global"
    BY DEF OwnOutputs
  <2> QED  BY <2>1, <2>2, CommonStays
<1>3. y.step \in {"task", "report"} =>
         /\ \A x \in Range(y.rest) : ~Common(y.conf, x.key)
         /\ y.skip => ~y.passed
  BY <1>0, <1>1 DEF OwnOutputs, Staged
<1>4. ASSUME y.step = "task", y.passed, t \in c.testing, NEW k, Steady(c, k)
      PROVE  Backed(y, k) \/ \E x \in Range(y.rest) : Feeds(x, k)
  <2>1. run.step = "task" /\ run.passed /\ ~run.skip
    BY <1>0, <1>4 DEF OwnOutputs
  <2>2. Backed(run, k) \/ \E x \in Range(run.rest) : Feeds(x, k)
    BY <1>4, <2>1 DEF OwnOutputs
  <2>3. Backed(run, k) => Backed(y, k)
    BY <2>1, BackedStays
  <2>4. Feeds(s, k) => Backed(y, k)
    BY <1>4, <2>1, BackedStays, SteadyRuns
  <2> HIDE DEF s
  <2> QED  BY <1>0, <1>1, <2>2, <2>3, <2>4
<1>5. ASSUME y.step = "report", ~y.skip, t \in c.testing, NEW i \in DOMAIN y.rest, y.rest[i].run = "report"
      PROVE  \/ Backed(y, y.rest[i].needs[1])
             \/ \E j \in 1..(i - 1) : Feeds(y.rest[j], y.rest[i].needs[1])
  <2>1. run.step = "report" /\ ~run.skip
    BY <1>0, <1>5
  <2> DEFINE n == Len(run.rest)
             k == y.rest[i].needs[1]
  <2>2. n \in Nat /\ n # 0 /\ DOMAIN run.rest = 1..n /\ s = run.rest[1]
    BY <1>1
  <2>3. DOMAIN y.rest = 1..(n - 1) /\ \A j \in 1..(n - 1) : y.rest[j] = run.rest[j + 1]
    BY <1>0, <1>1
  <2>4. i \in 1..(n - 1) /\ i + 1 \in 1..n /\ y.rest[i] = run.rest[i + 1]
    BY <1>5, <2>2, <2>3
  <2>5. \/ Backed(run, k)
        \/ \E j \in 1..i : Feeds(run.rest[j], k)
    <3>1. run.rest[i + 1].run = "report"
      BY <1>5, <2>4
    <3>2. (i + 1) - 1 = i
      BY <2>2, <2>4
    <3>3. \/ Backed(run, run.rest[i + 1].needs[1])
          \/ \E j \in 1..((i + 1) - 1) : Feeds(run.rest[j], run.rest[i + 1].needs[1])
      BY <1>5, <2>1, <2>2, <2>4, <3>1 DEF OwnOutputs
    <3> QED  BY <2>4, <3>2, <3>3
  <2>6. Backed(run, k) => Backed(y, k)
    BY <2>1, BackedStays
  <2>7. Feeds(s, k) => Backed(y, k)
    BY <1>5, <2>1, BackedStays, SteadyRuns
  <2> HIDE DEF s, n, k
  <2>8. ASSUME NEW j \in 1..i, Feeds(run.rest[j], k)
        PROVE  Backed(y, k) \/ \E m \in 1..(i - 1) : Feeds(y.rest[m], k)
    <3>1. CASE j = 1
      BY <2>2, <2>7, <2>8, <3>1
    <3>2. CASE j # 1
      <4>1. j - 1 \in 1..(i - 1) /\ j - 1 \in 1..(n - 1) /\ (j - 1) + 1 = j
        BY <2>2, <2>4, <3>2
      <4>2. y.rest[j - 1] = run.rest[j]
        BY <2>3, <4>1
      <4> QED  BY <2>8, <4>1, <4>2
    <3> QED  BY <3>1, <3>2
  <2> QED  BY <2>5, <2>6, <2>8 DEF k
<1> HIDE DEF t, c
<1>6. \A u \in DOMAIN y.sent : y.sent[u].of \in {u, "global"} \/ u \notin y.conf.testing
  BY <1>0 DEF c
<1>7. Head(y.todo) = t /\ y.conf = c /\ y.step \notin {"queued", "build", "built"}
  BY <1>0 DEF t
<1> QED  BY <1>2, <1>3, <1>4, <1>5, <1>6, <1>7 DEF OwnOutputs

LEMMA OwnScoresOf ==
  ASSUME OwnScores, NEW c, ConfOK(c), NEW p \in PipelinesFor(c, "report"),
         NEW i \in DOMAIN p, p[i].run = "report"
  PROVE  \/ Common(c, p[i].needs[1]) \/ Steady(c, p[i].needs[1])
         \/ \E j \in 1..(i - 1) : Feeds(p[j], p[i].needs[1])
<1>1. PICK d \in Courses : \A which : PipelinesFor(c, which) = PipelinesFor(d.conf, which)
  BY DesignOf
<1> DEFINE k == p[i].needs[1]
<1>2. Common(d.conf, k) = Common(c, k) /\ Steady(d.conf, k) = Steady(c, k)
  BY <1>1 DEF Common, Steady
<1>3. Common(d.conf, k) \/ Steady(d.conf, k) \/ \E j \in 1..(i - 1) : Feeds(p[j], k)
  BY <1>1 DEF OwnScores
<1> HIDE DEF k
<1>4. Common(c, k) \/ Steady(c, k) \/ \E j \in 1..(i - 1) : Feeds(p[j], k)
  BY <1>2, <1>3
<1> QED  BY <1>4 DEF k

LEMMA OwnOpens ==
  ASSUME OwnScores, NEW run, JobOK(run), OwnOutputs(run), NEW y, Opens(run, y)
  PROVE  OwnOutputs(y)
<1>0. DOMAIN run = JobFields /\ ConfOK(run.conf)
  BY DEF JobOK
<1>1. PICK ref, step :
             /\ step \in {"task", "report"}
             /\ y = Enters(run, step, PipelineOf(ref, run.conf, Head(run.todo), step))
             /\ step = "report" => run.step = "task" /\ run.rest = <<>> /\ run.passed
  BY DEF Opens
<1> DEFINE p == PipelineOf(ref, run.conf, Head(run.todo), step)
           t == Head(run.todo)
           c == run.conf
<1>2. p \in PipelinesFor(c, step)
  BY PipelineIs
<1>3. y = Enters(run, step, p)
  BY <1>1
<1> HIDE DEF p
<1>4. /\ y.step = step /\ y.rest = p /\ ~y.skip /\ y.passed /\ y.conf = c
      /\ y.todo = run.todo /\ y.outputs = run.outputs /\ y.sent = run.sent
  BY <1>0, <1>3, EntersIs
<1>5. \A s \in Range(p) : ~Common(c, s.key)
  BY <1>1, <1>2 DEF Common
<1>6. step = "task" => \A k : Steady(c, k) => \E s \in Range(p) : Feeds(s, k)
  BY <1>2 DEF Steady
<1>7. ASSUME step = "report", t \in c.testing, NEW i \in DOMAIN p, p[i].run = "report"
      PROVE  \/ Backed(y, p[i].needs[1]) \/ \E j \in 1..(i - 1) : Feeds(p[j], p[i].needs[1])
  <2> DEFINE k == p[i].needs[1]
  <2>1. Common(c, k) \/ Steady(c, k) \/ \E j \in 1..(i - 1) : Feeds(p[j], k)
    BY <1>0, <1>2, <1>7, OwnScoresOf
  <2> HIDE DEF k
  <2>2. Common(c, k) => Backed(y, k)
    BY <1>4 DEF Backed, OwnOutputs
  <2>3. Range(run.rest) = {}
    BY <1>1, <1>7, NoPipeline DEF Range
  <2>4. Steady(c, k) => Backed(run, k)
    BY <1>1, <1>7, <2>3 DEF OwnOutputs
  <2>5. Backed(run, k) => Backed(y, k)
    BY <1>4 DEF Backed
  <2> QED  BY <2>1, <2>2, <2>4, <2>5 DEF k
<1>8. /\ \A k \in DOMAIN run.outputs : Common(c, k) => run.outputs[k].of = "global"
      /\ \A u \in DOMAIN run.sent : run.sent[u].of \in {u, "global"} \/ u \notin c.testing
  BY DEF OwnOutputs
<1>9. Head(y.todo) = t
  BY <1>4
<1> HIDE DEF t, c
<1> QED  BY <1>1, <1>4, <1>5, <1>6, <1>7, <1>8, <1>9 DEF OwnOutputs

LEMMA OwnSteps ==
  ASSUME ReportsLast, OwnScores, NEW run, JobOK(run), InOrder(run), OwnOutputs(run), NEW y,
         \/ Reports(run, y)
         \/ Prepares(run, y) \/ Starts(run, y) \/ Finishes(run, y) \/ GoesOn(run, y)
         \/ Opens(run, y) \/ Closes(run, y) \/ RunsStage(run, y)
  PROVE  OwnOutputs(y)
<1>0. DOMAIN run = JobFields /\ ConfOK(run.conf)
  BY DEF JobOK
<1>s. \A t \in DOMAIN run.sent : run.sent[t].of \in {t, "global"} \/ t \notin run.conf.testing
  BY DEF OwnOutputs
<1>o. ASSUME NEW x, x.step \notin {"queued", "build", "built", "task", "report"},
             x.conf = run.conf, x.outputs = run.outputs \/ DOMAIN x.outputs = {}, x.sent = run.sent
      PROVE  OwnOutputs(x)
  BY <1>o DEF OwnOutputs
<1>1. CASE Reports(run, y)
  <2>1. /\ run.step = "report" /\ run.todo # <<>> /\ Subject(run) = Head(run.todo)
        /\ run.rest # <<>> /\ Resolved(run) /\ ~Skipped(run) /\ Head(run.rest).run = "report"
    BY <1>1, BeforeReports DEF Reports, AtStageOf
  <2>2. CASE y = Over(run, "broken")
    <3>1. y.step = "over" /\ y.conf = run.conf /\ y.outputs = <<>> /\ y.sent = run.sent
      BY <1>0, <2>2, OverIs
    <3> QED  BY <1>o, <3>1, NoPipeline
  <2>3. CASE y = Settle(run, FALSE, 0)
    <3>1. Staged(run, y) /\ y.sent = run.sent
      BY <1>0, <2>1, <2>3, SettledStage, RefusedIs
    <3> QED  BY <1>s, <2>1, <3>1, OwnStage
  <2>4. CASE y = Sends(Settle(run, TRUE, Full), Subject(run), Output(run))
    <3> DEFINE s == Settle(run, TRUE, Full)
               t == Subject(run)
               output == Output(run)
               k == Head(run.rest).needs[1]
    <3>1. DOMAIN s = JobFields /\ s.sent = run.sent /\ Staged(run, s)
      BY <1>0, <2>1, SucceededIs, SettledStage
    <3>2. y = Sends(s, t, output)
      BY <2>4
    <3>3. output = run.outputs[k] /\ k \in DOMAIN run.outputs
      BY <2>1, OutputIs DEF Output
    <3>4. t \in run.conf.testing => output.of \in {t, "global"}
      <4> SUFFICES ASSUME t \in run.conf.testing PROVE output.of \in {t, "global"}
        OBVIOUS
      <4>1. ~run.skip
        BY <2>1 DEF Skipped
      <4>2. 1 \in DOMAIN run.rest /\ run.rest[1] = Head(run.rest)
        BY <2>1 DEF JobOK, IsPipeline
      <4>3. Backed(run, k) \/ \E j \in 1..(1 - 1) : Feeds(run.rest[j], k)
        BY <2>1, <4>1, <4>2 DEF OwnOutputs
      <4> HIDE DEF k, output
      <4> QED  BY <2>1, <3>3, <4>3 DEF Backed
    <3> HIDE DEF s, t, output
    <3>5. y.sent = With(s.sent, t, output) /\ \A f \in JobFields \ {"sent"} : y[f] = s[f]
      BY <3>1, <3>2, SendsIs
    <3>6. /\ y.rest = s.rest /\ y.step = s.step /\ y.conf = s.conf /\ y.todo = s.todo
          /\ y.skip = s.skip /\ y.passed = s.passed /\ y.outputs = s.outputs
      BY <3>5, FieldNames
    <3>7. Staged(run, y)
      BY <3>1, <3>6 DEF Staged
    <3>8. \A u \in DOMAIN y.sent : \/ u = t /\ y.sent[u] = output
                                   \/ u \in DOMAIN run.sent /\ y.sent[u] = run.sent[u]
      BY <3>1, <3>5 DEF With
    <3>9. \A u \in DOMAIN y.sent : y.sent[u].of \in {u, "global"} \/ u \notin run.conf.testing
      BY <1>s, <3>4, <3>8
    <3> QED  BY <2>1, <3>7, <3>9, OwnStage
  <2> QED  BY <1>1, <2>2, <2>3, <2>4 DEF Reports
<1>2. CASE Prepares(run, y)
  <2>0. PICK step, ref : /\ y = Goes(run, step) \/ y = Built(run, step, ref)
                         /\ step \in {"build", "built"}
    BY <1>2 DEF Prepares
  <2>a. y.step = step /\ \A f \in JobFields \ {"step", "ref"} : y[f] = run[f]
    BY <1>0, <2>0, GoesIs, BuiltIs
  <2>1. y.step = step /\ y.conf = run.conf /\ y.outputs = run.outputs /\ y.sent = run.sent
    BY <2>a, FieldNames
  <2>2. run.step \in {"queued", "build"}
    BY <1>2 DEF Prepares
  <2> QED  BY <2>0, <2>1, <2>2 DEF OwnOutputs
<1>3. CASE Starts(run, y)
  <2>1. PICK ref, tasks : y = Begin(run, ref, tasks)
    BY <1>3 DEF Starts
  <2>2. run.step \in {"queued", "built"}
    BY <1>3 DEF Starts
  <2>3. y.step = "global" /\ y.outputs = run.outputs /\ y.sent = run.sent
    BY <1>0, <2>1, BeginIs
  <2> QED  BY <2>2, <2>3 DEF OwnOutputs
<1>4. CASE Finishes(run, y)
  <2>1. PICK exit : y = Over(run, exit)
    BY <1>4 DEF Finishes
  <2>2. y.step = "over" /\ y.conf = run.conf /\ y.outputs = <<>> /\ y.sent = run.sent
    BY <1>0, <2>1, OverIs
  <2> QED  BY <1>o, <2>2, NoPipeline
<1>5. CASE GoesOn(run, y)
  <2>1. PICK step : y = Goes(run, step) /\ step \in {"next", "deploy"}
    BY <1>5 DEF GoesOn
  <2>2. y.step = step /\ \A f \in JobFields \ {"step"} : y[f] = run[f]
    BY <1>0, <2>1, GoesIs
  <2>3. y.conf = run.conf /\ y.outputs = run.outputs /\ y.sent = run.sent
    BY <2>2, FieldNames
  <2> QED  BY <1>o, <2>1, <2>2, <2>3
<1>7. CASE Closes(run, y)
  <2>1. PICK bad, unsent : y = Dropped(run, bad, unsent)
    BY <1>7 DEF Closes
  <2>2. /\ y.step = "next"
        /\ \A f \in JobFields \ {"step", "todo", "bad", "unsent"} : y[f] = run[f]
    BY <1>0, <2>1, DroppedIs
  <2>3. y.conf = run.conf /\ y.outputs = run.outputs /\ y.sent = run.sent
    BY <2>2, FieldNames
  <2> QED  BY <1>o, <2>2, <2>3
<1>8. CASE RunsStage(run, y)
  <2>1. Staged(run, y) /\ y.sent = run.sent
    BY <1>8, StageSteps
  <2>2. run.rest # <<>> /\ run.step \in {"global", "task", "report"}
    BY <1>8 DEF RunsStage, AtStageOf
  <2> QED  BY <1>s, <2>1, <2>2, OwnStage
<1>6. CASE Opens(run, y)
  BY <1>6, OwnOpens
<1> QED  BY <1>1, <1>2, <1>3, <1>4, <1>5, <1>6, <1>7, <1>8

OwnInv == \A r \in Runs : OwnOutputs(runs[r])

LEMMA OwnNext ==
  ASSUME ReportsLast, OwnScores, JobsInv, ReportsInv, OwnInv, [Next]_vars
  PROVE  OwnInv'
<1>0. DOMAIN runs = Runs /\ \A r \in Runs : JobOK(runs[r]) /\ InOrder(runs[r]) /\ OwnOutputs(runs[r])
  BY DEF JobsInv, ReportsInv, OwnInv
<1>1. ASSUME NEW r \in Runs, NEW y, Become(r, y), OwnOutputs(y) PROVE OwnInv'
  <2>1. runs'[r] = y /\ \A q \in Runs : q # r => runs'[q] = runs[q]
    BY <1>0, <1>1, BecomeIs
  <2>2. \A q \in Runs : OwnOutputs(runs'[q])
    BY <1>0, <1>1, <2>1
  <2> QED  BY <2>2 DEF OwnInv
<1>2. CASE runs' = runs
  <2>1. \A q \in Runs : OwnOutputs(runs'[q])
    BY <1>0, <1>2
  <2> QED  BY <2>1 DEF OwnInv
<1>3. ASSUME NEW r \in Runs, NEW kind \in {"course", "grade"}, NEW c, NEW tree, NEW last, NEW named,
             ConfOK(c), Become(r, Queued(kind, c, tree, last, named))
      PROVE  OwnInv'
  <2> DEFINE y == Queued(kind, c, tree, last, named)
  <2>1. y.step = "queued" /\ y.outputs = <<>> /\ y.sent = <<>>
    BY DEF Queued
  <2>2. Become(r, y)
    BY <1>3
  <2> HIDE DEF y
  <2>3. OwnOutputs(y)
    BY <2>1, NoPipeline DEF OwnOutputs
  <2> QED  BY <1>1, <2>2, <2>3
<1>4. ASSUME NEW r \in Runs, Work(r) PROVE OwnInv'
  <2>1. PICK y : Become(r, y)
    BY <1>4, WorkIs
  <2>2. OwnOutputs(y)
    BY <1>0, <1>4, <2>1, WorkSteps, OwnSteps
  <2> QED  BY <1>1, <2>1, <2>2
<1>5. CASE UNCHANGED vars
  BY <1>2, <1>5 DEF vars
<1> QED  BY <1>2, <1>3, <1>4, <1>5, StepIs

LEMMA OwnInit == Init => OwnInv
<1> SUFFICES ASSUME Init PROVE OwnInv
  OBVIOUS
<1> DEFINE q == Queued("grade", conf, <<>>, {}, {})
           p == Over(q, "nothing")
<1>1. runs = [r \in Runs |-> p]
  BY DEF Init, InitGrading
<1>2. DOMAIN q = JobFields /\ q.sent = <<>>
  BY DEF Queued, JobFields
<1> HIDE DEF q
<1>3. p.step = "over" /\ p.sent = <<>> /\ p.outputs = <<>>
  BY <1>2, OverIs
<1> HIDE DEF p
<1>4. OwnOutputs(p)
  BY <1>3, NoPipeline DEF OwnOutputs
<1> QED  BY <1>1, <1>4 DEF OwnInv

(* No task is reported with what was measured on another, though one        *)
(* dictionary of outputs serves them all (tester.py:218): where reports     *)
(* come last and each reported output is always registered anew.            *)
THEOREM ReportedIsOwnAlways ==
  ASSUME ReportsLast, OwnScores
  PROVE  Spec => []ReportedIsOwn
<1>1. Init => JobsInv /\ ReportsInv /\ OwnInv
  BY JobsInit, ReportsInit, OwnInit
<1>2. JobsInv /\ ReportsInv /\ OwnInv /\ [Next]_vars => (JobsInv /\ ReportsInv /\ OwnInv)'
  BY JobsNext, ReportsNext, OwnNext
<1>3. OwnInv => ReportedIsOwn
  BY DEF OwnInv, OwnOutputs, ReportedIsOwn
<1> QED  BY <1>1, <1>2, <1>3, PTL DEF Spec

=============================================================================
