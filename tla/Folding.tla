-------------------------------- MODULE Folding --------------------------------
(***************************************************************************)
(* Induction over finite sets and folds, in a form whose hypotheses name   *)
(* sets and functions only.                                                *)
(***************************************************************************)
EXTENDS Naturals, FiniteSets, SequencesExt, FiniteSetTheorems, TLAPS

\* Induction over the subsets of a finite set: the members of Good include S if
\* they include {}, and every T of which they include one element less.
LEMMA SubsetInduction ==
  ASSUME NEW S, IsFiniteSet(S), NEW Good,
         \A T \in SUBSET S : (\A x \in T : T \ {x} \in Good) => T \in Good
  PROVE  S \in Good
<1> DEFINE R == StrictSubsetOrdering(S)
           Bad == (SUBSET S) \ Good
<1>1. IsWellFoundedOn(R, SUBSET S)
  BY FS_StrictSubsetOrderingWellFounded, FS_FiniteSubsetsOfFinite
<1>2. CASE Bad = {}
  BY <1>2
<1>3. CASE Bad # {}
  <2>0. Bad \subseteq SUBSET S
    OBVIOUS
  <2>1. PICK T \in Bad : \A U \in Bad : <<U, T>> \notin R
    <3> HIDE DEF R, Bad
    <3> QED BY <1>1, <1>3, <2>0, WFMin
  <2>2. ASSUME NEW x \in T
        PROVE  T \ {x} \in Good
    <3>1. T \ {x} \in SUBSET S /\ T \ {x} # T
      OBVIOUS
    <3>2. <<T \ {x}, T>> \in R
      BY <3>1 DEF StrictSubsetOrdering
    <3> QED BY <2>1, <3>1, <3>2
  <2> QED BY <2>2
<1> QED BY <1>2, <1>3

\* The same for all subsets.
LEMMA SubsetsInduction ==
  ASSUME NEW S, IsFiniteSet(S), NEW Good,
         \A T \in SUBSET S : (\A x \in T : T \ {x} \in Good) => T \in Good
  PROVE  \A T \in SUBSET S : T \in Good
<1> TAKE T \in SUBSET S
<1>1. IsFiniteSet(T)
  BY FS_Subset
<1>2. \A U \in SUBSET T : (\A x \in U : U \ {x} \in Good) => U \in Good
  OBVIOUS
<1> QED BY <1>1, <1>2, SubsetInduction

\* A finite set of numbers has a greatest.
LEMMA GreatestExists ==
  ASSUME NEW S \in SUBSET Nat, IsFiniteSet(S)
  PROVE  \A T \in SUBSET S : T # {} => \E x \in T : \A y \in T : x >= y
<1> DEFINE Good == {T \in SUBSET S : T # {} => \E x \in T : \A y \in T : x >= y}
<1>1. ASSUME NEW T \in SUBSET S, \A x \in T : T \ {x} \in Good
      PROVE  T \in Good
  <2> SUFFICES ASSUME NEW x \in T PROVE \E z \in T : \A y \in T : z >= y
    OBVIOUS
  <2>1. CASE T \ {x} = {}
    <3>1. \A y \in T : x >= y
      BY <2>1
    <3> QED BY <3>1
  <2>2. CASE T \ {x} # {}
    <3>1. PICK z \in T \ {x} : \A y \in T \ {x} : z >= y
      BY <1>1, <2>2
    <3>2. CASE z >= x
      BY <3>1, <3>2
    <3>3. CASE ~(z >= x)
      <4>1. \A y \in T : x >= y
        BY <3>1, <3>3
      <4> QED BY <4>1
    <3> QED BY <3>2, <3>3
  <2> QED BY <2>1, <2>2
<1> HIDE DEF Good
<1>2. \A T \in SUBSET S : T \in Good
  BY <1>1, SubsetsInduction
<1> QED BY <1>2 DEF Good

\* And a least.
LEMMA LeastExists ==
  ASSUME NEW S \in SUBSET Nat, IsFiniteSet(S)
  PROVE  \A T \in SUBSET S : T # {} => \E x \in T : \A y \in T : x <= y
<1> DEFINE Good == {T \in SUBSET S : T # {} => \E x \in T : \A y \in T : x <= y}
<1>1. ASSUME NEW T \in SUBSET S, \A x \in T : T \ {x} \in Good
      PROVE  T \in Good
  <2> SUFFICES ASSUME NEW x \in T PROVE \E z \in T : \A y \in T : z <= y
    OBVIOUS
  <2>1. CASE T \ {x} = {}
    <3>1. \A y \in T : x <= y
      BY <2>1
    <3> QED BY <3>1
  <2>2. CASE T \ {x} # {}
    <3>1. PICK z \in T \ {x} : \A y \in T \ {x} : z <= y
      BY <1>1, <2>2
    <3>2. CASE z <= x
      BY <3>1, <3>2
    <3>3. CASE ~(z <= x)
      <4>1. \A y \in T : x <= y
        BY <3>1, <3>3
      <4> QED BY <4>1
    <3> QED BY <3>2, <3>3
  <2> QED BY <2>1, <2>2
<1> HIDE DEF Good
<1>2. \A T \in SUBSET S : T \in Good
  BY <1>1, SubsetsInduction
<1> QED BY <1>2 DEF Good

LEMMA MaxIsGreatest ==
  ASSUME NEW S \in SUBSET Nat, IsFiniteSet(S)
  PROVE  \A T \in SUBSET S : T # {} => Max(T) \in T /\ \A y \in T : Max(T) >= y
BY GreatestExists DEF Max

\* pick says which element of a set is folded in last.
Picks(pick, S) == \A s \in SUBSET S : s # {} => pick[s] \in s

\* The value of a fold of G at s, when it has the values at smaller sets.
Folded(it, s, base, G, pick) == IF s = {} THEN base ELSE G[it[s \ {pick[s]}]][pick[s]]

\* it is the fold of G, over every subset of S.
IsFoldBy(it, S, D, base, G, pick) ==
  it \in [SUBSET S -> D] /\ \A s \in SUBSET S : it[s] = Folded(it, s, base, G, pick)

LEMMA FoldUnique ==
  ASSUME NEW S, IsFiniteSet(S), NEW pick, Picks(pick, S),
         NEW D, NEW base, NEW G, NEW f, IsFoldBy(f, S, D, base, G, pick)
  PROVE  \A T \in SUBSET S : \A g : IsFoldBy(g, T, D, base, G, pick) => f[T] = g[T]
<1> SUFFICES ASSUME NEW T \in SUBSET S, NEW g, IsFoldBy(g, T, D, base, G, pick)
             PROVE  f[T] = g[T]
  OBVIOUS
<1> DEFINE Good == {s \in SUBSET T : f[s] = g[s]}
<1>1. ASSUME NEW s \in SUBSET T, \A x \in s : s \ {x} \in Good
      PROVE  s \in Good
  <2>1. f[s] = Folded(f, s, base, G, pick) /\ g[s] = Folded(g, s, base, G, pick)
    BY DEF IsFoldBy
  <2>2. s # {} => f[s \ {pick[s]}] = g[s \ {pick[s]}]
    BY <1>1 DEF Picks
  <2> QED BY <2>1, <2>2 DEF Folded
<1>2. IsFiniteSet(T)
  BY FS_Subset
<1>3. T \in Good
  <2> HIDE DEF Good
  <2> QED BY <1>1, <1>2, SubsetInduction
<1> QED BY <1>3

\* Folding a function over a finite set is well defined.
LEMMA FoldByExists ==
  ASSUME NEW S, IsFiniteSet(S), NEW D, NEW base \in D, NEW G \in [D -> [S -> D]], NEW pick, Picks(pick, S)
  PROVE  \E it : IsFoldBy(it, S, D, base, G, pick)
<1> DEFINE Fold(it, T) == IsFoldBy(it, T, D, base, G, pick)
           F(s) == CHOOSE it : Fold(it, s)
           Can == {T \in SUBSET S : \E it : Fold(it, T)}
           Good == {T \in SUBSET S : \A r \in SUBSET T : r \in Can}
<1>1. ASSUME NEW T \in SUBSET S, \A x \in T : T \ {x} \in Good
      PROVE  T \in Good
  <2> DEFINE V(s) == F(s)[s]
             rest(s) == s \ {pick[s]}
             h == [s \in SUBSET T |-> IF s = {} THEN base ELSE G[V(rest(s))][pick[s]]]
  <2>1. \A r \in SUBSET T : r # T => r \in Can
    <3> SUFFICES ASSUME NEW r \in SUBSET T, r # T PROVE r \in Can
      OBVIOUS
    <3>1. PICK x \in T : x \notin r
      OBVIOUS
    <3>2. r \in SUBSET (T \ {x})
      BY <3>1
    <3> HIDE DEF Can
    <3> QED BY <1>1, <3>2
  <2>2. \A r \in SUBSET T : r # T => Fold(F(r), r)
    BY <2>1
  <2> HIDE DEF F
  <2>3. \A r \in SUBSET T : r # T => V(r) \in D
    <3> SUFFICES ASSUME NEW r \in SUBSET T, r # T PROVE F(r)[r] \in D
      OBVIOUS
    <3>1. F(r) \in [SUBSET r -> D] /\ r \in SUBSET r
      BY <2>2 DEF IsFoldBy
    <3> QED BY <3>1
  <2>4. ASSUME NEW s \in SUBSET T, s # {}
        PROVE  /\ pick[s] \in s /\ pick[s] \in S
               /\ rest(s) \in SUBSET T /\ rest(s) # T /\ V(rest(s)) \in D
    <3>1. pick[s] \in s /\ rest(s) \in SUBSET T /\ rest(s) # T
      BY <2>4 DEF Picks
    <3> HIDE DEF V
    <3> QED BY <2>3, <3>1
  <2>5. h \in [SUBSET T -> D]
    <3>1. ASSUME NEW s \in SUBSET T, s # {}
          PROVE  G[V(rest(s))][pick[s]] \in D
      <4> HIDE DEF V, rest
      <4> QED BY <2>4, <3>1
    <3> HIDE DEF V, rest
    <3> QED BY <3>1
  <2>6. ASSUME NEW r \in SUBSET T, r # T
        PROVE  h[r] = V(r)
    <3>1. V(r) = Folded(F(r), r, base, G, pick)
      BY <2>2, <2>6 DEF IsFoldBy
    <3>2. CASE r = {}
      BY <3>1, <3>2 DEF Folded
    <3>3. CASE r # {}
      <4>1. F(r)[rest(r)] = V(rest(r))
        <5> DEFINE q == rest(r)
                   f == F(r)
                   g == F(q)
        <5>1. IsFoldBy(f, r, D, base, G, pick) /\ IsFoldBy(g, q, D, base, G, pick)
          BY <2>2, <2>4, <2>6, <3>3
        <5>2. IsFiniteSet(r)
          BY FS_Subset
        <5>3. q \in SUBSET r /\ Picks(pick, r)
          BY DEF Picks
        <5> HIDE DEF q, f, g, V, h, Good, Can
        <5>4. \A T2 \in SUBSET r : \A g2 : IsFoldBy(g2, T2, D, base, G, pick) => f[T2] = g2[T2]
          BY <5>1, <5>2, <5>3, FoldUnique
        <5>5. f[q] = g[q]
          BY <5>1, <5>3, <5>4
        <5> QED BY <5>5 DEF q, f, g, V
      <4>2. V(r) = G[V(rest(r))][pick[r]]
        <5>1. V(r) = G[F(r)[rest(r)]][pick[r]]
          BY <3>1, <3>3 DEF Folded
        <5> HIDE DEF V, rest
        <5> QED BY <4>1, <5>1
      <4> HIDE DEF V, rest
      <4> QED BY <3>3, <4>2
    <3> QED BY <3>2, <3>3
  <2>7. \A s \in SUBSET T : h[s] = Folded(h, s, base, G, pick)
    <3> SUFFICES ASSUME NEW s \in SUBSET T PROVE h[s] = Folded(h, s, base, G, pick)
      OBVIOUS
    <3>1. CASE s = {}
      BY <3>1 DEF Folded
    <3>2. CASE s # {}
      <4>1. h[rest(s)] = V(rest(s))
        <5> HIDE DEF h, V, rest
        <5> QED BY <2>4, <2>6, <3>2
      <4>2. h[s] = G[V(rest(s))][pick[s]]
        <5> HIDE DEF V, rest
        <5> QED BY <3>2
      <4>3. Folded(h, s, base, G, pick) = G[h[rest(s)]][pick[s]]
        <5> HIDE DEF h
        <5> QED BY <3>2 DEF Folded
      <4> HIDE DEF h, V, rest
      <4> QED BY <4>1, <4>2, <4>3
    <3> QED BY <3>1, <3>2
  <2>8. Fold(h, T)
    <3> HIDE DEF h
    <3> QED BY <2>5, <2>7 DEF IsFoldBy
  <2>9. T \in Can
    <3> HIDE DEF h, Fold
    <3> QED BY <2>8
  <2> HIDE DEF Can
  <2> QED BY <2>1, <2>9
<1>2. S \in Good
  <2> HIDE DEF Good
  <2> QED BY <1>1, SubsetInduction
<1>3. S \in Can
  <2> HIDE DEF Can
  <2> QED BY <1>2
<1> QED BY <1>3

\* The value of a fold that takes the greatest number of a set last.
FoldAt(it, s, base, G) == IF s = {} THEN base ELSE G[it[s \ {Max(s)}]][Max(s)]

IsFold(it, S, D, base, G) ==
  it \in [SUBSET S -> D] /\ \A s \in SUBSET S : it[s] = FoldAt(it, s, base, G)

LEMMA FoldExists ==
  ASSUME NEW S \in SUBSET Nat, IsFiniteSet(S), NEW D, NEW base \in D, NEW G \in [D -> [S -> D]]
  PROVE  \E it : IsFold(it, S, D, base, G)
<1> DEFINE pick == [s \in SUBSET S |-> Max(s)]
<1>1. \A s \in SUBSET S : pick[s] = Max(s)
  OBVIOUS
<1> HIDE DEF pick
<1>2. Picks(pick, S)
  BY <1>1, MaxIsGreatest DEF Picks
<1>3. PICK it : IsFoldBy(it, S, D, base, G, pick)
  BY <1>2, FoldByExists
<1>4. \A s \in SUBSET S : it[s] = FoldAt(it, s, base, G)
  BY <1>1, <1>3 DEF IsFoldBy, Folded, FoldAt
<1>5. IsFold(it, S, D, base, G)
  BY <1>3, <1>4 DEF IsFold, IsFoldBy
<1> QED BY <1>5

\* it[s] is the sum of w over s, for every s of S.
Sums(it, w, S) ==
  /\ it \in [SUBSET S -> Nat] /\ it[{}] = 0
  /\ \A s \in SUBSET S : s # {} => LET x == CHOOSE y \in s : TRUE IN it[s] = it[s \ {x}] + w[x]

\* The sum of a function's values over a finite set.
Total(w, S) == CHOOSE n : \E it : Sums(it, w, S) /\ n = it[S]

LEMMA SumsExist ==
  ASSUME NEW S, IsFiniteSet(S), NEW w \in [S -> Nat]
  PROVE  \E it : Sums(it, w, S)
<1> DEFINE pick == [s \in SUBSET S |-> CHOOSE y \in s : TRUE]
           G == [n \in Nat |-> [x \in S |-> n + w[x]]]
<1>1. \A s \in SUBSET S : pick[s] = CHOOSE y \in s : TRUE
  OBVIOUS
<1>2. \A n \in Nat : \A x \in S : G[n][x] = n + w[x] /\ n + w[x] \in Nat
  OBVIOUS
<1>3. G \in [Nat -> [S -> Nat]]
  OBVIOUS
<1> HIDE DEF pick, G
<1>4. Picks(pick, S)
  BY <1>1 DEF Picks
<1>5. PICK it : IsFoldBy(it, S, Nat, 0, G, pick)
  BY <1>3, <1>4, FoldByExists
<1>6. it \in [SUBSET S -> Nat] /\ \A s \in SUBSET S : it[s] = Folded(it, s, 0, G, pick)
  BY <1>5 DEF IsFoldBy
<1>7. it[{}] = 0
  BY <1>6 DEF Folded
<1>8. ASSUME NEW s \in SUBSET S, s # {}
      PROVE  LET x == CHOOSE y \in s : TRUE IN it[s] = it[s \ {x}] + w[x]
  <2> DEFINE x == CHOOSE y \in s : TRUE
  <2>1. x \in s /\ x \in S /\ pick[s] = x
    BY <1>1, <1>8
  <2> HIDE DEF x
  <2>2. it[s] = G[it[s \ {x}]][x]
    BY <1>6, <1>8, <2>1 DEF Folded
  <2>3. it[s \ {x}] \in Nat
    BY <1>6
  <2>4. it[s] = it[s \ {x}] + w[x]
    BY <1>2, <2>1, <2>2, <2>3
  <2> QED BY <2>4 DEF x
<1>9. Sums(it, w, S)
  BY <1>6, <1>7, <1>8 DEF Sums
<1> QED BY <1>9

\* What the sums of two functions that agree but for j, or of which one is below the
\* other, are at every set.
LEMMA SumsCompare ==
  ASSUME NEW S, IsFiniteSet(S), NEW w \in [S -> Nat], NEW u \in [S -> Nat],
         NEW f, Sums(f, w, S), NEW g, Sums(g, u, S)
  PROVE  /\ (\A x \in S : w[x] <= u[x]) => f[S] <= g[S]
         /\ \A j \in S : (\A x \in S \ {j} : u[x] = w[x]) => g[S] + w[j] = f[S] + u[j]
<1>1. /\ f \in [SUBSET S -> Nat] /\ g \in [SUBSET S -> Nat] /\ f[{}] = 0 /\ g[{}] = 0
  BY DEF Sums
<1>2. ASSUME NEW s \in SUBSET S, s # {}
      PROVE  \E x \in s : f[s] = f[s \ {x}] + w[x] /\ g[s] = g[s \ {x}] + u[x]
  <2> DEFINE x == CHOOSE y \in s : TRUE
  <2>1. x \in s
    BY <1>2
  <2>2. f[s] = f[s \ {x}] + w[x] /\ g[s] = g[s \ {x}] + u[x]
    BY <1>2 DEF Sums
  <2> HIDE DEF x
  <2> QED BY <2>1, <2>2
<1>3. ASSUME \A x \in S : w[x] <= u[x]
      PROVE  f[S] <= g[S]
  <2> DEFINE Good == {s \in SUBSET S : f[s] <= g[s]}
  <2>1. ASSUME NEW s \in SUBSET S, \A x \in s : s \ {x} \in Good
        PROVE  s \in Good
    <3>1. CASE s = {}
      BY <1>1, <3>1
    <3>2. CASE s # {}
      <4>1. PICK x \in s : f[s] = f[s \ {x}] + w[x] /\ g[s] = g[s \ {x}] + u[x]
        BY <1>2, <3>2
      <4>2. f[s \ {x}] \in Nat /\ g[s \ {x}] \in Nat /\ w[x] \in Nat /\ u[x] \in Nat
        BY <1>1
      <4>3. f[s \ {x}] <= g[s \ {x}] /\ w[x] <= u[x]
        BY <1>3, <2>1
      <4> QED BY <4>1, <4>2, <4>3
    <3> QED BY <3>1, <3>2
  <2>2. S \in Good
    <3> HIDE DEF Good
    <3> QED BY <2>1, SubsetInduction
  <2> QED BY <2>2
<1>4. ASSUME NEW j \in S, \A x \in S \ {j} : u[x] = w[x]
      PROVE  g[S] + w[j] = f[S] + u[j]
  <2> DEFINE Good == {s \in SUBSET S : /\ j \in s => g[s] + w[j] = f[s] + u[j]
                                       /\ j \notin s => g[s] = f[s]}
  <2>1. ASSUME NEW s \in SUBSET S, \A x \in s : s \ {x} \in Good
        PROVE  s \in Good
    <3>1. CASE s = {}
      BY <1>1, <3>1
    <3>2. CASE s # {}
      <4>1. PICK x \in s : f[s] = f[s \ {x}] + w[x] /\ g[s] = g[s \ {x}] + u[x]
        BY <1>2, <3>2
      <4>2. /\ f[s \ {x}] \in Nat /\ g[s \ {x}] \in Nat /\ w[x] \in Nat /\ u[x] \in Nat
            /\ w[j] \in Nat /\ u[j] \in Nat
        BY <1>1
      <4>3. CASE x = j
        <5>1. g[s \ {x}] = f[s \ {x}]
          BY <2>1, <4>3
        <5> QED BY <4>1, <4>2, <4>3, <5>1
      <4>4. CASE x # j
        <5>1. u[x] = w[x]
          BY <1>4, <4>4
        <5>2. CASE j \in s
          <6>1. g[s \ {x}] + w[j] = f[s \ {x}] + u[j]
            BY <2>1, <4>4, <5>2
          <6>2. g[s] + w[j] = f[s] + u[j]
            BY <4>1, <4>2, <5>1, <6>1
          <6> QED BY <5>2, <6>2
        <5>3. CASE j \notin s
          <6>1. g[s \ {x}] = f[s \ {x}]
            BY <2>1, <5>3
          <6> QED BY <4>1, <5>1, <5>3, <6>1
        <5> QED BY <5>2, <5>3
      <4> QED BY <4>3, <4>4
    <3> QED BY <3>1, <3>2
  <2>2. S \in Good
    <3> HIDE DEF Good
    <3> QED BY <2>1, SubsetInduction
  <2> QED BY <2>2
<1> QED BY <1>3, <1>4

LEMMA TotalIs ==
  ASSUME NEW S, IsFiniteSet(S), NEW w \in [S -> Nat], NEW it, Sums(it, w, S)
  PROVE  Total(w, S) = it[S]
<1>1. ASSUME NEW f, Sums(f, w, S)
      PROVE  f[S] = it[S]
  <2>1. \A x \in S : w[x] <= w[x]
    OBVIOUS
  <2>2. f[S] \in Nat /\ it[S] \in Nat
    BY <1>1 DEF Sums
  <2>3. f[S] <= it[S] /\ it[S] <= f[S]
    BY <1>1, <2>1, SumsCompare
  <2> QED BY <2>2, <2>3
<1> QED BY <1>1 DEF Total

LEMMA TotalType ==
  ASSUME NEW S, IsFiniteSet(S), NEW w \in [S -> Nat]
  PROVE  Total(w, S) \in Nat
<1>1. PICK it : Sums(it, w, S)
  BY SumsExist
<1>2. it[S] \in Nat
  BY <1>1 DEF Sums
<1> QED BY <1>1, <1>2, TotalIs

LEMMA TotalBelow ==
  ASSUME NEW S, IsFiniteSet(S), NEW w \in [S -> Nat], NEW u \in [S -> Nat], \A x \in S : w[x] <= u[x]
  PROVE  Total(w, S) <= Total(u, S)
<1>1. PICK f : Sums(f, w, S)
  BY SumsExist
<1>2. PICK g : Sums(g, u, S)
  BY SumsExist
<1>3. f[S] <= g[S]
  BY <1>1, <1>2, SumsCompare
<1> QED BY <1>1, <1>2, <1>3, TotalIs

LEMMA TotalDiffers ==
  ASSUME NEW S, IsFiniteSet(S), NEW w \in [S -> Nat], NEW u \in [S -> Nat],
         NEW j \in S, \A x \in S \ {j} : u[x] = w[x]
  PROVE  Total(u, S) + w[j] = Total(w, S) + u[j]
<1>1. PICK f : Sums(f, w, S)
  BY SumsExist
<1>2. PICK g : Sums(g, u, S)
  BY SumsExist
<1>3. g[S] + w[j] = f[S] + u[j]
  BY <1>1, <1>2, SumsCompare
<1> QED BY <1>1, <1>2, <1>3, TotalIs

LEMMA TotalZero ==
  ASSUME NEW S, IsFiniteSet(S), NEW w \in [S -> Nat], \A x \in S : w[x] = 0
  PROVE  Total(w, S) = 0
<1>1. PICK it : Sums(it, w, S)
  BY SumsExist
<1> DEFINE Good == {s \in SUBSET S : it[s] = 0}
<1>2. ASSUME NEW s \in SUBSET S, \A x \in s : s \ {x} \in Good
      PROVE  s \in Good
  <2>1. CASE s = {}
    BY <1>1, <2>1 DEF Sums
  <2>2. CASE s # {}
    <3> DEFINE x == CHOOSE y \in s : TRUE
    <3>1. x \in s
      BY <2>2
    <3>2. it[s] = it[s \ {x}] + w[x]
      BY <1>1, <2>2 DEF Sums
    <3>3. it[s \ {x}] = 0 /\ w[x] = 0
      BY <1>2, <3>1
    <3> QED BY <3>2, <3>3
  <2> QED BY <2>1, <2>2
<1>3. S \in Good
  <2> HIDE DEF Good
  <2> QED BY <1>2, SubsetInduction
<1> QED BY <1>1, <1>3, TotalIs

\* A finite set as a sequence: its numbers are those up to its size, and every
\* member is at one place.
LEMMA SetToSeqIs ==
  ASSUME NEW S, IsFiniteSet(S)
  PROVE  /\ SetToSeq(S) \in [1..Cardinality(S) -> S]
         /\ \A x \in S : \E n \in 1..Cardinality(S) : SetToSeq(S)[n] = x
         /\ \A m, n \in 1..Cardinality(S) : SetToSeq(S)[m] = SetToSeq(S)[n] => m = n
<1> DEFINE N == 1..Cardinality(S)
           f == SetToSeq(S)
<1>1. Cardinality(S) \in Nat /\ ExistsBijection(N, S)
  BY FS_CardinalityType
<1>2. \E g \in [N -> S] : IsInjective(g)
  <2> HIDE DEF N
  <2> QED BY <1>1 DEF ExistsBijection, Bijection, Injection
<1>3. f \in [N -> S] /\ IsInjective(f)
  <2> HIDE DEF N
  <2> QED BY <1>2 DEF SetToSeq, N
<1>4. f \in Injection(N, S)
  BY <1>3 DEF Injection
<1>5. Cardinality(N) = Cardinality(S)
  BY <1>1, FS_Interval
<1>6. f \in Surjection(N, S)
  <2> HIDE DEF N, f
  <2> QED BY <1>4, <1>5, FS_Injection
<1>7. \A m, n \in N : f[m] = f[n] => m = n
  <2> HIDE DEF f, N
  <2> QED BY <1>4 DEF Injection, IsInjective
<1> QED BY <1>3, <1>6, <1>7 DEF Surjection
================================================================================
