------------------------------ MODULE FoldFacts ------------------------------
(***************************************************************************)
(* What the folds of the community modules compute, and a few facts about  *)
(* numbers, for the proofs that need them.  A fold is a recursive function *)
(* on the subsets of a finite set; that there is one, and what it is, is   *)
(* shown on a smallest subset on which it would fail.                      *)
(***************************************************************************)
EXTENDS Integers, Sequences, SequencesExt, FiniteSetTheorems, SequenceTheorems, TLAPS

(* A set of subsets of a finite set that is not empty has a smallest one.  *)
LEMMA Smallest ==
  ASSUME NEW S, IsFiniteSet(S), NEW D, D \subseteq SUBSET S, D # {}
  PROVE  \E T \in D : \A U \in D : U \subseteq T => U = T
<1>1. IsWellFoundedOn(StrictSubsetOrdering(S), SUBSET S)
  BY FS_StrictSubsetOrderingWellFounded, FS_FiniteSubsetsOfFinite
<1>2. PICK T \in D : \A U \in D : ~ (<<U, T>> \in StrictSubsetOrdering(S))
  BY <1>1, WFMin
<1> QED
  BY <1>2 DEF StrictSubsetOrdering

(* A set of naturals that is not empty has a least one.                    *)
LEMMA Least ==
  ASSUME NEW D, D \subseteq Nat, D # {}
  PROVE  \E n \in D : \A m \in D : n <= m
<1>0. \E n \in D : \A m \in D : ~ (<<m, n>> \in OpToRel(<, Nat))
  <2> DEFINE R == OpToRel(<, Nat)
  <2>1. IsWellFoundedOn(R, Nat)
    BY NatLessThanWellFounded
  <2> HIDE DEF R
  <2>2. \E n \in D : \A m \in D : ~ (<<m, n>> \in R)
    BY <2>1, WFMin
  <2> QED
    BY <2>2 DEF R
<1>1. PICK n \in D : \A m \in D : ~ (<<m, n>> \in OpToRel(<, Nat))
  BY <1>0
<1>2. \A m \in D : n <= m
  <2>1. \A m \in D : ~ (<<m, n>> \in {ss \in Nat \X Nat : ss[1] < ss[2]})
    BY <1>1 DEF OpToRel
  <2>2. ASSUME NEW m \in D, m < n PROVE FALSE
    <3>1. m \in Nat /\ n \in Nat
      OBVIOUS
    <3>2. <<m, n>> \in {ss \in Nat \X Nat : ss[1] < ss[2]}
      BY <2>2, <3>1
    <3> QED
      BY <2>1, <3>2, Zenon
  <2>3. \A m \in D : m \in Nat /\ n \in Nat
    OBVIOUS
  <2> QED
    BY <2>2, <2>3
<1> QED
  BY <1>2

-----------------------------------------------------------------------------
(* Recursion on the subsets of a finite set: from the empty one up, the    *)
(* element pick[T] taken off T.                                            *)
Recurses(g, S, base, pick, step) ==
  g = [T \in SUBSET S |-> IF T = {} THEN base ELSE step[<<T, g[T \ {pick[T]}]>>]]

LEMMA RecursesStep ==
  ASSUME NEW g, NEW S, NEW base, NEW pick, NEW step,
         Recurses(g, S, base, pick, step), NEW T \in SUBSET S
  PROVE  /\ T = {} => g[T] = base
         /\ T # {} => g[T] = step[<<T, g[T \ {pick[T]}]>>]
  BY DEF Recurses

\* Two such functions agree where both are defined.
LEMMA RecursesOnce ==
  ASSUME NEW S, NEW R, IsFiniteSet(S), NEW base, NEW pick, NEW step,
         \A T \in SUBSET S : T # {} => pick[T] \in T,
         NEW g, Recurses(g, S, base, pick, step),
         NEW h, Recurses(h, R, base, pick, step)
  PROVE  \A T \in SUBSET (S \cap R) : g[T] = h[T]
<1> DEFINE D == {T \in SUBSET (S \cap R) : g[T] # h[T]}
<1>1. SUFFICES ASSUME D # {} PROVE FALSE
  OBVIOUS
<1>2. D \subseteq SUBSET S
  OBVIOUS
<1> HIDE DEF D
<1>3. PICK T \in D : \A U \in D : U \subseteq T => U = T
  BY <1>1, <1>2, Smallest
<1>4. T \in SUBSET S /\ T \in SUBSET R /\ g[T] # h[T]
  BY <1>3 DEF D
<1>5. T # {}
  BY <1>4 DEF Recurses
<1>6. pick[T] \in T
  BY <1>4, <1>5
<1>7. g[T \ {pick[T]}] = h[T \ {pick[T]}]
  BY <1>3, <1>4, <1>6 DEF D
<1>8. g[T] = step[<<T, g[T \ {pick[T]}]>>] /\ h[T] = step[<<T, h[T \ {pick[T]}]>>]
  BY <1>4, <1>5 DEF Recurses
<1> QED
  BY <1>4, <1>7, <1>8

\* There is one.
LEMMA RecursesSomehow ==
  ASSUME NEW S, IsFiniteSet(S), NEW base, NEW pick, NEW step,
         \A T \in SUBSET S : T # {} => pick[T] \in T
  PROVE  \E g : Recurses(g, S, base, pick, step)
<1> DEFINE Rec(g, T) == Recurses(g, T, base, pick, step)
           D == {T \in SUBSET S : ~ \E g : Rec(g, T)}
<1>1. SUFFICES ASSUME D # {} PROVE FALSE
  OBVIOUS
<1>2. D \subseteq SUBSET S
  OBVIOUS
<1> HIDE DEF D
<1>3. PICK T \in D : \A U \in D : U \subseteq T => U = T
  BY <1>1, <1>2, Smallest
<1>4. T \in SUBSET S /\ ~ \E g : Rec(g, T)
  BY <1>3 DEF D
<1> DEFINE G(U) == CHOOSE g : Rec(g, U)
           h == [U \in SUBSET T |->
                   IF U = {} THEN base
                   ELSE step[<<U, G(U \ {pick[U]})[U \ {pick[U]}]>>]]
<1> HIDE DEF Rec
<1>5. ASSUME NEW U \in SUBSET T, U # T PROVE Rec(G(U), U)
  <2>1. \E g : Rec(g, U)
    BY <1>3, <1>4, <1>5 DEF D
  <2> QED
    BY <2>1
<1> HIDE DEF G
<1>6. ASSUME NEW U \in SUBSET T, U # T PROVE G(U)[U] = h[U]
  <2>1. Rec(G(U), U)
    BY <1>5, <1>6
  <2>2. CASE U = {}
    BY <2>1, <2>2 DEF Rec, Recurses, h
  <2>3. CASE U # {}
    <3>1. pick[U] \in U
      BY <1>4, <2>3
    <3> DEFINE V == U \ {pick[U]}
    <3>2. V \in SUBSET T /\ V # T /\ V \subseteq U
      BY <3>1
    <3>3. Rec(G(V), V)
      BY <1>5, <3>2
    <3>4. IsFiniteSet(U)
      BY <1>4, FS_Subset
    <3>5. G(U)[V] = G(V)[V]
      <4>1. V \in SUBSET (U \cap V)
        BY <3>2
      <4>2. \A W \in SUBSET U : W # {} => pick[W] \in W
        BY <1>4
      <4> HIDE DEF V
      <4> QED
        BY <2>1, <3>3, <3>4, <4>1, <4>2, RecursesOnce DEF Rec
    <3>6. G(U)[U] = step[<<U, G(U)[V]>>]
      BY <2>1, <2>3, RecursesStep DEF Rec
    <3> QED
      BY <2>3, <3>5, <3>6
  <2> QED
    BY <2>2, <2>3
<1>7. ASSUME NEW U \in SUBSET T, U # {}
      PROVE  h[U] = step[<<U, h[U \ {pick[U]}]>>]
  <2>1. pick[U] \in U
    BY <1>4, <1>7
  <2>2. U \ {pick[U]} \in SUBSET T /\ U \ {pick[U]} # T
    BY <2>1
  <2>3. G(U \ {pick[U]})[U \ {pick[U]}] = h[U \ {pick[U]}]
    BY <1>6, <2>2
  <2> QED
    BY <1>7, <2>3
<1>8. h[{}] = base
  OBVIOUS
<1>9. h = [U \in SUBSET T |-> h[U]]
  OBVIOUS
<1> HIDE DEF h
<1>10. h = [U \in SUBSET T |-> IF U = {} THEN base ELSE step[<<U, h[U \ {pick[U]}]>>]]
  BY <1>7, <1>8, <1>9
<1> QED
  BY <1>4, <1>10 DEF Rec, Recurses

-----------------------------------------------------------------------------
(* Numbers.                                                                *)

\* Induction up to n, for the members of a set.
LEMMA UpTo ==
  ASSUME NEW n \in Nat, NEW P, 0 \in P, \A i \in 1 .. n : i - 1 \in P => i \in P
  PROVE  \A i \in 0 .. n : i \in P
<1> DEFINE D == {i \in 0 .. n : i \notin P}
<1>1. SUFFICES ASSUME D # {} PROVE FALSE
  OBVIOUS
<1>2. D \subseteq Nat
  OBVIOUS
<1> HIDE DEF D
<1>3. PICK i \in D : \A m \in D : i <= m
  BY <1>1, <1>2, Least
<1>4. i \in 0 .. n /\ i \notin P
  BY <1>3 DEF D
<1>5. i \in 1 .. n /\ i - 1 \in 0 .. n /\ i - 1 < i
  BY <1>4
<1>6. i - 1 \in P
  BY <1>3, <1>5 DEF D
<1> QED
  BY <1>4, <1>5, <1>6

(* A number is its remainder and its multiple of what divides it.          *)
LEMMA Division ==
  ASSUME NEW p \in Nat, NEW m \in Nat \ {0}
  PROVE  /\ p \div m \in Nat /\ p % m \in 0 .. m - 1 /\ p % m <= p
         /\ p = (p % m) + (p \div m) * m
<1>1. p \div m \in Nat
  OBVIOUS
<1>2. p % m \in 0 .. m - 1
  OBVIOUS
<1>3. p = (p % m) + (p \div m) * m
  OBVIOUS
<1>4. p % m <= p
  BY <1>1, <1>2, <1>3
<1> QED
  BY <1>1, <1>2, <1>3, <1>4

\* Two multiples that are closer than a whole one are the same.
LEMMA Closest ==
  ASSUME NEW a \in Int, NEW b \in Int, NEW d \in Nat \ {0}, a > b
  PROVE  a * d >= b * d + d
<1>1. a - b - 1 \in Nat
  OBVIOUS
<1>2. (a - b - 1) * d \in Nat
  BY <1>1
<1>3. (a - b - 1) * d = a * d - b * d - d
  OBVIOUS
<1>4. a * d \in Int /\ b * d \in Int
  OBVIOUS
<1> QED
  BY <1>2, <1>3, <1>4

\* The quotient is the one number that leaves a remainder.
LEMMA QuotientIs ==
  ASSUME NEW q \in Nat, NEW d \in Nat \ {0}, NEW r \in 0 .. d - 1
  PROVE  (q * d + r) \div d = q
<1> DEFINE n == q * d + r
           k == n \div d
           m == n % d
<1>1. n \in Nat /\ q * d \in Nat
  <2>1. q * d \in Nat
    OBVIOUS
  <2> QED
    BY <2>1
<1>2. k \in Nat /\ m \in 0 .. d - 1 /\ n = m + k * d
  <2> HIDE DEF n
  <2> QED
    BY <1>1, Division
<1>3. n = q * d + r
  OBVIOUS
<1> HIDE DEF n, k, m
<1>4. k * d \in Nat
  BY <1>2
<1>5. ~ (k > q)
  <2>1. SUFFICES ASSUME k > q PROVE FALSE
    OBVIOUS
  <2>2. k * d >= q * d + d
    BY <1>2, <2>1, Closest
  <2> QED
    BY <1>1, <1>2, <1>3, <1>4, <2>2
<1>6. ~ (q > k)
  <2>1. SUFFICES ASSUME q > k PROVE FALSE
    OBVIOUS
  <2>2. q * d >= k * d + d
    BY <1>2, <2>1, Closest
  <2> QED
    BY <1>1, <1>2, <1>3, <1>4, <2>2
<1>7. k = q
  BY <1>2, <1>5, <1>6
<1> QED
  BY <1>7 DEF k, n

(* Products and quotients.                                                 *)
LEMMA ProductNat == \A a, b \in Nat : a * b \in Nat
OBVIOUS

LEMMA ProductMono ==
  ASSUME NEW a \in Nat, NEW b \in Nat, NEW c \in Nat, a <= b
  PROVE  a * c <= b * c
<1>1. PICK d \in Nat : b = a + d
  <2>1. b - a \in Nat /\ b = a + (b - a)
    OBVIOUS
  <2> QED
    BY <2>1
<1>2. b * c = a * c + d * c
  BY <1>1
<1>3. d * c \in Nat /\ a * c \in Nat
  BY ProductNat
<1> QED
  BY <1>2, <1>3

(* Row y and column x of a plane w wide, from their place in it.           *)
LEMMA RowAndColumn ==
  ASSUME NEW w \in Nat \ {0}, NEW x \in 0..w - 1, NEW y \in Nat
  PROVE  (y * w + x) % w = x /\ (y * w + x) \div w = y
<1> DEFINE i == y * w + x
           d == i \div w
           m == i % w
<1>1. i \in Nat
  BY ProductNat
<1>2. d \in Nat /\ m \in 0..w - 1 /\ i = w * d + m
  BY <1>1
<1> HIDE DEF d, m
<1>3. CASE d < y
  <2>1. (d + 1) * w <= y * w
    BY <1>2, <1>3, ProductMono
  <2> QED
    BY <1>2, <2>1
<1>4. CASE y < d
  <2>1. (y + 1) * w <= d * w
    BY <1>2, <1>4, ProductMono
  <2> QED
    BY <1>2, <2>1
<1>5. CASE d = y
  BY <1>2, <1>5 DEF d, m
<1> QED
  BY <1>2, <1>3, <1>4, <1>5

(* A column of a row of h rows of w lies among their w * h places.         *)
LEMMA RowInside ==
  ASSUME NEW w \in Nat \ {0}, NEW h \in Nat, NEW x \in 0..w - 1, NEW y \in 0..h - 1
  PROVE  y * w + x \in 0..(w * h) - 1
<1>1. (y + 1) * w <= h * w
  BY ProductMono
<1>2. (y + 1) * w = y * w + w /\ h * w = w * h
  OBVIOUS
<1>3. y * w \in Nat /\ w * h \in Nat
  BY ProductNat
<1> QED
  BY <1>1, <1>2, <1>3

(* i of n parts, of a whole of w: the place lies in the whole.             *)
LEMMA PartInside ==
  ASSUME NEW n \in Nat \ {0}, NEW w \in Nat \ {0}, NEW i \in 0..n - 1
  PROVE  (i * w) \div n \in 0..w - 1
<1> DEFINE p == i * w
           q == p \div n
           r == p % n
<1>1. p \in Nat
  BY ProductNat
<1> HIDE DEF p
<1>2. q \in Nat /\ r \in 0..n - 1 /\ p = r + q * n
  BY <1>1, Division
<1> HIDE DEF q, r
<1>3. (i + 1) * w <= n * w
  BY ProductMono
<1>4. (i + 1) * w = p + w /\ n * w = w * n
  BY DEF p
<1>5. ASSUME q >= w PROVE FALSE
  <2>1. w * n <= q * n
    BY <1>2, <1>5, ProductMono
  <2>2. w * n \in Nat /\ q * n \in Nat /\ n * w \in Nat /\ (i + 1) * w \in Nat
    BY <1>2, ProductNat
  <2> QED
    BY <1>1, <1>2, <1>3, <1>4, <2>1, <2>2
<1>6. q \in 0..w - 1
  BY <1>2, <1>5
<1> QED
  BY <1>6 DEF p, q

(* The largest of some numbers is one of them, and none is larger.         *)
LEMMA MaxOf ==
  ASSUME NEW n \in Nat, NEW T \in SUBSET (0 .. n), T # {}
  PROVE  Max(T) \in T /\ \A t \in T : t <= Max(T)
<1> DEFINE below == {n - t : t \in T}
<1>a. \A t \in T : n - t \in below
  OBVIOUS
<1>b. \A k \in below : \E t \in T : k = n - t
  OBVIOUS
<1>c. \A t \in T : t \in 0 .. n
  OBVIOUS
<1> HIDE DEF below
<1>0. below \subseteq Nat /\ below # {}
  <2>1. \A k \in below : k \in Nat
    BY <1>b, <1>c
  <2>2. PICK t : t \in T
    OBVIOUS
  <2> QED
    BY <1>a, <2>1, <2>2
<1>1. PICK k \in below : \A m \in below : k <= m
  BY <1>0, Least
<1>2. PICK x \in T : k = n - x
  BY <1>b
<1>3. \A y \in T : n - x <= n - y
  BY <1>1, <1>2, <1>a
<1>4. \A y \in T : x >= y
  BY <1>3
<1>5. Max(T) \in T /\ \A y \in T : Max(T) >= y
  BY <1>4 DEF Max
<1>6. \A y \in T : y \in Int
  OBVIOUS
<1> QED
  BY <1>5, <1>6


LEMMA MaxOfRange ==
  ASSUME NEW i \in Nat \ {0}
  PROVE  Max(1 .. i) = i /\ (1 .. i) \ {i} = 1 .. (i - 1) /\ (1 .. i) # {}
<1>1. \A x \in 1 .. i : (\A y \in 1 .. i : x >= y) <=> x = i
  OBVIOUS
<1>2. Max(1 .. i) = i
  BY <1>1 DEF Max
<1>3. (1 .. i) \ {i} = 1 .. (i - 1)
  OBVIOUS
<1>4. (1 .. i) # {}
  <2>1. i \in 1 .. i
    OBVIOUS
  <2> QED
    BY <2>1
<1> QED
  BY <1>2, <1>3, <1>4

LEMMA MaxIn ==
  ASSUME NEW n \in Nat, NEW T \in SUBSET (1 .. n), T # {}
  PROVE  Max(T) \in T
<1> DEFINE below == {n - t : t \in T}
<1>a. \A t \in T : n - t \in below
  OBVIOUS
<1>b. \A k \in below : \E t \in T : k = n - t
  OBVIOUS
<1>c. \A t \in T : t \in 1 .. n
  OBVIOUS
<1> HIDE DEF below
<1>0. below \subseteq Nat /\ below # {}
  <2>1. \A k \in below : k \in Nat
    BY <1>b, <1>c
  <2>2. PICK t : t \in T
    OBVIOUS
  <2> QED
    BY <1>a, <2>1, <2>2
<1>1. PICK k \in below : \A m \in below : k <= m
  BY <1>0, Least
<1>2. PICK x \in T : k = n - x
  BY <1>b
<1>3. \A y \in T : n - x <= n - y
  BY <1>1, <1>2, <1>a
<1>4. \A y \in T : x >= y
  BY <1>3
<1> QED
  BY <1>4 DEF Max

-----------------------------------------------------------------------------
(* A fold from the left over n elements.  Its values lie in V; step[v, i]  *)
(* is what element i makes of v.                                           *)
FoldsOver(g, n, base, step) ==
  g = [T \in SUBSET (1 .. n) |->
         IF T = {} THEN base ELSE step[<<g[T \ {Max(T)}], Max(T)>>]]

LEMMA FoldExists ==
  ASSUME NEW n \in Nat, NEW V, NEW base \in V, NEW step \in [V \X (1 .. n) -> V]
  PROVE  \E g \in [SUBSET (1 .. n) -> V] : FoldsOver(g, n, base, step)
<1> DEFINE S == 1 .. n
           pick == [T \in SUBSET S |-> Max(T)]
           next == [p \in (SUBSET S) \X V |-> step[<<p[2], Max(p[1])>>]]
<1>1. IsFiniteSet(S)
  BY FS_Interval
<1>2. \A T \in SUBSET S : T # {} => pick[T] \in T /\ pick[T] = Max(T)
  BY MaxIn
<1>3. \A T \in SUBSET S, v \in V : next[<<T, v>>] = step[<<v, Max(T)>>]
  OBVIOUS
<1>a. \A v \in V, i \in S : step[<<v, i>>] \in V
  OBVIOUS
<1> HIDE DEF pick, next
<1>4. PICK g : Recurses(g, S, base, pick, next)
  BY <1>1, <1>2, RecursesSomehow
<1>5. \A T \in SUBSET S : T # {} => g[T] = next[<<T, g[T \ {pick[T]}]>>]
  BY <1>4 DEF Recurses
<1>6. g[{}] = base
  BY <1>4 DEF Recurses
<1>7. \A T \in SUBSET S : g[T] \in V
  <2> DEFINE D == {T \in SUBSET S : g[T] \notin V}
  <2>1. SUFFICES ASSUME D # {} PROVE FALSE
    OBVIOUS
  <2>2. D \subseteq SUBSET S
    OBVIOUS
  <2> HIDE DEF D, S
  <2>3. PICK T \in D : \A U \in D : U \subseteq T => U = T
    BY <1>1, <2>1, <2>2, Smallest
  <2>4. T \in SUBSET S /\ g[T] \notin V
    BY <2>3 DEF D
  <2>5. T # {}
    BY <1>6, <2>4
  <2>6. pick[T] \in T /\ pick[T] = Max(T)
    BY <1>2, <2>4, <2>5
  <2>7. g[T \ {pick[T]}] \in V
    BY <2>3, <2>4, <2>6 DEF D
  <2>8. g[T] = step[<<g[T \ {pick[T]}], Max(T)>>]
    BY <1>3, <1>5, <2>4, <2>5, <2>7
  <2> QED
    BY <1>a, <2>4, <2>6, <2>7, <2>8
<1>8. \A T \in SUBSET S : T # {} => g[T] = step[<<g[T \ {Max(T)}], Max(T)>>]
  BY <1>2, <1>3, <1>5, <1>7
<1>9. g = [T \in SUBSET S |-> g[T]]
  BY <1>4 DEF Recurses
<1>10. g = [T \in SUBSET S |-> IF T = {} THEN base ELSE step[<<g[T \ {Max(T)}], Max(T)>>]]
  BY <1>6, <1>8, <1>9
<1>11. g \in [SUBSET S -> V]
  BY <1>7, <1>9
<1> QED
  BY <1>10, <1>11 DEF FoldsOver

\* g is the recursion of FlattenSeq.
Flattens(g, seqs) ==
  g = [i \in 1 .. Len(seqs) |-> IF i = 1 THEN seqs[i] ELSE g[i - 1] \o seqs[i]]

LEMMA FlattenUnfolds ==
  ASSUME NEW seqs, Len(seqs) # 0
  PROVE  FlattenSeq(seqs) = (CHOOSE g : Flattens(g, seqs))[Len(seqs)]
  BY DEF FlattenSeq, Flattens

\* FlattenSeq is the end of a run along the sequences.
LEMMA FlattenRuns ==
  ASSUME NEW X, NEW seqs \in Seq(Seq(X))
  PROVE  \E r \in [0 .. Len(seqs) -> Seq(X)] :
           /\ r[0] = <<>>
           /\ \A i \in 1 .. Len(seqs) : r[i] = r[i - 1] \o seqs[i]
           /\ FlattenSeq(seqs) = r[Len(seqs)]
<1> DEFINE n == Len(seqs)
           V == Seq(X)
           step == [p \in V \X (1 .. n) |-> p[1] \o seqs[p[2]]]
<1>1. n \in Nat /\ DOMAIN seqs = 1 .. n /\ \A i \in 1 .. n : seqs[i] \in V
  OBVIOUS
<1>2. \A v \in V, i \in 1 .. n : step[<<v, i>>] = v \o seqs[i]
  OBVIOUS
<1>3. \A v \in V, i \in 1 .. n : v \o seqs[i] \in V
  BY <1>1, ConcatProperties
<1>4. step \in [V \X (1 .. n) -> V]
  BY <1>3
<1>5. <<>> \in V /\ \A s \in V : <<>> \o s = s
  BY ConcatEmptySeq
<1> HIDE DEF n, V, step
<1>6. PICK g \in [SUBSET (1 .. n) -> V] : FoldsOver(g, n, <<>>, step)
  BY <1>1, <1>4, <1>5, FoldExists
<1> DEFINE r == [i \in 0 .. n |-> g[1 .. i]]
<1>7. r[0] = <<>>
  <2>1. 1 .. 0 = {}
    OBVIOUS
  <2>2. g[{}] = <<>>
    BY <1>6 DEF FoldsOver
  <2> QED
    BY <1>1, <2>1, <2>2
<1>8. r \in [0 .. n -> V]
  <2>1. \A i \in 0 .. n : 1 .. i \in SUBSET (1 .. n)
    BY <1>1
  <2> QED
    BY <2>1, <1>6
<1>9. ASSUME NEW i \in 1 .. n PROVE r[i] = r[i - 1] \o seqs[i]
  <2>1. i \in Nat \ {0} /\ i - 1 \in 0 .. n /\ i \in 0 .. n
    BY <1>1
  <2>2. Max(1 .. i) = i /\ (1 .. i) \ {i} = 1 .. (i - 1) /\ (1 .. i) # {}
    BY <2>1, MaxOfRange
  <2>3. 1 .. i \in SUBSET (1 .. n)
    BY <1>1
  <2>4. g[1 .. i] = step[<<g[1 .. (i - 1)], i>>]
    BY <1>6, <2>2, <2>3 DEF FoldsOver
  <2>5. r[i] = g[1 .. i] /\ r[i - 1] = g[1 .. (i - 1)] /\ r[i - 1] \in V
    BY <2>1, <1>8
  <2> QED
    BY <1>2, <2>4, <2>5
<1> HIDE DEF r
<1>10. n = 0 => FlattenSeq(seqs) = r[n]
  BY <1>1, <1>7 DEF FlattenSeq, n
<1>11. ASSUME n # 0 PROVE FlattenSeq(seqs) = r[n]
  <2> DEFINE h == [i \in 1 .. n |-> r[i]]
             c == CHOOSE c : Flattens(c, seqs)
  <2>1. 1 \in 1 .. n /\ r[1] = seqs[1]
    <3>1. 1 \in 1 .. n
      BY <1>1, <1>11
    <3>2. r[1] = r[0] \o seqs[1] /\ seqs[1] \in V
      BY <3>1, <1>1, <1>9
    <3> QED
      BY <3>1, <3>2, <1>5, <1>7
  <2>2. Flattens(h, seqs)
    <3>1. ASSUME NEW i \in 1 .. n
          PROVE  h[i] = IF i = 1 THEN seqs[i] ELSE h[i - 1] \o seqs[i]
      <4>1. h[i] = r[i] /\ r[i] = r[i - 1] \o seqs[i]
        BY <1>9
      <4>2. i # 1 => i - 1 \in 1 .. n
        BY <1>1
      <4>3. i # 1 => h[i - 1] = r[i - 1]
        BY <4>2
      <4> QED
        BY <2>1, <4>1, <4>3
    <3> QED
      BY <3>1 DEF Flattens, n
  <2>3. Flattens(c, seqs)
    BY <2>2
  <2>4. FlattenSeq(seqs) = c[n]
    BY <1>11, FlattenUnfolds DEF n
  <2> HIDE DEF c, h
  <2> DEFINE P == {i \in 0 .. n : i = 0 \/ c[i] = r[i]}
  <2>5. 0 \in P
    BY <1>1
  <2>6. ASSUME NEW i \in 1 .. n, i - 1 \in P PROVE i \in P
    <3>1. c[i] = IF i = 1 THEN seqs[i] ELSE c[i - 1] \o seqs[i]
      BY <2>3 DEF Flattens, n
    <3>2. CASE i = 1
      BY ONLY <2>1, <2>6, <3>1, <3>2, <1>1 DEF P
    <3>3. CASE i # 1
      <4>1. i - 1 # 0 /\ c[i - 1] = r[i - 1]
        BY <2>6, <3>3, <1>1
      <4>2. c[i] = c[i - 1] \o seqs[i] /\ r[i] = r[i - 1] \o seqs[i]
        BY <3>1, <3>3, <1>9
      <4>3. i \in 0 .. n
        BY <1>1
      <4> QED
        BY <4>1, <4>2, <4>3
    <3> QED
      BY <3>2, <3>3
  <2> HIDE DEF P
  <2>7. \A i \in 0 .. n : i \in P
    BY <1>1, <2>5, <2>6, UpTo
  <2> QED
    BY <2>4, <2>7, <1>1, <1>11 DEF P
<1> QED
  BY <1>7, <1>8, <1>9, <1>10, <1>11 DEF n, V

LEMMA WholeSeq ==
  ASSUME NEW S, NEW s \in Seq(S)
  PROVE  SubSeq(s, 1, Len(s)) = s
<1>1. Len(s) \in Nat
  OBVIOUS
<1>2. /\ SubSeq(s, 1, Len(s)) \in Seq(S) /\ Len(SubSeq(s, 1, Len(s))) = Len(s)
      /\ \A i \in 1 .. Len(s) : SubSeq(s, 1, Len(s))[i] = s[i]
  BY <1>1
<1> QED
  BY ONLY <1>2, s \in Seq(S)

\* A run of concatenations only grows.
Concatenates(X, n, c, seqs) ==
  /\ n \in Nat /\ c \in [0 .. n -> Seq(X)]
  /\ \A i \in 1 .. n : seqs[i] \in Seq(X) /\ c[i] = c[i - 1] \o seqs[i]

Grows(n, c) ==
  \A j \in 0 .. n : /\ Len(c[j]) <= Len(c[n])
                    /\ \A i \in 1 .. Len(c[j]) : c[n][i] = c[j][i]

LEMMA RunGrows ==
  ASSUME NEW X, NEW n, NEW c, NEW seqs, Concatenates(X, n, c, seqs)
  PROVE  Grows(n, c)
<1> DEFINE Grown(m, j) == /\ Len(c[j]) <= Len(c[m])
                          /\ \A i \in 1 .. Len(c[j]) : c[m][i] = c[j][i]
           P == {m \in 0 .. n : \A j \in 0 .. m : Grown(m, j)}
<1>0. /\ n \in Nat /\ c \in [0 .. n -> Seq(X)]
      /\ \A i \in 1 .. n : seqs[i] \in Seq(X) /\ c[i] = c[i - 1] \o seqs[i]
  BY DEF Concatenates
<1>1. 0 \in P
  <2>1. \A j \in 0 .. 0 : j = 0
    OBVIOUS
  <2>2. 0 \in 0 .. n /\ Len(c[0]) \in Nat
    BY <1>0
  <2> QED
    BY <2>1, <2>2
<1>2. ASSUME NEW m \in 1 .. n, m - 1 \in P PROVE m \in P
  <2> DEFINE a == c[m - 1]
             b == seqs[m]
  <2>1. m - 1 \in 0 .. n /\ m \in 0 .. n /\ a \in Seq(X) /\ b \in Seq(X) /\ c[m] = a \o b
    <3> HIDE DEF P
    <3>1. m - 1 \in 0 .. n /\ m \in 0 .. n
      BY <1>0
    <3> QED
      BY <1>0, <3>1
  <2> HIDE DEF a, b
  <2>2. /\ Len(c[m]) = Len(a) + Len(b) /\ Len(a) \in Nat /\ Len(b) \in Nat
        /\ \A i \in 1 .. Len(a) + Len(b) : c[m][i] = IF i <= Len(a) THEN a[i] ELSE b[i - Len(a)]
    BY ONLY <2>1, ConcatProperties
  <2>3. ASSUME NEW j \in 0 .. m PROVE Grown(m, j)
    <3>1. CASE j = m
      <4>1. Len(c[m]) \in Nat
        BY <2>2
      <4> QED
        BY <3>1, <4>1
    <3>2. CASE j # m
      <4>1. j \in 0 .. m - 1 /\ j \in 0 .. n
        BY <3>2, <2>1, <1>0
      <4>2. Len(c[j]) <= Len(a) /\ \A i \in 1 .. Len(c[j]) : a[i] = c[j][i]
        BY <1>2, <4>1 DEF a
      <4>3. Len(c[j]) \in Nat
        BY <1>0, <4>1
      <4>4. Len(c[j]) <= Len(c[m])
        BY <4>2, <4>3, <2>2
      <4>5. ASSUME NEW i \in 1 .. Len(c[j]) PROVE c[m][i] = c[j][i]
        <5>1. i \in 1 .. Len(a) + Len(b) /\ i <= Len(a)
          BY ONLY <4>2, <4>3, <4>5, <2>2
        <5>2. c[m][i] = a[i]
          BY <5>1, <2>2
        <5> QED
          BY <5>2, <4>2
      <4> QED
        BY <4>4, <4>5
    <3> QED
      BY <3>1, <3>2
  <2> HIDE DEF Grown
  <2> QED
    BY <2>1, <2>3
<1> HIDE DEF P
<1>3. \A m \in 0 .. n : m \in P
  BY <1>0, <1>1, <1>2, UpTo
<1>4. n \in P
  BY <1>0, <1>3
<1> QED
  BY <1>4 DEF P, Grows

-----------------------------------------------------------------------------
(* What a fold of + over a function is.  The fold is a recursive function  *)
(* on the subsets of a finite set; that there is one, and what it does, is *)
(* shown on a smallest subset on which it would fail.                      *)

\* The element a fold takes first.
OneOf(T) == CHOOSE x \in T : TRUE

\* g adds f up over every subset of S, the element taken first on top.
AddsUp(g, f, S) ==
  g = [T \in SUBSET S |-> IF T = {} THEN 0 ELSE f[OneOf(T)] + g[T \ {OneOf(T)}]]

Sum(f, S) == FoldFunctionOnSet(LAMBDA a, b : a + b, 0, f, S)

LEMMA SumUnfolds ==
  ASSUME NEW f, NEW S
  PROVE  Sum(f, S) = (CHOOSE g : AddsUp(g, f, S))[S]
  BY DEF Sum, AddsUp, OneOf, FoldFunctionOnSet, MapThenFoldSet

LEMMA TakenIn ==
  ASSUME NEW T, T # {}
  PROVE  OneOf(T) \in T
  BY DEF OneOf

LEMMA AddsUpStep ==
  ASSUME NEW g, NEW f, NEW S, AddsUp(g, f, S), NEW T \in SUBSET S
  PROVE  /\ T = {} => g[T] = 0
         /\ T # {} => g[T] = f[OneOf(T)] + g[T \ {OneOf(T)}]
  BY DEF AddsUp

\* Two such functions agree where both are defined.
LEMMA SameSums ==
  ASSUME NEW f, NEW S, NEW R, IsFiniteSet(S), NEW g, AddsUp(g, f, S),
         NEW h, AddsUp(h, f, R)
  PROVE  \A T \in SUBSET (S \cap R) : g[T] = h[T]
<1> DEFINE D == {T \in SUBSET (S \cap R) : g[T] # h[T]}
<1>1. SUFFICES ASSUME D # {} PROVE FALSE
  OBVIOUS
<1>2. D \subseteq SUBSET S
  OBVIOUS
<1> HIDE DEF D
<1>3. PICK T \in D : \A U \in D : U \subseteq T => U = T
  BY <1>1, <1>2, Smallest
<1>4. T \in SUBSET S /\ T \in SUBSET R /\ g[T] # h[T]
  BY <1>3 DEF D
<1>5. T # {}
  BY <1>4, AddsUpStep
<1>6. OneOf(T) \in T
  BY <1>5, TakenIn
<1>7. g[T \ {OneOf(T)}] = h[T \ {OneOf(T)}]
  BY <1>3, <1>4, <1>6 DEF D
<1> QED
  BY <1>4, <1>5, <1>7, AddsUpStep

\* There is one.
LEMMA SumsExist ==
  ASSUME NEW f, NEW S, IsFiniteSet(S)
  PROVE  \E g : AddsUp(g, f, S)
<1> DEFINE D == {T \in SUBSET S : ~ \E g : AddsUp(g, f, T)}
<1>1. SUFFICES ASSUME D # {} PROVE FALSE
  OBVIOUS
<1>2. D \subseteq SUBSET S
  OBVIOUS
<1> HIDE DEF D
<1>3. PICK T \in D : \A U \in D : U \subseteq T => U = T
  BY <1>1, <1>2, Smallest
<1>4. T \in SUBSET S /\ ~ \E g : AddsUp(g, f, T)
  BY <1>3 DEF D
<1> DEFINE G(U) == CHOOSE g : AddsUp(g, f, U)
           h == [U \in SUBSET T |->
                   IF U = {} THEN 0
                   ELSE f[OneOf(U)] + G(U \ {OneOf(U)})[U \ {OneOf(U)}]]
<1>5. ASSUME NEW U \in SUBSET T, U # T PROVE AddsUp(G(U), f, U)
  <2>1. \E g : AddsUp(g, f, U)
    BY <1>3, <1>4, <1>5 DEF D
  <2> QED
    BY <2>1
<1> HIDE DEF G
<1>6. ASSUME NEW U \in SUBSET T, U # T PROVE G(U)[U] = h[U]
  <2>1. AddsUp(G(U), f, U)
    BY <1>5, <1>6
  <2>2. CASE U = {}
    BY <2>1, <2>2, AddsUpStep
  <2>3. CASE U # {}
    <3>1. OneOf(U) \in U
      BY <2>3, TakenIn
    <3> DEFINE V == U \ {OneOf(U)}
    <3>2. V \in SUBSET T /\ V # T /\ V \subseteq U
      BY <3>1
    <3>3. AddsUp(G(V), f, V)
      BY <1>5, <3>2
    <3>4. IsFiniteSet(U)
      BY <1>4, FS_Subset
    <3>5. G(U)[V] = G(V)[V]
      <4>1. V \in SUBSET (U \cap V)
        BY <3>2
      <4> QED
        BY <2>1, <3>3, <3>4, <4>1, SameSums
    <3>6. G(U)[U] = f[OneOf(U)] + G(U)[V]
      BY <2>1, <2>3, AddsUpStep
    <3> QED
      BY <2>3, <3>5, <3>6
  <2> QED
    BY <2>2, <2>3
<1>7. ASSUME NEW U \in SUBSET T, U # {}
      PROVE  h[U] = f[OneOf(U)] + h[U \ {OneOf(U)}]
  <2>1. OneOf(U) \in U
    BY <1>7, TakenIn
  <2>2. U \ {OneOf(U)} \in SUBSET T /\ U \ {OneOf(U)} # T
    BY <2>1
  <2>3. G(U \ {OneOf(U)})[U \ {OneOf(U)}] = h[U \ {OneOf(U)}]
    BY <1>6, <2>2
  <2> QED
    BY <1>7, <2>3
<1>8. h[{}] = 0
  OBVIOUS
<1>9. h = [U \in SUBSET T |-> h[U]]
  OBVIOUS
<1> HIDE DEF h
<1>10. h = [U \in SUBSET T |-> IF U = {} THEN 0 ELSE f[OneOf(U)] + h[U \ {OneOf(U)}]]
  BY <1>7, <1>8, <1>9
<1> QED
  BY <1>4, <1>10 DEF AddsUp

LEMMA SumAddsUp ==
  ASSUME NEW f, NEW S, IsFiniteSet(S)
  PROVE  \E g : AddsUp(g, f, S) /\ Sum(f, S) = g[S]
  BY SumsExist, SumUnfolds

\* Any element may be taken first.
LEMMA SumTakes ==
  ASSUME NEW S, IsFiniteSet(S), NEW f, \A x \in S : f[x] \in Nat
  PROVE  /\ Sum(f, S) \in Nat /\ (S = {} => Sum(f, S) = 0)
         /\ \A x \in S : Sum(f, S) = f[x] + Sum(f, S \ {x})
<1>1. PICK g : AddsUp(g, f, S) /\ Sum(f, S) = g[S]
  BY SumAddsUp
<1> DEFINE D == {T \in SUBSET S :
                   ~ (g[T] \in Nat /\ \A x \in T : g[T] = f[x] + g[T \ {x}])}
<1>2. D = {}
  <2> SUFFICES ASSUME D # {} PROVE FALSE
    OBVIOUS
  <2>1. D \subseteq SUBSET S
    OBVIOUS
  <2> HIDE DEF D
  <2>2. PICK T \in D : \A U \in D : U \subseteq T => U = T
    BY <2>1, Smallest
  <2>3. T \in SUBSET S
    BY <2>2 DEF D
  <2>4. ASSUME NEW U \in SUBSET T, U # T
        PROVE  g[U] \in Nat /\ \A x \in U : g[U] = f[x] + g[U \ {x}]
    BY <2>2, <2>3, <2>4 DEF D
  <2>5. CASE T = {}
    <3>1. g[T] = 0
      BY <1>1, <2>3, <2>5, AddsUpStep
    <3> QED
      BY <2>2, <2>5, <3>1 DEF D
  <2>6. CASE T # {}
    <3> DEFINE y == OneOf(T)
    <3>1. y \in T /\ T \ {y} \in SUBSET T /\ T \ {y} # T
      BY <2>6, TakenIn
    <3>2. g[T] = f[y] + g[T \ {y}] /\ f[y] \in Nat /\ g[T \ {y}] \in Nat
      BY <1>1, <2>3, <2>4, <2>6, <3>1, AddsUpStep
    <3> HIDE DEF y
    <3>3. ASSUME NEW x \in T PROVE g[T] = f[x] + g[T \ {x}]
      <4>1. CASE x = y
        BY <3>2, <4>1
      <4>2. CASE x # y
        <5> DEFINE B == (T \ {x}) \ {y}
        <5>1. B = (T \ {y}) \ {x} /\ x \in T \ {y} /\ y \in T \ {x}
              /\ T \ {x} \in SUBSET T /\ T \ {x} # T
          BY <3>1, <3>3, <4>2
        <5>2. g[T \ {y}] = f[x] + g[B]
          BY <2>4, <3>1, <5>1
        <5>3. g[T \ {x}] = f[y] + g[B]
          BY <2>4, <5>1
        <5>4. B \in SUBSET T /\ B # T
          BY <5>1
        <5>5. g[B] \in Nat
          BY <2>4, <5>4
        <5>6. f[x] \in Nat
          BY <2>3
        <5> HIDE DEF B
        <5> QED
          BY <3>2, <5>2, <5>3, <5>5, <5>6
      <4> QED
        BY <4>1, <4>2
    <3>4. g[T] \in Nat
      BY <3>2
    <3> QED
      BY <2>2, <3>3, <3>4 DEF D
  <2> QED
    BY <2>5, <2>6
<1>3. g[S] \in Nat /\ \A x \in S : g[S] = f[x] + g[S \ {x}]
  BY <1>2
<1> HIDE DEF D
<1>4. ASSUME NEW x \in S PROVE Sum(f, S \ {x}) = g[S \ {x}]
  <2>1. IsFiniteSet(S \ {x})
    BY FS_Subset
  <2>2. PICK h : AddsUp(h, f, S \ {x}) /\ Sum(f, S \ {x}) = h[S \ {x}]
    BY <2>1, SumAddsUp
  <2>3. S \ {x} \in SUBSET (S \cap (S \ {x}))
    OBVIOUS
  <2>4. \A T \in SUBSET (S \cap (S \ {x})) : g[T] = h[T]
    BY <1>1, <2>2, SameSums
  <2> QED
    BY <2>2, <2>3, <2>4
<1>5. S = {} => g[S] = 0
  BY <1>1, AddsUpStep
<1> QED
  BY <1>1, <1>3, <1>4, <1>5

\* Only the values on the set matter.
LEMMA SumSame ==
  ASSUME NEW S, IsFiniteSet(S), NEW f, NEW h, \A x \in S : f[x] = h[x]
  PROVE  Sum(f, S) = Sum(h, S)
<1>1. PICK g : AddsUp(g, f, S) /\ Sum(f, S) = g[S]
  BY SumAddsUp
<1>2. PICK k : AddsUp(k, h, S) /\ Sum(h, S) = k[S]
  BY SumAddsUp
<1> DEFINE D == {T \in SUBSET S : g[T] # k[T]}
<1>3. SUFFICES ASSUME D # {} PROVE FALSE
  BY <1>1, <1>2
<1>4. D \subseteq SUBSET S
  OBVIOUS
<1> HIDE DEF D
<1>5. PICK T \in D : \A U \in D : U \subseteq T => U = T
  BY <1>3, <1>4, Smallest
<1>6. T \in SUBSET S /\ g[T] # k[T]
  BY <1>5 DEF D
<1>7. T # {}
  BY <1>1, <1>2, <1>6, AddsUpStep
<1>8. OneOf(T) \in T
  BY <1>7, TakenIn
<1>9. g[T \ {OneOf(T)}] = k[T \ {OneOf(T)}]
  BY <1>5, <1>6, <1>8 DEF D
<1>10. f[OneOf(T)] = h[OneOf(T)]
  BY <1>6, <1>8
<1> QED
  BY <1>1, <1>2, <1>6, <1>7, <1>9, <1>10, AddsUpStep

\* A part adds up to no more than the whole.
LEMMA SumMono ==
  ASSUME NEW S, IsFiniteSet(S), NEW f, \A x \in S : f[x] \in Nat, NEW R \in SUBSET S
  PROVE  Sum(f, R) \in Nat /\ Sum(f, S) \in Nat /\ Sum(f, R) <= Sum(f, S)
<1> DEFINE D == {T \in SUBSET S : R \subseteq T /\ ~ (Sum(f, R) <= Sum(f, T))}
<1>1. \A T \in SUBSET S : IsFiniteSet(T) /\ \A x \in T : f[x] \in Nat
  BY FS_Subset
<1>2. \A T \in SUBSET S : Sum(f, T) \in Nat
  BY <1>1, SumTakes
<1>3. D = {}
  <2> SUFFICES ASSUME D # {} PROVE FALSE
    OBVIOUS
  <2>1. D \subseteq SUBSET S
    OBVIOUS
  <2> HIDE DEF D
  <2>2. PICK T \in D : \A U \in D : U \subseteq T => U = T
    BY <2>1, Smallest
  <2>3. T \in SUBSET S /\ R \subseteq T /\ ~ (Sum(f, R) <= Sum(f, T))
    BY <2>2 DEF D
  <2>4. T # R
    BY <1>2, <2>3
  <2>5. PICK x \in T : x \notin R
    BY <2>3, <2>4
  <2>6. T \ {x} \in SUBSET S /\ R \subseteq T \ {x} /\ T \ {x} # T
    BY <2>3, <2>5
  <2>7. Sum(f, R) <= Sum(f, T \ {x})
    BY <2>2, <2>6 DEF D
  <2>8. Sum(f, T) = f[x] + Sum(f, T \ {x}) /\ f[x] \in Nat
    BY <1>1, <2>3, SumTakes
  <2> QED
    BY <1>2, <2>3, <2>6, <2>7, <2>8

<1>4. Sum(f, R) <= Sum(f, S)
  BY <1>3
<1> QED
  BY <1>2, <1>4
=============================================================================
