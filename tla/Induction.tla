------------------------------- MODULE Induction -------------------------------
(***************************************************************************)
(* Induction over natural numbers, stated about sets: T is the set of the  *)
(* numbers of which something holds.  It rests on the least number, which  *)
(* the library has as a theorem about well-founded relations.  From it     *)
(* come induction over sizes and elements of finite sets; what recursive   *)
(* functions compute, stated about the function they recur with; and what  *)
(* the folds of the community modules do: they choose the elements in some *)
(* order, and a sum, modulo a number or not, does not depend on which.     *)
(***************************************************************************)
EXTENDS Integers, SequencesExt, SequenceTheorems, FiniteSetTheorems, WellFoundedInduction,
        TLAPS

LEMMA LeastNumber ==
    ASSUME NEW T \in SUBSET Nat, T # {}
    PROVE  \E n \in T : \A m \in T : n <= m
<1> DEFINE R == {ss \in Nat \X Nat : ss[1] < ss[2]}
<1>1. IsWellFoundedOn(R, Nat)
  BY NatLessThanWellFounded DEF OpToRel
<1> HIDE DEF R
<1>2. PICK n \in T : \A m \in T : ~ (<<m, n>> \in R)
  BY <1>1, WFMin
<1>3. \A m \in T : ~(m < n)
  BY <1>2 DEF R
<1> QED
  BY <1>3

LEMMA SetInduction ==
    ASSUME NEW T, 0 \in T, \A n \in Nat : n \in T => n + 1 \in T
    PROVE  Nat \subseteq T
<1> SUFFICES ASSUME Nat \ T # {}
             PROVE  FALSE
  OBVIOUS
<1>1. PICK n \in Nat \ T : \A m \in Nat \ T : n <= m
  BY LeastNumber
<1>2. n - 1 \in Nat /\ n - 1 \in T
  BY <1>1
<1> QED
  BY <1>1, <1>2

\* From a number up to another.
LEMMA UpInduction ==
    ASSUME NEW a \in Int, NEW b \in Int, NEW T, a \in T,
           \A n \in a..(b - 1) : n \in T => n + 1 \in T
    PROVE  a..b \subseteq T
<1> DEFINE U == {k \in Nat : a + k <= b => a + k \in T}
<1>1. 0 \in U
  OBVIOUS
<1>2. \A k \in Nat : k \in U => k + 1 \in U
  <2> SUFFICES ASSUME NEW k \in Nat, k \in U, a + (k + 1) <= b
               PROVE  a + (k + 1) \in T
    OBVIOUS
  <2>1. a + k \in a..(b - 1) /\ a + k \in T
    OBVIOUS
  <2>2. (a + k) + 1 \in T
    BY <2>1
  <2>3. (a + k) + 1 = a + (k + 1)
    OBVIOUS
  <2> QED
    BY <2>2, <2>3
<1>3. Nat \subseteq U
  <2> HIDE DEF U
  <2> QED
    BY <1>1, <1>2, SetInduction
<1>4. ASSUME NEW n \in a..b
      PROVE  n \in T
  <2>1. n - a \in Nat /\ a + (n - a) = n
    OBVIOUS
  <2>2. n - a \in U
    BY <1>3, <2>1
  <2> QED
    BY <2>1, <2>2
<1> QED
  BY <1>4

\* From a number down to another.
LEMMA DownInduction ==
    ASSUME NEW a \in Int, NEW b \in Int, NEW T, b \in T,
           \A n \in (a + 1)..b : n \in T => n - 1 \in T
    PROVE  a..b \subseteq T
<1> DEFINE U == {k \in (-b)..(-a) : -k \in T}
<1>1. CASE a > b
  BY <1>1
<1>2. CASE a <= b
  <2>1. -b \in U
    BY <1>2
  <2>2. \A k \in (-b)..(-a - 1) : k \in U => k + 1 \in U
    <3> SUFFICES ASSUME NEW k \in (-b)..(-a - 1), -k \in T
                 PROVE  -(k + 1) \in T
      OBVIOUS
    <3>1. -k \in (a + 1)..b /\ -(k + 1) = (-k) - 1
      OBVIOUS
    <3> QED
      BY <3>1
  <2>3. (-b)..(-a) \subseteq U
    <3>1. -b \in Int /\ -a \in Int
      OBVIOUS
    <3> HIDE DEF U
    <3> QED
      BY <2>1, <2>2, <3>1, UpInduction
  <2>4. ASSUME NEW n \in a..b
        PROVE  n \in T
    <3>1. -n \in (-b)..(-a) /\ -(-n) = n
      OBVIOUS
    <3>2. -n \in U
      BY <2>3, <3>1
    <3> QED
      BY <3>1, <3>2
  <2> QED
    BY <2>4
<1> QED
  BY <1>1, <1>2

\* How the value at a number gives the one at the next.
Steps(V) == [Nat -> [V -> V]]
Iterates(f, V, base, step) ==
    f \in [Nat -> V] /\ f[0] = base /\ \A n \in Nat : f[n + 1] = step[n][f[n]]

\* A function whose value at each number follows from the one before exists.
LEMMA Recursion ==
    ASSUME NEW V, NEW base \in V, NEW step \in Steps(V)
    PROVE  \E f : Iterates(f, V, base, step)
<1> USE DEF Steps
<1> DEFINE Upto(n, f) == /\ f \in [0..n -> V]
                         /\ f[0] = base
                         /\ \A k \in 0..(n - 1) : f[k + 1] = step[k][f[k]]
           T == {n \in Nat : \E f : Upto(n, f)}
<1>1. 0 \in T
  <2>1. Upto(0, [k \in 0..0 |-> base])
    OBVIOUS
  <2> QED
    BY <2>1
<1>2. ASSUME NEW n \in Nat, n \in T
      PROVE  n + 1 \in T
  <2>1. PICK f : Upto(n, f)
    BY <1>2
  <2> DEFINE g == [k \in 0..(n + 1) |-> IF k = n + 1 THEN step[n][f[n]] ELSE f[k]]
  <2>2. f[n] \in V /\ step[n][f[n]] \in V
    BY <2>1
  <2>3. g \in [0..(n + 1) -> V]
    BY <2>1, <2>2
  <2>4. g[0] = base
    BY <2>1
  <2>5. ASSUME NEW k \in 0..n
        PROVE  g[k + 1] = step[k][g[k]]
    <3>1. g[k] = f[k]
      OBVIOUS
    <3>2. CASE k = n
      <4>1. g[n + 1] = step[n][f[n]]
        OBVIOUS
      <4> QED
        BY <3>1, <3>2, <4>1
    <3>3. CASE k # n
      <4>1. k \in 0..(n - 1) /\ g[k + 1] = f[k + 1]
        BY <3>3
      <4> QED
        BY <2>1, <3>1, <4>1
    <3> QED
      BY <3>2, <3>3
  <2>6. Upto(n + 1, g)
    <3> HIDE DEF g
    <3> QED
      BY <2>3, <2>4, <2>5
  <2> HIDE DEF Upto
  <2> QED
    BY <2>6
<1>3. Nat \subseteq T
  <2> HIDE DEF T
  <2> QED
    BY <1>1, <1>2, SetInduction
<1> DEFINE F == [n \in Nat |-> CHOOSE f : Upto(n, f)]
<1>4. \A n \in Nat : Upto(n, F[n])
  <2> HIDE DEF Upto
  <2> QED
    BY <1>3
<1> HIDE DEF F
\* They agree where both are defined.
<1>5. ASSUME NEW m \in Nat, NEW n \in Nat, m <= n
      PROVE  \A k \in 0..m : F[m][k] = F[n][k]
  <2> DEFINE A == {k \in 0..m : F[m][k] = F[n][k]}
  <2>1. 0 \in A
    BY <1>4
  <2>2. \A k \in 0..(m - 1) : k \in A => k + 1 \in A
    <3> SUFFICES ASSUME NEW k \in 0..(m - 1), k \in A
                 PROVE  F[m][k + 1] = F[n][k + 1]
      OBVIOUS
    <3>1. F[m][k + 1] = step[k][F[m][k]]
      BY <1>4
    <3>2. F[n][k + 1] = step[k][F[n][k]]
      BY <1>4, <1>5
    <3> QED
      BY <3>1, <3>2
  <2>3. 0..m \subseteq A
    <3> HIDE DEF A
    <3> QED
      BY <2>1, <2>2, UpInduction
  <2> QED
    BY <2>3
<1> DEFINE G == [n \in Nat |-> F[n][n]]
<1>6. G \in [Nat -> V] /\ G[0] = base
  BY <1>4
<1>7. ASSUME NEW n \in Nat
      PROVE  G[n + 1] = step[n][G[n]]
  <2>1. F[n + 1][n + 1] = step[n][F[n + 1][n]]
    <3>1. n + 1 \in Nat /\ n \in 0..((n + 1) - 1)
      OBVIOUS
    <3>2. Upto(n + 1, F[n + 1])
      BY <1>4, <3>1
    <3> QED
      BY <3>1, <3>2
  <2>2. F[n][n] = F[n + 1][n]
    BY <1>5
  <2> QED
    BY <2>1, <2>2
<1> QED
  <2> HIDE DEF G
  <2> QED
    BY <1>6, <1>7 DEF Iterates

\* FlattenSeq is what its recursive function says.
LEMMA FlattenRecursion ==
    ASSUME NEW S, NEW ss \in Seq(Seq(S)), Len(ss) > 0
    PROVE  \E f \in [1..Len(ss) -> Seq(S)] :
             /\ f[1] = ss[1]
             /\ \A i \in 2..Len(ss) : f[i] = f[i - 1] \o ss[i]
             /\ FlattenSeq(ss) = f[Len(ss)]
<1> DEFINE L == Len(ss)
           Eq(f) == f = [i \in 1..L |-> IF i = 1 THEN ss[i] ELSE f[i - 1] \o ss[i]]
<1>1. L \in Nat /\ L >= 1 /\ \A i \in 1..L : ss[i] \in Seq(S)
  BY LenProperties
<1>0. L = Len(ss)
  OBVIOUS
<1> HIDE DEF L
<1>2. \E f \in [1..L -> Seq(S)] : Eq(f)
  <2> DEFINE step == [n \in Nat |-> [v \in Seq(S) |->
                        IF n + 2 \in 1..L THEN v \o ss[n + 2] ELSE v]]
  <2>1. step \in [Nat -> [Seq(S) -> Seq(S)]]
    <3>1. \A n \in Nat, v \in Seq(S) : n + 2 \in 1..L => v \o ss[n + 2] \in Seq(S)
      BY <1>1, ConcatProperties
    <3> QED
      BY <3>1
  <2>2. PICK g \in [Nat -> Seq(S)] : g[0] = ss[1] /\ \A n \in Nat : g[n + 1] = step[n][g[n]]
    <3> DEFINE V == Seq(S)
               first == ss[1]
    <3>1. first \in V
      BY <1>1
    <3>2. step \in Steps(V)
      BY <2>1 DEF Steps
    <3> HIDE DEF step, V, first
    <3>3. \E g : Iterates(g, V, first, step)
      BY <3>1, <3>2, Recursion
    <3> QED
      BY <3>3 DEF V, first, Iterates
  <2> DEFINE f == [i \in 1..L |-> g[i - 1]]
  <2>3. f \in [1..L -> Seq(S)]
    BY <1>1
  <2>4. \A i \in 1..L : f[i] = IF i = 1 THEN ss[i] ELSE f[i - 1] \o ss[i]
    <3> SUFFICES ASSUME NEW i \in 1..L, i # 1
                 PROVE  f[i] = f[i - 1] \o ss[i]
      <4>1. f[1] = g[0]
        BY <1>1
      <4> QED
        BY <2>2, <4>1
    <3>1. i - 2 \in Nat /\ (i - 2) + 1 = i - 1 /\ (i - 2) + 2 = i /\ i - 1 \in 1..L
      BY <1>1
    <3>2. g[i - 1] = step[i - 2][g[i - 2]]
      <4> HIDE DEF step
      <4> QED
        BY <2>2, <3>1
    <3>3. step[i - 2][g[i - 2]] = g[i - 2] \o ss[i]
      BY <3>1
    <3>4. f[i - 1] = g[i - 2]
      BY <3>1
    <3> QED
      BY <3>2, <3>3, <3>4
  <2>5. Eq(f)
    <3>1. f = [i \in 1..L |-> f[i]]
      OBVIOUS
    <3> HIDE DEF f
    <3> QED
      BY <2>4, <3>1
  <2> HIDE DEF Eq, f
  <2> QED
    BY <2>3, <2>5
<1> DEFINE F == CHOOSE f : Eq(f)
<1>3. Eq(F)
  <2> HIDE DEF Eq
  <2> QED
    BY <1>2
<1>4. FlattenSeq(ss) = F[L]
  BY <1>1, <1>0 DEF FlattenSeq
<1> HIDE DEF F
<1>5. F[1] = ss[1] /\ \A i \in 2..L : F[i] = F[i - 1] \o ss[i]
  <2>1. \A i \in 1..L : F[i] = IF i = 1 THEN ss[i] ELSE F[i - 1] \o ss[i]
    BY <1>3
  <2>2. 1 \in 1..L /\ 2..L \subseteq 1..L
    BY <1>1
  <2>3. F[1] = ss[1]
    BY <2>1, <2>2
  <2>4. ASSUME NEW i \in 2..L
        PROVE  F[i] = F[i - 1] \o ss[i]
    <3>1. i # 1 /\ i \in 1..L
      BY <1>1
    <3> QED
      BY <2>1, <3>1
  <2> QED
    BY <2>3, <2>4
<1>6. F \in [1..L -> Seq(S)]
  <2> DEFINE T == {i \in 1..L : F[i] \in Seq(S)}
  <2>1. 1 \in T
    BY <1>1, <1>5
  <2>2. \A i \in 1..(L - 1) : i \in T => i + 1 \in T
    <3> SUFFICES ASSUME NEW i \in 1..(L - 1), F[i] \in Seq(S)
                 PROVE  F[i + 1] \in Seq(S) /\ i + 1 \in 1..L
      OBVIOUS
    <3>1. i + 1 \in 2..L /\ (i + 1) - 1 = i
      BY <1>1
    <3>2. F[i + 1] = F[(i + 1) - 1] \o ss[i + 1]
      BY <1>5, <3>1
    <3>3. ss[i + 1] \in Seq(S) /\ i + 1 \in 1..L
      BY <1>1, <3>1
    <3> QED
      BY <3>1, <3>2, <3>3, ConcatProperties
  <2>3. 1..L \subseteq T
    <3> HIDE DEF T
    <3>1. 1 \in Int /\ L \in Int
      BY <1>1
    <3> QED
      BY <2>1, <2>2, <3>1, UpInduction
  <2>4. F = [i \in 1..L |-> F[i]]
    BY <1>3
  <2> QED
    BY <2>3, <2>4
<1> QED
  BY <1>4, <1>5, <1>6, <1>0

-----------------------------------------------------------------------------
(* Finite sets, one element after the other *)

LEMMA SizeInduction ==
    ASSUME NEW D, IsFiniteSet(D), NEW T, {} \in T,
           \A s \in SUBSET D : s # {} /\ (\A x \in s : s \ {x} \in T) => s \in T
    PROVE  SUBSET D \subseteq T
<1> DEFINE N == {n \in Nat : \A s \in SUBSET D : Cardinality(s) = n => s \in T}
<1>1. \A s \in SUBSET D : IsFiniteSet(s) /\ Cardinality(s) \in Nat
  BY FS_Subset, FS_CardinalityType
<1>2. 0 \in N
  BY <1>1, FS_EmptySet
<1>3. ASSUME NEW n \in Nat, n \in N
      PROVE  n + 1 \in N
  <2> SUFFICES ASSUME NEW s \in SUBSET D, Cardinality(s) = n + 1
               PROVE  s \in T
    OBVIOUS
  <2>1. s # {}
    <3>1. n + 1 # 0 /\ Cardinality({}) = 0
      BY FS_EmptySet
    <3> QED
      BY <3>1
  <2>2. ASSUME NEW x \in s
        PROVE  s \ {x} \in T
    <3>1. Cardinality(s \ {x}) = Cardinality(s) - 1 /\ s \ {x} \in SUBSET D
      BY <1>1, FS_RemoveElement
    <3> QED
      BY <1>3, <3>1
  <2> QED
    BY <2>1, <2>2
<1> HIDE DEF N
<1>4. Nat \subseteq N
  BY <1>2, <1>3, SetInduction
<1> QED
  BY <1>1, <1>4 DEF N

LEMMA SubsetInduction ==
    ASSUME NEW D, IsFiniteSet(D), NEW T, {} \in T,
           \A s \in SUBSET D : \A x \in D \ s : s \in T => s \cup {x} \in T
    PROVE  SUBSET D \subseteq T
<1>1. ASSUME NEW s \in SUBSET D, s # {}, \A x \in s : s \ {x} \in T
      PROVE  s \in T
  <2>1. PICK x : x \in s
    BY <1>1
  <2>2. s \ {x} \in SUBSET D /\ x \in D \ (s \ {x}) /\ s = (s \ {x}) \cup {x}
    BY <2>1
  <2> QED
    BY <1>1, <2>1, <2>2
<1> QED
  BY <1>1, SizeInduction

\* The element that the folds of the community modules take first.
Chosen(s) == CHOOSE x \in s : TRUE

LEMMA ChosenIn == \A s : s # {} => Chosen(s) \in s
  BY DEF Chosen

LEMMA ChoiceInduction ==
    ASSUME NEW D, IsFiniteSet(D), NEW T, {} \in T,
           \A s \in SUBSET D : s # {} /\ s \ {Chosen(s)} \in T => s \in T
    PROVE  SUBSET D \subseteq T
<1>1. ASSUME NEW s \in SUBSET D, s # {}, \A x \in s : s \ {x} \in T
      PROVE  s \in T
  BY <1>1, ChosenIn
<1> QED
  BY <1>1, SizeInduction

-----------------------------------------------------------------------------
(* Sums over finite sets *)

\* h is the sum of w over the subsets of D, an element at a time.
Summing(h, D, w) ==
    h = [s \in SUBSET D |-> IF s = {} THEN 0 ELSE h[s \ {Chosen(s)}] + w[Chosen(s)]]

\* The same where every sum is taken modulo m.
SummingModulo(h, D, w, m) ==
    h = [s \in SUBSET D |->
           IF s = {} THEN 0 ELSE (h[s \ {Chosen(s)}] + w[Chosen(s)]) % m]

\* Such a function exists: it takes each subset at the step of its size.
Folding(h, D, g) ==
    /\ h \in [SUBSET D -> Nat]
    /\ \A s \in SUBSET D : h[s] = IF s = {} THEN 0 ELSE g[Chosen(s)][h[s \ {Chosen(s)}]]

LEMMA FoldExists ==
    ASSUME NEW D, IsFiniteSet(D), NEW g \in [D -> [Nat -> Nat]]
    PROVE  \E h : Folding(h, D, g)
<1> DEFINE V == [SUBSET D -> Nat]
           zero == [s \in SUBSET D |-> 0]
           more(v) == [s \in SUBSET D |->
                         IF s = {} THEN 0 ELSE g[Chosen(s)][v[s \ {Chosen(s)}]]]
           step == [n \in Nat |-> [v \in V |-> more(v)]]
<1>1. \A v \in V : more(v) \in V
  BY ChosenIn
<1>2. zero \in V
  OBVIOUS
<1>3. step \in Steps(V)
  <2> HIDE DEF V, more
  <2> QED
    BY <1>1 DEF Steps
<1>4. PICK f : /\ f \in [Nat -> V] /\ f[0] = zero
               /\ \A n \in Nat : f[n + 1] = more(f[n])
  <2>1. \A n \in Nat, v \in V : step[n][v] = more(v)
    <3> HIDE DEF V, more
    <3> QED
      OBVIOUS
  <2> HIDE DEF V, zero, more, step
  <2>2. PICK f : Iterates(f, V, zero, step)
    BY <1>2, <1>3, Recursion
  <2>3. /\ f \in [Nat -> V] /\ f[0] = zero
        /\ \A n \in Nat : f[n + 1] = more(f[n])
    BY <2>1, <2>2 DEF Iterates
  <2> QED
    BY <2>3
<1> DEFINE h == [s \in SUBSET D |-> f[Cardinality(s)][s]]
<1>5. \A s \in SUBSET D : IsFiniteSet(s) /\ Cardinality(s) \in Nat
  BY FS_Subset, FS_CardinalityType
<1>6. h \in [SUBSET D -> Nat]
  BY <1>4, <1>5
<1>7. ASSUME NEW s \in SUBSET D
      PROVE  h[s] = IF s = {} THEN 0 ELSE g[Chosen(s)][h[s \ {Chosen(s)}]]
  <2>1. CASE s = {}
    BY <1>4, <2>1, FS_EmptySet
  <2>2. CASE s # {}
    <3> DEFINE r == s \ {Chosen(s)}
               n == Cardinality(r)
    <3>1. r \in SUBSET D /\ Cardinality(s) = n + 1 /\ n \in Nat
      <4>1. Chosen(s) \in s /\ r \in SUBSET D
        BY <2>2, ChosenIn
      <4>2. n = Cardinality(s) - 1 /\ n \in Nat
        BY <1>5, <4>1, FS_RemoveElement
      <4> QED
        BY <1>5, <4>1, <4>2
    <3> HIDE DEF n, r
    <3>2. h[s] = f[n + 1][s] /\ h[r] = f[n][r]
      BY <3>1 DEF n
    <3>3. f[n + 1] = more(f[n])
      BY <1>4, <3>1
    <3>4. f[n + 1][s] = g[Chosen(s)][f[n][r]]
      BY <2>2, <3>3 DEF r
    <3> QED
      BY <2>2, <3>2, <3>4 DEF r
  <2> QED
    BY <2>1, <2>2
<1> HIDE DEF h
<1> QED
  BY <1>6, <1>7 DEF Folding

LEMMA SumExists ==
    ASSUME NEW E, NEW w \in [E -> Nat], NEW D \in SUBSET E, IsFiniteSet(D)
    PROVE  \E h : Summing(h, D, w)
<1> DEFINE g == [x \in D |-> [n \in Nat |-> n + w[x]]]
<1>1. g \in [D -> [Nat -> Nat]]
  OBVIOUS
<1>2. \A x \in D, n \in Nat : g[x][n] = n + w[x]
  OBVIOUS
<1> HIDE DEF g
<1>3. PICK h : Folding(h, D, g)
  BY <1>1, FoldExists
<1>4. \A s \in SUBSET D : h[s] = IF s = {} THEN 0 ELSE h[s \ {Chosen(s)}] + w[Chosen(s)]
  <2> SUFFICES ASSUME NEW s \in SUBSET D, s # {}
               PROVE  h[s] = h[s \ {Chosen(s)}] + w[Chosen(s)]
    BY <1>3 DEF Folding
  <2>1. Chosen(s) \in D /\ s \ {Chosen(s)} \in SUBSET D
    BY ChosenIn
  <2>2. h[s \ {Chosen(s)}] \in Nat
    BY <1>3, <2>1 DEF Folding
  <2> QED
    BY <1>2, <1>3, <2>1, <2>2 DEF Folding
<1>5. h = [s \in SUBSET D |-> h[s]]
  BY <1>3 DEF Folding
<1> QED
  BY <1>4, <1>5 DEF Summing

Adding(h, D, w) ==
    /\ h \in [SUBSET D -> Nat] /\ h[{}] = 0
    /\ \A s \in SUBSET D : \A x \in s : h[s] = h[s \ {x}] + w[x]

\* The sum does not depend on which element is taken.
LEMMA SumSteps ==
    ASSUME NEW E, NEW w \in [E -> Nat], NEW D \in SUBSET E, IsFiniteSet(D),
           NEW h, Summing(h, D, w)
    PROVE  Adding(h, D, w)
<1>1. \A s \in SUBSET D : h[s] = IF s = {} THEN 0 ELSE h[s \ {Chosen(s)}] + w[Chosen(s)]
  BY DEF Summing
<1>2. h[{}] = 0
  BY <1>1
<1>3. ASSUME NEW s \in SUBSET D, s # {}
      PROVE  /\ Chosen(s) \in s /\ s \ {Chosen(s)} \in SUBSET D /\ w[Chosen(s)] \in Nat
             /\ h[s] = h[s \ {Chosen(s)}] + w[Chosen(s)]
  BY <1>1, <1>3, ChosenIn
<1> DEFINE N == {s \in SUBSET D : h[s] \in Nat}
<1>4. SUBSET D \subseteq N
  <2>1. {} \in N
    BY <1>2
  <2>2. ASSUME NEW s \in SUBSET D, s # {}, s \ {Chosen(s)} \in N
        PROVE  s \in N
    BY <1>3, <2>2
  <2> HIDE DEF N
  <2> QED
    BY <2>1, <2>2, ChoiceInduction
<1>5. \A s \in SUBSET D : h[s] \in Nat
  BY <1>4
<1>6. h \in [SUBSET D -> Nat]
  BY <1>5 DEF Summing
<1> DEFINE T == {s \in SUBSET D : \A x \in s : h[s] = h[s \ {x}] + w[x]}
<1>7. SUBSET D \subseteq T
  <2>1. {} \in T
    OBVIOUS
  <2>2. ASSUME NEW s \in SUBSET D, s # {}, \A y \in s : s \ {y} \in T
        PROVE  s \in T
    <3> SUFFICES ASSUME NEW x \in s
                 PROVE  h[s] = h[s \ {x}] + w[x]
      OBVIOUS
    <3> DEFINE c == Chosen(s)
               r == s \ {c, x}
    <3>1. c \in s /\ s \ {c} \in SUBSET D /\ h[s] = h[s \ {c}] + w[c]
      BY <1>3, <2>2
    <3> HIDE DEF c
    <3>2. CASE x = c
      BY <3>1, <3>2
    <3>3. CASE x # c
      <4>1. r = (s \ {c}) \ {x} /\ r = (s \ {x}) \ {c} /\ r \in SUBSET D
        OBVIOUS
      <4>2. x \in s \ {c} /\ c \in s \ {x}
        BY <3>1, <3>3
      <4>3. s \ {c} \in T /\ s \ {x} \in T
        BY <2>2, <3>1
      <4> HIDE DEF r
      <4>4. h[s \ {c}] = h[r] + w[x] /\ h[s \ {x}] = h[r] + w[c]
        BY <4>1, <4>2, <4>3
      <4>5. h[r] \in Nat /\ w[x] \in Nat /\ w[c] \in Nat
        BY <1>5, <3>1, <4>1
      <4>6. \A a, b, d \in Nat : (a + b) + d = (a + d) + b
        OBVIOUS
      <4> QED
        BY <3>1, <4>4, <4>5, <4>6
    <3> QED
      BY <3>2, <3>3
  <2> HIDE DEF T
  <2> QED
    BY <2>1, <2>2, SizeInduction
<1> QED
  BY <1>2, <1>6, <1>7 DEF Adding

\* Sums over two sets agree on what they have in common.
LEMMA SumAgree ==
    ASSUME NEW w, NEW D, IsFiniteSet(D), NEW C \in SUBSET D, NEW h, Summing(h, D, w),
           NEW k, Summing(k, C, w)
    PROVE  \A s \in SUBSET C : h[s] = k[s]
<1> DEFINE T == {s \in SUBSET C : h[s] = k[s]}
<1>1. {} \in T
  BY DEF Summing
<1>2. ASSUME NEW s \in SUBSET C, s # {}, s \ {Chosen(s)} \in T
      PROVE  s \in T
  <2>1. h[s] = h[s \ {Chosen(s)}] + w[Chosen(s)]
    BY <1>2 DEF Summing
  <2>2. k[s] = k[s \ {Chosen(s)}] + w[Chosen(s)]
    BY <1>2 DEF Summing
  <2> QED
    BY <1>2, <2>1, <2>2
<1>3. IsFiniteSet(C)
  BY FS_Subset
<1> HIDE DEF T
<1>4. SUBSET C \subseteq T
  BY <1>1, <1>2, <1>3, ChoiceInduction
<1> QED
  BY <1>4 DEF T

LEMMA ImageFinite ==
    ASSUME NEW D, IsFiniteSet(D), NEW f
    PROVE  IsFiniteSet({f[x] : x \in D})
<1> DEFINE im(s) == {f[x] : x \in s}
           T == {s \in SUBSET D : IsFiniteSet(im(s))}
<1>1. {} \in T
  <2>1. im({}) = {}
    OBVIOUS
  <2> QED
    BY <2>1, FS_EmptySet
<1>2. ASSUME NEW s \in SUBSET D, NEW x \in D \ s, s \in T
      PROVE  s \cup {x} \in T
  <2>1. im(s \cup {x}) = im(s) \cup {f[x]}
    OBVIOUS
  <2> HIDE DEF im
  <2>2. IsFiniteSet(im(s) \cup {f[x]})
    BY <1>2, FS_AddElement
  <2> QED
    BY <2>1, <2>2
<1> HIDE DEF T
<1>3. SUBSET D \subseteq T
  BY <1>1, <1>2, SubsetInduction
<1> QED
  BY <1>3 DEF T

Renamed(h, k, D, f) == \A s \in SUBSET D : h[s] = k[{f[x] : x \in s}]

\* Renaming the elements does not change the sum.
LEMMA SumImage ==
    ASSUME NEW E, NEW w \in [E -> Nat], NEW D \in SUBSET E, IsFiniteSet(D),
           NEW F, NEW v \in [F -> Nat], NEW C \in SUBSET F, IsFiniteSet(C),
           NEW f \in [D -> C],
           \A x, y \in D : f[x] = f[y] => x = y,
           \A x \in D : v[f[x]] = w[x],
           NEW h, Summing(h, D, w), NEW k, Summing(k, C, v)
    PROVE  Renamed(h, k, D, f)
<1> DEFINE im(s) == {f[x] : x \in s}
           T == {s \in SUBSET D : h[s] = k[im(s)]}
<1>h. Adding(h, D, w)
  BY SumSteps
<1>k. Adding(k, C, v)
  BY SumSteps
<1>1. {} \in T
  <2>1. im({}) = {}
    OBVIOUS
  <2> QED
    BY <1>h, <1>k, <2>1 DEF Adding
<1>2. ASSUME NEW s \in SUBSET D, NEW x \in D \ s, s \in T
      PROVE  s \cup {x} \in T
  <2> DEFINE t == s \cup {x}
  <2>1. t \in SUBSET D /\ x \in t /\ t \ {x} = s
    OBVIOUS
  <2>2. im(t) \in SUBSET C /\ f[x] \in im(t) /\ im(t) \ {f[x]} = im(s)
    <3>1. im(t) \in SUBSET C /\ f[x] \in im(t)
      OBVIOUS
    <3>2. \A y \in s : f[y] # f[x]
      OBVIOUS
    <3>3. im(t) = im(s) \cup {f[x]}
      OBVIOUS
    <3> QED
      BY <3>1, <3>2, <3>3
  <2> HIDE DEF t, im
  <2>3. h[t] = h[s] + w[x]
    BY <1>h, <2>1 DEF Adding
  <2>4. k[im(t)] = k[im(s)] + v[f[x]]
    BY <1>k, <2>2 DEF Adding
  <2>5. h[t] = k[im(t)]
    BY <1>2, <2>3, <2>4
  <2> QED
    BY <2>1, <2>5 DEF t
<1> HIDE DEF T
<1>3. SUBSET D \subseteq T
  BY <1>1, <1>2, SubsetInduction
<1> QED
  BY <1>3 DEF T, Renamed

\* A sum modulo m is not more than the sum, and the same if that is less than m.
LEMMA SumModulo ==
    ASSUME NEW D, IsFiniteSet(D), NEW w \in [D -> Nat],
           NEW m \in Nat \ {0}, NEW h, Summing(h, D, w), NEW k, SummingModulo(k, D, w, m)
    PROVE  \A s \in SUBSET D :
             k[s] \in Nat /\ k[s] <= h[s] /\ (h[s] < m => k[s] = h[s])
<1> DEFINE T == {s \in SUBSET D :
                   k[s] \in Nat /\ k[s] <= h[s] /\ (h[s] < m => k[s] = h[s])}
<1>1. /\ h \in [SUBSET D -> Nat] /\ h[{}] = 0
      /\ \A s \in SUBSET D : \A x \in s : h[s] = h[s \ {x}] + w[x]
  <2>1. Adding(h, D, w)
    BY SumSteps
  <2> QED
    BY <2>1 DEF Adding
<1>2. {} \in T
  <2>1. k[{}] = 0
    BY DEF SummingModulo
  <2> QED
    BY <1>1, <2>1
<1>3. ASSUME NEW s \in SUBSET D, s # {}, s \ {Chosen(s)} \in T
      PROVE  s \in T
  <2> DEFINE c == Chosen(s)
             r == s \ {c}
  <2>1. c \in s /\ r \in SUBSET D /\ w[c] \in Nat
    BY <1>3, ChosenIn
  <2>2. h[s] = h[r] + w[c]
    BY <1>1, <2>1
  <2>3. k[s] = (k[r] + w[c]) % m
    BY <1>3 DEF SummingModulo
  <2>4. k[r] \in Nat /\ k[r] <= h[r] /\ (h[r] < m => k[r] = h[r]) /\ h[r] \in Nat
    BY <1>1, <1>3, <2>1
  <2> HIDE DEF c, r
  <2>5. \A a \in Nat : a % m \in Nat /\ a % m <= a /\ (a < m => a % m = a)
    OBVIOUS
  <2>6. \A a, b, d \in Nat : a <= b => /\ (a + d) % m \in Nat /\ (a + d) % m <= b + d
                                       /\ b + d < m => b < m
    <3> SUFFICES ASSUME NEW a \in Nat, NEW b \in Nat, NEW d \in Nat, a <= b
                 PROVE  /\ (a + d) % m \in Nat /\ (a + d) % m <= b + d
                        /\ b + d < m => b < m
      OBVIOUS
    <3>1. a + d \in Nat /\ a + d <= b + d /\ b + d \in Nat
      OBVIOUS
    <3>2. (a + d) % m \in Nat /\ (a + d) % m <= a + d
      BY <2>5, <3>1
    <3> QED
      BY <3>1, <3>2
  <2>7. k[s] \in Nat /\ k[s] <= h[s]
    BY <2>1, <2>2, <2>3, <2>4, <2>6
  <2>8. ASSUME h[s] < m
        PROVE  k[s] = h[s]
    <3>1. h[r] < m
      BY <2>1, <2>2, <2>4, <2>6, <2>8
    <3>2. k[s] = (h[r] + w[c]) % m /\ h[r] + w[c] \in Nat /\ h[r] + w[c] < m
      BY <2>1, <2>2, <2>3, <2>4, <2>8, <3>1
    <3> QED
      BY <2>2, <2>5, <3>2
  <2> QED
    BY <2>7, <2>8
<1> HIDE DEF T
<1>4. SUBSET D \subseteq T
  BY <1>2, <1>3, ChoiceInduction
<1> QED
  BY <1>4 DEF T

LEMMA SumModuloExists ==
    ASSUME NEW E, NEW w \in [E -> Nat], NEW D \in SUBSET E, IsFiniteSet(D),
           NEW m \in Nat \ {0}
    PROVE  \E h : SummingModulo(h, D, w, m)
<1> DEFINE g == [x \in D |-> [n \in Nat |-> (n + w[x]) % m]]
<1>1. g \in [D -> [Nat -> Nat]]
  <2>1. \A a, b \in Nat : (a + b) % m \in Nat
    OBVIOUS
  <2>2. \A x \in D : w[x] \in Nat
    OBVIOUS
  <2> QED
    BY <2>1, <2>2
<1>2. \A x \in D, n \in Nat : g[x][n] = (n + w[x]) % m
  OBVIOUS
<1> HIDE DEF g
<1>3. PICK h : Folding(h, D, g)
  BY <1>1, FoldExists
<1>4. \A s \in SUBSET D :
        h[s] = IF s = {} THEN 0 ELSE (h[s \ {Chosen(s)}] + w[Chosen(s)]) % m
  <2> SUFFICES ASSUME NEW s \in SUBSET D, s # {}
               PROVE  h[s] = (h[s \ {Chosen(s)}] + w[Chosen(s)]) % m
    BY <1>3 DEF Folding
  <2>1. Chosen(s) \in D /\ s \ {Chosen(s)} \in SUBSET D
    BY ChosenIn
  <2>2. h[s \ {Chosen(s)}] \in Nat
    BY <1>3, <2>1 DEF Folding
  <2>3. h[s] = g[Chosen(s)][h[s \ {Chosen(s)}]]
    BY <1>3 DEF Folding
  <2> QED
    BY <1>2, <2>1, <2>2, <2>3
<1>5. h = [s \in SUBSET D |-> h[s]]
  BY <1>3 DEF Folding
<1> DEFINE f(s) == IF s = {} THEN 0 ELSE (h[s \ {Chosen(s)}] + w[Chosen(s)]) % m
<1>6. h = [s \in SUBSET D |-> f(s)]
  <2> HIDE DEF f
  <2>1. \A s \in SUBSET D : h[s] = f(s)
    BY <1>4 DEF f
  <2> QED
    BY <1>5, <2>1
<1> QED
  BY <1>6, Zenon DEF SummingModulo
================================================================================
