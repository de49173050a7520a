----------------------------- MODULE DataLemmas -----------------------------
(***************************************************************************)
(* What the proofs need of finite data, of any size: sums over finite sets *)
(* and over sequences do not depend on the order of their terms, and every *)
(* finite set of numbers can be sorted.  A claim about all sizes is proved *)
(* from the least size that would refute it.                               *)
(***************************************************************************)
EXTENDS Integers, SequencesExt, FiniteSetTheorems, WellFoundedInduction, TLAPS

LEMMA LeastNumber ==
  ASSUME NEW N \in SUBSET Nat, N # {}
  PROVE  \E n \in N : \A m \in N : n <= m
<1>1. PICK n \in N : \A m \in N : <<m, n>> \notin OpToRel(<, Nat)
  BY NatLessThanWellFounded, WFMin, Zenon
<1>2. \A m \in N : ~(m < n)
  BY <1>1, Zenon DEF OpToRel
<1> QED
  BY <1>2

\* The least cardinality among some subsets of a finite set: what all smaller
\* ones satisfy is the hypothesis of an induction.
LEMMA SmallestSet ==
  ASSUME NEW S, IsFiniteSet(S), NEW F \in SUBSET SUBSET S, F # {}
  PROVE  \E s \in F : /\ IsFiniteSet(s)
                      /\ \A x \in s : s \ {x} \in SUBSET S /\ s \ {x} \notin F
<1> DEFINE N == {Cardinality(s) : s \in F}
<1>1. \A s \in SUBSET S : IsFiniteSet(s) /\ Cardinality(s) \in Nat
  BY FS_Subset, FS_CardinalityType
<1>2. N \in SUBSET Nat /\ N # {}
  BY <1>1
<1>3. PICK n \in N : \A m \in N : n <= m
  <2> HIDE DEF N
  <2> QED
    BY <1>2, LeastNumber
<1>4. PICK s \in F : Cardinality(s) = n
  BY <1>3
<1>5. ASSUME NEW x \in s, s \ {x} \in F PROVE FALSE
  <2>1. Cardinality(s \ {x}) = Cardinality(s) - 1
    BY <1>1, FS_RemoveElement
  <2>2. n <= Cardinality(s \ {x})
    BY <1>3, <1>5
  <2> QED
    BY <1>1, <1>4, <2>1, <2>2
<1> QED
  BY <1>1, <1>4, <1>5

\* The values of a function on a finite set are finitely many.
LEMMA ImageIsFinite ==
  ASSUME NEW S, IsFiniteSet(S), NEW f, DOMAIN f = S
  PROVE  IsFiniteSet({f[x] : x \in S})
<1> DEFINE T == {f[x] : x \in S}
           g == [x \in S |-> f[x]]
<1>1. g \in Surjection(S, T)
  BY DEF Surjection
<1> HIDE DEF T, g
<1>2. IsFiniteSet(T)
  BY <1>1, FS_Surjection
<1> QED
  BY <1>2 DEF T

\* A finite set of numbers has a least and a greatest element.
LEMMA Extremes ==
  ASSUME NEW S \in SUBSET Int, IsFiniteSet(S), S # {}
  PROVE  /\ Min(S) \in S /\ \A x \in S : Min(S) <= x
         /\ Max(S) \in S /\ \A x \in S : Max(S) >= x
<1> DEFINE Bounded(s) == \E a, b \in s : \A x \in s : a <= x /\ b >= x
           F == {s \in SUBSET S : s # {} /\ ~Bounded(s)}
<1>1. F = {}
  <2> SUFFICES ASSUME F # {} PROVE FALSE
    OBVIOUS
  <2>1. PICK s \in F : \A x \in s : s \ {x} \in SUBSET S /\ s \ {x} \notin F
    <3>1. F \in SUBSET SUBSET S /\ F # {}
      OBVIOUS
    <3> HIDE DEF F
    <3>2. \E s \in F : /\ IsFiniteSet(s)
                       /\ \A x \in s : s \ {x} \in SUBSET S /\ s \ {x} \notin F
      BY <3>1, SmallestSet
    <3> QED
      BY <3>2
  <2>2. PICK y \in s : y \in Int
    OBVIOUS
  <2> DEFINE rest == s \ {y}
  <2>3. CASE rest = {}
    <3>1. \A x \in s : y <= x /\ y >= x
      BY <2>2, <2>3
    <3> QED
      BY <2>2, <3>1
  <2>4. CASE rest # {}
    <3>1. PICK a \in rest, b \in rest : \A x \in rest : a <= x /\ b >= x
      BY <2>1, <2>2, <2>4
    <3>2. /\ y \in s /\ a \in s /\ b \in s /\ \A x \in s : x \in Int /\ (x = y \/ x \in rest)
      BY <2>2, <3>1
    <3> HIDE DEF F, rest
    <3>3. \E low \in s : \A x \in s : low <= x
      <4>1. CASE y <= a
        BY <2>2, <3>1, <3>2, <4>1
      <4>2. CASE a <= y
        BY <2>2, <3>1, <3>2, <4>2
      <4> QED
        BY <3>2, <4>1, <4>2
    <3>4. \E high \in s : \A x \in s : high >= x
      <4>1. CASE y >= b
        BY <2>2, <3>1, <3>2, <4>1
      <4>2. CASE b >= y
        BY <2>2, <3>1, <3>2, <4>2
      <4> QED
        BY <3>2, <4>1, <4>2
    <3>5. Bounded(s)
      BY <3>3, <3>4
    <3> QED
      BY <3>5 DEF F
  <2> QED
    BY <2>3, <2>4
<1>2. PICK a \in S, b \in S : \A x \in S : a <= x /\ b >= x
  BY <1>1
<1> QED
  BY <1>2 DEF Min, Max

-----------------------------------------------------------------------------
(* Sums.  Folds.tla sums the elements of a set in an order it chooses.       *)

Pick(s) == CHOOSE x \in s : TRUE

\* g is the recursive function that a fold of the weights w of S defines.
Unfolds(w, g, S) ==
  g = [s \in SUBSET S |-> IF s = {} THEN 0 ELSE g[s \ {Pick(s)}] + w[Pick(s)]]

Unfolding(w, S) == CHOOSE g : Unfolds(w, g, S)
SumOver(w, S) == Unfolding(w, S)[S]

LEMMA PickIsElement == \A s : s # {} => Pick(s) \in s
  BY DEF Pick

\* There is such a function: those of sets of up to n elements build on one another.
LEMMA UnfoldingExists ==
  ASSUME NEW w, NEW S, IsFiniteSet(S)
  PROVE  Unfolds(w, Unfolding(w, S), S)
<1> DEFINE D(n) == {s \in SUBSET S : Cardinality(s) <= n}
           Body(h, s) == IF s = {} THEN 0 ELSE h[s \ {Pick(s)}] + w[Pick(s)]
           Bad == {n \in Nat : ~\E g : g = [s \in D(n) |-> Body(g, s)]}
<1>1. \A s \in SUBSET S : IsFiniteSet(s) /\ Cardinality(s) \in Nat /\ Cardinality(s) <= Cardinality(S)
  BY FS_Subset, FS_CardinalityType
<1>2. Bad = {}
  <2> SUFFICES ASSUME Bad # {} PROVE FALSE
    OBVIOUS
  <2>1. PICK n \in Bad : \A m \in Bad : n <= m
    BY LeastNumber
  <2>2. n \in Nat /\ ~\E g : g = [s \in D(n) |-> Body(g, s)]
    OBVIOUS
  <2>3. CASE n = 0
    <3> DEFINE g == [s \in D(n) |-> 0]
    <3>1. \A s \in D(n) : s = {}
      BY <1>1, <2>3, FS_EmptySet
    <3>2. g = [s \in D(n) |-> Body(g, s)]
      BY <3>1
    <3> QED
      BY <2>2, <3>2
  <2>4. CASE n # 0
    <3>1. n - 1 \in Nat /\ ~(n <= n - 1)
      BY <2>2, <2>4
    <3>2. PICK h : h = [s \in D(n - 1) |-> Body(h, s)]
      BY <2>1, <3>1
    <3> DEFINE g == [s \in D(n) |-> Body(h, s)]
    <3>3. ASSUME NEW s \in D(n), s # {}
          PROVE  g[s \ {Pick(s)}] = h[s \ {Pick(s)}]
      <4>1. Pick(s) \in s
        BY <3>3, PickIsElement
      <4>2. Cardinality(s \ {Pick(s)}) = Cardinality(s) - 1
        BY <1>1, <4>1, FS_RemoveElement
      <4>3. s \ {Pick(s)} \in D(n - 1) /\ s \ {Pick(s)} \in D(n)
        BY <1>1, <2>2, <4>2
      <4>4. h[s \ {Pick(s)}] = Body(h, s \ {Pick(s)})
        BY <3>2, <4>3
      <4> QED
        BY <4>3, <4>4
    <3>4. g = [s \in D(n) |-> Body(g, s)]
      BY <3>3
    <3> QED
      BY <2>2, <3>4
  <2> QED
    BY <2>3, <2>4
<1>3. Cardinality(S) \in Nat /\ D(Cardinality(S)) = SUBSET S
  BY <1>1, FS_CardinalityType
<1>4. \A n \in Nat : \E g : g = [s \in D(n) |-> Body(g, s)]
  BY <1>2
<1> HIDE DEF D, Body
<1>5. \E g : g = [s \in SUBSET S |-> Body(g, s)]
  BY <1>3, <1>4
<1> USE DEF Body
<1> QED
  BY <1>5 DEF Unfolds, Unfolding

\* Two such functions agree where both are defined.
LEMMA UnfoldingsAgree ==
  \A w, v, g, h, S, T :
    IsFiniteSet(S) /\ T \subseteq S /\ Unfolds(w, g, S) /\ Unfolds(v, h, T)
      /\ (\A x \in T : v[x] = w[x])
    => \A s \in SUBSET T : g[s] = h[s]
<1> SUFFICES ASSUME NEW w, NEW v, NEW g, NEW h, NEW S, NEW T,
                    IsFiniteSet(S), T \subseteq S, Unfolds(w, g, S), Unfolds(v, h, T),
                    \A x \in T : v[x] = w[x]
             PROVE  \A s \in SUBSET T : g[s] = h[s]
  OBVIOUS
<1> DEFINE F == {s \in SUBSET T : g[s] # h[s]}
<1>1. F = {}
  <2> SUFFICES ASSUME F # {} PROVE FALSE
    OBVIOUS
  <2>1. PICK s \in F : \A x \in s : s \ {x} \in SUBSET T /\ s \ {x} \notin F
    <3>1. IsFiniteSet(T)
      BY FS_Subset
    <3>2. F \in SUBSET SUBSET T
      OBVIOUS
    <3>3. F # {}
      OBVIOUS
    <3> HIDE DEF F
    <3>4. \E s \in F : /\ IsFiniteSet(s)
                       /\ \A x \in s : s \ {x} \in SUBSET T /\ s \ {x} \notin F
      BY ONLY <3>1, <3>2, <3>3, SmallestSet
    <3> QED
      BY <3>4
  <2>2. /\ g[s] = IF s = {} THEN 0 ELSE g[s \ {Pick(s)}] + w[Pick(s)]
        /\ h[s] = IF s = {} THEN 0 ELSE h[s \ {Pick(s)}] + v[Pick(s)]
    BY DEF Unfolds
  <2>3. s # {}
    BY <2>2
  <2>4. Pick(s) \in s
    BY <2>3, PickIsElement
  <2>5. g[s \ {Pick(s)}] = h[s \ {Pick(s)}] /\ v[Pick(s)] = w[Pick(s)]
    BY <2>1, <2>4
  <2> QED
    BY <2>2, <2>3, <2>5
<1> QED
  BY <1>1

\* Any function that unfolds computes the sum.
LEMMA UnfoldsToSum ==
  \A w, g, S : IsFiniteSet(S) /\ Unfolds(w, g, S) => g[S] = SumOver(w, S)
<1> SUFFICES ASSUME NEW w, NEW g, NEW S, IsFiniteSet(S), Unfolds(w, g, S)
             PROVE  g[S] = SumOver(w, S)
  OBVIOUS
<1>1. Unfolds(w, Unfolding(w, S), S)
  BY UnfoldingExists
<1>2. \A s \in SUBSET S : g[s] = Unfolding(w, S)[s]
  BY <1>1, UnfoldingsAgree
<1> QED
  BY <1>2 DEF SumOver

\* Sums of the same weights are the same.
LEMMA SameWeights ==
  ASSUME NEW w, NEW v, NEW S, IsFiniteSet(S), \A x \in S : v[x] = w[x]
  PROVE  SumOver(v, S) = SumOver(w, S)
<1>1. Unfolds(w, Unfolding(w, S), S) /\ Unfolds(v, Unfolding(v, S), S)
  BY UnfoldingExists
<1>2. \A s \in SUBSET S : Unfolding(w, S)[s] = Unfolding(v, S)[s]
  BY <1>1, UnfoldingsAgree
<1> QED
  BY <1>2 DEF SumOver

LEMMA SumUnfolds ==
  ASSUME NEW w, NEW S, IsFiniteSet(S)
  PROVE  SumOver(w, S) = IF S = {} THEN 0 ELSE SumOver(w, S \ {Pick(S)}) + w[Pick(S)]
<1> DEFINE rest == S \ {Pick(S)}
<1>1. IsFiniteSet(rest) /\ rest \subseteq S
  BY FS_Subset
<1> HIDE DEF rest
<1>2. Unfolds(w, Unfolding(w, S), S) /\ Unfolds(w, Unfolding(w, rest), rest)
  BY <1>1, UnfoldingExists
<1>3. Unfolding(w, S)[S] = IF S = {} THEN 0 ELSE Unfolding(w, S)[rest] + w[Pick(S)]
  BY <1>2 DEF Unfolds, rest
<1>4. \A s \in SUBSET rest : Unfolding(w, S)[s] = Unfolding(w, rest)[s]
  BY <1>1, <1>2, UnfoldingsAgree
<1> QED
  BY <1>3, <1>4 DEF rest, SumOver

Weighs(w, S) == IsFiniteSet(S) /\ \A x \in S : w[x] \in Int

LEMMA SumOfNone == ASSUME NEW w PROVE SumOver(w, {}) = 0
  BY SumUnfolds, FS_EmptySet

LEMMA SumIsInt ==
  ASSUME NEW w, NEW S, Weighs(w, S)
  PROVE  SumOver(w, S) \in Int
<1> DEFINE F == {s \in SUBSET S : SumOver(w, s) \notin Int}
<1>1. F = {}
  <2> SUFFICES ASSUME F # {} PROVE FALSE
    OBVIOUS
  <2>1. PICK s \in F : /\ IsFiniteSet(s)
                       /\ \A x \in s : s \ {x} \in SUBSET S /\ s \ {x} \notin F
    <3>1. F \in SUBSET SUBSET S
      OBVIOUS
    <3> HIDE DEF F
    <3> QED
      BY <3>1, SmallestSet DEF Weighs
  <2>2. SumOver(w, s) = IF s = {} THEN 0 ELSE SumOver(w, s \ {Pick(s)}) + w[Pick(s)]
    BY <2>1, SumUnfolds
  <2>3. s # {}
    BY <2>2
  <2>4. Pick(s) \in s
    BY <2>3, PickIsElement
  <2>5. SumOver(w, s \ {Pick(s)}) \in Int /\ w[Pick(s)] \in Int
    BY <2>1, <2>4 DEF Weighs
  <2> QED
    BY <2>2, <2>3, <2>5
<1> QED
  BY <1>1

\* Any element of a set can be taken from its sum.
LEMMA SumOfRest ==
  ASSUME NEW w, NEW S, Weighs(w, S), NEW x \in S
  PROVE  SumOver(w, S) = SumOver(w, S \ {x}) + w[x]
<1> DEFINE Takes(s) == \A y \in s : SumOver(w, s) = SumOver(w, s \ {y}) + w[y]
           F == {s \in SUBSET S : ~Takes(s)}
<1>1. F = {}
  <2> SUFFICES ASSUME F # {} PROVE FALSE
    OBVIOUS
  <2>1. PICK s \in F : /\ IsFiniteSet(s)
                       /\ \A z \in s : s \ {z} \in SUBSET S /\ s \ {z} \notin F
    <3>1. F \in SUBSET SUBSET S
      OBVIOUS
    <3> HIDE DEF F
    <3> QED
      BY <3>1, SmallestSet DEF Weighs
  <2>2. PICK y \in s : SumOver(w, s) # SumOver(w, s \ {y}) + w[y]
    OBVIOUS
  <2>3. \A z \in s : Takes(s \ {z})
    BY <2>1
  <2> DEFINE p == Pick(s)
             rest == (s \ {y}) \ {p}
  <2>4. p \in s /\ SumOver(w, s) = SumOver(w, s \ {p}) + w[p]
    BY <2>1, SumUnfolds, PickIsElement
  <2>5. p # y
    BY <2>2, <2>4
  <2>6. (s \ {p}) \ {y} = rest
    OBVIOUS
  <2>7. Weighs(w, rest)
    BY FS_Subset DEF Weighs
  <2>8. SumOver(w, rest) \in Int /\ w[p] \in Int /\ w[y] \in Int
    BY <2>4, <2>7, SumIsInt DEF Weighs
  <2> HIDE DEF p, F
  <2>9. SumOver(w, s \ {p}) = SumOver(w, rest) + w[y]
    BY <2>3, <2>4, <2>5, <2>6
  <2>10. SumOver(w, s \ {y}) = SumOver(w, rest) + w[p]
    BY <2>3, <2>4, <2>5
  <2> HIDE DEF rest
  <2> QED
    BY <2>2, <2>4, <2>8, <2>9, <2>10
<1> QED
  BY <1>1

\* The sum of a set is that of a part of it and that of the rest.
LEMMA SumOfParts ==
  ASSUME NEW w, NEW S, Weighs(w, S), NEW A \in SUBSET S
  PROVE  SumOver(w, S) = SumOver(w, A) + SumOver(w, S \ A)
<1> DEFINE Parts(s) == SumOver(w, s \cup (S \ A)) = SumOver(w, s) + SumOver(w, S \ A)
           F == {s \in SUBSET A : ~Parts(s)}
<1>1. \A s \in SUBSET S : Weighs(w, s) /\ IsFiniteSet(s) /\ SumOver(w, s) \in Int
  BY FS_Subset, SumIsInt DEF Weighs
<1>2. F = {}
  <2> SUFFICES ASSUME F # {} PROVE FALSE
    OBVIOUS
  <2>1. PICK s \in F : /\ IsFiniteSet(s)
                       /\ \A x \in s : s \ {x} \in SUBSET A /\ s \ {x} \notin F
    <3>1. F \in SUBSET SUBSET A /\ IsFiniteSet(A)
      BY <1>1
    <3> HIDE DEF F
    <3> QED
      BY <3>1, SmallestSet
  <2>2. s \in SUBSET A /\ ~Parts(s)
    OBVIOUS
  <2> HIDE DEF F
  <2>3. CASE s = {}
    <3>1. SumOver(w, s) = 0
      BY <2>3, SumOfNone
    <3>2. SumOver(w, S \ A) \in Int
      BY <1>1
    <3>3. s \cup (S \ A) = S \ A
      BY <2>3
    <3>4. SumOver(w, s \cup (S \ A)) = SumOver(w, S \ A)
      BY <3>3
    <3> QED
      BY <2>2, <3>1, <3>2, <3>4
  <2>4. ASSUME NEW x \in s PROVE FALSE
    <3>1. Parts(s \ {x})
      BY <2>1 DEF F
    <3>2. SumOver(w, s) = SumOver(w, s \ {x}) + w[x]
      BY <1>1, <2>2, SumOfRest
    <3>3. (s \cup (S \ A)) \ {x} = (s \ {x}) \cup (S \ A) /\ s \cup (S \ A) \in SUBSET S
      BY <2>2
    <3>4. SumOver(w, s \cup (S \ A)) = SumOver(w, (s \ {x}) \cup (S \ A)) + w[x]
      BY <1>1, <3>3, SumOfRest
    <3>5. w[x] \in Int /\ SumOver(w, s \ {x}) \in Int /\ SumOver(w, S \ A) \in Int
      BY <1>1, <2>2 DEF Weighs
    <3> QED
      BY <2>2, <3>1, <3>2, <3>4, <3>5
  <2> QED
    BY <2>3, <2>4
<1>3. A \cup (S \ A) = S /\ A \notin F
  BY <1>2
<1> QED
  BY <1>3

\* A sequence that is longer by one element has its weight in addition.
LEMMA SumOfLonger ==
  ASSUME NEW n \in Nat, NEW w, NEW v, Weighs(w, 1 .. n + 1), \A i \in 1 .. n : v[i] = w[i]
  PROVE  SumOver(w, 1 .. n + 1) = SumOver(v, 1 .. n) + w[n + 1]
<1>1. (1 .. n + 1) \ {n + 1} = 1 .. n /\ n + 1 \in 1 .. n + 1
  OBVIOUS
<1>2. IsFiniteSet(1 .. n)
  BY FS_Interval
<1> QED
  BY <1>1, <1>2, SumOfRest, SameWeights

LEMMA SumIsNat ==
  ASSUME NEW w, NEW S, IsFiniteSet(S), \A x \in S : w[x] \in Nat
  PROVE  SumOver(w, S) \in Nat
<1> DEFINE F == {s \in SUBSET S : SumOver(w, s) \notin Nat}
<1>1. F = {}
  <2> SUFFICES ASSUME F # {} PROVE FALSE
    OBVIOUS
  <2>1. PICK s \in F : /\ IsFiniteSet(s)
                       /\ \A x \in s : s \ {x} \in SUBSET S /\ s \ {x} \notin F
    <3>1. F \in SUBSET SUBSET S
      OBVIOUS
    <3> HIDE DEF F
    <3> QED
      BY <3>1, SmallestSet
  <2>2. SumOver(w, s) = IF s = {} THEN 0 ELSE SumOver(w, s \ {Pick(s)}) + w[Pick(s)]
    BY <2>1, SumUnfolds
  <2>3. s # {}
    BY <2>2
  <2>4. Pick(s) \in s
    BY <2>3, PickIsElement
  <2>5. SumOver(w, s \ {Pick(s)}) \in Nat /\ w[Pick(s)] \in Nat
    BY <2>1, <2>4
  <2> QED
    BY <2>2, <2>3, <2>5
<1> QED
  BY <1>1

\* n disjoint groups that S consists of.
Splits(P, n, S) ==
  /\ P \in [1 .. n -> SUBSET S]
  /\ \A x \in S : \E k \in 1 .. n : x \in P[k]
  /\ \A k, j \in 1 .. n : k # j => P[k] \cap P[j] = {}

\* The sum over disjoint groups is the sum of the sums of the groups.
LEMMA SumOfGroups ==
  ASSUME NEW w, NEW S, Weighs(w, S), NEW n \in Nat, NEW P, Splits(P, n, S),
         NEW v, \A k \in 1 .. n : v[k] = SumOver(w, P[k])
  PROVE  SumOver(w, S) = SumOver(v, 1 .. n)
<1> USE DEF Splits
<1> DEFINE U(j) == {x \in S : \E k \in 1 .. j : x \in P[k]}
           Bad == {j \in 0 .. n : SumOver(w, U(j)) # SumOver(v, 1 .. j)}
<1>1. \A s \in SUBSET S : Weighs(w, s) /\ IsFiniteSet(s) /\ SumOver(w, s) \in Int
  BY FS_Subset, SumIsInt DEF Weighs
<1>2. \A j \in 0 .. n : Weighs(v, 1 .. j)
  BY <1>1, FS_Interval DEF Weighs
<1>3. Bad = {}
  <2> SUFFICES ASSUME Bad # {} PROVE FALSE
    OBVIOUS
  <2>1. PICK j \in Bad : \A m \in Bad : j <= m
    <3>1. Bad \in SUBSET Nat
      OBVIOUS
    <3> HIDE DEF Bad
    <3> QED
      BY <3>1, LeastNumber
  <2>2. j \in 0 .. n /\ SumOver(w, U(j)) # SumOver(v, 1 .. j)
    OBVIOUS
  <2>3. CASE j = 0
    <3>1. U(j) = {} /\ 1 .. j = {}
      BY <2>3
    <3> HIDE DEF U
    <3> QED
      BY <2>2, <3>1, SumOfNone
  <2>4. CASE j # 0
    <3>1. j \in 1 .. n /\ j - 1 \in 0 .. n /\ ~(j <= j - 1) /\ (j - 1) + 1 = j /\ j - 1 \in Nat
      BY <2>2, <2>4
    <3>2. SumOver(w, U(j - 1)) = SumOver(v, 1 .. j - 1)
      BY <2>1, <3>1
    <3>3. U(j) \ P[j] = U(j - 1) /\ P[j] \in SUBSET U(j) /\ U(j) \in SUBSET S
      <4>1. \A k \in 1 .. j : k = j \/ k \in 1 .. j - 1
        BY <3>1
      <4>2. \A k \in 1 .. j - 1 : k \in 1 .. j /\ k # j /\ k \in 1 .. n
        BY <3>1
      <4>3. P[j] \in SUBSET S /\ j \in 1 .. j
        BY <3>1
      <4>4. \A k \in 1 .. j - 1 : P[k] \cap P[j] = {}
        BY <3>1, <4>2
      <4> QED
        BY <4>1, <4>2, <4>3, <4>4
    <3>4. v[j] = SumOver(w, P[j])
      BY <3>1
    <3>5. SumOver(v, 1 .. j) = SumOver(v, 1 .. j - 1) + v[j]
      <4>1. Weighs(v, 1 .. (j - 1) + 1)
        BY <1>2, <3>1
        <4> QED
        BY <3>1, <4>1, SumOfLonger
    <3>6. SumOver(w, U(j)) = SumOver(w, P[j]) + SumOver(w, U(j - 1))
      <4>1. Weighs(w, U(j)) /\ P[j] \in SUBSET U(j)
        BY <1>1, <3>3
      <4> HIDE DEF U
      <4>2. SumOver(w, U(j)) = SumOver(w, P[j]) + SumOver(w, U(j) \ P[j])
        BY <4>1, SumOfParts
      <4> QED
        BY <3>3, <4>2
    <3>7. SumOver(w, P[j]) \in Int /\ SumOver(w, U(j - 1)) \in Int
      <4>1. P[j] \in SUBSET S /\ U(j - 1) \in SUBSET S
        BY <3>1
      <4> HIDE DEF U
      <4> QED
        BY <1>1, <4>1
    <3> HIDE DEF U, Bad
    <3> QED
      BY <2>2, <3>2, <3>4, <3>5, <3>6, <3>7
  <2> QED
    BY <2>3, <2>4
<1>4. U(n) = S /\ n \in 0 .. n
  OBVIOUS
<1>5. SumOver(w, U(n)) = SumOver(v, 1 .. n)
  BY <1>3, <1>4
<1> HIDE DEF U
<1> QED
  BY <1>4, <1>5

-----------------------------------------------------------------------------
(* Sorting.                                                                  *)

Increasing(q) == \A i, j \in DOMAIN q : i < j => q[i] < q[j]

\* A finite set of numbers can be sorted: its least element, then the others.
LEMMA SortExists ==
  ASSUME NEW S \in SUBSET Nat, IsFiniteSet(S)
  PROVE  \E q \in SetToSeqs(S) : Increasing(q)
<1> DEFINE F == {s \in SUBSET S : ~\E q \in SetToSeqs(s) : Increasing(q)}
<1>1. F = {}
  <2> SUFFICES ASSUME F # {} PROVE FALSE
    OBVIOUS
  <2>1. PICK s \in F : /\ IsFiniteSet(s)
                       /\ \A x \in s : s \ {x} \in SUBSET S /\ s \ {x} \notin F
    <3>1. F \in SUBSET SUBSET S
      OBVIOUS
    <3> HIDE DEF F
    <3> QED
      BY <3>1, SmallestSet
  <2>2. CASE s = {}
    <3> DEFINE q == [i \in 1 .. 0 |-> 0]
    <3>1. Cardinality(s) = 0
      BY <2>2, FS_EmptySet
    <3>2. q \in SetToSeqs(s) /\ Increasing(q)
      BY <2>2, <3>1 DEF SetToSeqs, Increasing
    <3> QED
      BY <3>2
  <2>3. CASE s # {}
    <3>1. PICK least \in s : \A x \in s : least <= x
      <4>1. s \in SUBSET Nat
        OBVIOUS
      <4> QED
        BY <2>3, <4>1, LeastNumber
    <3> DEFINE rest == s \ {least}
               n == Cardinality(rest)
    <3>2. PICK r \in SetToSeqs(rest) : Increasing(r)
      BY <2>1
    <3>3. n \in Nat /\ Cardinality(s) = n + 1
      <4>1. IsFiniteSet(rest) /\ Cardinality(rest) = Cardinality(s) - 1
        BY <2>1, FS_RemoveElement
      <4>2. Cardinality(rest) \in Nat /\ Cardinality(s) \in Nat
        BY <2>1, <4>1, FS_CardinalityType
      <4> QED
        BY <4>1, <4>2
    <3>4. /\ r \in [1 .. n -> rest]
          /\ \A i, j \in 1 .. n : i # j => r[i] # r[j]
          /\ \A i, j \in 1 .. n : i < j => r[i] < r[j]
      BY <3>2 DEF SetToSeqs, Increasing
    <3>5. ASSUME NEW i \in 1 .. n
          PROVE  r[i] \in s /\ r[i] \in Nat /\ least < r[i] /\ least \in Nat
      <4>1. r[i] \in rest
        BY <3>4
      <4>2. r[i] \in s /\ r[i] # least /\ least \in s /\ s \in SUBSET Nat
        BY <4>1
      <4>3. least <= r[i]
        BY <3>1, <4>2
      <4>4. r[i] \in Nat /\ least \in Nat
        BY <4>2
      <4> HIDE DEF F
      <4> QED
        BY <4>2, <4>3, <4>4
    <3> HIDE DEF n, rest
    <3> DEFINE q == [i \in 1 .. n + 1 |-> IF i = 1 THEN least ELSE r[i - 1]]
    <3>6. q \in [1 .. n + 1 -> s]
      BY <3>3, <3>5
    <3>7. \A i, j \in 1 .. n + 1 : i < j => q[i] < q[j]
      BY <3>3, <3>4, <3>5
    <3>8. \A i, j \in 1 .. n + 1 : i # j => q[i] # q[j]
      BY <3>3, <3>4, <3>5
    <3>9. q \in SetToSeqs(s) /\ Increasing(q)
      <4> HIDE DEF q
      <4> QED
        BY <3>3, <3>6, <3>7, <3>8 DEF SetToSeqs, Increasing
    <3> QED
      BY <3>9
  <2> QED
    BY <2>2, <2>3
<1> QED
  BY <1>1

\* A sorted set has all its elements.
LEMMA SortedIsOnto ==
  ASSUME NEW S, IsFiniteSet(S), NEW q \in SetToSeqs(S)
  PROVE  /\ Cardinality(S) \in Nat /\ q \in [1 .. Cardinality(S) -> S]
         /\ \A x \in S : \E i \in 1 .. Cardinality(S) : q[i] = x
<1> DEFINE n == Cardinality(S)
<1>1. n \in Nat
  BY FS_CardinalityType
<1>2. q \in [1 .. n -> S] /\ \A i, j \in 1 .. n : i # j => q[i] # q[j]
  BY DEF SetToSeqs
<1>3. IsFiniteSet(1 .. n) /\ Cardinality(1 .. n) = n
  BY <1>1, FS_Interval
<1>4. q \in Injection(1 .. n, S)
  BY <1>2 DEF Injection, IsInjective
<1>5. q \in Surjection(1 .. n, S)
  <2> HIDE DEF n
  <2> QED
    BY <1>3, <1>4, FS_Injection DEF n
<1> QED
  BY <1>1, <1>2, <1>5 DEF Surjection

\* Two increasing sequences of the same numbers are the same.
LEMMA OneOrder ==
  ASSUME NEW S \in SUBSET Nat, NEW n \in Nat, NEW p \in [1 .. n -> S], NEW q \in [1 .. n -> S],
         Increasing(p), Increasing(q),
         \A x \in S : \E i \in 1 .. n : p[i] = x, \A x \in S : \E i \in 1 .. n : q[i] = x
  PROVE  \A i \in 1 .. n : p[i] = q[i]
<1> DEFINE Bad == {i \in 1 .. n : p[i] # q[i]}
<1>1. Bad = {}
  <2> SUFFICES ASSUME Bad # {} PROVE FALSE
    OBVIOUS
  <2>1. PICK i \in Bad : \A j \in Bad : i <= j
    <3>1. Bad \in SUBSET Nat
      OBVIOUS
    <3> HIDE DEF Bad
    <3> QED
      BY <3>1, LeastNumber
  <2>2. i \in 1 .. n /\ p[i] # q[i] /\ p[i] \in S /\ q[i] \in S /\ p[i] \in Nat /\ q[i] \in Nat
    OBVIOUS
  <2>3. \A j \in 1 .. n : j < i => p[j] = q[j]
    BY <2>1, <2>2
  <2>4. PICK j \in 1 .. n : q[j] = p[i]
    BY <2>2
  <2>5. PICK k \in 1 .. n : p[k] = q[i]
    BY <2>2
  <2>6. /\ \A a, b \in 1 .. n : a < b => p[a] < p[b]
        /\ \A a, b \in 1 .. n : a < b => q[a] < q[b]
    BY DEF Increasing
  <2>7. \A a \in 1 .. n : p[a] \in Nat /\ q[a] \in Nat
    OBVIOUS
  <2> HIDE DEF Bad
  <2>8. j > i
    <3>1. CASE j = i
      BY <2>2, <2>4, <3>1
    <3>2. CASE j < i
      BY <2>2, <2>3, <2>4, <2>6, <2>7, <3>2
    <3> QED
      BY <2>2, <3>1, <3>2
  <2>9. k > i
    <3>1. CASE k = i
      BY <2>2, <2>5, <3>1
    <3>2. CASE k < i
      BY <2>2, <2>3, <2>5, <2>6, <2>7, <3>2
    <3> QED
      BY <2>2, <3>1, <3>2
  <2>10. q[i] < q[j] /\ p[i] < p[k]
    BY <2>2, <2>6, <2>8, <2>9
  <2> QED
    BY <2>2, <2>4, <2>5, <2>10
<1> QED
  BY <1>1

\* A sequence that increases at each step increases.
LEMMA StepwiseIncreasing ==
  ASSUME NEW n \in Nat, NEW q \in [1 .. n -> Int], \A i \in 1 .. n : i > 1 => q[i - 1] < q[i]
  PROVE  Increasing(q)
<1> DEFINE Bad == {j \in 1 .. n : \E i \in 1 .. n : i < j /\ ~(q[i] < q[j])}
<1>1. Bad = {}
  <2> SUFFICES ASSUME Bad # {} PROVE FALSE
    OBVIOUS
  <2>1. PICK j \in Bad : \A k \in Bad : j <= k
    <3>1. Bad \in SUBSET Nat
      OBVIOUS
    <3> HIDE DEF Bad
    <3> QED
      BY <3>1, LeastNumber
  <2>2. PICK i \in 1 .. n : i < j /\ ~(q[i] < q[j])
    BY <2>1
  <2>3. j \in 1 .. n /\ j > 1 /\ j - 1 \in 1 .. n /\ ~(j <= j - 1) /\ q[j - 1] < q[j]
    BY <2>2
  <2>4. i # j - 1
    BY <2>2, <2>3
  <2>5. i < j - 1
    BY <2>2, <2>3, <2>4
  <2>6. q[i] < q[j - 1]
    BY <2>1, <2>3, <2>5
  <2>7. q[i] \in Int /\ q[j] \in Int /\ q[j - 1] \in Int
    BY <2>3
  <2> HIDE DEF Bad
  <2> QED
    BY <2>2, <2>3, <2>6, <2>7
<1> QED
  BY <1>1 DEF Increasing
=============================================================================
