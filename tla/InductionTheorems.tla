--------------------------- MODULE InductionTheorems ---------------------------
(***************************************************************************)
(* What the proofs about numbers, lists and sums keep needing.  Induction is *)
(* stated as the existence of a least counterexample, over the natural      *)
(* numbers and over the finite sets; on it rest the laws of the sums that    *)
(* the models take with SumFunction and SumFunctionOnSet (Functions).       *)
(***************************************************************************)
EXTENDS Integers, FiniteSets, Functions, FiniteSetTheorems, WellFoundedInduction, TLAPS

\* Induction over the natural numbers.
LEMMA LeastNumber ==
  ASSUME NEW T \in SUBSET Nat, T /= {}
  PROVE  \E n \in T : \A m \in T : n <= m
<1>. DEFINE R == {p \in Nat \X Nat : p[1] < p[2]}
<1>1. IsWellFoundedOn(R, Nat)
  BY NatLessThanWellFounded DEF OpToRel
<1>2. PICK n \in T : \A m \in T : ~(<<m, n>> \in R)
  <2>. HIDE DEF R
  <2>. QED  BY <1>1, WFMin
<1>3. ASSUME NEW m \in T PROVE n <= m
  <2>1. m \in Nat /\ n \in Nat
    OBVIOUS
  <2>2. m < n => <<m, n>> \in R
    BY <2>1
  <2>. QED  BY <1>2, <2>1, <2>2
<1>. QED  BY <1>3

\* Induction over the finite sets.
LEMMA MinimalSet ==
  ASSUME NEW S, IsFiniteSet(S), NEW F \in SUBSET SUBSET S, F /= {}
  PROVE  \E t \in F : \A u \in F : u \subseteq t => u = t
<1>. DEFINE N == {Cardinality(t) : t \in F}
<1>1. \A t \in F : IsFiniteSet(t) /\ Cardinality(t) \in Nat
  BY FS_Subset, FS_CardinalityType
<1>2. PICK n \in N : \A m \in N : n <= m
  <2>1. N \in SUBSET Nat /\ N /= {}
    BY <1>1
  <2>. HIDE DEF N
  <2>. QED  BY <2>1, LeastNumber
<1>3. PICK t \in F : Cardinality(t) = n
  BY <1>2
<1>4. ASSUME NEW u \in F, u \subseteq t PROVE u = t
  <2>1. Cardinality(t) <= Cardinality(u)
    BY <1>2, <1>3
  <2>2. Cardinality(u) <= Cardinality(t) /\ (Cardinality(t) = Cardinality(u) => t = u)
    BY <1>1, <1>4, FS_Subset
  <2>3. Cardinality(u) \in Nat /\ Cardinality(t) \in Nat
    BY <1>1
  <2>. QED  BY <2>1, <2>2, <2>3
<1>. QED  BY <1>4

-----------------------------------------------------------------------------

\* The element that the sum over s begins with.
Some(s) == CHOOSE x \in s : TRUE

\* The sums over all the subsets of S, as SumFunctionOnSet computes them.
Solves(g, f, S) ==
  g = [s \in SUBSET S |-> IF s = {} THEN 0 ELSE f[Some(s)] + g[s \ {Some(s)}]]

Solution(f, S) == CHOOSE g : Solves(g, f, S)

LEMMA SumIsSolution ==
  ASSUME NEW f, NEW S
  PROVE  SumFunctionOnSet(f, S) = Solution(f, S)[S]
BY DEF SumFunctionOnSet, FoldFunctionOnSet, MapThenFoldSet, Solution, Solves, Some

LEMMA SomeIsIn == ASSUME NEW s, s /= {} PROVE Some(s) \in s
BY DEF Some

LEMMA SolvesAt ==
  ASSUME NEW f, NEW S, NEW g, Solves(g, f, S), NEW s \in SUBSET S
  PROVE  g[s] = IF s = {} THEN 0 ELSE f[Some(s)] + g[s \ {Some(s)}]
BY DEF Solves

LEMMA SolutionsAgree ==
  ASSUME NEW f, NEW S, IsFiniteSet(S), NEW U \in SUBSET S, NEW g, NEW h, Solves(g, f, S), Solves(h, f, U)
  PROVE  \A s \in SUBSET U : g[s] = h[s]
<1>. DEFINE F == {s \in SUBSET U : g[s] /= h[s]}
<1>. SUFFICES ASSUME F /= {} PROVE FALSE
  OBVIOUS
<1>0. IsFiniteSet(U)
  BY FS_Subset
<1>1. PICK t \in F : \A u \in F : u \subseteq t => u = t
  <2>1. F \in SUBSET SUBSET U
    OBVIOUS
  <2>. HIDE DEF F
  <2>. QED  BY <1>0, <2>1, MinimalSet
<1>7. t \in SUBSET S /\ t \in SUBSET U
  OBVIOUS
<1>2. g[t] = IF t = {} THEN 0 ELSE f[Some(t)] + g[t \ {Some(t)}]
  BY <1>7, SolvesAt
<1>3. h[t] = IF t = {} THEN 0 ELSE f[Some(t)] + h[t \ {Some(t)}]
  BY <1>7, SolvesAt
<1>4. t /= {}
  BY <1>2, <1>3
<1>5. t \ {Some(t)} \notin F
  BY <1>1, <1>4, SomeIsIn
<1>6. g[t \ {Some(t)}] = h[t \ {Some(t)}]
  BY <1>5
<1>. QED  BY <1>2, <1>3, <1>6

LEMMA SolutionExists ==
  ASSUME NEW f, NEW S, IsFiniteSet(S)
  PROVE  Solves(Solution(f, S), f, S)
<1>. DEFINE F == {s \in SUBSET S : ~\E g : Solves(g, f, s)}
<1>. SUFFICES F = {}
  BY DEF Solution
<1>. SUFFICES ASSUME F /= {} PROVE FALSE
  OBVIOUS
<1>1. PICK t \in F : \A u \in F : u \subseteq t => u = t
  <2>1. F \in SUBSET SUBSET S
    OBVIOUS
  <2>. HIDE DEF F
  <2>. QED  BY <2>1, MinimalSet
<1>0. IsFiniteSet(t)
  BY FS_Subset
<1>2. ASSUME NEW u \in SUBSET t, u /= t PROVE Solves(Solution(f, u), f, u)
  BY <1>1, <1>2 DEF Solution
<1>. DEFINE value(u) == Solution(f, u)[u]
            g == [u \in SUBSET t |-> IF u = {} THEN 0 ELSE f[Some(u)] + value(u \ {Some(u)})]
<1>3. ASSUME NEW u \in SUBSET t, u /= {} PROVE g[u \ {Some(u)}] = value(u \ {Some(u)})
  <2>. DEFINE v == u \ {Some(u)}
  <2>1. v \in SUBSET t /\ v /= t
    BY <1>3, SomeIsIn
  <2>2. Solves(Solution(f, v), f, v)
    BY <2>1, <1>2
  <2>3. value(v) = IF v = {} THEN 0 ELSE f[Some(v)] + Solution(f, v)[v \ {Some(v)}]
    <3>1. v \in SUBSET v
      OBVIOUS
    <3>. HIDE DEF v
    <3>. QED  BY <2>2, <3>1, SolvesAt
  <2>4. CASE v = {}
    BY <2>3, <2>4
  <2>5. CASE v /= {}
    <3>. DEFINE w == v \ {Some(v)}
    <3>1. w \in SUBSET v /\ w \in SUBSET t /\ w /= t
      BY <2>1, <2>5, SomeIsIn
    <3>2. Solves(Solution(f, w), f, w)
      BY <3>1, <1>2
    <3>3. IsFiniteSet(v)
      BY <2>1, <1>0, FS_Subset
    <3>4. Solution(f, v)[w] = Solution(f, w)[w]
      <4>. HIDE DEF v, w
      <4>. QED BY <3>1, <3>2, <3>3, <2>2, SolutionsAgree
    <3>. QED  BY <2>1, <2>3, <2>5, <3>4
  <2>. QED  BY <2>4, <2>5
<1>4. g = [u \in SUBSET t |-> IF u = {} THEN 0 ELSE f[Some(u)] + g[u \ {Some(u)}]]
  <2>. DEFINE h == [u \in SUBSET t |-> IF u = {} THEN 0 ELSE f[Some(u)] + g[u \ {Some(u)}]]
  <2>1. \A u \in SUBSET t : g[u] = h[u]
    BY <1>3
  <2>. QED  BY <2>1
<1>5. Solves(g, f, t)
  BY <1>4 DEF Solves
<1>. QED  BY <1>5

LEMMA SumRecursion ==
  ASSUME NEW f, NEW S, IsFiniteSet(S)
  PROVE  SumFunctionOnSet(f, S) =
           IF S = {} THEN 0 ELSE f[Some(S)] + SumFunctionOnSet(f, S \ {Some(S)})
<1>1. Solves(Solution(f, S), f, S)
  BY SolutionExists
<1>2. S \in SUBSET S
  OBVIOUS
<1>3. SumFunctionOnSet(f, S) =
        IF S = {} THEN 0 ELSE f[Some(S)] + Solution(f, S)[S \ {Some(S)}]
  BY <1>1, <1>2, SolvesAt, SumIsSolution
<1>4. CASE S /= {}
  <2>. DEFINE U == S \ {Some(S)}
  <2>1. IsFiniteSet(U) /\ U \in SUBSET S /\ U \in SUBSET U
    BY FS_Subset
  <2>. HIDE DEF U
  <2>2. Solves(Solution(f, U), f, U)
    BY <2>1, SolutionExists
  <2>3. Solution(f, S)[U] = Solution(f, U)[U]
    BY <1>1, <2>1, <2>2, SolutionsAgree
  <2>4. Solution(f, U)[U] = SumFunctionOnSet(f, U)
    BY SumIsSolution
  <2>. QED  BY <1>3, <1>4, <2>3, <2>4 DEF U
<1>. QED  BY <1>3, <1>4

-----------------------------------------------------------------------------
(* What the models' sums are proved with. *)

LEMMA SumEmpty == ASSUME NEW f PROVE SumFunctionOnSet(f, {}) = 0
BY SumRecursion, FS_EmptySet

LEMMA SumNat ==
  ASSUME NEW f, NEW S, IsFiniteSet(S), \A x \in S : f[x] \in Nat
  PROVE  SumFunctionOnSet(f, S) \in Nat
<1>. DEFINE F == {s \in SUBSET S : SumFunctionOnSet(f, s) \notin Nat}
<1>. SUFFICES ASSUME F /= {} PROVE FALSE
  OBVIOUS
<1>1. PICK t \in F : \A u \in F : u \subseteq t => u = t
  <2>1. F \in SUBSET SUBSET S
    OBVIOUS
  <2>. HIDE DEF F
  <2>. QED  BY <2>1, MinimalSet
<1>2. IsFiniteSet(t)
  BY FS_Subset
<1>3. SumFunctionOnSet(f, t) =
        IF t = {} THEN 0 ELSE f[Some(t)] + SumFunctionOnSet(f, t \ {Some(t)})
  BY <1>2, SumRecursion
<1>4. t /= {}
  BY <1>3
<1>5. f[Some(t)] \in Nat /\ SumFunctionOnSet(f, t \ {Some(t)}) \in Nat
  BY <1>1, <1>4, SomeIsIn
<1>. QED  BY <1>3, <1>4, <1>5

LEMMA SumZero ==
  ASSUME NEW f, NEW S, IsFiniteSet(S), \A x \in S : f[x] = 0
  PROVE  SumFunctionOnSet(f, S) = 0
<1>. DEFINE F == {s \in SUBSET S : SumFunctionOnSet(f, s) /= 0}
<1>. SUFFICES ASSUME F /= {} PROVE FALSE
  OBVIOUS
<1>1. PICK t \in F : \A u \in F : u \subseteq t => u = t
  <2>1. F \in SUBSET SUBSET S
    OBVIOUS
  <2>. HIDE DEF F
  <2>. QED  BY <2>1, MinimalSet
<1>2. IsFiniteSet(t)
  BY FS_Subset
<1>3. SumFunctionOnSet(f, t) =
        IF t = {} THEN 0 ELSE f[Some(t)] + SumFunctionOnSet(f, t \ {Some(t)})
  BY <1>2, SumRecursion
<1>4. t /= {}
  BY <1>3
<1>5. f[Some(t)] = 0 /\ SumFunctionOnSet(f, t \ {Some(t)}) = 0
  BY <1>1, <1>4, SomeIsIn
<1>. QED  BY <1>3, <1>4, <1>5

LEMMA SumInt ==
  ASSUME NEW f, NEW S, IsFiniteSet(S), \A x \in S : f[x] \in Int
  PROVE  SumFunctionOnSet(f, S) \in Int
<1>. DEFINE F == {s \in SUBSET S : SumFunctionOnSet(f, s) \notin Int}
<1>. SUFFICES ASSUME F /= {} PROVE FALSE
  OBVIOUS
<1>1. PICK t \in F : \A u \in F : u \subseteq t => u = t
  <2>1. F \in SUBSET SUBSET S
    OBVIOUS
  <2>. HIDE DEF F
  <2>. QED  BY <2>1, MinimalSet
<1>2. IsFiniteSet(t)
  BY FS_Subset
<1>3. SumFunctionOnSet(f, t) =
        IF t = {} THEN 0 ELSE f[Some(t)] + SumFunctionOnSet(f, t \ {Some(t)})
  BY <1>2, SumRecursion
<1>4. t /= {}
  BY <1>3
<1>5. f[Some(t)] \in Int /\ SumFunctionOnSet(f, t \ {Some(t)}) \in Int
  BY <1>1, <1>4, SomeIsIn
<1>. QED  BY <1>3, <1>4, <1>5

\* Functions that agree on a set have the same sum over it.
LEMMA SumSame ==
  ASSUME NEW f, NEW g, NEW S, IsFiniteSet(S), \A x \in S : f[x] = g[x]
  PROVE  SumFunctionOnSet(f, S) = SumFunctionOnSet(g, S)
<1>. DEFINE F == {s \in SUBSET S : SumFunctionOnSet(f, s) /= SumFunctionOnSet(g, s)}
<1>. SUFFICES ASSUME F /= {} PROVE FALSE
  OBVIOUS
<1>1. PICK t \in F : \A u \in F : u \subseteq t => u = t
  <2>1. F \in SUBSET SUBSET S
    OBVIOUS
  <2>. HIDE DEF F
  <2>. QED  BY <2>1, MinimalSet
<1>2. IsFiniteSet(t)
  BY FS_Subset
<1>3. /\ SumFunctionOnSet(f, t) =
           IF t = {} THEN 0 ELSE f[Some(t)] + SumFunctionOnSet(f, t \ {Some(t)})
      /\ SumFunctionOnSet(g, t) =
           IF t = {} THEN 0 ELSE g[Some(t)] + SumFunctionOnSet(g, t \ {Some(t)})
  BY <1>2, SumRecursion
<1>4. t /= {}
  BY <1>3
<1>5. /\ f[Some(t)] = g[Some(t)]
      /\ SumFunctionOnSet(f, t \ {Some(t)}) = SumFunctionOnSet(g, t \ {Some(t)})
  BY <1>1, <1>4, SomeIsIn
<1>. QED  BY <1>3, <1>4, <1>5

\* Any element may be the one that is added last.
LEMMA SumRemove ==
  ASSUME NEW f, NEW S, IsFiniteSet(S), \A x \in S : f[x] \in Int, NEW x \in S
  PROVE  SumFunctionOnSet(f, S) = f[x] + SumFunctionOnSet(f, S \ {x})
<1>. DEFINE Sum(s) == SumFunctionOnSet(f, s)
            F == {s \in SUBSET S : \E y \in s : Sum(s) /= f[y] + Sum(s \ {y})}
<1>. SUFFICES ASSUME F /= {} PROVE FALSE
  OBVIOUS
<1>1. PICK t \in F : \A u \in F : u \subseteq t => u = t
  <2>1. F \in SUBSET SUBSET S
    OBVIOUS
  <2>. HIDE DEF F
  <2>. QED  BY <2>1, MinimalSet
<1>2. PICK y \in t : Sum(t) /= f[y] + Sum(t \ {y})
  OBVIOUS
<1>. DEFINE z == Some(t)
<1>3. z \in t
  BY SomeIsIn
<1>4. Sum(t) = f[z] + Sum(t \ {z})
  <2>1. IsFiniteSet(t)
    BY FS_Subset
  <2>. QED  BY <2>1, SumRecursion
<1>. HIDE DEF z
<1>5. y /= z
  BY <1>2, <1>4
<1>. DEFINE u == t \ {y, z}
<1>6. Sum(t \ {z}) = f[y] + Sum(u)
  <2>1. t \ {z} \notin F
    BY <1>1, <1>3
  <2>2. y \in t \ {z} /\ (t \ {z}) \ {y} = u
    BY <1>5
  <2>. QED  BY <2>1, <2>2
<1>7. Sum(t \ {y}) = f[z] + Sum(u)
  <2>1. t \ {y} \notin F
    BY <1>1
  <2>2. z \in t \ {y} /\ (t \ {y}) \ {z} = u
    BY <1>3, <1>5
  <2>. QED  BY <2>1, <2>2
<1>8. f[y] \in Int /\ f[z] \in Int /\ Sum(u) \in Int
  <2>1. IsFiniteSet(u) /\ \A a \in u : f[a] \in Int
    BY FS_Subset
  <2>2. Sum(u) \in Int
    <3>. HIDE DEF u
    <3>. QED  BY <2>1, SumInt
  <2>. QED  BY <2>2, <1>3
<1>. QED
  <2>. HIDE DEF Sum, u
  <2>. QED  BY <1>2, <1>4, <1>6, <1>7, <1>8

\* The sum of sums.
LEMMA SumPlus ==
  ASSUME NEW f, NEW g, NEW h, NEW S, IsFiniteSet(S),
         \A x \in S : f[x] \in Int /\ g[x] \in Int /\ h[x] = f[x] + g[x]
  PROVE  SumFunctionOnSet(h, S) = SumFunctionOnSet(f, S) + SumFunctionOnSet(g, S)
<1>. DEFINE Sum(k, s) == SumFunctionOnSet(k, s)
            F == {s \in SUBSET S : Sum(h, s) /= Sum(f, s) + Sum(g, s)}
<1>. SUFFICES ASSUME F /= {} PROVE FALSE
  OBVIOUS
<1>1. PICK t \in F : \A u \in F : u \subseteq t => u = t
  <2>1. F \in SUBSET SUBSET S
    OBVIOUS
  <2>. HIDE DEF F
  <2>. QED  BY <2>1, MinimalSet
<1>2. IsFiniteSet(t)
  BY FS_Subset
<1>3. /\ Sum(f, t) = IF t = {} THEN 0 ELSE f[Some(t)] + Sum(f, t \ {Some(t)})
      /\ Sum(g, t) = IF t = {} THEN 0 ELSE g[Some(t)] + Sum(g, t \ {Some(t)})
      /\ Sum(h, t) = IF t = {} THEN 0 ELSE h[Some(t)] + Sum(h, t \ {Some(t)})
  BY <1>2, SumRecursion
<1>4. Sum(h, t) /= Sum(f, t) + Sum(g, t)
  OBVIOUS
<1>5. t /= {}
  <2>. HIDE DEF Sum, F
  <2>. QED  BY <1>3, <1>4
<1>. DEFINE z == Some(t)
            u == t \ {z}
<1>6. z \in t
  BY <1>5, SomeIsIn
<1>7. Sum(h, u) = Sum(f, u) + Sum(g, u)
  BY <1>1, <1>6
<1>8. Sum(f, u) \in Int /\ Sum(g, u) \in Int
  <2>1. IsFiniteSet(u) /\ \A x \in u : f[x] \in Int /\ g[x] \in Int
    BY FS_Subset
  <2>. HIDE DEF u
  <2>. QED  BY <2>1, SumInt
<1>9. f[z] \in Int /\ g[z] \in Int /\ h[z] = f[z] + g[z]
  BY <1>6
<1>10. Sum(f, t) = f[z] + Sum(f, u) /\ Sum(g, t) = g[z] + Sum(g, u) /\ Sum(h, t) = h[z] + Sum(h, u)
  BY <1>3, <1>5
<1>. QED
  <2>. HIDE DEF Sum, F, z, u
  <2>. QED  BY <1>4, <1>7, <1>8, <1>9, <1>10

LEMMA SumAdd ==
  ASSUME NEW f, NEW S, IsFiniteSet(S), NEW x, x \notin S, \A y \in S \cup {x} : f[y] \in Int
  PROVE  SumFunctionOnSet(f, S \cup {x}) = f[x] + SumFunctionOnSet(f, S)
<1>. DEFINE T == S \cup {x}
<1>1. IsFiniteSet(T) /\ x \in T /\ T \ {x} = S /\ \A y \in T : f[y] \in Int
  BY FS_AddElement
<1>. HIDE DEF T
<1>2. SumFunctionOnSet(f, T) = f[x] + SumFunctionOnSet(f, T \ {x})
  BY <1>1, SumRemove
<1>. QED  BY <1>1, <1>2 DEF T

\* One addend changes.
LEMMA SumChanged ==
  ASSUME NEW f, NEW g, NEW S, IsFiniteSet(S), NEW x \in S, \A y \in S : f[y] \in Int /\ g[y] \in Int,
         \A y \in S : y /= x => f[y] = g[y]
  PROVE  SumFunctionOnSet(g, S) = SumFunctionOnSet(f, S) - f[x] + g[x]
<1>. DEFINE T == S \ {x}
<1>1. IsFiniteSet(T) /\ \A y \in T : f[y] = g[y]
  BY FS_Subset
<1>2. SumFunctionOnSet(f, T) = SumFunctionOnSet(g, T) /\ SumFunctionOnSet(f, T) \in Int
  <2>1. \A y \in T : f[y] \in Int
    OBVIOUS
  <2>. HIDE DEF T
  <2>. QED  BY <1>1, <2>1, SumSame, SumInt
<1>3. /\ SumFunctionOnSet(f, S) = f[x] + SumFunctionOnSet(f, T)
      /\ SumFunctionOnSet(g, S) = g[x] + SumFunctionOnSet(g, T)
  BY SumRemove
<1>. QED
  <2>. HIDE DEF T
  <2>. QED  BY <1>2, <1>3

LEMMA SumAtLeast ==
  ASSUME NEW f, NEW g, NEW S, IsFiniteSet(S), \A y \in S : f[y] \in Int /\ g[y] \in Int /\ f[y] <= g[y]
  PROVE  SumFunctionOnSet(f, S) <= SumFunctionOnSet(g, S)
<1>. DEFINE F == {s \in SUBSET S : ~(SumFunctionOnSet(f, s) <= SumFunctionOnSet(g, s))}
<1>. SUFFICES ASSUME F /= {} PROVE FALSE
  OBVIOUS
<1>1. PICK t \in F : \A u \in F : u \subseteq t => u = t
  <2>1. F \in SUBSET SUBSET S
    OBVIOUS
  <2>. HIDE DEF F
  <2>. QED  BY <2>1, MinimalSet
<1>2. IsFiniteSet(t)
  BY FS_Subset
<1>3. /\ SumFunctionOnSet(f, t) =
           IF t = {} THEN 0 ELSE f[Some(t)] + SumFunctionOnSet(f, t \ {Some(t)})
      /\ SumFunctionOnSet(g, t) =
           IF t = {} THEN 0 ELSE g[Some(t)] + SumFunctionOnSet(g, t \ {Some(t)})
  BY <1>2, SumRecursion
<1>4. t /= {}
  BY <1>3
<1>. DEFINE u == t \ {Some(t)}
<1>5. f[Some(t)] <= g[Some(t)] /\ SumFunctionOnSet(f, u) <= SumFunctionOnSet(g, u)
      /\ f[Some(t)] \in Int /\ g[Some(t)] \in Int
  BY <1>1, <1>4, SomeIsIn
<1>6. SumFunctionOnSet(f, u) \in Int /\ SumFunctionOnSet(g, u) \in Int
  <2>1. IsFiniteSet(u) /\ \A a \in u : f[a] \in Int /\ g[a] \in Int
    BY FS_Subset
  <2>. HIDE DEF u
  <2>. QED  BY <2>1, SumInt
<1>. QED
  <2>1. SumFunctionOnSet(f, t) <= SumFunctionOnSet(g, t)
    <3>. HIDE DEF u, F
    <3>. QED  BY <1>3, <1>4, <1>5, <1>6 DEF u
  <2>. QED  BY <2>1

\* A set falls into two parts.
LEMMA SumUnion ==
  ASSUME NEW f, NEW S, NEW T, IsFiniteSet(S), IsFiniteSet(T), S \cap T = {},
         \A y \in S \cup T : f[y] \in Int
  PROVE  SumFunctionOnSet(f, S \cup T) = SumFunctionOnSet(f, S) + SumFunctionOnSet(f, T)
<1>. DEFINE Sum(s) == SumFunctionOnSet(f, s)
            F == {s \in SUBSET S : Sum(s \cup T) /= Sum(s) + Sum(T)}
<1>. SUFFICES ASSUME F /= {} PROVE FALSE
  OBVIOUS
<1>1. PICK t \in F : \A u \in F : u \subseteq t => u = t
  <2>1. F \in SUBSET SUBSET S
    OBVIOUS
  <2>. HIDE DEF F
  <2>. QED  BY <2>1, MinimalSet
<1>2. IsFiniteSet(t)
  BY FS_Subset
<1>0. Sum(T) \in Int
  BY SumInt
<1>3. t /= {}
  <2>1. Sum({}) = 0 /\ {} \cup T = T
    BY SumEmpty
  <2>2. Sum(t \cup T) /= Sum(t) + Sum(T)
    OBVIOUS
  <2>3. t = {} => Sum(T) /= 0 + Sum(T)
    BY <2>1, <2>2
  <2>. HIDE DEF Sum, F
  <2>. QED  BY <1>0, <2>3
<1>. DEFINE z == Some(t)
            u == t \ {z}
<1>4. z \in t
  BY <1>3, SomeIsIn
<1>5. Sum(u \cup T) = Sum(u) + Sum(T)
  BY <1>1, <1>4
<1>6. IsFiniteSet(u) /\ IsFiniteSet(u \cup T) /\ Sum(u) \in Int
  <2>1. IsFiniteSet(u)
    BY <1>2, FS_Subset
  <2>2. \A a \in u : f[a] \in Int
    OBVIOUS
  <2>. HIDE DEF u
  <2>. QED  BY <2>1, <2>2, FS_Union, SumInt
<1>. HIDE DEF z
<1>7. Sum(t) = f[z] + Sum(u)
  <2>1. t = u \cup {z} /\ z \notin u /\ \A y \in u \cup {z} : f[y] \in Int
    BY <1>4
  <2>. HIDE DEF u
  <2>. QED  BY <2>1, <1>6, SumAdd
<1>8. Sum(t \cup T) = f[z] + Sum(u \cup T)
  <2>1. t \cup T = (u \cup T) \cup {z} /\ z \notin u \cup T /\ \A y \in (u \cup T) \cup {z} : f[y] \in Int
    BY <1>4
  <2>. HIDE DEF u
  <2>. QED  BY <2>1, <1>6, SumAdd
<1>9. Sum(t \cup T) /= Sum(t) + Sum(T) /\ f[z] \in Int
  BY <1>4
<1>. QED
  <2>. HIDE DEF Sum, u, F
  <2>. QED  BY <1>0, <1>5, <1>6, <1>7, <1>8, <1>9

\* The addends are numbered another way.
LEMMA SumRenamed ==
  ASSUME NEW f, NEW g, NEW S, NEW b, IsFiniteSet(S), IsFiniteSet({b[x] : x \in S}),
         \A x, y \in S : b[x] = b[y] => x = y,
         \A x \in S : f[x] \in Int /\ g[b[x]] = f[x]
  PROVE  SumFunctionOnSet(g, {b[x] : x \in S}) = SumFunctionOnSet(f, S)
<1>. DEFINE Im(s) == {b[x] : x \in s}
            F == {s \in SUBSET S : SumFunctionOnSet(g, Im(s)) /= SumFunctionOnSet(f, s)}
<1>. SUFFICES ASSUME F /= {} PROVE FALSE
  OBVIOUS
<1>1. PICK t \in F : \A u \in F : u \subseteq t => u = t
  <2>1. F \in SUBSET SUBSET S
    OBVIOUS
  <2>. HIDE DEF F
  <2>. QED  BY <2>1, MinimalSet
<1>2. t /= {}
  <2>1. Im({}) = {}
    OBVIOUS
  <2>. QED  BY <2>1, SumEmpty
<1>. DEFINE z == Some(t)
            u == t \ {z}
<1>3. z \in t
  BY <1>2, SomeIsIn
<1>4. SumFunctionOnSet(g, Im(u)) = SumFunctionOnSet(f, u)
  BY <1>1, <1>3
<1>. HIDE DEF z
<1>5. SumFunctionOnSet(f, t) = f[z] + SumFunctionOnSet(f, u)
  <2>1. t = u \cup {z} /\ z \notin u /\ \A y \in u \cup {z} : f[y] \in Int
    BY <1>3
  <2>2. IsFiniteSet(u)
    BY FS_Subset
  <2>. HIDE DEF u
  <2>. QED  BY <2>1, <2>2, SumAdd
<1>6. SumFunctionOnSet(g, Im(t)) = g[b[z]] + SumFunctionOnSet(g, Im(u))
  <2>1. Im(t) = Im(u) \cup {b[z]}
    BY <1>3
  <2>2. b[z] \notin Im(u) /\ \A y \in Im(u) \cup {b[z]} : g[y] \in Int
    BY <1>3
  <2>3. IsFiniteSet(Im(u))
    <3>1. Im(u) \in SUBSET Im(S)
      OBVIOUS
    <3>. QED  BY <3>1, FS_Subset
  <2>. HIDE DEF u, Im
  <2>. QED  BY <2>1, <2>2, <2>3, SumAdd
<1>7. g[b[z]] = f[z] /\ SumFunctionOnSet(g, Im(t)) /= SumFunctionOnSet(f, t)
  BY <1>3
<1>. QED
  <2>. HIDE DEF Im, u, F
  <2>. QED  BY <1>4, <1>5, <1>6, <1>7

\* A sum taken two by two.
LEMMA SumPairs ==
  ASSUME NEW f, NEW g, NEW n \in Nat, \A i \in 1..n : f[i] \in Int /\ f[i] = g[2 * i - 1] + g[2 * i],
         \A i \in 1..(2 * n) : g[i] \in Int
  PROVE  SumFunctionOnSet(f, 1..n) = SumFunctionOnSet(g, 1..(2 * n))
<1>. DEFINE T == {m \in 0..n : SumFunctionOnSet(f, 1..m) /= SumFunctionOnSet(g, 1..(2 * m))}
<1>. SUFFICES ASSUME T /= {} PROVE FALSE
  <2>1. n \in 0..n
    OBVIOUS
  <2>2. SumFunctionOnSet(f, 1..n) /= SumFunctionOnSet(g, 1..(2 * n)) => n \in T
    BY <2>1
  <2>. HIDE DEF T
  <2>. QED  BY <2>2
<1>1. PICK m \in T : \A k \in T : m <= k
  <2>1. T \in SUBSET Nat
    OBVIOUS
  <2>. HIDE DEF T
  <2>. QED  BY <2>1, LeastNumber
<1>2. m \in Nat /\ m <= n
  OBVIOUS
<1>3. m /= 0
  <2>1. 1..0 = {} /\ 2 * 0 = 0
    OBVIOUS
  <2>. QED  BY <2>1, SumEmpty
<1>4. PICK k \in Nat : m = k + 1
  BY <1>2, <1>3
<1>5. SumFunctionOnSet(f, 1..k) = SumFunctionOnSet(g, 1..(2 * k))
  <2>1. k \in 0..n /\ ~(m <= k)
    BY <1>2, <1>4
  <2>2. k \notin T
    BY <1>1, <2>1
  <2>. QED  BY <2>1, <2>2
<1>6. /\ IsFiniteSet(1..k) /\ IsFiniteSet(1..(2 * k)) /\ IsFiniteSet(1..(2 * k + 1))
      /\ 1..m = (1..k) \cup {m} /\ m \notin 1..k
      /\ 1..(2 * k + 1) = (1..(2 * k)) \cup {2 * k + 1} /\ 2 * k + 1 \notin 1..(2 * k)
      /\ 1..(2 * m) = (1..(2 * k + 1)) \cup {2 * m} /\ 2 * m \notin 1..(2 * k + 1)
  <2>1. PICK a \in Nat, b \in Nat, c \in Nat : a = 2 * k /\ b = 2 * k + 1 /\ c = 2 * m
    BY <1>2
  <2>2. IsFiniteSet(1..k) /\ IsFiniteSet(1..a) /\ IsFiniteSet(1..b)
    <3>1. ASSUME NEW x \in Nat PROVE IsFiniteSet(1..x)
      BY FS_Interval
    <3>. QED  BY <3>1
  <2>3. 1..m = (1..k) \cup {m} /\ m \notin 1..k
    BY <1>2, <1>4
  <2>4. b = a + 1 /\ c = b + 1
    BY <1>2, <1>4, <2>1
  <2>5. 1..b = (1..a) \cup {b} /\ b \notin 1..a /\ 1..c = (1..b) \cup {c} /\ c \notin 1..b
    BY <2>4
  <2>. QED  BY <2>1, <2>2, <2>3, <2>5
<1>7. /\ \A i \in (1..k) \cup {m} : f[i] \in Int
      /\ \A i \in (1..(2 * k)) \cup {2 * k + 1} : g[i] \in Int
      /\ \A i \in (1..(2 * k + 1)) \cup {2 * m} : g[i] \in Int
  BY <1>2, <1>4
<1>8. SumFunctionOnSet(f, (1..k) \cup {m}) = f[m] + SumFunctionOnSet(f, 1..k)
  BY <1>6, <1>7, SumAdd
<1>9. SumFunctionOnSet(g, (1..(2 * k)) \cup {2 * k + 1}) = g[2 * k + 1] + SumFunctionOnSet(g, 1..(2 * k))
  BY <1>6, <1>7, SumAdd
<1>10. SumFunctionOnSet(g, (1..(2 * k + 1)) \cup {2 * m}) = g[2 * m] + SumFunctionOnSet(g, 1..(2 * k + 1))
  BY <1>6, <1>7, SumAdd
<1>11. f[m] = g[2 * k + 1] + g[2 * m] /\ g[2 * k + 1] \in Int /\ g[2 * m] \in Int
  <2>1. 2 * m - 1 = 2 * k + 1 /\ m \in 1..n
    BY <1>2, <1>4
  <2>. QED  BY <1>7, <2>1
<1>12. SumFunctionOnSet(g, 1..(2 * k)) \in Int
  BY <1>6, <1>7, SumInt
<1>13. SumFunctionOnSet(f, 1..m) = SumFunctionOnSet(g, 1..(2 * m))
  <2>. DEFINE a == SumFunctionOnSet(g, 1..(2 * k))
  <2>1. SumFunctionOnSet(f, 1..m) = f[m] + a
    BY <1>5, <1>6, <1>8
  <2>2. SumFunctionOnSet(g, 1..(2 * m)) = g[2 * m] + (g[2 * k + 1] + a)
    BY <1>6, <1>9, <1>10
  <2>. HIDE DEF a
  <2>3. PICK x \in Int, y \in Int, z \in Int : x = a /\ y = g[2 * k + 1] /\ z = g[2 * m]
    BY <1>11, <1>12 DEF a
  <2>. QED  BY <1>11, <2>1, <2>2, <2>3
<1>. QED  BY <1>13

-----------------------------------------------------------------------------
(* Unsigned arithmetic: numbers modulo a word. *)

\* The quotient and the remainder.
LEMMA QuotientRemainder ==
  ASSUME NEW w \in Nat \ {0}, NEW x \in Int
  PROVE  x = w * (x \div w) + (x % w) /\ x \div w \in Int /\ x % w \in 0..(w - 1)
OBVIOUS

\* There is no other remainder.
LEMMA RemainderUnique ==
  ASSUME NEW w \in Nat \ {0}, NEW q \in Int, NEW r \in 0..(w - 1)
  PROVE  (w * q + r) % w = r
<1>1. PICK x \in Int : x = w * q + r
  OBVIOUS
<1>. DEFINE p == x \div w
            s == x % w
<1>2. x = w * p + s /\ p \in Int /\ s \in 0..(w - 1)
  BY QuotientRemainder
<1>. HIDE DEF p, s
<1>3. w * (q - p) = s - r
  BY <1>1, <1>2
<1>4. (q - p >= 1 => w * (q - p) >= w) /\ (q - p <= -1 => w * (q - p) <= -w)
  BY <1>2
<1>5. q - p = 0
  BY <1>2, <1>3, <1>4
<1>6. s = r
  BY <1>2, <1>3, <1>5
<1>. QED  BY <1>1, <1>6 DEF s

\* Two numbers are the same in a word if they differ by words.
LEMMA SameInWord ==
  ASSUME NEW w \in Nat \ {0}, NEW x \in Int, NEW y \in Int
  PROVE  (x - y) % w = 0 <=> \E k \in Int : x = y + w * k
<1>1. ASSUME (x - y) % w = 0 PROVE \E k \in Int : x = y + w * k
  <2>1. PICK d \in Int : d = x - y
    OBVIOUS
  <2>2. d = w * (d \div w) + (d % w) /\ d \div w \in Int
    BY QuotientRemainder
  <2>3. PICK k \in Int : k = d \div w
    BY <2>2
  <2>4. d % w = 0
    BY <1>1, <2>1
  <2>5. d = w * k + 0
    BY <2>2, <2>3, <2>4
  <2>6. x = y + w * k
    <3>1. PICK m \in Int : m = w * k
      OBVIOUS
    <3>. QED  BY <2>1, <2>5, <3>1
  <2>. QED  BY <2>6
<1>2. ASSUME NEW k \in Int, x = y + w * k PROVE (x - y) % w = 0
  <2>1. (w * k + 0) % w = 0
    BY RemainderUnique
  <2>2. x - y = w * k + 0
    <3>1. PICK m \in Int : m = w * k
      OBVIOUS
    <3>. QED  BY <1>2, <3>1
  <2>. QED  BY <2>1, <2>2
<1>. QED  BY <1>1, <1>2

-----------------------------------------------------------------------------

\* Powers of two, as the subsets of an interval.
LEMMA Doubling ==
  ASSUME NEW n \in Nat
  PROVE  2^n \in Nat /\ 2^(n + 1) \in Nat /\ 2^(n + 1) = 2^n + 2^n
<1>. DEFINE A == 1..n
            B == 1..(n + 1)
            F == SUBSET A
            G == {t \cup {n + 1} : t \in F}
            b == [t \in F |-> t \cup {n + 1}]
<1>1. /\ IsFiniteSet(A) /\ Cardinality(A) = n
      /\ IsFiniteSet(B) /\ Cardinality(B) = n + 1
  <2>1. n \in Int /\ n + 1 \in Int /\ 1 \in Int
    OBVIOUS
  <2>. QED  BY <2>1, FS_Interval
<1>2. /\ IsFiniteSet(F) /\ Cardinality(F) = 2^n
      /\ IsFiniteSet(SUBSET B) /\ Cardinality(SUBSET B) = 2^(n + 1)
  BY <1>1, FS_SUBSET
<1>3. SUBSET B = F \cup G
  <2>0. B = A \cup {n + 1}
    OBVIOUS
  <2>. HIDE DEF A, B
  <2>1. ASSUME NEW t \in SUBSET B PROVE t \in F \cup G
    <3>1. CASE n + 1 \in t
      <4>1. t \ {n + 1} \in F /\ t = (t \ {n + 1}) \cup {n + 1}
        BY <2>0, <3>1
      <4>. QED  BY <4>1
    <3>. QED  BY <2>0, <3>1
  <2>. QED  BY <2>0, <2>1
<1>4. n + 1 \notin A
  OBVIOUS
<1>5. F \cap G = {}
  <2>. HIDE DEF A
  <2>. QED  BY <1>4
<1>6. ExistsBijection(F, G)
  <2>. HIDE DEF A
  <2>1. b \in [F -> G]
    OBVIOUS
  <2>2. \A t, u \in F : b[t] = b[u] => t = u
    BY <1>4
  <2>3. \A g \in G : \E t \in F : b[t] = g
    OBVIOUS
  <2>4. b \in Bijection(F, G)
    <3>. HIDE DEF b, F, G
    <3>. QED  BY <2>1, <2>2, <2>3 DEF Bijection, Injection, Surjection, IsInjective
  <2>. QED  BY <2>4 DEF ExistsBijection
<1>. HIDE DEF A, B, F, G, b
<1>7. IsFiniteSet(G) /\ Cardinality(G) = Cardinality(F)
  BY <1>2, <1>6, FS_Bijection
<1>8. Cardinality(F \cap G) = 0
  BY <1>5, FS_EmptySet
<1>9. Cardinality(SUBSET B) = Cardinality(F) + Cardinality(G) - Cardinality(F \cap G)
  BY <1>2, <1>3, <1>7, FS_Union
<1>10. Cardinality(F) \in Nat /\ Cardinality(SUBSET B) \in Nat
  BY <1>2, FS_CardinalityType
<1>11. PICK p \in Nat, q \in Nat : p = 2^n /\ q = 2^(n + 1)
  BY <1>2, <1>10
<1>12. q = p + p
  BY <1>2, <1>7, <1>8, <1>9, <1>11
<1>. QED  BY <1>11, <1>12
=============================================================================
