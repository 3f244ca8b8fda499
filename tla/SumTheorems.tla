---------------------------- MODULE SumTheorems ----------------------------
(***************************************************************************)
(* Facts about sums over finite sets, for the proofs about amounts that    *)
(* add up, and about folds through a set of numbers in their order.        *)
(* MapThenSumSet takes its elements in an order of its own; what is wanted *)
(* is that a sum is the same in any order.  Induction is by a minimal      *)
(* counterexample among the subsets of a finite set.                       *)
(*                                                                         *)
(* A theorem cannot take an operator as a parameter that a proof could     *)
(* then give it.  The step of a fold is therefore a constant of the        *)
(* module, which INSTANCE replaces; the facts about sums do not mention    *)
(* it, and a module that wants them alone extends this one.                *)
(***************************************************************************)
EXTENDS Integers, FiniteSetsExt, FiniteSetTheorems, TLAPS

\* One step of a fold: from s, with the element a, in a context of three values.
CONSTANT Op(_, _, _, _, _)

Sum(f, S) == MapThenSumSet(LAMBDA x : f[x], S)

\* From "base" step by step through a set of numbers, the least one first.
Fold(c, d, e, base, S) ==
    MapThenFoldSet(LAMBDA a, s : Op(c, d, e, s, a), base, LAMBDA a : a, LAMBDA s : Max(s), S)

\* g gives the sum of each subset of S, as MapThenSumSet computes it.
IsSum(g, f, S) ==
    g = [s \in SUBSET S |-> IF s = {} THEN 0
                            ELSE LET x == CHOOSE x \in s : TRUE IN f[x] + g[s \ {x}]]

\* A family of subsets of a finite set has a minimal member.
LEMMA MinimalSubset ==
    ASSUME NEW S, IsFiniteSet(S), NEW F, F \subseteq SUBSET S, F # {}
    PROVE  \E T \in F : \A U \in SUBSET T : U # T => U \notin F
<1>1. IsWellFoundedOn(StrictSubsetOrdering(S), SUBSET S)
  BY FS_StrictSubsetOrderingWellFounded, FS_FiniteSubsetsOfFinite
<1>2. PICK T \in F : \A U \in F : ~ (<<U, T>> \in StrictSubsetOrdering(S))
  BY <1>1, WFMin
<1>3. ASSUME NEW U \in SUBSET T, U # T, U \in F PROVE FALSE
  <2>1. <<U, T>> \in (SUBSET S) \X (SUBSET S)
    BY <1>3
  <2>2. QED
    BY <1>2, <1>3, <2>1 DEF StrictSubsetOrdering
<1>4. QED
  BY <1>3

LEMMA IsSumStep ==
    ASSUME NEW g, NEW f, NEW S, IsSum(g, f, S), NEW s \in SUBSET S
    PROVE  /\ s = {} => g[s] = 0
           /\ s # {} => LET x == CHOOSE x \in s : TRUE IN
                          x \in s /\ g[s] = f[x] + g[s \ {x}]
BY DEF IsSum

\* The sums of a subset's subsets are those of the set's.
LEMMA IsSumUnique ==
    ASSUME NEW f, NEW S, NEW T \in SUBSET S, IsFiniteSet(T),
           NEW g, IsSum(g, f, S), NEW h, IsSum(h, f, T)
    PROVE  \A U \in SUBSET T : g[U] = h[U]
<1> DEFINE F == {U \in SUBSET T : g[U] # h[U]}
<1>1. SUFFICES ASSUME F # {} PROVE FALSE
  OBVIOUS
<1>2. PICK U \in F : \A V \in SUBSET U : V # U => V \notin F
  <2>1. F \subseteq SUBSET T
    OBVIOUS
  <2> HIDE DEF F
  <2>2. QED
    BY <1>1, <2>1, MinimalSubset
<1>3. U \in SUBSET T /\ U \in SUBSET S /\ g[U] # h[U]
  BY <1>2
<1>4. U # {}
  BY <1>3, IsSumStep
<1> DEFINE x == CHOOSE x \in U : TRUE
<1>5. x \in U /\ g[U] = f[x] + g[U \ {x}] /\ h[U] = f[x] + h[U \ {x}]
  <2>1. x \in U
    BY <1>4
  <2>2. g[U] = f[x] + g[U \ {x}]
    BY <1>3, <1>4, IsSumStep
  <2>3. IsSum(h, f, T)
    OBVIOUS
  <2>4. h[U] = f[x] + h[U \ {x}]
    BY <1>3, <1>4, <2>3, IsSumStep
  <2>5. QED
    BY <2>1, <2>2, <2>4
<1>6. U \ {x} \in SUBSET U /\ U \ {x} # U
  BY <1>5
<1>7. U \ {x} \notin F
  BY <1>2, <1>6
<1>8. g[U \ {x}] = h[U \ {x}]
  BY <1>3, <1>7
<1>9. QED
  BY <1>3, <1>5, <1>8

LEMMA IsSumExists ==
    ASSUME NEW f, NEW S, IsFiniteSet(S)
    PROVE  \E g : IsSum(g, f, S)
<1> DEFINE F == {T \in SUBSET S : ~ \E g : IsSum(g, f, T)}
<1>1. SUFFICES ASSUME F # {} PROVE FALSE
  OBVIOUS
<1>2. PICK T \in F : \A U \in SUBSET T : U # T => U \notin F
  <2>1. F \subseteq SUBSET S
    OBVIOUS
  <2> HIDE DEF F
  <2>2. QED
    BY <1>1, <2>1, MinimalSubset
<1> DEFINE h(U) == CHOOSE g : IsSum(g, f, U)
           G == [s \in SUBSET T |->
                   IF s = {} THEN 0
                   ELSE LET x == CHOOSE x \in s : TRUE IN f[x] + h(s \ {x})[s \ {x}]]
<1>3. T \in SUBSET S /\ ~ \E g : IsSum(g, f, T)
  BY <1>2
<1>4. ASSUME NEW U \in SUBSET T, U # T PROVE IsSum(h(U), f, U) /\ IsFiniteSet(U)
  <2>1. U \in SUBSET S /\ U \notin F
    BY <1>2, <1>3, <1>4
  <2>2. \E g : IsSum(g, f, U)
    BY <2>1
  <2>3. IsFiniteSet(U)
    BY <2>1, FS_Subset
  <2>4. QED
    BY <2>2, <2>3
<1>5. ASSUME NEW U \in SUBSET T, U # T PROVE G[U] = h(U)[U]
  <2>1. CASE U = {}
    <3>1. h(U)[U] = 0
      <4>1. IsSum(h(U), f, U) /\ U \in SUBSET U
        BY <1>4, <1>5
      <4> HIDE DEF h
      <4>2. QED
        BY <2>1, <4>1, IsSumStep
    <3>2. QED
      BY <2>1, <3>1
  <2>2. CASE U # {}
    <3> DEFINE y == CHOOSE y \in U : TRUE
               V == U \ {y}
    <3>1. y \in U /\ h(U)[U] = f[y] + h(U)[V]
      <4>1. IsSum(h(U), f, U) /\ U \in SUBSET U
        BY <1>4, <1>5
      <4> HIDE DEF h
      <4>2. QED
        BY <2>2, <4>1, IsSumStep
    <3>2. V \in SUBSET U /\ V \in SUBSET T /\ V # T
      BY <1>5, <3>1
    <3>3. IsSum(h(U), f, U) /\ IsSum(h(V), f, V) /\ IsFiniteSet(V)
      BY <1>4, <1>5, <3>2
    <3>4. h(U)[V] = h(V)[V]
      <4> HIDE DEF h, V
      <4>1. QED
        BY <3>2, <3>3, IsSumUnique
    <3>5. G[U] = f[y] + h(V)[V]
      BY <1>5, <2>2
    <3>6. QED
      BY <3>1, <3>4, <3>5
  <2>3. QED
    BY <2>1, <2>2
<1>6. ASSUME NEW s \in SUBSET T, s # {}
      PROVE  LET x == CHOOSE x \in s : TRUE IN h(s \ {x})[s \ {x}] = G[s \ {x}]
  <2> DEFINE x == CHOOSE x \in s : TRUE
  <2>1. x \in s
    BY <1>6
  <2>2. s \ {x} \in SUBSET T /\ s \ {x} # T
    BY <2>1
  <2> HIDE DEF G, h
  <2>3. QED
    BY <1>5, <2>2
<1>7. IsSum(G, f, T)
  <2>1. G = [s \in SUBSET T |->
               IF s = {} THEN 0
               ELSE LET x == CHOOSE x \in s : TRUE IN f[x] + G[s \ {x}]]
    <3> DEFINE w(s) == IF s = {} THEN 0
                       ELSE LET x == CHOOSE x \in s : TRUE IN f[x] + h(s \ {x})[s \ {x}]
               v(s) == IF s = {} THEN 0
                       ELSE LET x == CHOOSE x \in s : TRUE IN f[x] + G[s \ {x}]
    <3>1. ASSUME NEW s \in SUBSET T PROVE w(s) = v(s)
      <4> HIDE DEF G, h
      <4>1. QED
        BY <1>6
    <3>2. G = [s \in SUBSET T |-> w(s)]
      OBVIOUS
    <3> HIDE DEF G, w, v
    <3>3. G = [s \in SUBSET T |-> v(s)]
      BY <3>1, <3>2
    <3>4. QED
      BY <3>3 DEF v
  <2>2. QED
    BY <2>1 DEF IsSum
<1>8. QED
  BY <1>3, <1>7

-----------------------------------------------------------------------------
\* MapThenSumSet adds its elements one by one.
LEMMA SumIs ==
    ASSUME NEW f, NEW S, NEW g, IsSum(g, f, S), IsFiniteSet(S)
    PROVE  Sum(f, S) = g[S]
<1>1. IsSum(CHOOSE h : IsSum(h, f, S), f, S)
  OBVIOUS
<1>2. (CHOOSE h : IsSum(h, f, S))[S] = Sum(f, S)
  BY DEF IsSum, Sum, MapThenSumSet, MapThenFoldSet
<1>3. (CHOOSE h : IsSum(h, f, S))[S] = g[S]
  <2> DEFINE h == CHOOSE h : IsSum(h, f, S)
  <2>1. IsSum(h, f, S) /\ S \in SUBSET S
    BY <1>1
  <2> HIDE DEF h
  <2>2. g[S] = h[S]
    BY <2>1, IsSumUnique
  <2>3. QED
    BY <2>2 DEF h
<1>4. QED
  BY <1>2, <1>3

\* The empty sum, and the sum of the others with the element chosen first.
THEOREM SumStep ==
    ASSUME NEW f, NEW S, IsFiniteSet(S)
    PROVE  /\ Sum(f, {}) = 0
           /\ S # {} => \E x \in S : Sum(f, S) = f[x] + Sum(f, S \ {x})
<1>1. PICK g : IsSum(g, f, S)
  BY IsSumExists
<1>2. ASSUME NEW U \in SUBSET S PROVE Sum(f, U) = g[U]
  <2>1. IsFiniteSet(U)
    BY FS_Subset
  <2>2. PICK h : IsSum(h, f, U)
    BY <2>1, IsSumExists
  <2>3. Sum(f, U) = h[U]
    BY <2>1, <2>2, SumIs
  <2>4. g[U] = h[U]
    BY <1>1, <2>1, <2>2, IsSumUnique
  <2>5. QED
    BY <2>3, <2>4
<1>3. Sum(f, {}) = 0
  BY <1>1, <1>2, IsSumStep
<1>4. ASSUME S # {} PROVE \E x \in S : Sum(f, S) = f[x] + Sum(f, S \ {x})
  <2> DEFINE x == CHOOSE x \in S : TRUE
  <2>1. x \in S
    BY <1>4
  <2>2. g[S] = f[x] + g[S \ {x}]
    BY <1>1, <1>4, IsSumStep
  <2>3. QED
    BY <1>2, <2>1, <2>2
<1>5. QED
  BY <1>3, <1>4

\* A sum of integers is an integer, and of naturals a natural.
THEOREM SumType ==
    ASSUME NEW S, IsFiniteSet(S), NEW f, \A x \in S : f[x] \in Int
    PROVE  /\ Sum(f, S) \in Int
           /\ (\A x \in S : f[x] >= 0) => Sum(f, S) >= 0
<1> DEFINE Typed(T) == /\ Sum(f, T) \in Int
                       /\ (\A x \in T : f[x] >= 0) => Sum(f, T) >= 0
           F == {T \in SUBSET S : ~ Typed(T)}
<1>1. SUFFICES ASSUME F # {} PROVE FALSE
  OBVIOUS
<1>2. PICK T \in F : \A U \in SUBSET T : U # T => U \notin F
  <2>1. F \subseteq SUBSET S
    OBVIOUS
  <2> HIDE DEF F
  <2>2. QED
    BY <1>1, <2>1, MinimalSubset
<1>3. T \in SUBSET S /\ ~ Typed(T) /\ IsFiniteSet(T)
  BY <1>2, FS_Subset
<1>4. T # {}
  <2>1. Sum(f, {}) = 0
    BY SumStep
  <2>2. QED
    BY <1>3, <2>1
<1>5. PICK x \in T : Sum(f, T) = f[x] + Sum(f, T \ {x})
  BY <1>3, <1>4, SumStep
<1>6. Typed(T \ {x})
  <2>1. T \ {x} \in SUBSET T /\ T \ {x} # T /\ T \ {x} \in SUBSET S
    BY <1>3
  <2> HIDE DEF Typed
  <2>2. QED
    BY <1>2, <2>1
<1>7. Typed(T)
  <2>1. f[x] \in Int
    BY <1>3
  <2>2. QED
    BY <1>5, <1>6, <2>1
<1>8. QED
  BY <1>3, <1>7

\* Any element may be the one added last: the order does not matter.
THEOREM SumRemove ==
    ASSUME NEW S, IsFiniteSet(S), NEW f, \A x \in S : f[x] \in Int, NEW y \in S
    PROVE  Sum(f, S) = f[y] + Sum(f, S \ {y})
<1> DEFINE Free(T) == \A z \in T : Sum(f, T) = f[z] + Sum(f, T \ {z})
           F == {T \in SUBSET S : ~ Free(T)}
<1>1. SUFFICES ASSUME F # {} PROVE FALSE
  OBVIOUS
<1>2. PICK T \in F : \A U \in SUBSET T : U # T => U \notin F
  <2>1. F \subseteq SUBSET S
    OBVIOUS
  <2> HIDE DEF F
  <2>2. QED
    BY <1>1, <2>1, MinimalSubset
<1>3. T \in SUBSET S /\ ~ Free(T) /\ IsFiniteSet(T)
  BY <1>2, FS_Subset
<1>4. PICK z \in T : Sum(f, T) # f[z] + Sum(f, T \ {z})
  BY <1>3
<1>5. PICK x \in T : Sum(f, T) = f[x] + Sum(f, T \ {x})
  BY <1>3, <1>4, SumStep
<1>6. x # z
  BY <1>4, <1>5
<1>7. ASSUME NEW w \in T PROVE Free(T \ {w})
  <2>1. T \ {w} \in SUBSET T /\ T \ {w} # T /\ T \ {w} \in SUBSET S
    BY <1>3
  <2> HIDE DEF Free
  <2>2. QED
    BY <1>2, <2>1
<1> DEFINE U == T \ {x, z}
<1>8. Sum(f, T \ {x}) = f[z] + Sum(f, U) /\ Sum(f, T \ {z}) = f[x] + Sum(f, U)
  <2>1. (T \ {x}) \ {z} = U /\ (T \ {z}) \ {x} = U /\ z \in T \ {x} /\ x \in T \ {z}
    BY <1>6
  <2>2. Free(T \ {x}) /\ Free(T \ {z})
    BY <1>7
  <2> HIDE DEF U
  <2>3. QED
    BY <2>1, <2>2
<1>9. f[x] \in Int /\ f[z] \in Int /\ Sum(f, U) \in Int
  <2>1. IsFiniteSet(U) /\ \A w \in U : f[w] \in Int
    BY <1>3, FS_Subset
  <2> HIDE DEF U
  <2>2. Sum(f, U) \in Int
    BY <2>1, SumType
  <2>3. QED
    BY <1>3, <2>2
<1>10. QED
  BY <1>4, <1>5, <1>8, <1>9

\* A new element adds its summand.
THEOREM SumAdd ==
    ASSUME NEW S, IsFiniteSet(S), NEW f, \A x \in S : f[x] \in Int,
           NEW y, y \notin S, f[y] \in Int
    PROVE  Sum(f, S \cup {y}) = Sum(f, S) + f[y]
<1>1. IsFiniteSet(S \cup {y}) /\ \A x \in S \cup {y} : f[x] \in Int
  BY FS_AddElement
<1>2. y \in S \cup {y} /\ (S \cup {y}) \ {y} = S
  OBVIOUS
<1>3. Sum(f, S \cup {y}) = f[y] + Sum(f, S)
  BY <1>1, <1>2, SumRemove
<1>4. Sum(f, S) \in Int
  BY SumType
<1>5. QED
  BY <1>3, <1>4

\* A sum grows with each of its summands.
THEOREM SumGrows ==
    ASSUME NEW S, IsFiniteSet(S), NEW f, NEW g,
           \A x \in S : f[x] \in Int /\ g[x] \in Int /\ f[x] <= g[x]
    PROVE  Sum(f, S) <= Sum(g, S)
<1> DEFINE F == {T \in SUBSET S : ~ (Sum(f, T) <= Sum(g, T))}
<1>1. SUFFICES ASSUME F # {} PROVE FALSE
  OBVIOUS
<1>2. PICK T \in F : \A U \in SUBSET T : U # T => U \notin F
  <2>1. F \subseteq SUBSET S
    OBVIOUS
  <2> HIDE DEF F
  <2>2. QED
    BY <1>1, <2>1, MinimalSubset
<1>3. T \in SUBSET S /\ ~ (Sum(f, T) <= Sum(g, T)) /\ IsFiniteSet(T)
  BY <1>2, FS_Subset
<1>4. T # {}
  <2>1. Sum(f, {}) = 0 /\ Sum(g, {}) = 0
    BY SumStep
  <2>2. QED
    BY <1>3, <2>1
<1>5. PICK x \in T : TRUE
  BY <1>4
<1> DEFINE U == T \ {x}
<1>6. /\ IsFiniteSet(U) /\ U \in SUBSET T /\ U # T /\ U \in SUBSET S
      /\ \A y \in T : f[y] \in Int /\ g[y] \in Int /\ f[y] <= g[y]
  BY <1>3, FS_Subset
<1>7. Sum(f, U) <= Sum(g, U)
  <2> HIDE DEF U
  <2>1. QED
    BY <1>2, <1>6
<1>8. Sum(f, T) = f[x] + Sum(f, U) /\ Sum(g, T) = g[x] + Sum(g, U)
  BY <1>3, <1>6, SumRemove
<1>9. Sum(f, U) \in Int /\ Sum(g, U) \in Int
  <2>1. \A y \in U : f[y] \in Int /\ g[y] \in Int
    BY <1>6
  <2> HIDE DEF U
  <2>2. QED
    BY <1>6, <2>1, SumType
<1>10. f[x] \in Int /\ g[x] \in Int /\ f[x] <= g[x]
  BY <1>6
<1> HIDE DEF U
<1>11. QED
  BY <1>3, <1>7, <1>8, <1>9, <1>10

\* A sum depends on nothing but its summands.
THEOREM SumSame ==
    ASSUME NEW S, IsFiniteSet(S), NEW f, NEW g,
           \A x \in S : f[x] \in Int /\ g[x] = f[x]
    PROVE  Sum(g, S) = Sum(f, S)
<1>1. \A x \in S : f[x] \in Int /\ g[x] \in Int /\ f[x] <= g[x] /\ g[x] <= f[x]
  OBVIOUS
<1>2. Sum(f, S) <= Sum(g, S) /\ Sum(g, S) <= Sum(f, S)
  BY <1>1, SumGrows
<1>3. Sum(f, S) \in Int /\ Sum(g, S) \in Int
  BY <1>1, SumType
<1>4. QED
  BY <1>2, <1>3

\* When one summand changes, the sum changes by as much.
THEOREM SumUpdate ==
    ASSUME NEW S, IsFiniteSet(S), NEW f, NEW g, NEW y \in S,
           \A x \in S : f[x] \in Int /\ g[x] \in Int /\ (x # y => g[x] = f[x])
    PROVE  Sum(g, S) = Sum(f, S) + g[y] - f[y]
<1> DEFINE U == S \ {y}
<1>1. Sum(f, S) = f[y] + Sum(f, U) /\ Sum(g, S) = g[y] + Sum(g, U)
  BY SumRemove
<1>2. IsFiniteSet(U) /\ \A x \in U : f[x] \in Int /\ g[x] = f[x]
  BY FS_Subset
<1>3. f[y] \in Int /\ g[y] \in Int
  OBVIOUS
<1> HIDE DEF U
<1>4. Sum(g, U) = Sum(f, U) /\ Sum(f, U) \in Int
  BY <1>2, SumSame, SumType
<1>5. QED
  BY <1>1, <1>3, <1>4

\* A part of a sum of naturals is at most the whole.
THEOREM SumSubset ==
    ASSUME NEW S, IsFiniteSet(S), NEW f, \A x \in S : f[x] \in Nat, NEW T \in SUBSET S
    PROVE  Sum(f, T) <= Sum(f, S)
<1> DEFINE F == {U \in SUBSET S : T \subseteq U /\ ~ (Sum(f, T) <= Sum(f, U))}
<1>1. SUFFICES ASSUME F # {} PROVE FALSE
  OBVIOUS
<1>2. PICK U \in F : \A V \in SUBSET U : V # U => V \notin F
  <2>1. F \subseteq SUBSET S
    OBVIOUS
  <2> HIDE DEF F
  <2>2. QED
    BY <1>1, <2>1, MinimalSubset
<1>3. U \in SUBSET S /\ T \subseteq U /\ ~ (Sum(f, T) <= Sum(f, U))
  BY <1>2
<1>4. ASSUME NEW V \in SUBSET S PROVE IsFiniteSet(V) /\ Sum(f, V) \in Int
  <2>1. IsFiniteSet(V) /\ \A x \in V : f[x] \in Int
    BY FS_Subset
  <2>2. QED
    BY <2>1, SumType
<1>5. U # T
  BY <1>3, <1>4
<1>6. PICK x \in U : x \notin T
  BY <1>3, <1>5
<1> DEFINE V == U \ {x}
<1>7. V \in SUBSET U /\ V # U /\ V \in SUBSET S /\ T \subseteq V
  BY <1>3, <1>6
<1>8. Sum(f, T) <= Sum(f, V)
  <2> HIDE DEF V
  <2>1. QED
    BY <1>2, <1>7
<1>9. Sum(f, U) = f[x] + Sum(f, V)
  <2>1. IsFiniteSet(U) /\ \A y \in U : f[y] \in Int
    BY <1>3, <1>4
  <2>2. QED
    BY <2>1, SumRemove
<1>10. f[x] \in Nat /\ Sum(f, V) \in Int /\ Sum(f, T) \in Int
  <2> HIDE DEF V
  <2>1. QED
    BY <1>3, <1>4, <1>7
<1> HIDE DEF V
<1>11. QED
  BY <1>3, <1>8, <1>9, <1>10

\* Zeros add up to zero.
THEOREM SumZero ==
    ASSUME NEW S, IsFiniteSet(S), NEW f, \A x \in S : f[x] = 0
    PROVE  Sum(f, S) = 0
<1> DEFINE F == {U \in SUBSET S : Sum(f, U) # 0}
<1>1. SUFFICES ASSUME F # {} PROVE FALSE
  OBVIOUS
<1>2. PICK U \in F : \A V \in SUBSET U : V # U => V \notin F
  <2>1. F \subseteq SUBSET S
    OBVIOUS
  <2> HIDE DEF F
  <2>2. QED
    BY <1>1, <2>1, MinimalSubset
<1>3. U \in SUBSET S /\ Sum(f, U) # 0 /\ IsFiniteSet(U)
  BY <1>2, FS_Subset
<1>4. U # {}
  BY <1>3, SumStep
<1>5. PICK x \in U : Sum(f, U) = f[x] + Sum(f, U \ {x})
  BY <1>3, <1>4, SumStep
<1> DEFINE V == U \ {x}
<1>6. V \in SUBSET U /\ V # U /\ V \in SUBSET S
  BY <1>3
<1>7. Sum(f, V) = 0
  <2> HIDE DEF V
  <2>1. QED
    BY <1>2, <1>6
<1>8. f[x] = 0
  BY <1>3
<1>9. QED
  BY <1>3, <1>5, <1>7, <1>8

\* A sum is at most its largest summand times their number.
THEOREM SumBound ==
    ASSUME NEW S, IsFiniteSet(S), NEW A \in Nat, NEW f,
           \A x \in S : f[x] \in Int /\ f[x] <= A
    PROVE  Sum(f, S) <= A * Cardinality(S)
<1> DEFINE F == {T \in SUBSET S : ~ (Sum(f, T) <= A * Cardinality(T))}
<1>1. SUFFICES ASSUME F # {} PROVE FALSE
  OBVIOUS
<1>2. PICK T \in F : \A U \in SUBSET T : U # T => U \notin F
  <2>1. F \subseteq SUBSET S
    OBVIOUS
  <2> HIDE DEF F
  <2>2. QED
    BY <1>1, <2>1, MinimalSubset
<1>3. T \in SUBSET S /\ ~ (Sum(f, T) <= A * Cardinality(T)) /\ IsFiniteSet(T)
  BY <1>2, FS_Subset
<1>4. T # {}
  <2>1. Sum(f, {}) = 0 /\ Cardinality({}) = 0
    BY SumStep, FS_EmptySet
  <2>2. QED
    BY <1>3, <2>1
<1>5. PICK x \in T : TRUE
  BY <1>4
<1> DEFINE U == T \ {x}
<1>6. U \in SUBSET T /\ U # T /\ U \in SUBSET S
  BY <1>3
<1>7. Sum(f, U) <= A * Cardinality(U)
  <2> HIDE DEF U
  <2>1. QED
    BY <1>2, <1>6
<1>8. Sum(f, T) = f[x] + Sum(f, U) /\ f[x] \in Int /\ f[x] <= A
  <2>1. \A y \in T : f[y] \in Int
    BY <1>3
  <2>2. QED
    BY <1>3, <2>1, SumRemove
<1>9. /\ IsFiniteSet(U) /\ Cardinality(U) = Cardinality(T) - 1
      /\ Cardinality(T) \in Nat /\ Cardinality(U) \in Nat
  <2>1. IsFiniteSet(U) /\ Cardinality(U) = Cardinality(T) - 1
    BY <1>3, FS_RemoveElement
  <2>2. QED
    BY <1>3, <2>1, FS_CardinalityType
<1>10. Sum(f, U) \in Int
  <2>1. \A y \in U : f[y] \in Int
    BY <1>3
  <2> HIDE DEF U
  <2>2. QED
    BY <1>9, <2>1, SumType
<1> HIDE DEF U
<1>11. A * Cardinality(T) = A * Cardinality(U) + A
  BY <1>9
<1>12. A * Cardinality(U) \in Int
  BY <1>9
<1>13. QED
  BY <1>3, <1>7, <1>8, <1>10, <1>11, <1>12
-----------------------------------------------------------------------------
(* Folds in the order of numbers. *)

\* A finite set of numbers has a greatest one.
LEMMA MaxIn ==
    ASSUME NEW S, IsFiniteSet(S), S \subseteq Nat, S # {}
    PROVE  Max(S) \in S /\ \A y \in S : Max(S) >= y
<1> DEFINE Topped(T) == \E x \in T : \A y \in T : x >= y
           F == {T \in SUBSET S : T # {} /\ ~ Topped(T)}
<1>1. SUFFICES F = {}
  <2>1. ASSUME F = {} PROVE Topped(S)
    BY <2>1
  <2>2. Topped(S) => Max(S) \in S /\ \A y \in S : Max(S) >= y
    BY DEF Max
  <2>3. QED
    BY <2>1, <2>2
<1>2. SUFFICES ASSUME F # {} PROVE FALSE
  OBVIOUS
<1>3. PICK T \in F : \A U \in SUBSET T : U # T => U \notin F
  <2>1. F \subseteq SUBSET S
    OBVIOUS
  <2> HIDE DEF F
  <2>2. QED
    BY <1>2, <2>1, MinimalSubset
<1>4. PICK x \in T : TRUE
  BY <1>3
<1>5. T \subseteq Nat /\ T # {} /\ ~ Topped(T)
  BY <1>3
<1>6. CASE T = {x}
  BY <1>4, <1>5, <1>6
<1>7. CASE T # {x}
  <2>1. PICK z \in T \ {x} : \A y \in T \ {x} : z >= y
    <3>1. T \ {x} \in SUBSET T /\ T \ {x} # T /\ T \ {x} # {} /\ T \ {x} \in SUBSET S
      BY <1>3, <1>4, <1>7
    <3>2. Topped(T \ {x})
      BY <1>3, <3>1
    <3>3. QED
      BY <3>2
  <2>2. z \in Nat /\ x \in Nat /\ z \in T
    BY <1>4, <1>5, <2>1
  <2>3. CASE z >= x
    BY <1>5, <2>1, <2>2, <2>3
  <2>4. CASE ~ (z >= x)
    <3>1. \A y \in T : x >= y
      BY <1>5, <2>1, <2>2, <2>4
    <3>2. QED
      BY <1>4, <1>5, <3>1
  <2>5. QED
    BY <2>3, <2>4
<1>8. QED
  BY <1>6, <1>7

\* g gives the outcome for each subset of S, as MapThenFoldSet computes it.
IsFold(g, c, d, e, base, S) ==
    g = [s \in SUBSET S |-> IF s = {} THEN base
                            ELSE LET x == Max(s) IN Op(c, d, e, g[s \ {x}], x)]

\* The outcome stays in a set that every step keeps.
LEMMA IsFoldGood ==
    ASSUME NEW S, IsFiniteSet(S), S \subseteq Nat, NEW c, NEW d, NEW e,
           NEW Good, NEW base \in Good,
           \A s \in Good, a \in S : Op(c, d, e, s, a) \in Good,
           NEW g, IsFold(g, c, d, e, base, S)
    PROVE  g[S] \in Good
<1> DEFINE F == {T \in SUBSET S : g[T] \notin Good}
<1>1. SUFFICES ASSUME F # {} PROVE FALSE
  OBVIOUS
<1>2. PICK T \in F : \A U \in SUBSET T : U # T => U \notin F
  <2>1. F \subseteq SUBSET S
    OBVIOUS
  <2> HIDE DEF F
  <2>2. QED
    BY <1>1, <2>1, MinimalSubset
<1>3. T \in SUBSET S /\ g[T] \notin Good /\ IsFiniteSet(T) /\ T \subseteq Nat
  BY <1>2, FS_Subset
<1>4. T # {}
  BY <1>3 DEF IsFold
<1> DEFINE x == Max(T)
<1>5. x \in T
  BY <1>3, <1>4, MaxIn
<1>6. g[T] = Op(c, d, e, g[T \ {x}], x)
  BY <1>3, <1>4 DEF IsFold
<1> HIDE DEF x
<1>7. g[T \ {x}] \in Good
  BY <1>2, <1>3, <1>5
<1>8. QED
  BY <1>3, <1>5, <1>6, <1>7

LEMMA IsFoldExists ==
    ASSUME NEW c, NEW d, NEW e, NEW base, NEW S, IsFiniteSet(S), S \subseteq Nat
    PROVE  \E g : IsFold(g, c, d, e, base, S)
<1> DEFINE F == {T \in SUBSET S : ~ \E g : IsFold(g, c, d, e, base, T)}
<1>1. SUFFICES ASSUME F # {} PROVE FALSE
  OBVIOUS
<1>2. PICK T \in F : \A U \in SUBSET T : U # T => U \notin F
  <2>1. F \subseteq SUBSET S
    OBVIOUS
  <2> HIDE DEF F
  <2>2. QED
    BY <1>1, <2>1, MinimalSubset
<1>3. /\ T \in SUBSET S /\ ~ \E g : IsFold(g, c, d, e, base, T)
      /\ IsFiniteSet(T) /\ T \subseteq Nat
  BY <1>2, FS_Subset
<1>4. CASE T = {}
  <2> DEFINE g == [s \in SUBSET T |-> base]
  <2>1. IsFold(g, c, d, e, base, T)
    BY <1>4 DEF IsFold
  <2>2. QED
    BY <1>3, <2>1
<1>5. CASE T # {}
  <2> DEFINE x == Max(T)
             U == T \ {x}
  <2>1. x \in T /\ \A y \in T : x >= y
    BY <1>3, <1>5, MaxIn
  <2>2. PICK g : IsFold(g, c, d, e, base, U)
    <3>1. U \in SUBSET T /\ U # T /\ U \in SUBSET S
      BY <1>3, <2>1
    <3> HIDE DEF U
    <3>2. QED
      BY <1>2, <3>1
  <2> DEFINE v(s) == IF s = {} THEN base
                     ELSE LET y == Max(s) IN Op(c, d, e, g[s \ {y}], y)
             G == [s \in SUBSET T |-> IF x \in s THEN v(s) ELSE g[s]]
             w(s) == IF s = {} THEN base
                     ELSE LET y == Max(s) IN Op(c, d, e, G[s \ {y}], y)
  <2>3. ASSUME NEW s \in SUBSET T PROVE G[s] = w(s)
    <3>1. s # {} => Max(s) \in s /\ \A y \in s : Max(s) >= y
      <4>1. IsFiniteSet(s) /\ s \subseteq Nat
        BY <1>3, FS_Subset
      <4>2. QED
        BY <4>1, MaxIn
    <3>2. CASE x \in s
      <4>1. Max(s) = x
        <5>1. Max(s) \in s /\ Max(s) >= x /\ x >= Max(s)
          BY <2>1, <3>1, <3>2
        <5>2. Max(s) \in Nat /\ x \in Nat
          BY <1>3, <2>1, <3>2, <5>1
        <5> HIDE DEF x
        <5>3. QED
          BY <5>1, <5>2
      <4>2. s \ {x} \in SUBSET T /\ x \notin s \ {x}
        OBVIOUS
      <4>3. G[s \ {x}] = g[s \ {x}]
        BY <4>2
      <4>4. s # {}
        BY <3>2
      <4>5. G[s] = Op(c, d, e, g[s \ {x}], x)
        BY <3>2, <4>1, <4>4
      <4>6. w(s) = Op(c, d, e, G[s \ {x}], x)
        BY <4>1, <4>4
      <4>7. QED
        BY <4>3, <4>5, <4>6
    <3>3. CASE x \notin s
      <4>1. s \in SUBSET U /\ G[s] = g[s]
        BY <3>3
      <4>2. g[s] = v(s)
        BY <2>2, <4>1 DEF IsFold
      <4>3. CASE s = {}
        BY <4>1, <4>2, <4>3
      <4>4. CASE s # {}
        <5>1. s \ {Max(s)} \in SUBSET T /\ x \notin s \ {Max(s)}
          BY <3>3
        <5>2. G[s \ {Max(s)}] = g[s \ {Max(s)}]
          BY <5>1
        <5>3. v(s) = Op(c, d, e, g[s \ {Max(s)}], Max(s))
          BY <4>4
        <5>4. w(s) = Op(c, d, e, G[s \ {Max(s)}], Max(s))
          BY <4>4
        <5>5. QED
          BY <4>1, <4>2, <5>2, <5>3, <5>4
      <4>5. QED
        BY <4>3, <4>4
    <3>4. QED
      BY <3>2, <3>3
  <2>4. G = [s \in SUBSET T |-> w(s)]
    <3>1. G = [s \in SUBSET T |-> G[s]]
      OBVIOUS
    <3> HIDE DEF G, w, v
    <3>2. QED
      BY <2>3, <3>1
  <2>5. IsFold(G, c, d, e, base, T)
    <3> HIDE DEF G
    <3>1. QED
      BY <2>4 DEF IsFold
  <2>6. QED
    BY <1>3, <2>5
<1>6. QED
  BY <1>4, <1>5

\* What every step of a fold keeps, the fold keeps.
THEOREM FoldGood ==
    ASSUME NEW S, IsFiniteSet(S), S \subseteq Nat, NEW c, NEW d, NEW e,
           NEW Good, NEW base \in Good,
           \A s \in Good, a \in S : Op(c, d, e, s, a) \in Good
    PROVE  Fold(c, d, e, base, S) \in Good
<1> DEFINE g == CHOOSE g : IsFold(g, c, d, e, base, S)
<1>1. IsFold(g, c, d, e, base, S)
  BY IsFoldExists
<1>2. Fold(c, d, e, base, S) = g[S]
  BY DEF Fold, MapThenFoldSet, IsFold
<1> HIDE DEF g
<1>3. QED
  BY <1>1, <1>2, IsFoldGood
=============================================================================
