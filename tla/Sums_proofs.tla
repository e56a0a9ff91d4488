---------------------------- MODULE Sums_proofs ----------------------------
(***************************************************************************)
(* Lemmas about Sum.  What a fold computes is an induction over the set,   *)
(* made here with the least set that refutes a claim: strict inclusion is  *)
(* well-founded on finite sets, so a claim that fails, fails on a set all  *)
(* of whose smaller subsets keep it.                                       *)
(***************************************************************************)
EXTENDS Sums, Integers, FiniteSets, FiniteSetTheorems, WellFoundedInduction, TLAPS

\* The element a sum takes next.
Pick(s) == CHOOSE x \in s : TRUE

\* g gives the sum of f over every subset of D.
IsSum(D, f, g) ==
  g = [s \in SUBSET D |-> IF s = {} THEN 0 ELSE f[Pick(s)] + g[s \ {Pick(s)}]]

\* Among finite sets there is one that includes no other.
LEMMA LeastSet ==
  ASSUME NEW D, NEW T, T \subseteq FiniteSubsetsOf(D), T # {}
  PROVE  \E x \in T : \A y \in T : ~ (y \subseteq x /\ y # x)
<1>1. IsWellFoundedOn(StrictSubsetOrdering(D), FiniteSubsetsOf(D))
  BY FS_StrictSubsetOrderingWellFounded
<1>2. PICK x \in T : \A y \in T : ~ (<<y, x>> \in StrictSubsetOrdering(D))
  BY <1>1, WFMin
<1>3. \A y \in T : y \in SUBSET D
  BY DEF FiniteSubsetsOf
<1> QED BY <1>2, <1>3 DEF StrictSubsetOrdering

\* The element taken is one of the set.
LEMMA PickIn == ASSUME NEW s, s # {} PROVE Pick(s) \in s
BY DEF Pick

\* Two such functions agree wherever both are defined.
LEMMA SumsAgree ==
  ASSUME NEW D, NEW E, NEW f, NEW g, NEW h, IsSum(D, f, g), IsSum(E, f, h),
         NEW s \in FiniteSubsetsOf(D \cap E)
  PROVE  g[s] = h[s]
<1> DEFINE T == {t \in FiniteSubsetsOf(D \cap E) : g[t] # h[t]}
<1>1. SUFFICES ASSUME T # {} PROVE FALSE
  OBVIOUS
<1>2. PICK x \in T : \A y \in T : ~ (y \subseteq x /\ y # x)
  <2> HIDE DEF T
  <2>1. T \subseteq FiniteSubsetsOf(D \cap E)
    BY DEF T
  <2> QED BY <1>1, <2>1, LeastSet
<1>3. x \in SUBSET D /\ x \in SUBSET E /\ IsFiniteSet(x)
  BY DEF FiniteSubsetsOf
<1>4. x # {}
  BY <1>3 DEF IsSum
<1>5. x \ {Pick(x)} \in FiniteSubsetsOf(D \cap E)
  BY <1>3, FS_Subset DEF FiniteSubsetsOf
<1>6. x \ {Pick(x)} \subseteq x /\ x \ {Pick(x)} # x
  BY <1>4, PickIn
<1>7. g[x \ {Pick(x)}] = h[x \ {Pick(x)}]
  BY <1>2, <1>5, <1>6
<1>8. g[x] = h[x]
  BY <1>3, <1>4, <1>7 DEF IsSum
<1> QED BY <1>8

\* On a finite set there is one: its value for a set is made from the value the
\* next smaller set has in its own function.
LEMMA SumsExist == ASSUME NEW D, IsFiniteSet(D), NEW f PROVE \E g : IsSum(D, f, g)
<1> DEFINE T == {E \in FiniteSubsetsOf(D) : ~ \E g : IsSum(E, f, g)}
<1>1. SUFFICES ASSUME T # {} PROVE FALSE
  BY DEF FiniteSubsetsOf
<1>2. PICK E \in T : \A F \in T : ~ (F \subseteq E /\ F # E)
  <2> HIDE DEF T
  <2>1. T \subseteq FiniteSubsetsOf(D)
    BY DEF T
  <2> QED BY <1>1, <2>1, LeastSet
<1>3. E \in SUBSET D /\ IsFiniteSet(E)
  BY DEF FiniteSubsetsOf
<1> DEFINE sum(F) == CHOOSE g : IsSum(F, f, g)
           rest(s) == s \ {Pick(s)}
           G == [s \in SUBSET E |-> IF s = {} THEN 0 ELSE f[Pick(s)] + sum(rest(s))[rest(s)]]
<1>4. \A F \in SUBSET E : F # E => IsSum(F, f, sum(F))
  <2> SUFFICES ASSUME NEW F \in SUBSET E, F # E PROVE \E g : IsSum(F, f, g)
    OBVIOUS
  <2>1. F \in FiniteSubsetsOf(D)
    BY <1>3, FS_Subset DEF FiniteSubsetsOf
  <2> QED BY <1>2, <2>1
<1>5. \A s \in SUBSET E : s # {} => /\ rest(s) \in SUBSET E /\ rest(s) # E
                                    /\ rest(s) \in SUBSET s /\ IsFiniteSet(rest(s)) 
  BY <1>3, PickIn, FS_Subset
<1> HIDE DEF sum
<1>6. \A s \in SUBSET E : s # {} => G[rest(s)] = sum(rest(s))[rest(s)]
  <2> SUFFICES ASSUME NEW s \in SUBSET E, s # {} PROVE G[rest(s)] = sum(rest(s))[rest(s)]
    OBVIOUS
  <2> DEFINE u == rest(s)
  <2>1. u \in SUBSET E /\ u # E /\ IsFiniteSet(u)
    BY <1>5
  <2>2. IsSum(u, f, sum(u))
    BY <1>4, <2>1
  <2> HIDE DEF u
  <2>3. CASE u = {}
    <3>1. sum(u)[u] = 0
      BY <2>2, <2>3 DEF IsSum
    <3>2. G[u] = 0
      BY <2>1, <2>3
    <3> QED BY <3>1, <3>2 DEF u
  <2>4. CASE u # {}
    <3>1. rest(u) \in SUBSET E /\ rest(u) # E /\ rest(u) \in SUBSET u /\ IsFiniteSet(rest(u))
      BY <1>5, <2>1, <2>4
    <3>2. IsSum(rest(u), f, sum(rest(u)))
      BY <1>4, <3>1
    <3>3. rest(u) \in FiniteSubsetsOf(u \cap rest(u))
      BY <3>1 DEF FiniteSubsetsOf
    <3>4. sum(u)[rest(u)] = sum(rest(u))[rest(u)]
      <4> HIDE DEF rest
      <4> QED BY <2>2, <3>2, <3>3, SumsAgree
    <3>5. sum(u)[u] = f[Pick(u)] + sum(u)[rest(u)]
      BY <2>2, <2>4 DEF IsSum
    <3>6. G[u] = f[Pick(u)] + sum(rest(u))[rest(u)]
      BY <2>1, <2>4
    <3> QED BY <3>4, <3>5, <3>6 DEF u
  <2> QED BY <2>3, <2>4
<1>7. \A s \in SUBSET E : G[s] = IF s = {} THEN 0 ELSE f[Pick(s)] + sum(rest(s))[rest(s)]
  OBVIOUS
<1>8. G = [s \in SUBSET E |-> G[s]]
  OBVIOUS
<1> HIDE DEF G
<1>9. \A s \in SUBSET E : G[s] = IF s = {} THEN 0 ELSE f[Pick(s)] + G[s \ {Pick(s)}]
  BY <1>6, <1>7
<1>10. IsSum(E, f, G)
  BY <1>8, <1>9 DEF IsSum
<1> QED BY <1>2, <1>10

\* What Sum stands for.
LEMMA SumIs == ASSUME NEW D, IsFiniteSet(D), NEW f PROVE \E g : IsSum(D, f, g) /\ Sum(D, f) = g[D]
<1> DEFINE g == CHOOSE iter : IsSum(D, f, iter)
<1>1. IsSum(D, f, g)
  BY SumsExist
<1>2. Sum(D, f) = g[D]
  BY DEF Sum, MapThenSumSet, MapThenFoldSet, IsSum, Pick
<1> QED BY <1>1, <1>2

\* The two cases of the recursion.
LEMMA SumEmpty == ASSUME NEW f PROVE Sum({}, f) = 0
<1>1. IsFiniteSet({})
  BY FS_EmptySet
<1>2. PICK g : IsSum({}, f, g) /\ Sum({}, f) = g[{}]
  BY <1>1, SumIs
<1> QED BY <1>2 DEF IsSum

LEMMA SumPick ==
  ASSUME NEW D, IsFiniteSet(D), D # {}, NEW f
  PROVE  Sum(D, f) = f[Pick(D)] + Sum(D \ {Pick(D)}, f)
<1> DEFINE E == D \ {Pick(D)}
<1>1. IsFiniteSet(E)
  BY FS_Subset
<1>2. PICK g : IsSum(D, f, g) /\ Sum(D, f) = g[D]
  BY SumIs
<1>3. PICK h : IsSum(E, f, h) /\ Sum(E, f) = h[E]
  BY <1>1, SumIs
<1>4. E \in FiniteSubsetsOf(D \cap E)
  BY <1>1 DEF FiniteSubsetsOf
<1>5. g[E] = h[E]
  <2> HIDE DEF E
  <2> QED BY <1>2, <1>3, <1>4, SumsAgree
<1>6. g[D] = f[Pick(D)] + g[E]
  BY <1>2 DEF IsSum
<1> QED BY <1>2, <1>3, <1>5, <1>6

-----------------------------------------------------------------------------
\* A sum of integers is one.
LEMMA SumInt ==
  ASSUME NEW D, IsFiniteSet(D), NEW f, \A x \in D : f[x] \in Int
  PROVE  Sum(D, f) \in Int
<1> DEFINE T == {E \in FiniteSubsetsOf(D) : Sum(E, f) \notin Int}
<1>1. SUFFICES ASSUME T # {} PROVE FALSE
  BY DEF FiniteSubsetsOf
<1>2. PICK E \in T : \A F \in T : ~ (F \subseteq E /\ F # E)
  <2> HIDE DEF T
  <2>1. T \subseteq FiniteSubsetsOf(D)
    BY DEF T
  <2> QED BY <1>1, <2>1, LeastSet
<1>3. E \in SUBSET D /\ IsFiniteSet(E)
  BY DEF FiniteSubsetsOf
<1>4. E # {}
  BY SumEmpty
<1>5. Pick(E) \in E /\ E \ {Pick(E)} \in FiniteSubsetsOf(D)
  BY <1>3, <1>4, PickIn, FS_Subset DEF FiniteSubsetsOf
<1>6. Sum(E \ {Pick(E)}, f) \in Int
  BY <1>2, <1>5
<1>7. Sum(E, f) = f[Pick(E)] + Sum(E \ {Pick(E)}, f)
  BY <1>3, <1>4, SumPick
<1>8. Sum(E, f) \in Int
  BY <1>3, <1>5, <1>6, <1>7
<1> QED BY <1>8

\* Any element may be taken first.
LEMMA SumRemove ==
  ASSUME NEW D, IsFiniteSet(D), NEW f, \A x \in D : f[x] \in Int
  PROVE  \A x \in D : Sum(D, f) = f[x] + Sum(D \ {x}, f)
<1> DEFINE Fails(E) == \E x \in E : Sum(E, f) # f[x] + Sum(E \ {x}, f)
           T == {E \in FiniteSubsetsOf(D) : Fails(E)}
<1>1. SUFFICES ASSUME T # {} PROVE FALSE
  BY DEF FiniteSubsetsOf
<1>2. PICK E \in T : \A F \in T : ~ (F \subseteq E /\ F # E)
  <2> HIDE DEF T
  <2>1. T \subseteq FiniteSubsetsOf(D)
    BY DEF T
  <2> QED BY <1>1, <2>1, LeastSet
<1>3. E \in SUBSET D /\ \A F \in SUBSET E : IsFiniteSet(F) /\ Sum(F, f) \in Int
  <2>1. E \in SUBSET D /\ IsFiniteSet(E)
    BY DEF FiniteSubsetsOf
  <2> QED BY <2>1, FS_Subset, SumInt
<1>4. PICK x \in E : Sum(E, f) # f[x] + Sum(E \ {x}, f)
  OBVIOUS
<1> DEFINE p == Pick(E)
<1>5. p \in E /\ Sum(E, f) = f[p] + Sum(E \ {p}, f)
  BY <1>3, <1>4, PickIn, SumPick
<1>6. p # x
  BY <1>4, <1>5
<1>7. \A y \in E : ~ Fails(E \ {y})
  <2> SUFFICES ASSUME NEW y \in E PROVE ~ Fails(E \ {y})
    OBVIOUS
  <2>1. E \ {y} \in FiniteSubsetsOf(D) /\ E \ {y} \subseteq E /\ E \ {y} # E
    BY <1>3 DEF FiniteSubsetsOf
  <2> QED BY <1>2, <2>1
<1>8. Sum(E \ {p}, f) = f[x] + Sum((E \ {p}) \ {x}, f)
  BY <1>5, <1>6, <1>7
<1>9. Sum(E \ {x}, f) = f[p] + Sum((E \ {x}) \ {p}, f)
  BY <1>5, <1>6, <1>7
<1>10. PICK r \in Int : r = Sum((E \ {p}) \ {x}, f) /\ r = Sum((E \ {x}) \ {p}, f)
  <2>1. (E \ {p}) \ {x} = (E \ {x}) \ {p} /\ (E \ {p}) \ {x} \in SUBSET E
    OBVIOUS
  <2> QED BY <1>3, <2>1
<1>11. f[x] \in Int /\ f[p] \in Int
  BY <1>3, <1>5
<1> QED BY <1>4, <1>5, <1>8, <1>9, <1>10, <1>11

\* A new element adds its value.
LEMMA SumAdd ==
  ASSUME NEW D, IsFiniteSet(D), NEW x, x \notin D, NEW f, \A y \in D \cup {x} : f[y] \in Int
  PROVE  Sum(D \cup {x}, f) = f[x] + Sum(D, f)
<1>1. IsFiniteSet(D \cup {x}) /\ (D \cup {x}) \ {x} = D
  BY FS_AddElement
<1> QED BY <1>1, SumRemove

\* Sums of functions that agree on a set are the same.
LEMMA SumAgree ==
  ASSUME NEW D, IsFiniteSet(D), NEW f, NEW g, \A x \in D : f[x] = g[x]
  PROVE  Sum(D, f) = Sum(D, g)
<1> DEFINE T == {E \in FiniteSubsetsOf(D) : Sum(E, f) # Sum(E, g)}
<1>1. SUFFICES ASSUME T # {} PROVE FALSE
  BY DEF FiniteSubsetsOf
<1>2. PICK E \in T : \A F \in T : ~ (F \subseteq E /\ F # E)
  <2> HIDE DEF T
  <2>1. T \subseteq FiniteSubsetsOf(D)
    BY DEF T
  <2> QED BY <1>1, <2>1, LeastSet
<1>3. E \in SUBSET D /\ IsFiniteSet(E) /\ E # {}
  BY SumEmpty DEF FiniteSubsetsOf
<1>4. Pick(E) \in E /\ E \ {Pick(E)} \in FiniteSubsetsOf(D)
  BY <1>3, PickIn, FS_Subset DEF FiniteSubsetsOf
<1>5. Sum(E \ {Pick(E)}, f) = Sum(E \ {Pick(E)}, g)
  BY <1>2, <1>4
<1>6. Sum(E, f) = Sum(E, g)
  BY <1>3, <1>4, <1>5, SumPick
<1> QED BY <1>6

\* Changing a function at one point changes the sum by the difference.
LEMMA SumChange ==
  ASSUME NEW D, IsFiniteSet(D), NEW x \in D, NEW f, NEW g,
         \A y \in D : f[y] \in Int /\ g[y] \in Int,
         \A y \in D \ {x} : f[y] = g[y]
  PROVE  Sum(D, g) = Sum(D, f) + (g[x] - f[x])
<1>1. IsFiniteSet(D \ {x})
  BY FS_Subset
<1>2. Sum(D \ {x}, f) = Sum(D \ {x}, g) /\ Sum(D \ {x}, f) \in Int
  BY <1>1, SumAgree, SumInt
<1>3. Sum(D, f) = f[x] + Sum(D \ {x}, f) /\ Sum(D, g) = g[x] + Sum(D \ {x}, g)
  BY SumRemove
<1> QED BY <1>2, <1>3

\* A sum of numbers that are not negative is not, and grows with its set.
LEMMA SumGrows ==
  ASSUME NEW D, IsFiniteSet(D), NEW f, \A x \in D : f[x] \in Nat
  PROVE  \A C \in SUBSET D : Sum(C, f) \in Nat /\ Sum(C, f) <= Sum(D, f)
<1> DEFINE Fails(E) == \E C \in SUBSET E : ~ (Sum(C, f) \in Nat /\ Sum(C, f) <= Sum(E, f))
           T == {E \in FiniteSubsetsOf(D) : Fails(E)}
<1>1. SUFFICES ASSUME T # {} PROVE FALSE
  <2>1. D \in FiniteSubsetsOf(D)
    BY DEF FiniteSubsetsOf
  <2> QED BY <2>1
<1>2. PICK E \in T : \A F \in T : ~ (F \subseteq E /\ F # E)
  <2> HIDE DEF T
  <2>1. T \subseteq FiniteSubsetsOf(D)
    BY DEF T
  <2> QED BY <1>1, <2>1, LeastSet
<1>3. E \in SUBSET D /\ \A F \in SUBSET E : IsFiniteSet(F) /\ Sum(F, f) \in Int
  <2>1. E \in SUBSET D /\ IsFiniteSet(E)
    BY DEF FiniteSubsetsOf
  <2> QED BY <2>1, FS_Subset, SumInt
<1>4. PICK C \in SUBSET E : ~ (Sum(C, f) \in Nat /\ Sum(C, f) <= Sum(E, f))
  OBVIOUS
<1>5. \A y \in E : ~ Fails(E \ {y})
  <2> SUFFICES ASSUME NEW y \in E PROVE ~ Fails(E \ {y})
    OBVIOUS
  <2>1. E \ {y} \in FiniteSubsetsOf(D) /\ E \ {y} \subseteq E /\ E \ {y} # E
    BY <1>3 DEF FiniteSubsetsOf
  <2> QED BY <1>2, <2>1
<1>6. \A y \in E : Sum(E, f) = f[y] + Sum(E \ {y}, f) /\ f[y] \in Nat
  BY <1>3, SumRemove
<1>7. CASE C = E
  <2>1. CASE E = {}
    BY <1>4, <1>7, <2>1, SumEmpty
  <2>2. CASE E # {}
    <3>1. PICK y \in E : TRUE
      BY <2>2
    <3>2. Sum(E \ {y}, f) \in Nat
      BY <1>5
    <3> QED BY <1>4, <1>6, <1>7, <3>2
  <2> QED BY <2>1, <2>2
<1>8. CASE C # E
  <2>1. PICK y \in E : y \notin C
    BY <1>8
  <2>2. Sum(C, f) \in Nat /\ Sum(C, f) <= Sum(E \ {y}, f)
    BY <1>5, <2>1
  <2>3. Sum(E \ {y}, f) \in Int
    BY <1>3
  <2> QED BY <1>4, <1>6, <2>2, <2>3
<1> QED BY <1>7, <1>8

\* Nothing positive adds up to nothing positive.
LEMMA SumSign ==
  ASSUME NEW D, IsFiniteSet(D), NEW f, \A x \in D : f[x] \in Int /\ f[x] <= 0
  PROVE  Sum(D, f) <= 0
<1> DEFINE T == {E \in FiniteSubsetsOf(D) : ~ (Sum(E, f) <= 0)}
<1>1. SUFFICES ASSUME T # {} PROVE FALSE
  BY DEF FiniteSubsetsOf
<1>2. PICK E \in T : \A F \in T : ~ (F \subseteq E /\ F # E)
  <2> HIDE DEF T
  <2>1. T \subseteq FiniteSubsetsOf(D)
    BY DEF T
  <2> QED BY <1>1, <2>1, LeastSet
<1>3. E \in SUBSET D /\ IsFiniteSet(E) /\ E # {}
  BY SumEmpty DEF FiniteSubsetsOf
<1> DEFINE p == Pick(E)
<1>4. p \in E /\ E \ {p} \in FiniteSubsetsOf(D)
  BY <1>3, PickIn, FS_Subset DEF FiniteSubsetsOf
<1>5. Sum(E \ {p}, f) <= 0
  BY <1>2, <1>4
<1>6. Sum(E \ {p}, f) \in Int
  <2>1. IsFiniteSet(E \ {p})
    BY <1>4 DEF FiniteSubsetsOf
  <2> QED BY <1>3, <2>1, SumInt
<1>7. Sum(E, f) = f[p] + Sum(E \ {p}, f) /\ f[p] \in Int /\ f[p] <= 0
  BY <1>3, <1>4, SumPick
<1> QED BY <1>2, <1>5, <1>6, <1>7
=============================================================================
