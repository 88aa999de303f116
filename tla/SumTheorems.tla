----------------------------- MODULE SumTheorems ----------------------------
(***************************************************************************)
(* What the community operator SumFunctionOnSet computes on a finite set:  *)
(* the sum over the empty set is 0, an element may be taken out of it in   *)
(* any order, two functions that agree have one sum, and changing a        *)
(* function at one element changes its sum by the difference.              *)
(*                                                                         *)
(* SumFunctionOnSet is a function defined by recursion over the subsets of *)
(* its index set, from a CHOOSE.  That such a function exists, and every   *)
(* law of it, is shown by a minimal counterexample: a nonempty set of      *)
(* subsets of a finite set has a member no other member lies strictly in.  *)
(***************************************************************************)
EXTENDS Integers, Functions, FiniteSetTheorems, WellFoundedInduction, TLAPS

Pick(s) == CHOOSE x \in s : TRUE

\* The recursion equation of the sum of f over the subset s.
SumStep(f, g, s) == IF s = {} THEN 0 ELSE f[Pick(s)] + g[s \ {Pick(s)}]

IsSum(f, S, g) == g = [s \in SUBSET S |-> SumStep(f, g, s)]

-----------------------------------------------------------------------------
\* A nonempty set of subsets of a finite set has a minimal member.
LEMMA MinimalSubset ==
    ASSUME NEW S, IsFiniteSet(S), NEW B \in SUBSET (SUBSET S), B # {}
    PROVE  \E m \in B : \A b \in B : b \subseteq m => b = m
<1>1. FiniteSubsetsOf(S) = SUBSET S
  BY FS_FiniteSubsetsOfFinite
<1>2. IsWellFoundedOn(StrictSubsetOrdering(S), SUBSET S)
  BY <1>1, FS_StrictSubsetOrderingWellFounded
<1>3. PICK m \in B : \A b \in B : ~ (<<b, m>> \in StrictSubsetOrdering(S))
  BY <1>2, WFMin
<1>4. ASSUME NEW b \in B, b \subseteq m
      PROVE  b = m
  <2>1. <<b, m>> \in (SUBSET S) \X (SUBSET S)
    OBVIOUS
  <2> QED
    BY <1>3, <1>4, <2>1 DEF StrictSubsetOrdering
<1> QED
  BY <1>4

LEMMA PickIsElement ==
    ASSUME NEW s, s # {}
    PROVE  Pick(s) \in s
  BY DEF Pick

LEMMA SumIsFunction ==
    ASSUME NEW f, NEW S, NEW g, IsSum(f, S, g)
    PROVE  g = [s \in SUBSET S |-> g[s]]
<1> DEFINE k == [s \in SUBSET S |-> SumStep(f, g, s)]
<1>1. g = k
  BY DEF IsSum
<1>2. DOMAIN k = SUBSET S /\ k = [s \in DOMAIN k |-> k[s]]
  OBVIOUS
<1> HIDE DEF k
<1> QED
  BY <1>1, <1>2

LEMMA SumEquation ==
    ASSUME NEW f, NEW S, NEW g, IsSum(f, S, g), NEW s \in SUBSET S
    PROVE  g[s] = SumStep(f, g, s)
<1> DEFINE k == [u \in SUBSET S |-> SumStep(f, g, u)]
<1>1. g = k
  BY DEF IsSum
<1>2. k[s] = SumStep(f, g, s)
  OBVIOUS
<1> HIDE DEF k
<1> QED
  BY <1>1, <1>2

\* A function that meets the equation at every subset is a solution.
LEMMA SumFromEquations ==
    ASSUME NEW f, NEW S, NEW g, g = [s \in SUBSET S |-> g[s]],
           \A s \in SUBSET S : g[s] = SumStep(f, g, s)
    PROVE  IsSum(f, S, g)
<1>1. [s \in SUBSET S |-> g[s]] = [s \in SUBSET S |-> SumStep(f, g, s)]
  OBVIOUS
<1> QED
  BY <1>1 DEF IsSum

\* The recursion has at most one solution.
LEMMA SumUnique ==
    ASSUME NEW f, NEW S, IsFiniteSet(S), NEW g, NEW h, IsSum(f, S, g), IsSum(f, S, h)
    PROVE  g = h
<1> DEFINE B == {s \in SUBSET S : g[s] # h[s]}
<1>1. ASSUME B # {} PROVE FALSE
  <2>1. PICK m \in B : \A b \in B : b \subseteq m => b = m
    <3>1. B \in SUBSET (SUBSET S)
      OBVIOUS
    <3> HIDE DEF B
    <3> QED
      BY <1>1, <3>1, MinimalSubset
  <2>2. g[m] = SumStep(f, g, m) /\ h[m] = SumStep(f, h, m)
    BY SumEquation
  <2>3. m # {}
    BY <2>2 DEF SumStep
  <2>4. m \ {Pick(m)} \in SUBSET S /\ m \ {Pick(m)} # m
    BY <2>3, PickIsElement
  <2>5. g[m \ {Pick(m)}] = h[m \ {Pick(m)}]
    BY <2>1, <2>4
  <2> QED
    BY <2>2, <2>3, <2>5 DEF SumStep
<1>2. \A s \in SUBSET S : g[s] = h[s]
  BY <1>1
<1>3. g = [s \in SUBSET S |-> g[s]] /\ h = [s \in SUBSET S |-> h[s]]
  BY SumIsFunction
<1> QED
  BY <1>2, <1>3

\* A solution on S is a solution on every subset of S.
LEMMA SumRestricts ==
    ASSUME NEW f, NEW S, NEW T \in SUBSET S, NEW g, IsSum(f, S, g)
    PROVE  IsSum(f, T, [s \in SUBSET T |-> g[s]])
<1> DEFINE h == [s \in SUBSET T |-> g[s]]
<1>1. ASSUME NEW s \in SUBSET T
      PROVE  h[s] = SumStep(f, h, s)
  <2>1. h[s] = g[s] /\ g[s] = SumStep(f, g, s)
    BY DEF IsSum
  <2>2. h[s \ {Pick(s)}] = g[s \ {Pick(s)}]
    OBVIOUS
  <2> QED
    BY <2>1, <2>2 DEF SumStep
<1> QED
  BY <1>1 DEF IsSum

\* The recursion has a solution on every finite set.
LEMMA SumExists ==
    ASSUME NEW f, NEW S, IsFiniteSet(S)
    PROVE  \E g : IsSum(f, S, g)
<1> DEFINE B == {s \in SUBSET S : ~ \E g : IsSum(f, s, g)}
<1>1. ASSUME B # {} PROVE FALSE
  <2>1. PICK m \in B : \A b \in B : b \subseteq m => b = m
    <3>1. B \in SUBSET (SUBSET S)
      OBVIOUS
    <3> HIDE DEF B
    <3> QED
      BY <1>1, <3>1, MinimalSubset
  <2> DEFINE G(t) == CHOOSE g : IsSum(f, t, g)
             k == [s \in SUBSET m |->
                     IF s = {} THEN 0
                     ELSE f[Pick(s)] + G(s \ {Pick(s)})[s \ {Pick(s)}]]
  <2>2. ASSUME NEW t \in SUBSET m, t # m
        PROVE  IsSum(f, t, G(t)) /\ IsFiniteSet(t)
    <3>1. t \in SUBSET S /\ t \notin B
      BY <2>1, <2>2
    <3> QED
      BY <3>1, FS_Subset
  <2>3. ASSUME NEW t \in SUBSET m, t # m
        PROVE  k[t] = G(t)[t]
    <3>1. G(t)[t] = SumStep(f, G(t), t)
      <4>1. IsSum(f, t, G(t)) /\ t \in SUBSET t
        BY <2>2, <2>3
      <4>2. \A g : IsSum(f, t, g) => g[t] = SumStep(f, g, t)
        BY <4>1, SumEquation
      <4> HIDE DEF G
      <4> QED
        BY <4>1, <4>2
    <3>2. CASE t = {}
      BY <3>1, <3>2 DEF SumStep
    <3>3. CASE t # {}
      <4> DEFINE u == t \ {Pick(t)}
      <4>1. u \in SUBSET t /\ u \in SUBSET m /\ u # m
        <5>1. Pick(t) \in t
          BY <3>3, PickIsElement
        <5> QED
          BY <2>3, <5>1
      <4>2. IsSum(f, u, [s \in SUBSET u |-> G(t)[s]])
        <5>1. \A g : IsSum(f, t, g) => IsSum(f, u, [s \in SUBSET u |-> g[s]])
          BY <4>1, SumRestricts
        <5>2. IsSum(f, t, G(t))
          BY <2>2, <2>3
        <5> HIDE DEF G, u
        <5> QED
          BY <5>1, <5>2
      <4>3. IsSum(f, u, G(u)) /\ IsFiniteSet(u)
        BY <2>2, <4>1
      <4>4. G(u) = [s \in SUBSET u |-> G(t)[s]]
        BY <4>2, <4>3, SumUnique
      <4>5. G(u)[u] = G(t)[u]
        BY <4>4
      <4> QED
        BY <3>1, <3>3, <4>5 DEF SumStep
    <3> QED
      BY <3>2, <3>3
  <2>4. ASSUME NEW s \in SUBSET m
        PROVE  k[s] = SumStep(f, k, s)
    <3>1. CASE s = {}
      BY <3>1 DEF SumStep
    <3>2. CASE s # {}
      <4> DEFINE u == s \ {Pick(s)}
      <4>1. u \in SUBSET m /\ u # m
        BY <3>2, PickIsElement
      <4>2. k[u] = G(u)[u]
        BY <2>3, <4>1
      <4> QED
        BY <3>2, <4>2 DEF SumStep
    <3> QED
      BY <3>1, <3>2
  <2>5. IsSum(f, m, k)
    BY <2>4 DEF IsSum
  <2> QED
    BY <2>5
<1> QED
  BY <1>1

-----------------------------------------------------------------------------
\* The community operator is the value of such a solution.
LEMMA SumIsSolution ==
    ASSUME NEW f, NEW S
    PROVE  SumFunctionOnSet(f, S) = (CHOOSE g : IsSum(f, S, g))[S]
<1>1. SumFunctionOnSet(f, S) =
         (CHOOSE g : g = [s \in SUBSET S |->
             IF s = {} THEN 0
             ELSE LET x == CHOOSE x \in s : TRUE IN f[x] + g[s \ {x}]])[S]
  BY DEF SumFunctionOnSet, FoldFunctionOnSet, MapThenFoldSet
<1> QED
  BY <1>1, Zenon DEF IsSum, SumStep, Pick

LEMMA SumOfSolution ==
    ASSUME NEW f, NEW S, IsFiniteSet(S), NEW g, IsSum(f, S, g), NEW T \in SUBSET S
    PROVE  SumFunctionOnSet(f, T) = g[T]
<1> DEFINE h == CHOOSE h : IsSum(f, T, h)
           k == [s \in SUBSET T |-> g[s]]
<1>1. IsFiniteSet(T)
  BY FS_Subset
<1>2. IsSum(f, T, h)
  BY <1>1, SumExists
<1>3. IsSum(f, T, k)
  BY SumRestricts
<1>4. k[T] = g[T]
  OBVIOUS
<1>5. SumFunctionOnSet(f, T) = h[T]
  BY SumIsSolution
<1> HIDE DEF h, k
<1>6. h = k
  BY <1>1, <1>2, <1>3, SumUnique
<1> QED
  BY <1>4, <1>5, <1>6

\* A sum is 0 on the empty set, and on any other the value at one chosen
\* element plus the sum of the rest.
LEMMA SumPick ==
    ASSUME NEW f, NEW S, IsFiniteSet(S)
    PROVE  SumFunctionOnSet(f, S) =
              IF S = {} THEN 0
              ELSE f[Pick(S)] + SumFunctionOnSet(f, S \ {Pick(S)})
<1>1. PICK g : IsSum(f, S, g)
  BY SumExists
<1>2. g[S] = SumStep(f, g, S)
  BY <1>1, SumEquation
<1>3. \A T \in SUBSET S : SumFunctionOnSet(f, T) = g[T]
  BY <1>1, SumOfSolution
<1> QED
  BY <1>2, <1>3 DEF SumStep

-----------------------------------------------------------------------------
\* The laws of sums the invariants are proved from.

\* Nothing adds up to nothing.
LEMMA SumEmpty ==
    ASSUME NEW f
    PROVE  SumFunctionOnSet(f, {}) = 0
  BY SumPick, FS_EmptySet

\* A sum over one element is the value there.
LEMMA SumSingleton ==
    ASSUME NEW f, NEW x, f[x] \in Int
    PROVE  SumFunctionOnSet(f, {x}) = f[x]
<1>1. Pick({x}) = x /\ {x} \ {Pick({x})} = {}
  BY PickIsElement
<1>2. SumFunctionOnSet(f, {x}) = f[x] + SumFunctionOnSet(f, {})
  <2> DEFINE S == {x}
  <2>1. IsFiniteSet(S)
    BY FS_Singleton
  <2>2. S # {}
    OBVIOUS
  <2>3. Pick(S) = x /\ S \ {Pick(S)} = {}
    BY <1>1
  <2> HIDE DEF S
  <2>4. SumFunctionOnSet(f, S) = f[Pick(S)] + SumFunctionOnSet(f, S \ {Pick(S)})
    BY <2>1, <2>2, SumPick, Zenon
  <2>5. SumFunctionOnSet(f, S) = f[x] + SumFunctionOnSet(f, {})
    BY <2>3, <2>4, Zenon
  <2> QED
    BY <2>5 DEF S
<1> QED
  BY <1>2, SumEmpty

\* A sum of integers is an integer.
LEMMA SumInt ==
    ASSUME NEW f, NEW S, IsFiniteSet(S), \A x \in S : f[x] \in Int
    PROVE  SumFunctionOnSet(f, S) \in Int
<1> DEFINE B == {s \in SUBSET S : SumFunctionOnSet(f, s) \notin Int}
<1>1. ASSUME B # {} PROVE FALSE
  <2>1. PICK m \in B : \A b \in B : b \subseteq m => b = m
    <3>1. B \in SUBSET (SUBSET S)
      OBVIOUS
    <3> HIDE DEF B
    <3> QED
      BY <1>1, <3>1, MinimalSubset
  <2>2. IsFiniteSet(m)
    BY FS_Subset
  <2>3. m # {}
    BY SumEmpty
  <2>4. Pick(m) \in m
    BY <2>3, PickIsElement
  <2>5. m \ {Pick(m)} \notin B
    BY <2>1, <2>4
  <2>6. SumFunctionOnSet(f, m \ {Pick(m)}) \in Int /\ f[Pick(m)] \in Int
    BY <2>4, <2>5
  <2>7. SumFunctionOnSet(f, m) = f[Pick(m)] + SumFunctionOnSet(f, m \ {Pick(m)})
    BY <2>2, <2>3, SumPick
  <2> QED
    BY <2>6, <2>7
<1> QED
  BY <1>1

\* Any element may be taken out of a sum, not only the chosen one.
LEMMA SumRemove ==
    ASSUME NEW f, NEW S, IsFiniteSet(S), \A x \in S : f[x] \in Int, NEW x \in S
    PROVE  SumFunctionOnSet(f, S) = f[x] + SumFunctionOnSet(f, S \ {x})
<1> DEFINE Sum(s) == SumFunctionOnSet(f, s)
           B == {s \in SUBSET S : \E y \in s : Sum(s) # f[y] + Sum(s \ {y})}
<1>1. ASSUME B # {} PROVE FALSE
  <2>1. PICK m \in B : \A b \in B : b \subseteq m => b = m
    <3>1. B \in SUBSET (SUBSET S)
      OBVIOUS
    <3> HIDE DEF B
    <3> QED
      BY <1>1, <3>1, MinimalSubset
  <2>2. PICK y \in m : Sum(m) # f[y] + Sum(m \ {y})
    OBVIOUS
  <2> DEFINE p == Pick(m)
  <2>3. p \in m
    BY PickIsElement
  <2>4. \A s \in SUBSET m : IsFiniteSet(s) /\ Sum(s) \in Int
    <3> SUFFICES ASSUME NEW s \in SUBSET m PROVE IsFiniteSet(s) /\ Sum(s) \in Int
      OBVIOUS
    <3>1. IsFiniteSet(s)
      BY FS_Subset
    <3>2. \A z \in s : f[z] \in Int
      OBVIOUS
    <3> QED
      BY <3>1, <3>2, SumInt
  <2>5. Sum(m) = f[p] + Sum(m \ {p})
    BY <2>2, <2>4, SumPick
  <2>6. p # y
    BY <2>2, <2>5
  <2>7. Sum(m \ {p}) = f[y] + Sum((m \ {p}) \ {y})
    <3>1. m \ {p} \in SUBSET S /\ m \ {p} \notin B
      BY <2>1, <2>3
    <3>2. y \in m \ {p}
      BY <2>6
    <3> HIDE DEF Sum, p
    <3> QED
      BY <3>1, <3>2
  <2>8. Sum(m \ {y}) = f[p] + Sum((m \ {y}) \ {p})
    <3>1. m \ {y} \in SUBSET S /\ m \ {y} \notin B
      BY <2>1, <2>2
    <3>2. p \in m \ {y}
      BY <2>3, <2>6
    <3> HIDE DEF Sum, p
    <3> QED
      BY <3>1, <3>2
  <2>9. (m \ {y}) \ {p} = (m \ {p}) \ {y}
    OBVIOUS
  <2>10. f[p] \in Int /\ f[y] \in Int /\ Sum((m \ {p}) \ {y}) \in Int
    BY <2>3, <2>4
  <2> HIDE DEF Sum, p
  <2> QED
    BY <2>2, <2>5, <2>7, <2>8, <2>9, <2>10
<1>2. S \notin B
  BY <1>1
<1> QED
  BY <1>2

\* Functions that agree on a set have one sum over it.
LEMMA SumEqual ==
    ASSUME NEW f, NEW h, NEW S, IsFiniteSet(S), \A x \in S : f[x] = h[x]
    PROVE  SumFunctionOnSet(f, S) = SumFunctionOnSet(h, S)
<1> DEFINE B == {s \in SUBSET S : SumFunctionOnSet(f, s) # SumFunctionOnSet(h, s)}
<1>1. ASSUME B # {} PROVE FALSE
  <2>1. PICK m \in B : \A b \in B : b \subseteq m => b = m
    <3>1. B \in SUBSET (SUBSET S)
      OBVIOUS
    <3> HIDE DEF B
    <3> QED
      BY <1>1, <3>1, MinimalSubset
  <2>2. IsFiniteSet(m)
    BY FS_Subset
  <2>3. m # {}
    BY SumEmpty
  <2>4. Pick(m) \in m
    BY <2>3, PickIsElement
  <2>5. m \ {Pick(m)} \notin B
    BY <2>1, <2>4
  <2>6. SumFunctionOnSet(f, m) = f[Pick(m)] + SumFunctionOnSet(f, m \ {Pick(m)})
    BY <2>2, <2>3, SumPick
  <2>7. SumFunctionOnSet(h, m) = h[Pick(m)] + SumFunctionOnSet(h, m \ {Pick(m)})
    BY <2>2, <2>3, SumPick
  <2> QED
    BY <2>4, <2>5, <2>6, <2>7
<1> QED
  BY <1>1

\* A sum grows by the value at an element added to its set.
LEMMA SumAdd ==
    ASSUME NEW f, NEW h, NEW S, IsFiniteSet(S), NEW x, x \notin S,
           \A y \in S : f[y] \in Int /\ h[y] = f[y], h[x] \in Int
    PROVE  SumFunctionOnSet(h, S \cup {x}) = SumFunctionOnSet(f, S) + h[x]
<1>1. IsFiniteSet(S \cup {x}) /\ (S \cup {x}) \ {x} = S
  BY FS_AddElement
<1>2. \A y \in S \cup {x} : h[y] \in Int
  OBVIOUS
<1>3. SumFunctionOnSet(h, S \cup {x}) = h[x] + SumFunctionOnSet(h, S)
  BY <1>1, <1>2, SumRemove
<1>4. SumFunctionOnSet(h, S) = SumFunctionOnSet(f, S)
  BY SumEqual
<1>5. SumFunctionOnSet(f, S) \in Int
  BY SumInt
<1> QED
  BY <1>3, <1>4, <1>5

\* A function changed at one element: its sum changes by the difference.
LEMMA SumUpdate ==
    ASSUME NEW f, NEW h, NEW S, IsFiniteSet(S), NEW x \in S,
           \A y \in S : f[y] \in Int /\ h[y] \in Int,
           \A y \in S \ {x} : h[y] = f[y]
    PROVE  SumFunctionOnSet(h, S) = SumFunctionOnSet(f, S) + h[x] - f[x]
<1>1. IsFiniteSet(S \ {x})
  BY FS_RemoveElement
<1>2. SumFunctionOnSet(h, S) = h[x] + SumFunctionOnSet(h, S \ {x})
  BY SumRemove
<1>3. SumFunctionOnSet(f, S) = f[x] + SumFunctionOnSet(f, S \ {x})
  BY SumRemove
<1>4. SumFunctionOnSet(h, S \ {x}) = SumFunctionOnSet(f, S \ {x})
  BY <1>1, SumEqual
<1>5. SumFunctionOnSet(f, S \ {x}) \in Int
  BY <1>1, SumInt
<1> QED
  BY <1>2, <1>3, <1>4, <1>5
=============================================================================
