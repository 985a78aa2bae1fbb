-------------------------- MODULE DashboardProofs --------------------------
(***************************************************************************)
(* Theorems about Dashboard, for any tree of segments, any units,          *)
(* activities, versions and amounts: the bars and the waterfall add up to  *)
(* the profit that is shown, and a click on a bar shows what the bar had.  *)
(*                                                                         *)
(* The sums of FiniteSetsExt are folds.  On a finite set a fold is the one *)
(* function on its subsets that adds an element at a time (Adds), and so a *)
(* sum may be taken by parts (SumByParts).  Each row of the scope is in    *)
(* exactly one bar (OneGroup): the way up from a segment has one child of  *)
(* each segment on it and one root, because the tree has no cycle; and a   *)
(* row is not below a segment and in a unit of it at the same time, because*)
(* units belong to segments without children.  A waterfall is the list of  *)
(* the changes of such parts, and cutting a list keeps its sum.            *)
(*                                                                         *)
(* Inv says how the state of the screen follows from the address and from  *)
(* the readings that were received.  That it is inductive is the proof that*)
(* every handler changes the address first and all the rest from it.  What *)
(* a click shows then follows from the filters that its address stands for *)
(* (RoundTrip): they keep the versions, so nothing is read again, and they *)
(* leave the rows of the bar (ClickSegment, ClickUnit, ClickCause).        *)
(***************************************************************************)
EXTENDS Dashboard, SequenceTheorems, FiniteSetTheorems, WellFoundedInduction, TLAPS

-----------------------------------------------------------------------------
\* Sums over finite sets.

LEMMA NatInductionSet ==
  ASSUME NEW S, 0 \in S, \A n \in Nat : n \in S => n + 1 \in S
  PROVE  Nat \subseteq S
<1>. SUFFICES ASSUME Nat \ S # {} PROVE FALSE
  OBVIOUS
<1>1. \E x \in Nat \ S : \A y \in Nat \ S : ~(<<y, x>> \in OpToRel(<, Nat))
  BY NatLessThanWellFounded, WFMin, Nat \ S \subseteq Nat
<1>2. \E x \in Nat \ S : \A y \in Nat \ S : ~(y < x)
  BY ONLY <1>1, Zenon DEF OpToRel
<1>. QED  BY <1>2

\* A property of sets that the empty set has, and a set with one element more,
\* all finite subsets have.
LEMMA SubsetInduction ==
  ASSUME NEW D, IsFiniteSet(D), NEW P \in SUBSET SUBSET D,
         {} \in P, \A s \in SUBSET D : s # {} /\ (\A x \in s : s \ {x} \in P) => s \in P
  PROVE  P = SUBSET D
<1>. DEFINE N == {n \in Nat : \A s \in SUBSET D : Cardinality(s) = n => s \in P}
<1>1. 0 \in N
  BY FS_EmptySet, FS_Subset
<1>2. ASSUME NEW n \in Nat, n \in N PROVE n + 1 \in N
  <2>1. SUFFICES ASSUME NEW s \in SUBSET D, Cardinality(s) = n + 1 PROVE s \in P
    OBVIOUS
  <2>2. IsFiniteSet(s)
    BY FS_Subset
  <2>3. Cardinality({}) = 0
    BY FS_EmptySet
  <2>4. s # {}
    BY <2>1, <2>3
  <2>5. ASSUME NEW x \in s PROVE s \ {x} \in P
    <3>1. Cardinality(s \ {x}) = Cardinality(s) - 1
      BY <2>2, FS_RemoveElement
    <3>. QED  BY <1>2, <2>1, <3>1
  <2>. QED  BY <2>4, <2>5
<1>. HIDE DEF N
<1>3. Nat \subseteq N
  BY <1>1, <1>2, NatInductionSet
<1>4. \A s \in SUBSET D : Cardinality(s) \in Nat
  BY FS_Subset, FS_CardinalityType
<1>. QED  BY <1>3, <1>4 DEF N

\* g gives the sums of f.
Adds(g, f, D) ==
  /\ g \in [SUBSET D -> Int]
  /\ g[{}] = 0
  /\ \A s \in SUBSET D : \A x \in s : g[s] = f[x] + g[s \ {x}]

LEMMA SumIsOf ==
  ASSUME NEW D, IsFiniteSet(D), NEW f, \A x \in D : f[x] \in Int, NEW g, Adds(g, f, D)
  PROVE  SumFunctionOnSet(f, D) = g[D]
<1>. DEFINE iter[s \in SUBSET D] == IF s = {} THEN 0 ELSE LET x == CHOOSE x \in s : TRUE IN f[x] + iter[s \ {x}]
<1>1. g = [s \in SUBSET D |-> IF s = {} THEN 0 ELSE LET x == CHOOSE x \in s : TRUE IN f[x] + g[s \ {x}]]
  BY DEF Adds
<1>2. iter = [s \in SUBSET D |-> IF s = {} THEN 0 ELSE LET x == CHOOSE x \in s : TRUE IN f[x] + iter[s \ {x}]]
  BY <1>1
<1>3. SumFunctionOnSet(f, D) = iter[D]
  BY DEF SumFunctionOnSet, FoldFunctionOnSet, MapThenFoldSet
<1>. HIDE DEF iter
<1>. DEFINE P == {s \in SUBSET D : iter[s] = g[s]}
<1>4. {} \in P
  BY <1>2 DEF Adds
<1>5. ASSUME NEW s \in SUBSET D, s # {}, \A x \in s : s \ {x} \in P PROVE s \in P
  <2>. DEFINE x == CHOOSE x \in s : TRUE
  <2>1. x \in s
    BY <1>5
  <2>2. iter[s] = f[x] + iter[s \ {x}]
    BY <1>2, <1>5
  <2>3. g[s] = f[x] + g[s \ {x}]
    BY <2>1 DEF Adds
  <2>. QED  BY <1>5, <2>1, <2>2, <2>3
<1>6. P \in SUBSET SUBSET D
  OBVIOUS
<1>. HIDE DEF P
<1>7. P = SUBSET D
  BY <1>4, <1>5, <1>6, SubsetInduction
<1>8. D \in P
  BY <1>7
<1>. QED  BY <1>3, <1>8 DEF P

LEMMA SumsExist ==
  ASSUME NEW D, IsFiniteSet(D), NEW f, \A x \in D : f[x] \in Int
  PROVE  \E g : Adds(g, f, D)
<1>. DEFINE P == {T \in SUBSET D : \E g : Adds(g, f, T)}
<1>1. {} \in P
  <2>1. Adds([s \in SUBSET {} |-> 0], f, {})
    BY DEF Adds
  <2>. QED  BY <2>1
<1>2. ASSUME NEW T \in SUBSET D, T # {}, \A x \in T : T \ {x} \in P PROVE T \in P
  <2>1. PICK x \in T : TRUE
    BY <1>2
  <2>2. PICK g0 : Adds(g0, f, T \ {x})
    BY <1>2, <2>1
  <2>. DEFINE g == [s \in SUBSET T |-> g0[s \ {x}] + (IF x \in s THEN f[x] ELSE 0)]
  <2>3. f[x] \in Int
    BY <2>1
  <2>4. \A s \in SUBSET T : s \ {x} \in SUBSET (T \ {x}) /\ g0[s \ {x}] \in Int
    BY <2>2 DEF Adds
  <2>5. g \in [SUBSET T -> Int]
    <3>1. ASSUME NEW s \in SUBSET T PROVE g0[s \ {x}] + (IF x \in s THEN f[x] ELSE 0) \in Int
      <4>1. g0[s \ {x}] \in Int
        BY <2>4
      <4>2. (IF x \in s THEN f[x] ELSE 0) \in Int
        BY <2>3
      <4>. QED  BY <4>1, <4>2
    <3>. QED  BY <3>1
  <2>6. g[{}] = 0
    <3>1. {} \ {x} = {}
      OBVIOUS
    <3>. QED  BY <2>2, <3>1 DEF Adds
  <2>7. ASSUME NEW s \in SUBSET T, NEW y \in s PROVE g[s] = f[y] + g[s \ {y}]
    <3>1. CASE y = x
      <4>1. (s \ {x}) \ {x} = s \ {x}
        OBVIOUS
      <4>2. g[s \ {x}] = g0[s \ {x}] + 0
        BY <4>1
      <4>. QED  BY <2>3, <2>4, <2>7, <3>1, <4>2
    <3>2. CASE y # x
      <4>1. y \in s \ {x} /\ (s \ {x}) \ {y} = (s \ {y}) \ {x} /\ (x \in s <=> x \in s \ {y})
        BY <3>2, <2>7
      <4>2. g0[s \ {x}] = f[y] + g0[(s \ {y}) \ {x}]
        BY <2>2, <2>4, <4>1 DEF Adds
      <4>3. f[y] \in Int /\ g0[(s \ {y}) \ {x}] \in Int /\ s \ {y} \in SUBSET T
        BY <2>4
      <4>. QED  BY <2>3, <2>4, <4>1, <4>2, <4>3
    <3>. QED  BY <3>1, <3>2
  <2>. HIDE DEF g
  <2>8. Adds(g, f, T)
    BY <2>5, <2>6, <2>7 DEF Adds
  <2>. QED  BY <2>8
<1>3. P \in SUBSET SUBSET D
  OBVIOUS
<1>. HIDE DEF P
<1>4. P = SUBSET D
  BY <1>1, <1>2, <1>3, SubsetInduction
<1>5. D \in P
  BY <1>4
<1>. QED  BY <1>5 DEF P

\* The sums of f over the subsets of D.
LEMMA SumFacts ==
  ASSUME NEW D, IsFiniteSet(D), NEW f, \A x \in D : f[x] \in Int
  PROVE  /\ SumFunctionOnSet(f, {}) = 0
         /\ \A s \in SUBSET D : SumFunctionOnSet(f, s) \in Int
         /\ \A s \in SUBSET D : \A x \in s :
              SumFunctionOnSet(f, s) = f[x] + SumFunctionOnSet(f, s \ {x})
<1>1. PICK g : Adds(g, f, D)
  BY SumsExist
<1>2. ASSUME NEW s \in SUBSET D PROVE SumFunctionOnSet(f, s) = g[s]
  <2>. DEFINE h == [t \in SUBSET s |-> g[t]]
  <2>1. h \in [SUBSET s -> Int] /\ h[{}] = 0
    BY <1>1 DEF Adds
  <2>2. ASSUME NEW t \in SUBSET s, NEW x \in t PROVE h[t] = f[x] + h[t \ {x}]
    BY <1>1 DEF Adds
  <2>. HIDE DEF h
  <2>3. Adds(h, f, s)
    BY <2>1, <2>2 DEF Adds
  <2>4. IsFiniteSet(s) /\ \A x \in s : f[x] \in Int
    BY FS_Subset
  <2>5. SumFunctionOnSet(f, s) = h[s]
    BY <2>3, <2>4, SumIsOf
  <2>. QED  BY <2>5 DEF h
<1>3. SumFunctionOnSet(f, {}) = 0
  BY <1>1, <1>2 DEF Adds
<1>4. \A s \in SUBSET D : SumFunctionOnSet(f, s) \in Int
  BY <1>1, <1>2 DEF Adds
<1>5. ASSUME NEW s \in SUBSET D, NEW x \in s
      PROVE  SumFunctionOnSet(f, s) = f[x] + SumFunctionOnSet(f, s \ {x})
  BY <1>1, <1>2 DEF Adds
<1>. QED  BY <1>3, <1>4, <1>5

LEMMA SumRemove ==
  ASSUME NEW D, IsFiniteSet(D), NEW f, \A x \in D : f[x] \in Int, NEW x \in D
  PROVE  SumFunctionOnSet(f, D) = f[x] + SumFunctionOnSet(f, D \ {x})
<1>1. D \in SUBSET D
  OBVIOUS
<1>. QED  BY <1>1, SumFacts

LEMMA SumSame ==
  ASSUME NEW D, IsFiniteSet(D), NEW f, NEW h, \A x \in D : f[x] \in Int /\ h[x] = f[x]
  PROVE  SumFunctionOnSet(h, D) = SumFunctionOnSet(f, D)
<1>1. PICK g : Adds(g, f, D)
  BY SumsExist
<1>2. Adds(g, h, D)
  BY <1>1 DEF Adds
<1>3. \A x \in D : h[x] \in Int
  OBVIOUS
<1>. QED  BY <1>1, <1>2, <1>3, SumIsOf

LEMMA SumZero ==
  ASSUME NEW D, IsFiniteSet(D), NEW f, \A x \in D : f[x] = 0
  PROVE  SumFunctionOnSet(f, D) = 0
<1>. DEFINE g == [s \in SUBSET D |-> 0]
<1>1. Adds(g, f, D)
  BY DEF Adds
<1>2. \A x \in D : f[x] \in Int
  OBVIOUS
<1>. HIDE DEF g
<1>3. SumFunctionOnSet(f, D) = g[D]
  BY <1>1, <1>2, SumIsOf
<1>. QED  BY <1>3 DEF g

LEMMA SumSplit ==
  ASSUME NEW D, IsFiniteSet(D), NEW f, \A x \in D : f[x] \in Int, NEW E \in SUBSET D
  PROVE  SumFunctionOnSet(f, D) = SumFunctionOnSet(f, E) + SumFunctionOnSet(f, D \ E)
<1>. DEFINE sum(s) == SumFunctionOnSet(f, s)
            g == [s \in SUBSET D |-> sum(s \intersect E) + sum(s \ E)]
<1>1. sum({}) = 0 /\ \A s \in SUBSET D : sum(s) \in Int
  BY SumFacts
<1>2. ASSUME NEW s \in SUBSET D, NEW x \in s PROVE sum(s) = f[x] + sum(s \ {x})
  BY SumFacts
<1>. HIDE DEF sum
<1>3. g \in [SUBSET D -> Int] /\ g[{}] = 0
  <2>1. {} \intersect E = {} /\ {} \ E = {}
    OBVIOUS
  <2>2. \A s \in SUBSET D : s \intersect E \in SUBSET D /\ s \ E \in SUBSET D
    OBVIOUS
  <2>. QED  BY <1>1, <2>1, <2>2
<1>4. ASSUME NEW s \in SUBSET D, NEW x \in s PROVE g[s] = f[x] + g[s \ {x}]
  <2>1. s \ {x} \in SUBSET D /\ f[x] \in Int
    OBVIOUS
  <2>4. /\ g[s] = sum(s \intersect E) + sum(s \ E)
        /\ g[s \ {x}] = sum((s \ {x}) \intersect E) + sum((s \ {x}) \ E)
    BY <2>1
  <2>. HIDE DEF g
  <2>2. CASE x \in E
    <3>1. x \in s \intersect E /\ (s \ {x}) \intersect E = (s \intersect E) \ {x} /\ (s \ {x}) \ E = s \ E
      BY <2>2
    <3>2. sum(s \intersect E) = f[x] + sum((s \intersect E) \ {x})
      BY <1>2, <3>1
    <3>3. sum((s \intersect E) \ {x}) \in Int /\ sum(s \ E) \in Int
      BY <1>1
    <3>4. /\ sum((s \ {x}) \intersect E) = sum((s \intersect E) \ {x})
          /\ sum((s \ {x}) \ E) = sum(s \ E)
      BY <3>1
    <3>. HIDE DEF g
    <3>. QED  BY <2>1, <2>4, <3>2, <3>3, <3>4
  <2>3. CASE x \notin E
    <3>1. x \in s \ E /\ (s \ {x}) \intersect E = s \intersect E /\ (s \ {x}) \ E = (s \ E) \ {x}
      BY <2>3
    <3>2. sum(s \ E) = f[x] + sum((s \ E) \ {x})
      BY <1>2, <3>1
    <3>3. sum((s \ E) \ {x}) \in Int /\ sum(s \intersect E) \in Int
      BY <1>1
    <3>4. /\ sum((s \ {x}) \intersect E) = sum(s \intersect E)
          /\ sum((s \ {x}) \ E) = sum((s \ E) \ {x})
      BY <3>1
    <3>. HIDE DEF g
    <3>. QED  BY <2>1, <2>4, <3>2, <3>3, <3>4
  <2>. QED  BY <2>2, <2>3
<1>5. g[D] = sum(E) + sum(D \ E)
  <2>1. D \intersect E = E
    OBVIOUS
  <2>. QED  BY <2>1
<1>. HIDE DEF g
<1>6. Adds(g, f, D)
  BY <1>3, <1>4 DEF Adds
<1>7. SumFunctionOnSet(f, D) = g[D]
  BY <1>6, SumIsOf
<1>. QED  BY <1>5, <1>7 DEF sum

LEMMA SumDifference ==
  ASSUME NEW D, IsFiniteSet(D), NEW f, NEW h, NEW d,
         \A x \in D : f[x] \in Int /\ h[x] \in Int /\ d[x] = f[x] - h[x]
  PROVE  SumFunctionOnSet(d, D) = SumFunctionOnSet(f, D) - SumFunctionOnSet(h, D)
<1>1. PICK g : Adds(g, f, D)
  BY SumsExist
<1>2. PICK k : Adds(k, h, D)
  BY SumsExist
<1>. DEFINE m == [s \in SUBSET D |-> g[s] - k[s]]
<1>3. m \in [SUBSET D -> Int] /\ m[{}] = 0
  BY <1>1, <1>2 DEF Adds
<1>4. ASSUME NEW s \in SUBSET D, NEW x \in s PROVE m[s] = d[x] + m[s \ {x}]
  <2>1. g[s] = f[x] + g[s \ {x}] /\ k[s] = h[x] + k[s \ {x}]
    BY <1>1, <1>2 DEF Adds
  <2>2. g[s \ {x}] \in Int /\ k[s \ {x}] \in Int /\ f[x] \in Int /\ h[x] \in Int /\ s \ {x} \in SUBSET D
    BY <1>1, <1>2 DEF Adds
  <2>. QED  BY <2>1, <2>2
<1>5. m[D] = g[D] - k[D]
  OBVIOUS
<1>. HIDE DEF m
<1>6. Adds(m, d, D)
  BY <1>3, <1>4 DEF Adds
<1>7. \A x \in D : d[x] \in Int
  OBVIOUS
<1>8. SumFunctionOnSet(f, D) = g[D] /\ SumFunctionOnSet(h, D) = k[D]
  BY <1>1, <1>2, SumIsOf
<1>9. SumFunctionOnSet(d, D) = m[D]
  BY <1>6, <1>7, SumIsOf
<1>. QED  BY <1>5, <1>8, <1>9

\* A sum may be taken by parts.
LEMMA SumByParts ==
  ASSUME NEW D, IsFiniteSet(D), NEW T, IsFiniteSet(T), NEW f, NEW p,
         \A x \in D : f[x] \in Int /\ p[x] \in T
  PROVE  SumFunctionOnSet(f, D)
           = SumFunctionOnSet([t \in T |-> SumFunctionOnSet(f, {x \in D : p[x] = t})], T)
<1>. DEFINE sum(s) == SumFunctionOnSet(f, s)
            part(s, t) == {x \in s : p[x] = t}
            F(s) == [t \in T |-> sum(part(s, t))]
            g == [s \in SUBSET D |-> SumFunctionOnSet(F(s), T)]
<1>1. sum({}) = 0 /\ \A s \in SUBSET D : sum(s) \in Int
  BY SumFacts
<1>2. ASSUME NEW s \in SUBSET D, NEW x \in s PROVE sum(s) = f[x] + sum(s \ {x})
  BY SumFacts
<1>. HIDE DEF sum
<1>3. ASSUME NEW s \in SUBSET D PROVE \A t \in T : F(s)[t] = sum(part(s, t)) /\ F(s)[t] \in Int
  <2>1. \A t \in T : part(s, t) \in SUBSET D
    OBVIOUS
  <2>. QED  BY <1>1, <2>1
<1>4. ASSUME NEW s \in SUBSET D, NEW x \in s, NEW t \in T
      PROVE  F(s)[t] = IF t = p[x] THEN f[x] + F(s \ {x})[t] ELSE F(s \ {x})[t]
  <2>0. s \ {x} \in SUBSET D
    OBVIOUS
  <2>1. F(s)[t] = sum(part(s, t)) /\ F(s \ {x})[t] = sum(part(s \ {x}, t))
    BY <1>3, <2>0
  <2>2. CASE t = p[x]
    <3>1. part(s \ {x}, t) = part(s, t) \ {x} /\ x \in part(s, t) /\ part(s, t) \in SUBSET D
      BY <2>2
    <3>2. sum(part(s, t)) = f[x] + sum(part(s, t) \ {x})
      BY <1>2, <3>1
    <3>3. sum(part(s \ {x}, t)) = sum(part(s, t) \ {x})
      BY <3>1
    <3>. HIDE DEF F, part
    <3>. QED  BY <2>1, <2>2, <3>2, <3>3
  <2>3. CASE t # p[x]
    <3>1. part(s \ {x}, t) = part(s, t)
      BY <2>3
    <3>. HIDE DEF F
    <3>. QED  BY <2>1, <2>3, <3>1
  <2>. QED  BY <2>2, <2>3
<1>5. sum(D) = sum(D) /\ \A t \in T : F(D)[t] = SumFunctionOnSet(f, {x \in D : p[x] = t})
  BY <1>3 DEF sum
<1>. HIDE DEF F
<1>6. ASSUME NEW s \in SUBSET D, NEW x \in s PROVE g[s] = f[x] + g[s \ {x}]
  <2>. DEFINE G == F(s)
              H == F(s \ {x})
  <2>1. s \ {x} \in SUBSET D /\ p[x] \in T /\ f[x] \in Int
    OBVIOUS
  <2>2. g[s] = SumFunctionOnSet(G, T) /\ g[s \ {x}] = SumFunctionOnSet(H, T)
    BY <2>1
  <2>3. (\A t \in T : G[t] \in Int) /\ (\A t \in T : H[t] \in Int)
    BY <1>3, <2>1
  <2>4. G[p[x]] = f[x] + H[p[x]] /\ \A t \in T \ {p[x]} : G[t] = H[t]
    <3>1. \A t \in T : F(s)[t] = IF t = p[x] THEN f[x] + F(s \ {x})[t] ELSE F(s \ {x})[t]
      BY <1>4
    <3>. QED  BY <2>1, <3>1
  <2>. HIDE DEF G, H, g
  <2>. DEFINE R == T \ {p[x]}
  <2>5. IsFiniteSet(R) /\ R \in SUBSET T
    BY FS_Subset
  <2>6. SumFunctionOnSet(G, T) = G[p[x]] + SumFunctionOnSet(G, R)
    <3>1. \A t \in T : G[t] \in Int
      BY <2>3
    <3>. QED  BY <2>1, <3>1, SumRemove
  <2>7. SumFunctionOnSet(H, T) = H[p[x]] + SumFunctionOnSet(H, R) /\ SumFunctionOnSet(H, R) \in Int
    <3>1. \A t \in T : H[t] \in Int
      BY <2>3
    <3>2. SumFunctionOnSet(H, T) = H[p[x]] + SumFunctionOnSet(H, R)
      BY <2>1, <3>1, SumRemove
    <3>3. \A z \in SUBSET T : SumFunctionOnSet(H, z) \in Int
      BY <3>1, SumFacts
    <3>. QED  BY <2>5, <3>2, <3>3
  <2>8. SumFunctionOnSet(G, R) = SumFunctionOnSet(H, R)
    <3>1. \A t \in R : H[t] \in Int /\ G[t] = H[t]
      BY <2>3, <2>4
    <3>. HIDE DEF R
    <3>. QED  BY <2>5, <3>1, SumSame
  <2>. HIDE DEF R
  <2>. QED  BY <2>1, <2>2, <2>3, <2>4, <2>6, <2>7, <2>8
<1>7. g \in [SUBSET D -> Int]
  <2>1. ASSUME NEW s \in SUBSET D PROVE SumFunctionOnSet(F(s), T) \in Int
    <3>. DEFINE G == F(s)
    <3>1. \A t \in T : G[t] \in Int
      BY <1>3
    <3>. HIDE DEF G
    <3>2. SumFunctionOnSet(G, T) \in Int
      BY <3>1, SumFacts
    <3>. QED  BY <3>2 DEF G
  <2>. QED  BY <2>1
<1>8. g[{}] = 0
  <2>. DEFINE G == F({})
  <2>1. ASSUME NEW t \in T PROVE G[t] = 0
    <3>1. part({}, t) = {}
      OBVIOUS
    <3>2. G[t] = sum(part({}, t))
      BY <1>3
    <3>. QED  BY <1>1, <3>1, <3>2
  <2>. HIDE DEF G
  <2>2. SumFunctionOnSet(G, T) = 0
    BY <2>1, SumZero
  <2>. QED  BY <2>2 DEF G
<1>9. g[D] = SumFunctionOnSet(F(D), T)
  OBVIOUS
<1>. HIDE DEF g
<1>10. Adds(g, f, D)
  BY <1>6, <1>7, <1>8 DEF Adds
<1>11. SumFunctionOnSet(f, D) = g[D]
  BY <1>10, SumIsOf
<1>12. F(D) = [t \in T |-> SumFunctionOnSet(f, {x \in D : p[x] = t})]
  BY DEF F, sum
<1>. QED  BY <1>9, <1>11, <1>12

\* Each part may be a single element.
LEMMA SumRenamed ==
  ASSUME NEW D, IsFiniteSet(D), NEW T, IsFiniteSet(T), NEW f, NEW w, NEW p,
         \A x \in D : f[x] \in Int /\ p[x] \in T /\ f[x] = w[p[x]],
         \A x, y \in D : p[x] = p[y] => x = y,
         \A t \in T : \E x \in D : p[x] = t
  PROVE  SumFunctionOnSet(f, D) = SumFunctionOnSet(w, T)
<1>. DEFINE G == [t \in T |-> SumFunctionOnSet(f, {x \in D : p[x] = t})]
<1>1. SumFunctionOnSet(f, D) = SumFunctionOnSet(G, T)
  BY SumByParts
<1>2. ASSUME NEW t \in T PROVE G[t] = w[t] /\ w[t] \in Int
  <2>1. PICK x \in D : p[x] = t
    OBVIOUS
  <2>2. {y \in D : p[y] = t} = {x} /\ {x} \in SUBSET D /\ {x} \ {x} = {} /\ x \in {x}
    BY <2>1
  <2>3. SumFunctionOnSet(f, {x}) = f[x] + SumFunctionOnSet(f, {x} \ {x})
    BY <2>2, SumFacts
  <2>4. SumFunctionOnSet(f, {}) = 0
    BY SumFacts
  <2>5. SumFunctionOnSet(f, {x}) = f[x]
    <3>1. SumFunctionOnSet(f, {x} \ {x}) = 0
      BY <2>2, <2>4
    <3>. QED  BY <2>3, <3>1
  <2>6. G[t] = SumFunctionOnSet(f, {x})
    BY <2>2
  <2>. HIDE DEF G
  <2>. QED  BY <2>1, <2>5, <2>6
<1>. HIDE DEF G
<1>3. SumFunctionOnSet(w, T) = SumFunctionOnSet(G, T)
  BY <1>2, SumSame
<1>. QED  BY <1>1, <1>3
-----------------------------------------------------------------------------
\* A finite set as a list in descending order.

LEMMA LeastExists ==
  ASSUME NEW S \in SUBSET Nat, S # {}
  PROVE  \E x \in S : \A y \in S : x <= y
<1>1. \E x \in S : \A y \in S : ~(<<y, x>> \in OpToRel(<, Nat))
  BY NatLessThanWellFounded, WFMin
<1>2. \E x \in S : \A y \in S : ~(y < x)
  BY ONLY S \in SUBSET Nat, <1>1, Zenon DEF OpToRel
<1>. QED  BY <1>2

Descending(S, w, list) ==
  /\ list \in [1..Cardinality(S) -> S]
  /\ \A x \in S : \E i \in 1..Cardinality(S) : list[i] = x
  /\ \A i, j \in 1..Cardinality(S) : i < j => w[list[i]] >= w[list[j]]

LEMMA DescendingExists ==
  ASSUME NEW S, IsFiniteSet(S), NEW w, \A x \in S : w[x] \in Nat
  PROVE  \E list : Descending(S, w, list)
<1>. DEFINE P == {s \in SUBSET S : \E list : Descending(s, w, list)}
<1>1. {} \in P
  <2>1. Cardinality({}) = 0
    BY FS_EmptySet
  <2>2. 1..0 = {}
    OBVIOUS
  <2>3. Descending({}, w, [i \in 1..0 |-> 0])
    BY <2>1, <2>2 DEF Descending
  <2>. QED  BY <2>3
<1>2. ASSUME NEW s \in SUBSET S, s # {}, \A x \in s : s \ {x} \in P PROVE s \in P
  <2>1. PICK x \in s : \A y \in s : w[x] <= w[y]
    <3>. DEFINE weights == {w[y] : y \in s}
    <3>1. weights \in SUBSET Nat /\ weights # {}
      BY <1>2
    <3>2. \E a \in weights : \A b \in weights : a <= b
      <4>. HIDE DEF weights
      <4>. QED  BY <3>1, LeastExists
    <3>. QED  BY <3>2
  <2>2. PICK rest : Descending(s \ {x}, w, rest)
    BY <1>2, <2>1
  <2>. DEFINE n == Cardinality(s)
              list == [i \in 1..n |-> IF i = n THEN x ELSE rest[i]]
  <2>3. IsFiniteSet(s) /\ n \in Nat
    BY FS_Subset, FS_CardinalityType
  <2>4. Cardinality(s \ {x}) = n - 1 /\ n - 1 \in Nat
    <3>1. Cardinality(s \ {x}) = n - 1
      BY <2>1, <2>3, FS_RemoveElement
    <3>2. Cardinality(s \ {x}) \in Nat
      BY <2>3, FS_RemoveElement, FS_CardinalityType
    <3>. QED  BY <3>1, <3>2
  <2>. HIDE DEF n
  <2>5. /\ \A i \in 1..(n - 1) : rest[i] \in s \ {x}
        /\ \A y \in s \ {x} : \E i \in 1..(n - 1) : rest[i] = y
        /\ \A i, j \in 1..(n - 1) : i < j => w[rest[i]] >= w[rest[j]]
    BY <2>2, <2>4 DEF Descending
  <2>6. \A i \in 1..n : i = n \/ i \in 1..(n - 1)
    BY <2>3, <2>4
  <2>7. list \in [1..n -> s]
    BY <2>1, <2>5, <2>6
  <2>8. ASSUME NEW y \in s PROVE \E i \in 1..n : list[i] = y
    <3>1. CASE y = x
      <4>1. n \in 1..n /\ list[n] = x
        BY <2>3, <2>4
      <4>. QED  BY <3>1, <4>1
    <3>2. CASE y # x
      <4>1. PICK i \in 1..(n - 1) : rest[i] = y
        BY <2>5, <3>2
      <4>2. i \in 1..n /\ i # n
        BY <2>3, <4>1
      <4>. QED  BY <4>1, <4>2
    <3>. QED  BY <3>1, <3>2
  <2>9. ASSUME NEW i \in 1..n, NEW j \in 1..n, i < j PROVE w[list[i]] >= w[list[j]]
    <3>1. i \in 1..(n - 1) /\ list[i] = rest[i]
      BY <2>3, <2>9
    <3>2. CASE j = n
      BY <2>1, <2>5, <3>1, <3>2
    <3>3. CASE j # n
      <4>1. j \in 1..(n - 1) /\ list[j] = rest[j]
        BY <2>6, <3>3
      <4>. QED  BY <2>5, <2>9, <3>1, <4>1
    <3>. QED  BY <3>2, <3>3
  <2>. HIDE DEF list
  <2>10. Descending(s, w, list)
    BY <2>7, <2>8, <2>9 DEF Descending, n
  <2>. QED  BY <2>10
<1>3. P \in SUBSET SUBSET S
  OBVIOUS
<1>. HIDE DEF P
<1>4. P = SUBSET S
  BY <1>1, <1>2, <1>3, SubsetInduction
<1>5. S \in P
  BY <1>4
<1>. QED  BY <1>5 DEF P
-----------------------------------------------------------------------------
\* The waterfall: its steps and their sum.

LEMMA MinOfTwo ==
  ASSUME NEW m \in Nat, NEW n \in Nat
  PROVE  Min({m, n}) = IF m < n THEN m ELSE n
<1>1. Min({m, n}) \in {m, n} /\ \A y \in {m, n} : Min({m, n}) <= y
  <2>1. \E x \in {m, n} : \A y \in {m, n} : x <= y
    OBVIOUS
  <2>. QED  BY <2>1 DEF Min
<1>. QED  BY <1>1

\* Cutting a list of steps keeps the sum of their changes.
LEMMA CutKeepsTheSum ==
  ASSUME NEW n \in Nat, NEW T, NEW list \in [1..n -> T], \A x \in T : x.delta \in Int
  PROVE  SumFunction(Change(cut(list))) = SumFunctionOnSet(Change(list), 1..n)
<1>. DEFINE change == Change(list)
            rest == SumFunctionOnSet(change, Limit + 1 .. n)
            k == IF n < Limit THEN n ELSE Limit
            top == SubSeq(list, 1, k)
            last == Step([kind |-> "rest", id |-> None], rest)
            tail == IF rest = 0 THEN <<>> ELSE <<last>>
<1>0. Limit \in Nat
  BY LimitAssumption
<1>1. DOMAIN list = 1..n /\ Len(list) = n /\ list \in Seq(T)
  BY LenProperties, IsASeq
<1>2. k \in 0..n /\ k \in Nat /\ (1..n) \ (1..k) = Limit + 1 .. n
  BY <1>0
<1>3. change = [i \in 1..n |-> list[i].delta] /\ \A i \in 1..n : change[i] \in Int
  BY <1>1 DEF Change
<1>4. Min({Len(list), Limit}) = k
  BY <1>0, <1>1, MinOfTwo
<1>5. cut(list) = top \o tail
  BY <1>1, <1>4 DEF cut
<1>. HIDE DEF change
<1>6. IsFiniteSet(1..n) /\ 1..k \in SUBSET (1..n) /\ IsFiniteSet(1..k)
  <2>. HIDE DEF k
  <2>1. IsFiniteSet(1..n)
    BY FS_Interval
  <2>2. 1..k \in SUBSET (1..n)
    BY <1>2
  <2>. QED  BY <2>1, <2>2, FS_Subset
<1>7. /\ SumFunctionOnSet(change, 1..n) = SumFunctionOnSet(change, 1..k) + rest
      /\ rest \in Int /\ SumFunctionOnSet(change, 1..k) \in Int
  <2>1. SumFunctionOnSet(change, 1..n) = SumFunctionOnSet(change, 1..k) + SumFunctionOnSet(change, (1..n) \ (1..k))
    BY <1>3, <1>6, SumSplit
  <2>2. \A s \in SUBSET (1..n) : SumFunctionOnSet(change, s) \in Int
    BY <1>3, <1>6, SumFacts
  <2>. QED  BY <1>2, <1>6, <2>1, <2>2
<1>. HIDE DEF rest
<1>8. top \in Seq(T) /\ Len(top) = k /\ \A i \in 1..k : top[i] = list[i]
  BY <1>1, <1>2, SubSeqProperties
<1>. HIDE DEF k, top
<1>9. CASE rest = 0
  <2>1. cut(list) = top
    <3>1. tail = <<>>
      BY <1>9
    <3>. QED  BY <1>5, <1>8, <3>1, ConcatEmptySeq
  <2>2. DOMAIN top = 1..k
    BY <1>8, LenProperties
  <2>3. Change(top) = [i \in 1..k |-> list[i].delta]
    BY <1>8, <2>2 DEF Change
  <2>4. SumFunctionOnSet(Change(top), 1..k) = SumFunctionOnSet(change, 1..k)
    <3>1. \A i \in 1..k : change[i] \in Int /\ Change(top)[i] = change[i]
      BY <1>3, <1>6, <2>3
    <3>. HIDE DEF change
    <3>. QED  BY <1>6, <3>1, SumSame
  <2>5. SumFunction(Change(top)) = SumFunctionOnSet(Change(top), 1..k)
    BY <2>3 DEF SumFunction
  <2>6. SumFunctionOnSet(change, 1..n) = SumFunctionOnSet(change, 1..k)
    BY <1>7, <1>9
  <2>. QED  BY <2>1, <2>4, <2>5, <2>6 DEF change
<1>10. CASE rest # 0
  <2>. DEFINE S == T \union {last}
              c == Change(cut(list))
  <2>1. cut(list) = top \o <<last>>
    BY <1>5, <1>10
  <2>2. last \in S /\ T \subseteq S /\ last.delta = rest
    BY DEF Step
  <2>. HIDE DEF S, last, tail
  <2>3. top \in Seq(S) /\ <<last>> \in Seq(S)
    BY <1>8, <2>2, SeqMonotonic
  <2>4. /\ Len(top \o <<last>>) = k + 1 /\ top \o <<last>> \in Seq(S)
        /\ \A i \in 1..k : (top \o <<last>>)[i] = list[i]
        /\ (top \o <<last>>)[k + 1] = last
    BY <1>2, <1>8, <2>3, ConcatProperties
  <2>5. DOMAIN cut(list) = 1..(k + 1)
    BY <2>1, <2>4, LenProperties
  <2>6. c = [i \in 1..(k + 1) |-> cut(list)[i].delta]
    BY <2>5 DEF Change
  <2>7. (\A i \in 1..k : c[i] = change[i]) /\ c[k + 1] = rest
    BY <1>2, <1>3, <1>6, <2>1, <2>2, <2>4, <2>6
  <2>8. SumFunction(c) = SumFunctionOnSet(c, 1..(k + 1))
    BY <2>6 DEF SumFunction
  <2>. HIDE DEF c, change
  <2>9. SumFunctionOnSet(c, 1..(k + 1)) = rest + SumFunctionOnSet(c, 1..k)
    <3>1. IsFiniteSet(1..(k + 1)) /\ k + 1 \in 1..(k + 1) /\ (1..(k + 1)) \ {k + 1} = 1..k
      <4>1. k + 1 \in Int
        BY <1>2
      <4>2. IsFiniteSet(1..(k + 1))
        BY <4>1, FS_Interval
      <4>. QED  BY <1>2, <4>2
    <3>2. \A i \in 1..(k + 1) : c[i] \in Int
      <4>1. \A i \in 1..k : c[i] \in Int
        BY <1>3, <1>6, <2>7
      <4>2. \A i \in 1..(k + 1) : i \in 1..k \/ i = k + 1
        BY <1>2
      <4>. QED  BY <1>7, <2>7, <4>1, <4>2
    <3>3. SumFunctionOnSet(c, 1..(k + 1)) = c[k + 1] + SumFunctionOnSet(c, (1..(k + 1)) \ {k + 1})
      BY <3>1, <3>2, SumRemove
    <3>. QED  BY <2>7, <3>1, <3>3
  <2>10. SumFunctionOnSet(c, 1..k) = SumFunctionOnSet(change, 1..k)
    BY <1>3, <1>6, <2>7, SumSame
  <2>11. SumFunctionOnSet(c, 1..(k + 1)) = SumFunctionOnSet(change, 1..n)
    BY <1>7, <2>9, <2>10
  <2>. QED  BY <2>8, <2>11 DEF c, change
<1>. QED  BY <1>9, <1>10

LEMMA LargestFirstIs ==
  ASSUME NEW S, IsFiniteSet(S), \A x \in S : x.delta \in Int
  PROVE  /\ LargestFirst(S) \in [1..Cardinality(S) -> S]
         /\ Range(LargestFirst(S)) = S
         /\ \A i, j \in 1..Cardinality(S) : LargestFirst(S)[i] = LargestFirst(S)[j] => i = j
<1>. DEFINE n == Cardinality(S)
            w == [x \in S |-> abs(x.delta)]
            list == LargestFirst(S)
<1>1. \A x \in S : w[x] = abs(x.delta) /\ w[x] \in Nat
  BY DEF abs
<1>2. PICK l : Descending(S, w, l)
  <2>. HIDE DEF w
  <2>. QED  BY <1>1, DescendingExists
<1>3. /\ l \in [1..n -> S] /\ Range(l) = S
      /\ \A i, j \in DOMAIN l : i < j => abs(l[i].delta) >= abs(l[j].delta)
  <2>1. l \in [1..n -> S] /\ \A x \in S : \E i \in 1..n : l[i] = x
    BY <1>2 DEF Descending
  <2>2. Range(l) = S
    BY <2>1 DEF Range
  <2>3. \A i, j \in 1..n : i < j => w[l[i]] >= w[l[j]]
    BY <1>2 DEF Descending
  <2>4. \A i \in 1..n : w[l[i]] = abs(l[i].delta)
    BY <1>1, <2>1
  <2>5. DOMAIN l = 1..n
    BY <2>1
  <2>. HIDE DEF w
  <2>. QED  BY <2>1, <2>2, <2>3, <2>4, <2>5
<1>4. list \in [1..n -> S] /\ Range(list) = S
  BY <1>3 DEF LargestFirst
<1>. HIDE DEF list
<1>5. \A i, j \in 1..n : list[i] = list[j] => i = j
  <2>1. n \in Nat /\ IsFiniteSet(1..n) /\ Cardinality(1..n) = n
    BY FS_CardinalityType, FS_Interval
  <2>2. list \in Surjection(1..n, S)
    BY <1>4 DEF Surjection, Range
  <2>3. list \in Injection(1..n, S)
    BY <2>1, <2>2, FS_SurjSameCardinalityImpliesInj
  <2>. QED  BY <2>3 DEF Injection, IsInjective
<1>. QED  BY <1>4, <1>5 DEF list

LEMMA ProfitIs ==
  ASSUME NEW rows, IsFiniteSet(rows), NEW key, \A r \in rows : Value(r, key) \in Int,
         NEW S \in SUBSET rows
  PROVE  /\ Profit(S, key) = SumFunctionOnSet([r \in rows |-> Value(r, key)], S)
         /\ Profit(S, key) \in Int
<1>. DEFINE f == [r \in rows |-> Value(r, key)]
            h == [r \in S |-> Value(r, key)]
<1>1. Profit(S, key) = SumFunctionOnSet(h, S)
  BY DEF Profit, SumFunction
<1>2. IsFiniteSet(S) /\ \A r \in S : f[r] \in Int /\ h[r] = f[r]
  BY FS_Subset
<1>3. \A r \in rows : f[r] \in Int
  OBVIOUS
<1>. HIDE DEF f, h
<1>4. SumFunctionOnSet(h, S) = SumFunctionOnSet(f, S)
  BY <1>2, SumSame
<1>5. \A s \in SUBSET rows : SumFunctionOnSet(f, s) \in Int
  BY <1>3, SumFacts
<1>. QED  BY <1>1, <1>4, <1>5 DEF f

\* The changes of the parts of some rows, and their sum.
StepsOf(rows, entry, from, to) ==
  LET rowsOf(e) == {r \in rows : entry[r] = e}
      steps == {Step(e, Profit(rowsOf(e), to) - Profit(rowsOf(e), from)) : e \in Range(entry)}
  IN  {x \in steps : x.delta # 0}

LEMMA StepsAdd ==
  ASSUME NEW rows, IsFiniteSet(rows), NEW from, NEW to,
         \A r \in rows : Value(r, from) \in Int /\ Value(r, to) \in Int,
         NEW Entries, NEW entry \in [rows -> Entries]
  PROVE  LET S == StepsOf(rows, entry, from, to)
             list == LargestFirst(S)
         IN  /\ IsFiniteSet(S) /\ \A x \in S : x.delta \in Int
             /\ list \in [1..Cardinality(S) -> S] /\ Range(list) = S
             /\ SumFunctionOnSet(Change(list), 1..Cardinality(S)) = Profit(rows, to) - Profit(rows, from)
<1>. DEFINE S == StepsOf(rows, entry, from, to)
            list == LargestFirst(S)
            n == Cardinality(S)
            rowsOf(e) == {r \in rows : entry[r] = e}
            d(e) == Profit(rowsOf(e), to) - Profit(rowsOf(e), from)
            E == Range(entry)
            F == {e \in E : d(e) # 0}
            f == [r \in rows |-> Value(r, to)]
            h == [r \in rows |-> Value(r, from)]
<1>1. /\ \A r \in rows : Value(r, from) \in Int
      /\ \A r \in rows : Value(r, to) \in Int
  OBVIOUS
<1>2. ASSUME NEW T \in SUBSET rows
      PROVE  /\ Profit(T, to) = SumFunctionOnSet(f, T) /\ Profit(T, to) \in Int
             /\ Profit(T, from) = SumFunctionOnSet(h, T) /\ Profit(T, from) \in Int
  <2>1. Profit(T, to) = SumFunctionOnSet(f, T) /\ Profit(T, to) \in Int
    BY <1>1, ProfitIs
  <2>2. Profit(T, from) = SumFunctionOnSet(h, T) /\ Profit(T, from) \in Int
    BY <1>1, ProfitIs
  <2>. QED  BY <2>1, <2>2
<1>3. (\A r \in rows : f[r] \in Int /\ entry[r] \in E) /\ (\A r \in rows : h[r] \in Int /\ entry[r] \in E)
  BY <1>1 DEF Range
<1>4. IsFiniteSet(E)
  <2>1. entry \in Surjection(rows, E)
    BY DEF Surjection, Range
  <2>. QED  BY <2>1, FS_Surjection
<1>5. S = {Step(e, d(e)) : e \in F} /\ \A e \in E : Step(e, d(e)).delta = d(e) /\ Step(e, d(e)).entry = e
  <2>1. \A e \in E : Step(e, d(e)).delta = d(e) /\ Step(e, d(e)).entry = e
    BY DEF Step
  <2>2. S = {x \in {Step(e, d(e)) : e \in E} : x.delta # 0}
    BY DEF StepsOf
  <2>. HIDE DEF S, E, d
  <2>. QED  BY <2>1, <2>2
<1>. HIDE DEF f, h, E
<1>6. \A e \in E : d(e) \in Int
  <2>1. \A e : rowsOf(e) \in SUBSET rows
    OBVIOUS
  <2>. HIDE DEF rowsOf
  <2>. QED  BY <1>2, <2>1
<1>7. SumFunctionOnSet([e \in E |-> d(e)], E) = Profit(rows, to) - Profit(rows, from)
  <2>. DEFINE up == [e \in E |-> SumFunctionOnSet(f, rowsOf(e))]
              down == [e \in E |-> SumFunctionOnSet(h, rowsOf(e))]
              both == [e \in E |-> d(e)]
  <2>1. SumFunctionOnSet(f, rows) = SumFunctionOnSet(up, E)
    BY <1>3, <1>4, SumByParts
  <2>2. SumFunctionOnSet(h, rows) = SumFunctionOnSet(down, E)
    BY <1>3, <1>4, SumByParts
  <2>3. \A e \in E : up[e] \in Int /\ down[e] \in Int /\ both[e] = up[e] - down[e]
    <3>1. \A e : rowsOf(e) \in SUBSET rows
      OBVIOUS
    <3>. HIDE DEF rowsOf
    <3>. QED  BY <1>2, <3>1
  <2>. HIDE DEF up, down, both
  <2>4. SumFunctionOnSet(both, E) = SumFunctionOnSet(up, E) - SumFunctionOnSet(down, E)
    BY <1>4, <2>3, SumDifference
  <2>5. Profit(rows, to) = SumFunctionOnSet(f, rows) /\ Profit(rows, from) = SumFunctionOnSet(h, rows)
    BY <1>2
  <2>. QED  BY <2>1, <2>2, <2>4, <2>5 DEF both
<1>. HIDE DEF S, d
<1>. DEFINE both == [e \in E |-> d(e)]
<1>8. SumFunctionOnSet(both, E) = SumFunctionOnSet(both, F)
  <2>. HIDE DEF both
  <2>1. \A e \in E : both[e] = d(e) /\ both[e] \in Int
    BY <1>6 DEF both
  <2>2. F \in SUBSET E /\ IsFiniteSet(E \ F)
    BY <1>4, FS_Subset
  <2>3. \A e \in E \ F : both[e] = 0
    BY <2>1
  <2>. HIDE DEF F
  <2>4. SumFunctionOnSet(both, E \ F) = 0
    BY <2>2, <2>3, SumZero
  <2>5. SumFunctionOnSet(both, E) = SumFunctionOnSet(both, F) + SumFunctionOnSet(both, E \ F)
    BY <1>4, <2>1, <2>2, SumSplit
  <2>6. SumFunctionOnSet(both, F) \in Int
    BY <1>4, <2>1, <2>2, SumFacts
  <2>. QED  BY <2>4, <2>5, <2>6
<1>9. IsFiniteSet(F)
  BY <1>4, FS_Subset
<1>10. IsFiniteSet(S)
  <2>. DEFINE g == [e \in F |-> Step(e, d(e))]
  <2>1. S = {g[e] : e \in F}
    BY <1>5
  <2>2. S = Range(g)
    BY <2>1, Zenon DEF Range
  <2>3. g \in [F -> S]
    BY <2>1
  <2>4. g \in Surjection(F, S)
    BY <2>1, <2>3 DEF Surjection
  <2>. QED  BY <1>9, <2>4, FS_Surjection
<1>11. \A x \in S : x.delta \in Int /\ x.entry \in F /\ x.delta = d(x.entry)
  BY <1>5, <1>6
<1>12. /\ list \in [1..n -> S] /\ Range(list) = S
       /\ \A i, j \in 1..n : list[i] = list[j] => i = j
  <2>1. \A x \in S : x.delta \in Int
    BY <1>11
  <2>. QED  BY <1>10, <2>1, LargestFirstIs
<1>. HIDE DEF list
<1>13. IsFiniteSet(1..n)
  BY <1>10, FS_CardinalityType, FS_Interval
<1>14. SumFunctionOnSet(Change(list), 1..n) = SumFunctionOnSet(both, F)
  <2>. DEFINE c == Change(list)
              p == [i \in 1..n |-> list[i].entry]
  <2>1. c = [i \in 1..n |-> list[i].delta]
    BY <1>12 DEF Change
  <2>. HIDE DEF n
  <2>2. \A i \in 1..n : c[i] \in Int /\ p[i] \in F /\ c[i] = both[p[i]]
    BY <1>11, <1>12, <2>1
  <2>3. \A i, j \in 1..n : p[i] = p[j] => i = j
    <3>1. SUFFICES ASSUME NEW i \in 1..n, NEW j \in 1..n, p[i] = p[j] PROVE list[i] = list[j]
      BY <1>12
    <3>2. list[i] \in S /\ list[j] \in S /\ list[i].entry = list[j].entry
      BY <1>12, <3>1
    <3>. QED  BY <1>5, <3>2
  <2>4. ASSUME NEW e \in F PROVE \E i \in 1..n : p[i] = e
    <3>1. Step(e, d(e)) \in S /\ Step(e, d(e)).entry = e
      BY <1>5
    <3>2. PICK i \in 1..n : list[i] = Step(e, d(e))
      BY <1>12, <3>1 DEF Range
    <3>. QED  BY <3>1, <3>2
  <2>. HIDE DEF c, p, both, F
  <2>5. SumFunctionOnSet(c, 1..n) = SumFunctionOnSet(both, F)
    <3>. DEFINE D == 1..n
    <3>1. IsFiniteSet(D)
      BY <1>13
    <3>2. \A x \in D : c[x] \in Int /\ p[x] \in F /\ c[x] = both[p[x]]
      BY <2>2
    <3>3. \A x, y \in D : p[x] = p[y] => x = y
      BY <2>3
    <3>4. \A t \in F : \E x \in D : p[x] = t
      BY <2>4
    <3>. HIDE DEF D
    <3>5. SumFunctionOnSet(c, D) = SumFunctionOnSet(both, F)
      BY <1>9, <3>1, <3>2, <3>3, <3>4, SumRenamed
    <3>. QED  BY <3>5 DEF D
  <2>. QED  BY <2>5 DEF c
<1>. QED  BY <1>7, <1>8, <1>10, <1>11, <1>12, <1>14 DEF S, list
-----------------------------------------------------------------------------
\* The tree of the segments.

Segment == DOMAIN Segments

\* From the roots down.
LEMMA TreeInduction ==
  ASSUME NEW P \in SUBSET Segment,
         \A s \in Segment : (Segments[s] # None => Segments[s] \in P) => s \in P
  PROVE  P = Segment
<1>1. SUFFICES ASSUME Segment \ P # {} PROVE FALSE
  OBVIOUS
<1>2. PICK s \in Segment \ P : Segments[s] \notin Segment \ P
  BY <1>1, SegmentsAssumption DEF Segment
<1>3. Segments[s] \in Segment \union {None}
  BY SegmentsAssumption DEF Segment
<1>. QED  BY <1>2, <1>3

LEMMA PathOfIs ==
  pathOf = [s \in Segment |-> IF Segments[s] = None THEN {s} ELSE {s} \union pathOf[Segments[s]]]
<1>. DEFINE closed(C) == \A x \in C : Segments[x] # None => Segments[x] \in C
            f == [s \in Segment |-> {x \in Segment : \A C \in SUBSET Segment : s \in C /\ closed(C) => x \in C}]
<1>1. \A s \in Segment : Segments[s] \in Segment \union {None}
  BY SegmentsAssumption DEF Segment
<1>2. ASSUME NEW s \in Segment
      PROVE  f[s] = IF Segments[s] = None THEN {s} ELSE {s} \union f[Segments[s]]
  <2>1. s \in f[s]
    OBVIOUS
  <2>2. CASE Segments[s] = None
    <3>1. closed({s}) /\ {s} \in SUBSET Segment
      BY <2>2
    <3>2. \A x \in f[s] : x \in {s}
      BY <3>1
    <3>. HIDE DEF f
    <3>. QED  BY <2>1, <2>2, <3>2
  <2>3. CASE Segments[s] # None
    <3>. DEFINE q == Segments[s]
                C == {s} \union f[q]
    <3>1. q \in Segment
      BY <1>1, <2>3
    <3>2. f[q] \in SUBSET Segment /\ q \in f[q]
      BY <3>1
    <3>3. \A x \in f[q] : Segments[x] # None => Segments[x] \in f[q]
      BY <1>1, <3>1
    <3>4. closed(C) /\ C \in SUBSET Segment /\ s \in C
      <4>. HIDE DEF f
      <4>. QED  BY <3>2, <3>3
    <3>5. f[s] \subseteq C
      <4>. HIDE DEF C
      <4>. QED  BY <3>4
    <3>6. f[q] \subseteq f[s]
      <4>1. SUFFICES ASSUME NEW x \in f[q], NEW D \in SUBSET Segment, s \in D, closed(D)
                     PROVE  x \in D
        BY <3>1
      <4>2. q \in D
        BY <2>3, <4>1
      <4>. QED  BY <3>1, <4>1, <4>2
    <3>. HIDE DEF f
    <3>. QED  BY <2>1, <2>3, <3>5, <3>6
  <2>. QED  BY <2>2, <2>3
<1>3. f = [s \in Segment |-> IF Segments[s] = None THEN {s} ELSE {s} \union f[Segments[s]]]
  <2>1. f = [s \in Segment |-> f[s]]
    OBVIOUS
  <2>. HIDE DEF f
  <2>. QED  BY <1>2, <2>1
<1>. HIDE DEF f
<1>. QED  BY <1>3 DEF pathOf, Segment

\* The way up from a segment.
LEMMA Path ==
  ASSUME NEW s \in Segment
  PROVE  /\ s \in pathOf[s]
         /\ Segments[s] = None => pathOf[s] = {s}
         /\ Segments[s] # None => Segments[s] \in Segment /\ pathOf[s] = {s} \union pathOf[Segments[s]]
<1>1. Segments[s] \in Segment \union {None}
  BY SegmentsAssumption DEF Segment
<1>. QED  BY <1>1, PathOfIs

LEMMA PathType == \A s \in Segment : pathOf[s] \in SUBSET Segment
<1>. DEFINE P == {s \in Segment : pathOf[s] \in SUBSET Segment}
<1>1. ASSUME NEW s \in Segment, Segments[s] # None => Segments[s] \in P PROVE s \in P
  BY <1>1, Path
<1>2. P \in SUBSET Segment
  OBVIOUS
<1>. HIDE DEF P
<1>3. P = Segment
  BY <1>1, <1>2, TreeInduction
<1>. QED  BY <1>3 DEF P

\* It goes on with the parent of what is on it.
LEMMA PathClosed ==
  \A s \in Segment : \A c \in pathOf[s] : Segments[c] # None => Segments[c] \in pathOf[s]
<1>. DEFINE P == {s \in Segment : \A c \in pathOf[s] : Segments[c] # None => Segments[c] \in pathOf[s]}
<1>1. ASSUME NEW s \in Segment, Segments[s] # None => Segments[s] \in P PROVE s \in P
  <2>1. CASE Segments[s] = None
    BY <2>1, Path
  <2>2. CASE Segments[s] # None
    <3>1. Segments[s] \in pathOf[Segments[s]]
      BY <2>2, Path
    <3>. QED  BY <1>1, <2>2, <3>1, Path
  <2>. QED  BY <2>1, <2>2
<1>2. P \in SUBSET Segment
  OBVIOUS
<1>. HIDE DEF P
<1>3. P = Segment
  BY <1>1, <1>2, TreeInduction
<1>. QED  BY <1>3 DEF P

\* It comes to what is on it through a child of that.
LEMMA PathThroughChild ==
  \A s \in Segment : \A p \in pathOf[s] : p # s => \E c \in pathOf[s] : Segments[c] = p
<1>. DEFINE P == {s \in Segment : \A p \in pathOf[s] : p # s => \E c \in pathOf[s] : Segments[c] = p}
<1>1. ASSUME NEW s \in Segment, Segments[s] # None => Segments[s] \in P PROVE s \in P
  <2>1. CASE Segments[s] = None
    BY <2>1, Path
  <2>2. CASE Segments[s] # None
    <3>1. SUFFICES ASSUME NEW p \in pathOf[s], p # s PROVE \E c \in pathOf[s] : Segments[c] = p
      OBVIOUS
    <3>2. p \in pathOf[Segments[s]] /\ s \in pathOf[s]
      BY <2>2, <3>1, Path
    <3>3. CASE p = Segments[s]
      BY <3>2, <3>3
    <3>4. CASE p # Segments[s]
      <4>1. PICK c \in pathOf[Segments[s]] : Segments[c] = p
        BY <1>1, <2>2, <3>2, <3>4
      <4>. QED  BY <2>2, <4>1, Path
    <3>. QED  BY <3>3, <3>4
  <2>. QED  BY <2>1, <2>2
<1>2. P \in SUBSET Segment
  OBVIOUS
<1>. HIDE DEF P
<1>3. P = Segment
  BY <1>1, <1>2, TreeInduction
<1>. QED  BY <1>3 DEF P

LEMMA PathHasRoot == \A s \in Segment : \E c \in pathOf[s] : Segments[c] = None
<1>. DEFINE P == {s \in Segment : \E c \in pathOf[s] : Segments[c] = None}
<1>1. ASSUME NEW s \in Segment, Segments[s] # None => Segments[s] \in P PROVE s \in P
  BY <1>1, Path
<1>2. P \in SUBSET Segment
  OBVIOUS
<1>. HIDE DEF P
<1>3. P = Segment
  BY <1>1, <1>2, TreeInduction
<1>. QED  BY <1>3 DEF P

\* It does not come back.
LEMMA PathRises ==
  ASSUME NEW s \in Segment, Segments[s] # None
  PROVE  \A d \in pathOf[Segments[s]] : Segments[d] # Segments[s]
<1>1. SUFFICES ASSUME NEW d \in pathOf[Segments[s]], Segments[d] = Segments[s] PROVE FALSE
  OBVIOUS
<1>. DEFINE S == {x \in Segment : d \in pathOf[x]}
<1>2. Segments[s] \in S
  BY <1>1, Path
<1>3. PICK x \in S : Segments[x] \notin S
  BY <1>2, SegmentsAssumption DEF Segment
<1>4. x # d
  BY <1>1, <1>2, <1>3
<1>. QED  BY <1>3, <1>4, Path

\* It has one child of each segment on it, and one root.
LEMMA PathUnique ==
  \A s \in Segment : \A c, d \in pathOf[s] : Segments[c] = Segments[d] => c = d
<1>. DEFINE P == {s \in Segment : \A c, d \in pathOf[s] : Segments[c] = Segments[d] => c = d}
<1>1. ASSUME NEW s \in Segment, Segments[s] # None => Segments[s] \in P PROVE s \in P
  <2>1. CASE Segments[s] = None
    BY <2>1, Path
  <2>2. CASE Segments[s] # None
    <3>1. \A d \in pathOf[Segments[s]] : Segments[d] # Segments[s]
      BY <2>2, PathRises
    <3>. QED  BY <1>1, <2>2, <3>1, Path
  <2>. QED  BY <2>1, <2>2
<1>2. P \in SUBSET Segment
  OBVIOUS
<1>. HIDE DEF P
<1>3. P = Segment
  BY <1>1, <1>2, TreeInduction
<1>. QED  BY <1>3 DEF P
-----------------------------------------------------------------------------
\* The scope, and the bar of each of its rows.

LEMMA ScopeIs ==
  ASSUME NEW f, NEW version
  PROVE  LET sc == scopeOf(f, version)
         IN  /\ \A a : a \in sc.activities <=>
                  /\ a \in DOMAIN Activities /\ inScope(f, Activities[a].unit)
                  /\ matches(f, version, a)
             /\ f.scope = "mine" => sc.units = {Activities[a].unit : a \in sc.activities}
             /\ f.scope # "mine" => sc.units = {u \in DOMAIN Units : inScope(f, u)}
             /\ sc.withUnallocated <=> /\ f.scope = "all" /\ f.segment = None /\ f.unit = None
                                       /\ f.unitType = None /\ ~filtered(f)
<1>1. \A a \in DOMAIN Activities : Activities[a].unit \in DOMAIN Units
  BY ActivitiesAssumption
<1>. QED  BY <1>1 DEF scopeOf

\* The units of the scope are in it, and those of its activities are among them.
LEMMA ScopeUnits ==
  ASSUME NEW f, NEW version
  PROVE  LET sc == scopeOf(f, version)
         IN  /\ \A u \in sc.units : u \in DOMAIN Units /\ inScope(f, u)
             /\ \A a \in sc.activities : Activities[a].unit \in sc.units
<1>. DEFINE sc == scopeOf(f, version)
<1>1. \A a \in DOMAIN Activities : Activities[a].unit \in DOMAIN Units
  BY ActivitiesAssumption
<1>2. CASE f.scope = "mine"
  BY <1>1, <1>2, ScopeIs
<1>3. CASE f.scope # "mine"
  BY <1>1, <1>3, ScopeIs
<1>. QED  BY <1>2, <1>3

\* Each row is in one bar.
LEMMA OneGroup ==
  ASSUME NEW f, NEW version, NEW r \in scopedRows(scopeOf(f, version))
  PROVE  LET groups == childGroups(f, scopeOf(f, version))
         IN  \E g \in groups : /\ groupIncludes(g, r)
                               /\ \A h \in groups : groupIncludes(h, r) => h = g
<1>. DEFINE sc == scopeOf(f, version)
            groups == childGroups(f, sc)
            segmentGroup(s) == [kind |-> "segment", id |-> s]
            unitGroup(u) == [kind |-> "unit", id |-> u]
            activityGroup(a) == [kind |-> "activity", id |-> a]
            restGroup == [kind |-> "unallocated", id |-> None]
<1>1. sc.withUnallocated => f.segment = None /\ f.unit = None
  BY ScopeIs
<1>2. \A a \in sc.activities : a \in DOMAIN Activities /\ a # None /\ Activities[a].unit \in sc.units
  BY ScopeIs, ScopeUnits, ActivitiesAssumption
<1>3. \A u \in sc.units : u \in DOMAIN Units /\ inScope(f, u)
  BY ScopeUnits
<1>4. r \in sc.activities \/ (r = None /\ sc.withUnallocated)
  BY DEF scopedRows
<1>5. groups = IF f.unit # None THEN {activityGroup(a) : a \in sc.activities}
               ELSE (IF children(f.segment) # {}
                     THEN {segmentGroup(s) : s \in {c \in children(f.segment) :
                             \E u \in sc.units : Units[u].segment \in subtreeIds(c)}}
                     ELSE {unitGroup(u) : u \in
                             {u \in sc.units : f.segment = None \/ Units[u].segment = f.segment}})
                    \union (IF sc.withUnallocated THEN {restGroup} ELSE {})
  BY DEF childGroups
<1>6. /\ \A a : groupIncludes(activityGroup(a), r) <=> r = a
      /\ \A u : groupIncludes(unitGroup(u), r) <=> r # None /\ Activities[r].unit = u
      /\ \A s : groupIncludes(segmentGroup(s), r)
                  <=> r # None /\ Units[Activities[r].unit].segment \in subtreeIds(s)
      /\ groupIncludes(restGroup, r) <=> r = None
  BY DEF groupIncludes
<1>. DEFINE Is(g) == g \in groups /\ groupIncludes(g, r) /\ \A h \in groups : groupIncludes(h, r) => h = g
<1>. SUFFICES \E g : Is(g)
  OBVIOUS
<1>. HIDE DEF sc, groups, segmentGroup, unitGroup, activityGroup, restGroup
<1>7. CASE r = None
  <2>1. r \notin sc.activities
    BY <1>2, <1>7
  <2>2. sc.withUnallocated /\ f.unit = None
    BY <1>1, <1>4, <2>1
  <2>3. Is(restGroup)
    BY <1>5, <1>6, <1>7, <2>2
  <2>. QED  BY <2>3
<1>8. CASE r # None
  <2>. DEFINE u == Activities[r].unit
              s == Units[u].segment
  <2>1. r \in sc.activities /\ u \in sc.units /\ u \in DOMAIN Units /\ inScope(f, u)
    BY <1>2, <1>3, <1>4, <1>8
  <2>2. s \in Segment /\ children(s) = {}
    BY <2>1, UnitsAssumption DEF Segment
  <2>3. \A c : s \in subtreeIds(c) <=> c \in pathOf[s]
    BY <2>2 DEF subtreeIds, Segment
  <2>4. f.segment # None => f.segment \in pathOf[s]
    BY <2>1, <2>3 DEF inScope
  <2>5. \A c : c \in children(f.segment) <=> c \in Segment /\ Segments[c] = f.segment
    BY DEF children, Segment
  <2>6. pathOf[s] \in SUBSET Segment
    BY <2>2, PathType
  <2>. HIDE DEF s, u
  <2>7. CASE f.unit # None
    <3>1. Is(activityGroup(r))
      BY <1>5, <1>6, <2>1, <2>7
    <3>. QED  BY <3>1
  <2>8. CASE f.unit = None /\ children(f.segment) # {}
    <3>1. \E c \in pathOf[s] : Segments[c] = f.segment
      <4>1. CASE f.segment = None
        BY <2>2, <4>1, PathHasRoot
      <4>2. CASE f.segment # None
        <5>1. f.segment # s
          BY <2>2, <2>8
        <5>. QED  BY <2>2, <2>4, <4>2, <5>1, PathThroughChild
      <4>. QED  BY <4>1, <4>2
    <3>2. PICK c \in pathOf[s] : Segments[c] = f.segment
      BY <3>1
    <3>3. segmentGroup(c) \in groups
      BY <1>5, <2>1, <2>3, <2>5, <2>6, <2>8, <3>2 DEF s
    <3>4. groupIncludes(segmentGroup(c), r)
      BY <1>6, <1>8, <2>3, <3>2 DEF s, u
    <3>5. ASSUME NEW h \in groups, groupIncludes(h, r) PROVE h = segmentGroup(c)
      <4>1. h # restGroup
        BY <1>6, <1>8, <3>5
      <4>2. PICK d \in children(f.segment) : h = segmentGroup(d)
        BY <1>5, <2>8, <3>5, <4>1
      <4>3. d \in pathOf[s]
        BY <1>6, <2>3, <3>5, <4>2 DEF s, u
      <4>4. c = d
        BY <2>2, <2>5, <3>2, <4>2, <4>3, PathUnique
      <4>. QED  BY <4>2, <4>4
    <3>. QED  BY <3>3, <3>4, <3>5
  <2>9. CASE f.unit = None /\ children(f.segment) = {}
    <3>1. f.segment = None \/ s = f.segment
      <4>1. SUFFICES ASSUME f.segment # None, s # f.segment PROVE FALSE
        OBVIOUS
      <4>2. PICK c \in pathOf[s] : Segments[c] = f.segment
        BY <2>2, <2>4, <4>1, PathThroughChild
      <4>. QED  BY <2>5, <2>6, <2>9, <4>2
    <3>2. unitGroup(u) \in groups
      BY <1>5, <2>1, <2>9, <3>1 DEF s
    <3>3. groupIncludes(unitGroup(u), r)
      BY <1>6, <1>8 DEF u
    <3>4. ASSUME NEW h \in groups, groupIncludes(h, r) PROVE h = unitGroup(u)
      <4>1. h # restGroup
        BY <1>6, <1>8, <3>4
      <4>2. PICK v : h = unitGroup(v)
        BY <1>5, <2>9, <3>4, <4>1
      <4>. QED  BY <1>6, <3>4, <4>2 DEF u
    <3>. QED  BY <3>2, <3>3, <3>4
  <2>. QED  BY <2>7, <2>8, <2>9
<1>. QED  BY <1>7, <1>8

LEMMA BarsAdd ==
  ASSUME scope = scopeOf(filters, status), IsFiniteSet(scopedRows(scope)),
         None \notin barKeys,
         \A k \in barKeys : \A r \in scopedRows(scope) : Value(r, k) \in Int,
         NEW k \in barKeys
  PROVE  SumFunction([b \in varianceBars |-> Profit(b.rows, k)]) = Profit(scopedRows(scope), k)
<1>. DEFINE rows == scopedRows(scope)
            groups == childGroups(filters, scope)
            of(g) == {r \in rows : groupIncludes(g, r)}
            barOf(g) == [group |-> g, rows |-> of(g)]
            has(g) == \E j \in barKeys : Profit(of(g), j) # 0
            p == [r \in rows |-> CHOOSE g \in groups : groupIncludes(g, r)]
            T == {p[r] : r \in rows}
            F == {g \in T : has(g)}
            f == [r \in rows |-> Value(r, k)]
            d == [g \in T |-> Profit(of(g), k)]
<1>1. ASSUME NEW r \in rows
      PROVE  p[r] \in groups /\ groupIncludes(p[r], r) /\ \A h \in groups : groupIncludes(h, r) => h = p[r]
  <2>. HIDE DEF groups
  <2>1. \E g \in groups : groupIncludes(g, r) /\ \A h \in groups : groupIncludes(h, r) => h = g
    BY OneGroup DEF groups
  <2>2. p[r] = CHOOSE g \in groups : groupIncludes(g, r)
    OBVIOUS
  <2>. HIDE DEF p
  <2>. QED  BY <2>1, <2>2
<1>2. varianceBars = {b \in {barOf(g) : g \in groups} : \E j \in barKeys : Profit(b.rows, j) # 0}
  BY DEF varianceBars
<1>3. \A g : barOf(g).rows = of(g) /\ barOf(g).group = g
  OBVIOUS
<1>. HIDE DEF rows, groups, barOf
<1>4. \A g \in groups : of(g) = {r \in rows : p[r] = g}
  <2>. HIDE DEF p
  <2>. QED  BY <1>1
<1>5. T \in SUBSET groups
  <2>. HIDE DEF p
  <2>. QED  BY <1>1
<1>6. IsFiniteSet(rows) /\ \A j \in barKeys : \A r \in rows : Value(r, j) \in Int
  BY DEF rows
<1>7. \A j \in barKeys : \A S \in SUBSET rows : Profit(S, j) \in Int
  BY <1>6, ProfitIs
<1>8. \A j \in barKeys : Profit({}, j) = 0
  <2>1. SUFFICES ASSUME NEW j \in barKeys PROVE Profit({}, j) = 0
    OBVIOUS
  <2>. DEFINE h == [r \in rows |-> Value(r, j)]
  <2>2. Profit({}, j) = SumFunctionOnSet(h, {})
    BY <1>6, ProfitIs
  <2>3. \A r \in rows : h[r] \in Int
    BY <1>6
  <2>. HIDE DEF h
  <2>4. SumFunctionOnSet(h, {}) = 0
    BY <1>6, <2>3, SumFacts
  <2>. QED  BY <2>2, <2>4
<1>9. \A g \in groups \ T : of(g) = {}
  <2>. HIDE DEF p, of
  <2>. QED  BY <1>4
<1>. HIDE DEF of
<1>10. varianceBars = {barOf(g) : g \in F}
  BY <1>2, <1>3, <1>5, <1>8, <1>9
<1>11. IsFiniteSet(T) /\ IsFiniteSet(F) /\ F \in SUBSET T
  <2>1. p \in Surjection(rows, T)
    BY DEF Surjection
  <2>2. IsFiniteSet(T)
    BY <1>6, <2>1, FS_Surjection
  <2>3. F \in SUBSET T
    OBVIOUS
  <2>. QED  BY <2>2, <2>3, FS_Subset
<1>12. \A r \in rows : f[r] \in Int /\ p[r] \in T
  BY <1>6
<1>13. \A g \in T : of(g) \in SUBSET rows /\ of(g) = {r \in rows : p[r] = g}
  BY <1>4, <1>5
<1>14. \A g \in T : d[g] = SumFunctionOnSet(f, of(g)) /\ d[g] \in Int /\ d[g] = Profit(of(g), k)
  BY <1>6, <1>13, ProfitIs
<1>15. Profit(rows, k) = SumFunctionOnSet(f, rows)
  BY <1>6, ProfitIs
<1>16. \A g \in T \ F : d[g] = 0
  BY <1>14
<1>. HIDE DEF p, T, F, f, d, has
<1>17. SumFunctionOnSet(f, rows) = SumFunctionOnSet(d, T)
  <2>. DEFINE e == [g \in T |-> SumFunctionOnSet(f, {r \in rows : p[r] = g})]
  <2>1. SumFunctionOnSet(f, rows) = SumFunctionOnSet(e, T)
    BY <1>6, <1>11, <1>12, SumByParts
  <2>2. \A g \in T : d[g] \in Int /\ e[g] = d[g]
    BY <1>13, <1>14
  <2>. HIDE DEF e
  <2>3. SumFunctionOnSet(e, T) = SumFunctionOnSet(d, T)
    BY <1>11, <2>2, SumSame
  <2>. QED  BY <2>1, <2>3
<1>18. SumFunctionOnSet(d, T) = SumFunctionOnSet(d, F)
  <2>1. IsFiniteSet(T \ F) /\ \A g \in T : d[g] \in Int
    BY <1>11, <1>14, FS_Subset
  <2>2. SumFunctionOnSet(d, T \ F) = 0
    BY <1>16, <2>1, SumZero
  <2>3. SumFunctionOnSet(d, T) = SumFunctionOnSet(d, F) + SumFunctionOnSet(d, T \ F)
    BY <1>11, <2>1, SumSplit
  <2>4. SumFunctionOnSet(d, F) \in Int
    BY <1>11, <2>1, SumFacts
  <2>. QED  BY <2>2, <2>3, <2>4
<1>. DEFINE bars == varianceBars
            profit == [b \in bars |-> Profit(b.rows, k)]
            g0 == [b \in bars |-> b.group]
<1>19. /\ \A b \in bars : profit[b] \in Int /\ g0[b] \in F /\ profit[b] = d[g0[b]]
       /\ \A b, c \in bars : g0[b] = g0[c] => b = c
       /\ \A g \in F : \E b \in bars : g0[b] = g
  <2>1. \A b \in bars : \E g \in F : b = barOf(g) /\ b.rows = of(g) /\ b.group = g
    BY <1>3, <1>10
  <2>2. \A g \in F : barOf(g) \in bars
    BY <1>10
  <2>3. \A g \in F : d[g] \in Int /\ d[g] = Profit(of(g), k)
    BY <1>11, <1>14
  <2>. HIDE DEF bars
  <2>4. \A b \in bars : profit[b] \in Int /\ g0[b] \in F /\ profit[b] = d[g0[b]]
    BY <2>1, <2>3
  <2>5. \A b, c \in bars : g0[b] = g0[c] => b = c
    BY <2>1
  <2>6. \A g \in F : \E b \in bars : g0[b] = g
    BY <1>3, <2>2
  <2>. QED  BY <2>4, <2>5, <2>6
<1>20. IsFiniteSet(bars)
  <2>. DEFINE q == [g \in F |-> barOf(g)]
  <2>1. q \in Surjection(F, bars)
    BY <1>10 DEF Surjection
  <2>. QED  BY <1>11, <2>1, FS_Surjection
<1>21. SumFunction(profit) = SumFunctionOnSet(profit, bars)
  BY DEF SumFunction
<1>. HIDE DEF bars, profit, g0
<1>22. SumFunctionOnSet(profit, bars) = SumFunctionOnSet(d, F)
  <2>1. \A x \in bars : profit[x] \in Int /\ g0[x] \in F /\ profit[x] = d[g0[x]]
    BY <1>19
  <2>2. \A x, y \in bars : g0[x] = g0[y] => x = y
    BY <1>19
  <2>3. \A t \in F : \E x \in bars : g0[x] = t
    BY <1>19
  <2>4. IsFiniteSet(F)
    BY <1>11
  <2>. QED  BY ONLY <1>20, <2>1, <2>2, <2>3, <2>4, SumRenamed
<1>. QED  BY <1>15, <1>17, <1>18, <1>21, <1>22 DEF rows, profit, bars
-----------------------------------------------------------------------------
\* The screen follows from its address and its readings.

OfAYear(f) == f.fy \in Years \union {None}
Reading == [kind : {"report"}, of : Seq(DOMAIN Versions)] \union [kind : {"status"}, of : DOMAIN Versions]

\* The address is one of a year that exists; the filters and the choice of
\* versions follow from it, the scope from it and from the last notes received;
\* what is under way was asked for of versions that exist.
Inv ==
  /\ filters = parseFilters(url)
  /\ selection = Selection(filters)
  /\ scope = scopeOf(filters, status)
  /\ back \in Seq(Range(back))
  /\ \A query \in Range(back) \union {url} : OfAYear(parseFilters(query))
  /\ report \in Seq(DOMAIN Versions) \union {None}
  /\ status \in DOMAIN Versions \union {None}
  /\ gets \in Seq(Reading)

-----------------------------------------------------------------------------
\* What is asked for exists.

LEMMA GreatestExists ==
  ASSUME NEW D \in SUBSET Nat, IsFiniteSet(D), D # {}
  PROVE  \E x \in D : \A y \in D : x >= y
<1>. DEFINE P == {s \in SUBSET D : s # {} => \E x \in s : \A y \in s : x >= y}
<1>1. {} \in P
  OBVIOUS
<1>2. ASSUME NEW s \in SUBSET D, s # {}, \A x \in s : s \ {x} \in P PROVE s \in P
  <2>1. PICK x \in s : TRUE
    BY <1>2
  <2>2. CASE s \ {x} = {}
    <3>1. \A y \in s : x >= y
      BY <2>1, <2>2
    <3>. QED  BY <3>1
  <2>3. CASE s \ {x} # {}
    <3>1. PICK z \in s \ {x} : \A y \in s \ {x} : z >= y
      BY <1>2, <2>3
    <3>2. \A y \in s : (IF x >= z THEN x ELSE z) >= y
      BY <3>1
    <3>. QED  BY <3>1, <3>2
  <2>. QED  BY <2>2, <2>3
<1>3. P \in SUBSET SUBSET D
  OBVIOUS
<1>. HIDE DEF P
<1>4. P = SUBSET D
  BY <1>1, <1>2, <1>3, SubsetInduction
<1>5. D \in P
  BY <1>4
<1>. QED  BY <1>5 DEF P

LEMMA MinMaxIn ==
  ASSUME NEW S \in SUBSET DOMAIN Versions, S # {}
  PROVE  Min(S) \in S /\ Max(S) \in S
<1>1. S \in SUBSET Nat /\ IsFiniteSet(S)
  BY VersionsAssumption, FS_Subset
<1>2. \E x \in S : \A y \in S : x <= y
  BY <1>1, LeastExists
<1>3. \E x \in S : \A y \in S : x >= y
  BY <1>1, GreatestExists
<1>4. Min(S) \in S
  BY <1>2 DEF Min
<1>5. Max(S) \in S
  BY <1>3 DEF Max
<1>. QED  BY <1>4, <1>5

LEMMA DefaultsExist ==
  ASSUME NEW S \in SUBSET DOMAIN Versions, S # {}
  PROVE  defaultScenarios(S).latest \in S
<1>. DEFINE byRole(role) == {s \in S : Versions[s].role = role}
            first(R, else) == IF R = {} THEN else ELSE Min(R)
            base == first(byRole("revised"), first(byRole("initial"), first(S, None)))
            newest == IF S \ {base} = {} THEN base ELSE Max(S \ {base})
            active == {s \in S : Versions[s].active}
<1>1. ASSUME NEW R \in SUBSET S, NEW else \in S PROVE first(R, else) \in S
  BY <1>1, MinMaxIn
<1>2. first(S, None) \in S
  BY MinMaxIn
<1>3. (\A role : byRole(role) \in SUBSET S) /\ active \in SUBSET S
  OBVIOUS
<1>. HIDE DEF first, byRole, active
<1>4. base \in S
  BY <1>1, <1>2, <1>3
<1>. HIDE DEF base
<1>5. newest \in S
  <2>1. S \ {base} # {} => Max(S \ {base}) \in S \ {base}
    <3>1. S \ {base} \in SUBSET DOMAIN Versions
      OBVIOUS
    <3>. QED  BY <3>1, MinMaxIn
  <2>. QED  BY <1>4, <2>1
<1>. HIDE DEF newest
<1>6. first(byRole("latest"), first(active, newest)) \in S
  BY <1>1, <1>3, <1>5
<1>7. defaultScenarios(S).latest = first(byRole("latest"), first(active, newest))
  BY DEF defaultScenarios, first, byRole, active, newest, base
<1>. QED  BY <1>6, <1>7

LEMMA SelectionOK ==
  ASSUME NEW f, OfAYear(f)
  PROVE  /\ Selection(f).ids \in Seq(DOMAIN Versions)
         /\ Selection(f).current \in DOMAIN Versions
<1>. DEFINE fy == IF f.fy = None THEN Versions[Active].year ELSE f.fy
            inYear == {s \in DOMAIN Versions : Versions[s].year = fy}
            current == IF f.scenario \in inYear THEN f.scenario
                       ELSE IF Active \in inYear THEN Active ELSE defaultScenarios(inYear).latest
            other(s) == IF s \in inYear \ {current} THEN s ELSE None
            previous == other(Versions[current].previous)
            compare == IF f.compare = "previous" THEN previous ELSE other(defaultScenarios(inYear).base)
            asked(s, before) == IF s = None \/ Contains(before, s) THEN before ELSE Append(before, s)
<1>1. Active \in DOMAIN Versions
  BY VersionsAssumption DEF Active
<1>2. \E s \in DOMAIN Versions : Versions[s].year = fy
  BY <1>1 DEF OfAYear, Years
<1>. HIDE DEF fy
<1>3. inYear \in SUBSET DOMAIN Versions /\ inYear # {}
  BY <1>2
<1>. HIDE DEF inYear
<1>4. current \in inYear
  BY <1>3, DefaultsExist
<1>. HIDE DEF current
<1>5. ASSUME NEW s \in inYear \union {None}, NEW before \in Seq(DOMAIN Versions)
      PROVE  asked(s, before) \in Seq(DOMAIN Versions)
  <2>1. s # None => s \in DOMAIN Versions
    BY <1>3
  <2>2. s # None => Append(before, s) \in Seq(DOMAIN Versions)
    BY <2>1, AppendProperties
  <2>. QED  BY <1>5, <2>2
<1>6. \A s : other(s) \in inYear \union {None}
  OBVIOUS
<1>. HIDE DEF other
<1>7. previous \in inYear \union {None} /\ compare \in inYear \union {None}
  BY <1>6
<1>8. <<current>> \in Seq(DOMAIN Versions)
  BY <1>3, <1>4
<1>. HIDE DEF previous, compare, asked
<1>9. asked(previous, asked(compare, <<current>>)) \in Seq(DOMAIN Versions)
  BY <1>5, <1>7, <1>8
<1>10. /\ Selection(f).ids = asked(previous, asked(compare, <<current>>))
       /\ Selection(f).current = current
  BY DEF Selection, asked, previous, compare, other, current, inYear, fy
<1>. QED  BY <1>3, <1>4, <1>9, <1>10

\* An address says what it was made from.
LEMMA RoundTrip ==
  ASSUME NEW f, f = [k \in Params |-> f[k]]
  PROVE  parseFilters(filtersQuery(f)) = f
<1>. DEFINE q == filtersQuery(f)
<1>1. /\ \A k \in Params : k \in DOMAIN q <=> f[k] # Default(k)
      /\ \A k \in DOMAIN q : q[k] = f[k]
  BY DEF filtersQuery
<1>. HIDE DEF q
<1>2. parseFilters(q) = [k \in Params |-> IF k \in DOMAIN q THEN q[k] ELSE Default(k)]
  BY DEF parseFilters
<1>3. \A k \in Params : (IF k \in DOMAIN q THEN q[k] ELSE Default(k)) = f[k]
  BY <1>1
<1>4. parseFilters(q) = [k \in Params |-> f[k]]
  BY <1>2, <1>3
<1>. QED  BY <1>4 DEF q

\* The filters that a patch leads to.
After(patch) == [k \in Params |-> IF k \in DOMAIN patch THEN patch[k] ELSE filters[k]]

LEMMA PatchedIs ==
  ASSUME NEW patch
  PROVE  parseFilters(patched(patch)) = After(patch)
<1>1. After(patch) = [k \in Params |-> After(patch)[k]]
  BY DEF After
<1>2. patched(patch) = filtersQuery(After(patch))
  BY DEF patched, After
<1>. QED  BY <1>1, <1>2, RoundTrip

-----------------------------------------------------------------------------
LEMMA GoInv ==
  ASSUME Inv, NEW query, Go(query), OfAYear(parseFilters(query)),
         back' \in Seq(Range(back')), \A q \in Range(back') : OfAYear(parseFilters(q))
  PROVE  Inv'
<1>. DEFINE read(kind, old, new) == IF new = old THEN <<>> ELSE <<Get(kind, new)>>
<1>1. /\ url' = query /\ filters' = parseFilters(query) /\ selection' = Selection(filters')
      /\ scope' = scopeOf(filters', status) /\ UNCHANGED <<report, status>>
      /\ gets' = gets \o read("report", selection.ids, selection'.ids)
                      \o read("status", selection.current, selection'.current)
  BY DEF Go, Memo
<1>2. selection'.ids \in Seq(DOMAIN Versions) /\ selection'.current \in DOMAIN Versions
  BY <1>1, SelectionOK
<1>3. Get("report", selection'.ids) \in Reading /\ Get("status", selection'.current) \in Reading
  BY <1>2 DEF Get, Reading
<1>4. /\ read("report", selection.ids, selection'.ids) \in Seq(Reading)
      /\ read("status", selection.current, selection'.current) \in Seq(Reading)
  <2>. HIDE DEF Inv
  <2>. QED  BY <1>3
<1>5. gets' \in Seq(Reading)
  <2>. HIDE DEF read
  <2>. QED  BY <1>1, <1>4, ConcatProperties DEF Inv
<1>. QED  BY <1>1, <1>5 DEF Inv

LEMMA SetInv ==
  ASSUME Inv, NEW patch, "fy" \in DOMAIN patch => patch["fy"] \in Years \union {None}, set(patch)
  PROVE  Inv'
<1>1. parseFilters(patched(patch)) = After(patch)
  BY PatchedIs
<1>2. OfAYear(After(patch))
  <2>1. OfAYear(filters)
    BY DEF Inv
  <2>. QED  BY <2>1 DEF OfAYear, After, Params
<1>3. Go(patched(patch)) /\ back' = Append(back, url)
  BY DEF set
<1>4. back' \in Seq(Range(back')) /\ Range(back') \subseteq Range(back) \union {url}
  <2>. DEFINE S == Range(back) \union {url}
  <2>1. back \in Seq(S) /\ url \in S
    BY SeqMonotonic DEF Inv
  <2>. HIDE DEF S
  <2>2. /\ back' \in Seq(S) /\ Len(back') = Len(back) + 1
        /\ \A i \in 1..(Len(back) + 1) : back'[i] \in S
    BY <1>3, <2>1, AppendProperties
  <2>3. \A i \in 1..Len(back') : back'[i] \in Range(back') /\ back'[i] \in S
    BY <2>2, LenProperties DEF Range
  <2>4. back' \in Seq(Range(back'))
    BY <2>2, <2>3, LenProperties, IsASeq
  <2>5. Range(back') \subseteq S
    BY <2>2, <2>3, LenProperties DEF Range
  <2>. QED  BY <2>4, <2>5 DEF S
<1>5. \A q \in Range(back') : OfAYear(parseFilters(q))
  BY <1>4 DEF Inv
<1>. QED  BY <1>1, <1>2, <1>3, <1>4, <1>5, GoInv

LEMMA InitInv == Init => Inv
<1>. SUFFICES ASSUME Init PROVE Inv
  OBVIOUS
<1>1. /\ url \in {<<>>} \union {LinkTo(s) : s \in HomeVersions}
      /\ filters = parseFilters(url) /\ selection = Selection(filters) /\ scope = scopeOf(filters, None)
      /\ back = <<>> /\ report = None /\ status = None
      /\ gets = <<Get("report", selection.ids), Get("status", selection.current)>>
  BY DEF Init
<1>2. OfAYear(parseFilters(url))
  <2>1. CASE url = <<>>
    BY <2>1 DEF parseFilters, OfAYear, Params, Default
  <2>2. CASE url \in {LinkTo(s) : s \in HomeVersions}
    <3>1. PICK s \in DOMAIN Versions : url = LinkTo(s)
      BY <2>2 DEF HomeVersions
    <3>2. parseFilters(url).fy = Versions[s].year
      BY <3>1 DEF parseFilters, LinkTo, Params
    <3>. QED  BY <3>2 DEF OfAYear, Years
  <2>. QED  BY <1>1, <2>1, <2>2
<1>3. Get("report", selection.ids) \in Reading /\ Get("status", selection.current) \in Reading
  BY <1>1, <1>2, SelectionOK DEF Get, Reading
<1>4. gets \in Seq(Reading)
  BY <1>1, <1>3
<1>5. back \in Seq(Range(back)) /\ Range(back) = {}
  BY <1>1 DEF Range
<1>. QED  BY <1>1, <1>2, <1>4, <1>5 DEF Inv

LEMMA ReadingOut ==
  ASSUME Inv, NEW i \in DOMAIN gets
  PROVE  /\ RemoveAt(gets, i) \in Seq(Reading)
         /\ gets[i] \in Reading
<1>1. gets \in Seq(Reading) /\ i \in 1..Len(gets)
  BY LenProperties DEF Inv
<1>2. gets[i] \in Reading
  BY <1>1, ElementOfSeq
<1>3. SubSeq(gets, 1, i - 1) \in Seq(Reading) /\ SubSeq(gets, i + 1, Len(gets)) \in Seq(Reading)
  BY <1>1
<1>. QED  BY <1>2, <1>3, ConcatProperties DEF RemoveAt

LEMMA NetworkInv == ASSUME Inv, Network PROVE Inv'
<1>1. ASSUME NEW i \in DOMAIN gets, Answered(i) PROVE Inv'
  <2>1. /\ gets' = RemoveAt(gets, i)
        /\ report' = IF gets[i].kind = "report" THEN gets[i].of ELSE report
        /\ status' = IF gets[i].kind = "status" THEN gets[i].of ELSE status
        /\ scope' = scopeOf(filters, status') /\ UNCHANGED <<url, back, filters, selection>>
    BY <1>1 DEF Answered, address
  <2>2. gets' \in Seq(Reading) /\ gets[i] \in Reading
    BY <2>1, ReadingOut
  <2>3. report' \in Seq(DOMAIN Versions) \union {None} /\ status' \in DOMAIN Versions \union {None}
    BY <2>1, <2>2 DEF Inv, Reading
  <2>. QED  BY <2>1, <2>2, <2>3 DEF Inv
<1>2. ASSUME NEW i \in DOMAIN gets, Fails(i) PROVE Inv'
  <2>1. gets' = RemoveAt(gets, i) /\ UNCHANGED <<url, back, filters, selection, scope, report, status>>
    BY <1>2 DEF Fails, address
  <2>2. gets' \in Seq(Reading)
    BY <2>1, ReadingOut
  <2>. QED  BY <2>1, <2>2 DEF Inv
<1>3. CASE RowsArrive
  BY <1>3 DEF RowsArrive, Inv, address
<1>4. CASE RowsFail
  BY <1>4 DEF RowsFail, Inv, address
<1>. QED  BY <1>1, <1>2, <1>3, <1>4 DEF Network

LEMMA BackInv == ASSUME Inv, Back PROVE Inv'
<1>1. back # <<>> /\ Go(Last(back)) /\ back' = Front(back)
  BY DEF Back
<1>2. back \in Seq(Range(back)) /\ Len(back) \in Nat /\ Len(back) # 0
  BY <1>1 DEF Inv
<1>. DEFINE S == Range(back)
<1>3. Last(back) \in S
  BY <1>2, ElementOfSeq DEF Last
<1>4. /\ back' \in Seq(S) /\ \A j \in 1..Len(back') : back'[j] \in S
  BY <1>1, <1>2, ElementOfSeq DEF Front
<1>5. back' \in Seq(Range(back')) /\ Range(back') \subseteq S
  <2>. HIDE DEF S
  <2>1. \A j \in 1..Len(back') : back'[j] \in Range(back')
    BY <1>4, LenProperties DEF Range
  <2>2. back' \in Seq(Range(back'))
    BY <1>4, <2>1, LenProperties, IsASeq
  <2>. QED  BY <1>4, <2>2, LenProperties DEF Range
<1>6. OfAYear(parseFilters(Last(back))) /\ \A q \in Range(back') : OfAYear(parseFilters(q))
  BY <1>3, <1>5 DEF Inv
<1>. QED  BY <1>1, <1>5, <1>6, GoInv

LEMMA ClickInv == ASSUME Inv, Click PROVE Inv'
<1>1. ASSUME NEW y \in Years, SelectYear(y) PROVE Inv'
  <2>. DEFINE patch == [fy |-> y, scenario |-> None, segment |-> None, unit |-> None]
  <2>1. "fy" \in DOMAIN patch /\ patch["fy"] = y
    OBVIOUS
  <2>2. set(patch)
    BY <1>1 DEF SelectYear
  <2>. HIDE DEF patch
  <2>. QED  BY <2>1, <2>2, SetInv
<1>2. ASSUME NEW s \in DOMAIN Versions, SelectScenario(s) PROVE Inv'
  <2>1. set([scenario |-> s]) /\ "fy" \notin DOMAIN [scenario |-> s]
    BY <1>2 DEF SelectScenario
  <2>. QED  BY <2>1, SetInv
<1>3. ASSUME NEW c \in {"target", "previous"}, SelectCompare(c) PROVE Inv'
  <2>1. set([compare |-> c]) /\ "fy" \notin DOMAIN [compare |-> c]
    BY <1>3 DEF SelectCompare
  <2>. QED  BY <2>1, SetInv
<1>4. ASSUME NEW s \in {"all", "units", "mine"}, SelectScope(s) PROVE Inv'
  <2>1. set([scope |-> s]) /\ "fy" \notin DOMAIN [scope |-> s]
    BY <1>4 DEF SelectScope
  <2>. QED  BY <2>1, SetInv
<1>5. ASSUME NEW key \in {"type", "unitType"}, NEW t, SelectTypes(key, t) PROVE Inv'
  <2>1. set([k \in {key} |-> t]) /\ "fy" \notin DOMAIN [k \in {key} |-> t]
    BY <1>5 DEF SelectTypes
  <2>. QED  BY <2>1, SetInv
<1>6. ASSUME NEW c \in breadcrumb(filters), Crumb(c) PROVE Inv'
  <2>1. set(c) /\ "fy" \notin DOMAIN c
    BY <1>6 DEF Crumb, breadcrumb
  <2>. QED  BY <2>1, SetInv
<1>7. ASSUME NEW key \in {"cause", "level"}, RemoveChip(key) PROVE Inv'
  <2>1. set([k \in {key} |-> None]) /\ "fy" \notin DOMAIN [k \in {key} |-> None]
    BY <1>7 DEF RemoveChip
  <2>. QED  BY <2>1, SetInv
<1>8. ASSUME NEW level, onLevel(level) PROVE Inv'
  <2>. DEFINE patch == [level |-> IF filters.level = level THEN None ELSE level]
  <2>1. set(patch) /\ "fy" \notin DOMAIN patch
    BY <1>8 DEF onLevel
  <2>. HIDE DEF patch
  <2>. QED  BY <2>1, SetInv
<1>9. \A g : "fy" \notin DOMAIN onGroup(g)
  BY DEF onGroup
<1>10. CASE ClickBar
  <2>1. PICK b : set(onGroup(b.group))
    BY <1>10 DEF ClickBar
  <2>. QED  BY <1>9, <2>1, SetInv
<1>11. CASE ClickStep
  <2>1. PICK step : set(onGroup(step.entry)) \/ set(onCause(step.entry.id))
    BY <1>11 DEF ClickStep
  <2>2. \A c : "fy" \notin DOMAIN onCause(c)
    BY DEF onCause
  <2>3. CASE set(onGroup(step.entry))
    BY <1>9, <2>3, SetInv
  <2>4. CASE set(onCause(step.entry.id))
    BY <2>2, <2>4, SetInv
  <2>. QED  BY <2>1, <2>3, <2>4
<1>12. CASE onMode
  BY <1>12 DEF onMode, Inv
<1>. QED  BY <1>1, <1>2, <1>3, <1>4, <1>5, <1>6, <1>7, <1>8, <1>10, <1>11, <1>12, BackInv DEF Click

\* Every click, every answer and a reading that fails keep the screen in agreement
\* with its address and its readings: DashboardPage.tsx computes it from them, and
\* keeps no copy of its own.
THEOREM NextInv == Inv /\ [Next]_vars => Inv'
<1>1. CASE UNCHANGED vars
  <2>. USE <1>1 DEF vars
  <2>. QED  BY DEF Inv
<1>. QED  BY <1>1, ClickInv, NetworkInv DEF Next

\* The filters, the versions and the scope that are shown follow from the address and
\* from the readings that were received (useMemo in DashboardPage.tsx).
THEOREM SpecInv == Spec => []Inv
  BY InitInv, NextInv, PTL DEF Spec
-----------------------------------------------------------------------------
\* The sums.

LEMMA Rows ==
  ASSUME Inv
  PROVE  /\ IsFiniteSet(scopedRows(scope))
         /\ scopedRows(scope) \in SUBSET (DOMAIN Activities \union {None})
<1>1. scopedRows(scope) \in SUBSET (DOMAIN Activities \union {None})
  BY ScopeIs DEF Inv, scopedRows
<1>2. IsFiniteSet(DOMAIN Activities \union {None})
  BY ActivitiesAssumption, FS_AddElement
<1>. QED  BY <1>1, <1>2, FS_Subset

\* A comparison was received before anything is shown.
LEMMA Received ==
  ASSUME Inv, NEW v, keyOf(v) # None
  PROVE  report \in Seq(DOMAIN Versions)
BY DEF keyOf, Inv

LEMMA Values ==
  ASSUME Inv, report \in Seq(DOMAIN Versions), NEW k
  PROVE  \A r \in scopedRows(scope) : Value(r, k) \in Int
<1>1. SUFFICES ASSUME NEW r \in DOMAIN Activities \union {None} PROVE Value(r, k) \in Int
  BY Rows
<1>. DEFINE asked == IF r = None THEN report ELSE selection.ids
<1>2. asked \in Seq(DOMAIN Versions)
  BY SelectionOK DEF Inv
<1>. HIDE DEF asked
<1>3. k \in DOMAIN asked => asked[k] \in DOMAIN Versions
  BY <1>2, LenProperties, ElementOfSeq
<1>4. Value(r, k) = IF k \in DOMAIN asked THEN Amounts[<<asked[k], r>>] ELSE 0
  BY DEF Value, asked
<1>. QED  BY <1>3, <1>4, AmountsAssumption

\* The list of the steps, before it is cut.
LEMMA DeltasAre ==
  ASSUME Inv, report \in Seq(DOMAIN Versions), NEW from, NEW to
  PROVE  LET rows == scopedRows(scope)
             S == StepsOf(rows, [r \in rows |-> entryOf(r, childGroups(filters, scope))], from, to)
             n == Cardinality(S)
         IN  /\ n \in Nat /\ \A x \in S : x.delta \in Int
             /\ Deltas(from, to) \in [1..n -> S]
             /\ SumFunctionOnSet(Change(Deltas(from, to)), 1..n) = Profit(rows, to) - Profit(rows, from)
<1>. DEFINE rows == scopedRows(scope)
            entry == [r \in rows |-> entryOf(r, childGroups(filters, scope))]
            S == StepsOf(rows, entry, from, to)
<1>1. Deltas(from, to) = LargestFirst(S)
  BY DEF Deltas, StepsOf
<1>2. IsFiniteSet(rows)
  BY Rows
<1>3. \A r \in rows : Value(r, from) \in Int /\ Value(r, to) \in Int
  BY Values
<1>4. entry \in [rows -> Range(entry)]
  BY DEF Range
<1>. HIDE DEF rows, entry
<1>. DEFINE n == Cardinality(S)
            list == LargestFirst(S)
<1>5. /\ IsFiniteSet(S) /\ \A x \in S : x.delta \in Int
      /\ list \in [1..n -> S] /\ Range(list) = S
      /\ SumFunctionOnSet(Change(list), 1..n) = Profit(rows, to) - Profit(rows, from)
  BY <1>2, <1>3, <1>4, StepsAdd
<1>6. n \in Nat
  BY <1>5, FS_CardinalityType
<1>. QED  BY <1>1, <1>5, <1>6 DEF rows, entry

LEMMA WaterfallAdds ==
  ASSUME Inv, report \in Seq(DOMAIN Versions), NEW from, NEW to
  PROVE  /\ SumFunction(Change(waterfall(from, to)))
              = Profit(scopedRows(scope), to) - Profit(scopedRows(scope), from)
         /\ Profit(scopedRows(scope), to) \in Int /\ Profit(scopedRows(scope), from) \in Int
<1>. DEFINE rows == scopedRows(scope)
            S == StepsOf(rows, [r \in rows |-> entryOf(r, childGroups(filters, scope))], from, to)
            n == Cardinality(S)
            list == Deltas(from, to)
<1>1. /\ n \in Nat /\ \A x \in S : x.delta \in Int
      /\ list \in [1..n -> S]
      /\ SumFunctionOnSet(Change(list), 1..n) = Profit(rows, to) - Profit(rows, from)
  BY DeltasAre
<1>. HIDE DEF list, n, S
<1>2. SumFunction(Change(cut(list))) = SumFunctionOnSet(Change(list), 1..n)
  BY <1>1, CutKeepsTheSum
<1>3. Profit(rows, to) \in Int /\ Profit(rows, from) \in Int
  <2>1. \A k : \A r \in rows : Value(r, k) \in Int
    BY Values
  <2>2. IsFiniteSet(rows) /\ rows \in SUBSET rows
    BY Rows
  <2>. HIDE DEF rows
  <2>. QED  BY <2>1, <2>2, ProfitIs
<1>4. waterfall(from, to) = cut(list)
  BY DEF waterfall, list
<1>. QED  BY <1>1, <1>2, <1>3, <1>4

LEMMA InvAddsUp == Inv => BarsAddUp
<1>. SUFFICES ASSUME Inv, Shown PROVE BarsAddUp
  BY DEF BarsAddUp
<1>. DEFINE rows == scopedRows(scope)
<1>1. report \in Seq(DOMAIN Versions)
  BY Received DEF Shown, Ready
<1>2. ASSUME None \notin barKeys, NEW k \in barKeys
      PROVE  SumFunction([b \in varianceBars |-> Profit(b.rows, k)]) = Profit(rows, k)
  <2>1. \A j \in barKeys : \A r \in scopedRows(scope) : Value(r, j) \in Int
    BY <1>1, Values
  <2>2. scope = scopeOf(filters, status) /\ IsFiniteSet(scopedRows(scope))
    BY Rows DEF Inv
  <2>. QED  BY <1>2, <2>1, <2>2, BarsAdd
<1>3. ASSUME Compared
      PROVE  Profit(rows, keyOf(selection.previous)) + SumFunction(Change(Steps))
               = Profit(rows, keyOf(selection.current))
  <2>. DEFINE from == keyOf(selection.previous)
              to == keyOf(selection.current)
  <2>1. Steps = waterfall(from, to)
    BY <1>3 DEF Steps
  <2>. HIDE DEF from, to
  <2>2. /\ SumFunction(Change(waterfall(from, to))) = Profit(rows, to) - Profit(rows, from)
        /\ Profit(rows, to) \in Int /\ Profit(rows, from) \in Int
    BY <1>1, WaterfallAdds
  <2>3. Profit(rows, from) + SumFunction(Change(Steps)) = Profit(rows, to)
    BY <2>1, <2>2
  <2>. QED  BY <2>3 DEF from, to
<1>. QED  BY <1>2, <1>3 DEF BarsAddUp

\* The bars by segment, unit and activity add up to the profit of the whole, for the
\* forecast and for the plan, and the steps of the waterfall lead from the one to the
\* other, also when the smallest are shown as one (childGroups, waterfall).
THEOREM ProfitsAddUp == Spec => []BarsAddUp
  BY InvAddsUp, SpecInv, PTL
-----------------------------------------------------------------------------
\* What a click shows.

\* The versions that are asked for do not depend on the other filters.
LEMMA SelectionSame ==
  ASSUME NEW f, NEW g, f.fy = g.fy, f.scenario = g.scenario, f.compare = g.compare
  PROVE  Selection(f) = Selection(g)
BY DEF Selection

\* Filters that leave some of the units and activities.
LEMMA Narrower ==
  ASSUME NEW f, NEW g, NEW version, NEW Q, NEW A, g.scope = f.scope,
         \A u \in DOMAIN Units : inScope(g, u) <=> inScope(f, u) /\ u \in Q,
         \A a \in DOMAIN Activities : matches(g, version, a) <=> matches(f, version, a) /\ a \in A
  PROVE  /\ \A a : a \in scopeOf(g, version).activities <=>
              a \in scopeOf(f, version).activities /\ Activities[a].unit \in Q /\ a \in A
         /\ scopeOf(g, version).units \subseteq scopeOf(f, version).units
<1>. DEFINE sc == scopeOf(f, version)
            to == scopeOf(g, version)
<1>1. \A a \in DOMAIN Activities : Activities[a].unit \in DOMAIN Units
  BY ActivitiesAssumption
<1>2. /\ \A a : a \in sc.activities <=>
           /\ a \in DOMAIN Activities /\ inScope(f, Activities[a].unit) /\ matches(f, version, a)
      /\ f.scope = "mine" => sc.units = {Activities[a].unit : a \in sc.activities}
      /\ f.scope # "mine" => sc.units = {u \in DOMAIN Units : inScope(f, u)}
  BY ScopeIs
<1>3. /\ \A a : a \in to.activities <=>
           /\ a \in DOMAIN Activities /\ inScope(g, Activities[a].unit) /\ matches(g, version, a)
      /\ g.scope = "mine" => to.units = {Activities[a].unit : a \in to.activities}
      /\ g.scope # "mine" => to.units = {u \in DOMAIN Units : inScope(g, u)}
  BY ScopeIs
<1>. HIDE DEF sc, to
<1>4. \A a : a \in to.activities <=> a \in sc.activities /\ Activities[a].unit \in Q /\ a \in A
  BY <1>1, <1>2, <1>3
<1>5. to.units \subseteq sc.units
  <2>1. CASE f.scope = "mine"
    BY <1>2, <1>3, <1>4, <2>1
  <2>2. CASE f.scope # "mine"
    BY <1>2, <1>3, <2>2
  <2>. QED  BY <2>1, <2>2
<1>. QED  BY <1>4, <1>5 DEF sc, to

\* What such filters show is there.
LEMMA StaysThere ==
  ASSUME Inv, Shown, NEW patch, DOMAIN patch \intersect {"fy", "scenario", "compare"} = {},
         scopeOf(After(patch), status).units \subseteq scope.units
  PROVE  /\ Selection(After(patch)) = selection
         /\ \A u \in scopeOf(After(patch), status).units : <<selection.ids, u>> \in cache
<1>1. /\ After(patch).fy = filters.fy /\ After(patch).scenario = filters.scenario
      /\ After(patch).compare = filters.compare
  BY DEF After, Params
<1>2. Selection(After(patch)) = selection
  BY <1>1, SelectionSame DEF Inv
<1>3. \A u \in scope.units : <<selection.ids, u>> \in cache
  BY DEF Shown, Ready, missing, Missing
<1>. QED  BY <1>2, <1>3

LEMMA GroupKinds ==
  ASSUME NEW f, NEW sc, NEW g \in childGroups(f, sc)
  PROVE  /\ g.kind \in {"activity", "segment", "unit", "unallocated"}
         /\ g.kind = "segment" => /\ f.unit = None /\ g.id \in children(f.segment)
                                  /\ g = [kind |-> "segment", id |-> g.id]
         /\ g.kind = "unit" => /\ f.unit = None /\ g.id \in sc.units
                               /\ g = [kind |-> "unit", id |-> g.id]
BY DEF childGroups

LEMMA ClickSegment ==
  ASSUME Inv, filters.unit = None, NEW c \in children(filters.segment)
  PROVE  LET patch == [segment |-> c, unit |-> None]
             g == [kind |-> "segment", id |-> c]
         IN  /\ scopeOf(After(patch), status).units \subseteq scope.units
             /\ scopedRows(scopeOf(After(patch), status)) = {r \in scopedRows(scope) : groupIncludes(g, r)}
<1>. DEFINE patch == [segment |-> c, unit |-> None]
            f == After(patch)
            to == scopeOf(f, status)
            Q == {u \in DOMAIN Units : Units[u].segment \in subtreeIds(c)}
<1>1. c \in Segment /\ c # None /\ Segments[c] = filters.segment
  BY SegmentsAssumption DEF children, Segment
<1>2. /\ f.segment = c /\ f.unit = None /\ f.scope = filters.scope /\ f.unitType = filters.unitType
      /\ f.type = filters.type /\ f.cause = filters.cause /\ f.level = filters.level
  BY DEF After, Params
<1>. HIDE DEF f
<1>3. ASSUME NEW u \in DOMAIN Units PROVE inScope(f, u) <=> inScope(filters, u) /\ u \in Q
  <2>. DEFINE s == Units[u].segment
  <2>1. s \in Segment
    BY UnitsAssumption DEF Segment
  <2>2. \A x : s \in subtreeIds(x) <=> x \in pathOf[s]
    BY <2>1 DEF subtreeIds, Segment
  <2>3. s \in subtreeIds(c) /\ filters.segment # None => s \in subtreeIds(filters.segment)
    BY <1>1, <2>1, <2>2, PathClosed
  <2>. HIDE DEF s
  <2>. QED  BY <1>1, <1>2, <2>3 DEF inScope, s
<1>4. \A a \in DOMAIN Activities : matches(f, status, a) <=> matches(filters, status, a) /\ a \in DOMAIN Activities
  BY <1>2 DEF matches
<1>5. scope = scopeOf(filters, status)
  BY DEF Inv
<1>6. /\ \A a : a \in to.activities <=>
           a \in scope.activities /\ Activities[a].unit \in Q /\ a \in DOMAIN Activities
      /\ to.units \subseteq scope.units
  <2>. HIDE DEF Q
  <2>1. /\ \A a : a \in scopeOf(f, status).activities <=>
             a \in scopeOf(filters, status).activities /\ Activities[a].unit \in Q /\ a \in DOMAIN Activities
        /\ scopeOf(f, status).units \subseteq scopeOf(filters, status).units
    BY <1>2, <1>3, <1>4, Narrower
  <2>. QED  BY <2>1, <1>5
<1>7. ~to.withUnallocated
  BY <1>1, <1>2, ScopeIs
<1>8. \A a \in scope.activities : a # None /\ a \in DOMAIN Activities /\ Activities[a].unit \in DOMAIN Units
  BY <1>5, ScopeIs, ActivitiesAssumption
<1>9. scopedRows(to) = {r \in scopedRows(scope) : groupIncludes([kind |-> "segment", id |-> c], r)}
  <2>1. \A r : groupIncludes([kind |-> "segment", id |-> c], r)
                 <=> r # None /\ Units[Activities[r].unit].segment \in subtreeIds(c)
    BY DEF groupIncludes
  <2>2. scopedRows(to) = to.activities
    BY <1>7 DEF scopedRows
  <2>3. \A r : r \in scopedRows(scope) /\ r # None <=> r \in scope.activities
    BY <1>8 DEF scopedRows
  <2>. HIDE DEF to
  <2>. QED  BY <1>6, <1>8, <2>1, <2>2, <2>3
<1>. QED  BY <1>6, <1>9 DEF f

LEMMA ClickUnit ==
  ASSUME Inv, filters.unit = None, NEW v \in scope.units
  PROVE  LET patch == [unit |-> v]
             g == [kind |-> "unit", id |-> v]
         IN  /\ scopeOf(After(patch), status).units \subseteq scope.units
             /\ scopedRows(scopeOf(After(patch), status)) = {r \in scopedRows(scope) : groupIncludes(g, r)}
<1>. DEFINE patch == [unit |-> v]
            f == After(patch)
            to == scopeOf(f, status)
            Q == {v}
<1>1. v \in DOMAIN Units /\ v # None
  BY ScopeUnits, UnitsAssumption DEF Inv
<1>2. /\ f.segment = filters.segment /\ f.unit = v /\ f.scope = filters.scope
      /\ f.unitType = filters.unitType
      /\ f.type = filters.type /\ f.cause = filters.cause /\ f.level = filters.level
  BY DEF After, Params
<1>. HIDE DEF f
<1>3. ASSUME NEW u \in DOMAIN Units PROVE inScope(f, u) <=> inScope(filters, u) /\ u \in Q
  BY <1>1, <1>2 DEF inScope
<1>4. \A a \in DOMAIN Activities : matches(f, status, a) <=> matches(filters, status, a) /\ a \in DOMAIN Activities
  BY <1>2 DEF matches
<1>5. scope = scopeOf(filters, status)
  BY DEF Inv
<1>6. /\ \A a : a \in to.activities <=>
           a \in scope.activities /\ Activities[a].unit \in Q /\ a \in DOMAIN Activities
      /\ to.units \subseteq scope.units
  <2>. HIDE DEF Q
  <2>1. /\ \A a : a \in scopeOf(f, status).activities <=>
             a \in scopeOf(filters, status).activities /\ Activities[a].unit \in Q /\ a \in DOMAIN Activities
        /\ scopeOf(f, status).units \subseteq scopeOf(filters, status).units
    BY <1>2, <1>3, <1>4, Narrower
  <2>. QED  BY <2>1, <1>5
<1>7. ~to.withUnallocated
  BY <1>1, <1>2, ScopeIs
<1>8. \A a \in scope.activities : a # None /\ a \in DOMAIN Activities
  BY <1>5, ScopeIs, ActivitiesAssumption
<1>9. scopedRows(to) = {r \in scopedRows(scope) : groupIncludes([kind |-> "unit", id |-> v], r)}
  <2>1. \A r : groupIncludes([kind |-> "unit", id |-> v], r) <=> r # None /\ Activities[r].unit = v
    BY DEF groupIncludes
  <2>2. scopedRows(to) = to.activities
    BY <1>7 DEF scopedRows
  <2>3. \A r : r \in scopedRows(scope) /\ r # None <=> r \in scope.activities
    BY <1>8 DEF scopedRows
  <2>. HIDE DEF to
  <2>. QED  BY <1>6, <1>8, <2>1, <2>2, <2>3
<1>. QED  BY <1>6, <1>9 DEF f

LEMMA ClickCause ==
  ASSUME Inv, filters.cause = None, NEW c, c # None
  PROVE  LET patch == [cause |-> c]
         IN  /\ scopeOf(After(patch), status).units \subseteq scope.units
             /\ scopedRows(scopeOf(After(patch), status)) = {a \in scope.activities : CauseOf(a, status) = c}
<1>. DEFINE patch == [cause |-> c]
            f == After(patch)
            to == scopeOf(f, status)
            A == {a \in DOMAIN Activities : CauseOf(a, status) = c}
<1>1. /\ f.segment = filters.segment /\ f.unit = filters.unit /\ f.scope = filters.scope
      /\ f.unitType = filters.unitType
      /\ f.type = filters.type /\ f.cause = c /\ f.level = filters.level
  BY DEF After, Params
<1>. HIDE DEF f
<1>2. \A u \in DOMAIN Units : inScope(f, u) <=> inScope(filters, u) /\ u \in DOMAIN Units
  BY <1>1 DEF inScope
<1>3. \A a \in DOMAIN Activities : matches(f, status, a) <=> matches(filters, status, a) /\ a \in A
  BY <1>1 DEF matches
<1>4. scope = scopeOf(filters, status)
  BY DEF Inv
<1>5. /\ \A a : a \in to.activities <=>
           a \in scope.activities /\ Activities[a].unit \in DOMAIN Units /\ a \in A
      /\ to.units \subseteq scope.units
  <2>. HIDE DEF A
  <2>1. /\ \A a : a \in scopeOf(f, status).activities <=>
             a \in scopeOf(filters, status).activities /\ Activities[a].unit \in DOMAIN Units /\ a \in A
        /\ scopeOf(f, status).units \subseteq scopeOf(filters, status).units
    BY <1>1, <1>2, <1>3, Narrower
  <2>. QED  BY <2>1, <1>4
<1>6. ~to.withUnallocated
  BY <1>1, ScopeIs DEF filtered
<1>7. \A a \in scope.activities : a \in DOMAIN Activities /\ Activities[a].unit \in DOMAIN Units
  BY <1>4, ScopeIs, ActivitiesAssumption
<1>8. scopedRows(to) = {a \in scope.activities : CauseOf(a, status) = c}
  <2>1. scopedRows(to) = to.activities
    BY <1>6 DEF scopedRows
  <2>. HIDE DEF to
  <2>. QED  BY <1>5, <1>7, <2>1
<1>. QED  BY <1>5, <1>8 DEF f

LEMMA BarClicked ==
  ASSUME Inv, Shown, NEW b \in varianceBars, Clickable(b.group)
  PROVE  LET patch == onGroup(b.group)
         IN  /\ DOMAIN patch \intersect {"fy", "scenario", "compare"} = {}
             /\ scopeOf(After(patch), status).units \subseteq scope.units
             /\ scopedRows(scopeOf(After(patch), status)) = b.rows
<1>. DEFINE g == b.group
<1>1. g \in childGroups(filters, scope) /\ b.rows = {r \in scopedRows(scope) : groupIncludes(g, r)}
  BY DEF varianceBars
<1>. HIDE DEF g
<1>2. g.kind \in {"segment", "unit"}
  BY DEF Clickable, g
<1>3. CASE g.kind = "segment"
  <2>1. filters.unit = None /\ g.id \in children(filters.segment) /\ g = [kind |-> "segment", id |-> g.id]
    BY <1>1, <1>3, GroupKinds
  <2>. DEFINE patch == [segment |-> g.id, unit |-> None]
  <2>2. onGroup(g) = patch /\ DOMAIN patch \intersect {"fy", "scenario", "compare"} = {}
    BY <1>3 DEF onGroup
  <2>3. /\ scopeOf(After(patch), status).units \subseteq scope.units
        /\ scopedRows(scopeOf(After(patch), status)) = b.rows
    BY <1>1, <2>1, ClickSegment
  <2>. HIDE DEF patch
  <2>. QED  BY <2>2, <2>3 DEF g
<1>4. CASE g.kind = "unit"
  <2>1. filters.unit = None /\ g.id \in scope.units /\ g = [kind |-> "unit", id |-> g.id]
    BY <1>1, <1>4, GroupKinds
  <2>. DEFINE patch == [unit |-> g.id]
  <2>2. onGroup(g) = patch /\ DOMAIN patch \intersect {"fy", "scenario", "compare"} = {}
    BY <1>4 DEF onGroup
  <2>3. /\ scopeOf(After(patch), status).units \subseteq scope.units
        /\ scopedRows(scopeOf(After(patch), status)) = b.rows
    BY <1>1, <2>1, ClickUnit
  <2>. HIDE DEF patch
  <2>. QED  BY <2>2, <2>3 DEF g
<1>. QED  BY <1>2, <1>3, <1>4

\* Cutting a list of steps adds none but that of the rest.
LEMMA CutSteps ==
  ASSUME NEW n \in Nat, NEW T, NEW list \in [1..n -> T]
  PROVE  \A x \in Range(cut(list)) : x \in T \/ x.entry.kind = "rest"
<1>. DEFINE rest == SumFunctionOnSet(Change(list), Limit + 1 .. Len(list))
            k == Min({Len(list), Limit})
            top == SubSeq(list, 1, k)
            last == Step([kind |-> "rest", id |-> None], rest)
            tail == IF rest = 0 THEN <<>> ELSE <<last>>
            S == T \union {last}
<1>0. Limit \in Nat
  BY LimitAssumption
<1>1. Len(list) = n /\ list \in Seq(T)
  BY LenProperties, IsASeq
<1>2. k \in Nat /\ k <= n
  BY <1>0, <1>1, MinOfTwo
<1>3. cut(list) = top \o tail
  BY DEF cut
<1>4. last.entry.kind = "rest"
  BY DEF Step
<1>. HIDE DEF k, last, rest
<1>5. top \in Seq(T)
  <2>1. \A i \in 1..k : list[i] \in T
    BY <1>2
  <2>. QED  BY <1>2, <2>1, SubSeqProperties
<1>6. T \subseteq S /\ last \in S /\ \A x \in S : x \in T \/ x = last
  OBVIOUS
<1>. HIDE DEF top, S
<1>7. top \in Seq(S)
  BY <1>5, <1>6, SeqMonotonic
<1>8. tail \in Seq(S)
  BY <1>6
<1>. HIDE DEF tail
<1>9. cut(list) \in Seq(S)
  BY <1>3, <1>7, <1>8, ConcatProperties
<1>10. \A x \in Range(cut(list)) : x \in S
  BY <1>9, LenProperties, ElementOfSeq DEF Range
<1>. QED  BY <1>4, <1>6, <1>10

LEMMA CauseIs ==
  ASSUME Inv, status # None, NEW a \in DOMAIN Activities
  PROVE  CauseOf(a, status) # None
<1>1. status \in DOMAIN Versions
  BY DEF Inv
<1>2. None \notin Causes[<<status, a>>] /\ None # "none" /\ None # "multiple"
  BY <1>1, CausesAssumption
<1>. QED  BY <1>2 DEF CauseOf, causeKeyOf

LEMMA EntryIs ==
  ASSUME Inv, NEW r \in scopedRows(scope)
  PROVE  entryOf(r, childGroups(filters, scope)).kind = "cause"
           => /\ mode = "cause" /\ r # None /\ r \in scope.activities
              /\ entryOf(r, childGroups(filters, scope)) = [kind |-> "cause", id |-> CauseOf(r, status)]
<1>. DEFINE groups == childGroups(filters, scope)
            mine == {g \in groups : g.kind # "unallocated" /\ groupIncludes(g, r)}
<1>1. entryOf(r, groups) = IF r = None THEN [kind |-> "unallocated", id |-> None]
                           ELSE IF mode = "cause" THEN [kind |-> "cause", id |-> CauseOf(r, status)]
                           ELSE IF mine = {} THEN [kind |-> "other", id |-> None] ELSE CHOOSE g \in mine : TRUE
  BY DEF entryOf
<1>2. \A g \in mine : g.kind # "cause"
  BY GroupKinds
<1>3. mine # {} => (CHOOSE g \in mine : TRUE) \in mine
  OBVIOUS
<1>4. r # None => r \in scope.activities
  BY DEF scopedRows
<1>. HIDE DEF groups, mine
<1>5. entryOf(r, groups).kind = "cause" => mode = "cause" /\ r # None
  BY <1>1, <1>2, <1>3
<1>. QED  BY <1>1, <1>4, <1>5 DEF groups

LEMMA CauseClicked ==
  ASSUME Inv, Shown, NEW x \in Range(Steps), x.entry.kind = "cause", filters.cause = None
  PROVE  LET patch == onCause(x.entry.id)
             shown == scopedRows(scopeOf(After(patch), status))
         IN  /\ DOMAIN patch \intersect {"fy", "scenario", "compare"} = {}
             /\ scopeOf(After(patch), status).units \subseteq scope.units
             /\ Profit(shown, keyOf(selection.current)) - Profit(shown, keyOf(selection.previous)) = x.delta
<1>. DEFINE from == keyOf(selection.previous)
            to == keyOf(selection.current)
            rows == scopedRows(scope)
            groups == childGroups(filters, scope)
            entry == [r \in rows |-> entryOf(r, groups)]
            S == StepsOf(rows, entry, from, to)
            n == Cardinality(S)
            rowsOf(e) == {r \in rows : entry[r] = e}
<1>1. Compared /\ Steps = waterfall(from, to)
  BY DEF Steps, Range
<1>2. report \in Seq(DOMAIN Versions)
  BY Received DEF Shown, Ready
<1>3. n \in Nat /\ Deltas(from, to) \in [1..n -> S]
  <2>. HIDE DEF from, to
  <2>. QED  BY <1>2, DeltasAre
<1>4. x \in S
  <2>1. x \in Range(cut(Deltas(from, to)))
    BY <1>1 DEF waterfall
  <2>. HIDE DEF n, S
  <2>2. x \in S \/ x.entry.kind = "rest"
    BY <1>3, <2>1, CutSteps
  <2>. QED  BY <2>2
<1>5. PICK r \in rows : x = Step(entry[r], Profit(rowsOf(entry[r]), to) - Profit(rowsOf(entry[r]), from))
  <2>. DEFINE Found == {Step(d, Profit(rowsOf(d), to) - Profit(rowsOf(d), from)) : d \in Range(entry)}
  <2>1. S = {y \in Found : y.delta # 0}
    BY DEF StepsOf
  <2>2. Range(entry) = {entry[q] : q \in rows}
    BY DEF Range
  <2>3. x \in Found
    BY <1>4, <2>1
  <2>. HIDE DEF S, entry, rowsOf, from, to, rows
  <2>. QED  BY <2>2, <2>3
<1>. DEFINE e == entry[r]
            c == CauseOf(r, status)
<1>6. x.entry = e /\ x.delta = Profit(rowsOf(e), to) - Profit(rowsOf(e), from)
  BY <1>5 DEF Step
<1>7. e = [kind |-> "cause", id |-> c] /\ mode = "cause" /\ r \in scope.activities
  <2>1. e = entryOf(r, groups)
    OBVIOUS
  <2>2. e.kind = "cause"
    BY <1>6
  <2>. HIDE DEF e, c
  <2>. QED  BY <2>1, <2>2, EntryIs DEF c
<1>8. \A a \in scope.activities : a # None /\ a \in DOMAIN Activities /\ a \in rows
  BY ScopeIs, ActivitiesAssumption DEF Inv, scopedRows
<1>9. rowsOf(e) = {a \in scope.activities : CauseOf(a, status) = c}
  <2>1. ASSUME NEW q \in rows PROVE entry[q] = [kind |-> "cause", id |-> c]
                                      <=> q \in scope.activities /\ CauseOf(q, status) = c
    <3>1. entry[q] = entryOf(q, groups)
      OBVIOUS
    <3>2. q # None => q \in scope.activities /\ entryOf(q, groups) = [kind |-> "cause", id |-> CauseOf(q, status)]
      BY <1>7 DEF entryOf, scopedRows
    <3>3. q = None => entryOf(q, groups).kind = "unallocated"
      BY DEF entryOf
    <3>. HIDE DEF entry, c, groups, rows
    <3>. QED  BY <1>8, <3>1, <3>2, <3>3
  <2>. HIDE DEF entry, e, c, rows
  <2>. QED  BY <1>7, <1>8, <2>1
<1>10. c # None
  BY <1>7, <1>8, CauseIs DEF Shown, Ready
<1>. HIDE DEF e, c, from, to, rowsOf
<1>. DEFINE patch == [cause |-> c]
<1>11. onCause(x.entry.id) = patch /\ DOMAIN patch \intersect {"fy", "scenario", "compare"} = {}
  BY <1>6, <1>7, <1>10 DEF onCause
<1>12. /\ scopeOf(After(patch), status).units \subseteq scope.units
       /\ scopedRows(scopeOf(After(patch), status)) = rowsOf(e)
  BY <1>9, <1>10, ClickCause
<1>. HIDE DEF patch
<1>. QED  BY <1>6, <1>11, <1>12 DEF from, to

LEMMA InvClickShows == Inv => ClickShowsTheBar
<1>. SUFFICES ASSUME Inv, Shown PROVE ClickShowsTheBar
  BY DEF ClickShowsTheBar
<1>. DEFINE after(patch) == scopeOf(parseFilters(patched(patch)), status)
            there(patch) == /\ Selection(parseFilters(patched(patch))) = selection
                            /\ \A u \in after(patch).units : <<selection.ids, u>> \in cache
            change(rows) == Profit(rows, keyOf(selection.current))
                            - Profit(rows, keyOf(selection.previous))
<1>1. ASSUME NEW b \in varianceBars, Clickable(b.group)
      PROVE  there(onGroup(b.group)) /\ scopedRows(after(onGroup(b.group))) = b.rows
  <2>. DEFINE patch == onGroup(b.group)
  <2>1. /\ DOMAIN patch \intersect {"fy", "scenario", "compare"} = {}
        /\ scopeOf(After(patch), status).units \subseteq scope.units
        /\ scopedRows(scopeOf(After(patch), status)) = b.rows
    BY <1>1, BarClicked
  <2>. HIDE DEF patch
  <2>2. parseFilters(patched(patch)) = After(patch)
    BY PatchedIs
  <2>3. /\ Selection(After(patch)) = selection
        /\ \A u \in scopeOf(After(patch), status).units : <<selection.ids, u>> \in cache
    BY <2>1, StaysThere
  <2>4. there(patch) /\ scopedRows(after(patch)) = b.rows
    BY <2>1, <2>2, <2>3
  <2>. QED  BY <2>4 DEF patch
<1>2. ASSUME NEW step \in Range(Steps), step.entry.kind = "cause", filters.cause = None
      PROVE  there(onCause(step.entry.id)) /\ change(scopedRows(after(onCause(step.entry.id)))) = step.delta
  <2>. DEFINE patch == onCause(step.entry.id)
  <2>1. /\ DOMAIN patch \intersect {"fy", "scenario", "compare"} = {}
        /\ scopeOf(After(patch), status).units \subseteq scope.units
        /\ change(scopedRows(scopeOf(After(patch), status))) = step.delta
    BY <1>2, CauseClicked
  <2>. HIDE DEF patch, change
  <2>2. parseFilters(patched(patch)) = After(patch)
    BY PatchedIs
  <2>3. /\ Selection(After(patch)) = selection
        /\ \A u \in scopeOf(After(patch), status).units : <<selection.ids, u>> \in cache
    BY <2>1, StaysThere
  <2>4. there(patch) /\ change(scopedRows(after(patch))) = step.delta
    BY <2>1, <2>2, <2>3
  <2>. QED  BY <2>4 DEF patch, change
<1>. QED  BY <1>1, <1>2 DEF ClickShowsTheBar

\* The address that a bar or a cause leads to shows its rows, and nothing needs to be
\* read for it (onGroup and onCause over scopeOf).
THEOREM ClicksShowTheBars == Spec => []ClickShowsTheBar
  BY InvClickShows, SpecInv, PTL
=============================================================================
