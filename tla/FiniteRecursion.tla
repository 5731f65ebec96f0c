--------------------------- MODULE FiniteRecursion ---------------------------
(***************************************************************************)
(* Induction over the subsets of a finite set, and functions defined by     *)
(* recursion over them, stated with sets and functions in place of          *)
(* predicates and operators, so that the provers can instantiate them.      *)
(***************************************************************************)
EXTENDS SequencesExt, FiniteSetTheorems, SequenceTheorems, TLAPS

\* SubsetInduction: a set P that has every subset of D of which it has all the
\* strict subsets has all the subsets of D.
THEOREM SubsetInduction ==
  ASSUME NEW D, IsFiniteSet(D), NEW P,
         \A s \in SUBSET D :
           (\A t \in SUBSET D : t \subseteq s /\ t # s => t \in P) => s \in P
  PROVE  \A s \in SUBSET D : s \in P
<1> DEFINE T == {s \in SUBSET D : s \notin P}
           R == StrictSubsetOrdering(D)
<1>1. SUFFICES ASSUME T # {} PROVE FALSE
  OBVIOUS
<1>2. IsWellFoundedOn(R, SUBSET D)
  BY FS_StrictSubsetOrderingWellFounded, FS_FiniteSubsetsOfFinite
<1>3. T \subseteq SUBSET D
  OBVIOUS
<1>4. \E s \in T : \A t \in T : ~(<<t, s>> \in R)
  <2> HIDE DEF T, R
  <2> QED
    BY <1>1, <1>2, <1>3, WFMin
<1>5. PICK s \in T : \A t \in T : <<t, s>> \notin R
  BY <1>4
<1>6. \A t \in SUBSET D : t \subseteq s /\ t # s => t \in P
  BY <1>5 DEF StrictSubsetOrdering
<1> QED
  BY <1>5, <1>6

\* F is defined by recursion on the subsets of s: either the value is at hand
\* (B), or it comes from that of a smaller set by a function (G).
Recursive(s, V, M, G, B) ==
  {F \in [SUBSET s -> V] :
     \A t \in SUBSET s : F[t] = IF M[t] = {} THEN B[t] ELSE G[t][F[t \ M[t]]]}

\* RecursiveExists: such a function exists.
THEOREM RecursiveExists ==
  ASSUME NEW D, IsFiniteSet(D), NEW V,
         NEW M \in [SUBSET D -> SUBSET D], \A s \in SUBSET D : M[s] \subseteq s,
         NEW G \in [SUBSET D -> [V -> V]], NEW B \in [SUBSET D -> V]
  PROVE  \E F : F \in Recursive(D, V, M, G, B)
<1>0. ASSUME NEW s1 \in SUBSET D, NEW s2 \in SUBSET D,
             NEW F1 \in Recursive(s1, V, M, G, B), NEW F2 \in Recursive(s2, V, M, G, B)
      PROVE  \A t \in SUBSET D : t \subseteq s1 /\ t \subseteq s2 => F1[t] = F2[t]
  <2> DEFINE Q == {t \in SUBSET D : t \subseteq s1 /\ t \subseteq s2 => F1[t] = F2[t]}
  <2>1. ASSUME NEW t \in SUBSET D,
               \A u \in SUBSET D : u \subseteq t /\ u # t => u \in Q
        PROVE  t \in Q
    <3> SUFFICES ASSUME t \subseteq s1, t \subseteq s2 PROVE F1[t] = F2[t]
      OBVIOUS
    <3>1. CASE M[t] = {}
      BY <3>1 DEF Recursive
    <3>2. CASE M[t] # {}
      <4> DEFINE u == t \ M[t]
      <4>1. u \in SUBSET D /\ u \subseteq t /\ u # t
        BY <3>2
      <4>2. F1[u] = F2[u]
        BY <2>1, <4>1
      <4> HIDE DEF u
      <4>3. F1[t] = G[t][F1[u]] /\ F2[t] = G[t][F2[u]]
        BY <3>2 DEF Recursive, u
      <4> QED
        BY <4>2, <4>3
    <3> QED
      BY <3>1, <3>2
  <2>2. \A t \in SUBSET D : t \in Q
    <3> HIDE DEF Q
    <3> QED
      BY <2>1, SubsetInduction
  <2> QED
    BY <2>2
<1> DEFINE P == {s \in SUBSET D : \E F : F \in Recursive(s, V, M, G, B)}
<1>1. ASSUME NEW s \in SUBSET D,
             \A u \in SUBSET D : u \subseteq s /\ u # s => u \in P
      PROVE  s \in P
  <2> DEFINE Sub == {u \in SUBSET D : u \subseteq s /\ u # s}
             Fn(u) == CHOOSE F : F \in Recursive(u, V, M, G, B)
             Val(t) == IF M[t] = {} THEN B[t] ELSE G[t][Fn(t \ M[t])[t \ M[t]]]
             H == [t \in SUBSET s |-> Val(t)]
  <2>1. \A u \in Sub : Fn(u) \in Recursive(u, V, M, G, B)
    BY <1>1
  <2>2. ASSUME NEW t \in SUBSET s PROVE Val(t) \in V
    <3>1. CASE M[t] = {}
      BY <3>1
    <3>2. CASE M[t] # {}
      <4> DEFINE u == t \ M[t]
      <4>1. u \in Sub
        BY <3>2
      <4>2. Fn(u)[u] \in V
        <5> DEFINE f == Fn(u)
        <5>1. f \in Recursive(u, V, M, G, B)
          BY <2>1, <4>1
        <5> HIDE DEF f, u
        <5>2. f[u] \in V
          BY <5>1 DEF Recursive
        <5> QED
          BY <5>2 DEF f
      <4> QED
        BY <3>2, <4>2
    <3> QED
      BY <3>1, <3>2
  <2>3. ASSUME NEW t \in SUBSET s, M[t] # {}
        PROVE  Val(t \ M[t]) = Fn(t \ M[t])[t \ M[t]]
    <3> DEFINE u == t \ M[t]
    <3>1. u \in Sub /\ u \in SUBSET D
      BY <2>3
    <3>2. Fn(u) \in Recursive(u, V, M, G, B)
      BY <2>1, <3>1
    <3>3. CASE M[u] = {}
      <4> HIDE DEF Fn
      <4> QED
        BY <3>1, <3>2, <3>3 DEF Recursive
    <3>4. CASE M[u] # {}
      <4> DEFINE w == u \ M[u]
      <4>1. w \in SUBSET D /\ w \subseteq u /\ w \in Sub
        BY <3>1, <3>4
      <4>2. Fn(w) \in Recursive(w, V, M, G, B)
        BY <2>1, <4>1
      <4>3. Fn(w)[w] = Fn(u)[w]
        <5> DEFINE f == Fn(u)
                   g == Fn(w)
        <5>1. f \in Recursive(u, V, M, G, B) /\ g \in Recursive(w, V, M, G, B)
          BY <3>2, <4>2
        <5> HIDE DEF f, g, u, w
        <5>a. u \in SUBSET D /\ w \in SUBSET D
          BY <3>1, <4>1
        <5>2. \A x \in SUBSET D : x \subseteq u /\ x \subseteq w => f[x] = g[x]
          BY <1>0, <5>a, <5>1
        <5>3. f[w] = g[w]
          BY <4>1, <5>2
        <5> QED
          BY <5>3 DEF f, g
      <4> HIDE DEF Fn, u, w
      <4>4. Fn(u)[u] = G[u][Fn(u)[w]]
        BY <3>1, <3>2, <3>4 DEF Recursive, w
      <4> QED
        BY <3>4, <4>3, <4>4 DEF u, w
    <3> QED
      BY <3>3, <3>4
  <2>4. H \in Recursive(s, V, M, G, B)
    <3>1. H \in [SUBSET s -> V]
      BY <2>2
    <3>2. ASSUME NEW t \in SUBSET s
          PROVE  H[t] = IF M[t] = {} THEN B[t] ELSE G[t][H[t \ M[t]]]
      <4>1. CASE M[t] = {}
        BY <4>1
      <4>2. CASE M[t] # {}
        <5>1. t \ M[t] \in SUBSET s
          OBVIOUS
        <5>2. H[t \ M[t]] = Fn(t \ M[t])[t \ M[t]]
          BY <2>3, <4>2, <5>1
        <5>3. H[t] = G[t][Fn(t \ M[t])[t \ M[t]]]
          BY <4>2
        <5> HIDE DEF H, Fn
        <5> QED
          BY <4>2, <5>2, <5>3
      <4> QED
        BY <4>1, <4>2
    <3> QED
      BY <3>1, <3>2 DEF Recursive
  <2> QED
    BY <2>4
<1>2. \A s \in SUBSET D : s \in P
  <2> HIDE DEF P
  <2> QED
    BY <1>1, SubsetInduction
<1> QED
  BY <1>2

\* NatMin: a set of natural numbers has a least one.
LEMMA NatMin ==
  ASSUME NEW T, T \subseteq Nat, T # {}
  PROVE  \E x \in T : \A y \in T : x <= y
<1> DEFINE R == OpToRel(<, Nat)
<1>1. IsWellFoundedOn(R, Nat)
  BY NatLessThanWellFounded
<1>2. PICK x \in T : \A y \in T : ~(<<y, x>> \in R)
  <2> HIDE DEF R
  <2> QED
    BY <1>1, WFMin
<1>3. \A y \in T : ~(y < x)
  BY <1>2 DEF OpToRel
<1> QED
  BY <1>3

-----------------------------------------------------------------------------
\* Sums over finite sets.
Some(s) == CHOOSE x \in s : TRUE

\* The function that has the sums over all the subsets of W.
Sums(W, f) ==
  {F \in [SUBSET W -> Int] : \A s \in SUBSET W :
     /\ F[s] = SumFunctionOnSet(f, s)
     /\ F[s] = IF s = {} THEN 0 ELSE f[Some(s)] + F[s \ {Some(s)}]}

\* The function behind a sum exists, for a finite set of integers.
LEMMA SumsExist ==
  ASSUME NEW W, IsFiniteSet(W), NEW f, \A x \in W : f[x] \in Int
  PROVE  \E F : F \in Sums(W, f)
<1> DEFINE M == [s \in SUBSET W |-> IF s = {} THEN {} ELSE {Some(s)}]
           G == [s \in SUBSET W |-> [v \in Int |-> IF s = {} THEN 0 ELSE f[Some(s)] + v]]
           B == [s \in SUBSET W |-> 0]
           Body(F, s) == IF s = {} THEN 0 ELSE f[Some(s)] + F[s \ {Some(s)}]
<1>1. \A s \in SUBSET W : s # {} => Some(s) \in s
  BY DEF Some
<1>2. /\ M \in [SUBSET W -> SUBSET W] /\ \A s \in SUBSET W : M[s] \subseteq s
      /\ G \in [SUBSET W -> [Int -> Int]]
      /\ B \in [SUBSET W -> Int]
  BY <1>1
<1>3. ASSUME NEW S \in SUBSET W, NEW F
      PROVE  F \in Recursive(S, Int, M, G, B) <=>
               F \in [SUBSET S -> Int] /\ \A s \in SUBSET S : F[s] = Body(F, s)
  <2>1. ASSUME F \in [SUBSET S -> Int], NEW s \in SUBSET S
        PROVE  (IF M[s] = {} THEN B[s] ELSE G[s][F[s \ M[s]]]) = Body(F, s)
    <3>1. CASE s = {}
      BY <3>1
    <3>2. CASE s # {}
      <4>1. s \in SUBSET W /\ s \ {Some(s)} \in SUBSET S
        OBVIOUS
      <4>2. M[s] = {Some(s)} /\ F[s \ {Some(s)}] \in Int
        BY <2>1, <3>2, <4>1
      <4>3. G[s][F[s \ {Some(s)}]] = f[Some(s)] + F[s \ {Some(s)}]
        BY <3>2, <4>1, <4>2
      <4> QED
        BY <3>2, <4>2, <4>3
    <3> QED
      BY <3>1, <3>2
  <2> HIDE DEF M, G, B, Body
  <2> QED
    BY <2>1 DEF Recursive
<1>4. PICK F : F \in Recursive(W, Int, M, G, B)
  <2> HIDE DEF M, G, B
  <2> QED
    BY <1>2, RecursiveExists
<1>5. ASSUME NEW S \in SUBSET W PROVE F[S] = SumFunctionOnSet(f, S)
  <2> DEFINE Is(H) == H = [s \in SUBSET S |-> Body(H, s)]
             FS == [s \in SUBSET S |-> F[s]]
             H == CHOOSE H : Is(H)
  <2>1. F \in [SUBSET W -> Int] /\ \A s \in SUBSET W : F[s] = Body(F, s)
    BY <1>3, <1>4
  <2>2. Is(FS)
    <3>1. ASSUME NEW s \in SUBSET S PROVE FS[s] = Body(FS, s)
      BY <2>1
    <3> HIDE DEF Body
    <3> QED
      BY <3>1
  <2>3. Is(H)
    BY <2>2
  <2>4. \A s \in SUBSET S : H[s] = Body(H, s)
    <3> HIDE DEF H, Body
    <3> QED
      BY <2>3
  <2>5. H[S] = F[S]
    <3> DEFINE P == {s \in SUBSET S : H[s] = F[s]}
    <3>1. IsFiniteSet(S)
      BY FS_Subset
    <3>2. ASSUME NEW s \in SUBSET S, \A t \in SUBSET S : t \subseteq s /\ t # s => t \in P
          PROVE  s \in P
      <4>1. CASE s = {}
        BY <4>1, <2>1, <2>4
      <4>2. CASE s # {}
        <5> DEFINE t == s \ {Some(s)}
        <5>1. t \in SUBSET S /\ t \subseteq s /\ t # s /\ s \in SUBSET W
          BY <1>1, <4>2
        <5>2. H[t] = F[t]
          BY <3>2, <5>1
        <5>3. H[s] = f[Some(s)] + H[t] /\ F[s] = f[Some(s)] + F[t]
          BY <2>1, <2>4, <4>2, <5>1
        <5> QED
          BY <5>2, <5>3
      <4> QED
        BY <4>1, <4>2
    <3>3. \A s \in SUBSET S : s \in P
      <4> HIDE DEF P
      <4> QED
        BY <3>1, <3>2, SubsetInduction
    <3> QED
      BY <3>3
  <2>6. SumFunctionOnSet(f, S) = H[S]
    BY DEF SumFunctionOnSet, FoldFunctionOnSet, MapThenFoldSet, Some
  <2> QED
    BY <2>5, <2>6
<1>6. F \in [SUBSET W -> Int] /\ \A s \in SUBSET W : F[s] = Body(F, s)
  BY <1>3, <1>4
<1>7. F \in Sums(W, f)
  BY <1>5, <1>6 DEF Sums
<1> QED
  BY <1>7

\* SumType, SumEmpty: what SumFunctionOnSet yields.
LEMMA SumType ==
  ASSUME NEW S, IsFiniteSet(S), NEW f, \A x \in S : f[x] \in Int
  PROVE  SumFunctionOnSet(f, S) \in Int
<1>1. PICK F : F \in Sums(S, f)
  BY SumsExist
<1>2. S \in SUBSET S
  OBVIOUS
<1>3. F \in [SUBSET S -> Int] /\ \A s \in SUBSET S : F[s] = SumFunctionOnSet(f, s)
  BY <1>1 DEF Sums
<1>4. F[S] \in Int /\ F[S] = SumFunctionOnSet(f, S)
  BY <1>2, <1>3
<1> QED
  BY <1>4

\* The empty sum.
LEMMA SumEmpty == ASSUME NEW f PROVE SumFunctionOnSet(f, {}) = 0
<1>1. IsFiniteSet({}) /\ \A x \in {} : f[x] \in Int
  BY FS_EmptySet
<1>2. PICK F : F \in Sums({}, f)
  BY <1>1, SumsExist
<1> QED
  BY <1>2 DEF Sums

\* SumRemove: the order of the additions does not matter, any element can be taken
\* first.
THEOREM SumRemove ==
  ASSUME NEW S, IsFiniteSet(S), NEW f, \A x \in S : f[x] \in Int, NEW x \in S
  PROVE  SumFunctionOnSet(f, S) = f[x] + SumFunctionOnSet(f, S \ {x})
<1>0. PICK F : F \in Sums(S, f)
  BY SumsExist
<1>1. /\ F \in [SUBSET S -> Int]
      /\ \A s \in SUBSET S :
           /\ F[s] = SumFunctionOnSet(f, s)
           /\ F[s] = IF s = {} THEN 0 ELSE f[Some(s)] + F[s \ {Some(s)}]
  BY <1>0 DEF Sums
<1> DEFINE P == {s \in SUBSET S : \A y \in s : F[s] = f[y] + F[s \ {y}]}
<1>2. ASSUME NEW s \in SUBSET S, \A t \in SUBSET S : t \subseteq s /\ t # s => t \in P
      PROVE  s \in P
  <2> SUFFICES ASSUME NEW y \in s PROVE F[s] = f[y] + F[s \ {y}]
    OBVIOUS
  <2> DEFINE z == Some(s)
             t == s \ {z}
             u == s \ {y}
             v == s \ {y, z}
  <2>1. z \in s
    BY DEF Some
  <2>2. F[s] = f[z] + F[t]
    BY <1>1
  <2>3. CASE y = z
    BY <2>2, <2>3
  <2>4. CASE y # z
    <3>1. /\ t \in SUBSET S /\ t \subseteq s /\ t # s /\ y \in t /\ t \ {y} = v
          /\ u \in SUBSET S /\ u \subseteq s /\ u # s /\ z \in u /\ u \ {z} = v
          /\ v \in SUBSET S
      BY <2>1, <2>4
    <3>2. F[t] = f[y] + F[v]
      BY <1>2, <3>1
    <3>3. F[u] = f[z] + F[v]
      BY <1>2, <3>1
    <3>4. f[y] \in Int /\ f[z] \in Int /\ F[v] \in Int
      BY <1>1, <2>1, <3>1
    <3> HIDE DEF z, t, u, v
    <3>5. F[s] = f[y] + F[u]
      BY <2>2, <3>2, <3>3, <3>4
    <3> QED
      BY <3>5 DEF u
  <2> QED
    BY <2>3, <2>4
<1>3. \A s \in SUBSET S : s \in P
  <2> HIDE DEF P
  <2> QED
    BY <1>2, SubsetInduction
<1>4. S \in SUBSET S /\ S \ {x} \in SUBSET S
  OBVIOUS
<1>5. F[S] = f[x] + F[S \ {x}]
  BY <1>3, <1>4
<1> QED
  BY <1>1, <1>4, <1>5

\* SumUnion: the sum over two disjoint sets.
THEOREM SumUnion ==
  ASSUME NEW A, NEW C, IsFiniteSet(A), IsFiniteSet(C), A \cap C = {},
         NEW f, \A x \in A \cup C : f[x] \in Int
  PROVE  SumFunctionOnSet(f, A \cup C) = SumFunctionOnSet(f, A) + SumFunctionOnSet(f, C)
<1> DEFINE Sum(s) == SumFunctionOnSet(f, s)
           P == {s \in SUBSET A : Sum(s \cup C) = Sum(s) + Sum(C)}
<1>0. Sum(C) \in Int
  BY SumType
<1>1. ASSUME NEW s \in SUBSET A, \A t \in SUBSET A : t \subseteq s /\ t # s => t \in P
      PROVE  s \in P
  <2>1. CASE s = {}
    <3>1. Sum(s) = 0 /\ Sum(s \cup C) = Sum(C)
      <4>1. s \cup C = C
        BY <2>1
      <4> QED
        BY <2>1, <4>1, SumEmpty
    <3> HIDE DEF Sum
    <3>2. Sum(s \cup C) = Sum(s) + Sum(C)
      BY <1>0, <3>1
    <3> QED
      BY <3>2
  <2>2. CASE s # {}
    <3>1. PICK x \in s : TRUE
      BY <2>2
    <3> DEFINE t == s \ {x}
    <3>2. t \in SUBSET A /\ t \subseteq s /\ t # s /\ (s \cup C) \ {x} = t \cup C
      BY <3>1
    <3>3. IsFiniteSet(s) /\ IsFiniteSet(s \cup C) /\ IsFiniteSet(t)
      BY FS_Subset, FS_Union, <3>2
    <3>4. Sum(t \cup C) = Sum(t) + Sum(C)
      BY <1>1, <3>2
    <3>5. Sum(s) = f[x] + Sum(t)
      BY <3>1, <3>3, SumRemove
    <3>6. Sum(s \cup C) = f[x] + Sum(t \cup C)
      <4>1. \A y \in s \cup C : f[y] \in Int
        OBVIOUS
      <4>2. x \in s \cup C
        OBVIOUS
      <4> QED
        BY <4>1, <4>2, <3>2, <3>3, SumRemove
    <3>7. Sum(t) \in Int /\ f[x] \in Int
      BY <3>2, <3>3, SumType
    <3> HIDE DEF Sum, t
    <3>8. Sum(s \cup C) = Sum(s) + Sum(C)
      BY <1>0, <3>4, <3>5, <3>6, <3>7
    <3> QED
      BY <3>8
  <2> QED
    BY <2>1, <2>2
<1>2. \A s \in SUBSET A : s \in P
  <2> HIDE DEF P
  <2> QED
    BY <1>1, SubsetInduction
<1>3. A \in SUBSET A
  OBVIOUS
<1> QED
  BY <1>2, <1>3

\* SumMonotone: smaller terms, smaller sum.
THEOREM SumMonotone ==
  ASSUME NEW S, IsFiniteSet(S), NEW f, NEW g,
         \A x \in S : f[x] \in Int /\ g[x] \in Int /\ f[x] <= g[x]
  PROVE  SumFunctionOnSet(f, S) <= SumFunctionOnSet(g, S)
<1> DEFINE Sf(s) == SumFunctionOnSet(f, s)
           Sg(s) == SumFunctionOnSet(g, s)
           P == {s \in SUBSET S : Sf(s) <= Sg(s)}
<1>1. ASSUME NEW s \in SUBSET S, \A t \in SUBSET S : t \subseteq s /\ t # s => t \in P
      PROVE  s \in P
  <2>1. CASE s = {}
    <3>1. Sf(s) = 0 /\ Sg(s) = 0
      BY <2>1, SumEmpty
    <3> HIDE DEF Sf, Sg
    <3> QED
      BY <3>1
  <2>2. CASE s # {}
    <3>1. PICK x \in s : TRUE
      BY <2>2
    <3> DEFINE t == s \ {x}
    <3>2. t \in SUBSET S /\ t \subseteq s /\ t # s
      BY <3>1
    <3>3. IsFiniteSet(s) /\ IsFiniteSet(t)
      BY FS_Subset, <3>2
    <3>4. Sf(t) <= Sg(t)
      BY <1>1, <3>2
    <3>5. Sf(s) = f[x] + Sf(t) /\ Sg(s) = g[x] + Sg(t)
      BY <3>1, <3>3, SumRemove
    <3>6. Sf(t) \in Int /\ Sg(t) \in Int
      BY <3>2, <3>3, SumType
    <3> HIDE DEF Sf, Sg, t
    <3>7. Sf(s) <= Sg(s)
      BY <3>4, <3>5, <3>6
    <3> QED
      BY <3>7
  <2> QED
    BY <2>1, <2>2
<1>2. \A s \in SUBSET S : s \in P
  <2> HIDE DEF P
  <2> QED
    BY <1>1, SubsetInduction
<1> QED
  BY <1>2

\* SumBound: n terms, none above an n-th of b.
THEOREM SumBound ==
  ASSUME NEW S, IsFiniteSet(S), NEW f, NEW n \in Int, NEW b \in Int,
         \A x \in S : f[x] \in Int /\ f[x] * n <= b
  PROVE  SumFunctionOnSet(f, S) * n <= Cardinality(S) * b
<1> DEFINE Sum(s) == SumFunctionOnSet(f, s)
           P == {s \in SUBSET S : Sum(s) * n <= Cardinality(s) * b}
<1>1. ASSUME NEW s \in SUBSET S, \A t \in SUBSET S : t \subseteq s /\ t # s => t \in P
      PROVE  s \in P
  <2>1. CASE s = {}
    <3>1. Sum(s) = 0 /\ Cardinality(s) = 0
      BY <2>1, SumEmpty, FS_EmptySet
    <3> HIDE DEF Sum
    <3> QED
      BY <3>1
  <2>2. CASE s # {}
    <3>1. PICK x \in s : TRUE
      BY <2>2
    <3> DEFINE t == s \ {x}
               c == Cardinality(t)
    <3>2. t \in SUBSET S /\ t \subseteq s /\ t # s
      BY <3>1
    <3>3. IsFiniteSet(s) /\ IsFiniteSet(t)
      BY FS_Subset, <3>2
    <3>4. Sum(t) * n <= c * b
      BY <1>1, <3>2
    <3>5. Sum(s) = f[x] + Sum(t) /\ Sum(t) \in Int
      BY <3>1, <3>2, <3>3, SumRemove, SumType
    <3>6. Cardinality(s) = c + 1 /\ c \in Nat
      BY <3>1, <3>3, FS_RemoveElement, FS_CardinalityType
    <3>7. f[x] \in Int /\ f[x] * n <= b
      BY <3>1
    <3> HIDE DEF Sum, t, c
    <3>8. Sum(s) * n = f[x] * n + Sum(t) * n /\ (c + 1) * b = c * b + b
      BY <3>5, <3>6, <3>7
    <3>9. Sum(s) * n <= Cardinality(s) * b
      BY <3>4, <3>5, <3>6, <3>7, <3>8
    <3> QED
      BY <3>9
  <2> QED
    BY <2>1, <2>2
<1>2. \A s \in SUBSET S : s \in P
  <2> HIDE DEF P
  <2> QED
    BY <1>1, SubsetInduction
<1> QED
  BY <1>2

\* SumNat, SumSubset: terms that are not negative.
LEMMA SumNat ==
  ASSUME NEW S, IsFiniteSet(S), NEW f, \A x \in S : f[x] \in Nat
  PROVE  SumFunctionOnSet(f, S) \in Nat
<1> DEFINE z == [x \in S |-> 0]
           Sf == SumFunctionOnSet(f, S)
           Sz == SumFunctionOnSet(z, S)
<1>1. Sz * 1 <= Cardinality(S) * 0 /\ Sz * (-1) <= Cardinality(S) * 0
  <2>1. \A x \in S : z[x] \in Int /\ z[x] * 1 <= 0 /\ z[x] * (-1) <= 0
    OBVIOUS
  <2> HIDE DEF z
  <2> QED
    BY <2>1, SumBound
<1>2. Sz <= Sf /\ Sz \in Int /\ Sf \in Int
  <2>1. \A x \in S : z[x] \in Int /\ f[x] \in Int /\ z[x] <= f[x]
    OBVIOUS
  <2> HIDE DEF z
  <2> QED
    BY <2>1, SumMonotone, SumType
<1>3. Cardinality(S) \in Nat
  BY FS_CardinalityType
<1> HIDE DEF Sf, Sz
<1>4. Sf \in Nat
  BY <1>1, <1>2, <1>3
<1> QED
  BY <1>4 DEF Sf

\* Fewer terms, smaller sum.
LEMMA SumSubset ==
  ASSUME NEW S, IsFiniteSet(S), NEW A \in SUBSET S, NEW f, \A x \in S : f[x] \in Nat
  PROVE  SumFunctionOnSet(f, A) <= SumFunctionOnSet(f, S)
<1> DEFINE C == S \ A
<1>1. IsFiniteSet(A) /\ IsFiniteSet(C) /\ A \cap C = {} /\ A \cup C = S
  BY FS_Subset
<1>2. SumFunctionOnSet(f, A) \in Nat /\ SumFunctionOnSet(f, C) \in Nat
  BY <1>1, SumNat
<1>3. SumFunctionOnSet(f, S) = SumFunctionOnSet(f, A) + SumFunctionOnSet(f, C)
  <2>1. \A x \in A \cup C : f[x] \in Int
    OBVIOUS
  <2> HIDE DEF C
  <2>2. SumFunctionOnSet(f, A \cup C) = SumFunctionOnSet(f, A) + SumFunctionOnSet(f, C)
    BY <1>1, <2>1, SumUnion
  <2> QED
    BY <1>1, <2>2
<1> QED
  BY <1>2, <1>3

\* SumSame: a sum depends on the terms over its set alone.
LEMMA SumSame ==
  ASSUME NEW S, IsFiniteSet(S), NEW f, NEW g, \A x \in S : f[x] \in Int /\ f[x] = g[x]
  PROVE  SumFunctionOnSet(f, S) = SumFunctionOnSet(g, S)
<1>1. SumFunctionOnSet(f, S) <= SumFunctionOnSet(g, S) /\ SumFunctionOnSet(g, S) <= SumFunctionOnSet(f, S)
  BY SumMonotone
<1>2. SumFunctionOnSet(f, S) \in Int /\ SumFunctionOnSet(g, S) \in Int
  BY SumType
<1> QED
  BY <1>1, <1>2

\* A sum of zeros.
LEMMA SumZero ==
  ASSUME NEW S, IsFiniteSet(S), NEW f, \A x \in S : f[x] = 0
  PROVE  SumFunctionOnSet(f, S) = 0
<1>1. SumFunctionOnSet(f, S) * 1 <= Cardinality(S) * 0
  BY SumBound
<1>2. SumFunctionOnSet(f, S) \in Nat
  BY SumNat
<1>3. Cardinality(S) * 0 = 0
  BY FS_CardinalityType
<1> QED
  BY <1>1, <1>2, <1>3

\* SumInjection: terms that can be found one by one in another sum.
THEOREM SumInjection ==
  ASSUME NEW S, IsFiniteSet(S), NEW T, IsFiniteSet(T), NEW f, NEW g, NEW j \in [S -> T],
         \A x, y \in S : j[x] = j[y] => x = y,
         \A x \in S : f[x] \in Nat /\ f[x] = g[j[x]],
         \A y \in T : g[y] \in Nat
  PROVE  SumFunctionOnSet(f, S) <= SumFunctionOnSet(g, T)
<1> DEFINE Image(s) == {j[x] : x \in s}
           Sf(s) == SumFunctionOnSet(f, s)
           Sg(s) == SumFunctionOnSet(g, s)
           P == {s \in SUBSET S : Sf(s) = Sg(Image(s))}
<1>1. ASSUME NEW s \in SUBSET S, \A t \in SUBSET S : t \subseteq s /\ t # s => t \in P
      PROVE  s \in P
  <2>1. CASE s = {}
    <3>1. Image(s) = {}
      BY <2>1
    <3> HIDE DEF Image
    <3>2. Sf(s) = 0 /\ Sg(Image(s)) = 0
      BY <2>1, <3>1, SumEmpty
    <3> QED
      BY <3>2
  <2>2. CASE s # {}
    <3>1. PICK x \in s : TRUE
      BY <2>2
    <3> DEFINE t == s \ {x}
    <3>2. t \in SUBSET S /\ t \subseteq s /\ t # s
      BY <3>1
    <3>3. Image(t) = Image(s) \ {j[x]} /\ j[x] \in Image(s) /\ Image(s) \subseteq T
      BY <3>1
    <3>4. IsFiniteSet(s) /\ IsFiniteSet(t) /\ IsFiniteSet(Image(s)) /\ IsFiniteSet(Image(t))
      <4> HIDE DEF Image
      <4>1. Image(t) \subseteq T
        BY <3>3
      <4> QED
        BY <3>2, <3>3, <4>1, FS_Subset
    <3> HIDE DEF Image
    <3>5. Sf(t) = Sg(Image(t))
      BY <1>1, <3>2
    <3>6. Sf(s) = f[x] + Sf(t)
      BY <3>1, <3>4, SumRemove
    <3>7. Sg(Image(s)) = g[j[x]] + Sg(Image(t))
      <4>1. \A y \in Image(s) : g[y] \in Int
        BY <3>3
      <4>2. SumFunctionOnSet(g, Image(s)) = g[j[x]] + SumFunctionOnSet(g, Image(s) \ {j[x]})
        BY <3>3, <3>4, <4>1, SumRemove
      <4> HIDE DEF t
      <4> QED
        BY <3>3, <4>2
    <3> HIDE DEF Sf, Sg, t
    <3>8. Sf(s) = Sg(Image(s))
      BY <3>1, <3>5, <3>6, <3>7
    <3> QED
      BY <3>8
  <2> QED
    BY <2>1, <2>2
<1>2. \A s \in SUBSET S : s \in P
  <2> HIDE DEF P
  <2> QED
    BY <1>1, SubsetInduction
<1>3. Sf(S) = Sg(Image(S)) /\ Image(S) \in SUBSET T
  BY <1>2
<1>4. Sg(Image(S)) <= Sg(T)
  <2> HIDE DEF Image
  <2> QED
    BY <1>3, SumSubset
<1> QED
  BY <1>3, <1>4

-----------------------------------------------------------------------------
\* Folds over a finite set: pick says which element is taken last, G what is
\* done for it, b is the value for the empty set.
Picks(D) == {p \in [(SUBSET D) \ {{}} -> D] : \A s \in (SUBSET D) \ {{}} : p[s] \in s}
Steps(D, V) == [D -> [V -> V]]
Folded(D, V, b, pick, G) ==
  {F \in [SUBSET D -> V] : \A s \in SUBSET D :
     F[s] = IF s = {} THEN b ELSE G[pick[s]][F[s \ {pick[s]}]]}

\* FoldExists: such a function exists.
THEOREM FoldExists ==
  ASSUME NEW D, IsFiniteSet(D), NEW V, NEW b \in V, NEW pick \in Picks(D), NEW G \in Steps(D, V)
  PROVE  \E F : F \in Folded(D, V, b, pick, G)
<1> DEFINE M == [s \in SUBSET D |-> IF s = {} THEN {} ELSE {pick[s]}]
           G2 == [s \in SUBSET D |-> IF s = {} THEN [v \in V |-> v] ELSE G[pick[s]]]
           B == [s \in SUBSET D |-> b]
<1>0. /\ G \in [D -> [V -> V]] /\ \A s \in SUBSET D : s # {} => pick[s] \in s
  BY DEF Picks, Steps
<1>1. M \in [SUBSET D -> SUBSET D] /\ \A s \in SUBSET D : M[s] \subseteq s
  BY <1>0
<1>2. G2 \in [SUBSET D -> [V -> V]]
  <2>1. \A s \in SUBSET D : (IF s = {} THEN [v \in V |-> v] ELSE G[pick[s]]) \in [V -> V]
    <3> TAKE s \in SUBSET D
    <3>1. CASE s = {}
      BY <3>1
    <3>2. CASE s # {}
      BY <1>0, <3>2
    <3> QED
      BY <3>1, <3>2
  <2> QED
    BY <2>1
<1>3. B \in [SUBSET D -> V]
  OBVIOUS
<1>4. PICK F : F \in Recursive(D, V, M, G2, B)
  <2> HIDE DEF M, G2, B
  <2> QED
    BY <1>1, <1>2, <1>3, RecursiveExists
<1>5. F \in [SUBSET D -> V]
  BY <1>4 DEF Recursive
<1>6. ASSUME NEW s \in SUBSET D
      PROVE  F[s] = IF s = {} THEN b ELSE G[pick[s]][F[s \ {pick[s]}]]
  <2>1. F[s] = IF M[s] = {} THEN B[s] ELSE G2[s][F[s \ M[s]]]
    <3> HIDE DEF M, G2, B
    <3> QED
      BY <1>4 DEF Recursive
  <2>2. CASE s = {}
    BY <2>1, <2>2
  <2>3. CASE s # {}
    <3>1. M[s] = {pick[s]} /\ G2[s] = G[pick[s]]
      BY <2>3
    <3> HIDE DEF M, G2, B
    <3> QED
      BY <2>1, <2>3, <3>1
  <2> QED
    BY <2>2, <2>3
<1> QED
  BY <1>5, <1>6 DEF Folded

-----------------------------------------------------------------------------
\* FiniteFunctions: there are finitely many functions between two finite sets.
THEOREM FiniteFunctions ==
  ASSUME NEW S, IsFiniteSet(S), NEW T, IsFiniteSet(T)
  PROVE  IsFiniteSet([S -> T])
<1> DEFINE Graph(f) == {p \in S \X T : p[2] = f[p[1]]}
           j == [f \in [S -> T] |-> Graph(f)]
<1>1. IsFiniteSet(SUBSET (S \X T))
  BY FS_Product, FS_SUBSET
<1>2. j \in [[S -> T] -> SUBSET (S \X T)]
  OBVIOUS
<1>3. ASSUME NEW f \in [S -> T], NEW h \in [S -> T], Graph(f) = Graph(h) PROVE f = h
  <2>1. ASSUME NEW x \in S PROVE f[x] = h[x]
    <3>1. <<x, f[x]>> \in Graph(f)
      OBVIOUS
    <3>2. <<x, f[x]>> \in Graph(h)
      BY <1>3, <3>1
    <3> QED
      BY <3>2
  <2> QED
    BY <2>1
<1>4. \A f, h \in [S -> T] : j[f] = j[h] => f = h
  <2> HIDE DEF Graph
  <2> QED
    BY <1>3
<1>5. j \in Injection([S -> T], SUBSET (S \X T))
  <2> HIDE DEF j
  <2> QED
    BY <1>2, <1>4 DEF Injection, IsInjective
<1> QED
  BY <1>1, <1>5, FS_Injection

\* R is a strict order on D.
StrictOrder(R, D) ==
  /\ \A x \in D : <<x, x>> \notin R
  /\ \A x, y, z \in D : <<x, y>> \in R /\ <<y, z>> \in R => <<x, z>> \in R

\* FiniteMaximal: a set that is not empty and finite has a maximal element.
THEOREM FiniteMaximal ==
  ASSUME NEW D, IsFiniteSet(D), NEW R, StrictOrder(R, D), NEW B \in SUBSET D, B # {}
  PROVE  \E x \in B : \A y \in B : <<x, y>> \notin R
<1> DEFINE Top(s) == \E x \in s : \A y \in s : <<x, y>> \notin R
           P == {s \in SUBSET D : s = {} \/ Top(s)}
<1>1. ASSUME NEW s \in SUBSET D, \A t \in SUBSET D : t \subseteq s /\ t # s => t \in P
      PROVE  s \in P
  <2>1. CASE s = {}
    BY <2>1
  <2>2. CASE s # {}
    <3>1. PICK x \in s : TRUE
      BY <2>2
    <3> DEFINE U == {y \in s : <<x, y>> \in R}
    <3>2. U \in SUBSET D /\ U \subseteq s /\ U # s
      BY DEF StrictOrder
    <3>3. U \in P
      BY <1>1, <3>2
    <3>4. CASE U = {}
      BY <3>4
    <3>5. CASE U # {}
      <4>1. PICK u \in U : \A y \in U : <<u, y>> \notin R
        BY <3>3, <3>5
      <4>2. \A y \in s : <<u, y>> \notin R
        BY <4>1 DEF StrictOrder
      <4> QED
        BY <4>1, <4>2
    <3> QED
      BY <3>4, <3>5
  <2> QED
    BY <2>1, <2>2
<1>2. \A s \in SUBSET D : s \in P
  <2> HIDE DEF P
  <2> QED
    BY <1>1, SubsetInduction
<1> QED
  BY <1>2

(***************************************************************************)
(* Loops, written as functions that call themselves last: g is the body, the *)
(* loop ends with out in a state of Done.                                    *)
(***************************************************************************)
IsLoop(f, S, Done, g, out) == f = [s \in S |-> IF s \in Done THEN out[s] ELSE f[g[s]]]

\* LoopExists: such a function exists, whether the loop comes to an end or not.
THEOREM LoopExists ==
  ASSUME NEW S, NEW Done, NEW g \in [S -> S], NEW out
  PROVE  \E f : IsLoop(f, S, Done, g, out)
<1> DEFINE Closed(A) == \A x \in A \ Done : g[x] \in A
           Ends(s) == {t \in S \cap Done : \A A \in SUBSET S : s \in A /\ Closed(A) => t \in A}
           EndOf(s) == CHOOSE t : t \in Ends(s)
           f == [s \in S |-> out[EndOf(s)]]
<1>1. ASSUME NEW s \in S, s \in Done PROVE Ends(s) = {s}
  <2>1. {s} \in SUBSET S /\ s \in {s} /\ Closed({s})
    BY <1>1
  <2>2. \A t \in Ends(s) : t = s
    BY <2>1
  <2>3. s \in Ends(s)
    BY <1>1
  <2> QED
    BY <2>2, <2>3
<1>2. ASSUME NEW s \in S, s \notin Done PROVE Ends(s) = Ends(g[s])
  <2>1. g[s] \in S
    OBVIOUS
  <2>2. ASSUME NEW t \in Ends(g[s]) PROVE t \in Ends(s)
    <3>1. ASSUME NEW A \in SUBSET S, s \in A, Closed(A) PROVE t \in A
      BY <1>2, <2>2, <3>1
    <3> QED
      BY <3>1
  <2>3. ASSUME NEW t \in Ends(s) PROVE t \in Ends(g[s])
    <3>1. ASSUME NEW A \in SUBSET S, g[s] \in A, Closed(A) PROVE t \in A
      <4>1. A \cup {s} \in SUBSET S /\ Closed(A \cup {s})
        BY <3>1
      <4>2. t \in A \cup {s} /\ t \in Done
        BY <2>3, <4>1
      <4> QED
        BY <1>2, <4>2
    <3> QED
      BY <3>1
  <2> QED
    BY <2>2, <2>3
<1>3. ASSUME NEW s \in S PROVE f[s] = IF s \in Done THEN out[s] ELSE f[g[s]]
  <2>1. CASE s \in Done
    <3>1. EndOf(s) = s
      <4> HIDE DEF Ends
      <4> QED
        BY <1>1, <2>1
    <3> HIDE DEF EndOf
    <3> QED
      BY <2>1, <3>1
  <2>2. CASE s \notin Done
    <3>1. g[s] \in S
      OBVIOUS
    <3>2. EndOf(s) = EndOf(g[s])
      <4> HIDE DEF Ends
      <4> QED
        BY <1>2, <2>2
    <3> HIDE DEF EndOf
    <3> QED
      BY <2>2, <3>1, <3>2
  <2> QED
    BY <2>1, <2>2
<1>4. f = [s \in S |-> f[s]]
  OBVIOUS
<1>5. f = [s \in S |-> IF s \in Done THEN out[s] ELSE f[g[s]]]
  <2> HIDE DEF f
  <2> QED
    BY <1>3, <1>4
<1> QED
  BY <1>5 DEF IsLoop

\* From the states in I the body stays in I and goes upwards in a finite order.
Climbs(S, Done, g, I, D, R, mu) ==
  /\ I \in SUBSET S /\ \A s \in I \ Done : g[s] \in I
  /\ IsFiniteSet(D) /\ StrictOrder(R, D)
  /\ mu \in [I -> D] /\ \A s \in I \ Done : <<mu[s], mu[g[s]]>> \in R

\* LoopResult: a loop whose body keeps the states in I and goes upwards in a
\* finite order comes to an end, with what it yields in states of I.
THEOREM LoopResult ==
  ASSUME NEW S, NEW Done, NEW g, NEW out, NEW f, IsLoop(f, S, Done, g, out),
         NEW I, NEW D, NEW R, NEW mu, Climbs(S, Done, g, I, D, R, mu),
         NEW P, \A s \in I \cap Done : out[s] \in P
  PROVE  \A s \in I : f[s] \in P
<1> USE DEF Climbs
<1> SUFFICES ASSUME NEW s0 \in I, f[s0] \notin P PROVE FALSE
  OBVIOUS
<1> DEFINE Bad == {s \in I : f[s] \notin P}
           B == {mu[s] : s \in Bad}
<1>1. B \in SUBSET D /\ B # {}
  OBVIOUS
<1>2. PICK x \in B : \A y \in B : <<x, y>> \notin R
  <2> HIDE DEF B
  <2> QED
    BY <1>1, FiniteMaximal
<1>3. PICK s \in Bad : x = mu[s]
  OBVIOUS
<1>4. f[s] = IF s \in Done THEN out[s] ELSE f[g[s]]
  BY DEF IsLoop
<1>5. s \notin Done
  BY <1>3, <1>4
<1>6. g[s] \in I /\ f[g[s]] \notin P
  BY <1>3, <1>4, <1>5
<1>7. mu[g[s]] \in B
  BY <1>6
<1> QED
  BY <1>2, <1>3, <1>5, <1>7


-----------------------------------------------------------------------------
\* The least of a set of numbers, the greatest of a set of indices.
LEMMA MinIs ==
  ASSUME NEW T, T \subseteq Nat, T # {}
  PROVE  Min(T) \in T /\ \A y \in T : Min(T) <= y
BY NatMin DEF Min

\* The greatest of some numbers up to n.
LEMMA MaxOfNumbers ==
  ASSUME NEW n \in Nat, NEW T \in SUBSET (0..n), T # {}
  PROVE  Max(T) \in T /\ \A y \in T : Max(T) >= y
<1> DEFINE U == {n - x : x \in T}
<1>1. U \subseteq Nat /\ U # {}
  <2>1. \A x \in T : n - x \in Nat
    OBVIOUS
  <2> QED
    BY <2>1
<1>2. PICK u \in U : \A y \in U : u <= y
  <2> HIDE DEF U
  <2> QED
    BY <1>1, NatMin
<1>3. PICK x \in T : u = n - x
  OBVIOUS
<1>4. ASSUME NEW y \in T PROVE x >= y
  <2>1. n - y \in U /\ x \in Int /\ y \in Int
    OBVIOUS
  <2>2. n - x <= n - y
    BY <1>2, <1>3, <2>1
  <2> QED
    BY <2>1, <2>2
<1> QED
  BY <1>3, <1>4 DEF Max

\* The greatest of some indices.
LEMMA MaxOfIndices ==
  ASSUME NEW n \in Nat, NEW T \in SUBSET (1..n), T # {}
  PROVE  Max(T) \in T /\ \A y \in T : Max(T) >= y
<1>1. T \in SUBSET (0..n)
  OBVIOUS
<1> QED
  BY <1>1, MaxOfNumbers

\* A sequence is folded by taking the greatest index last.
LEMMA FoldOrder ==
  ASSUME NEW N \in Nat
  PROVE  /\ \A s \in SUBSET (1..N) : s # {} => Max(s) \in s
         /\ \A k \in 1..N : Max(1..k) = k
<1>1. ASSUME NEW k \in 1..N PROVE Max(1..k) = k
  <2>1. 1..k \in SUBSET (1..N) /\ 1..k # {} /\ k \in 1..k
    OBVIOUS
  <2>2. Max(1..k) \in 1..k /\ Max(1..k) >= k
    BY <2>1, MaxOfIndices
  <2> QED
    BY <2>2
<1> QED
  BY <1>1, MaxOfIndices

\* A set in some order: every element once.
LEMMA OrderIs ==
  ASSUME NEW S, IsFiniteSet(S), NEW order \in SetToSeqs(S)
  PROVE  /\ Cardinality(S) \in Nat
         /\ order \in [1..Cardinality(S) -> S]
         /\ \A i, j \in 1..Cardinality(S) : i # j => order[i] # order[j]
         /\ DOMAIN order = 1..Cardinality(S)
         /\ Len(order) = Cardinality(S)
         /\ ToSet(order) \subseteq S
         /\ order # << >> => Cardinality(S) > 0
<1> DEFINE n == Cardinality(S)
<1>1. n \in Nat
  BY FS_CardinalityType
<1>2. /\ order \in [1..n -> S]
      /\ \A i, j \in 1..n : i # j => order[i] # order[j]
  BY DEF SetToSeqs
<1> HIDE DEF n
<1>3. order \in Seq(S)
  BY <1>1, <1>2, SeqDef
<1>4. Len(order) \in Nat /\ DOMAIN order = 1..Len(order)
  BY <1>3, LenProperties
<1>5. DOMAIN order = 1..n
  BY <1>2
<1>6. Len(order) = n
  <2> DEFINE m == Len(order)
  <2>1. m \in Nat /\ 1..m = 1..n
    BY <1>4, <1>5
  <2> HIDE DEF m
  <2>2. (n > 0 => n \in 1..n) /\ (m > 0 => m \in 1..m)
    BY <1>1, <2>1
  <2>3. (n > 0 => n \in 1..m) /\ (m > 0 => m \in 1..n)
    BY <2>1, <2>2
  <2>4. n = m
    BY <1>1, <2>1, <2>3
  <2> QED
    BY <2>4 DEF m
<1>7. order # << >> => n > 0
  BY <1>1, <1>3, <1>6, EmptySeq
<1>8. ToSet(order) \subseteq S
  BY <1>2 DEF ToSet
<1> QED
  BY <1>1, <1>2, <1>5, <1>6, <1>7, <1>8 DEF n

=============================================================================
