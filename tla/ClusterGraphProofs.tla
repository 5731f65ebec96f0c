------------------------- MODULE ClusterGraphProofs -------------------------
(***************************************************************************)
(* Both searches of a network find its best paths, and what a cluster graph *)
(* says of the speeds between its nodes is right, for any network, hosts,   *)
(* tests, joins and losses.                                                 *)
(***************************************************************************)
EXTENDS ClusterGraph, SymMatrixProofs

-----------------------------------------------------------------------------
(***************************************************************************)
(* widest_path.  Within(w, b, i) are the vertices of the network w that can *)
(* be reached from i over links of bandwidth b or more.                     *)
(***************************************************************************)
IsNetwork(w) == w.links.n \in Nat /\ w.links \in Matrix(w.links.n, -1..MAX)

Carries(w, b, i, j) == i # j /\ Net!link(w, i, j) >= b

Within(w, b, i) ==
  {j \in Net!Indices(w) :
     \A A \in SUBSET Net!Indices(w) :
       i \in A /\ (\A x \in A, y \in Net!Indices(w) : Carries(w, b, x, y) => y \in A) => j \in A}

WideSearches(w) == Net!Searches(w, -1..MAX)

\* The instance of NetGraph has the same matrices.
LEMMA SameMatrix ==
  ASSUME NEW m, NEW r, NEW c, NEW v
  PROVE  Net!At(m, r, c) = At(m, r, c) /\ Net!Put(m, r, c, v) = Put(m, r, c, v)
BY DEF Net!At, At, Net!Put, Put, Net!out_to_in_index, out_to_in_index, Net!RowOffset, RowOffset

\* The links of a network, in both directions.
LEMMA LinkIs ==
  ASSUME NEW w, IsNetwork(w), NEW i \in Net!Indices(w), NEW j \in Net!Indices(w)
  PROVE  Net!link(w, i, j) \in -1..MAX /\ Net!link(w, i, j) = Net!link(w, j, i)
<1>1. i \in Rows(w.links.n) /\ j \in Rows(w.links.n)
  BY DEF Net!Indices, Rows
<1>2. Net!link(w, i, j) = At(w.links, i, j) /\ Net!link(w, j, i) = At(w.links, j, i)
  BY SameMatrix DEF Net!link
<1>3. At(w.links, i, j) \in -1..MAX
  BY <1>1, AtType DEF IsNetwork
<1>4. At(w.links, i, j) = At(w.links, j, i)
  BY <1>1, AtSymmetric DEF IsNetwork
<1> QED
  BY <1>2, <1>3, <1>4

\* What is reached starts with i, follows the links and is the same both ways.
LEMMA WithinIs ==
  ASSUME NEW w, IsNetwork(w), NEW b, NEW i \in Net!Indices(w)
  PROVE  /\ i \in Within(w, b, i) /\ Within(w, b, i) \subseteq Net!Indices(w)
         /\ \A x \in Within(w, b, i), y \in Net!Indices(w) :
              Carries(w, b, x, y) => y \in Within(w, b, i)
         /\ \A A \in SUBSET Net!Indices(w) :
              i \in A /\ (\A x \in A, y \in Net!Indices(w) : Carries(w, b, x, y) => y \in A)
                => Within(w, b, i) \subseteq A
BY DEF Within

\* What is reached from a vertex reached is reached.
LEMMA WithinTransitive ==
  ASSUME NEW w, IsNetwork(w), NEW b, NEW i \in Net!Indices(w), NEW j \in Within(w, b, i)
  PROVE  Within(w, b, j) \subseteq Within(w, b, i)
<1> DEFINE A == Within(w, b, i)
<1>1. j \in Net!Indices(w) /\ A \in SUBSET Net!Indices(w) /\ j \in A
      /\ \A x \in A, y \in Net!Indices(w) : Carries(w, b, x, y) => y \in A
  BY WithinIs
<1> HIDE DEF A
<1>2. Within(w, b, j) \subseteq A
  BY <1>1, WithinIs
<1> QED
  BY <1>2 DEF A

\* Reaching works in both directions: links have no direction.
LEMMA WithinSymmetric ==
  ASSUME NEW w, IsNetwork(w), NEW b, NEW i \in Net!Indices(w), NEW j \in Within(w, b, i)
  PROVE  i \in Within(w, b, j)
<1> DEFINE A == {x \in Net!Indices(w) : i \in Within(w, b, x)}
<1>1. i \in A
  BY WithinIs
<1>2. ASSUME NEW x \in A, NEW y \in Net!Indices(w), Carries(w, b, x, y) PROVE y \in A
  <2>1. Carries(w, b, y, x)
    BY <1>2, LinkIs DEF Carries
  <2>2. x \in Within(w, b, y)
    BY <2>1, WithinIs
  <2>3. Within(w, b, x) \subseteq Within(w, b, y)
    BY <2>2, WithinTransitive
  <2> QED
    BY <2>3
<1>3. Within(w, b, i) \subseteq A
  <2>1. A \in SUBSET Net!Indices(w)
    OBVIOUS
  <2> HIDE DEF A
  <2> QED
    BY <1>1, <1>2, <2>1, WithinIs
<1> QED
  BY <1>3

\* A queue has a least entry.
LEMMA PopIs ==
  ASSUME NEW s, s.to_visit # {},
         \A q \in s.to_visit : q.node \in Nat /\ q.val \in Nat \cup {-1}
  PROVE  /\ Net!Pop(s) \in s.to_visit
         /\ \A q \in s.to_visit : Net!Pop(s).val <= q.val
<1> DEFINE Q == s.to_visit
           T == {q.val + 1 : q \in Q}
           First(p) == \A q \in Q : p.val < q.val \/ (p.val = q.val /\ p.node <= q.node)
<1>1. T \subseteq Nat /\ T # {}
  OBVIOUS
<1>2. PICK v \in T : \A y \in T : v <= y
  <2> HIDE DEF T
  <2> QED
    BY <1>1, NatMin
<1>3. PICK x \in Q : v = x.val + 1
  OBVIOUS
<1>4. \A q \in Q : x.val <= q.val
  <2> TAKE q \in Q
  <2>1. v <= q.val + 1
    BY <1>2
  <2>2. x.val \in Int /\ q.val \in Int
    OBVIOUS
  <2> HIDE DEF T, Q
  <2> QED
    BY <1>3, <2>1, <2>2
<1> DEFINE L == {q \in Q : q.val = x.val}
           U == {q.node : q \in L}
<1>5. U \subseteq Nat /\ U # {}
  OBVIOUS
<1>6. PICK u \in U : \A y \in U : u <= y
  <2> HIDE DEF U
  <2> QED
    BY <1>5, NatMin
<1>7. PICK p \in L : u = p.node
  OBVIOUS
<1>8. First(p)
  <2> SUFFICES ASSUME NEW q \in Q PROVE p.val < q.val \/ (p.val = q.val /\ p.node <= q.node)
    OBVIOUS
  <2>1. p.val <= q.val
    BY <1>4
  <2>2. CASE p.val = q.val
    <3>1. q.node \in U
      BY <2>2
    <3> QED
      BY <1>6, <1>7, <2>2, <3>1
  <2> QED
    BY <2>1, <2>2
<1>9. Net!Pop(s) = CHOOSE q \in Q : First(q)
  BY DEF Net!Pop
<1> HIDE DEF First
<1>10. Net!Pop(s) \in Q /\ First(Net!Pop(s))
  BY <1>8, <1>9
<1> QED
  BY <1>10 DEF First

-----------------------------------------------------------------------------
\* One visit: it lowers nothing, and either it raises a vertex or the queue is
\* an entry shorter.
Through(w, s, i, j) == IF s.val[i] < Net!link(w, i, j) THEN s.val[i] ELSE Net!link(w, i, j)
Improved(w, s, i) ==
  {j \in Net!neighbours(w, i) : s.val[j] = -1 \/ Through(w, s, i, j) > s.val[j]}

Visited(w, s, t, p) ==
  /\ p \in s.to_visit
  /\ \/ /\ p.val < s.val[p.node]
        /\ t.val = s.val /\ t.parents = s.parents
        /\ t.to_visit = s.to_visit \ {p}
     \/ /\ ~(p.val < s.val[p.node])
        /\ t.val = [j \in DOMAIN s.val |->
                      IF j \in Improved(w, s, p.node) THEN Through(w, s, p.node, j) ELSE s.val[j]]
        /\ t.parents = [j \in DOMAIN s.val |->
                          IF j \in Improved(w, s, p.node) THEN p.node ELSE s.parents[j]]
        /\ t.to_visit = (s.to_visit \ {p})
             \cup {[node |-> j, val |-> Through(w, s, p.node, j)] : j \in Improved(w, s, p.node)}

\* VisitWidest does one of the two, and its result is a search again.
LEMMA VisitIs ==
  ASSUME NEW w, IsNetwork(w), NEW s \in WideSearches(w), s.to_visit # {}
  PROVE  /\ Net!VisitWidest(w, s) \in WideSearches(w)
         /\ Visited(w, s, Net!VisitWidest(w, s), Net!Pop(s))
<1> DEFINE p == Net!Pop(s)
           i == p.node
           J == Improved(w, s, i)
           thr(j) == Through(w, s, i, j)
           t == Net!VisitWidest(w, s)
<1>1. p \in s.to_visit
  <2>1. \A q \in s.to_visit : q.node \in Nat /\ q.val \in Nat \cup {-1}
    BY Setup DEF WideSearches, Net!Searches, Net!Indices
  <2> QED
    BY <2>1, PopIs
<1>2. /\ s.val \in [Net!Indices(w) -> -1..MAX]
      /\ s.parents \in [Net!Indices(w) -> Net!Indices(w) \cup {-1}]
      /\ s.to_visit \subseteq [node : Net!Indices(w), val : -1..MAX]
      /\ s = [val |-> s.val, parents |-> s.parents, to_visit |-> s.to_visit]
  BY DEF WideSearches, Net!Searches, Net!None
<1>3. i \in Net!Indices(w)
  BY <1>1, <1>2
<1>4. J \subseteq Net!Indices(w) /\ \A j \in Net!Indices(w) : thr(j) \in -1..MAX
  BY <1>2, <1>3, LinkIs, Setup DEF Improved, Net!neighbours, Through
<1>5. CASE p.val < s.val[i]
  <2>1. t = [val |-> s.val, parents |-> s.parents, to_visit |-> s.to_visit \ {p}]
    BY <1>2, <1>5 DEF Net!VisitWidest
  <2>2. t \in WideSearches(w)
    BY <1>2, <2>1 DEF WideSearches, Net!Searches, Net!None
  <2> HIDE DEF t, p
  <2> QED
    BY <1>1, <1>5, <2>1, <2>2 DEF Visited, t, p
<1>6. CASE ~(p.val < s.val[i])
  <2>1. t = [val      |-> [j \in DOMAIN s.val |-> IF j \in J THEN thr(j) ELSE s.val[j]],
             parents  |-> [j \in DOMAIN s.val |-> IF j \in J THEN i ELSE s.parents[j]],
             to_visit |-> (s.to_visit \ {p}) \cup {[node |-> j, val |-> thr(j)] : j \in J}]
    BY <1>6 DEF Net!VisitWidest, Net!Relax, Net!Lesser, Net!None, Through, Improved
  <2> DEFINE val == [j \in DOMAIN s.val |-> IF j \in J THEN thr(j) ELSE s.val[j]]
             parents == [j \in DOMAIN s.val |-> IF j \in J THEN i ELSE s.parents[j]]
             queue == (s.to_visit \ {p}) \cup {[node |-> j, val |-> thr(j)] : j \in J}
  <2>2. /\ val \in [Net!Indices(w) -> -1..MAX]
        /\ parents \in [Net!Indices(w) -> Net!Indices(w) \cup {-1}]
        /\ queue \subseteq [node : Net!Indices(w), val : -1..MAX]
    <3> HIDE DEF J, thr, i
    <3> QED
      BY <1>2, <1>3, <1>4
  <2>3. t \in WideSearches(w)
    <3> HIDE DEF val, parents, queue, t, J, thr
    <3>1. t = [val |-> val, parents |-> parents, to_visit |-> queue]
      BY <2>1 DEF val, parents, queue
    <3> QED
      BY <2>2, <3>1 DEF WideSearches, Net!Searches, Net!None
  <2> QED
    BY <1>1, <1>6, <2>1, <2>3 DEF Visited
<1> QED
  BY <1>5, <1>6

-----------------------------------------------------------------------------
(***************************************************************************)
(* Parents.  A search keeps for every vertex the one it was reached from;   *)
(* the way back along them is a path, as long as they run in no circle.     *)
(***************************************************************************)
Parents(I) == [I -> I \cup {-1}]

\* What lies on the way back from i.
Back(I, parents, i) ==
  {x \in I : \A A \in SUBSET I :
     i \in A /\ (\A y \in A : parents[y] # -1 => parents[y] \in A) => x \in A}

\* The way back starts with i and goes on from its parent.
LEMMA BackIs ==
  ASSUME NEW I, -1 \notin I, NEW parents \in Parents(I), NEW i \in I
  PROVE  Back(I, parents, i) =
           IF parents[i] = -1 THEN {i} ELSE {i} \cup Back(I, parents, parents[i])
<1> DEFINE B(j) == Back(I, parents, j)
           Closed(A) == \A y \in A : parents[y] # -1 => parents[y] \in A
<1>0. \A j \in I : parents[j] \in I \cup {-1}
  BY DEF Parents
<1>1. ASSUME NEW j \in I PROVE j \in B(j) /\ B(j) \in SUBSET I /\ Closed(B(j))
  BY <1>0 DEF Back
<1>2. ASSUME NEW j \in I, NEW A \in SUBSET I, j \in A, Closed(A) PROVE B(j) \subseteq A
  BY <1>2 DEF Back
<1>3. CASE parents[i] = -1
  <2>1. {i} \in SUBSET I /\ Closed({i})
    BY <1>3
  <2>2. B(i) \subseteq {i}
    <3> HIDE DEF B, Closed
    <3> QED
      BY <1>2, <2>1
  <2> HIDE DEF B
  <2> QED
    BY <1>1, <1>3, <2>2 DEF B
<1>4. CASE parents[i] # -1
  <2> DEFINE q == parents[i]
  <2>1. q \in I
    BY <1>0, <1>4
  <2>2. {i} \cup B(q) \in SUBSET I /\ Closed({i} \cup B(q))
    <3> HIDE DEF B
    <3> QED
      BY <1>1, <2>1
  <2>3. B(i) \subseteq {i} \cup B(q)
    <3> HIDE DEF B, Closed
    <3> QED
      BY <1>2, <2>2
  <2>4. q \in B(i) /\ i \in B(i)
    <3> HIDE DEF B
    <3> QED
      BY <1>1, <1>4
  <2>5. B(q) \subseteq B(i)
    <3> HIDE DEF B, Closed
    <3> QED
      BY <1>1, <1>2, <2>1, <2>4
  <2>6. B(i) = {i} \cup B(q)
    <3> HIDE DEF B
    <3> QED
      BY <2>3, <2>4, <2>5
  <2> QED
    BY <1>4, <2>6
<1> QED
  BY <1>3, <1>4

\* Chain collects the links on the way back.
LEMMA ChainIs ==
  ASSUME NEW I, -1 \notin I, NEW parents \in Parents(I), NEW i \in I
  PROVE  Net!Chain(parents, i) =
           IF parents[i] = -1 THEN {}
           ELSE {{i, parents[i]}} \cup Net!Chain(parents, parents[i])
<1> DEFINE Is(f) == f = [j \in DOMAIN parents |->
                           IF parents[j] = Net!None THEN {}
                           ELSE {{j, parents[j]}} \cup f[parents[j]]]
           Up == CHOOSE f : Is(f)
           L(j) == {{x, parents[x]} : x \in {y \in Back(I, parents, j) : parents[y] # -1}}
           f == [j \in I |-> L(j)]
<1>1. \A j \in I : parents[j] \in I \cup {-1}
  BY DEF Parents
<1>2. DOMAIN parents = I
  BY DEF Parents
<1>3. ASSUME NEW j \in I
      PROVE  f[j] = IF parents[j] = -1 THEN {} ELSE {{j, parents[j]}} \cup f[parents[j]]
  <2>1. CASE parents[j] = -1
    <3>1. Back(I, parents, j) = {j}
      BY <2>1, BackIs
    <3> QED
      BY <2>1, <3>1
  <2>2. CASE parents[j] # -1
    <3>1. Back(I, parents, j) = {j} \cup Back(I, parents, parents[j])
      BY <2>2, BackIs
    <3>2. L(j) = {{j, parents[j]}} \cup L(parents[j])
      BY <2>2, <3>1
    <3>3. parents[j] \in I
      BY <1>1, <2>2
    <3> HIDE DEF L
    <3> QED
      BY <2>2, <3>2, <3>3
  <2> QED
    BY <2>1, <2>2
<1>4. Is(f)
  <2>1. f = [j \in I |-> f[j]]
    OBVIOUS
  <2> HIDE DEF f
  <2> QED
    BY <1>2, <1>3, <2>1 DEF Net!None
<1>5. Is(Up)
  <2> HIDE DEF Is
  <2> QED
    BY <1>4
<1>6. \A j \in I : Net!Chain(parents, j) = Up[j]
  BY DEF Net!Chain
<1> HIDE DEF Up
<1> QED
  BY <1>1, <1>2, <1>5, <1>6 DEF Net!None


\* Parents in no circle: every set of vertices has one whose parent is outside.
Acyclic(I, parents) == \A A \in SUBSET I : A # {} => \E i \in A : parents[i] \notin A

\* The vertices found from a root, each but the root with a parent among them.
Rooted(I, from, parents, found) ==
  /\ -1 \notin I /\ parents \in Parents(I) /\ Acyclic(I, parents)
  /\ found \in SUBSET I /\ from \in found /\ parents[from] = -1
  /\ \A i \in found \ {from} : parents[i] \in found

WayDown(from, parents, i, p) ==
  /\ Len(p) >= 1 /\ p[1] = from /\ p[Len(p)] = i
  /\ \A k \in 1..(Len(p) - 1) : parents[p[k + 1]] = p[k]
  /\ LinksOf(p) = Net!Chain(parents, i)

\* LinksOf: one link more for one vertex more.
LEMMA LinksOfAppend ==
  ASSUME NEW V, NEW p \in Seq(V), Len(p) >= 1, NEW i \in V
  PROVE  LinksOf(Append(p, i)) = LinksOf(p) \cup {{p[Len(p)], i}}
<1> DEFINE q == Append(p, i)
           n == Len(p)
<1>1. n \in Nat /\ n >= 1 /\ Len(q) = n + 1 /\ q[n + 1] = i /\ \A k \in 1..n : q[k] = p[k]
  OBVIOUS
<1> HIDE DEF q, n
<1>2. \A k \in 1..(n - 1) : {q[k], q[k + 1]} = {p[k], p[k + 1]}
  BY <1>1
<1>3. {q[n], q[n + 1]} = {p[n], i}
  BY <1>1
<1>4. LinksOf(q) = {{q[k], q[k + 1]} : k \in 1..n}
  BY <1>1 DEF LinksOf
<1>5. LinksOf(p) = {{p[k], p[k + 1]} : k \in 1..(n - 1)}
  BY DEF LinksOf, n
<1>6. ASSUME NEW e \in LinksOf(q) PROVE e \in LinksOf(p) \cup {{p[n], i}}
  <2>1. PICK k \in 1..n : e = {q[k], q[k + 1]}
    BY <1>4, <1>6
  <2>2. CASE k = n
    BY <1>3, <2>1, <2>2
  <2>3. CASE k # n
    <3>1. k \in 1..(n - 1)
      BY <1>1, <2>3
    <3> QED
      BY <1>2, <1>5, <2>1, <3>1
  <2> QED
    BY <2>2, <2>3
<1>7. ASSUME NEW e \in LinksOf(p) PROVE e \in LinksOf(q)
  <2>1. PICK k \in 1..(n - 1) : e = {p[k], p[k + 1]}
    BY <1>5, <1>7
  <2>2. k \in 1..n
    BY <1>1
  <2> QED
    BY <1>2, <1>4, <2>1, <2>2
<1>8. {p[n], i} \in LinksOf(q)
  <2>1. n \in 1..n
    BY <1>1
  <2> QED
    BY <1>3, <1>4, <2>1
<1> QED
  BY <1>6, <1>7, <1>8 DEF n, q

\* Every vertex found lies at the end of a way from the root, of different
\* vertices, and the links of that way are those that Chain collects.
LEMMA WayExists ==
  ASSUME NEW I, NEW from, NEW parents, NEW found, Rooted(I, from, parents, found),
         NEW i \in found
  PROVE  \E p \in Seq(found) : WayDown(from, parents, i, p)
<1> DEFINE Bad == {j \in found : ~\E p \in Seq(found) : WayDown(from, parents, j, p)}
<1>0. /\ -1 \notin I /\ parents \in Parents(I) /\ Acyclic(I, parents)
      /\ found \in SUBSET I /\ from \in found /\ parents[from] = -1
      /\ \A j \in found \ {from} : parents[j] \in found
  BY DEF Rooted
<1> SUFFICES ASSUME Bad # {} PROVE FALSE
  OBVIOUS
<1>1. PICK j \in Bad : parents[j] \notin Bad
  <2>1. Bad \in SUBSET I
    BY <1>0
  <2> HIDE DEF Bad
  <2> QED
    BY <1>0, <2>1 DEF Acyclic
<1>2. CASE j = from
  <2> DEFINE p == <<from>>
  <2>1. p \in Seq(found) /\ Len(p) = 1 /\ p[1] = from
    BY <1>0
  <2>2. LinksOf(p) = {}
    BY <2>1 DEF LinksOf
  <2>3. Net!Chain(parents, j) = {}
    BY <1>0, <1>2, ChainIs
  <2>4. WayDown(from, parents, j, p)
    BY <1>2, <2>1, <2>2, <2>3 DEF WayDown
  <2> QED
    BY <1>1, <2>1, <2>4
<1>3. CASE j # from
  <2> DEFINE q == parents[j]
  <2>1. q \in found /\ j \in found /\ q # -1
    BY <1>0, <1>1, <1>3
  <2>2. PICK p \in Seq(found) : WayDown(from, parents, q, p)
    BY <1>1, <2>1
  <2> DEFINE r == Append(p, j)
             n == Len(p)
  <2>3. n \in Nat /\ n >= 1 /\ p[1] = from /\ p[n] = q
        /\ (\A k \in 1..(n - 1) : parents[p[k + 1]] = p[k]) /\ LinksOf(p) = Net!Chain(parents, q)
    BY <2>2 DEF WayDown
  <2>4. r \in Seq(found) /\ Len(r) = n + 1 /\ r[n + 1] = j /\ \A k \in 1..n : r[k] = p[k]
    BY <2>1, <2>3
  <2>5. LinksOf(r) = Net!Chain(parents, j)
    <3>1. LinksOf(r) = LinksOf(p) \cup {{q, j}}
      BY <2>1, <2>3, LinksOfAppend
    <3>2. Net!Chain(parents, j) = {{j, q}} \cup Net!Chain(parents, q)
      BY <1>0, <2>1, ChainIs
    <3> QED
      BY <2>3, <3>1, <3>2
  <2> HIDE DEF r, n
  <2>6. \A k \in 1..n : parents[r[k + 1]] = r[k]
    <3> TAKE k \in 1..n
    <3>1. CASE k = n
      BY <2>3, <2>4, <3>1
    <3>2. CASE k # n
      <4>1. k \in 1..(n - 1) /\ k + 1 \in 1..n
        BY <2>3, <3>2
      <4> QED
        BY <2>3, <2>4, <4>1
    <3> QED
      BY <3>1, <3>2
  <2>7. WayDown(from, parents, j, r)
    <3>1. Len(r) - 1 = n /\ Len(r) >= 1 /\ r[1] = from
      BY <2>3, <2>4
    <3> QED
      BY <2>4, <2>5, <2>6, <3>1 DEF WayDown
  <2> QED
    BY <1>1, <2>4, <2>7
<1> QED
  BY <1>2, <1>3

\* Such a way never comes to a vertex twice: it would be a circle of parents.
LEMMA WayIsSimple ==
  ASSUME NEW I, NEW parents, Acyclic(I, parents), NEW from, NEW i, NEW p \in Seq(I),
         WayDown(from, parents, i, p)
  PROVE  \A k, l \in DOMAIN p : p[k] = p[l] => k = l
<1> DEFINE n == Len(p)
<1>0. n \in Nat /\ DOMAIN p = 1..n /\ \A k \in 1..n : p[k] \in I
  OBVIOUS
<1>1. \A k \in 1..(n - 1) : parents[p[k + 1]] = p[k]
  BY DEF WayDown
<1> HIDE DEF n
<1>2. ASSUME NEW m \in 1..n, NEW l \in 1..n, m < l, p[m] = p[l] PROVE FALSE
  <2> DEFINE A == {p[k] : k \in (m + 1)..l}
  <2>1. A \in SUBSET I
    <3>1. \A k \in (m + 1)..l : k \in 1..n
      BY <1>0
    <3> QED
      BY <1>0, <3>1
  <2>2. l \in (m + 1)..l
    BY <1>0, <1>2
  <2>3. p[l] \in A
    BY <2>2
  <2>4. ASSUME NEW x \in A PROVE parents[x] \in A
    <3>1. PICK k \in (m + 1)..l : x = p[k]
      OBVIOUS
    <3>2. k - 1 \in 1..(n - 1) /\ (k - 1) + 1 = k
      BY <1>0
    <3>3. parents[x] = p[k - 1]
      BY <1>1, <3>1, <3>2
    <3>4. CASE k = m + 1
      <4>1. k - 1 = m
        BY <1>0, <3>4
      <4> QED
        BY <1>2, <2>3, <3>3, <4>1
    <3>5. CASE k # m + 1
      <4>1. k - 1 \in (m + 1)..l
        BY <1>0, <3>5
      <4> QED
        BY <3>3, <4>1
    <3> QED
      BY <3>4, <3>5
  <2> HIDE DEF A
  <2> QED
    BY <2>1, <2>3, <2>4 DEF Acyclic
<1> QED
  <2> TAKE k, l \in DOMAIN p
  <2>1. k \in 1..n /\ l \in 1..n /\ k \in Int /\ l \in Int
    BY <1>0
  <2>2. k = l \/ k < l \/ l < k
    BY <2>1
  <2> QED
    BY <1>2, <2>1, <2>2


-----------------------------------------------------------------------------
(***************************************************************************)
(* The search from a vertex: what is found is there, and what is there and  *)
(* not found yet is behind an entry of the queue.                           *)
(***************************************************************************)
Found(w, from, s) ==
  \A i \in Net!Indices(w), b \in 0..MAX : s.val[i] >= b => i \in Within(w, b, from)
Queued(s) == \A q \in s.to_visit : 0 <= q.val /\ q.val <= s.val[q.node]
Followed(w, s) ==
  \A i \in Net!Indices(w) : s.val[i] >= 0 =>
    \/ [node |-> i, val |-> s.val[i]] \in s.to_visit
    \/ \A j \in Net!neighbours(w, i) : s.val[j] >= Through(w, s, i, j)

\* Every vertex found but the first has a parent, found with at least as much.
Treed(w, from, s) ==
  /\ s.parents[from] = -1 /\ Acyclic(Net!Indices(w), s.parents)
  /\ \A i \in Net!Indices(w) \ {from} :
       IF s.val[i] = -1 THEN s.parents[i] = -1
       ELSE /\ s.parents[i] \in Net!Indices(w) /\ i \in Net!neighbours(w, s.parents[i])
            /\ s.val[s.parents[i]] >= s.val[i] /\ Net!link(w, s.parents[i], i) >= s.val[i]

Widening(w, from) ==
  {s \in WideSearches(w) :
     /\ s.val[from] = MAX
     /\ Found(w, from, s) /\ Queued(s) /\ Followed(w, s) /\ Treed(w, from, s)}

\* The search starts well.
LEMMA WideningStarts ==
  ASSUME NEW w, IsNetwork(w), NEW from \in Net!Indices(w)
  PROVE  Net!SearchFrom(w, from, MAX) \in Widening(w, from)
<1> DEFINE s == Net!SearchFrom(w, from, MAX)
<1>0. MAX \in Nat
  BY Setup
<1>1. s = [val |-> [i \in Net!Indices(w) |-> IF i = from THEN MAX ELSE -1],
           parents |-> [i \in Net!Indices(w) |-> -1],
           to_visit |-> {[node |-> from, val |-> MAX]}]
  BY DEF Net!SearchFrom, Net!None
<1> HIDE DEF s
<1>2. s \in WideSearches(w)
  BY <1>0, <1>1 DEF WideSearches, Net!Searches, Net!None
<1>3. \A i \in Net!Indices(w) : s.val[i] = IF i = from THEN MAX ELSE -1
  BY <1>1
<1>4. Found(w, from, s)
  <2> SUFFICES ASSUME NEW i \in Net!Indices(w), NEW b \in 0..MAX, s.val[i] >= b
               PROVE  i \in Within(w, b, from)
    BY DEF Found
  <2>1. i = from
    BY <1>0, <1>3
  <2> QED
    BY <2>1, WithinIs
<1>5. Queued(s)
  BY <1>0, <1>1, <1>3 DEF Queued
<1>6. Followed(w, s)
  BY <1>0, <1>1, <1>3 DEF Followed
<1>7. Treed(w, from, s)
  <2>1. \A i \in Net!Indices(w) : s.parents[i] = -1 /\ -1 \notin Net!Indices(w)
    BY <1>1 DEF Net!Indices
  <2>2. Acyclic(Net!Indices(w), s.parents)
    BY <2>1 DEF Acyclic
  <2> QED
    BY <1>3, <2>1, <2>2 DEF Treed
<1> QED
  BY <1>2, <1>3, <1>4, <1>5, <1>6, <1>7 DEF Widening, s

\* Every visit keeps it so.
LEMMA WideningStep ==
  ASSUME NEW w, IsNetwork(w), NEW from \in Net!Indices(w), NEW s \in Widening(w, from),
         s.to_visit # {}
  PROVE  Net!VisitWidest(w, s) \in Widening(w, from)
<1> DEFINE t == Net!VisitWidest(w, s)
           p == Net!Pop(s)
           i == p.node
           J == Improved(w, s, i)
           thr(j) == Through(w, s, i, j)
<1>0. /\ MAX \in Nat
      /\ s \in WideSearches(w) /\ s.val[from] = MAX
      /\ Found(w, from, s) /\ Queued(s) /\ Followed(w, s) /\ Treed(w, from, s)
  BY Setup DEF Widening
<1>1. t \in WideSearches(w) /\ Visited(w, s, t, p)
  BY <1>0, VisitIs
<1>2. /\ s.val \in [Net!Indices(w) -> -1..MAX] /\ t.val \in [Net!Indices(w) -> -1..MAX]
      /\ s.to_visit \subseteq [node : Net!Indices(w), val : -1..MAX]
  BY <1>0, <1>1 DEF WideSearches, Net!Searches, Net!None
<1>3. p \in s.to_visit /\ i \in Net!Indices(w) /\ p.val \in 0..MAX /\ p.val <= s.val[i]
  BY <1>0, <1>1, <1>2 DEF Visited, Queued
<1> HIDE DEF t, p
<1>4. CASE p.val < s.val[i]
  <2>1. t.val = s.val /\ t.parents = s.parents /\ t.to_visit = s.to_visit \ {p}
    BY <1>1, <1>4 DEF Visited
  <2>2. \A k \in Net!Indices(w) : [node |-> k, val |-> s.val[k]] # p
    BY <1>2, <1>3, <1>4
  <2>3. Followed(w, t)
    BY <1>0, <2>1, <2>2 DEF Followed, Through
  <2>4. Found(w, from, t) /\ Queued(t) /\ t.val[from] = MAX
    BY <1>0, <2>1 DEF Found, Queued
  <2>5. Treed(w, from, t)
    BY <1>0, <2>1 DEF Treed
  <2> QED
    BY <1>1, <2>3, <2>4, <2>5 DEF Widening, t
<1>5. CASE ~(p.val < s.val[i])
  <2>1. /\ \A j \in Net!Indices(w) : /\ t.val[j] = IF j \in J THEN thr(j) ELSE s.val[j]
                                     /\ t.parents[j] = IF j \in J THEN i ELSE s.parents[j]
        /\ t.to_visit = (s.to_visit \ {p}) \cup {[node |-> j, val |-> thr(j)] : j \in J}
    BY <1>1, <1>2, <1>5 DEF Visited
  <2>2. p.val = s.val[i] /\ s.val[i] \in 0..MAX
    BY <1>2, <1>3, <1>5
  <2>3. /\ J \subseteq Net!neighbours(w, i) /\ i \notin J
        /\ \A j \in Net!neighbours(w, i) :
             /\ j \in Net!Indices(w) /\ j # i /\ Net!link(w, i, j) \in 0..MAX
             /\ thr(j) \in 0..MAX /\ thr(j) <= s.val[i] /\ thr(j) <= Net!link(w, i, j)
             /\ j \in J => thr(j) > s.val[j]
             /\ j \notin J => s.val[j] >= thr(j)
    <3>1. \A j \in Net!neighbours(w, i) :
            j \in Net!Indices(w) /\ j # i /\ Net!link(w, i, j) \in -1..MAX /\ Net!link(w, i, j) # -1
      BY <1>3, LinkIs DEF Net!neighbours, Net!NoLink, Net!None
    <3> QED
      BY <1>0, <1>2, <2>2, <3>1 DEF Improved, Through
  <2> HIDE DEF J, thr, i
  <2>4. \A j \in Net!Indices(w) : t.val[j] >= s.val[j]
    BY <1>2, <2>1, <2>3
  <2>5. t.val[from] = MAX
    BY <1>0, <1>2, <2>4
  <2>6. Found(w, from, t)
    <3> SUFFICES ASSUME NEW j \in Net!Indices(w), NEW b \in 0..MAX, t.val[j] >= b
                 PROVE  j \in Within(w, b, from)
      BY DEF Found
    <3>1. CASE j \notin J
      BY <1>0, <2>1, <3>1 DEF Found
    <3>2. CASE j \in J
      <4>1. thr(j) >= b /\ thr(j) <= s.val[i] /\ thr(j) <= Net!link(w, i, j) /\ j # i
            /\ thr(j) \in 0..MAX /\ Net!link(w, i, j) \in 0..MAX
        BY <2>1, <2>3, <3>2
      <4>2. s.val[i] >= b /\ Net!link(w, i, j) >= b
        BY <1>0, <2>2, <4>1
      <4>3. i \in Within(w, b, from) /\ Carries(w, b, i, j)
        BY <1>0, <1>3, <4>1, <4>2 DEF Found, Carries, i
      <4> QED
        BY <4>3, WithinIs
    <3> QED
      BY <3>1, <3>2
  <2>7. Queued(t)
    <3> SUFFICES ASSUME NEW q \in t.to_visit PROVE 0 <= q.val /\ q.val <= t.val[q.node]
      BY DEF Queued
    <3>1. CASE q \in s.to_visit
      <4>1. 0 <= q.val /\ q.val <= s.val[q.node] /\ q.node \in Net!Indices(w) /\ q.val \in Int
        BY <1>0, <1>2, <3>1 DEF Queued
      <4> QED
        BY <1>0, <1>2, <2>4, <4>1
    <3>2. CASE q \notin s.to_visit
      <4>1. PICK j \in J : q = [node |-> j, val |-> thr(j)]
        BY <2>1, <3>2
      <4> QED
        BY <2>1, <2>3, <4>1
    <3> QED
      BY <3>1, <3>2
  <2>8. Followed(w, t)
    <3> SUFFICES ASSUME NEW k \in Net!Indices(w), t.val[k] >= 0,
                        [node |-> k, val |-> t.val[k]] \notin t.to_visit,
                        NEW j \in Net!neighbours(w, k)
                 PROVE  t.val[j] >= Through(w, t, k, j)
      BY DEF Followed
    <3>1. j \in Net!Indices(w) /\ k \notin J
      BY <2>1 DEF Net!neighbours
    <3>2. t.val[k] = s.val[k] /\ Through(w, t, k, j) = Through(w, s, k, j)
      BY <2>1, <3>1 DEF Through
    <3>3. CASE k = i
      <4>1. Through(w, s, k, j) = thr(j) /\ j \in Net!neighbours(w, i)
        BY <3>3 DEF thr, i
      <4> QED
        BY <2>1, <2>3, <3>1, <3>2, <4>1
    <3>4. CASE k # i
      <4>1. [node |-> k, val |-> s.val[k]] # p
        BY <3>4 DEF i
      <4>2. [node |-> k, val |-> s.val[k]] \notin s.to_visit
        BY <2>1, <3>2, <4>1
      <4>3. s.val[j] >= Through(w, s, k, j)
        BY <1>0, <3>2, <4>2 DEF Followed
      <4>4. Net!link(w, k, j) \in -1..MAX
        BY <3>1, LinkIs
      <4>5. Through(w, s, k, j) \in Int
        BY <1>0, <1>2, <4>4 DEF Through
      <4> QED
        BY <1>0, <1>2, <2>4, <3>1, <3>2, <4>3, <4>5
    <3> QED
      BY <3>3, <3>4
  <2>9. Treed(w, from, t)
    <3>0. /\ from \notin J /\ t.parents[from] = -1 /\ -1 \notin Net!Indices(w) /\ J \subseteq Net!Indices(w)
          /\ \A j \in Net!Indices(w) : s.val[j] \in -1..MAX /\ t.val[j] \in -1..MAX
      <4>1. from \notin J
        BY <1>0, <2>2, <2>3
      <4>2. J \subseteq Net!Indices(w) /\ -1 \notin Net!Indices(w)
        BY <2>3 DEF Net!Indices
      <4> QED
        BY <1>0, <1>2, <2>1, <4>1, <4>2 DEF Treed
    <3>1. ASSUME NEW j \in Net!Indices(w) \ {from}
          PROVE  IF t.val[j] = -1 THEN t.parents[j] = -1
                 ELSE /\ t.parents[j] \in Net!Indices(w) /\ j \in Net!neighbours(w, t.parents[j])
                      /\ t.val[t.parents[j]] >= t.val[j] /\ Net!link(w, t.parents[j], j) >= t.val[j]
      <4>1. CASE j \in J
        <5>1. /\ t.parents[j] = i /\ t.val[j] = thr(j) /\ thr(j) \in 0..MAX
              /\ thr(j) <= s.val[i] /\ thr(j) <= Net!link(w, i, j) /\ Net!link(w, i, j) \in 0..MAX
              /\ t.val[i] = s.val[i] /\ j \in Net!neighbours(w, i)
          BY <1>3, <2>1, <2>3, <4>1 DEF i
        <5> QED
          BY <1>0, <1>3, <2>2, <5>1 DEF i
      <4>2. CASE j \notin J
        <5>1. t.val[j] = s.val[j] /\ t.parents[j] = s.parents[j]
          BY <2>1, <4>2
        <5>2. CASE s.val[j] = -1
          BY <1>0, <5>1, <5>2 DEF Treed
        <5>3. CASE s.val[j] # -1
          <6> DEFINE q == s.parents[j]
          <6>1. /\ q \in Net!Indices(w) /\ j \in Net!neighbours(w, q)
                /\ s.val[q] >= s.val[j] /\ Net!link(w, q, j) >= s.val[j]
            BY <1>0, <5>3 DEF Treed
          <6>2. t.val[q] >= s.val[q]
            BY <2>4, <6>1
          <6> HIDE DEF q
          <6>3. t.val[q] >= s.val[j]
            BY <1>0, <3>0, <6>1, <6>2
          <6> QED
            BY <5>1, <5>3, <6>1, <6>3 DEF q
        <5> QED
          BY <5>2, <5>3
      <4> QED
        BY <4>1, <4>2
    <3>2. Acyclic(Net!Indices(w), t.parents)
      <4> SUFFICES ASSUME NEW A \in SUBSET Net!Indices(w), A # {}, \A x \in A : t.parents[x] \in A
                   PROVE  FALSE
        BY DEF Acyclic
      <4>1. CASE A \cap J = {}
        <5>1. \A x \in A : s.parents[x] \in A
          BY <2>1, <4>1
        <5> QED
          BY <1>0, <5>1 DEF Treed, Acyclic
      <4>2. CASE A \cap J # {}
        <5> DEFINE B == {x \in A \ J : s.val[x] >= s.val[i]}
        <5>1. i \in B
          <6>1. i \in A /\ s.val[i] \in Int
            BY <1>3, <2>1, <2>2, <4>2 DEF i
          <6> QED
            BY <2>3, <6>1
        <5>2. ASSUME NEW x \in B PROVE s.parents[x] \in B
          <6> DEFINE q == s.parents[x]
          <6>1. q = t.parents[x] /\ q \in A /\ x \in Net!Indices(w) /\ q \in Net!Indices(w)
            BY <2>1
          <6>2. x # from /\ s.val[x] # -1
            BY <1>0, <3>0, <6>1 DEF Treed
          <6>3. s.val[q] >= s.val[x]
            BY <1>0, <6>1, <6>2 DEF Treed
          <6>4. /\ s.val[x] >= s.val[i] /\ s.val[x] \in -1..MAX /\ s.val[q] \in -1..MAX
                /\ s.val[i] \in 0..MAX
            BY <2>2, <3>0, <6>1
          <6> HIDE DEF q
          <6>5. s.val[q] >= s.val[i]
            BY <1>0, <6>3, <6>4
          <6>6. q \notin J
            <7> SUFFICES ASSUME q \in J PROVE FALSE
              OBVIOUS
            <7>1. thr(q) \in 0..MAX /\ thr(q) <= s.val[i] /\ thr(q) > s.val[q]
              BY <2>3
            <7> QED
              BY <1>0, <6>4, <6>5, <7>1
          <6> QED
            BY <6>1, <6>5, <6>6 DEF q
        <5>3. B \in SUBSET Net!Indices(w)
          OBVIOUS
        <5> HIDE DEF B
        <5> QED
          BY <1>0, <5>1, <5>2, <5>3 DEF Treed, Acyclic
      <4> QED
        BY <4>1, <4>2
    <3> QED
      BY <3>0, <3>1, <3>2 DEF Treed
  <2> QED
    BY <1>1, <2>5, <2>6, <2>7, <2>8, <2>9 DEF Widening, t
<1> QED
  BY <1>4, <1>5

\* Every visit raises a value, or takes an entry off the queue.
Ahead(s, t) ==
  \/ (\A i \in DOMAIN s.val : s.val[i] <= t.val[i]) /\ s.val # t.val
  \/ s.val = t.val /\ t.to_visit \subseteq s.to_visit /\ t.to_visit # s.to_visit

\* That is what VisitWidest does.
LEMMA VisitAhead ==
  ASSUME NEW w, IsNetwork(w), NEW from \in Net!Indices(w), NEW s \in Widening(w, from),
         s.to_visit # {}
  PROVE  Ahead(s, Net!VisitWidest(w, s))
<1> DEFINE t == Net!VisitWidest(w, s)
           p == Net!Pop(s)
           i == p.node
           J == Improved(w, s, i)
<1>0. MAX \in Nat /\ s \in WideSearches(w) /\ Queued(s)
  BY Setup DEF Widening
<1>1. t \in WideSearches(w) /\ Visited(w, s, t, p)
  BY <1>0, VisitIs
<1>2. /\ s.val \in [Net!Indices(w) -> -1..MAX]
      /\ s.to_visit \subseteq [node : Net!Indices(w), val : -1..MAX]
  BY <1>0 DEF WideSearches, Net!Searches, Net!None
<1>3. p \in s.to_visit /\ i \in Net!Indices(w) /\ p.val \in 0..MAX /\ p.val <= s.val[i]
  BY <1>0, <1>1, <1>2 DEF Visited, Queued
<1>4. J \subseteq Net!Indices(w)
      /\ \A j \in J : Through(w, s, i, j) \in 0..MAX /\ Through(w, s, i, j) > s.val[j]
  <2>1. \A j \in J : j \in Net!Indices(w) /\ Net!link(w, i, j) \in -1..MAX /\ Net!link(w, i, j) # -1
    BY <1>3, LinkIs DEF Improved, Net!neighbours, Net!NoLink, Net!None
  <2>2. s.val[i] \in 0..MAX
    BY <1>0, <1>2, <1>3
  <2> QED
    BY <1>0, <1>2, <2>1, <2>2 DEF Improved, Through
<1> HIDE DEF t, p, J
<1>5. CASE t.val = s.val /\ t.to_visit = s.to_visit \ {p}
  BY <1>3, <1>5 DEF Ahead, t
<1>6. CASE /\ t.val = [j \in DOMAIN s.val |-> IF j \in J THEN Through(w, s, i, j) ELSE s.val[j]]
           /\ t.to_visit = (s.to_visit \ {p})
                \cup {[node |-> j, val |-> Through(w, s, i, j)] : j \in J}
  <2>1. CASE J = {}
    <3>1. t.val = s.val
      <4>1. t.val = [j \in DOMAIN s.val |-> s.val[j]]
        BY <1>6, <2>1
      <4> QED
        BY <1>2, <4>1
    <3>2. t.to_visit = s.to_visit \ {p}
      BY <1>6, <2>1
    <3> QED
      BY <1>3, <3>1, <3>2 DEF Ahead, t
  <2>2. CASE J # {}
    <3>1. \A j \in Net!Indices(w) : t.val[j] = IF j \in J THEN Through(w, s, i, j) ELSE s.val[j]
      BY <1>2, <1>6
    <3>2. \A j \in Net!Indices(w) : s.val[j] <= t.val[j]
      BY <1>0, <1>2, <1>4, <3>1
    <3>3. PICK j \in J : TRUE
      BY <2>2
    <3>4. t.val[j] # s.val[j]
      BY <1>0, <1>2, <1>4, <3>1, <3>3
    <3> QED
      BY <1>2, <3>2, <3>4 DEF Ahead, t
  <2> QED
    BY <2>1, <2>2
<1> QED
  BY <1>1, <1>5, <1>6 DEF Visited, J

\* There are finitely many searches.
LEMMA FiniteSearches ==
  ASSUME NEW w, IsNetwork(w)
  PROVE  IsFiniteSet(WideSearches(w))
<1> DEFINE I == Net!Indices(w)
           E == [node : I, val : -1..MAX]
           A == [I -> -1..MAX]
           B == [I -> I \cup {-1}]
           C == SUBSET E
           T == (A \X B) \X C
           j == [s \in WideSearches(w) |-> <<<<s.val, s.parents>>, s.to_visit>>]
<1>1. IsFiniteSet(I) /\ IsFiniteSet(-1..MAX) /\ IsFiniteSet(I \cup {-1})
  <2>1. w.links.n - 1 \in Int /\ -1 \in Int /\ MAX \in Int /\ 0 \in Int
    BY Setup DEF IsNetwork
  <2>2. IsFiniteSet(0..(w.links.n - 1)) /\ IsFiniteSet(-1..MAX)
    BY <2>1, FS_Interval
  <2> QED
    BY <2>2, FS_AddElement DEF Net!Indices
<1>2. IsFiniteSet(E)
  <2> DEFINE h == [p \in E |-> <<p.node, p.val>>]
  <2>1. h \in [E -> I \X (-1..MAX)] /\ \A p, q \in E : h[p] = h[q] => p = q
    OBVIOUS
  <2>2. h \in Injection(E, I \X (-1..MAX))
    <3> HIDE DEF h
    <3> QED
      BY <2>1 DEF Injection, IsInjective
  <2>3. IsFiniteSet(I \X (-1..MAX))
    BY <1>1, FS_Product
  <2> QED
    BY <2>2, <2>3, FS_Injection
<1> HIDE DEF E, I
<1>3. IsFiniteSet(A) /\ IsFiniteSet(B) /\ IsFiniteSet(C)
  BY <1>1, <1>2, FiniteFunctions, FS_SUBSET
<1>4. IsFiniteSet(T)
  <2> HIDE DEF A, B, C
  <2>1. IsFiniteSet(A \X B)
    BY <1>3, FS_Product
  <2> QED
    BY <1>3, <2>1, FS_Product
<1>5. WideSearches(w) = [val : A, parents : B, to_visit : C]
  BY DEF WideSearches, Net!Searches, Net!None, I, E
<1>6. j \in Injection(WideSearches(w), T)
  <2> HIDE DEF A, B, C
  <2>1. j \in [WideSearches(w) -> T] /\ \A p, q \in WideSearches(w) : j[p] = j[q] => p = q
    BY <1>5
  <2> HIDE DEF j, T
  <2> QED
    BY <2>1 DEF Injection, IsInjective
<1> QED
  <2> HIDE DEF j, T
  <2> QED
    BY <1>4, <1>6, FS_Injection

\* widest_path comes to an end, and the bandwidth it finds for a vertex is the
\* greatest over which that vertex can be reached.
THEOREM WidestIsWidest ==
  ASSUME NEW w, IsNetwork(w), NEW from \in Net!Indices(w)
  PROVE  /\ Net!widest_path(w, from) \in WideSearches(w)
         /\ \A i \in Net!Indices(w), b \in 0..MAX :
              Net!widest_path(w, from).val[i] >= b <=> i \in Within(w, b, from)
         /\ Treed(w, from, Net!widest_path(w, from))
<1> DEFINE S == WideSearches(w)
           Done == {s \in S : s.to_visit = {}}
           g == [s \in S |-> IF s \in Done THEN s ELSE Net!VisitWidest(w, s)]
           out == [s \in S |-> s]
           I == Widening(w, from)
           R == {st \in S \X S : Ahead(st[1], st[2])}
           mu == [s \in I |-> s]
           Right(t) == \A i \in Net!Indices(w), b \in 0..MAX :
                         t.val[i] >= b <=> i \in Within(w, b, from)
           P == {t \in S : Right(t) /\ Treed(w, from, t)}
           Is(V) == V = [s \in Net!Searches(w, Net!None..MAX) |->
                           IF s.to_visit = {} THEN s ELSE V[Net!VisitWidest(w, s)]]
           V == CHOOSE f : Is(f)
<1>0. MAX \in Nat /\ I \in SUBSET S /\ S = Net!Searches(w, Net!None..MAX)
  BY Setup DEF Widening, WideSearches, Net!None
<1>1. g \in [S -> S]
  BY VisitIs
<1>2. \A f : Is(f) <=> IsLoop(f, S, Done, g, out)
  <2> TAKE f
  <2>1. [s \in S |-> IF s.to_visit = {} THEN s ELSE f[Net!VisitWidest(w, s)]]
          = [s \in S |-> IF s \in Done THEN out[s] ELSE f[g[s]]]
    OBVIOUS
  <2> HIDE DEF g, Done, out, S
  <2> QED
    BY <1>0, <2>1 DEF IsLoop
<1> HIDE DEF Is
<1>3. IsLoop(V, S, Done, g, out)
  <2>1. \E f : IsLoop(f, S, Done, g, out)
    <3> HIDE DEF S, Done, g, out
    <3> QED
      BY <1>1, LoopExists
  <2>2. \E f : Is(f)
    BY <1>2, <2>1
  <2> QED
    BY <1>2, <2>2
<1>4. \A s \in I \ Done : g[s] \in I /\ <<mu[s], mu[g[s]]>> \in R
  <2> TAKE s \in I \ Done
  <2>1. s \in S /\ s.to_visit # {} /\ g[s] = Net!VisitWidest(w, s)
    BY <1>0
  <2>2. g[s] \in I /\ Ahead(s, g[s])
    <3> HIDE DEF I, g, S
    <3> QED
      BY <2>1, VisitAhead, WideningStep DEF I
  <2> HIDE DEF g, I, S
  <2> QED
    BY <1>0, <2>1, <2>2
<1>5. \A s \in I \cap Done : out[s] \in P
  <2> SUFFICES ASSUME NEW s \in I, s.to_visit = {} PROVE Right(s)
    BY <1>0 DEF Widening
  <2>0. /\ s.val \in [Net!Indices(w) -> -1..MAX] /\ s.val[from] = MAX
        /\ Found(w, from, s) /\ Followed(w, s)
    BY <1>0 DEF Widening, WideSearches, Net!Searches, Net!None
  <2> SUFFICES ASSUME NEW i \in Net!Indices(w), NEW b \in 0..MAX
               PROVE  s.val[i] >= b <=> i \in Within(w, b, from)
    OBVIOUS
  <2> DEFINE A == {x \in Net!Indices(w) : s.val[x] >= b}
  <2>1. A \in SUBSET Net!Indices(w) /\ from \in A
    BY <1>0, <2>0
  <2>2. ASSUME NEW x \in A, NEW y \in Net!Indices(w), Carries(w, b, x, y) PROVE y \in A
    <3>1. Net!link(w, x, y) >= b /\ x # y /\ Net!link(w, x, y) \in -1..MAX
      BY <2>2, LinkIs DEF Carries
    <3>2. y \in Net!neighbours(w, x)
      BY <1>0, <3>1 DEF Net!neighbours, Net!NoLink, Net!None
    <3>3. s.val[x] >= 0 /\ s.val[x] >= b /\ s.val[x] \in -1..MAX /\ s.val[y] \in -1..MAX
      BY <1>0, <2>0
    <3>4. s.val[y] >= Through(w, s, x, y)
      BY <2>0, <3>2, <3>3 DEF Followed
    <3> QED
      BY <1>0, <3>1, <3>3, <3>4 DEF Through
  <2>3. Within(w, b, from) \subseteq A
    <3> HIDE DEF A
    <3> QED
      BY <2>1, <2>2, WithinIs
  <2> QED
    BY <2>0, <2>3 DEF Found
<1>6. IsFiniteSet(S) /\ StrictOrder(R, S)
  <2>1. IsFiniteSet(S)
    BY FiniteSearches
  <2>2. \A s \in S : s.val \in [Net!Indices(w) -> -1..MAX]
    BY DEF WideSearches, Net!Searches, Net!None
  <2>3. \A s \in S : ~Ahead(s, s)
    BY DEF Ahead
  <2>4. ASSUME NEW s \in S, NEW t \in S, NEW u \in S, Ahead(s, t), Ahead(t, u)
        PROVE  Ahead(s, u)
    <3>1. CASE s.val = t.val \/ t.val = u.val
      BY <2>4, <3>1 DEF Ahead
    <3>2. CASE s.val # t.val /\ t.val # u.val
      <4>1. \A i \in Net!Indices(w) : s.val[i] <= t.val[i] /\ t.val[i] <= u.val[i]
        BY <2>2, <2>4, <3>2 DEF Ahead
      <4>2. \A i \in Net!Indices(w) : s.val[i] \in Int /\ t.val[i] \in Int /\ u.val[i] \in Int
        BY <1>0, <2>2
      <4>3. \A i \in Net!Indices(w) : s.val[i] <= u.val[i]
        BY <4>1, <4>2
      <4>4. PICK i \in Net!Indices(w) : s.val[i] # t.val[i]
        BY <2>2, <3>2
      <4>5. s.val[i] # u.val[i]
        BY <4>1, <4>2, <4>4
      <4> QED
        BY <2>2, <4>3, <4>5 DEF Ahead
    <3> QED
      BY <3>1, <3>2
  <2>5. \A s, t \in S : <<s, t>> \in R <=> Ahead(s, t)
    OBVIOUS
  <2> HIDE DEF R, S
  <2> QED
    BY <2>1, <2>3, <2>4, <2>5 DEF StrictOrder
<1>7. mu \in [I -> S]
  BY <1>0
<1>8. \A s \in I : V[s] \in P
  <2> HIDE DEF I, S, Done, g, out, R, mu, P, V
  <2>1. (\A s \in I \ Done : g[s] \in I) /\ (\A s \in I \ Done : <<mu[s], mu[g[s]]>> \in R)
    BY <1>4
  <2>2. I \in SUBSET S /\ IsFiniteSet(S) /\ StrictOrder(R, S)
    BY <1>0, <1>6
  <2>3. Climbs(S, Done, g, I, S, R, mu)
    BY <1>7, <2>1, <2>2 DEF Climbs
  <2> QED
    BY <1>3, <1>5, <2>3, LoopResult
<1>9. Net!widest_path(w, from) = V[Net!SearchFrom(w, from, MAX)]
  BY DEF Net!widest_path, Is
<1>10. Net!widest_path(w, from) \in P
  <2> HIDE DEF V, P
  <2> QED
    BY <1>8, <1>9, WideningStarts
<1> QED
  <2> HIDE DEF V
  <2> QED
    BY <1>10

-----------------------------------------------------------------------------
(***************************************************************************)
(* shortest_path.  The queue holds two successive numbers of hops at most,  *)
(* so that a vertex is never found again over fewer hops.                   *)
(***************************************************************************)
HopSearches(w) == Net!Searches(w, Nat \cup {-1})

Exact(s) == \A q \in s.to_visit : q.val \in Nat /\ q.val = s.val[q.node]
Level(w, s) == \A q \in s.to_visit, i \in Net!Indices(w) : s.val[i] <= q.val + 1
NextHops(w, s, i) ==
  \A j \in Net!neighbours(w, i) : s.val[j] \in Nat /\ s.val[j] <= s.val[i] + 1
HopsFollowed(w, s) ==
  \A i \in Net!Indices(w) : s.val[i] \in Nat =>
    [node |-> i, val |-> s.val[i]] \in s.to_visit \/ NextHops(w, s, i)
Layered(w, from, s) ==
  /\ s.val[from] = 0 /\ s.parents[from] = -1
  /\ \A i \in Net!Indices(w) \ {from} :
       IF s.val[i] = -1 THEN s.parents[i] = -1
       ELSE /\ s.parents[i] \in Net!Indices(w) /\ i \in Net!neighbours(w, s.parents[i])
            /\ s.val[s.parents[i]] \in Nat /\ s.val[i] = s.val[s.parents[i]] + 1

Spreading(w, from) ==
  {s \in HopSearches(w) :
     Exact(s) /\ Level(w, s) /\ HopsFollowed(w, s) /\ Layered(w, from, s)}

\* The parts of a search.
LEMMA HopsAre ==
  ASSUME NEW w, NEW s \in HopSearches(w)
  PROVE  /\ s.val \in [Net!Indices(w) -> Nat \cup {-1}]
         /\ s.parents \in [Net!Indices(w) -> Net!Indices(w) \cup {-1}]
         /\ s.to_visit \subseteq [node : Net!Indices(w), val : Nat \cup {-1}]
         /\ s = [val |-> s.val, parents |-> s.parents, to_visit |-> s.to_visit]
BY DEF HopSearches, Net!Searches, Net!None

\* The search starts well.
LEMMA SpreadingStarts ==
  ASSUME NEW w, NEW from \in Net!Indices(w)
  PROVE  Net!SearchFrom(w, from, 0) \in Spreading(w, from)
<1> DEFINE s == Net!SearchFrom(w, from, 0)
<1>1. s = [val |-> [i \in Net!Indices(w) |-> IF i = from THEN 0 ELSE -1],
           parents |-> [i \in Net!Indices(w) |-> -1],
           to_visit |-> {[node |-> from, val |-> 0]}]
  BY DEF Net!SearchFrom, Net!None
<1> HIDE DEF s
<1>2. s \in HopSearches(w)
  BY <1>1 DEF HopSearches, Net!Searches, Net!None
<1>3. \A i \in Net!Indices(w) : s.val[i] = (IF i = from THEN 0 ELSE -1) /\ s.parents[i] = -1
  BY <1>1
<1>4. Exact(s) /\ Level(w, s)
  BY <1>1, <1>3 DEF Exact, Level
<1>5. HopsFollowed(w, s)
  BY <1>1, <1>3 DEF HopsFollowed
<1>6. Layered(w, from, s)
  BY <1>3 DEF Layered
<1> QED
  BY <1>2, <1>4, <1>5, <1>6 DEF Spreading, s

\* One visit.
LEMMA HopVisitType ==
  ASSUME NEW w, NEW s \in HopSearches(w), s.to_visit # {}
  PROVE  /\ Net!VisitShortest(w, s) \in HopSearches(w)
         /\ Net!Pop(s) \in s.to_visit
         /\ \A q \in s.to_visit : Net!Pop(s).val <= q.val
<1> DEFINE p == Net!Pop(s)
           i == p.node
           alt(j) == s.val[i] + 1
           J == {j \in Net!neighbours(w, i) : s.val[j] = -1 \/ alt(j) < s.val[j]}
           val == [j \in DOMAIN s.val |-> IF j \in J THEN alt(j) ELSE s.val[j]]
           parents == [j \in DOMAIN s.val |-> IF j \in J THEN i ELSE s.parents[j]]
           queue == (s.to_visit \ {p}) \cup {[node |-> j, val |-> alt(j)] : j \in J}
           t == Net!VisitShortest(w, s)
<1>1. p \in s.to_visit /\ \A q \in s.to_visit : p.val <= q.val
  <2>1. \A q \in s.to_visit : q.node \in Nat /\ q.val \in Nat \cup {-1}
    BY HopsAre DEF Net!Indices
  <2> QED
    BY <2>1, PopIs
<1>2. i \in Net!Indices(w) /\ J \subseteq Net!Indices(w) /\ \A j \in Net!Indices(w) : alt(j) \in Nat
  <2>1. i \in Net!Indices(w)
    BY <1>1, HopsAre
  <2>2. s.val[i] + 1 \in Nat
    BY <2>1, HopsAre
  <2> QED
    BY <2>1, <2>2 DEF Net!neighbours
<1>4. CASE p.val > s.val[i]
  <2>1. t = [val |-> s.val, parents |-> s.parents, to_visit |-> s.to_visit \ {p}]
    <3>1. s = [val |-> s.val, parents |-> s.parents, to_visit |-> s.to_visit]
      BY HopsAre
    <3>2. t = [s EXCEPT !.to_visit = @ \ {p}]
      BY <1>4 DEF Net!VisitShortest
    <3> HIDE DEF t, p
    <3> QED
      BY <3>1, <3>2
  <2>2. t \in HopSearches(w)
    BY <2>1, HopsAre DEF HopSearches, Net!Searches, Net!None
  <2> QED
    BY <1>1, <2>2
<1>5. CASE ~(p.val > s.val[i])
  <2>1. /\ val \in [Net!Indices(w) -> Nat \cup {-1}]
        /\ parents \in [Net!Indices(w) -> Net!Indices(w) \cup {-1}]
        /\ queue \subseteq [node : Net!Indices(w), val : Nat \cup {-1}]
    <3> HIDE DEF J, alt, i
    <3> QED
      BY <1>2, HopsAre
  <2>2. t = [val |-> val, parents |-> parents, to_visit |-> queue]
    BY <1>5 DEF Net!VisitShortest, Net!Relax, Net!None
  <2>3. t \in HopSearches(w)
    <3> HIDE DEF val, parents, queue, t
    <3> QED
      BY <2>1, <2>2 DEF HopSearches, Net!Searches, Net!None
  <2> QED
    BY <1>1, <2>3
<1> QED
  BY <1>4, <1>5

\* The vertices that the search finds next.
Unfound(w, s, i) == {j \in Net!neighbours(w, i) : s.val[j] = -1}

\* VisitShortest improves only vertices it finds for the first time, by one hop.
LEMMA HopVisitIs ==
  ASSUME NEW w, NEW from \in Net!Indices(w), NEW s \in Spreading(w, from), s.to_visit # {},
         NEW p, p = Net!Pop(s), NEW J, J = Unfound(w, s, p.node),
         NEW t, t = Net!VisitShortest(w, s)
  PROVE  /\ s \in HopSearches(w) /\ t \in HopSearches(w) /\ p \in s.to_visit
         /\ p.node \in Net!Indices(w) /\ p.val \in Nat /\ p.val = s.val[p.node]
         /\ \A q \in s.to_visit : p.val <= q.val
         /\ J \subseteq Net!Indices(w) /\ J \subseteq Net!neighbours(w, p.node)
         /\ \A j \in Net!Indices(w) :
              /\ t.val[j] = IF j \in J THEN p.val + 1 ELSE s.val[j]
              /\ t.parents[j] = IF j \in J THEN p.node ELSE s.parents[j]
         /\ t.to_visit = (s.to_visit \ {p}) \cup {[node |-> j, val |-> p.val + 1] : j \in J}
<1> DEFINE i == p.node
           K == {j \in Net!neighbours(w, i) : s.val[j] = -1 \/ s.val[i] + 1 < s.val[j]}
<1>1. s \in HopSearches(w) /\ Exact(s) /\ Level(w, s)
  BY DEF Spreading
<1>2. t \in HopSearches(w) /\ p \in s.to_visit /\ \A q \in s.to_visit : p.val <= q.val
  BY <1>1, HopVisitType
<1>3. i \in Net!Indices(w) /\ p.val \in Nat /\ p.val = s.val[i]
  BY <1>1, <1>2, HopsAre DEF Exact
<1>4. \A j \in Net!neighbours(w, i) : j \in Net!Indices(w) /\ s.val[j] \in Nat \cup {-1}
  BY <1>1, HopsAre DEF Net!neighbours
<1>5. K = J
  <2>1. \A j \in Net!neighbours(w, i) : ~(s.val[i] + 1 < s.val[j])
    <3> TAKE j \in Net!neighbours(w, i)
    <3>1. s.val[j] <= s.val[i] + 1
      BY <1>1, <1>2, <1>3, <1>4 DEF Level
    <3> QED
      BY <1>3, <1>4, <3>1
  <2> QED
    BY <2>1 DEF Unfound
<1>6. t = [val      |-> [j \in DOMAIN s.val |-> IF j \in K THEN s.val[i] + 1 ELSE s.val[j]],
           parents  |-> [j \in DOMAIN s.val |-> IF j \in K THEN i ELSE s.parents[j]],
           to_visit |-> (s.to_visit \ {p}) \cup {[node |-> j, val |-> s.val[i] + 1] : j \in K}]
  <2>1. ~(p.val > s.val[i])
    BY <1>3
  <2> QED
    BY <2>1 DEF Net!VisitShortest, Net!Relax, Net!None
<1>7. DOMAIN s.val = Net!Indices(w)
  BY <1>1, HopsAre
<1>8. J \subseteq Net!Indices(w) /\ J \subseteq Net!neighbours(w, i)
  BY <1>4 DEF Unfound
<1> HIDE DEF K, i
<1>9. \A j \in Net!Indices(w) :
        /\ t.val[j] = IF j \in J THEN p.val + 1 ELSE s.val[j]
        /\ t.parents[j] = IF j \in J THEN i ELSE s.parents[j]
  BY <1>3, <1>5, <1>6, <1>7
<1>10. t.to_visit = (s.to_visit \ {p}) \cup {[node |-> j, val |-> p.val + 1] : j \in J}
  BY <1>3, <1>5, <1>6
<1> QED
  BY <1>1, <1>2, <1>3, <1>8, <1>9, <1>10 DEF i

\* Every visit keeps it so.
LEMMA SpreadingStep ==
  ASSUME NEW w, NEW from \in Net!Indices(w), NEW s \in Spreading(w, from), s.to_visit # {}
  PROVE  Net!VisitShortest(w, s) \in Spreading(w, from)
<1> DEFINE V == Net!Indices(w)
<1> PICK p : p = Net!Pop(s)
  OBVIOUS
<1> PICK i : i = p.node
  OBVIOUS
<1> PICK J : J = Unfound(w, s, i)
  OBVIOUS
<1> PICK t : t = Net!VisitShortest(w, s)
  OBVIOUS
<1>0. Exact(s) /\ Level(w, s) /\ HopsFollowed(w, s) /\ Layered(w, from, s)
  BY DEF Spreading
<1>1. /\ s \in HopSearches(w) /\ t \in HopSearches(w) /\ p \in s.to_visit
      /\ i \in V /\ p.val \in Nat /\ p.val = s.val[i]
      /\ \A q \in s.to_visit : p.val <= q.val
      /\ J \subseteq V /\ J \subseteq Net!neighbours(w, i)
      /\ \A j \in V : /\ t.val[j] = IF j \in J THEN p.val + 1 ELSE s.val[j]
                      /\ t.parents[j] = IF j \in J THEN i ELSE s.parents[j]
      /\ t.to_visit = (s.to_visit \ {p}) \cup {[node |-> j, val |-> p.val + 1] : j \in J}
  BY HopVisitIs
<1>2. /\ \A j \in V : s.val[j] \in Nat \cup {-1} /\ s.parents[j] \in V \cup {-1}
      /\ \A q \in s.to_visit : /\ q \in [node : V, val : Nat \cup {-1}]
                               /\ q.node \in V /\ q.val \in Nat /\ q.val = s.val[q.node]
                               /\ q.val >= p.val
  BY <1>0, <1>1, HopsAre DEF Exact
<1>3. /\ \A j \in J : s.val[j] = -1
      /\ \A j \in Net!neighbours(w, i) \ J : j \in V /\ s.val[j] \in Nat /\ s.val[j] <= p.val + 1
  <2>1. \A j \in Net!neighbours(w, i) : j \in V
    BY DEF Net!neighbours
  <2> QED
    BY <1>0, <1>1, <1>2, <2>1 DEF Unfound, Level
<1>4. Exact(t)
  <2> SUFFICES ASSUME NEW q \in t.to_visit PROVE q.val \in Nat /\ q.val = t.val[q.node]
    BY DEF Exact
  <2>1. CASE q \in s.to_visit
    <3>1. q.node \in V /\ q.val \in Nat /\ q.val = s.val[q.node]
      BY <1>2, <2>1
    <3>2. q.node \notin J
      BY <1>3, <3>1
    <3> QED
      BY <1>1, <3>1, <3>2
  <2>2. CASE q \notin s.to_visit
    <3>1. PICK j \in J : q = [node |-> j, val |-> p.val + 1]
      BY <1>1, <2>2
    <3> QED
      BY <1>1, <3>1
  <2> QED
    BY <2>1, <2>2
<1>5. Level(w, t)
  <2> SUFFICES ASSUME NEW q \in t.to_visit, NEW j \in V PROVE t.val[j] <= q.val + 1
    BY DEF Level
  <2>1. q.val \in Nat /\ q.val >= p.val
    <3>1. CASE q \in s.to_visit
      BY <1>2, <3>1
    <3>2. CASE q \notin s.to_visit
      <4>1. PICK k \in J : q = [node |-> k, val |-> p.val + 1]
        BY <1>1, <3>2
      <4> QED
        BY <1>1, <4>1
    <3> QED
      BY <3>1, <3>2
  <2>2. s.val[j] <= p.val + 1
    BY <1>0, <1>1 DEF Level
  <2>3. t.val[j] <= p.val + 1
    BY <1>1, <2>2
  <2>4. t.val[j] \in Int
    BY <1>1, <1>2
  <2> QED
    BY <1>1, <2>1, <2>3, <2>4
<1>6. HopsFollowed(w, t)
  <2> SUFFICES ASSUME NEW k \in V, t.val[k] \in Nat,
                      [node |-> k, val |-> t.val[k]] \notin t.to_visit,
                      NEW j \in Net!neighbours(w, k)
               PROVE  t.val[j] \in Nat /\ t.val[j] <= t.val[k] + 1
    BY DEF HopsFollowed, NextHops
  <2>1. j \in V /\ k \notin J
    BY <1>1 DEF Net!neighbours
  <2>2. t.val[k] = s.val[k]
    BY <1>1, <2>1
  <2>3. CASE k = i
    <3>1. CASE j \in J
      BY <1>1, <2>1, <2>2, <2>3, <3>1
    <3>2. CASE j \notin J
      BY <1>1, <1>3, <2>1, <2>2, <2>3, <3>2
    <3> QED
      BY <3>1, <3>2
  <2>4. CASE k # i
    <3>1. [node |-> k, val |-> s.val[k]] # p
      BY <2>4
    <3>2. [node |-> k, val |-> s.val[k]] \notin s.to_visit
      BY <1>1, <2>2, <3>1
    <3>3. s.val[j] \in Nat /\ s.val[j] <= s.val[k] + 1
      BY <1>0, <2>2, <3>2 DEF HopsFollowed, NextHops
    <3>4. j \notin J
      BY <1>3, <3>3
    <3> QED
      BY <1>1, <2>1, <2>2, <3>3, <3>4
  <2> QED
    BY <2>3, <2>4
<1>7. Layered(w, from, t)
  <2>1. from \notin J /\ t.val[from] = 0 /\ t.parents[from] = -1
    <3>1. from \notin J
      BY <1>0, <1>3 DEF Layered
    <3> QED
      BY <1>0, <1>1, <3>1 DEF Layered
  <2>2. ASSUME NEW j \in V \ {from}
        PROVE  IF t.val[j] = -1 THEN t.parents[j] = -1
               ELSE /\ t.parents[j] \in V /\ j \in Net!neighbours(w, t.parents[j])
                    /\ t.val[t.parents[j]] \in Nat /\ t.val[j] = t.val[t.parents[j]] + 1
    <3>1. CASE j \in J
      <4>1. t.parents[j] = i /\ t.val[j] = p.val + 1 /\ j \in Net!neighbours(w, i)
        BY <1>1, <3>1
      <4>2. t.val[i] = p.val
        BY <1>1, <1>3
      <4> QED
        BY <1>1, <4>1, <4>2
    <3>2. CASE j \notin J
      <4>1. t.val[j] = s.val[j] /\ t.parents[j] = s.parents[j]
        BY <1>1, <3>2
      <4>2. CASE s.val[j] = -1
        BY <1>0, <4>1, <4>2 DEF Layered
      <4>3. CASE s.val[j] # -1
        <5>1. /\ s.parents[j] \in V /\ j \in Net!neighbours(w, s.parents[j])
              /\ s.val[s.parents[j]] \in Nat /\ s.val[j] = s.val[s.parents[j]] + 1
          BY <1>0, <4>3 DEF Layered
        <5>2. s.parents[j] \notin J
          BY <1>3, <5>1
        <5>3. t.val[s.parents[j]] = s.val[s.parents[j]]
          BY <1>1, <5>1, <5>2
        <5> QED
          BY <4>1, <4>3, <5>1, <5>3
      <4> QED
        BY <4>2, <4>3
    <3> QED
      BY <3>1, <3>2
  <2> QED
    BY <2>1, <2>2 DEF Layered
<1> QED
  BY <1>1, <1>4, <1>5, <1>6, <1>7 DEF Spreading

\* Every visit finds a vertex, or takes one off the queue.
Reached(w, s) == <<{i \in Net!Indices(w) : s.val[i] \in Nat}, {q.node : q \in s.to_visit}>>
Further(a, b) ==
  \/ a[1] \subseteq b[1] /\ a[1] # b[1]
  \/ a[1] = b[1] /\ b[2] \subseteq a[2] /\ b[2] # a[2]

\* That is what VisitShortest does.
LEMMA HopVisitFurther ==
  ASSUME NEW w, NEW from \in Net!Indices(w), NEW s \in Spreading(w, from), s.to_visit # {}
  PROVE  Further(Reached(w, s), Reached(w, Net!VisitShortest(w, s)))
<1> DEFINE V == Net!Indices(w)
<1> PICK p : p = Net!Pop(s)
  OBVIOUS
<1> PICK J : J = Unfound(w, s, p.node)
  OBVIOUS
<1> PICK t : t = Net!VisitShortest(w, s)
  OBVIOUS
<1> DEFINE a == {i \in V : s.val[i] \in Nat}
           b == {i \in V : t.val[i] \in Nat}
           c == {q.node : q \in s.to_visit}
           d == {q.node : q \in t.to_visit}
<1>0. Exact(s)
  BY DEF Spreading
<1>1. /\ s \in HopSearches(w) /\ p \in s.to_visit
      /\ p.node \in V /\ p.val \in Nat /\ p.val = s.val[p.node]
      /\ J \subseteq V
      /\ \A j \in V : t.val[j] = IF j \in J THEN p.val + 1 ELSE s.val[j]
      /\ t.to_visit = (s.to_visit \ {p}) \cup {[node |-> j, val |-> p.val + 1] : j \in J}
  BY HopVisitIs
<1>2. \A j \in J : s.val[j] \notin Nat
  BY DEF Unfound
<1>3. CASE J = {}
  <2>1. a = b
    BY <1>1, <1>3
  <2>2. t.to_visit = s.to_visit \ {p}
    BY <1>1, <1>3
  <2>3. \A q \in t.to_visit : q.node # p.node
    <3> SUFFICES ASSUME NEW q \in t.to_visit, q.node = p.node PROVE FALSE
      OBVIOUS
    <3>1. q.val = p.val /\ q \in s.to_visit /\ q # p
      BY <1>0, <1>1, <2>2 DEF Exact
    <3>2. q = [node |-> q.node, val |-> q.val] /\ p = [node |-> p.node, val |-> p.val]
      <4>1. q \in [node : V, val : Nat \cup {-1}] /\ p \in [node : V, val : Nat \cup {-1}]
        BY <1>1, <3>1, HopsAre
      <4> QED
        BY <4>1
    <3> QED
      BY <3>1, <3>2
  <2>4. d \subseteq c /\ p.node \in c /\ p.node \notin d
    BY <1>1, <2>2, <2>3
  <2> HIDE DEF a, b, c, d
  <2>5. d # c
    BY <2>4
  <2> QED
    BY <2>1, <2>4, <2>5 DEF Further, Reached, a, b, c, d
<1>4. CASE J # {}
  <2>1. a \subseteq b
    BY <1>1, <1>2
  <2>2. PICK j \in J : TRUE
    BY <1>4
  <2>3. j \in b /\ j \notin a
    BY <1>1, <1>2, <2>2
  <2> HIDE DEF a, b
  <2>4. a # b
    BY <2>3
  <2> QED
    BY <2>1, <2>4 DEF Further, Reached, a, b
<1> QED
  BY <1>3, <1>4

\* shortest_path comes to an end; what it yields is layered by the hops.
THEOREM ShortestIsShortest ==
  ASSUME NEW w, IsNetwork(w), NEW from \in Net!Indices(w)
  PROVE  /\ Net!shortest_path(w, from) \in HopSearches(w)
         /\ Layered(w, from, Net!shortest_path(w, from))
         /\ \A i \in Net!Indices(w) : Net!shortest_path(w, from).val[i] \in Nat =>
              NextHops(w, Net!shortest_path(w, from), i)
<1> DEFINE S == HopSearches(w)
           V == Net!Indices(w)
           Done == {s \in S : s.to_visit = {}}
           g == [s \in S |-> IF s \in Done THEN s ELSE Net!VisitShortest(w, s)]
           out == [s \in S |-> s]
           I == Spreading(w, from)
           D == (SUBSET V) \X (SUBSET V)
           R == {ab \in D \X D : Further(ab[1], ab[2])}
           mu == [s \in I |-> Reached(w, s)]
           P == {t \in S : /\ Layered(w, from, t)
                           /\ \A i \in V : t.val[i] \in Nat => NextHops(w, t, i)}
           Is(f) == f = [s \in Net!Searches(w, Nat \cup {Net!None}) |->
                           IF s.to_visit = {} THEN s ELSE f[Net!VisitShortest(w, s)]]
           L == CHOOSE f : Is(f)
<1>0. I \in SUBSET S /\ S = Net!Searches(w, Nat \cup {Net!None})
  BY DEF Spreading, HopSearches, Net!None
<1>1. g \in [S -> S]
  BY HopVisitType
<1>2. \A f : Is(f) <=> IsLoop(f, S, Done, g, out)
  <2> TAKE f
  <2>1. [s \in S |-> IF s.to_visit = {} THEN s ELSE f[Net!VisitShortest(w, s)]]
          = [s \in S |-> IF s \in Done THEN out[s] ELSE f[g[s]]]
    OBVIOUS
  <2> HIDE DEF g, Done, out, S
  <2> QED
    BY <1>0, <2>1 DEF IsLoop
<1> HIDE DEF Is
<1>3. IsLoop(L, S, Done, g, out)
  <2>1. \E f : IsLoop(f, S, Done, g, out)
    <3> HIDE DEF S, Done, g, out
    <3> QED
      BY <1>1, LoopExists
  <2>2. \E f : Is(f)
    BY <1>2, <2>1
  <2> QED
    BY <1>2, <2>2
<1>4. \A s \in I : Reached(w, s) \in D
  <2> TAKE s \in I
  <2>1. \A q \in s.to_visit : q.node \in V
    BY <1>0, HopsAre
  <2>2. /\ {i \in V : s.val[i] \in Nat} \in SUBSET V
        /\ {q.node : q \in s.to_visit} \in SUBSET V
    <3> HIDE DEF V
    <3> QED
      BY <2>1
  <2> HIDE DEF I
  <2> QED
    BY <2>2 DEF Reached
<1>5. \A s \in I \ Done : g[s] \in I /\ <<mu[s], mu[g[s]]>> \in R
  <2> TAKE s \in I \ Done
  <2>1. s \in S /\ s.to_visit # {} /\ g[s] = Net!VisitShortest(w, s)
    BY <1>0
  <2>2. g[s] \in I /\ Further(Reached(w, s), Reached(w, g[s]))
    <3> HIDE DEF I, g, S
    <3> QED
      BY <2>1, HopVisitFurther, SpreadingStep DEF I
  <2> HIDE DEF g, I, S, D
  <2> QED
    BY <1>4, <2>1, <2>2
<1>6. \A s \in I \cap Done : out[s] \in P
  <2> SUFFICES ASSUME NEW s \in I, s.to_visit = {}
               PROVE  /\ Layered(w, from, s)
                      /\ \A i \in V : s.val[i] \in Nat => NextHops(w, s, i)
    BY <1>0
  <2> QED
    BY DEF Spreading, HopsFollowed
<1>7. IsFiniteSet(D) /\ StrictOrder(R, D)
  <2>1. IsFiniteSet(V)
    <3>1. w.links.n - 1 \in Int /\ 0 \in Int
      BY DEF IsNetwork
    <3> QED
      BY <3>1, FS_Interval DEF Net!Indices
  <2>2. IsFiniteSet(D)
    <3> HIDE DEF V
    <3> DEFINE W == SUBSET V
    <3>1. IsFiniteSet(W)
      BY <2>1, FS_SUBSET
    <3>2. D = W \X W
      OBVIOUS
    <3> HIDE DEF W, D
    <3> QED
      BY <3>1, <3>2, FS_Product
  <2>3. \A a \in D : ~Further(a, a)
    BY DEF Further
  <2>4. ASSUME NEW a \in D, NEW b \in D, NEW c \in D, Further(a, b), Further(b, c)
        PROVE  Further(a, c)
    BY <2>4 DEF Further
  <2>5. \A a, b \in D : <<a, b>> \in R <=> Further(a, b)
    OBVIOUS
  <2> HIDE DEF R, D
  <2> QED
    BY <2>2, <2>3, <2>4, <2>5 DEF StrictOrder
<1>8. mu \in [I -> D]
  BY <1>4
<1>9. \A s \in I : L[s] \in P
  <2> HIDE DEF I, S, Done, g, out, R, mu, P, L, D
  <2>1. (\A s \in I \ Done : g[s] \in I) /\ (\A s \in I \ Done : <<mu[s], mu[g[s]]>> \in R)
    BY <1>5
  <2>2. Climbs(S, Done, g, I, D, R, mu)
    BY <1>0, <1>7, <1>8, <2>1 DEF Climbs
  <2> QED
    BY <1>3, <1>6, <2>2, LoopResult
<1>10. Net!shortest_path(w, from) = L[Net!SearchFrom(w, from, 0)]
  BY DEF Net!shortest_path, Is
<1>11. Net!shortest_path(w, from) \in P
  <2> HIDE DEF L, P
  <2> QED
    BY <1>9, <1>10, SpreadingStarts
<1> QED
  <2> HIDE DEF L
  <2> QED
    BY <1>11

-----------------------------------------------------------------------------
(***************************************************************************)
(* Simple paths: how many links they have, and how narrow they are.         *)
(***************************************************************************)
\* A link is found by its two ends, in any order.
LEMMA LinkOfIs ==
  ASSUME NEW w, IsNetwork(w), NEW i \in Net!Indices(w), NEW j \in Net!Indices(w)
  PROVE  Net!LinkOf(w, {i, j}) = Net!link(w, i, j)
<1> DEFINE T == {i, j}
           a == Min(T)
           b == Max(T)
<1>1. i \in Nat /\ j \in Nat
  BY DEF Net!Indices
<1>2. a \in T /\ \A y \in T : a <= y
  <2>1. T \subseteq Nat /\ T # {}
    BY <1>1
  <2> HIDE DEF T
  <2> QED
    BY <2>1, MinIs
<1>3. b \in T /\ \A y \in T : b >= y
  <2>1. PICK n \in Nat : i <= n /\ j <= n
    BY <1>1
  <2>2. T \in SUBSET (0..n) /\ T # {}
    BY <1>1, <2>1
  <2> HIDE DEF T
  <2> QED
    BY <2>1, <2>2, MaxOfNumbers
<1>4. Net!LinkOf(w, {i, j}) = Net!link(w, a, b)
  BY DEF Net!LinkOf, Net!Min, Net!Max, Min, Max
<1> HIDE DEF a, b
<1>5. (a = i /\ b = j) \/ (a = j /\ b = i)
  BY <1>1, <1>2, <1>3
<1> QED
  BY <1>4, <1>5, LinkIs

\* A path of different vertices has a link less than it has vertices.
LEMMA LinksCounted ==
  ASSUME NEW V, NEW p \in Seq(V), Len(p) >= 1, \A k, l \in DOMAIN p : p[k] = p[l] => k = l
  PROVE  Cardinality(LinksOf(p)) = Len(p) - 1
<1> DEFINE n == Len(p)
           D == 1..(n - 1)
           f == [k \in D |-> {p[k], p[k + 1]}]
<1>0. n \in Nat /\ n >= 1 /\ DOMAIN p = 1..n
  OBVIOUS
<1>1. LinksOf(p) = {{p[k], p[k + 1]} : k \in D}
  BY DEF LinksOf
<1>2. f \in [D -> LinksOf(p)]
  BY <1>1
<1>3. \A k, l \in D : f[k] = f[l] => k = l
  <2> SUFFICES ASSUME NEW k \in D, NEW l \in D, {p[k], p[k + 1]} = {p[l], p[l + 1]}
               PROVE  k = l
    OBVIOUS
  <2>1. k \in 1..n /\ k + 1 \in 1..n /\ l \in 1..n /\ l + 1 \in 1..n /\ k \in Int /\ l \in Int
    BY <1>0
  <2>2. k = l \/ k = l + 1
    BY <1>0, <2>1
  <2>3. k + 1 = l \/ k + 1 = l + 1
    BY <1>0, <2>1
  <2> QED
    BY <2>1, <2>2, <2>3
<1>4. \A e \in LinksOf(p) : \E k \in D : f[k] = e
  BY <1>1
<1>5. f \in Bijection(D, LinksOf(p))
  <2> HIDE DEF f, D
  <2> QED
    BY <1>2, <1>3, <1>4 DEF Bijection, Injection, Surjection, IsInjective
<1>6. IsFiniteSet(D) /\ Cardinality(D) = n - 1
  <2>1. 1 \in Int /\ n - 1 \in Int
    BY <1>0
  <2>2. IsFiniteSet(D) /\ Cardinality(D) = IF 1 > n - 1 THEN 0 ELSE (n - 1) - 1 + 1
    BY <2>1, FS_Interval
  <2> QED
    BY <1>0, <2>2
<1> QED
  <2> HIDE DEF f, D
  <2>1. ExistsBijection(D, LinksOf(p))
    BY <1>5 DEF ExistsBijection
  <2> QED
    BY <1>6, <2>1, FS_Bijection

\* No path of different vertices has more vertices than there are.
LEMMA SimpleIsShort ==
  ASSUME NEW m \in Nat, NEW p \in Seq(0..(m - 1)), \A k, l \in DOMAIN p : p[k] = p[l] => k = l
  PROVE  Len(p) <= m
<1>0. Len(p) \in Nat /\ DOMAIN p = 1..Len(p)
  OBVIOUS
<1>1. p \in Injection(1..Len(p), 0..(m - 1))
  <2>1. p \in [1..Len(p) -> 0..(m - 1)]
    OBVIOUS
  <2> QED
    BY <1>0, <2>1 DEF Injection, IsInjective
<1>2. /\ IsFiniteSet(0..(m - 1)) /\ Cardinality(0..(m - 1)) = m
      /\ Cardinality(1..Len(p)) = Len(p)
  <2>1. 0 \in Int /\ 1 \in Int /\ m - 1 \in Int /\ Len(p) \in Int
    OBVIOUS
  <2>2. /\ IsFiniteSet(0..(m - 1))
        /\ Cardinality(0..(m - 1)) = IF 0 > m - 1 THEN 0 ELSE (m - 1) - 0 + 1
        /\ Cardinality(1..Len(p)) = IF 1 > Len(p) THEN 0 ELSE Len(p) - 1 + 1
    BY <2>1, FS_Interval
  <2> QED
    BY <1>0, <2>2
<1>3. Cardinality(1..Len(p)) <= Cardinality(0..(m - 1))
  BY <1>1, <1>2, FS_Injection
<1> QED
  BY <1>2, <1>3

\* SimplePaths, told by sequences.
Simple(from, to, p) ==
  /\ p \in Seq(Net!Indices(net)) /\ Len(p) >= 2 /\ p[1] = from /\ p[Len(p)] = to
  /\ \A k, l \in DOMAIN p : p[k] = p[l] => k = l
  /\ \A k \in 1..(Len(p) - 1) : Net!link(net, p[k], p[k + 1]) # -1

\* Both say the same: a path of different vertices is not longer than there are vertices.
LEMMA SimplePathsAre ==
  ASSUME IsNetwork(net), NEW from, NEW to, NEW p
  PROVE  p \in SimplePaths(from, to) <=> Simple(from, to, p)
<1> DEFINE N == net.links.n
           V == Net!Indices(net)
<1>0. N \in Nat /\ V = 0..(N - 1)
  BY DEF IsNetwork, Net!Indices
<1>1. ASSUME p \in SimplePaths(from, to) PROVE Simple(from, to, p)
  <2>1. PICK k \in 2..N : p \in [1..k -> V]
    BY <1>1 DEF SimplePaths
  <2>2. p \in Seq(V) /\ Len(p) = k /\ Len(p) >= 2
    BY <1>0, <2>1
  <2>3. /\ p[1] = from /\ p[Len(p)] = to
        /\ \A i, j \in DOMAIN p : p[i] = p[j] => i = j
        /\ \A i \in 1..(Len(p) - 1) : Net!link(net, p[i], p[i + 1]) # Net!NoLink
    BY <1>1 DEF SimplePaths
  <2> QED
    BY <2>2, <2>3 DEF Simple, Net!NoLink, Net!None
<1>2. ASSUME Simple(from, to, p) PROVE p \in SimplePaths(from, to)
  <2>1. /\ p \in Seq(V) /\ Len(p) >= 2 /\ p[1] = from /\ p[Len(p)] = to
        /\ \A k, l \in DOMAIN p : p[k] = p[l] => k = l
        /\ \A k \in 1..(Len(p) - 1) : Net!link(net, p[k], p[k + 1]) # Net!NoLink
    BY <1>2 DEF Simple, Net!NoLink, Net!None
  <2>2. Len(p) <= N
    BY <1>0, <2>1, SimpleIsShort
  <2>3. p \in [1..Len(p) -> V] /\ Len(p) \in 2..N
    BY <1>0, <2>1, <2>2
  <2>4. p \in UNION {[1..k -> V] : k \in 2..N}
    BY <2>3
  <2> QED
    BY <2>1, <2>4 DEF SimplePaths
<1> QED
  BY <1>1, <1>2

\* The links of a simple path and its narrowest.
LEMMA WidthIs ==
  ASSUME IsNetwork(net), NEW from, NEW to, NEW p, Simple(from, to, p)
  PROVE  /\ {Net!LinkOf(net, e) : e \in LinksOf(p)}
              = {Net!link(net, p[k], p[k + 1]) : k \in 1..(Len(p) - 1)}
         /\ Width(LinksOf(p)) \in 0..MAX
         /\ \E k \in 1..(Len(p) - 1) : Width(LinksOf(p)) = Net!link(net, p[k], p[k + 1])
         /\ \A k \in 1..(Len(p) - 1) :
              /\ Width(LinksOf(p)) <= Net!link(net, p[k], p[k + 1])
              /\ Carries(net, Width(LinksOf(p)), p[k], p[k + 1])
              /\ p[k] \in Net!Indices(net) /\ p[k + 1] \in Net!neighbours(net, p[k])
<1> DEFINE n == Len(p)
           D == 1..(n - 1)
           L(k) == Net!link(net, p[k], p[k + 1])
           T == {L(k) : k \in D}
<1>0. /\ p \in Seq(Net!Indices(net)) /\ n \in Nat /\ n >= 2 /\ DOMAIN p = 1..n
      /\ \A k, l \in 1..n : p[k] = p[l] => k = l
      /\ \A k \in D : L(k) # -1
  BY DEF Simple
<1>1. \A k \in D : /\ p[k] \in Net!Indices(net) /\ p[k + 1] \in Net!Indices(net)
                   /\ p[k + 1] # p[k]
  <2> TAKE k \in D
  <2>1. k \in 1..n /\ k + 1 \in 1..n /\ k + 1 # k
    BY <1>0
  <2> QED
    BY <1>0, <2>1
<1>2. \A k \in D : L(k) \in 0..MAX /\ Net!LinkOf(net, {p[k], p[k + 1]}) = L(k)
  <2> TAKE k \in D
  <2>1. L(k) \in -1..MAX /\ Net!LinkOf(net, {p[k], p[k + 1]}) = L(k)
    BY <1>1, LinkIs, LinkOfIs
  <2> QED
    BY <1>0, <2>1, Setup
<1> HIDE DEF L
<1>3. {Net!LinkOf(net, e) : e \in LinksOf(p)} = T
  BY <1>2 DEF LinksOf
<1>4. T \subseteq Nat /\ T # {}
  <2>1. 1 \in D /\ MAX \in Nat
    BY <1>0, Setup
  <2>2. ASSUME NEW k \in D PROVE L(k) \in Nat
    <3>1. L(k) \in 0..MAX
      BY <1>2
    <3> QED
      BY <2>1, <3>1
  <2> HIDE DEF D
  <2> QED
    BY <2>1, <2>2
<1>5. Min(T) \in T /\ \A y \in T : Min(T) <= y
  <2> HIDE DEF T
  <2> QED
    BY <1>4, MinIs
<1>6. Width(LinksOf(p)) = Min(T)
  BY <1>3 DEF Width
<1>7. \A k \in D : Width(LinksOf(p)) <= L(k)
  BY <1>5, <1>6
<1>8. PICK k \in D : Width(LinksOf(p)) = L(k)
  BY <1>5, <1>6
<1>9. \A l \in D : /\ Carries(net, Width(LinksOf(p)), p[l], p[l + 1])
                   /\ p[l + 1] \in Net!neighbours(net, p[l])
  <2> TAKE l \in D
  <2>1. L(l) >= Width(LinksOf(p))
    BY <1>2, <1>7, <1>8, Setup
  <2>2. L(l) # -1
    BY <1>0
  <2> QED
    BY <1>1, <2>1, <2>2 DEF Carries, Net!neighbours, Net!NoLink, Net!None, L
<1> QED
  BY <1>1, <1>2, <1>3, <1>7, <1>8, <1>9 DEF L


-----------------------------------------------------------------------------
(***************************************************************************)
(* Both searches against all simple paths.  The network that is searched    *)
(* has the links of net, and any path_strategy.                             *)
(***************************************************************************)
\* What holds of the first place of a path and of the next holds of all.
LEMMA AlongPath ==
  ASSUME NEW n \in Nat, n >= 1, NEW T, 1 \in T, \A k \in 1..(n - 1) : k \in T => k + 1 \in T
  PROVE  1..n \subseteq T
<1> DEFINE Bad == (1..n) \ T
<1> SUFFICES ASSUME Bad # {} PROVE FALSE
  OBVIOUS
<1>1. PICK k \in Bad : \A l \in Bad : k <= l
  <2>1. Bad \subseteq Nat
    OBVIOUS
  <2> HIDE DEF Bad
  <2> QED
    BY <2>1, NatMin
<1>2. k \in 2..n /\ k - 1 \in 1..(n - 1) /\ (k - 1) + 1 = k
  OBVIOUS
<1>3. k - 1 \in T
  BY <1>1, <1>2
<1> QED
  BY <1>2, <1>3

\* What is asked of a network depends on its links only.
LEMMA SameLinksSame ==
  ASSUME IsNetwork(net), NEW w, w.links = net.links
  PROVE  /\ IsNetwork(w) /\ Net!Indices(w) = Net!Indices(net)
         /\ \A i, j : Net!link(w, i, j) = Net!link(net, i, j)
         /\ \A i : Net!neighbours(w, i) = Net!neighbours(net, i)
         /\ \A e : Net!LinkOf(w, e) = Net!LinkOf(net, e)
BY DEF IsNetwork, Net!Indices, Net!link, Net!neighbours, Net!LinkOf

\* The way down a tree is a simple path.
LEMMA TreePath ==
  ASSUME IsNetwork(net), NEW from, NEW parents, NEW found,
         Rooted(Net!Indices(net), from, parents, found),
         \A i \in found \ {from} : i \in Net!neighbours(net, parents[i]),
         NEW to \in found, to # from
  PROVE  \E p \in Seq(found) : Simple(from, to, p) /\ WayDown(from, parents, to, p)
<1> DEFINE V == Net!Indices(net)
<1>0. /\ found \in SUBSET V /\ parents[from] = -1 /\ Acyclic(V, parents) /\ -1 \notin V
  BY DEF Rooted
<1>1. PICK p \in Seq(found) : WayDown(from, parents, to, p)
  BY WayExists
<1> DEFINE n == Len(p)
<1>2. n \in Nat /\ p \in Seq(V) /\ DOMAIN p = 1..n /\ \A k \in 1..n : p[k] \in found
  BY <1>0
<1>3. /\ n >= 1 /\ p[1] = from /\ p[n] = to
      /\ \A k \in 1..(n - 1) : parents[p[k + 1]] = p[k]
  BY <1>1 DEF WayDown
<1>4. \A k, l \in DOMAIN p : p[k] = p[l] => k = l
  BY <1>0, <1>1, <1>2, WayIsSimple
<1> HIDE DEF n
<1>5. n >= 2
  BY <1>2, <1>3
<1>6. \A k \in 1..(n - 1) : Net!link(net, p[k], p[k + 1]) # -1
  <2> TAKE k \in 1..(n - 1)
  <2>1. k + 1 \in 1..n /\ k \in 1..n
    BY <1>2
  <2>2. p[k + 1] \in found /\ p[k] # -1
    BY <1>0, <1>2, <2>1
  <2>3. p[k + 1] # from
    BY <1>0, <1>3, <2>2
  <2>4. p[k + 1] \in Net!neighbours(net, p[k])
    BY <1>3, <2>2, <2>3
  <2> QED
    BY <2>4 DEF Net!neighbours, Net!NoLink, Net!None
<1>7. Simple(from, to, p)
  BY <1>2, <1>3, <1>4, <1>5, <1>6 DEF Simple, n
<1> QED
  BY <1>1, <1>7

\* The bandwidth of the widest path, and the way that has it.
THEOREM WidestPathRight ==
  ASSUME IsNetwork(net), NEW w, w.links = net.links,
         NEW from \in Net!Indices(net), NEW to \in Net!Indices(net), from # to,
         NEW s, s = Net!widest_path(w, from)
  PROVE  /\ s.val[to] \in -1..MAX
         /\ \A p : Simple(from, to, p) => Width(LinksOf(p)) <= s.val[to]
         /\ s.val[to] # -1 =>
              \E p : /\ Simple(from, to, p) /\ LinksOf(p) = Net!Chain(s.parents, to)
                     /\ Width(LinksOf(p)) = s.val[to]
<1> DEFINE V == Net!Indices(net)
<1>0. MAX \in Nat
  BY Setup
<1>1. /\ IsNetwork(w) /\ Net!Indices(w) = V
      /\ \A i, j : Net!link(w, i, j) = Net!link(net, i, j)
      /\ \A i : Net!neighbours(w, i) = Net!neighbours(net, i)
  BY SameLinksSame
<1>2. /\ s \in WideSearches(w) /\ Treed(w, from, s)
      /\ \A i \in V, b \in 0..MAX : s.val[i] >= b <=> i \in Within(w, b, from)
  BY <1>1, WidestIsWidest
<1>3. /\ \A i \in V : s.val[i] \in -1..MAX
      /\ s.parents \in [V -> V \cup {-1}] /\ -1 \notin V
  <2>1. s.val \in [V -> -1..MAX] /\ s.parents \in [V -> V \cup {-1}]
    <3> HIDE DEF V
    <3> QED
      BY <1>1, <1>2 DEF WideSearches, Net!Searches, Net!None
  <2>2. -1 \notin V
    BY DEF Net!Indices
  <2> QED
    BY <2>1, <2>2
<1>4. ASSUME NEW p, Simple(from, to, p) PROVE Width(LinksOf(p)) <= s.val[to]
  <2> DEFINE b == Width(LinksOf(p))
             n == Len(p)
             T == {k \in 1..n : p[k] \in Within(w, b, from)}
  <2>1. b \in 0..MAX /\ \A k \in 1..(n - 1) : Carries(net, b, p[k], p[k + 1]) /\ p[k + 1] \in V
    <3>1. /\ b \in 0..MAX
          /\ \A k \in 1..(n - 1) : Carries(net, b, p[k], p[k + 1]) /\ p[k + 1] \in Net!neighbours(net, p[k])
      BY <1>4, WidthIs
    <3> QED
      BY <3>1 DEF Net!neighbours
  <2>2. n \in Nat /\ n >= 2 /\ p[1] = from /\ p[n] = to
    BY <1>4 DEF Simple
  <2> HIDE DEF b, n
  <2>3. 1 \in T
    BY <1>1, <2>2, WithinIs
  <2>4. \A k \in 1..(n - 1) : k \in T => k + 1 \in T
    <3> SUFFICES ASSUME NEW k \in 1..(n - 1), k \in T PROVE k + 1 \in T
      OBVIOUS
    <3>1. Carries(w, b, p[k], p[k + 1])
      BY <1>1, <2>1 DEF Carries
    <3>2. p[k] \in Within(w, b, from) /\ p[k + 1] \in V
      BY <2>1
    <3>3. p[k + 1] \in Within(w, b, from)
      BY <1>1, <3>1, <3>2, WithinIs
    <3> QED
      BY <2>2, <3>3
  <2>5. 1..n \subseteq T
    <3> HIDE DEF T
    <3> QED
      BY <2>2, <2>3, <2>4, AlongPath
  <2>6. to \in Within(w, b, from)
    <3>1. n \in T
      BY <2>2, <2>5
    <3> QED
      BY <2>2, <3>1
  <2> QED
    BY <1>2, <2>1, <2>6 DEF b
<1>5. ASSUME s.val[to] # -1
      PROVE  \E p : /\ Simple(from, to, p) /\ LinksOf(p) = Net!Chain(s.parents, to)
                    /\ Width(LinksOf(p)) = s.val[to]
  <2> DEFINE found == {i \in V : s.val[i] # -1}
  <2>1. /\ s.parents[from] = -1 /\ Acyclic(V, s.parents)
        /\ \A i \in V \ {from} : s.val[i] # -1 =>
             /\ s.parents[i] \in V /\ i \in Net!neighbours(net, s.parents[i])
             /\ s.val[s.parents[i]] >= s.val[i] /\ Net!link(net, s.parents[i], i) >= s.val[i]
    BY <1>1, <1>2 DEF Treed
  <2>2. from \in found /\ to \in found
    <3>1. from \in Within(w, 0, from) /\ 0 \in 0..MAX
      BY <1>0, <1>1, WithinIs
    <3>2. s.val[from] >= 0
      BY <1>2, <3>1
    <3> QED
      BY <1>3, <1>5, <3>2
  <2>3. Rooted(V, from, s.parents, found)
    <3>1. \A i \in found \ {from} : s.parents[i] \in found
      <4> TAKE i \in found \ {from}
      <4>1. s.parents[i] \in V /\ s.val[s.parents[i]] >= s.val[i] /\ s.val[i] \in 0..MAX
        BY <1>3, <2>1
      <4>2. s.val[s.parents[i]] \in -1..MAX
        BY <1>3, <4>1
      <4> QED
        BY <1>0, <4>1, <4>2
    <3> HIDE DEF found
    <3>2. found \in SUBSET V
      BY DEF found
    <3> QED
      BY <1>3, <2>1, <2>2, <3>1, <3>2 DEF Rooted, Parents
  <2>4. \A i \in found \ {from} : i \in Net!neighbours(net, s.parents[i])
    BY <2>1
  <2>5. PICK p \in Seq(found) : Simple(from, to, p) /\ WayDown(from, s.parents, to, p)
    <3> HIDE DEF found
    <3> QED
      BY <2>2, <2>3, <2>4, TreePath
  <2> DEFINE n == Len(p)
  <2>6. /\ n \in Nat /\ n >= 2 /\ p[1] = from /\ p[n] = to
        /\ \A k \in 1..n : p[k] \in found
        /\ \A k, l \in 1..n : p[k] = p[l] => k = l
        /\ \A k \in 1..(n - 1) : s.parents[p[k + 1]] = p[k]
        /\ LinksOf(p) = Net!Chain(s.parents, to)
    BY <2>5 DEF Simple, WayDown
  <2> HIDE DEF n
  <2>7. \A k \in 1..(n - 1) : /\ s.val[p[k]] >= s.val[p[k + 1]]
                              /\ Net!link(net, p[k], p[k + 1]) >= s.val[p[k + 1]]
                              /\ s.val[p[k]] \in 0..MAX /\ s.val[p[k + 1]] \in 0..MAX
    <3> TAKE k \in 1..(n - 1)
    <3>1. k \in 1..n /\ k + 1 \in 1..n /\ 1 \in 1..n /\ k + 1 # 1
      BY <2>6
    <3>2. p[k + 1] # from /\ p[k + 1] \in found /\ p[k] \in found
      BY <2>6, <3>1
    <3> QED
      BY <1>3, <2>1, <2>6, <3>2
  <2> DEFINE T == {j \in 1..n : s.val[p[n + 1 - j]] >= s.val[to]}
  <2>8. 1..n \subseteq T
    <3>1. 1 \in T
      <4>1. n + 1 - 1 = n /\ s.val[to] \in Int /\ 1 \in 1..n
        BY <1>3, <2>6
      <4> QED
        BY <2>6, <4>1
    <3>2. ASSUME NEW j \in 1..(n - 1), j \in T PROVE j + 1 \in T
      <4> DEFINE k == n - j
      <4>1. k \in 1..(n - 1) /\ n + 1 - j = k + 1 /\ n + 1 - (j + 1) = k /\ j + 1 \in 1..n
        BY <2>6
      <4>2. s.val[p[k + 1]] >= s.val[to]
        BY <3>2, <4>1
      <4> HIDE DEF k, T
      <4>3. /\ s.val[p[k]] >= s.val[p[k + 1]] /\ s.val[to] \in -1..MAX
            /\ s.val[p[k]] \in 0..MAX /\ s.val[p[k + 1]] \in 0..MAX
        BY <1>3, <2>7, <4>1
      <4>4. s.val[p[k]] >= s.val[to]
        BY <1>0, <4>2, <4>3
      <4> QED
        BY <4>1, <4>4 DEF T
    <3> HIDE DEF T
    <3>3. n >= 1
      BY <2>6
    <3> QED
      BY <2>6, <3>1, <3>2, <3>3, AlongPath
  <2>9. \A k \in 1..(n - 1) : Net!link(net, p[k], p[k + 1]) >= s.val[to]
    <3> TAKE k \in 1..(n - 1)
    <3> DEFINE j == n - k
    <3>1. j \in 1..n /\ n + 1 - j = k + 1 /\ k \in 1..n /\ k + 1 \in 1..n
      BY <2>6
    <3>2. s.val[p[k + 1]] >= s.val[to]
      BY <2>8, <3>1
    <3>3. Net!link(net, p[k], p[k + 1]) \in -1..MAX
      BY <2>6, <3>1, LinkIs
    <3> QED
      BY <1>0, <1>3, <2>7, <3>2, <3>3
  <2>10. PICK k \in 1..(n - 1) : Width(LinksOf(p)) = Net!link(net, p[k], p[k + 1])
    BY <2>5, WidthIs DEF n
  <2>11. Width(LinksOf(p)) >= s.val[to] /\ Width(LinksOf(p)) <= s.val[to]
    BY <1>4, <2>5, <2>9, <2>10
  <2>12. Width(LinksOf(p)) \in 0..MAX
    BY <2>5, WidthIs
  <2>13. Width(LinksOf(p)) = s.val[to]
    BY <1>0, <1>3, <2>11, <2>12
  <2> QED
    BY <2>5, <2>6, <2>13
<1> QED
  BY <1>3, <1>4, <1>5


\* The hops of the shortest path, and the way that has as many links.
THEOREM ShortestPathRight ==
  ASSUME IsNetwork(net), NEW w, w.links = net.links,
         NEW from \in Net!Indices(net), NEW to \in Net!Indices(net), from # to,
         NEW s, s = Net!shortest_path(w, from)
  PROVE  /\ s.val[to] \in Nat \cup {-1} /\ (s.val[to] = -1 <=> s.parents[to] = -1)
         /\ \A p : Simple(from, to, p) =>
              s.val[to] \in Nat /\ s.val[to] <= Cardinality(LinksOf(p))
         /\ s.val[to] # -1 =>
              \E p : /\ Simple(from, to, p) /\ LinksOf(p) = Net!Chain(s.parents, to)
                     /\ Cardinality(LinksOf(p)) = s.val[to]
<1> DEFINE V == Net!Indices(net)
<1>1. /\ IsNetwork(w) /\ Net!Indices(w) = V
      /\ \A i : Net!neighbours(w, i) = Net!neighbours(net, i)
  BY SameLinksSame
<1>2. /\ s \in HopSearches(w) /\ Layered(w, from, s)
      /\ \A i \in V : s.val[i] \in Nat => NextHops(w, s, i)
  BY <1>1, ShortestIsShortest
<1>3. /\ \A i \in V : s.val[i] \in Nat \cup {-1}
      /\ s.parents \in [V -> V \cup {-1}] /\ -1 \notin V
  <2>1. s.val \in [V -> Nat \cup {-1}] /\ s.parents \in [V -> V \cup {-1}]
    <3> HIDE DEF V
    <3> QED
      BY <1>1, <1>2, HopsAre
  <2>2. -1 \notin V
    BY DEF Net!Indices
  <2> QED
    BY <2>1, <2>2
<1>4. /\ s.val[from] = 0 /\ s.parents[from] = -1
      /\ \A i \in V \ {from} :
           IF s.val[i] = -1 THEN s.parents[i] = -1
           ELSE /\ s.parents[i] \in V /\ i \in Net!neighbours(net, s.parents[i])
                /\ s.val[s.parents[i]] \in Nat /\ s.val[i] = s.val[s.parents[i]] + 1
  BY <1>1, <1>2 DEF Layered
<1>5. \A i \in V : s.val[i] \in Nat =>
        \A j \in Net!neighbours(net, i) : s.val[j] \in Nat /\ s.val[j] <= s.val[i] + 1
  BY <1>1, <1>2 DEF NextHops
<1>6. s.val[to] = -1 <=> s.parents[to] = -1
  BY <1>3, <1>4
<1>7. ASSUME NEW p, Simple(from, to, p)
      PROVE  s.val[to] \in Nat /\ s.val[to] <= Cardinality(LinksOf(p))
  <2> DEFINE n == Len(p)
             T == {k \in 1..n : s.val[p[k]] \in Nat /\ s.val[p[k]] <= k - 1}
  <2>1. /\ n \in Nat /\ n >= 2 /\ p[1] = from /\ p[n] = to /\ p \in Seq(V)
        /\ \A k, l \in DOMAIN p : p[k] = p[l] => k = l
    BY <1>7 DEF Simple
  <2>2. \A k \in 1..(n - 1) : p[k] \in V /\ p[k + 1] \in Net!neighbours(net, p[k])
    BY <1>7, WidthIs
  <2>3. Cardinality(LinksOf(p)) = n - 1
    <3>1. Len(p) >= 1
      BY <2>1
    <3> QED
      BY <2>1, <3>1, LinksCounted
  <2> HIDE DEF n
  <2>4. 1 \in T
    BY <1>4, <2>1
  <2>5. \A k \in 1..(n - 1) : k \in T => k + 1 \in T
    <3> SUFFICES ASSUME NEW k \in 1..(n - 1), k \in T PROVE k + 1 \in T
      OBVIOUS
    <3>1. s.val[p[k]] \in Nat /\ s.val[p[k]] <= k - 1
      OBVIOUS
    <3>2. s.val[p[k + 1]] \in Nat /\ s.val[p[k + 1]] <= s.val[p[k]] + 1
      BY <1>5, <2>2, <3>1
    <3>3. k + 1 \in 1..n /\ k \in Int
      BY <2>1
    <3>4. s.val[p[k + 1]] <= (k + 1) - 1
      <4> HIDE DEF T
      <4> QED
        BY <3>1, <3>2, <3>3
    <3> QED
      BY <3>2, <3>3, <3>4
  <2>6. 1..n \subseteq T
    <3> HIDE DEF T
    <3>1. n >= 1
      BY <2>1
    <3> QED
      BY <2>1, <2>4, <2>5, <3>1, AlongPath
  <2>7. n \in T
    BY <2>1, <2>6
  <2> QED
    BY <2>1, <2>3, <2>7
<1>8. Acyclic(V, s.parents)
  <2> SUFFICES ASSUME NEW A \in SUBSET V, A # {}, \A x \in A : s.parents[x] \in A PROVE FALSE
    BY DEF Acyclic
  <2> DEFINE T == {s.val[x] : x \in A}
  <2>1. \A x \in A : /\ s.val[x] \in Nat /\ s.val[s.parents[x]] \in Nat
                     /\ s.val[x] = s.val[s.parents[x]] + 1
    <3> TAKE x \in A
    <3>1. x \in V \ {from} /\ s.parents[x] # -1
      BY <1>3, <1>4
    <3> QED
      BY <1>3, <1>4, <3>1
  <2>2. T \subseteq Nat /\ T # {}
    BY <2>1
  <2>3. PICK v \in T : \A y \in T : v <= y
    <3> HIDE DEF T
    <3> QED
      BY <2>2, NatMin
  <2>4. PICK x \in A : v = s.val[x]
    OBVIOUS
  <2>5. s.val[s.parents[x]] \in T
    OBVIOUS
  <2>6. v <= s.val[s.parents[x]]
    BY <2>3, <2>5
  <2> QED
    BY <2>1, <2>4, <2>6
<1>9. ASSUME s.val[to] # -1
      PROVE  \E p : /\ Simple(from, to, p) /\ LinksOf(p) = Net!Chain(s.parents, to)
                    /\ Cardinality(LinksOf(p)) = s.val[to]
  <2> DEFINE found == {i \in V : s.val[i] # -1}
  <2>1. from \in found /\ to \in found
    BY <1>4, <1>9
  <2>2. Rooted(V, from, s.parents, found)
    <3>1. \A i \in found \ {from} : s.parents[i] \in found
      <4> TAKE i \in found \ {from}
      <4>1. s.parents[i] \in V /\ s.val[s.parents[i]] \in Nat
        BY <1>4
      <4> QED
        BY <4>1
    <3>2. found \in SUBSET V
      OBVIOUS
    <3> HIDE DEF found
    <3> QED
      BY <1>3, <1>4, <1>8, <2>1, <3>1, <3>2 DEF Rooted, Parents
  <2>3. \A i \in found \ {from} : i \in Net!neighbours(net, s.parents[i])
    BY <1>4
  <2>4. PICK p \in Seq(found) : Simple(from, to, p) /\ WayDown(from, s.parents, to, p)
    <3> HIDE DEF found
    <3> QED
      BY <2>1, <2>2, <2>3, TreePath
  <2> DEFINE n == Len(p)
             T == {k \in 1..n : s.val[p[k]] = k - 1}
  <2>5. /\ n \in Nat /\ n >= 2 /\ p[1] = from /\ p[n] = to /\ DOMAIN p = 1..n
        /\ \A k \in 1..n : p[k] \in found
        /\ \A k, l \in DOMAIN p : p[k] = p[l] => k = l
        /\ \A k \in 1..(n - 1) : s.parents[p[k + 1]] = p[k]
        /\ LinksOf(p) = Net!Chain(s.parents, to)
    BY <2>4 DEF Simple, WayDown
  <2>6. Cardinality(LinksOf(p)) = n - 1
    <3> HIDE DEF found
    <3>1. Len(p) >= 1
      BY <2>5
    <3> QED
      BY <2>5, <3>1, LinksCounted
  <2> HIDE DEF n
  <2>7. 1 \in T
    BY <1>4, <2>5
  <2>8. \A k \in 1..(n - 1) : k \in T => k + 1 \in T
    <3> SUFFICES ASSUME NEW k \in 1..(n - 1), s.val[p[k]] = k - 1
                 PROVE  k + 1 \in 1..n /\ s.val[p[k + 1]] = (k + 1) - 1
      OBVIOUS
    <3>1. k \in 1..n /\ k + 1 \in 1..n /\ 1 \in 1..n /\ k + 1 # 1
      BY <2>5
    <3>2. p[k + 1] \in found /\ p[k + 1] # from
      BY <2>5, <3>1
    <3>3. s.val[p[k + 1]] = s.val[s.parents[p[k + 1]]] + 1
      BY <1>4, <3>2
    <3>4. s.val[p[k + 1]] = (k - 1) + 1
      BY <2>5, <3>3
    <3> QED
      BY <3>1, <3>4
  <2>9. 1..n \subseteq T
    <3> HIDE DEF T
    <3>1. n >= 1
      BY <2>5
    <3> QED
      BY <2>5, <2>7, <2>8, <3>1, AlongPath
  <2>10. n \in T
    BY <2>5, <2>9
  <2> QED
    BY <2>4, <2>5, <2>6, <2>10
<1> QED
  BY <1>3, <1>6, <1>7, <1>9

-----------------------------------------------------------------------------
(***************************************************************************)
(* What two hosts can exchange: as much one way as the other, and over a    *)
(* third host as much as both parts of the way.                             *)
(***************************************************************************)
Ultra(R) ==
  /\ R \in [Host \X Host -> 0..MAX]
  /\ \A a, b \in Host : R[<<a, b>>] = R[<<b, a>>]
  /\ \A a, b, c \in Host : R[<<a, b>>] <= R[<<a, c>>] \/ R[<<b, c>>] <= R[<<a, c>>]

Speeds == [p \in Host \X Host |-> Real(p[1], p[2])]

NetOK ==
  /\ DOMAIN net = {"links", "mapper", "path_strategy"}
  /\ IsNetwork(net) /\ net.links.n = Len(Hosts) + Len(Switches)
  /\ net.mapper \in [Vertex -> Net!Indices(net)]
  /\ \A a, b \in Vertex : net.mapper[a] = net.mapper[b] => a = b
  /\ net.path_strategy = Net!WidestPath

\* The greatest and the least of a few numbers.
LEMMA MaxOfTwo ==
  ASSUME NEW x \in Int
  PROVE  Max({0, x}) = IF x > 0 THEN x ELSE 0
<1> DEFINE S == {0, x}
           m == IF x > 0 THEN x ELSE 0
<1>1. m \in S /\ \A y \in S : m >= y
  OBVIOUS
<1>2. \A z \in S : (\A y \in S : z >= y) => z = m
  OBVIOUS
<1>3. (CHOOSE z \in S : \A y \in S : z >= y) = m
  <2> HIDE DEF S, m
  <2> QED
    BY <1>1, <1>2
<1> QED
  BY <1>3 DEF Max

\* Real is the greatest bandwidth over which one host reaches the other.
LEMMA RealIs ==
  ASSUME NetOK, NEW a \in Host, NEW c \in Host
  PROVE  /\ Real(a, c) \in 0..MAX
         /\ \A b \in 1..MAX :
              Real(a, c) >= b <=> net.mapper[c] \in Within(net, b, net.mapper[a])
<1> DEFINE from == net.mapper[a]
           to == net.mapper[c]
           v == Net!widest_path(net, from).val[to]
<1>1. MAX \in Nat /\ a \in Vertex /\ c \in Vertex
  BY Setup DEF Vertex
<1>2. from \in Net!Indices(net) /\ to \in Net!Indices(net) /\ IsNetwork(net)
  BY <1>1 DEF NetOK
<1>3. Net!bandwidth_between(net, a, c) = v
  BY <1>1 DEF NetOK, Net!bandwidth_between, Net!Mapped, Net!Vertices, Net!path_between
<1> HIDE DEF from, to
<1>4. /\ Net!widest_path(net, from) \in WideSearches(net)
      /\ \A b \in 0..MAX : v >= b <=> to \in Within(net, b, from)
  BY <1>2, WidestIsWidest
<1>5. v \in -1..MAX
  BY <1>2, <1>4 DEF WideSearches, Net!Searches, Net!None
<1> HIDE DEF v
<1>6. Real(a, c) = IF v > 0 THEN v ELSE 0
  BY <1>1, <1>3, <1>5, MaxOfTwo DEF Real
<1> QED
  BY <1>1, <1>4, <1>5, <1>6 DEF from, to

\* The speeds between hosts that the physical network provides.
THEOREM SpeedsAreUltra == ASSUME NetOK PROVE Ultra(Speeds)
<1>0. MAX \in Nat /\ IsNetwork(net)
  BY Setup DEF NetOK
<1>1. Speeds \in [Host \X Host -> 0..MAX] /\ \A a, b \in Host : Speeds[<<a, b>>] = Real(a, b)
  BY RealIs DEF Speeds
<1>2. \A a \in Host : net.mapper[a] \in Net!Indices(net)
  BY DEF NetOK, Vertex
<1>3. ASSUME NEW a \in Host, NEW b \in Host PROVE Real(b, a) >= Real(a, b)
  <2>1. Real(a, b) \in 0..MAX /\ Real(b, a) \in 0..MAX
    BY RealIs
  <2>2. CASE Real(a, b) = 0
    BY <1>0, <2>1, <2>2
  <2>3. CASE Real(a, b) # 0
    <3> DEFINE r == Real(a, b)
    <3>1. r \in 1..MAX /\ r >= r
      BY <1>0, <2>1, <2>3
    <3>2. net.mapper[b] \in Within(net, r, net.mapper[a])
      BY <3>1, RealIs
    <3>3. net.mapper[a] \in Within(net, r, net.mapper[b])
      BY <1>0, <1>2, <3>2, WithinSymmetric
    <3> HIDE DEF r
    <3>4. Real(b, a) >= r
      BY <3>1, <3>3, RealIs
    <3> QED
      BY <3>4 DEF r
  <2> QED
    BY <2>2, <2>3
<1>4. ASSUME NEW a \in Host, NEW b \in Host, NEW c \in Host,
             Real(a, b) > Real(a, c), Real(b, c) > Real(a, c)
      PROVE  FALSE
  <2>1. Real(a, b) \in 0..MAX /\ Real(b, c) \in 0..MAX /\ Real(a, c) \in 0..MAX
    BY RealIs
  <2> DEFINE r == Real(a, c) + 1
  <2>2. r \in 1..MAX /\ Real(a, b) >= r /\ Real(b, c) >= r /\ ~(Real(a, c) >= r)
    BY <1>0, <1>4, <2>1
  <2> HIDE DEF r
  <2>3. net.mapper[b] \in Within(net, r, net.mapper[a])
        /\ net.mapper[c] \in Within(net, r, net.mapper[b])
    BY <2>2, RealIs
  <2>4. net.mapper[c] \in Within(net, r, net.mapper[a])
    BY <1>0, <1>2, <2>3, WithinTransitive
  <2> QED
    BY <2>2, <2>4, RealIs
<1>5. \A a, b \in Host : Real(a, b) = Real(b, a)
  <2> TAKE a, b \in Host
  <2>1. Real(a, b) \in 0..MAX /\ Real(b, a) \in 0..MAX
    BY RealIs
  <2> QED
    BY <1>0, <1>3, <2>1
<1>6. \A a, b, c \in Host : Real(a, b) <= Real(a, c) \/ Real(b, c) <= Real(a, c)
  <2> TAKE a, b, c \in Host
  <2>1. Real(a, b) \in 0..MAX /\ Real(b, c) \in 0..MAX /\ Real(a, c) \in 0..MAX
    BY RealIs
  <2> QED
    BY <1>0, <1>4, <2>1
<1> QED
  BY <1>1, <1>5, <1>6 DEF Ultra

\* The network to begin with has no links.
LEMMA NewNetworkIs ==
  ASSUME net = Net!NewNetwork(Hosts \o Switches, Net!WidestPath)
  PROVE  NetOK
<1> DEFINE vs == Hosts \o Switches
           n == Len(vs)
           f == [p \in Rows(n) \X Rows(n) |-> -1]
<1>0. MAX \in Nat /\ Hosts \in Seq(Range(Hosts)) /\ Switches \in Seq(Range(Switches))
  BY Setup
<1>1. n \in Nat /\ n = Len(Hosts) + Len(Switches) /\ DOMAIN vs = 1..n
  BY <1>0
<1>2. Range(vs) = Vertex
  <2>1. \A i \in 1..n : vs[i] = IF i <= Len(Hosts) THEN Hosts[i] ELSE Switches[i - Len(Hosts)]
    BY <1>0, <1>1
  <2>2. \A i \in 1..n : vs[i] \in Vertex
    BY <1>0, <1>1, <2>1 DEF Vertex, Host, Range
  <2>3. \A v \in Range(Hosts) : v \in Range(vs)
    <3> TAKE v \in Range(Hosts)
    <3>1. PICK i \in DOMAIN Hosts : v = Hosts[i]
      BY DEF Range
    <3>2. i \in 1..n /\ vs[i] = v
      BY <1>0, <1>1, <2>1, <3>1
    <3> QED
      BY <1>1, <3>2 DEF Range
  <2>4. \A v \in Range(Switches) : v \in Range(vs)
    <3> TAKE v \in Range(Switches)
    <3>1. PICK i \in DOMAIN Switches : v = Switches[i]
      BY DEF Range
    <3>2. i + Len(Hosts) \in 1..n /\ vs[i + Len(Hosts)] = v
      BY <1>0, <1>1, <2>1, <3>1
    <3> QED
      BY <1>1, <3>2 DEF Range
  <2> HIDE DEF vs, n
  <2> QED
    BY <1>1, <2>2, <2>3, <2>4 DEF Vertex, Host, Range
<1> DEFINE at(v) == {i \in DOMAIN vs : vs[i] = v}
<1>3. net = [links |-> [n |-> n, data |-> [i \in 0..(Cells(n) - 1) |-> -1]],
             mapper |-> [v \in Range(vs) |-> Net!Max(at(v)) - 1],
             path_strategy |-> Net!WidestPath]
  BY DEF Net!NewNetwork, Net!new_fn, Net!NoLink, Net!None, Cells, Net!Range, Range
<1> HIDE DEF vs, n
<1>4. ASSUME NEW v \in Vertex PROVE Net!Max(at(v)) \in 1..n /\ vs[Net!Max(at(v))] = v
  <2>1. at(v) \in SUBSET (1..n) /\ at(v) # {}
    BY <1>1, <1>2 DEF Range
  <2> HIDE DEF at
  <2>2. Net!Max(at(v)) = Max(at(v))
    BY DEF Net!Max, Max
  <2>3. Max(at(v)) \in at(v)
    BY <1>1, <2>1, MaxOfIndices
  <2> QED
    BY <2>1, <2>2, <2>3 DEF at
<1> HIDE DEF at
<1>5. net.links \in Matrix(n, -1..MAX) /\ net.links.n = n
  BY <1>0, <1>3 DEF Matrix
<1>6. net.mapper \in [Vertex -> Net!Indices(net)]
  <2>1. \A v \in Vertex : Net!Max(at(v)) - 1 \in 0..(n - 1)
    BY <1>1, <1>4
  <2> QED
    BY <1>2, <1>3, <1>5, <2>1 DEF Net!Indices
<1>7. ASSUME NEW a \in Vertex, NEW b \in Vertex, net.mapper[a] = net.mapper[b] PROVE a = b
  <2>1. Net!Max(at(a)) - 1 = Net!Max(at(b)) - 1
    BY <1>2, <1>3, <1>7
  <2>2. Net!Max(at(a)) = Net!Max(at(b))
    BY <1>4, <2>1
  <2> QED
    BY <1>4, <2>2
<1> QED
  BY <1>1, <1>3, <1>5, <1>6, <1>7 DEF NetOK, IsNetwork

\* A link more.
LEMMA AddEdgeIs ==
  ASSUME NetOK, NEW a \in Vertex, NEW b \in Vertex, NEW bandwidth \in Bandwidths,
         net' = Net!add_edge(net, a, b, bandwidth)
  PROVE  NetOK'
<1> DEFINE r == net.mapper[a]
           c == net.mapper[b]
           m == Put(net.links, r, c, bandwidth)
           n == net.links.n
<1>1. bandwidth \in -1..MAX /\ n \in Nat /\ net.links \in Matrix(n, -1..MAX)
  BY Setup DEF NetOK, IsNetwork
<1>2. r \in Rows(n) /\ c \in Rows(n)
  BY DEF NetOK, Net!Indices, Rows
<1>3. m \in Matrix(n, -1..MAX) /\ m.n = n
  <2> HIDE DEF r, c, n
  <2>1. m \in Matrix(n, -1..MAX)
    BY <1>1, <1>2, PutAt
  <2> QED
    BY <2>1 DEF Matrix
<1>4. net' = [net EXCEPT !.links = m]
  BY SameMatrix DEF Net!add_edge, Net!Mapped, Net!Vertices, NetOK
<1> HIDE DEF m, n
<1>5. /\ DOMAIN net' = {"links", "mapper", "path_strategy"}
      /\ net'.links = m /\ net'.mapper = net.mapper /\ net'.path_strategy = net.path_strategy
  BY <1>4 DEF NetOK
<1>6. Net!Indices(net)' = Net!Indices(net)
  BY <1>3, <1>5 DEF Net!Indices, n
<1> QED
  BY <1>1, <1>3, <1>5, <1>6 DEF NetOK, IsNetwork, n

-----------------------------------------------------------------------------
(***************************************************************************)
(* Graphs: every node has a row of its own, and what is known of two nodes  *)
(* is right when they can exchange what R says.                             *)
(***************************************************************************)
Datum == [limited : BOOLEAN, tested : BOOLEAN, speed : 0..MAX]
Node  == [index : Nat, speed : 0..MAX, info : Host]
Diagonal(m) == \A r \in Rows(m.n) : At(m, r, r).speed = MAX

GraphIs(g) ==
  /\ DOMAIN g = {"c_graph", "nodes"} /\ g = [c_graph |-> g.c_graph, nodes |-> g.nodes]
  /\ g.c_graph.n \in Nat /\ g.c_graph \in Matrix(g.c_graph.n, Datum)
  /\ g.nodes \subseteq Node
  /\ {a.index : a \in g.nodes} = Rows(g.c_graph.n)
  /\ \A a, b \in g.nodes : a.index = b.index \/ a.info = b.info => a = b
  /\ Diagonal(g.c_graph)

KnownPair(R, d, a, b) ==
  /\ d.speed <= R[<<a.info, b.info>>] /\ d.speed <= a.speed /\ d.speed <= b.speed
  /\ ~d.limited \/ d.tested =>
       d.speed = R[<<a.info, b.info>>] \/ d.speed >= Lesser(a.speed, b.speed)

KnownIn(R, nodes, m) ==
  \A a, b \in nodes : a # b => KnownPair(R, At(m, a.index, b.index), a, b)
Known(R, g) == KnownIn(R, g.nodes, g.c_graph)

\* What is known only grows.
Raised(m, t) ==
  \A r, c \in Rows(m.n) :
    At(t, r, c).tested = At(m, r, c).tested /\ At(t, r, c).speed >= At(m, r, c).speed

\* A node is found by its row and by its name.
LEMMA NodeIs ==
  ASSUME NEW g, GraphIs(g)
  PROVE  /\ \A a \in g.nodes :
              /\ a \in Node /\ a.index \in Rows(g.c_graph.n) /\ a.info \in Infos(g)
              /\ NodeOf(g, a.info) = a /\ node_by_index(g, a.index) = a
         /\ \A h \in Infos(g) : NodeOf(g, h) \in g.nodes /\ NodeOf(g, h).info = h
         /\ \A r \in Rows(g.c_graph.n) :
              node_by_index(g, r) \in g.nodes /\ node_by_index(g, r).index = r
<1>1. ASSUME NEW a \in g.nodes
      PROVE  /\ a \in Node /\ a.index \in Rows(g.c_graph.n) /\ a.info \in Infos(g)
             /\ NodeOf(g, a.info) = a /\ node_by_index(g, a.index) = a
  BY DEF GraphIs, NodeOf, node_by_index, Infos
<1>2. ASSUME NEW h \in Infos(g) PROVE NodeOf(g, h) \in g.nodes /\ NodeOf(g, h).info = h
  <2>1. PICK a \in g.nodes : a.info = h
    BY DEF Infos
  <2> QED
    BY <1>1, <2>1
<1>3. ASSUME NEW r \in Rows(g.c_graph.n)
      PROVE  node_by_index(g, r) \in g.nodes /\ node_by_index(g, r).index = r
  <2>1. PICK a \in g.nodes : a.index = r
    BY DEF GraphIs
  <2> QED
    BY <1>1, <2>1
<1> QED
  BY <1>1, <1>2, <1>3

\* What is known of two nodes is the same in both orders.
LEMMA KnownPairSymmetric ==
  ASSUME NEW R, Ultra(R), NEW a \in Node, NEW b \in Node, NEW d \in Datum, KnownPair(R, d, a, b)
  PROVE  KnownPair(R, d, b, a)
<1>1. R[<<a.info, b.info>>] = R[<<b.info, a.info>>]
  BY DEF Ultra, Node
<1>2. Lesser(a.speed, b.speed) = Lesser(b.speed, a.speed)
  <2>1. a.speed \in Int /\ b.speed \in Int
    BY Setup DEF Node
  <2> QED
    BY <2>1 DEF Lesser
<1> QED
  BY <1>1, <1>2 DEF KnownPair

\* A way over a third node says only what is so.
LEMMA WayOver ==
  ASSUME NEW R, Ultra(R), NEW a \in Node, NEW b \in Node, NEW k \in Node,
         NEW d \in Datum, NEW d1 \in Datum, NEW d2 \in Datum,
         KnownPair(R, d, a, b), KnownPair(R, d1, a, k), KnownPair(R, d2, k, b),
         NEW s, s = Lesser(d1.speed, d2.speed), d.speed < s
  PROVE  KnownPair(R, [limited |-> d.limited /\ s # Lesser(a.speed, b.speed),
                       tested |-> d.tested, speed |-> s], a, b)
<1>1. /\ MAX \in Nat /\ d.speed \in 0..MAX /\ d1.speed \in 0..MAX /\ d2.speed \in 0..MAX
      /\ a.speed \in 0..MAX /\ b.speed \in 0..MAX /\ k.speed \in 0..MAX
      /\ a.info \in Host /\ b.info \in Host /\ k.info \in Host
  BY Setup DEF Datum, Node
<1> DEFINE rab == R[<<a.info, b.info>>]
           rak == R[<<a.info, k.info>>]
           rkb == R[<<k.info, b.info>>]
<1>2. rab \in 0..MAX /\ rak \in 0..MAX /\ rkb \in 0..MAX /\ (rak <= rab \/ rkb <= rab)
  BY <1>1 DEF Ultra
<1>3. /\ d.speed <= rab /\ d1.speed <= rak /\ d2.speed <= rkb
      /\ d1.speed <= a.speed /\ d2.speed <= b.speed
      /\ ~d.limited \/ d.tested => d.speed = rab \/ d.speed >= Lesser(a.speed, b.speed)
  BY DEF KnownPair
<1> DEFINE e == [limited |-> d.limited /\ s # Lesser(a.speed, b.speed),
                 tested |-> d.tested, speed |-> s]
<1>4. /\ e.speed = s /\ e.tested = d.tested
      /\ ~e.limited => ~d.limited \/ s = Lesser(a.speed, b.speed)
  BY DEF Datum
<1> HIDE DEF e, rab, rak, rkb
<1>5. s <= d1.speed /\ s <= d2.speed /\ s \in 0..MAX
  BY <1>1 DEF Lesser
<1>6. s <= rab /\ s <= a.speed /\ s <= b.speed
  BY <1>1, <1>2, <1>3, <1>5
<1>7. Lesser(a.speed, b.speed) \in Int
  BY <1>1 DEF Lesser
<1>8. ~e.limited \/ e.tested => s >= Lesser(a.speed, b.speed)
  BY <1>1, <1>2, <1>3, <1>4, <1>5, <1>6, <1>7
<1>9. KnownPair(R, e, a, b)
  BY <1>4, <1>6, <1>8 DEF KnownPair, rab
<1> QED
  BY <1>9 DEF e

\* A cell is written: what is known stays right when the new value is.
LEMMA PutKnown ==
  ASSUME NEW R, Ultra(R), NEW g, GraphIs(g), NEW m \in Matrix(g.c_graph.n, Datum),
         KnownIn(R, g.nodes, m), Diagonal(m),
         NEW a \in g.nodes, NEW b \in g.nodes, a # b, NEW d \in Datum, KnownPair(R, d, a, b)
  PROVE  LET t == Put(m, a.index, b.index, d)
         IN  /\ t \in Matrix(g.c_graph.n, Datum) /\ KnownIn(R, g.nodes, t) /\ Diagonal(t)
             /\ \A x, y \in g.nodes :
                  At(t, x.index, y.index) =
                    IF (x = a /\ y = b) \/ (x = b /\ y = a) THEN d ELSE At(m, x.index, y.index)
<1> DEFINE n == g.c_graph.n
           t == Put(m, a.index, b.index, d)
<1>1. n \in Nat /\ m.n = n /\ a.index \in Rows(n) /\ b.index \in Rows(n) /\ a.index # b.index
  BY NodeIs DEF GraphIs, Matrix
<1>2. /\ t \in Matrix(n, Datum)
      /\ \A r, c \in Rows(n) :
           At(t, r, c) = IF (r = a.index /\ c = b.index) \/ (r = b.index /\ c = a.index)
                         THEN d ELSE At(m, r, c)
  <2> HIDE DEF n, t
  <2>1. m \in Matrix(n, Datum)
    BY DEF n
  <2> QED
    BY <1>1, <2>1, PutAt DEF t
<1>3. t.n = n
  BY <1>2 DEF Matrix
<1> HIDE DEF t
<1>4. ASSUME NEW x \in g.nodes, NEW y \in g.nodes
      PROVE  At(t, x.index, y.index) =
               IF (x = a /\ y = b) \/ (x = b /\ y = a) THEN d ELSE At(m, x.index, y.index)
  <2>1. x.index \in Rows(n) /\ y.index \in Rows(n)
    BY NodeIs
  <2>2. \A u, v \in g.nodes : u.index = v.index => u = v
    BY DEF GraphIs
  <2> QED
    BY <1>2, <2>1, <2>2
<1>5. KnownIn(R, g.nodes, t)
  <2> SUFFICES ASSUME NEW x \in g.nodes, NEW y \in g.nodes, x # y
               PROVE  KnownPair(R, At(t, x.index, y.index), x, y)
    BY DEF KnownIn
  <2>1. CASE x = a /\ y = b
    BY <1>4, <2>1
  <2>2. CASE x = b /\ y = a
    <3>1. a \in Node /\ b \in Node
      BY NodeIs
    <3> QED
      BY <1>4, <2>2, <3>1, KnownPairSymmetric
  <2>3. CASE ~((x = a /\ y = b) \/ (x = b /\ y = a))
    BY <1>4, <2>3 DEF KnownIn
  <2> QED
    BY <2>1, <2>2, <2>3
<1>6. Diagonal(t)
  <2>1. \A r \in Rows(n) : ~((r = a.index /\ r = b.index) \/ (r = b.index /\ r = a.index))
    BY <1>1
  <2> QED
    BY <1>1, <1>2, <1>3, <2>1 DEF Diagonal
<1> QED
  BY <1>2, <1>4, <1>5, <1>6 DEF t

\* One round of the three loops of update_speeds.
LEMMA TransitionIs ==
  ASSUME NEW R, Ultra(R), NEW g, GraphIs(g), NEW m \in Matrix(g.c_graph.n, Datum),
         KnownIn(R, g.nodes, m), Diagonal(m),
         NEW i \in Rows(g.c_graph.n), NEW j \in Rows(g.c_graph.n), NEW k \in Rows(g.c_graph.n)
  PROVE  LET t == Transition(g, m, i, j, k)
         IN  /\ t \in Matrix(g.c_graph.n, Datum) /\ KnownIn(R, g.nodes, t) /\ Diagonal(t)
             /\ Raised(m, t)
<1> DEFINE n == g.c_graph.n
           t == Transition(g, m, i, j, k)
           d == At(m, i, j)
           d1 == At(m, i, k)
           d2 == At(m, k, j)
           s == Lesser(d1.speed, d2.speed)
           a == node_by_index(g, i)
           b == node_by_index(g, j)
           e == node_by_index(g, k)
           new == [limited |-> d.limited /\ s # Lesser(a.speed, b.speed),
                   tested |-> d.tested, speed |-> s]
<1>0. MAX \in Nat /\ n \in Nat /\ m.n = n /\ m \in Matrix(n, Datum)
  BY Setup DEF GraphIs, Matrix
<1>1. d \in Datum /\ d1 \in Datum /\ d2 \in Datum
  <2> HIDE DEF n
  <2>1. i \in Rows(n) /\ j \in Rows(n) /\ k \in Rows(n)
    BY DEF n
  <2> QED
    BY <1>0, <2>1, AtType
<1>2. /\ d.speed \in 0..MAX /\ d1.speed \in 0..MAX /\ d2.speed \in 0..MAX
      /\ d = [limited |-> d.limited, tested |-> d.tested, speed |-> d.speed]
  BY <1>1 DEF Datum
<1>3. \A r, c \in Rows(n) : At(m, r, c).speed \in Int
  <2> HIDE DEF n
  <2>1. \A r, c \in Rows(n) : At(m, r, c) \in Datum
    BY <1>0, AtType
  <2> QED
    BY <1>0, <2>1 DEF Datum
<1>4. CASE d.speed >= s
  <2>1. t = m
    BY <1>4 DEF Transition
  <2> QED
    BY <1>0, <1>3, <2>1 DEF Raised
<1>5. CASE ~(d.speed >= s)
  <2>1. t = Put(m, i, j, new)
    BY <1>5 DEF Transition
  <2>2. d.speed < s /\ s <= d1.speed /\ s <= d2.speed /\ s \in 0..MAX
    BY <1>0, <1>2, <1>5 DEF Lesser
  <2>3. i # j
    BY <1>0, <1>2, <2>2 DEF Diagonal
  <2>4. i # k /\ k # j
    BY <1>0, <1>2, <2>2, <2>3
  <2>5. /\ a \in g.nodes /\ b \in g.nodes /\ e \in g.nodes
        /\ a.index = i /\ b.index = j /\ e.index = k
    BY NodeIs
  <2>6. a # b /\ a # e /\ e # b
    BY <2>3, <2>4, <2>5
  <2>7. KnownPair(R, d, a, b) /\ KnownPair(R, d1, a, e) /\ KnownPair(R, d2, e, b)
    BY <2>5, <2>6 DEF KnownIn
  <2>8. a \in Node /\ b \in Node /\ e \in Node
    BY <2>5, NodeIs
  <2> DEFINE nd == new
  <2>9. KnownPair(R, nd, a, b) /\ nd \in Datum /\ nd.tested = d.tested /\ nd.speed = s
    <3>1. KnownPair(R, nd, a, b)
      <4> HIDE DEF a, b, e, d, d1, d2
      <4> QED
        BY <1>1, <2>2, <2>7, <2>8, WayOver
    <3>2. d.limited \in BOOLEAN /\ d.tested \in BOOLEAN
      BY <1>1 DEF Datum
    <3> QED
      BY <2>2, <3>1, <3>2 DEF Datum
  <2> HIDE DEF new, a, b, e, d, d1, d2, s
  <2>10. t = Put(m, a.index, b.index, nd)
    BY <2>1, <2>5
  <2> HIDE DEF nd, t
  <2>11. t \in Matrix(n, Datum) /\ KnownIn(R, g.nodes, t) /\ Diagonal(t)
    BY <2>5, <2>6, <2>9, <2>10, PutKnown
  <2>12. \A r, c \in Rows(n) :
           At(t, r, c) = IF (r = i /\ c = j) \/ (r = j /\ c = i) THEN nd ELSE At(m, r, c)
    <3> HIDE DEF n
    <3>1. i \in Rows(n) /\ j \in Rows(n) /\ nd \in Datum /\ t = Put(m, i, j, nd)
      BY <2>5, <2>9, <2>10 DEF n
    <3> QED
      BY <1>0, <3>1, PutAt
  <2>13. Raised(m, t)
    <3> SUFFICES ASSUME NEW r \in Rows(n), NEW c \in Rows(n)
                 PROVE  At(t, r, c).tested = At(m, r, c).tested
                        /\ At(t, r, c).speed >= At(m, r, c).speed
      BY <1>0 DEF Raised
    <3>1. CASE (r = i /\ c = j) \/ (r = j /\ c = i)
      <4>1. At(m, r, c) = d
        BY <1>0, <3>1, AtSymmetric DEF d
      <4> QED
        BY <1>2, <2>2, <2>9, <2>12, <3>1, <4>1
    <3>2. CASE ~((r = i /\ c = j) \/ (r = j /\ c = i))
      BY <1>3, <2>12, <3>2
    <3> QED
      BY <3>1, <3>2
  <2> QED
    BY <2>11, <2>13 DEF t
<1> QED
  BY <1>4, <1>5

\* The three rows that a round is about.
LEMMA RoundRows ==
  ASSUME NEW n \in Nat, NEW x \in 0..(n * n * n), x # n * n * n
  PROVE  x \div (n * n) \in Rows(n) /\ (x \div n) % n \in Rows(n) /\ x % n \in Rows(n)
<1>1. n # 0
  BY SMT
<1>2. n \in Int /\ n > 0 /\ x \in Nat /\ x < n * n * n
  <2>1. n * n * n \in Int
    OBVIOUS
  <2> HIDE DEF Rows
  <2> QED
    BY <1>1, <2>1
<1> DEFINE q == n * n
<1>3. q \in Int /\ q > 0
  <2>1. q \in Int
    OBVIOUS
  <2>2. n * 1 <= n * n
    BY <1>2
  <2> QED
    BY <1>2, <2>1, <2>2
<1>4. n * q = n * n * n
  OBVIOUS
<1> HIDE DEF q
<1>5. x \div q \in Int /\ x \div q >= 0 /\ x \div q < n
  <2> DEFINE d == x \div q
             r == x % q
  <2>1. d \in Int /\ r \in Int /\ r >= 0 /\ x = q * d + r
    BY <1>2, <1>3
  <2> HIDE DEF d, r
  <2>2. d >= 0
    <3> SUFFICES ASSUME d <= -1 PROVE FALSE
      BY <2>1
    <3>1. q * d <= q * (-1)
      BY <1>3, <2>1
    <3>2. r < q
      BY <1>2, <1>3 DEF r
    <3> QED
      BY <1>2, <1>3, <2>1, <3>1, <3>2
  <2>3. d < n
    <3> SUFFICES ASSUME d >= n PROVE FALSE
      BY <1>2, <2>1
    <3>1. q * d >= q * n
      BY <1>2, <1>3, <2>1
    <3>2. q * n = n * n * n
      BY <1>2, <1>3, <1>4
    <3>3. x >= q * d /\ q * d \in Int /\ q * n \in Int
      BY <1>2, <1>3, <2>1
    <3> QED
      BY <1>2, <3>1, <3>2, <3>3
  <2> QED
    BY <2>1, <2>2, <2>3 DEF d
<1>6. x \div n \in Int
  BY <1>2
<1>7. \A y \in Int : y % n \in Rows(n)
  BY <1>2 DEF Rows
<1>8. x \div (n * n) \in Rows(n)
  BY <1>2, <1>5 DEF q, Rows
<1> QED
  BY <1>2, <1>6, <1>7, <1>8

AnyDatum == [limited : BOOLEAN, tested : BOOLEAN, speed : Nat]

\* A round yields a matrix again.
LEMMA TransitionType ==
  ASSUME NEW g, NEW n \in Nat, NEW m \in Matrix(n, AnyDatum),
         NEW i \in Rows(n), NEW j \in Rows(n), NEW k \in Rows(n)
  PROVE  Transition(g, m, i, j, k) \in Matrix(n, AnyDatum)
<1> DEFINE d == At(m, i, j)
           s == Lesser(At(m, i, k).speed, At(m, k, j).speed)
           cap == Lesser(node_by_index(g, i).speed, node_by_index(g, j).speed)
           new == [limited |-> d.limited /\ s # cap, tested |-> d.tested, speed |-> s]
<1>1. d \in AnyDatum /\ At(m, i, k) \in AnyDatum /\ At(m, k, j) \in AnyDatum
  BY AtType
<1>2. new \in AnyDatum
  <2>1. s \in Nat
    BY <1>1 DEF AnyDatum, Lesser
  <2>2. d.limited \in BOOLEAN /\ d.tested \in BOOLEAN
    BY <1>1 DEF AnyDatum
  <2> HIDE DEF d, s, cap
  <2> QED
    BY <2>1, <2>2 DEF AnyDatum
<1>3. Transition(g, m, i, j, k) = IF d.speed >= s THEN m ELSE Put(m, i, j, new)
  BY DEF Transition
<1> HIDE DEF d, s, new
<1>4. Put(m, i, j, new) \in Matrix(n, AnyDatum)
  BY <1>2, PutAt
<1> QED
  BY <1>3, <1>4

\* update_speeds comes to an end, and what it makes of a graph is right.
THEOREM TransitionsRight ==
  ASSUME NEW R, Ultra(R), NEW g, GraphIs(g), Known(R, g)
  PROVE  /\ GraphIs(update_speeds(g)) /\ Known(R, update_speeds(g))
         /\ update_speeds(g).nodes = g.nodes
         /\ update_speeds(g).c_graph.n = g.c_graph.n
         /\ Raised(g.c_graph, update_speeds(g).c_graph)
<1> DEFINE n == g.c_graph.n
           N == n * n * n
           S == [x : 0..N, m : Matrices(g.c_graph)]
           Round(s) == [x |-> s.x + 1,
                        m |-> Transition(g, s.m, s.x \div (n * n), (s.x \div n) % n, s.x % n)]
           Done == {s \in S : s.x = N}
           body == [s \in S |-> IF s \in Done THEN s ELSE Round(s)]
           out == [s \in S |-> s.m]
           Good(m) == /\ m \in Matrix(n, Datum) /\ KnownIn(R, g.nodes, m) /\ Diagonal(m)
                      /\ Raised(g.c_graph, m)
           I == {s \in S : Good(s.m)}
           P == {m \in Matrix(n, Datum) : Good(m)}
           D == 0..N
           Up == {xy \in D \X D : xy[1] < xy[2]}
           mu == [s \in I |-> s.x]
           Is(L) == L = [s \in [x : 0..(n * n * n), m : Matrices(g.c_graph)] |->
                           IF s.x = n * n * n THEN s.m
                           ELSE L[[x |-> s.x + 1,
                                   m |-> Transition(g, s.m, s.x \div (n * n),
                                                    (s.x \div n) % n, s.x % n)]]]
           L == CHOOSE f : Is(f)
<1>0. n \in Nat /\ g.c_graph \in Matrix(n, Datum) /\ N \in Nat /\ MAX \in Nat
  <2>1. n \in Nat /\ g.c_graph \in Matrix(n, Datum)
    BY DEF GraphIs
  <2> HIDE DEF n
  <2> QED
    BY <2>1, Setup
<1>1. Matrices(g.c_graph) = Matrix(n, AnyDatum)
  <2>1. DOMAIN g.c_graph.data = 0..(Cells(n) - 1)
    BY <1>0 DEF Matrix
  <2> QED
    BY <2>1 DEF Matrices, Matrix, AnyDatum
<1>2. Matrix(n, Datum) \subseteq Matrix(n, AnyDatum)
  <2>1. Datum \subseteq AnyDatum
    BY <1>0 DEF Datum, AnyDatum
  <2> HIDE DEF n
  <2> QED
    BY <2>1 DEF Matrix
<1> HIDE DEF n
<1>3. ASSUME NEW s \in S, s \notin Done
      PROVE  /\ s.x + 1 \in 0..N /\ s.x \in 0..N /\ s.x # N
             /\ s.x \div (n * n) \in Rows(n) /\ (s.x \div n) % n \in Rows(n) /\ s.x % n \in Rows(n)
  <2>1. s.x \in 0..N /\ s.x # N
    BY <1>3
  <2>2. s.x + 1 \in 0..N
    <3> HIDE DEF N
    <3> QED
      BY <1>0, <2>1
  <2> QED
    BY <1>0, <2>1, <2>2, RoundRows
<1> HIDE DEF N
<1>4. body \in [S -> S]
  <2>1. ASSUME NEW s \in S, s \notin Done PROVE Round(s) \in S
    <3>1. s.m \in Matrix(n, AnyDatum)
      BY <1>1
    <3>2. Round(s).m \in Matrix(n, AnyDatum)
      BY <1>0, <1>3, <2>1, <3>1, TransitionType
    <3> QED
      BY <1>1, <1>3, <2>1, <3>2
  <2> HIDE DEF S, Round
  <2> QED
    BY <2>1
<1>5. \A f : Is(f) <=> IsLoop(f, S, Done, body, out)
  <2> TAKE f
  <2>1. ASSUME NEW s \in S
        PROVE  (IF s.x = N THEN s.m ELSE f[Round(s)])
                 = (IF s \in Done THEN out[s] ELSE f[body[s]])
    <3> HIDE DEF Round
    <3> QED
      OBVIOUS
  <2>2. [s \in S |-> IF s.x = N THEN s.m ELSE f[Round(s)]]
          = [s \in S |-> IF s \in Done THEN out[s] ELSE f[body[s]]]
    <3> HIDE DEF body, out, Done, S, Round
    <3> QED
      BY <2>1
  <2>3. Is(f) <=> f = [s \in S |-> IF s.x = N THEN s.m ELSE f[Round(s)]]
    BY DEF N
  <2> HIDE DEF body, out, Done, S, Round, Is
  <2> QED
    BY <2>2, <2>3 DEF IsLoop
<1> HIDE DEF Is
<1>6. IsLoop(L, S, Done, body, out)
  <2>1. \E f : IsLoop(f, S, Done, body, out)
    <3> HIDE DEF S, Done, body, out
    <3> QED
      BY <1>4, LoopExists
  <2>2. \E f : Is(f)
    BY <1>5, <2>1
  <2> QED
    BY <1>5, <2>2
<1> HIDE DEF L
<1>7. ASSUME NEW m, Good(m), NEW i \in Rows(n), NEW j \in Rows(n), NEW k \in Rows(n)
      PROVE  Good(Transition(g, m, i, j, k))
  <2> DEFINE t == Transition(g, m, i, j, k)
  <2>1. t \in Matrix(n, Datum) /\ KnownIn(R, g.nodes, t) /\ Diagonal(t) /\ Raised(m, t)
    BY <1>7, TransitionIs DEF n
  <2> HIDE DEF t
  <2>2. g.c_graph.n = n /\ m.n = n /\ Raised(g.c_graph, m)
    BY <1>0, <1>7 DEF n, Matrix
  <2>3. ASSUME NEW r \in Rows(n), NEW c \in Rows(n)
        PROVE  At(t, r, c).tested = At(g.c_graph, r, c).tested
               /\ At(t, r, c).speed >= At(g.c_graph, r, c).speed
    <3>1. At(t, r, c) \in Datum /\ At(m, r, c) \in Datum /\ At(g.c_graph, r, c) \in Datum
      BY <1>0, <1>7, <2>1, AtType
    <3>2. /\ At(t, r, c).tested = At(m, r, c).tested /\ At(t, r, c).speed >= At(m, r, c).speed
          /\ At(m, r, c).tested = At(g.c_graph, r, c).tested
          /\ At(m, r, c).speed >= At(g.c_graph, r, c).speed
      BY <2>1, <2>2 DEF Raised
    <3>3. /\ At(t, r, c).speed \in Int /\ At(m, r, c).speed \in Int
          /\ At(g.c_graph, r, c).speed \in Int
      BY <1>0, <3>1 DEF Datum
    <3> QED
      BY <3>2, <3>3
  <2>4. Raised(g.c_graph, t)
    BY <2>2, <2>3 DEF Raised
  <2> QED
    BY <2>1, <2>4 DEF t
<1>8. ASSUME NEW s \in I \ Done
      PROVE  body[s] \in I /\ <<mu[s], mu[body[s]]>> \in Up
  <2>1. s \in S /\ s \notin Done /\ Good(s.m) /\ body[s] = Round(s)
    BY <1>8
  <2>2. Round(s) \in S
    <3> HIDE DEF body, S
    <3> QED
      BY <1>4, <2>1
  <2>3. Round(s).x = s.x + 1 /\ Good(Round(s).m)
    <3> HIDE DEF Good
    <3> QED
      BY <1>3, <1>7, <2>1
  <2>4. s.x \in 0..N /\ s.x + 1 \in 0..N /\ s.x < s.x + 1
    BY <1>0, <1>3, <2>1
  <2>5. body[s] \in I
    <3> HIDE DEF body, Round, Good, S
    <3> QED
      BY <2>1, <2>2, <2>3
  <2>6. mu[s] = s.x /\ mu[body[s]] = s.x + 1
    <3> HIDE DEF body, Round, I
    <3> QED
      BY <1>8, <2>1, <2>3, <2>5
  <2> HIDE DEF body, mu
  <2> QED
    BY <2>4, <2>5, <2>6
<1>9. IsFiniteSet(D) /\ StrictOrder(Up, D)
  <2>1. IsFiniteSet(D)
    BY <1>0, FS_Interval
  <2>2. D \subseteq Int
    OBVIOUS
  <2> HIDE DEF D
  <2> QED
    BY <2>1, <2>2 DEF StrictOrder
<1>10. mu \in [I -> D] /\ I \in SUBSET S
  OBVIOUS
<1>11. \A s \in I \cap Done : out[s] \in P
  <2> HIDE DEF S
  <2> QED
    BY DEF S
<1>12. \A s \in I : L[s] \in P
  <2> HIDE DEF I, S, Done, body, out, mu, P, D, Up
  <2>1. (\A s \in I \ Done : body[s] \in I) /\ (\A s \in I \ Done : <<mu[s], mu[body[s]]>> \in Up)
    BY <1>8
  <2>2. Climbs(S, Done, body, I, D, Up, mu)
    BY <1>9, <1>10, <2>1 DEF Climbs
  <2> QED
    BY <1>6, <1>11, <2>2, LoopResult
<1> DEFINE start == [x |-> 0, m |-> g.c_graph]
<1>13. start \in I
  <2>1. \A r, c \in Rows(n) : At(g.c_graph, r, c).speed \in Int
    <3>1. \A r, c \in Rows(n) : At(g.c_graph, r, c) \in Datum
      BY <1>0, AtType
    <3> QED
      BY <1>0, <3>1 DEF Datum
  <2>2. Raised(g.c_graph, g.c_graph)
    BY <2>1 DEF Raised, n
  <2>3. Good(g.c_graph)
    BY <1>0, <2>2 DEF Known, GraphIs
  <2>4. start \in S
    BY <1>0, <1>1, <1>2
  <2> HIDE DEF Good, S
  <2> QED
    BY <2>3, <2>4
<1>14. update_speeds(g) = [g EXCEPT !.c_graph = L[start]]
  BY DEF update_speeds, L, Is, n
<1>15. Good(L[start])
  <2> HIDE DEF I, start
  <2> QED
    BY <1>12, <1>13
<1> DEFINE t == L[start]
<1> HIDE DEF start, L
<1>16. update_speeds(g) = [c_graph |-> t, nodes |-> g.nodes]
  BY <1>14 DEF GraphIs
<1>17. t.n = n
  BY <1>15 DEF Matrix
<1> HIDE DEF t
<1>18. Good(t)
  BY <1>15 DEF t
<1> QED
  BY <1>0, <1>16, <1>17, <1>18 DEF GraphIs, Known, n

-----------------------------------------------------------------------------
(***************************************************************************)
(* What a host that joins makes of its copy.                                *)
(***************************************************************************)
SettledBy(R, d, a, b, enough) ==
  \/ d.speed = R[<<a.info, b.info>>]
  \/ d.speed >= Lesser(a.speed, b.speed)
  \/ d.speed >= enough

Enough(a, b) == Lesser(Sufficient[a.info], Sufficient[b.info])

SettledAmong(R, g, H) ==
  \A a, b \in g.nodes :
    a # b /\ a.info \in H /\ b.info \in H => SettledBy(R, TestDataOf(g, a, b), a, b, Enough(a, b))

SameNodes(g, h) == h.nodes = g.nodes /\ h.c_graph.n = g.c_graph.n

TestsKept(g, h) ==
  \A x, y \in g.nodes : TestDataOf(g, x, y).tested => TestDataOf(h, x, y).tested

\* What is known of two nodes is an entry of the matrix, in either order.
LEMMA TestDataIs ==
  ASSUME NEW g, GraphIs(g), NEW a \in g.nodes, NEW b \in g.nodes
  PROVE  TestDataOf(g, a, b) \in Datum /\ TestDataOf(g, a, b) = TestDataOf(g, b, a)
<1> DEFINE n == g.c_graph.n
<1>1. n \in Nat /\ g.c_graph \in Matrix(n, Datum) /\ g.c_graph.n = n
      /\ a.index \in Rows(n) /\ b.index \in Rows(n)
  BY NodeIs DEF GraphIs
<1> HIDE DEF n
<1> QED
  BY <1>1, AtType, AtSymmetric DEF TestDataOf

\* SetTestData, of two different nodes.
LEMMA SetTestDataIs ==
  ASSUME NEW R, Ultra(R), NEW g, GraphIs(g), Known(R, g),
         NEW a \in g.nodes, NEW b \in g.nodes, a # b, NEW d \in Datum, KnownPair(R, d, a, b)
  PROVE  LET h == SetTestData(g, a, b, d)
         IN  /\ GraphIs(h) /\ Known(R, h) /\ SameNodes(g, h)
             /\ \A x, y \in g.nodes :
                  TestDataOf(h, x, y) =
                    IF (x = a /\ y = b) \/ (x = b /\ y = a) THEN d ELSE TestDataOf(g, x, y)
<1> DEFINE t == Put(g.c_graph, a.index, b.index, d)
           h == SetTestData(g, a, b, d)
           n == g.c_graph.n
<1>1. /\ t \in Matrix(n, Datum) /\ KnownIn(R, g.nodes, t) /\ Diagonal(t)
      /\ \A x, y \in g.nodes :
           At(t, x.index, y.index) =
             IF (x = a /\ y = b) \/ (x = b /\ y = a) THEN d ELSE At(g.c_graph, x.index, y.index)
  BY PutKnown DEF GraphIs, Known
<1>2. t.n = n
  BY <1>1 DEF Matrix
<1>3. h = [c_graph |-> t, nodes |-> g.nodes]
  <2>1. h = [g EXCEPT !.c_graph = t]
    BY DEF SetTestData
  <2> HIDE DEF h, t
  <2> QED
    BY <2>1 DEF GraphIs
<1> HIDE DEF t, h
<1>4. GraphIs(h)
  BY <1>1, <1>2, <1>3 DEF GraphIs
<1> QED
  BY <1>1, <1>2, <1>3, <1>4 DEF Known, SameNodes, TestDataOf, h

\* What is settled stays so when it is raised.
LEMMA SettledRaised ==
  ASSUME NEW R, Ultra(R), NEW a \in Node, NEW b \in Node, NEW d \in Datum, NEW e \in Datum,
         NEW enough \in Nat, SettledBy(R, d, a, b, enough), KnownPair(R, e, a, b), e.speed >= d.speed
  PROVE  SettledBy(R, e, a, b, enough)
<1>1. /\ MAX \in Nat /\ d.speed \in 0..MAX /\ e.speed \in 0..MAX
      /\ R[<<a.info, b.info>>] \in 0..MAX /\ Lesser(a.speed, b.speed) \in Int
  BY Setup DEF Ultra, Datum, Node, Lesser
<1>2. e.speed <= R[<<a.info, b.info>>]
  BY DEF KnownPair
<1> QED
  BY <1>1, <1>2 DEF SettledBy

\* What the hosts are configured to find sufficient.
LEMMA EnoughIs ==
  ASSUME NEW a \in Node, NEW b \in Node
  PROVE  /\ Enough(a, b) \in Nat /\ Enough(a, b) = Enough(b, a)
         /\ Enough(a, b) <= Sufficient[a.info] /\ Sufficient[a.info] \in Nat
<1>1. Sufficient[a.info] \in Nat /\ Sufficient[b.info] \in Nat
  BY Setup DEF Node, Host
<1> QED
  BY <1>1 DEF Enough, Lesser

\* add_link_direct_test, with what the test measures.
LEMMA TestIs ==
  ASSUME NEW R, Ultra(R), NEW g, GraphIs(g), Known(R, g),
         NEW a \in g.nodes, NEW b \in g.nodes, a # b,
         NEW speed, speed = R[<<a.info, b.info>>], GoodSpeed(a, b, speed)
  PROVE  LET h == add_link_direct_test(g, a, b, speed)
         IN  /\ GraphIs(h) /\ Known(R, h) /\ SameNodes(g, h) /\ TestsKept(g, h)
             /\ TestDataOf(h, a, b).tested
             /\ \A H : SettledAmong(R, g, H) /\ a.info \notin H => SettledAmong(R, h, H)
<1> DEFINE d == [limited |-> FALSE, tested |-> TRUE, speed |-> speed]
           m == SetTestData(g, a, b, d)
           h == add_link_direct_test(g, a, b, speed)
<1>0. a \in Node /\ b \in Node /\ MAX \in Nat
  BY NodeIs, Setup
<1>1. d \in Datum /\ KnownPair(R, d, a, b)
  <2>1. speed \in 0..MAX /\ a.speed \in 0..MAX /\ b.speed \in 0..MAX
    BY <1>0 DEF Ultra, Node
  <2>2. speed <= a.speed /\ speed <= b.speed
    BY <1>0, <2>1 DEF GoodSpeed, Lesser
  <2>3. speed <= R[<<a.info, b.info>>]
    BY <1>0, <2>1
  <2> QED
    BY <2>1, <2>2, <2>3 DEF Datum, KnownPair
<1>2. d.tested
  OBVIOUS
<1> HIDE DEF d
<1>3. /\ GraphIs(m) /\ Known(R, m) /\ SameNodes(g, m)
      /\ \A x, y \in g.nodes :
           TestDataOf(m, x, y) =
             IF (x = a /\ y = b) \/ (x = b /\ y = a) THEN d ELSE TestDataOf(g, x, y)
  BY <1>1, SetTestDataIs
<1>4. h = update_speeds(m)
  BY DEF add_link_direct_test, d
<1> HIDE DEF m, h
<1>5. /\ GraphIs(h) /\ Known(R, h) /\ h.nodes = m.nodes /\ h.c_graph.n = m.c_graph.n
      /\ Raised(m.c_graph, h.c_graph)
  BY <1>3, <1>4, TransitionsRight
<1>6. SameNodes(g, h)
  BY <1>3, <1>5 DEF SameNodes
<1>7. ASSUME NEW x \in g.nodes, NEW y \in g.nodes
      PROVE  /\ TestDataOf(h, x, y).tested = TestDataOf(m, x, y).tested
             /\ TestDataOf(h, x, y).speed >= TestDataOf(m, x, y).speed
  <2>1. x.index \in Rows(m.c_graph.n) /\ y.index \in Rows(m.c_graph.n)
    BY <1>3, NodeIs DEF SameNodes
  <2> QED
    BY <1>5, <2>1 DEF Raised, TestDataOf
<1>8. TestsKept(g, h) /\ TestDataOf(h, a, b).tested
  BY <1>2, <1>3, <1>7 DEF TestsKept
<1>9. ASSUME NEW H, SettledAmong(R, g, H), a.info \notin H PROVE SettledAmong(R, h, H)
  <2> SUFFICES ASSUME NEW x \in g.nodes, NEW y \in g.nodes, x # y, x.info \in H, y.info \in H
               PROVE  SettledBy(R, TestDataOf(h, x, y), x, y, Enough(x, y))
    BY <1>6 DEF SettledAmong, SameNodes
  <2>1. TestDataOf(m, x, y) = TestDataOf(g, x, y)
    BY <1>3, <1>9
  <2>2. SettledBy(R, TestDataOf(g, x, y), x, y, Enough(x, y))
    BY <1>9 DEF SettledAmong
  <2>3. TestDataOf(g, x, y) \in Datum /\ TestDataOf(h, x, y) \in Datum
    BY <1>5, <1>6, TestDataIs DEF SameNodes
  <2>4. KnownPair(R, TestDataOf(h, x, y), x, y)
    BY <1>5, <1>6 DEF Known, KnownIn, SameNodes, TestDataOf
  <2>5. x \in Node /\ y \in Node
    BY NodeIs
  <2>6. TestDataOf(h, x, y).speed >= TestDataOf(g, x, y).speed
    BY <1>7, <2>1
  <2> QED
    BY <2>2, <2>3, <2>4, <2>5, <2>6, EnoughIs, SettledRaised
<1> QED
  BY <1>5, <1>6, <1>8, <1>9 DEF h

\* Two sure and different speeds tell the third.
LEMMA TellsRight ==
  ASSUME NEW R, Ultra(R), NEW g, GraphIs(g), Known(R, g),
         NEW a \in g.nodes, NEW b \in g.nodes, NEW k \in g.nodes, a # b, Tells(g, a, k, b)
  PROVE  LET e == [limited |-> TestDataOf(g, a, b).limited, tested |-> TRUE,
                   speed |-> Lesser(TestDataOf(g, a, k).speed, TestDataOf(g, k, b).speed)]
         IN  e \in Datum /\ KnownPair(R, e, a, b)
<1> DEFINE d == TestDataOf(g, a, b)
           d1 == TestDataOf(g, a, k)
           d2 == TestDataOf(g, k, b)
           s == Lesser(d1.speed, d2.speed)
           e == [limited |-> d.limited, tested |-> TRUE, speed |-> s]
           rab == R[<<a.info, b.info>>]
           rak == R[<<a.info, k.info>>]
           rkb == R[<<k.info, b.info>>]
<1>1. a \in Node /\ b \in Node /\ k \in Node /\ MAX \in Nat
  BY NodeIs, Setup
<1>2. d \in Datum /\ d1 \in Datum /\ d2 \in Datum
  BY TestDataIs
<1>3. a # k /\ k # b /\ Sure(g, a, k) /\ Sure(g, k, b) /\ d1.speed # d2.speed
  BY DEF Tells
<1>4. KnownPair(R, d1, a, k) /\ KnownPair(R, d2, k, b)
  BY <1>3 DEF Known, KnownIn, TestDataOf
<1>5. (~d1.limited \/ d1.tested) /\ (~d2.limited \/ d2.tested)
  BY <1>3 DEF Sure
<1> HIDE DEF d, d1, d2
<1>6. /\ d1.speed <= rak /\ d2.speed <= rkb /\ d1.speed <= a.speed /\ d1.speed <= k.speed
      /\ d2.speed <= k.speed /\ d2.speed <= b.speed
      /\ d1.speed = rak \/ d1.speed >= Lesser(a.speed, k.speed)
      /\ d2.speed = rkb \/ d2.speed >= Lesser(k.speed, b.speed)
  BY <1>4, <1>5 DEF KnownPair
<1>7. /\ d1.speed \in 0..MAX /\ d2.speed \in 0..MAX /\ d.limited \in BOOLEAN
      /\ a.speed \in 0..MAX /\ b.speed \in 0..MAX /\ k.speed \in 0..MAX
  BY <1>1, <1>2 DEF Datum, Node
<1>8. /\ rab \in 0..MAX /\ rak \in 0..MAX /\ rkb \in 0..MAX
      /\ rak <= rab \/ rkb <= rab
      /\ rab <= rak \/ rkb <= rak
      /\ rab <= rkb \/ rak <= rkb
  <2>1. a.info \in Host /\ b.info \in Host /\ k.info \in Host
    BY <1>1 DEF Node
  <2>2. R[<<b.info, k.info>>] = rkb /\ R[<<k.info, a.info>>] = rak
    BY <2>1 DEF Ultra
  <2> HIDE DEF rab, rak, rkb
  <2>3. rab <= rak \/ rkb <= rak
    BY <2>1, <2>2 DEF Ultra, rab, rak, rkb
  <2>4. rak <= rkb \/ rab <= rkb
    BY <2>1, <2>2 DEF Ultra, rab, rak, rkb
  <2>5. rak <= rab \/ rkb <= rab
    BY <2>1, <2>2 DEF Ultra, rab, rak, rkb
  <2>6. rab \in 0..MAX /\ rak \in 0..MAX /\ rkb \in 0..MAX
    BY <2>1 DEF Ultra, rab, rak, rkb
  <2> QED
    BY <2>3, <2>4, <2>5, <2>6
<1> HIDE DEF rab, rak, rkb
<1>9. s \in 0..MAX /\ s <= rab /\ s <= a.speed /\ s <= b.speed
  BY <1>1, <1>6, <1>7, <1>8 DEF Lesser
<1>10. s = rab \/ s >= Lesser(a.speed, b.speed)
  <2>1. CASE d1.speed < d2.speed
    BY <1>1, <1>6, <1>7, <1>8, <2>1 DEF Lesser
  <2>2. CASE d2.speed < d1.speed
    BY <1>1, <1>6, <1>7, <1>8, <2>2 DEF Lesser
  <2> QED
    BY <1>1, <1>3, <1>7, <2>1, <2>2
<1> HIDE DEF s
<1>11. e \in Datum
  BY <1>7, <1>9 DEF Datum
<1>12. KnownPair(R, e, a, b)
  BY <1>9, <1>10 DEF KnownPair, rab
<1> QED
  BY <1>11, <1>12 DEF s, d, d1, d2

-----------------------------------------------------------------------------
(***************************************************************************)
(* find_missing_from_me, node by node: the nodes examined are settled, or   *)
(* among the missing ones, whose links are not tested.                      *)
(***************************************************************************)
Accs(g) == [g : [c_graph : Matrix(g.c_graph.n, Datum), nodes : {g.nodes}], missing : Seq(g.nodes)]

\* After the nodes of order up to place k.
Examined(R, g, from, sufficient, order, k, acc) ==
  /\ acc \in Accs(g)
  /\ GraphIs(acc.g) /\ Known(R, acc.g) /\ SameNodes(g, acc.g) /\ TestsKept(g, acc.g)
  /\ \A x, y \in g.nodes : x # from /\ y # from => TestDataOf(acc.g, x, y) = TestDataOf(g, x, y)
  /\ \A m \in Range(acc.missing) :
       /\ m # from /\ ~TestDataOf(acc.g, from, m).tested
       /\ \E i \in 1..k : order[i] = m
  /\ \A i \in 1..k :
       \/ order[i] = from \/ order[i] \in Range(acc.missing)
       \/ SettledBy(R, TestDataOf(acc.g, from, order[i]), from, order[i], sufficient)

\* A node more in a sequence.
LEMMA AppendIs ==
  ASSUME NEW S, NEW s \in Seq(S), NEW x \in S
  PROVE  Append(s, x) \in Seq(S) /\ Range(Append(s, x)) = Range(s) \cup {x}
<1>1. Append(s, x) \in Seq(S) /\ Len(s) \in Nat /\ DOMAIN s = 1..Len(s)
      /\ DOMAIN Append(s, x) = 1..(Len(s) + 1)
      /\ \A i \in 1..(Len(s) + 1) :
           Append(s, x)[i] = IF i = Len(s) + 1 THEN x ELSE s[i]
  OBVIOUS
<1> DEFINE t == Append(s, x)
<1> HIDE DEF t
<1>2. Range(t) \subseteq Range(s) \cup {x}
  BY <1>1 DEF Range, t
<1>3. Range(s) \cup {x} \subseteq Range(t)
  <2>1. t[Len(s) + 1] = x /\ Len(s) + 1 \in DOMAIN t
    BY <1>1 DEF t
  <2>2. ASSUME NEW i \in DOMAIN s PROVE t[i] = s[i] /\ i \in DOMAIN t
    BY <1>1 DEF t
  <2> QED
    BY <2>1, <2>2 DEF Range
<1> QED
  BY <1>1, <1>2, <1>3 DEF t

\* What Examine does.
LEMMA ExamineCases ==
  ASSUME NEW acc, NEW from, NEW to, NEW sufficient, NEW order,
         NEW n \in Nat, order \in [1..n -> acc.g.nodes]
  PROVE  \/ /\ to = from \/ ~Unsure(acc.g, from, to, sufficient)
            /\ Examine(acc, from, to, sufficient, order) = acc
         \/ /\ to # from
            /\ \E k \in acc.g.nodes :
                 /\ Tells(acc.g, from, k, to)
                 /\ Examine(acc, from, to, sufficient, order)
                      = [acc EXCEPT !.g = Shortcut(acc.g, from, k, to)]
         \/ /\ to # from /\ Unsure(acc.g, from, to, sufficient)
            /\ Examine(acc, from, to, sufficient, order) = [acc EXCEPT !.missing = Append(@, to)]
<1> DEFINE ks == {i \in DOMAIN order : Tells(acc.g, from, order[i], to)}
<1>1. CASE to = from \/ ~Unsure(acc.g, from, to, sufficient)
  BY <1>1 DEF Examine
<1>2. CASE ~(to = from \/ ~Unsure(acc.g, from, to, sufficient)) /\ ks # {}
  <2>1. Min(ks) \in ks
    <3>1. ks \subseteq Nat
      OBVIOUS
    <3> HIDE DEF ks
    <3> QED
      BY <1>2, <3>1, MinIs
  <2>2. order[Min(ks)] \in acc.g.nodes /\ Tells(acc.g, from, order[Min(ks)], to)
    BY <2>1
  <2>3. Examine(acc, from, to, sufficient, order)
          = [acc EXCEPT !.g = Shortcut(acc.g, from, order[Min(ks)], to)]
    BY <1>2 DEF Examine
  <2> HIDE DEF ks
  <2> QED
    BY <1>2, <2>2, <2>3
<1>3. CASE ~(to = from \/ ~Unsure(acc.g, from, to, sufficient)) /\ ks = {}
  BY <1>3 DEF Examine
<1> QED
  BY <1>1, <1>2, <1>3

\* Examine keeps the types.
LEMMA ExamineType ==
  ASSUME NEW g, GraphIs(g), NEW acc \in Accs(g), NEW from \in g.nodes, NEW to \in g.nodes,
         NEW sufficient, NEW n \in Nat, NEW order \in [1..n -> g.nodes]
  PROVE  Examine(acc, from, to, sufficient, order) \in Accs(g)
<1> DEFINE N == g.c_graph.n
           e == Examine(acc, from, to, sufficient, order)
<1>0. /\ acc.g.c_graph \in Matrix(N, Datum) /\ acc.g.nodes = g.nodes /\ acc.missing \in Seq(g.nodes)
      /\ acc = [g |-> acc.g, missing |-> acc.missing]
      /\ acc.g = [c_graph |-> acc.g.c_graph, nodes |-> g.nodes]
      /\ N \in Nat /\ MAX \in Nat
  BY Setup DEF Accs, GraphIs
<1>1. \A x \in g.nodes : x.index \in Rows(N)
  BY NodeIs
<1> HIDE DEF N, e
<1>2. CASE e = acc
  BY <1>2 DEF e
<1>3. ASSUME NEW k \in g.nodes, e = [acc EXCEPT !.g = Shortcut(acc.g, from, k, to)]
      PROVE  e \in Accs(g)
  <2> DEFINE d == [limited |-> TestDataOf(acc.g, from, to).limited, tested |-> TRUE,
                   speed |-> Lesser(TestDataOf(acc.g, from, k).speed, TestDataOf(acc.g, k, to).speed)]
             t == Put(acc.g.c_graph, from.index, to.index, d)
  <2>1. /\ TestDataOf(acc.g, from, to) \in Datum /\ TestDataOf(acc.g, from, k) \in Datum
        /\ TestDataOf(acc.g, k, to) \in Datum
    BY <1>0, <1>1, AtType DEF TestDataOf
  <2>2. d \in Datum
    BY <1>0, <2>1 DEF Datum, Lesser
  <2>3. Shortcut(acc.g, from, k, to) = [acc.g EXCEPT !.c_graph = t]
    BY DEF Shortcut, SetTestData
  <2> HIDE DEF d
  <2>4. t \in Matrix(N, Datum)
    BY <1>0, <1>1, <2>2, PutAt
  <2> HIDE DEF t
  <2>5. Shortcut(acc.g, from, k, to) = [c_graph |-> t, nodes |-> g.nodes]
    BY <1>0, <2>3
  <2>6. e = [g |-> [c_graph |-> t, nodes |-> g.nodes], missing |-> acc.missing]
    BY <1>0, <1>3, <2>5
  <2> QED
    BY <1>0, <2>4, <2>6 DEF Accs, N
<1>4. CASE e = [acc EXCEPT !.missing = Append(@, to)]
  <2>1. e = [g |-> acc.g, missing |-> Append(acc.missing, to)]
    BY <1>0, <1>4
  <2>2. Append(acc.missing, to) \in Seq(g.nodes)
    BY <1>0
  <2> QED
    BY <1>0, <2>1, <2>2 DEF Accs, N, e
<1>5. order \in [1..n -> acc.g.nodes]
  BY <1>0
<1> QED
  BY <1>0, <1>2, <1>3, <1>4, <1>5, ExamineCases DEF e

\* Examine, at the next place.
LEMMA ExamineIs ==
  ASSUME NEW R, Ultra(R), NEW g, GraphIs(g), NEW from \in g.nodes, NEW sufficient \in Nat,
         NEW n \in Nat, NEW order \in [1..n -> g.nodes],
         \A i, j \in 1..n : i # j => order[i] # order[j],
         NEW k \in 1..n, NEW acc, Examined(R, g, from, sufficient, order, k - 1, acc)
  PROVE  Examined(R, g, from, sufficient, order, k,
                  Examine(acc, from, order[k], sufficient, order))
<1> DEFINE to == order[k]
           e == Examine(acc, from, to, sufficient, order)
<1>0. /\ acc \in Accs(g) /\ GraphIs(acc.g) /\ Known(R, acc.g)
      /\ SameNodes(g, acc.g) /\ TestsKept(g, acc.g)
      /\ \A x, y \in g.nodes :
           x # from /\ y # from => TestDataOf(acc.g, x, y) = TestDataOf(g, x, y)
      /\ \A m \in Range(acc.missing) :
           /\ m # from /\ ~TestDataOf(acc.g, from, m).tested
           /\ \E i \in 1..(k - 1) : order[i] = m
      /\ \A i \in 1..(k - 1) :
           \/ order[i] = from \/ order[i] \in Range(acc.missing)
           \/ SettledBy(R, TestDataOf(acc.g, from, order[i]), from, order[i], sufficient)
  BY DEF Examined
<1>1. /\ acc.g.nodes = g.nodes /\ acc.missing \in Seq(g.nodes)
      /\ acc = [g |-> acc.g, missing |-> acc.missing] /\ to \in g.nodes
  BY <1>0 DEF Accs, SameNodes
<1>2. e \in Accs(g)
  BY <1>0, <1>1, ExamineType
<1>3. \A i \in 1..(k - 1) : i \in 1..k /\ order[i] # to /\ order[i] \in g.nodes
  OBVIOUS
<1>4. \A i \in 1..k : i = k \/ i \in 1..(k - 1)
  OBVIOUS
<1>5. \A m \in Range(acc.missing) : m # to /\ m \in g.nodes
  BY <1>0, <1>3
<1> HIDE DEF e
<1>6. CASE e = acc /\ (to = from \/ ~Unsure(acc.g, from, to, sufficient))
  <2>1. to = from \/ SettledBy(R, TestDataOf(acc.g, from, to), from, to, sufficient)
    <3> DEFINE d == TestDataOf(acc.g, from, to)
    <3>1. CASE to = from
      BY <3>1
    <3>2. CASE to # from
      <4>1. d.tested \/ ~(d.speed < sufficient) \/ ~(d.speed < Lesser(from.speed, to.speed))
        BY <1>6, <3>2 DEF Unsure
      <4>2. KnownPair(R, d, from, to)
        BY <1>0, <1>1, <3>2 DEF Known, KnownIn, TestDataOf
      <4>3. d \in Datum /\ from \in Node /\ to \in Node /\ MAX \in Nat
        BY <1>0, <1>1, TestDataIs, NodeIs, Setup
      <4> HIDE DEF d
      <4>4. d.speed \in Int /\ Lesser(from.speed, to.speed) \in Int
        BY <4>3 DEF Datum, Node, Lesser
      <4>5. SettledBy(R, d, from, to, sufficient)
        BY <4>1, <4>2, <4>4 DEF SettledBy, KnownPair
      <4> QED
        BY <4>5 DEF d
    <3> QED
      BY <3>1, <3>2
  <2>2. \A i \in 1..k :
          \/ order[i] = from \/ order[i] \in Range(acc.missing)
          \/ SettledBy(R, TestDataOf(acc.g, from, order[i]), from, order[i], sufficient)
    BY <1>0, <1>4, <2>1
  <2>3. \A m \in Range(acc.missing) : \E i \in 1..k : order[i] = m
    BY <1>0, <1>3
  <2>4. Examined(R, g, from, sufficient, order, k, acc)
    BY <1>0, <2>2, <2>3 DEF Examined
  <2> QED
    BY <1>6, <2>4 DEF e
<1>7. ASSUME to # from, NEW b \in g.nodes, Tells(acc.g, from, b, to),
             e = [acc EXCEPT !.g = Shortcut(acc.g, from, b, to)]
      PROVE  Examined(R, g, from, sufficient, order, k, e)
  <2> DEFINE d == [limited |-> TestDataOf(acc.g, from, to).limited, tested |-> TRUE,
                   speed |-> Lesser(TestDataOf(acc.g, from, b).speed, TestDataOf(acc.g, b, to).speed)]
             h == Shortcut(acc.g, from, b, to)
  <2>1. d \in Datum /\ KnownPair(R, d, from, to)
    BY <1>0, <1>1, <1>7, TellsRight
  <2>2. d.tested
    OBVIOUS
  <2>3. h = SetTestData(acc.g, from, to, d)
    BY DEF Shortcut
  <2> HIDE DEF d, h
  <2>4. /\ GraphIs(h) /\ Known(R, h) /\ SameNodes(acc.g, h)
        /\ \A x, y \in acc.g.nodes :
             TestDataOf(h, x, y) =
               IF (x = from /\ y = to) \/ (x = to /\ y = from) THEN d ELSE TestDataOf(acc.g, x, y)
    BY <1>0, <1>1, <1>7, <2>1, <2>3, SetTestDataIs
  <2>5. e.g = h /\ e.missing = acc.missing
    BY <1>1, <1>7 DEF h
  <2>6. SameNodes(g, h)
    BY <1>0, <2>4 DEF SameNodes
  <2>7. TestsKept(g, h)
    BY <1>0, <1>1, <2>2, <2>4 DEF TestsKept
  <2>8. \A x, y \in g.nodes : x # from /\ y # from => TestDataOf(h, x, y) = TestDataOf(g, x, y)
    BY <1>0, <1>1, <2>4
  <2>9. \A m \in Range(acc.missing) :
          /\ m # from /\ ~TestDataOf(h, from, m).tested
          /\ \E i \in 1..k : order[i] = m
    <3> TAKE m \in Range(acc.missing)
    <3>1. m # from /\ ~TestDataOf(acc.g, from, m).tested /\ m # to /\ m \in g.nodes
      BY <1>0, <1>5
    <3>2. TestDataOf(h, from, m) = TestDataOf(acc.g, from, m)
      BY <1>1, <2>4, <3>1
    <3>3. \E i \in 1..k : order[i] = m
      BY <1>0, <1>3
    <3> QED
      BY <3>1, <3>2, <3>3
  <2>10. SettledBy(R, TestDataOf(h, from, to), from, to, sufficient)
    <3>1. TestDataOf(h, from, to) = d
      BY <1>1, <2>4
    <3> QED
      BY <2>1, <2>2, <3>1 DEF SettledBy, KnownPair
  <2>11. ASSUME NEW i \in 1..(k - 1)
         PROVE  \/ order[i] = from \/ order[i] \in Range(acc.missing)
                \/ SettledBy(R, TestDataOf(h, from, order[i]), from, order[i], sufficient)
    <3>1. order[i] = from \/ TestDataOf(h, from, order[i]) = TestDataOf(acc.g, from, order[i])
      BY <1>1, <1>3, <2>4
    <3> QED
      BY <1>0, <3>1
  <2>12. \A i \in 1..k :
           \/ order[i] = from \/ order[i] \in Range(acc.missing)
           \/ SettledBy(R, TestDataOf(h, from, order[i]), from, order[i], sufficient)
    BY <1>4, <2>10, <2>11
  <2> QED
    BY <1>2, <2>4, <2>5, <2>6, <2>7, <2>8, <2>9, <2>12 DEF Examined
<1>8. ASSUME to # from, Unsure(acc.g, from, to, sufficient),
             e = [acc EXCEPT !.missing = Append(@, to)]
      PROVE  Examined(R, g, from, sufficient, order, k, e)
  <2>1. e.g = acc.g /\ e.missing = Append(acc.missing, to)
    BY <1>1, <1>8
  <2>2. Range(e.missing) = Range(acc.missing) \cup {to}
    BY <1>1, <2>1, AppendIs
  <2>3. ~TestDataOf(acc.g, from, to).tested
    BY <1>8 DEF Unsure
  <2>4. k \in 1..k
    OBVIOUS
  <2>5. \A m \in Range(e.missing) :
          /\ m # from /\ ~TestDataOf(e.g, from, m).tested
          /\ \E i \in 1..k : order[i] = m
    BY <1>0, <1>3, <1>8, <2>1, <2>2, <2>3, <2>4
  <2>6. \A i \in 1..k :
          \/ order[i] = from \/ order[i] \in Range(e.missing)
          \/ SettledBy(R, TestDataOf(e.g, from, order[i]), from, order[i], sufficient)
    BY <1>0, <1>4, <2>1, <2>2
  <2> QED
    BY <1>0, <1>2, <2>1, <2>5, <2>6 DEF Examined
<1>9. order \in [1..n -> acc.g.nodes]
  BY <1>1
<1> QED
  BY <1>1, <1>6, <1>7, <1>8, <1>9, ExamineCases DEF e

\* The fold over the nodes in their order.
LEMMA ExaminedAll ==
  ASSUME NEW R, Ultra(R), NEW g, GraphIs(g), Known(R, g), NEW from \in g.nodes,
         NEW sufficient \in Nat, NEW n \in Nat, NEW order \in [1..n -> g.nodes],
         \A i, j \in 1..n : i # j => order[i] # order[j]
  PROVE  Examined(R, g, from, sufficient, order, n, find_missing_from_me(g, from, sufficient, order))
<1> DEFINE D == DOMAIN order
           V == Accs(g)
           base == [g |-> g, missing |-> <<>>]
           examine(acc, to) == Examine(acc, from, to, sufficient, order)
           Body(H, s) == IF s = {} THEN base ELSE examine(H[s \ {Max(s)}], order[Max(s)])
           Is(H) == H = [s \in SUBSET D |-> Body(H, s)]
           H == CHOOSE H : Is(H)
           pick == [s \in (SUBSET D) \ {{}} |-> Max(s)]
           G == [i \in D |-> [v \in V |-> examine(v, order[i])]]
           At0(k, acc) == Examined(R, g, from, sufficient, order, k, acc)
<1>1. D = 1..n /\ IsFiniteSet(D)
  BY FS_Interval
<1>2. /\ \A s \in SUBSET D : s # {} => Max(s) \in s
      /\ \A k \in D : Max(1..k) = k
  <2> HIDE DEF D
  <2> QED
    BY <1>1, FoldOrder
<1>3. ASSUME NEW i \in D, NEW v \in V PROVE examine(v, order[i]) \in V
  BY ExamineType
<1>4. At0(0, base) /\ base \in V
  <2>1. <<>> \in Seq(g.nodes) /\ Range(<<>>) = {}
    BY DEF Range
  <2>2. base.g = g /\ base.missing = <<>> /\ g \in [c_graph : Matrix(g.c_graph.n, Datum), nodes : {g.nodes}]
    BY DEF GraphIs
  <2>3. base \in V
    BY <2>1, <2>2 DEF Accs
  <2>4. 1..0 = {}
    OBVIOUS
  <2> HIDE DEF base
  <2> QED
    BY <2>1, <2>2, <2>3, <2>4 DEF Examined, SameNodes, TestsKept
<1>5. ASSUME NEW k \in D, NEW acc, At0(k - 1, acc) PROVE At0(k, examine(acc, order[k]))
  <2>1. k \in 1..n
    BY <1>1
  <2> QED
    BY <1>5, <2>1, ExamineIs
<1>6. find_missing_from_me(g, from, sufficient, order) = H[D]
  BY DEF find_missing_from_me, FoldLeft, MapThenFoldSet
<1> HIDE DEF V, D, examine, base, At0
<1>7. G \in Steps(D, V) /\ pick \in Picks(D)
  BY <1>2, <1>3 DEF Steps, Picks
<1>8. PICK F : F \in Folded(D, V, base, pick, G)
  <2> HIDE DEF G, pick
  <2> QED
    BY <1>1, <1>4, <1>7, FoldExists
<1>9. \E K : Is(K)
  <2>0. /\ F \in [SUBSET D -> V]
        /\ \A s \in SUBSET D : F[s] = IF s = {} THEN base ELSE G[pick[s]][F[s \ {pick[s]}]]
    <3> HIDE DEF G, pick
    <3> QED
      BY <1>8 DEF Folded
  <2>1. ASSUME NEW s \in SUBSET D PROVE F[s] = Body(F, s)
    <3>1. CASE s = {}
      BY <2>0, <3>1
    <3>2. CASE s # {}
      <4>1. pick[s] = Max(s) /\ Max(s) \in D /\ s \ {Max(s)} \in SUBSET D
        BY <1>2, <3>2
      <4>2. F[s \ {Max(s)}] \in V
        BY <2>0, <4>1
      <4>3. F[s] = G[Max(s)][F[s \ {Max(s)}]]
        <5> HIDE DEF G, pick
        <5> QED
          BY <2>0, <3>2, <4>1
      <4> QED
        BY <3>2, <4>1, <4>2, <4>3
    <3> QED
      BY <3>1, <3>2
  <2> HIDE DEF Body
  <2>2. F = [s \in SUBSET D |-> Body(F, s)]
    BY <2>0, <2>1
  <2> QED
    BY <2>2
<1>10. Is(H)
  <2> HIDE DEF Is
  <2> QED
    BY <1>9
<1>11. \A s \in SUBSET D : H[s] = Body(H, s)
  <2> HIDE DEF H, Body
  <2> QED
    BY <1>10
<1> HIDE DEF H
<1> DEFINE P == {s \in SUBSET D : \A k \in 0..n : s = 1..k => At0(k, H[s])}
<1>12. ASSUME NEW s \in SUBSET D, \A t \in SUBSET D : t \subseteq s /\ t # s => t \in P
       PROVE  s \in P
  <2>1. SUFFICES ASSUME NEW k \in 0..n, s = 1..k PROVE At0(k, H[s])
    OBVIOUS
  <2>2. CASE k = 0
    <3>1. s = {}
      BY <2>1, <2>2
    <3>2. H[s] = base
      BY <1>11, <3>1
    <3> QED
      BY <1>4, <2>2, <3>2
  <2>3. CASE k # 0
    <3> DEFINE t == s \ {k}
    <3>1. k \in D /\ k \in 1..n /\ k - 1 \in 0..n /\ s # {} /\ Max(s) = k
      <4>1. k \in 1..n /\ k - 1 \in 0..n /\ k \in s
        BY <2>1, <2>3
      <4>2. k \in D
        BY <1>1, <4>1
      <4> QED
        BY <1>2, <2>1, <4>1, <4>2
    <3>2. t = 1..(k - 1) /\ t \subseteq s /\ t # s /\ t \in SUBSET D
      BY <2>1, <3>1
    <3>3. H[s] = examine(H[t], order[k])
      BY <1>11, <3>1
    <3> HIDE DEF t
    <3>4. At0(k - 1, H[t])
      BY <1>12, <3>1, <3>2
    <3> QED
      BY <1>5, <3>1, <3>3, <3>4
  <2> QED
    BY <2>2, <2>3
<1>13. \A s \in SUBSET D : s \in P
  <2>1. IsFiniteSet(D)
    BY <1>1
  <2> HIDE DEF P
  <2> QED
    BY <1>12, <2>1, SubsetInduction
<1>14. D \in SUBSET D /\ D = 1..n /\ n \in 0..n
  BY <1>1
<1>15. At0(n, H[D])
  BY <1>13, <1>14
<1> QED
  BY <1>6, <1>15 DEF At0

\* find_missing_from_me: what it settles is settled rightly, and what it leaves to
\* be tested was not tested before.
THEOREM MissingRight ==
  ASSUME NEW R, Ultra(R), NEW g, GraphIs(g), Known(R, g), IsFiniteSet(g.nodes),
         NEW from \in g.nodes, NEW sufficient \in Nat, NEW order \in SetToSeqs(g.nodes)
  PROVE  LET f == find_missing_from_me(g, from, sufficient, order)
         IN  /\ GraphIs(f.g) /\ Known(R, f.g) /\ SameNodes(g, f.g) /\ TestsKept(g, f.g)
             /\ \A x, y \in g.nodes :
                  x # from /\ y # from => TestDataOf(f.g, x, y) = TestDataOf(g, x, y)
             /\ f.missing \in Seq(g.nodes)
             /\ \A m \in Range(f.missing) :
                  m # from /\ m \in g.nodes /\ ~TestDataOf(f.g, from, m).tested
             /\ f.missing = <<>> =>
                  \A m \in g.nodes \ {from} :
                    SettledBy(R, TestDataOf(f.g, from, m), from, m, sufficient)
<1> DEFINE n == Cardinality(g.nodes)
           f == find_missing_from_me(g, from, sufficient, order)
<1>1. n \in Nat /\ order \in [1..n -> g.nodes] /\ \A i, j \in 1..n : i # j => order[i] # order[j]
  BY OrderIs
<1> HIDE DEF n
<1>2. \A m \in g.nodes : \E i \in 1..n : order[i] = m
  <2>1. order \in Injection(1..n, g.nodes)
    BY <1>1 DEF Injection, IsInjective
  <2>2. Cardinality(1..n) = n /\ IsFiniteSet(1..n)
    BY <1>1, FS_Interval
  <2>3. order \in Surjection(1..n, g.nodes)
    BY <2>1, <2>2, FS_Injection DEF n
  <2> QED
    BY <2>3 DEF Surjection
<1>3. Examined(R, g, from, sufficient, order, n, f)
  BY <1>1, ExaminedAll
<1> HIDE DEF f
<1>4. f.missing \in Seq(g.nodes)
  BY <1>3 DEF Examined, Accs
<1>5. \A m \in Range(f.missing) : m # from /\ m \in g.nodes /\ ~TestDataOf(f.g, from, m).tested
  BY <1>1, <1>3 DEF Examined
<1>6. ASSUME f.missing = <<>>, NEW m \in g.nodes \ {from}
      PROVE  SettledBy(R, TestDataOf(f.g, from, m), from, m, sufficient)
  <2>1. PICK i \in 1..n : order[i] = m
    BY <1>2
  <2>2. Range(f.missing) = {}
    BY <1>6 DEF Range
  <2> QED
    BY <1>3, <2>1, <2>2 DEF Examined
<1> QED
  BY <1>3, <1>4, <1>5, <1>6 DEF Examined, f

\* Of the missing nodes one is the fastest.
LEMMA FastestIs ==
  ASSUME NEW missing \in Seq(Node), missing # <<>>
  PROVE  Fastest(missing) \in Range(missing)
<1> DEFINE n == Len(missing)
           left(i) == MAX - missing[i].speed
           T == {left(i) : i \in 1..n}
           fastest == {i \in DOMAIN missing :
                         \A j \in DOMAIN missing : missing[j].speed <= missing[i].speed}
<1>1. n \in Nat /\ n > 0 /\ DOMAIN missing = 1..n /\ MAX \in Nat
  BY Setup
<1>2. \A i \in 1..n : missing[i].speed \in 0..MAX
  <2>1. \A i \in 1..n : missing[i] \in Node
    OBVIOUS
  <2> QED
    BY <2>1 DEF Node
<1> HIDE DEF n
<1>3. T \subseteq Nat /\ T # {}
  BY <1>1, <1>2
<1>4. PICK x \in T : \A y \in T : x <= y
  <2> HIDE DEF T
  <2> QED
    BY <1>3, NatMin
<1>5. PICK i \in 1..n : x = left(i)
  OBVIOUS
<1>6. ASSUME NEW j \in 1..n PROVE missing[j].speed <= missing[i].speed
  <2>1. left(j) \in T /\ left(i) <= left(j)
    BY <1>4, <1>5
  <2>2. missing[j].speed \in 0..MAX /\ missing[i].speed \in 0..MAX
    BY <1>2
  <2> QED
    BY <1>1, <2>1, <2>2
<1>7. i \in fastest /\ fastest \in SUBSET (1..n)
  BY <1>1, <1>6
<1> HIDE DEF fastest
<1>8. Max(fastest) \in fastest
  BY <1>1, <1>7, MaxOfIndices
<1>9. Fastest(missing) = missing[Max(fastest)]
  BY DEF Fastest, fastest
<1> QED
  BY <1>1, <1>7, <1>8, <1>9 DEF Range

-----------------------------------------------------------------------------
(***************************************************************************)
(* Nodes that come and go.                                                  *)
(***************************************************************************)
\* CGraph::new
LEMMA EmptyGraphIs ==
  /\ GraphIs(EmptyGraph) /\ Infos(EmptyGraph) = {} /\ EmptyGraph.nodes = {}
  /\ \A R : Known(R, EmptyGraph)
  /\ \A R, H : SettledAmong(R, EmptyGraph, H)
<1>1. (0 * (0 + 1)) \div 2 - 1 = -1 /\ Cells(0) - 1 = -1
  BY DEF Cells
<1>2. 0..-1 = {} /\ Rows(0) = {}
  BY DEF Rows
<1> DEFINE m == EmptyGraph.c_graph
<1>3. m.n = 0 /\ m = [n |-> 0, data |-> m.data] /\ m.data \in [0..-1 -> Datum]
  <2>1. m = [n |-> 0, data |-> [i \in 0..((0 * (0 + 1)) \div 2 - 1) |->
               LET rc == in_to_out_index(i, 0) IN DefaultTestData(rc[1], rc[2])]]
    BY DEF EmptyGraph, new_fn
  <2> HIDE DEF m
  <2> QED
    BY <1>1, <1>2, <2>1
<1>4. EmptyGraph = [c_graph |-> m, nodes |-> {}]
  BY DEF EmptyGraph
<1> HIDE DEF m
<1>5. GraphIs(EmptyGraph)
  BY <1>1, <1>2, <1>3, <1>4 DEF GraphIs, Diagonal, Matrix
<1> QED
  BY <1>4, <1>5 DEF Infos, Known, KnownIn, SettledAmong

DefaultDatum == DefaultTestData(0, 0)

\* grow_fn with a row of default data.
LEMMA GrowIs ==
  ASSUME NEW n \in Nat, NEW m \in Matrix(n, Datum)
  PROVE  /\ grow_fn(m, 1, DefaultTestData) \in Matrix(n + 1, Datum)
         /\ \A r, c \in Rows(n + 1) :
              At(grow_fn(m, 1, DefaultTestData), r, c)
                = IF r = n \/ c = n THEN DefaultDatum ELSE At(m, r, c)
<1> DEFINE k == n + 1
           val(r, c) == IF r >= n \/ c >= n THEN DefaultDatum ELSE At(m, r, c)
           f == [p \in Rows(k) \X Rows(k) |-> val(p[1], p[2])]
           t == grow_fn(m, 1, DefaultTestData)
<1>1. k \in Nat /\ m.n = n /\ DefaultDatum \in Datum
  BY Setup DEF Matrix, DefaultDatum, DefaultTestData, Datum
<1>2. ASSUME NEW r \in Rows(k), NEW c \in Rows(k)
      PROVE  /\ f[<<r, c>>] = val(r, c) /\ f[<<r, c>>] \in Datum /\ f[<<r, c>>] = f[<<c, r>>]
             /\ val(r, c) = IF r = n \/ c = n THEN DefaultDatum ELSE At(m, r, c)
  <2>1. f[<<r, c>>] = val(r, c) /\ f[<<c, r>>] = val(c, r)
    OBVIOUS
  <2>2. (r >= n <=> r = n) /\ (c >= n <=> c = n) /\ (r # n => r \in Rows(n)) /\ (c # n => c \in Rows(n))
    BY DEF Rows
  <2>3. CASE r = n \/ c = n
    BY <1>1, <2>1, <2>2, <2>3
  <2>4. CASE ~(r = n \/ c = n)
    <3>1. At(m, r, c) \in Datum /\ At(m, r, c) = At(m, c, r)
      BY <1>1, <2>2, <2>4, AtType, AtSymmetric
    <3> QED
      BY <2>1, <2>2, <2>4, <3>1
  <2> QED
    BY <2>3, <2>4
<1>3. t = [n |-> k, data |-> [i \in 0..(Cells(k) - 1) |-> f[in_to_out_index(i, k)]]]
  <2>1. t = [n |-> k, data |-> [i \in 0..(Cells(k) - 1) |->
          LET rc == in_to_out_index(i, k) IN val(rc[1], rc[2])]]
    BY <1>1 DEF grow_fn, new_fn, Cells, DefaultDatum, DefaultTestData
  <2>2. ASSUME NEW i \in 0..(Cells(k) - 1)
        PROVE  f[in_to_out_index(i, k)]
                 = LET rc == in_to_out_index(i, k) IN val(rc[1], rc[2])
    <3>1. PICK row, col \in Rows(k) : in_to_out_index(i, k) = <<row, col>>
      BY <1>1, PlaceInverse
    <3> HIDE DEF val
    <3> QED
      BY <3>1
  <2> HIDE DEF f, t, val
  <2> QED
    BY <2>1, <2>2
<1> HIDE DEF f, t, val, k
<1>4. /\ t \in Matrix(k, Datum)
      /\ \A r, c \in Rows(k) : At(t, r, c) = IF r > c THEN f[<<c, r>>] ELSE f[<<r, c>>]
  <2>1. \A r, c \in Rows(k) : r <= c => f[<<r, c>>] \in Datum
    BY <1>2
  <2>2. Tabulates(t, k, f)
    BY <1>3 DEF Tabulates
  <2> QED
    BY <1>1, <2>1, <2>2, NewFnAt
<1>5. \A r, c \in Rows(k) : At(t, r, c) = IF r = n \/ c = n THEN DefaultDatum ELSE At(m, r, c)
  <2> TAKE r, c \in Rows(k)
  <2>1. /\ f[<<r, c>>] = val(r, c) /\ f[<<c, r>>] = f[<<r, c>>]
        /\ val(r, c) = IF r = n \/ c = n THEN DefaultDatum ELSE At(m, r, c)
    BY <1>2
  <2>2. At(t, r, c) = IF r > c THEN f[<<c, r>>] ELSE f[<<r, c>>]
    BY <1>4
  <2> QED
    BY <2>1, <2>2
<1> QED
  BY <1>4, <1>5 DEF t, k

\* add_node, of a host that is not in the graph: the others keep their rows and
\* what is known of them.
LEMMA AddNodeIs ==
  ASSUME NEW R, Ultra(R), NEW g, GraphIs(g), Known(R, g),
         NEW h \in Host, h \notin Infos(g), NEW speed \in 0..MAX
  PROVE  LET t == add_node(g, speed, h)
         IN  /\ GraphIs(t) /\ Known(R, t) /\ Infos(t) = Infos(g) \cup {h}
             /\ g.nodes \subseteq t.nodes
             /\ \A x, y \in g.nodes : TestDataOf(t, x, y) = TestDataOf(g, x, y)
             /\ \A x \in t.nodes : x.info \in Infos(g) => x \in g.nodes
<1> DEFINE n == g.c_graph.n
           grown == grow_fn(g.c_graph, 1, DefaultTestData)
           self == [limited |-> TRUE, tested |-> FALSE, speed |-> MAX]
           m == Put(grown, n, n, self)
           new == [index |-> n, speed |-> speed, info |-> h]
           t == add_node(g, speed, h)
<1>1. /\ n \in Nat /\ g.c_graph \in Matrix(n, Datum) /\ MAX \in Nat
      /\ g.nodes \subseteq Node /\ {a.index : a \in g.nodes} = Rows(n)
      /\ \A a, b \in g.nodes : a.index = b.index \/ a.info = b.info => a = b
      /\ Diagonal(g.c_graph) /\ g.c_graph.n = n
  BY Setup DEF GraphIs
<1>2. self \in Datum /\ new \in Node
  BY <1>1 DEF Datum, Node
<1>3. t = [c_graph |-> m, nodes |-> g.nodes \cup {new}]
  BY DEF add_node
<1>4. new.index = n /\ new.info = h /\ self.speed = MAX /\ new.speed = speed
  OBVIOUS
<1> HIDE DEF n, t, self, new, grown
<1>5. /\ grown \in Matrix(n + 1, Datum)
      /\ \A r, c \in Rows(n + 1) :
           At(grown, r, c) = IF r = n \/ c = n THEN DefaultDatum ELSE At(g.c_graph, r, c)
  BY <1>1, GrowIs DEF grown
<1>6. n + 1 \in Nat /\ n \in Rows(n + 1)
  BY <1>1 DEF Rows
<1>7. /\ m \in Matrix(n + 1, Datum)
      /\ \A r, c \in Rows(n + 1) :
           At(m, r, c) = IF r = n /\ c = n THEN self
                         ELSE IF r = n \/ c = n THEN DefaultDatum ELSE At(g.c_graph, r, c)
  <2>1. /\ m \in Matrix(n + 1, Datum)
        /\ \A r, c \in Rows(n + 1) :
             At(m, r, c) = IF (r = n /\ c = n) \/ (r = n /\ c = n) THEN self ELSE At(grown, r, c)
    BY <1>2, <1>5, <1>6, PutAt
  <2> QED
    BY <1>5, <2>1
<1>8. m.n = n + 1
  BY <1>7 DEF Matrix
<1> HIDE DEF m
<1>9. \A r : r \in Rows(n + 1) <=> r \in Rows(n) \/ r = n
  BY <1>1 DEF Rows
<1>10. n \notin Rows(n)
  BY <1>1 DEF Rows
<1>11. \A x \in g.nodes : x.index \in Rows(n) /\ x.info # h
  BY <1>1 DEF Infos
<1>12. GraphIs(t)
  <2>1. {a.index : a \in t.nodes} = Rows(n + 1)
    <3>1. \A r \in Rows(n) : \E a \in g.nodes : a.index = r
      BY <1>1
    <3> QED
      BY <1>3, <1>4, <1>9, <1>11, <3>1
  <2>2. \A a, b \in t.nodes : a.index = b.index \/ a.info = b.info => a = b
    BY <1>1, <1>3, <1>4, <1>10, <1>11
  <2>3. Diagonal(m)
    BY <1>1, <1>4, <1>7, <1>8, <1>9 DEF Diagonal
  <2>4. t.nodes \subseteq Node
    BY <1>1, <1>2, <1>3
  <2> QED
    BY <1>3, <1>6, <1>7, <1>8, <2>1, <2>2, <2>3, <2>4 DEF GraphIs
<1>13. \A x, y \in g.nodes : TestDataOf(t, x, y) = TestDataOf(g, x, y)
  BY <1>3, <1>7, <1>9, <1>10, <1>11 DEF TestDataOf
<1>14. Known(R, t)
  <2> SUFFICES ASSUME NEW x \in t.nodes, NEW y \in t.nodes, x # y
               PROVE  KnownPair(R, At(m, x.index, y.index), x, y)
    BY <1>3 DEF Known, KnownIn
  <2>1. CASE x \in g.nodes /\ y \in g.nodes
    <3>1. At(m, x.index, y.index) = At(g.c_graph, x.index, y.index)
      BY <1>3, <1>13, <2>1 DEF TestDataOf
    <3> QED
      BY <2>1, <3>1 DEF Known, KnownIn
  <2>2. CASE ~(x \in g.nodes /\ y \in g.nodes)
    <3>1. x = new \/ y = new
      BY <1>3, <2>2
    <3>2. At(m, x.index, y.index) = DefaultDatum
      BY <1>3, <1>4, <1>7, <1>9, <1>10, <1>11, <3>1
    <3>3. x \in Node /\ y \in Node
      BY <1>12 DEF GraphIs
    <3>4. x.speed \in 0..MAX /\ y.speed \in 0..MAX /\ R[<<x.info, y.info>>] \in 0..MAX
      BY <3>3 DEF Node, Ultra
    <3> QED
      BY <1>1, <3>2, <3>4 DEF KnownPair, DefaultDatum, DefaultTestData
  <2> QED
    BY <2>1, <2>2
<1>15. Infos(t) = Infos(g) \cup {h} /\ g.nodes \subseteq t.nodes
  BY <1>3, <1>4 DEF Infos
<1>16. \A x \in t.nodes : x.info \in Infos(g) => x \in g.nodes
  BY <1>3, <1>4
<1> QED
  BY <1>12, <1>13, <1>14, <1>15, <1>16 DEF t

\* remove_one_by: the nodes that stay are told by their names, and what is known
\* of them is found at their new rows.
LEMMA RemoveNodeIs ==
  ASSUME NEW R, Ultra(R), NEW g, GraphIs(g), Known(R, g), NEW h \in Infos(g)
  PROVE  LET t == remove_one_by(g, h)
         IN  /\ GraphIs(t) /\ Known(R, t) /\ Infos(t) = Infos(g) \ {h}
             /\ \A x \in t.nodes : \E u \in g.nodes : u.info = x.info /\ u.speed = x.speed
             /\ \A x, y \in t.nodes, u, v \in g.nodes :
                  x.info = u.info /\ y.info = v.info => TestDataOf(t, x, y) = TestDataOf(g, u, v)
<1> DEFINE n == g.c_graph.n
           node == NodeOf(g, h)
           id == node.index
           m == remove_id(g.c_graph, id)
           down(i) == IF i > id THEN i - 1 ELSE i
           up(r) == IF r >= id THEN r + 1 ELSE r
           moved(u) == [index |-> down(u.index), speed |-> u.speed, info |-> u.info]
           stay == g.nodes \ {node}
           t == remove_one_by(g, h)
<1>1. /\ n \in Nat /\ g.c_graph \in Matrix(n, Datum) /\ MAX \in Nat
      /\ g.nodes \subseteq Node /\ {a.index : a \in g.nodes} = Rows(n)
      /\ \A a, b \in g.nodes : a.index = b.index \/ a.info = b.info => a = b
      /\ Diagonal(g.c_graph) /\ g.c_graph.n = n
  BY Setup DEF GraphIs
<1>2. node \in g.nodes /\ node.info = h /\ id \in Rows(n)
  BY NodeIs
<1>3. t = [c_graph |-> m, nodes |-> {moved(u) : u \in stay}]
  <2>1. t = [c_graph |-> m,
             nodes |-> {[u EXCEPT !.index = IF @ > id THEN @ - 1 ELSE @] : u \in stay}]
    BY DEF remove_one_by
  <2>2. ASSUME NEW u \in stay
        PROVE  [u EXCEPT !.index = IF @ > id THEN @ - 1 ELSE @] = moved(u)
    <3>1. u \in Node
      BY <1>1
    <3> HIDE DEF id
    <3> QED
      BY <3>1 DEF Node
  <2> HIDE DEF t, m, id, stay, moved
  <2> QED
    BY <2>1, <2>2
<1> HIDE DEF n, node, id, m, t
<1>4. n \in Nat /\ n > 0 /\ n - 1 \in Nat /\ id \in 0..(n - 1)
  BY <1>1, <1>2 DEF Rows
<1>5. ASSUME NEW u \in stay
      PROVE  /\ down(u.index) \in Rows(n - 1) /\ up(down(u.index)) = u.index
             /\ moved(u).index = down(u.index) /\ moved(u).info = u.info
             /\ moved(u).speed = u.speed /\ moved(u) \in Node /\ u \in g.nodes /\ u.info # h
  <2>1. u.index \in Rows(n) /\ u.index # id /\ u \in Node /\ u.info # h
    BY <1>1, <1>2 DEF id
  <2>2. u.index \in 0..(n - 1) /\ u.index # id
    BY <2>1 DEF Rows
  <2>3. down(u.index) \in 0..(n - 2) /\ up(down(u.index)) = u.index /\ n - 1 - 1 = n - 2
    BY <1>4, <2>2
  <2>4. down(u.index) \in Rows(n - 1)
    BY <2>3 DEF Rows
  <2>5. down(u.index) \in Nat
    BY <1>4, <2>3
  <2> HIDE DEF down
  <2> QED
    BY <2>1, <2>3, <2>4, <2>5 DEF Node
<1>6. ASSUME NEW r \in Rows(n - 1)
      PROVE  up(r) \in Rows(n) /\ down(up(r)) = r /\ \E u \in stay : moved(u).index = r
  <2>1. r \in 0..(n - 2)
    BY <1>4 DEF Rows
  <2>2. up(r) \in 0..(n - 1) /\ down(up(r)) = r /\ up(r) # id
    BY <1>4, <2>1
  <2>3. up(r) \in Rows(n)
    BY <2>2 DEF Rows
  <2>4. PICK u \in g.nodes : u.index = up(r)
    BY <1>1, <2>3
  <2>5. u \in stay
    BY <2>2, <2>4 DEF id
  <2> QED
    BY <2>2, <2>3, <2>4, <2>5
<1>7. /\ m \in Matrix(n - 1, Datum)
      /\ \A r, c \in Rows(n - 1) : At(m, r, c) = At(g.c_graph, up(r), up(c))
  <2>1. g.c_graph \in Matrix(n, Datum) /\ id \in Rows(n)
    BY <1>1, <1>2
  <2> QED
    BY <1>4, <2>1, RemoveIdAt DEF m
<1>8. m.n = n - 1
  BY <1>7 DEF Matrix
<1> HIDE DEF up, down, moved, stay
<1>9. \A u, v \in stay : TestDataOf(t, moved(u), moved(v)) = TestDataOf(g, u, v)
  BY <1>3, <1>5, <1>7 DEF TestDataOf
<1>10. \A x \in t.nodes : \E u \in stay : x = moved(u)
  BY <1>3
<1>11. GraphIs(t)
  <2>1. {a.index : a \in t.nodes} = Rows(n - 1)
    <3>1. \A a \in t.nodes : a.index \in Rows(n - 1)
      BY <1>5, <1>10
    <3>2. \A r \in Rows(n - 1) : \E a \in t.nodes : a.index = r
      BY <1>3, <1>6
    <3> QED
      BY <3>1, <3>2
  <2>2. \A a, b \in t.nodes : a.index = b.index \/ a.info = b.info => a = b
    <3> SUFFICES ASSUME NEW u \in stay, NEW v \in stay,
                        moved(u).index = moved(v).index \/ moved(u).info = moved(v).info
                 PROVE  moved(u) = moved(v)
      BY <1>10
    <3>1. u.index = v.index \/ u.info = v.info
      BY <1>5
    <3>2. u \in g.nodes /\ v \in g.nodes
      BY <1>5
    <3> QED
      BY <1>1, <3>1, <3>2
  <2>3. Diagonal(m)
    BY <1>1, <1>6, <1>7, <1>8 DEF Diagonal
  <2>4. t.nodes \subseteq Node
    BY <1>5, <1>10
  <2> QED
    BY <1>3, <1>4, <1>7, <1>8, <2>1, <2>2, <2>3, <2>4 DEF GraphIs
<1>12. Known(R, t)
  <2> SUFFICES ASSUME NEW x \in t.nodes, NEW y \in t.nodes, x # y
               PROVE  KnownPair(R, TestDataOf(t, x, y), x, y)
    BY DEF Known, KnownIn, TestDataOf
  <2>1. PICK u \in stay : x = moved(u)
    BY <1>10
  <2>2. PICK v \in stay : y = moved(v)
    BY <1>10
  <2>3. u # v /\ u \in g.nodes /\ v \in g.nodes /\ TestDataOf(t, x, y) = TestDataOf(g, u, v)
        /\ x.info = u.info /\ x.speed = u.speed /\ y.info = v.info /\ y.speed = v.speed
    BY <1>5, <1>9, <2>1, <2>2
  <2>4. KnownPair(R, TestDataOf(g, u, v), u, v)
    BY <2>3 DEF Known, KnownIn, TestDataOf
  <2> QED
    BY <2>3, <2>4 DEF KnownPair
<1>13. Infos(t) = Infos(g) \ {h}
  <2>1. \A i \in Infos(t) : i \in Infos(g) /\ i # h
    BY <1>5, <1>10 DEF Infos
  <2>2. ASSUME NEW i \in Infos(g), i # h PROVE i \in Infos(t)
    <3>1. PICK u \in g.nodes : u.info = i
      BY DEF Infos
    <3>2. u \in stay
      BY <1>2, <2>2, <3>1 DEF stay
    <3>3. moved(u) \in t.nodes /\ moved(u).info = i
      BY <1>3, <1>5, <3>1, <3>2
    <3> QED
      BY <3>3 DEF Infos
  <2> QED
    BY <2>1, <2>2
<1>14. ASSUME NEW x \in t.nodes, NEW y \in t.nodes, NEW u \in g.nodes, NEW v \in g.nodes,
              x.info = u.info, y.info = v.info
       PROVE  TestDataOf(t, x, y) = TestDataOf(g, u, v)
  <2>1. PICK u1 \in stay : x = moved(u1)
    BY <1>10
  <2>2. PICK v1 \in stay : y = moved(v1)
    BY <1>10
  <2>3. u1 = u /\ v1 = v
    BY <1>1, <1>5, <1>14, <2>1, <2>2
  <2> QED
    BY <1>9, <2>1, <2>2, <2>3
<1>15. \A x \in t.nodes : \E u \in g.nodes : u.info = x.info /\ u.speed = x.speed
  BY <1>5, <1>10
<1> QED
  BY <1>11, <1>12, <1>13, <1>14, <1>15 DEF t

\* A graph has as many nodes as rows.
LEMMA NodesFinite ==
  ASSUME NEW g, GraphIs(g)
  PROVE  IsFiniteSet(g.nodes) /\ Cardinality(g.nodes) = g.c_graph.n
<1> DEFINE n == g.c_graph.n
           j == [a \in g.nodes |-> a.index]
<1>1. n \in Nat /\ {a.index : a \in g.nodes} = Rows(n)
      /\ \A a, b \in g.nodes : a.index = b.index => a = b
  BY DEF GraphIs
<1>2. IsFiniteSet(Rows(n)) /\ Cardinality(Rows(n)) = n
  <2> HIDE DEF n
  <2>1. 0 \in Int /\ n - 1 \in Int
    BY <1>1
  <2>2. Cardinality(0..(n - 1)) = n /\ IsFiniteSet(0..(n - 1))
    BY <1>1, <2>1, FS_Interval
  <2> QED
    BY <2>2 DEF Rows
<1> HIDE DEF n
<1>3. j \in Injection(g.nodes, Rows(n))
  <2>1. j \in [g.nodes -> Rows(n)] /\ \A a, b \in g.nodes : j[a] = j[b] => a = b
    BY <1>1
  <2> HIDE DEF j
  <2> QED
    BY <2>1 DEF Injection, IsInjective
<1>4. j \in Surjection(g.nodes, Rows(n))
  <2>1. j \in [g.nodes -> Rows(n)]
    BY <1>3 DEF Injection
  <2>2. \A r \in Rows(n) : \E a \in g.nodes : j[a] = r
    BY <1>1
  <2> HIDE DEF j
  <2> QED
    BY <2>1, <2>2 DEF Surjection
<1> HIDE DEF j
<1>5. IsFiniteSet(g.nodes) /\ Cardinality(g.nodes) = Cardinality(Rows(n))
  BY <1>2, <1>3, <1>4, FS_Injection
<1> QED
  BY <1>2, <1>5 DEF n

\* The nodes of a graph are told by their names alone.
LEMMA SameNodeOf ==
  ASSUME NEW g, NEW h, h.nodes = g.nodes
  PROVE  Infos(h) = Infos(g) /\ \A i : NodeOf(h, i) = NodeOf(g, i)
BY DEF Infos, NodeOf

\* What a host may be configured with.
LEMMA ConfiguredIs ==
  ASSUME NetOK, NEW h \in Host
  PROVE  Configured(h) \subseteq 0..MAX
<1> DEFINE at == net.mapper[h]
           T == {0} \cup {Net!link(net, at, i) : i \in Net!neighbours(net, at)}
<1>1. MAX \in Nat /\ LocalSpeeds \subseteq 0..MAX /\ IsNetwork(net) /\ at \in Net!Indices(net)
  BY Setup DEF NetOK, Vertex
<1> HIDE DEF at
<1>2. T \in SUBSET (0..MAX) /\ T # {}
  <2>1. ASSUME NEW i \in Net!neighbours(net, at) PROVE Net!link(net, at, i) \in 0..MAX
    <3>1. i \in Net!Indices(net) /\ Net!link(net, at, i) # -1
      BY DEF Net!neighbours, Net!NoLink, Net!None
    <3>2. Net!link(net, at, i) \in -1..MAX
      BY <1>1, <3>1, LinkIs
    <3> QED
      BY <1>1, <3>1, <3>2
  <2> QED
    BY <1>1, <2>1
<1> HIDE DEF T
<1>3. Max(T) \in 0..MAX
  BY <1>1, <1>2, MaxOfNumbers
<1>4. fastest_link(h) = Max(T)
  BY DEF fastest_link, T, at
<1> QED
  BY <1>1, <1>3, <1>4 DEF Configured, Lesser

-----------------------------------------------------------------------------
(***************************************************************************)
(* The inductive invariant.                                                 *)
(***************************************************************************)
Controlled ==
  /\ joiner \in Host \cup {NoHost} /\ other \in Host \cup {NoHost} /\ tries \in 0..TestRetries
  /\ joiner = NoHost => copy = EmptyGraph /\ other = NoHost /\ tries = 0
  /\ joiner # NoHost => joiner \in Infos(copy) /\ created
  /\ created \in BOOLEAN
  /\ ~created => cgraph = EmptyGraph
  /\ other # NoHost =>
       /\ joiner # NoHost /\ other \in Infos(copy) /\ other # joiner
       /\ ~TestDataOf(copy, Me, NodeOf(copy, other)).tested

GraphsKnown ==
  GraphIs(cgraph) /\ GraphIs(copy) /\ Known(Speeds, cgraph) /\ Known(Speeds, copy)

GraphsSettled ==
  /\ SettledAmong(Speeds, cgraph, Infos(cgraph))
  /\ SettledAmong(Speeds, copy, Infos(copy) \ {joiner})

IInv == NetOK /\ Controlled /\ GraphsKnown /\ GraphsSettled

\* The steps of the two action properties.
Follows ==
  /\ joiner' = joiner => SameLinks(cgraph, cgraph')
  /\ joiner = NoHost => SameLinks(cgraph, copy')

Once ==
  joiner # NoHost /\ joiner' = joiner =>
    /\ TestedInCopy \subseteq TestedInCopy'
    /\ other' \notin TestedInCopy
    /\ other # NoHost /\ other' = NoHost => other \in TestedInCopy'

Goal == IInv' /\ Follows /\ Once

\* The invariant after a step that leaves the network.
LEMMA Unwired ==
  ASSUME net' = net
  PROVE  (NetOK <=> NetOK') /\ Speeds' = Speeds
BY DEF NetOK, IsNetwork, Speeds, Real

\* A graph agrees with itself.
LEMMA SameLinksItself ==
  /\ \A g : SameLinks(g, g)
  /\ \A g, h : Infos(g) = {} \/ Infos(h) = {} => SameLinks(g, h)
BY DEF SameLinks

\* The host that is tested against has no tested link yet.
LEMMA OtherUntested ==
  ASSUME Controlled, GraphIs(copy)
  PROVE  other \notin TestedInCopy
<1> SUFFICES ASSUME NEW m \in copy.nodes, TestDataOf(copy, Me, m).tested, m.info = other
             PROVE  FALSE
  BY DEF TestedInCopy
<1>1. m.info \in Host /\ NodeOf(copy, m.info) = m
  BY NodeIs DEF GraphIs, Node
<1>2. other # NoHost
  BY <1>1, Setup DEF Host
<1> QED
  BY <1>1, <1>2 DEF Controlled

\* The first state.
LEMMA InitInv == Init => IInv
<1> SUFFICES ASSUME Init PROVE IInv
  OBVIOUS
<1>1. NetOK
  BY NewNetworkIs DEF Init
<1>2. joiner = NoHost /\ other = NoHost /\ tries = 0 /\ copy = EmptyGraph /\ cgraph = EmptyGraph
      /\ created = FALSE
  BY DEF Init
<1>3. Controlled
  <2>1. tries \in 0..TestRetries
    BY <1>2, Setup
  <2>2. created \in BOOLEAN
    BY <1>2
  <2>3. joiner \in Host \cup {NoHost} /\ other \in Host \cup {NoHost}
    BY <1>2
  <2> QED
    BY <1>2, <2>1, <2>2, <2>3, Zenon DEF Controlled
<1> QED
  BY <1>1, <1>2, <1>3, EmptyGraphIs DEF IInv, GraphsKnown, GraphsSettled

\* Wire
LEMMA WireStep ==
  ASSUME IInv, NEW a \in Vertex, NEW b \in Vertex, NEW bandwidth \in Bandwidths,
         Wire(a, b, bandwidth)
  PROVE  Goal
<1>1. /\ ~created /\ created' = created /\ net' = Net!add_edge(net, a, b, bandwidth)
      /\ cgraph' = cgraph /\ joiner' = joiner /\ copy' = copy /\ other' = other /\ tries' = tries
  BY DEF Wire
<1>2. /\ joiner = NoHost /\ copy = EmptyGraph /\ other = NoHost /\ tries = 0
      /\ created = FALSE /\ cgraph = EmptyGraph
  BY <1>1 DEF IInv, Controlled
<1>3. NetOK'
  BY <1>1, AddEdgeIs DEF IInv
<1>4. Controlled'
  <2>1. tries' \in 0..TestRetries
    BY <1>1, <1>2, Setup
  <2>2. created' \in BOOLEAN
    BY <1>1, <1>2
  <2>3. joiner' \in Host \cup {NoHost} /\ other' \in Host \cup {NoHost}
    BY <1>1, <1>2
  <2>4. joiner' = NoHost /\ copy' = EmptyGraph /\ other' = NoHost /\ tries' = 0 /\ cgraph' = EmptyGraph
    BY <1>1, <1>2
  <2> QED
    BY <2>1, <2>2, <2>3, <2>4, Zenon DEF Controlled
<1>5. GraphsKnown' /\ GraphsSettled'
  BY <1>1, <1>2, EmptyGraphIs DEF GraphsKnown, GraphsSettled
<1>6. Follows /\ Once
  BY <1>1, <1>2, SameLinksItself DEF Follows, Once
<1> QED
  BY <1>3, <1>4, <1>5, <1>6 DEF Goal, IInv

\* CreateCluster
LEMMA CreateClusterStep ==
  ASSUME IInv, CreateCluster
  PROVE  Goal
<1>1. PICK my_speed \in Configured(Leader) : cgraph' = add_node(cgraph, my_speed, Leader)
  BY DEF CreateCluster
<1>2. /\ ~created /\ created' = TRUE /\ net' = net
      /\ joiner' = joiner /\ copy' = copy /\ other' = other /\ tries' = tries
  BY DEF CreateCluster
<1>3. /\ joiner = NoHost /\ copy = EmptyGraph /\ other = NoHost /\ tries = 0 /\ NetOK
      /\ cgraph = EmptyGraph
  BY <1>2 DEF IInv, Controlled
<1>4. Leader \in Host /\ my_speed \in 0..MAX
  BY <1>3, Setup, ConfiguredIs DEF Host
<1>5. Ultra(Speeds) /\ NetOK' /\ Speeds' = Speeds
  BY <1>2, <1>3, SpeedsAreUltra, Unwired
<1>6. GraphIs(cgraph') /\ Known(Speeds, cgraph') /\ Infos(cgraph') = {Leader}
  BY <1>1, <1>3, <1>4, <1>5, AddNodeIs, EmptyGraphIs
<1>7. SettledAmong(Speeds, cgraph', Infos(cgraph'))
  <2>1. \A a, b \in cgraph'.nodes : a = b
    BY <1>6 DEF GraphIs, Infos
  <2> QED
    BY <2>1 DEF SettledAmong
<1>8. Controlled'
  BY <1>2, <1>3, <1>6, Setup DEF Controlled
<1>9. GraphsKnown' /\ GraphsSettled'
  BY <1>2, <1>3, <1>5, <1>6, <1>7, EmptyGraphIs DEF GraphsKnown, GraphsSettled
<1>10. Follows /\ Once
  BY <1>2, <1>3, EmptyGraphIs, SameLinksItself DEF Follows, Once
<1> QED
  BY <1>5, <1>8, <1>9, <1>10 DEF Goal, IInv

\* JoinStart
LEMMA JoinStartStep ==
  ASSUME IInv, NEW h \in Host, JoinStart(h)
  PROVE  Goal
<1>1. PICK my_speed \in Configured(h) : copy' = add_node(cgraph, my_speed, h)
  BY DEF JoinStart
<1>2. /\ joiner = NoHost /\ created /\ created' = created /\ joiner' = h /\ net' = net
      /\ cgraph' = cgraph /\ other' = other /\ tries' = tries
  BY DEF JoinStart
<1>3. /\ copy = EmptyGraph /\ other = NoHost /\ tries = 0 /\ NetOK /\ created = TRUE
      /\ GraphIs(cgraph) /\ Known(Speeds, cgraph) /\ SettledAmong(Speeds, cgraph, Infos(cgraph))
  BY <1>2 DEF IInv, Controlled, GraphsKnown, GraphsSettled
<1>4. my_speed \in 0..MAX /\ h # NoHost
  BY <1>3, Setup, ConfiguredIs DEF Host
<1>5. Ultra(Speeds) /\ NetOK' /\ Speeds' = Speeds
  BY <1>2, <1>3, SpeedsAreUltra, Unwired
<1>6. /\ GraphIs(copy') /\ Known(Speeds, copy') /\ Infos(copy') = Infos(cgraph) \cup {h}
      /\ cgraph.nodes \subseteq copy'.nodes
      /\ \A x, y \in cgraph.nodes : TestDataOf(copy', x, y) = TestDataOf(cgraph, x, y)
      /\ \A x \in copy'.nodes : x.info \in Infos(cgraph) => x \in cgraph.nodes
  <2>1. CASE h \in Infos(cgraph)
    <3>1. copy' = cgraph
      BY <1>1, <2>1 DEF add_node
    <3> QED
      BY <1>3, <2>1, <3>1
  <2>2. CASE h \notin Infos(cgraph)
    BY <1>1, <1>3, <1>4, <1>5, <2>2, AddNodeIs
  <2> QED
    BY <2>1, <2>2
<1>7. SettledAmong(Speeds, copy', Infos(copy') \ {h})
  <2> SUFFICES ASSUME NEW a \in copy'.nodes, NEW b \in copy'.nodes, a # b,
                      a.info \in Infos(copy') \ {h}, b.info \in Infos(copy') \ {h}
               PROVE  SettledBy(Speeds, TestDataOf(copy', a, b), a, b, Enough(a, b))
    BY DEF SettledAmong
  <2>1. a \in cgraph.nodes /\ b \in cgraph.nodes
    BY <1>6
  <2>2. a.info \in Infos(cgraph) /\ b.info \in Infos(cgraph)
    BY <1>6
  <2>3. TestDataOf(copy', a, b) = TestDataOf(cgraph, a, b)
    BY <1>6, <2>1
  <2> QED
    BY <1>3, <2>1, <2>2, <2>3 DEF SettledAmong
<1>8. SameLinks(cgraph, copy')
  <2> SUFFICES ASSUME NEW a \in Infos(cgraph), NEW b \in Infos(cgraph)
               PROVE  TestDataOf(cgraph, NodeOf(cgraph, a), NodeOf(cgraph, b))
                        = TestDataOf(copy', NodeOf(copy', a), NodeOf(copy', b))
    BY DEF SameLinks
  <2>1. \A i \in Infos(cgraph) : NodeOf(cgraph, i) \in cgraph.nodes /\ NodeOf(cgraph, i).info = i
    BY <1>3, NodeIs
  <2>2. \A x \in copy'.nodes : NodeOf(copy', x.info) = x
    BY <1>6, NodeIs
  <2>3. \A i \in Infos(cgraph) : NodeOf(copy', i) = NodeOf(cgraph, i)
    BY <1>6, <2>1, <2>2
  <2> QED
    BY <1>6, <2>1, <2>3
<1>9. Controlled'
  BY <1>2, <1>3, <1>4, <1>6, Setup DEF Controlled
<1>10. GraphsKnown' /\ GraphsSettled'
  BY <1>2, <1>3, <1>5, <1>6, <1>7 DEF GraphsKnown, GraphsSettled
<1>11. Follows /\ Once
  BY <1>2, <1>8, SameLinksItself DEF Follows, Once
<1> QED
  BY <1>5, <1>9, <1>10, <1>11 DEF Goal, IInv

\* NodeFailure
LEMMA NodeFailureStep ==
  ASSUME IInv, NEW h \in Host, NodeFailure(h)
  PROVE  Goal
<1>1. /\ h \in Infos(cgraph) /\ cgraph' = remove_one_by(cgraph, h)
      /\ created' = created /\ net' = net /\ joiner' = joiner /\ copy' = copy /\ other' = other /\ tries' = tries
  BY DEF NodeFailure
<1>2. NetOK /\ Controlled /\ GraphsKnown /\ GraphsSettled
  BY DEF IInv
<1>3. Ultra(Speeds) /\ NetOK' /\ Speeds' = Speeds
  BY <1>1, <1>2, SpeedsAreUltra, Unwired
<1>4. /\ GraphIs(cgraph') /\ Known(Speeds, cgraph') /\ Infos(cgraph') = Infos(cgraph) \ {h}
      /\ \A x \in cgraph'.nodes : \E u \in cgraph.nodes : u.info = x.info /\ u.speed = x.speed
      /\ \A x, y \in cgraph'.nodes, u, v \in cgraph.nodes :
           x.info = u.info /\ y.info = v.info => TestDataOf(cgraph', x, y) = TestDataOf(cgraph, u, v)
  BY <1>1, <1>2, <1>3, RemoveNodeIs DEF GraphsKnown
<1>5. SettledAmong(Speeds, cgraph', Infos(cgraph'))
  <2> SUFFICES ASSUME NEW x \in cgraph'.nodes, NEW y \in cgraph'.nodes, x # y
               PROVE  SettledBy(Speeds, TestDataOf(cgraph', x, y), x, y, Enough(x, y))
    BY DEF SettledAmong
  <2>1. PICK u \in cgraph.nodes : u.info = x.info /\ u.speed = x.speed
    BY <1>4
  <2>2. PICK v \in cgraph.nodes : v.info = y.info /\ v.speed = y.speed
    BY <1>4
  <2>3. x.info # y.info
    BY <1>4 DEF GraphIs
  <2>4. u # v /\ u.info \in Infos(cgraph) /\ v.info \in Infos(cgraph)
    BY <2>1, <2>2, <2>3 DEF Infos
  <2>5. SettledBy(Speeds, TestDataOf(cgraph, u, v), u, v, Enough(u, v))
    BY <1>2, <2>4 DEF GraphsSettled, SettledAmong
  <2>6. TestDataOf(cgraph', x, y) = TestDataOf(cgraph, u, v)
    BY <1>4, <2>1, <2>2
  <2> QED
    BY <2>1, <2>2, <2>5, <2>6 DEF SettledBy, Enough
<1>6. SameLinks(cgraph, cgraph')
  <2> SUFFICES ASSUME NEW a \in Infos(cgraph) \cap Infos(cgraph'),
                      NEW b \in Infos(cgraph) \cap Infos(cgraph')
               PROVE  TestDataOf(cgraph, NodeOf(cgraph, a), NodeOf(cgraph, b))
                        = TestDataOf(cgraph', NodeOf(cgraph', a), NodeOf(cgraph', b))
    BY DEF SameLinks
  <2>1. \A i \in Infos(cgraph) : NodeOf(cgraph, i) \in cgraph.nodes /\ NodeOf(cgraph, i).info = i
    BY <1>2, NodeIs DEF GraphsKnown
  <2>2. \A i \in Infos(cgraph') : NodeOf(cgraph', i) \in cgraph'.nodes /\ NodeOf(cgraph', i).info = i
    BY <1>4, NodeIs
  <2> QED
    BY <1>4, <2>1, <2>2
<1>7. Controlled'
  <2>1. created = TRUE
    BY <1>1, <1>2, EmptyGraphIs DEF Controlled
  <2> QED
    BY <1>1, <1>2, <2>1 DEF Controlled, Me
<1>8. GraphsKnown' /\ GraphsSettled'
  BY <1>1, <1>2, <1>3, <1>4, <1>5 DEF GraphsKnown, GraphsSettled
<1>9. Follows
  <2>1. joiner = NoHost => Infos(copy') = {}
    BY <1>1, <1>2, EmptyGraphIs DEF Controlled
  <2> QED
    BY <1>6, <2>1, SameLinksItself DEF Follows
<1>10. Once
  <2>1. TestedInCopy' = TestedInCopy
    BY <1>1 DEF TestedInCopy, Me
  <2> QED
    BY <1>1, <1>2, <2>1, OtherUntested DEF Once, GraphsKnown
<1> QED
  BY <1>3, <1>7, <1>8, <1>9, <1>10 DEF Goal, IInv

\* Settled is settled in both orders.
LEMMA SettledTurned ==
  ASSUME NEW R, Ultra(R), NEW a \in Node, NEW b \in Node, NEW d, NEW enough,
         SettledBy(R, d, a, b, enough)
  PROVE  SettledBy(R, d, b, a, enough)
<1>1. R[<<a.info, b.info>>] = R[<<b.info, a.info>>]
  BY DEF Ultra, Node
<1>2. Lesser(a.speed, b.speed) = Lesser(b.speed, a.speed)
  <2>1. a.speed \in Int /\ b.speed \in Int
    BY Setup DEF Node
  <2> QED
    BY <2>1 DEF Lesser
<1> QED
  BY <1>1, <1>2 DEF SettledBy

\* A join that is over leaves no trace at the joiner.
LEMMA LeaveIs ==
  ASSUME Leave
  PROVE  /\ joiner' = NoHost /\ copy' = EmptyGraph /\ other' = NoHost /\ tries' = 0
         /\ GraphIs(copy') /\ Known(Speeds, copy') /\ Infos(copy') = {}
         /\ \A H : SettledAmong(Speeds, copy', H)
         /\ joiner # NoHost => Once
BY EmptyGraphIs DEF Leave, Once

\* FindMissing
LEMMA FindMissingStep ==
  ASSUME IInv, NEW order \in SetToSeqs(copy.nodes), FindMissing(order)
  PROVE  Goal
<1> DEFINE from == Me
           found == find_missing_from_me(copy, Me, Sufficient[joiner], order)
<1>1. NetOK /\ Controlled /\ GraphsKnown /\ GraphsSettled /\ joiner # NoHost /\ other = NoHost
      /\ net' = net /\ created' = created
  BY DEF IInv, FindMissing
<1>2. Ultra(Speeds) /\ NetOK' /\ Speeds' = Speeds
  BY <1>1, SpeedsAreUltra, Unwired
<1>3. /\ joiner \in Host /\ joiner \in Infos(copy) /\ created = TRUE
      /\ tries \in 0..TestRetries
  BY <1>1 DEF Controlled
<1>4. GraphIs(copy) /\ Known(Speeds, copy) /\ from \in copy.nodes /\ from.info = joiner
  BY <1>1, <1>3, NodeIs DEF GraphsKnown, Me
<1>5. Sufficient[joiner] \in Nat /\ IsFiniteSet(copy.nodes)
  BY <1>3, <1>4, NodesFinite, Setup DEF Host
<1>6. \/ found.missing = <<>> /\ cgraph' = found.g /\ Leave
      \/ /\ found.missing # <<>> /\ copy' = found.g /\ other' = Fastest(found.missing).info
         /\ cgraph' = cgraph /\ joiner' = joiner /\ tries' = tries
  BY DEF FindMissing
<1>7. /\ GraphIs(found.g) /\ Known(Speeds, found.g) /\ SameNodes(copy, found.g)
      /\ TestsKept(copy, found.g)
      /\ \A x, y \in copy.nodes :
           x # from /\ y # from => TestDataOf(found.g, x, y) = TestDataOf(copy, x, y)
      /\ found.missing \in Seq(copy.nodes)
      /\ \A m \in Range(found.missing) :
           m # from /\ m \in copy.nodes /\ ~TestDataOf(found.g, from, m).tested
      /\ found.missing = <<>> =>
           \A m \in copy.nodes \ {from} :
             SettledBy(Speeds, TestDataOf(found.g, from, m), from, m, Sufficient[joiner])
  <2> HIDE DEF from
  <2> DEFINE R == Speeds
             g == copy
             enough == Sufficient[joiner]
  <2>2. Ultra(R) /\ GraphIs(g) /\ Known(R, g) /\ IsFiniteSet(g.nodes) /\ from \in g.nodes
        /\ enough \in Nat /\ order \in SetToSeqs(g.nodes)
    BY <1>2, <1>4, <1>5
  <2>3. found = find_missing_from_me(g, from, enough, order)
    BY DEF from
  <2> HIDE DEF found, R, g, enough
  <2>4. /\ GraphIs(found.g) /\ Known(R, found.g) /\ SameNodes(g, found.g)
        /\ TestsKept(g, found.g)
        /\ \A x, y \in g.nodes :
             x # from /\ y # from => TestDataOf(found.g, x, y) = TestDataOf(g, x, y)
        /\ found.missing \in Seq(g.nodes)
        /\ \A m \in Range(found.missing) :
             m # from /\ m \in g.nodes /\ ~TestDataOf(found.g, from, m).tested
        /\ found.missing = <<>> =>
             \A m \in g.nodes \ {from} :
               SettledBy(R, TestDataOf(found.g, from, m), from, m, enough)
    BY <2>2, <2>3, MissingRight
  <2> QED
    BY <2>4 DEF R, g, enough
<1>8. Me = from
  OBVIOUS
<1> HIDE DEF found, from
<1>9. \A x \in copy.nodes : x \in Node /\ x.info \in Infos(copy) /\ (x.info = joiner => x = from)
  BY <1>4, NodeIs DEF GraphIs
<1>10. Infos(found.g) = Infos(copy) /\ found.g.nodes = copy.nodes
       /\ \A i : NodeOf(found.g, i) = NodeOf(copy, i)
  BY <1>7, SameNodeOf DEF SameNodes
<1>11. ASSUME NEW x \in copy.nodes, NEW y \in copy.nodes, x # y, x # from, y # from
       PROVE  SettledBy(Speeds, TestDataOf(found.g, x, y), x, y, Enough(x, y))
  <2>1. x.info # joiner /\ y.info # joiner /\ x.info \in Infos(copy) /\ y.info \in Infos(copy)
    BY <1>9, <1>11
  <2>2. TestDataOf(found.g, x, y) = TestDataOf(copy, x, y)
    BY <1>7, <1>11
  <2> QED
    BY <1>1, <1>11, <2>1, <2>2 DEF GraphsSettled, SettledAmong
<1>12. CASE found.missing = <<>> /\ cgraph' = found.g /\ Leave
  <2>1. ASSUME NEW m \in copy.nodes, m # from
        PROVE  /\ SettledBy(Speeds, TestDataOf(found.g, from, m), from, m, Enough(from, m))
               /\ SettledBy(Speeds, TestDataOf(found.g, m, from), m, from, Enough(m, from))
    <3>1. SettledBy(Speeds, TestDataOf(found.g, from, m), from, m, Sufficient[joiner])
      BY <1>7, <1>12, <2>1
    <3>2. from \in Node /\ m \in Node
      BY <1>4, <1>9
    <3>3. Enough(from, m) \in Nat /\ Enough(from, m) <= Sufficient[joiner]
          /\ Enough(from, m) = Enough(m, from)
      BY <1>4, <3>2, EnoughIs
    <3>4. TestDataOf(found.g, from, m) \in Datum
          /\ TestDataOf(found.g, from, m) = TestDataOf(found.g, m, from)
      BY <1>4, <1>7, <1>10, TestDataIs
    <3>5. TestDataOf(found.g, from, m).speed \in Nat
      BY <3>4, Setup DEF Datum
    <3>6. SettledBy(Speeds, TestDataOf(found.g, from, m), from, m, Enough(from, m))
      BY <1>5, <3>1, <3>3, <3>5 DEF SettledBy
    <3> QED
      BY <1>2, <3>2, <3>3, <3>4, <3>6, SettledTurned
  <2>2. SettledAmong(Speeds, cgraph', Infos(cgraph'))
    <3> SUFFICES ASSUME NEW x \in copy.nodes, NEW y \in copy.nodes, x # y
                 PROVE  SettledBy(Speeds, TestDataOf(found.g, x, y), x, y, Enough(x, y))
      BY <1>10, <1>12 DEF SettledAmong
    <3> QED
      BY <1>11, <2>1
  <2>4. /\ joiner' = NoHost /\ copy' = EmptyGraph /\ other' = NoHost /\ tries' = 0
        /\ GraphIs(copy') /\ Known(Speeds, copy')
        /\ SettledAmong(Speeds, copy', Infos(copy') \ {joiner'}) /\ Once
    BY <1>1, <1>12, LeaveIs
  <2>5. Controlled'
    BY <1>1, <1>3, <2>4, Setup DEF Controlled
  <2>6. GraphsKnown' /\ GraphsSettled'
    BY <1>2, <1>7, <1>12, <2>2, <2>4 DEF GraphsKnown, GraphsSettled
  <2>7. Follows
    BY <1>1, <2>4 DEF Follows
  <2> QED
    BY <1>2, <2>4, <2>5, <2>6, <2>7 DEF Goal, IInv
<1>13. CASE /\ found.missing # <<>> /\ copy' = found.g /\ other' = Fastest(found.missing).info
            /\ cgraph' = cgraph /\ joiner' = joiner /\ tries' = tries
  <2> DEFINE m == Fastest(found.missing)
  <2>1. m \in Range(found.missing)
    <3>1. found.missing \in Seq(Node)
      <4>1. copy.nodes \subseteq Node
        BY <1>9
      <4> QED
        BY <1>7, <4>1
    <3> QED
      BY <1>13, <3>1, FastestIs
  <2> HIDE DEF m
  <2>2. m # from /\ m \in copy.nodes /\ ~TestDataOf(found.g, from, m).tested /\ other' = m.info
    BY <1>7, <1>13, <2>1 DEF m
  <2>3. m.info \in Infos(copy) /\ m.info # joiner /\ m.info \in Host /\ NodeOf(copy, m.info) = m
    BY <1>4, <1>9, <2>2, NodeIs DEF Node
  <2>4. Me' = from
    BY <1>10, <1>13 DEF from, Me
  <2>5. Controlled'
    BY <1>1, <1>3, <1>10, <1>13, <2>2, <2>3, <2>4 DEF Controlled
  <2>6. SettledAmong(Speeds, copy', Infos(copy') \ {joiner'})
    <3> SUFFICES ASSUME NEW x \in copy.nodes, NEW y \in copy.nodes, x # y,
                        x.info # joiner, y.info # joiner
                 PROVE  SettledBy(Speeds, TestDataOf(found.g, x, y), x, y, Enough(x, y))
      BY <1>10, <1>13 DEF SettledAmong
    <3> QED
      BY <1>4, <1>11
  <2>7. GraphsKnown' /\ GraphsSettled'
    BY <1>1, <1>2, <1>7, <1>13, <2>6 DEF GraphsKnown, GraphsSettled
  <2>8. Follows
    BY <1>1, <1>13, SameLinksItself DEF Follows
  <2>9. TestedInCopy \subseteq TestedInCopy'
    <3>1. \A x \in copy.nodes : TestDataOf(copy, from, x).tested => TestDataOf(found.g, from, x).tested
      BY <1>4, <1>7 DEF TestsKept
    <3> QED
      BY <1>8, <1>10, <1>13, <2>4, <3>1 DEF TestedInCopy
  <2>10. other' \notin TestedInCopy
    <3> SUFFICES ASSUME NEW x \in copy.nodes, TestDataOf(copy, from, x).tested, x.info = m.info
                 PROVE  FALSE
      BY <1>8, <2>2 DEF TestedInCopy
    <3>1. x = m
      BY <1>4, <2>2 DEF GraphIs
    <3> QED
      BY <1>4, <1>7, <2>2, <3>1 DEF TestsKept
  <2>11. Once
    BY <1>1, <2>9, <2>10 DEF Once
  <2> QED
    BY <1>2, <2>5, <2>7, <2>8, <2>11 DEF Goal, IInv
<1> QED
  BY <1>6, <1>12, <1>13

\* A join that ends without a new graph for the leader.
LEMMA LeaveStep ==
  ASSUME IInv, joiner # NoHost, Leave, net' = net, created' = created, cgraph' = cgraph
  PROVE  Goal
<1>1. NetOK' /\ Speeds' = Speeds /\ Controlled /\ GraphsKnown /\ GraphsSettled
  BY Unwired DEF IInv
<1>2. /\ joiner' = NoHost /\ copy' = EmptyGraph /\ other' = NoHost /\ tries' = 0
      /\ GraphIs(copy') /\ Known(Speeds, copy')
      /\ SettledAmong(Speeds, copy', Infos(copy') \ {joiner'}) /\ Once
  BY LeaveIs
<1>3. Controlled'
  BY <1>1, <1>2, Setup DEF Controlled
<1>4. GraphsKnown' /\ GraphsSettled'
  BY <1>1, <1>2 DEF GraphsKnown, GraphsSettled
<1>5. Follows
  BY <1>2, SameLinksItself DEF Follows
<1> QED
  BY <1>1, <1>2, <1>3, <1>4, <1>5 DEF Goal, IInv

\* TestDone
LEMMA TestDoneStep ==
  ASSUME IInv, TestDone
  PROVE  Goal
<1> DEFINE from == Me
           node == NodeOf(copy, other)
           speed == Real(joiner, other)
           tested == add_link_direct_test(copy, from, node, speed)
<1>1. NetOK /\ Controlled /\ GraphsKnown /\ GraphsSettled /\ other # NoHost
      /\ net' = net /\ created' = created /\ cgraph' = cgraph
  BY DEF IInv, TestDone
<1>2. Ultra(Speeds) /\ NetOK' /\ Speeds' = Speeds
  BY <1>1, SpeedsAreUltra, Unwired
<1>3. /\ joiner \in Host /\ joiner # NoHost /\ joiner \in Infos(copy) /\ created = TRUE
      /\ other \in Host /\ other \in Infos(copy) /\ other # joiner
  BY <1>1 DEF Controlled
<1>4. GraphIs(copy) /\ Known(Speeds, copy) /\ from \in copy.nodes /\ from.info = joiner
      /\ node \in copy.nodes /\ node.info = other /\ from # node
  BY <1>1, <1>3, NodeIs DEF GraphsKnown, Me
<1>5. speed = Speeds[<<from.info, node.info>>]
  BY <1>3, <1>4 DEF Speeds
<1>6. CASE ~GoodSpeed(from, node, speed)
  <2>1. Leave
    BY <1>6 DEF TestDone
  <2> QED
    BY <1>1, <1>3, <2>1, LeaveStep
<1>7. CASE GoodSpeed(from, node, speed)
  <2>1. copy' = tested /\ other' = NoHost /\ tries' = 0 /\ joiner' = joiner
    BY <1>7 DEF TestDone
  <2> HIDE DEF from, node, speed, tested
  <2>2. /\ GraphIs(tested) /\ Known(Speeds, tested) /\ SameNodes(copy, tested)
        /\ TestsKept(copy, tested) /\ TestDataOf(tested, from, node).tested
        /\ \A H : SettledAmong(Speeds, copy, H) /\ joiner \notin H => SettledAmong(Speeds, tested, H)
    <3> DEFINE R == Speeds
               g == copy
    <3>1. /\ Ultra(R) /\ GraphIs(g) /\ Known(R, g) /\ from \in g.nodes /\ node \in g.nodes
          /\ from # node /\ speed = R[<<from.info, node.info>>]
      BY <1>2, <1>4, <1>5
    <3>2. tested = add_link_direct_test(g, from, node, speed)
      BY DEF tested
    <3> HIDE DEF R, g
    <3>3. /\ GraphIs(tested) /\ Known(R, tested) /\ SameNodes(g, tested) /\ TestsKept(g, tested)
          /\ TestDataOf(tested, from, node).tested
          /\ \A H : SettledAmong(R, g, H) /\ from.info \notin H => SettledAmong(R, tested, H)
      BY <1>7, <3>1, <3>2, TestIs
    <3> QED
      BY <1>4, <3>3 DEF R, g
  <2>3. Infos(copy') = Infos(copy) /\ copy'.nodes = copy.nodes
        /\ \A i : NodeOf(copy', i) = NodeOf(copy, i)
    BY <2>1, <2>2, SameNodeOf DEF SameNodes
  <2>4. Me' = from
    BY <2>1, <2>3 DEF from, Me
  <2>5. Controlled'
    BY <1>1, <1>3, <2>1, <2>3, Setup DEF Controlled
  <2>6. GraphsKnown' /\ GraphsSettled'
    BY <1>1, <1>2, <2>1, <2>2, <2>3 DEF GraphsKnown, GraphsSettled
  <2>7. Follows
    BY <1>1, <1>3, SameLinksItself DEF Follows
  <2>8. \A x : x \in TestedInCopy' <=> \E m \in copy.nodes : TestDataOf(tested, from, m).tested /\ x = m.info
    BY <2>1, <2>3, <2>4 DEF TestedInCopy
  <2>9. TestedInCopy \subseteq TestedInCopy'
    <3>1. \A x \in copy.nodes : TestDataOf(copy, from, x).tested => TestDataOf(tested, from, x).tested
      BY <1>4, <2>2 DEF TestsKept
    <3> QED
      BY <2>8, <3>1 DEF TestedInCopy, from
  <2>10. other \in TestedInCopy'
    BY <1>4, <2>2, <2>8
  <2>11. other' \notin TestedInCopy
    <3>1. \A x \in copy.nodes : x.info \in Host
      BY <1>4, NodeIs DEF Node
    <3>2. NoHost \notin Host
      BY Setup DEF Host
    <3> QED
      BY <2>1, <3>1, <3>2 DEF TestedInCopy
  <2>12. Once
    BY <2>9, <2>10, <2>11 DEF Once
  <2> QED
    BY <1>2, <2>5, <2>6, <2>7, <2>12 DEF Goal, IInv
<1> QED
  BY <1>6, <1>7

\* A step that leaves the graphs and the network as they are.
LEMMA SameGraphsStep ==
  ASSUME IInv, net' = net, created' = created, cgraph' = cgraph, copy' = copy,
         joiner' = joiner, other' = other,
         tries' \in 0..TestRetries, joiner = NoHost => tries' = tries
  PROVE  Goal
<1>1. NetOK' /\ Speeds' = Speeds /\ Controlled /\ GraphsKnown /\ GraphsSettled
  BY Unwired DEF IInv
<1>2. Controlled'
  BY <1>1 DEF Controlled, Me
<1>3. GraphsKnown' /\ GraphsSettled'
  BY <1>1 DEF GraphsKnown, GraphsSettled
<1>4. Follows
  <2>1. joiner = NoHost => Infos(copy') = {}
    BY <1>1, EmptyGraphIs DEF Controlled
  <2> QED
    BY <2>1, SameLinksItself DEF Follows
<1>5. Once
  <2>1. TestedInCopy' = TestedInCopy
    BY DEF TestedInCopy, Me
  <2> QED
    BY <1>1, <2>1, OtherUntested DEF Once, GraphsKnown
<1> QED
  BY <1>1, <1>2, <1>3, <1>4, <1>5 DEF Goal, IInv

\* TestFails
LEMMA TestFailsStep ==
  ASSUME IInv, TestFails
  PROVE  Goal
<1>1. joiner # NoHost /\ tries \in 0..TestRetries /\ TestRetries \in Nat
  BY Setup DEF IInv, Controlled, TestFails
<1>2. CASE tries < TestRetries
  <2>1. /\ net' = net /\ created' = created /\ cgraph' = cgraph /\ copy' = copy /\ joiner' = joiner /\ other' = other
        /\ tries' \in 0..TestRetries
    BY <1>1, <1>2 DEF TestFails
  <2> QED
    BY <1>1, <2>1, SameGraphsStep
<1>3. CASE ~(tries < TestRetries)
  <2>1. Leave /\ net' = net /\ created' = created /\ cgraph' = cgraph
    BY <1>3 DEF TestFails
  <2> QED
    BY <1>1, <2>1, LeaveStep
<1> QED
  BY <1>2, <1>3

\* Every step keeps the invariant, and does what the two action properties ask.
LEMMA NextStep ==
  ASSUME IInv, [Next]_vars
  PROVE  Goal
<1>1. CASE UNCHANGED vars
  <2>1. tries \in 0..TestRetries
    BY DEF IInv, Controlled
  <2> QED
    BY <1>1, <2>1, SameGraphsStep DEF vars
<1>2. ASSUME NEW a \in Vertex, NEW b \in Vertex, NEW bandwidth \in Bandwidths, Wire(a, b, bandwidth)
      PROVE  Goal
  BY <1>2, WireStep
<1>3. CASE CreateCluster
  BY <1>3, CreateClusterStep
<1>4. ASSUME NEW h \in Host, JoinStart(h) PROVE Goal
  BY <1>4, JoinStartStep
<1>5. ASSUME NEW h \in Host, NodeFailure(h) PROVE Goal
  BY <1>5, NodeFailureStep
<1>6. ASSUME NEW order \in SetToSeqs(copy.nodes), FindMissing(order) PROVE Goal
  BY <1>6, FindMissingStep
<1>7. CASE TestDone
  BY <1>7, TestDoneStep
<1>8. CASE TestFails
  BY <1>8, TestFailsStep
<1> QED
  BY <1>1, <1>2, <1>3, <1>4, <1>5, <1>6, <1>7, <1>8 DEF Next, CompleteGraph

\* At every moment the network can be asked, the join is where its variables say,
\* and the graphs hold what is so.
THEOREM Invariant == Spec => []IInv
<1>1. Init => IInv
  BY InitInv
<1>2. IInv /\ [Next]_vars => IInv'
  BY NextStep DEF Goal
<1> QED
  BY <1>1, <1>2, PTL DEF Spec

-----------------------------------------------------------------------------
(***************************************************************************)
(* What the runs check.                                                     *)
(***************************************************************************)
\* A graph of the invariant has one row per node.
LEMMA GraphIsOK ==
  ASSUME NEW g, GraphIs(g)
  PROVE  GraphOK(g)
<1> DEFINE n == g.c_graph.n
<1>1. n \in Nat /\ g.c_graph \in Matrix(n, Datum) /\ {a.index : a \in g.nodes} = 0..(n - 1)
      /\ \A a, b \in g.nodes : a.info = b.info => a = b
  BY DEF GraphIs, Rows
<1>2. DOMAIN g.c_graph.data = 0..((n * (n + 1)) \div 2 - 1)
  <2> HIDE DEF n
  <2> QED
    BY <1>1 DEF Matrix, Cells
<1>3. n = Cardinality(g.nodes)
  BY NodesFinite
<1>4. \A a \in g.nodes : a.info \in Host /\ TestDataOf(g, a, a).speed = MAX
  <2>1. \A a \in g.nodes : a \in Node /\ a.index \in Rows(n)
    BY NodeIs
  <2> QED
    BY <2>1 DEF Node, TestDataOf, GraphIs, Diagonal
<1> QED
  BY <1>1, <1>2, <1>3, <1>4 DEF GraphOK

\* The types of the variables: a row per node, whatever joins and leaves.
THEOREM TypeCorrect == Spec => []TypeOK
<1>1. IInv => TypeOK
  <2> SUFFICES ASSUME IInv PROVE TypeOK
    OBVIOUS
  <2>1. GraphOK(cgraph) /\ GraphOK(copy)
    BY GraphIsOK DEF IInv, GraphsKnown
  <2> QED
    BY <2>1 DEF IInv, Controlled, NetOK, TypeOK
<1> QED
  BY <1>1, Invariant, PTL

\* No graph promises more than the network can carry.
THEOREM NoOverestimate == Spec => []NeverOverestimates
<1>1. IInv => NeverOverestimates
  <2> SUFFICES ASSUME IInv, NEW g \in {cgraph, copy}, NEW p \in Pairs(g)
               PROVE  TestDataOf(g, p[1], p[2]).speed <= Real(p[1].info, p[2].info)
    BY DEF NeverOverestimates
  <2>1. GraphIs(g) /\ Known(Speeds, g)
    BY DEF IInv, GraphsKnown
  <2>2. p[1] \in g.nodes /\ p[2] \in g.nodes /\ p[1] # p[2]
    BY DEF Pairs
  <2>3. KnownPair(Speeds, TestDataOf(g, p[1], p[2]), p[1], p[2])
    BY <2>1, <2>2 DEF Known, KnownIn, TestDataOf
  <2>4. p[1].info \in Host /\ p[2].info \in Host
    BY <2>1, <2>2, NodeIs DEF Node
  <2>5. Speeds[<<p[1].info, p[2].info>>] = Real(p[1].info, p[2].info)
    BY <2>4 DEF Speeds
  <2> QED
    BY <2>3, <2>5 DEF KnownPair
<1> QED
  BY <1>1, Invariant, PTL

\* The tests that complete_graph skips were superfluous.
THEOREM AllSpeedsKnown == Spec => []SpeedsKnown
<1>1. IInv => SpeedsKnown
  <2> SUFFICES ASSUME IInv, NEW p \in Pairs(cgraph)
               PROVE  Settled(p, TestDataOf(cgraph, p[1], p[2]).speed,
                              Lesser(Sufficient[p[1].info], Sufficient[p[2].info]))
    BY DEF SpeedsKnown
  <2>1. GraphIs(cgraph) /\ SettledAmong(Speeds, cgraph, Infos(cgraph))
    BY DEF IInv, GraphsKnown, GraphsSettled
  <2>2. p[1] \in cgraph.nodes /\ p[2] \in cgraph.nodes /\ p[1] # p[2]
    BY DEF Pairs
  <2>3. p[1].info \in Host /\ p[2].info \in Host
        /\ p[1].info \in Infos(cgraph) /\ p[2].info \in Infos(cgraph)
    BY <2>1, <2>2, NodeIs DEF Node
  <2>4. SettledBy(Speeds, TestDataOf(cgraph, p[1], p[2]), p[1], p[2], Enough(p[1], p[2]))
    BY <2>1, <2>2, <2>3 DEF SettledAmong
  <2>5. Speeds[<<p[1].info, p[2].info>>] = Real(p[1].info, p[2].info)
    BY <2>3 DEF Speeds
  <2> QED
    BY <2>4, <2>5 DEF SettledBy, Settled, Enough
<1> QED
  BY <1>1, Invariant, PTL

\* What is known between two nodes follows them through joins and losses.
THEOREM LinksFollow == Spec => LinksFollowNodes
<1>1. IInv /\ [Next]_vars => [/\ joiner' = joiner => SameLinks(cgraph, cgraph')
                              /\ joiner = NoHost => SameLinks(cgraph, copy')]_vars
  BY NextStep DEF Goal, Follows
<1> QED
  BY <1>1, Invariant, PTL DEF Spec, LinksFollowNodes

\* A joining host tests every other host at most once.
THEOREM OneTestPerNode == Spec => TestsOnce
<1>1. IInv /\ [Next]_vars =>
        [joiner # NoHost /\ joiner' = joiner =>
           /\ TestedInCopy \subseteq TestedInCopy'
           /\ other' \notin TestedInCopy
           /\ other # NoHost /\ other' = NoHost => other \in TestedInCopy']_vars
  BY NextStep DEF Goal, Once
<1> QED
  BY <1>1, Invariant, PTL DEF Spec, TestsOnce

\* The least and the greatest, told by what they are.
LEMMA MinUnique ==
  ASSUME NEW T, T \subseteq Int, NEW v \in T, \A y \in T : v <= y
  PROVE  Min(T) = v
<1>1. Min(T) \in T /\ \A y \in T : Min(T) <= y
  BY DEF Min
<1> HIDE DEF Min
<1>2. Min(T) <= v /\ v <= Min(T) /\ Min(T) \in Int /\ v \in Int
  BY <1>1
<1> QED
  BY <1>2

\* The same of the greatest.
LEMMA MaxUnique ==
  ASSUME NEW T, T \subseteq Int, NEW v \in T, \A y \in T : v >= y
  PROVE  Max(T) = v
<1>1. Max(T) \in T /\ \A y \in T : Max(T) >= y
  BY DEF Max
<1> HIDE DEF Max
<1>2. Max(T) <= v /\ v <= Max(T) /\ Max(T) \in Int /\ v \in Int
  BY <1>1
<1> QED
  BY <1>2

\* What a network says of the way between two vertices, in every network.
LEMMA PathsAreRight == ASSUME NetOK PROVE PathsRight
<1> DEFINE short == [net EXCEPT !.path_strategy = Net!ShortestPath]
<1> SUFFICES ASSUME NEW a \in Vertex, NEW b \in Vertex, a # b
             PROVE  LET from == net.mapper[a]  to == net.mapper[b]
                        paths == {LinksOf(p) : p \in SimplePaths(from, to)}
                        best(dist, width) ==
                          /\ Net!shortest_path(net, from).val[to] = dist
                          /\ Net!bandwidth_between(net, a, b) = width
                    IN  IF paths = {}
                        THEN best(Net!None, Net!None) /\ Net!bandwidth_between(short, a, b) = Net!None
                        ELSE /\ best(Min({Cardinality(p) : p \in paths}), Max({Width(p) : p \in paths}))
                             /\ \A n \in {net, short} :
                                  /\ Net!get_path_between(n, a, b) \in paths
                                  /\ Net!bandwidth_between(n, a, b) = Width(Net!get_path_between(n, a, b))
                             /\ Cardinality(Net!get_path_between(short, a, b))
                                  = Net!shortest_path(net, from).val[to]
  BY DEF PathsRight
<1> DEFINE from == net.mapper[a]
           to == net.mapper[b]
           paths == {LinksOf(p) : p \in SimplePaths(from, to)}
<1>0. /\ MAX \in Nat /\ IsNetwork(net)
      /\ from \in Net!Indices(net) /\ to \in Net!Indices(net) /\ from # to
      /\ short.links = net.links /\ short.mapper = net.mapper
      /\ short.path_strategy = "shortest" /\ net.path_strategy = "widest"
      /\ DOMAIN net.mapper = Vertex
  BY Setup DEF NetOK, Net!ShortestPath, Net!WidestPath
<1> DEFINE wide == Net!widest_path(net, from)
           hops == Net!shortest_path(net, from)
           less == Net!shortest_path(short, from)
<1>1. /\ Net!bandwidth_between(net, a, b) = wide.val[to]
      /\ Net!get_path_between(net, a, b) = Net!Chain(wide.parents, to)
  BY <1>0 DEF Net!bandwidth_between, Net!get_path_between, Net!Mapped, Net!Vertices,
              Net!path_between, Net!WidestPath
<1> HIDE DEF short
<1>2. /\ Net!bandwidth_between(short, a, b) =
           IF less.parents[to] = -1 THEN -1
           ELSE Min({MAX} \cup {Net!LinkOf(short, e) : e \in Net!Chain(less.parents, to)})
      /\ Net!get_path_between(short, a, b) = Net!Chain(less.parents, to)
  <2>1. Net!path_between(short, from) = less
    BY <1>0 DEF Net!path_between, Net!WidestPath
  <2>2. short.mapper[a] = from /\ short.mapper[b] = to /\ Net!Mapped(short, a, b)
    BY <1>0 DEF Net!Mapped, Net!Vertices
  <2> HIDE DEF from, to, less
  <2>3. short.path_strategy # Net!WidestPath
    BY <1>0 DEF Net!WidestPath
  <2> QED
    BY <2>1, <2>2, <2>3 DEF Net!bandwidth_between, Net!get_path_between, Net!None, Net!Min, Min
<1>3. \A e : Net!LinkOf(short, e) = Net!LinkOf(net, e)
  BY <1>0, SameLinksSame
<1> DEFINE Path(p) == Simple(from, to, p)
<1>4. \A p : p \in SimplePaths(from, to) <=> Path(p)
  BY <1>0, SimplePathsAre
<1>5. /\ wide.val[to] \in -1..MAX
      /\ \A p : Path(p) => Width(LinksOf(p)) <= wide.val[to]
      /\ wide.val[to] # -1 =>
           \E p : /\ Path(p) /\ LinksOf(p) = Net!Chain(wide.parents, to)
                  /\ Width(LinksOf(p)) = wide.val[to]
  BY <1>0, WidestPathRight
<1>6. /\ hops.val[to] \in Nat \cup {-1}
      /\ \A p : Path(p) => hops.val[to] \in Nat /\ hops.val[to] <= Cardinality(LinksOf(p))
      /\ hops.val[to] # -1 => \E p : Path(p) /\ Cardinality(LinksOf(p)) = hops.val[to]
  BY <1>0, ShortestPathRight
<1>7. /\ less.val[to] \in Nat \cup {-1} /\ (less.val[to] = -1 <=> less.parents[to] = -1)
      /\ \A p : Path(p) => less.val[to] \in Nat /\ less.val[to] <= Cardinality(LinksOf(p))
      /\ less.val[to] # -1 =>
           \E p : /\ Path(p) /\ LinksOf(p) = Net!Chain(less.parents, to)
                  /\ Cardinality(LinksOf(p)) = less.val[to]
  BY <1>0, ShortestPathRight
<1>8. \A p : Path(p) =>
        /\ Width(LinksOf(p)) \in 0..MAX
        /\ Width(LinksOf(p)) \in {Net!LinkOf(net, e) : e \in LinksOf(p)}
        /\ \A y \in {Net!LinkOf(net, e) : e \in LinksOf(p)} : Width(LinksOf(p)) <= y /\ y \in Int
        /\ Cardinality(LinksOf(p)) \in Nat
  <2> SUFFICES ASSUME NEW p, Path(p)
               PROVE  /\ Width(LinksOf(p)) \in 0..MAX
                      /\ Width(LinksOf(p)) \in {Net!LinkOf(net, e) : e \in LinksOf(p)}
                      /\ \A y \in {Net!LinkOf(net, e) : e \in LinksOf(p)} :
                           Width(LinksOf(p)) <= y /\ y \in Int
                      /\ Cardinality(LinksOf(p)) \in Nat
    OBVIOUS
  <2>0. IsNetwork(net) /\ Simple(from, to, p)
    BY <1>0
  <2> HIDE DEF from, to, Path
  <2>1. /\ {Net!LinkOf(net, e) : e \in LinksOf(p)}
             = {Net!link(net, p[k], p[k + 1]) : k \in 1..(Len(p) - 1)}
        /\ Width(LinksOf(p)) \in 0..MAX
        /\ \E k \in 1..(Len(p) - 1) : Width(LinksOf(p)) = Net!link(net, p[k], p[k + 1])
        /\ \A k \in 1..(Len(p) - 1) :
             /\ Width(LinksOf(p)) <= Net!link(net, p[k], p[k + 1])
             /\ Carries(net, Width(LinksOf(p)), p[k], p[k + 1])
             /\ p[k] \in Net!Indices(net) /\ p[k + 1] \in Net!neighbours(net, p[k])
    BY <2>0, WidthIs
  <2>2. \A k \in 1..(Len(p) - 1) : Net!link(net, p[k], p[k + 1]) \in Int
    <3> TAKE k \in 1..(Len(p) - 1)
    <3>1. p[k] \in Net!Indices(net) /\ p[k + 1] \in Net!Indices(net)
      BY <2>1 DEF Net!neighbours
    <3>2. Net!link(net, p[k], p[k + 1]) \in -1..MAX
      BY <1>0, <3>1, LinkIs
    <3> QED
      BY <1>0, <3>2
  <2>3. Cardinality(LinksOf(p)) \in Nat
    <3>1. /\ p \in Seq(Net!Indices(net)) /\ Len(p) \in Nat /\ Len(p) >= 2
          /\ \A k, l \in DOMAIN p : p[k] = p[l] => k = l
      BY <2>0 DEF Simple
    <3>2. Len(p) >= 1
      BY <3>1
    <3>3. Cardinality(LinksOf(p)) = Len(p) - 1
      BY <3>1, <3>2, LinksCounted
    <3> QED
      BY <3>1, <3>3
  <2> QED
    BY <2>1, <2>2, <2>3
<1> HIDE DEF from, to, wide, hops, less, Path
<1>9. paths = {LinksOf(p) : p \in SimplePaths(from, to)}
  OBVIOUS
<1> HIDE DEF paths
<1>10. \A q : q \in paths <=> \E p : Path(p) /\ q = LinksOf(p)
  BY <1>4, <1>9
<1>11. CASE paths = {}
  <2>1. \A p : ~Path(p)
    BY <1>10, <1>11
  <2>2. hops.val[to] = -1 /\ wide.val[to] = -1 /\ less.parents[to] = -1
    BY <1>5, <1>6, <1>7, <2>1
  <2> QED
    BY <1>1, <1>2, <1>9, <1>11, <2>2 DEF Net!None, hops, from, to
<1>12. CASE paths # {}
  <2>0. PICK p : Path(p)
    BY <1>10, <1>12
  <2>1. wide.val[to] # -1
    <3>1. Width(LinksOf(p)) \in 0..MAX /\ Width(LinksOf(p)) <= wide.val[to]
      BY <1>5, <1>8, <2>0
    <3> QED
      BY <1>0, <3>1
  <2>2. PICK r : Path(r) /\ LinksOf(r) = Net!Chain(wide.parents, to) /\ Width(LinksOf(r)) = wide.val[to]
    BY <1>5, <2>1
  <2>3. hops.val[to] \in Nat /\ less.val[to] \in Nat
    BY <1>6, <1>7, <2>0
  <2>4. PICK h : Path(h) /\ Cardinality(LinksOf(h)) = hops.val[to]
    BY <1>6, <2>3
  <2>5. PICK l : /\ Path(l) /\ LinksOf(l) = Net!Chain(less.parents, to)
                 /\ Cardinality(LinksOf(l)) = less.val[to]
    BY <1>7, <2>3
  <2>6. hops.val[to] = less.val[to]
    <3>1. hops.val[to] <= less.val[to] /\ less.val[to] <= hops.val[to]
      BY <1>6, <1>7, <2>4, <2>5
    <3> QED
      BY <2>3, <3>1
  <2>7. hops.val[to] = Min({Cardinality(q) : q \in paths})
    <3> DEFINE T == {Cardinality(q) : q \in paths}
    <3>1. T \subseteq Int
      BY <1>8, <1>10
    <3>2. hops.val[to] \in T
      BY <1>10, <2>4
    <3>3. \A y \in T : hops.val[to] <= y
      BY <1>6, <1>10
    <3> HIDE DEF T
    <3>4. Min(T) = hops.val[to]
      BY <3>1, <3>2, <3>3, MinUnique
    <3> QED
      BY <3>4 DEF T
  <2>8. wide.val[to] = Max({Width(q) : q \in paths})
    <3> DEFINE T == {Width(q) : q \in paths}
    <3>1. T \subseteq Int
      <4>1. \A q \in paths : Width(q) \in Int
        BY <1>0, <1>8, <1>10
      <4> QED
        BY <4>1
    <3>2. wide.val[to] \in T
      BY <1>10, <2>2
    <3>3. \A y \in T : wide.val[to] >= y
      <4>1. \A q \in paths : Width(q) <= wide.val[to] /\ Width(q) \in Int
        BY <1>0, <1>5, <1>8, <1>10
      <4>2. wide.val[to] \in Int
        BY <1>0, <1>5
      <4> QED
        BY <4>1, <4>2
    <3> HIDE DEF T
    <3>4. Max(T) = wide.val[to]
      BY <3>1, <3>2, <3>3, MaxUnique
    <3> QED
      BY <3>4 DEF T
  <2>9. /\ Net!get_path_between(net, a, b) \in paths
        /\ Net!bandwidth_between(net, a, b) = Width(Net!get_path_between(net, a, b))
    BY <1>1, <1>10, <2>2
  <2>10. Net!get_path_between(short, a, b) = LinksOf(l) /\ LinksOf(l) \in paths
    BY <1>2, <1>10, <2>5
  <2>11. Net!bandwidth_between(short, a, b) = Width(LinksOf(l))
    <3> DEFINE W == {Net!LinkOf(net, e) : e \in LinksOf(l)}
               T == {MAX} \cup W
               v == Width(LinksOf(l))
    <3>1. v \in 0..MAX /\ v \in W /\ \A y \in W : v <= y /\ y \in Int
      BY <1>8, <2>5
    <3>2. less.parents[to] # -1
      BY <1>7, <2>3
    <3>3. W = {Net!LinkOf(short, e) : e \in Net!Chain(less.parents, to)}
      BY <1>3, <2>5
    <3>4. Net!bandwidth_between(short, a, b) = Min(T)
      BY <1>2, <3>2, <3>3
    <3> HIDE DEF W, v
    <3>5. T \subseteq Int /\ v \in T /\ \A y \in T : v <= y
      BY <1>0, <3>1
    <3> HIDE DEF T
    <3>6. Min(T) = v
      BY <3>5, MinUnique
    <3> QED
      BY <3>4, <3>6 DEF v
  <2>12. Cardinality(Net!get_path_between(short, a, b)) = hops.val[to]
    BY <2>5, <2>6, <2>10
  <2>13. Net!bandwidth_between(net, a, b) = Max({Width(q) : q \in paths})
    BY <1>1, <2>8
  <2>14. \A n \in {net, short} :
           /\ Net!get_path_between(n, a, b) \in paths
           /\ Net!bandwidth_between(n, a, b) = Width(Net!get_path_between(n, a, b))
    BY <2>9, <2>10, <2>11
  <2> QED
    BY <1>9, <1>12, <2>7, <2>12, <2>13, <2>14 DEF hops, from, to
<1> QED
  BY <1>11, <1>12

\* Both searches find what the network can offer, however it is wired: the
\* widest and the shortest path are the best of all simple paths, and what
\* get_path_between yields is such a path of that width.
THEOREM PathsRightHolds == Spec => []PathsRight
<1>1. IInv => PathsRight
  BY PathsAreRight DEF IInv
<1> QED
  BY <1>1, Invariant, PTL

=============================================================================
