------------------------- MODULE OrchestratorProofs -------------------------
(***************************************************************************)
(* The books of the Orchestrator are right for any cluster, any topologies  *)
(* and any sequence of placements, ends and changes of the cluster; and its *)
(* search comes to an end with a placement that verify_permutation accepts, *)
(* with none, or with a panic in two cases.                                 *)
(***************************************************************************)
EXTENDS Orchestrator, SymMatrixProofs

-----------------------------------------------------------------------------
\* The inductive invariant.

U32 == 0..MAX

GoodRequests == {m \in Requests : Connected(m)}

Placements(n) == UNION {[matrix : {m}, equivalence : [Apps(m) -> Rows(n)]] : m \in GoodRequests}
Emulations(n) == UNION {[S -> Placements(n)] : S \in SUBSET Emul}
Attributions  == UNION {[S -> SUBSET Emul] : S \in SUBSET Host}

BooksTyped ==
  /\ host_mapping \in Seq(Host) /\ IsInjective(host_mapping)
  /\ residual_graph \in Matrix(Len(host_mapping), U32)
  /\ attributed_emul \in Attributions
  /\ current_load \in [Host -> [Emul -> Nat]]
  /\ emulations \in Emulations(Len(host_mapping))

ClusterTyped ==
  /\ cgraph \in Seq(Host) /\ IsInjective(cgraph)
  /\ copy \in Seq(Host) /\ IsInjective(copy)
  /\ changes \in 0..MaxChanges
  /\ crashed \in BOOLEAN /\ returned \in BOOLEAN

\* The rows are the hosts of the leader's graph, in its order until a host
\* returns; a graph that is being completed has all of them.
HostsFollow ==
  /\ Range(cgraph) = Range(host_mapping)
  /\ ~returned => cgraph = host_mapping
  /\ copy # << >> => Range(cgraph) \subseteq Range(copy)

\* Every host of a running application has an entry in attributed_emul.
Attributable ==
  \A e \in DOMAIN emulations : \A app \in Running(e) : HostOf(e, app) \in DOMAIN attributed_emul

\* Bandwidth that the emulations t use between rows a and c.
UsedBy(em, a, c) == Between(em.matrix, em.equivalence, Ordered(em.matrix), a, c)
InUseBy(t, a, c) == SumFunction([e \in DOMAIN t |-> UsedBy(t[e], a, c)])

CapacityOf(mapping, a, c) == Speed[{mapping[a + 1], mapping[c + 1]}]

\* What is left and what is used make up the speed between two hosts.
Balanced(b) ==
  \A a, c \in Rows(b.residual.n) : a # c =>
    At(b.residual, a, c) + InUseBy(b.emulations, a, c) = CapacityOf(b.mapping, a, c)

Balance == SumsFit /\ ~crashed /\ ~returned => Balanced(Books)

IInv ==
  /\ BooksTyped
  /\ ClusterTyped
  /\ HostsFollow
  /\ LoadsRight
  /\ AttributedWhileRunning
  /\ Attributable
  /\ BooksNeverPanic
  /\ Balance

-----------------------------------------------------------------------------
\* Topologies and what they ask for.

\* A topology whose applications are connected is a matrix of u32.
LEMMA RequestIs ==
  ASSUME NEW m \in GoodRequests
  PROVE  m.n \in Nat /\ m.n > 0 /\ m \in Matrix(m.n, U32)
<1>1. /\ m.n \in Nat \ {0}
      /\ m = [n |-> m.n, data |-> m.data]
      /\ m.data \in [0..(Cells(m.n) - 1) -> -1..MAX]
  BY TopologiesAssumption DEF GoodRequests, Cells
<1>2. \A i \in DOMAIN m.data : m.data[i] # -1
  BY DEF GoodRequests, Connected, Net!None
<1>3. m.data \in [0..(Cells(m.n) - 1) -> U32]
  <2>1. \A i \in 0..(Cells(m.n) - 1) : m.data[i] \in U32
    <3> DEFINE D == 0..(Cells(m.n) - 1)
               V == -1..MAX
    <3>1. ASSUME NEW i \in D PROVE m.data[i] \in V /\ m.data[i] # -1
      <4>1. m.data \in [D -> V]
        BY <1>1
      <4> HIDE DEF D, V
      <4> QED
        BY <1>2, <4>1
    <3>2. \A x \in V : x # -1 => x \in U32
      BY Cluster DEF U32
    <3> HIDE DEF V
    <3> QED
      BY <3>1, <3>2
  <2> QED
    BY <1>1, <2>1
<1> HIDE DEF GoodRequests
<1> QED
  BY <1>1, <1>3 DEF Matrix

\* It has finitely many applications and pairs of them.
LEMMA AppsFinite ==
  ASSUME NEW m \in GoodRequests, NEW S \in SUBSET (Apps(m) \X Apps(m))
  PROVE  IsFiniteSet(Apps(m)) /\ IsFiniteSet(S)
<1>1. IsFiniteSet(Apps(m))
  BY RequestIs, FS_Interval DEF Apps
<1>2. IsFiniteSet(Apps(m) \X Apps(m))
  BY <1>1, FS_Product
<1> QED
  BY <1>1, <1>2, FS_Subset

\* What two applications ask for is a u32 and does not depend on their order.
LEMMA DemandIs ==
  ASSUME NEW m \in GoodRequests, NEW p \in Apps(m) \X Apps(m)
  PROVE  Demand(m)[p] \in U32 /\ Demand(m)[p] = Demand(m)[<<p[2], p[1]>>]
<1>1. p[1] \in Rows(m.n) /\ p[2] \in Rows(m.n) /\ <<p[2], p[1]>> \in Apps(m) \X Apps(m)
  BY DEF Apps, Rows
<1>2. Demand(m)[p] = At(m, p[1], p[2]) /\ Demand(m)[<<p[2], p[1]>>] = At(m, p[2], p[1])
  BY <1>1 DEF Demand
<1> QED
  BY <1>1, <1>2, RequestIs, AtType, AtSymmetric

\* A sum of demands, not yet wrapped.
LEMMA RequiredIs ==
  ASSUME NEW m \in GoodRequests, NEW S \in SUBSET (Apps(m) \X Apps(m))
  PROVE  Required(m, S) \in Nat
<1>1. U32 \subseteq Nat
  BY Cluster DEF U32
<1>2. \A p \in S : Demand(m)[p] \in Nat
  BY <1>1, DemandIs
<1> QED
  BY <1>2, AppsFinite, SumNat DEF Required

\* Between depends on the pair of rows, not on their order.
LEMMA BetweenIs ==
  ASSUME NEW m \in GoodRequests, NEW at, NEW pairs \in SUBSET (Apps(m) \X Apps(m)), NEW a, NEW b
  PROVE  Between(m, at, pairs, a, b) \in Nat /\ Between(m, at, pairs, a, b) = Between(m, at, pairs, b, a)
<1>1. {p \in pairs : {at[p[1]], at[p[2]]} = {a, b}} \in SUBSET (Apps(m) \X Apps(m))
  OBVIOUS
<1>2. {a, b} = {b, a}
  OBVIOUS
<1> QED
  BY <1>1, <1>2, RequiredIs DEF Between

\* Each pair of applications once.
LEMMA OrderedIs ==
  ASSUME NEW m
  PROVE  Ordered(m) \in SUBSET (Apps(m) \X Apps(m))
BY DEF Ordered

\* u32 arithmetic: exact as long as the result fits.
LEMMA WrapIs ==
  ASSUME NEW x \in Int
  PROVE  Wrap(x) \in U32 /\ (x \in U32 => Wrap(x) = x)
BY Cluster DEF Wrap, U32

-----------------------------------------------------------------------------
\* Booking bandwidth.

\* f has a bandwidth for every two rows.
Bandwidths(n, f) == \A a, c \in Rows(n) : a <= c => f[<<a, c>>] \in U32

\* new_fn yields a matrix of u32 with the given cells.
LEMMA BandwidthsAt ==
  ASSUME NEW n \in Nat, NEW f, Bandwidths(n, f), NEW q, Tabulates(q, n, f)
  PROVE  /\ q \in Matrix(n, U32)
         /\ \A a, c \in Rows(n) : At(q, a, c) = IF a > c THEN f[<<c, a>>] ELSE f[<<a, c>>]
BY NewFnAt DEF Bandwidths

\* The loops that give bandwidth back (stop_emulation, stop_app_emulation_on).
LEMMA GivenBackIs ==
  ASSUME NEW n \in Nat, NEW residual \in Matrix(n, U32), NEW m \in GoodRequests,
         NEW at, NEW pairs \in SUBSET (Apps(m) \X Apps(m))
  PROVE  /\ GivenBack(residual, m, at, pairs) \in Matrix(n, U32)
         /\ \A a, b \in Rows(n) :
              At(GivenBack(residual, m, at, pairs), a, b)
                = Wrap(At(residual, a, b) + Between(m, at, pairs, a, b))
<1> DEFINE left(a, b) == Wrap(At(residual, a, b) + Between(m, at, pairs, a, b))
           f == [p \in Rows(n) \X Rows(n) |-> left(p[1], p[2])]
<1>1. residual.n = n
  BY DEF Matrix
<1>2. ASSUME NEW a \in Rows(n), NEW b \in Rows(n)
      PROVE  left(a, b) \in U32 /\ left(a, b) = left(b, a)
  <2>1. At(residual, a, b) \in U32 /\ At(residual, a, b) = At(residual, b, a)
    BY <1>1, AtType, AtSymmetric
  <2>2. Between(m, at, pairs, a, b) \in Nat /\ Between(m, at, pairs, a, b) = Between(m, at, pairs, b, a)
    BY BetweenIs
  <2>3. At(residual, a, b) + Between(m, at, pairs, a, b) \in Int
    BY <2>1, <2>2, Cluster DEF U32
  <2> QED
    BY <2>1, <2>2, <2>3, WrapIs
<1>3. GivenBack(residual, m, at, pairs) = [n |-> n, data |-> [i \in 0..(Cells(n) - 1) |->
        LET rc == in_to_out_index(i, n) IN left(rc[1], rc[2])]]
  BY <1>1 DEF GivenBack, new_fn, Cells
<1> HIDE DEF left
<1>4. ASSUME NEW i \in 0..(Cells(n) - 1)
      PROVE  f[in_to_out_index(i, n)] = LET rc == in_to_out_index(i, n) IN left(rc[1], rc[2])
  <2>1. PICK row, col \in Rows(n) : in_to_out_index(i, n) = <<row, col>>
    BY PlaceInverse
  <2> QED
    BY <2>1
<1>5. \A a, b \in Rows(n) : f[<<a, b>>] = left(a, b)
  OBVIOUS
<1> HIDE DEF f
<1>6. GivenBack(residual, m, at, pairs)
        = [n |-> n, data |-> [i \in 0..(Cells(n) - 1) |-> f[in_to_out_index(i, n)]]]
  BY <1>3, <1>4
<1>7. /\ GivenBack(residual, m, at, pairs) \in Matrix(n, U32)
      /\ \A a, b \in Rows(n) :
           At(GivenBack(residual, m, at, pairs), a, b) = IF a > b THEN f[<<b, a>>] ELSE f[<<a, b>>]
  <2>1. Bandwidths(n, f)
    BY <1>2, <1>5 DEF Bandwidths
  <2>2. Tabulates(GivenBack(residual, m, at, pairs), n, f)
    BY <1>6 DEF Tabulates
  <2> QED
    BY <2>1, <2>2, BandwidthsAt
<1>8. \A a, b \in Rows(n) : At(GivenBack(residual, m, at, pairs), a, b) = left(a, b)
  BY <1>2, <1>5, <1>7
<1> QED
  BY <1>7, <1>8 DEF left

\* The loop that takes bandwidth (new_emulation).
LEMMA TakenIs ==
  ASSUME NEW n \in Nat, residual_graph \in Matrix(n, U32), NEW m \in GoodRequests, NEW at
  PROVE  /\ Taken(m, at) \in Matrix(n, U32)
         /\ \A a, b \in Rows(n) :
              At(Taken(m, at), a, b) =
                IF a = b THEN Residual(a, b)
                ELSE Wrap(Residual(a, b) - Between(m, at, Ordered(m), a, b))
<1> DEFINE left(a, b) == IF a = b THEN Residual(a, b)
                         ELSE Wrap(Residual(a, b) - Between(m, at, Ordered(m), a, b))
           f == [p \in Rows(n) \X Rows(n) |-> left(p[1], p[2])]
<1>1. residual_graph.n = n
  BY DEF Matrix
<1>2. ASSUME NEW a \in Rows(n), NEW b \in Rows(n)
      PROVE  left(a, b) \in U32 /\ left(a, b) = left(b, a)
  <2>1. Residual(a, b) \in U32 /\ Residual(a, b) = Residual(b, a)
    BY <1>1, AtType, AtSymmetric DEF Residual
  <2>2. /\ Between(m, at, Ordered(m), a, b) \in Nat
        /\ Between(m, at, Ordered(m), a, b) = Between(m, at, Ordered(m), b, a)
    BY BetweenIs, OrderedIs
  <2>3. Residual(a, b) - Between(m, at, Ordered(m), a, b) \in Int
    BY <2>1, <2>2, Cluster DEF U32
  <2> QED
    BY <2>1, <2>2, <2>3, WrapIs
<1>3. Taken(m, at) = [n |-> n, data |-> [i \in 0..(Cells(n) - 1) |->
        LET rc == in_to_out_index(i, n) IN left(rc[1], rc[2])]]
  BY <1>1 DEF Taken, new_fn, Cells, Size
<1> HIDE DEF left
<1>4. ASSUME NEW i \in 0..(Cells(n) - 1)
      PROVE  f[in_to_out_index(i, n)] = LET rc == in_to_out_index(i, n) IN left(rc[1], rc[2])
  <2>1. PICK row, col \in Rows(n) : in_to_out_index(i, n) = <<row, col>>
    BY PlaceInverse
  <2> QED
    BY <2>1
<1>5. \A a, b \in Rows(n) : f[<<a, b>>] = left(a, b)
  OBVIOUS
<1> HIDE DEF f
<1>6. Taken(m, at)
        = [n |-> n, data |-> [i \in 0..(Cells(n) - 1) |-> f[in_to_out_index(i, n)]]]
  BY <1>3, <1>4
<1>7. /\ Taken(m, at) \in Matrix(n, U32)
      /\ \A a, b \in Rows(n) :
           At(Taken(m, at), a, b) = IF a > b THEN f[<<b, a>>] ELSE f[<<a, b>>]
  <2>1. Bandwidths(n, f)
    BY <1>2, <1>5 DEF Bandwidths
  <2>2. Tabulates(Taken(m, at), n, f)
    BY <1>6 DEF Tabulates
  <2> QED
    BY <2>1, <2>2, BandwidthsAt
<1>8. \A a, b \in Rows(n) : At(Taken(m, at), a, b) = left(a, b)
  BY <1>2, <1>5, <1>7
<1> QED
  BY <1>7, <1>8 DEF left

-----------------------------------------------------------------------------
\* The emulations in the books, and the bandwidth they use.

\* What the table of the emulations holds.
LEMMA EmulationsIs ==
  ASSUME NEW n \in Nat, NEW t \in Emulations(n)
  PROVE  /\ DOMAIN t \in SUBSET Emul /\ IsFiniteSet(DOMAIN t)
         /\ t = [e \in DOMAIN t |-> t[e]]
         /\ \A e \in DOMAIN t : /\ t[e] \in Placements(n)
                               /\ t[e].matrix \in GoodRequests
                               /\ t[e].equivalence \in [Apps(t[e].matrix) -> Rows(n)]
<1>1. PICK S \in SUBSET Emul : t \in [S -> Placements(n)]
  BY DEF Emulations
<1>2. DOMAIN t = S /\ \A e \in S : t[e] \in Placements(n)
  BY <1>1
<1>3. IsFiniteSet(S)
  BY Cluster, FS_Subset
<1>4. ASSUME NEW e \in S
      PROVE  t[e].matrix \in GoodRequests /\ t[e].equivalence \in [Apps(t[e].matrix) -> Rows(n)]
  BY <1>2 DEF Placements
<1> QED
  BY <1>1, <1>2, <1>3, <1>4

\* Removing entries from that table.
LEMMA WithoutIs ==
  ASSUME NEW n \in Nat, NEW t \in Emulations(n), NEW S
  PROVE  /\ Without(t, S) \in Emulations(n)
         /\ DOMAIN Without(t, S) = DOMAIN t \ S
         /\ \A e \in DOMAIN t \ S : Without(t, S)[e] = t[e]
<1> DEFINE D == DOMAIN t \ S
<1>1. Without(t, S) = [e \in D |-> t[e]]
  BY DEF Without, Restrict
<1>2. D \in SUBSET Emul /\ \A e \in D : t[e] \in Placements(n)
  BY EmulationsIs
<1> HIDE DEF D
<1>3. Without(t, S) \in [D -> Placements(n)]
  BY <1>1, <1>2
<1>4. Without(t, S) \in Emulations(n)
  BY <1>2, <1>3 DEF Emulations
<1> QED
  BY <1>1, <1>4 DEF D

\* The bandwidth in use is the share of one emulation and that of the others.
LEMMA InUseByIs ==
  ASSUME NEW n \in Nat, NEW t \in Emulations(n), NEW a, NEW c
  PROVE  /\ InUseBy(t, a, c) \in Nat
         /\ \A e \in DOMAIN t :
              /\ UsedBy(t[e], a, c) \in Nat
              /\ InUseBy(t, a, c) = UsedBy(t[e], a, c) + InUseBy(Without(t, {e}), a, c)
<1> DEFINE f == [e \in DOMAIN t |-> UsedBy(t[e], a, c)]
<1>1. \A e \in DOMAIN t : UsedBy(t[e], a, c) \in Nat
  BY EmulationsIs, OrderedIs, BetweenIs DEF UsedBy
<1>2. \A e \in DOMAIN t : f[e] \in Nat /\ f[e] \in Int
  BY <1>1
<1>3. IsFiniteSet(DOMAIN t)
  BY EmulationsIs
<1>4. InUseBy(t, a, c) = SumFunctionOnSet(f, DOMAIN t)
  BY DEF InUseBy, SumFunction
<1>5. InUseBy(t, a, c) \in Nat
  <2> HIDE DEF f
  <2> QED
    BY <1>2, <1>3, <1>4, SumNat
<1>6. ASSUME NEW e \in DOMAIN t
      PROVE  InUseBy(t, a, c) = UsedBy(t[e], a, c) + InUseBy(Without(t, {e}), a, c)
  <2> DEFINE D == DOMAIN t \ {e}
             g == [x \in D |-> UsedBy(Without(t, {e})[x], a, c)]
  <2>1. DOMAIN Without(t, {e}) = D /\ \A x \in D : Without(t, {e})[x] = t[x]
    BY WithoutIs
  <2>2. InUseBy(Without(t, {e}), a, c) = SumFunctionOnSet(g, D)
    BY <2>1 DEF InUseBy, SumFunction
  <2>3. \A x \in D : f[x] \in Int /\ f[x] = g[x]
    BY <1>1, <2>1
  <2>4. IsFiniteSet(D)
    BY <1>3, FS_Subset
  <2>5. f[e] = UsedBy(t[e], a, c)
    OBVIOUS
  <2> HIDE DEF f, g
  <2>6. SumFunctionOnSet(f, DOMAIN t) = f[e] + SumFunctionOnSet(f, D)
    BY <1>2, <1>3, SumRemove
  <2>7. SumFunctionOnSet(f, D) = SumFunctionOnSet(g, D)
    <3> HIDE DEF D
    <3> QED
      BY <2>3, <2>4, SumSame
  <2> QED
    BY <1>4, <2>2, <2>5, <2>6, <2>7
<1> QED
  BY <1>1, <1>5, <1>6

-----------------------------------------------------------------------------
\* Stopping emulations.

BookSet(n) ==
  [residual : Matrix(n, U32), mapping : Seq(Host), attributed : Attributions,
   load : [Host -> [Emul -> Nat]], emulations : Emulations(n)]

\* Speeds between two hosts of the mapping are u32.
LEMMA CapacityIs ==
  ASSUME NEW mapping \in Seq(Host), IsInjective(mapping), NEW a \in Rows(Len(mapping)),
         NEW c \in Rows(Len(mapping)), a # c
  PROVE  CapacityOf(mapping, a, c) \in U32
<1>1. a + 1 \in DOMAIN mapping /\ c + 1 \in DOMAIN mapping /\ a + 1 # c + 1
  BY DEF Rows
<1>2. mapping[a + 1] \in Host /\ mapping[c + 1] \in Host /\ mapping[a + 1] # mapping[c + 1]
  BY <1>1 DEF IsInjective
<1> QED
  BY <1>2, Cluster DEF CapacityOf, U32

\* r: the books b when emulation e is stopped.
StoppedOne(b, e, r) ==
  LET em == b.emulations[e]
  IN  /\ r.residual = GivenBack(b.residual, em.matrix, em.equivalence, Ordered(em.matrix))
      /\ r.mapping = b.mapping
      /\ r.attributed = [h \in DOMAIN b.attributed |-> b.attributed[h] \ {e}]
      /\ r.load = [h \in Host |-> [b.load[h] EXCEPT ![e] = 0]]
      /\ r.emulations = Without(b.emulations, {e})

\* stop_emulation keeps the books typed and forgets one emulation.
LEMMA StopIs ==
  ASSUME NEW n \in Nat, NEW b \in BookSet(n), NEW e \in DOMAIN b.emulations
  PROVE  stop_emulation(b, e) \in BookSet(n) /\ StoppedOne(b, e, stop_emulation(b, e))
<1> DEFINE em == b.emulations[e]
           res == GivenBack(b.residual, em.matrix, em.equivalence, Ordered(em.matrix))
           att == [h \in DOMAIN b.attributed |-> b.attributed[h] \ {e}]
           load == [h \in Host |-> [b.load[h] EXCEPT ![e] = 0]]
           r == [residual |-> res, mapping |-> b.mapping, attributed |-> att, load |-> load,
                 emulations |-> Without(b.emulations, {e})]
<1>1. /\ b = [residual |-> b.residual, mapping |-> b.mapping, attributed |-> b.attributed,
              load |-> b.load, emulations |-> b.emulations]
      /\ b.residual \in Matrix(n, U32) /\ b.mapping \in Seq(Host) /\ b.attributed \in Attributions
      /\ b.load \in [Host -> [Emul -> Nat]] /\ b.emulations \in Emulations(n)
  BY DEF BookSet
<1>2. stop_emulation(b, e) = r
  BY <1>1 DEF stop_emulation
<1>3. res \in Matrix(n, U32)
  <2>1. em.matrix \in GoodRequests
    BY <1>1, EmulationsIs
  <2> HIDE DEF em
  <2> QED
    BY <1>1, <2>1, OrderedIs, GivenBackIs
<1>4. att \in Attributions
  <2>1. PICK S \in SUBSET Host : b.attributed \in [S -> SUBSET Emul]
    BY <1>1 DEF Attributions
  <2>2. att \in [S -> SUBSET Emul]
    BY <2>1
  <2> QED
    BY <2>2 DEF Attributions
<1>5. load \in [Host -> [Emul -> Nat]]
  <2>1. \A h \in Host : [b.load[h] EXCEPT ![e] = 0] \in [Emul -> Nat]
    BY <1>1
  <2> QED
    BY <2>1
<1>6. Without(b.emulations, {e}) \in Emulations(n)
  BY <1>1, WithoutIs
<1> HIDE DEF res, att, load
<1>7. r \in BookSet(n)
  BY <1>1, <1>3, <1>4, <1>5, <1>6 DEF BookSet
<1> QED
  BY <1>2, <1>7 DEF StoppedOne, res, att, load

\* What stop_emulation gives back is what the emulation used: nothing wraps.
LEMMA StopBalanced ==
  ASSUME NEW n \in Nat, NEW b \in BookSet(n), NEW e \in DOMAIN b.emulations,
         Len(b.mapping) = n, IsInjective(b.mapping), Balanced(b)
  PROVE  Balanced(stop_emulation(b, e))
<1> DEFINE r == stop_emulation(b, e)
           em == b.emulations[e]
<1>1. /\ r \in BookSet(n) /\ r.mapping = b.mapping
      /\ r.residual = GivenBack(b.residual, em.matrix, em.equivalence, Ordered(em.matrix))
      /\ r.emulations = Without(b.emulations, {e})
  BY StopIs DEF StoppedOne
<1>2. /\ b.residual \in Matrix(n, U32) /\ b.mapping \in Seq(Host) /\ b.emulations \in Emulations(n)
      /\ r.residual \in Matrix(n, U32) /\ r.emulations \in Emulations(n)
  BY <1>1 DEF BookSet
<1>3. b.residual.n = n /\ r.residual.n = n
  BY <1>2 DEF Matrix
<1>4. em.matrix \in GoodRequests
  BY <1>2, EmulationsIs
<1> HIDE DEF r, em
<1>5. ASSUME NEW a \in Rows(n), NEW c \in Rows(n), a # c
      PROVE  At(r.residual, a, c) + InUseBy(r.emulations, a, c) = CapacityOf(r.mapping, a, c)
  <2> DEFINE x == At(b.residual, a, c)
             u == UsedBy(em, a, c)
             y == InUseBy(r.emulations, a, c)
             cap == CapacityOf(b.mapping, a, c)
  <2>1. At(r.residual, a, c) = Wrap(x + u)
    BY <1>1, <1>2, <1>4, OrderedIs, GivenBackIs DEF UsedBy
  <2>2. x \in U32
    BY <1>2, AtType
  <2>3. InUseBy(b.emulations, a, c) = u + y /\ u \in Nat
    <3>1. /\ UsedBy(b.emulations[e], a, c) \in Nat
          /\ InUseBy(b.emulations, a, c)
               = UsedBy(b.emulations[e], a, c) + InUseBy(Without(b.emulations, {e}), a, c)
      BY <1>2, InUseByIs
    <3> QED
      BY <1>1, <3>1 DEF em
  <2>4. y \in Nat
    BY <1>2, InUseByIs
  <2>5. cap \in U32
    <3>1. a \in Rows(Len(b.mapping)) /\ c \in Rows(Len(b.mapping))
      OBVIOUS
    <3> QED
      BY <1>2, <1>5, <3>1, CapacityIs
  <2>6. x + InUseBy(b.emulations, a, c) = cap
    BY <1>3, <1>5 DEF Balanced
  <2> HIDE DEF x, u, y, cap
  <2>7. x + u \in U32 /\ x + u \in Int /\ x + u + y = cap
    BY <2>2, <2>3, <2>4, <2>5, <2>6, Cluster DEF U32
  <2>8. Wrap(x + u) = x + u
    BY <2>7, WrapIs
  <2> QED
    BY <1>1, <2>1, <2>7, <2>8 DEF y, cap
<1> QED
  BY <1>3, <1>5 DEF Balanced, r

\* r: what becomes of the books b when the emulations in S are stopped.
Stopped(b, S, r) ==
  /\ r.mapping = b.mapping
  /\ r.attributed = [h \in DOMAIN b.attributed |-> b.attributed[h] \ S]
  /\ r.load = [h \in Host |-> [e \in Emul |-> IF e \in S THEN 0 ELSE b.load[h][e]]]
  /\ r.emulations = Without(b.emulations, S)
  /\ Balanced(b) => Balanced(r)

\* The induction over the emulations to stop: none, and one more.
LEMMA StoppedNone ==
  ASSUME NEW n \in Nat, NEW b \in BookSet(n)
  PROVE  Stopped(b, {}, b)
<1>1. /\ b.attributed \in Attributions /\ b.load \in [Host -> [Emul -> Nat]]
      /\ b.emulations \in Emulations(n)
  BY DEF BookSet
<1>2. b.attributed = [h \in DOMAIN b.attributed |-> b.attributed[h] \ {}]
  BY <1>1 DEF Attributions
<1>3. b.load = [h \in Host |-> [e \in Emul |-> IF e \in {} THEN 0 ELSE b.load[h][e]]]
  BY <1>1
<1>4. b.emulations = Without(b.emulations, {})
  <2>1. DOMAIN b.emulations \ {} = DOMAIN b.emulations
    OBVIOUS
  <2>2. b.emulations = [e \in DOMAIN b.emulations |-> b.emulations[e]]
    BY <1>1, EmulationsIs
  <2> QED
    BY <2>1, <2>2 DEF Without, Restrict
<1> QED
  BY <1>2, <1>3, <1>4 DEF Stopped

\* Forgetting all but one of S, then that one.
LEMMA WithoutOneMore ==
  ASSUME NEW t, NEW S, NEW e \in S, e \in DOMAIN t
  PROVE  /\ e \in DOMAIN Without(t, S \ {e})
         /\ Without(Without(t, S \ {e}), {e}) = Without(t, S)
<1> DEFINE A == DOMAIN t \ (S \ {e})
<1>1. Without(t, S \ {e}) = [x \in A |-> t[x]] /\ e \in A /\ A \ {e} = DOMAIN t \ S
  BY DEF Without, Restrict
<1> HIDE DEF A
<1>2. Without([x \in A |-> t[x]], {e}) = [x \in A \ {e} |-> t[x]]
  BY DEF Without, Restrict
<1>3. Without(t, S) = [x \in DOMAIN t \ S |-> t[x]]
  BY DEF Without, Restrict
<1> QED
  BY <1>1, <1>2, <1>3

\* One more emulation is stopped.
LEMMA StoppedOneMore ==
  ASSUME NEW n \in Nat, NEW b \in BookSet(n), Len(b.mapping) = n, IsInjective(b.mapping),
         NEW S \in SUBSET DOMAIN b.emulations, NEW e \in S,
         NEW r \in BookSet(n), Stopped(b, S \ {e}, r)
  PROVE  Stopped(b, S, stop_emulation(r, e))
<1> DEFINE q == stop_emulation(r, e)
           T == S \ {e}
<1>0. /\ e \in DOMAIN r.emulations
      /\ Without(r.emulations, {e}) = Without(b.emulations, S)
  <2>1. r.emulations = Without(b.emulations, S \ {e})
    BY DEF Stopped
  <2>2. e \in DOMAIN b.emulations
    OBVIOUS
  <2>3. /\ e \in DOMAIN Without(b.emulations, S \ {e})
        /\ Without(Without(b.emulations, S \ {e}), {e}) = Without(b.emulations, S)
    BY <2>2, WithoutOneMore
  <2> QED
    BY <2>1, <2>3
<1>1. e \in DOMAIN r.emulations
  BY <1>0
<1>2. b.load \in [Host -> [Emul -> Nat]]
  BY DEF BookSet
<1>3. /\ q.mapping = r.mapping
      /\ q.attributed = [h \in DOMAIN r.attributed |-> r.attributed[h] \ {e}]
      /\ q.load = [h \in Host |-> [r.load[h] EXCEPT ![e] = 0]]
      /\ q.emulations = Without(r.emulations, {e})
  <2>1. StoppedOne(r, e, q)
    BY <1>1, StopIs
  <2> HIDE DEF q
  <2> QED
    BY <2>1 DEF StoppedOne
<1>4. Balanced(r) => Balanced(q)
  <2>1. Len(r.mapping) = n /\ IsInjective(r.mapping)
    BY DEF Stopped
  <2> QED
    BY <1>1, <2>1, StopBalanced
<1> HIDE DEF q
<1>5. q.attributed = [h \in DOMAIN b.attributed |-> b.attributed[h] \ S]
  <2>1. r.attributed = [h \in DOMAIN b.attributed |-> b.attributed[h] \ T]
    BY DEF Stopped
  <2>2. \A h \in DOMAIN b.attributed : (b.attributed[h] \ T) \ {e} = b.attributed[h] \ S
    OBVIOUS
  <2> HIDE DEF T
  <2> QED
    BY <1>3, <2>1, <2>2
<1>6. q.load = [h \in Host |-> [x \in Emul |-> IF x \in S THEN 0 ELSE b.load[h][x]]]
  <2>1. r.load = [h \in Host |-> [x \in Emul |-> IF x \in T THEN 0 ELSE b.load[h][x]]]
    BY DEF Stopped
  <2>2. ASSUME NEW h \in Host
        PROVE  [r.load[h] EXCEPT ![e] = 0] = [x \in Emul |-> IF x \in S THEN 0 ELSE b.load[h][x]]
    <3>1. r.load[h] = [x \in Emul |-> IF x \in T THEN 0 ELSE b.load[h][x]]
      BY <2>1
    <3> QED
      BY <3>1
  <2> QED
    BY <1>3, <2>2
<1>7. q.emulations = Without(b.emulations, S)
  BY <1>0, <1>3
<1> QED
  BY <1>3, <1>4, <1>5, <1>6, <1>7 DEF Stopped, q

\* StopAll: the emulations are stopped one after the other.
LEMMA StopAllIs ==
  ASSUME NEW n \in Nat, NEW b \in BookSet(n), Len(b.mapping) = n, IsInjective(b.mapping),
         NEW U \in SUBSET DOMAIN b.emulations
  PROVE  StopAll(b, U) \in BookSet(n) /\ Stopped(b, U, StopAll(b, U))
<1> DEFINE V == BookSet(n)
           Body(H, s) == IF s = {} THEN b ELSE stop_emulation(H[s \ {Some(s)}], Some(s))
           Is(H) == H = [s \in SUBSET U |-> Body(H, s)]
           pick == [s \in (SUBSET U) \ {{}} |-> Some(s)]
           G == [e \in U |-> [v \in V |-> stop_emulation(v, e)]]
           H == CHOOSE H : Is(H)
<1>1. IsFiniteSet(U)
  <2>1. b.emulations \in Emulations(n)
    BY DEF BookSet
  <2> QED
    BY <2>1, EmulationsIs, FS_Subset
<1>2. \A s \in SUBSET U : s # {} => Some(s) \in s
  BY DEF Some
<1>3. ASSUME NEW e \in U, NEW v \in V PROVE stop_emulation(v, e) \in V
  <2>1. CASE e \in DOMAIN v.emulations
    BY <2>1, StopIs
  <2>2. CASE e \notin DOMAIN v.emulations
    BY <2>2 DEF stop_emulation
  <2> QED
    BY <2>1, <2>2
<1> HIDE DEF V
<1>4. G \in Steps(U, V) /\ pick \in Picks(U)
  BY <1>2, <1>3 DEF Steps, Picks
<1>5. PICK F : F \in Folded(U, V, b, pick, G)
  <2>1. b \in V
    BY DEF V
  <2> HIDE DEF G, pick
  <2> QED
    BY <1>1, <1>4, <2>1, FoldExists
<1>6. \E K : Is(K)
  <2>0. /\ F \in [SUBSET U -> V]
        /\ \A s \in SUBSET U : F[s] = IF s = {} THEN b ELSE G[pick[s]][F[s \ {pick[s]}]]
    <3> HIDE DEF G, pick
    <3> QED
      BY <1>5 DEF Folded
  <2>1. ASSUME NEW s \in SUBSET U PROVE F[s] = Body(F, s)
    <3>1. CASE s = {}
      BY <2>0, <3>1
    <3>2. CASE s # {}
      <4>1. pick[s] = Some(s) /\ Some(s) \in U /\ s \ {Some(s)} \in SUBSET U
        BY <1>2, <3>2
      <4>2. F[s \ {Some(s)}] \in V
        BY <2>0, <4>1
      <4>3. F[s] = G[Some(s)][F[s \ {Some(s)}]]
        <5> HIDE DEF G, pick
        <5> QED
          BY <2>0, <3>2, <4>1
      <4> QED
        BY <3>2, <4>1, <4>2, <4>3
    <3> QED
      BY <3>1, <3>2
  <2> HIDE DEF Body
  <2>2. F = [s \in SUBSET U |-> Body(F, s)]
    BY <2>0, <2>1
  <2> QED
    BY <2>2
<1>7. Is(H)
  <2> HIDE DEF Is
  <2> QED
    BY <1>6
<1>8. \A s \in SUBSET U : H[s] = Body(H, s)
  <2> HIDE DEF H, Body
  <2> QED
    BY <1>7
<1>9. StopAll(b, U) = H[U]
  BY DEF StopAll, FoldSet, MapThenFoldSet, Some
<1> HIDE DEF H
<1> DEFINE P == {s \in SUBSET U : H[s] \in V /\ Stopped(b, s, H[s])}
<1>10. ASSUME NEW s \in SUBSET U, \A t \in SUBSET U : t \subseteq s /\ t # s => t \in P
       PROVE  s \in P
  <2>1. CASE s = {}
    BY <1>8, <2>1, StoppedNone DEF V
  <2>2. CASE s # {}
    <3> DEFINE e == Some(s)
               t == s \ {e}
    <3>1. e \in s /\ t \in SUBSET U /\ t \subseteq s /\ t # s
      BY <1>2, <2>2
    <3>2. H[t] \in V /\ Stopped(b, t, H[t])
      BY <1>10, <3>1
    <3>3. H[s] = stop_emulation(H[t], e)
      BY <1>8, <2>2
    <3>4. H[s] \in V
      BY <1>3, <3>1, <3>2, <3>3
    <3>5. Stopped(b, s, H[s])
      <4> HIDE DEF e
      <4> QED
        BY <3>1, <3>2, <3>3, StoppedOneMore DEF V
    <3> QED
      BY <3>4, <3>5
  <2> QED
    BY <2>1, <2>2
<1>11. \A s \in SUBSET U : s \in P
  <2> HIDE DEF P
  <2> QED
    BY <1>1, <1>10, SubsetInduction
<1> QED
  BY <1>9, <1>11 DEF V

-----------------------------------------------------------------------------
\* Losing a host.

\* Vec::remove: the entries behind the removed one move up.
LEMMA RemoveAtIs ==
  ASSUME NEW T, NEW s \in Seq(T), NEW id \in DOMAIN s
  PROVE  LET r == RemoveAt(s, id)
         IN  /\ r \in Seq(T) /\ Len(r) = Len(s) - 1
             /\ \A i \in DOMAIN r : r[i] = IF i < id THEN s[i] ELSE s[i + 1]
<1>1. id \in 1..Len(s) /\ Len(s) \in Nat
  OBVIOUS
<1> DEFINE A == SubSeq(s, 1, id - 1)
           B == SubSeq(s, id + 1, Len(s))
<1>2. A \in Seq(T) /\ Len(A) = id - 1 /\ \A i \in 1..(id - 1) : A[i] = s[i]
  BY <1>1
<1>3. B \in Seq(T) /\ Len(B) = Len(s) - id /\ \A i \in 1..(Len(s) - id) : B[i] = s[id + i]
  BY <1>1
<1>4. RemoveAt(s, id) = A \o B
  BY DEF RemoveAt
<1> HIDE DEF A, B
<1>5. /\ A \o B \in Seq(T) /\ Len(A \o B) = Len(s) - 1 /\ DOMAIN (A \o B) = 1..(Len(s) - 1)
      /\ \A i \in 1..(Len(s) - 1) : (A \o B)[i] = IF i <= id - 1 THEN A[i] ELSE B[i - (id - 1)]
  <2>1. A \in Seq(T) /\ B \in Seq(T) /\ Len(A) + Len(B) = Len(s) - 1
    BY <1>1, <1>2, <1>3
  <2>2. /\ A \o B \in Seq(T) /\ Len(A \o B) = Len(A) + Len(B)
        /\ DOMAIN (A \o B) = 1..(Len(A) + Len(B))
    BY <2>1
  <2>3. \A i \in 1..(Len(A) + Len(B)) :
          (A \o B)[i] = IF i <= Len(A) THEN A[i] ELSE B[i - Len(A)]
    BY <2>1
  <2> QED
    BY <1>2, <2>1, <2>2, <2>3
<1>6. ASSUME NEW i \in 1..(Len(s) - 1)
      PROVE  (A \o B)[i] = IF i < id THEN s[i] ELSE s[i + 1]
  <2>1. CASE i < id
    BY <1>1, <1>2, <1>5, <2>1
  <2>2. CASE ~(i < id)
    <3>1. i - (id - 1) \in 1..(Len(s) - id) /\ id + (i - (id - 1)) = i + 1 /\ ~(i <= id - 1)
      BY <1>1, <2>2
    <3>2. (A \o B)[i] = B[i - (id - 1)]
      BY <1>5, <3>1
    <3>3. B[i - (id - 1)] = s[id + (i - (id - 1))]
      BY <1>3, <3>1
    <3> QED
      BY <2>2, <3>1, <3>2, <3>3
  <2> QED
    BY <2>1, <2>2
<1> QED
  BY <1>4, <1>5, <1>6

\* Removing a host from a vector of distinct hosts.
LEMMA RemoveHostIs ==
  ASSUME NEW T, NEW s \in Seq(T), IsInjective(s), NEW h \in Range(s)
  PROVE  LET id == Row(s, h)
             r == RemoveAt(s, id)
         IN  /\ id \in DOMAIN s /\ s[id] = h
             /\ r \in Seq(T) /\ Len(r) = Len(s) - 1
             /\ \A i \in DOMAIN r : r[i] = IF i < id THEN s[i] ELSE s[i + 1]
             /\ IsInjective(r) /\ Range(r) = Range(s) \ {h}
<1> DEFINE id == Row(s, h)
           r == RemoveAt(s, id)
<1>1. id \in DOMAIN s /\ s[id] = h
  BY DEF Row, Range
<1> HIDE DEF id
<1>2. /\ r \in Seq(T) /\ Len(r) = Len(s) - 1
      /\ \A i \in DOMAIN r : r[i] = IF i < id THEN s[i] ELSE s[i + 1]
  BY <1>1, RemoveAtIs
<1> HIDE DEF r
<1>3. DOMAIN s = 1..Len(s) /\ DOMAIN r = 1..(Len(s) - 1) /\ Len(s) \in Nat
  BY <1>2
<1>4. \A i, j \in DOMAIN s : s[i] = s[j] => i = j
  BY DEF IsInjective
<1>5. ASSUME NEW i \in DOMAIN r, NEW j \in DOMAIN r, r[i] = r[j] PROVE i = j
  <2> DEFINE k == IF i < id THEN i ELSE i + 1
             l == IF j < id THEN j ELSE j + 1
  <2>1. k \in DOMAIN s /\ l \in DOMAIN s /\ r[i] = s[k] /\ r[j] = s[l]
    BY <1>1, <1>2, <1>3
  <2>2. k = l
    <3> HIDE DEF k, l
    <3> QED
      BY <1>4, <1>5, <2>1
  <2> QED
    BY <1>1, <1>3, <2>2
<1>6. Range(r) = Range(s) \ {h}
  <2>1. ASSUME NEW i \in DOMAIN r PROVE r[i] \in Range(s) \ {h}
    <3> DEFINE k == IF i < id THEN i ELSE i + 1
    <3>1. k \in DOMAIN s /\ r[i] = s[k] /\ k # id
      BY <1>1, <1>2, <1>3
    <3> HIDE DEF k
    <3> QED
      BY <1>1, <1>4, <3>1 DEF Range
  <2>2. ASSUME NEW k \in DOMAIN s, s[k] # h PROVE \E i \in DOMAIN r : r[i] = s[k]
    <3>1. CASE k < id
      <4>1. k \in DOMAIN r /\ r[k] = s[k]
        BY <1>1, <1>2, <1>3, <3>1
      <4> QED
        BY <4>1
    <3>2. CASE k > id
      <4>1. k - 1 \in DOMAIN r /\ ~(k - 1 < id) /\ (k - 1) + 1 = k
        BY <1>1, <1>3, <3>2
      <4>2. r[k - 1] = s[k]
        BY <1>2, <4>1
      <4> QED
        BY <4>1, <4>2
    <3> QED
      BY <1>1, <1>3, <2>2, <3>1, <3>2
  <2> QED
    BY <2>1, <2>2 DEF Range
<1>7. IsInjective(r)
  BY <1>5 DEF IsInjective
<1> QED
  BY <1>1, <1>2, <1>6, <1>7 DEF id, r

\* No emulation uses anything.
LEMMA NothingInUse ==
  ASSUME NEW t, DOMAIN t = {}, NEW a, NEW c
  PROVE  InUseBy(t, a, c) = 0
BY SumEmpty DEF InUseBy, SumFunction

\* A host without a load for any emulation (get_actual_load).
LEMMA NoLoad ==
  ASSUME NEW f, DOMAIN f = Emul, \A e \in Emul : f[e] = 0
  PROVE  SumFunction(f) = 0
BY Cluster, SumZero DEF SumFunction

\* The record of the books has the type of its variables.
LEMMA BooksIs ==
  ASSUME BooksTyped
  PROVE  /\ Len(host_mapping) \in Nat /\ Books \in BookSet(Len(host_mapping))
         /\ Books.residual = residual_graph /\ Books.mapping = host_mapping
         /\ Books.attributed = attributed_emul /\ Books.load = current_load
         /\ Books.emulations = emulations
<1>1. Len(host_mapping) \in Nat
  BY DEF BooksTyped
<1>2. Books \in BookSet(Len(host_mapping))
  BY DEF BooksTyped, Books, BookSet
<1> QED
  BY <1>1, <1>2 DEF Books

\* Every emulation in the books is stopped when a host is lost.
LEMMA AllConcerned ==
  ASSUME BooksTyped, AttributedWhileRunning, Attributable, NEW h
  PROVE  uuids_concerned(Books, h) = DOMAIN emulations
<1>1. uuids_concerned(Books, h) = UNION Range(attributed_emul)
  BY BooksIs DEF uuids_concerned
<1>2. ASSUME NEW x \in DOMAIN attributed_emul PROVE attributed_emul[x] \subseteq DOMAIN emulations
  BY DEF AttributedWhileRunning
<1>3. ASSUME NEW e \in DOMAIN emulations
      PROVE  \E x \in DOMAIN attributed_emul : e \in attributed_emul[x]
  <2>1. PICK app \in Running(e) : TRUE
    BY DEF AttributedWhileRunning
  <2>2. HostOf(e, app) \in DOMAIN attributed_emul
    BY <2>1 DEF Attributable
  <2>3. e \in attributed_emul[HostOf(e, app)]
    BY <2>1, <2>2 DEF AttributedWhileRunning
  <2> QED
    BY <2>2, <2>3
<1> QED
  BY <1>1, <1>2, <1>3 DEF Range

\* r: the books without host h.
Removed(h, r) ==
  /\ r.mapping = RemoveAt(host_mapping, Row(host_mapping, h))
  /\ r.residual \in Matrix(Len(host_mapping) - 1, U32)
  /\ r.attributed \in Attributions /\ \A x \in DOMAIN r.attributed : r.attributed[x] = {}
  /\ r.load \in [Host -> [Emul -> Nat]] /\ \A x \in Host, e \in Emul : r.load[x][e] = 0
  /\ r.emulations \in Emulations(Len(host_mapping) - 1) /\ DOMAIN r.emulations = {}
  /\ Balanced(Books) => Balanced(r)

\* remove_cluster_node: everything is stopped, a row less.
LEMMA RemoveIs ==
  ASSUME BooksTyped, LoadsRight, AttributedWhileRunning, Attributable, NEW h \in Range(host_mapping)
  PROVE  Removed(h, remove_cluster_node(Books, h))
<1> DEFINE n == Len(host_mapping)
           id == Row(host_mapping, h)
           U == DOMAIN emulations
           q == StopAll(Books, U)
           r == remove_cluster_node(Books, h)
           D == DOMAIN q.attributed \ {h}
<1>1. n \in Nat /\ Books \in BookSet(n) /\ Books.mapping = host_mapping /\ Books.emulations = emulations
  BY BooksIs
<1>2. host_mapping \in Seq(Host) /\ IsInjective(host_mapping)
  BY DEF BooksTyped
<1>3. q \in BookSet(n) /\ Stopped(Books, U, q)
  <2> HIDE DEF n, q
  <2>1. U \in SUBSET DOMAIN Books.emulations /\ Len(Books.mapping) = n /\ IsInjective(Books.mapping)
    BY <1>1, <1>2 DEF n
  <2> HIDE DEF U
  <2> QED
    BY <1>1, <2>1, StopAllIs DEF q
<1>4. /\ id \in DOMAIN host_mapping /\ Len(RemoveAt(host_mapping, id)) = n - 1
      /\ \A i \in DOMAIN RemoveAt(host_mapping, id) :
           RemoveAt(host_mapping, id)[i]
             = IF i < id THEN host_mapping[i] ELSE host_mapping[i + 1]
  BY <1>2, RemoveHostIs
<1>5. uuids_concerned(Books, h) = U
  BY AllConcerned
<1> HIDE DEF q
<1>6. /\ r.residual = remove_id(q.residual, id - 1)
      /\ r.mapping = RemoveAt(host_mapping, id)
      /\ r.attributed = [x \in D |-> q.attributed[x]]
      /\ r.load = q.load /\ r.emulations = q.emulations
  <2>1. q = [residual |-> q.residual, mapping |-> q.mapping, attributed |-> q.attributed,
             load |-> q.load, emulations |-> q.emulations]
    BY <1>3 DEF BookSet
  <2>2. q.mapping = host_mapping
    BY <1>1, <1>3 DEF Stopped
  <2>3. r = [residual |-> remove_id(q.residual, id - 1), mapping |-> RemoveAt(q.mapping, id),
             attributed |-> Without(q.attributed, {h}), load |-> q.load,
             emulations |-> q.emulations]
    <3>1. StopAll(Books, uuids_concerned(Books, h)) = q
      BY <1>5 DEF q
    <3>2. r = [q EXCEPT !.residual = remove_id(@, id - 1), !.mapping = RemoveAt(@, id),
                        !.attributed = Without(@, {h})]
      BY <1>1, <3>1 DEF remove_cluster_node
    <3> HIDE DEF r, id
    <3> QED
      BY <2>1, <3>2
  <2> HIDE DEF r
  <2> QED
    BY <2>2, <2>3 DEF Without, Restrict
<1> HIDE DEF r, id
<1>7. /\ r.residual \in Matrix(n - 1, U32)
      /\ \A a, c \in Rows(n - 1) :
           At(r.residual, a, c) = At(q.residual, IF a >= id - 1 THEN a + 1 ELSE a,
                                                IF c >= id - 1 THEN c + 1 ELSE c)
  <2>1. q.residual \in Matrix(n, U32)
    BY <1>3 DEF BookSet
  <2>2. id - 1 \in Rows(n) /\ n > 0
    BY <1>2, <1>4 DEF Rows
  <2> HIDE DEF n
  <2> QED
    BY <1>1, <1>6, <2>1, <2>2, RemoveIdAt
<1>8. r.attributed \in Attributions /\ \A x \in DOMAIN r.attributed : r.attributed[x] = {}
  <2>1. q.attributed = [x \in DOMAIN attributed_emul |-> attributed_emul[x] \ U]
    BY <1>3, BooksIs DEF Stopped
  <2>2. \A x \in DOMAIN attributed_emul : attributed_emul[x] \ U = {}
    BY DEF AttributedWhileRunning
  <2>3. DOMAIN attributed_emul \in SUBSET Host
    BY DEF BooksTyped, Attributions
  <2>4. D \in SUBSET Host /\ \A x \in D : q.attributed[x] = {}
    BY <2>1, <2>2, <2>3
  <2> HIDE DEF D
  <2>5. r.attributed \in [D -> SUBSET Emul]
    BY <1>6, <2>4
  <2> QED
    BY <1>6, <2>4, <2>5 DEF Attributions
<1>9. r.load \in [Host -> [Emul -> Nat]] /\ \A x \in Host, e \in Emul : r.load[x][e] = 0
  <2>1. q.load = [x \in Host |-> [e \in Emul |-> IF e \in U THEN 0 ELSE current_load[x][e]]]
    BY <1>3, BooksIs DEF Stopped
  <2>2. q.load \in [Host -> [Emul -> Nat]]
    BY <1>3 DEF BookSet
  <2>3. \A x \in Host, e \in Emul : e \notin U => current_load[x][e] = 0
    BY DEF LoadsRight
  <2> HIDE DEF U
  <2> QED
    BY <1>6, <2>1, <2>2, <2>3
<1>10. r.emulations \in Emulations(n - 1) /\ DOMAIN r.emulations = {}
  <2>1. q.emulations = Without(emulations, U)
    BY <1>1, <1>3 DEF Stopped
  <2>2. r.emulations \in [{} -> Placements(n - 1)]
    BY <1>6, <2>1 DEF Without, Restrict
  <2>3. {} \in SUBSET Emul
    OBVIOUS
  <2> HIDE DEF n
  <2> QED
    BY <2>2, <2>3 DEF Emulations
<1>11. ASSUME Balanced(Books) PROVE Balanced(r)
  <2>1. Balanced(q) /\ q.mapping = host_mapping /\ q.emulations = r.emulations
    BY <1>1, <1>3, <1>6, <1>11 DEF Stopped
  <2>2. q.residual.n = n /\ r.residual.n = n - 1
    BY <1>3, <1>7 DEF BookSet, Matrix
  <2>3. ASSUME NEW a \in Rows(n - 1), NEW c \in Rows(n - 1), a # c
        PROVE  At(r.residual, a, c) + InUseBy(r.emulations, a, c) = CapacityOf(r.mapping, a, c)
    <3> DEFINE x == IF a >= id - 1 THEN a + 1 ELSE a
               y == IF c >= id - 1 THEN c + 1 ELSE c
    <3>1. x \in Rows(n) /\ y \in Rows(n) /\ x # y
      BY <1>2, <1>4, <2>3 DEF Rows
    <3>2. At(r.residual, a, c) = At(q.residual, x, y)
      BY <1>7
    <3>3. r.mapping[a + 1] = host_mapping[x + 1] /\ r.mapping[c + 1] = host_mapping[y + 1]
      <4>1. /\ RemoveAt(host_mapping, id) \in Seq(Host) /\ DOMAIN host_mapping = 1..n
            /\ DOMAIN RemoveAt(host_mapping, id) = 1..(n - 1)
        BY <1>2, <1>4, RemoveAtIs
      <4>2. a + 1 \in 1..(n - 1) /\ c + 1 \in 1..(n - 1)
        BY <1>1 DEF Rows
      <4>3. id \in 1..n
        BY <1>4, <4>1
      <4>4. \A i \in 1..(n - 1) :
              r.mapping[i] = IF i < id THEN host_mapping[i] ELSE host_mapping[i + 1]
        BY <1>4, <1>6, <4>1
      <4>5. r.mapping[a + 1] = host_mapping[x + 1]
        <5>1. CASE a + 1 < id
          <6>1. x = a
            BY <1>1, <4>3, <5>1 DEF Rows
          <6> QED
            BY <4>2, <4>4, <5>1, <6>1
        <5>2. CASE ~(a + 1 < id)
          <6>1. x = a + 1
            BY <1>1, <4>3, <5>2 DEF Rows
          <6> QED
            BY <4>2, <4>4, <5>2, <6>1
        <5> QED
          BY <5>1, <5>2
      <4>6. r.mapping[c + 1] = host_mapping[y + 1]
        <5>1. CASE c + 1 < id
          <6>1. y = c
            BY <1>1, <4>3, <5>1 DEF Rows
          <6> QED
            BY <4>2, <4>4, <5>1, <6>1
        <5>2. CASE ~(c + 1 < id)
          <6>1. y = c + 1
            BY <1>1, <4>3, <5>2 DEF Rows
          <6> QED
            BY <4>2, <4>4, <5>2, <6>1
        <5> QED
          BY <5>1, <5>2
      <4> QED
        BY <4>5, <4>6
    <3> HIDE DEF x, y
    <3>4. At(q.residual, x, y) + InUseBy(q.emulations, x, y) = CapacityOf(host_mapping, x, y)
      BY <2>1, <2>2, <3>1 DEF Balanced
    <3>5. InUseBy(r.emulations, a, c) = 0 /\ InUseBy(q.emulations, x, y) = 0
      BY <1>10, <2>1, NothingInUse
    <3> QED
      BY <3>2, <3>3, <3>4, <3>5 DEF CapacityOf
  <2> QED
    BY <2>2, <2>3 DEF Balanced
<1> QED
  BY <1>6, <1>7, <1>8, <1>9, <1>10, <1>11 DEF Removed, r, id

-----------------------------------------------------------------------------
\* What the actions do to the invariant.

\* CGraphUpdate::Remove
LEMMA NodeFailureStep ==
  ASSUME IInv, NEW h \in Host, NodeFailure(h)
  PROVE  IInv'
<1> DEFINE n == Len(host_mapping)
           r == remove_cluster_node(Books, h)
           m == RemoveAt(host_mapping, Row(host_mapping, h))
<1>0. /\ BooksTyped /\ ClusterTyped /\ HostsFollow /\ LoadsRight /\ AttributedWhileRunning
      /\ Attributable /\ BooksNeverPanic /\ Balance
  BY DEF IInv
<1>1. h \in Range(cgraph) /\ h \in Range(host_mapping)
  BY <1>0 DEF NodeFailure, HostsFollow
<1>2. /\ cgraph' = RemoveAt(cgraph, Row(cgraph, h))
      /\ residual_graph' = r.residual /\ host_mapping' = r.mapping
      /\ attributed_emul' = r.attributed /\ current_load' = r.load /\ emulations' = r.emulations
      /\ changes < MaxChanges /\ changes' = changes + 1
      /\ UNCHANGED <<panicked, copy, stopped, crashed, returned>>
  BY <1>1 DEF NodeFailure, SetBooks
<1>3. Removed(h, r)
  BY <1>0, <1>1, RemoveIs
<1> HIDE DEF r
<1>4. /\ m \in Seq(Host) /\ Len(m) = n - 1 /\ IsInjective(m) /\ Range(m) = Range(host_mapping) \ {h}
  BY <1>0, <1>1, RemoveHostIs DEF BooksTyped
<1>5. /\ cgraph' \in Seq(Host) /\ IsInjective(cgraph') /\ Range(cgraph') = Range(cgraph) \ {h}
  BY <1>0, <1>1, <1>2, RemoveHostIs DEF ClusterTyped
<1>6. /\ host_mapping' = m /\ residual_graph' \in Matrix(n - 1, U32)
      /\ attributed_emul' \in Attributions /\ \A x \in DOMAIN attributed_emul' : attributed_emul'[x] = {}
      /\ current_load' \in [Host -> [Emul -> Nat]]
      /\ \A x \in Host, e \in Emul : current_load'[x][e] = 0
      /\ emulations' \in Emulations(n - 1) /\ DOMAIN emulations' = {}
      /\ Balanced(Books) => Balanced(r)
  BY <1>2, <1>3 DEF Removed
<1>7. BooksTyped'
  <2> HIDE DEF m, n
  <2> QED
    BY <1>4, <1>6 DEF BooksTyped
<1>8. ClusterTyped'
  BY <1>0, <1>2, <1>5, Cluster DEF ClusterTyped
<1>9. HostsFollow'
  <2>1. Range(cgraph') = Range(host_mapping')
    BY <1>0, <1>4, <1>5, <1>6 DEF HostsFollow
  <2>2. ~returned' => cgraph' = host_mapping'
    BY <1>0, <1>2, <1>6 DEF HostsFollow
  <2>3. copy' # << >> => Range(cgraph') \subseteq Range(copy')
    BY <1>0, <1>2, <1>5 DEF HostsFollow
  <2> QED
    BY <2>1, <2>2, <2>3 DEF HostsFollow
<1>10. LoadsRight'
  <2>1. ASSUME NEW x \in Host PROVE SumFunction(current_load'[x]) = 0
    <3>1. DOMAIN current_load'[x] = Emul /\ \A e \in Emul : current_load'[x][e] = 0
      BY <1>6
    <3> QED
      BY <3>1, NoLoad
  <2>2. \A x \in Host : LoadOn(x)' <= max_load
    BY <2>1, Cluster DEF LoadOn
  <2> QED
    BY <1>6, <2>2 DEF LoadsRight
<1>11. AttributedWhileRunning' /\ Attributable'
  BY <1>6 DEF AttributedWhileRunning, Attributable
<1>12. BooksNeverPanic'
  BY <1>0, <1>2 DEF BooksNeverPanic
<1>13. Balance'
  <2>1. Balanced(Books)' <=> Balanced(r)
    BY <1>2 DEF Balanced, Books
  <2> QED
    BY <1>0, <1>2, <1>6, <2>1 DEF Balance
<1> QED
  BY <1>7, <1>8, <1>9, <1>10, <1>11, <1>12, <1>13 DEF IInv

\* Steps that leave the books and the cluster as they are.
LEMMA NothingChanges ==
  ASSUME IInv, UNCHANGED <<books, environment>>, panicked' # "unwrap"
  PROVE  IInv'
<1>1. /\ UNCHANGED <<residual_graph, host_mapping, attributed_emul, current_load, emulations>>
      /\ UNCHANGED <<cgraph, copy, stopped, changes, crashed, returned>>
  BY DEF books, environment
<1>2. /\ BooksTyped /\ ClusterTyped /\ HostsFollow /\ LoadsRight /\ AttributedWhileRunning
      /\ Attributable /\ Balance
  BY DEF IInv
<1>3. BooksTyped' /\ ClusterTyped' /\ HostsFollow'
  BY <1>1, <1>2 DEF BooksTyped, ClusterTyped, HostsFollow
<1>4. LoadsRight'
  BY <1>1, <1>2 DEF LoadsRight, LoadOn, Running, HostOf
<1>5. AttributedWhileRunning' /\ Attributable'
  BY <1>1, <1>2 DEF AttributedWhileRunning, Attributable, Running, HostOf
<1>6. Balance'
  BY <1>1, <1>2 DEF Balance, Books
<1>7. BooksNeverPanic'
  BY DEF BooksNeverPanic
<1> QED
  BY <1>3, <1>4, <1>5, <1>6, <1>7 DEF IInv

\* A step that only changes the graph of a joining host.
LEMMA CopyChanges ==
  ASSUME IInv, UNCHANGED <<books, panicked, cgraph, stopped, changes, crashed, returned>>,
         copy' \in Seq(Host), IsInjective(copy'), copy' # << >> => Range(cgraph) \subseteq Range(copy')
  PROVE  IInv'
<1>1. /\ UNCHANGED <<residual_graph, host_mapping, attributed_emul, current_load, emulations>>
      /\ UNCHANGED <<panicked, cgraph, stopped, changes, crashed, returned>>
  BY DEF books
<1>2. /\ BooksTyped /\ ClusterTyped /\ HostsFollow /\ LoadsRight /\ AttributedWhileRunning
      /\ Attributable /\ Balance /\ BooksNeverPanic
  BY DEF IInv
<1>3. BooksTyped' /\ ClusterTyped' /\ HostsFollow'
  BY <1>1, <1>2 DEF BooksTyped, ClusterTyped, HostsFollow
<1>4. LoadsRight'
  BY <1>1, <1>2 DEF LoadsRight, LoadOn, Running, HostOf
<1>5. AttributedWhileRunning' /\ Attributable'
  BY <1>1, <1>2 DEF AttributedWhileRunning, Attributable, Running, HostOf
<1>6. Balance'
  BY <1>1, <1>2 DEF Balance, Books
<1>7. BooksNeverPanic'
  BY <1>1, <1>2 DEF BooksNeverPanic
<1> QED
  BY <1>3, <1>4, <1>5, <1>6, <1>7 DEF IInv

\* Vec::push of a host that is not there yet.
LEMMA AppendIs ==
  ASSUME NEW T, NEW s \in Seq(T), IsInjective(s), NEW h \in T, h \notin Range(s)
  PROVE  LET r == Append(s, h)
         IN  /\ r \in Seq(T) /\ Len(r) = Len(s) + 1 /\ IsInjective(r)
             /\ Range(r) = Range(s) \cup {h}
             /\ r[Len(s) + 1] = h /\ \A i \in 1..Len(s) : r[i] = s[i]
<1> DEFINE r == Append(s, h)
<1>1. r \in Seq(T) /\ Len(r) = Len(s) + 1 /\ Len(s) \in Nat
  OBVIOUS
<1>2. r[Len(s) + 1] = h /\ \A i \in 1..Len(s) : r[i] = s[i]
  OBVIOUS
<1>3. DOMAIN r = 1..(Len(s) + 1) /\ DOMAIN s = 1..Len(s)
  OBVIOUS
<1> HIDE DEF r
<1>4. \A i \in 1..Len(s) : s[i] \in Range(s) /\ s[i] # h
  BY <1>3 DEF Range
<1>5. \A i, j \in 1..Len(s) : s[i] = s[j] => i = j
  BY <1>3 DEF IsInjective
<1>6. IsInjective(r)
  <2>1. ASSUME NEW i \in DOMAIN r, NEW j \in DOMAIN r, r[i] = r[j] PROVE i = j
    <3>1. (i \in 1..Len(s) \/ i = Len(s) + 1) /\ (j \in 1..Len(s) \/ j = Len(s) + 1)
      BY <1>1, <1>3
    <3> QED
      BY <1>2, <1>4, <1>5, <2>1, <3>1
  <2> QED
    BY <2>1 DEF IsInjective
<1>7. Range(r) = Range(s) \cup {h}
  <2>1. ASSUME NEW i \in DOMAIN r PROVE r[i] \in Range(s) \cup {h}
    <3>1. i \in 1..Len(s) \/ i = Len(s) + 1
      BY <1>1, <1>3
    <3> QED
      BY <1>2, <1>4, <3>1
  <2>2. ASSUME NEW i \in 1..Len(s) PROVE \E j \in DOMAIN r : s[i] = r[j]
    <3>1. i \in DOMAIN r
      BY <1>1, <1>3
    <3> QED
      BY <1>2, <3>1
  <2>3. Len(s) + 1 \in DOMAIN r
    BY <1>1, <1>3
  <2> QED
    BY <1>2, <1>3, <2>1, <2>2, <2>3 DEF Range
<1> QED
  BY <1>1, <1>2, <1>6, <1>7 DEF r

\* A joining host takes its copy of the graph.
LEMMA JoinStartStep ==
  ASSUME IInv, NEW h \in Host, JoinStart(h)
  PROVE  IInv'
<1>1. cgraph \in Seq(Host) /\ IsInjective(cgraph)
  BY DEF IInv, ClusterTyped
<1>2. /\ copy' = IF h \in Range(cgraph) THEN cgraph ELSE Append(cgraph, h)
      /\ UNCHANGED <<books, panicked, cgraph, stopped, changes, crashed, returned>>
  BY DEF JoinStart
<1>3. copy' \in Seq(Host) /\ IsInjective(copy') /\ Range(cgraph) \subseteq Range(copy')
  <2>1. CASE h \in Range(cgraph)
    BY <1>1, <1>2, <2>1
  <2>2. CASE h \notin Range(cgraph)
    <3>1. /\ Append(cgraph, h) \in Seq(Host) /\ IsInjective(Append(cgraph, h))
          /\ Range(Append(cgraph, h)) = Range(cgraph) \cup {h}
      BY <1>1, <2>2, AppendIs
    <3> QED
      BY <1>2, <2>2, <3>1
  <2> QED
    BY <2>1, <2>2
<1> QED
  BY <1>2, <1>3, CopyChanges

\* A join that fails leaves no trace.
LEMMA JoinFailsStep ==
  ASSUME IInv, JoinFails
  PROVE  IInv'
<1>1. /\ copy' = << >>
      /\ UNCHANGED <<books, panicked, cgraph, stopped, changes, crashed, returned>>
  BY DEF JoinFails
<1>2. copy' \in Seq(Host) /\ IsInjective(copy')
  BY <1>1 DEF IsInjective
<1> QED
  BY <1>1, <1>2, CopyChanges

-----------------------------------------------------------------------------
\* A cluster graph with new hosts.

\* grow_fn: the new row has the speeds to the new host, if the row of the host
\* in the graph is its row in the books.
LEMMA GrownIs ==
  ASSUME NEW n \in Nat, NEW m \in Matrix(n, U32), NEW mapping \in Seq(Host), IsInjective(mapping),
         Len(mapping) = n + 1, NEW nodes
  PROVE  /\ Grown(m, mapping, nodes) \in Matrix(n + 1, U32)
         /\ \A a, c \in Rows(n) : At(Grown(m, mapping, nodes), a, c) = At(m, a, c)
         /\ Row(nodes, mapping[n + 1]) = n + 1 =>
              \A a \in Rows(n) : At(Grown(m, mapping, nodes), a, n) = CapacityOf(mapping, a, n)
<1> DEFINE new == mapping[n + 1]
           index == Row(nodes, new) - 1
           other(row, col) == IF row = index THEN col ELSE row
           speed(row, col) == IF row = col \/ mapping[other(row, col) + 1] = new THEN MAX
                              ELSE Speed[{new, mapping[other(row, col) + 1]}]
           left(row, col) == IF row >= n \/ col >= n THEN speed(row, col) ELSE At(m, row, col)
           N == n + 1
           f == [p \in Rows(N) \X Rows(N) |-> left(p[1], p[2])]
<1>1. m.n = n /\ N \in Nat
  BY DEF Matrix
<1>2. Grown(m, mapping, nodes) = [n |-> N, data |-> [i \in 0..(Cells(N) - 1) |->
             LET rc == in_to_out_index(i, N) IN left(rc[1], rc[2])]]
  BY <1>1 DEF Grown, grow_fn, new_fn, Cells, Last
<1>3. ASSUME NEW a \in Rows(N), NEW c \in Rows(N) PROVE speed(a, c) \in U32
  <2> DEFINE o == other(a, c)
  <2>1. o + 1 \in DOMAIN mapping /\ n + 1 \in DOMAIN mapping
    BY DEF Rows
  <2>2. mapping[o + 1] \in Host /\ new \in Host
    BY <2>1
  <2>3. MAX \in U32
    BY Cluster DEF U32
  <2> HIDE DEF o, new
  <2>4. CASE a = c \/ mapping[o + 1] = new
    BY <2>3, <2>4 DEF o
  <2>5. CASE ~(a = c \/ mapping[o + 1] = new)
    <3>1. Speed[{new, mapping[o + 1]}] \in U32
      BY <2>2, <2>5, Cluster DEF U32
    <3> QED
      BY <2>5, <3>1 DEF o
  <2> QED
    BY <2>4, <2>5
<1>4. ASSUME NEW a \in Rows(N), NEW c \in Rows(N) PROVE left(a, c) \in U32
  <2>1. CASE a >= n \/ c >= n
    <3> HIDE DEF speed
    <3> QED
      BY <1>3, <2>1
  <2>2. CASE ~(a >= n \/ c >= n)
    <3>1. a \in Rows(n) /\ c \in Rows(n)
      BY <2>2 DEF Rows
    <3> QED
      BY <2>2, <3>1, AtType
  <2> QED
    BY <2>1, <2>2
<1>5. ASSUME NEW a \in Rows(n), NEW c \in Rows(n) PROVE left(a, c) = At(m, a, c)
  BY DEF Rows
<1>6. ASSUME Row(nodes, new) = n + 1, NEW a \in Rows(n) PROVE left(a, n) = CapacityOf(mapping, a, n)
  <2>1. index = n /\ a # n /\ a \in Nat
    BY <1>6 DEF Rows
  <2>2. a + 1 \in DOMAIN mapping /\ n + 1 \in DOMAIN mapping /\ a + 1 # n + 1
    BY DEF Rows
  <2>3. mapping[a + 1] # new
    BY <2>2 DEF IsInjective
  <2> HIDE DEF index
  <2>4. other(a, n) = a
    BY <2>1
  <2>5. speed(a, n) = Speed[{new, mapping[a + 1]}]
    BY <2>1, <2>3, <2>4
  <2>6. left(a, n) = speed(a, n)
    <3> HIDE DEF speed
    <3> QED
      OBVIOUS
  <2>7. {new, mapping[a + 1]} = {mapping[a + 1], mapping[n + 1]}
    OBVIOUS
  <2> QED
    BY <2>5, <2>6, <2>7 DEF CapacityOf
<1>7. \A a \in Rows(n) : a \in Rows(N) /\ n \in Rows(N) /\ a < n
  BY DEF Rows
<1> HIDE DEF left, N
<1>8. ASSUME NEW i \in 0..(Cells(N) - 1)
      PROVE  f[in_to_out_index(i, N)] = LET rc == in_to_out_index(i, N) IN left(rc[1], rc[2])
  <2>1. PICK row, col \in Rows(N) : in_to_out_index(i, N) = <<row, col>>
    BY <1>1, PlaceInverse
  <2> QED
    BY <2>1
<1>9. \A a, c \in Rows(N) : f[<<a, c>>] = left(a, c)
  OBVIOUS
<1> HIDE DEF f
<1>10. Grown(m, mapping, nodes)
         = [n |-> N, data |-> [i \in 0..(Cells(N) - 1) |-> f[in_to_out_index(i, N)]]]
  BY <1>2, <1>8
<1>11. /\ Grown(m, mapping, nodes) \in Matrix(N, U32)
       /\ \A a, c \in Rows(N) : At(Grown(m, mapping, nodes), a, c) = IF a > c THEN f[<<c, a>>] ELSE f[<<a, c>>]
  <2>1. Bandwidths(N, f)
    BY <1>4, <1>9 DEF Bandwidths
  <2>2. Tabulates(Grown(m, mapping, nodes), N, f)
    BY <1>10 DEF Tabulates
  <2> QED
    BY <1>1, <2>1, <2>2, BandwidthsAt
<1>12. ASSUME NEW a \in Rows(n), NEW c \in Rows(n) PROVE At(Grown(m, mapping, nodes), a, c) = At(m, a, c)
  <2>1. At(m, a, c) = At(m, c, a)
    BY <1>1, AtSymmetric
  <2> QED
    BY <1>5, <1>7, <1>9, <1>11, <2>1
<1>13. ASSUME Row(nodes, new) = n + 1, NEW a \in Rows(n) PROVE At(Grown(m, mapping, nodes), a, n) = CapacityOf(mapping, a, n)
  <2>1. a \in Rows(N) /\ n \in Rows(N) /\ ~(a > n)
    BY <1>7 DEF Rows
  <2>2. At(Grown(m, mapping, nodes), a, n) = left(a, n)
    BY <1>9, <1>11, <2>1
  <2> QED
    BY <1>6, <1>13, <2>2
<1> QED
  BY <1>11, <1>12, <1>13 DEF N

\* Books of some size.
AnyBooks ==
  {b \in UNION {BookSet(n) : n \in Nat} : b \in BookSet(Len(b.mapping)) /\ IsInjective(b.mapping)}

\* Books with as many rows as they have hosts.
LEMMA AnyBooksIs ==
  ASSUME NEW b
  PROVE  b \in AnyBooks <=> /\ b \in BookSet(Len(b.mapping)) /\ IsInjective(b.mapping)
                            /\ Len(b.mapping) \in Nat /\ b.mapping \in Seq(Host)
<1>1. ASSUME NEW n \in Nat, b \in BookSet(n) PROVE b.mapping \in Seq(Host) /\ Len(b.mapping) \in Nat
  BY <1>1 DEF BookSet
<1> QED
  BY <1>1 DEF AnyBooks

\* r: the books b with rows for the hosts in S.
Extends(b, S, r) ==
  /\ r.attributed = b.attributed /\ r.load = b.load /\ r.emulations = b.emulations
  /\ Len(b.mapping) <= Len(r.mapping)
  /\ \A i \in 1..Len(b.mapping) : r.mapping[i] = b.mapping[i]
  /\ Range(r.mapping) = Range(b.mapping) \cup S

\* Placements stay in range when a row is added.
LEMMA MoreRows ==
  ASSUME NEW n \in Nat
  PROVE  Emulations(n) \subseteq Emulations(n + 1)
<1>1. Rows(n) \subseteq Rows(n + 1)
  BY DEF Rows
<1>2. \A m : [Apps(m) -> Rows(n)] \subseteq [Apps(m) -> Rows(n + 1)]
  BY <1>1
<1>3. Placements(n) \subseteq Placements(n + 1)
  BY <1>2 DEF Placements
<1> QED
  BY <1>3 DEF Emulations

\* AddHost as a record: only the matrix and the mapping change.
LEMMA AddedIs ==
  ASSUME NEW b \in AnyBooks, NEW h \in Host, h \notin Range(b.mapping), NEW nodes
  PROVE  LET mapping == Append(b.mapping, h)
         IN  AddHost(b, h, nodes)
               = [residual |-> Grown(b.residual, mapping, nodes), mapping |-> mapping,
                  attributed |-> b.attributed, load |-> b.load, emulations |-> b.emulations]
<1>1. b \in BookSet(Len(b.mapping))
  BY AnyBooksIs
<1>2. b = [residual |-> b.residual, mapping |-> b.mapping, attributed |-> b.attributed,
           load |-> b.load, emulations |-> b.emulations]
  BY <1>1 DEF BookSet
<1>3. AddHost(b, h, nodes) = [b EXCEPT !.mapping = Append(b.mapping, h),
                              !.residual = Grown(@, Append(b.mapping, h), nodes)]
  BY DEF AddHost
<1> QED
  BY <1>2, <1>3

\* One iteration of the second loop of update_with_cgraph.
LEMMA AddHostIs ==
  ASSUME NEW b \in AnyBooks, NEW h \in Host, NEW nodes
  PROVE  AddHost(b, h, nodes) \in AnyBooks /\ Extends(b, {h}, AddHost(b, h, nodes))
<1> DEFINE n == Len(b.mapping)
           r == AddHost(b, h, nodes)
           s == Append(b.mapping, h)
<1>1. n \in Nat /\ b \in BookSet(n) /\ IsInjective(b.mapping) /\ b.mapping \in Seq(Host)
  BY AnyBooksIs
<1>2. CASE h \in Range(b.mapping)
  <2>1. r = b
    BY <1>2 DEF AddHost
  <2>2. Extends(b, {h}, b)
    BY <1>1, <1>2 DEF Extends
  <2> QED
    BY <2>1, <2>2
<1>3. CASE h \notin Range(b.mapping)
  <2>1. /\ s \in Seq(Host) /\ Len(s) = n + 1 /\ IsInjective(s) /\ Range(s) = Range(b.mapping) \cup {h}
        /\ \A i \in 1..n : s[i] = b.mapping[i]
    BY <1>1, <1>3, AppendIs
  <2>2. /\ r.residual = Grown(b.residual, s, nodes) /\ r.mapping = s
        /\ r.attributed = b.attributed /\ r.load = b.load /\ r.emulations = b.emulations
        /\ r = [residual |-> r.residual, mapping |-> r.mapping, attributed |-> r.attributed,
                load |-> r.load, emulations |-> r.emulations]
    BY <1>3, AddedIs
  <2> HIDE DEF r, s, n
  <2>3. /\ b.residual \in Matrix(n, U32) /\ b.attributed \in Attributions
        /\ b.load \in [Host -> [Emul -> Nat]] /\ b.emulations \in Emulations(n)
    BY <1>1 DEF BookSet
  <2>4. Grown(b.residual, s, nodes) \in Matrix(n + 1, U32)
    BY <1>1, <2>1, <2>3, GrownIs
  <2>5. b.emulations \in Emulations(n + 1)
    BY <1>1, <2>3, MoreRows
  <2>6. r \in BookSet(n + 1)
    BY <2>1, <2>2, <2>3, <2>4, <2>5 DEF BookSet
  <2>7. r \in AnyBooks
    BY <1>1, <2>1, <2>2, <2>6, AnyBooksIs
  <2>8. Extends(b, {h}, r)
    BY <1>1, <2>1, <2>2 DEF Extends, n
  <2> QED
    BY <2>7, <2>8 DEF r
<1> QED
  BY <1>2, <1>3

\* A row that no application sits on.
LEMMA EmptyRow ==
  ASSUME NEW n \in Nat, NEW t \in Emulations(n), NEW a, NEW c, a \notin Rows(n) \/ c \notin Rows(n)
  PROVE  InUseBy(t, a, c) = 0
<1> DEFINE f == [e \in DOMAIN t |-> UsedBy(t[e], a, c)]
<1>1. ASSUME NEW e \in DOMAIN t PROVE UsedBy(t[e], a, c) = 0
  <2> DEFINE m == t[e].matrix
             at == t[e].equivalence
             S == {p \in Ordered(m) : {at[p[1]], at[p[2]]} = {a, c}}
  <2>1. at \in [Apps(m) -> Rows(n)]
    BY EmulationsIs
  <2>2. \A p \in Ordered(m) : p[1] \in Apps(m) /\ p[2] \in Apps(m)
    BY DEF Ordered
  <2>3. S = {}
    <3> HIDE DEF at, m
    <3> QED
      BY <2>1, <2>2
  <2>4. UsedBy(t[e], a, c) = SumFunctionOnSet(Demand(m), S)
    BY DEF UsedBy, Between, Required
  <2> HIDE DEF S, m
  <2> QED
    BY <2>3, <2>4, SumEmpty
<1>2. IsFiniteSet(DOMAIN t) /\ \A e \in DOMAIN t : f[e] = 0
  BY <1>1, EmulationsIs
<1>3. InUseBy(t, a, c) = SumFunctionOnSet(f, DOMAIN t)
  BY DEF InUseBy, SumFunction
<1> HIDE DEF f
<1> QED
  BY <1>2, <1>3, SumZero

\* The bandwidth in use belongs to a pair of rows.
LEMMA InUseBySymmetric ==
  ASSUME NEW t, NEW a, NEW c
  PROVE  InUseBy(t, a, c) = InUseBy(t, c, a)
<1>1. {a, c} = {c, a}
  OBVIOUS
<1> QED
  BY <1>1 DEF InUseBy, UsedBy, Between

\* A host that comes last in the graph gets the speeds of its own row.
LEMMA AddHostBalanced ==
  ASSUME NEW b \in AnyBooks, NEW h \in Host, h \notin Range(b.mapping), NEW nodes,
         Row(nodes, h) = Len(b.mapping) + 1, Balanced(b)
  PROVE  Balanced(AddHost(b, h, nodes))
<1> DEFINE n == Len(b.mapping)
           s == Append(b.mapping, h)
           g == Grown(b.residual, s, nodes)
           r == AddHost(b, h, nodes)
<1>1. /\ n \in Nat /\ b \in BookSet(n) /\ IsInjective(b.mapping) /\ b.mapping \in Seq(Host)
      /\ b.residual \in Matrix(n, U32) /\ b.residual.n = n /\ b.emulations \in Emulations(n)
  BY AnyBooksIs DEF BookSet, Matrix
<1>2. /\ s \in Seq(Host) /\ Len(s) = n + 1 /\ IsInjective(s)
      /\ s[n + 1] = h /\ \A i \in 1..n : s[i] = b.mapping[i]
  BY <1>1, AppendIs
<1>3. r.residual = g /\ r.mapping = s /\ r.emulations = b.emulations
  BY AddedIs
<1>4. Row(nodes, s[n + 1]) = n + 1
  BY <1>2
<1> HIDE DEF s, n, r
<1>5. /\ g \in Matrix(n + 1, U32)
      /\ \A a, c \in Rows(n) : At(g, a, c) = At(b.residual, a, c)
      /\ \A a \in Rows(n) : At(g, a, n) = CapacityOf(s, a, n)
  <2>1. n \in Nat /\ b.residual \in Matrix(n, U32) /\ s \in Seq(Host) /\ IsInjective(s) /\ Len(s) = n + 1
    BY <1>1, <1>2
  <2>2. /\ Grown(b.residual, s, nodes) \in Matrix(n + 1, U32)
        /\ \A a, c \in Rows(n) : At(Grown(b.residual, s, nodes), a, c) = At(b.residual, a, c)
        /\ Row(nodes, s[n + 1]) = n + 1 =>
             \A a \in Rows(n) : At(Grown(b.residual, s, nodes), a, n) = CapacityOf(s, a, n)
    BY <2>1, GrownIs
  <2> QED
    BY <1>4, <2>2
<1>6. g.n = n + 1 /\ n + 1 \in Nat
  BY <1>1, <1>5 DEF Matrix
<1> HIDE DEF g
<1>7. ASSUME NEW a \in Rows(n), NEW c \in Rows(n), a # c
      PROVE  At(g, a, c) + InUseBy(b.emulations, a, c) = CapacityOf(s, a, c)
  <2>1. At(b.residual, a, c) + InUseBy(b.emulations, a, c) = CapacityOf(b.mapping, a, c)
    BY <1>1, <1>7 DEF Balanced
  <2>2. a + 1 \in 1..n /\ c + 1 \in 1..n
    BY <1>1 DEF Rows
  <2>3. CapacityOf(s, a, c) = CapacityOf(b.mapping, a, c)
    BY <1>2, <2>2 DEF CapacityOf
  <2> QED
    BY <1>5, <2>1, <2>3
<1>8. ASSUME NEW a \in Rows(n)
      PROVE  /\ At(g, a, n) + InUseBy(b.emulations, a, n) = CapacityOf(s, a, n)
             /\ At(g, n, a) + InUseBy(b.emulations, n, a) = CapacityOf(s, n, a)
  <2>1. n \notin Rows(n) /\ a \in Rows(n + 1) /\ n \in Rows(n + 1) /\ a # n
    BY <1>1 DEF Rows
  <2>2. InUseBy(b.emulations, a, n) = 0 /\ InUseBy(b.emulations, n, a) = 0
    BY <1>1, <2>1, EmptyRow
  <2>3. CapacityOf(s, a, n) \in U32
    <3>1. a \in Rows(Len(s)) /\ n \in Rows(Len(s))
      BY <1>2, <2>1
    <3> QED
      BY <1>2, <2>1, <3>1, CapacityIs
  <2>4. CapacityOf(s, n, a) = CapacityOf(s, a, n)
    <3>1. {s[a + 1], s[n + 1]} = {s[n + 1], s[a + 1]}
      OBVIOUS
    <3> QED
      BY <3>1 DEF CapacityOf
  <2>5. At(g, n, a) = At(g, a, n)
    BY <1>6, <2>1, AtSymmetric
  <2>6. CapacityOf(s, a, n) + 0 = CapacityOf(s, a, n)
    BY <2>3 DEF U32
  <2> QED
    BY <1>5, <2>2, <2>4, <2>5, <2>6
<1>9. \A a \in Rows(n + 1) : a \in Rows(n) \/ a = n
  BY <1>1 DEF Rows
<1>10. \A a, c \in Rows(n + 1) : a # c =>
         At(g, a, c) + InUseBy(b.emulations, a, c) = CapacityOf(s, a, c)
  BY <1>7, <1>8, <1>9
<1>11. Balanced(r)
  BY <1>3, <1>6, <1>10 DEF Balanced
<1> QED
  BY <1>11 DEF r

\* The first loop of update_with_cgraph removes no host that the graph has.
LEMMA RemoveNone ==
  ASSUME NEW b, NEW nodes, b.mapping \in Seq(Host), Range(b.mapping) \subseteq Range(nodes)
  PROVE  RemoveGone(b, nodes) = b
<1> DEFINE mapping == b.mapping
           D == DOMAIN mapping
           remove(acc, h) == IF h \in Range(nodes) THEN acc ELSE remove_cluster_node(acc, h)
           Body(H, s) == IF s = {} THEN b ELSE remove(H[s \ {Max(s)}], mapping[Max(s)])
           Is(H) == H = [s \in SUBSET D |-> Body(H, s)]
           H == CHOOSE H : Is(H)
           K == [s \in SUBSET D |-> b]
<1>1. \A s \in SUBSET D : s # {} => Max(s) \in s
  <2>1. D = 1..Len(mapping) /\ Len(mapping) \in Nat
    OBVIOUS
  <2> HIDE DEF D
  <2> QED
    BY <2>1, FoldOrder
<1>2. \A i \in D : mapping[i] \in Range(nodes)
  BY DEF Range
<1> HIDE DEF D
<1>3. ASSUME NEW F, NEW s \in SUBSET D, s # {} PROVE Body(F, s) = F[s \ {Max(s)}]
  BY <1>1, <1>2, <1>3
<1>4. Is(K)
  <2>1. ASSUME NEW s \in SUBSET D PROVE Body(K, s) = b
    <3>1. CASE s = {}
      BY <3>1
    <3>2. CASE s # {}
      <4>1. Body(K, s) = K[s \ {Max(s)}]
        BY <1>3, <3>2
      <4>2. K[s \ {Max(s)}] = b
        OBVIOUS
      <4> HIDE DEF Body, K
      <4> QED
        BY <4>1, <4>2
    <3> QED
      BY <3>1, <3>2
  <2> HIDE DEF Body
  <2> QED
    BY <2>1
<1>5. Is(H)
  <2> HIDE DEF Is, K
  <2> QED
    BY <1>4
<1>6. \A s \in SUBSET D : H[s] = Body(H, s)
  <2> HIDE DEF H, Body
  <2> QED
    BY <1>5
<1>7. RemoveGone(b, nodes) = H[D]
  BY DEF RemoveGone, FoldLeft, MapThenFoldSet, D
<1> HIDE DEF H
<1> DEFINE P == {s \in SUBSET D : H[s] = b}
<1>8. ASSUME NEW s \in SUBSET D, \A t \in SUBSET D : t \subseteq s /\ t # s => t \in P
      PROVE  s \in P
  <2>1. CASE s = {}
    BY <1>6, <2>1
  <2>2. CASE s # {}
    <3> DEFINE t == s \ {Max(s)}
    <3>1. t \in SUBSET D /\ t \subseteq s /\ t # s
      BY <1>1, <2>2
    <3>2. H[s] = H[t]
      <4> HIDE DEF Body
      <4> QED
        BY <1>3, <1>6, <2>2
    <3> HIDE DEF t
    <3>3. H[t] = b
      BY <1>8, <3>1
    <3> QED
      BY <3>2, <3>3
  <2> QED
    BY <2>1, <2>2
<1>9. IsFiniteSet(D)
  BY FS_Interval DEF D
<1>10. \A s \in SUBSET D : s \in P
  <2> HIDE DEF P
  <2> QED
    BY <1>8, <1>9, SubsetInduction
<1> QED
  BY <1>7, <1>10

\* While the hosts of a graph that has those of the books first are added in
\* order, the rows are the hosts of the graph.
InStep(b, nodes, k, v) ==
  IsPrefix(b.mapping, nodes) =>
    /\ Balanced(b) => Balanced(v)
    /\ Len(v.mapping) = IF k <= Len(b.mapping) THEN Len(b.mapping) ELSE k
    /\ \A i \in 1..Len(v.mapping) : v.mapping[i] = nodes[i]

\* v: the books b after the first k hosts of a graph.
AddedFirst(b, nodes, k, v) ==
  v \in AnyBooks /\ Extends(b, {nodes[i] : i \in 1..k}, v) /\ InStep(b, nodes, k, v)

\* The induction over the hosts to add: none, and one more.
LEMMA AddedNone ==
  ASSUME NEW b \in AnyBooks, NEW nodes \in Seq(Host)
  PROVE  AddedFirst(b, nodes, 0, b)
<1>1. Len(b.mapping) \in Nat /\ b.mapping \in Seq(Host)
  BY AnyBooksIs
<1>2. Extends(b, {nodes[i] : i \in 1..0}, b)
  <2>1. {nodes[i] : i \in 1..0} = {}
    OBVIOUS
  <2>2. Extends(b, {}, b)
    BY <1>1 DEF Extends
  <2> QED
    BY <2>1, <2>2
<1>3. InStep(b, nodes, 0, b)
  <2>1. ASSUME IsPrefix(b.mapping, nodes), NEW i \in 1..Len(b.mapping) PROVE b.mapping[i] = nodes[i]
    <3> DEFINE n == Len(b.mapping)
    <3>1. n <= Len(nodes) /\ SubSeq(b.mapping, 1, n) = SubSeq(nodes, 1, n)
      BY <2>1 DEF IsPrefix
    <3>2. SubSeq(b.mapping, 1, n)[i] = b.mapping[i]
      BY <1>1
    <3>3. SubSeq(nodes, 1, n)[i] = nodes[i]
      BY <1>1, <3>1
    <3> QED
      BY <3>1, <3>2, <3>3
  <2> QED
    BY <1>1, <2>1 DEF InStep
<1> QED
  BY <1>2, <1>3 DEF AddedFirst

\* The next host of the graph is added, or is in the mapping already.
LEMMA AddedOneMore ==
  ASSUME NEW b \in AnyBooks, NEW nodes \in Seq(Host), IsInjective(nodes), NEW k \in 1..Len(nodes),
         NEW v, AddedFirst(b, nodes, k - 1, v)
  PROVE  AddedFirst(b, nodes, k, AddHost(v, nodes[k], nodes))
<1> DEFINE n == Len(b.mapping)
           h == nodes[k]
           r == AddHost(v, h, nodes)
<1>1. n \in Nat /\ b.mapping \in Seq(Host)
  BY AnyBooksIs
<1>2. v \in AnyBooks /\ Extends(b, {nodes[i] : i \in 1..(k - 1)}, v) /\ InStep(b, nodes, k - 1, v)
  BY DEF AddedFirst
<1>3. Len(v.mapping) \in Nat /\ v.mapping \in Seq(Host)
  BY <1>2, AnyBooksIs
<1>4. h \in Host /\ k \in DOMAIN nodes
  OBVIOUS
<1>5. r \in AnyBooks /\ Extends(v, {h}, r)
  BY <1>2, <1>4, AddHostIs
<1>6. Len(r.mapping) \in Nat
  BY <1>5, AnyBooksIs
<1>7. Extends(b, {nodes[i] : i \in 1..k}, r)
  <2>1. {nodes[i] : i \in 1..(k - 1)} \cup {h} = {nodes[i] : i \in 1..k}
    <3>1. \A i \in 1..k : i \in 1..(k - 1) \/ i = k
      OBVIOUS
    <3>2. \A i \in 1..(k - 1) : i \in 1..k
      OBVIOUS
    <3>3. k \in 1..k
      OBVIOUS
    <3> QED
      BY <3>1, <3>2, <3>3
  <2> HIDE DEF r, h
  <2> DEFINE A == {nodes[i] : i \in 1..(k - 1)}
             B == {nodes[i] : i \in 1..k}
  <2>2. A \cup {h} = B
    BY <2>1
  <2>3. Extends(b, A, v)
    BY <1>2
  <2> HIDE DEF A, B
  <2>4. Extends(b, B, r)
    BY <1>1, <1>3, <1>5, <1>6, <2>2, <2>3 DEF Extends
  <2> QED
    BY <2>4 DEF B
<1>8. InStep(b, nodes, k, r)
  <2>1. SUFFICES ASSUME IsPrefix(b.mapping, nodes)
                 PROVE  /\ Balanced(b) => Balanced(r)
                        /\ Len(r.mapping) = IF k <= n THEN n ELSE k
                        /\ \A i \in 1..Len(r.mapping) : r.mapping[i] = nodes[i]
    BY DEF InStep
  <2>2. /\ Balanced(b) => Balanced(v)
        /\ Len(v.mapping) = IF k - 1 <= n THEN n ELSE k - 1
        /\ \A i \in 1..Len(v.mapping) : v.mapping[i] = nodes[i]
    BY <1>2, <2>1 DEF InStep
  <2>3. CASE k <= n
    <3>1. k \in 1..Len(v.mapping) /\ Len(v.mapping) = n
      BY <1>1, <2>2, <2>3
    <3>2. v.mapping[k] = h /\ k \in DOMAIN v.mapping
      BY <1>3, <2>2, <3>1
    <3>3. r = v
      BY <3>2 DEF AddHost, Range
    <3> HIDE DEF r
    <3> QED
      BY <2>2, <2>3, <3>1, <3>3
  <2>4. CASE k > n
    <3>1. Len(v.mapping) = k - 1
      BY <1>1, <2>2, <2>4
    <3>2. h \notin Range(v.mapping)
      <4>1. SUFFICES ASSUME NEW i \in DOMAIN v.mapping, v.mapping[i] = h PROVE FALSE
        BY DEF Range
      <4>2. i \in 1..(k - 1) /\ i \in DOMAIN nodes /\ i # k
        BY <1>3, <3>1
      <4>3. nodes[i] = nodes[k]
        BY <2>2, <3>1, <4>1, <4>2
      <4> QED
        BY <1>4, <4>2, <4>3 DEF IsInjective
    <3>3. Row(nodes, h) = k
      BY <1>4 DEF Row, IsInjective
    <3>4. Row(nodes, h) = Len(v.mapping) + 1
      BY <3>1, <3>3
    <3>5. Balanced(v) => Balanced(r)
      BY <1>2, <1>4, <3>2, <3>4, AddHostBalanced
    <3>6. r.mapping = Append(v.mapping, h)
      BY <1>2, <1>4, <3>2, AddedIs
    <3>7. Len(r.mapping) = k
      BY <1>3, <3>1, <3>6
    <3>8. ASSUME NEW i \in 1..k PROVE r.mapping[i] = nodes[i]
      <4>1. CASE i = k
        BY <1>3, <3>1, <3>6, <4>1
      <4>2. CASE i # k
        <5>1. i \in 1..(k - 1)
          BY <4>2
        <5>2. r.mapping[i] = v.mapping[i]
          BY <1>3, <3>1, <3>6, <5>1
        <5> QED
          BY <2>2, <3>1, <5>1, <5>2
      <4> QED
        BY <4>1, <4>2
    <3> QED
      BY <1>1, <2>2, <2>4, <3>5, <3>7, <3>8
  <2> QED
    BY <1>1, <2>3, <2>4
<1> QED
  BY <1>5, <1>7, <1>8 DEF AddedFirst

\* The second loop of update_with_cgraph.
LEMMA AddAll ==
  ASSUME NEW b \in AnyBooks, NEW nodes \in Seq(Host), IsInjective(nodes)
  PROVE  AddedFirst(b, nodes, Len(nodes), AddNew(b, nodes))
<1> DEFINE D == DOMAIN nodes
           V == AnyBooks
           add(acc, h) == AddHost(acc, h, nodes)
           Body(H, s) == IF s = {} THEN b ELSE add(H[s \ {Max(s)}], nodes[Max(s)])
           Is(H) == H = [s \in SUBSET D |-> Body(H, s)]
           H == CHOOSE H : Is(H)
           pick == [s \in (SUBSET D) \ {{}} |-> Max(s)]
           G == [i \in D |-> [v \in V |-> add(v, nodes[i])]]
<1>1. D = 1..Len(nodes) /\ Len(nodes) \in Nat /\ IsFiniteSet(D)
  BY FS_Interval
<1>2. /\ \A s \in SUBSET D : s # {} => Max(s) \in s
      /\ \A k \in D : Max(1..k) = k
  <2> HIDE DEF D
  <2> QED
    BY <1>1, FoldOrder
<1>3. ASSUME NEW i \in D, NEW v \in V PROVE add(v, nodes[i]) \in V
  <2>1. nodes[i] \in Host
    OBVIOUS
  <2> QED
    BY <2>1, AddHostIs
<1> HIDE DEF V, D, add
<1>4. G \in Steps(D, V) /\ pick \in Picks(D)
  BY <1>2, <1>3 DEF Steps, Picks
<1>5. PICK F : F \in Folded(D, V, b, pick, G)
  <2>1. b \in V
    BY DEF V
  <2> HIDE DEF G, pick
  <2> QED
    BY <1>1, <1>4, <2>1, FoldExists
<1>6. \E K : Is(K)
  <2>0. /\ F \in [SUBSET D -> V]
        /\ \A s \in SUBSET D : F[s] = IF s = {} THEN b ELSE G[pick[s]][F[s \ {pick[s]}]]
    <3> HIDE DEF G, pick
    <3> QED
      BY <1>5 DEF Folded
  <2>1. ASSUME NEW s \in SUBSET D PROVE F[s] = Body(F, s)
    <3>1. CASE s = {}
      BY <2>0, <3>1
    <3>2. CASE s # {}
      <4>1. pick[s] = Max(s) /\ Max(s) \in D /\ s \ {Max(s)} \in SUBSET D
        BY <1>2, <3>2
      <4>2. F[s \ {Max(s)}] \in V
        BY <2>0, <4>1
      <4>3. F[s] = G[Max(s)][F[s \ {Max(s)}]]
        <5> HIDE DEF G, pick
        <5> QED
          BY <2>0, <3>2, <4>1
      <4> QED
        BY <3>2, <4>1, <4>2, <4>3
    <3> QED
      BY <3>1, <3>2
  <2> HIDE DEF Body
  <2>2. F = [s \in SUBSET D |-> Body(F, s)]
    BY <2>0, <2>1
  <2> QED
    BY <2>2
<1>7. Is(H)
  <2> HIDE DEF Is
  <2> QED
    BY <1>6
<1>8. \A s \in SUBSET D : H[s] = Body(H, s)
  <2> HIDE DEF H, Body
  <2> QED
    BY <1>7
<1>9. AddNew(b, nodes) = H[D]
  BY DEF AddNew, FoldLeft, MapThenFoldSet, D, add
<1> HIDE DEF H
<1> DEFINE P == {s \in SUBSET D : \A k \in 0..Len(nodes) : s = 1..k => AddedFirst(b, nodes, k, H[s])}
<1>10. ASSUME NEW s \in SUBSET D, \A t \in SUBSET D : t \subseteq s /\ t # s => t \in P
       PROVE  s \in P
  <2>1. SUFFICES ASSUME NEW k \in 0..Len(nodes), s = 1..k PROVE AddedFirst(b, nodes, k, H[s])
    OBVIOUS
  <2>2. CASE k = 0
    <3>1. s = {}
      BY <2>1, <2>2
    <3>2. H[s] = b
      BY <1>8, <3>1
    <3> QED
      BY <2>2, <3>2, AddedNone
  <2>3. CASE k # 0
    <3> DEFINE t == s \ {k}
    <3>1. k \in D /\ k \in 1..Len(nodes) /\ k - 1 \in 0..Len(nodes) /\ s # {} /\ Max(s) = k
      <4>1. k \in 1..Len(nodes) /\ k - 1 \in 0..Len(nodes) /\ k \in s
        BY <1>1, <2>1, <2>3
      <4>2. k \in D
        BY <1>1, <4>1
      <4> QED
        BY <1>2, <2>1, <4>1, <4>2
    <3>2. t = 1..(k - 1) /\ t \subseteq s /\ t # s /\ t \in SUBSET D
      BY <2>1, <3>1
    <3>3. H[s] = add(H[t], nodes[k])
      BY <1>8, <3>1
    <3> HIDE DEF t
    <3>4. AddedFirst(b, nodes, k - 1, H[t])
      BY <1>10, <3>1, <3>2
    <3> QED
      BY <3>1, <3>3, <3>4, AddedOneMore DEF add
  <2> QED
    BY <2>2, <2>3
<1>11. \A s \in SUBSET D : s \in P
  <2>1. IsFiniteSet(D)
    BY <1>1
  <2> HIDE DEF P
  <2> QED
    BY <1>10, <2>1, SubsetInduction
<1>12. D \in SUBSET D /\ D = 1..Len(nodes) /\ Len(nodes) \in 0..Len(nodes)
  BY <1>1
<1>13. AddedFirst(b, nodes, Len(nodes), H[D])
  BY <1>11, <1>12
<1> QED
  BY <1>9, <1>13

\* update_with_cgraph with a graph that has all the hosts of the mapping.
LEMMA UpdateIs ==
  ASSUME NEW b \in AnyBooks, NEW nodes \in Seq(Host), IsInjective(nodes),
         Range(b.mapping) \subseteq Range(nodes)
  PROVE  AddedFirst(b, nodes, Len(nodes), update_with_cgraph(b, nodes))
<1>1. b.mapping \in Seq(Host)
  BY AnyBooksIs
<1>2. update_with_cgraph(b, nodes) = AddNew(b, nodes)
  BY <1>1, RemoveNone DEF update_with_cgraph
<1> QED
  BY <1>2, AddAll

\* CGraphUpdate::New
LEMMA JoinDoneStep ==
  ASSUME IInv, JoinDone
  PROVE  IInv'
<1> DEFINE n == Len(host_mapping)
           r == update_with_cgraph(Books, copy)
<1>0. /\ BooksTyped /\ ClusterTyped /\ HostsFollow /\ LoadsRight /\ AttributedWhileRunning
      /\ Attributable /\ BooksNeverPanic /\ Balance
  BY DEF IInv
<1>1. /\ residual_graph' = r.residual /\ host_mapping' = r.mapping
      /\ attributed_emul' = r.attributed /\ current_load' = r.load /\ emulations' = r.emulations
      /\ copy # << >> /\ changes < MaxChanges /\ changes' = changes + 1
      /\ cgraph' = copy /\ copy' = << >>
      /\ returned' = (returned \/ ~IsPrefix(cgraph, copy))
      /\ UNCHANGED <<panicked, stopped, crashed>>
  BY DEF JoinDone, SetBooks
<1>2. /\ n \in Nat /\ Books \in BookSet(n) /\ Books.mapping = host_mapping
      /\ Books.attributed = attributed_emul /\ Books.load = current_load
      /\ Books.emulations = emulations
  BY <1>0, BooksIs
<1>3. /\ host_mapping \in Seq(Host) /\ IsInjective(host_mapping)
      /\ emulations \in Emulations(n)
      /\ copy \in Seq(Host) /\ IsInjective(copy) /\ Range(host_mapping) \subseteq Range(copy)
  BY <1>0, <1>1 DEF BooksTyped, ClusterTyped, HostsFollow
<1>4. Books \in AnyBooks
  BY <1>2, <1>3, AnyBooksIs
<1>5. AddedFirst(Books, copy, Len(copy), r)
  BY <1>2, <1>3, <1>4, UpdateIs
<1> HIDE DEF r
<1>6. /\ r \in AnyBooks
      /\ r.attributed = attributed_emul /\ r.load = current_load /\ r.emulations = emulations
      /\ n <= Len(r.mapping)
      /\ \A i \in 1..n : r.mapping[i] = host_mapping[i]
      /\ Range(r.mapping) = Range(host_mapping) \cup {copy[i] : i \in 1..Len(copy)}
  BY <1>2, <1>5 DEF AddedFirst, Extends
<1>7. /\ r \in BookSet(Len(r.mapping)) /\ IsInjective(r.mapping)
      /\ Len(r.mapping) \in Nat /\ r.mapping \in Seq(Host)
  BY <1>6, AnyBooksIs
<1>8. BooksTyped'
  BY <1>1, <1>7 DEF BooksTyped, BookSet
<1>9. ClusterTyped'
  <2>1. << >> \in Seq(Host) /\ IsInjective(<< >>)
    BY DEF IsInjective
  <2>2. changes' \in 0..MaxChanges /\ returned' \in BOOLEAN
    BY <1>0, <1>1, Cluster DEF ClusterTyped
  <2> QED
    BY <1>0, <1>1, <1>3, <2>1, <2>2 DEF ClusterTyped
<1>10. HostsFollow'
  <2>1. {copy[i] : i \in 1..Len(copy)} = Range(copy)
    BY <1>3 DEF Range
  <2>2. Range(cgraph') = Range(host_mapping')
    BY <1>1, <1>3, <1>6, <2>1
  <2>3. ASSUME ~returned' PROVE cgraph' = host_mapping'
    <3>1. cgraph = host_mapping /\ IsPrefix(cgraph, copy)
      BY <1>0, <1>1, <2>3 DEF HostsFollow
    <3>2. /\ Len(r.mapping) = IF Len(copy) <= n THEN n ELSE Len(copy)
          /\ \A i \in 1..Len(r.mapping) : r.mapping[i] = copy[i]
      BY <1>2, <1>5, <3>1 DEF AddedFirst, InStep
    <3>3. n <= Len(copy) /\ Len(copy) \in Nat
      BY <1>3, <3>1 DEF IsPrefix
    <3>4. Len(r.mapping) = Len(copy)
      BY <1>2, <3>2, <3>3
    <3>5. r.mapping = copy
      BY <1>3, <1>7, <3>2, <3>4
    <3> QED
      BY <1>1, <3>5
  <2>4. copy' = << >>
    BY <1>1
  <2> QED
    BY <2>2, <2>3, <2>4 DEF HostsFollow
<1>11. ASSUME NEW e \in DOMAIN emulations
       PROVE  /\ Running(e)' = Running(e)
              /\ \A app \in Apps(emulations[e].matrix) : HostOf(e, app)' = HostOf(e, app)
  <2>1. Running(e)' = Running(e)
    BY <1>1, <1>6 DEF Running
  <2>2. ASSUME NEW app \in Apps(emulations[e].matrix) PROVE HostOf(e, app)' = HostOf(e, app)
    <3> DEFINE row == emulations[e].equivalence[app]
    <3>1. row \in Rows(n)
      BY <1>2, <1>3, EmulationsIs
    <3>2. row + 1 \in 1..n
      BY <1>2, <3>1 DEF Rows
    <3>3. HostOf(e, app)' = r.mapping[row + 1] /\ HostOf(e, app) = host_mapping[row + 1]
      BY <1>1, <1>6 DEF HostOf
    <3> QED
      BY <1>6, <3>2, <3>3
  <2> QED
    BY <2>1, <2>2
<1>12. \A e \in DOMAIN emulations : Running(e) \subseteq Apps(emulations[e].matrix)
  BY DEF Running
<1>13. /\ emulations' = emulations /\ attributed_emul' = attributed_emul /\ current_load' = current_load
  BY <1>1, <1>6
<1>14. LoadsRight'
  <2>1. \A h \in Host, e \in DOMAIN emulations :
          {app \in Running(e) : HostOf(e, app) = h}' = {app \in Running(e) : HostOf(e, app) = h}
    BY <1>11, <1>12
  <2> QED
    BY <1>0, <1>13, <2>1 DEF LoadsRight, LoadOn
<1>15. AttributedWhileRunning' /\ Attributable'
  BY <1>0, <1>11, <1>12, <1>13 DEF AttributedWhileRunning, Attributable
<1>16. BooksNeverPanic'
  BY <1>0, <1>1 DEF BooksNeverPanic
<1>17. Balance'
  <2>1. SUFFICES ASSUME SumsFit, ~crashed', ~returned' PROVE Balanced(Books)'
    BY DEF Balance
  <2>2. Balanced(Books)' <=> Balanced(r)
    BY <1>1 DEF Balanced, Books
  <2>3. ~crashed /\ ~returned /\ IsPrefix(cgraph, copy) /\ cgraph = host_mapping
    BY <1>0, <1>1, <2>1 DEF HostsFollow
  <2>4. Balanced(Books)
    BY <1>0, <2>1, <2>3 DEF Balance
  <2> QED
    BY <1>2, <1>5, <2>2, <2>3, <2>4 DEF AddedFirst, InStep
<1> QED
  BY <1>8, <1>9, <1>10, <1>14, <1>15, <1>16, <1>17 DEF IInv

-----------------------------------------------------------------------------
\* The end of an application.

\* The applications of emulation e that run on host h.
OnHost(e, h) == {app \in Running(e) : HostOf(e, app) = h}

\* The applications of an emulation on a host.
LEMMA OnHostIs ==
  ASSUME BooksTyped, NEW e \in DOMAIN emulations, NEW h
  PROVE  /\ Running(e) \subseteq Apps(emulations[e].matrix)
         /\ IsFiniteSet(OnHost(e, h)) /\ Cardinality(OnHost(e, h)) \in Nat
         /\ \A app \in Running(e) : HostOf(e, app) \in Host
<1> DEFINE n == Len(host_mapping)
           m == emulations[e].matrix
<1>1. n \in Nat /\ emulations \in Emulations(n) /\ host_mapping \in Seq(Host)
  BY DEF BooksTyped
<1>2. m \in GoodRequests /\ emulations[e].equivalence \in [Apps(m) -> Rows(n)]
  BY <1>1, EmulationsIs
<1>3. Running(e) \subseteq Apps(m)
  BY DEF Running
<1>4. IsFiniteSet(OnHost(e, h))
  <2>1. IsFiniteSet(Apps(m))
    BY <1>2, RequestIs, FS_Interval DEF Apps
  <2>2. OnHost(e, h) \subseteq Apps(m)
    BY <1>3 DEF OnHost
  <2> QED
    BY <2>1, <2>2, FS_Subset
<1>5. ASSUME NEW app \in Running(e) PROVE HostOf(e, app) \in Host
  <2>1. emulations[e].equivalence[app] + 1 \in DOMAIN host_mapping
    BY <1>1, <1>2, <1>3 DEF Rows
  <2> QED
    BY <1>1, <2>1 DEF HostOf
<1> QED
  BY <1>3, <1>4, <1>5, FS_CardinalityType

\* stop_app_emulation_on
LEMMA CleanStopStep ==
  ASSUME IInv, NEW e \in DOMAIN emulations, NEW app \in Apps(emulations[e].matrix), CleanStop(e, app)
  PROVE  IInv'
<1> DEFINE n == Len(host_mapping)
           em == emulations[e]
           node == host_mapping[em.equivalence[app] + 1]
           mine == {<<app, i>> : i \in Apps(em.matrix) \ {app}}
           last == current_load[node][e] = 1
<1>0. /\ BooksTyped /\ ClusterTyped /\ HostsFollow /\ LoadsRight /\ AttributedWhileRunning
      /\ Attributable /\ BooksNeverPanic
  BY DEF IInv
<1>1. /\ n \in Nat /\ emulations \in Emulations(n) /\ residual_graph \in Matrix(n, U32)
      /\ residual_graph.n = n /\ current_load \in [Host -> [Emul -> Nat]]
      /\ attributed_emul \in Attributions
  BY <1>0 DEF BooksTyped, Matrix
<1>2. /\ em.matrix \in GoodRequests /\ em.equivalence \in [Apps(em.matrix) -> Rows(n)]
      /\ DOMAIN emulations \in SUBSET Emul /\ e \in Emul
  BY <1>1, EmulationsIs
<1>3. app \in Running(e) /\ HostOf(e, app) = node /\ <<e, app>> \notin stopped
  BY DEF CleanStop, Running, HostOf
<1>4. node \in Host /\ node \in DOMAIN attributed_emul
  BY <1>0, <1>3, OnHostIs DEF Attributable
<1>5. ~\E i \in Apps(em.matrix) : em.equivalence[i] >= Size
  <2>1. \A x \in Rows(n) : ~(x >= n)
    BY <1>1 DEF Rows
  <2> QED
    BY <1>1, <1>2, <2>1 DEF Size
<1>6. /\ residual_graph' = GivenBack(residual_graph, em.matrix, em.equivalence, mine)
      /\ current_load' = [current_load EXCEPT ![node][e] = @ - Freed(node, e)]
      /\ attributed_emul' =
           IF last THEN [attributed_emul EXCEPT ![node] = @ \ {e}] ELSE attributed_emul
      /\ emulations' = IF StillThere(attributed_emul', e) THEN emulations
                       ELSE Without(emulations, {e})
      /\ stopped' = stopped \cup {<<e, app>>}
      /\ crashed' = TRUE
      /\ UNCHANGED <<host_mapping, panicked, cgraph, copy, changes, returned>>
  BY <1>4, <1>5 DEF CleanStop
<1> DEFINE W == Without(emulations, {e})
<1>w. /\ W \in Emulations(n) /\ DOMAIN W = DOMAIN emulations \ {e}
      /\ \A x \in DOMAIN emulations \ {e} : W[x] = emulations[x]
      /\ emulations' = IF StillThere(attributed_emul', e) THEN emulations ELSE W
  <2>1. /\ W \in Emulations(n) /\ DOMAIN W = DOMAIN emulations \ {e}
        /\ \A x \in DOMAIN emulations \ {e} : W[x] = emulations[x]
    <3> DEFINE S == {e}
    <3>1. n \in Nat /\ emulations \in Emulations(n)
      BY <1>1
    <3> HIDE DEF n, S
    <3>2. /\ Without(emulations, S) \in Emulations(n)
          /\ DOMAIN Without(emulations, S) = DOMAIN emulations \ S
          /\ \A x \in DOMAIN emulations \ S : Without(emulations, S)[x] = emulations[x]
      BY <3>1, WithoutIs
    <3> QED
      BY <3>2 DEF S
  <2> QED
    BY <1>6, <2>1
<1> HIDE DEF node, em, mine, W
<1>7. /\ \A x \in DOMAIN emulations, h \in Host : current_load[h][x] = Cardinality(OnHost(x, h))
      /\ \A x \in Emul \ DOMAIN emulations, h \in Host : current_load[h][x] = 0
      /\ \A h \in Host : LoadOn(h) <= max_load
  BY <1>0, <1>2 DEF LoadsRight, OnHost
<1>8. /\ IsFiniteSet(OnHost(e, node)) /\ app \in OnHost(e, node)
      /\ Cardinality(OnHost(e, node)) \in Nat
      /\ Cardinality(OnHost(e, node) \ {app}) = Cardinality(OnHost(e, node)) - 1
      /\ Cardinality(OnHost(e, node) \ {app}) \in Nat
  <2>1. IsFiniteSet(OnHost(e, node)) /\ Cardinality(OnHost(e, node)) \in Nat
    BY <1>0, OnHostIs
  <2>2. app \in OnHost(e, node)
    BY <1>3 DEF OnHost
  <2>3. /\ IsFiniteSet(OnHost(e, node) \ {app})
        /\ Cardinality(OnHost(e, node) \ {app}) = Cardinality(OnHost(e, node)) - 1
    BY <2>1, <2>2, FS_RemoveElement
  <2> QED
    BY <2>1, <2>2, <2>3, FS_CardinalityType
<1>9. /\ current_load' \in [Host -> [Emul -> Nat]]
      /\ \A h \in Host, x \in Emul : current_load'[h][x] <= current_load[h][x]
      /\ \A h \in Host, x \in Emul : h # node \/ x # e => current_load'[h][x] = current_load[h][x]
      /\ current_load'[node][e] = Cardinality(OnHost(e, node) \ {app})
  <2>1. current_load[node][e] = Cardinality(OnHost(e, node))
    BY <1>4, <1>7
  <2>2. current_load[node][e] \in Nat /\ current_load[node][e] > 0
    BY <1>8, <2>1
  <2>3. Freed(node, e) = 1
    BY <2>2 DEF Freed
  <2>4. current_load' = [current_load EXCEPT ![node][e] = @ - 1]
    BY <1>6, <2>3
  <2>5. current_load'[node][e] = current_load[node][e] - 1
    BY <1>1, <1>2, <1>4, <2>4
  <2>6. \A h \in Host, x \in Emul : h # node \/ x # e => current_load'[h][x] = current_load[h][x]
    BY <1>1, <1>2, <1>4, <2>4
  <2>7. \A h \in Host, x \in Emul : current_load[h][x] \in Nat
    BY <1>1
  <2>8. \A h \in Host, x \in Emul : current_load'[h][x] <= current_load[h][x] /\ current_load'[h][x] \in Nat
    BY <2>2, <2>5, <2>6, <2>7
  <2>9. current_load' \in [Host -> [Emul -> Nat]]
    <3>1. current_load' \in [Host -> [Emul -> Int]]
      <4>1. current_load \in [Host -> [Emul -> Int]] /\ current_load[node][e] - 1 \in Int
        BY <1>1, <2>2
      <4> QED
        BY <1>2, <1>4, <2>4, <4>1
    <3> QED
      BY <2>8, <3>1
  <2> QED
    BY <1>8, <2>1, <2>5, <2>6, <2>8, <2>9
<1>10. last <=> OnHost(e, node) = {app}
  <2>1. last <=> Cardinality(OnHost(e, node) \ {app}) = 0
    BY <1>4, <1>7, <1>8
  <2>2. Cardinality(OnHost(e, node) \ {app}) = 0 <=> OnHost(e, node) \ {app} = {}
    BY <1>8, FS_EmptySet, FS_RemoveElement
  <2> QED
    BY <1>8, <2>1, <2>2
<1> HIDE DEF last
<1>11. /\ DOMAIN attributed_emul' = DOMAIN attributed_emul
       /\ attributed_emul' \in Attributions
       /\ \A h \in DOMAIN attributed_emul :
            attributed_emul'[h] = IF last /\ h = node THEN attributed_emul[h] \ {e} ELSE attributed_emul[h]
  <2>1. PICK S \in SUBSET Host : attributed_emul \in [S -> SUBSET Emul]
    BY <1>1 DEF Attributions
  <2>2. attributed_emul' \in [S -> SUBSET Emul]
    BY <1>4, <1>6, <2>1
  <2>3. attributed_emul' \in Attributions
    BY <2>2 DEF Attributions
  <2>4. \A h \in DOMAIN attributed_emul :
            attributed_emul'[h] = IF last /\ h = node THEN attributed_emul[h] \ {e} ELSE attributed_emul[h]
    BY <1>4, <1>6, <2>1
  <2> QED
    BY <2>1, <2>2, <2>3, <2>4
<1>12. ASSUME NEW x \in DOMAIN emulations, NEW h \in DOMAIN attributed_emul
       PROVE  x \in attributed_emul[h] <=> OnHost(x, h) # {}
  BY <1>0 DEF AttributedWhileRunning, OnHost
<1> DEFINE Left(x, h) == IF x = e /\ h = node THEN OnHost(x, h) \ {app} ELSE OnHost(x, h)
<1>13. ASSUME NEW x \in DOMAIN emulations, NEW h \in DOMAIN attributed_emul
       PROVE  x \in attributed_emul'[h] <=> Left(x, h) # {}
  <2>1. x \in attributed_emul[h] <=> OnHost(x, h) # {}
    BY <1>12
  <2>2. x \in attributed_emul'[h] <=> x \in attributed_emul[h] /\ ~(last /\ h = node /\ x = e)
    BY <1>11
  <2>3. CASE x = e /\ h = node
    BY <1>8, <1>10, <2>1, <2>2, <2>3
  <2>4. CASE ~(x = e /\ h = node)
    BY <2>1, <2>2, <2>4
  <2> QED
    BY <2>3, <2>4
<1>14. ASSUME NEW x \in DOMAIN emulations'
       PROVE  /\ x \in DOMAIN emulations /\ emulations'[x] = emulations[x]
              /\ Running(x)' = IF x = e THEN Running(x) \ {app} ELSE Running(x)
              /\ \A i : HostOf(x, i)' = HostOf(x, i)
              /\ \A h : OnHost(x, h)' = Left(x, h)
  <2>1. x \in DOMAIN emulations /\ emulations'[x] = emulations[x]
    BY <1>w
  <2>2. Running(x)' = IF x = e THEN Running(x) \ {app} ELSE Running(x)
    BY <1>6, <2>1 DEF Running
  <2>3. \A i : HostOf(x, i)' = HostOf(x, i)
    BY <1>6, <2>1 DEF HostOf
  <2>4. \A h : OnHost(x, h)' = {i \in Running(x)' : HostOf(x, i) = h}
    BY <2>3 DEF OnHost
  <2>5. ASSUME NEW h PROVE {i \in Running(x)' : HostOf(x, i) = h} = Left(x, h)
    <3>1. CASE x = e
      BY <1>3, <2>2, <3>1 DEF OnHost
    <3>2. CASE x # e
      BY <2>2, <3>2 DEF OnHost
    <3> QED
      BY <3>1, <3>2
  <2> QED
    BY <2>1, <2>2, <2>3, <2>4, <2>5
<1>15. ASSUME e \notin DOMAIN emulations' PROVE \A h \in Host : Left(e, h) = {}
  <2>1. ~StillThere(attributed_emul', e)
    BY <1>6, <1>15
  <2>2. \A h \in DOMAIN attributed_emul : e \notin attributed_emul'[h]
    BY <1>11, <2>1 DEF StillThere
  <2>3. ASSUME NEW h \in Host PROVE Left(e, h) = {}
    <3>1. CASE h \in DOMAIN attributed_emul
      BY <1>13, <2>2, <3>1
    <3>2. CASE h \notin DOMAIN attributed_emul
      <4>1. OnHost(e, h) = {}
        BY <1>0, <3>2 DEF Attributable, OnHost
      <4> QED
        BY <4>1
    <3> QED
      BY <3>1, <3>2
  <2> QED
    BY <2>3
<1>16. \A x \in DOMAIN emulations : x # e => x \in DOMAIN emulations'
  BY <1>w
<1>17. ASSUME NEW h \in Host, NEW x \in DOMAIN emulations PROVE current_load'[h][x] = Cardinality(Left(x, h))
  <2>1. CASE x = e /\ h = node
    BY <1>9, <2>1
  <2>2. CASE ~(x = e /\ h = node)
    BY <1>2, <1>7, <1>9, <2>2
  <2> QED
    BY <2>1, <2>2
<1> HIDE DEF Left
<1>18. LoadsRight'
  <2>1. ASSUME NEW h \in Host PROVE LoadOn(h)' <= max_load
    <3> DEFINE f == current_load[h]
               g == current_load'[h]
    <3>1. DOMAIN f = Emul /\ DOMAIN g = Emul /\ IsFiniteSet(Emul)
      BY <1>1, <1>9, Cluster
    <3>2. \A x \in Emul : g[x] \in Int /\ f[x] \in Int /\ g[x] <= f[x]
      BY <1>1, <1>9
    <3>3. LoadOn(h) = SumFunctionOnSet(f, Emul) /\ LoadOn(h)' = SumFunctionOnSet(g, Emul)
      BY <3>1 DEF LoadOn, SumFunction
    <3> HIDE DEF f, g
    <3>4. SumFunctionOnSet(g, Emul) <= SumFunctionOnSet(f, Emul)
      BY <3>1, <3>2, SumMonotone
    <3>5. SumFunctionOnSet(f, Emul) \in Int /\ SumFunctionOnSet(g, Emul) \in Int
      BY <3>1, <3>2, SumType
    <3> QED
      BY <1>7, <3>3, <3>4, <3>5, Cluster
  <2>2. ASSUME NEW h \in Host, NEW x \in Emul
        PROVE  current_load'[h][x] = IF x \notin DOMAIN emulations' THEN 0
                                     ELSE Cardinality(OnHost(x, h)')
    <3>1. CASE x \in DOMAIN emulations'
      BY <1>14, <1>17, <3>1
    <3>2. CASE x \notin DOMAIN emulations' /\ x \in DOMAIN emulations
      <4>1. x = e
        BY <1>16, <3>2
      <4>2. Left(x, h) = {}
        BY <1>15, <3>2, <4>1
      <4> QED
        BY <1>17, <3>2, <4>2, FS_EmptySet
    <3>3. CASE x \notin DOMAIN emulations' /\ x \notin DOMAIN emulations
      BY <1>7, <1>9, <3>3
    <3> QED
      BY <3>1, <3>2, <3>3
  <2> QED
    BY <2>1, <2>2 DEF LoadsRight, OnHost
<1>19. Attributable'
  BY <1>0, <1>11, <1>14 DEF Attributable
<1>20. AttributedWhileRunning'
  <2>1. ASSUME NEW x \in DOMAIN emulations' PROVE Running(x)' # {}
    <3>1. CASE x # e
      BY <1>0, <1>14, <3>1 DEF AttributedWhileRunning
    <3>2. CASE x = e
      <4>1. StillThere(attributed_emul', e)
        BY <1>w, <3>2
      <4>2. PICK h \in DOMAIN attributed_emul : e \in attributed_emul'[h]
        BY <1>11, <4>1 DEF StillThere
      <4>3. Left(e, h) # {}
        BY <1>13, <4>2
      <4>4. OnHost(e, h)' # {}
        BY <1>14, <3>2, <4>3
      <4> QED
        BY <3>2, <4>4 DEF OnHost
    <3> QED
      BY <3>1, <3>2
  <2>2. ASSUME NEW h \in DOMAIN attributed_emul'
        PROVE  attributed_emul'[h] = {x \in DOMAIN emulations' : OnHost(x, h)' # {}}
    <3>1. h \in DOMAIN attributed_emul
      BY <1>11
    <3>2. attributed_emul'[h] \subseteq DOMAIN emulations
      BY <1>0, <1>11, <3>1 DEF AttributedWhileRunning
    <3>3. ASSUME NEW x \in attributed_emul'[h] PROVE x \in DOMAIN emulations' /\ OnHost(x, h)' # {}
      <4>1. Left(x, h) # {}
        BY <1>13, <3>1, <3>2
      <4>2. x \in DOMAIN emulations'
        <5>1. CASE x # e
          BY <1>16, <3>2, <5>1
        <5>2. CASE x = e
          <6>1. StillThere(attributed_emul', e)
            BY <5>2 DEF StillThere
          <6> QED
            BY <1>6, <3>2, <5>2, <6>1
        <5> QED
          BY <5>1, <5>2
      <4> QED
        BY <1>14, <4>1, <4>2
    <3>4. ASSUME NEW x \in DOMAIN emulations', OnHost(x, h)' # {} PROVE x \in attributed_emul'[h]
      BY <1>13, <1>14, <3>1, <3>4
    <3> QED
      BY <3>3, <3>4
  <2> QED
    BY <2>1, <2>2 DEF AttributedWhileRunning, OnHost
<1>21. BooksTyped'
  <2>1. residual_graph' \in Matrix(n, U32)
    <3>1. mine \in SUBSET (Apps(em.matrix) \X Apps(em.matrix))
      BY DEF mine, em
    <3> QED
      BY <1>1, <1>2, <1>6, <3>1, GivenBackIs
  <2>2. emulations' \in Emulations(n)
    BY <1>1, <1>w
  <2> QED
    BY <1>0, <1>6, <1>9, <1>11, <2>1, <2>2 DEF BooksTyped
<1>22. ClusterTyped' /\ HostsFollow' /\ BooksNeverPanic'
  BY <1>0, <1>6 DEF ClusterTyped, HostsFollow, BooksNeverPanic
<1>23. Balance'
  BY <1>6 DEF Balance
<1> QED
  BY <1>18, <1>19, <1>20, <1>21, <1>22, <1>23 DEF IInv

-----------------------------------------------------------------------------
\* A new emulation.

\* The pairs in S are among those in T, in one order or the other.
LEMMA PairsAmong ==
  ASSUME NEW m \in GoodRequests, NEW S \in SUBSET (Apps(m) \X Apps(m)),
         NEW T \in SUBSET (Apps(m) \X Apps(m)),
         \A p \in S : p \in T \/ <<p[2], p[1]>> \in T,
         \A p \in S : <<p[2], p[1]>> \notin S
  PROVE  Required(m, S) <= Required(m, T)
<1> DEFINE f == Demand(m)
           j == [p \in S |-> IF p \in T THEN p ELSE <<p[2], p[1]>>]
<1>1. \A p \in Apps(m) \X Apps(m) : f[p] \in Nat /\ f[p] = f[<<p[2], p[1]>>]
  <2>1. U32 \subseteq Nat
    BY Cluster DEF U32
  <2> QED
    BY <2>1, DemandIs
<1>2. IsFiniteSet(S) /\ IsFiniteSet(T)
  BY AppsFinite
<1>3. \A p \in Apps(m) \X Apps(m) : p = <<p[1], p[2]>>
  OBVIOUS
<1>4. j \in [S -> T]
  OBVIOUS
<1> HIDE DEF f
<1>5. ASSUME NEW x \in S, NEW y \in S, j[x] = j[y] PROVE x = y
  <2>1. x = <<x[1], x[2]>> /\ y = <<y[1], y[2]>>
    BY <1>3
  <2>2. CASE j[x] = x /\ j[y] = y
    BY <1>5, <2>2
  <2>3. CASE j[x] = <<x[2], x[1]>> /\ j[y] = y
    BY <1>5, <2>3
  <2>4. CASE j[x] = x /\ j[y] = <<y[2], y[1]>>
    BY <1>5, <2>4
  <2>5. CASE j[x] = <<x[2], x[1]>> /\ j[y] = <<y[2], y[1]>>
    <3>1. <<x[2], x[1]>> = <<y[2], y[1]>>
      BY <1>5, <2>5
    <3>2. x[1] = y[1] /\ x[2] = y[2]
      BY <3>1
    <3> HIDE DEF j
    <3> QED
      BY <2>1, <3>2
  <2> QED
    BY <2>2, <2>3, <2>4, <2>5
<1>6. \A x \in S : f[x] \in Nat /\ f[x] = f[j[x]]
  <2> TAKE x \in S
  <2>1. f[x] \in Nat /\ f[x] = f[<<x[2], x[1]>>]
    BY <1>1
  <2>2. j[x] = x \/ j[x] = <<x[2], x[1]>>
    OBVIOUS
  <2> HIDE DEF j
  <2> QED
    BY <2>1, <2>2
<1>7. \A y \in T : f[y] \in Nat
  BY <1>1
<1> HIDE DEF j
<1>8. SumFunctionOnSet(f, S) <= SumFunctionOnSet(f, T)
  BY <1>2, <1>4, <1>5, <1>6, <1>7, SumInjection
<1> QED
  BY <1>8 DEF Required, f

\* What an accepted placement uses between two hosts is left between them.
LEMMA PlacementFits ==
  ASSUME SumsFit, NEW n \in Nat, residual_graph \in Matrix(n, U32), NEW m \in GoodRequests,
         NEW at \in [Apps(m) -> Rows(n)], verify_permutation(m, at),
         NEW a \in Rows(n), NEW c \in Rows(n), a # c
  PROVE  Between(m, at, Ordered(m), a, c) <= Residual(a, c)
<1> DEFINE Pairs == Apps(m) \X Apps(m)
           here == {app \in Apps(m) : at[app] = a}
           X == here \X (Apps(m) \ here)
           S == {p \in Ordered(m) : {at[p[1]], at[p[2]]} = {a, c}}
<1>1. S \in SUBSET Pairs /\ X \in SUBSET Pairs /\ Ordered(m) \in SUBSET Pairs
  BY DEF Ordered
<1>2. Between(m, at, Ordered(m), a, c) = Required(m, S)
  BY DEF Between
<1>3. Residual(a, c) \in U32
  BY AtType DEF Residual
<1>4. \A x, y \in Apps(m) : x \in Int /\ y \in Int
  BY DEF Apps
<1>5. CASE S = {}
  <2>1. Required(m, S) = 0
    BY <1>5, SumEmpty DEF Required
  <2> QED
    BY <1>2, <1>3, <2>1, Cluster DEF U32
<1>6. CASE S # {}
  <2>1. PICK p \in S : TRUE
    BY <1>6
  <2>2. p[1] \in Apps(m) /\ p[2] \in Apps(m) /\ {at[p[1]], at[p[2]]} = {a, c}
    BY <1>1
  <2>3. a \in Range(at) /\ c \in Range(at) \ {a}
    BY <2>2 DEF Range
  <2>4. Wrap(Required(m, X)) <= Residual(a, c)
    BY <2>3 DEF verify_permutation
  <2>5. Required(m, S) <= Required(m, X)
    <3>1. ASSUME NEW q \in S PROVE (q \in X \/ <<q[2], q[1]>> \in X) /\ <<q[2], q[1]>> \notin S
      <4>1. /\ q \in Pairs /\ q[2] < q[1] /\ {at[q[1]], at[q[2]]} = {a, c}
            /\ q[1] \in Int /\ q[2] \in Int /\ q[1] \in Apps(m) /\ q[2] \in Apps(m) /\ q = <<q[1], q[2]>>
        BY <1>1, <1>4 DEF Ordered
      <4>2. <<q[2], q[1]>> \notin S
        <5>1. ~(q[1] < q[2])
          BY <4>1
        <5> QED
          BY <5>1 DEF Ordered
      <4>3. (at[q[1]] = a /\ at[q[2]] # a) \/ (at[q[2]] = a /\ at[q[1]] # a)
        BY <4>1
      <4>4. q \in X \/ <<q[2], q[1]>> \in X
        BY <4>1, <4>3
      <4> QED
        BY <4>2, <4>4
    <3> HIDE DEF S, X, Pairs
    <3> QED
      BY <1>1, <3>1, PairsAmong DEF Pairs
  <2>6. Required(m, X) <= Required(m, Ordered(m))
    <3>1. ASSUME NEW q \in X
          PROVE  (q \in Ordered(m) \/ <<q[2], q[1]>> \in Ordered(m)) /\ <<q[2], q[1]>> \notin X
      <4>1. /\ q[1] \in Apps(m) /\ q[2] \in Apps(m) /\ q[1] # q[2] /\ q[1] \in Int /\ q[2] \in Int
            /\ q \in Pairs /\ at[q[1]] = a /\ q[2] \notin here
        BY <1>4
      <4>2. q[2] < q[1] \/ q[1] < q[2]
        BY <4>1
      <4>3. q \in Ordered(m) \/ <<q[2], q[1]>> \in Ordered(m)
        BY <4>1, <4>2 DEF Ordered
      <4>4. <<q[2], q[1]>> \notin X
        BY <4>1
      <4> QED
        BY <4>3, <4>4
    <3> HIDE DEF X, Pairs
    <3> QED
      BY <1>1, <3>1, PairsAmong DEF Pairs
  <2>7. Required(m, S) \in Nat /\ Required(m, X) \in Nat /\ Required(m, Ordered(m)) \in Nat
    BY <1>1, RequiredIs
  <2>8. Required(m, Ordered(m)) <= MAX
    BY DEF SumsFit, GoodRequests
  <2>9. Required(m, X) \in U32
    BY <2>6, <2>7, <2>8, Cluster DEF U32
  <2>10. Wrap(Required(m, X)) = Required(m, X)
    <3>1. Required(m, X) \in Int
      BY <2>7
    <3> QED
      BY <2>9, <3>1, WrapIs
  <2> HIDE DEF S, X
  <2> QED
    BY <1>2, <1>3, <2>4, <2>5, <2>7, <2>10 DEF U32
<1> QED
  BY <1>5, <1>6

\* u: the emulations t and the new one e.
OneMore(t, e, em, u) == u = [x \in DOMAIN t \cup {e} |-> IF x = e THEN em ELSE t[x]]

\* An emulation that is booked is one more that uses bandwidth.
LEMMA InUseOneMore ==
  ASSUME NEW n \in Nat, NEW t \in Emulations(n), NEW e \in Emul, e \notin DOMAIN t,
         NEW em \in Placements(n), NEW u, OneMore(t, e, em, u)
  PROVE  /\ u \in Emulations(n)
         /\ \A a, c : InUseBy(u, a, c) = UsedBy(em, a, c) + InUseBy(t, a, c)
<1> DEFINE D == DOMAIN t \cup {e}
           S == {e}
<1>1. DOMAIN t \in SUBSET Emul /\ t = [x \in DOMAIN t |-> t[x]] /\ \A x \in DOMAIN t : t[x] \in Placements(n)
  BY EmulationsIs
<1>2. u \in [D -> Placements(n)] /\ D \in SUBSET Emul
  BY <1>1 DEF OneMore
<1>3. u \in Emulations(n)
  <2> HIDE DEF D
  <2> QED
    BY <1>2 DEF Emulations
<1>4. e \in DOMAIN u /\ u[e] = em /\ DOMAIN u \ {e} = DOMAIN t /\ \A x \in DOMAIN t : u[x] = t[x]
  BY DEF OneMore
<1>5. Without(u, {e}) = t
  <2>1. Without(u, {e}) = [x \in DOMAIN u \ {e} |-> u[x]]
    BY DEF Without, Restrict
  <2> QED
    BY <1>1, <1>4, <2>1
<1> QED
  BY <1>3, <1>4, <1>5, InUseByIs

\* new_emulation with a placement that verify_permutation accepted.
LEMMA PlaceStep ==
  ASSUME IInv, NEW e \in Emul, NEW m \in GoodRequests, NEW at \in [Apps(m) -> 0..(Size - 1)],
         verify_permutation(m, at), e \notin DOMAIN emulations,
         \A i \in Apps(m) : <<e, i>> \notin stopped, Place(e, m, at)
  PROVE  IInv'
<1> DEFINE n == Len(host_mapping)
           host(app) == host_mapping[at[app] + 1]
           hosts == {host(app) : app \in Apps(m)}
           Here(h) == {app \in Apps(m) : host(app) = h}
           em == [matrix |-> m, equivalence |-> at]
<1>0. /\ BooksTyped /\ ClusterTyped /\ HostsFollow /\ LoadsRight /\ AttributedWhileRunning
      /\ Attributable /\ BooksNeverPanic /\ Balance
  BY DEF IInv
<1>1. /\ n \in Nat /\ emulations \in Emulations(n) /\ residual_graph \in Matrix(n, U32)
      /\ residual_graph.n = n /\ current_load \in [Host -> [Emul -> Nat]]
      /\ attributed_emul \in Attributions /\ host_mapping \in Seq(Host) /\ IsInjective(host_mapping)
  BY <1>0 DEF BooksTyped, Matrix
<1>2. at \in [Apps(m) -> Rows(n)]
  BY <1>1 DEF Size, Rows
<1>3. /\ current_load' = [h \in Host |-> [current_load[h] EXCEPT ![e] = @ + Cardinality(Here(h))]]
      /\ attributed_emul' =
           [h \in DOMAIN attributed_emul \cup hosts |->
              (IF h \in DOMAIN attributed_emul THEN attributed_emul[h] ELSE {})
                \cup (IF h \in hosts THEN {e} ELSE {})]
      /\ residual_graph' = Taken(m, at)
      /\ emulations' = [x \in DOMAIN emulations \cup {e} |-> IF x = e THEN em ELSE emulations[x]]
      /\ UNCHANGED <<host_mapping, panicked>>
      /\ UNCHANGED <<cgraph, copy, stopped, changes, crashed, returned>>
  BY DEF Place, environment
<1>4. m.n \in Nat /\ m.n > 0 /\ IsFiniteSet(Apps(m)) /\ Apps(m) # {}
  <2>1. m.n \in Nat /\ m.n > 0
    BY RequestIs
  <2>2. 0 \in Apps(m)
    BY <2>1 DEF Apps
  <2>3. IsFiniteSet(Apps(m))
    BY <2>1, FS_Interval DEF Apps
  <2> QED
    BY <2>1, <2>2, <2>3
<1>5. \A app \in Apps(m) : at[app] + 1 \in DOMAIN host_mapping /\ host(app) \in Host
  BY <1>1, <1>2 DEF Rows
<1>6. \A h : IsFiniteSet(Here(h)) /\ Cardinality(Here(h)) \in Nat
  BY <1>4, FS_Subset, FS_CardinalityType
<1>7. em \in Placements(n)
  <2>1. em \in [matrix : {m}, equivalence : [Apps(m) -> Rows(n)]]
    BY <1>2
  <2> HIDE DEF em, n
  <2> QED
    BY <2>1 DEF Placements
<1>8. /\ emulations' \in Emulations(n)
      /\ \A a, c : InUseBy(emulations', a, c) = UsedBy(em, a, c) + InUseBy(emulations, a, c)
  <2>1. OneMore(emulations, e, em, emulations')
    BY <1>3 DEF OneMore
  <2> HIDE DEF em, n
  <2> QED
    BY <1>1, <1>7, <2>1, InUseOneMore
<1>9. /\ DOMAIN emulations' = DOMAIN emulations \cup {e} /\ emulations'[e] = em
      /\ \A x \in DOMAIN emulations : x # e /\ emulations'[x] = emulations[x]
  BY <1>3
<1>10. /\ \A x \in DOMAIN emulations : Running(x)' = Running(x)
       /\ \A x \in DOMAIN emulations : \A i : HostOf(x, i)' = HostOf(x, i)
  BY <1>3, <1>9 DEF Running, HostOf
<1>11. /\ Running(e)' = Apps(m)
       /\ \A i : HostOf(e, i)' = host(i)
  BY <1>3, <1>9 DEF Running, HostOf
<1>12. /\ \A x \in DOMAIN emulations : \A h : OnHost(x, h)' = OnHost(x, h)
       /\ \A h : OnHost(e, h)' = Here(h)
  BY <1>10, <1>11 DEF OnHost
<1>13. /\ \A x \in DOMAIN emulations, h \in Host : current_load[h][x] = Cardinality(OnHost(x, h))
       /\ \A x \in Emul \ DOMAIN emulations, h \in Host : current_load[h][x] = 0
       /\ \A h \in Host : LoadOn(h) <= max_load
  <2>1. DOMAIN emulations \in SUBSET Emul
    BY <1>1, EmulationsIs
  <2> QED
    BY <1>0, <2>1 DEF LoadsRight, OnHost
<1>14. ASSUME NEW h \in Host
       PROVE  /\ \A x \in Emul : current_load'[h][x]
                   = IF x = e THEN Cardinality(Here(h)) ELSE current_load[h][x]
              /\ current_load'[h] \in [Emul -> Nat]
  <2> DEFINE k == Cardinality(Here(h))
             f == current_load[h]
  <2>1. k \in Nat /\ f \in [Emul -> Nat] /\ f[e] = 0
    BY <1>1, <1>6, <1>13
  <2>2. current_load'[h] = [f EXCEPT ![e] = @ + k]
    BY <1>3
  <2> HIDE DEF k, f
  <2>3. /\ \A x \in Emul : current_load'[h][x] = IF x = e THEN k ELSE f[x]
        /\ current_load'[h] \in [Emul -> Nat]
    BY <2>1, <2>2
  <2> QED
    BY <2>3 DEF k, f
<1>15. current_load' \in [Host -> [Emul -> Nat]]
  <2>1. DOMAIN current_load' = Host /\ current_load' = [h \in Host |-> current_load'[h]]
    BY <1>3
  <2> QED
    BY <1>14, <2>1
<1>16. ASSUME NEW h \in Host PROVE SumFunction(current_load'[h]) <= max_load
  <2> DEFINE f == current_load[h]
             g == current_load'[h]
             k == Cardinality(Here(h))
  <2>1. /\ DOMAIN f = Emul /\ DOMAIN g = Emul /\ IsFiniteSet(Emul)
        /\ \A x \in Emul : f[x] \in Int /\ g[x] \in Int
        /\ g[e] = k /\ f[e] = 0 /\ k \in Nat
        /\ \A x \in Emul \ {e} : g[x] = f[x]
    <3>1. IsFiniteSet(Emul)
      BY Cluster
    <3>2. f \in [Emul -> Nat] /\ f[e] = 0
      BY <1>1, <1>13
    <3>3. g \in [Emul -> Nat] /\ \A x \in Emul : g[x] = IF x = e THEN k ELSE f[x]
      BY <1>14
    <3>4. k \in Nat
      BY <1>6
    <3> HIDE DEF f, g, k
    <3> QED
      BY <3>1, <3>2, <3>3, <3>4
  <2>2. LoadOn(h) = SumFunctionOnSet(f, Emul) /\ SumFunction(g) = SumFunctionOnSet(g, Emul)
    BY <2>1 DEF LoadOn, SumFunction
  <2>3. h \notin hosts => k = 0
    <3>1. h \notin hosts => Here(h) = {}
      OBVIOUS
    <3> QED
      BY <3>1, FS_EmptySet
  <2>4. h \in hosts => LoadOn(h) + k <= max_load
    <3>1. SUFFICES ASSUME NEW app \in Apps(m), h = host(app) PROVE LoadOn(h) + k <= max_load
      OBVIOUS
    <3> DEFINE row == at[app]
    <3>2. row \in Range(at) /\ row + 1 \in DOMAIN host_mapping
      BY <1>2, <1>5 DEF Range
    <3>3. Here(h) = {i \in Apps(m) : at[i] = row}
      <4>1. ASSUME NEW i \in Apps(m), host(i) = h PROVE at[i] = row
        <5>1. at[i] + 1 = row + 1
          BY <1>1, <1>5, <3>1, <3>2, <4>1 DEF IsInjective
        <5>2. at[i] \in Int /\ row \in Int
          BY <1>2 DEF Rows
        <5> QED
          BY <5>1, <5>2
      <4> QED
        BY <3>1, <4>1
    <3>4. get_actual_load(row) + Cardinality({i \in Apps(m) : at[i] = row}) <= max_load
      BY <3>2 DEF verify_permutation
    <3>5. get_actual_load(row) = LoadOn(h)
      BY <3>1 DEF get_actual_load
    <3> QED
      BY <3>3, <3>4, <3>5
  <2> HIDE DEF f, g, k
  <2> DEFINE R == Emul \ {e}
  <2>5. /\ SumFunctionOnSet(f, Emul) = f[e] + SumFunctionOnSet(f, R)
        /\ SumFunctionOnSet(g, Emul) = g[e] + SumFunctionOnSet(g, R)
    BY <2>1, SumRemove
  <2>6. IsFiniteSet(R) /\ \A x \in R : f[x] \in Int /\ g[x] \in Int /\ f[x] = g[x]
    BY <2>1, FS_Subset
  <2> HIDE DEF R
  <2>7. SumFunctionOnSet(f, R) = SumFunctionOnSet(g, R) /\ SumFunctionOnSet(f, R) \in Int
    BY <2>6, SumSame, SumType
  <2>8. SumFunction(g) = LoadOn(h) + k /\ LoadOn(h) \in Int
    BY <2>1, <2>2, <2>5, <2>7
  <2>9. LoadOn(h) + k <= max_load
    BY <1>13, <2>1, <2>3, <2>4, <2>8, Cluster
  <2> QED
    BY <2>8, <2>9 DEF g
<1>17. LoadsRight'
  <2>1. \A h \in Host : LoadOn(h)' <= max_load
    BY <1>16 DEF LoadOn
  <2>2. ASSUME NEW h \in Host, NEW x \in Emul
        PROVE  current_load'[h][x] = IF x \notin DOMAIN emulations' THEN 0
                                     ELSE Cardinality(OnHost(x, h)')
    <3>1. CASE x = e
      BY <1>9, <1>12, <1>14, <3>1
    <3>2. CASE x # e
      BY <1>9, <1>12, <1>13, <1>14, <3>2
    <3> QED
      BY <3>1, <3>2
  <2> QED
    BY <2>1, <2>2 DEF LoadsRight, OnHost
<1>18. /\ attributed_emul' \in Attributions
       /\ DOMAIN attributed_emul' = DOMAIN attributed_emul \cup hosts
  <2>1. PICK S \in SUBSET Host : attributed_emul \in [S -> SUBSET Emul]
    BY <1>1 DEF Attributions
  <2>2. hosts \in SUBSET Host
    BY <1>5
  <2> HIDE DEF hosts
  <2>3. DOMAIN attributed_emul = S /\ \A h \in S : attributed_emul[h] \in SUBSET Emul
    BY <2>1
  <2>4. attributed_emul' \in [S \cup hosts -> SUBSET Emul] /\ S \cup hosts \in SUBSET Host
    BY <1>3, <2>2, <2>3
  <2> QED
    BY <2>3, <2>4 DEF Attributions
<1>19. Attributable'
  <2>1. \A i \in Apps(m) : host(i) \in hosts
    OBVIOUS
  <2> QED
    BY <1>0, <1>9, <1>10, <1>11, <1>18, <2>1 DEF Attributable
<1>20. AttributedWhileRunning'
  <2>1. ASSUME NEW x \in DOMAIN emulations' PROVE Running(x)' # {}
    BY <1>0, <1>4, <1>9, <1>10, <1>11 DEF AttributedWhileRunning
  <2>2. ASSUME NEW h \in DOMAIN attributed_emul'
        PROVE  attributed_emul'[h] = {x \in DOMAIN emulations' : OnHost(x, h)' # {}}
    <3> DEFINE old == {x \in DOMAIN emulations : OnHost(x, h) # {}}
               new == {x \in {e} : h \in hosts}
    <3>1. (IF h \in DOMAIN attributed_emul THEN attributed_emul[h] ELSE {}) = old
      <4>1. CASE h \in DOMAIN attributed_emul
        BY <1>0, <4>1 DEF AttributedWhileRunning, OnHost
      <4>2. CASE h \notin DOMAIN attributed_emul
        BY <1>0, <4>2 DEF Attributable, OnHost
      <4> QED
        BY <4>1, <4>2
    <3>2. (IF h \in hosts THEN {e} ELSE {}) = new
      OBVIOUS
    <3>3. attributed_emul'[h] = old \cup new
      <4> HIDE DEF old, new, hosts
      <4> QED
        BY <1>3, <1>18, <3>1, <3>2
    <3>4. h \in hosts <=> Here(h) # {}
      OBVIOUS
    <3> HIDE DEF hosts, Here
    <3>5. {x \in DOMAIN emulations' : OnHost(x, h)' # {}} = old \cup new
      BY <1>9, <1>12, <3>4
    <3> QED
      BY <3>3, <3>5
  <2> QED
    BY <2>1, <2>2 DEF AttributedWhileRunning, OnHost
<1>21. /\ residual_graph' \in Matrix(n, U32)
       /\ \A a, c \in Rows(n) : a # c =>
            At(residual_graph', a, c) = Wrap(Residual(a, c) - UsedBy(em, a, c))
  <2>1. \A a, c : UsedBy(em, a, c) = Between(m, at, Ordered(m), a, c)
    BY DEF UsedBy
  <2> HIDE DEF n, em
  <2> QED
    BY <1>1, <1>3, <2>1, TakenIs
<1>22. BooksTyped'
  BY <1>0, <1>3, <1>8, <1>15, <1>18, <1>21 DEF BooksTyped
<1>23. ClusterTyped' /\ HostsFollow' /\ BooksNeverPanic'
  BY <1>0, <1>3 DEF ClusterTyped, HostsFollow, BooksNeverPanic
<1>24. Balance'
  <2>1. SUFFICES ASSUME SumsFit, ~crashed', ~returned' PROVE Balanced(Books)'
    BY DEF Balance
  <2>2. Balanced(Books)
    BY <1>0, <1>3, <2>1 DEF Balance
  <2>3. residual_graph'.n = n
    BY <1>21 DEF Matrix
  <2>4. ASSUME NEW a \in Rows(n), NEW c \in Rows(n), a # c
        PROVE  At(residual_graph', a, c) + InUseBy(emulations', a, c) = CapacityOf(host_mapping, a, c)
    <3> DEFINE x == Residual(a, c)
               u == UsedBy(em, a, c)
               y == InUseBy(emulations, a, c)
               cap == CapacityOf(host_mapping, a, c)
    <3>1. x \in U32
      BY <1>1, AtType DEF Residual
    <3>2. u = Between(m, at, Ordered(m), a, c)
      BY DEF UsedBy
    <3>3. u \in Nat
      BY <3>2, BetweenIs, OrderedIs
    <3>4. u <= x
      BY <1>1, <1>2, <2>1, <2>4, <3>2, PlacementFits
    <3>5. y \in Nat
      BY <1>1, InUseByIs
    <3>6. x + y = cap
      BY <1>1, <2>2, <2>4 DEF Balanced, Books, Residual
    <3>7. At(residual_graph', a, c) = Wrap(x - u)
      BY <1>21, <2>4
    <3>8. InUseBy(emulations', a, c) = u + y
      BY <1>8
    <3> HIDE DEF x, u, y, cap
    <3>9. x - u \in U32 /\ x - u \in Int /\ (x - u) + (u + y) = cap
      BY <3>1, <3>3, <3>4, <3>5, <3>6, Cluster DEF U32
    <3>10. Wrap(x - u) = x - u
      BY <3>9, WrapIs
    <3> QED
      BY <3>7, <3>8, <3>9, <3>10 DEF cap
  <2>5. \A a, c \in Rows(residual_graph'.n) : a # c =>
          At(residual_graph', a, c) + InUseBy(emulations', a, c) = CapacityOf(host_mapping', a, c)
    BY <1>3, <2>3, <2>4
  <2> QED
    BY <2>5 DEF Balanced, Books
<1> QED
  BY <1>17, <1>19, <1>20, <1>22, <1>23, <1>24 DEF IInv

-----------------------------------------------------------------------------
(***************************************************************************)
(* The search.  Each of its three loops comes to an end, and what it finds  *)
(* has been verified.  The first two climb in the order of their digits,    *)
(* the last of which counts most.                                           *)
(***************************************************************************)
Digits(k, b) == [0..(k - 1) -> 0..b]
Below(k, x, y) ==
  \E j \in 0..(k - 1) : x[j] < y[j] /\ \A i \in 0..(k - 1) : i > j => x[i] = y[i]
Order(k, b) == {p \in Digits(k, b) \X Digits(k, b) : Below(k, p[1], p[2])}

\* Numbers of k digits are in a finite order.
LEMMA DigitsOrdered ==
  ASSUME NEW k \in Nat, NEW b \in Nat
  PROVE  IsFiniteSet(Digits(k, b)) /\ StrictOrder(Order(k, b), Digits(k, b))
<1>1. IsFiniteSet(Digits(k, b))
  <2>1. 0 \in Int /\ k - 1 \in Int /\ b \in Int
    OBVIOUS
  <2>2. IsFiniteSet(0..(k - 1)) /\ IsFiniteSet(0..b)
    BY <2>1, FS_Interval
  <2> QED
    BY <2>2, FiniteFunctions DEF Digits
<1>2. \A x \in Digits(k, b) : \A j \in 0..(k - 1) : x[j] \in Int
  BY DEF Digits
<1>3. \A x \in Digits(k, b) : ~Below(k, x, x)
  BY <1>2 DEF Below
<1>4. ASSUME NEW x \in Digits(k, b), NEW y \in Digits(k, b), NEW z \in Digits(k, b),
             Below(k, x, y), Below(k, y, z)
      PROVE  Below(k, x, z)
  <2>1. PICK i \in 0..(k - 1) : x[i] < y[i] /\ \A l \in 0..(k - 1) : l > i => x[l] = y[l]
    BY <1>4 DEF Below
  <2>2. PICK j \in 0..(k - 1) : y[j] < z[j] /\ \A l \in 0..(k - 1) : l > j => y[l] = z[l]
    BY <1>4 DEF Below
  <2>3. CASE i >= j
    <3>1. x[i] < z[i]
      BY <1>2, <2>1, <2>2, <2>3
    <3>2. \A l \in 0..(k - 1) : l > i => x[l] = z[l]
      BY <2>1, <2>2, <2>3
    <3> QED
      BY <3>1, <3>2 DEF Below
  <2>4. CASE i < j
    <3>1. x[j] < z[j]
      BY <1>2, <2>1, <2>2, <2>4
    <3>2. \A l \in 0..(k - 1) : l > j => x[l] = z[l]
      BY <2>1, <2>2, <2>4
    <3> QED
      BY <3>1, <3>2 DEF Below
  <2> QED
    BY <2>3, <2>4
<1>5. \A x, y \in Digits(k, b) : <<x, y>> \in Order(k, b) <=> Below(k, x, y)
  BY DEF Order
<1> QED
  <2> HIDE DEF Digits, Order, Below
  <2> QED
    BY <1>1, <1>3, <1>4, <1>5 DEF StrictOrder

\* What the search may answer: a placement that verify_permutation accepts.
Placed(m) ==
  {Found(at) : at \in {a \in [Apps(m) -> 0..(Size - 1)] : verify_permutation(m, a)}}

\* The hosts a permutation of a combination stands for.
LEMMA HostingIs ==
  ASSUME Size \in Nat \ {0}, NEW m, m.n \in Nat \ {0}, NEW combination \in [Apps(m) -> Nat],
         NEW s \in Arrangements(m.n), Verifies(m, combination, s)
  PROVE  Found(Hosting(m, combination, s)) \in Placed(m)
<1> DEFINE at == Hosting(m, combination, s)
<1>1. \A app \in Apps(m) : s.equivalence[app] \in Apps(m)
  BY DEF Arrangements, Apps
<1>2. \A app \in Apps(m) : combination[s.equivalence[app]] \in Nat
  BY <1>1
<1>3. \A x \in Nat : x % Size \in 0..(Size - 1)
  <2> DEFINE n == Size
  <2>1. n \in Nat \ {0}
    OBVIOUS
  <2> HIDE DEF n
  <2>2. \A x \in Nat : x % n \in 0..(n - 1)
    BY <2>1
  <2> QED
    BY <2>2 DEF n
<1>4. at \in [Apps(m) -> 0..(Size - 1)]
  BY <1>2, <1>3 DEF Hosting
<1>5. verify_permutation(m, at)
  BY DEF Verifies
<1> HIDE DEF at
<1>6. Found(at) \in Placed(m)
  BY <1>4, <1>5 DEF Placed
<1> QED
  BY <1>6 DEF at

-----------------------------------------------------------------------------
\* Heap's algorithm: no counter passes its place, and with the places that have
\* been carried over taken as one higher the counters climb.
Counting(k) == {s \in Arrangements(k) : \A j \in 0..(k - 1) : s.counter[j] <= j}
CountOf(k, s) == [j \in 0..(k - 1) |-> IF j >= s.index THEN s.counter[j] ELSE j + 1]

\* Both steps of its loop.
LEMMA HeapSteps ==
  ASSUME NEW k \in Nat \ {0}, NEW s \in Arrangements(k), s.index < k
  PROVE  /\ s.counter[s.index] >= s.index => Carried(s) \in Arrangements(k)
         /\ ~(s.counter[s.index] >= s.index) => Exchanged(s) \in Arrangements(k)
<1> DEFINE I == 0..(k - 1)
           i == s.index
           j == IF i % 2 = 0 THEN 0 ELSE s.counter[i]
<1>1. s.equivalence \in [I -> I] /\ s.counter \in [I -> Nat] /\ i \in 1..k
  BY DEF Arrangements
<1>2. \A l \in 1..k : l < k => l \in I /\ l + 1 \in 1..k /\ 1 \in 1..k /\ 0 \in I
  OBVIOUS
<1>3. i \in I /\ i + 1 \in 1..k /\ 1 \in 1..k /\ 0 \in I
  BY <1>1, <1>2
<1>4. \A l \in I : l \in Int
  OBVIOUS
<1>5. \A l \in I : \A c \in Nat : c < l => c \in I
  OBVIOUS
<1>6. Arrangements(k) = [equivalence : [I -> I], counter : [I -> Nat], index : 1..k]
  BY DEF Arrangements
<1> HIDE DEF I
<1>7. s.counter[i] \in Nat
  BY <1>1, <1>3
<1>8. ASSUME s.counter[i] >= i PROVE Carried(s) \in Arrangements(k)
  <2>1. [s.counter EXCEPT ![i] = 0] \in [I -> Nat]
    BY <1>1
  <2>2. Carried(s) = [equivalence |-> s.equivalence, counter |-> [s.counter EXCEPT ![i] = 0],
                      index |-> i + 1]
    BY DEF Carried
  <2> HIDE DEF i
  <2> QED
    BY <1>1, <1>3, <1>6, <2>1, <2>2
<1>9. ASSUME ~(s.counter[i] >= i) PROVE Exchanged(s) \in Arrangements(k)
  <2>1. j \in I
    <3>1. \A c \in Nat : ~(c >= i) => c \in I
      BY <1>3, <1>4, <1>5
    <3> QED
      BY <1>3, <1>7, <1>9, <3>1
  <2>4. Exchanged(s) = [equivalence |-> [s.equivalence EXCEPT ![i] = s.equivalence[j],
                                                              ![j] = s.equivalence[i]],
                        counter |-> [s.counter EXCEPT ![i] = @ + 1], index |-> 1]
    BY DEF Exchanged
  <2> HIDE DEF i, j
  <2>2. [s.equivalence EXCEPT ![i] = s.equivalence[j], ![j] = s.equivalence[i]] \in [I -> I]
    BY <1>1, <1>3, <2>1
  <2>3. [s.counter EXCEPT ![i] = @ + 1] \in [I -> Nat]
    BY <1>1, <1>3, <1>7
  <2> QED
    BY <1>3, <1>6, <2>2, <2>3, <2>4
<1> QED
  BY <1>8, <1>9

\* Both climb.
LEMMA HeapClimbs ==
  ASSUME NEW k \in Nat \ {0}, NEW s \in Counting(k), s.index < k,
         NEW t, \/ t = Carried(s) /\ s.counter[s.index] >= s.index
                \/ t = Exchanged(s) /\ ~(s.counter[s.index] >= s.index)
  PROVE  t \in Counting(k) /\ <<CountOf(k, s), CountOf(k, t)>> \in Order(k, k)
<1> DEFINE I == 0..(k - 1)
           i == s.index
           c == s.counter
           d == t.counter
<1>1. s \in Arrangements(k) /\ t \in Arrangements(k)
  BY HeapSteps DEF Counting
<1>2. c \in [I -> Nat] /\ i \in 1..k /\ d \in [I -> Nat] /\ t.index \in 1..k
  BY <1>1 DEF Arrangements
<1>3. \A l \in I : c[l] <= l /\ l \in Int
  BY DEF Counting
<1>4. i \in I /\ i \in Nat
  BY <1>2
<1>5. \/ c[i] >= i /\ d = [c EXCEPT ![i] = 0] /\ t.index = i + 1
      \/ ~(c[i] >= i) /\ d = [c EXCEPT ![i] = @ + 1] /\ t.index = 1
  BY DEF Carried, Exchanged
<1>6. \A x \in I : x \in 0..(k - 1) /\ x + 1 \in 0..k /\ x \in 0..k
  OBVIOUS
<1>7. Arrangements(k) = [equivalence : [I -> I], counter : [I -> Nat], index : 1..k]
  BY DEF Arrangements
<1>8. \A l \in I : CountOf(k, s)[l] = (IF l >= i THEN c[l] ELSE l + 1)
  BY DEF CountOf
<1>9. \A l \in I : CountOf(k, t)[l] = (IF l >= t.index THEN d[l] ELSE l + 1)
  BY DEF CountOf
<1>10. DOMAIN CountOf(k, s) = I /\ DOMAIN CountOf(k, t) = I
       /\ CountOf(k, s) = [l \in I |-> CountOf(k, s)[l]]
       /\ CountOf(k, t) = [l \in I |-> CountOf(k, t)[l]]
  BY DEF CountOf
<1> DEFINE x == CountOf(k, s)
           y == CountOf(k, t)
           u == t.index
<1> HIDE DEF I, i, c, d, x, y, u
<1>11. \A l \in I : l # i => d[l] = c[l]
  BY <1>2, <1>4, <1>5
<1>12. \/ c[i] >= i /\ d[i] = 0 /\ u = i + 1
       \/ ~(c[i] >= i) /\ d[i] = c[i] + 1 /\ u = 1
  BY <1>2, <1>4, <1>5 DEF u
<1>13. \A l \in I : c[l] \in Nat /\ d[l] \in Nat
  BY <1>2
<1>14. \A l \in I : d[l] <= l
  <2> TAKE l \in I
  <2>1. l \in Int /\ c[l] \in Nat /\ c[l] <= l /\ c[i] \in Nat /\ c[i] <= i /\ l >= 0
    BY <1>3, <1>4, <1>6, <1>13
  <2>2. CASE l = i
    BY <1>4, <1>12, <2>1, <2>2
  <2>3. CASE l # i
    BY <1>11, <2>1, <2>3
  <2> QED
    BY <2>2, <2>3
<1>15. x \in Digits(k, k) /\ y \in Digits(k, k)
  <2>1. \A l \in I : \A n \in Nat : n <= l => n \in 0..k
    BY <1>6
  <2>2. \A l \in I : c[l] \in 0..k /\ d[l] \in 0..k /\ l + 1 \in 0..k
    BY <1>3, <1>6, <1>13, <1>14, <2>1
  <2>3. \A l \in I : x[l] \in 0..k /\ y[l] \in 0..k
    BY <1>8, <1>9, <2>2 DEF x, y, u
  <2>4. x \in [I -> 0..k] /\ y \in [I -> 0..k]
    BY <1>10, <2>3 DEF x, y
  <2> QED
    BY <2>4 DEF Digits, I
<1>16. x[i] < y[i]
  <2>1. x[i] = c[i] /\ y[i] = (IF i >= u THEN d[i] ELSE i + 1)
    BY <1>4, <1>8, <1>9 DEF x, y, u
  <2>2. c[i] \in Nat /\ c[i] <= i /\ d[i] \in Nat
    BY <1>3, <1>4, <1>13
  <2>3. i >= 1
    BY <1>2
  <2> QED
    BY <1>4, <1>12, <2>1, <2>2, <2>3
<1>17. ASSUME NEW l \in I, l > i PROVE x[l] = y[l]
  <2>1. l \in Int
    BY <1>3
  <2>2. l >= i /\ l >= u
    BY <1>2, <1>4, <1>12, <1>17, <2>1
  <2>3. x[l] = c[l] /\ y[l] = d[l]
    BY <1>8, <1>9, <2>2 DEF x, y, u
  <2>4. l # i
    BY <1>4, <1>17, <2>1
  <2> QED
    BY <1>11, <2>3, <2>4
<1>18. Below(k, x, y)
  BY <1>4, <1>16, <1>17 DEF Below, I
<1>19. <<x, y>> \in Order(k, k)
  BY <1>15, <1>18 DEF Order
<1>20. t \in Counting(k)
  BY <1>1, <1>14 DEF Counting, I, d
<1> QED
  BY <1>19, <1>20 DEF x, y

\* graph_isomorphism comes to an end; a placement it finds has been verified.
LEMMA PermutationSound ==
  ASSUME Size \in Nat \ {0}, NEW m, m.n \in Nat \ {0}, NEW combination \in [Apps(m) -> Nat]
  PROVE  graph_isomorphism(m, combination) \in Placed(m) \cup {NotFound}
<1> DEFINE k == m.n
           S == Arrangements(k)
           Full(s) == s.counter[s.index] >= s.index
           Fits(s) == Verifies(m, combination, Exchanged(s))
           Yield(s) == Found(Hosting(m, combination, Exchanged(s)))
           Done == {s \in S : s.index >= k \/ (~Full(s) /\ Fits(s))}
           g == [s \in S |-> IF s \in Done THEN s
                             ELSE IF Full(s) THEN Carried(s) ELSE Exchanged(s)]
           out == [s \in S |-> IF s.index >= k THEN NotFound ELSE Yield(s)]
           Is(f) == f = [s \in Arrangements(m.n) |->
                           IF s.index >= m.n THEN NotFound
                           ELSE IF s.counter[s.index] >= s.index THEN f[Carried(s)]
                           ELSE IF Verifies(m, combination, Exchanged(s))
                                THEN Found(Hosting(m, combination, Exchanged(s)))
                           ELSE f[Exchanged(s)]]
           Permute == CHOOSE f : Is(f)
           first == FirstOf(k)
           P == Placed(m) \cup {NotFound}
           I == Counting(k)
           D == Digits(k, k)
           R == Order(k, k)
           mu == [s \in I |-> CountOf(k, s)]
<1>1. graph_isomorphism(m, combination) =
        IF Verifies(m, combination, first) THEN Found(Hosting(m, combination, first))
        ELSE Permute[first]
  BY DEF graph_isomorphism
<1>2. k \in Nat \ {0}
  OBVIOUS
<1>3. \A s \in S : s.index \in 1..k
  BY DEF Arrangements
<1>4. \A s \in S : ~(s.index >= k) => s.index < k
  BY <1>2, <1>3
<1>5. \A s \in S : ~(s.index >= k) => /\ Full(s) => Carried(s) \in S
                                      /\ ~Full(s) => Exchanged(s) \in S
  BY <1>2, <1>4, HeapSteps
<1>6. g \in [S -> S]
  <2>1. ASSUME NEW s \in S PROVE g[s] \in S
    <3> HIDE DEF S, Full, Fits, k
    <3> QED
      BY <1>5
  <2>2. g = [s \in S |-> g[s]]
    OBVIOUS
  <2> HIDE DEF S, g
  <2> QED
    BY <2>1, <2>2
<1>7. \A f : Is(f) <=> IsLoop(f, S, Done, g, out)
  <2> TAKE f
  <2> DEFINE Body(s) == IF s.index >= k THEN NotFound
                        ELSE IF Full(s) THEN f[Carried(s)]
                        ELSE IF Fits(s) THEN Yield(s) ELSE f[Exchanged(s)]
  <2>1. ASSUME NEW s \in S PROVE Body(s) = (IF s \in Done THEN out[s] ELSE f[g[s]])
    <3> HIDE DEF S, Full, Fits, k, Yield
    <3> QED
      OBVIOUS
  <2>2. Is(f) <=> f = [s \in S |-> Body(s)]
    OBVIOUS
  <2> HIDE DEF S, Done, g, out, Body, Is
  <2>3. [s \in S |-> Body(s)] = [s \in S |-> IF s \in Done THEN out[s] ELSE f[g[s]]]
    BY <2>1
  <2> QED
    BY <2>2, <2>3 DEF IsLoop
<1> HIDE DEF Is
<1>8. IsLoop(Permute, S, Done, g, out)
  <2>1. \E f : IsLoop(f, S, Done, g, out)
    <3> HIDE DEF S, Done, g, out
    <3> QED
      BY <1>6, LoopExists
  <2>2. \E f : Is(f)
    BY <1>7, <2>1
  <2> QED
    BY <1>7, <2>2
<1> HIDE DEF Permute
<1>9. ASSUME NEW s \in I \ Done
      PROVE  g[s] \in I /\ mu[s] \in D /\ <<mu[s], mu[g[s]]>> \in R
  <2>1. s \in I /\ s \in S /\ s \notin Done
    BY <1>9 DEF Counting
  <2>2. ~(s.index >= k) /\ s.index < k /\ (Full(s) \/ ~Fits(s))
    BY <1>4, <2>1
  <2>3. \/ g[s] = Carried(s) /\ Full(s)
        \/ g[s] = Exchanged(s) /\ ~Full(s)
    BY <2>1
  <2> HIDE DEF g
  <2>4. g[s] \in I /\ <<CountOf(k, s), CountOf(k, g[s])>> \in R
    BY <1>2, <2>1, <2>2, <2>3, HeapClimbs
  <2> HIDE DEF I
  <2>5. mu[s] = CountOf(k, s) /\ mu[g[s]] = CountOf(k, g[s])
    BY <2>1, <2>4
  <2>6. CountOf(k, s) \in D
    BY <2>4 DEF Order
  <2> QED
    BY <2>4, <2>5, <2>6
<1>10. ASSUME NEW s \in I PROVE mu[s] \in D
  <2>1. \A j \in 0..(k - 1) : s.counter[j] \in Nat /\ s.counter[j] <= j
    BY DEF Counting, Arrangements
  <2>2. \A j \in 0..(k - 1) : s.counter[j] \in 0..k /\ j + 1 \in 0..k
    BY <1>2, <2>1
  <2> HIDE DEF k
  <2> QED
    BY <2>2 DEF CountOf, Digits
<1>11. \A s \in I \cap Done : out[s] \in P
  <2> TAKE s \in I \cap Done
  <2>1. s \in S /\ s \in Done
    OBVIOUS
  <2>2. CASE s.index >= k
    BY <2>1, <2>2
  <2>3. CASE ~(s.index >= k)
    <3>1. ~Full(s) /\ Fits(s) /\ Exchanged(s) \in S
      BY <1>5, <2>1, <2>3
    <3>2. Yield(s) \in Placed(m)
      BY <3>1, HostingIs
    <3>3. out[s] = Yield(s)
      BY <2>1, <2>3
    <3> QED
      BY <3>2, <3>3
  <2> QED
    BY <2>2, <2>3
<1>12. \A s \in I : Permute[s] \in P
  <2>1. I \in SUBSET S
    BY DEF Counting
  <2>2. IsFiniteSet(D) /\ StrictOrder(R, D)
    BY <1>2, DigitsOrdered
  <2>3. mu \in [I -> D]
    <3> HIDE DEF I, D
    <3> QED
      BY <1>10
  <2> HIDE DEF I, S, Done, g, out, mu, P, D, R
  <2>4. (\A s \in I \ Done : g[s] \in I) /\ (\A s \in I \ Done : <<mu[s], mu[g[s]]>> \in R)
    BY <1>9
  <2>5. Climbs(S, Done, g, I, D, R, mu)
    BY <2>1, <2>2, <2>3, <2>4 DEF Climbs
  <2> QED
    BY <1>8, <1>11, <2>5, LoopResult
<1>13. first \in I
  <2>1. first \in S
    BY <1>2 DEF FirstOf, Arrangements
  <2>2. \A j \in 0..(k - 1) : first.counter[j] <= j
    BY DEF FirstOf
  <2> QED
    BY <2>1, <2>2 DEF Counting
<1>14. Verifies(m, combination, first) => Found(Hosting(m, combination, first)) \in Placed(m)
  <2>1. first \in S
    BY <1>13 DEF Counting
  <2> HIDE DEF first
  <2> QED
    BY <2>1, HostingIs
<1> QED
  <2> HIDE DEF I, first, Permute
  <2> QED
    BY <1>1, <1>12, <1>13, <1>14

-----------------------------------------------------------------------------
\* Combinations ascend; their first entry counts most.
Reversed(k, combination) == [j \in 0..(k - 1) |-> combination[k - 1 - j]]

\* The index of next_comb does not underflow.
Safe(k, n, combination) == k <= n => combination[0] <= n - k

\* Entries of a combination stay in bounds, and the next combination is higher.
LEMMA CombinationClimbs ==
  ASSUME NEW k \in Nat \ {0}, NEW n \in Nat, NEW previous \in [0..(k - 1) -> Nat],
         NEW comb, comb = next_comb(previous, k, n), comb.kind = "found"
  PROVE  /\ comb.at \in [0..(k - 1) -> Nat]
         /\ Safe(k, n, previous) => Safe(k, n, comb.at)
         /\ previous \in Digits(k, n + k) =>
              /\ comb.at \in Digits(k, n + k)
              /\ <<Reversed(k, previous), Reversed(k, comb.at)>> \in Order(k, n + k)
<1> DEFINE I == 0..(k - 1)
           open == {i \in I : previous[i] + 1 <= n - k + 1 + i}
           i == Max(open)
           c == [v \in I |-> IF v < i THEN previous[v] ELSE previous[i] + 1 + v - i]
<1>1. comb = IF open = {} THEN Panic
             ELSE IF i = 0 /\ previous[0] + 1 > n - k THEN NotFound ELSE Found(c)
  BY DEF next_comb
<1>2. open # {} /\ comb.at = c /\ ~(i = 0 /\ previous[0] + 1 > n - k)
  <2> HIDE DEF open, i, c
  <2> QED
    BY <1>1 DEF Panic, NotFound, Found
<1>3. i \in open
  <2>1. k - 1 \in Nat /\ open \in SUBSET (0..(k - 1))
    OBVIOUS
  <2> HIDE DEF open
  <2> QED
    BY <1>2, <2>1, MaxOfNumbers
<1> HIDE DEF i
<1>4. i \in I /\ previous[i] \in Nat /\ previous[i] + 1 <= n - k + 1 + i
  BY <1>3
<1> HIDE DEF open
<1>5. \A v \in I : v \in Nat /\ v < k /\ previous[v] \in Nat
  OBVIOUS
<1>6. \A v \in I : c[v] = IF v < i THEN previous[v] ELSE previous[i] + 1 + v - i
  OBVIOUS
<1>7. \A v \in I : v >= i => previous[i] + 1 + v - i \in 0..(n + k)
  BY <1>4, <1>5
<1>8. c \in [I -> Nat]
  <2>1. \A v \in I : c[v] \in Nat
    BY <1>4, <1>5, <1>6, <1>7
  <2> HIDE DEF I
  <2> QED
    BY <2>1
<1>9. ASSUME previous \in Digits(k, n + k)
      PROVE  /\ c \in Digits(k, n + k)
             /\ <<Reversed(k, previous), Reversed(k, c)>> \in Order(k, n + k)
  <2> DEFINE B == 0..(n + k)
             x == Reversed(k, previous)
             y == Reversed(k, c)
             j == k - 1 - i
  <2>1. \A v \in I : previous[v] \in B
    BY <1>9 DEF Digits
  <2>2. c \in [I -> B]
    <3>1. \A v \in I : v < i \/ v >= i
      BY <1>4, <1>5
    <3> HIDE DEF I, B
    <3>2. \A v \in I : v >= i => c[v] \in B
      <4> HIDE DEF c
      <4>1. \A v \in I : v >= i => ~(v < i)
        BY <1>4, <1>5 DEF I
      <4> QED
        BY <1>6, <1>7, <4>1 DEF B
    <3>3. \A v \in I : c[v] \in B
      BY <1>6, <2>1, <3>1, <3>2
    <3> QED
      BY <3>3
  <2>3. \A l \in I : k - 1 - l \in I
    OBVIOUS
  <2>4. /\ \A l \in I : x[l] = previous[k - 1 - l] /\ y[l] = c[k - 1 - l]
        /\ x \in [I -> B] /\ y \in [I -> B]
    <3> HIDE DEF B, c
    <3> QED
      BY <2>1, <2>2, <2>3 DEF Reversed
  <2> HIDE DEF x, y, c
  <2>5. j \in I /\ k - 1 - j = i
    BY <1>4
  <2>6. x[j] < y[j]
    <3>1. x[j] = previous[i] /\ y[j] = c[i]
      BY <2>4, <2>5
    <3>2. c[i] = previous[i] + 1
      BY <1>4, <1>5, <1>6
    <3> QED
      BY <1>4, <3>1, <3>2
  <2>7. ASSUME NEW l \in I, l > j PROVE x[l] = y[l]
    <3>1. k - 1 - l \in I /\ k - 1 - l < i
      BY <1>4, <2>7
    <3>2. c[k - 1 - l] = previous[k - 1 - l]
      BY <1>6, <3>1
    <3> QED
      BY <2>4, <3>2
  <2> HIDE DEF j
  <2>8. Below(k, x, y)
    BY <2>5, <2>6, <2>7 DEF Below
  <2> QED
    BY <2>2, <2>4, <2>8 DEF Order, Digits, x, y
<1>10. Safe(k, n, previous) => Safe(k, n, c)
  <2>1. 0 \in I /\ previous[0] \in Nat
    OBVIOUS
  <2>2. c[0] = IF 0 < i THEN previous[0] ELSE previous[i] + 1 + 0 - i
    BY <1>6, <2>1
  <2>3. 0 < i \/ (i = 0 /\ previous[0] + 1 <= n - k)
    BY <1>2, <1>4, <2>1
  <2>4. 0 < i => c[0] = previous[0]
    BY <2>2
  <2>5. i = 0 => c[0] = previous[0] + 1
    BY <2>1, <2>2
  <2> HIDE DEF c
  <2> QED
    BY <2>3, <2>4, <2>5 DEF Safe
<1> QED
  BY <1>2, <1>8, <1>9, <1>10

\* The index underflows only when there are more entries than their greatest value.
LEMMA SafeNoPanic ==
  ASSUME NEW k \in Nat \ {0}, NEW n \in Nat, NEW previous \in [0..(k - 1) -> Nat],
         k <= n, Safe(k, n, previous)
  PROVE  next_comb(previous, k, n).kind # "panic"
<1> DEFINE open == {i \in 0..(k - 1) : previous[i] + 1 <= n - k + 1 + i}
<1>1. 0 \in open
  BY DEF Safe
<1>2. open # {}
  BY <1>1
<1> HIDE DEF open
<1>3. next_comb(previous, k, n) # Panic /\ \E c : next_comb(previous, k, n) \in {NotFound, Found(c)}
  BY <1>2 DEF next_comb, open, Panic, NotFound, Found
<1> QED
  BY <1>3 DEF NotFound, Found

\* The hosts of a combination are a test.
LEMMA HostsOfType ==
  ASSUME NEW k \in Nat, NEW combination, DOMAIN combination = 0..(k - 1)
  PROVE  HostsOf(combination) \in [0..(Size - 1) -> Nat]
<1>1. IsFiniteSet(0..(k - 1))
  BY FS_Interval
<1>2. ASSUME NEW host
      PROVE  Cardinality({i \in DOMAIN combination : combination[i] % Size = host}) \in Nat
  <2> DEFINE C == {i \in DOMAIN combination : combination[i] % Size = host}
  <2>1. C \in SUBSET (0..(k - 1))
    OBVIOUS
  <2> HIDE DEF C
  <2>2. Cardinality(C) \in Nat
    BY <1>1, <2>1, FS_Subset, FS_CardinalityType
  <2> QED
    BY <2>2 DEF C
<1> QED
  BY <1>2 DEF HostsOf

\* What TryCombinations may answer.
Unplaced == [kind : {"none"}, tested_comb : Tests]
Underflow(m, clones) == {x \in {Panic} : m.n > Size - 1 + Size * clones}

\* The loop over the combinations comes to an end; a placement it finds has
\* been verified.
LEMMA TryCombinationsSound ==
  ASSUME Size \in Nat \ {0}, NEW m, m.n \in Nat \ {0}, NEW clones \in Nat, NEW already \in Tests
  PROVE  TryCombinations(m, clones, already) \in Placed(m) \cup Underflow(m, clones) \cup Unplaced
<1> DEFINE k == m.n
           n == Size - 1 + Size * clones
           Comb(s) == next_comb(s.combination, k, n)
           Found1(s) == Result(m, s).kind = "found"
           Next1(s) == [combination |-> Comb(s).at, tested_comb |-> Tested(s)]
           Last1(s) == IF Comb(s).kind = "panic" THEN Panic
                       ELSE [kind |-> "none", tested_comb |-> Tested(s)]
           S == [combination : [Apps(m) -> Nat], tested_comb : Tests]
           Done == {s \in S : Found1(s) \/ Comb(s).kind # "found"}
           g == [s \in S |-> IF s \in Done THEN s ELSE Next1(s)]
           out == [s \in S |-> IF Found1(s) THEN Result(m, s) ELSE Last1(s)]
           Is(f) == f = [s \in [combination : [Apps(m) -> Nat], tested_comb : Tests] |->
                           LET result == Result(m, s)
                               comb == next_comb(s.combination, m.n, Size - 1 + Size * clones)
                           IN  IF result.kind = "found" THEN result
                               ELSE IF comb.kind = "found"
                                    THEN f[[combination |-> comb.at, tested_comb |-> Tested(s)]]
                               ELSE IF comb.kind = "panic" THEN Panic
                               ELSE [kind |-> "none", tested_comb |-> Tested(s)]]
           Loop == CHOOSE f : Is(f)
           first == [combination |-> [i \in Apps(m) |-> i], tested_comb |-> already]
           P == Placed(m) \cup Underflow(m, clones) \cup Unplaced
           b == n + k
           I == {s \in S : s.combination \in Digits(k, b) /\ Safe(k, n, s.combination)}
           D == Digits(k, b)
           R == Order(k, b)
           mu == [s \in I |-> Reversed(k, s.combination)]
<1>1. TryCombinations(m, clones, already) = Loop[first]
  BY DEF TryCombinations
<1>2. k \in Nat \ {0} /\ n \in Nat /\ b \in Nat /\ Apps(m) = 0..(k - 1)
  <2> DEFINE z == Size
  <2>1. z \in Nat \ {0}
    OBVIOUS
  <2> HIDE DEF z
  <2>2. z - 1 + z * clones \in Nat
    <3>1. z * clones \in Nat /\ z - 1 \in Nat
      BY <2>1
    <3> HIDE DEF z
    <3> QED
      BY <3>1
  <2>3. n \in Nat
    BY <2>2 DEF z
  <2> HIDE DEF n
  <2> QED
    BY <2>3 DEF Apps
<1>0. Underflow(m, clones) = {x \in {Panic} : k > n}
  BY DEF Underflow
<1> HIDE DEF n
<1>3. \A s \in S : Tested(s) \in Tests
  <2> TAKE s \in S
  <2>1. s.combination \in [0..(k - 1) -> Nat] /\ s.tested_comb \in Tests
    BY <1>2
  <2>2. HostsOf(s.combination) \in [0..(Size - 1) -> Nat]
    BY <1>2, <2>1, HostsOfType
  <2> QED
    BY <2>1, <2>2 DEF Tested, Tests
<1>4. \A s \in S : Result(m, s) \in Placed(m) \cup {NotFound}
  <2> TAKE s \in S
  <2>1. graph_isomorphism(m, s.combination) \in Placed(m) \cup {NotFound}
    BY PermutationSound
  <2> QED
    BY <2>1 DEF Result
<1>5. \A s \in S : Comb(s).kind = "found" => Next1(s) \in S
  <2> TAKE s \in S
  <2> HAVE Comb(s).kind = "found"
  <2>1. s.combination \in [0..(k - 1) -> Nat]
    BY <1>2
  <2> DEFINE c == Comb(s)
  <2>2. c = next_comb(s.combination, k, n) /\ c.kind = "found"
    OBVIOUS
  <2> HIDE DEF c
  <2>3. c.at \in [0..(k - 1) -> Nat]
    BY <1>2, <2>1, <2>2, CombinationClimbs
  <2> QED
    BY <1>2, <1>3, <2>3 DEF c
<1>6. g \in [S -> S]
  <2>1. ASSUME NEW s \in S PROVE g[s] \in S
    <3> HIDE DEF S, Comb, Found1, Next1
    <3> QED
      BY <1>5
  <2>2. g = [s \in S |-> g[s]]
    OBVIOUS
  <2> HIDE DEF S, g
  <2> QED
    BY <2>1, <2>2
<1>7. \A f : Is(f) <=> IsLoop(f, S, Done, g, out)
  <2> TAKE f
  <2> DEFINE Body(s) == IF Found1(s) THEN Result(m, s)
                        ELSE IF Comb(s).kind = "found" THEN f[Next1(s)] ELSE Last1(s)
  <2>1. ASSUME NEW s \in S PROVE Body(s) = (IF s \in Done THEN out[s] ELSE f[g[s]])
    <3> HIDE DEF S, Found1, Comb, Next1, Last1
    <3> QED
      OBVIOUS
  <2>2. Is(f) <=> f = [s \in S |-> Body(s)]
    BY DEF n
  <2> HIDE DEF S, Done, g, out, Body, Is
  <2>3. [s \in S |-> Body(s)] = [s \in S |-> IF s \in Done THEN out[s] ELSE f[g[s]]]
    BY <2>1
  <2> QED
    BY <2>2, <2>3 DEF IsLoop
<1> HIDE DEF Is
<1>8. IsLoop(Loop, S, Done, g, out)
  <2>1. \E f : IsLoop(f, S, Done, g, out)
    <3> HIDE DEF S, Done, g, out
    <3> QED
      BY <1>6, LoopExists
  <2>2. \E f : Is(f)
    BY <1>7, <2>1
  <2> QED
    BY <1>7, <2>2
<1> HIDE DEF Loop, b
<1>9. ASSUME NEW s \in I \ Done
      PROVE  g[s] \in I /\ <<mu[s], mu[g[s]]>> \in R
  <2> DEFINE c == Comb(s)
  <2>1. s \in S /\ s \in I /\ s \notin Done /\ c.kind = "found" /\ g[s] = Next1(s)
    OBVIOUS
  <2>2. /\ s.combination \in [0..(k - 1) -> Nat] /\ s.combination \in Digits(k, b)
        /\ Safe(k, n, s.combination)
    BY <1>2
  <2>3. c = next_comb(s.combination, k, n)
    OBVIOUS
  <2>4. Next1(s) \in S /\ Next1(s).combination = c.at
    <3> HIDE DEF S, Comb, c
    <3>1. Next1(s) \in S
      BY <1>5, <2>1 DEF c
    <3> QED
      BY <3>1 DEF c
  <2> HIDE DEF c, Comb, Next1, S, g
  <2>5. c.at \in Digits(k, b) /\ Safe(k, n, c.at) /\ <<Reversed(k, s.combination), Reversed(k, c.at)>> \in R
    BY <1>2, <2>1, <2>2, <2>3, CombinationClimbs DEF b
  <2>6. g[s] \in I
    BY <2>1, <2>4, <2>5
  <2>7. mu[s] = Reversed(k, s.combination) /\ mu[g[s]] = Reversed(k, c.at)
    <3> HIDE DEF I
    <3> QED
      BY <2>1, <2>4, <2>6
  <2> QED
    BY <2>5, <2>6, <2>7
<1>10. mu \in [I -> D]
  <2>1. ASSUME NEW s \in I PROVE Reversed(k, s.combination) \in D
    <3>1. s.combination \in [0..(k - 1) -> 0..b]
      BY DEF Digits
    <3>2. \A j \in 0..(k - 1) : k - 1 - j \in 0..(k - 1)
      BY <1>2
    <3> HIDE DEF k
    <3>3. \A j \in 0..(k - 1) : s.combination[k - 1 - j] \in 0..b
      BY <3>1, <3>2
    <3> QED
      BY <3>3 DEF Reversed, Digits
  <2> HIDE DEF I, D
  <2> QED
    BY <2>1
<1>11. \A s \in I \cap Done : out[s] \in P
  <2> TAKE s \in I \cap Done
  <2>1. s \in S
    OBVIOUS
  <2>2. CASE Found1(s)
    <3>1. out[s] = Result(m, s)
      BY <2>1, <2>2
    <3>2. Result(m, s) \in Placed(m) \cup {NotFound} /\ Result(m, s).kind = "found"
      BY <1>4, <2>1, <2>2
    <3>3. NotFound.kind = "none"
      BY DEF NotFound
    <3> HIDE DEF out
    <3> QED
      BY <3>1, <3>2, <3>3
  <2>3. CASE ~Found1(s)
    <3>1. out[s] = Last1(s)
      BY <2>1, <2>3
    <3>2. [kind |-> "none", tested_comb |-> Tested(s)] \in Unplaced
      BY <1>3, <2>1 DEF Unplaced
    <3>3. Comb(s).kind = "panic" => k > n
      <4>1. s.combination \in [0..(k - 1) -> Nat] /\ Safe(k, n, s.combination)
        BY <1>2
      <4>2. k <= n => Comb(s).kind # "panic"
        BY <1>2, <4>1, SafeNoPanic
      <4> HIDE DEF Comb
      <4> QED
        BY <1>2, <4>2
    <3> HIDE DEF out, Comb
    <3> QED
      BY <1>0, <3>1, <3>2, <3>3
  <2> QED
    BY <2>2, <2>3
<1>12. \A s \in I : Loop[s] \in P
  <2>1. I \in SUBSET S
    OBVIOUS
  <2>2. IsFiniteSet(D) /\ StrictOrder(R, D)
    BY <1>2, DigitsOrdered
  <2> HIDE DEF I, S, Done, g, out, mu, P, D, R
  <2>3. (\A s \in I \ Done : g[s] \in I) /\ (\A s \in I \ Done : <<mu[s], mu[g[s]]>> \in R)
    BY <1>9
  <2>4. Climbs(S, Done, g, I, D, R, mu)
    BY <1>10, <2>1, <2>2, <2>3 DEF Climbs
  <2> QED
    BY <1>8, <1>11, <2>4, LoopResult
<1>13. first \in I
  <2>1. \A i \in 0..(k - 1) : i \in 0..b /\ i \in Nat
    BY <1>2 DEF b
  <2>2. [i \in 0..(k - 1) |-> i] \in Digits(k, b) /\ [i \in 0..(k - 1) |-> i] \in [0..(k - 1) -> Nat]
    BY <2>1 DEF Digits
  <2>3. Safe(k, n, [i \in 0..(k - 1) |-> i])
    BY <1>2 DEF Safe
  <2> QED
    BY <1>2, <2>2, <2>3
<1> QED
  <2> HIDE DEF I, first
  <2> QED
    BY <1>1, <1>12, <1>13

-----------------------------------------------------------------------------
\* The answers of the search.  It panics only when there are as many applications
\* as hosts, a single host or none.
Answers(m) == Placed(m) \cup {NotFound} \cup {x \in {Panic} : m.n = Size \/ Size \in {0, 1}}

\* The first combination underflows only then.
LEMMA UnderflowIs ==
  ASSUME NEW z \in Nat \ {0}, NEW k \in Nat \ {0}, NEW clones \in Nat, clones >= k - z,
         k > z - 1 + z * clones
  PROVE  k = z \/ z = 1
<1>1. CASE clones = 0
  <2>1. z * clones = 0
    BY <1>1
  <2> QED
    BY <1>1, <2>1
<1>2. CASE clones > 0 /\ z >= 2
  <2>1. z * clones >= 2 * clones
    BY <1>2
  <2>2. z * clones \in Nat
    OBVIOUS
  <2> DEFINE w == z * clones
  <2> HIDE DEF w
  <2>3. k > z - 1 + w /\ w \in Nat /\ w >= 2 * clones /\ clones >= 1
    BY <1>2, <2>1, <2>2 DEF w
  <2> QED
    BY <2>3
<1> QED
  BY <1>1, <1>2

\* Fewer rounds are left each time.
LEMMA FewerLeft ==
  ASSUME NEW N \in Nat
  PROVE  IsFiniteSet(0..N) /\ StrictOrder({p \in (0..N) \X (0..N) : p[2] < p[1]}, 0..N)
<1>1. IsFiniteSet(0..N)
  BY FS_Interval
<1>2. 0..N \subseteq Int
  OBVIOUS
<1> DEFINE D == 0..N
<1>3. IsFiniteSet(D) /\ D \subseteq Int
  BY <1>1, <1>2
<1> HIDE DEF D
<1>4. StrictOrder({p \in D \X D : p[2] < p[1]}, D)
  BY <1>3 DEF StrictOrder
<1> QED
  BY <1>3, <1>4 DEF D

\* find_iso_internal comes to an end; a placement it finds has been verified.
LEMMA RoundsSound ==
  ASSUME Size \in Nat \ {0}, NEW m, m.n \in Nat \ {0},
         NEW first_clones \in Nat, first_clones >= m.n - Size
  PROVE  find_iso_internal(m, first_clones) \in Answers(m)
<1> DEFINE Try(s) == TryCombinations(m, s.clones, s.tested_comb)
           Next1(s) == [clones |-> s.clones + 1, tested_comb |-> Try(s).tested_comb,
                        max_depth |-> s.max_depth - 1]
           S == [clones : Nat, tested_comb : Tests, max_depth : 0..MaxDepth]
           Done == {s \in S : s.max_depth = 0 \/ Try(s).kind # "none"}
           g == [s \in S |-> IF s \in Done THEN s ELSE Next1(s)]
           out == [s \in S |-> IF s.max_depth = 0 THEN NotFound ELSE Try(s)]
           Is(f) == f = [s \in [clones : Nat, tested_comb : Tests, max_depth : 0..MaxDepth] |->
                           LET result == TryCombinations(m, s.clones, s.tested_comb)
                           IN  IF s.max_depth = 0 THEN NotFound
                               ELSE IF result.kind # "none" THEN result
                               ELSE f[[clones |-> s.clones + 1,
                                       tested_comb |-> result.tested_comb,
                                       max_depth |-> s.max_depth - 1]]]
           Deepen == CHOOSE f : Is(f)
           first == [clones |-> first_clones, tested_comb |-> {}, max_depth |-> MaxDepth]
           P == Answers(m)
           D == 0..MaxDepth
           R == {p \in D \X D : p[2] < p[1]}
           I == {s \in S : s.clones >= first_clones}
           mu == [s \in I |-> s.max_depth]
<1>1. find_iso_internal(m, first_clones) = Deepen[first]
  <2>1. Size # 0
    OBVIOUS
  <2> QED
    BY <2>1 DEF find_iso_internal
<1>2. \A s \in S : Try(s) \in Placed(m) \cup Underflow(m, s.clones) \cup Unplaced
  BY TryCombinationsSound
<1>3. \A at : Found(at).kind = "found"
  BY DEF Found
<1>4. \A s \in S : /\ Try(s).kind = "none" => Try(s).tested_comb \in Tests
                   /\ s \in I /\ Try(s).kind # "none" => Try(s) \in Answers(m)
  <2> TAKE s \in S
  <2> DEFINE x == Try(s)
  <2>1. x \in Placed(m) \cup Underflow(m, s.clones) \cup Unplaced
    BY <1>2
  <2>7. s \in I /\ Underflow(m, s.clones) # {} => m.n = Size \/ Size = 1
    <3> DEFINE z == Size
    <3>1. z \in Nat \ {0} /\ first_clones >= m.n - z /\ s.clones \in Nat
      OBVIOUS
    <3>2. Underflow(m, s.clones) # {} => m.n > z - 1 + z * s.clones
      BY DEF Underflow
    <3>3. s \in I => s.clones >= first_clones
      OBVIOUS
    <3> HIDE DEF z, S, I
    <3>4. s \in I => s.clones >= m.n - z
      BY <3>1, <3>3
    <3>5. s \in I /\ Underflow(m, s.clones) # {} => m.n = z \/ z = 1
      BY <3>1, <3>2, <3>4, UnderflowIs
    <3> QED
      BY <3>5 DEF z
  <2>8. Underflow(m, s.clones) \subseteq {Panic}
    BY DEF Underflow
  <2> HIDE DEF x
  <2>2. x \in Unplaced => x.kind = "none" /\ x.tested_comb \in Tests
    BY DEF Unplaced
  <2>3. x \in Placed(m) => x.kind = "found"
    BY <1>3 DEF Placed
  <2>4. Panic.kind = "panic"
    BY DEF Panic
  <2>5. x.kind = "none" => x.tested_comb \in Tests
    BY <2>1, <2>2, <2>3, <2>4, <2>8
  <2>6. s \in I /\ x.kind # "none" => x \in Answers(m)
    <3> HIDE DEF I, S
    <3> QED
      BY <2>1, <2>2, <2>7, <2>8 DEF Answers
  <2> QED
    BY <2>5, <2>6 DEF x
<1>5. \A s \in S : s \notin Done => /\ Next1(s) \in S
                                    /\ Next1(s).max_depth < s.max_depth
  <2> TAKE s \in S
  <2> HAVE s \notin Done
  <2>1. s.clones \in Nat /\ s.max_depth \in 0..MaxDepth /\ s.max_depth # 0 /\ Try(s).kind = "none"
    OBVIOUS
  <2>2. Try(s).tested_comb \in Tests
    BY <1>4, <2>1
  <2>3. s.max_depth - 1 \in 0..MaxDepth /\ s.max_depth - 1 < s.max_depth /\ s.clones + 1 \in Nat
    BY <2>1, Cluster
  <2> HIDE DEF Try
  <2> QED
    BY <2>2, <2>3
<1>6. g \in [S -> S]
  <2>1. ASSUME NEW s \in S PROVE g[s] \in S
    <3> HIDE DEF S, Next1, Done
    <3> QED
      BY <1>5
  <2>2. g = [s \in S |-> g[s]]
    OBVIOUS
  <2> HIDE DEF S, g
  <2> QED
    BY <2>1, <2>2
<1>7. \A f : Is(f) <=> IsLoop(f, S, Done, g, out)
  <2> TAKE f
  <2> DEFINE Body(s) == IF s.max_depth = 0 THEN NotFound
                        ELSE IF Try(s).kind # "none" THEN Try(s) ELSE f[Next1(s)]
  <2>1. ASSUME NEW s \in S PROVE Body(s) = (IF s \in Done THEN out[s] ELSE f[g[s]])
    <3> HIDE DEF S, Try, Next1
    <3> QED
      OBVIOUS
  <2>2. Is(f) <=> f = [s \in S |-> Body(s)]
    OBVIOUS
  <2> HIDE DEF S, Done, g, out, Body, Is
  <2>3. [s \in S |-> Body(s)] = [s \in S |-> IF s \in Done THEN out[s] ELSE f[g[s]]]
    BY <2>1
  <2> QED
    BY <2>2, <2>3 DEF IsLoop
<1> HIDE DEF Is
<1>8. IsLoop(Deepen, S, Done, g, out)
  <2>1. \E f : IsLoop(f, S, Done, g, out)
    <3> HIDE DEF S, Done, g, out
    <3> QED
      BY <1>6, LoopExists
  <2>2. \E f : Is(f)
    BY <1>7, <2>1
  <2> QED
    BY <1>7, <2>2
<1> HIDE DEF Deepen
<1>9. ASSUME NEW s \in I \ Done
      PROVE  g[s] \in I /\ <<mu[s], mu[g[s]]>> \in R
  <2>1. g[s] = Next1(s) /\ Next1(s) \in S /\ Next1(s).max_depth < s.max_depth
    <3>1. s \in S /\ s \notin Done
      BY <1>9
    <3> HIDE DEF S, Done, Next1
    <3> QED
      BY <1>5, <3>1
  <2>2. Next1(s).clones >= first_clones
    BY <1>9
  <2> HIDE DEF g, Next1
  <2>3. g[s] \in I
    BY <2>1, <2>2
  <2>4. s.max_depth \in D /\ g[s].max_depth \in D
    BY <2>1
  <2>5. mu[s] = s.max_depth /\ mu[g[s]] = g[s].max_depth
    <3> HIDE DEF I
    <3> QED
      BY <1>9, <2>3
  <2> QED
    BY <2>1, <2>3, <2>4, <2>5
<1>10. \A s \in I \cap Done : out[s] \in P
  <2> TAKE s \in I \cap Done
  <2>1. CASE s.max_depth = 0
    BY <2>1 DEF Answers
  <2>2. CASE s.max_depth # 0
    <3>1. Try(s) \in Answers(m)
      BY <1>4, <2>2
    <3>2. out[s] = Try(s)
      BY <2>2
    <3> HIDE DEF out
    <3> QED
      BY <3>1, <3>2
  <2> QED
    BY <2>1, <2>2
<1>11. \A s \in I : Deepen[s] \in P
  <2>1. IsFiniteSet(D) /\ StrictOrder(R, D)
    BY Cluster, FewerLeft
  <2>2. mu \in [I -> D] /\ I \in SUBSET S
    OBVIOUS
  <2> HIDE DEF I, S, Done, g, out, mu, P, D, R
  <2>3. (\A s \in I \ Done : g[s] \in I) /\ (\A s \in I \ Done : <<mu[s], mu[g[s]]>> \in R)
    BY <1>9
  <2>4. Climbs(S, Done, g, I, D, R, mu)
    BY <2>1, <2>2, <2>3 DEF Climbs
  <2> QED
    BY <1>8, <1>10, <2>4, LoopResult
<1>12. first \in I
  <2>1. MaxDepth \in 0..MaxDepth /\ {} \in Tests
    BY Cluster DEF Tests
  <2> QED
    BY <2>1
<1> QED
  <2> HIDE DEF I, first
  <2> QED
    BY <1>1, <1>11, <1>12

\* find_isomorphism answers with a placement that verify_permutation accepts,
\* with none, or, in these two cases, panics.
THEOREM SearchAnswers ==
  ASSUME Size \in Nat, NEW m, m.n \in Nat \ {0}
  PROVE  find_isomorphism(m) \in Answers(m)
<1> DEFINE d == m.n - Size
<1>1. d \in Int
  <2> DEFINE z == Size
  <2>1. z \in Int
    OBVIOUS
  <2> HIDE DEF z
  <2>2. m.n - z \in Int
    BY <2>1
  <2> QED
    BY <2>2 DEF z
<1> HIDE DEF d
<1>2. Max({0, d}) \in Nat /\ Max({0, d}) >= d
  <2>1. \E x \in {0, d} : \A y \in {0, d} : x >= y
    BY <1>1
  <2>2. Max({0, d}) \in {0, d} /\ \A y \in {0, d} : Max({0, d}) >= y
    BY <2>1 DEF Max
  <2> QED
    BY <1>1, <2>2
<1>3. CASE Size = 0
  <2>1. find_isomorphism(m) = Panic
    BY <1>3 DEF find_isomorphism, find_iso_internal
  <2> QED
    BY <1>3, <2>1 DEF Answers
<1>4. CASE Size # 0
  <2>1. find_iso_internal(m, Max({0, d})) \in Answers(m)
    BY <1>2, <1>4, RoundsSound DEF d
  <2> QED
    BY <2>1 DEF find_isomorphism, d
<1> QED
  BY <1>3, <1>4

-----------------------------------------------------------------------------
\* The matrix has a row for each host.
LEMMA RowsThere ==
  ASSUME IInv
  PROVE  Size \in Nat
<1> DEFINE n == Len(host_mapping)
<1>1. host_mapping \in Seq(Host) /\ residual_graph \in Matrix(n, U32)
  BY DEF IInv, BooksTyped
<1>2. n \in Nat
  BY <1>1
<1> HIDE DEF n
<1> QED
  BY <1>1, <1>2 DEF Matrix, Size

\* It follows from what the search answers.
LEMMA SearchIsSound ==
  ASSUME IInv
  PROVE  SearchSound
<1> SUFFICES ASSUME NEW m \in GoodRequests, NEW result, result = find_isomorphism(m)
             PROVE  /\ result.kind = "found" => /\ result.at \in [Apps(m) -> 0..(Size - 1)]
                                                /\ verify_permutation(m, result.at)
                    /\ result.kind = "panic" => m.n = Size \/ Size \in {0, 1}
  BY DEF SearchSound, GoodRequests
<1>1. m.n \in Nat \ {0}
  BY RequestIs
<1>2. result \in Answers(m)
  BY <1>1, RowsThere, SearchAnswers
<1>3. CASE result \in Placed(m)
  <2>1. PICK at \in [Apps(m) -> 0..(Size - 1)] : verify_permutation(m, at) /\ result = Found(at)
    BY <1>3 DEF Placed
  <2>2. result.kind = "found" /\ result.at = at
    BY <2>1 DEF Found
  <2> QED
    BY <2>1, <2>2
<1>4. CASE result = NotFound
  BY <1>4 DEF NotFound
<1>5. CASE result = Panic /\ (m.n = Size \/ Size \in {0, 1})
  BY <1>5 DEF Panic
<1> QED
  BY <1>2, <1>3, <1>4, <1>5 DEF Answers

\* new_emulation: it panics, rejects the topology or books the placement.
LEMMA NewEmulationStep ==
  ASSUME IInv, NEW e \in Emul, NEW m \in Requests, NewEmulation(e, m)
  PROVE  IInv'
<1>1. CASE ~Connected(m)
  <2>1. panicked' = "unconnected" /\ UNCHANGED <<books, environment>>
    BY <1>1 DEF NewEmulation, Die
  <2>2. panicked' # "unwrap"
    BY <2>1
  <2> QED
    BY <2>1, <2>2, NothingChanges
<1>2. CASE Connected(m)
  <2> DEFINE result == find_isomorphism(m)
  <2>1. m \in GoodRequests
    BY <1>2 DEF GoodRequests
  <2>2. /\ e \notin DOMAIN emulations
        /\ \A i \in Apps(m) : <<e, i>> \notin stopped
        /\ \/ result.kind = "panic" /\ Die("search")
           \/ result.kind = "none"  /\ UNCHANGED vars
           \/ result.kind = "found" /\ Place(e, m, result.at)
    BY <1>2 DEF NewEmulation
  <2>3. result.kind = "found" =>
          result.at \in [Apps(m) -> 0..(Size - 1)] /\ verify_permutation(m, result.at)
    <3>1. SearchSound
      BY SearchIsSound
    <3> QED
      BY <2>1, <3>1 DEF SearchSound, GoodRequests
  <2> HIDE DEF result
  <2>4. CASE result.kind = "panic"
    <3>1. panicked' = "search" /\ UNCHANGED <<books, environment>>
      BY <2>2, <2>4 DEF Die
    <3>2. panicked' # "unwrap"
      BY <3>1
    <3> QED
      BY <3>1, <3>2, NothingChanges
  <2>5. CASE result.kind = "none"
    <3>1. UNCHANGED <<books, environment>> /\ panicked' = panicked
      BY <2>2, <2>5 DEF vars
    <3>2. panicked' # "unwrap"
      BY <3>1 DEF IInv, BooksNeverPanic
    <3> QED
      BY <3>1, <3>2, NothingChanges
  <2>6. CASE result.kind = "found"
    <3>1. /\ Place(e, m, result.at) /\ result.at \in [Apps(m) -> 0..(Size - 1)]
          /\ verify_permutation(m, result.at)
      BY <2>2, <2>3, <2>6
    <3> QED
      BY <2>1, <2>2, <3>1, PlaceStep
  <2> QED
    BY <2>2, <2>4, <2>5, <2>6
<1> QED
  BY <1>1, <1>2

-----------------------------------------------------------------------------
\* The theorems.

\* Orchestrator::new
LEMMA InitIs ==
  ASSUME Init
  PROVE  IInv
<1> DEFINE n == Len(FirstHosts)
           speed(row, col) ==
             IF row = col THEN MAX ELSE Speed[{FirstHosts[row + 1], FirstHosts[col + 1]}]
           f == [p \in Rows(n) \X Rows(n) |-> speed(p[1], p[2])]
<1>1. /\ residual_graph = new_fn(n, speed)
      /\ host_mapping = FirstHosts
      /\ attributed_emul = << >>
      /\ current_load = [h \in Host |-> [e \in Emul |-> 0]]
      /\ emulations = << >>
      /\ panicked = "no"
      /\ cgraph = FirstHosts /\ copy = << >>
      /\ stopped = {} /\ changes = 0 /\ crashed = FALSE /\ returned = FALSE
  BY DEF Init
<1>2. FirstHosts \in Seq(Host) /\ IsInjective(FirstHosts) /\ n \in Nat
  BY Cluster
<1>3. ASSUME NEW a \in Rows(n), NEW c \in Rows(n)
      PROVE  /\ speed(a, c) \in U32 /\ speed(a, c) = speed(c, a)
             /\ a # c => speed(a, c) = CapacityOf(FirstHosts, a, c)
  <2>1. CASE a = c
    BY <2>1, Cluster DEF U32
  <2>2. CASE a # c
    <3>1. speed(a, c) = CapacityOf(FirstHosts, a, c)
      BY <2>2 DEF CapacityOf
    <3>2. speed(c, a) = CapacityOf(FirstHosts, c, a)
      BY <2>2 DEF CapacityOf
    <3>3. CapacityOf(FirstHosts, c, a) = CapacityOf(FirstHosts, a, c)
      <4>1. {FirstHosts[a + 1], FirstHosts[c + 1]} = {FirstHosts[c + 1], FirstHosts[a + 1]}
        OBVIOUS
      <4> QED
        BY <4>1 DEF CapacityOf
    <3>4. CapacityOf(FirstHosts, a, c) \in U32
      BY <1>2, <2>2, CapacityIs
    <3> HIDE DEF speed
    <3> QED
      BY <3>1, <3>2, <3>3, <3>4
  <2> QED
    BY <2>1, <2>2
<1>4. residual_graph = [n |-> n, data |-> [i \in 0..(Cells(n) - 1) |->
        LET rc == in_to_out_index(i, n) IN speed(rc[1], rc[2])]]
  BY <1>1 DEF new_fn, Cells
<1> HIDE DEF speed, n
<1>5. ASSUME NEW i \in 0..(Cells(n) - 1)
      PROVE  f[in_to_out_index(i, n)] = LET rc == in_to_out_index(i, n) IN speed(rc[1], rc[2])
  <2>1. PICK row, col \in Rows(n) : in_to_out_index(i, n) = <<row, col>>
    BY <1>2, PlaceInverse
  <2> QED
    BY <2>1
<1>6. \A a, c \in Rows(n) : f[<<a, c>>] = speed(a, c)
  OBVIOUS
<1> HIDE DEF f
<1>7. Tabulates(residual_graph, n, f)
  BY <1>4, <1>5 DEF Tabulates
<1>8. /\ residual_graph \in Matrix(n, U32)
      /\ \A a, c \in Rows(n) : At(residual_graph, a, c) = IF a > c THEN f[<<c, a>>] ELSE f[<<a, c>>]
  <2>1. Bandwidths(n, f)
    BY <1>3, <1>6 DEF Bandwidths
  <2>2. n \in Nat
    BY <1>2
  <2> QED
    BY <1>7, <2>1, <2>2, BandwidthsAt
<1>9. ASSUME NEW a \in Rows(n), NEW c \in Rows(n), a # c
      PROVE  At(residual_graph, a, c) = CapacityOf(FirstHosts, a, c)
  <2>1. speed(a, c) = speed(c, a) /\ speed(a, c) = CapacityOf(FirstHosts, a, c)
    BY <1>3, <1>9
  <2>2. f[<<a, c>>] = speed(a, c) /\ f[<<c, a>>] = speed(c, a)
    BY <1>6
  <2>3. At(residual_graph, a, c) = IF a > c THEN f[<<c, a>>] ELSE f[<<a, c>>]
    BY <1>8
  <2> QED
    BY <2>1, <2>2, <2>3
<1>10. BooksTyped
  <2>1. << >> \in [{} -> SUBSET Emul] /\ << >> \in [{} -> Placements(n)]
    OBVIOUS
  <2>2. attributed_emul \in Attributions /\ emulations \in Emulations(n)
    BY <1>1, <2>1 DEF Attributions, Emulations
  <2> QED
    BY <1>1, <1>2, <1>8, <2>2 DEF BooksTyped, n
<1>11. ClusterTyped
  <2>1. << >> \in Seq(Host) /\ IsInjective(<< >>)
    BY DEF IsInjective
  <2>2. 0 \in 0..MaxChanges
    BY Cluster
  <2> QED
    BY <1>1, <1>2, <2>1, <2>2 DEF ClusterTyped
<1>12. HostsFollow /\ BooksNeverPanic
  BY <1>1 DEF HostsFollow, BooksNeverPanic
<1>13. DOMAIN emulations = {} /\ DOMAIN attributed_emul = {}
  BY <1>1
<1>14. LoadsRight
  <2>1. ASSUME NEW h \in Host PROVE SumFunction(current_load[h]) = 0
    <3>1. DOMAIN current_load[h] = Emul /\ \A e \in Emul : current_load[h][e] = 0
      BY <1>1
    <3> QED
      BY <3>1, NoLoad
  <2>2. \A h \in Host : LoadOn(h) <= max_load
    BY <2>1, Cluster DEF LoadOn
  <2> QED
    BY <1>1, <1>13, <2>2 DEF LoadsRight
<1>15. AttributedWhileRunning /\ Attributable
  BY <1>13 DEF AttributedWhileRunning, Attributable
<1>16. Balance
  <2>1. residual_graph.n = n
    BY <1>8 DEF Matrix
  <2>2. ASSUME NEW a \in Rows(n), NEW c \in Rows(n), a # c
        PROVE  At(residual_graph, a, c) + InUseBy(emulations, a, c) = CapacityOf(host_mapping, a, c)
    <3>1. InUseBy(emulations, a, c) = 0
      BY <1>13, NothingInUse
    <3>2. At(residual_graph, a, c) = CapacityOf(host_mapping, a, c)
      BY <1>1, <1>9, <2>2
    <3>3. At(residual_graph, a, c) \in U32
      BY <1>2, <1>8, AtType
    <3> QED
      BY <3>1, <3>2, <3>3 DEF U32
  <2> QED
    BY <2>1, <2>2 DEF Balance, Balanced, Books
<1> QED
  BY <1>10, <1>11, <1>12, <1>14, <1>15, <1>16 DEF IInv

\* IInv is inductive: no placement, end of an application or change of the
\* cluster graph breaks it, not even when the last host is lost.
THEOREM Inductive == Spec => []IInv
<1>1. Init => IInv
  BY InitIs
<1>2. IInv /\ [Next]_vars => IInv'
  <2> SUFFICES ASSUME IInv, [Next]_vars PROVE IInv'
    OBVIOUS
  <2>1. CASE UNCHANGED vars
    <3>1. UNCHANGED <<books, environment>> /\ panicked' # "unwrap"
      BY <2>1 DEF vars, IInv, BooksNeverPanic
    <3> QED
      BY <3>1, NothingChanges
  <2>2. CASE \E e \in Emul, m \in Requests : NewEmulation(e, m)
    BY <2>2, NewEmulationStep
  <2>3. CASE \E e \in DOMAIN emulations : \E app \in Apps(emulations[e].matrix) : CleanStop(e, app)
    BY <2>3, CleanStopStep
  <2>4. CASE \E h \in Host : NodeFailure(h)
    BY <2>4, NodeFailureStep
  <2>5. CASE \E h \in Host \ {FirstHosts[1]} : JoinStart(h)
    BY <2>5, JoinStartStep
  <2>6. CASE JoinDone
    BY <2>6, JoinDoneStep
  <2>7. CASE JoinFails
    BY <2>7, JoinFailsStep
  <2> QED
    BY <2>1, <2>2, <2>3, <2>4, <2>5, <2>6, <2>7 DEF Next
<1> QED
  BY <1>1, <1>2, PTL DEF Spec

\* The search answers for every topology with a placement that verify_permutation
\* accepts, with none, or panics when there are as many applications as hosts, a
\* single host or none (find_isomorphism, next_comb).
THEOREM SearchSoundHolds == Spec => []SearchSound
<1>1. IInv => SearchSound
  BY SearchIsSound
<1> QED
  BY <1>1, Inductive, PTL

\* The rows of the residual matrix are the hosts of the cluster graph, each once,
\* and its cells are u32, whatever joins and leaves (update_with_cgraph).
THEOREM TypeCorrect == Spec => []TypeOK
<1>1. IInv => TypeOK
  <2> SUFFICES ASSUME IInv PROVE TypeOK
    OBVIOUS
  <2> DEFINE n == Len(host_mapping)
  <2>1. BooksTyped /\ ClusterTyped /\ HostsFollow /\ LoadsRight
    BY DEF IInv
  <2>2. Size = n /\ residual_graph.data \in [0..(Cells(n) - 1) -> U32]
    BY <2>1 DEF BooksTyped, Matrix, Size
  <2>3. Range(residual_graph.data) \subseteq 0..MAX
    BY <2>2 DEF Range, U32
  <2>4. DOMAIN residual_graph.data = 0..((Size * (Size + 1)) \div 2 - 1)
    BY <2>2 DEF Cells
  <2>5. DOMAIN attributed_emul \subseteq Host /\ UNION Range(attributed_emul) \subseteq Emul
    <3>1. PICK S \in SUBSET Host : attributed_emul \in [S -> SUBSET Emul]
      BY <2>1 DEF BooksTyped, Attributions
    <3> QED
      BY <3>1 DEF Range
  <2>6. DOMAIN emulations \subseteq Emul
    <3>1. n \in Nat /\ emulations \in Emulations(n)
      BY <2>1 DEF BooksTyped
    <3> QED
      BY <3>1, EmulationsIs
  <2>7. current_load \in [Host -> [Emul -> 0..max_load]]
    <3>1. current_load \in [Host -> [Emul -> Nat]]
      BY <2>1 DEF BooksTyped
    <3>2. ASSUME NEW h \in Host, NEW e \in Emul PROVE current_load[h][e] \in 0..max_load
      <4> DEFINE g == current_load[h]
                 R == Emul \ {e}
      <4>1. g \in [Emul -> Nat] /\ IsFiniteSet(Emul) /\ IsFiniteSet(R) /\ max_load \in Nat
        BY <3>1, Cluster, FS_Subset
      <4>2. SumFunctionOnSet(g, Emul) <= max_load
        BY <2>1, <4>1 DEF LoadsRight, LoadOn, SumFunction
      <4> HIDE DEF g
      <4>3. \A x \in Emul : g[x] \in Nat /\ g[x] \in Int
        BY <4>1
      <4>4. SumFunctionOnSet(g, Emul) = g[e] + SumFunctionOnSet(g, R)
        BY <4>1, <4>3, SumRemove
      <4>5. SumFunctionOnSet(g, R) \in Nat
        BY <4>1, <4>3, SumNat
      <4>6. g[e] \in 0..max_load
        <5> HIDE DEF R
        <5> QED
          BY <4>1, <4>2, <4>3, <4>4, <4>5
      <4> QED
        BY <4>6 DEF g
    <3> QED
      BY <3>1, <3>2
  <2> QED
    BY <2>1, <2>2, <2>3, <2>4, <2>5, <2>6, <2>7 DEF TypeOK, BooksTyped, ClusterTyped, HostsFollow
<1> QED
  BY <1>1, Inductive, PTL

\* No host ever runs more than max_load applications, and the load the books have
\* of it is the number of its applications that have not ended.
THEOREM LoadsRightHolds == Spec => []LoadsRight
<1>1. IInv => LoadsRight
  BY DEF IInv
<1> QED
  BY <1>1, Inductive, PTL

\* An emulation is in the books exactly as long as one of its applications runs,
\* attributed to the hosts of those (stop_app_emulation_on, stop_emulation).
THEOREM AttributedHolds == Spec => []AttributedWhileRunning
<1>1. IInv => AttributedWhileRunning
  BY DEF IInv
<1> QED
  BY <1>1, Inductive, PTL

\* None of the Orchestrator's unwraps and indexings fails.
THEOREM BooksNeverPanicHolds == Spec => []BooksNeverPanic
<1>1. IInv => BooksNeverPanic
  BY DEF IInv
<1> QED
  BY <1>1, Inductive, PTL

\* What is left between two hosts and what the emulations use make up the speed
\* between them, until an application ends by itself or a host returns.
THEOREM BooksBalanceHolds == Spec => []BooksBalance
<1>1. IInv => BooksBalance
  <2> DEFINE all == [e \in DOMAIN emulations |-> Ordered(emulations[e].matrix)]
  <2> SUFFICES ASSUME IInv, SumsFit, ~crashed, ~returned, NEW p \in TwoRows
               PROVE  Residual(p[1], p[2]) + InUse(p[1], p[2], all) = Capacity(p)
    BY DEF BooksBalance
  <2>1. Balanced(Books)
    BY DEF IInv, Balance
  <2>2. p[1] \in Rows(residual_graph.n) /\ p[2] \in Rows(residual_graph.n) /\ p[1] # p[2]
    BY DEF TwoRows, Rows, Size
  <2>3. Residual(p[1], p[2]) + InUseBy(emulations, p[1], p[2]) = CapacityOf(host_mapping, p[1], p[2])
    BY <2>1, <2>2 DEF Balanced, Books, Residual
  <2>4. \A e \in DOMAIN emulations : all[e] = Ordered(emulations[e].matrix)
    OBVIOUS
  <2> HIDE DEF all
  <2>5. InUse(p[1], p[2], all) = InUseBy(emulations, p[1], p[2])
    BY <2>4 DEF InUse, InUseBy, UsedBy
  <2> QED
    BY <2>3, <2>5 DEF Capacity, CapacityOf
<1> QED
  BY <1>1, Inductive, PTL

=============================================================================
