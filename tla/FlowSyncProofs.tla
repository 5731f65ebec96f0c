--------------------------- MODULE FlowSyncProofs ---------------------------
(***************************************************************************)
(* Proofs about BwSync and FlowSync, for any topology, hosts, flows,        *)
(* schedule and number of reports: on every link of the path that is shared *)
(* the flows fit, and nobody gets less than an equal part.                  *)
(***************************************************************************)
EXTENDS FlowSync, FiniteRecursion

-----------------------------------------------------------------------------
\* Bandwidth sharing (BwSync): no flow is ever asked for more than its path has.
LEMMA MaxBandwidthType ==
  ASSUME NEW f \in Flow
  PROVE  MaxBandwidth[f] \in Nat
<1> DEFINE T == {MAX} \cup {Bandwidth[l] : l \in Path[f]}
<1>1. T \subseteq Nat /\ T # {}
  BY Links
<1>2. Min(T) \in Nat
  <2> HIDE DEF T
  <2> QED
    BY <1>1, MinIs
<1> QED
  BY <1>2 DEF MaxBandwidth

-----------------------------------------------------------------------------
\* What a core keeps of the active flows.
Tables ==
  {t \in UNION {[S -> FlowState] : S \in SUBSET Flow} :
     \A f \in DOMAIN t : t[f].used <= MaxBandwidth[f] /\ t[f].authorized <= MaxBandwidth[f]}

\* A table of flows, entry by entry.
LEMMA TableIs ==
  ASSUME NEW t
  PROVE  t \in Tables <=>
           /\ t = [f \in DOMAIN t |-> t[f]]
           /\ DOMAIN t \subseteq Flow
           /\ \A f \in DOMAIN t : /\ t[f] \in FlowState
                                  /\ t[f].used <= MaxBandwidth[f]
                                  /\ t[f].authorized <= MaxBandwidth[f]
<1>1. ASSUME t = [f \in DOMAIN t |-> t[f]], DOMAIN t \subseteq Flow,
             \A f \in DOMAIN t : t[f] \in FlowState
      PROVE  t \in UNION {[S -> FlowState] : S \in SUBSET Flow}
  <2>1. t \in [DOMAIN t -> FlowState]
    BY <1>1
  <2> QED
    BY <1>1, <2>1
<1>2. ASSUME t \in UNION {[S -> FlowState] : S \in SUBSET Flow}
      PROVE  /\ t = [f \in DOMAIN t |-> t[f]]
             /\ DOMAIN t \subseteq Flow
             /\ \A f \in DOMAIN t : t[f] \in FlowState
  <2>1. PICK S \in SUBSET Flow : t \in [S -> FlowState]
    BY <1>2
  <2> QED
    BY <2>1
<1> QED
  BY <1>1, <1>2 DEF Tables

\* What the entries of a table satisfy.
LEMMA TableFacts ==
  ASSUME NEW flows \in Tables
  PROVE  /\ IsFiniteSet(DOMAIN flows)
         /\ \A f \in DOMAIN flows :
              /\ f \in Flow
              /\ MaxBandwidth[f] \in Nat
              /\ flows[f].used \in Nat /\ flows[f].authorized \in Nat
              /\ flows[f].hungry \in BOOLEAN
              /\ flows[f].used <= MaxBandwidth[f]
              /\ flows[f].authorized <= MaxBandwidth[f]
              /\ Used(flows)[f] = flows[f].used
<1>1. IsFiniteSet(DOMAIN flows)
  BY TableIs, Links, FS_Subset
<1> QED
  BY <1>1, TableIs, MaxBandwidthType DEF FlowState, Used

-----------------------------------------------------------------------------
\* Extend, entry by entry.
LEMMA ExtendIs ==
  ASSUME NEW new, NEW old
  PROVE  /\ DOMAIN Extend(new, old) = DOMAIN new \cup DOMAIN old
         /\ \A f \in DOMAIN new : Extend(new, old)[f] = new[f]
         /\ \A f \in DOMAIN old \ DOMAIN new : Extend(new, old)[f] = old[f]
         /\ Extend(new, old) = [f \in DOMAIN Extend(new, old) |-> Extend(new, old)[f]]
BY DEF Extend

\* The recursion of distribute_bandwidth_across_flow, with the shares of all the
\* sets of flows that may be left.
AnyState == [authorized : Int, used : Int, hungry : BOOLEAN]
AnyTable == UNION {[S -> AnyState] : S \in SUBSET Flow}

ShareStep(bandwidth, flows, F, left) ==
  IF Satisfied(bandwidth, flows, left) = {} THEN Throttle(bandwidth, flows, left)
  ELSE Extend(Allow(flows, Satisfied(bandwidth, flows, left)),
              F[left \ Satisfied(bandwidth, flows, left)])

Shares(bandwidth, flows) ==
  {F \in [SUBSET DOMAIN flows -> AnyTable] :
     /\ F[DOMAIN flows] = distribute_bandwidth_across_flow(bandwidth, flows)
     /\ \A left \in SUBSET DOMAIN flows : F[left] = ShareStep(bandwidth, flows, F, left)}

\* The same of a table whose numbers may be negative.
LEMMA AnyTableIs ==
  ASSUME NEW t
  PROVE  t \in AnyTable <=>
           /\ t = [f \in DOMAIN t |-> t[f]]
           /\ DOMAIN t \subseteq Flow
           /\ \A f \in DOMAIN t : t[f] \in AnyState
<1>1. ASSUME t = [f \in DOMAIN t |-> t[f]], DOMAIN t \subseteq Flow,
             \A f \in DOMAIN t : t[f] \in AnyState
      PROVE  t \in AnyTable
  <2>1. t \in [DOMAIN t -> AnyState]
    BY <1>1
  <2> QED
    BY <1>1, <2>1 DEF AnyTable
<1>2. ASSUME t \in AnyTable
      PROVE  /\ t = [f \in DOMAIN t |-> t[f]]
             /\ DOMAIN t \subseteq Flow
             /\ \A f \in DOMAIN t : t[f] \in AnyState
  <2>1. PICK S \in SUBSET Flow : t \in [S -> AnyState]
    BY <1>2 DEF AnyTable
  <2> QED
    BY <2>1
<1> QED
  BY <1>1, <1>2

\* What is left of a link is a number, and is shared by as many flows as are left.
LEMMA SpareType ==
  ASSUME NEW flows \in Tables, NEW bandwidth \in Nat, NEW left \in SUBSET DOMAIN flows
  PROVE  /\ Spare(bandwidth, flows, left) \in Int
         /\ IsFiniteSet(left) /\ Cardinality(left) \in Nat
         /\ left # {} => Cardinality(left) > 0
<1>1. IsFiniteSet(DOMAIN flows \ left) /\ IsFiniteSet(left)
  BY TableFacts, FS_Subset
<1>2. \A f \in DOMAIN flows \ left : Used(flows)[f] \in Int
  BY TableFacts
<1>3. SumFunctionOnSet(Used(flows), DOMAIN flows \ left) \in Int
  BY <1>1, <1>2, SumType
<1> QED
  BY <1>1, <1>3, FS_CardinalityType, FS_EmptySet DEF Spare

\* Division rounds down.
LEMMA DivMod ==
  ASSUME NEW a \in Int, NEW n \in Nat, n > 0
  PROVE  /\ a \div n \in Int
         /\ (a \div n) * n <= a /\ a < (a \div n) * n + n
         /\ a >= 0 => a \div n \in Nat
OBVIOUS

\* A positive factor cancels.
LEMMA MulCancel ==
  ASSUME NEW a \in Int, NEW c \in Int, NEW n \in Nat, n > 0, a * n <= c * n
  PROVE  a <= c
<1>1. SUFFICES ASSUME c + 1 <= a PROVE FALSE
  OBVIOUS
<1>2. (c + 1) * n = c * n + n
  OBVIOUS
<1>3. (a - (c + 1)) * n >= 0
  BY <1>1
<1>4. (a - (c + 1)) * n = a * n - (c + 1) * n
  OBVIOUS
<1> QED
  BY <1>2, <1>3, <1>4

\* Multiplying keeps the order.
LEMMA MulMonotone ==
  ASSUME NEW a \in Int, NEW c \in Int, NEW n \in Nat, a <= c
  PROVE  a * n <= c * n
<1>1. (c - a) * n >= 0
  OBVIOUS
<1>2. (c - a) * n = c * n - a * n
  OBVIOUS
<1> QED
  BY <1>1, <1>2

\* The quotient is the greatest share that can be given to all.
LEMMA DivIsLargest ==
  ASSUME NEW a \in Int, NEW n \in Nat, n > 0, NEW p \in Int, p * n <= a
  PROVE  p <= a \div n
<1>1. a < (a \div n) * n + n /\ a \div n \in Int
  BY DivMod
<1> DEFINE d == a \div n
<1>2. d \in Int /\ p * n < d * n + n
  BY <1>1
<1> HIDE DEF d
<1>3. SUFFICES ASSUME d + 1 <= p PROVE FALSE
  BY <1>2 DEF d
<1>4. (d + 1) * n <= p * n
  BY <1>2, <1>3, MulMonotone
<1>5. (d + 1) * n = d * n + n
  BY <1>2
<1> QED
  BY <1>2, <1>4, <1>5

\* What k satisfied flows leave is enough for the other m.
LEMMA PartGrows ==
  ASSUME NEW spare \in Nat, NEW sum \in Int, NEW m \in Nat, NEW k \in Nat,
         m + k > 0, sum * (m + k) <= k * spare
  PROVE  /\ sum <= spare
         /\ m > 0 => spare \div (m + k) <= (spare - sum) \div m
<1> DEFINE n == m + k
           p == spare \div n
<1>1. n \in Nat /\ n > 0 /\ p \in Nat /\ p * n <= spare
  BY DivMod
<1>2. k * spare + m * spare = spare * n /\ sum * n <= k * spare
  OBVIOUS
<1>3. m * spare >= 0
  OBVIOUS
<1> HIDE DEF n, p
<1>4. sum <= spare
  <2>1. sum * n <= spare * n
    BY <1>1, <1>2, <1>3
  <2> QED
    BY <1>1, <2>1, MulCancel
<1>5. (spare - sum) * n >= m * spare
  <2>1. (spare - sum) * n = spare * n - sum * n
    BY <1>1
  <2> QED
    BY <1>1, <1>2, <2>1
<1>6. (p * n) * m <= spare * m
  BY <1>1, MulMonotone
<1>7. (p * n) * m = (p * m) * n /\ spare * m = m * spare
  BY <1>1
<1>8. (p * m) * n <= (spare - sum) * n
  BY <1>1, <1>5, <1>6, <1>7
<1>9. p * m <= spare - sum
  <2>1. p * m \in Int /\ spare - sum \in Int
    BY <1>1
  <2> QED
    BY <1>1, <1>8, <2>1, MulCancel
<1>10. m > 0 => p <= (spare - sum) \div m
  <2>1. spare - sum \in Int
    OBVIOUS
  <2> QED
    BY <1>1, <1>9, <2>1, DivIsLargest
<1> QED
  BY <1>4, <1>10 DEF n, p

\* Throttled flows get what Throttled says and stay hungry.
LEMMA ThrottleIs ==
  ASSUME NEW flows \in Tables, NEW bandwidth \in Nat, NEW left \in SUBSET DOMAIN flows
  PROVE  /\ Throttle(bandwidth, flows, left) \in [left -> AnyState]
         /\ \A f \in left :
              LET q == Throttled(f, Spare(bandwidth, flows, left), Cardinality(left))
              IN  /\ q \in Int
                  /\ Throttle(bandwidth, flows, left)[f]
                       = [authorized |-> q, used |-> q, hungry |-> TRUE]
<1> DEFINE q(f) == Throttled(f, Spare(bandwidth, flows, left), Cardinality(left))
<1>1. ASSUME NEW f \in left PROVE q(f) \in Int
  <2>1. MaxBandwidth[f] \in Nat
    BY TableFacts
  <2>2. Spare(bandwidth, flows, left) \in Int /\ Cardinality(left) \in Nat /\ Cardinality(left) > 0
    BY SpareType
  <2>3. Spare(bandwidth, flows, left) \div Cardinality(left) \in Int
    BY <2>2, DivMod
  <2> QED
    BY <2>1, <2>3 DEF Throttled, Lesser
<1>2. Throttle(bandwidth, flows, left)
        = [f \in left |-> [authorized |-> q(f), used |-> q(f), hungry |-> TRUE]]
  BY DEF Throttle
<1> HIDE DEF q
<1>3. \A f \in left : [authorized |-> q(f), used |-> q(f), hungry |-> TRUE] \in AnyState
  BY <1>1 DEF AnyState
<1> QED
  BY <1>1, <1>2, <1>3 DEF q

\* Allowed flows may use the whole bandwidth of their path.
LEMMA AllowIs ==
  ASSUME NEW flows \in Tables, NEW S \in SUBSET DOMAIN flows
  PROVE  /\ Allow(flows, S) \in [S -> FlowState]
         /\ Allow(flows, S) \in [S -> AnyState]
         /\ \A f \in S : /\ Allow(flows, S)[f].authorized = MaxBandwidth[f]
                         /\ Allow(flows, S)[f].used = flows[f].used
                         /\ Allow(flows, S)[f].hungry = flows[f].hungry
<1>1. ASSUME NEW f \in S
      PROVE  /\ [flows[f] EXCEPT !.authorized = MaxBandwidth[f]] \in FlowState
             /\ [flows[f] EXCEPT !.authorized = MaxBandwidth[f]].authorized = MaxBandwidth[f]
             /\ [flows[f] EXCEPT !.authorized = MaxBandwidth[f]].used = flows[f].used
             /\ [flows[f] EXCEPT !.authorized = MaxBandwidth[f]].hungry = flows[f].hungry
  BY TableIs, TableFacts DEF FlowState
<1>2. FlowState \subseteq AnyState
  BY DEF FlowState, AnyState
<1> QED
  BY <1>1, <1>2 DEF Allow

\* The recursive function of the sharing exists.
LEMMA SharesExist ==
  ASSUME NEW flows \in Tables, NEW bandwidth \in Nat
  PROVE  \E F : F \in Shares(bandwidth, flows)
<1> DEFINE D == DOMAIN flows
           Sat(s) == Satisfied(bandwidth, flows, s)
           M == [s \in SUBSET D |-> Sat(s)]
           G == [s \in SUBSET D |-> [v \in AnyTable |-> Extend(Allow(flows, Sat(s)), v)]]
           B == [s \in SUBSET D |-> Throttle(bandwidth, flows, s)]
           Body(F, s) == ShareStep(bandwidth, flows, F, s)
<1>1. \A s \in SUBSET D : Sat(s) \subseteq s
  BY DEF Satisfied
<1>2. IsFiniteSet(D) /\ D \subseteq Flow
  BY TableFacts
<1>3. ASSUME NEW s \in SUBSET D, NEW v \in AnyTable
      PROVE  Extend(Allow(flows, Sat(s)), v) \in AnyTable
  <2> DEFINE w == Allow(flows, Sat(s))
  <2>1. w \in [Sat(s) -> AnyState] /\ Sat(s) \subseteq Flow
    BY <1>1, <1>2, AllowIs
  <2>2. v = [f \in DOMAIN v |-> v[f]] /\ DOMAIN v \subseteq Flow /\ \A f \in DOMAIN v : v[f] \in AnyState
    BY AnyTableIs
  <2> HIDE DEF w, Sat
  <2>3. /\ DOMAIN Extend(w, v) \subseteq Flow
        /\ Extend(w, v) = [f \in DOMAIN Extend(w, v) |-> Extend(w, v)[f]]
        /\ \A f \in DOMAIN Extend(w, v) : Extend(w, v)[f] \in AnyState
    <3>1. DOMAIN Extend(w, v) = DOMAIN w \cup DOMAIN v /\ DOMAIN w = Sat(s)
      BY <2>1, ExtendIs
    <3>2. ASSUME NEW f \in DOMAIN Extend(w, v) PROVE Extend(w, v)[f] \in AnyState
      <4>1. CASE f \in DOMAIN w
        <5>1. Extend(w, v)[f] = w[f]
          BY <4>1 DEF Extend
        <5> QED
          BY <2>1, <4>1, <5>1
      <4>2. CASE f \notin DOMAIN w
        <5>1. Extend(w, v)[f] = v[f]
          BY <3>1, <4>2 DEF Extend
        <5> QED
          BY <2>2, <3>1, <4>2, <5>1
      <4> QED
        BY <4>1, <4>2
    <3>3. Extend(w, v) = [f \in DOMAIN Extend(w, v) |-> Extend(w, v)[f]]
      BY ExtendIs
    <3> QED
      BY <2>1, <2>2, <3>1, <3>2, <3>3
  <2>4. Extend(w, v) \in AnyTable
    BY <2>3, AnyTableIs
  <2> QED
    BY <2>4 DEF w
<1>4. ASSUME NEW s \in SUBSET D PROVE Throttle(bandwidth, flows, s) \in AnyTable
  BY <1>2, ThrottleIs, AnyTableIs
<1>5. /\ M \in [SUBSET D -> SUBSET D] /\ \A s \in SUBSET D : M[s] \subseteq s
      /\ G \in [SUBSET D -> [AnyTable -> AnyTable]]
      /\ B \in [SUBSET D -> AnyTable]
  <2> HIDE DEF Sat, D
  <2> QED
    BY <1>1, <1>3, <1>4
<1>6. PICK F : F \in Recursive(D, AnyTable, M, G, B)
  <2> HIDE DEF M, G, B, D
  <2> QED
    BY <1>2, <1>5, RecursiveExists
<1>7. F \in [SUBSET D -> AnyTable]
  BY <1>6 DEF Recursive
<1>8. ASSUME NEW s \in SUBSET D PROVE F[s] = Body(F, s)
  <2>1. F[s] = IF M[s] = {} THEN B[s] ELSE G[s][F[s \ M[s]]]
    <3> HIDE DEF M, G, B, D
    <3> QED
      BY <1>6 DEF Recursive
  <2>2. M[s] = Sat(s) /\ B[s] = Throttle(bandwidth, flows, s)
    OBVIOUS
  <2>3. s \ Sat(s) \in SUBSET D
    OBVIOUS
  <2>4. F[s \ Sat(s)] \in AnyTable
    <3> HIDE DEF D, Sat
    <3> QED
      BY <1>7, <2>3
  <2>5. G[s][F[s \ Sat(s)]] = Extend(Allow(flows, Sat(s)), F[s \ Sat(s)])
    <3> HIDE DEF D, Sat
    <3> QED
      BY <2>4
  <2> HIDE DEF M, G, B, D
  <2> QED
    BY <2>1, <2>2, <2>5 DEF ShareStep
<1> DEFINE Is(H) == H = [s \in SUBSET D |-> Body(H, s)]
           H == CHOOSE H : Is(H)
<1>9. Is(F)
  <2> HIDE DEF Body, D
  <2> QED
    BY <1>7, <1>8
<1>10. Is(H)
  BY <1>9
<1>11. \A s \in SUBSET D : H[s] = Body(H, s)
  <2> HIDE DEF H, Body, D
  <2> QED
    BY <1>10
<1>12. H[D] = F[D]
  <2> DEFINE P == {s \in SUBSET D : H[s] = F[s]}
  <2>1. ASSUME NEW s \in SUBSET D, \A t \in SUBSET D : t \subseteq s /\ t # s => t \in P
        PROVE  s \in P
    <3>1. CASE Sat(s) = {}
      <4> HIDE DEF H, D
      <4> QED
        BY <3>1, <1>8, <1>11 DEF ShareStep
    <3>2. CASE Sat(s) # {}
      <4> DEFINE t == s \ Sat(s)
      <4>1. t \in SUBSET D /\ t \subseteq s /\ t # s
        BY <1>1, <3>2
      <4>2. H[t] = F[t]
        BY <2>1, <4>1
      <4>3. /\ H[s] = Extend(Allow(flows, Sat(s)), H[t])
            /\ F[s] = Extend(Allow(flows, Sat(s)), F[t])
        <5> HIDE DEF H, D
        <5> QED
          BY <3>2, <1>8, <1>11 DEF ShareStep
      <4> HIDE DEF H, D, t
      <4> QED
        BY <4>2, <4>3
    <3> QED
      BY <3>1, <3>2
  <2>2. \A s \in SUBSET D : s \in P
    <3> HIDE DEF P, D
    <3> QED
      BY <1>2, <2>1, SubsetInduction
  <2> QED
    BY <2>2
<1>13. distribute_bandwidth_across_flow(bandwidth, flows) = H[D]
  BY DEF distribute_bandwidth_across_flow, ShareStep
<1>14. F \in Shares(bandwidth, flows)
  <2> HIDE DEF H
  <2> QED
    BY <1>7, <1>8, <1>12, <1>13 DEF Shares
<1> QED
  BY <1>14

-----------------------------------------------------------------------------
(***************************************************************************)
(* What the shares of the flows in left are, once the others are satisfied  *)
(* and leave something: they fit, nobody has less than an equal part, and   *)
(* a flow is either left as it was or uses all it is given, which is no     *)
(* more than it used unless it was throttled before.                        *)
(***************************************************************************)
Kept(old, st) == ~old.hungry /\ ~st.hungry /\ st.used = old.used
Cut(old, st) == st.hungry /\ st.used = st.authorized /\ (~old.hungry => st.used <= old.used)

FairlyShared(bandwidth, flows, left, t) ==
  /\ t \in [left -> FlowState]
  /\ SumFunctionOnSet(Used(t), left) <= Spare(bandwidth, flows, left)
  /\ \A f \in left :
       /\ t[f].authorized <= MaxBandwidth[f]
       /\ t[f].authorized >=
            Lesser(Spare(bandwidth, flows, left) \div Cardinality(left), MaxBandwidth[f])
       /\ \/ Kept(flows[f], t[f]) /\ t[f].authorized = MaxBandwidth[f]
          \/ Cut(flows[f], t[f])

\* When nobody is satisfied.
LEMMA ThrottleFair ==
  ASSUME NEW flows \in Tables, NEW bandwidth \in Nat, NEW left \in SUBSET DOMAIN flows,
         Spare(bandwidth, flows, left) >= 0, Satisfied(bandwidth, flows, left) = {}
  PROVE  FairlyShared(bandwidth, flows, left, Throttle(bandwidth, flows, left))
<1> DEFINE t == Throttle(bandwidth, flows, left)
           spare == Spare(bandwidth, flows, left)
           n == Cardinality(left)
           q(f) == Throttled(f, spare, n)
<1>1. spare \in Nat /\ n \in Nat /\ (left # {} => n > 0) /\ IsFiniteSet(left)
  BY SpareType
<1>2. ASSUME NEW f \in left
      PROVE  /\ q(f) \in Nat /\ q(f) * n <= spare /\ q(f) <= MaxBandwidth[f]
             /\ q(f) = Lesser(spare \div n, MaxBandwidth[f])
             /\ ~flows[f].hungry => q(f) <= flows[f].used
             /\ flows[f].hungry \in BOOLEAN /\ flows[f].used \in Nat
  <2>1. /\ MaxBandwidth[f] \in Nat /\ flows[f].used \in Nat /\ flows[f].hungry \in BOOLEAN
    BY TableFacts
  <2>2. spare \div n \in Nat /\ (spare \div n) * n <= spare
    BY <1>1, DivMod
  <2>3. q(f) = Lesser(spare \div n, MaxBandwidth[f])
    BY DEF Throttled
  <2>4. ~flows[f].hungry => flows[f].used * n > spare
    <3>1. ~flows[f].hungry => ~(flows[f].used * n <= spare)
      BY DEF Satisfied
    <3>2. flows[f].used * n \in Int
      BY <1>1, <2>1
    <3> HIDE DEF spare, n
    <3> QED
      BY <1>1, <3>1, <3>2
  <2> DEFINE d == spare \div n
  <2>5. d \in Nat /\ d * n <= spare /\ q(f) = IF d < MaxBandwidth[f] THEN d ELSE MaxBandwidth[f]
    BY <2>2, <2>3 DEF Lesser
  <2>6. q(f) \in Nat /\ q(f) <= d /\ q(f) <= MaxBandwidth[f]
    <3> HIDE DEF d, q
    <3> QED
      BY <2>1, <2>5
  <2> HIDE DEF d, q, spare, n
  <2>7. q(f) * n <= d * n /\ q(f) * n \in Int /\ d * n \in Int
    BY <1>1, <2>5, <2>6, MulMonotone
  <2>8. q(f) * n <= spare
    BY <1>1, <2>5, <2>7
  <2>9. ASSUME ~flows[f].hungry PROVE q(f) <= flows[f].used
    <3>1. q(f) * n <= flows[f].used * n
      BY <1>1, <2>1, <2>4, <2>7, <2>8, <2>9
    <3> QED
      BY <1>1, <2>1, <2>6, <3>1, MulCancel
  <2> QED
    BY <2>1, <2>3, <2>6, <2>8, <2>9
<1>3. /\ t \in [left -> AnyState]
      /\ \A f \in left : t[f] = [authorized |-> q(f), used |-> q(f), hungry |-> TRUE]
  BY ThrottleIs
<1> HIDE DEF t, spare, n, q
<1>4. ASSUME NEW f \in left
      PROVE  /\ t[f].authorized = q(f) /\ t[f].used = q(f) /\ t[f].hungry = TRUE
             /\ t[f] \in FlowState
  <2>1. t[f] = [authorized |-> q(f), used |-> q(f), hungry |-> TRUE]
    BY <1>3
  <2>2. q(f) \in Nat
    BY <1>2
  <2> QED
    BY <2>1, <2>2 DEF FlowState
<1>5. \A f \in left : Used(t)[f] = q(f)
  BY <1>3, <1>4 DEF Used
<1>6. SumFunctionOnSet(Used(t), left) <= spare
  <2>1. CASE left = {}
    BY <1>1, <2>1, SumEmpty
  <2>2. CASE left # {}
    <3>1. SumFunctionOnSet(Used(t), left) \in Int
      BY <1>1, <1>2, <1>5, SumType
    <3>2. SumFunctionOnSet(Used(t), left) * n <= Cardinality(left) * spare
      <4>1. \A f \in left : Used(t)[f] \in Int /\ Used(t)[f] * n <= spare
        BY <1>2, <1>5
      <4>2. n \in Int /\ spare \in Int
        BY <1>1
      <4> QED
        BY <1>1, <4>1, <4>2, SumBound
    <3>3. Cardinality(left) * spare = spare * n
      BY <1>1 DEF n
    <3> QED
      BY <1>1, <2>2, <3>1, <3>2, <3>3, MulCancel
  <2> QED
    BY <2>1, <2>2
<1>7. t \in [left -> FlowState]
  BY <1>3, <1>4
<1>8. ASSUME NEW f \in left
      PROVE  /\ t[f].authorized <= MaxBandwidth[f]
             /\ t[f].authorized >= Lesser(spare \div n, MaxBandwidth[f])
             /\ Cut(flows[f], t[f])
  <2>1. q(f) >= q(f)
    BY <1>2
  <2> QED
    BY <1>2, <1>4, <2>1 DEF Cut
<1> QED
  BY <1>6, <1>7, <1>8 DEF FairlyShared, t, spare, n

\* When some are: they leave enough for the others.
LEMMA AllowFair ==
  ASSUME NEW flows \in Tables, NEW bandwidth \in Nat, NEW left \in SUBSET DOMAIN flows,
         Spare(bandwidth, flows, left) >= 0, Satisfied(bandwidth, flows, left) # {}
  PROVE  LET S == Satisfied(bandwidth, flows, left)
             R == left \ S
         IN  /\ Spare(bandwidth, flows, R) >= 0
             /\ Spare(bandwidth, flows, R)
                  = Spare(bandwidth, flows, left) - SumFunctionOnSet(Used(flows), S)
             /\ R # {} => Spare(bandwidth, flows, left) \div Cardinality(left)
                            <= Spare(bandwidth, flows, R) \div Cardinality(R)
<1> DEFINE S == Satisfied(bandwidth, flows, left)
           R == left \ S
           D == DOMAIN flows
           spare == Spare(bandwidth, flows, left)
           rest == Spare(bandwidth, flows, R)
           sum == SumFunctionOnSet(Used(flows), S)
           m == Cardinality(R)
           k == Cardinality(S)
           n == Cardinality(left)
<1>1. spare \in Nat /\ n \in Nat /\ IsFiniteSet(left)
  BY SpareType
<1>2. S \subseteq left /\ S # {} /\ S \in SUBSET D /\ R \in SUBSET D
  BY DEF Satisfied
<1>3. rest \in Int /\ IsFiniteSet(R) /\ IsFiniteSet(S) /\ m \in Nat /\ k \in Nat
      /\ k > 0 /\ (R # {} => m > 0)
  <2> HIDE DEF S
  <2> QED
    BY <1>2, SpareType
<1>4. n = m + k
  <2>1. left = R \cup S /\ R \cap S = {}
    BY <1>2
  <2> HIDE DEF S, R
  <2>2. Cardinality(R \cup S) = Cardinality(R) + Cardinality(S) - Cardinality({})
    BY <1>3, <2>1, FS_Union
  <2> QED
    BY <1>3, <2>1, <2>2, FS_EmptySet
<1>5. \A f \in D : Used(flows)[f] \in Int /\ Used(flows)[f] = flows[f].used
  BY TableFacts
<1>6. sum \in Int /\ sum * n <= k * spare
  <2>1. \A f \in S : Used(flows)[f] \in Int /\ Used(flows)[f] * n <= spare
    BY <1>5 DEF Satisfied
  <2>2. n \in Int /\ spare \in Int
    BY <1>1
  <2> HIDE DEF S, spare, n
  <2>3. SumFunctionOnSet(Used(flows), S) * n <= Cardinality(S) * spare
    BY <1>3, <2>1, <2>2, SumBound
  <2> QED
    BY <1>3, <2>1, <2>3, SumType
<1>7. rest = spare - sum
  <2> DEFINE X == D \ left
  <2>1. D \ R = X \cup S /\ X \cap S = {}
    BY <1>2
  <2>2. IsFiniteSet(X) /\ \A f \in X \cup S : Used(flows)[f] \in Int
    <3>1. IsFiniteSet(X)
      BY TableFacts, FS_Subset
    <3>2. X \cup S \subseteq D
      BY <1>2
    <3> QED
      BY <1>5, <3>1, <3>2
  <2>3. /\ SumFunctionOnSet(Used(flows), X) \in Int
        /\ SumFunctionOnSet(Used(flows), X \cup S)
             = SumFunctionOnSet(Used(flows), X) + SumFunctionOnSet(Used(flows), S)
    <3> HIDE DEF X, S
    <3> QED
      BY <1>3, <2>1, <2>2, SumUnion, SumType
  <2>4. rest = bandwidth - SumFunctionOnSet(Used(flows), D \ R)
    BY DEF Spare
  <2>5. spare = bandwidth - SumFunctionOnSet(Used(flows), X)
    BY DEF Spare
  <2> HIDE DEF X, S, R, D, rest, spare
  <2> QED
    <3> DEFINE a == SumFunctionOnSet(Used(flows), X)
               c == SumFunctionOnSet(Used(flows), X \cup S)
    <3>1. rest = bandwidth - c /\ spare = bandwidth - a /\ c = a + sum /\ a \in Int
      BY <2>1, <2>3, <2>4, <2>5
    <3> HIDE DEF a, c, sum
    <3> QED
      BY <1>6, <3>1
<1>8. sum <= spare /\ (m > 0 => spare \div n <= rest \div m)
  <2> HIDE DEF spare, rest, sum, m, k, n
  <2>1. m + k > 0 /\ sum * (m + k) <= k * spare
    BY <1>3, <1>4, <1>6
  <2>2. sum <= spare /\ (m > 0 => spare \div (m + k) <= (spare - sum) \div m)
    BY <1>1, <1>3, <1>6, <2>1, PartGrows
  <2> QED
    BY <1>4, <1>7, <2>2
<1> HIDE DEF spare, sum, rest, m, n, S, R
<1>9. rest >= 0 /\ rest = spare - sum /\ (R # {} => spare \div n <= rest \div m)
  BY <1>1, <1>3, <1>6, <1>7, <1>8
<1> QED
  BY <1>9 DEF spare, sum, rest, m, n, S, R

\* The lesser of two numbers follows the order.
LEMMA LesserMonotone ==
  ASSUME NEW a \in Int, NEW c \in Int, NEW m \in Int, a <= c
  PROVE  Lesser(a, m) <= Lesser(c, m) /\ Lesser(a, m) <= m /\ Lesser(a, m) \in Int
BY DEF Lesser

\* Allowing the satisfied flows keeps the shares of the others fair.
LEMMA ExtendFair ==
  ASSUME NEW flows \in Tables, NEW bandwidth \in Nat, NEW left \in SUBSET DOMAIN flows,
         Spare(bandwidth, flows, left) >= 0, Satisfied(bandwidth, flows, left) # {},
         NEW r, FairlyShared(bandwidth, flows, left \ Satisfied(bandwidth, flows, left), r)
  PROVE  FairlyShared(bandwidth, flows, left,
                      Extend(Allow(flows, Satisfied(bandwidth, flows, left)), r))
<1> DEFINE S == Satisfied(bandwidth, flows, left)
           R == left \ S
           w == Allow(flows, S)
           t == Extend(w, r)
           spare == Spare(bandwidth, flows, left)
           rest == Spare(bandwidth, flows, R)
           sum == SumFunctionOnSet(Used(flows), S)
           n == Cardinality(left)
           m == Cardinality(R)
<1>1. S \subseteq left /\ S # {} /\ S \in SUBSET DOMAIN flows /\ R \in SUBSET DOMAIN flows
      /\ \A f \in S : ~flows[f].hungry
  BY DEF Satisfied
<1>2. spare \in Nat /\ n \in Nat /\ n > 0 /\ rest \in Int /\ m \in Nat /\ (R # {} => m > 0)
      /\ IsFiniteSet(R) /\ IsFiniteSet(S)
  <2> HIDE DEF S
  <2>1. left # {}
    BY <1>1
  <2> QED
    BY <1>1, <2>1, SpareType
<1>3. rest >= 0 /\ rest = spare - sum /\ (R # {} => spare \div n <= rest \div m)
  BY AllowFair
<1>4. FairlyShared(bandwidth, flows, R, r)
  OBVIOUS
<1>5. /\ w \in [S -> FlowState]
      /\ \A f \in S : /\ w[f].authorized = MaxBandwidth[f]
                      /\ w[f].used = flows[f].used
                      /\ w[f].hungry = flows[f].hungry
  BY <1>1, AllowIs
<1>6. \A f \in left : /\ MaxBandwidth[f] \in Nat /\ flows[f].used \in Nat
                      /\ flows[f].hungry \in BOOLEAN /\ Used(flows)[f] = flows[f].used
  BY TableFacts
<1> HIDE DEF S, w, spare, rest, n, m
<1>7. r \in [R -> FlowState] /\ SumFunctionOnSet(Used(r), R) <= rest
  BY <1>4 DEF FairlyShared, rest
<1>8. DOMAIN t = left /\ (\A f \in S : t[f] = w[f]) /\ (\A f \in R : t[f] = r[f])
      /\ t = [f \in DOMAIN t |-> t[f]]
  BY <1>1, <1>5, <1>7 DEF Extend
<1> HIDE DEF t
<1>9. t \in [left -> FlowState]
  <2>1. \A f \in left : t[f] \in FlowState
    BY <1>5, <1>7, <1>8
  <2> QED
    BY <1>8, <2>1
<1>10. \A f \in left : Used(t)[f] = t[f].used /\ t[f].used \in Nat
  BY <1>8, <1>9 DEF Used, FlowState
<1>11. SumFunctionOnSet(Used(t), left) <= spare
  <2>1. SumFunctionOnSet(Used(t), left)
          = SumFunctionOnSet(Used(t), S) + SumFunctionOnSet(Used(t), R)
    <3>1. left = S \cup R /\ S \cap R = {}
      BY <1>1
    <3>2. \A f \in S \cup R : Used(t)[f] \in Int
      BY <1>10, <3>1
    <3> HIDE DEF R
    <3> QED
      BY <1>2, <3>1, <3>2, SumUnion
  <2>2. SumFunctionOnSet(Used(t), S) <= sum
    <3>1. \A f \in S : /\ Used(t)[f] \in Int /\ Used(flows)[f] \in Int
                       /\ Used(t)[f] <= Used(flows)[f]
      BY <1>1, <1>5, <1>6, <1>8, <1>10
    <3> QED
      BY <1>2, <3>1, SumMonotone
  <2>3. SumFunctionOnSet(Used(t), R) <= SumFunctionOnSet(Used(r), R)
    <3>1. \A f \in R : /\ Used(t)[f] \in Int /\ Used(r)[f] \in Int
                       /\ Used(t)[f] <= Used(r)[f]
      BY <1>7, <1>8, <1>10 DEF Used
    <3> QED
      BY <1>2, <3>1, SumMonotone
  <2>4. /\ SumFunctionOnSet(Used(t), S) \in Int
        /\ SumFunctionOnSet(Used(t), R) \in Int
        /\ SumFunctionOnSet(Used(r), R) \in Int
        /\ sum \in Int
    <3>1. (\A f \in S : Used(t)[f] \in Int) /\ (\A f \in R : Used(t)[f] \in Int)
      BY <1>1, <1>10
    <3>2. \A f \in R : Used(r)[f] \in Int
      BY <1>7 DEF Used, FlowState
    <3>3. \A f \in S : Used(flows)[f] \in Int
      BY <1>1, <1>6
    <3> QED
      BY <1>2, <3>1, <3>2, <3>3, SumType
  <2> HIDE DEF sum
  <2> QED
    BY <1>2, <1>3, <1>7, <2>1, <2>2, <2>3, <2>4
<1>12. ASSUME NEW f \in left
       PROVE  /\ t[f].authorized <= MaxBandwidth[f]
              /\ t[f].authorized >= Lesser(spare \div n, MaxBandwidth[f])
              /\ \/ Kept(flows[f], t[f]) /\ t[f].authorized = MaxBandwidth[f]
                 \/ Cut(flows[f], t[f])
  <2>0. spare \div n \in Int /\ MaxBandwidth[f] \in Int
    BY <1>2, <1>6, DivMod
  <2>1. CASE f \in S
    <3>1. Lesser(spare \div n, MaxBandwidth[f]) <= MaxBandwidth[f]
      BY <2>0 DEF Lesser
    <3>2. t[f] = w[f] /\ t[f].authorized = MaxBandwidth[f]
      BY <1>5, <1>8, <2>1
    <3>3. Kept(flows[f], t[f])
      BY <1>1, <1>5, <2>1, <3>2 DEF Kept
    <3> QED
      BY <2>0, <3>1, <3>2, <3>3
  <2>2. CASE f \in R
    <3>1. t[f] = r[f] /\ R # {} /\ r[f].authorized \in Nat
      BY <1>7, <1>8, <2>2 DEF FlowState
    <3>2. rest \div m \in Int /\ spare \div n <= rest \div m
      BY <1>2, <1>3, <3>1, DivMod
    <3>3. /\ Lesser(spare \div n, MaxBandwidth[f]) <= Lesser(rest \div m, MaxBandwidth[f])
          /\ Lesser(spare \div n, MaxBandwidth[f]) \in Int
          /\ Lesser(rest \div m, MaxBandwidth[f]) \in Int
      BY <2>0, <3>2, LesserMonotone
    <3>4. /\ r[f].authorized <= MaxBandwidth[f]
          /\ r[f].authorized >= Lesser(rest \div m, MaxBandwidth[f])
          /\ \/ Kept(flows[f], r[f]) /\ r[f].authorized = MaxBandwidth[f]
             \/ Cut(flows[f], r[f])
      BY <1>4, <2>2 DEF FairlyShared, rest, m
    <3> QED
      BY <3>1, <3>3, <3>4
  <2> QED
    BY <2>1, <2>2
<1>13. FairlyShared(bandwidth, flows, left, t)
  BY <1>9, <1>11, <1>12 DEF FairlyShared, spare, n
<1> QED
  BY <1>13 DEF t, w, S

\* DistributeFair: one link's bandwidth fits on it, and is divided fairly.
THEOREM DistributeFair ==
  ASSUME NEW flows \in Tables, NEW bandwidth \in Nat
  PROVE  FairlyShared(bandwidth, flows, DOMAIN flows,
                      distribute_bandwidth_across_flow(bandwidth, flows))
<1> DEFINE D == DOMAIN flows
<1>1. PICK F : F \in Shares(bandwidth, flows)
  BY SharesExist
<1>2. /\ F[D] = distribute_bandwidth_across_flow(bandwidth, flows)
      /\ \A left \in SUBSET D : F[left] = ShareStep(bandwidth, flows, F, left)
  BY <1>1 DEF Shares
<1> DEFINE P == {left \in SUBSET D : Spare(bandwidth, flows, left) >= 0 =>
                                       FairlyShared(bandwidth, flows, left, F[left])}
<1>3. ASSUME NEW left \in SUBSET D, \A t \in SUBSET D : t \subseteq left /\ t # left => t \in P
      PROVE  left \in P
  <2> DEFINE S == Satisfied(bandwidth, flows, left)
             R == left \ S
  <2>1. SUFFICES ASSUME Spare(bandwidth, flows, left) >= 0
                 PROVE  FairlyShared(bandwidth, flows, left, F[left])
    OBVIOUS
  <2>2. CASE S = {}
    <3>1. F[left] = Throttle(bandwidth, flows, left)
      BY <1>2, <2>2 DEF ShareStep
    <3> QED
      BY <2>1, <2>2, <3>1, ThrottleFair
  <2>3. CASE S # {}
    <3>1. F[left] = Extend(Allow(flows, S), F[R])
      BY <1>2, <2>3 DEF ShareStep
    <3>2. R \in SUBSET D /\ R \subseteq left /\ R # left
      BY <2>3 DEF Satisfied
    <3>3. Spare(bandwidth, flows, R) >= 0
      BY <2>1, <2>3, AllowFair
    <3>4. FairlyShared(bandwidth, flows, R, F[R])
      BY <1>3, <3>2, <3>3
    <3> QED
      BY <2>1, <2>3, <3>1, <3>4, ExtendFair
  <2> QED
    BY <2>2, <2>3
<1>4. \A left \in SUBSET D : left \in P
  <2>1. IsFiniteSet(D)
    BY TableFacts
  <2> HIDE DEF P, D
  <2> QED
    BY <1>3, <2>1, SubsetInduction
<1>5. Spare(bandwidth, flows, D) = bandwidth
  <2>1. D \ D = {}
    OBVIOUS
  <2> QED
    BY <2>1, SumEmpty DEF Spare
<1>6. FairlyShared(bandwidth, flows, D, F[D])
  BY <1>4, <1>5
<1> QED
  BY <1>2, <1>6

-----------------------------------------------------------------------------
\* Several links: of the shares of a flow the smallest is taken.
LEMMA MergeIs ==
  ASSUME NEW shares, \A s \in shares : \A g \in DOMAIN s : s[g].authorized \in Nat,
         NEW g \in UNION {DOMAIN s : s \in shares}
  PROVE  \E s \in shares :
           /\ g \in DOMAIN s /\ merge(shares)[g] = s[g]
           /\ \A u \in shares : g \in DOMAIN u => s[g].authorized <= u[g].authorized
<1> DEFINE states == {s[g] : s \in {t \in shares : g \in DOMAIN t}}
           T == {st.authorized : st \in states}
           Least(st) == \A other \in states : st.authorized <= other.authorized
           chosen == CHOOSE st \in states : Least(st)
<1>1. T \subseteq Nat /\ T # {}
  OBVIOUS
<1>2. PICK x \in T : \A y \in T : x <= y
  <2> HIDE DEF T
  <2> QED
    BY <1>1, NatMin
<1>3. \E st \in states : Least(st)
  BY <1>2
<1>4. chosen \in states /\ Least(chosen)
  <2> HIDE DEF states, Least
  <2> QED
    BY <1>3
<1>5. merge(shares)[g] = chosen
  BY DEF merge
<1> HIDE DEF chosen
<1>6. PICK s \in shares : g \in DOMAIN s /\ chosen = s[g]
  BY <1>4
<1>7. \A u \in shares : g \in DOMAIN u => s[g].authorized <= u[g].authorized
  BY <1>4, <1>6
<1> QED
  BY <1>5, <1>6, <1>7

-----------------------------------------------------------------------------
(***************************************************************************)
(* The links of one flow's path.                                           *)
(***************************************************************************)
StateOf(f) == {st \in FlowState : st.used <= MaxBandwidth[f] /\ st.authorized <= MaxBandwidth[f]}

\* A table, by the states its flows may have.
LEMMA TableEntry ==
  ASSUME NEW t
  PROVE  t \in Tables <=> /\ t = [f \in DOMAIN t |-> t[f]]
                          /\ DOMAIN t \subseteq Flow
                          /\ \A f \in DOMAIN t : t[f] \in StateOf(f)
BY TableIs DEF StateOf

\* The flows of a link before they share it.
IsOnLink(l, f, state, active, on) ==
  /\ on \in Tables
  /\ DOMAIN on = {g \in DOMAIN active \ {f} : l \in Path[g]}
                   \cup (IF state.used = 0 THEN {} ELSE {f})
  /\ \A g \in DOMAIN on : on[g] = IF g = f THEN state ELSE active[g]

\* The flows of a link are those of the table that cross it, and f unless it ended.
LEMMA LinkFlows ==
  ASSUME NEW active \in Tables, NEW f \in Flow, NEW state \in StateOf(f), NEW l
  PROVE  IsOnLink(l, f, state, active, get_flows_by_shared_links(l, f, state, active))
<1> DEFINE X == {g \in DOMAIN active \ {f} : l \in Path[g]}
           others == Restrict(active, X)
           one == [g \in {f} |-> state]
           on == get_flows_by_shared_links(l, f, state, active)
<1>1. others = [g \in X |-> active[g]]
  BY DEF Restrict
<1>2. DOMAIN active \subseteq Flow /\ \A g \in DOMAIN active : active[g] \in StateOf(g)
  BY TableEntry
<1>3. on = IF state.used = 0 THEN others ELSE Extend(one, others)
  BY DEF get_flows_by_shared_links
<1>4. DOMAIN others = X /\ f \notin X /\ \A g \in X : others[g] = active[g]
  BY <1>1
<1>5. CASE state.used = 0
  <2>1. on = others
    BY <1>3, <1>5
  <2>2. others \in Tables
    BY <1>1, <1>2, TableEntry
  <2> HIDE DEF on, others
  <2>3. /\ on \in Tables
        /\ DOMAIN on = X \cup (IF state.used = 0 THEN {} ELSE {f})
        /\ \A g \in DOMAIN on : on[g] = IF g = f THEN state ELSE active[g]
    BY <1>4, <1>5, <2>1, <2>2
  <2> QED
    BY <2>3 DEF on, IsOnLink
<1>6. CASE state.used # 0
  <2>1. on = Extend(one, others)
    BY <1>3, <1>6
  <2> HIDE DEF on, others
  <2>2. on = [g \in {f} \cup X |-> IF g = f THEN state ELSE active[g]]
    BY <1>4, <2>1 DEF Extend
  <2>3. on \in Tables
    BY <1>2, <2>2, TableEntry
  <2>4. /\ DOMAIN on = X \cup (IF state.used = 0 THEN {} ELSE {f})
        /\ \A g \in DOMAIN on : on[g] = IF g = f THEN state ELSE active[g]
    BY <1>6, <2>2
  <2> QED
    BY <2>3, <2>4 DEF on, IsOnLink
<1> QED
  BY <1>5, <1>6

\* The links of f's path are shared: the flows on them fit, and get a fair part.
OnLink(l, t) == {h \in DOMAIN t : l \in Path[h]}
Part(l, t) == Bandwidth[l] \div Cardinality(OnLink(l, t))
SharedAlong(f, t) ==
  /\ \A l \in Path[f] : remaining_bandwidth(l, t) >= 0
  /\ \A g \in DOMAIN t :
       Path[g] \cap Path[f] # {} =>
         t[g].authorized >= Min({MaxBandwidth[g]} \cup {Part(l, t) : l \in Path[g] \cap Path[f]})

\* No other flow's use changes but to what it is authorized.
UsedAsBefore(f, state, active, t) ==
  \A g \in DOMAIN t :
    \/ t[g].used = (IF g = f THEN state ELSE active[g]).used
    \/ t[g].used = t[g].authorized /\ Path[g] \cap Path[f] # {}

\* A flow kept or cut by one link and by another: the smaller share is no more
\* than either uses.
LEMMA LessUsed ==
  ASSUME NEW max \in Nat, NEW old \in FlowState, NEW a \in FlowState, NEW c \in FlowState,
         old.used <= max, a.authorized <= max, c.authorized <= max,
         (Kept(old, a) /\ a.authorized = max) \/ Cut(old, a),
         (Kept(old, c) /\ c.authorized = max) \/ Cut(old, c),
         a.authorized <= c.authorized
  PROVE  a.used <= c.used /\ a.used <= max
<1>1. /\ old.used \in Nat /\ a.used \in Nat /\ a.authorized \in Nat
      /\ c.used \in Nat /\ c.authorized \in Nat
  BY DEF FlowState
<1> QED
  BY <1>1 DEF Kept, Cut

\* What is known of the updated flow: the new state, hungry as it was.
Known(f, state, active) ==
  IF f \in DOMAIN active THEN [state EXCEPT !.hungry = active[f].hungry] ELSE state

\* A flow known before stays hungry if it was, with the new use.
LEMMA KnownIs ==
  ASSUME NEW active \in Tables, NEW f \in Flow, NEW state \in StateOf(f)
  PROVE  Known(f, state, active) \in StateOf(f) /\ Known(f, state, active).used = state.used
BY TableEntry DEF StateOf, FlowState, Known

\* What every link of the path makes of its flows, and what is merged.
LEMMA UpdateIs ==
  ASSUME NEW active \in Tables, NEW f \in Flow, NEW state \in StateOf(f)
  PROVE  LET known == Known(f, state, active)
             on(l) == get_flows_by_shared_links(l, f, known, active)
             share(l) == distribute_bandwidth_across_flow(Bandwidth[l], on(l))
             new == update_active_flows(f, state, active)
         IN  /\ DOMAIN new = UNION {DOMAIN on(l) : l \in Path[f]}
             /\ new = [g \in DOMAIN new |-> new[g]]
             /\ \A l \in Path[f] : FairlyShared(Bandwidth[l], on(l), DOMAIN on(l), share(l))
             /\ \A g \in DOMAIN new :
                  \E l \in Path[f] :
                    /\ g \in DOMAIN on(l) /\ new[g] = share(l)[g]
                    /\ \A k \in Path[f] : g \in DOMAIN on(k) =>
                         share(l)[g].authorized <= share(k)[g].authorized
<1> DEFINE known == Known(f, state, active)
           on(l) == get_flows_by_shared_links(l, f, known, active)
           share(l) == distribute_bandwidth_across_flow(Bandwidth[l], on(l))
           new == update_active_flows(f, state, active)
           shares == {share(l) : l \in Path[f]}
<1>1. known \in StateOf(f)
  BY KnownIs
<1>2. ASSUME NEW l \in Path[f]
      PROVE  FairlyShared(Bandwidth[l], on(l), DOMAIN on(l), share(l))
  <2>1. on(l) \in Tables
    <3> HIDE DEF known
    <3> QED
      BY <1>1, LinkFlows DEF IsOnLink
  <2>2. Bandwidth[l] \in Nat
    BY Links
  <2> QED
    BY <2>1, <2>2, DistributeFair
<1>3. new = merge(shares)
  BY DEF update_active_flows, Known
<1> HIDE DEF on, share, new
<1>4. ASSUME NEW l \in Path[f]
      PROVE  /\ DOMAIN share(l) = DOMAIN on(l)
             /\ \A g \in DOMAIN on(l) : share(l)[g].authorized \in Nat
  BY <1>2 DEF FairlyShared, FlowState
<1>5. DOMAIN merge(shares) = UNION {DOMAIN s : s \in shares}
      /\ merge(shares) = [g \in DOMAIN merge(shares) |-> merge(shares)[g]]
  <2> DEFINE states(g) == {s[g] : s \in {u \in shares : g \in DOMAIN u}}
             val(g) == CHOOSE st \in states(g) :
                         \A other \in states(g) : st.authorized <= other.authorized
  <2> HIDE DEF shares
  <2>1. merge(shares) = [g \in UNION {DOMAIN s : s \in shares} |-> val(g)]
    BY DEF merge
  <2> HIDE DEF val
  <2> QED
    BY <2>1
<1>6. DOMAIN new = UNION {DOMAIN on(l) : l \in Path[f]} /\ new = [g \in DOMAIN new |-> new[g]]
  <2>1. UNION {DOMAIN s : s \in shares} = UNION {DOMAIN on(l) : l \in Path[f]}
    BY <1>4
  <2> HIDE DEF shares
  <2> QED
    BY <1>3, <1>5, <2>1
<1>7. \A s \in shares : \A g \in DOMAIN s : s[g].authorized \in Nat
  BY <1>4
<1>8. ASSUME NEW g \in DOMAIN new
      PROVE  \E l \in Path[f] :
                    /\ g \in DOMAIN on(l) /\ new[g] = share(l)[g]
                    /\ \A k \in Path[f] : g \in DOMAIN on(k) =>
                         share(l)[g].authorized <= share(k)[g].authorized
  <2>1. g \in UNION {DOMAIN s : s \in shares}
    BY <1>3, <1>5
  <2>2. PICK s \in shares :
           /\ g \in DOMAIN s /\ merge(shares)[g] = s[g]
           /\ \A u \in shares : g \in DOMAIN u => s[g].authorized <= u[g].authorized
    <3> HIDE DEF shares
    <3> QED
      BY <1>7, <2>1, MergeIs
  <2>3. PICK l \in Path[f] : s = share(l)
    OBVIOUS
  <2>4. \A k \in Path[f] : g \in DOMAIN on(k) => s[g].authorized <= share(k)[g].authorized
    BY <1>4, <2>2
  <2> QED
    BY <1>3, <1>4, <2>2, <2>3, <2>4
<1> QED
  BY <1>2, <1>6, <1>8 DEF on, share, new

\* UpdateFair: after the links of f's path are shared anew the flows fit on
\* every one of them, although each was shared alone.
THEOREM UpdateFair ==
  ASSUME NEW active \in Tables, NEW f \in Flow, NEW state \in StateOf(f),
         state.used # 0 \/ f \notin DOMAIN active
  PROVE  LET t == Extend(update_active_flows(f, state, active), active)
         IN  /\ t \in Tables
             /\ DOMAIN t = DOMAIN active \cup (IF state.used = 0 THEN {} ELSE {f})
             /\ SharedAlong(f, t)
             /\ UsedAsBefore(f, state, active, t)
<1> DEFINE known == Known(f, state, active)
           on(l) == get_flows_by_shared_links(l, f, known, active)
           share(l) == distribute_bandwidth_across_flow(Bandwidth[l], on(l))
           new == update_active_flows(f, state, active)
           t == Extend(new, active)
           base(g) == IF g = f THEN known ELSE active[g]
<1>1. known \in StateOf(f) /\ known.used = state.used
  BY KnownIs
<1>2. \A l : /\ on(l) \in Tables
             /\ DOMAIN on(l) = {g \in DOMAIN active \ {f} : l \in Path[g]}
                                 \cup (IF state.used = 0 THEN {} ELSE {f})
             /\ \A g \in DOMAIN on(l) : on(l)[g] = base(g)
  <2> SUFFICES ASSUME NEW l
               PROVE  /\ on(l) \in Tables
                      /\ DOMAIN on(l) = {g \in DOMAIN active \ {f} : l \in Path[g]}
                                          \cup (IF state.used = 0 THEN {} ELSE {f})
                      /\ \A g \in DOMAIN on(l) : on(l)[g] = base(g)
    OBVIOUS
  <2> HIDE DEF known
  <2>1. IsOnLink(l, f, known, active, on(l))
    BY <1>1, LinkFlows
  <2> HIDE DEF on
  <2> QED
    BY <1>1, <2>1 DEF IsOnLink
<1>3. /\ DOMAIN new = UNION {DOMAIN on(l) : l \in Path[f]}
      /\ \A l \in Path[f] : FairlyShared(Bandwidth[l], on(l), DOMAIN on(l), share(l))
  BY UpdateIs
<1>4. ASSUME NEW g \in DOMAIN new
      PROVE  \E l \in Path[f] :
               /\ g \in DOMAIN on(l) /\ new[g] = share(l)[g]
               /\ \A k \in Path[f] : g \in DOMAIN on(k) =>
                    share(l)[g].authorized <= share(k)[g].authorized
  BY UpdateIs
<1>5. /\ DOMAIN active \subseteq Flow /\ \A g \in DOMAIN active : active[g] \in StateOf(g)
  BY TableEntry
<1>6. Path[f] # {} /\ \A l \in Path[f] : Bandwidth[l] \in Nat
  BY Routes, Links
<1> HIDE DEF known, on, share, new
<1>7. /\ DOMAIN t = DOMAIN new \cup DOMAIN active
      /\ t = [g \in DOMAIN t |-> t[g]]
      /\ \A g \in DOMAIN new : t[g] = new[g]
      /\ \A g \in DOMAIN active \ DOMAIN new : t[g] = active[g]
  BY DEF Extend
<1> HIDE DEF t
<1>8. DOMAIN t = DOMAIN active \cup (IF state.used = 0 THEN {} ELSE {f})
  <2>1. ASSUME NEW g \in DOMAIN new
        PROVE  g \in DOMAIN active \cup (IF state.used = 0 THEN {} ELSE {f})
    BY <1>2, <1>3
  <2>2. ASSUME state.used # 0 PROVE f \in DOMAIN new
    <3>1. PICK l \in Path[f] : TRUE
      BY <1>6
    <3>2. f \in DOMAIN on(l)
      BY <1>2, <2>2
    <3> QED
      BY <1>3, <3>1, <3>2
  <2> QED
    BY <1>7, <2>1, <2>2
\* Share by share, on a link.
<1>9. ASSUME NEW l \in Path[f], NEW g \in DOMAIN on(l)
      PROVE  /\ MaxBandwidth[g] \in Nat /\ base(g) \in StateOf(g)
             /\ share(l)[g] \in StateOf(g)
             /\ share(l)[g].authorized >= Lesser(Bandwidth[l] \div Cardinality(DOMAIN on(l)),
                                                 MaxBandwidth[g])
             /\ \/ Kept(base(g), share(l)[g]) /\ share(l)[g].authorized = MaxBandwidth[g]
                \/ Cut(base(g), share(l)[g])
  <2>1. on(l) \in Tables /\ on(l)[g] = base(g)
    BY <1>2
  <2>2. MaxBandwidth[g] \in Nat /\ base(g) \in StateOf(g)
    BY <2>1, TableFacts, TableEntry
  <2>3. Spare(Bandwidth[l], on(l), DOMAIN on(l)) = Bandwidth[l]
    <3>1. DOMAIN on(l) \ DOMAIN on(l) = {}
      OBVIOUS
    <3> QED
      BY <1>6, <3>1, SumEmpty DEF Spare
  <2> HIDE DEF base
  <2>4. /\ share(l) \in [DOMAIN on(l) -> FlowState]
        /\ share(l)[g].authorized <= MaxBandwidth[g]
        /\ share(l)[g].authorized >= Lesser(Bandwidth[l] \div Cardinality(DOMAIN on(l)),
                                            MaxBandwidth[g])
        /\ \/ Kept(base(g), share(l)[g]) /\ share(l)[g].authorized = MaxBandwidth[g]
           \/ Cut(base(g), share(l)[g])
    BY <1>3, <2>1, <2>3 DEF FairlyShared
  <2>5. share(l)[g] \in FlowState /\ base(g) \in FlowState /\ base(g).used <= MaxBandwidth[g]
    BY <2>2, <2>4 DEF StateOf
  <2>6. share(l)[g].authorized <= share(l)[g].authorized
    BY <2>5 DEF FlowState
  <2>7. share(l)[g].used <= MaxBandwidth[g]
    BY <2>2, <2>4, <2>5, <2>6, LessUsed
  <2> QED
    BY <2>2, <2>4, <2>5, <2>7 DEF StateOf
<1>10. t \in Tables
  <2>1. DOMAIN t \subseteq Flow
    BY <1>5, <1>8
  <2>2. ASSUME NEW g \in DOMAIN t PROVE t[g] \in StateOf(g)
    <3>1. CASE g \in DOMAIN new
      <4>1. PICK l \in Path[f] : g \in DOMAIN on(l) /\ new[g] = share(l)[g]
        BY <1>4, <3>1
      <4> QED
        BY <1>7, <1>9, <3>1, <4>1
    <3>2. CASE g \notin DOMAIN new
      BY <1>5, <1>7, <3>2
    <3> QED
      BY <3>1, <3>2
  <2> QED
    BY <1>7, <2>1, <2>2, TableEntry
<1>11. ASSUME NEW l \in Path[f]
       PROVE  OnLink(l, t) = DOMAIN on(l) /\ DOMAIN on(l) \subseteq DOMAIN new
  <2>1. DOMAIN on(l) \subseteq DOMAIN new
    BY <1>3
  <2>2. DOMAIN on(l) = {g \in DOMAIN active \ {f} : l \in Path[g]}
                         \cup (IF state.used = 0 THEN {} ELSE {f})
    BY <1>2
  <2> QED
    BY <1>8, <2>1, <2>2 DEF OnLink
<1>12. ASSUME NEW l \in Path[f] PROVE remaining_bandwidth(l, t) >= 0
  <2> DEFINE X == DOMAIN on(l)
  <2>1. ASSUME NEW g \in X
        PROVE  /\ Used(t)[g] \in Int /\ Used(share(l))[g] \in Int
               /\ Used(t)[g] <= Used(share(l))[g]
    <3>1. g \in DOMAIN new /\ g \in DOMAIN t
      BY <1>7, <1>11
    <3>2. PICK k \in Path[f] : /\ g \in DOMAIN on(k) /\ new[g] = share(k)[g]
                               /\ share(k)[g].authorized <= share(l)[g].authorized
      BY <1>4, <3>1
    <3>3. /\ MaxBandwidth[g] \in Nat
          /\ base(g) \in StateOf(g) /\ share(k)[g] \in StateOf(g) /\ share(l)[g] \in StateOf(g)
          /\ \/ Kept(base(g), share(l)[g]) /\ share(l)[g].authorized = MaxBandwidth[g]
             \/ Cut(base(g), share(l)[g])
          /\ \/ Kept(base(g), share(k)[g]) /\ share(k)[g].authorized = MaxBandwidth[g]
             \/ Cut(base(g), share(k)[g])
      BY <1>9, <3>2
    <3> HIDE DEF base
    <3>4. /\ base(g) \in FlowState /\ base(g).used <= MaxBandwidth[g]
          /\ share(k)[g] \in FlowState /\ share(k)[g].authorized <= MaxBandwidth[g]
          /\ share(l)[g] \in FlowState /\ share(l)[g].authorized <= MaxBandwidth[g]
      BY <3>3 DEF StateOf
    <3>5. share(k)[g].used <= share(l)[g].used
      BY <3>2, <3>3, <3>4, LessUsed
    <3>6. Used(t)[g] = share(k)[g].used
      BY <1>7, <3>1, <3>2 DEF Used
    <3>7. Used(share(l))[g] = share(l)[g].used
      <4>1. g \in DOMAIN share(l)
        BY <1>3 DEF FairlyShared
      <4> QED
        BY <4>1 DEF Used
    <3> QED
      BY <3>4, <3>5, <3>6, <3>7 DEF FlowState
  <2>2. IsFiniteSet(X)
    BY <1>2, TableFacts
  <2>3. SumFunctionOnSet(Used(share(l)), X) <= Bandwidth[l]
    <3>1. Spare(Bandwidth[l], on(l), X) = Bandwidth[l]
      <4>1. X \ X = {}
        OBVIOUS
      <4> QED
        BY <1>6, <4>1, SumEmpty DEF Spare
    <3> QED
      BY <1>3, <3>1 DEF FairlyShared
  <2>4. remaining_bandwidth(l, t) = Bandwidth[l] - SumFunctionOnSet(Used(t), X)
    BY <1>11 DEF remaining_bandwidth, OnLink
  <2> DEFINE a == SumFunctionOnSet(Used(t), X)
             c == SumFunctionOnSet(Used(share(l)), X)
  <2> HIDE DEF X
  <2>5. a \in Int /\ c \in Int /\ a <= c
    BY <2>1, <2>2, SumMonotone, SumType
  <2> HIDE DEF a, c
  <2>6. c <= Bandwidth[l] /\ remaining_bandwidth(l, t) = Bandwidth[l] - a /\ Bandwidth[l] \in Nat
    BY <1>6, <2>3, <2>4 DEF a, c
  <2> QED
    BY <2>5, <2>6
<1>13. ASSUME NEW g \in DOMAIN t, Path[g] \cap Path[f] # {}
       PROVE  t[g].authorized >=
                Min({MaxBandwidth[g]} \cup {Part(l, t) : l \in Path[g] \cap Path[f]})
  <2> DEFINE T == {MaxBandwidth[g]} \cup {Part(l, t) : l \in Path[g] \cap Path[f]}
  <2>1. g \in DOMAIN new
    <3>1. PICK l \in Path[g] \cap Path[f] : TRUE
      BY <1>13
    <3>2. g \in OnLink(l, t)
      BY <3>1 DEF OnLink
    <3> QED
      BY <1>11, <3>1, <3>2
  <2>2. PICK l \in Path[f] : g \in DOMAIN on(l) /\ new[g] = share(l)[g]
    BY <1>4, <2>1
  <2>3. l \in Path[g] \cap Path[f]
    BY <1>11, <2>2 DEF OnLink
  <2>4. t[g] = share(l)[g]
    BY <1>7, <2>1, <2>2
  <2>5. /\ t[g].authorized >= Lesser(Part(l, t), MaxBandwidth[g])
        /\ MaxBandwidth[g] \in Nat /\ t[g].authorized \in Nat
    BY <1>9, <1>11, <2>2, <2>4 DEF Part, StateOf, FlowState
  <2>6. ASSUME NEW k \in Path[g] \cap Path[f] PROVE Part(k, t) \in Nat
    <3>1. g \in OnLink(k, t)
      BY DEF OnLink
    <3>2. IsFiniteSet(OnLink(k, t))
      BY <1>10, TableFacts, FS_Subset DEF OnLink
    <3>3. Cardinality(OnLink(k, t)) \in Nat /\ Cardinality(OnLink(k, t)) > 0
      BY <3>1, <3>2, FS_CardinalityType, FS_EmptySet
    <3>4. Bandwidth[k] \in Nat
      BY <1>6
    <3> QED
      BY <3>3, <3>4, DivMod DEF Part
  <2>7. T \subseteq Nat /\ MaxBandwidth[g] \in T /\ Part(l, t) \in T
    BY <2>3, <2>5, <2>6
  <2>8. Min(T) \in Nat /\ Min(T) <= MaxBandwidth[g] /\ Min(T) <= Part(l, t)
    <3> HIDE DEF T
    <3> QED
      BY <2>7, MinIs
  <2>9. Part(l, t) \in Nat
    BY <2>3, <2>6
  <2> HIDE DEF T
  <2>10. t[g].authorized >= Min(T)
    BY <2>5, <2>8, <2>9 DEF Lesser
  <2> QED
    BY <2>10 DEF T
<1>14. SharedAlong(f, t)
  BY <1>12, <1>13 DEF SharedAlong
<1>15. UsedAsBefore(f, state, active, t)
  <2> SUFFICES ASSUME NEW g \in DOMAIN t
               PROVE  \/ t[g].used = (IF g = f THEN state ELSE active[g]).used
                      \/ t[g].used = t[g].authorized /\ Path[g] \cap Path[f] # {}
    BY DEF UsedAsBefore
  <2>1. CASE g \in DOMAIN new
    <3>1. PICK l \in Path[f] : g \in DOMAIN on(l) /\ new[g] = share(l)[g]
      BY <1>4, <2>1
    <3>2. l \in Path[g] \cap Path[f]
      BY <1>11, <3>1 DEF OnLink
    <3>3. t[g] = share(l)[g]
      BY <1>7, <2>1, <3>1
    <3>4. Kept(base(g), t[g]) \/ Cut(base(g), t[g])
      BY <1>9, <3>1, <3>3
    <3>5. base(g).used = (IF g = f THEN state ELSE active[g]).used
      BY <1>1
    <3> HIDE DEF base
    <3> QED
      BY <3>2, <3>4, <3>5 DEF Kept, Cut
  <2>2. CASE g \notin DOMAIN new
    <3>1. PICK l \in Path[f] : TRUE
      BY <1>6
    <3>2. f \in DOMAIN t => f \in DOMAIN on(l)
      BY <1>2, <1>8
    <3>3. g # f
      BY <1>3, <2>2, <3>1, <3>2
    <3>4. t[g] = active[g]
      BY <1>7, <2>2
    <3> QED
      BY <3>3, <3>4
  <2> QED
    BY <2>1, <2>2
<1> QED
  BY <1>8, <1>10, <1>14, <1>15 DEF t, new

\* UpdateFlows, RemoveFlow: what the two calls of the flow loop leave.
Updated(t, flows, f, state, active) ==
  /\ t \in Tables /\ DOMAIN t = flows
  /\ SharedAlong(f, t) /\ UsedAsBefore(f, state, active, t)

\* update_flows: a flow that sends is shared along its path.
THEOREM UpdateFlows ==
  ASSUME NEW active \in Tables, NEW f \in Flow, NEW state \in StateOf(f), state.used # 0
  PROVE  Updated(update_flows(active, f, state), DOMAIN active \cup {f}, f, state, active)
<1> DEFINE t == Extend(update_active_flows(f, state, active), active)
<1>1. /\ t \in Tables /\ SharedAlong(f, t) /\ UsedAsBefore(f, state, active, t)
      /\ DOMAIN t = DOMAIN active \cup (IF state.used = 0 THEN {} ELSE {f})
  BY UpdateFair
<1>2. update_flows(active, f, state) = t
  BY DEF update_flows
<1> HIDE DEF t
<1> QED
  BY <1>1, <1>2 DEF Updated

\* remove_flow: a flow that sends nothing any more is gone, one that does stays.
THEOREM RemoveFlow ==
  ASSUME NEW active \in Tables, NEW f \in Flow, NEW state \in StateOf(f)
  PROVE  Updated(remove_flow(active, f, state),
                 (DOMAIN active \ {f}) \cup (IF state.used = 0 THEN {} ELSE {f}),
                 f, state, active)
<1> DEFINE others == Restrict(active, DOMAIN active \ {f})
           t == Extend(update_active_flows(f, state, others), others)
<1>1. others = [g \in DOMAIN active \ {f} |-> active[g]]
  BY DEF Restrict
<1>2. /\ others \in Tables /\ DOMAIN others = DOMAIN active \ {f} /\ f \notin DOMAIN others
      /\ \A g \in DOMAIN others : others[g] = active[g]
  BY <1>1, TableEntry
<1>3. remove_flow(active, f, state) = t
  BY DEF remove_flow
<1> HIDE DEF others
<1>4. /\ t \in Tables /\ SharedAlong(f, t) /\ UsedAsBefore(f, state, others, t)
      /\ DOMAIN t = DOMAIN others \cup (IF state.used = 0 THEN {} ELSE {f})
  BY <1>2, UpdateFair
<1> HIDE DEF t
<1>5. UsedAsBefore(f, state, active, t)
  BY <1>2, <1>4 DEF UsedAsBefore
<1> QED
  BY <1>2, <1>3, <1>4, <1>5 DEF Updated

-----------------------------------------------------------------------------
\* Flows removed one after the other

NoneStarved(t) == \A f \in DOMAIN t : t[f].used > 0

\* An update starves no flow where links are wide enough.
LEMMA UpdatedNotStarved ==
  ASSUME WideLinks, NEW active \in Tables, NEW f \in Flow, NEW state \in StateOf(f),
         NEW t, NEW flows, Updated(t, flows, f, state, active),
         flows \subseteq DOMAIN active \cup {f},
         NoneStarved(active), f \in flows => state.used > 0
  PROVE  NoneStarved(t)
<1> SUFFICES ASSUME NEW g \in DOMAIN t PROVE t[g].used > 0
  BY DEF NoneStarved
<1>1. t \in Tables /\ DOMAIN t = flows /\ SharedAlong(f, t) /\ UsedAsBefore(f, state, active, t)
  BY DEF Updated
<1>2. CASE t[g].used = (IF g = f THEN state ELSE active[g]).used
  BY <1>1, <1>2 DEF NoneStarved
<1>3. CASE t[g].used = t[g].authorized /\ Path[g] \cap Path[f] # {}
  <2> DEFINE T == {MaxBandwidth[g]} \cup {Part(l, t) : l \in Path[g] \cap Path[f]}
  <2>1. g \in Flow /\ MaxBandwidth[g] \in Nat /\ t[g].authorized \in Nat
    BY <1>1, TableFacts
  <2>2. t[g].authorized >= Min(T)
    BY <1>1, <1>3 DEF SharedAlong
  <2>3. ASSUME NEW l \in Path[g] \cap Path[f] PROVE Part(l, t) \in Nat /\ Part(l, t) > 0
    <3> DEFINE X == OnLink(l, t)
    <3>1. X \subseteq Flow /\ g \in X
      BY <1>1, <2>1, TableEntry DEF OnLink
    <3>2. IsFiniteSet(X) /\ Cardinality(X) <= Cardinality(Flow) /\ Cardinality(Flow) \in Nat
      BY <3>1, Links, FS_Subset, FS_CardinalityType
    <3>3. Cardinality(X) \in Nat /\ Cardinality(X) > 0
      BY <3>1, <3>2, FS_EmptySet, FS_CardinalityType
    <3>4. Bandwidth[l] \in Nat /\ Bandwidth[l] >= Cardinality(Flow)
      BY <2>1, Links DEF WideLinks
    <3> DEFINE k == Cardinality(X)
    <3>5. k \in Nat /\ k > 0 /\ 1 * k <= Bandwidth[l] /\ Part(l, t) = Bandwidth[l] \div k
      BY <3>2, <3>3, <3>4 DEF Part
    <3> HIDE DEF k
    <3> QED
      BY <3>4, <3>5, DivIsLargest, DivMod
  <2>4. MaxBandwidth[g] > 0
    BY <2>1 DEF WideLinks
  <2>5. T \subseteq Nat /\ T # {} /\ \A x \in T : x > 0
    BY <2>1, <2>3, <2>4
  <2> HIDE DEF T
  <2>6. Min(T) \in T
    BY <2>5, MinIs
  <2>7. Min(T) > 0 /\ Min(T) \in Nat
    BY <2>5, <2>6
  <2> QED
    BY <1>3, <2>1, <2>2, <2>7
<1> QED
  BY <1>1, <1>2, <1>3 DEF UsedAsBefore

\* The state after the removals of all the flows with a place in s.
Starving(active, order, s) == {g \in DOMAIN active : /\ active[g].used = 0
                                                     /\ \E i \in s : order[i] = g}

RemovedAt(active, order, s, t) ==
  /\ t \in Tables
  /\ DOMAIN t = DOMAIN active \ Starving(active, order, s)
  /\ s = {} => t = active
  /\ s # {} => SharedAlong(order[Max(s)], t)
  /\ WideLinks /\ NoneStarved(active) => NoneStarved(t)

Removal(active, acc, f) ==
  IF f \in DOMAIN acc THEN remove_flow(acc, f, active[f]) ELSE acc

RemovalStep(active, order, F, s) ==
  IF s = {} THEN active ELSE Removal(active, F[s \ {Max(s)}], order[Max(s)])

Removals(active, order) ==
  {F \in [SUBSET DOMAIN order -> Tables] :
     /\ F[DOMAIN order] = remove_all_flows_from(active, order)
     /\ \A s \in SUBSET DOMAIN order : F[s] = RemovalStep(active, order, F, s)}

\* To remove a flow updates the flows on its links.
LEMMA RemovalType ==
  ASSUME NEW active \in Tables, NEW acc \in Tables, NEW f \in DOMAIN active
  PROVE  /\ Removal(active, acc, f) \in Tables
         /\ f \in DOMAIN acc =>
              Updated(Removal(active, acc, f),
                      (DOMAIN acc \ {f}) \cup (IF active[f].used = 0 THEN {} ELSE {f}),
                      f, active[f], acc)
<1>1. f \in Flow /\ active[f] \in StateOf(f)
  BY TableEntry
<1>2. Updated(remove_flow(acc, f, active[f]),
              (DOMAIN acc \ {f}) \cup (IF active[f].used = 0 THEN {} ELSE {f}),
              f, active[f], acc)
  BY <1>1, RemoveFlow
<1> QED
  BY <1>2 DEF Removal, Updated

\* The loop over the flows to remove exists.
LEMMA RemovalsExist ==
  ASSUME NEW active \in Tables, NEW order, NEW n \in Nat,
         order \in [1..n -> DOMAIN active]
  PROVE  \E F : F \in Removals(active, order)
<1> DEFINE D == DOMAIN order
           M == [s \in SUBSET D |-> IF s = {} THEN {} ELSE {Max(s)}]
           G == [s \in SUBSET D |-> [v \in Tables |->
                   IF s = {} THEN active ELSE Removal(active, v, order[Max(s)])]]
           B == [s \in SUBSET D |-> active]
           Body(F, s) == RemovalStep(active, order, F, s)
<1>1. D = 1..n /\ IsFiniteSet(D)
  <2>1. D = 1..n
    OBVIOUS
  <2>2. IsFiniteSet(1..n)
    BY FS_Interval
  <2> QED
    BY <2>1, <2>2
<1>2. \A s \in SUBSET D : s # {} => Max(s) \in s /\ order[Max(s)] \in DOMAIN active
  BY <1>1, MaxOfIndices
<1>3. /\ M \in [SUBSET D -> SUBSET D] /\ \A s \in SUBSET D : M[s] \subseteq s
      /\ G \in [SUBSET D -> [Tables -> Tables]]
      /\ B \in [SUBSET D -> Tables]
  <2>1. ASSUME NEW s \in SUBSET D, NEW v \in Tables
        PROVE  (IF s = {} THEN active ELSE Removal(active, v, order[Max(s)])) \in Tables
    BY <1>2, RemovalType
  <2> HIDE DEF D
  <2> QED
    BY <1>2, <2>1
<1>4. PICK F : F \in Recursive(D, Tables, M, G, B)
  <2> HIDE DEF M, G, B, D
  <2> QED
    BY <1>1, <1>3, RecursiveExists
<1>5. F \in [SUBSET D -> Tables]
  BY <1>4 DEF Recursive
<1>6. ASSUME NEW s \in SUBSET D PROVE F[s] = Body(F, s)
  <2>1. F[s] = IF M[s] = {} THEN B[s] ELSE G[s][F[s \ M[s]]]
    <3> HIDE DEF M, G, B, D
    <3> QED
      BY <1>4 DEF Recursive
  <2>2. CASE s = {}
    <3>1. M[s] = {} /\ B[s] = active
      BY <2>2
    <3> HIDE DEF M, G, B, D
    <3> QED
      BY <2>1, <2>2, <3>1 DEF RemovalStep
  <2>3. CASE s # {}
    <3>1. M[s] = {Max(s)} /\ s \ {Max(s)} \in SUBSET D
      BY <2>3
    <3>2. F[s \ {Max(s)}] \in Tables
      <4> HIDE DEF D
      <4> QED
        BY <1>5, <3>1
    <3>3. G[s][F[s \ {Max(s)}]] = Removal(active, F[s \ {Max(s)}], order[Max(s)])
      <4> HIDE DEF D
      <4> QED
        BY <2>3, <3>2
    <3> HIDE DEF M, G, B, D
    <3> QED
      BY <2>1, <2>3, <3>1, <3>3 DEF RemovalStep
  <2> QED
    BY <2>2, <2>3
<1> DEFINE Is(H) == H = [s \in SUBSET D |-> Body(H, s)]
           H == CHOOSE H : Is(H)
<1>7. Is(F)
  <2> HIDE DEF Body, D
  <2> QED
    BY <1>5, <1>6
<1>8. Is(H)
  BY <1>7
<1>9. \A s \in SUBSET D : H[s] = Body(H, s)
  <2> HIDE DEF H, Body, D
  <2> QED
    BY <1>8
<1>10. H[D] = F[D]
  <2> DEFINE P == {s \in SUBSET D : H[s] = F[s]}
  <2>1. ASSUME NEW s \in SUBSET D, \A t \in SUBSET D : t \subseteq s /\ t # s => t \in P
        PROVE  s \in P
    <3>1. CASE s = {}
      <4> HIDE DEF H, D
      <4> QED
        BY <3>1, <1>6, <1>9 DEF RemovalStep
    <3>2. CASE s # {}
      <4> DEFINE t == s \ {Max(s)}
      <4>1. t \in SUBSET D /\ t \subseteq s /\ t # s
        BY <1>2, <3>2
      <4>2. H[t] = F[t]
        BY <2>1, <4>1
      <4>3. /\ H[s] = Removal(active, H[t], order[Max(s)])
            /\ F[s] = Removal(active, F[t], order[Max(s)])
        <5> HIDE DEF H, D
        <5> QED
          BY <3>2, <1>6, <1>9 DEF RemovalStep
      <4> HIDE DEF H, D, t
      <4> QED
        BY <4>2, <4>3
    <3> QED
      BY <3>1, <3>2
  <2>2. \A s \in SUBSET D : s \in P
    <3>1. IsFiniteSet(D)
      BY <1>1
    <3> HIDE DEF P, D
    <3> QED
      BY <2>1, <3>1, SubsetInduction
  <2> QED
    BY <2>2
<1>11. remove_all_flows_from(active, order) = H[D]
  BY DEF remove_all_flows_from, FoldLeft, MapThenFoldSet, RemovalStep, Removal
<1>12. F \in Removals(active, order)
  <2> HIDE DEF H
  <2> QED
    BY <1>5, <1>6, <1>10, <1>11 DEF Removals
<1> QED
  BY <1>12

\* RemoveAll: what Quit and Crash leave of the active flows, in whatever order the
\* flows are removed.
THEOREM RemoveAll ==
  ASSUME NEW active \in Tables, NEW S \in SUBSET DOMAIN active, NEW order \in SetToSeqs(S)
  PROVE  LET t == remove_all_flows_from(active, order)
         IN  /\ t \in Tables
             /\ DOMAIN t = DOMAIN active \ {g \in ToSet(order) : active[g].used = 0}
             /\ ToSet(order) \subseteq S
             /\ order = << >> => t = active
             /\ order # << >> => Last(order) \in S /\ SharedAlong(Last(order), t)
             /\ WideLinks /\ NoneStarved(active) => NoneStarved(t)
<1> DEFINE D == DOMAIN order
           n == Cardinality(S)
           t == remove_all_flows_from(active, order)
<1>1. /\ n \in Nat /\ order \in [1..n -> S] /\ D = 1..n /\ Len(order) = n
      /\ \A i, j \in 1..n : i # j => order[i] # order[j]
      /\ ToSet(order) \subseteq S
      /\ order # << >> => n > 0
  <2>1. IsFiniteSet(S)
    BY TableFacts, FS_Subset
  <2> QED
    BY <2>1, OrderIs
<1> HIDE DEF n
<1>2. order \in [1..n -> DOMAIN active]
  BY <1>1
<1>3. PICK F : F \in Removals(active, order)
  BY <1>1, <1>2, RemovalsExist
<1>4. /\ F \in [SUBSET D -> Tables] /\ F[D] = t
      /\ \A s \in SUBSET D : F[s] = RemovalStep(active, order, F, s)
  BY <1>3 DEF Removals
<1> HIDE DEF t
<1> DEFINE P == {s \in SUBSET D : RemovedAt(active, order, s, F[s])}
<1>5. ASSUME NEW s \in SUBSET D, \A u \in SUBSET D : u \subseteq s /\ u # s => u \in P
      PROVE  s \in P
  <2>1. CASE s = {}
    <3>1. F[s] = active
      BY <1>4, <2>1 DEF RemovalStep
    <3>2. Starving(active, order, s) = {}
      BY <2>1 DEF Starving
    <3> QED
      BY <2>1, <3>1, <3>2 DEF RemovedAt
  <2>2. CASE s # {}
    <3> DEFINE i == Max(s)
               u == s \ {i}
               f == order[i]
               acc == F[u]
               new == F[s]
    <3>1. i \in s /\ i \in 1..n /\ f \in DOMAIN active
      BY <1>1, <1>2, <2>2, MaxOfIndices
    <3>2. u \in SUBSET D /\ u \subseteq s /\ u # s
      BY <3>1
    <3>3. RemovedAt(active, order, u, acc)
      BY <1>5, <3>2
    <3>4. new = Removal(active, acc, f)
      BY <1>4, <2>2 DEF RemovalStep
    <3>5. acc \in Tables /\ DOMAIN acc = DOMAIN active \ Starving(active, order, u)
      BY <3>3 DEF RemovedAt
    <3>6. f \notin Starving(active, order, u)
      BY <1>1, <3>1 DEF Starving
    <3>7. f \in DOMAIN acc
      BY <3>1, <3>5, <3>6
    <3>8. Updated(new, (DOMAIN acc \ {f}) \cup (IF active[f].used = 0 THEN {} ELSE {f}),
                  f, active[f], acc)
      <4> HIDE DEF acc, f, new
      <4> QED
        BY <3>1, <3>4, <3>5, <3>7, RemovalType
    <3>9. Starving(active, order, s)
            = Starving(active, order, u) \cup (IF active[f].used = 0 THEN {f} ELSE {})
      BY <3>1 DEF Starving
    <3>10. new \in Tables /\ SharedAlong(f, new)
           /\ DOMAIN new = DOMAIN active \ Starving(active, order, s)
      <4> HIDE DEF acc, f, new, u
      <4> QED
        BY <3>1, <3>5, <3>6, <3>8, <3>9 DEF Updated
    <3>11. WideLinks /\ NoneStarved(active) => NoneStarved(new)
      <4> SUFFICES ASSUME WideLinks, NoneStarved(active) PROVE NoneStarved(new)
        OBVIOUS
      <4>1. NoneStarved(acc)
        BY <3>3 DEF RemovedAt
      <4>2. f \in Flow /\ active[f] \in StateOf(f)
        BY <3>1, TableEntry
      <4>3. active[f].used > 0
        BY <3>1 DEF NoneStarved
      <4> DEFINE flows == (DOMAIN acc \ {f}) \cup (IF active[f].used = 0 THEN {} ELSE {f})
      <4>4. flows \subseteq DOMAIN acc \cup {f} /\ Updated(new, flows, f, active[f], acc)
        BY <3>8
      <4> HIDE DEF acc, f, new, flows
      <4> QED
        BY <3>5, <4>1, <4>2, <4>3, <4>4, UpdatedNotStarved
    <3> HIDE DEF new
    <3>12. RemovedAt(active, order, s, new)
      BY <2>2, <3>10, <3>11 DEF RemovedAt
    <3> QED
      BY <3>12 DEF new
  <2> QED
    BY <2>1, <2>2
<1>6. \A s \in SUBSET D : s \in P
  <2>1. IsFiniteSet(D)
    BY <1>1, FS_Interval
  <2> HIDE DEF P, D
  <2> QED
    BY <1>5, <2>1, SubsetInduction
<1>7. RemovedAt(active, order, D, t)
  BY <1>4, <1>6
<1>8. Starving(active, order, D) = {g \in ToSet(order) : active[g].used = 0}
  BY <1>2 DEF Starving, ToSet
<1>9. order = << >> => D = {}
  OBVIOUS
<1>10. ASSUME order # << >> PROVE D # {} /\ order[Max(D)] = Last(order) /\ Last(order) \in S
  <2>1. n > 0
    BY <1>1, <1>10
  <2>2. n \in D /\ D \in SUBSET (1..n) /\ D # {}
    <3>1. D = 1..n /\ n \in 1..n
      BY <1>1, <2>1
    <3> HIDE DEF D
    <3> QED
      BY <3>1
  <2>3. Max(D) \in D /\ \A y \in D : Max(D) >= y
    <3> HIDE DEF D
    <3> QED
      BY <1>1, <2>2, MaxOfIndices
  <2>4. Max(D) = n
    <3> DEFINE m == Max(D)
    <3>1. m \in 1..n /\ m >= n
      BY <1>1, <2>2, <2>3
    <3> HIDE DEF m
    <3>2. m = n
      BY <1>1, <3>1
    <3> QED
      BY <3>2 DEF m
  <2> QED
    BY <1>1, <2>2, <2>4 DEF Last
<1>11. /\ t \in Tables
       /\ DOMAIN t = DOMAIN active \ {g \in ToSet(order) : active[g].used = 0}
       /\ order = << >> => t = active
       /\ order # << >> => SharedAlong(Last(order), t)
       /\ WideLinks /\ NoneStarved(active) => NoneStarved(t)
  BY <1>7, <1>8, <1>9, <1>10 DEF RemovedAt
<1> QED
  BY <1>1, <1>10, <1>11 DEF t

-----------------------------------------------------------------------------
(***************************************************************************)
(* Types, and what is known of the path that was shared last.               *)
(***************************************************************************)
TablesOK ==
  /\ active_flows \in [Host -> Tables]
  /\ shared \in [Host -> Flow \cup {NoFlow}]
  /\ \A c \in Host : shared[c] # NoFlow => SharedAlong(shared[c], active_flows[c])

Rates == {r \in [Flow -> Int] : \A f \in Flow : r[f] = None \/ r[f] \in 0..MaxBandwidth[f]}

ReportersOK == rate \in Rates /\ tc_handler \in [App -> BOOLEAN]

LoopsOK ==
  /\ status \in [App -> {"NotInit", "Running", "Stopped", "Crashed"}]
  /\ core \in [Host -> {"running", "ended", "failed", "dropped"}]
  /\ emanager \in [Host -> BOOLEAN]
  /\ events \subseteq UNION Schedules

Message == [to : Host, flow : Flow, throughput : Throughput \cup {None}, n : Nat]

NetOK ==
  /\ sent \in [Flow -> Nat]
  /\ net \subseteq Message
  /\ \A m \in net : m.to # Source(m.flow) /\ m.n \in 1..sent[m.flow]

Typed == TablesOK /\ ReportersOK /\ LoopsOK /\ NetOK

\* No flows at all.
LEMMA EmptyTable == << >> \in Tables /\ DOMAIN << >> = {} /\ NoneStarved(<< >>)
<1>1. DOMAIN << >> = {} /\ << >> = [f \in DOMAIN << >> |-> << >>[f]]
  OBVIOUS
<1> QED
  BY <1>1, TableEntry DEF NoneStarved

\* Typed holds initially.
LEMMA TypedInit == Init => Typed
<1> SUFFICES ASSUME Init PROVE Typed
  OBVIOUS
<1>1. << >> \in Tables
  BY EmptyTable
<1>2. TablesOK
  BY <1>1 DEF Init, TablesOK
<1>3. ReportersOK
  BY DEF Init, ReportersOK, Rates, None
<1>4. LoopsOK /\ NetOK
  BY DEF Init, LoopsOK, NetOK
<1> QED
  BY <1>2, <1>3, <1>4 DEF Typed

\* The use that is noted of a flow is within its bandwidth.
LEMMA UsedBandwidthType ==
  ASSUME NEW f \in Flow, NEW throughput \in Throughput \cup {None}
  PROVE  /\ UsedBandwidth(f, throughput) \in Nat
         /\ build(UsedBandwidth(f, throughput)) \in StateOf(f)
         /\ build(UsedBandwidth(f, throughput)).used = UsedBandwidth(f, throughput)
<1> DEFINE u == UsedBandwidth(f, throughput)
<1>1. MaxBandwidth[f] \in Nat
  BY MaxBandwidthType
<1>2. u \in Nat /\ u <= MaxBandwidth[f]
  BY <1>1, Inputs DEF UsedBandwidth, Lesser
<1> HIDE DEF u
<1>3. build(u) \in StateOf(f) /\ build(u).used = u
  BY <1>1, <1>2 DEF build, StateOf, FlowState
<1> QED
  BY <1>2, <1>3 DEF u

\* A flow update at one core, on the flows.
UpdatedAt(c, f, throughput) ==
  /\ DOMAIN active_flows'[c] = IF UsedBandwidth(f, throughput) # 0
                               THEN DOMAIN active_flows[c] \cup {f}
                               ELSE DOMAIN active_flows[c] \ {f}
  /\ \A h \in Host \ {c} : active_flows'[h] = active_flows[h]
  /\ WideLinks /\ NoneStarved(active_flows[c]) => NoneStarved(active_flows'[c])

\* FlowUpdate keeps the tables, updates that of one core and its rates.
LEMMA FlowUpdateTables ==
  ASSUME TablesOK, NEW c \in Host, NEW f \in Flow,
         NEW throughput \in Throughput \cup {None}, FlowUpdate(c, f, throughput)
  PROVE  /\ TablesOK' /\ UpdatedAt(c, f, throughput)
         /\ UpdateRates(c, active_flows'[c],
                        IF UsedBandwidth(f, throughput) = 0 /\ Source(f) = c
                        THEN TCUpdate(rate, f, MaxBandwidth[f]) ELSE rate)
<1> DEFINE used == UsedBandwidth(f, throughput)
           old == active_flows[c]
           new == IF used # 0 THEN update_flows(old, f, build(used))
                  ELSE IF f \in DOMAIN old THEN remove_flow(old, f, build(0)) ELSE old
<1>1. /\ active_flows' = [active_flows EXCEPT ![c] = new]
      /\ shared' = IF used # 0 \/ f \in DOMAIN old THEN [shared EXCEPT ![c] = f] ELSE shared
      /\ UpdateRates(c, new, IF used = 0 /\ Source(f) = c
                             THEN TCUpdate(rate, f, MaxBandwidth[f]) ELSE rate)
  BY DEF FlowUpdate
<1>2. used \in Nat /\ build(used) \in StateOf(f) /\ build(used).used = used
  BY UsedBandwidthType
<1>3. old \in Tables /\ active_flows'[c] = new /\ \A h \in Host \ {c} : active_flows'[h] = active_flows[h]
  BY <1>1 DEF TablesOK
<1> DEFINE flows == IF used # 0 THEN DOMAIN old \cup {f} ELSE DOMAIN old \ {f}
<1>4. used # 0 \/ f \in DOMAIN old => Updated(new, flows, f, build(used), old)
  <2>1. CASE used # 0
    <3>1. new = update_flows(old, f, build(used)) /\ flows = DOMAIN old \cup {f}
      BY <2>1
    <3> HIDE DEF new, flows, used, old
    <3> QED
      BY <1>2, <1>3, <2>1, <3>1, UpdateFlows
  <2>2. CASE used = 0 /\ f \in DOMAIN old
    <3>1. /\ new = remove_flow(old, f, build(used))
          /\ flows = (DOMAIN old \ {f}) \cup (IF build(used).used = 0 THEN {} ELSE {f})
      BY <1>2, <2>2
    <3> HIDE DEF new, flows, used, old
    <3> QED
      BY <1>2, <1>3, <3>1, RemoveFlow
  <2> QED
    BY <2>1, <2>2
<1>5. ASSUME ~(used # 0 \/ f \in DOMAIN old) PROVE new = old /\ flows = DOMAIN old
  BY <1>5
<1> HIDE DEF new
<1>6. new \in Tables /\ DOMAIN new = flows
  BY <1>3, <1>4, <1>5 DEF Updated
<1>7. WideLinks /\ NoneStarved(old) => NoneStarved(new)
  <2> SUFFICES ASSUME WideLinks, NoneStarved(old) PROVE NoneStarved(new)
    OBVIOUS
  <2>1. CASE used # 0 \/ f \in DOMAIN old
    <3>1. flows \subseteq DOMAIN old \cup {f} /\ (f \in flows => build(used).used > 0)
      BY <1>2
    <3> HIDE DEF flows, used, old
    <3>2. Updated(new, flows, f, build(used), old)
      BY <1>4, <2>1
    <3> QED
      BY <1>2, <1>3, <3>1, <3>2, UpdatedNotStarved
  <2>2. CASE ~(used # 0 \/ f \in DOMAIN old)
    BY <1>5, <2>2
  <2> QED
    BY <2>1, <2>2
<1>8. UpdatedAt(c, f, throughput)
  BY <1>3, <1>6, <1>7 DEF UpdatedAt
<1>9. TablesOK'
  <2>1. active_flows' \in [Host -> Tables]
    BY <1>1, <1>6 DEF TablesOK
  <2>2. shared' \in [Host -> Flow \cup {NoFlow}]
    BY <1>1 DEF TablesOK
  <2>3. ASSUME NEW h \in Host, shared'[h] # NoFlow
        PROVE  SharedAlong(shared'[h], active_flows'[h])
    <3>1. CASE h = c /\ (used # 0 \/ f \in DOMAIN old)
      <4>1. shared'[h] = f /\ active_flows'[h] = new
        BY <1>1, <1>3, <3>1 DEF TablesOK
      <4> QED
        BY <1>4, <3>1, <4>1 DEF Updated
    <3>2. CASE h = c /\ ~(used # 0 \/ f \in DOMAIN old)
      <4>1. shared'[h] = shared[h] /\ active_flows'[h] = active_flows[h]
        BY <1>1, <1>3, <1>5, <3>2
      <4> QED
        BY <2>3, <4>1 DEF TablesOK
    <3>3. CASE h # c
      <4>1. shared'[h] = shared[h] /\ active_flows'[h] = active_flows[h]
        BY <1>1, <1>3, <3>3 DEF TablesOK
      <4> QED
        BY <2>3, <4>1 DEF TablesOK
    <3> QED
      BY <3>1, <3>2, <3>3
  <2> QED
    BY <2>1, <2>2, <2>3 DEF TablesOK
<1> QED
  BY <1>1, <1>3, <1>8, <1>9

\* Quit and Crash, on the flows.
LEMMA LeaveTables ==
  ASSUME TablesOK, NEW e, e.app \in App,
         NEW order \in SetToSeqs(Active(host[e.app]) \cap FlowsFrom(e.app)), Leave(e, order)
  PROVE  LET c == host[e.app]
             S == Active(c) \cap FlowsFrom(e.app)
         IN  /\ c \in Host /\ TablesOK'
             /\ ToSet(order) \subseteq S
             /\ DOMAIN active_flows'[c]
                  = DOMAIN active_flows[c] \ {g \in ToSet(order) : active_flows[c][g].used = 0}
             /\ \A h \in Host \ {c} : active_flows'[h] = active_flows[h]
             /\ WideLinks /\ NoneStarved(active_flows[c]) => NoneStarved(active_flows'[c])
             /\ kept' = kept \cup (ToSet(order) \cap DOMAIN active_flows'[c])
             /\ UpdateRates(c, active_flows'[c], rate)
<1> DEFINE c == host[e.app]
           old == active_flows[c]
           S == DOMAIN old \cap FlowsFrom(e.app)
           new == remove_all_flows_from(old, order)
<1>1. c \in Host
  BY Places
<1>2. old \in Tables /\ S \in SUBSET DOMAIN old /\ order \in SetToSeqs(S)
  BY <1>1 DEF TablesOK, Active
<1>3. /\ active_flows' = [active_flows EXCEPT ![c] = new]
      /\ shared' = IF order = << >> THEN shared ELSE [shared EXCEPT ![c] = Last(order)]
      /\ kept' = kept \cup (ToSet(order) \cap DOMAIN new)
      /\ UpdateRates(c, new, rate)
  BY DEF Leave
<1> HIDE DEF S
<1>4. /\ new \in Tables
      /\ DOMAIN new = DOMAIN old \ {g \in ToSet(order) : old[g].used = 0}
      /\ ToSet(order) \subseteq S
      /\ order = << >> => new = old
      /\ order # << >> => Last(order) \in S /\ SharedAlong(Last(order), new)
      /\ WideLinks /\ NoneStarved(old) => NoneStarved(new)
  <2> HIDE DEF old
  <2> QED
    BY <1>2, RemoveAll
<1> HIDE DEF new, c
<1>5. active_flows'[c] = new /\ \A h \in Host \ {c} : active_flows'[h] = active_flows[h]
  BY <1>1, <1>3 DEF TablesOK
<1>6. TablesOK'
  <2>1. active_flows' \in [Host -> Tables]
    BY <1>3, <1>4 DEF TablesOK
  <2>0. order # << >> => Last(order) \in Flow
    BY <1>4 DEF S, FlowsFrom
  <2>2. shared' \in [Host -> Flow \cup {NoFlow}]
    BY <1>3, <2>0 DEF TablesOK
  <2>3. ASSUME NEW h \in Host, shared'[h] # NoFlow
        PROVE  SharedAlong(shared'[h], active_flows'[h])
    <3>1. CASE h = c /\ order # << >>
      <4>1. shared'[h] = Last(order) /\ active_flows'[h] = new
        BY <1>3, <1>5, <3>1 DEF TablesOK
      <4> QED
        BY <1>4, <3>1, <4>1
    <3>2. CASE h # c \/ order = << >>
      <4>1. shared'[h] = shared[h] /\ active_flows'[h] = active_flows[h]
        BY <1>3, <1>4, <1>5, <3>2 DEF TablesOK
      <4> QED
        BY <2>3, <4>1 DEF TablesOK
    <3> QED
      BY <3>1, <3>2
  <2> QED
    BY <2>1, <2>2, <2>3 DEF TablesOK
<1>7. /\ c \in Host /\ TablesOK' /\ ToSet(order) \subseteq S
      /\ DOMAIN active_flows'[c]
           = DOMAIN active_flows[c] \ {g \in ToSet(order) : active_flows[c][g].used = 0}
      /\ \A h \in Host \ {c} : active_flows'[h] = active_flows[h]
      /\ WideLinks /\ NoneStarved(active_flows[c]) => NoneStarved(active_flows'[c])
      /\ kept' = kept \cup (ToSet(order) \cap DOMAIN active_flows'[c])
      /\ UpdateRates(c, active_flows'[c], rate)
  BY <1>1, <1>3, <1>4, <1>5, <1>6
<1> QED
  BY <1>7 DEF c, S, Active

\* What the reporters are told.
LEMMA TCUpdateType ==
  ASSUME NEW r \in Rates, NEW f \in Flow
  PROVE  TCUpdate(r, f, MaxBandwidth[f]) \in Rates
<1>1. MaxBandwidth[f] \in Nat
  BY MaxBandwidthType
<1> QED
  BY <1>1 DEF Rates, TCUpdate

\* Initial rates are rates.
LEMMA TCInitType ==
  ASSUME NEW a, rate \in Rates
  PROVE  TCInitAll(a) \in Rates
<1>1. \A f \in Flow : MaxBandwidth[f] \in Nat
  BY MaxBandwidthType
<1>2. \A f \in Flow : TCUpdate(rate, f, MaxBandwidth[f])[f]
                        = IF tc_handler[f[1]] THEN MaxBandwidth[f] ELSE rate[f]
  BY DEF TCUpdate, Rates
<1>3. TCInitAll(a) = [f \in Flow |-> IF f[1] = a THEN IF tc_handler[f[1]] THEN MaxBandwidth[f] ELSE rate[f]
                                     ELSE rate[f]]
  BY <1>2 DEF TCInitAll
<1> QED
  BY <1>1, <1>3 DEF Rates

\* Updated rates are rates.
LEMMA UpdateRatesType ==
  ASSUME NEW c, NEW t \in Tables, NEW r \in Rates, tc_handler \in [App -> BOOLEAN],
         UpdateRates(c, t, r)
  PROVE  ReportersOK'
<1>1. \A f \in DOMAIN t : t[f].authorized \in Nat /\ t[f].authorized <= MaxBandwidth[f]
                          /\ MaxBandwidth[f] \in Nat
  BY TableFacts
<1>2. rate' \in Rates
  BY <1>1 DEF UpdateRates, Local, Rates
<1>3. tc_handler' \in [App -> BOOLEAN]
  BY DEF UpdateRates
<1> QED
  BY <1>2, <1>3 DEF ReportersOK

\* Who is told of which flows.
Reaches(told, flows) ==
  DOMAIN told = flows /\ \A f \in flows : told[f] \subseteq Host \ {Source(f)}

\* A broadcast that succeeds reaches everybody else, one that does not somebody.
LEMMA ReachesAll ==
  ASSUME NEW flows \in SUBSET Flow
  PROVE  Reaches(ToAll(flows), flows) /\ \A f \in flows : ToAll(flows)[f] = Host \ {Source(f)}
BY DEF Reaches, ToAll, Others

LEMMA ReachesSome ==
  ASSUME NEW c, NEW flows \in SUBSET Flow, \A f \in flows : Source(f) = c,
         NEW told \in ToSome(c, flows)
  PROVE  Reaches(told, flows)
BY DEF Reaches, ToSome, Others

\* The others are told.
LEMMA BroadcastType ==
  ASSUME NetOK, NEW flows \in SUBSET Flow, NEW throughput \in Throughput \cup {None},
         NEW told, Reaches(told, flows), broadcast_flow(told, throughput)
  PROVE  /\ NetOK'
         /\ \A f \in Flow : sent'[f] = IF f \in flows THEN sent[f] + 1 ELSE sent[f]
         /\ net \subseteq net'
         /\ \A m \in net' \ net : /\ m.flow \in flows /\ m.throughput = throughput
                                  /\ m.n = sent'[m.flow]
         /\ \A f \in flows : \A c \in told[f] :
              [to |-> c, flow |-> f, throughput |-> throughput, n |-> sent'[f]] \in net'
<1> DEFINE msg(c, f) == [to |-> c, flow |-> f, throughput |-> throughput, n |-> sent'[f]]
<1>1. /\ sent' = [f \in Flow |-> IF f \in flows THEN sent[f] + 1 ELSE sent[f]]
      /\ net' = net \cup UNION {{msg(c, f) : c \in told[f]} : f \in flows}
      /\ \A f \in flows : told[f] \subseteq Host \ {Source(f)}
  BY DEF broadcast_flow, Reaches
<1>2. sent' \in [Flow -> Nat] /\ \A f \in Flow : sent[f] \in Nat /\ sent'[f] = IF f \in flows THEN sent[f] + 1 ELSE sent[f]
  BY <1>1 DEF NetOK
<1>3. ASSUME NEW m \in net' \ net
      PROVE  \E f \in flows : \E c \in Host \ {Source(f)} : m = msg(c, f)
  <2> HIDE DEF msg
  <2> QED
    BY <1>1
<1>4. \A f \in flows : \A c \in told[f] : msg(c, f) \in net'
  <2> HIDE DEF msg
  <2> QED
    BY <1>1
<1>5. \A m \in net' \ net : /\ m.flow \in flows /\ m.throughput = throughput
                            /\ m.n = sent'[m.flow] /\ m \in Message /\ m.to # Source(m.flow)
  <2> SUFFICES ASSUME NEW m \in net' \ net
               PROVE  /\ m.flow \in flows /\ m.throughput = throughput
                      /\ m.n = sent'[m.flow] /\ m \in Message /\ m.to # Source(m.flow)
    OBVIOUS
  <2>1. PICK f \in flows : \E c \in Host \ {Source(f)} : m = msg(c, f)
    BY <1>3
  <2>2. PICK c \in Host \ {Source(f)} : m = msg(c, f)
    BY <2>1
  <2>3. sent'[f] \in Nat
    BY <1>2
  <2> QED
    BY <2>2, <2>3 DEF Message
<1>6. NetOK'
  <2>1. net' \subseteq Message
    BY <1>5 DEF NetOK
  <2>2. ASSUME NEW m \in net' PROVE m.to # Source(m.flow) /\ m.n \in 1..sent'[m.flow]
    <3>1. CASE m \in net
      <4>1. m.flow \in Flow /\ m.to # Source(m.flow) /\ m.n \in 1..sent[m.flow]
        BY <3>1 DEF NetOK, Message
      <4> QED
        BY <1>2, <4>1
    <3>2. CASE m \notin net
      <4>1. m.flow \in flows /\ m.n = sent'[m.flow] /\ m.to # Source(m.flow)
        BY <1>5, <3>2
      <4>2. sent'[m.flow] = sent[m.flow] + 1 /\ sent[m.flow] \in Nat
        BY <1>2, <4>1
      <4> QED
        BY <4>1, <4>2
    <3> QED
      BY <3>1, <3>2
  <2> QED
    BY <1>2, <2>1, <2>2 DEF NetOK, Source, Message
<1> QED
  BY <1>1, <1>2, <1>4, <1>5, <1>6

\* An event is of an application that has a host.
LEMMA EventType ==
  ASSUME LoopsOK, NEW e \in events
  PROVE  e.app \in App /\ e.action \in {"Join", "Quit", "Crash"} /\ host[e.app] \in Host
BY Inputs, Places DEF LoopsOK

\* A flow starts at an application, on its host.
LEMMA SourceType ==
  ASSUME NEW f \in Flow
  PROVE  f[1] \in App /\ Source(f) \in Host
BY Places DEF Source

\* A loop that breaks off leaves no flows at its core, and the rest as it was.
LEMMA BreakOffIs ==
  ASSUME TablesOK, ReportersOK, LoopsOK, NEW c \in Host, BreakOff(c),
         events' \subseteq events
  PROVE  /\ TablesOK' /\ ReportersOK' /\ LoopsOK'
         /\ DOMAIN active_flows'[c] = {} /\ NoneStarved(active_flows'[c])
         /\ \A h \in Host \ {c} : active_flows'[h] = active_flows[h]
         /\ core'[c] = "failed" /\ \A h \in Host \ {c} : core'[h] = core[h]
         /\ UNCHANGED <<status, rate, tc_handler>>
<1>1. /\ active_flows' = [active_flows EXCEPT ![c] = << >>]
      /\ shared' = [shared EXCEPT ![c] = NoFlow]
      /\ core' = [core EXCEPT ![c] = "failed"]
      /\ UNCHANGED <<status, emanager, rate, tc_handler>>
  BY DEF BreakOff
<1>2. /\ active_flows'[c] = << >> /\ \A h \in Host \ {c} : active_flows'[h] = active_flows[h]
      /\ shared'[c] = NoFlow /\ \A h \in Host \ {c} : shared'[h] = shared[h]
      /\ core'[c] = "failed" /\ \A h \in Host \ {c} : core'[h] = core[h]
  BY <1>1 DEF TablesOK, LoopsOK
<1>3. TablesOK'
  <2>1. active_flows' \in [Host -> Tables] /\ shared' \in [Host -> Flow \cup {NoFlow}]
    BY <1>1, EmptyTable DEF TablesOK
  <2>2. ASSUME NEW h \in Host, shared'[h] # NoFlow
        PROVE  SharedAlong(shared'[h], active_flows'[h])
    <3>1. h # c /\ shared'[h] = shared[h] /\ active_flows'[h] = active_flows[h]
      BY <1>2, <2>2
    <3> QED
      BY <2>2, <3>1 DEF TablesOK
  <2> QED
    BY <2>1, <2>2 DEF TablesOK
<1>4. ReportersOK' /\ LoopsOK'
  BY <1>1 DEF ReportersOK, LoopsOK
<1> QED
  BY <1>1, <1>2, <1>3, <1>4, EmptyTable

\* The flows an application ends are flows of its host's core.
LEMMA EndedFlows ==
  ASSUME TablesOK, NEW a \in App
  PROVE  /\ Active(host[a]) \cap FlowsFrom(a) \in SUBSET Flow
         /\ \A f \in Active(host[a]) \cap FlowsFrom(a) : Source(f) = host[a]
BY DEF FlowsFrom, Source

\* Every step keeps Typed.
LEMMA TypedNext == Typed /\ [Next]_vars => Typed'
<1> SUFFICES ASSUME Typed, [Next]_vars PROVE Typed'
  OBVIOUS
<1>0. TablesOK /\ ReportersOK /\ LoopsOK /\ NetOK
  BY DEF Typed
<1>1. ASSUME NEW f \in Flow, NEW throughput \in Throughput \cup {None}, Report(f, throughput)
      PROVE  Typed'
  <2> DEFINE c == Source(f)
             r == IF UsedBandwidth(f, throughput) = 0 /\ Source(f) = c
                  THEN TCUpdate(rate, f, MaxBandwidth[f]) ELSE rate
  <2>1. c \in Host /\ FlowUpdate(c, f, throughput) /\ broadcast_flow(ToAll({f}), throughput)
        /\ UNCHANGED <<status, core, emanager, events>>
    BY <1>1, SourceType DEF Report, Measured
  <2>2. TablesOK' /\ UpdateRates(c, active_flows'[c], r)
    <3> HIDE DEF c
    <3> QED
      BY <1>0, <2>1, FlowUpdateTables
  <2>3. r \in Rates
    BY <1>0, TCUpdateType DEF ReportersOK
  <2>4. active_flows'[c] \in Tables
    BY <2>1, <2>2 DEF TablesOK
  <2>5. ReportersOK'
    <3> HIDE DEF r, c
    <3> QED
      BY <1>0, <2>2, <2>3, <2>4, UpdateRatesType DEF ReportersOK
  <2>6. NetOK'
    <3>1. {f} \in SUBSET Flow
      OBVIOUS
    <3> QED
      BY <1>0, <2>1, <3>1, ReachesAll, BroadcastType
  <2>7. LoopsOK'
    BY <1>0, <2>1 DEF LoopsOK
  <2> QED
    BY <2>2, <2>5, <2>6, <2>7 DEF Typed
<1>8. ASSUME NEW f \in Flow, NEW throughput \in Throughput \cup {None}, ReportFails(f, throughput)
      PROVE  Typed'
  <2> DEFINE c == Source(f)
  <2>1. c \in Host /\ BreakOff(c) /\ events' = events
    BY <1>8, SourceType DEF ReportFails, Measured
  <2>2. PICK told \in ToSome(c, {f}) : broadcast_flow(told, throughput)
    BY <1>8 DEF ReportFails
  <2>3. Reaches(told, {f}) /\ {f} \in SUBSET Flow
    BY <2>2, ReachesSome
  <2>4. NetOK'
    BY <1>0, <2>2, <2>3, BroadcastType
  <2> HIDE DEF c
  <2>5. TablesOK' /\ ReportersOK' /\ LoopsOK'
    BY <1>0, <2>1, BreakOffIs
  <2> QED
    BY <2>4, <2>5 DEF Typed
<1>9. ASSUME NEW e \in events, QuitOrCrashFails(e) PROVE Typed'
  <2> DEFINE a == e.app
             c == host[a]
             flows == Active(c) \cap FlowsFrom(a)
  <2>1. a \in App /\ c \in Host
    BY <1>0, EventType
  <2>2. BreakOff(c) /\ events' \subseteq events
    BY <1>9 DEF QuitOrCrashFails
  <2>3. PICK told \in ToSome(c, flows) : broadcast_flow(told, None)
    BY <1>9 DEF QuitOrCrashFails
  <2>4. flows \in SUBSET Flow /\ \A f \in flows : Source(f) = c
    BY <1>0, <2>1, EndedFlows
  <2> HIDE DEF flows, c
  <2>5. Reaches(told, flows)
    BY <2>3, <2>4, ReachesSome
  <2>6. NetOK'
    BY <1>0, <2>3, <2>4, <2>5, BroadcastType
  <2>7. TablesOK' /\ ReportersOK' /\ LoopsOK'
    BY <1>0, <2>1, <2>2, BreakOffIs
  <2> QED
    BY <2>6, <2>7 DEF Typed
<1>2. ASSUME NEW m \in net, Receive(m) PROVE Typed'
  <2> DEFINE c == m.to
             f == m.flow
             r == IF UsedBandwidth(f, m.throughput) = 0 /\ Source(f) = c
                  THEN TCUpdate(rate, f, MaxBandwidth[f]) ELSE rate
  <2>1. c \in Host /\ f \in Flow /\ m.throughput \in Throughput \cup {None}
        /\ FlowUpdate(c, f, m.throughput) /\ net' = net \ {m}
        /\ UNCHANGED <<status, core, emanager, events, sent>>
    BY <1>0, <1>2 DEF Receive, NetOK, Message
  <2>2. TablesOK' /\ UpdateRates(c, active_flows'[c], r)
    <3> HIDE DEF c, f
    <3> QED
      BY <1>0, <2>1, FlowUpdateTables
  <2>3. r \in Rates
    BY <1>0, <2>1, TCUpdateType DEF ReportersOK
  <2>4. active_flows'[c] \in Tables
    BY <2>1, <2>2 DEF TablesOK
  <2>5. ReportersOK'
    <3> HIDE DEF r, c
    <3> QED
      BY <1>0, <2>2, <2>3, <2>4, UpdateRatesType DEF ReportersOK
  <2>6. NetOK' /\ LoopsOK'
    BY <1>0, <2>1 DEF NetOK, LoopsOK, Source
  <2> QED
    BY <2>2, <2>5, <2>6 DEF Typed
<1>3. ASSUME NEW m \in net, ReceiveLate(m) PROVE Typed'
  <2>1. m.to \in Host
    BY <1>0 DEF NetOK, Message
  <2>2. LoopsOK' /\ NetOK'
    BY <1>0, <1>3, <2>1 DEF ReceiveLate, LoopsOK, NetOK, Source, history
  <2>3. TablesOK' /\ ReportersOK'
    BY <1>0, <1>3 DEF ReceiveLate, TablesOK, ReportersOK, history
  <2> QED
    BY <2>2, <2>3 DEF Typed
<1>4. ASSUME NEW e \in events, Join(e) PROVE Typed'
  <2> DEFINE a == e.app
             c == host[a]
             r == IF status[a] = "NotInit" THEN TCInitAll(a) ELSE rate
  <2>1. a \in App /\ c \in Host
    BY <1>0, EventType
  <2>2. UpdateRates(c, active_flows[c], r) /\ r \in Rates /\ active_flows[c] \in Tables
    BY <1>0, <1>4, <2>1, TCInitType DEF Join, ReportersOK, TablesOK
  <2>3. ReportersOK'
    <3> HIDE DEF r, c
    <3> QED
      BY <1>0, <2>2, UpdateRatesType DEF ReportersOK
  <2>4. LoopsOK'
    BY <1>0, <1>4, <2>1 DEF Join, LoopsOK
  <2>5. TablesOK' /\ NetOK'
    BY <1>0, <1>4 DEF Join, TablesOK, NetOK, Source, history
  <2> QED
    BY <2>3, <2>4, <2>5 DEF Typed
<1>5. ASSUME NEW e \in events, QuitOrCrash(e) PROVE Typed'
  <2> DEFINE a == e.app
             c == host[a]
  <2>1. a \in App /\ c \in Host
    BY <1>0, EventType
  <2>2. PICK order \in SetToSeqs(Active(c) \cap FlowsFrom(a)) : Leave(e, order)
    BY <1>5 DEF QuitOrCrash
  <2>3. /\ TablesOK' /\ ToSet(order) \subseteq Active(c) \cap FlowsFrom(a)
        /\ UpdateRates(c, active_flows'[c], rate)
    BY <1>0, <2>1, <2>2, LeaveTables
  <2>4. active_flows'[c] \in Tables /\ rate \in Rates
    BY <1>0, <2>1, <2>3 DEF TablesOK, ReportersOK
  <2>5. ReportersOK'
    <3> HIDE DEF c
    <3> QED
      BY <1>0, <2>3, <2>4, UpdateRatesType DEF ReportersOK
  <2>6. NetOK'
    <3>1. ToSet(order) \in SUBSET Flow /\ None \in Throughput \cup {None}
      BY <2>3 DEF FlowsFrom
    <3>2. broadcast_flow(ToAll(ToSet(order)), None)
      BY <2>2 DEF Leave
    <3> QED
      BY <1>0, <3>1, <3>2, ReachesAll, BroadcastType
  <2>7. LoopsOK'
    BY <1>0, <1>5, <2>1 DEF QuitOrCrash, LoopsOK
  <2> QED
    BY <2>3, <2>5, <2>6, <2>7 DEF Typed
<1>6. ASSUME NEW c \in Host, Fail(c) PROVE Typed'
  <2>1. BreakOff(c) /\ UNCHANGED <<events, net, sent>>
    BY <1>6 DEF Fail
  <2>2. TablesOK' /\ ReportersOK' /\ LoopsOK'
    BY <1>0, <2>1, BreakOffIs
  <2>3. NetOK'
    BY <1>0, <2>1 DEF NetOK, Source
  <2> QED
    BY <2>2, <2>3 DEF Typed
<1>10. ASSUME NEW c \in Host, Drop(c) PROVE Typed'
  <2>1. UNCHANGED <<active_flows, status, emanager, outside, history>>
        /\ core' \in [Host -> {"running", "ended", "failed", "dropped"}]
    BY <1>0, <1>10 DEF Drop, LoopsOK
  <2> QED
    BY <1>0, <2>1 DEF Typed, TablesOK, ReportersOK, LoopsOK, NetOK, Source, outside, history
<1>7. CASE UNCHANGED vars
  BY <1>0, <1>7 DEF Typed, TablesOK, ReportersOK, LoopsOK, NetOK, Source, vars, loops, outside, history
<1> QED
  BY <1>1, <1>2, <1>3, <1>4, <1>5, <1>6, <1>7, <1>8, <1>9, <1>10 DEF Next

\* Typed holds always.
LEMMA TypedAlways == Spec => []Typed
<1>1. Init => Typed
  BY TypedInit
<1>2. Typed /\ [Next]_vars => Typed'
  BY TypedNext
<1> QED
  BY <1>1, <1>2, PTL DEF Spec

\* TypeCorrect: no flow is ever counted or let through above what its path allows,
\* at any core, whatever the reporters measure and in whatever order the messages
\* come (TypeOK; emulcore.rs flow_loop, bwsync.rs).
THEOREM TypeCorrect == Spec => []TypeOK
<1>1. Typed => TypeOK
  <2> SUFFICES ASSUME Typed PROVE TypeOK
    OBVIOUS
  <2>0. TablesOK /\ ReportersOK /\ LoopsOK /\ NetOK
    BY DEF Typed
  <2>1. ASSUME NEW c \in Host
        PROVE  /\ Active(c) \subseteq Flow
               /\ \A f \in Active(c) :
                    /\ active_flows[c][f] \in FlowState
                    /\ active_flows[c][f].used <= MaxBandwidth[f]
                    /\ active_flows[c][f].authorized <= MaxBandwidth[f]
    <3>1. active_flows[c] \in Tables
      BY <2>0 DEF TablesOK
    <3> QED
      BY <3>1, TableIs DEF Active
  <2>2. \A f \in Flow : rate[f] \in {None} \cup 0..MaxBandwidth[f]
    BY <2>0 DEF ReportersOK, Rates
  <2>3. \A m \in net : /\ m.to \in Host \ {Source(m.flow)}
                       /\ m.throughput \in Throughput \cup {None}
                       /\ m.n \in 1..sent[m.flow]
    BY <2>0 DEF NetOK, Message
  <2> QED
    BY <2>0, <2>1, <2>2, <2>3 DEF TypeOK, LoopsOK, ReportersOK
<1> QED
  BY <1>1, TypedAlways, PTL

\* SharesFitHolds: on every link of the path a core shared last its flows fit, for
\* any topology and any number of flows, although each link is shared alone and a
\* flow gets the least of what its links give it (SharesFit; bwsync.rs
\* distribute_bandwidth_across_flow, update_active_flows and MergeStricter).
THEOREM SharesFitHolds == Spec => []SharesFit
<1>1. Typed => SharesFit
  BY DEF Typed, TablesOK, SharesFit, SharedAlong
<1> QED
  BY <1>1, TypedAlways, PTL

\* FairShareHolds: on the path shared last nobody is throttled below an equal part
\* of the narrowest of its links there, however much the others ask for (FairShare;
\* bwsync.rs distribute_bandwidth_across_flow).
THEOREM FairShareHolds == Spec => []FairShare
<1>1. Typed => FairShare
  <2> SUFFICES ASSUME Typed, NEW c \in Host, shared[c] # NoFlow, NEW g \in Active(c),
                      Path[g] \cap Path[shared[c]] # {}
               PROVE  active_flows[c][g].authorized >=
                        Min({MaxBandwidth[g]} \cup
                            {Bandwidth[l] \div Cardinality({h \in Active(c) : l \in Path[h]}) :
                               l \in Path[g] \cap Path[shared[c]]})
    BY DEF FairShare
  <2>1. SharedAlong(shared[c], active_flows[c])
    BY DEF Typed, TablesOK
  <2> QED
    BY <2>1 DEF SharedAlong, Part, OnLink, Active
<1> QED
  BY <1>1, TypedAlways, PTL

-----------------------------------------------------------------------------
(***************************************************************************)
(* Agreement.  The updates of a flow that a core still has to handle        *)
(* include the newest, and what it says is what the flow's own core holds;  *)
(* without one the core agrees already.                                     *)
(***************************************************************************)
Pending(c, f) == {m \in net : m.to = c /\ m.flow = f}

Tells(m, f) == m.n = sent[f] /\ (UsedBandwidth(f, m.throughput) # 0 <=> f \in Active(Source(f)))

AgreeAt(f, c) ==
  IF Pending(c, f) = {} THEN f \in Active(c) <=> f \in Active(Source(f))
  ELSE \E m \in Pending(c, f) : Tells(m, f)

OneUpdate == \A m, o \in net : m.to = o.to /\ m.flow = o.flow /\ m.n = o.n => m = o

Agreement ==
  /\ OneUpdate
  /\ \A f \in Flow \ (overtaken \cup kept) : \A c \in Host \ {Source(f)} :
       core[c] = "running" /\ core[Source(f)] \in {"running", "ended"} => AgreeAt(f, c)

\* A step that tells nothing of f and does not change whether it is active.
Untold(f, c) ==
  /\ Pending(c, f)' = Pending(c, f) /\ sent'[f] = sent[f]
  /\ (f \in Active(c))' <=> f \in Active(c)
  /\ (f \in Active(Source(f)))' <=> f \in Active(Source(f))

\* A core agrees on a flow as long as nobody tells it of a change.
LEMMA UntoldAgrees ==
  ASSUME NEW f \in Flow, NEW c \in Host, AgreeAt(f, c), Untold(f, c)
  PROVE  AgreeAt(f, c)'
BY DEF AgreeAt, Untold, Tells

\* A step that broadcasts f, as it is at its own core then.
LEMMA ToldAgrees ==
  ASSUME NEW f \in Flow, NEW c \in Host, NEW m \in net', m.to = c, m.flow = f,
         m.n = sent'[f],
         UsedBandwidth(f, m.throughput) # 0 <=> f \in DOMAIN active_flows'[Source(f)]
  PROVE  AgreeAt(f, c)'
<1>1. m \in Pending(c, f)' /\ Tells(m, f)'
  BY DEF Pending, Tells, Active
<1> QED
  BY <1>1 DEF AgreeAt

\* To broadcast sends one update of each of these flows, and of no other.
LEMMA BroadcastOnce ==
  ASSUME NetOK, OneUpdate, NEW flows \in SUBSET Flow, NEW throughput \in Throughput \cup {None},
         NEW told, Reaches(told, flows), broadcast_flow(told, throughput)
  PROVE  /\ OneUpdate'
         /\ \A f \in Flow \ flows : \A c \in Host : Pending(c, f)' = Pending(c, f)
<1>1. /\ NetOK' /\ net \subseteq net'
      /\ \A f \in Flow : sent'[f] = IF f \in flows THEN sent[f] + 1 ELSE sent[f]
      /\ \A m \in net' \ net : /\ m.flow \in flows /\ m.throughput = throughput
                               /\ m.n = sent'[m.flow]
  BY BroadcastType
<1>2. ASSUME NEW m \in net', NEW o \in net', m.to = o.to, m.flow = o.flow, m.n = o.n
      PROVE  m = o
  <2>0. /\ m \in Message /\ o \in Message
        /\ sent \in [Flow -> Nat]
    BY <1>1 DEF NetOK
  <2>1. CASE m \in net /\ o \in net
    BY <1>2, <2>1 DEF OneUpdate
  <2>2. CASE m \notin net /\ o \notin net
    <3>1. m.throughput = o.throughput
      BY <1>1, <2>2
    <3> QED
      BY <1>2, <2>0, <3>1 DEF Message
  <2>3. ASSUME NEW x \in net, NEW y \in net' \ net, x.flow = y.flow, x.n = y.n PROVE FALSE
    <3>1. x.n \in 1..sent[x.flow] /\ x.flow \in Flow
      BY DEF NetOK, Message
    <3>2. y.flow \in flows /\ y.n = sent[y.flow] + 1
      BY <1>1
    <3> QED
      BY <2>0, <2>3, <3>1, <3>2
  <2> QED
    BY <1>2, <2>1, <2>2, <2>3
<1>3. OneUpdate'
  BY <1>2 DEF OneUpdate
<1>4. \A f \in Flow \ flows : \A c \in Host : Pending(c, f)' = Pending(c, f)
  BY <1>1 DEF Pending
<1> QED
  BY <1>3, <1>4

\* All agree at the start.
LEMMA AgreementInit == Init => Agreement
BY Places DEF Init, Agreement, OneUpdate, AgreeAt, Pending, Active, Source

\* Every step keeps Agreement.
LEMMA AgreementNext == Typed /\ Agreement /\ [Next]_vars => Agreement'
<1> SUFFICES ASSUME Typed, Agreement, [Next]_vars PROVE Agreement'
  OBVIOUS
<1>0. TablesOK /\ ReportersOK /\ LoopsOK /\ NetOK /\ OneUpdate
  BY DEF Typed, Agreement
<1> DEFINE Sure == Flow \ (overtaken \cup kept)
<1>1. ASSUME NEW f \in Flow, NEW throughput \in Throughput \cup {None}, Report(f, throughput)
      PROVE  Agreement'
  <2> DEFINE src == Source(f)
  <2>1. src \in Host /\ FlowUpdate(src, f, throughput) /\ broadcast_flow(ToAll({f}), throughput)
        /\ kept' = kept \ {f} /\ overtaken' = overtaken /\ core' = core
    BY <1>1, SourceType DEF Report, Measured
  <2>2. UpdatedAt(src, f, throughput)
    <3> HIDE DEF src
    <3> QED
      BY <1>0, <2>1, FlowUpdateTables
  <2>3. {f} \in SUBSET Flow /\ Reaches(ToAll({f}), {f})
        /\ \A g \in {f} : ToAll({f})[g] = Host \ {Source(g)}
    <3>1. {f} \in SUBSET Flow
      OBVIOUS
    <3> QED
      BY <3>1, ReachesAll
  <2>4. OneUpdate' /\ \A g \in Flow \ {f} : \A c \in Host : Pending(c, g)' = Pending(c, g)
    BY <1>0, <2>1, <2>3, BroadcastOnce
  <2>5. /\ \A g \in Flow : sent'[g] = IF g \in {f} THEN sent[g] + 1 ELSE sent[g]
        /\ \A g \in {f}, c \in Host : c # Source(g) =>
             [to |-> c, flow |-> g, throughput |-> throughput, n |-> sent'[g]] \in net'
    BY <1>0, <2>1, <2>3, BroadcastType
  <2>6. ASSUME NEW g \in (Flow \ (overtaken \cup kept))', NEW c \in Host \ {Source(g)},
               core'[c] = "running", core'[Source(g)] \in {"running", "ended"}
        PROVE  AgreeAt(g, c)'
    <3>1. CASE g = f
      <4> DEFINE m == [to |-> c, flow |-> f, throughput |-> throughput, n |-> sent'[f]]
      <4>1. m \in net'
        BY <2>5, <3>1
      <4>2. m.to = c /\ m.flow = f /\ m.n = sent'[f] /\ m.throughput = throughput
        OBVIOUS
      <4>3. UsedBandwidth(f, throughput) # 0 <=> f \in DOMAIN active_flows'[Source(f)]
        BY <2>2 DEF UpdatedAt
      <4> HIDE DEF m
      <4> QED
        BY <3>1, <4>1, <4>2, <4>3, ToldAgrees
    <3>2. CASE g # f
      <4>1. g \in Sure /\ core[c] = "running" /\ core[Source(g)] \in {"running", "ended"}
        BY <2>1, <2>6, <3>2
      <4>2. \A h \in Host : g \in DOMAIN active_flows'[h] <=> g \in DOMAIN active_flows[h]
        BY <2>1, <2>2, <3>2 DEF UpdatedAt
      <4>3. Source(g) \in Host /\ AgreeAt(g, c)
        BY <2>6, <4>1, SourceType DEF Agreement
      <4>4. Untold(g, c)
        BY <2>4, <2>5, <3>2, <4>1, <4>2, <4>3 DEF Untold, Active, Source
      <4> QED
        BY <4>1, <4>3, <4>4, UntoldAgrees
    <3> QED
      BY <3>1, <3>2
  <2> QED
    BY <2>4, <2>6 DEF Agreement, Source
<1>2. ASSUME NEW m \in net, Receive(m) PROVE Agreement'
  <2> DEFINE f == m.flow
             to == m.to
  <2>1. /\ to \in Host /\ f \in Flow /\ m.throughput \in Throughput \cup {None}
        /\ to # Source(f) /\ m.n \in 1..sent[f]
    BY <1>0 DEF NetOK, Message
  <2>2. /\ FlowUpdate(to, f, m.throughput) /\ net' = net \ {m}
        /\ overtaken' = IF \E o \in net : o.to = m.to /\ o.flow = m.flow /\ o.n < m.n
                        THEN overtaken \cup {m.flow} ELSE overtaken
        /\ core' = core /\ sent' = sent /\ kept' = kept
    BY <1>2 DEF Receive
  <2>3. UpdatedAt(to, f, m.throughput)
    <3> HIDE DEF to, f
    <3> QED
      BY <1>0, <2>1, <2>2, FlowUpdateTables
  <2>4. OneUpdate'
    BY <1>0, <2>2 DEF OneUpdate
  <2>5. ASSUME NEW g \in (Flow \ (overtaken \cup kept))', NEW c \in Host \ {Source(g)},
               core'[c] = "running", core'[Source(g)] \in {"running", "ended"}
        PROVE  AgreeAt(g, c)'
    <3>0. g \in Sure /\ core[c] = "running" /\ AgreeAt(g, c) /\ Source(g) \in Host
      BY <2>2, <2>5, SourceType DEF Agreement
    <3>1. CASE g = f /\ c = to
      <4>1. ASSUME NEW o \in net, o.to = to, o.flow = f PROVE o.n >= m.n
        <5>1. ~(o.n < m.n)
          BY <2>2, <2>5, <3>1, <4>1
        <5>2. o.n \in Int /\ m.n \in Int
          BY <1>0 DEF NetOK, Message
        <5> QED
          BY <5>1, <5>2
      <4>2. PICK o \in Pending(to, f) : Tells(o, f)
        BY <3>0, <3>1 DEF AgreeAt, Pending
      <4>3. f \in DOMAIN active_flows'[Source(f)] <=> f \in DOMAIN active_flows[Source(f)]
        BY <2>1, <2>3, <3>0, <3>1 DEF UpdatedAt
      <4>4. CASE o = m
        <5>1. ASSUME NEW x \in net, x.to = to, x.flow = f PROVE x = m
          <6>1. x.n >= m.n
            BY <4>1, <5>1
          <6>2. x.n \in 1..sent[f] /\ m.n = sent[f] /\ sent[f] \in Nat
            BY <1>0, <2>1, <4>2, <4>4, <5>1 DEF NetOK, Message, Tells
          <6>3. x.n = m.n
            BY <6>1, <6>2
          <6> QED
            BY <1>0, <5>1, <6>3 DEF OneUpdate
        <5>2. Pending(to, f)' = {}
          BY <2>2, <5>1 DEF Pending
        <5>3. f \in DOMAIN active_flows'[to] <=> UsedBandwidth(f, m.throughput) # 0
          BY <2>3 DEF UpdatedAt
        <5> QED
          BY <3>1, <4>2, <4>3, <4>4, <5>2, <5>3 DEF AgreeAt, Tells, Active, Source
      <4>5. CASE o # m
        <5>1. o \in net' /\ o.to = to /\ o.flow = f /\ o.n = sent'[f]
              /\ (UsedBandwidth(f, o.throughput) # 0 <=> f \in DOMAIN active_flows'[Source(f)])
          BY <2>2, <4>2, <4>3, <4>5 DEF Pending, Tells, Active
        <5> QED
          BY <2>1, <3>1, <5>1, ToldAgrees
      <4> QED
        BY <4>4, <4>5
    <3>2. CASE ~(g = f /\ c = to)
      <4>1. Pending(c, g)' = Pending(c, g)
        BY <2>2, <3>2 DEF Pending
      <4>2. \A h \in {c, Source(g)} : g \in DOMAIN active_flows'[h] <=> g \in DOMAIN active_flows[h]
        BY <2>1, <2>3, <3>0, <3>2 DEF UpdatedAt
      <4>3. Untold(g, c)
        BY <2>2, <4>1, <4>2 DEF Untold, Active, Source
      <4> QED
        BY <3>0, <4>3, UntoldAgrees
    <3> QED
      BY <3>1, <3>2
  <2> QED
    BY <2>4, <2>5 DEF Agreement, Source
<1>3. ASSUME NEW m \in net, ReceiveLate(m) PROVE Agreement'
  <2>1. /\ core[m.to] # "running" /\ net' = net \ {m}
        /\ UNCHANGED <<active_flows, core, sent, overtaken, kept>>
    BY <1>3 DEF ReceiveLate, history
  <2>2. OneUpdate'
    BY <1>0, <2>1 DEF OneUpdate
  <2>3. ASSUME NEW g \in Sure, NEW c \in Host \ {Source(g)}, core[c] = "running",
               core[Source(g)] \in {"running", "ended"}
        PROVE  AgreeAt(g, c)'
    <3>1. AgreeAt(g, c)
      BY <2>3 DEF Agreement
    <3>2. Untold(g, c)
      BY <2>1, <2>3 DEF Untold, Pending, Active, Source
    <3> QED
      BY <3>1, <3>2, UntoldAgrees
  <2> QED
    BY <2>1, <2>2, <2>3 DEF Agreement, Source
<1>4. ASSUME NEW e \in events, QuitOrCrash(e) PROVE Agreement'
  <2> DEFINE a == e.app
             src == host[a]
  <2>1. a \in App /\ src \in Host
    BY <1>0, EventType
  <2>2. PICK order \in SetToSeqs(Active(src) \cap FlowsFrom(a)) : Leave(e, order)
    BY <1>4 DEF QuitOrCrash
  <2> DEFINE ended == ToSet(order)
  <2>3. /\ ended \subseteq Active(src) \cap FlowsFrom(a)
        /\ DOMAIN active_flows'[src]
             = DOMAIN active_flows[src] \ {g \in ended : active_flows[src][g].used = 0}
        /\ \A h \in Host \ {src} : active_flows'[h] = active_flows[h]
        /\ kept' = kept \cup (ended \cap DOMAIN active_flows'[src])
    BY <1>0, <2>1, <2>2, LeaveTables
  <2>4. /\ broadcast_flow(ToAll(ended), None) /\ overtaken' = overtaken
        /\ \A h \in Host : /\ core'[h] = "running" => core[h] = "running"
                           /\ core'[h] \in {"running", "ended"} => core[h] \in {"running", "ended"}
    BY <1>0, <1>4, <2>1, <2>2 DEF Leave, QuitOrCrash, LoopsOK
  <2>5. /\ ended \in SUBSET Flow /\ None \in Throughput \cup {None}
        /\ \A g \in ended : Source(g) = src /\ ToAll(ended)[g] = Host \ {Source(g)}
        /\ Reaches(ToAll(ended), ended)
    <3>1. ended \in SUBSET Flow /\ \A g \in ended : Source(g) = src
      BY <2>3 DEF FlowsFrom, Source
    <3> HIDE DEF ended, src
    <3> QED
      BY <3>1, ReachesAll
  <2> HIDE DEF ended
  <2>6. OneUpdate' /\ \A g \in Flow \ ended : \A c \in Host : Pending(c, g)' = Pending(c, g)
    <3> DEFINE told == ToAll(ended)
    <3>1. Reaches(told, ended) /\ broadcast_flow(told, None)
      BY <2>4, <2>5
    <3> HIDE DEF told
    <3> QED
      BY <1>0, <2>5, <3>1, BroadcastOnce
  <2>7. /\ \A g \in Flow : sent'[g] = IF g \in ended THEN sent[g] + 1 ELSE sent[g]
        /\ \A g \in ended, c \in Host : c # Source(g) =>
             [to |-> c, flow |-> g, throughput |-> None, n |-> sent'[g]] \in net'
    <3> DEFINE told == ToAll(ended)
    <3>1. /\ Reaches(told, ended) /\ broadcast_flow(told, None)
          /\ \A g \in ended : told[g] = Host \ {Source(g)}
      BY <2>4, <2>5
    <3> HIDE DEF told
    <3>2. /\ \A g \in Flow : sent'[g] = IF g \in ended THEN sent[g] + 1 ELSE sent[g]
          /\ \A g \in ended : \A c \in told[g] :
               [to |-> c, flow |-> g, throughput |-> None, n |-> sent'[g]] \in net'
      BY <1>0, <2>5, <3>1, BroadcastType
    <3> QED
      BY <3>1, <3>2
  <2>8. ASSUME NEW g \in (Flow \ (overtaken \cup kept))', NEW c \in Host \ {Source(g)},
               core'[c] = "running", core'[Source(g)] \in {"running", "ended"}
        PROVE  AgreeAt(g, c)'
    <3>1. CASE g \in ended
      <4> DEFINE m == [to |-> c, flow |-> g, throughput |-> None, n |-> sent'[g]]
      <4>1. m \in net'
        BY <2>7, <3>1
      <4>2. m.to = c /\ m.flow = g /\ m.n = sent'[g] /\ m.throughput = None
        OBVIOUS
      <4>3. g \notin DOMAIN active_flows'[Source(g)] /\ UsedBandwidth(g, None) = 0
        BY <2>3, <2>5, <2>8, <3>1 DEF UsedBandwidth
      <4> HIDE DEF m
      <4> QED
        BY <4>1, <4>2, <4>3, ToldAgrees
    <3>2. CASE g \notin ended
      <4>0. Source(g) \in Host
        BY <2>8, SourceType
      <4>1. g \in Sure /\ core[c] = "running" /\ core[Source(g)] \in {"running", "ended"}
        <5>1. g \in Sure
          BY <2>3, <2>4, <2>8
        <5>2. core[c] = "running"
          BY <2>4, <2>8
        <5>3. core[Source(g)] \in {"running", "ended"}
          BY <2>4, <2>8, <4>0
        <5> QED
          BY <5>1, <5>2, <5>3
      <4>2. \A h \in Host : g \in DOMAIN active_flows'[h] <=> g \in DOMAIN active_flows[h]
        BY <2>3, <3>2
      <4>3. Source(g) \in Host /\ AgreeAt(g, c)
        BY <2>8, <4>1, SourceType DEF Agreement
      <4>4. Untold(g, c)
        BY <2>6, <2>7, <3>2, <4>1, <4>2, <4>3 DEF Untold, Active, Source
      <4> QED
        BY <4>1, <4>3, <4>4, UntoldAgrees
    <3> QED
      BY <3>1, <3>2
  <2> QED
    BY <2>6, <2>8 DEF Agreement, Source
<1>5. ASSUME UNCHANGED <<active_flows, net, sent, overtaken, kept>>,
             \A c \in Host : /\ core'[c] = "running" => core[c] = "running"
                             /\ core'[c] \in {"running", "ended"} => core[c] \in {"running", "ended"}
      PROVE  Agreement'
  <2>1. OneUpdate'
    BY <1>0, <1>5 DEF OneUpdate
  <2>2. ASSUME NEW g \in Sure, NEW h \in Host \ {Source(g)},
               core'[h] = "running", core'[Source(g)] \in {"running", "ended"}
        PROVE  AgreeAt(g, h)'
    <3>1. Source(g) \in Host
      BY SourceType
    <3>2. core[h] = "running" /\ core[Source(g)] \in {"running", "ended"}
      BY <1>5, <2>2, <3>1
    <3>3. AgreeAt(g, h)
      BY <3>2 DEF Agreement
    <3>4. Untold(g, h)
      BY <1>5 DEF Untold, Pending, Active, Source
    <3> QED
      BY <3>3, <3>4, UntoldAgrees
  <2> QED
    BY <1>5, <2>1, <2>2 DEF Agreement, Source
<1>6. ASSUME NEW e \in events, Join(e) PROVE Agreement'
  BY <1>5, <1>6 DEF Join, history
<1>7. ASSUME NEW c \in Host, Drop(c) PROVE Agreement'
  <2>1. UNCHANGED <<active_flows, net, sent, overtaken, kept>>
    BY <1>7 DEF Drop, outside, history
  <2>2. \A h \in Host : core'[h] \in {"running", "ended"} => core'[h] = core[h]
    BY <1>0, <1>7 DEF Drop, LoopsOK
  <2> QED
    BY <1>5, <2>1, <2>2
<1>8. CASE UNCHANGED vars
  BY <1>5, <1>8 DEF vars, loops, outside, history
\* A loop that breaks off, once it told somebody of some of its flows.
<1>9. ASSUME NEW c \in Host, BreakOff(c), events' \subseteq events, OneUpdate',
             NEW flows \in SUBSET Flow, \A f \in flows : Source(f) = c,
             \A f \in Flow \ flows : /\ \A h \in Host : Pending(h, f)' = Pending(h, f)
                                    /\ sent'[f] = sent[f],
             overtaken' = overtaken, kept \ flows \subseteq kept'
      PROVE  Agreement'
  <2>1. /\ \A h \in Host \ {c} : active_flows'[h] = active_flows[h] /\ core'[h] = core[h]
        /\ core'[c] = "failed"
    BY <1>0, <1>9, BreakOffIs
  <2>2. ASSUME NEW g \in (Flow \ (overtaken \cup kept))', NEW h \in Host \ {Source(g)},
               core'[h] = "running", core'[Source(g)] \in {"running", "ended"}
        PROVE  AgreeAt(g, h)'
    <3>1. Source(g) \in Host /\ Source(g) # c /\ h # c
      BY <2>1, <2>2, SourceType
    <3>2. g \in Flow \ flows /\ g \in Sure
      BY <1>9, <2>2, <3>1
    <3>3. AgreeAt(g, h)
      BY <2>1, <2>2, <3>1, <3>2 DEF Agreement
    <3>4. Untold(g, h)
      BY <1>9, <2>1, <2>2, <3>1, <3>2 DEF Untold, Active, Source
    <3> QED
      BY <2>2, <3>2, <3>3, <3>4, UntoldAgrees
  <2> QED
    BY <1>9, <2>2 DEF Agreement, Source
<1>10. ASSUME NEW f \in Flow, NEW throughput \in Throughput \cup {None}, ReportFails(f, throughput)
       PROVE  Agreement'
  <2> DEFINE c == Source(f)
  <2>1. c \in Host /\ BreakOff(c) /\ events' \subseteq events
        /\ overtaken' = overtaken /\ kept \ {f} \subseteq kept'
    BY <1>10, SourceType DEF ReportFails, Measured
  <2>2. PICK told \in ToSome(c, {f}) : broadcast_flow(told, throughput)
    BY <1>10 DEF ReportFails
  <2>3. Reaches(told, {f}) /\ {f} \in SUBSET Flow /\ \A g \in {f} : Source(g) = c
    BY <2>2, ReachesSome
  <2>4. OneUpdate' /\ \A g \in Flow \ {f} : \A h \in Host : Pending(h, g)' = Pending(h, g)
    BY <1>0, <2>2, <2>3, BroadcastOnce
  <2>5. \A g \in Flow : sent'[g] = IF g \in {f} THEN sent[g] + 1 ELSE sent[g]
    BY <1>0, <2>2, <2>3, BroadcastType
  <2> HIDE DEF c
  <2> QED
    BY <1>9, <2>1, <2>3, <2>4, <2>5
<1>11. ASSUME NEW e \in events, QuitOrCrashFails(e) PROVE Agreement'
  <2> DEFINE a == e.app
             c == host[a]
             flows == Active(c) \cap FlowsFrom(a)
  <2>1. a \in App /\ c \in Host
    BY <1>0, EventType
  <2>2. BreakOff(c) /\ events' \subseteq events /\ overtaken' = overtaken /\ kept' = kept
    BY <1>11 DEF QuitOrCrashFails
  <2>3. PICK told \in ToSome(c, flows) : broadcast_flow(told, None)
    BY <1>11 DEF QuitOrCrashFails
  <2>4. flows \in SUBSET Flow /\ \A f \in flows : Source(f) = c
    BY <1>0, <2>1, EndedFlows
  <2> HIDE DEF flows, c
  <2>5. Reaches(told, flows) /\ None \in Throughput \cup {None}
    BY <2>3, <2>4, ReachesSome
  <2>6. OneUpdate' /\ \A g \in Flow \ flows : \A h \in Host : Pending(h, g)' = Pending(h, g)
    BY <1>0, <2>3, <2>4, <2>5, BroadcastOnce
  <2>7. \A g \in Flow : sent'[g] = IF g \in flows THEN sent[g] + 1 ELSE sent[g]
    BY <1>0, <2>3, <2>4, <2>5, BroadcastType
  <2> QED
    BY <1>9, <2>1, <2>2, <2>4, <2>6, <2>7
<1>12. ASSUME NEW c \in Host, Fail(c) PROVE Agreement'
  <2>1. BreakOff(c) /\ UNCHANGED <<events, net, sent, overtaken, kept>>
    BY <1>12 DEF Fail
  <2>2. OneUpdate' /\ \A f \in Flow : \A h \in Host : Pending(h, f)' = Pending(h, f)
    BY <1>0, <2>1 DEF OneUpdate, Pending
  <2>3. {} \in SUBSET Flow /\ \A f \in {} : Source(f) = c
    OBVIOUS
  <2> QED
    BY <1>9, <2>1, <2>2, <2>3
<1> QED
  BY <1>1, <1>2, <1>3, <1>4, <1>6, <1>7, <1>8, <1>10, <1>11, <1>12 DEF Next

\* AgreeAtRestHolds: when no update of a flow is under way all the running cores
\* agree on whether it is active, for any number of hosts and however the updates
\* of different flows, the events and the failures of cores interleave, unless two
\* updates of this flow were swapped, it was put back while its application left,
\* or its own core failed, be it between two sends (AgreeAtRest; emulcore.rs
\* flow_loop and broadcast_flow).
THEOREM AgreeAtRestHolds == Spec => []AgreeAtRest
<1>1. Init => Agreement
  BY AgreementInit
<1>2. Typed /\ Agreement /\ [Next]_vars => Agreement'
  BY AgreementNext
<1>3. Agreement => AgreeAtRest
  <2> SUFFICES ASSUME Agreement, NEW f \in Flow \ (overtaken \cup kept), \A m \in net : m.flow # f,
                      core[Source(f)] \in {"running", "ended"},
                      NEW c \in Host, core[c] = "running", c # Source(f)
               PROVE  f \in Active(c) <=> f \in Active(Source(f))
    BY DEF AgreeAtRest
  <2>1. AgreeAt(f, c) /\ Pending(c, f) = {}
    BY DEF Agreement, Pending
  <2> QED
    BY <2>1 DEF AgreeAt
<1> QED
  BY <1>1, <1>2, <1>3, TypedAlways, PTL DEF Spec

-----------------------------------------------------------------------------
(***************************************************************************)
(* Applications that start before they send.                               *)
(***************************************************************************)
Orderly ==
  early = {} =>
    /\ \A a \in App : tc_handler[a]
    /\ \A f \in Flow : status[f[1]] # "NotInit" => rate[f] # None
    /\ \A f \in Flow : f \in Active(Source(f)) => status[f[1]] # "NotInit"

\* No handler panics when every local flow's path is known.
LEMMA RatesKnown ==
  ASSUME NEW c, NEW t \in Tables, NEW r \in Rates, tc_handler \in [App -> BOOLEAN],
         UpdateRates(c, t, r),
         \A f \in DOMAIN t : Source(f) = c => r[f] # None
  PROVE  /\ \A a \in App : tc_handler[a] => tc_handler'[a]
         /\ \A f \in Flow : r[f] # None => rate'[f] # None
<1>1. \A f \in DOMAIN t : t[f].authorized \in Nat
  BY TableFacts
<1>2. \A a \in App : tc_handler[a] => tc_handler'[a]
  BY DEF UpdateRates, Local
<1>3. \A f \in Flow : r[f] # None => rate'[f] # None
  BY <1>1 DEF UpdateRates, Local, None
<1> QED
  BY <1>2, <1>3

\* A rate is set where its application has a TC handler, and nowhere else.
LEMMA TCUpdateIs ==
  ASSUME NEW r \in Rates, NEW f \in Flow, NEW g \in Flow
  PROVE  /\ TCUpdate(r, f, MaxBandwidth[f])[g]
              = IF g = f /\ tc_handler[f[1]] THEN MaxBandwidth[f] ELSE r[g]
         /\ MaxBandwidth[f] \in Nat /\ MaxBandwidth[f] # None
BY MaxBandwidthType DEF TCUpdate, Rates, None

\* The first rates are the bandwidths of the paths.
LEMMA TCInitIs ==
  ASSUME NEW a, rate \in Rates, NEW f \in Flow
  PROVE  /\ TCInitAll(a)[f] = IF f[1] = a /\ tc_handler[a] THEN MaxBandwidth[f] ELSE rate[f]
         /\ MaxBandwidth[f] # None
BY TCUpdateIs DEF TCInitAll

\* Orderly holds initially.
LEMMA OrderlyInit == Init => Orderly
<1> SUFFICES ASSUME Init PROVE Orderly
  OBVIOUS
<1>1. \A f \in Flow : f[1] \in App /\ Source(f) \in Host
  BY SourceType
<1>2. \A f \in Flow : status[f[1]] = "NotInit" /\ f \notin Active(Source(f))
  BY <1>1 DEF Init, Active
<1>3. \A a \in App : tc_handler[a]
  BY DEF Init
<1> QED
  BY <1>2, <1>3 DEF Orderly

\* Every step keeps Orderly.
LEMMA OrderlyNext == Typed /\ Orderly /\ [Next]_vars => Orderly'
<1> SUFFICES ASSUME Typed, Orderly, [Next]_vars, early' = {} PROVE Orderly'
  BY DEF Orderly
<1>0. TablesOK /\ ReportersOK /\ LoopsOK /\ NetOK
  BY DEF Typed
<1>a. rate \in Rates /\ tc_handler \in [App -> BOOLEAN]
  BY <1>0 DEF ReportersOK
<1> DEFINE Good == /\ \A a \in App : tc_handler[a]
                   /\ \A f \in Flow : status[f[1]] # "NotInit" => rate[f] # None
                   /\ \A f \in Flow : f \in Active(Source(f)) => status[f[1]] # "NotInit"
<1>1. ASSUME NEW f \in Flow, NEW throughput \in Throughput \cup {None}, Report(f, throughput)
      PROVE  Orderly'
  <2> DEFINE c == Source(f)
             r == IF UsedBandwidth(f, throughput) = 0 /\ Source(f) = c
                  THEN TCUpdate(rate, f, MaxBandwidth[f]) ELSE rate
  <2>1. c \in Host /\ FlowUpdate(c, f, throughput)
        /\ status' = status
        /\ early = {} /\ (throughput # None => status[f[1]] # "NotInit")
    BY <1>1, SourceType DEF Report, Measured
  <2>2. Good
    BY <2>1 DEF Orderly
  <2>3. TablesOK' /\ UpdateRates(c, active_flows'[c], r) /\ UpdatedAt(c, f, throughput)
    <3> HIDE DEF c
    <3> QED
      BY <1>0, <2>1, FlowUpdateTables
  <2>4. r \in Rates /\ \A g \in Flow : rate[g] # None => r[g] # None
    BY <1>a, TCUpdateType, TCUpdateIs
  <2>5. active_flows'[c] \in Tables
    BY <2>1, <2>3 DEF TablesOK
  <2>6. throughput = None => UsedBandwidth(f, throughput) = 0
    BY DEF UsedBandwidth
  <2>7. \A g \in Flow : g \in DOMAIN active_flows'[Source(g)] => status[g[1]] # "NotInit"
    <3> SUFFICES ASSUME NEW g \in Flow, g \in DOMAIN active_flows'[Source(g)]
                 PROVE  status[g[1]] # "NotInit"
      OBVIOUS
    <3>1. Source(g) \in Host
      BY SourceType
    <3>2. g \in DOMAIN active_flows[Source(g)] \/ (g = f /\ UsedBandwidth(f, throughput) # 0)
      BY <2>3, <3>1 DEF UpdatedAt
    <3> QED
      BY <2>1, <2>2, <2>6, <3>2 DEF Active
  <2>8. \A g \in DOMAIN active_flows'[c] : Source(g) = c => r[g] # None
    <3>1. DOMAIN active_flows'[c] \subseteq Flow
      BY <2>5, TableEntry
    <3> HIDE DEF r, c
    <3> QED
      BY <2>2, <2>4, <2>7, <3>1
  <2>9. /\ \A a \in App : tc_handler[a] => tc_handler'[a]
        /\ \A g \in Flow : r[g] # None => rate'[g] # None
    <3> HIDE DEF r, c
    <3> QED
      BY <1>a, <2>3, <2>4, <2>5, <2>8, RatesKnown
  <2> HIDE DEF r, c
  <2> QED
    BY <2>1, <2>2, <2>4, <2>7, <2>9 DEF Orderly, Active, Source
<1>2. ASSUME NEW m \in net, Receive(m) PROVE Orderly'
  <2> DEFINE c == m.to
             f == m.flow
             r == IF UsedBandwidth(f, m.throughput) = 0 /\ Source(f) = c
                  THEN TCUpdate(rate, f, MaxBandwidth[f]) ELSE rate
  <2>1. c \in Host /\ f \in Flow /\ m.throughput \in Throughput \cup {None}
        /\ FlowUpdate(c, f, m.throughput) /\ c # Source(f)
        /\ UNCHANGED <<status, early>>
    BY <1>0, <1>2 DEF Receive, NetOK, Message
  <2>2. Good
    BY <2>1 DEF Orderly
  <2>3. TablesOK' /\ UpdateRates(c, active_flows'[c], rate) /\ UpdatedAt(c, f, m.throughput)
    <3>1. r = rate
      BY <2>1
    <3>2. TablesOK' /\ UpdateRates(c, active_flows'[c], r) /\ UpdatedAt(c, f, m.throughput)
      <4> HIDE DEF c, f
      <4> QED
        BY <1>0, <2>1, FlowUpdateTables
    <3> QED
      BY <3>1, <3>2
  <2>4. active_flows'[c] \in Tables
    BY <2>1, <2>3 DEF TablesOK
  <2>5. \A g \in Flow : g \in DOMAIN active_flows'[Source(g)] => status[g[1]] # "NotInit"
    <3> SUFFICES ASSUME NEW g \in Flow, g \in DOMAIN active_flows'[Source(g)]
                 PROVE  status[g[1]] # "NotInit"
      OBVIOUS
    <3>1. Source(g) \in Host
      BY SourceType
    <3>2. g \in DOMAIN active_flows[Source(g)]
      BY <2>1, <2>3, <3>1 DEF UpdatedAt
    <3> QED
      BY <2>2, <3>2 DEF Active
  <2>6. \A g \in DOMAIN active_flows'[c] : Source(g) = c => rate[g] # None
    <3>1. DOMAIN active_flows'[c] \subseteq Flow
      BY <2>4, TableEntry
    <3> HIDE DEF c
    <3> QED
      BY <2>2, <2>5, <3>1
  <2>7. /\ \A a \in App : tc_handler[a] => tc_handler'[a]
        /\ \A g \in Flow : rate[g] # None => rate'[g] # None
    <3> HIDE DEF c
    <3> QED
      BY <1>a, <2>3, <2>4, <2>6, RatesKnown
  <2> QED
    BY <2>1, <2>2, <2>5, <2>7 DEF Orderly, Active, Source
<1>3. ASSUME NEW m \in net, ReceiveLate(m) PROVE Orderly'
  <2>1. UNCHANGED <<active_flows, status, rate, tc_handler, early>>
    BY <1>3 DEF ReceiveLate, history
  <2> QED
    BY <2>1 DEF Orderly, Active, Source
<1>4. ASSUME NEW e \in events, Join(e) PROVE Orderly'
  <2> DEFINE a == e.app
             c == host[a]
             r == IF status[a] = "NotInit" THEN TCInitAll(a) ELSE rate
  <2>1. a \in App /\ c \in Host
    BY <1>0, EventType
  <2>2. /\ UpdateRates(c, active_flows[c], r)
        /\ status' = [status EXCEPT ![a] = IF @ \in {"NotInit", "Stopped"} THEN "Running" ELSE @]
        /\ UNCHANGED <<active_flows, early>>
    BY <1>4 DEF Join, history
  <2>3. Good
    BY <2>2 DEF Orderly
  <2>4. r \in Rates /\ active_flows[c] \in Tables
    BY <1>0, <1>a, <2>1, TCInitType DEF TablesOK
  <2>5. \A f \in Flow : /\ rate[f] # None => r[f] # None
                        /\ f[1] = a => r[f] # None
    BY <1>a, <2>1, <2>3, TCInitIs
  <2>6. \A f \in DOMAIN active_flows[c] : Source(f) = c => r[f] # None
    <3>1. DOMAIN active_flows[c] \subseteq Flow
      BY <2>4, TableEntry
    <3> HIDE DEF r, c
    <3> QED
      BY <2>3, <2>5, <3>1 DEF Active
  <2>7. /\ \A b \in App : tc_handler[b] => tc_handler'[b]
        /\ \A f \in Flow : r[f] # None => rate'[f] # None
    <3> HIDE DEF r, c
    <3> QED
      BY <1>a, <2>2, <2>4, <2>6, RatesKnown
  <2>8. \A f \in Flow : /\ f[1] \in App
                        /\ status'[f[1]] # "NotInit" => f[1] = a \/ status[f[1]] # "NotInit"
                        /\ status[f[1]] # "NotInit" => status'[f[1]] # "NotInit"
    BY <1>0, <2>1, <2>2, SourceType DEF LoopsOK
  <2> HIDE DEF r, c
  <2> QED
    BY <2>2, <2>3, <2>5, <2>7, <2>8 DEF Orderly, Active, Source
<1>5. ASSUME NEW e \in events, QuitOrCrash(e) PROVE Orderly'
  <2> DEFINE a == e.app
             c == host[a]
             left == IF e.action = "Quit" THEN "Stopped" ELSE "Crashed"
  <2>1. a \in App /\ c \in Host
    BY <1>0, EventType
  <2>2. PICK order \in SetToSeqs(Active(c) \cap FlowsFrom(a)) : Leave(e, order)
    BY <1>5 DEF QuitOrCrash
  <2>3. /\ TablesOK'
        /\ DOMAIN active_flows'[c]
             = DOMAIN active_flows[c] \ {g \in ToSet(order) : active_flows[c][g].used = 0}
        /\ \A h \in Host \ {c} : active_flows'[h] = active_flows[h]
        /\ UpdateRates(c, active_flows'[c], rate)
    BY <1>0, <2>1, <2>2, LeaveTables
  <2>4. /\ early = {} /\ status[a] # "NotInit"
        /\ status' = [status EXCEPT ![a] = left]
    BY <1>5 DEF QuitOrCrash, TooEarly
  <2>5. Good
    BY <2>4 DEF Orderly
  <2>6. active_flows'[c] \in Tables
    BY <2>1, <2>3 DEF TablesOK
  <2>7. \A g \in Flow : g \in DOMAIN active_flows'[Source(g)] => status[g[1]] # "NotInit"
    <3> SUFFICES ASSUME NEW g \in Flow, g \in DOMAIN active_flows'[Source(g)]
                 PROVE  status[g[1]] # "NotInit"
      OBVIOUS
    <3>1. Source(g) \in Host
      BY SourceType
    <3>2. g \in DOMAIN active_flows[Source(g)]
      <4> HIDE DEF c
      <4> QED
        BY <2>3, <3>1
    <3> QED
      BY <2>5, <3>2 DEF Active
  <2>8. \A g \in DOMAIN active_flows'[c] : Source(g) = c => rate[g] # None
    <3>1. DOMAIN active_flows'[c] \subseteq Flow
      BY <2>6, TableEntry
    <3> HIDE DEF c
    <3> QED
      BY <2>5, <2>7, <3>1
  <2>9. /\ \A b \in App : tc_handler[b] => tc_handler'[b]
        /\ \A g \in Flow : rate[g] # None => rate'[g] # None
    <3> HIDE DEF c
    <3> QED
      BY <1>a, <2>3, <2>6, <2>8, RatesKnown
  <2>10. \A g \in Flow : status'[g[1]] # "NotInit" <=> status[g[1]] # "NotInit"
    BY <1>0, <2>1, <2>4, SourceType DEF LoopsOK
  <2> QED
    BY <2>4, <2>5, <2>7, <2>9, <2>10 DEF Orderly, Active, Source
\* A loop that breaks off starts nothing and initialises nothing.
<1>6. ASSUME NEW c \in Host, BreakOff(c), events' \subseteq events, early = {}
      PROVE  Orderly'
  <2>1. /\ DOMAIN active_flows'[c] = {}
        /\ \A h \in Host \ {c} : active_flows'[h] = active_flows[h]
        /\ UNCHANGED <<status, rate, tc_handler>>
    BY <1>0, <1>6, BreakOffIs
  <2>2. Good
    BY <1>6 DEF Orderly
  <2>3. \A f \in Flow : f \in DOMAIN active_flows'[Source(f)] => status[f[1]] # "NotInit"
    BY <2>1, <2>2, SourceType DEF Active
  <2> QED
    BY <2>1, <2>2, <2>3 DEF Orderly, Active, Source
<1>8. ASSUME NEW f \in Flow, NEW throughput \in Throughput \cup {None}, ReportFails(f, throughput)
      PROVE  Orderly'
  <2>1. Source(f) \in Host /\ BreakOff(Source(f)) /\ events' \subseteq events /\ early = {}
    BY <1>8, SourceType DEF ReportFails, Measured
  <2> QED
    BY <1>6, <2>1
<1>9. ASSUME NEW e \in events, QuitOrCrashFails(e) PROVE Orderly'
  <2>1. host[e.app] \in Host /\ BreakOff(host[e.app]) /\ events' \subseteq events /\ early = {}
    BY <1>0, <1>9, EventType DEF QuitOrCrashFails, TooEarly
  <2> QED
    BY <1>6, <2>1
<1>10. ASSUME NEW c \in Host, Fail(c) PROVE Orderly'
  <2>1. BreakOff(c) /\ events' \subseteq events /\ early = {}
    BY <1>10 DEF Fail
  <2> QED
    BY <1>6, <2>1
<1>11. ASSUME NEW c \in Host, Drop(c) PROVE Orderly'
  BY <1>11 DEF Drop, Orderly, Active, Source, outside, history
<1>7. CASE UNCHANGED vars
  BY <1>7 DEF Orderly, Active, Source, vars, loops, outside, history
<1> QED
  BY <1>1, <1>2, <1>3, <1>4, <1>5, <1>7, <1>8, <1>9, <1>10, <1>11 DEF Next

\* OrderlyStartHolds: as long as every application starts before it sends data or
\* ends, no reporter's handler panics, for any schedule and however the messages,
\* the aborts and the failures of cores interleave (OrderlyStart; reporter lib.rs
\* TCHandler, emulcore.rs flow_loop).
THEOREM OrderlyStartHolds == Spec => []OrderlyStart
<1>1. Init => Orderly
  BY OrderlyInit
<1>2. Typed /\ Orderly /\ [Next]_vars => Orderly'
  BY OrderlyNext
<1>3. Orderly => OrderlyStart
  BY DEF Orderly, OrderlyStart
<1> QED
  BY <1>1, <1>2, <1>3, TypedAlways, PTL DEF Spec

-----------------------------------------------------------------------------
(***************************************************************************)
(* Rates.  A flow that an application leaves with a share of 0 is removed   *)
(* without a word to its reporter, hence the links that are wide enough.    *)
(***************************************************************************)
RateRight(f) ==
  core[Source(f)] \in {"running", "ended"} /\ tc_handler[f[1]] /\ rate[f] # None =>
    rate[f] = IF f \in Active(Source(f)) THEN active_flows[Source(f)][f].authorized
                                         ELSE MaxBandwidth[f]

RatesRight ==
  WideLinks => /\ \A c \in Host : NoneStarved(active_flows[c])
               /\ \A f \in Flow : RateRight(f)

\* At core c everything is sent again, elsewhere nothing changes.
LEMMA RatesSent ==
  ASSUME NEW c \in Host, NEW r \in Rates, UpdateRates(c, active_flows'[c], r), ReportersOK,
         active_flows'[c] \in Tables,
         \A h \in Host \ {c} : active_flows'[h] = active_flows[h],
         \A h \in Host : core'[h] \in {"running", "ended"} => core[h] \in {"running", "ended"},
         \A f \in Flow : Source(f) # c => RateRight(f) /\ r[f] = rate[f],
         \A f \in Flow : Source(f) = c /\ f \notin DOMAIN active_flows'[c] /\ tc_handler[f[1]]
                           => r[f] = None \/ r[f] = MaxBandwidth[f]
  PROVE  \A f \in Flow : RateRight(f)'
<1> SUFFICES ASSUME NEW f \in Flow PROVE RateRight(f)'
  OBVIOUS
<1> DEFINE t == active_flows'[c]
<1>1. /\ rate'[f] = IF f \in Local(c, t) /\ tc_handler[f[1]] /\ r[f] # None
                    THEN t[f].authorized ELSE r[f]
      /\ tc_handler'[f[1]] = (tc_handler[f[1]] /\ \A g \in Local(c, t) : g[1] = f[1] => r[g] # None)
  BY SourceType DEF UpdateRates
<1>2. tc_handler[f[1]] \in BOOLEAN /\ Source(f) \in Host
  BY SourceType DEF ReportersOK
<1>3. CASE Source(f) # c
  <2>1. f \notin Local(c, t) /\ \A g \in Local(c, t) : g[1] # f[1]
    BY <1>3 DEF Local, Source
  <2>2. rate'[f] = rate[f] /\ tc_handler'[f[1]] = tc_handler[f[1]]
    BY <1>1, <1>2, <1>3, <2>1
  <2>3. active_flows'[Source(f)] = active_flows[Source(f)]
    BY <1>2, <1>3
  <2>4. RateRight(f)
    BY <1>3
  <2> QED
    BY <1>2, <2>2, <2>3, <2>4 DEF RateRight, Active, Source
<1>4. CASE Source(f) = c
  <2> SUFFICES ASSUME tc_handler'[f[1]], rate'[f] # None
               PROVE  rate'[f] = IF f \in DOMAIN t THEN t[f].authorized ELSE MaxBandwidth[f]
    BY <1>4 DEF RateRight, Active, Source
  <2>1. CASE f \in DOMAIN t
    <3>1. f \in Local(c, t)
      BY <1>4, <2>1 DEF Local
    <3>2. tc_handler[f[1]] /\ r[f] # None
      BY <1>1, <3>1
    <3> QED
      BY <1>1, <2>1, <3>1, <3>2
  <2>2. CASE f \notin DOMAIN t
    <3>1. f \notin Local(c, t)
      BY <2>2 DEF Local
    <3>2. rate'[f] = r[f] /\ tc_handler[f[1]]
      BY <1>1, <3>1
    <3> QED
      BY <1>4, <2>2, <3>2
  <2> QED
    BY <2>1, <2>2
<1> QED
  BY <1>3, <1>4

\* RatesRight holds initially.
LEMMA RatesInit == Init => RatesRight
<1> SUFFICES ASSUME Init PROVE RatesRight
  OBVIOUS
<1>1. \A c \in Host : NoneStarved(active_flows[c])
  BY DEF Init, NoneStarved
<1>2. \A f \in Flow : rate[f] = None
  BY DEF Init
<1> QED
  BY <1>1, <1>2 DEF RatesRight, RateRight

\* Every step keeps RatesRight.
LEMMA RatesNext == Typed /\ RatesRight /\ [Next]_vars => RatesRight'
<1> SUFFICES ASSUME Typed, RatesRight, [Next]_vars, WideLinks
             PROVE  /\ \A c \in Host : NoneStarved(active_flows'[c])
                    /\ \A f \in Flow : RateRight(f)'
  BY DEF RatesRight, WideLinks
<1>0. TablesOK /\ ReportersOK /\ LoopsOK /\ NetOK
  BY DEF Typed
<1>a. rate \in Rates /\ tc_handler \in [App -> BOOLEAN]
  BY <1>0 DEF ReportersOK
<1>b. /\ \A c \in Host : NoneStarved(active_flows[c])
      /\ \A f \in Flow : RateRight(f)
  BY DEF RatesRight
<1> DEFINE Goal == /\ \A c \in Host : NoneStarved(active_flows'[c])
                   /\ \A f \in Flow : RateRight(f)'
\* What both kinds of flow update do.
<1>1. ASSUME NEW c \in Host, NEW f \in Flow, NEW throughput \in Throughput \cup {None},
             FlowUpdate(c, f, throughput), core[c] = "running", core' = core
      PROVE  Goal
  <2> DEFINE back == UsedBandwidth(f, throughput) = 0 /\ Source(f) = c
             r == IF back THEN TCUpdate(rate, f, MaxBandwidth[f]) ELSE rate
  <2>1. TablesOK' /\ UpdateRates(c, active_flows'[c], r) /\ UpdatedAt(c, f, throughput)
    BY <1>0, <1>1, FlowUpdateTables
  <2>2. \A h \in Host : NoneStarved(active_flows'[h])
    BY <1>b, <2>1 DEF UpdatedAt
  <2>3. r \in Rates /\ \A g \in Flow : r[g] = IF back /\ g = f /\ tc_handler[f[1]]
                                              THEN MaxBandwidth[f] ELSE rate[g]
    BY <1>a, TCUpdateType, TCUpdateIs
  <2>4. active_flows'[c] \in Tables /\ \A h \in Host \ {c} : active_flows'[h] = active_flows[h]
    BY <2>1 DEF TablesOK, UpdatedAt
  <2>5. \A g \in Flow : Source(g) # c => RateRight(g) /\ r[g] = rate[g]
    BY <1>b, <2>3
  <2>6. ASSUME NEW g \in Flow, Source(g) = c, g \notin DOMAIN active_flows'[c], tc_handler[g[1]]
        PROVE  r[g] = None \/ r[g] = MaxBandwidth[g]
    <3>1. CASE back /\ g = f
      BY <2>3, <2>6, <3>1
    <3>2. CASE ~(back /\ g = f)
      <4>1. r[g] = rate[g]
        BY <2>3, <3>2
      <4>2. g \notin Active(Source(g))
        BY <2>1, <2>6, <3>2 DEF UpdatedAt, Active
      <4> QED
        BY <1>1, <1>b, <2>6, <4>1, <4>2 DEF RateRight
    <3> QED
      BY <3>1, <3>2
  <2> HIDE DEF r
  <2>7. \A g \in Flow : RateRight(g)'
    BY <1>0, <1>1, <2>1, <2>3, <2>4, <2>5, <2>6, RatesSent
  <2> QED
    BY <2>2, <2>7
<1>2. ASSUME NEW f \in Flow, NEW throughput \in Throughput \cup {None}, Report(f, throughput)
      PROVE  Goal
  <2>1. /\ Source(f) \in Host /\ FlowUpdate(Source(f), f, throughput)
        /\ core[Source(f)] = "running" /\ core' = core
    BY <1>2, SourceType DEF Report
  <2> HIDE DEF Goal
  <2> QED
    BY <1>1, <2>1
<1>3. ASSUME NEW m \in net, Receive(m) PROVE Goal
  <2>1. m.to \in Host /\ m.flow \in Flow /\ m.throughput \in Throughput \cup {None}
        /\ FlowUpdate(m.to, m.flow, m.throughput)
        /\ core[m.to] = "running" /\ core' = core
    BY <1>0, <1>3 DEF Receive, NetOK, Message
  <2> HIDE DEF Goal
  <2> QED
    BY <1>1, <2>1
<1>4. ASSUME NEW e \in events, Join(e) PROVE Goal
  <2> DEFINE a == e.app
             c == host[a]
             r == IF status[a] = "NotInit" THEN TCInitAll(a) ELSE rate
  <2>1. a \in App /\ c \in Host
    BY <1>0, EventType
  <2>2. /\ UpdateRates(c, active_flows[c], r) /\ active_flows' = active_flows
        /\ core[c] = "running" /\ core' = core
    BY <1>4 DEF Join, history
  <2>3. r \in Rates /\ \A g \in Flow : r[g] = rate[g] \/ (g[1] = a /\ r[g] = MaxBandwidth[g])
    BY <1>a, TCInitType, TCInitIs
  <2>4. active_flows'[c] \in Tables /\ UpdateRates(c, active_flows'[c], r)
    BY <1>0, <2>1, <2>2 DEF TablesOK
  <2>5. \A g \in Flow : Source(g) # c => RateRight(g) /\ r[g] = rate[g]
    BY <1>b, <2>3 DEF Source
  <2>6. ASSUME NEW g \in Flow, Source(g) = c, g \notin DOMAIN active_flows'[c], tc_handler[g[1]]
        PROVE  r[g] = None \/ r[g] = MaxBandwidth[g]
    BY <1>b, <2>2, <2>3, <2>6 DEF RateRight, Active
  <2> HIDE DEF r, c
  <2>7. \A g \in Flow : RateRight(g)'
    BY <1>0, <2>1, <2>2, <2>3, <2>4, <2>5, <2>6, RatesSent
  <2> QED
    BY <1>b, <2>2, <2>7
<1>5. ASSUME NEW e \in events, QuitOrCrash(e) PROVE Goal
  <2> DEFINE a == e.app
             c == host[a]
  <2>1. a \in App /\ c \in Host
    BY <1>0, EventType
  <2>2. PICK order \in SetToSeqs(Active(c) \cap FlowsFrom(a)) : Leave(e, order)
    BY <1>5 DEF QuitOrCrash
  <2>3. /\ TablesOK' /\ ToSet(order) \subseteq Active(c) \cap FlowsFrom(a)
        /\ DOMAIN active_flows'[c]
             = DOMAIN active_flows[c] \ {g \in ToSet(order) : active_flows[c][g].used = 0}
        /\ \A h \in Host \ {c} : active_flows'[h] = active_flows[h]
        /\ WideLinks /\ NoneStarved(active_flows[c]) => NoneStarved(active_flows'[c])
        /\ UpdateRates(c, active_flows'[c], rate)
    BY <1>0, <2>1, <2>2, LeaveTables
  <2> HIDE DEF c
  <2>0. core[c] = "running"
        /\ \A h \in Host : core'[h] \in {"running", "ended"} => core[h] \in {"running", "ended"}
    BY <1>0, <1>5, <2>1 DEF QuitOrCrash, LoopsOK, c
  <2>4. \A h \in Host : NoneStarved(active_flows'[h])
    BY <1>b, <2>3
  <2>5. DOMAIN active_flows'[c] = DOMAIN active_flows[c]
    <3>1. \A g \in ToSet(order) : g \in DOMAIN active_flows[c] /\ active_flows[c][g].used > 0
      BY <1>b, <2>1, <2>3 DEF NoneStarved, Active
    <3> QED
      BY <2>3, <3>1
  <2>6. active_flows'[c] \in Tables
    BY <2>1, <2>3 DEF TablesOK
  <2>7. ASSUME NEW g \in Flow, Source(g) = c, g \notin DOMAIN active_flows'[c], tc_handler[g[1]]
        PROVE  rate[g] = None \/ rate[g] = MaxBandwidth[g]
    BY <1>b, <2>0, <2>5, <2>7 DEF RateRight, Active
  <2>8. \A g \in Flow : RateRight(g)'
    BY <1>0, <1>a, <1>b, <2>0, <2>1, <2>3, <2>6, <2>7, RatesSent
  <2> QED
    BY <2>4, <2>8
<1>6. ASSUME UNCHANGED <<active_flows, rate, tc_handler>>,
             \A h \in Host : core'[h] \in {"running", "ended"} => core[h] \in {"running", "ended"}
      PROVE  Goal
  BY <1>6, <1>b, SourceType DEF RateRight, Active, Source
<1>7. ASSUME NEW m \in net, ReceiveLate(m) PROVE Goal
  BY <1>6, <1>7 DEF ReceiveLate
<1>8. ASSUME NEW c \in Host, Drop(c) PROVE Goal
  <2>1. /\ UNCHANGED <<active_flows, rate, tc_handler>>
        /\ \A h \in Host : core'[h] \in {"running", "ended"} => core[h] \in {"running", "ended"}
    BY <1>0, <1>8 DEF Drop, outside, LoopsOK
  <2> HIDE DEF Goal
  <2> QED
    BY <1>6, <2>1
<1>9. CASE UNCHANGED vars
  BY <1>6, <1>9 DEF vars, loops, outside
\* The reporters of a loop that breaks off follow nobody.
<1>10. ASSUME NEW c \in Host, BreakOff(c), events' \subseteq events PROVE Goal
  <2>1. /\ NoneStarved(active_flows'[c])
        /\ \A h \in Host \ {c} : active_flows'[h] = active_flows[h] /\ core'[h] = core[h]
        /\ core'[c] = "failed" /\ UNCHANGED <<rate, tc_handler>>
    BY <1>0, <1>10, BreakOffIs
  <2>2. ASSUME NEW f \in Flow PROVE RateRight(f)'
    <3>1. Source(f) \in Host /\ RateRight(f)
      BY <1>b, SourceType
    <3>2. CASE Source(f) = c
      BY <2>1, <3>2 DEF RateRight, Source
    <3>3. CASE Source(f) # c
      BY <2>1, <3>1, <3>3 DEF RateRight, Active, Source
    <3> QED
      BY <3>2, <3>3
  <2> QED
    BY <1>b, <2>1, <2>2
<1>11. ASSUME NEW f \in Flow, NEW throughput \in Throughput \cup {None}, ReportFails(f, throughput)
       PROVE  Goal
  <2>1. Source(f) \in Host /\ BreakOff(Source(f)) /\ events' \subseteq events
    BY <1>11, SourceType DEF ReportFails, Measured
  <2> HIDE DEF Goal
  <2> QED
    BY <1>10, <2>1
<1>12. ASSUME NEW e \in events, QuitOrCrashFails(e) PROVE Goal
  <2>1. host[e.app] \in Host /\ BreakOff(host[e.app]) /\ events' \subseteq events
    BY <1>0, <1>12, EventType DEF QuitOrCrashFails
  <2> HIDE DEF Goal
  <2> QED
    BY <1>10, <2>1
<1>13. ASSUME NEW c \in Host, Fail(c) PROVE Goal
  <2>1. BreakOff(c) /\ events' \subseteq events
    BY <1>13 DEF Fail
  <2> HIDE DEF Goal
  <2> QED
    BY <1>10, <2>1
<1> QED
  BY <1>2, <1>3, <1>4, <1>5, <1>7, <1>8, <1>9, <1>11, <1>12, <1>13 DEF Next

\* RatesFollowHolds: what a reporter lets through is always what its core last
\* decided, on any topology whose links are wide enough for its flows (RatesFollow;
\* emulcore.rs, end of flow_loop's iteration).
THEOREM RatesFollowHolds == Spec => []RatesFollow
<1>1. Init => RatesRight
  BY RatesInit
<1>2. Typed /\ RatesRight /\ [Next]_vars => RatesRight'
  BY RatesNext
<1>3. RatesRight => RatesFollow
  BY DEF RatesRight, RateRight, RatesFollow
<1> QED
  BY <1>1, <1>2, <1>3, TypedAlways, PTL DEF Spec
=============================================================================
