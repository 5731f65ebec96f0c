---------------------------- MODULE Orchestrator ----------------------------
(***************************************************************************)
(* The Orchestrator (emulation/src/orchestrator.rs) keeps the books of the  *)
(* cluster: the bandwidth left between hosts and the applications placed on *)
(* them.  It searches a placement for every new topology, gives back what   *)
(* ends and follows the changes of the cluster graph.  Its methods run one  *)
(* at a time, in the OManager's loop (pubapi.rs 57-80).                     *)
(*                                                                         *)
(* Numbers are u32 and wrap at MAX + 1, as in a release build.  Hosts,      *)
(* applications and the entries of a combination are counted from 0.        *)
(***************************************************************************)
EXTENDS Integers, FiniteSetsExt, SequencesExt, SymMatrix

CONSTANTS
  MAX,          \* u32::MAX
  Host,         \* all hosts; ClusterNodeInfo with the EManager's port
  FirstHosts,   \* sequence: the cluster graph the Orchestrator starts with
  Speed,        \* set of two hosts -> speed between them in the cluster graph
  Emul,         \* uuids of emulations
  Topologies,   \* set of [net |-> Network, apps |-> its applications]
  max_load,     \* applications a host may run
  MaxDepth,     \* rounds of find_iso_internal (5)
  MaxChanges    \* bound on the updates of the cluster graph

VARIABLES
  residual_graph,   \* SymMatrix: bandwidth left between two hosts
  host_mapping,     \* sequence: the host of each row
  attributed_emul,  \* host -> emulations that have an application there
  current_load,     \* host -> emulation -> applications; 0 stands for no entry
  emulations,       \* emulation -> [matrix, equivalence]
  panicked,         \* why the OManager's task died, or "no"
  cgraph,           \* the leader's graph: sequence of hosts
  copy,             \* the graph a joining host is completing, or <<>>
  stopped,          \* applications <<emulation, index>> that ended (CleanStop)
  changes,          \* updates of the cluster graph so far
  crashed,          \* history: some application ended
  returned          \* history: a graph brought back a host it had lost

books == <<residual_graph, host_mapping, attributed_emul, current_load, emulations>>
environment == <<cgraph, copy, stopped, changes, crashed, returned>>
vars == <<books, panicked, environment>>

Net == INSTANCE NetGraph

\* The matrices a topology can become, one per order of its applications.
Requests ==
  UNION {{Net!bandwidth_matrix(t.net, order) : order \in SetToSeqs(t.apps)} :
           t \in Topologies}

ASSUME Cluster ==
  /\ MAX \in Nat /\ max_load \in Nat /\ MaxDepth \in Nat \ {0} /\ MaxChanges \in Nat
  /\ IsFiniteSet(Emul)
  /\ FirstHosts \in Seq(Host) /\ FirstHosts # << >> /\ IsInjective(FirstHosts)
  /\ \A a, b \in Host : a # b => Speed[{a, b}] \in 0..MAX

\* Every topology has an application; bandwidths are u32 or missing.
ASSUME TopologiesAssumption ==
  \A m \in Requests :
    /\ m.n \in Nat \ {0}
    /\ m = [n |-> m.n, data |-> m.data]
    /\ m.data \in [0..((m.n * (m.n + 1)) \div 2 - 1) -> -1..MAX]

Size == residual_graph.n
Residual(a, b) == At(residual_graph, a, b)
Wrap(x) == x % (MAX + 1)
Apps(matrix) == 0..(matrix.n - 1)

\* What each pair of applications asks for, and what the pairs in S ask together.
Demand(matrix) == [p \in Apps(matrix) \X Apps(matrix) |-> At(matrix, p[1], p[2])]
Required(matrix, S) == SumFunctionOnSet(Demand(matrix), S)

LoadOn(host) == SumFunction(current_load[host])
get_actual_load(index) == LoadOn(host_mapping[index + 1])

-----------------------------------------------------------------------------
\* The search of a placement

\* Mutant: the bandwidth to each other host is compared with a single pair's.
verify_permutation_pairwise(g1, at) ==
  \A host \in Range(at) :
    LET here == {app \in Apps(g1) : at[app] = host}
    IN  /\ get_actual_load(host) + Cardinality(here) <= max_load
        /\ \A a \in here, b \in Apps(g1) \ here :
             At(g1, a, b) <= Residual(host, at[b])

\* at: application -> row of its host.  All that leaves a host has to fit
\* through the link to each of the other hosts.
verify_permutation(g1, at) ==
  \A host \in Range(at) :
    LET here == {app \in Apps(g1) : at[app] = host}
        total_required_bandwidth == Wrap(Required(g1, here \X (Apps(g1) \ here)))
    IN  /\ get_actual_load(host) + Cardinality(here) <= max_load
        /\ \A other \in Range(at) \ {host} :
             total_required_bandwidth <= Residual(host, other)

Found(at) == [kind |-> "found", at |-> at]
NotFound  == [kind |-> "none"]
Panic     == [kind |-> "panic"]

(***************************************************************************)
(* Heap's algorithm.  Its loop keeps the permutation, a counter per place   *)
(* and the place to exchange next.                                          *)
(***************************************************************************)
Arrangements(k) ==
  [equivalence : [0..(k - 1) -> 0..(k - 1)], counter : [0..(k - 1) -> Nat], index : 1..k]

FirstOf(k) ==
  [equivalence |-> [i \in 0..(k - 1) |-> i], counter |-> [i \in 0..(k - 1) |-> 0], index |-> 1]

Exchanged(s) ==
  LET i == s.index
      j == IF i % 2 = 0 THEN 0 ELSE s.counter[i]
  IN  [equivalence |-> [s.equivalence EXCEPT ![i] = s.equivalence[j], ![j] = s.equivalence[i]],
       counter     |-> [s.counter EXCEPT ![i] = @ + 1],
       index       |-> 1]

Carried(s) ==
  [equivalence |-> s.equivalence, counter |-> [s.counter EXCEPT ![s.index] = 0],
   index |-> s.index + 1]

Hosting(g1, combination, s) == [app \in Apps(g1) |-> combination[s.equivalence[app]] % Size]
Verifies(g1, combination, s) == verify_permutation(g1, Hosting(g1, combination, s))

\* The first permutation of the combination that verifies.
graph_isomorphism(g1, combination) ==
  LET Permute[s \in Arrangements(g1.n)] ==
        IF s.index >= g1.n THEN NotFound
        ELSE IF s.counter[s.index] >= s.index THEN Permute[Carried(s)]
        ELSE IF Verifies(g1, combination, Exchanged(s))
             THEN Found(Hosting(g1, combination, Exchanged(s)))
        ELSE Permute[Exchanged(s)]
      first == FirstOf(g1.n)
  IN  IF Verifies(g1, combination, first) THEN Found(Hosting(g1, combination, first))
      ELSE Permute[first]

\* Mutant: the first entry may pass its greatest value.
next_comb_further(previous, k, n) ==
  LET open == {i \in 0..(k - 1) : previous[i] + 1 <= n - k + 1 + i}
      i == Max(open)
  IN  IF open = {} THEN Panic
      ELSE Found([v \in 0..(k - 1) |->
                    IF v < i THEN previous[v] ELSE previous[i] + 1 + v - i])

(***************************************************************************)
(* next_comb: the next subset of 0..n with k elements, ascending.  An entry *)
(* that has reached its greatest value passes the increment to the one      *)
(* before it; when the first one has to pass it on, the index underflows.   *)
(* That is so for k = n + 1.  The last subset is never yielded.             *)
(***************************************************************************)
next_comb(previous, k, n) ==
  LET open == {i \in 0..(k - 1) : previous[i] + 1 <= n - k + 1 + i}
      i == Max(open)
  IN  IF open = {} THEN Panic
      ELSE IF i = 0 /\ previous[0] + 1 > n - k THEN NotFound
      ELSE Found([v \in 0..(k - 1) |->
                    IF v < i THEN previous[v] ELSE previous[i] + 1 + v - i])

\* Mutant: which hosts occur, without counting their clones.
HostsOfUncounted(combination) ==
  [host \in 0..(Size - 1) |->
     IF \E i \in DOMAIN combination : combination[i] % Size = host THEN 1 ELSE 0]

\* How often each host occurs: what combination_set tells apart.
HostsOf(combination) ==
  [host \in 0..(Size - 1) |->
     Cardinality({i \in DOMAIN combination : combination[i] % Size = host})]

Tests == SUBSET [0..(Size - 1) -> Nat]

\* What becomes of a combination: it is tried, unless its hosts were, when there
\* is place left on all of them.
Tried(s) ==
  LET set == HostsOf(s.combination)
  IN  /\ set \notin s.tested_comb
      /\ \A host \in DOMAIN set : set[host] > 0 => get_actual_load(host) < max_load
Result(g1, s) == IF Tried(s) THEN graph_isomorphism(g1, s.combination) ELSE NotFound
Tested(s) == IF Tried(s) THEN s.tested_comb \cup {HostsOf(s.combination)} ELSE s.tested_comb

\* The loop over the combinations for one number of clones.
TryCombinations(g1, clones, already_tested) ==
  LET Loop[s \in [combination : [Apps(g1) -> Nat], tested_comb : Tests]] ==
        LET result == Result(g1, s)
            comb == next_comb(s.combination, g1.n, Size - 1 + Size * clones)
        IN  IF result.kind = "found" THEN result
            ELSE IF comb.kind = "found"
                 THEN Loop[[combination |-> comb.at, tested_comb |-> Tested(s)]]
            ELSE IF comb.kind = "panic" THEN Panic
            ELSE [kind |-> "none", tested_comb |-> Tested(s)]
  IN  Loop[[combination |-> [i \in Apps(g1) |-> i], tested_comb |-> already_tested]]

\* Without a host the first round panics: size() - 1 underflows, and the entries
\* of the combination are taken % 0.
find_iso_internal(g1, first_clones) ==
  LET Deepen[s \in [clones : Nat, tested_comb : Tests, max_depth : 0..MaxDepth]] ==
        LET result == TryCombinations(g1, s.clones, s.tested_comb)
        IN  IF s.max_depth = 0 THEN NotFound
            ELSE IF result.kind # "none" THEN result
            ELSE Deepen[[clones |-> s.clones + 1, tested_comb |-> result.tested_comb,
                         max_depth |-> s.max_depth - 1]]
  IN  IF Size = 0 THEN Panic
      ELSE Deepen[[clones |-> first_clones, tested_comb |-> {}, max_depth |-> MaxDepth]]

find_isomorphism(g1) == find_iso_internal(g1, Max({0, g1.n - Size}))

-----------------------------------------------------------------------------
Init ==
  LET speed(row, col) ==
        IF row = col THEN MAX ELSE Speed[{FirstHosts[row + 1], FirstHosts[col + 1]}]
  IN  /\ residual_graph = new_fn(Len(FirstHosts), speed)
      /\ host_mapping = FirstHosts
      /\ attributed_emul = << >>
      /\ current_load = [h \in Host |-> [e \in Emul |-> 0]]
      /\ emulations = << >>
      /\ panicked = "no"
      /\ cgraph = FirstHosts /\ copy = << >>
      /\ stopped = {} /\ changes = 0 /\ crashed = FALSE /\ returned = FALSE

Ordered(matrix) == {p \in Apps(matrix) \X Apps(matrix) : p[2] < p[1]}

\* Bandwidth of all pairs of applications in pairs that sit on rows a and b.
Between(matrix, at, pairs, a, b) ==
  Required(matrix, {p \in pairs : {at[p[1]], at[p[2]]} = {a, b}})

Taken(matrix, at) ==
  LET left(row, col) ==
        IF row = col THEN Residual(row, col)
        ELSE Wrap(Residual(row, col) - Between(matrix, at, Ordered(matrix), row, col))
  IN  new_fn(Size, left)

GivenBack(residual, matrix, at, pairs) ==
  LET left(row, col) ==
        Wrap(At(residual, row, col) + Between(matrix, at, pairs, row, col))
  IN  new_fn(residual.n, left)

Die(why) == panicked' = why /\ UNCHANGED <<books, environment>>

\* A placement is found: load, attribution and bandwidth are booked.
Place(e, matrix, at) ==
  LET host(app) == host_mapping[at[app] + 1]
      hosts == {host(app) : app \in Apps(matrix)}
  IN  /\ current_load' = [h \in Host |-> [current_load[h] EXCEPT ![e] =
           @ + Cardinality({app \in Apps(matrix) : host(app) = h})]]
      /\ attributed_emul' =
           [h \in DOMAIN attributed_emul \cup hosts |->
              (IF h \in DOMAIN attributed_emul THEN attributed_emul[h] ELSE {})
                \cup (IF h \in hosts THEN {e} ELSE {})]
      /\ residual_graph' = Taken(matrix, at)
      /\ emulations' = [x \in DOMAIN emulations \cup {e} |->
           IF x = e THEN [matrix |-> matrix, equivalence |-> at] ELSE emulations[x]]
      /\ UNCHANGED <<host_mapping, panicked, environment>>

Connected(matrix) == \A i \in DOMAIN matrix.data : matrix.data[i] # Net!None

\* new_emulation.  Two applications without a path between them panic in
\* bandwidth_matrix; a placement that is not found rejects the topology.
NewEmulation(e, matrix) ==
  /\ e \notin DOMAIN emulations
  /\ \A i \in Apps(matrix) : <<e, i>> \notin stopped
  /\ IF ~Connected(matrix) THEN Die("unconnected")
     ELSE \E result \in {find_isomorphism(matrix)} :
            \/ result.kind = "panic" /\ Die("search")
            \/ result.kind = "none"  /\ UNCHANGED vars
            \/ result.kind = "found" /\ Place(e, matrix, result.at)

\* Mutant: the load is cleared with the first application of the emulation.
FreedAll(node, e) == current_load[node][e]

\* An application ends in an emulation the books know: load it frees.
Freed(node, e) == IF current_load[node][e] > 0 THEN 1 ELSE 0

\* Mutant: the emulation is forgotten with the first of its hosts.
StillThereNever(attributed, e) == FALSE

StillThere(attributed, e) == \E h \in DOMAIN attributed : e \in attributed[h]

Without(f, S) == Restrict(f, DOMAIN f \ S)

\* stop_app_emulation_on, for the CleanStop of the core that runs the
\* application.  For an emulation that is not in the books it does nothing.
CleanStop(e, app) ==
  LET emul == emulations[e]
      node == host_mapping[emul.equivalence[app] + 1]
      mine == {<<app, i>> : i \in Apps(emul.matrix) \ {app}}
      last == current_load[node][e] = 1
      bad_row == \E i \in Apps(emul.matrix) : emul.equivalence[i] >= Size
  IN  /\ e \in DOMAIN emulations
      /\ app \in Apps(emul.matrix)
      /\ <<e, app>> \notin stopped
      /\ IF bad_row \/ (last /\ node \notin DOMAIN attributed_emul) THEN Die("unwrap")
         ELSE
         /\ residual_graph' = GivenBack(residual_graph, emul.matrix, emul.equivalence, mine)
         /\ current_load' = [current_load EXCEPT ![node][e] = @ - Freed(node, e)]
         /\ attributed_emul' =
              IF last THEN [attributed_emul EXCEPT ![node] = @ \ {e}] ELSE attributed_emul
         /\ emulations' = IF StillThere(attributed_emul', e) THEN emulations
                          ELSE Without(emulations, {e})
         /\ stopped' = stopped \cup {<<e, app>>}
         /\ crashed' = TRUE
         /\ UNCHANGED <<host_mapping, panicked, cgraph, copy, changes, returned>>

-----------------------------------------------------------------------------
(***************************************************************************)
(* Changes of the cluster graph.  The books as one record, for the methods  *)
(* that are called in a loop.                                               *)
(***************************************************************************)
Books ==
  [residual |-> residual_graph, mapping |-> host_mapping, attributed |-> attributed_emul,
   load |-> current_load, emulations |-> emulations]

SetBooks(b) ==
  /\ residual_graph' = b.residual
  /\ host_mapping' = b.mapping
  /\ attributed_emul' = b.attributed
  /\ current_load' = b.load
  /\ emulations' = b.emulations

\* Mutant: the bandwidth is not given back.
stop_emulation_kept(b, e) ==
  [b EXCEPT !.attributed = [h \in DOMAIN @ |-> @[h] \ {e}],
            !.load       = [h \in Host |-> [@[h] EXCEPT ![e] = 0]],
            !.emulations = Without(@, {e})]

\* For an emulation that is not in the books an Err, which callers ignore.
stop_emulation(b, e) ==
  IF e \notin DOMAIN b.emulations THEN b
  ELSE LET emul == b.emulations[e]
       IN  [b EXCEPT
              !.residual   = GivenBack(@, emul.matrix, emul.equivalence, Ordered(emul.matrix)),
              !.attributed = [h \in DOMAIN @ |-> @[h] \ {e}],
              !.load       = [h \in Host |-> [@[h] EXCEPT ![e] = 0]],
              !.emulations = Without(@, {e})]

\* Mutant: the emulations of the lost host are left in the books.
uuids_concerned_elsewhere(b, node) ==
  UNION {b.attributed[h] : h \in DOMAIN b.attributed \ {node}}

\* All emulations, whichever host they are attributed to.
uuids_concerned(b, node) == UNION Range(b.attributed)

\* The emulations are stopped in whatever order: giving back adds up.
StopAll(b, uuids) == FoldSet(LAMBDA e, acc : stop_emulation(acc, e), b, uuids)

\* Where a host is in a sequence of hosts, counted from 1.
Row(hosts, node) == CHOOSE i \in DOMAIN hosts : hosts[i] = node

\* Mutant: the host stays in the mapping.
remove_cluster_node_mapped(b, node) ==
  LET stopped_all == StopAll(b, uuids_concerned(b, node))
      id == Row(b.mapping, node)
  IN  [stopped_all EXCEPT !.residual = remove_id(@, id - 1), !.attributed = Without(@, {node})]

remove_cluster_node(b, node) ==
  LET stopped_all == StopAll(b, uuids_concerned(b, node))
      id == Row(b.mapping, node)
  IN  [stopped_all EXCEPT
         !.residual   = remove_id(@, id - 1),
         !.mapping    = RemoveAt(@, id),
         !.attributed = Without(@, {node})]

\* CGraphUpdate::Remove: the leader lost a host, perhaps its own: the cluster
\* may be left without any.
NodeFailure(h) ==
  /\ h \in Range(cgraph)
  /\ changes < MaxChanges
  /\ IF h \notin Range(host_mapping) THEN Die("unwrap")
     ELSE /\ cgraph' = RemoveAt(cgraph, Row(cgraph, h))
          /\ SetBooks(remove_cluster_node(Books, h))
          /\ changes' = changes + 1
          /\ UNCHANGED <<panicked, copy, stopped, crashed, returned>>

(***************************************************************************)
(* grow_fn in update_with_cgraph, for one new host: its row in the new      *)
(* graph (nodes) is compared with a row of the old matrix.  When the two    *)
(* happen to be equal, the host is taken to be its own neighbour.           *)
(***************************************************************************)
Grown(m, mapping, nodes) ==
  LET n == Last(mapping)
      nodes_to_index(h) == Row(nodes, h) - 1
      speed(row, col) ==
        LET other == IF row = nodes_to_index(n) THEN col ELSE row
            h == mapping[other + 1]
        IN  IF row = col \/ h = n THEN MAX ELSE Speed[{n, h}]
  IN  grow_fn(m, 1, speed)

\* A host asks for the graph in order to join.
JoinStart(h) ==
  /\ copy = << >>
  /\ copy' = IF h \in Range(cgraph) THEN cgraph ELSE Append(cgraph, h)
  /\ UNCHANGED <<books, panicked, cgraph, stopped, changes, crashed, returned>>

\* update_with_cgraph: first the hosts that are gone are removed.
RemoveGone(b, nodes) ==
  LET remove(acc, h) == IF h \in Range(nodes) THEN acc ELSE remove_cluster_node(acc, h)
  IN  FoldLeft(remove, b, b.mapping)

\* A host of the graph that is new gets a row.
AddHost(b, h, nodes) ==
  LET mapping == Append(b.mapping, h)
  IN  IF h \in Range(b.mapping) THEN b
      ELSE [b EXCEPT !.mapping = mapping, !.residual = Grown(@, mapping, nodes)]

AddNew(b, nodes) ==
  LET add(acc, h) == AddHost(acc, h, nodes)
  IN  FoldLeft(add, b, nodes)

update_with_cgraph(b, nodes) == AddNew(RemoveGone(b, nodes), nodes)

\* CGraphUpdate::New: the completed graph replaces the leader's.
JoinDone ==
  /\ copy # << >>
  /\ changes < MaxChanges /\ changes' = changes + 1
  /\ SetBooks(update_with_cgraph(Books, copy))
  /\ cgraph' = copy /\ copy' = << >>
  /\ returned' = (returned \/ ~IsPrefix(cgraph, copy))
  /\ UNCHANGED <<panicked, stopped, crashed>>

JoinFails ==
  /\ copy # << >> /\ copy' = << >>
  /\ UNCHANGED <<books, panicked, cgraph, stopped, changes, crashed, returned>>

Next ==
  /\ panicked = "no"
  /\ \/ \E e \in Emul, matrix \in Requests : NewEmulation(e, matrix)
     \/ \E e \in DOMAIN emulations : \E app \in Apps(emulations[e].matrix) : CleanStop(e, app)
     \/ \E h \in Host : NodeFailure(h)
     \/ \E h \in Host \ {FirstHosts[1]} : JoinStart(h)
     \/ JoinDone
     \/ JoinFails

Spec == Init /\ [][Next]_vars

-----------------------------------------------------------------------------
\* Types of the variables; the rows of the matrix are the hosts of the cluster
\* graph, each once, whatever joins and leaves (update_with_cgraph).
TypeOK ==
  /\ Size = Len(host_mapping)
  /\ DOMAIN residual_graph.data = 0..((Size * (Size + 1)) \div 2 - 1)
  /\ Range(residual_graph.data) \subseteq 0..MAX
  /\ Range(host_mapping) = Range(cgraph) /\ IsInjective(host_mapping)
  /\ DOMAIN attributed_emul \subseteq Host
  /\ UNION Range(attributed_emul) \subseteq Emul
  /\ current_load \in [Host -> [Emul -> 0..max_load]]
  /\ DOMAIN emulations \subseteq Emul
  /\ changes \in 0..MaxChanges
  /\ crashed \in BOOLEAN /\ returned \in BOOLEAN

Running(e) == {app \in Apps(emulations[e].matrix) : <<e, app>> \notin stopped}
HostOf(e, app) == host_mapping[emulations[e].equivalence[app] + 1]

\* A host never runs more applications than allowed, and its load is the
\* number of applications on it that have not ended: after any mixture of
\* placements, ends of applications and changes of the cluster.
LoadsRight ==
  \A h \in Host :
    /\ LoadOn(h) <= max_load
    /\ \A e \in Emul : current_load[h][e] =
         IF e \notin DOMAIN emulations THEN 0
         ELSE Cardinality({app \in Running(e) : HostOf(e, app) = h})

\* The books know an emulation exactly as long as one of its applications
\* runs, and attribute it exactly to the hosts of those applications.
AttributedWhileRunning ==
  /\ \A e \in DOMAIN emulations : Running(e) # {}
  /\ \A h \in DOMAIN attributed_emul : attributed_emul[h] =
       {e \in DOMAIN emulations : \E app \in Running(e) : HostOf(e, app) = h}

\* Bandwidth that pairs of applications use between two rows, given for every
\* emulation in the books.
InUse(a, b, pairs) ==
  SumFunction([e \in DOMAIN emulations |->
    Between(emulations[e].matrix, emulations[e].equivalence, pairs[e], a, b)])
TwoRows == {p \in (0..(Size - 1)) \X (0..(Size - 1)) : p[1] # p[2]}
Capacity(p) == Speed[{host_mapping[p[1] + 1], host_mapping[p[2] + 1]}]

\* The bandwidth a topology asks for between all its applications is a u32:
\* else the sum in verify_permutation wraps and lets too much through.
SumsFit ==
  \A m \in Requests : Connected(m) => Required(m, Ordered(m)) <= MAX

\* What is left between two hosts and what the emulations use of it make up
\* the speed between the hosts: nothing is promised twice, no subtraction
\* wraps, and what a lost host stops is given back.  Exactly so until an
\* application ends by itself or a host returns out of order.
BooksBalance ==
  SumsFit /\ ~crashed /\ ~returned =>
    LET all == [e \in DOMAIN emulations |-> Ordered(emulations[e].matrix)]
    IN  \A p \in TwoRows :
          Residual(p[1], p[2]) + InUse(p[1], p[2], all) = Capacity(p)

\* Bandwidth never gets lost: what is left between two hosts and what pairs
\* of running applications use make up at least the speed between the hosts,
\* also when applications end one by one.
NothingLost ==
  ~returned =>
    LET live == [e \in DOMAIN emulations |->
                   {q \in Ordered(emulations[e].matrix) : {q[1], q[2]} \subseteq Running(e)}]
    IN  \A p \in TwoRows :
          Residual(p[1], p[2]) + InUse(p[1], p[2], live) >= Capacity(p)

\* The comment before a host is removed from the matrix (orchestrator.rs
\* 237-238): with all emulations stopped the bandwidth is "like in default".
LikeDefault ==
  ~returned /\ DOMAIN emulations = {} =>
    \A p \in TwoRows : Residual(p[1], p[2]) = Capacity(p)

\* A placement that the search finds is a map of the applications to hosts, and
\* fits (graph_isomorphism maps it back after the check).  It panics only when
\* there are as many applications as hosts, a single host or none.
SearchSound ==
  \A matrix \in {m \in Requests : Connected(m)} :
    \A result \in {find_isomorphism(matrix)} :
      /\ result.kind = "found" => /\ result.at \in [Apps(matrix) -> 0..(Size - 1)]
                                  /\ verify_permutation(matrix, result.at)
      /\ result.kind = "panic" => matrix.n = Size \/ Size \in {0, 1}

\* When there is a placement among all maps of applications to hosts, the search
\* does not reject the topology.
SearchComplete ==
  \A matrix \in {m \in Requests : Connected(m)} :
    (\E at \in [Apps(matrix) -> 0..(Size - 1)] : verify_permutation(matrix, at)) =>
      find_isomorphism(matrix) # NotFound

\* No row of a placement is out of range, no unwrap of the Orchestrator's maps
\* fails and every host the leader loses is known: the OManager dies of a
\* topology only.
BooksNeverPanic == panicked # "unwrap"

=============================================================================
