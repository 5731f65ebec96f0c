------------------------------ MODULE NetGraph ------------------------------
(***************************************************************************)
(* Network<T> (netgraph/src/lib.rs): vertices, links between them and two   *)
(* ways to find paths.  Of a Link only the bandwidth is kept, NoLink stands *)
(* for None; no caller makes a link half duplex.  Latency, jitter and drop  *)
(* are sums along the same path as the bandwidth and are left out.          *)
(***************************************************************************)
EXTENDS Integers, FiniteSetsExt, SequencesExt, SymMatrix

CONSTANT MAX   \* u32::MAX, greater than every bandwidth

None   == -1   \* Option::None of a number
NoLink == None
Lesser(a, b) == IF a < b THEN a ELSE b

-----------------------------------------------------------------------------
\* Building a network

WidestPath   == "widest"
ShortestPath == "shortest"

\* Network::new: a vertex is mapped to its (last) place in the vector.
NewNetwork(vertices, strategy) ==
  LET no_link(row, col) == NoLink
  IN  [links         |-> new_fn(Len(vertices), no_link),
       mapper        |-> [v \in Range(vertices) |->
                            Max({i \in DOMAIN vertices : vertices[i] = v}) - 1],
       path_strategy |-> strategy]

Vertices(net) == DOMAIN net.mapper
Mapped(net, from, to) == {from, to} \subseteq Vertices(net)
link(net, from, to) == At(net.links, from, to)

add_edge(net, from, to, bandwidth) ==
  IF Mapped(net, from, to)
  THEN [net EXCEPT !.links = Put(@, net.mapper[from], net.mapper[to], bandwidth)]
  ELSE net

-----------------------------------------------------------------------------
(***************************************************************************)
(* Searching paths.  A search holds the best value found for every index    *)
(* (hops or bandwidth), the parent it came from and the priority queue.     *)
(* The queue is a min-queue in both searches: the smallest value, then the  *)
(* smallest index.  An index is never queued twice with one value.          *)
(***************************************************************************)
Indices(net) == 0..(net.links.n - 1)
neighbours(net, from) ==
  {i \in Indices(net) : link(net, from, i) # NoLink /\ i # from}

Searches(net, values) ==
  [val      : [Indices(net) -> values],
   parents  : [Indices(net) -> Indices(net) \cup {None}],
   to_visit : SUBSET [node : Indices(net), val : values]]

SearchFrom(net, from, value) ==
  [val      |-> [i \in Indices(net) |-> IF i = from THEN value ELSE None],
   parents  |-> [i \in Indices(net) |-> None],
   to_visit |-> {[node |-> from, val |-> value]}]

Pop(s) ==
  CHOOSE p \in s.to_visit : \A q \in s.to_visit :
    p.val < q.val \/ (p.val = q.val /\ p.node <= q.node)

\* The neighbours of the popped vertex that it improves get their new value.
Relax(s, vert, improved, value(_)) ==
  [val      |-> [i \in DOMAIN s.val |-> IF i \in improved THEN value(i) ELSE s.val[i]],
   parents  |-> [i \in DOMAIN s.val |-> IF i \in improved THEN vert.node ELSE s.parents[i]],
   to_visit |-> (s.to_visit \ {vert})
                  \cup {[node |-> i, val |-> value(i)] : i \in improved}]

VisitShortest(net, s) ==
  LET vert == Pop(s)
      alt(i) == s.val[vert.node] + 1
  IN  IF vert.val > s.val[vert.node]
      THEN [s EXCEPT !.to_visit = @ \ {vert}]
      ELSE Relax(s, vert, {i \in neighbours(net, vert.node) :
                             s.val[i] = None \/ alt(i) < s.val[i]}, alt)

shortest_path(net, from) ==
  LET Visit[s \in Searches(net, Nat \cup {None})] ==
        IF s.to_visit = {} THEN s ELSE Visit[VisitShortest(net, s)]
  IN  Visit[SearchFrom(net, from, 0)]

\* Mutant: a vertex counts as done once it has a bandwidth, as in Dijkstra's
\* algorithm, although the queue does not yield the widest vertex first.
VisitWidestOnce(net, s) ==
  LET vert == Pop(s)
      through(i) == Lesser(s.val[vert.node], link(net, vert.node, i))
  IN  Relax(s, vert, {i \in neighbours(net, vert.node) : s.val[i] = None}, through)

VisitWidest(net, s) ==
  LET vert == Pop(s)
      through(i) == Lesser(s.val[vert.node], link(net, vert.node, i))
  IN  IF vert.val < s.val[vert.node]
      THEN [s EXCEPT !.to_visit = @ \ {vert}]
      ELSE Relax(s, vert, {i \in neighbours(net, vert.node) :
                             s.val[i] = None \/ through(i) > s.val[i]}, through)

widest_path(net, from) ==
  LET Visit[s \in Searches(net, None..MAX)] ==
        IF s.to_visit = {} THEN s ELSE Visit[VisitWidest(net, s)]
  IN  Visit[SearchFrom(net, from, MAX)]

path_between(net, from) ==
  IF net.path_strategy = WidestPath THEN widest_path(net, from)
                                    ELSE shortest_path(net, from)

\* The links met on the way back from index to along parents.
Chain(parents, to) ==
  LET Up[i \in DOMAIN parents] ==
        IF parents[i] = None THEN {} ELSE {{i, parents[i]}} \cup Up[parents[i]]
  IN  Up[to]

LinkOf(net, ends) == LET a == Min(ends) b == Max(ends) IN link(net, a, b)

-----------------------------------------------------------------------------
\* What the emulation asks of a network

bandwidth_between(net, from, to) ==
  IF ~Mapped(net, from, to) THEN None
  ELSE LET found == path_between(net, net.mapper[from])
           i == net.mapper[to]
       IN  IF net.path_strategy = WidestPath THEN found.val[i]
           ELSE IF found.parents[i] = None THEN None
           ELSE Min({MAX} \cup {LinkOf(net, e) : e \in Chain(found.parents, i)})

\* The links_set of the Path; a Link is told by its two ends.
get_path_between(net, from, to) ==
  Chain(path_between(net, net.mapper[from]).parents, net.mapper[to])

\* The order of nodes is that of the keys of a HashMap: any order.
bandwidth_matrix(net, nodes) ==
  LET bandwidth(row, col) ==
        IF row = col THEN MAX ELSE bandwidth_between(net, nodes[row + 1], nodes[col + 1])
  IN  new_fn(Len(nodes), bandwidth)

=============================================================================
