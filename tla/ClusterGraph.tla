---------------------------- MODULE ClusterGraph ----------------------------
(***************************************************************************)
(* How the cluster graph comes to know the speeds between its nodes.  A     *)
(* host that joins downloads the leader's graph, adds itself and tests the  *)
(* speeds it cannot tell otherwise (Ctrl::add_myself_in_cluster and         *)
(* complete_graph, cmanager/src/controller.rs 445-522); the completed graph *)
(* then replaces the leader's.  Meanwhile the leader may lose nodes.  That  *)
(* one host joins at a time is shown of ClusterManager.                     *)
(*                                                                         *)
(* The physical network is a Network with widest paths: iperf3 measures     *)
(* what the network can carry.  It is wired link by link before the cluster *)
(* is created and stays as it is then.                                      *)
(***************************************************************************)
EXTENDS CGraph

CONSTANTS
  Hosts,        \* sequence of the hosts
  Switches,     \* sequence of vertices that only forward
  Leader,       \* the host that creates the cluster
  Bandwidths,   \* of the links
  LocalSpeeds,  \* values of local_speed a host may be started with
  Sufficient,   \* host -> configured sufficient_speed
  TestRetries,  \* perf_test_retries
  NoHost

ASSUME Setup ==
  /\ MAX \in Nat /\ TestRetries \in Nat
  /\ Bandwidths \subseteq 0..MAX /\ LocalSpeeds \subseteq 0..MAX
  /\ Sufficient \in [Range(Hosts) -> Nat]
  /\ Hosts \in Seq(Range(Hosts)) /\ Switches \in Seq(Range(Switches))
  /\ Leader \in Range(Hosts) /\ NoHost \notin Range(Hosts)

VARIABLES
  net,      \* the physical network
  created,  \* the leader has created the cluster
  cgraph,   \* the leader's graph
  joiner,   \* the host that is joining, or NoHost
  copy,     \* its graph
  other,    \* the node it is testing against, or NoHost
  tries     \* failed tries of that test

vars == <<net, created, cgraph, joiner, copy, other, tries>>

Net == INSTANCE NetGraph

Host == Range(Hosts)
Vertex == Host \cup Range(Switches)

\* The speed between two hosts, 0 when there is no way.
Real(a, b) == Max({0, Net!bandwidth_between(net, a, b)})

\* A local_speed is at most that of the host's fastest link.
fastest_link(h) ==
  Max({0} \cup {Net!link(net, net.mapper[h], i) : i \in Net!neighbours(net, net.mapper[h])})
Configured(h) == {Lesser(speed, fastest_link(h)) : speed \in LocalSpeeds}

Init ==
  /\ net = Net!NewNetwork(Hosts \o Switches, Net!WidestPath)
  /\ created = FALSE /\ cgraph = EmptyGraph
  /\ joiner = NoHost /\ copy = EmptyGraph /\ other = NoHost /\ tries = 0

\* The physical network, link by link.
Wire(a, b, bandwidth) ==
  /\ ~created
  /\ net' = Net!add_edge(net, a, b, bandwidth)
  /\ UNCHANGED <<created, cgraph, joiner, copy, other, tries>>

\* create_cluster
CreateCluster ==
  /\ ~created /\ created' = TRUE
  /\ \E my_speed \in Configured(Leader) :
       cgraph' = add_node(cgraph, my_speed, Leader)
  /\ UNCHANGED <<net, joiner, copy, other, tries>>

\* CGraphGet and CGraphSend, and the first line of complete_graph.  A host
\* that rebooted unnoticed is still in the graph it gets.
JoinStart(h) ==
  /\ joiner = NoHost
  /\ created
  /\ joiner' = h
  /\ \E my_speed \in Configured(h) : copy' = add_node(cgraph, my_speed, h)
  /\ UNCHANGED <<net, created, cgraph, other, tries>>

Me == NodeOf(copy, joiner)

Leave ==
  joiner' = NoHost /\ copy' = EmptyGraph /\ other' = NoHost /\ tries' = 0

\* The head of complete_graph's loop.  With nothing missing the graph goes to
\* the leader (CGraphUpdate), which takes it over.
FindMissing(order) ==
  /\ joiner # NoHost /\ other = NoHost
  /\ LET found == find_missing_from_me(copy, Me, Sufficient[joiner], order)
     IN  IF found.missing = <<>>
         THEN cgraph' = found.g /\ Leave
         ELSE /\ copy' = found.g
              /\ other' = Fastest(found.missing).info
              /\ UNCHANGED <<cgraph, joiner, tries>>
  /\ UNCHANGED <<net, created>>

\* launch_test succeeds; a speed that is refused ends the join with an Err.
TestDone ==
  /\ other # NoHost
  /\ LET node == NodeOf(copy, other)
         speed == Real(joiner, other)
     IN  /\ speed > 0
         /\ IF GoodSpeed(Me, node, speed)
            THEN /\ copy' = add_link_direct_test(copy, Me, node, speed)
                 /\ other' = NoHost /\ tries' = 0
                 /\ UNCHANGED joiner
            ELSE Leave
  /\ UNCHANGED <<net, created, cgraph>>

\* launch_test fails: again, or PerfTestFailed after the last try.
TestFails ==
  /\ other # NoHost
  /\ IF tries < TestRetries
     THEN tries' = tries + 1 /\ UNCHANGED <<joiner, copy, other>>
     ELSE Leave
  /\ UNCHANGED <<net, created, cgraph>>

\* The leader loses a node (Event::NodeFailure), perhaps its own, which it checks
\* like the others; the joiner does not learn it.
NodeFailure(h) ==
  /\ h \in Infos(cgraph)
  /\ cgraph' = remove_one_by(cgraph, h)
  /\ UNCHANGED <<net, created, joiner, copy, other, tries>>

\* The joiner's task, one step after the other.
CompleteGraph ==
  \/ \E order \in SetToSeqs(copy.nodes) : FindMissing(order)
  \/ TestDone
  \/ TestFails

Next ==
  \/ \E a, b \in Vertex, bandwidth \in Bandwidths : a # b /\ Wire(a, b, bandwidth)
  \/ CreateCluster
  \/ \E h \in Host \ {Leader} : JoinStart(h)
  \/ \E h \in Host : NodeFailure(h)
  \/ CompleteGraph

Spec == Init /\ [][Next]_vars

-----------------------------------------------------------------------------
\* The rows of a graph's matrix are its nodes, each once.
GraphOK(g) ==
  /\ g.c_graph.n = Cardinality(g.nodes)
  /\ DOMAIN g.c_graph.data = 0..((g.c_graph.n * (g.c_graph.n + 1)) \div 2 - 1)
  /\ {n.index : n \in g.nodes} = 0..(g.c_graph.n - 1)
  /\ \A a, b \in g.nodes : a.info = b.info => a = b
  /\ \A n \in g.nodes : n.info \in Host /\ TestDataOf(g, n, n).speed = MAX

\* Types of the variables; in particular, both graphs have one row per node
\* after any sequence of joins and removals (add_node, remove_one_by).
TypeOK ==
  /\ created \in BOOLEAN /\ (~created => cgraph = EmptyGraph)
  /\ net.links.n = Len(Hosts) + Len(Switches)
  /\ joiner \in Host \cup {NoHost} /\ other \in Host \cup {NoHost}
  /\ tries \in 0..TestRetries
  /\ GraphOK(cgraph) /\ GraphOK(copy)
  /\ joiner # NoHost => {joiner, other} \ {NoHost} \subseteq Infos(copy)

Pairs(g) == {p \in g.nodes \X g.nodes : p[1] # p[2]}

\* No graph ever promises more than the network can carry between two hosts:
\* neither the transitions of update_speeds nor the shortcuts of
\* find_missing_from_me invent bandwidth.
NeverOverestimates ==
  \A g \in {cgraph, copy} : \A p \in Pairs(g) :
    TestDataOf(g, p[1], p[2]).speed <= Real(p[1].info, p[2].info)

\* What is known of a pair needs no further test.
Settled(p, speed, enough) ==
  \/ speed = Real(p[1].info, p[2].info)
  \/ speed >= Lesser(p[1].speed, p[2].speed)
  \/ speed >= enough

\* Once a join is over, the leader's graph holds for every pair the real
\* speed, or one that is as good as a host allows or one of the two hosts
\* asked for: the tests that complete_graph skips were superfluous.
SpeedsKnown ==
  \A p \in Pairs(cgraph) :
    Settled(p, TestDataOf(cgraph, p[1], p[2]).speed,
            Lesser(Sufficient[p[1].info], Sufficient[p[2].info]))

SameLinks(g, h) ==
  \A a, b \in Infos(g) \cap Infos(h) :
    TestDataOf(g, NodeOf(g, a), NodeOf(g, b)) = TestDataOf(h, NodeOf(h, a), NodeOf(h, b))

\* Removing and adding nodes never changes what is known between two nodes
\* that stay, although their rows in the vector move (remove_id, grow_fn).
LinksFollowNodes ==
  [][/\ joiner' = joiner => SameLinks(cgraph, cgraph')
     /\ joiner = NoHost => SameLinks(cgraph, copy')]_vars

(***************************************************************************)
(* Both searches of Network against all simple paths: hops of a shortest    *)
(* path and bandwidth of a widest path are the best there are, None stands  *)
(* for no path, and the links of get_path_between form a path whose         *)
(* narrowest link is what bandwidth_between says.  The network is asked     *)
(* while it is being wired.                                                 *)
(***************************************************************************)
SimplePaths(from, to) ==
  {p \in UNION {[1..k -> Net!Indices(net)] : k \in 2..net.links.n} :
     /\ p[1] = from /\ p[Len(p)] = to
     /\ \A i, j \in DOMAIN p : p[i] = p[j] => i = j
     /\ \A i \in 1..(Len(p) - 1) : Net!link(net, p[i], p[i + 1]) # Net!NoLink}
LinksOf(p) == {{p[i], p[i + 1]} : i \in 1..(Len(p) - 1)}
Width(links) == Min({Net!LinkOf(net, e) : e \in links})

PathsRight ==
  ~created =>
    \A a, b \in Vertex : a # b =>
      LET from == net.mapper[a]  to == net.mapper[b]
          paths == {LinksOf(p) : p \in SimplePaths(from, to)}
          short == [net EXCEPT !.path_strategy = Net!ShortestPath]
          best(dist, width) ==
            /\ Net!shortest_path(net, from).val[to] = dist
            /\ Net!bandwidth_between(net, a, b) = width
      IN  IF paths = {}
          THEN best(Net!None, Net!None) /\ Net!bandwidth_between(short, a, b) = Net!None
          ELSE /\ best(Min({Cardinality(p) : p \in paths}), Max({Width(p) : p \in paths}))
               /\ \A n \in {net, short} :
                    /\ Net!get_path_between(n, a, b) \in paths
                    /\ Net!bandwidth_between(n, a, b) = Width(Net!get_path_between(n, a, b))
               /\ Cardinality(Net!get_path_between(short, a, b))
                    = Net!shortest_path(net, from).val[to]

\* A join comes to an end: a link of the joiner that counts as tested stays so
\* through transitions and shortcuts of later rounds, and no node with such a
\* link is tested again.  complete_graph makes at most one test per node.
TestedInCopy == {n.info : n \in {m \in copy.nodes : TestDataOf(copy, Me, m).tested}}
TestsOnce ==
  [][joiner # NoHost /\ joiner' = joiner =>
       /\ TestedInCopy \subseteq TestedInCopy'
       /\ other' \notin TestedInCopy
       /\ other # NoHost /\ other' = NoHost => other \in TestedInCopy']_vars

=============================================================================
