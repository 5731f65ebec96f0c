------------------------------- MODULE CGraph -------------------------------
(***************************************************************************)
(* CGraph<I> (cgraph/src/lib.rs): the nodes of the cluster and, per pair of *)
(* nodes, what is known of the speed between them.  A graph is a record     *)
(*   nodes   - set of [index, speed, info]; info stands for the node's      *)
(*             address, index is its row in the matrix                      *)
(*   c_graph - SymMatrix of TestData [limited, tested, speed]               *)
(***************************************************************************)
EXTENDS Integers, FiniteSetsExt, SequencesExt, SymMatrix

CONSTANT MAX   \* usize::MAX and u32::MAX, greater than every speed

Lesser(a, b) == IF a < b THEN a ELSE b

DefaultTestData(row, col) == [limited |-> TRUE, tested |-> FALSE, speed |-> 0]
EmptyGraph == [c_graph |-> new_fn(0, DefaultTestData), nodes |-> {}]

Infos(g) == {n.info : n \in g.nodes}
NodeOf(g, info) == CHOOSE n \in g.nodes : n.info = info
node_by_index(g, index) == CHOOSE n \in g.nodes : n.index = index
TestDataOf(g, a, b) == At(g.c_graph, a.index, b.index)
SetTestData(g, a, b, data) ==
  [g EXCEPT !.c_graph = Put(@, a.index, b.index, data)]

\* A node that is already in the graph is returned as it is.
add_node(g, speed, info) ==
  IF info \in Infos(g) THEN g
  ELSE LET index == g.c_graph.n
           grown == grow_fn(g.c_graph, 1, DefaultTestData)
       IN  [c_graph |-> Put(grown, index, index,
                            [limited |-> TRUE, tested |-> FALSE, speed |-> MAX]),
            nodes   |-> g.nodes \cup {[index |-> index, speed |-> speed, info |-> info]}]

\* Mutant: the indices of the nodes behind the removed one are left as they are.
remove_one_by_unshifted(g, info) ==
  LET node == NodeOf(g, info)
  IN  IF info \notin Infos(g) THEN g
      ELSE [c_graph |-> remove_id(g.c_graph, node.index), nodes |-> g.nodes \ {node}]

\* Without such a node the graph stays as it is (an Err to the caller).
remove_one_by(g, info) ==
  LET node == NodeOf(g, info)
  IN  IF info \notin Infos(g) THEN g
      ELSE [c_graph |-> remove_id(g.c_graph, node.index),
            nodes   |-> {[n EXCEPT !.index = IF @ > node.index THEN @ - 1 ELSE @] :
                           n \in g.nodes \ {node}}]

-----------------------------------------------------------------------------
(***************************************************************************)
(* update_speeds: over all (i, j, k) in the order of the three loops, the   *)
(* speed of (i, j) becomes that of the way over k when that is better.      *)
(***************************************************************************)
Matrices(m) ==
  [n : {m.n}, data : [DOMAIN m.data -> [limited : BOOLEAN, tested : BOOLEAN, speed : Nat]]]

Transition(g, m, i, j, k) ==
  LET node_speed(row) == node_by_index(g, row).speed
      by_transition == Lesser(At(m, i, k).speed, At(m, k, j).speed)
  IN  IF At(m, i, j).speed >= by_transition THEN m
      ELSE Put(m, i, j,
             [limited |-> At(m, i, j).limited
                            /\ by_transition # Lesser(node_speed(i), node_speed(j)),
              tested  |-> At(m, i, j).tested,
              speed   |-> by_transition])

update_speeds(g) ==
  LET n == g.c_graph.n
      Loop[s \in [x : 0..(n * n * n), m : Matrices(g.c_graph)]] ==
        IF s.x = n * n * n THEN s.m
        ELSE Loop[[x |-> s.x + 1,
                   m |-> Transition(g, s.m, s.x \div (n * n), (s.x \div n) % n, s.x % n)]]
  IN  [g EXCEPT !.c_graph = Loop[[x |-> 0, m |-> g.c_graph]]]

\* add_link_direct_test refuses a speed above that of one of the nodes
GoodSpeed(from, to, speed) == speed <= Lesser(from.speed, to.speed)

\* Mutant: a test that brings no better speed is not noted.
add_link_direct_test_useful(g, from, to, speed) ==
  IF TestDataOf(g, from, to).speed >= speed THEN g
  ELSE update_speeds(SetTestData(g, from, to,
                       [limited |-> FALSE, tested |-> TRUE, speed |-> speed]))

add_link_direct_test(g, from, to, speed) ==
  update_speeds(SetTestData(g, from, to,
                  [limited |-> FALSE, tested |-> TRUE, speed |-> speed]))

-----------------------------------------------------------------------------
(***************************************************************************)
(* find_missing_from_me: for every node, in the order of the HashSet, ask   *)
(* whether the speed to it has to be tested.  A speed known by transition   *)
(* needs no test when some k is found to which and from which the speeds    *)
(* are sure and differ: the smaller one is then the speed, and it is noted  *)
(* as tested.  The two loops over the set go in the same order.             *)
(***************************************************************************)
Unsure(g, from, to, sufficient) ==
  LET d == TestDataOf(g, from, to)
  IN  /\ ~d.tested
      /\ d.speed < sufficient
      /\ d.speed < Lesser(from.speed, to.speed)

Sure(g, a, b) == LET d == TestDataOf(g, a, b) IN ~d.limited \/ d.tested

\* Mutant: two equal speeds are taken to tell the speed as well.
TellsEqual(g, from, k, to) ==
  k \notin {from, to} /\ Sure(g, from, k) /\ Sure(g, k, to)

Tells(g, from, k, to) ==
  /\ k \notin {from, to}
  /\ Sure(g, from, k) /\ Sure(g, k, to)
  /\ TestDataOf(g, from, k).speed # TestDataOf(g, k, to).speed

\* Mutant: the greater of the two speeds is taken.
ShortcutGreater(g, from, k, to) ==
  SetTestData(g, from, to,
    [limited |-> TestDataOf(g, from, to).limited,
     tested  |-> TRUE,
     speed   |-> Max({TestDataOf(g, from, k).speed, TestDataOf(g, k, to).speed})])

Shortcut(g, from, k, to) ==
  SetTestData(g, from, to,
    [limited |-> TestDataOf(g, from, to).limited,
     tested  |-> TRUE,
     speed   |-> Lesser(TestDataOf(g, from, k).speed, TestDataOf(g, k, to).speed)])

Examine(acc, from, to, sufficient, order) ==
  LET ks == {i \in DOMAIN order : Tells(acc.g, from, order[i], to)}
  IN  IF to = from \/ ~Unsure(acc.g, from, to, sufficient) THEN acc
      ELSE IF ks # {}
           THEN [acc EXCEPT !.g = Shortcut(acc.g, from, order[Min(ks)], to)]
           ELSE [acc EXCEPT !.missing = Append(@, to)]

find_missing_from_me(g, from, sufficient, order) ==
  LET examine(acc, to) == Examine(acc, from, to, sufficient, order)
  IN  FoldLeft(examine, [g |-> g, missing |-> <<>>], order)

\* max_by yields the last of the fastest nodes.
Fastest(missing) ==
  LET fastest == {i \in DOMAIN missing :
                    \A j \in DOMAIN missing : missing[j].speed <= missing[i].speed}
  IN  missing[Max(fastest)]

=============================================================================
