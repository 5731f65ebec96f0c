------------------------------- MODULE BwSync -------------------------------
(***************************************************************************)
(* How an emulation core shares the bandwidth of the emulated links between *)
(* the active flows (emulation/src/bwsync.rs, Flow of emulation/src/data.rs)*)
(* Every core does it alone, with the flows it knows of.                    *)
(*                                                                         *)
(* A flow is a pair <<source, destination>>; active flows are a function    *)
(* from flows to what is kept of each.  max_allowed_bandwidth, which the    *)
(* core reads from the same graph every time, is MaxBandwidth.  Shares are  *)
(* computed exactly; the code uses f64 and rounds to u32 where \div does.   *)
(***************************************************************************)
EXTENDS NetGraph

CONSTANTS
  Vertex,     \* sequence: the applications and bridges of the topology
  Bandwidth,  \* links of the topology, each the set of its ends, and their bandwidth
  Flow,       \* pairs of applications between which data may go
  Path        \* flow -> the links on its way

\* The network built from the topology.
Graph ==
  LET wire(net, l) == add_edge(net, Vertex[Min(l) + 1], Vertex[Max(l) + 1], Bandwidth[l])
  IN  FoldSet(LAMBDA l, net : wire(net, l), NewNetwork(Vertex, ShortestPath), DOMAIN Bandwidth)

\* A path is a constant for speed alone: it is the one the network finds, and
\* there is one, as the core unwraps it.
ASSUME Routes ==
  /\ Path = [f \in Flow |-> get_path_between(Graph, f[1], f[2])]
  /\ \A f \in Flow : f[1] # f[2] /\ Path[f] # {}

\* There are finitely many flows, over links of the topology.
ASSUME Links ==
  /\ IsFiniteSet(Flow)
  /\ MAX \in Nat /\ \A l \in DOMAIN Bandwidth : Bandwidth[l] \in Nat
  /\ \A f \in Flow : Path[f] \subseteq DOMAIN Bandwidth

\* The bandwidth of properties_between.
MaxBandwidth == [f \in Flow |-> Min({MAX} \cup {Bandwidth[l] : l \in Path[f]})]

FlowState == [authorized : Nat, used : Nat, hungry : BOOLEAN]

\* Flow::build
build(used) == [authorized |-> 0, used |-> used, hungry |-> FALSE]

Used(flows) == [f \in DOMAIN flows |-> flows[f].used]

\* The entries of new, and those of old for which new has none.
Extend(new, old) ==
  [f \in DOMAIN new \cup DOMAIN old |-> IF f \in DOMAIN new THEN new[f] ELSE old[f]]

-----------------------------------------------------------------------------
\* Mutant: what the satisfied flows use is not taken off the link.
SpareUntouched(bandwidth, flows, left) == bandwidth

\* What the flows that are satisfied leave of a link.
Spare(bandwidth, flows, left) ==
  bandwidth - SumFunctionOnSet(Used(flows), DOMAIN flows \ left)

\* Mutant: an equal part of a wide link, whatever the rest of the path allows.
ThrottledToLink(f, spare, n) == spare \div n

\* Mutant: the link is divided once more for a flow that is not there.
ThrottledOneMore(f, spare, n) == Lesser(spare \div (n + 1), MaxBandwidth[f])

\* An equal part for one of n flows.
Throttled(f, spare, n) == Lesser(spare \div n, MaxBandwidth[f])

\* The flows in left that use no more than the present partition.
Satisfied(bandwidth, flows, left) ==
  {f \in left : /\ ~flows[f].hungry
                /\ flows[f].used * Cardinality(left) <= Spare(bandwidth, flows, left)}

Allow(flows, satisfied) ==
  [f \in satisfied |-> [flows[f] EXCEPT !.authorized = MaxBandwidth[f]]]

\* They are considered to use everything they are given.
Throttle(bandwidth, flows, left) ==
  LET part(f) == Throttled(f, Spare(bandwidth, flows, left), Cardinality(left))
  IN  [f \in left |-> [authorized |-> part(f), used |-> part(f), hungry |-> TRUE]]

(***************************************************************************)
(* One link.  Flows that use no more than the present partition, and were   *)
(* never throttled, may use all their path allows; what they leave is for   *)
(* the others.  When none is satisfied the others get the partition each    *)
(* and stay hungry until they end.                                          *)
(***************************************************************************)
distribute_bandwidth_across_flow(bandwidth, flows) ==
  LET Share[left \in SUBSET DOMAIN flows] ==
        LET maxed_out == Satisfied(bandwidth, flows, left)
        IN  IF maxed_out = {} THEN Throttle(bandwidth, flows, left)
            ELSE Extend(Allow(flows, maxed_out), Share[left \ maxed_out])
  IN  Share[DOMAIN flows]

\* The active flows that use link l, with the updated flow's new state.
get_flows_by_shared_links(l, f, state, active) ==
  LET others == Restrict(active, {g \in DOMAIN active \ {f} : l \in Path[g]})
  IN  IF state.used = 0 THEN others ELSE Extend([g \in {f} |-> state], others)

\* MergeStricter.  States of one flow with the same authorized bandwidth are
\* equal: a flow throttled by one link and not by another gets less there.
merge(shares) ==
  [g \in UNION {DOMAIN s : s \in shares} |->
     LET states == {s[g] : s \in {t \in shares : g \in DOMAIN t}}
     IN  CHOOSE st \in states : \A other \in states : st.authorized <= other.authorized]

\* Every link of the updated flow's path is shared anew.
update_active_flows(f, state, active) ==
  LET known == IF f \in DOMAIN active
               THEN [state EXCEPT !.hungry = active[f].hungry] ELSE state
  IN  merge({distribute_bandwidth_across_flow(
               Bandwidth[l], get_flows_by_shared_links(l, f, known, active)) : l \in Path[f]})

\* There always is a path in bw_graph: it has the links of the graph.
update_flows(active, f, state) == Extend(update_active_flows(f, state, active), active)

remove_flow(active, f, state) ==
  LET others == Restrict(active, DOMAIN active \ {f})
  IN  Extend(update_active_flows(f, state, others), others)

\* calculate_bandwidth_graph, before it wraps at 0: what remains of link l.
remaining_bandwidth(l, active) ==
  Bandwidth[l] - SumFunctionOnSet(Used(active), {g \in DOMAIN active : l \in Path[g]})

=============================================================================
