--------------------------- MODULE MCOrchestrator ---------------------------
(***************************************************************************)
(* Orchestrator for TLC: a cluster of up to three hosts; topologies with    *)
(* two and three applications around a switch, and one in two parts.        *)
(***************************************************************************)
EXTENDS Orchestrator

CONSTANTS h1, h2, h3, app1, app2, app3, sw

MCHost == {h1, h2, h3}
MCFirstHosts == <<h1, h2, h3>>
MCTwoHosts == <<h1, h2>>
MCSpeed == [p \in kSubset(2, MCHost) |-> IF p = {h1, h2} THEN 2 ELSE 3]

\* A star: every application hangs on the switch with its own bandwidth.
Star(apps, bandwidth) ==
  LET wire(net, x) == Net!add_edge(net, x, sw, bandwidth[x])
  IN  [apps |-> Range(apps),
       net  |-> FoldLeft(wire, Net!NewNetwork(Append(apps, sw), Net!ShortestPath), apps)]

MCTopologies ==
  {Star(<<app1, app2>>, (app1 :> 2) @@ (app2 :> 1)),
   Star(<<app1, app2, app3>>, (app1 :> 1) @@ (app2 :> 2) @@ (app3 :> 2)),
   [apps |-> {app1, app2}, net |-> Net!NewNetwork(<<app1, app2>>, Net!ShortestPath)]}

MCSymmetry == Permutations(Emul)

=============================================================================
