----------------------------- MODULE MCFlowSync -----------------------------
(***************************************************************************)
(* FlowSync for TLC: three applications around a switch, one of them alone  *)
(* on host h1.  All flows share a link with another; one link is wider.     *)
(***************************************************************************)
EXTENDS FlowSync

CONSTANTS app1, app2, app3, sw, h1, h2

MCApp == {app1, app2, app3}
MCHost == {h1, h2}
MChost == (app1 :> h1) @@ (app2 :> h2) @@ (app3 :> h2)

MCVertex == <<app1, app2, app3, sw>>
MCBandwidth == ({0, 3} :> 6) @@ ({1, 3} :> 4) @@ ({2, 3} :> 4)

MCFlow == {<<app1, app3>>, <<app2, app3>>, <<app1, app2>>}
MCPath ==
  (<<app1, app3>> :> {{0, 3}, {2, 3}})
    @@ (<<app2, app3>> :> {{1, 3}, {2, 3}})
    @@ (<<app1, app2>> :> {{0, 3}, {1, 3}})

Event(app, action) == [app |-> app, action |-> action]
MCSchedules ==
  {{Event(app1, "Join"), Event(app2, "Join")},
   {Event(app2, "Join"), Event(app2, "Quit")},
   {Event(app1, "Crash")}}

=============================================================================
