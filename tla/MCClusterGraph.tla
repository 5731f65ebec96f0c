--------------------------- MODULE MCClusterGraph ---------------------------
(***************************************************************************)
(* ClusterGraph for TLC: three hosts and a switch, wired in every way.  A   *)
(* host may be configured slower than its links, and one asks for little.   *)
(***************************************************************************)
EXTENDS ClusterGraph

CONSTANTS h1, h2, h3, s1

MCHosts == <<h1, h2, h3>>
MCSwitches == <<s1>>
MCSufficient == [h \in Host |-> IF h = h3 THEN 1 ELSE MAX]

=============================================================================
