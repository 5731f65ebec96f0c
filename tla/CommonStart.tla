----------------------------- MODULE CommonStart -----------------------------
(***************************************************************************)
(* What the synchronization of emulation cores promises: one begin time is  *)
(* chosen at most once, a core commits to that time or fails, and a core    *)
(* that has committed changes its mind only by failing.                     *)
(***************************************************************************)
EXTENDS Naturals

CONSTANTS Core, Time

VARIABLES
  decision,  \* {} or {t}: the begin time, once chosen
  committed  \* the begin time of each core: {} or {t}
vars == <<decision, committed>>

\* A begin time has been chosen.
Single(s) == s # {} /\ \A t, u \in s : t = u

Init ==
  /\ decision = {}
  /\ committed = [c \in Core |-> {}]

Decide ==
  /\ decision = {}
  /\ decision' \subseteq Time
  /\ Single(decision')
  /\ UNCHANGED committed

Commit(c) ==
  /\ decision # {}
  /\ committed' = [committed EXCEPT ![c] = decision]
  /\ UNCHANGED decision

Fail(c) ==
  /\ committed' = [committed EXCEPT ![c] = {}]
  /\ UNCHANGED decision

Next ==
  \/ Decide
  \/ \E c \in Core : Commit(c) \/ Fail(c)

Spec == Init /\ [][Next]_vars
=============================================================================
