--------------------------- MODULE DeploymentProofs ---------------------------
(***************************************************************************)
(* Proofs about Deployment: for any cluster, any number of emulations and   *)
(* any number of applications, crashes and reboots included, the safety     *)
(* properties of the start and the end of an emulation hold.                *)
(***************************************************************************)
EXTENDS Deployment, FiniteSetTheorems, TLAPS

\* The messages in flight, one by one.
Sent(kind, n, e) == [kind |-> kind, to |-> n, emul |-> e] \in toE
Reported(kind, n, e, app) == Report(kind, n, e, app) \in toO

\* The crashes of applications that the OManager has not heard of yet.
CrashesUnheard(n, e) == {app \in 1..MaxApps : Reported("CleanStop", n, e, app)}

\* Only the hosts of an emulation know of it.
OnlyHostsKnow ==
  \A n \in Node, e \in Emul : n \notin nodes[e] =>
    /\ core[n][e] = "none"
    /\ e \notin abort[n]
    /\ n \notin ready[e]
    /\ \A kind \in {"ExperimentNew", "ExperimentReady", "ExperimentStop"} : ~Sent(kind, n, e)
    /\ \A kind \in {"EmulationReady", "Abort"} : ~Reported(kind, n, e, 0)
    /\ \A app \in 1..MaxApps : ~Reported("CleanStop", n, e, app)

\* A host is told once to create a core, and says once that it has.
ReadyOnce ==
  \A n \in Node, e \in Emul :
    /\ Sent("ExperimentNew", n, e) => core[n][e] = "none"
    /\ core[n][e] \in {"none", "init"} =>
         n \notin ready[e] /\ ~Reported("EmulationReady", n, e, 0)
    /\ Reported("EmulationReady", n, e, 0) =>
         n \notin ready[e] /\ core[n][e] \in {"stored", "lost"}

\* Nothing starts before all are ready; till then the cores wait.
StartWhenReady ==
  \A n \in Node, e \in Emul :
    /\ Sent("ExperimentReady", n, e) =>
         nodes[e] \subseteq ready[e] /\ core[n][e] \in {"stored", "lost"}
    /\ Started(n, e) => nodes[e] \subseteq ready[e]
    /\ n \in ready[e] =>
         core[n][e] \in {"stored", "lost"} \/ nodes[e] \subseteq ready[e]

\* A host that was down when ExperimentNew was sent: it will never be ready.
NeverReady(n, e) ==
  /\ n \in nodes[e] \ ready[e]
  /\ core[n][e] = "lost"
  /\ ~Sent("ExperimentNew", n, e)
  /\ ~Reported("EmulationReady", n, e, 0)

\* A core is told to abort only after the OManager has forgotten the emulation.
AbortsForgotten ==
  \A n \in Node : \A e \in abort[n] : e \notin tracked

\* An emulation that is still tracked is told to stop only when it cannot start.
StopWhenOver ==
  \A n \in Node, e \in Emul :
    Sent("ExperimentStop", n, e) => e \notin tracked \/ \E d \in Node : NeverReady(d, e)

\* The load of a host covers its applications and the crashes still unheard of.
LoadCoversAll ==
  \A n \in Node, e \in Emul :
    /\ \A app \in CrashesUnheard(n, e) : app > live[n][e]
    /\ Charged(e) => load[n][e] >= live[n][e] + Cardinality(CrashesUnheard(n, e))

IInv ==
  /\ TypeOK
  /\ OnlyHostsKnow
  /\ ReadyOnce
  /\ StartWhenReady
  /\ StopWhenOver
  /\ AbortsForgotten
  /\ LoadCoversAll

-----------------------------------------------------------------------------
\* What sending, receiving and losing a message change.
LEMMA MessagesIs ==
  ASSUME NEW kind, NEW N, NEW e, NEW k, NEW n, NEW f
  PROVE  [kind |-> k, to |-> n, emul |-> f] \in Messages(kind, N, e)
           <=> k = kind /\ n \in N /\ f = e
BY DEF Messages

\* Messages to a set of nodes are messages.
LEMMA MessagesType ==
  ASSUME NEW kind \in {"ExperimentNew", "ExperimentReady", "ExperimentStop"},
         NEW N \in SUBSET Node, NEW e \in Emul
  PROVE  Messages(kind, N, e) \subseteq ToEManager
BY DEF Messages, ToEManager

\* Reports of a node are reports, of an application only CleanStop.
LEMMA ReportType ==
  ASSUME NEW n \in Node, NEW e \in Emul
  PROVE  /\ \A kind \in {"EmulationReady", "Abort"} : Report(kind, n, e, 0) \in ToOManager
         /\ \A app \in 1..MaxApps : Report("CleanStop", n, e, app) \in ToOManager
BY DEF Report, ToOManager

\* A report is told by its kind, node, emulation and application.
LEMMA ReportIs ==
  ASSUME NEW k1, NEW n1, NEW e1, NEW a1, NEW k2, NEW n2, NEW e2, NEW a2
  PROVE  Report(k1, n1, e1, a1) = Report(k2, n2, e2, a2)
           <=> k1 = k2 /\ n1 = n2 /\ e1 = e2 /\ a1 = a2
BY DEF Report

\* To handle a message takes that one and no other.
LEMMA HandleIs ==
  ASSUME NEW kind, NEW n, NEW e, Handle(kind, n, e)
  PROVE  /\ Sent(kind, n, e)
         /\ toE' \subseteq toE
         /\ \A k, m, f : Sent(k, m, f)' <=> Sent(k, m, f) /\ ~(k = kind /\ m = n /\ f = e)
<1>1. /\ [kind |-> kind, to |-> n, emul |-> e] \in toE
      /\ toE' = toE \ {[kind |-> kind, to |-> n, emul |-> e]}
  BY Zenon DEF Handle
<1> QED
  BY <1>1 DEF Sent

\* To receive a report takes that one and no other.
LEMMA ReceiveIs ==
  ASSUME NEW kind, NEW n, NEW e, NEW app, Receive(kind, n, e, app)
  PROVE  /\ Reported(kind, n, e, app)
         /\ toO' \subseteq toO
         /\ \A k, m, f, a : Reported(k, m, f, a)' <=>
              Reported(k, m, f, a) /\ ~(k = kind /\ m = n /\ f = e /\ a = app)
BY ReportIs DEF Receive, Reported

\* To tell the OManager adds that report and no other.
LEMMA TellIs ==
  ASSUME NEW kind, NEW n, NEW e, NEW app, TellOManager(kind, n, e, app)
  PROVE  \A k, m, f, a : Reported(k, m, f, a)' <=>
              Reported(k, m, f, a) \/ (k = kind /\ m = n /\ f = e /\ a = app)
BY ReportIs DEF TellOManager, Reported

\* A core changes its state alone.
LEMMA SetCoreIs ==
  ASSUME TypeOK, NEW n \in Node, NEW e \in Emul, NEW s, SetCore(n, e, s)
  PROVE  \A m \in Node, f \in Emul :
           core'[m][f] = IF m = n /\ f = e THEN s ELSE core[m][f]
BY DEF SetCore, TypeOK

\* A reset loses the cores of the node and what was sent to it, nothing else.
LEMMA ResetIs ==
  ASSUME TypeOK, NEW n \in Node, Reset(n)
  PROVE  /\ \A m \in Node, f \in Emul : core'[m][f] =
              IF m = n THEN IF n \in nodes[f] THEN "lost" ELSE "none" ELSE core[m][f]
         /\ \A m \in Node : abort'[m] \subseteq abort[m]
         /\ \A k, m, f : Sent(k, m, f)' <=> Sent(k, m, f) /\ m # n
<1>1. \A m \in Node, f \in Emul : core'[m][f] =
              IF m = n THEN IF n \in nodes[f] THEN "lost" ELSE "none" ELSE core[m][f]
  BY DEF Reset, TypeOK
<1>2. \A m \in Node : abort'[m] \subseteq abort[m]
  BY DEF Reset, TypeOK
<1>3. \A k, m, f : Sent(k, m, f)' <=> Sent(k, m, f) /\ m # n
  BY DEF Reset, Sent
<1> QED
  BY <1>1, <1>2, <1>3

\* abort_emulations sends ExperimentStops only.
LEMMA AbortSends ==
  ASSUME TypeOK, NEW E \in SUBSET Emul, NEW sent \in SUBSET ToEManager,
         Abort_emulations(E, sent)
  PROVE  /\ tracked' = tracked \ E
         /\ toE' \subseteq ToEManager
         /\ \A k, n, e : Sent(k, n, e)' <=>
              \/ Sent(k, n, e)
              \/ [kind |-> k, to |-> n, emul |-> e] \in sent
              \/ k = "ExperimentStop" /\ e \in E \cap tracked /\ n \in nodes[e] \cap up
<1> DEFINE Stops == {Messages("ExperimentStop", nodes[e] \cap up, e) : e \in E \cap tracked}
<1>1. toE' = toE \cup sent \cup UNION Stops
  BY DEF Abort_emulations
<1>2. UNION Stops \subseteq ToEManager
  <2> SUFFICES ASSUME NEW e \in E \cap tracked
               PROVE  Messages("ExperimentStop", nodes[e] \cap up, e) \subseteq ToEManager
    OBVIOUS
  <2> QED
    BY MessagesType DEF TypeOK
<1>3. ASSUME NEW k, NEW n, NEW e
      PROVE  [kind |-> k, to |-> n, emul |-> e] \in UNION Stops <=>
               k = "ExperimentStop" /\ e \in E \cap tracked /\ n \in nodes[e] \cap up
  <2> DEFINE m == [kind |-> k, to |-> n, emul |-> e]
  <2>1. m \in UNION Stops <=>
          \E f \in E \cap tracked : m \in Messages("ExperimentStop", nodes[f] \cap up, f)
    <3> HIDE DEF m
    <3> QED
      OBVIOUS
  <2>2. \A f : m \in Messages("ExperimentStop", nodes[f] \cap up, f) <=>
          k = "ExperimentStop" /\ n \in nodes[f] \cap up /\ e = f
    BY MessagesIs
  <2> QED
    BY <2>1, <2>2
<1> QED
  BY <1>1, <1>2, <1>3 DEF Abort_emulations, Sent, TypeOK

-----------------------------------------------------------------------------
\* TypeOK holds initially.
LEMMA TypeInit == Init => TypeOK
BY LeaderAssumption, AppsAssumption DEF Init, TypeOK, CoreState

\* A reset keeps the types.
LEMMA TypeReset ==
  ASSUME TypeOK, NEW n \in Node, Reset(n)
  PROVE  /\ core' \in [Node -> [Emul -> CoreState]]
         /\ abort' \in [Node -> SUBSET Emul]
         /\ toE' \subseteq ToEManager
BY DEF Reset, TypeOK, CoreState

\* Every step keeps TypeOK.
LEMMA TypeNext == TypeOK /\ [Next]_vars => TypeOK'
<1> SUFFICES ASSUME TypeOK, [Next]_vars PROVE TypeOK'
  OBVIOUS
<1> USE AppsAssumption, LeaderAssumption
<1>1. ASSUME NEW e \in Emul, NEW A \in Apps, NewTopology(e, A) PROVE TypeOK'
  <2> DEFINE N == {n \in Node : A[n] > 0}
  <2>1. /\ load' \in [Node -> [Emul -> Nat]]
        /\ live' \in [Node -> [Emul -> 0..MaxApps]]
    BY <1>1 DEF NewTopology, TypeOK, Apps
  <2>2. nodes' \in [Emul -> SUBSET Node] /\ tracked' \subseteq Emul
    BY <1>1 DEF NewTopology, TypeOK
  <2>3. toE' \subseteq ToEManager
    <3>1. CASE toE' = toE \cup Messages("ExperimentNew", N, e)
      BY <3>1, MessagesType DEF TypeOK
    <3>2. ASSUME NEW S \in SUBSET (N \cap up),
                 toE' = toE \cup Messages("ExperimentNew", S, e)
                            \cup Messages("ExperimentStop", S, e)
          PROVE  toE' \subseteq ToEManager
      BY <3>2, MessagesType DEF TypeOK
    <3> QED
      BY <1>1, <3>1, <3>2 DEF NewTopology
  <2>4. core' \in [Node -> [Emul -> CoreState]]
    <3>1. CASE UNCHANGED core
      BY <3>1 DEF TypeOK
    <3>2. CASE core' = [n \in Node |->
                 IF n \in N \ up THEN [core[n] EXCEPT ![e] = "lost"] ELSE core[n]]
      BY <3>2 DEF TypeOK, CoreState
    <3> QED
      BY <1>1, <3>1, <3>2 DEF NewTopology
  <2> QED
    BY <1>1, <2>1, <2>2, <2>3, <2>4 DEF NewTopology, TypeOK
<1>2. ASSUME NEW n \in Node, NEW e \in Emul, EmulationReady(n, e) PROVE TypeOK'
  <2>1. ready' \in [Emul -> SUBSET Node] /\ omanager' \in {"running", "panicked"}
    BY <1>2 DEF EmulationReady, TypeOK
  <2>2. toE' \subseteq ToEManager /\ tracked' \subseteq Emul
    <3>1. CASE toE' = toE \cup Messages("ExperimentReady", nodes[e], e) /\ UNCHANGED tracked
      BY <3>1, MessagesType DEF TypeOK
    <3>2. ASSUME NEW S \in SUBSET (nodes[e] \cap up),
                 Abort_emulations({e}, Messages("ExperimentReady", S, e))
          PROVE  toE' \subseteq ToEManager /\ tracked' \subseteq Emul
      <4>1. Messages("ExperimentReady", S, e) \subseteq ToEManager
        BY MessagesType DEF TypeOK
      <4> QED
        BY <3>2, <4>1, AbortSends DEF TypeOK
    <3>3. CASE UNCHANGED <<tracked, toE>>
      BY <3>3 DEF TypeOK
    <3> QED
      BY <1>2, <3>1, <3>2, <3>3 DEF EmulationReady
  <2> QED
    BY <1>2, <2>1, <2>2 DEF EmulationReady, Receive, TypeOK
<1>3. ASSUME NEW n \in Node, NEW e \in Emul, Abort(n, e) PROVE TypeOK'
  <2>1. toE' \subseteq ToEManager /\ tracked' \subseteq Emul
    BY <1>3, AbortSends DEF Abort, TypeOK
  <2> QED
    BY <1>3, <2>1 DEF Abort, Receive, TypeOK
<1>4. ASSUME NEW n \in Node, NEW e \in Emul, NEW app \in 1..MaxApps, CleanStop(n, e, app)
      PROVE  TypeOK'
  BY <1>4 DEF CleanStop, Receive, TypeOK
<1>5. ASSUME NEW n \in Node, CGraphNew(n) PROVE TypeOK'
  BY <1>5, TypeReset DEF CGraphNew, TypeOK
<1>6. ASSUME NEW n \in Node, CGraphRemove(n) PROVE TypeOK'
  <2>1. toE' \subseteq ToEManager /\ tracked' \subseteq Emul
    <3> DEFINE E == {e \in Emul : \E m \in Node : load[m][e] > 0}
    <3>1. E \in SUBSET Emul /\ Abort_emulations(E, {})
      BY <1>6 DEF CGraphRemove
    <3> HIDE DEF E
    <3> QED
      BY <3>1, AbortSends DEF TypeOK
  <2> QED
    BY <1>6, <2>1 DEF CGraphRemove, TypeOK
<1>7. ASSUME NEW n \in Node, NEW e \in Emul, EManagerStep(n, e) PROVE TypeOK'
  <2>1. CASE ExperimentNew(n, e)
    BY <2>1, HandleIs DEF ExperimentNew, SetCore, omanagerVars, TypeOK, CoreState
  <2>2. CASE ExperimentReady(n, e)
    <3>1. toE' \subseteq ToEManager
      BY <2>2, HandleIs DEF ExperimentReady, TypeOK
    <3>2. core' \in [Node -> [Emul -> CoreState]] /\ UNCHANGED <<up, abort>>
      <4>1. CASE SetCore(n, e, "syncing") /\ UNCHANGED <<up, abort>>
        BY <4>1 DEF SetCore, TypeOK, CoreState
      <4>2. CASE UNCHANGED <<up, core, abort>>
        BY <4>2 DEF TypeOK
      <4> QED
        BY <2>2, <4>1, <4>2 DEF ExperimentReady
    <3> QED
      BY <2>2, <3>1, <3>2 DEF ExperimentReady, omanagerVars, TypeOK
  <2>3. CASE ExperimentReadyPanics(n, e)
    BY <2>3, TypeReset DEF ExperimentReadyPanics, omanagerVars, TypeOK
  <2>4. CASE ExperimentStop(n, e)
    BY <2>4, HandleIs DEF ExperimentStop, omanagerVars, TypeOK
  <2> QED
    BY <1>7, <2>1, <2>2, <2>3, <2>4 DEF EManagerStep
<1>8. ASSUME NEW n \in Node, NEW e \in Emul, CoreStep(n, e) PROVE TypeOK'
  <2> USE DEF SetCore, TellOManager, omanagerVars, TypeOK, CoreState
  <2>1. CASE InitDone(n, e)
    BY <2>1, ReportType DEF InitDone
  <2>2. CASE InitFails(n, e)
    BY <2>2, ReportType DEF InitFails
  <2>7. CASE InitPanics(n, e)
    BY <2>7 DEF InitPanics
  <2>3. CASE Synchronized(n, e)
    BY <2>3 DEF Synchronized
  <2>4. CASE CoreFails(n, e)
    BY <2>4, ReportType DEF CoreFails
  <2>5. CASE Aborted(n, e)
    BY <2>5 DEF Aborted
  <2>6. CASE AppCrash(n, e)
    <3>1. live[n][e] \in 1..MaxApps /\ live[n][e] - 1 \in 0..MaxApps
      BY <2>6 DEF AppCrash
    <3>2. live' \in [Node -> [Emul -> 0..MaxApps]]
      BY <2>6, <3>1 DEF AppCrash
    <3>3. toO' \subseteq ToOManager
      BY <2>6, <3>1, ReportType DEF AppCrash
    <3>4. core' \in [Node -> [Emul -> CoreState]]
      BY <2>6 DEF AppCrash
    <3> QED
      BY <2>6, <3>2, <3>3, <3>4 DEF AppCrash
  <2> QED
    BY <1>8, <2>1, <2>2, <2>7, <2>3, <2>4, <2>5, <2>6 DEF CoreStep
<1>9. ASSUME NEW n \in Node, NodeCrash(n) \/ Reboot(n) PROVE TypeOK'
  <2>1. CASE NodeCrash(n)
    BY <2>1, TypeReset DEF NodeCrash, omanagerVars, TypeOK
  <2>2. CASE Reboot(n)
    BY <2>2 DEF Reboot, omanagerVars, TypeOK
  <2> QED
    BY <1>9, <2>1, <2>2
<1>10. CASE UNCHANGED vars
  BY <1>10 DEF vars, TypeOK
<1> QED
  BY <1>1, <1>2, <1>3, <1>4, <1>5, <1>6, <1>7, <1>8, <1>9, <1>10 DEF Next, OManagerStep

\* TypeCorrect: the tables of the OManager, the Orchestrator and the EManagers stay
\* well-typed, and no load drops below zero, for any cluster.
THEOREM TypeCorrect == Spec => []TypeOK
BY TypeInit, TypeNext, PTL DEF Spec

-----------------------------------------------------------------------------
\* The life of an emulation, without its loads.
LifeInv == OnlyHostsKnow /\ ReadyOnce /\ StartWhenReady /\ StopWhenOver /\ AbortsForgotten

\* The life of an emulation starts as LifeInv says.
LEMMA LifeInit == Init => LifeInv
BY DEF Init, LifeInv, OnlyHostsKnow, ReadyOnce, StartWhenReady, StopWhenOver, AbortsForgotten,
       Sent, Reported, Started, NeverReady

\* The steps of the OManager.
LEMMA NewTopologyLife ==
  ASSUME TypeOK, LifeInv, NEW e \in Emul, NEW A \in Apps, NewTopology(e, A)
  PROVE  LifeInv'
<1> DEFINE N == {n \in Node : A[n] > 0}
<1>1. /\ nodes[e] = {} /\ N # {} /\ N \subseteq Node
      /\ \A f \in Emul : nodes'[f] = IF f = e THEN N ELSE nodes[f]
      /\ tracked' = tracked \cup {e}
      /\ ready' = ready /\ abort' = abort
  BY DEF NewTopology, TypeOK
<1>2. \A k, n, f, app : Reported(k, n, f, app)' <=> Reported(k, n, f, app)
  BY DEF NewTopology, Reported
<1>3. PICK S \in SUBSET N :
        /\ \A k, n, f : Sent(k, n, f)' <=>
             \/ Sent(k, n, f)
             \/ k = "ExperimentNew" /\ n \in S /\ f = e
             \/ k = "ExperimentStop" /\ n \in S /\ f = e /\ ~(N \subseteq up)
        /\ S \subseteq up
        /\ \A n \in Node, f \in Emul : core'[n][f] =
             IF f = e /\ n \in N \ up THEN "lost" ELSE core[n][f]
  <2>1. CASE N \subseteq up
    <3>1. toE' = toE \cup Messages("ExperimentNew", N, e) /\ core' = core
      BY <2>1 DEF NewTopology
    <3>2. \A k, n, f : Sent(k, n, f)' <=>
             Sent(k, n, f) \/ (k = "ExperimentNew" /\ n \in N /\ f = e)
      BY <3>1 DEF Sent, Messages
    <3> HIDE DEF N
    <3> WITNESS N \in SUBSET N
    <3> QED
      BY <2>1, <3>1, <3>2
  <2>2. CASE ~(N \subseteq up)
    <3>1. PICK S \in SUBSET (N \cap up) :
            toE' = toE \cup Messages("ExperimentNew", S, e)
                       \cup Messages("ExperimentStop", S, e)
      BY <2>2 DEF NewTopology
    <3>2. core' = [n \in Node |->
                 IF n \in N \ up THEN [core[n] EXCEPT ![e] = "lost"] ELSE core[n]]
      BY <2>2 DEF NewTopology
    <3>3. \A n \in Node, f \in Emul : core'[n][f] =
             IF f = e /\ n \in N \ up THEN "lost" ELSE core[n][f]
      BY <3>2 DEF TypeOK
    <3>4. \A k, n, f : Sent(k, n, f)' <=>
             \/ Sent(k, n, f)
             \/ k = "ExperimentNew" /\ n \in S /\ f = e
             \/ k = "ExperimentStop" /\ n \in S /\ f = e
      BY <3>1 DEF Sent, Messages
    <3> HIDE DEF N
    <3> WITNESS S \in SUBSET N
    <3> QED
      BY <2>2, <3>3, <3>4
  <2> QED
    BY <2>1, <2>2
<1>4. \A n \in Node : /\ core[n][e] = "none" /\ e \notin abort[n] /\ n \notin ready[e]
                      /\ \A k \in {"ExperimentNew", "ExperimentReady", "ExperimentStop"} :
                           ~Sent(k, n, e)
                      /\ ~Reported("EmulationReady", n, e, 0)
  BY <1>1 DEF LifeInv, OnlyHostsKnow
<1> HIDE DEF N
<1>5. OnlyHostsKnow'
  BY <1>1, <1>2, <1>3 DEF LifeInv, OnlyHostsKnow
<1>6. ReadyOnce'
  BY <1>1, <1>2, <1>3, <1>4 DEF LifeInv, ReadyOnce
<1>7. StartWhenReady'
  BY <1>1, <1>3, <1>4 DEF LifeInv, StartWhenReady, Started
<1>8. StopWhenOver'
  <2> SUFFICES ASSUME NEW n \in Node, NEW f \in Emul, Sent("ExperimentStop", n, f)'
               PROVE  f \notin tracked' \/ \E d \in Node : NeverReady(d, f)'
    BY DEF StopWhenOver
  <2>1. CASE f = e
    <3>1. PICK d \in N : d \notin up
      BY <2>1, <1>3, <1>4
    <3>2. NeverReady(d, e)'
      BY <3>1, <1>1, <1>2, <1>3, <1>4 DEF NeverReady
    <3> QED
      BY <2>1, <3>1, <3>2, <1>1
  <2>2. CASE f # e
    <3>1. \A d \in Node : NeverReady(d, f) => NeverReady(d, f)'
      BY <2>2, <1>1, <1>2, <1>3 DEF NeverReady
    <3> QED
      BY <2>2, <3>1, <1>1, <1>3 DEF LifeInv, StopWhenOver
  <2> QED
    BY <2>1, <2>2
<1>9. AbortsForgotten'
  BY <1>1, <1>4 DEF LifeInv, AbortsForgotten
<1> QED
  BY <1>5, <1>6, <1>7, <1>8, <1>9 DEF LifeInv

\* The OManager hears that a core is ready.
LEMMA EmulationReadyLife ==
  ASSUME TypeOK, LifeInv, NEW n \in Node, NEW e \in Emul, EmulationReady(n, e)
  PROVE  LifeInv'
<1>1. UNCHANGED <<nodes, core, abort>>
  BY DEF EmulationReady
<1>2. /\ Reported("EmulationReady", n, e, 0)
      /\ \A k, m, f, app : Reported(k, m, f, app)' <=>
           Reported(k, m, f, app) /\ ~(k = "EmulationReady" /\ m = n /\ f = e /\ app = 0)
  BY ReceiveIs DEF EmulationReady
<1>3. \A f \in Emul : ready'[f] = IF f = e /\ e \in tracked THEN ready[e] \cup {n} ELSE ready[f]
  BY DEF EmulationReady, TypeOK
<1>4. PICK S \in SUBSET nodes[e], T \in SUBSET nodes[e] :
        /\ \A k, m, f : Sent(k, m, f)' <=>
             \/ Sent(k, m, f)
             \/ k = "ExperimentReady" /\ m \in S /\ f = e
             \/ k = "ExperimentStop" /\ m \in T /\ f = e
        /\ S # {} => e \in tracked /\ nodes[e] \subseteq ready'[e]
        /\ T # {} => e \notin tracked'
        /\ tracked' \subseteq tracked
  <2>1. CASE UNCHANGED <<tracked, toE>>
    <3> WITNESS {} \in SUBSET nodes[e], {} \in SUBSET nodes[e]
    <3> QED
      BY <2>1 DEF Sent
  <2>2. CASE /\ toE' = toE \cup Messages("ExperimentReady", nodes[e], e)
             /\ UNCHANGED tracked
             /\ e \in tracked /\ AllReady(e)
    <3> WITNESS nodes[e] \in SUBSET nodes[e], {} \in SUBSET nodes[e]
    <3>1. \A k, m, f : Sent(k, m, f)' <=>
             Sent(k, m, f) \/ (k = "ExperimentReady" /\ m \in nodes[e] /\ f = e)
      BY <2>2 DEF Sent, Messages
    <3> QED
      BY <2>2, <3>1 DEF AllReady
  <2>3. ASSUME NEW S \in SUBSET (nodes[e] \cap up),
               Abort_emulations({e}, Messages("ExperimentReady", S, e)),
               e \in tracked, AllReady(e)
        PROVE  \E S1 \in SUBSET nodes[e], T \in SUBSET nodes[e] :
                 /\ \A k, m, f : Sent(k, m, f)' <=>
                      \/ Sent(k, m, f)
                      \/ k = "ExperimentReady" /\ m \in S1 /\ f = e
                      \/ k = "ExperimentStop" /\ m \in T /\ f = e
                 /\ S1 # {} => e \in tracked /\ nodes[e] \subseteq ready'[e]
                 /\ T # {} => e \notin tracked'
                 /\ tracked' \subseteq tracked
    <3> WITNESS S \in SUBSET nodes[e], nodes[e] \cap up \in SUBSET nodes[e]
    <3>1. Messages("ExperimentReady", S, e) \in SUBSET ToEManager
      BY MessagesType DEF TypeOK
    <3>2. tracked' = tracked \ {e}
      BY <2>3 DEF Abort_emulations
    <3>3. \A k, m, f : Sent(k, m, f)' <=>
              \/ Sent(k, m, f)
              \/ [kind |-> k, to |-> m, emul |-> f] \in Messages("ExperimentReady", S, e)
              \/ k = "ExperimentStop" /\ f \in {e} \cap tracked /\ m \in nodes[f] \cap up
      BY <2>3, <3>1, AbortSends
    <3>4. \A k, m, f : Sent(k, m, f)' <=>
              \/ Sent(k, m, f)
              \/ k = "ExperimentReady" /\ m \in S /\ f = e
              \/ k = "ExperimentStop" /\ m \in nodes[e] \cap up /\ f = e
      BY <2>3, <3>3, MessagesIs
    <3> QED
      BY <2>3, <3>2, <3>4 DEF AllReady
  <2> QED
    BY <2>1, <2>2, <2>3 DEF EmulationReady
<1>5. n \in nodes[e] /\ n \notin ready[e] /\ core[n][e] \in {"stored", "lost"}
  BY <1>2 DEF LifeInv, OnlyHostsKnow, ReadyOnce
<1>6. OnlyHostsKnow'
  BY <1>1, <1>2, <1>3, <1>4, <1>5 DEF LifeInv, OnlyHostsKnow
<1>7. ReadyOnce'
  BY <1>1, <1>2, <1>3, <1>4, <1>5 DEF LifeInv, ReadyOnce
<1>8. StartWhenReady'
  <2>1. \A f \in Emul : nodes[f] \subseteq ready[f] => nodes'[f] \subseteq ready'[f]
    BY <1>1, <1>3
  <2>2. \A m \in Node : m \in ready'[e] => core[m][e] \in {"stored", "lost"}
    BY <1>3, <1>5 DEF LifeInv, StartWhenReady
  <2>3. ASSUME NEW m \in Node, NEW f \in Emul, Sent("ExperimentReady", m, f)'
        PROVE  nodes'[f] \subseteq ready'[f] /\ core'[m][f] \in {"stored", "lost"}
    <3>1. CASE Sent("ExperimentReady", m, f)
      BY <1>1, <2>1, <3>1 DEF LifeInv, StartWhenReady
    <3>2. CASE m \in S /\ f = e
      <4>1. nodes[e] \subseteq ready'[e] /\ m \in nodes[e]
        BY <1>4, <3>2
      <4>2. m \in ready'[e]
        BY <4>1
      <4> QED
        BY <1>1, <2>2, <3>2, <4>1, <4>2
    <3> QED
      BY <1>4, <2>3, <3>1, <3>2
  <2>4. \A m \in Node, f \in Emul : Started(m, f)' => nodes'[f] \subseteq ready'[f]
    BY <1>1, <2>1 DEF LifeInv, StartWhenReady, Started
  <2>5. \A m \in Node, f \in Emul : m \in ready'[f] =>
          core'[m][f] \in {"stored", "lost"} \/ nodes'[f] \subseteq ready'[f]
    BY <1>1, <1>3, <2>1, <2>2 DEF LifeInv, StartWhenReady
  <2> QED
    BY <2>3, <2>4, <2>5 DEF StartWhenReady
<1>9. StopWhenOver'
  <2>1. \A d \in Node, f \in Emul : NeverReady(d, f) => NeverReady(d, f)'
    BY <1>1, <1>2, <1>3, <1>4 DEF NeverReady
  <2> QED
    BY <1>4, <2>1 DEF LifeInv, StopWhenOver
<1>10. AbortsForgotten'
  BY <1>1, <1>4 DEF LifeInv, AbortsForgotten
<1> QED
  BY <1>6, <1>7, <1>8, <1>9, <1>10 DEF LifeInv

\* The OManager forgets emulations and tells their hosts to stop.
LEMMA ForgetLife ==
  ASSUME TypeOK, LifeInv, NEW E \in SUBSET Emul, Abort_emulations(E, {}),
         UNCHANGED <<nodes, ready, core, abort>>,
         \A k, m, f, app : Reported(k, m, f, app)' => Reported(k, m, f, app)
  PROVE  LifeInv'
<1>1. /\ tracked' = tracked \ E
      /\ \A k, m, f : Sent(k, m, f)' <=>
           \/ Sent(k, m, f)
           \/ k = "ExperimentStop" /\ f \in E \cap tracked /\ m \in nodes[f] \cap up
  <2>1. {} \in SUBSET ToEManager
    OBVIOUS
  <2>2. /\ tracked' = tracked \ E
        /\ \A k, m, f : Sent(k, m, f)' <=>
             \/ Sent(k, m, f)
             \/ [kind |-> k, to |-> m, emul |-> f] \in {}
             \/ k = "ExperimentStop" /\ f \in E \cap tracked /\ m \in nodes[f] \cap up
    BY <2>1, AbortSends
  <2> QED
    BY <2>2
<1>2. OnlyHostsKnow'
  BY <1>1 DEF LifeInv, OnlyHostsKnow
<1>3. ReadyOnce' /\ StartWhenReady'
  BY <1>1 DEF LifeInv, ReadyOnce, StartWhenReady, Started
<1>4. StopWhenOver'
  <2>1. \A d \in Node, f \in Emul : NeverReady(d, f) => NeverReady(d, f)'
    BY <1>1 DEF NeverReady
  <2> QED
    BY <1>1, <2>1 DEF LifeInv, StopWhenOver
<1>5. AbortsForgotten'
  BY <1>1 DEF LifeInv, AbortsForgotten
<1> QED
  BY <1>2, <1>3, <1>4, <1>5 DEF LifeInv

\* A node loses its process.
LEMMA ResetLife ==
  ASSUME TypeOK, LifeInv, NEW n \in Node, Reset(n), UNCHANGED <<tracked, nodes, ready, toO>>
  PROVE  LifeInv'
<1>1. /\ \A m \in Node, f \in Emul : core'[m][f] =
           IF m = n THEN IF n \in nodes[f] THEN "lost" ELSE "none" ELSE core[m][f]
      /\ \A m \in Node : abort'[m] \subseteq abort[m]
      /\ \A k, m, f : Sent(k, m, f)' <=> Sent(k, m, f) /\ m # n
  BY ResetIs
<1>2. \A k, m, f, app : Reported(k, m, f, app)' <=> Reported(k, m, f, app)
  BY DEF Reported
<1>3. OnlyHostsKnow'
  BY <1>1, <1>2 DEF LifeInv, OnlyHostsKnow
<1>4. ReadyOnce'
  BY <1>1, <1>2 DEF LifeInv, ReadyOnce, OnlyHostsKnow
<1>5. StartWhenReady'
  BY <1>1 DEF LifeInv, StartWhenReady, OnlyHostsKnow, Started
<1>6. StopWhenOver'
  <2>1. \A d \in Node, f \in Emul : NeverReady(d, f) => NeverReady(d, f)'
    BY <1>1, <1>2 DEF NeverReady
  <2> QED
    BY <1>1, <2>1 DEF LifeInv, StopWhenOver
<1>7. AbortsForgotten'
  BY <1>1 DEF LifeInv, AbortsForgotten
<1> QED
  BY <1>3, <1>4, <1>5, <1>6, <1>7 DEF LifeInv

\* A step of a core that leaves it further than "init", and reports no readiness.
LEMMA CoreLife ==
  ASSUME TypeOK, LifeInv, NEW n \in Node, NEW e \in Emul, NEW s,
         core[n][e] \in {"init", "syncing", "running"},
         s \in {"running", "ended", "panicked"},
         s = "running" => Started(n, e),
         SetCore(n, e, s),
         UNCHANGED <<tracked, nodes, ready, toE, abort>>,
         \A k, m, f, app : Reported(k, m, f, app)' =>
           Reported(k, m, f, app) \/ (k # "EmulationReady" /\ m = n /\ f = e)
  PROVE  LifeInv'
<1>1. \A m \in Node, f \in Emul :
        core'[m][f] = IF m = n /\ f = e THEN s ELSE core[m][f]
  BY SetCoreIs
<1>2. \A k, m, f : Sent(k, m, f)' <=> Sent(k, m, f)
  BY DEF Sent
<1>3. n \in nodes[e]
  BY DEF LifeInv, OnlyHostsKnow
<1>4. OnlyHostsKnow'
  BY <1>1, <1>2, <1>3 DEF LifeInv, OnlyHostsKnow
<1>5. ReadyOnce'
  BY <1>1, <1>2 DEF LifeInv, ReadyOnce
<1>6. StartWhenReady'
  BY <1>1, <1>2 DEF LifeInv, ReadyOnce, StartWhenReady, Started
<1>7. StopWhenOver'
  <2>1. \A d \in Node, f \in Emul : NeverReady(d, f) => NeverReady(d, f)'
    BY <1>1, <1>2 DEF NeverReady
  <2> QED
    BY <1>2, <2>1 DEF LifeInv, StopWhenOver
<1>8. AbortsForgotten'
  BY DEF LifeInv, AbortsForgotten
<1> QED
  BY <1>4, <1>5, <1>6, <1>7, <1>8 DEF LifeInv

\* A core ends its initialisation and reports that it is ready.
LEMMA InitDoneLife ==
  ASSUME TypeOK, LifeInv, NEW n \in Node, NEW e \in Emul, InitDone(n, e)
  PROVE  LifeInv'
<1>1. /\ core[n][e] = "init"
      /\ \A m \in Node, f \in Emul :
           core'[m][f] = IF m = n /\ f = e THEN "stored" ELSE core[m][f]
  BY SetCoreIs DEF InitDone
<1>2. \A k, m, f, app : Reported(k, m, f, app)' <=>
        Reported(k, m, f, app) \/ (k = "EmulationReady" /\ m = n /\ f = e /\ app = 0)
  BY TellIs DEF InitDone
<1>3. UNCHANGED <<tracked, nodes, ready, toE, abort>>
  BY DEF InitDone, omanagerVars
<1>4. \A k, m, f : Sent(k, m, f)' <=> Sent(k, m, f)
  BY <1>3 DEF Sent
<1>5. n \in nodes[e]
  BY <1>1 DEF LifeInv, OnlyHostsKnow
<1>6. OnlyHostsKnow'
  BY <1>1, <1>2, <1>3, <1>4, <1>5 DEF LifeInv, OnlyHostsKnow
<1>7. ReadyOnce'
  BY <1>1, <1>2, <1>3, <1>4 DEF LifeInv, ReadyOnce
<1>8. StartWhenReady'
  BY <1>1, <1>3, <1>4 DEF LifeInv, ReadyOnce, StartWhenReady, Started
<1>9. StopWhenOver'
  <2>1. \A d \in Node, f \in Emul : NeverReady(d, f) => NeverReady(d, f)'
    BY <1>1, <1>2, <1>3, <1>4 DEF NeverReady
  <2> QED
    BY <1>3, <1>4, <2>1 DEF LifeInv, StopWhenOver
<1>10. AbortsForgotten'
  BY <1>3 DEF LifeInv, AbortsForgotten
<1> QED
  BY <1>6, <1>7, <1>8, <1>9, <1>10 DEF LifeInv

\* The EManager makes a core.
LEMMA ExperimentNewLife ==
  ASSUME TypeOK, LifeInv, NEW n \in Node, NEW e \in Emul, ExperimentNew(n, e)
  PROVE  LifeInv'
<1>1. \A m \in Node, f \in Emul :
        core'[m][f] = IF m = n /\ f = e THEN "init" ELSE core[m][f]
  BY SetCoreIs DEF ExperimentNew
<1>2. /\ Sent("ExperimentNew", n, e)
      /\ \A k, m, f : Sent(k, m, f)' <=>
           Sent(k, m, f) /\ ~(k = "ExperimentNew" /\ m = n /\ f = e)
  BY HandleIs DEF ExperimentNew
<1>3. UNCHANGED <<tracked, nodes, ready, toO, abort>>
  BY DEF ExperimentNew, omanagerVars
<1>4. \A k, m, f, app : Reported(k, m, f, app)' <=> Reported(k, m, f, app)
  BY <1>3 DEF Reported
<1>5. n \in nodes[e] /\ core[n][e] = "none" /\ ~Sent("ExperimentReady", n, e)
  BY <1>2 DEF LifeInv, OnlyHostsKnow, ReadyOnce, StartWhenReady
<1>6. OnlyHostsKnow'
  BY <1>1, <1>2, <1>3, <1>4, <1>5 DEF LifeInv, OnlyHostsKnow
<1>7. ReadyOnce'
  BY <1>1, <1>2, <1>3, <1>4, <1>5 DEF LifeInv, ReadyOnce
<1>8. StartWhenReady'
  BY <1>1, <1>2, <1>3, <1>5 DEF LifeInv, ReadyOnce, StartWhenReady, Started
<1>9. StopWhenOver'
  <2>1. \A d \in Node, f \in Emul : NeverReady(d, f) => NeverReady(d, f)'
    BY <1>1, <1>2, <1>3, <1>4 DEF NeverReady
  <2> QED
    BY <1>2, <1>3, <2>1 DEF LifeInv, StopWhenOver
<1>10. AbortsForgotten'
  BY <1>3 DEF LifeInv, AbortsForgotten
<1> QED
  BY <1>6, <1>7, <1>8, <1>9, <1>10 DEF LifeInv

\* A core that is ready is asked to start.
LEMMA ExperimentReadyLife ==
  ASSUME TypeOK, LifeInv, NEW n \in Node, NEW e \in Emul, ExperimentReady(n, e)
  PROVE  LifeInv'
<1>1. \A m \in Node, f \in Emul : core'[m][f] =
        IF m = n /\ f = e /\ core[n][e] = "stored" THEN "syncing" ELSE core[m][f]
  <2>1. CASE core[n][e] = "stored" /\ SetCore(n, e, "syncing")
    BY <2>1, SetCoreIs
  <2>2. CASE core[n][e] # "stored" /\ core' = core
    BY <2>2
  <2> QED
    BY <2>1, <2>2 DEF ExperimentReady
<1>2. /\ Sent("ExperimentReady", n, e)
      /\ \A k, m, f : Sent(k, m, f)' <=>
           Sent(k, m, f) /\ ~(k = "ExperimentReady" /\ m = n /\ f = e)
  BY HandleIs DEF ExperimentReady
<1>3. UNCHANGED <<tracked, nodes, ready, toO, abort>>
  BY DEF ExperimentReady, omanagerVars
<1>4. \A k, m, f, app : Reported(k, m, f, app)' <=> Reported(k, m, f, app)
  BY <1>3 DEF Reported
<1>5. /\ n \in nodes[e] /\ nodes[e] \subseteq ready[e]
      /\ ~Reported("EmulationReady", n, e, 0)
      /\ ~Sent("ExperimentNew", n, e)
  BY <1>2 DEF LifeInv, OnlyHostsKnow, ReadyOnce, StartWhenReady
<1>6. OnlyHostsKnow'
  BY <1>1, <1>2, <1>3, <1>4, <1>5 DEF LifeInv, OnlyHostsKnow
<1>7. ReadyOnce'
  BY <1>1, <1>2, <1>3, <1>4, <1>5 DEF LifeInv, ReadyOnce
<1>8. StartWhenReady'
  BY <1>1, <1>2, <1>3, <1>5 DEF LifeInv, StartWhenReady, Started
<1>9. StopWhenOver'
  <2>1. \A d \in Node, f \in Emul : NeverReady(d, f) => NeverReady(d, f)'
    BY <1>1, <1>2, <1>3, <1>4 DEF NeverReady
  <2> QED
    BY <1>2, <1>3, <2>1 DEF LifeInv, StopWhenOver
<1>10. AbortsForgotten'
  BY <1>3 DEF LifeInv, AbortsForgotten
<1> QED
  BY <1>6, <1>7, <1>8, <1>9, <1>10 DEF LifeInv

\* A core that has started belongs to an emulation whose hosts were all ready, so
\* the ExperimentStop that reaches it is not the one of a failed NewTopology.
LEMMA ExperimentStopLife ==
  ASSUME TypeOK, LifeInv, NEW n \in Node, NEW e \in Emul, ExperimentStop(n, e)
  PROVE  LifeInv'
<1>1. UNCHANGED <<tracked, nodes, ready, core, toO>>
  BY DEF ExperimentStop, omanagerVars
<1>2. /\ Sent("ExperimentStop", n, e)
      /\ \A k, m, f : Sent(k, m, f)' <=>
           Sent(k, m, f) /\ ~(k = "ExperimentStop" /\ m = n /\ f = e)
  BY HandleIs DEF ExperimentStop
<1>3. \A m \in Node : abort'[m] =
        IF m = n /\ Started(n, e) THEN abort[m] \cup {e} ELSE abort[m]
  BY DEF ExperimentStop, TypeOK
<1>4. \A k, m, f, app : Reported(k, m, f, app)' <=> Reported(k, m, f, app)
  BY <1>1 DEF Reported
<1>5. n \in nodes[e]
  BY <1>2 DEF LifeInv, OnlyHostsKnow
<1>6. Started(n, e) => e \notin tracked
  BY <1>2 DEF LifeInv, StopWhenOver, StartWhenReady, NeverReady
<1>7. OnlyHostsKnow'
  <2>1. ASSUME NEW m \in Node, NEW f \in Emul, m \notin nodes[f] PROVE f \notin abort'[m]
    <3>1. f \notin abort[m] /\ ~(m = n /\ f = e)
      BY <2>1, <1>5 DEF LifeInv, OnlyHostsKnow
    <3> QED
      BY <3>1, <1>3
  <2> QED
    BY <1>1, <1>2, <1>4, <2>1 DEF LifeInv, OnlyHostsKnow
<1>8. ReadyOnce' /\ StartWhenReady'
  <2>1. ReadyOnce'
    BY <1>1, <1>2, <1>4 DEF LifeInv, ReadyOnce
  <2>2. StartWhenReady'
    BY <1>1, <1>2 DEF LifeInv, StartWhenReady, Started
  <2> QED
    BY <2>1, <2>2
<1>9. StopWhenOver'
  <2>1. \A d \in Node, f \in Emul : NeverReady(d, f) => NeverReady(d, f)'
    BY <1>1, <1>2, <1>4 DEF NeverReady
  <2> QED
    BY <1>1, <1>2, <2>1 DEF LifeInv, StopWhenOver
<1>10. AbortsForgotten'
  BY <1>1, <1>3, <1>6 DEF LifeInv, AbortsForgotten
<1> QED
  BY <1>7, <1>8, <1>9, <1>10 DEF LifeInv

\* Every step keeps LifeInv.
LEMMA LifeNext == TypeOK /\ LifeInv /\ [Next]_vars => LifeInv'
<1> SUFFICES ASSUME TypeOK, LifeInv, [Next]_vars PROVE LifeInv'
  OBVIOUS
<1>1. ASSUME NEW e \in Emul, NEW A \in Apps, NewTopology(e, A) PROVE LifeInv'
  BY <1>1, NewTopologyLife
<1>2. ASSUME NEW n \in Node, NEW e \in Emul, EmulationReady(n, e) PROVE LifeInv'
  BY <1>2, EmulationReadyLife
<1>3. ASSUME NEW n \in Node, NEW e \in Emul, Abort(n, e) PROVE LifeInv'
  <2>1. \A k, m, f, app : Reported(k, m, f, app)' => Reported(k, m, f, app)
    BY <1>3, ReceiveIs DEF Abort
  <2>2. {e} \in SUBSET Emul /\ Abort_emulations({e}, {}) /\ UNCHANGED <<nodes, ready, core, abort>>
    BY <1>3 DEF Abort
  <2> QED
    BY <2>1, <2>2, ForgetLife
<1>4. ASSUME NEW n \in Node, NEW e \in Emul, NEW app \in 1..MaxApps, CleanStop(n, e, app)
      PROVE  LifeInv'
  <2>1. \A k, m, f, a : Reported(k, m, f, a)' => Reported(k, m, f, a)
    BY <1>4, ReceiveIs DEF CleanStop
  <2>2. \A m \in Node, f \in Emul :
          Reported("EmulationReady", m, f, 0)' <=> Reported("EmulationReady", m, f, 0)
    BY <1>4, ReceiveIs DEF CleanStop
  <2>3. UNCHANGED <<tracked, nodes, ready, toE, core, abort>>
    BY <1>4 DEF CleanStop
  <2>4. \A k, m, f : Sent(k, m, f)' <=> Sent(k, m, f)
    BY <2>3 DEF Sent
  <2>5. OnlyHostsKnow'
    BY <2>1, <2>3, <2>4 DEF LifeInv, OnlyHostsKnow
  <2>6. ReadyOnce'
    BY <2>2, <2>3, <2>4 DEF LifeInv, ReadyOnce
  <2>7. StartWhenReady'
    BY <2>3, <2>4 DEF LifeInv, StartWhenReady, Started
  <2>8. StopWhenOver'
    BY <2>2, <2>3, <2>4 DEF LifeInv, StopWhenOver, NeverReady
  <2>9. AbortsForgotten'
    BY <2>3 DEF LifeInv, AbortsForgotten
  <2> QED
    BY <2>5, <2>6, <2>7, <2>8, <2>9 DEF LifeInv
<1>5. ASSUME NEW n \in Node, CGraphNew(n) \/ NodeCrash(n) PROVE LifeInv'
  BY <1>5, ResetLife DEF CGraphNew, NodeCrash, omanagerVars
<1>6. ASSUME NEW n \in Node, CGraphRemove(n) PROVE LifeInv'
  <2> DEFINE E == {e \in Emul : \E m \in Node : load[m][e] > 0}
  <2>1. /\ E \in SUBSET Emul /\ Abort_emulations(E, {})
        /\ UNCHANGED <<nodes, ready, toO, core, abort>>
    BY <1>6 DEF CGraphRemove
  <2>2. \A k, m, f, app : Reported(k, m, f, app)' => Reported(k, m, f, app)
    BY <2>1 DEF Reported
  <2> HIDE DEF E
  <2> QED
    BY <2>1, <2>2, ForgetLife
<1>7. ASSUME NEW n \in Node, NEW e \in Emul, EManagerStep(n, e) PROVE LifeInv'
  <2>1. CASE ExperimentReadyPanics(n, e)
    BY <2>1, ResetLife DEF ExperimentReadyPanics, omanagerVars
  <2> QED
    BY <1>7, <2>1, ExperimentNewLife, ExperimentReadyLife, ExperimentStopLife DEF EManagerStep
<1>8. ASSUME NEW n \in Node, NEW e \in Emul, CoreStep(n, e) PROVE LifeInv'
  <2>1. CASE InitDone(n, e)
    BY <2>1, InitDoneLife
  <2>2. CASE InitFails(n, e)
    <3>1. \A k, m, f, app : Reported(k, m, f, app)' =>
            Reported(k, m, f, app) \/ (k # "EmulationReady" /\ m = n /\ f = e)
      BY <2>2, TellIs DEF InitFails
    <3> QED
      BY <2>2, <3>1, CoreLife DEF InitFails, omanagerVars
  <2>3. CASE Synchronized(n, e) \/ Aborted(n, e) \/ InitPanics(n, e)
    <3>1. toO' = toO
      BY <2>3 DEF Synchronized, Aborted, InitPanics
    <3>2. \A k, m, f, app : Reported(k, m, f, app)' =>
            Reported(k, m, f, app) \/ (k # "EmulationReady" /\ m = n /\ f = e)
      BY <3>1 DEF Reported
    <3> QED
      BY <2>3, <3>2, CoreLife DEF Synchronized, Aborted, InitPanics, Started, omanagerVars
  <2>4. CASE CoreFails(n, e)
    <3>1. \A k, m, f, app : Reported(k, m, f, app)' =>
            Reported(k, m, f, app) \/ (k # "EmulationReady" /\ m = n /\ f = e)
      BY <2>4, TellIs DEF CoreFails
    <3> QED
      BY <2>4, <3>1, CoreLife DEF CoreFails, Started, omanagerVars
  <2>5. CASE AppCrash(n, e)
    <3>1. \A k, m, f, app : Reported(k, m, f, app)' =>
            Reported(k, m, f, app) \/ (k # "EmulationReady" /\ m = n /\ f = e)
      BY <2>5, TellIs DEF AppCrash
    <3> QED
      BY <2>5, <3>1, CoreLife DEF AppCrash, Started, omanagerVars
  <2> QED
    BY <1>8, <2>1, <2>2, <2>3, <2>4, <2>5 DEF CoreStep
<1>9. ASSUME NEW n \in Node, Reboot(n) PROVE LifeInv'
  BY <1>9 DEF Reboot, omanagerVars, LifeInv, OnlyHostsKnow, ReadyOnce, StartWhenReady,
              StopWhenOver, AbortsForgotten, Sent, Reported, Started, NeverReady
<1>10. CASE UNCHANGED vars
  BY <1>10 DEF vars, LifeInv, OnlyHostsKnow, ReadyOnce, StartWhenReady,
               StopWhenOver, AbortsForgotten, Sent, Reported, Started, NeverReady
<1> QED
  BY <1>1, <1>2, <1>3, <1>4, <1>5, <1>6, <1>7, <1>8, <1>9, <1>10 DEF Next, OManagerStep

\* LifeInv holds always.
LEMMA LifeInvariant == Spec => [](TypeOK /\ LifeInv)
BY TypeInit, TypeNext, LifeInit, LifeNext, PTL DEF Spec

\* StartFindsCoreHolds: an ExperimentReady finds its core stored, whatever the order in
\* which messages arrive and wherever nodes crash, so start_emulation does
\* not panic: for any cluster.
THEOREM StartFindsCoreHolds == Spec => []StartFindsCore
<1>1. TypeOK /\ LifeInv => StartFindsCore
  <2> SUFFICES ASSUME TypeOK, LifeInv, NEW m \in toE, m.kind = "ExperimentReady"
               PROVE  core[m.to][m.emul] \in {"stored", "lost"}
    BY DEF StartFindsCore
  <2>1. m \in ToEManager
    BY DEF TypeOK
  <2>2. /\ m.to \in Node /\ m.emul \in Emul
        /\ m = [kind |-> "ExperimentReady", to |-> m.to, emul |-> m.emul]
    BY <2>1 DEF ToEManager
  <2> QED
    BY <2>2 DEF LifeInv, StartWhenReady, Sent
<1> QED
  BY <1>1, LifeInvariant, PTL

\* StartsTogetherHolds: no core enters synchronize while a core of its emulation is
\* still being created: for any cluster.
THEOREM StartsTogetherHolds == Spec => []StartsTogether
<1>1. TypeOK /\ LifeInv => StartsTogether
  BY DEF LifeInv, StartWhenReady, ReadyOnce, StartsTogether, TypeOK
<1> QED
  BY <1>1, LifeInvariant, PTL

\* The messages to stop, by their receiver.
LEMMA StopsSent ==
  ASSUME TypeOK, NEW e \in Emul, NEW m \in toE, m.kind = "ExperimentStop", m.emul = e
  PROVE  \E n \in Node : Sent("ExperimentStop", n, e)
<1>1. m \in ToEManager
  BY DEF TypeOK
<1>2. m.to \in Node /\ m = [kind |-> "ExperimentStop", to |-> m.to, emul |-> e]
  BY <1>1 DEF ToEManager
<1> QED
  BY <1>2 DEF Sent

\* A report of an emulation that was told to stop never completes the set of the
\* ready nodes: the emulation is forgotten, or one of its hosts is never ready.
LEMMA NoLateStart ==
  ASSUME TypeOK, LifeInv, NEW n \in Node, NEW e \in Emul, EmulationReady(n, e), ToldToStop(e)
  PROVE  \A m \in toE' \ toE : m.kind # "ExperimentReady"
<1>1. Reported("EmulationReady", n, e, 0)
  BY ReceiveIs DEF EmulationReady
<1>2. CASE e \notin tracked
  BY <1>2 DEF EmulationReady
<1>3. CASE e \in tracked
  <2>1. PICK m \in Node : Sent("ExperimentStop", m, e)
    BY <1>3, StopsSent DEF ToldToStop, LifeInv, AbortsForgotten
  <2>2. PICK d \in Node : NeverReady(d, e)
    BY <1>3, <2>1 DEF LifeInv, StopWhenOver
  <2>3. d # n
    BY <1>1, <2>2 DEF NeverReady
  <2>4. ready' = [ready EXCEPT ![e] = @ \cup {n}]
    BY <1>3 DEF EmulationReady
  <2>5. d \in nodes[e] /\ d \notin ready'[e]
    BY <2>2, <2>3, <2>4 DEF NeverReady, TypeOK
  <2> QED
    BY <1>3, <2>5 DEF EmulationReady, AllReady
<1> QED
  BY <1>2, <1>3

\* AbortsAreFinalHolds: once a node was told to stop an emulation, or the OManager
\* has forgotten it, no node is told to start it: for any cluster.
THEOREM AbortsAreFinalHolds == Spec => AbortsAreFinal
<1> DEFINE Final == \A e \in Emul : ToldToStop(e) =>
                      \A m \in toE' \ toE : m.emul = e => m.kind # "ExperimentReady"
<1>1. TypeOK /\ LifeInv /\ [Next]_vars => [Final]_vars
  <2> SUFFICES ASSUME TypeOK, LifeInv, Next PROVE Final
    OBVIOUS
  <2>a. ASSUME \A m \in toE' \ toE : m.kind # "ExperimentReady" PROVE Final
    BY <2>a
  <2>1. ASSUME NEW e \in Emul, NEW A \in Apps, NewTopology(e, A) PROVE Final
    BY <2>1, <2>a DEF NewTopology, Messages
  <2>2. ASSUME NEW n \in Node, NEW e \in Emul, EmulationReady(n, e) PROVE Final
    <3>1. \A m \in toE' \ toE : m.kind = "ExperimentReady" => m.emul = e
      BY <2>2 DEF EmulationReady, Abort_emulations, Messages
    <3> QED
      BY <2>2, <3>1, NoLateStart
  <2>3. ASSUME NEW n \in Node, NEW e \in Emul, Abort(n, e) PROVE Final
    BY <2>3, <2>a DEF Abort, Abort_emulations, Messages
  <2>4. toE' \subseteq toE => Final
    BY <2>a
  <2>5. ASSUME NEW n \in Node, NEW e \in Emul,
               \/ EManagerStep(n, e) \/ CoreStep(n, e)
               \/ \E app \in 1..MaxApps : CleanStop(n, e, app)
        PROVE  toE' \subseteq toE
    BY <2>5 DEF EManagerStep, ExperimentNew, ExperimentReady, ExperimentReadyPanics,
                ExperimentStop, Handle, Reset, CoreStep, InitDone, InitFails, InitPanics,
                Synchronized, CoreFails, Aborted, AppCrash, CleanStop
  <2>6. ASSUME NEW n \in Node, CGraphNew(n) \/ NodeCrash(n) \/ Reboot(n)
        PROVE  toE' \subseteq toE
    BY <2>6 DEF CGraphNew, NodeCrash, Reboot, Reset
  <2>7. ASSUME NEW n \in Node, CGraphRemove(n) PROVE Final
    BY <2>7, <2>a DEF CGraphRemove, Abort_emulations, Messages
  <2> HIDE DEF Final
  <2> QED
    BY <2>1, <2>2, <2>3, <2>4, <2>5, <2>6, <2>7 DEF Next, OManagerStep
<1> QED
  BY LifeInvariant, <1>1, PTL DEF Spec, AbortsAreFinal


-----------------------------------------------------------------------------
\* The loads.
LEMMA UnheardFinite ==
  ASSUME NEW n, NEW e
  PROVE  IsFiniteSet(CrashesUnheard(n, e)) /\ Cardinality(CrashesUnheard(n, e)) \in Nat
<1>1. IsFiniteSet(1..MaxApps)
  BY AppsAssumption, FS_Interval
<1>2. CrashesUnheard(n, e) \subseteq 1..MaxApps
  BY DEF CrashesUnheard
<1> QED
  BY <1>1, <1>2, FS_Subset, FS_CardinalityType

\* A step that changes neither the applications nor what is heard of them, and
\* leaves the load of the emulations that stay tracked alone.
LEMMA LoadFrame ==
  ASSUME TypeOK, LoadCoversAll,
         live' = live,
         \A e \in Emul : Charged(e)' => Charged(e) /\ \A n \in Node : load'[n][e] = load[n][e],
         \A n \in Node, e \in Emul, app \in 1..MaxApps :
           Reported("CleanStop", n, e, app)' <=> Reported("CleanStop", n, e, app)
  PROVE  LoadCoversAll'
<1>1. \A n \in Node, e \in Emul : CrashesUnheard(n, e)' = CrashesUnheard(n, e)
  BY DEF CrashesUnheard
<1> QED
  BY <1>1 DEF LoadCoversAll

\* Nothing runs at the start.
LEMMA LoadInit == Init => LoadCoversAll
<1> SUFFICES ASSUME Init PROVE LoadCoversAll
  OBVIOUS
<1>1. \A n \in Node, e \in Emul : CrashesUnheard(n, e) = {}
  BY DEF Init, CrashesUnheard, Reported
<1> QED
  BY <1>1 DEF Init, LoadCoversAll, Charged

\* A new topology adds as much load as applications.
LEMMA NewTopologyLoad ==
  ASSUME TypeOK, LifeInv, LoadCoversAll, NEW e \in Emul, NEW A \in Apps, NewTopology(e, A)
  PROVE  LoadCoversAll'
<1>1. \A n \in Node, f \in Emul :
        /\ load'[n][f] = IF f = e THEN A[n] ELSE load[n][f]
        /\ live'[n][f] = IF f = e THEN A[n] ELSE live[n][f]
  BY DEF NewTopology, TypeOK
<1>2. tracked' = tracked \cup {e} /\ nodes[e] = {} /\ toO' = toO
  BY DEF NewTopology
<1>3. \A n \in Node, f \in Emul : CrashesUnheard(n, f)' = CrashesUnheard(n, f)
  BY <1>2 DEF CrashesUnheard, Reported
<1>4. \A n \in Node : CrashesUnheard(n, e) = {}
  BY <1>2 DEF LifeInv, OnlyHostsKnow, CrashesUnheard
<1>5. \A n \in Node : A[n] \in Nat
  BY AppsAssumption DEF Apps
<1>6. \A n \in Node : Cardinality(CrashesUnheard(n, e)) = 0
  BY <1>4, FS_EmptySet
<1>7. ASSUME NEW n \in Node, NEW f \in Emul
      PROVE  /\ \A app \in CrashesUnheard(n, f)' : app > live'[n][f]
             /\ Charged(f)' => load'[n][f] >=
                  live'[n][f] + Cardinality(CrashesUnheard(n, f)')
  <2>1. CASE f = e
    <3>1. /\ live'[n][f] = A[n] /\ load'[n][f] = A[n] /\ A[n] \in Nat
          /\ CrashesUnheard(n, f)' = {}
      BY <2>1, <1>1, <1>3, <1>4, <1>5
    <3>2. Cardinality(CrashesUnheard(n, f)') = 0
      BY <2>1, <1>3, <1>6
    <3> QED
      BY <3>1, <3>2
  <2>2. CASE f # e
    <3>1. Charged(f)' => Charged(f)
      BY <2>2, <1>1, <1>2 DEF Charged
    <3> QED
      BY <2>2, <3>1, <1>1, <1>3 DEF LoadCoversAll
  <2> QED
    BY <2>1, <2>2
<1> QED
  BY <1>7 DEF LoadCoversAll

\* A load is taken back when its application has ended.
LEMMA CleanStopLoad ==
  ASSUME TypeOK, LoadCoversAll, NEW n \in Node, NEW e \in Emul, NEW app \in 1..MaxApps,
         CleanStop(n, e, app)
  PROVE  LoadCoversAll'
<1>1. /\ Reported("CleanStop", n, e, app)
      /\ \A k, m, f, a : Reported(k, m, f, a)' <=>
           Reported(k, m, f, a) /\ ~(k = "CleanStop" /\ m = n /\ f = e /\ a = app)
  BY ReceiveIs DEF CleanStop
<1>2. /\ live' = live /\ tracked' = tracked
      /\ \A m \in Node, f \in Emul : load'[m][f] =
           IF m = n /\ f = e THEN IF load[n][e] > 0 THEN load[n][e] - 1 ELSE load[n][e]
           ELSE load[m][f]
  BY DEF CleanStop, TypeOK
<1>5. \A f \in Emul : Charged(f)' => Charged(f)
  BY <1>2 DEF Charged, TypeOK
<1> SUFFICES ASSUME NEW m \in Node, NEW f \in Emul
             PROVE  /\ \A a \in CrashesUnheard(m, f)' : a > live'[m][f]
                    /\ Charged(f)' => load'[m][f] >=
                         live'[m][f] + Cardinality(CrashesUnheard(m, f)')
  BY DEF LoadCoversAll
<1>3. CASE m = n /\ f = e
  <2>1. /\ app \in CrashesUnheard(n, e)
        /\ CrashesUnheard(n, e)' = CrashesUnheard(n, e) \ {app}
    BY <1>1 DEF CrashesUnheard
  <2>2. /\ Cardinality(CrashesUnheard(n, e)') = Cardinality(CrashesUnheard(n, e)) - 1
        /\ Cardinality(CrashesUnheard(n, e)) \in Nat
    BY <2>1, UnheardFinite, FS_RemoveElement
  <2>3. Cardinality(CrashesUnheard(n, e)) # 0
    BY <2>1, UnheardFinite, FS_EmptySet
  <2>4. load[n][e] \in Nat /\ live[n][e] \in Nat
    BY DEF TypeOK
  <2>5. Charged(e) => load[n][e] >= live[n][e] + Cardinality(CrashesUnheard(n, e))
    BY DEF LoadCoversAll
  <2>6. Charged(e)' => load'[n][e] >= live'[n][e] + Cardinality(CrashesUnheard(n, e)')
    <3> DEFINE c == Cardinality(CrashesUnheard(n, e))
               d == Cardinality(CrashesUnheard(n, e)')
    <3>1. c \in Nat /\ c # 0 /\ d = c - 1
      BY <2>2, <2>3
    <3>2. Charged(e) => load[n][e] >= live[n][e] + c
      BY <2>5
    <3> HIDE DEF c, d
    <3>3. Charged(e)' => load'[n][e] >= live'[n][e] + d
      BY <3>1, <3>2, <1>2, <1>5, <2>4
    <3> QED
      BY <3>3 DEF d
  <2>7. \A a \in CrashesUnheard(n, e)' : a > live'[n][e]
    BY <2>1, <1>2 DEF LoadCoversAll
  <2> QED
    BY <1>2, <1>3, <2>6, <2>7
<1>4. CASE ~(m = n /\ f = e)
  <2>1. CrashesUnheard(m, f)' = CrashesUnheard(m, f)
    BY <1>1, <1>4 DEF CrashesUnheard
  <2> QED
    BY <1>2, <1>4, <1>5, <2>1 DEF LoadCoversAll
<1> QED
  BY <1>3, <1>4

\* The load of a crashed application stays until the OManager hears of it.
LEMMA AppCrashLoad ==
  ASSUME TypeOK, LoadCoversAll, NEW n \in Node, NEW e \in Emul, AppCrash(n, e)
  PROVE  LoadCoversAll'
<1> DEFINE app == live[n][e]
<1>1. app \in 1..MaxApps /\ app > 0
  BY AppsAssumption DEF AppCrash, TypeOK
<1>2. \A k, m, f, a : Reported(k, m, f, a)' <=>
        Reported(k, m, f, a) \/ (k = "CleanStop" /\ m = n /\ f = e /\ a = app)
  BY TellIs DEF AppCrash
<1>3. /\ load' = load /\ tracked' = tracked
      /\ \A m \in Node, f \in Emul : live'[m][f] =
           IF m = n /\ f = e THEN app - 1 ELSE live[m][f]
  BY DEF AppCrash, TypeOK, omanagerVars
<1>6. \A f \in Emul : Charged(f)' <=> Charged(f)
  BY <1>3 DEF Charged
<1> SUFFICES ASSUME NEW m \in Node, NEW f \in Emul
             PROVE  /\ \A a \in CrashesUnheard(m, f)' : a > live'[m][f]
                    /\ Charged(f)' => load'[m][f] >=
                         live'[m][f] + Cardinality(CrashesUnheard(m, f)')
  BY DEF LoadCoversAll
<1>4. CASE m = n /\ f = e
  <2>1. /\ app \notin CrashesUnheard(n, e)
        /\ CrashesUnheard(n, e)' = CrashesUnheard(n, e) \cup {app}
    <3>1. \A a \in CrashesUnheard(n, e) : a > app
      BY DEF LoadCoversAll
    <3>2. ~(app > app)
      BY <1>1, AppsAssumption
    <3>3. CrashesUnheard(n, e)' = CrashesUnheard(n, e) \cup {app}
      <4> HIDE DEF app
      <4> QED
        BY <1>1, <1>2 DEF CrashesUnheard
    <3> QED
      BY <3>1, <3>2, <3>3
  <2>2. /\ Cardinality(CrashesUnheard(n, e)') = Cardinality(CrashesUnheard(n, e)) + 1
        /\ Cardinality(CrashesUnheard(n, e)) \in Nat
    BY <2>1, UnheardFinite, FS_AddElement
  <2>3. load[n][e] \in Nat /\ app \in Nat
    BY <1>1 DEF TypeOK
  <2>4. Charged(e)' => load'[n][e] >= live'[n][e] + Cardinality(CrashesUnheard(n, e)')
    <3> DEFINE c == Cardinality(CrashesUnheard(n, e))
               d == Cardinality(CrashesUnheard(n, e)')
    <3>1. c \in Nat /\ d = c + 1
      BY <2>2
    <3>2. Charged(e) => load[n][e] >= app + c
      BY DEF LoadCoversAll
    <3>3. live'[n][e] = app - 1 /\ load'[n][e] = load[n][e]
      BY <1>3
    <3> HIDE DEF c, d, app
    <3>4. Charged(e)' => load'[n][e] >= live'[n][e] + d
      BY <3>1, <3>2, <3>3, <2>3, <1>6
    <3> QED
      BY <3>4 DEF d
  <2>5. \A a \in CrashesUnheard(n, e)' : a > live'[n][e]
    <3>1. live'[n][e] = app - 1
      BY <1>3
    <3>2. \A a \in CrashesUnheard(n, e) : a > app /\ a \in Nat
      <4>1. \A a \in CrashesUnheard(n, e) : a > app
        BY DEF LoadCoversAll
      <4>2. \A a \in CrashesUnheard(n, e) : a \in Nat
        BY AppsAssumption DEF CrashesUnheard
      <4> QED
        BY <4>1, <4>2
    <3> HIDE DEF app
    <3> QED
      BY <2>1, <2>3, <3>1, <3>2
  <2> QED
    BY <1>3, <1>4, <2>4, <2>5
<1>5. CASE ~(m = n /\ f = e)
  <2>1. CrashesUnheard(m, f)' = CrashesUnheard(m, f)
    BY <1>2, <1>5 DEF CrashesUnheard
  <2> QED
    BY <1>3, <1>5, <1>6, <2>1 DEF LoadCoversAll
<1> QED
  BY <1>4, <1>5

\* Every step keeps LoadCoversAll.
LEMMA LoadNext == TypeOK /\ LifeInv /\ LoadCoversAll /\ [Next]_vars => LoadCoversAll'
<1> SUFFICES ASSUME TypeOK, LifeInv, LoadCoversAll, [Next]_vars PROVE LoadCoversAll'
  OBVIOUS
<1> DEFINE SameReports ==
      \A n \in Node, e \in Emul, app \in 1..MaxApps :
        Reported("CleanStop", n, e, app)' <=> Reported("CleanStop", n, e, app)
<1>f. ASSUME tracked' \subseteq tracked, live' = live, load' = load, SameReports
      PROVE  LoadCoversAll'
  <2>1. \A e \in Emul : Charged(e)' => Charged(e)
    BY <1>f DEF Charged
  <2> QED
    BY <1>f, <2>1, LoadFrame
<1>1. ASSUME NEW e \in Emul, NEW A \in Apps, NewTopology(e, A) PROVE LoadCoversAll'
  BY <1>1, NewTopologyLoad
<1>2. ASSUME NEW n \in Node, NEW e \in Emul, EmulationReady(n, e) \/ Abort(n, e)
      PROVE  LoadCoversAll'
  <2>1. tracked' \subseteq tracked /\ live' = live /\ load' = load
    BY <1>2 DEF EmulationReady, Abort, Abort_emulations
  <2>2. SameReports
    <3>1. PICK k \in {"EmulationReady", "Abort"} : Receive(k, n, e, 0)
      BY <1>2 DEF EmulationReady, Abort
    <3> QED
      BY <3>1, ReceiveIs
  <2> QED
    BY <2>1, <2>2, <1>f
<1>3. ASSUME NEW n \in Node, NEW e \in Emul, NEW app \in 1..MaxApps, CleanStop(n, e, app)
      PROVE  LoadCoversAll'
  BY <1>3, CleanStopLoad
<1>4. ASSUME NEW n \in Node, CGraphRemove(n) PROVE LoadCoversAll'
  <2>1. /\ tracked' = tracked \ {e \in Emul : \E m \in Node : load[m][e] > 0}
        /\ live' = live /\ toO' = toO
        /\ \A m \in Node, e \in Emul : load'[m][e] = 0
    BY <1>4 DEF CGraphRemove, Abort_emulations
  <2>2. ASSUME NEW e \in Emul, Charged(e)'
        PROVE  Charged(e) /\ \A m \in Node : load'[m][e] = load[m][e]
    <3>1. e \in tracked' /\ \A m \in Node : ~(load[m][e] > 0)
      BY <2>1, <2>2 DEF Charged
    <3>2. \A m \in Node : load[m][e] \in Nat /\ load'[m][e] = 0
      BY <2>1 DEF TypeOK
    <3> QED
      BY <2>1, <3>1, <3>2 DEF Charged
  <2>3. SameReports
    BY <2>1 DEF Reported
  <2> QED
    BY <2>1, <2>2, <2>3, LoadFrame
<1>5. ASSUME NEW n \in Node, CGraphNew(n) \/ NodeCrash(n) \/ Reboot(n) PROVE LoadCoversAll'
  BY <1>5, <1>f DEF CGraphNew, NodeCrash, Reboot, omanagerVars, Reported
<1>6. ASSUME NEW n \in Node, NEW e \in Emul, EManagerStep(n, e) PROVE LoadCoversAll'
  <2>1. UNCHANGED <<tracked, live, load, toO>>
    BY <1>6 DEF EManagerStep, ExperimentNew, ExperimentReady, ExperimentReadyPanics,
                ExperimentStop, omanagerVars
  <2> QED
    BY <2>1, <1>f DEF Reported
<1>7. ASSUME NEW n \in Node, NEW e \in Emul, CoreStep(n, e) PROVE LoadCoversAll'
  <2>1. CASE AppCrash(n, e)
    BY <2>1, AppCrashLoad
  <2>2. CASE InitDone(n, e) \/ InitFails(n, e) \/ CoreFails(n, e)
    <3>1. UNCHANGED <<tracked, live, load>>
      BY <2>2 DEF InitDone, InitFails, CoreFails, omanagerVars
    <3>2. PICK k \in {"EmulationReady", "Abort"} : TellOManager(k, n, e, 0)
      BY <2>2 DEF InitDone, InitFails, CoreFails
    <3>3. SameReports
      BY <3>2, TellIs
    <3> QED
      BY <3>1, <3>3, <1>f
  <2>3. CASE Synchronized(n, e) \/ Aborted(n, e) \/ InitPanics(n, e)
    BY <2>3, <1>f DEF Synchronized, Aborted, InitPanics, omanagerVars, Reported
  <2> QED
    BY <1>7, <2>1, <2>2, <2>3 DEF CoreStep
<1>8. CASE UNCHANGED vars
  BY <1>8, <1>f DEF vars, Reported
<1> QED
  BY <1>1, <1>2, <1>3, <1>4, <1>5, <1>6, <1>7, <1>8 DEF Next, OManagerStep

\* DeploymentInvariant: the inductive invariant of a deployment.
THEOREM DeploymentInvariant == Spec => []IInv
<1>1. Init => IInv
  BY TypeInit, LifeInit, LoadInit DEF IInv, LifeInv
<1>2. IInv /\ [Next]_vars => IInv'
  <2> SUFFICES ASSUME IInv, [Next]_vars PROVE IInv'
    OBVIOUS
  <2>1. TypeOK /\ LifeInv /\ LoadCoversAll
    BY DEF IInv, LifeInv
  <2>2. TypeOK' /\ LifeInv' /\ LoadCoversAll'
    BY <2>1, TypeNext, LifeNext, LoadNext
  <2> QED
    BY <2>2 DEF IInv, LifeInv
<1> QED
  BY <1>1, <1>2, PTL DEF Spec

\* LoadCoversAppsHolds: the load of a host covers the applications that are alive on it
\* for every emulation that is tracked or charged to some host, in whatever
\* order CleanStops, aborts and changes of the cluster arrive: for any cluster.
THEOREM LoadCoversAppsHolds == Spec => []LoadCoversApps
<1>1. IInv => LoadCoversApps
  <2> SUFFICES ASSUME IInv, NEW e \in Emul, NEW n \in Node, Charged(e)
               PROVE  live[n][e] <= load[n][e]
    BY DEF LoadCoversApps
  <2> DEFINE c == Cardinality(CrashesUnheard(n, e))
  <2>1. e \in Emul /\ live[n][e] \in Nat /\ load[n][e] \in Nat
    BY DEF IInv, TypeOK
  <2>2. c \in Nat /\ load[n][e] >= live[n][e] + c
    BY <2>1, UnheardFinite DEF IInv, LoadCoversAll
  <2> HIDE DEF c
  <2> QED
    BY <2>1, <2>2
<1> QED
  BY <1>1, DeploymentInvariant, PTL

===============================================================================
