------------------------------ MODULE Deployment ------------------------------
(***************************************************************************)
(* Deployment of emulations: the OManager on the cluster leader             *)
(* (emulation/src/pubapi.rs), the books its Orchestrator keeps of who runs   *)
(* what (emulation/src/orchestrator.rs), and the EManager of every node      *)
(* (emulation/src/emanager.rs) with the EmulCores it creates.                *)
(*                                                                         *)
(* Every message between them travels on a TCP connection of its own, so    *)
(* messages in flight form a set and may be overtaken; only what the        *)
(* OManager hands to the EManager of its own node goes through one channel. *)
(* A handler of the OManager or of an EManager runs to its end before the   *)
(* next one, the tasks that create and run an EmulCore run concurrently.    *)
(***************************************************************************)
EXTENDS Integers

CONSTANTS
  Node,    \* the nodes of the cluster
  Leader,  \* the node of the OManager; it does not crash
  Emul,    \* the uuids of emulations
  MaxApps  \* bound on the applications of an emulation on one node

ASSUME LeaderAssumption == Leader \in Node
ASSUME AppsAssumption == MaxApps \in Nat \ {0}

VARIABLES
  up,        \* nodes that have not crashed
  hosts,     \* Orchestrator.host_mapping
  load,      \* Orchestrator.current_load; a host is in attributed_emul iff not 0
  tracked,   \* the keys of OManager.emulations_and_their_nodes
  nodes,     \* the nodes an emulation was placed on
  ready,     \* those of them that have reported EmulationReady
  toE,       \* messages in flight to EManagers
  toO,       \* messages in flight to the OManager
  core,      \* state of the EmulCore of an emulation on a node
  abort,     \* emulations whose abort channel holds a message
  live,      \* its applications that have not crashed
  omanager   \* "running" or "panicked"

vars == <<up, hosts, load, tracked, nodes, ready, toE, toO, core, abort, live, omanager>>
omanagerVars == <<hosts, load, tracked, nodes, ready, omanager>>

\* none:     no ExperimentNew yet
\* init:     the task of create_emulation is in init_emulation
\* panicked: a panic has ended that task
\* stored:   in emul_id_to_emulcore, waiting for ExperimentReady
\* syncing:  the task of start_emulation is in synchronize
\* running:  it is in flow_loop
\* ended:    dropped
\* lost:     gone with, or never sent to, a node that was down
CoreState == {"none", "init", "panicked", "stored", "syncing", "running", "ended", "lost"}

ToEManager ==
  [kind : {"ExperimentNew", "ExperimentReady", "ExperimentStop"}, to : Node, emul : Emul]
ToOManager ==
  [kind : {"EmulationReady", "Abort"}, from : Node, emul : Emul, app : {0}]
    \cup [kind : {"CleanStop"}, from : Node, emul : Emul, app : 1..MaxApps]

Messages(kind, N, e) == [kind : {kind}, to : N, emul : {e}]
Report(kind, n, e, app) == [kind |-> kind, from |-> n, emul |-> e, app |-> app]

-----------------------------------------------------------------------------
\* The OManager starts with the first CGraph: the leader alone.
Init ==
  /\ up = Node
  /\ hosts = {Leader}
  /\ load = [n \in Node |-> [e \in Emul |-> 0]]
  /\ tracked = {}
  /\ nodes = [e \in Emul |-> {}]
  /\ ready = [e \in Emul |-> {}]
  /\ toE = {}
  /\ toO = {}
  /\ core = [n \in Node |-> [e \in Emul |-> "none"]]
  /\ abort = [n \in Node |-> {}]
  /\ live = [n \in Node |-> [e \in Emul |-> 0]]
  /\ omanager = "running"

\* Mutant: the entry of an aborted emulation is not removed.
Abort_emulationsKeep(E, sent) ==
  /\ tracked' = tracked
  /\ toE' = toE \cup sent \cup
       UNION {Messages("ExperimentStop", nodes[e] \cap up, e) : e \in E \cap tracked}

\* abort_emulations: every emulation in E that is still tracked is stopped on
\* the nodes that can be reached, and forgotten.  The Orchestrator is not told.
Abort_emulations(E, sent) ==
  /\ tracked' = tracked \ E
  /\ toE' = toE \cup sent \cup
       UNION {Messages("ExperimentStop", nodes[e] \cap up, e) : e \in E \cap tracked}

\* new_emulation found a place for every application (A: how many per host), the
\* emulation is saved and ExperimentNew sent to its hosts, in no fixed order.
\* If a host cannot be reached, those that were (S) are told to stop, and the
\* emulation stays in the books.
NewTopology(e, A) ==
  LET N == {n \in Node : A[n] > 0}
  IN  /\ nodes[e] = {}
      /\ N # {} /\ N \subseteq hosts
      /\ nodes' = [nodes EXCEPT ![e] = N]
      /\ load' = [n \in Node |-> [load[n] EXCEPT ![e] = A[n]]]
      /\ live' = [n \in Node |-> [live[n] EXCEPT ![e] = A[n]]]
      /\ tracked' = tracked \cup {e}
      /\ \/ /\ N \subseteq up
            /\ toE' = toE \cup Messages("ExperimentNew", N, e)
            /\ UNCHANGED core
         \/ /\ ~(N \subseteq up)
            /\ \E S \in SUBSET (N \cap up) :
                 toE' = toE \cup Messages("ExperimentNew", S, e)
                            \cup Messages("ExperimentStop", S, e)
            /\ core' = [n \in Node |->
                 IF n \in N \ up THEN [core[n] EXCEPT ![e] = "lost"] ELSE core[n]]
      /\ UNCHANGED <<up, hosts, ready, toO, abort, omanager>>

\* The process of a node is gone: its cores, and the messages sent to it.
Reset(n) ==
  /\ core' = [core EXCEPT ![n] =
       [e \in Emul |-> IF n \in nodes[e] THEN "lost" ELSE "none"]]
  /\ abort' = [abort EXCEPT ![n] = {}]
  /\ toE' = {m \in toE : m.to # n}

Receive(kind, n, e, app) ==
  /\ Report(kind, n, e, app) \in toO
  /\ toO' = toO \ {Report(kind, n, e, app)}

\* Mutant: one ready node is enough.
AnyReady(e) == ready'[e] # {}

AllReady(e) == nodes[e] \subseteq ready'[e]

\* A report for an emulation that was aborted meanwhile panics (unwrap).  When
\* the last node is ready all of them are told; the first that cannot be
\* reached has the emulation aborted, after some were told (S).
EmulationReady(n, e) ==
  /\ Receive("EmulationReady", n, e, 0)
  /\ \/ /\ e \notin tracked
        /\ omanager' = "panicked"
        /\ UNCHANGED <<ready, tracked, toE>>
     \/ /\ e \in tracked
        /\ ready' = [ready EXCEPT ![e] = @ \cup {n}]
        /\ \/ /\ ~AllReady(e)
              /\ UNCHANGED <<tracked, toE>>
           \/ /\ AllReady(e)
              /\ nodes[e] \subseteq up
              /\ toE' = toE \cup Messages("ExperimentReady", nodes[e], e)
              /\ UNCHANGED tracked
           \/ /\ AllReady(e)
              /\ ~(nodes[e] \subseteq up)
              /\ \E S \in SUBSET (nodes[e] \cap up) :
                   Abort_emulations({e}, Messages("ExperimentReady", S, e))
        /\ UNCHANGED omanager
  /\ UNCHANGED <<up, hosts, load, nodes, core, abort, live>>

Abort(n, e) ==
  /\ Receive("Abort", n, e, 0)
  /\ Abort_emulations({e}, {})
  /\ UNCHANGED <<up, hosts, load, nodes, ready, core, abort, live, omanager>>

\* Mutant: the load is decreased without looking the emulation up.
CleanStopUnchecked(n, e, app) ==
  /\ Receive("CleanStop", n, e, app)
  /\ load' = [load EXCEPT ![n][e] = @ - 1]
  /\ UNCHANGED <<up, hosts, tracked, nodes, ready, toE, core, abort, live, omanager>>

\* stop_app_emulation_on, which does nothing for a load that is gone already.
CleanStop(n, e, app) ==
  /\ Receive("CleanStop", n, e, app)
  /\ load' = [load EXCEPT ![n][e] = IF @ > 0 THEN @ - 1 ELSE @]
  /\ UNCHANGED <<up, hosts, tracked, nodes, ready, toE, core, abort, live, omanager>>

\* update_with_cgraph for a graph with a new node.  A node joins when its runner
\* starts: one that was a member before has lost its cores and its messages.
CGraphNew(n) ==
  /\ n \in Node \ (hosts \cup {Leader})
  /\ hosts' = hosts \cup {n}
  /\ up' = up \cup {n}
  /\ Reset(n)
  /\ UNCHANGED <<load, tracked, nodes, ready, toO, live, omanager>>

\* Mutant: the emulations of the other hosts are stopped but not reported.
CGraphRemoveNarrow(n) ==
  /\ n \in hosts
  /\ hosts' = hosts \ {n}
  /\ Abort_emulations({e \in Emul : load[n][e] > 0}, {})
  /\ load' = [m \in Node |-> [e \in Emul |-> 0]]
  /\ UNCHANGED <<up, nodes, ready, toO, core, abort, live, omanager>>

\* remove_cluster_node stops all the emulations that are attributed to any host.
CGraphRemove(n) ==
  /\ n \in hosts
  /\ hosts' = hosts \ {n}
  /\ Abort_emulations({e \in Emul : \E m \in Node : load[m][e] > 0}, {})
  /\ load' = [m \in Node |-> [e \in Emul |-> 0]]
  /\ UNCHANGED <<up, nodes, ready, toO, core, abort, live, omanager>>

-----------------------------------------------------------------------------
\* Messages to one node are handled in any order, but the OManager's own node
\* gets them through one channel, in the order they were sent.
SentBefore(kind) ==
  CASE kind = "ExperimentNew" -> {}
    [] kind = "ExperimentReady" -> {"ExperimentNew"}
    [] kind = "ExperimentStop" -> {"ExperimentNew", "ExperimentReady"}

Handle(kind, n, e) ==
  LET m == [kind |-> kind, to |-> n, emul |-> e]
  IN  /\ m \in toE
      /\ n = Leader => \A k \in SentBefore(kind) : [m EXCEPT !.kind = k] \notin toE
      /\ toE' = toE \ {m}

SetCore(n, e, s) == core' = [core EXCEPT ![n][e] = s]
TellOManager(kind, n, e, app) == toO' = toO \cup {Report(kind, n, e, app)}

\* Mutant: the OManager is told before the core is initialised.
ExperimentNewEager(n, e) ==
  /\ Handle("ExperimentNew", n, e)
  /\ SetCore(n, e, "init")
  /\ TellOManager("EmulationReady", n, e, 0)
  /\ UNCHANGED <<up, abort, live>>
  /\ UNCHANGED omanagerVars

\* create_emulation spawns the task that initialises a new EmulCore.
ExperimentNew(n, e) ==
  /\ Handle("ExperimentNew", n, e)
  /\ SetCore(n, e, "init")
  /\ UNCHANGED <<up, toO, abort, live>>
  /\ UNCHANGED omanagerVars

\* An EmulCore listens on SYNC_PORT from the end of init_emulation to the end of
\* synchronize.  Alone on its host, synchronize returns early and the port
\* stays bound as long as the core lives.
HoldsSyncPort(n, f) ==
  \/ core[n][f] \in {"stored", "syncing"}
  \/ core[n][f] = "running" /\ nodes[f] = {n}

\* init_emulation succeeds only if SYNC_PORT is free.  The core is stored, then
\* the OManager is told.
InitDone(n, e) ==
  /\ core[n][e] = "init"
  /\ \A f \in Emul \ {e} : ~HoldsSyncPort(n, f)
  /\ SetCore(n, e, "stored")
  /\ TellOManager("EmulationReady", n, e, 0)
  /\ UNCHANGED <<up, toE, abort, live>>
  /\ UNCHANGED omanagerVars

\* Mutant: a failed initialisation is only logged.
InitFailsSilently(n, e) ==
  /\ core[n][e] = "init"
  /\ SetCore(n, e, "ended")
  /\ UNCHANGED <<up, toE, toO, abort, live>>
  /\ UNCHANGED omanagerVars

\* A reporter is not ready in 5 s, a socket cannot be bound...: the core is
\* dropped and the OManager told.
InitFails(n, e) ==
  /\ core[n][e] = "init"
  /\ SetCore(n, e, "ended")
  /\ TellOManager("Abort", n, e, 0)
  /\ UNCHANGED <<up, toE, abort, live>>
  /\ UNCHANGED omanagerVars

\* The task that runs init_emulation panics: a bare metal application, which the
\* parser accepts, or one without an address.  The core is dropped as in
\* InitFails, but only an Err is reported.
InitPanics(n, e) ==
  /\ core[n][e] = "init"
  /\ SetCore(n, e, "panicked")
  /\ UNCHANGED <<up, toE, toO, abort, live>>
  /\ UNCHANGED omanagerVars

\* Has the EManager been told of the OManager by an ExperimentNew?
KnowsOManager(n) == \E f \in Emul : core[n][f] \notin {"none", "lost"}

\* start_emulation takes the core out of the map.  If the node was rebooted the
\* core is not there: start_emulation's task panics, or, when the EManager
\* does not know the OManager yet, the whole process of the node.
ExperimentReady(n, e) ==
  /\ Handle("ExperimentReady", n, e)
  /\ \/ /\ core[n][e] = "stored"
        /\ SetCore(n, e, "syncing")
        /\ UNCHANGED <<up, abort>>
     \/ /\ core[n][e] # "stored"
        /\ KnowsOManager(n)
        /\ UNCHANGED <<up, core, abort>>
  /\ UNCHANGED <<toO, live>>
  /\ UNCHANGED omanagerVars

ExperimentReadyPanics(n, e) ==
  /\ [kind |-> "ExperimentReady", to |-> n, emul |-> e] \in toE
  /\ core[n][e] # "stored"
  /\ ~KnowsOManager(n)
  /\ up' = up \ {n}
  /\ Reset(n)
  /\ UNCHANGED <<toO, live>>
  /\ UNCHANGED omanagerVars

Started(n, e) == core[n][e] \in {"syncing", "running"}

\* The abort channel is there only once ExperimentReady was handled.  If the
\* core's task has ended, or has not begun, nothing happens.
ExperimentStop(n, e) ==
  /\ Handle("ExperimentStop", n, e)
  /\ abort' = [abort EXCEPT ![n] = IF Started(n, e) THEN @ \cup {e} ELSE @]
  /\ UNCHANGED <<up, toO, core, live>>
  /\ UNCHANGED omanagerVars

\* synchronize ends well: the token has passed the cores of all the hosts.
Synchronized(n, e) ==
  /\ core[n][e] = "syncing"
  /\ \A m \in nodes[e] : core[m][e] # "stored"
  /\ SetCore(n, e, "running")
  /\ UNCHANGED <<up, toE, toO, abort, live>>
  /\ UNCHANGED omanagerVars

\* synchronize or flow_loop returns an error: the OManager is told.
CoreFails(n, e) ==
  /\ Started(n, e)
  /\ SetCore(n, e, "ended")
  /\ TellOManager("Abort", n, e, 0)
  /\ UNCHANGED <<up, toE, abort, live>>
  /\ UNCHANGED omanagerVars

\* The abort wins the select; nobody is told.
Aborted(n, e) ==
  /\ e \in abort[n]
  /\ Started(n, e)
  /\ SetCore(n, e, "ended")
  /\ UNCHANGED <<up, toE, toO, abort, live>>
  /\ UNCHANGED omanagerVars

\* The event Crash of an application; flow_loop ends with the last one.
AppCrash(n, e) ==
  /\ core[n][e] = "running"
  /\ live[n][e] > 0
  /\ live' = [live EXCEPT ![n][e] = @ - 1]
  /\ TellOManager("CleanStop", n, e, live[n][e])
  /\ SetCore(n, e, IF live[n][e] = 1 THEN "ended" ELSE "running")
  /\ UNCHANGED <<up, toE, abort>>
  /\ UNCHANGED omanagerVars

\* A node crashes with its EManager and EmulCores; messages to it are lost.
NodeCrash(n) ==
  /\ n \in up \ {Leader}
  /\ up' = up \ {n}
  /\ Reset(n)
  /\ UNCHANGED <<toO, live>>
  /\ UNCHANGED omanagerVars

\* A crashed node is started again before its heartbeats were missed: it joins
\* anew, but for the Orchestrator, which knows it already, nothing changes.
Reboot(n) ==
  /\ n \in hosts \ up
  /\ up' = up \cup {n}
  /\ UNCHANGED <<toE, toO, core, abort, live>>
  /\ UNCHANGED omanagerVars

-----------------------------------------------------------------------------
Apps == [Node -> 0..MaxApps]

OManagerStep ==
  \/ \E e \in Emul, A \in Apps : NewTopology(e, A)
  \/ \E n \in Node, e \in Emul :
       \/ EmulationReady(n, e)
       \/ Abort(n, e)
       \/ \E app \in 1..MaxApps : CleanStop(n, e, app)
  \/ \E n \in Node : CGraphNew(n) \/ CGraphRemove(n)

EManagerStep(n, e) ==
  \/ ExperimentNew(n, e)
  \/ ExperimentReady(n, e)
  \/ ExperimentReadyPanics(n, e)
  \/ ExperimentStop(n, e)

CoreStep(n, e) ==
  \/ InitDone(n, e)
  \/ InitFails(n, e)
  \/ InitPanics(n, e)
  \/ Synchronized(n, e)
  \/ CoreFails(n, e)
  \/ Aborted(n, e)
  \/ AppCrash(n, e)

\* What follows a panic of the OManager is not modelled.
Next ==
  /\ omanager = "running"
  /\ \/ OManagerStep
     \/ \E n \in Node, e \in Emul : EManagerStep(n, e) \/ CoreStep(n, e)
     \/ \E n \in Node : NodeCrash(n) \/ Reboot(n)

Spec == Init /\ [][Next]_vars

\* Tasks and handlers that can run are run, connections deliver and
\* init_emulation ends, by its timeouts or a panic.  Once its core is started,
\* synchronize ends unless a host of the emulation is lost (StartSync).  A
\* crashed node is removed from the CGraph as long as the leader is in it
\* (ClusterManager's DeadNodeRemoved).
Running(A) == omanager = "running" /\ A
Complete(e) == \A n \in nodes[e] : core[n][e] # "lost"
Fairness ==
  /\ \A n \in Node, e \in Emul :
       /\ WF_vars(Running(EmulationReady(n, e)))
       /\ WF_vars(Running(Abort(n, e)))
       /\ WF_vars(Running(ExperimentNew(n, e)))
       /\ WF_vars(Running(ExperimentReady(n, e) \/ ExperimentReadyPanics(n, e)))
       /\ WF_vars(Running(ExperimentStop(n, e)))
       /\ WF_vars(Running(InitDone(n, e) \/ InitFails(n, e) \/ InitPanics(n, e)))
       /\ WF_vars(Running(Complete(e) /\ (Synchronized(n, e) \/ CoreFails(n, e))))
       /\ WF_vars(Running(Aborted(n, e)))
  /\ \A n \in Node : WF_vars(Running(Leader \in hosts /\ n \notin up /\ CGraphRemove(n)))

FairSpec == Spec /\ Fairness

-----------------------------------------------------------------------------
\* TypeOK: the tables of the OManager, the Orchestrator and the EManagers are
\* well-typed; in particular no load ever drops below zero.
TypeOK ==
  /\ up \subseteq Node /\ hosts \subseteq Node
  /\ load \in [Node -> [Emul -> Nat]]
  /\ tracked \subseteq Emul
  /\ nodes \in [Emul -> SUBSET Node]
  /\ ready \in [Emul -> SUBSET Node]
  /\ toE \subseteq ToEManager
  /\ toO \subseteq ToOManager
  /\ core \in [Node -> [Emul -> CoreState]]
  /\ abort \in [Node -> SUBSET Emul]
  /\ live \in [Node -> [Emul -> 0..MaxApps]]
  /\ omanager \in {"running", "panicked"}

\* StartFindsCore: whenever ExperimentReady reaches an EManager its core is stored,
\* so that the unwrap in start_emulation's task does not panic, although
\* messages overtake each other.  The only exception is a node that was
\* rebooted unnoticed.
StartFindsCore ==
  \A m \in toE : m.kind = "ExperimentReady" => core[m.to][m.emul] \in {"stored", "lost"}

\* StartsTogether: no core enters synchronize while another core of the same
\* emulation is still being created, so the SYNC_PORT of the next host in the
\* ring is there to connect to (unless that host is lost).
StartsTogether ==
  \A e \in Emul : \A n, m \in nodes[e] :
    Started(n, e) => core[m][e] \notin {"none", "init"}

\* The OManager has given an emulation up, or has told some node to stop it.
ToldToStop(e) ==
  \/ nodes[e] # {} /\ e \notin tracked
  \/ \E m \in toE : m.kind = "ExperimentStop" /\ m.emul = e
  \/ \E n \in Node : e \in abort[n]

\* AbortsAreFinal: once some node was told to stop an emulation no node is told to
\* start it: neither a late EmulationReady nor one of an emulation that could
\* be sent to some of its hosts only completes the set of the ready ones.  (A
\* start sent before the stop may still be handled after it: AbortedCoresEnd.)
AbortsAreFinal ==
  [][\A e \in Emul : ToldToStop(e) =>
       \A m \in toE' \ toE : m.emul = e => m.kind # "ExperimentReady"]_vars

\* The OManager tracks an emulation, or the Orchestrator charges some host for it.
Charged(e) == e \in tracked \/ \E m \in Node : load[m][e] > 0

\* LoadCoversApps: in whatever order CleanStops, aborts and changes of the cluster
\* arrive, the hosts of such an emulation are charged for every application
\* that is still alive there.  (Cores that run on although their emulation was
\* aborted are not charged once the loss of a host has zeroed all the loads.)
LoadCoversApps ==
  \A e \in Emul, n \in Node : Charged(e) => live[n][e] <= load[n][e]

\* A deployed emulation gets going on all of its nodes (or has come to its end
\* there already), or the OManager aborts it; unless the OManager has panicked,
\* the leader was lost or a node was rebooted so fast that nobody noticed.
GetsOn(e) ==
  \/ omanager = "panicked"
  \/ Leader \notin hosts
  \/ e \notin tracked
  \/ \A n \in nodes[e] : core[n][e] \in {"running", "ended"}
  \/ \A n \in nodes[e] : load[n][e] = 0
  \/ \E n \in nodes[e] \cap up : core[n][e] = "lost"

\* Settles: a deployed emulation does not hang, whatever error or crash comes in
\* between, unless a task that initialises a core of it panics: "An error
\* occurred, we need to notify the leader" (emanager.rs 193), but a panic, as in
\* launch_reporter_for_app (emulcore.rs 566), is no Err and nobody is notified.
Settles ==
  \A e \in Emul :
    e \in tracked ~> (GetsOn(e) \/ \E n \in nodes[e] : core[n][e] = "panicked")

\* OManagerSurvives: "If it does not contain the emulation, it means that it has
\* already been aborted, so, do nothing for it" (pubapi.rs 84-85): a late
\* message about an aborted emulation does no harm.  EmulationReady unwraps.
OManagerSurvives == omanager = "running"

\* AbortedCoresEnd: the cores of an aborted emulation are dropped ("We receive an abort,
\* we need to stop this emulation", pubapi.rs 157).
AbortedCoresEnd ==
  \A e \in Emul, n \in Node :
    (n \in nodes[e] /\ e \notin tracked) ~>
      (core[n][e] \in {"none", "panicked", "ended", "lost"} \/ omanager = "panicked")
=============================================================================
