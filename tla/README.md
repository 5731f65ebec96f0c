# A verification project for Kollaps

Kollaps emulates a network topology on a cluster: the applications of an
emulation are placed on the nodes of the cluster, and every node shapes the
traffic of its applications so that they see the links of the topology. This
directory holds TLA+ models of the distributed core of Kollaps, the TLC
configurations that check them on small instances, and TLAPS proofs of their
main properties for all instances. `PROJECT.json` maps each definition to the
lines it models and lists components, runs, mutants, hazards and theorems.

To check: `tlc -config ClusterManager_safety.cfg MCClusterManager` (the same for
the other runs), `tlapm ClusterManagerProofs.tla` (the same for `StartSyncProofs`,
`DeploymentProofs`, `FiniteRecursion`, `FlowSyncProofs`, `SymMatrixProofs`, `ClusterGraphProofs`
and `OrchestratorProofs`, which takes seven minutes).

## 1. Inventory

| Component | State | Operations | Talks to |
|---|---|---|---|
| **Cluster manager** `cmanager/controller.rs` | the cluster graph, `adding_new_node`, `heartbeat_misses`, the cluster id | join (CJQRequest, CJQResponse, CJQRetry, CJQAbort, CGraphGet, CGraphUpdate), heartbeats (CHeartbeatCheck, CHeartbeat, CHeartbeatReset, NodeFailure) | other nodes by UDP broadcast and TCP; its OManager by a channel of ten entries |
| **Performance tests** `cmanager/perf.rs` | a running iperf3 server | launch server, run client | iperf3 |
| **Cluster graph, matrix** `cgraph`, `matrix` | nodes and the measured speed of each pair | add and remove a node, decide which pairs to measure, complete speeds | cluster manager, orchestrator |
| **OManager** `emulation/pubapi.rs` (leader only) | `emulations_and_their_nodes`: which nodes of an emulation are ready | NewTopology, EmulationReady, Abort, CleanStop, changes of the graph | client, EManagers by TCP, its own EManager by a channel |
| **Orchestrator** `emulation/orchestrator.rs` | residual bandwidth, load per host, attributed emulations | place an emulation, stop it or one of its applications, add or remove a host | called by the OManager |
| **EManager** `emulation/emanager.rs` | initialised cores, abort channels, channels of running cores | ExperimentNew, ExperimentReady, ExperimentStop, EmulCoreInterchange | OManager, EmulCores |
| **EmulCore** `emulation/emulcore.rs` | applications and their status, active flows, bandwidth graph | init, `synchronize`, `flow_loop` (FlowUpdate, Join, Quit, Crash) | reporters by unix sockets, other EmulCores through the EManagers, OManager |
| **Bandwidth sharing** `emulation/bwsync.rs` | - | distribute links between flows | flow loop |
| **Network graph** `netgraph` | topology | shortest and widest path, properties of a path | orchestrator, flow loop |
| **Reporter** `reporter` | flows seen, traffic control settings | report flows, apply TCUpdate | EmulCore, kernel |
| **Transport** `nethelper` | sockets | send, broadcast, listen | all |
| monitor (eBPF), dockhelper, XML parser, client, runner, common | - | - | - |

What is hard in it:

* *concurrency*: each node runs one event loop per manager and spawned tasks for
  heartbeats, initialisation and emulations. A message has a TCP connection of
  its own, read by a task of its own, so messages overtake each other;
* *failure*: nodes crash, reboot into the same cluster, or seem to be gone;
  datagrams are lost and duplicated; a broadcast over TCP stops half way;
* *time*: retries after timeouts, a begin time that must not pass before everyone
  has confirmed it, clocks that differ.

What makes each component correct:

* cluster manager: one join at a time; a join never drops a member; a node leaves
  only after the configured number of misses, and a dead one does leave; the
  orchestrator's hosts follow the graph; no `unwrap` on the way fails;
* synchronization: cores that begin, begin at the same time; nobody waits for ever once a failure is known;
* deployment: cores start only when all of them are initialised; an abort is
  final; load is charged as long as something runs; every emulation gets going or
  is aborted;
* cluster graph: it never promises more than the network carries, and a speed that
  was not tested is known all the same; its rows follow its nodes; a pair is tested
  once;
* network graph: both searches find the best path;
* orchestrator: what is found fits, and no topology is rejected that could be placed (the
  search may panic instead, in cases that are known); loads are the
  applications that run; bandwidth left and bandwidth used make up the network;
* flows: all cores know the same flows, shares fit the links and are fair, a
  reporter lets through what its core decided.

## 2. Modules

    ClusterManager  <-- ClusterManagerProofs, MCClusterManager
    CommonStart (abstract)
        ^ implements
    StartSync       <-- StartSyncProofs, MCStartSync
    Deployment      <-- DeploymentProofs, MCDeployment

    SymMatrix <-- NetGraph, CGraph, Orchestrator
    CGraph, NetGraph (instance) <-- ClusterGraph <-- MCClusterGraph
    NetGraph (instance)         <-- Orchestrator <-- MCOrchestrator
    NetGraph <-- BwSync         <-- FlowSync     <-- MCFlowSync

    FiniteRecursion <-- SymMatrixProofs <-- ClusterGraphProofs (with ClusterGraph)
                                        <-- OrchestratorProofs (with Orchestrator)
    FiniteRecursion                     <-- FlowSyncProofs     (with FlowSync)

ClusterManager shows that joins exclude each other, which ClusterGraph builds on, and
that the hosts follow the graph, which Orchestrator builds on; Deployment and StartSync
lead up to the common start from which FlowSync begins.

### ClusterManager

The leader's `Ctrl` (graph, `adding_new_node`, `heartbeat_misses`), the heartbeat
task (`check`, `remaining`, `received_info`), the `Ctrl` of every other node
(`phase`, `retries`, the `graph` it has copied), UDP and TCP messages in flight, and
the OManager's end of the channel. `panicked` holds the tasks a panic has ended: the event
loop, the OManager, or the heartbeat task, which panics when it starts a check of an empty
graph and then never queues the next one. There is one action per event of the loop in
`start`, named after the event; `JoinSucceeds` and `JoinFails` are the two ends of
`add_myself_in_cluster`, `CJQTimeout` the timeout of
`send_cluster_joining_request`; the task of `perform_heartbeat_check` is
`CHeartbeatCheck`, `CHeartbeat` (an answer that arrives in time),
`CollectHeartbeats` and then `NodeFailure` or `CHeartbeatReset` for each event it hands
to the loop. `OManagerUpdate` is the receiving end with the orchestrator's host list.
A graph is the set of its nodes. Datagrams may be lost, reordered and duplicated;
an answer goes to a socket, and is lost when that was closed. Nodes other than the
leader crash and start again.

### StartSync and CommonStart

`EmulCore::synchronize`: a ring of N cores ordered by address. `begin_time` is the
local variable of each core, `time` the leader's, `token` the one message in flight
(`EmulStart` or `EmulStartOk`), `validated` when the leader sent `EmulStartOk`. Time is an
integer in seconds. An `Instant` is sent by `serde_millis` as a wall clock time: the
model keeps begin times in that form and gives each host a skew. `Abort` is the
second branch of the `select!` in `start_emulation`: the OManager has learnt of a
failure (`failed`: an error of `synchronize`, or a host that was removed from the cluster) and
has every core dropped. A host that joins again before its missed heartbeats add up is
`rebooted` (`Reboot`): nobody is told, and only a core that sends to it notices (`SendFails`). `CommonStart` says what this is for: one begin
time is decided once, cores commit to it or fail. The mapping takes as decision
the leader's begin time once `EmulStartOk` is sent, and as commitment the begin time of
a core that sleeps or has started.

### Deployment

The OManager's table (`tracked`, `nodes`, `ready`), the orchestrator's `hosts` and
`load`, and for every node and emulation the state of its core: in
`create_emulation`'s task (`init`), in `emul_id_to_emulcore` (`stored`), in
`start_emulation`'s task (`syncing`, `running`) or gone. `abort` holds the message in a
core's abort channel. A handler of the OManager is one action with all the
messages it sends: they are delivered later and in any order, so the steps of the
receivers between two sends are covered; where a send can fail half way the action
chooses which hosts were reached. Only the OManager's own node gets its messages
through one channel, hence in order (`SentBefore`). `attributed_emul` and the keys of
`Orchestrator.emulations` are the hosts and emulations with a load, and are not kept
a second time. A node may reboot before its misses add up (`Reboot`): it is a
member throughout for the OManager, but its cores are `lost`; a start message for
such a core panics the node (`ExperimentReadyPanics`) since `cluster_omanager` is not set.
The task that initialises a core may also panic (`InitPanics`: a bare metal application, or
a service without an address), and then tells nobody. What follows a panic of the OManager
itself is not modelled, and its panics in the search of a placement are left to Orchestrator.
A topology that is
rejected before anything is sent changes nothing and is not a step; which
placement is found is a free choice here. `update_with_cgraph` can also drop
hosts, but never does: the graphs it gets only grow (`JoinKeepsMembers`).

### SymMatrix, NetGraph, CGraph

Algorithms as operators, named after the functions of the code. `SymMatrix` keeps the
triangle as a vector and its index arithmetic in both directions. `NetGraph` has the two
searches step by step (`VisitShortest`, `VisitWidest`, with the one min-queue of the code)
and what is asked of paths; of a link only the bandwidth is kept. `CGraph` adds and
removes nodes, records tests with all transitions (`update_speeds`) and decides what to
test (`find_missing_from_me`, with its shortcuts). None of them declares a RECURSIVE
operator: loops are recursive functions or folds, and the body of a loop is an
operator of its own (`VisitWidest`, `Transition`, `Examine`). A recursive function has
as its domain the records of what the loop keeps (`Searches`, `Matrices`).

### ClusterGraph

A network is wired link by link, then the leader creates the cluster and hosts join
one at a time: `JoinStart` downloads the graph, `FindMissing` is the head of
`complete_graph`'s loop for any order of the node set, `TestDone` and `TestFails` are
outcomes of iperf3; meanwhile `NodeFailure` removes nodes from the leader's graph, the leader
itself and the last one included. `created` tells the graph of a cluster that lost all its nodes
from the one before there is a cluster. iperf3
is taken to measure what the widest path carries. A host's `local_speed` is never above its
fastest link but may be below it.

### Orchestrator

The books (`residual_graph`, `host_mapping`, `attributed_emul`, `current_load`, `emulations`)
and every method on them. `NewEmulation` runs the search as it is: combinations in the
order of `next_comb`, clones of hosts, `tested_comb`, and the permutations of Heap's
algorithm; applications come in any order, as they come from a HashMap. Numbers wrap
as in a release build. The cluster's graph is the environment: a joiner's copy may
bring a lost host back, and the leader's own host can be lost like any other. Without a
host the search panics (`find_iso_internal`). `panicked` tells why the OManager's task died. The loops are
one operator each: `Required` sums what pairs of applications ask for, `StopAll` stops the
emulations when a host is lost, `RemoveGone` and `AddNew` are the two halves of
`update_with_cgraph`. The search's loops are the functions `Permute`, `Loop` and `Deepen` over
records of what each loop keeps; `Exchanged` and `Carried` are the branches of Heap's
algorithm, `Tried` says whether a combination is worth trying.

### BwSync and FlowSync

`BwSync` shares links between flows: `distribute_bandwidth_across_flow` for one link,
`merge` over the links of a path, `update_flows` and `remove_flow` on a core's table; the
branches of one iteration are `Satisfied`, `Allow` and `Throttle`. f64
partitions are exact fractions, rounded down where the code converts to u32. The
paths of the instance are constants, and the assumption `Routes` has TLC compare them
with the ones NetGraph finds. `FlowSync` runs the loops of all cores: `Report` is a
FlowUpdate from a local reporter (any sequence of measurements and ends), `Receive`
one from another core through the EManager, `Join` and `QuitOrCrash` the scheduled
events. Each includes the TCUpdates at the end of the iteration (`UpdateRates`), with the
reporter's handler that panics when it gets a bandwidth for a path it does not
have. An iteration can break off in its broadcasts, of which any part was sent then, or in the
disconnection, the end of the container or the CleanStop that follow (`ReportFails`,
`QuitOrCrashFails`); `Fail` is the abort of a core, or a message it cannot send to a reporter,
which the environment may bring about at any time. All of these drop the loop and its receiver;
`Drop` removes the core's entry later, and `ReceiveLate` is what the EManager does with updates
for a core that is gone. Five history variables record which updates were overtaken,
which flows were put back, who sent data or ended before it started, how many updates
were broadcast and which path was shared last; no action reads them but to number
the messages.

## 3. Runs

| Run | Instance | States | Shows |
|---|---|---|---|
| `cluster_safety` | leader and 2 nodes, limit of 2 misses, 1 retry, channel of 2, duplicates, 1 crash | 1.9 M | joins exclude each other, no member lost, no panic, hosts follow, nodes leave only when lost |
| `cluster_liveness` | the same without duplicates, fair | 0.21 M | a dead member is removed |
| `cluster_wedge` | violation | - | the leader can stay in 'adding a node' for ever |
| `start_sync` | 3 hosts, delays 0..1 s, skew 0..1 s, crashes and reboots, fair | 0.15 M | agreement, the margin suffices, CommonStart is implemented, all start or all give up unless a reboot went unnoticed |
| `deployment_safety` | 2 nodes, 2 emulations, 1 application each | 2.9 M | starts, aborts and load |
| `deployment_liveness` | 3 nodes, 1 emulation, fair | 0.31 M | an emulation gets going or is aborted, unless the initialisation of a core panics |
| `deployment_late_ready` | violation | - | a late EmulationReady panics the OManager |
| `deployment_leak` | violation | - | an initialised core of an aborted emulation is never dropped |
| `cluster_graph` | 3 hosts and a switch, links of speed 1 and 2, 1 retry, losses down to no node | 0.35 M | no speed is overestimated, skipped tests were superfluous, rows follow nodes, paths are the best of all simple paths |
| `orchestrator` | 2 hosts of 3, 2 emulations of 2 or 3 applications, load 2, 2 changes of the cluster | 50 k | the search is sound and complete, without a host it panics, loads, attributions and bandwidth are right |
| `orchestrator_default` | violation | - | bandwidth is given back twice |
| `flows` | 2 cores, 3 applications, 3 flows around a switch, 3 reports | 1.27 M | shares fit and are fair, cores agree, reporters follow, no handler panics after an orderly start |

Bounds. Two joiners are needed for joins to collide, and a reboot by one of them
while the other joins is reached with one crash; a limit of two misses
distinguishes a first from a last miss; a channel of two fills up. In `start_sync` a
slow round takes 3 s, no less than the first proposal, so new proposals,
late validations and the failures they cause all occur; rounds are bounded by the
delay bound, which also bounds the number of proposals. In `deployment_safety` two
emulations share nodes, so SYNC_PORT conflicts and removals that stop the other
emulation occur; emulations on three nodes occur in `deployment_liveness`. `crashes` of
ClusterManager is the only counter bounded in a guard (`MaxCrashes`); the number of
applications per host is bounded by `MaxApps`. In `cluster_graph` three hosts are the
fewest for a deduction over a third node, the switch gives networks that are no
complete graph, all of which are wired; one host asks for little speed and hosts may
be configured slower than their links. In `orchestrator` the topologies need clones,
fit tightly, or cannot be placed; two changes
(`MaxChanges`) empty a cluster of two hosts, or add a third one and lose any of the three,
with a join overlapping the loss. Three rounds of the search (`MaxDepth`, 5 in the code) already
find every placement there is, so that more rounds cannot find less. `flows`
has two flows on every link and a link wider than the others, throughputs below and
above every share, and an end of an application in each way; `MaxReports` of 3 is
enough for an update, its end and a third flow to be in flight together. Symmetry
is used in `cluster_safety` over the two joiners and in `orchestrator` over the
emulations, where no liveness is checked. CHECK_DEADLOCK is off where a system may
come to rest: in all runs but `cluster_graph`, in which hosts can always join again.

Fairness. Event loops serve their queue in order, tokio runs every task that can
run, timers fire: weak fairness of the handlers and tasks. In ClusterManager nothing
is assumed of datagrams, crashes or starts. The heartbeat task is
fair as long as it lives, so `DeadNodeRemoved` excepts runs in which it panicked. StartSync
assumes that a message arrives within `MaxDelay` and that the OManager's host survives to pass on
a failure it has learnt of; nothing makes it learn of a reboot. Deployment assumes that TCP
delivers to live nodes, that the initialisation of a core ends, well, with an error or in a
panic, that synchronization ends as long as no core of the emulation was lost (`EndsTogether`) and
that a node that is down is removed as long as the leader is in its own graph
(`DeadNodeRemoved`).

Every property of a passing run has a mutant, an operator that changes one modelled
definition the way a plausible slip in the code would; under it TLC refutes the
property.

Two properties have a condition that their proofs brought to light. `RatesFollow` needs
links that are wide enough for one unit of each flow (`WideLinks`): a flow whose share is
rounded down to 0 counts as gone, so Quit and Crash of another application drop it for
good and leave its reporter at 0. `BooksBalance` needs topologies whose total bandwidth is
a u32 (`SumsFit`): the sum in `verify_permutation` wraps in a release build, and a placement
that asks for too much then passes. Both hold in the instances, so TLC checks the
properties in full there.

### What the code does otherwise than it says

* **A join can wedge the cluster** (`AddingEnds`). `adding_new_node` is only cleared by
  the joiner. If the UDP acceptance is lost, or the joiner crashes after it, every
  later request is told to wait.
* **A late EmulationReady panics the OManager** (`OManagerSurvives`): one node fails to
  initialise, the emulation is aborted, the other node reports ready, `unwrap` on the
  missing entry.
* **ExperimentStop before ExperimentReady is ignored** (`AbortedCoresEnd`): the core stays
  in `emul_id_to_emulcore` with its reporters, containers and SYNC_PORT, and since the
  port is held every later emulation on that host fails to initialise.
* **Bandwidth is given back twice** (`LikeDefault`), against the comment that it is 'like in
  default' once all emulations are stopped: an application that ends gives back what
  it shares with each other one, and the other one, or the end of the emulation,
  gives it back again. `NothingLost` shows that the error goes in this direction only.

Also met while modelling, and visible in the models:

* Cluster: the leader counts itself among the nodes that may miss heartbeats, in spite of
  the comment 'Do not count myself' (controller.rs 343). It can remove itself while others stay
  in the graph; its applications are then placed elsewhere. Alone, it leaves an empty graph: the
  next check creates a channel of no places (controller.rs 316), which panics, and nodes that
  join later are never checked (the exception in `DeadNodeRemoved`).
* Synchronization: a node that reboots and joins again before its misses add up is reported
  to nobody (controller.rs 215), although emulcore.rs 422 says that a crashed connection will be. A
  core waits for the token without a timeout, so that the others may wait for ever (the
  exception in `EndsTogether`), and the node's emulations hang (the one in `Settles`).
* Deployment: `launch_reporter_for_app` panics for a bare metal application (emulcore.rs 566) and
  `ip_addr` for a service without an address; the initialisation's task reports an error only when
  it gets one, so that neither Ready nor Abort is sent and the emulation hangs (an exception
  in `Settles`). Removing one host stops all emulations of the cluster (`CGraphRemove`); Abort and a
  failed NewTopology leave the load in the orchestrator's books until some host is removed;
  entries of emulations that ended normally are never removed from the OManager's table.
* Cluster graph: `sufficient_speed`, said to 'take effect only if this node is the leader',
  is the joiner's own in the tests; a test that measures more than a `local_speed` set as a
  limit is refused and the join fails. What is deduced is right because a network
  carries over a third node at least the lesser of two speeds.
* Orchestrator: the search panics (`next_comb`) when there are as many applications as
  hosts, or one host, and the first combination does not fit; for every topology when no host
  is left (`size() - 1` and `% 0` in `find_iso_internal`); and in no other case; two applications without
  a path panic in `bandwidth_matrix`; when a join brings a lost host back its speeds
  are taken from the wrong rows (`Grown`; the exception `returned` in `BooksBalance`); the
  diagonal of the matrix overflows, harmless in a release build.
* Flows: links off the path shared last may be overdrawn until they are shared again
  (`SharesFit` is about the others); a throttled flow stays hungry until it ends, so that
  cores which saw the updates of two flows in a different order keep different
  shares, although they agree on the flows (`AgreeAtRest`); `remove_all_flows_from` puts
  the flow of a leaving application back at its source (`kept`), while all others forget it;
  data or an end before the Join of an application panics its reporter's handler
  (`early`) and the core fails with its next message; the entry of an aborted or failed core stays
  until the task of its `Drop` has run, while its receiver is gone at once, so that an update
  that comes in between panics the EManager (`ReceiveLate`, `emanager`: the send is unwrapped, emanager.rs
  109); a broadcast that breaks off half way leaves
  some cores with a flow that others do not know (`AgreeAtRest` excepts the flows of cores that
  failed).

## 4. Proofs

`ClusterManagerProofs` proves for any set of nodes and any configuration:
`TypeCorrect`, `JoinExclusion`, `MembersKept`, `NeverPanics`, `HostsFollow` and
`LeavingIsEarned`. They rest on one inductive invariant, `IInv`:

* `OneJoinAtATime`: there is at most one *claim*, an acceptance on its way, an accepted
  or testing node, or an update or abort on its way, and only while
  `adding_new_node` is set. This needs `SocketsMatch` (an open request belongs to a node that
  is asking, an answer to a node that is asking), else a duplicated request could
  be answered twice.
* `JoinKeepsMembers`: the copy held by the claim contains the leader's graph. Nothing
  is added meanwhile because of the claim; removals only help.
* `CheckWithin`: the nodes a heartbeat task reports are in the graph, which with the
  above makes `remove_one_by(..).unwrap()` safe.
* `OrchestratorFollows`: applying the queued updates to `host_mapping` gives the graph, and
  `RemovalsKnown`: each queued removal names a host known at that point, which makes
  the OManager's `unwrap` safe.

`StartSyncProofs` proves for any number of hosts of at least two and any delays and
skews: `TypeCorrect`, `SameBeginTime`, `MarginSuffices` and `CommonStartImplemented`. The
inductive invariant says that a proposal in flight is the leader's current one,
nothing is validated while it travels, and the cores it has passed hold it
(`ProposalOpen`); so once it is back and validated all cores hold the leader's time
(`ValidatedHeld`), and commitments come after validation (`CommittedValidated`). The step
simulation for CommonStart has one case per action: validation is `Decide`, accepting it
`Commit`, failures are `Fail`, all else stutters.

`DeploymentProofs` proves for any number of nodes, emulations and applications:
`TypeCorrect`, `StartFindsCoreHolds`, `StartsTogetherHolds`, `AbortsAreFinalHolds` and
`LoadCoversAppsHolds`. Its invariant follows an emulation through its life, whatever the
order of messages:

* `OnlyHostsKnow`: only nodes the emulation was placed on have a core of it, or messages
  and reports about it on their way;
* `ReadyOnce`: a host is told once to create a core and reports once that it has;
* `StartWhenReady`: a start message is sent after everybody's report, so it finds its core
  stored unless the node went down since;
* `StopWhenOver`: an emulation that is still tracked is told to stop only when one of its
  hosts was down and can never be ready (`NeverReady`);
* `AbortsAreFinal` itself;
* `LoadCoversAll`: load covers the live applications and the CleanStops on their way.
  `LoadCoversApps` alone is not inductive: a CleanStop in flight has to be paid for.

`FiniteRecursion` is what the next ones rest on. Folds and recursive functions are defined by
CHOOSE, so a proof has to show that a function with that equation exists before it can
use the equation. `RecursiveExists` and `FoldExists` show it for recursion over the subsets of
a finite set; the induction is the library's induction over finite sets, in the form of
sets (`SubsetInduction`). `SumRemove`, `SumUnion`, `SumMonotone`, `SumBound` and `SumInjection` are
what is needed of sums over finite sets. For loops, functions that call themselves last
on a state that need not get smaller, there are `LoopExists` (a function with that equation
exists, whether the loop ends or not) and `LoopResult` (it ends, in a state of its
invariant, when its states climb in a finite strict order). `FiniteMaximal` is what makes it
work: induction over a finite order, in the form of sets.

`FlowSyncProofs` first proves what sharing computes. `DistributeFair`: for one link and any flows on
it, the shares fit on the link, nobody gets less than an equal part of it unless it used
less, and only flows that used more are cut. `UpdateFair`: the merge over all the links of a
path still fits on every one of them, since a flow gets the least of its shares.
`UpdateFlows` and `RemoveFlow` are this for the two calls of the flow loop.

Then it proves for any topology, hosts, schedules and measurements: `TypeCorrect`,
`SharesFitHolds`, `FairShareHolds`, `AgreeAtRestHolds`, `RatesFollowHolds` and `OrderlyStartHolds`. The
invariants are

* `Typed`: every table is one that the operators of BwSync yield; with `SharedAlong` of the
  path shared last this is `SharesFit` and `FairShare`;
* `Agreement`: for each flow that was not overtaken or put back and whose own core did not fail,
  a core agrees with the flow's own core, or the one update for it that is on its way will make it agree;
* `Orderly`: while nobody sends or ends before its Join, a flow that is active has a
  reporter that knows its path;
* `RatesRight`: a reporter's rate is its core's share, and no active flow counts as using
  nothing (`NoneStarved`), which Quit and Crash would drop.

A HashSet yields the flows of a leaving application in any order; `RemoveAll` says what is
left of the table for each of them.

`SymMatrixProofs` proves the index arithmetic for every size: `IndexInverse` and
`PlaceInverse` (`out_to_in_index` and `in_to_out_index` are inverse to each other), `PutAt`, `NewFnAt`
and `RemoveIdAt` (what a matrix holds after each operation).

`ClusterGraphProofs` proves for any network, hosts, configured speeds, order of the nodes,
joins, tests and losses: `TypeCorrect`, `NoOverestimate`, `AllSpeedsKnown`, `LinksFollow`,
`OneTestPerNode` and `PathsRightHolds`. The argument has four layers:

* *the network*. `WidestIsWidest`: `widest_path` comes to an end, although a vertex is put into
  the queue again whenever its value rises, and at its end the value of a vertex is the
  greatest b for which it is in `Within(w, b, from)`, the vertices reached over links of b or
  more. The values seen so far only rise and the queue then gets shorter, which is a
  finite order (`Ahead`); when the queue is empty every link has been followed
  (`Followed`). As reaching is symmetric and transitive, what two hosts can exchange is an
  ultrametric (`SpeedsAreUltra`): of the three speeds between three hosts the two least are equal;
* *the paths*. Both searches keep a tree of parents without a circle (`Acyclic`). For
  `shortest_path` each step has one hop more than its parent (`Layered`), as the queue never
  holds more than two successive numbers of hops (`Level`), so that no vertex is found again
  over fewer hops. For `widest_path` values of parent and child may be equal and parents change; a
  new circle would have to pass through the vertex just visited, and the part of it with values as
  high as that vertex's would have been a circle before (`WideningStep`). So the way back along
  the parents is a simple path, and its links are those `Chain` collects (`WayExists`,
  `TreePath`). It is the best one: no simple path reaches a vertex over fewer hops than it
  was found with, nor is one wider than its value (`ShortestPathRight`, `WidestPathRight`). Since
  vertices have indices of their own (`NetOK`), this is `PathsRight`, for every network;
* *the loops of CGraph*, for any such speeds. `Known`: a speed in the graph is never above the
  real one nor above either host's, and one that counts as sure (`~limited` or `tested`) is the real
  one or the host's limit. `TransitionsRight`: `update_speeds` keeps this and only raises speeds;
  `TellsRight`: two sure speeds that differ tell the third, by the ultrametric, which is
  false for equal ones; `MissingRight`: `find_missing_from_me` settles or lists every node, in
  whatever order, and never lists one with a tested link;
* *the join*. `IInv` has where the join is (`Controlled`, with: the host tested against has no tested
  link yet), `GraphsKnown` (both graphs satisfy `GraphIs` and `Known`) and `GraphsSettled`: of the
  leader's graph all pairs are settled, of the copy all pairs without the joiner.
  `SpeedsKnown` alone is not inductive: it is the copy that becomes the leader's graph. Nodes
  move to other rows (`AddNodeIs`, `RemoveNodeIs`), so nodes of different graphs are compared by name.

The proof needs no assumption on the network: the triangle inequality that makes the
deductions right is itself a theorem about `widest_path`. `NextStep` also proves the two action
properties.

`OrchestratorProofs` proves for any cluster, topologies and changes of the cluster:
`TypeCorrect`, `LoadsRightHolds`, `AttributedHolds`, `BooksNeverPanicHolds`, `BooksBalanceHolds` and
`SearchSoundHolds`. The
invariant `IInv` says besides these properties that

* placements point at rows that exist, and their matrices are the ones topologies become
  (`BooksTyped`); rows are distinct hosts;
* the mapping has the hosts of the leader's graph, in its order until a host returns, and
  the copy of a joining host has all of them (`HostsFollow`): so `update_with_cgraph` removes
  nobody, and the new host comes last, where `grow_fn`'s comparison of rows is right;
* the host of a running application has an entry in `attributed_emul` (`Attributable`), which
  makes the `unwrap` safe and lets the loss of a host reach every emulation;
* what is left and what is used make up the speeds (`Balance`). Placing keeps it because what
  an accepted placement uses between two hosts is at most what `verify_permutation` summed
  (`PlacementFits`), so no subtraction wraps; stopping gives back the same sum.

`SearchSoundHolds` is about the search itself, which `BooksBalance` and `LoadsRight` rely on: each of
its loops comes to an end (`LoopResult`), and its answer is in `Answers`.

* `PermutationSound`: in Heap's algorithm no counter passes its place (`Counting`), and the
  counters climb as the digits of a number, when the places that were just carried over are
  taken as one higher (`CountOf`, `HeapClimbs`);
* `TryCombinationsSound`: the combinations climb as well, with the first entry as the highest
  digit (`CombinationClimbs`), and their entries are bounded. The index of `next_comb` cannot
  underflow as long as the first entry is below its greatest value (`Safe`), and this holds from the
  start unless there are more entries than that value (`SafeNoPanic`);
* `RoundsSound`: with the number of clones `find_isomorphism` starts with, that leaves as many
  applications as hosts and a single host (`UnderflowIs`), the two cases in which it panics;
* `SearchAnswers` adds the third: no host at all.

Assumptions, all evaluated by TLC in the runs: `LeaderAssumption` and `ConfigAssumption`,
`NAssumption` and `TimeAssumption`, `AppsAssumption` (Deployment); `Setup` (ClusterGraph: bandwidths
and speeds are at most `MAX`, the leader is a host); `Links` (finitely many flows,
over links of the topology), `Places` and `Inputs` (applications have hosts, measurements are
numbers); `Cluster` (the first graph has a host and none twice, speeds are u32) and
`TopologiesAssumption` (a topology has an application, bandwidths are u32 or missing).

Only model-checked:

* the liveness properties (`DeadNodeRemoved`, `EndsTogether`, `Settles`): beyond the prover;
* `SearchComplete`: that a placement is found when there is one needs Heap's algorithm to visit
  every permutation, an induction over data; it is also false for large clusters, since the
  search gives up after five rounds. A panic is not a rejection: it is what `SearchSound` is about;
* `NothingLost`: bandwidth that is given back twice may wrap in general, and then it is
  lost; the instance is too small for that.

## 5. Not modelled

Performance tests (iperf3), docker and iproute commands, the eBPF monitor, the XML
parser, client, runner and serialisation are I/O or sequential conversions. Of the
reporter, `check_flows` is the environment of FlowSync: how it samples, ignores small flows
and ends silent ones is left out. Latency, jitter and drop of links follow the path of
the bandwidth. That a join ends is checked as safety (`TestsOnce`: at most one test per
node). The scheduler's blocking sleeps, which can stall the runtime, and the EManager
that waits on a full channel with the map locked are not modelled. A crash
of the leader ends the cluster, since no other node takes over in the code; the loss of the leader
from its own graph, while it runs, is modelled. Network
partitions are covered only as lost datagrams and removed live nodes.

## 6. Plan

The components that carry the program's logic are modelled, and of the invariants that the
runs check all but the two above are proved. What is left is to model the reporter's
sampling and the performance tests, and a larger instance for `NothingLost` in which a sum wraps.
The indices of a matrix are computed exactly here: that the code's f64 and i32 arithmetic
(`in_to_out_index`) rounds right is not part of `TypeOK` or of `PlaceInverse`.
