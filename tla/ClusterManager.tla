--------------------------- MODULE ClusterManager ---------------------------
(***************************************************************************)
(* The cluster manager of Kollaps (cmanager/src/controller.rs): the joining *)
(* protocol and the heartbeat checks that keep the leader's cluster graph,  *)
(* and the channel on which the leader tells its orchestration manager      *)
(* (OManager) about every change of that graph.                             *)
(*                                                                         *)
(* A CGraph is abstracted to the set of its nodes: the link speeds play no  *)
(* part in the control.  UDP messages (CJQRequest, CJQResponse, CHeartbeat) *)
(* may be lost, delayed, reordered and, when UdpDuplicates holds,           *)
(* duplicated; TCP messages are delivered once but every message has a      *)
(* connection of its own, so that they arrive in any order.                 *)
(***************************************************************************)
EXTENDS Naturals, Sequences

CONSTANTS
  Node,             \* the machines of the subnet
  Leader,           \* the machine started with --leader
  HeartbeatMisses,  \* config.heartbeat_misses
  CjqRetry,         \* config.cjq_retry
  UpdateChannel,    \* capacity of the channel to the OManager
  UdpDuplicates,    \* may the network deliver a CJQRequest twice?
  MaxCrashes        \* bound on the number of crashes

ASSUME LeaderAssumption == Leader \in Node
ASSUME ConfigAssumption ==
  /\ HeartbeatMisses \in Nat
  /\ CjqRetry \in Nat
  /\ UpdateChannel \in Nat
  /\ UdpDuplicates \in BOOLEAN
  /\ MaxCrashes \in Nat

VARIABLES
  \* the leader's Ctrl
  adding_new_node,   \* an accepted node has not sent its CGraphUpdate yet
  cgraph,            \* the nodes of the leader's CGraph
  heartbeat_misses,  \* missed heartbeats of a node; 0 stands for no entry
  check,             \* the step of the heartbeat task
  remaining,         \* the task's clone of cgraph, then the nodes that missed
  received_info,     \* the nodes whose heartbeat the task received
  \* the Ctrl of the other nodes
  phase,             \* what the event loop of a node is doing
  retries,           \* cjq_request_remaining_retries
  graph,             \* the CGraph a joining node received from the leader
  \* the network
  cjqRequest,        \* CJQRequest datagrams on their way to the leader
  cjqResponse,       \* CJQResponse datagrams on their way to an open socket
  tcp,               \* CGraphUpdate and CJQAbort messages to the leader
  \* the leader's OManager
  updates,           \* the CGraphUpdate channel
  host_mapping,      \* the hosts the orchestrator deploys on
  panicked,          \* the tasks that a panic has ended
  crashes            \* number of crashes so far

ctrlVars == <<adding_new_node, cgraph, heartbeat_misses>>
checkVars == <<check, remaining, received_info>>
joinVars == <<phase, retries, graph>>
netVars == <<cjqRequest, cjqResponse, tcp>>
omanagerVars == <<updates, host_mapping, panicked>>
vars == <<ctrlVars, checkVars, joinVars, netVars, omanagerVars, crashes>>

Phase == {"down",      \* not running
          "asking",    \* in send_cluster_joining_request, its socket open
          "waiting",   \* a CJQRetry event is due
          "accepted",  \* add_myself_in_cluster, before the leader's CGraphSend
          "testing",   \* complete_graph: performance tests with the members
          "member",    \* joined: answers heartbeats
          "stopped"}   \* gave up: start() returned an error

Request == [from : Node, socket : {"open", "closed"}]
Response == [to : Node, kind : {"Accepted", "Wait"}]
TcpMessage == [type : {"Update"}, from : Node, graph : SUBSET Node]
                \cup [type : {"Abort"}, from : Node]
Update == [type : {"New"}, graph : SUBSET Node]
            \cup [type : {"Remove"}, node : Node]

Running == "Ctrl" \notin panicked

-----------------------------------------------------------------------------
(***************************************************************************)
(* Start: the leader creates the cluster; EManager::start hands the first   *)
(* graph to the OManager before it serves anything.                         *)
(***************************************************************************)
Init ==
  /\ adding_new_node = FALSE
  /\ cgraph = {Leader}
  /\ heartbeat_misses = [n \in Node |-> 0]
  /\ check = "sleeping"
  /\ remaining = {}
  /\ received_info = {}
  /\ phase = [n \in Node |-> IF n = Leader THEN "member" ELSE "down"]
  /\ retries = [n \in Node |-> 0]
  /\ graph = [n \in Node |-> {}]
  /\ cjqRequest = {}
  /\ cjqResponse = {}
  /\ tcp = {}
  /\ updates = <<>>
  /\ host_mapping = {Leader}
  /\ panicked = {}
  /\ crashes = 0

\* The channel to the OManager has room, or its receiver is gone and the send
\* fails at once; otherwise the event loop is blocked in the send.
CanNotify == Len(updates) < UpdateChannel \/ "OManager" \in panicked

\* Mutant of Notify: a removal is not told.
NotifyNewOnly(u) ==
  updates' = IF "OManager" \in panicked \/ u.type = "Remove" THEN updates
             ELSE Append(updates, u)

Notify(u) ==
  updates' = IF "OManager" \in panicked THEN updates ELSE Append(updates, u)

-----------------------------------------------------------------------------
(***************************************************************************)
(* The joining node.                                                        *)
(***************************************************************************)

\* A request of n whose socket is closed still reaches the leader, but the
\* answer to it has nobody to go to.
CloseSocket(n) ==
  /\ cjqRequest' = {r \in cjqRequest : r.from # n}
                     \cup {[from |-> r.from, socket |-> "closed"] : r \in {q \in cjqRequest : q.from = n}}
  /\ cjqResponse' = {p \in cjqResponse : p.to # n}

\* send_cluster_joining_request: a fresh socket and a broadcast.
Broadcast(n) ==
  /\ phase' = [phase EXCEPT ![n] = "asking"]
  /\ cjqRequest' = cjqRequest \cup {[from |-> n, socket |-> "open"]}

\* start() of a node that is not the leader.
Start(n) ==
  /\ phase[n] = "down"
  /\ Broadcast(n)
  /\ retries' = [retries EXCEPT ![n] = CjqRetry]
  /\ UNCHANGED <<ctrlVars, checkVars, graph, cjqResponse, tcp, omanagerVars, crashes>>

\* No response before cjq_timeout: a CJQRetry event is queued and the socket
\* of this attempt dropped.
CJQTimeout(n) ==
  /\ phase[n] = "asking"
  /\ phase' = [phase EXCEPT ![n] = "waiting"]
  /\ CloseSocket(n)
  /\ UNCHANGED <<ctrlVars, checkVars, retries, graph, tcp, omanagerVars, crashes>>

\* Mutant of CJQRetry: the remaining retries are not looked at.
CJQRetryUnbounded(n) ==
  /\ phase[n] = "waiting"
  /\ retries' = [retries EXCEPT ![n] = @ - 1]
  /\ Broadcast(n)
  /\ UNCHANGED <<ctrlVars, checkVars, graph, cjqResponse, tcp, omanagerVars, crashes>>

CJQRetry(n) ==
  /\ phase[n] = "waiting"
  /\ \/ /\ retries[n] > 0
        /\ retries' = [retries EXCEPT ![n] = @ - 1]
        /\ Broadcast(n)
     \/ /\ retries[n] = 0
        /\ phase' = [phase EXCEPT ![n] = "stopped"]
        /\ UNCHANGED <<retries, cjqRequest>>
  /\ UNCHANGED <<ctrlVars, checkVars, graph, cjqResponse, tcp, omanagerVars, crashes>>

\* The first response is forwarded to the event loop; handling it resets the
\* retries.
CJQResponse(n, p) ==
  /\ phase[n] = "asking"
  /\ p.to = n
  /\ CloseSocket(n)
  /\ retries' = [retries EXCEPT ![n] = CjqRetry]
  /\ phase' = [phase EXCEPT ![n] = IF p.kind = "Accepted" THEN "accepted" ELSE "waiting"]
  /\ UNCHANGED <<ctrlVars, checkVars, graph, tcp, omanagerVars, crashes>>

\* add_myself_in_cluster, first half: the leader answers CGraphGet with a
\* clone of its graph.
CGraphGet(n) ==
  /\ Running
  /\ phase[n] = "accepted"
  /\ phase' = [phase EXCEPT ![n] = "testing"]
  /\ graph' = [graph EXCEPT ![n] = cgraph]
  /\ UNCHANGED <<ctrlVars, checkVars, retries, netVars, omanagerVars, crashes>>

\* add_myself_in_cluster, second half: the tests succeed (which members are
\* tested depends on the speeds), the completed graph is sent back and
\* cluster_id is set.
JoinSucceeds(n) ==
  /\ phase[n] = "testing"
  /\ phase' = [phase EXCEPT ![n] = "member"]
  /\ graph' = [graph EXCEPT ![n] = {}]
  /\ tcp' = tcp \cup {[type |-> "Update", from |-> n, graph |-> graph[n] \cup {n}]}
  /\ UNCHANGED <<ctrlVars, checkVars, retries, cjqRequest, cjqResponse, omanagerVars, crashes>>

\* Fetching the graph or a performance test failed: CJQAbort and a later retry.
JoinFails(n) ==
  /\ phase[n] \in {"accepted", "testing"}
  /\ phase' = [phase EXCEPT ![n] = "waiting"]
  /\ graph' = [graph EXCEPT ![n] = {}]
  /\ tcp' = tcp \cup {[type |-> "Abort", from |-> n]}
  /\ UNCHANGED <<ctrlVars, checkVars, retries, cjqRequest, cjqResponse, omanagerVars, crashes>>

Crash(n) ==
  /\ n # Leader
  /\ phase[n] # "down"
  /\ crashes < MaxCrashes
  /\ crashes' = crashes + 1
  /\ phase' = [phase EXCEPT ![n] = "down"]
  /\ graph' = [graph EXCEPT ![n] = {}]
  /\ CloseSocket(n)
  /\ UNCHANGED <<ctrlVars, checkVars, retries, tcp, omanagerVars>>

-----------------------------------------------------------------------------
(***************************************************************************)
(* The leader's event loop.                                                 *)
(***************************************************************************)

\* Mutant of CJQRequest: the leader forgets that it is adding a node.
CJQRequestForgetful(r) ==
  /\ Running
  /\ ~adding_new_node
  /\ heartbeat_misses' = [heartbeat_misses EXCEPT ![r.from] = 0]
  /\ cjqResponse' = IF r.socket = "open" THEN cjqResponse \cup {[to |-> r.from, kind |-> "Accepted"]}
                    ELSE cjqResponse
  /\ cjqRequest' = cjqRequest \ {r}
  /\ UNCHANGED <<adding_new_node, cgraph, checkVars, joinVars, tcp, omanagerVars, crashes>>

\* Accept when no other node is being added, else ask to wait.  A request of
\* a node that is already in the graph is a reboot: its misses are forgotten.
CJQRequest(r) ==
  /\ Running
  /\ adding_new_node' = TRUE
  /\ heartbeat_misses' = IF ~adding_new_node /\ r.from \in cgraph
                           THEN [heartbeat_misses EXCEPT ![r.from] = 0]
                           ELSE heartbeat_misses
  /\ LET answer == [to |-> r.from,
                    kind |-> IF adding_new_node THEN "Wait" ELSE "Accepted"]
     IN  cjqResponse' = IF r.socket = "open" THEN cjqResponse \cup {answer} ELSE cjqResponse
  /\ \/ cjqRequest' = cjqRequest \ {r}
     \/ UdpDuplicates /\ UNCHANGED cjqRequest
  /\ UNCHANGED <<cgraph, checkVars, joinVars, tcp, omanagerVars, crashes>>

\* The graph of the joined node replaces the leader's.
CGraphUpdate(m) ==
  /\ Running
  /\ m.type = "Update"
  /\ CanNotify
  /\ adding_new_node' = FALSE
  /\ cgraph' = m.graph
  /\ Notify([type |-> "New", graph |-> m.graph])
  /\ tcp' = tcp \ {m}
  /\ UNCHANGED <<heartbeat_misses, checkVars, joinVars, cjqRequest, cjqResponse,
                 host_mapping, panicked, crashes>>

CJQAbort(m) ==
  /\ Running
  /\ m.type = "Abort"
  /\ adding_new_node' = FALSE
  /\ tcp' = tcp \ {m}
  /\ UNCHANGED <<cgraph, heartbeat_misses, checkVars, joinVars, cjqRequest, cjqResponse,
                 omanagerVars, crashes>>

-----------------------------------------------------------------------------
(***************************************************************************)
(* Heartbeats: a task spawned by CHeartbeatCheck works on a clone of the    *)
(* graph and hands its result to the event loop, one event after the other. *)
(***************************************************************************)
\* The channel for the answers has two places per node: without a node its
\* creation panics, and the task ends before it has queued the next check.
CHeartbeatCheck ==
  /\ Running
  /\ "Heartbeat" \notin panicked
  /\ check = "sleeping"
  /\ \/ /\ cgraph # {}
        /\ check' = "collecting"
        /\ remaining' = cgraph
        /\ received_info' = {}
        /\ UNCHANGED panicked
     \/ /\ cgraph = {}
        /\ panicked' = panicked \cup {"Heartbeat"}
        /\ UNCHANGED checkVars
  /\ UNCHANGED <<ctrlVars, joinVars, netVars, updates, host_mapping, crashes>>

\* A node that knows the cluster id answers the broadcast, the leader too;
\* the answer arrives before the timeout.  A lost or late one is no step.
CHeartbeat(n) ==
  /\ check = "collecting"
  /\ phase[n] = "member"
  /\ n = Leader => Running
  /\ received_info' = received_info \cup {n}
  /\ UNCHANGED <<ctrlVars, check, remaining, joinVars, netVars, omanagerVars, crashes>>

\* Mutant of CollectHeartbeats: one answer is enough to clear the misses.
CollectHeartbeatsAny ==
  /\ check = "collecting"
  /\ remaining' = {n \in remaining : n \notin received_info}
  /\ check' = IF received_info # {} THEN "resetting" ELSE "reporting"
  /\ received_info' = {}
  /\ UNCHANGED <<ctrlVars, joinVars, netVars, omanagerVars, crashes>>

\* heartbeat_timeout is over: keep the nodes of the clone that did not answer.
CollectHeartbeats ==
  /\ check = "collecting"
  /\ remaining' = {n \in remaining : n \notin received_info}
  /\ check' = IF remaining' = {} THEN "resetting" ELSE "reporting"
  /\ received_info' = {}
  /\ UNCHANGED <<ctrlVars, joinVars, netVars, omanagerVars, crashes>>

CHeartbeatReset ==
  /\ Running
  /\ check = "resetting"
  /\ heartbeat_misses' = [n \in Node |-> 0]
  /\ check' = "sleeping"
  /\ UNCHANGED <<adding_new_node, cgraph, remaining, received_info, joinVars, netVars,
                 omanagerVars, crashes>>

\* The task has been told that the event loop is done with node n.
Reported(n) ==
  /\ remaining' = remaining \ {n}
  /\ check' = IF remaining' = {} THEN "sleeping" ELSE "reporting"

\* Mutant of Lost: the first miss already counts.
LostEarly(n) == heartbeat_misses[n] + 2 >= HeartbeatMisses

\* The node has an entry that this miss brings to the limit.
Lost(n) == heartbeat_misses[n] > 0 /\ heartbeat_misses[n] + 1 >= HeartbeatMisses

NodeFailure(n) ==
  /\ Running
  /\ check = "reporting"
  /\ n \in remaining
  /\ \/ /\ Lost(n)
        /\ n \in cgraph
        /\ CanNotify
        /\ cgraph' = cgraph \ {n}
        /\ heartbeat_misses' = [heartbeat_misses EXCEPT ![n] = 0]
        /\ Notify([type |-> "Remove", node |-> n])
        /\ Reported(n)
        /\ UNCHANGED panicked
     \/ /\ Lost(n)
        /\ n \notin cgraph               \* remove_one_by(..).unwrap()
        /\ panicked' = panicked \cup {"Ctrl"}
        /\ UNCHANGED <<cgraph, heartbeat_misses, updates, remaining, check>>
     \/ /\ ~Lost(n)
        /\ heartbeat_misses' = [heartbeat_misses EXCEPT ![n] = @ + 1]
        /\ Reported(n)
        /\ UNCHANGED <<cgraph, updates, panicked>>
  /\ UNCHANGED <<adding_new_node, received_info, joinVars, netVars, host_mapping, crashes>>

-----------------------------------------------------------------------------
(***************************************************************************)
(* The OManager's end of the channel: update_with_cgraph makes the hosts    *)
(* those of the graph; remove_cluster_node fails on an unknown host, and    *)
(* the caller unwraps its result.                                           *)
(***************************************************************************)
OManagerUpdate ==
  /\ "OManager" \notin panicked
  /\ updates # <<>>
  /\ updates' = Tail(updates)
  /\ LET u == Head(updates)
     IN  \/ /\ u.type = "New"
            /\ host_mapping' = u.graph
            /\ UNCHANGED panicked
         \/ /\ u.type = "Remove"
            /\ u.node \in host_mapping
            /\ host_mapping' = host_mapping \ {u.node}
            /\ UNCHANGED panicked
         \/ /\ u.type = "Remove"
            /\ u.node \notin host_mapping
            /\ panicked' = panicked \cup {"OManager"}
            /\ UNCHANGED host_mapping
  /\ UNCHANGED <<ctrlVars, checkVars, joinVars, netVars, crashes>>

-----------------------------------------------------------------------------
\* The network loses a datagram.
LoseRequest(r) ==
  /\ cjqRequest' = cjqRequest \ {r}
  /\ UNCHANGED <<ctrlVars, checkVars, joinVars, cjqResponse, tcp, omanagerVars, crashes>>

LoseResponse(p) ==
  /\ cjqResponse' = cjqResponse \ {p}
  /\ UNCHANGED <<ctrlVars, checkVars, joinVars, cjqRequest, tcp, omanagerVars, crashes>>

Joiner(n) ==
  \/ CJQRetry(n)
  \/ \E p \in cjqResponse : CJQResponse(n, p)
  \/ CGraphGet(n)
  \/ JoinSucceeds(n)
  \/ JoinFails(n)
  \/ CJQTimeout(n)

LeaderEvent ==
  \/ \E r \in cjqRequest : CJQRequest(r)
  \/ \E m \in tcp : CGraphUpdate(m) \/ CJQAbort(m)

HeartbeatTask ==
  \/ CHeartbeatCheck
  \/ CollectHeartbeats
  \/ CHeartbeatReset
  \/ \E n \in Node : NodeFailure(n)

Next ==
  \/ \E n \in Node : Start(n) \/ Joiner(n) \/ Crash(n) \/ CHeartbeat(n)
  \/ LeaderEvent
  \/ HeartbeatTask
  \/ OManagerUpdate
  \/ \E r \in cjqRequest : LoseRequest(r)
  \/ \E p \in cjqResponse : LoseResponse(p)

Spec == Init /\ [][Next]_vars

\* The event queue is served in order, timers fire, spawned tasks run and the
\* OManager drains its channel.  Nothing is assumed of the network: datagrams
\* may be lost for ever; nodes may crash or not and start or not.
Fairness ==
  /\ \A n \in Node : WF_vars(Joiner(n))
  /\ WF_vars(\E r \in cjqRequest : CJQRequest(r))
  /\ WF_vars(\E m \in tcp : CGraphUpdate(m) \/ CJQAbort(m))
  /\ WF_vars(HeartbeatTask)
  /\ WF_vars(OManagerUpdate)

FairSpec == Spec /\ Fairness

-----------------------------------------------------------------------------
(***************************************************************************)
(* Properties.                                                              *)
(***************************************************************************)

\* Every variable has its type (the fields of Ctrl and of the messages it
\* exchanges, controller.rs 47-63).
TypeOK ==
  /\ adding_new_node \in BOOLEAN
  /\ cgraph \in SUBSET Node
  /\ heartbeat_misses \in [Node -> Nat]
  /\ check \in {"sleeping", "collecting", "resetting", "reporting"}
  /\ remaining \in SUBSET Node
  /\ received_info \in SUBSET Node
  /\ phase \in [Node -> Phase]
  /\ retries \in [Node -> Nat]
  /\ graph \in [Node -> SUBSET Node]
  /\ cjqRequest \in SUBSET Request
  /\ cjqResponse \in SUBSET Response
  /\ tcp \in SUBSET TcpMessage
  /\ updates \in Seq(Update)
  /\ host_mapping \in SUBSET Node
  /\ panicked \in SUBSET {"Ctrl", "OManager", "Heartbeat"}
  /\ crashes \in Nat

\* Who is adding itself to the cluster: a node whose acceptance is on its way,
\* one that is working on the graph, one whose result has not been handled.
Claim ==
  {<<"accepted", p.to>> : p \in {q \in cjqResponse : q.kind = "Accepted"}}
    \cup {<<"joining", n>> : n \in {q \in Node : phase[q] \in {"accepted", "testing"}}}
    \cup {<<"sent", m>> : m \in tcp}

\* "Only one node can be added to the cluster at the time" (runner_config.rs
\* 93): whatever is lost, delayed, duplicated, timed out or crashes, at most
\* one node is adding itself, and the leader knows it.
OneJoinAtATime ==
  /\ \A c, d \in Claim : c = d
  /\ Claim # {} => adding_new_node

\* The graph a joining node works on, or has sent back, still holds every
\* member of the leader's graph, although heartbeat checks change that graph
\* in between: the CGraphUpdate that overwrites it loses no member.
JoinKeepsMembers ==
  /\ \A n \in Node : phase[n] = "testing" => cgraph \subseteq graph[n]
  /\ \A m \in tcp : m.type = "Update" => cgraph \subseteq m.graph

\* remove_one_by(..).unwrap() and the assertion after it (controller.rs
\* 263-264) never fail, nor does the OManager's unwrap of remove_cluster_node
\* (pubapi.rs 70), although a check works on an old clone of the graph.  The
\* heartbeat task may panic, once the graph is empty: see CHeartbeatCheck.
NoPanic == panicked \cap {"Ctrl", "OManager"} = {}

\* A node leaves the cluster graph only because a check that it did not answer
\* reports it and it had missed HeartbeatMisses - 1 checks before.
LeavesOnlyWhenLost ==
  [][\A n \in cgraph \ cgraph' :
       /\ check = "reporting"
       /\ n \in remaining
       /\ heartbeat_misses[n] + 1 >= HeartbeatMisses]_vars

\* The hosts once the OManager has handled the first i updates in its channel:
\* the last graph among them (or the hosts of now) less the nodes removed since.
HostsAfter(i) ==
  {n \in Node :
     \E k \in 0..i :
       /\ \/ k = 0 /\ n \in host_mapping
          \/ k > 0 /\ updates[k].type = "New" /\ n \in updates[k].graph
       /\ \A j \in (k + 1)..i : updates[j].type = "Remove" /\ updates[j].node # n}

\* The updates in the channel bring the orchestrator's hosts to the leader's
\* graph: no change is lost, doubled or told in the wrong order.
OrchestratorFollows == HostsAfter(Len(updates)) = cgraph

\* A node that stays down leaves the cluster graph for good, even though a
\* join that began before its removal puts it back once more, unless a check
\* met an empty graph: then no check follows (controller.rs 316).
DeadNodeRemoved ==
  \A n \in Node \ {Leader} :
    <>[](phase[n] = "down") => <>[](n \notin cgraph) \/ <>("Heartbeat" \in panicked)

\* "if a request arrive while there is already a node adding itself, we send a
\* Waiting time to retry" (runner_config.rs 93-95): the leader does not keep
\* joiners waiting for ever.
AddingEnds == adding_new_node ~> ~adding_new_node

=============================================================================
