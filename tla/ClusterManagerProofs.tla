------------------------ MODULE ClusterManagerProofs ------------------------
(***************************************************************************)
(* Theorems about ClusterManager, for every set of nodes and every value of *)
(* the configuration.                                                       *)
(***************************************************************************)
EXTENDS ClusterManager, TLAPS

\* The records that travel: what a received message says of its fields.
LEMMA MessageFields ==
  /\ \A r \in Request : r.from \in Node
  /\ \A p \in Response : p.to \in Node
  /\ \A m \in TcpMessage : m.from \in Node /\ (m.type = "Update" => m.graph \in SUBSET Node)
  /\ \A u \in Update : /\ u.type = "New" => u.graph \in SUBSET Node
                       /\ u.type = "Remove" => u.node \in Node
BY DEF Request, Response, TcpMessage, Update

\* Telling the OManager of an update keeps the channel a sequence of updates.
LEMMA NotifyType ==
  ASSUME updates \in Seq(Update), NEW u \in Update, Notify(u)
  PROVE  updates' \in Seq(Update)
BY DEF Notify

\* Closing a socket keeps the types of the datagrams under way.
LEMMA CloseSocketType ==
  ASSUME cjqRequest \in SUBSET Request, cjqResponse \in SUBSET Response,
         NEW n \in Node, CloseSocket(n)
  PROVE  cjqRequest' \in SUBSET Request /\ cjqResponse' \in SUBSET Response
BY DEF CloseSocket, Request

\* Every step keeps the types of Ctrl's fields and of the messages.
LEMMA TypeStep == TypeOK /\ [Next]_vars => TypeOK'
<1> SUFFICES ASSUME TypeOK, [Next]_vars PROVE TypeOK'
  OBVIOUS
<1> USE LeaderAssumption, ConfigAssumption
        DEF TypeOK,
            ctrlVars, checkVars, joinVars, netVars, omanagerVars
<1>1. ASSUME NEW n \in Node, Start(n) PROVE TypeOK'
  <2>1. phase' \in [Node -> Phase]
    BY <1>1 DEF Start, Broadcast, Phase
  <2>2. retries' \in [Node -> Nat]
    BY <1>1 DEF Start, Broadcast
  <2>3. cjqRequest' \in SUBSET Request
    BY <1>1 DEF Start, Broadcast, Request
  <2> QED
    BY <1>1, <2>1, <2>2, <2>3 DEF Start, Broadcast
<1>2. ASSUME NEW n \in Node, CJQRetry(n) PROVE TypeOK'
  <2>1. phase' \in [Node -> Phase]
    BY <1>2 DEF CJQRetry, Broadcast, Phase
  <2>2. retries' \in [Node -> Nat]
    <3>1. CASE retries[n] > 0
      <4>1. retries[n] - 1 \in Nat
        BY <3>1
      <4> QED
        BY <1>2, <4>1 DEF CJQRetry
    <3>2. CASE ~(retries[n] > 0)
      BY <1>2, <3>2 DEF CJQRetry
    <3> QED
      BY <3>1, <3>2
  <2>3. cjqRequest' \in SUBSET Request
    BY <1>2 DEF CJQRetry, Broadcast, Request
  <2> QED
    BY <1>2, <2>1, <2>2, <2>3 DEF CJQRetry, Broadcast
<1>3. ASSUME NEW n \in Node, NEW p \in cjqResponse, CJQResponse(n, p) PROVE TypeOK'
  <2>1. phase' \in [Node -> Phase]
    BY <1>3 DEF CJQResponse, CloseSocket, Phase
  <2>2. retries' \in [Node -> Nat]
    BY <1>3 DEF CJQResponse, CloseSocket
  <2>3. cjqRequest' \in SUBSET Request
    BY <1>3 DEF CJQResponse, CloseSocket, Request
  <2>4. cjqResponse' \in SUBSET Response
    BY <1>3 DEF CJQResponse, CloseSocket, Response
  <2> QED
    BY <1>3, <2>1, <2>2, <2>3, <2>4 DEF CJQResponse, CloseSocket
<1>4. ASSUME NEW n \in Node, CGraphGet(n) PROVE TypeOK'
  <2>1. phase' \in [Node -> Phase]
    BY <1>4 DEF CGraphGet, Phase
  <2>2. graph' \in [Node -> SUBSET Node]
    BY <1>4 DEF CGraphGet
  <2> QED
    BY <1>4, <2>1, <2>2 DEF CGraphGet
<1>5. ASSUME NEW n \in Node, JoinSucceeds(n) PROVE TypeOK'
  <2>1. phase' \in [Node -> Phase]
    BY <1>5 DEF JoinSucceeds, Phase
  <2>2. graph' \in [Node -> SUBSET Node]
    BY <1>5 DEF JoinSucceeds
  <2>3. tcp' \in SUBSET TcpMessage
    BY <1>5 DEF JoinSucceeds, TcpMessage
  <2> QED
    BY <1>5, <2>1, <2>2, <2>3 DEF JoinSucceeds
<1>6. ASSUME NEW n \in Node, JoinFails(n) PROVE TypeOK'
  <2>1. phase' \in [Node -> Phase]
    BY <1>6 DEF JoinFails, Phase
  <2>2. graph' \in [Node -> SUBSET Node]
    BY <1>6 DEF JoinFails
  <2>3. tcp' \in SUBSET TcpMessage
    BY <1>6 DEF JoinFails, TcpMessage
  <2> QED
    BY <1>6, <2>1, <2>2, <2>3 DEF JoinFails
<1>7. ASSUME NEW n \in Node, CJQTimeout(n) PROVE TypeOK'
  <2>1. phase' \in [Node -> Phase]
    BY <1>7 DEF CJQTimeout, CloseSocket, Phase
  <2>2. cjqRequest' \in SUBSET Request
    BY <1>7 DEF CJQTimeout, CloseSocket, Request
  <2>3. cjqResponse' \in SUBSET Response
    BY <1>7 DEF CJQTimeout, CloseSocket, Response
  <2> QED
    BY <1>7, <2>1, <2>2, <2>3 DEF CJQTimeout, CloseSocket
<1>8. ASSUME NEW n \in Node, Crash(n) PROVE TypeOK'
  <2>1. phase' \in [Node -> Phase]
    BY <1>8 DEF Crash, CloseSocket, Phase
  <2>2. graph' \in [Node -> SUBSET Node]
    BY <1>8 DEF Crash, CloseSocket
  <2>3. cjqRequest' \in SUBSET Request
    BY <1>8 DEF Crash, CloseSocket, Request
  <2>4. cjqResponse' \in SUBSET Response
    BY <1>8 DEF Crash, CloseSocket, Response
  <2> QED
    BY <1>8, <2>1, <2>2, <2>3, <2>4 DEF Crash, CloseSocket
<1>9. ASSUME NEW n \in Node, CHeartbeat(n) PROVE TypeOK'
  BY <1>9 DEF CHeartbeat
<1>10. ASSUME NEW r \in cjqRequest, CJQRequest(r) PROVE TypeOK'
  <2>1. heartbeat_misses' \in [Node -> Nat]
    BY <1>10 DEF CJQRequest
  <2>2. cjqRequest' \in SUBSET Request
    BY <1>10 DEF CJQRequest, Request
  <2>3. cjqResponse' \in SUBSET Response
    <3>1. r.from \in Node
      BY MessageFields
    <3>2. \A k \in {"Wait", "Accepted"} : [to |-> r.from, kind |-> k] \in Response
      BY <3>1 DEF Response
    <3> QED
      BY <1>10, <3>2 DEF CJQRequest
  <2> QED
    BY <1>10, <2>1, <2>2, <2>3 DEF CJQRequest
<1>11. ASSUME NEW m \in tcp, CGraphUpdate(m) PROVE TypeOK'
  <2>1. cgraph' \in SUBSET Node
    BY <1>11, MessageFields DEF CGraphUpdate
  <2>2. updates' \in Seq(Update)
    <3>1. [type |-> "New", graph |-> m.graph] \in Update
      BY <1>11, <2>1 DEF CGraphUpdate, Update
    <3> QED
      BY <1>11, <3>1, NotifyType DEF CGraphUpdate
  <2> QED
    BY <1>11, <2>1, <2>2 DEF CGraphUpdate, Notify
<1>12. ASSUME NEW m \in tcp, CJQAbort(m) PROVE TypeOK'
  BY <1>12 DEF CJQAbort
<1>13. CASE CHeartbeatCheck
  BY <1>13 DEF CHeartbeatCheck
<1>14. CASE CollectHeartbeats
  BY <1>14 DEF CollectHeartbeats
<1>15. CASE CHeartbeatReset
  BY <1>15 DEF CHeartbeatReset
<1>16. ASSUME NEW n \in Node, NodeFailure(n) PROVE TypeOK'
  <2>1. heartbeat_misses' \in [Node -> Nat]
    <3>1. heartbeat_misses[n] + 1 \in Nat
      OBVIOUS
    <3>2. \/ UNCHANGED heartbeat_misses
          \/ heartbeat_misses' = [heartbeat_misses EXCEPT ![n] = 0]
          \/ heartbeat_misses' = [heartbeat_misses EXCEPT ![n] = @ + 1]
      BY <1>16 DEF NodeFailure
    <3> QED
      BY <3>1, <3>2
  <2>2. updates' \in Seq(Update)
    <3>1. [type |-> "Remove", node |-> n] \in Update
      BY DEF Update
    <3> QED
      BY <1>16, <3>1, NotifyType DEF NodeFailure
  <2>3. check' \in {"sleeping", "collecting", "resetting", "reporting"}
    BY <1>16 DEF NodeFailure, Notify, Reported
  <2> QED
    BY <1>16, <2>1, <2>2, <2>3 DEF NodeFailure, Notify, Reported
<1>17. CASE OManagerUpdate
  <2>1. updates' \in Seq(Update)
    BY <1>17 DEF OManagerUpdate, Update
  <2>2. host_mapping' \in SUBSET Node
    <3>1. Head(updates) \in Update
      BY <1>17 DEF OManagerUpdate
    <3> QED
      BY <1>17, <3>1, MessageFields DEF OManagerUpdate
  <2> QED
    BY <1>17, <2>1, <2>2 DEF OManagerUpdate
<1>18. ASSUME NEW r \in cjqRequest, LoseRequest(r) PROVE TypeOK'
  BY <1>18 DEF LoseRequest
<1>19. ASSUME NEW p \in cjqResponse, LoseResponse(p) PROVE TypeOK'
  BY <1>19 DEF LoseResponse
<1>20. CASE UNCHANGED vars
  BY <1>20 DEF vars
<1>21. QED
  BY <1>1, <1>2, <1>3, <1>4, <1>5, <1>6, <1>7, <1>8, <1>9, <1>10, <1>11, <1>12, <1>13, <1>14, <1>15, <1>16, <1>17, <1>18, <1>19, <1>20
     DEF Next, Joiner, LeaderEvent, HeartbeatTask

\* The cluster manager starts well typed.
LEMMA InitTypeOK == Init => TypeOK
<1> SUFFICES ASSUME Init PROVE TypeOK
  OBVIOUS
<1>1. phase \in [Node -> Phase]
  BY DEF Init, Phase
<1>2. updates \in Seq(Update)
  BY DEF Init
<1> QED
  BY LeaderAssumption, <1>1, <1>2 DEF Init, TypeOK

\* The state of every behaviour of the cluster manager is well typed.
THEOREM TypeCorrect == Spec => []TypeOK
BY InitTypeOK, TypeStep, PTL DEF Spec

-----------------------------------------------------------------------------
(***************************************************************************)
(* Joining is exclusive.                                                    *)
(***************************************************************************)

\* Only a node that is still waiting for it has a response on its way or a
\* request whose answer it would get.
SocketsMatch ==
  /\ \A p \in cjqResponse : phase[p.to] = "asking"
  /\ \A r \in cjqRequest : r.socket = "open" => phase[r.from] = "asking"

\* Every step keeps SocketsMatch: a node leaves the phase "asking" only by
\* closing its socket.
LEMMA SocketsStep == TypeOK /\ SocketsMatch /\ [Next]_vars => SocketsMatch'
<1> SUFFICES ASSUME TypeOK, SocketsMatch, [Next]_vars PROVE SocketsMatch'
  OBVIOUS
<1> USE MessageFields DEF TypeOK, SocketsMatch, ctrlVars, checkVars, joinVars, netVars, omanagerVars
<1>1. ASSUME NEW n \in Node, Start(n) PROVE SocketsMatch'
  BY <1>1 DEF Start, Broadcast
<1>2. ASSUME NEW n \in Node, CJQRetry(n) PROVE SocketsMatch'
  BY <1>2 DEF CJQRetry, Broadcast
<1>3. ASSUME NEW n \in Node, NEW p \in cjqResponse, CJQResponse(n, p) PROVE SocketsMatch'
  BY <1>3 DEF CJQResponse, CloseSocket
<1>4. ASSUME NEW n \in Node, CGraphGet(n) PROVE SocketsMatch'
  BY <1>4 DEF CGraphGet
<1>5. ASSUME NEW n \in Node, JoinSucceeds(n) PROVE SocketsMatch'
  BY <1>5 DEF JoinSucceeds
<1>6. ASSUME NEW n \in Node, JoinFails(n) PROVE SocketsMatch'
  BY <1>6 DEF JoinFails
<1>7. ASSUME NEW n \in Node, CJQTimeout(n) PROVE SocketsMatch'
  BY <1>7 DEF CJQTimeout, CloseSocket
<1>8. ASSUME NEW n \in Node, Crash(n) PROVE SocketsMatch'
  BY <1>8 DEF Crash, CloseSocket
<1>9. ASSUME NEW n \in Node, CHeartbeat(n) PROVE SocketsMatch'
  BY <1>9 DEF CHeartbeat
<1>10. ASSUME NEW r \in cjqRequest, CJQRequest(r) PROVE SocketsMatch'
  BY <1>10 DEF CJQRequest
<1>11. ASSUME NEW m \in tcp, CGraphUpdate(m) PROVE SocketsMatch'
  BY <1>11 DEF CGraphUpdate
<1>12. ASSUME NEW m \in tcp, CJQAbort(m) PROVE SocketsMatch'
  BY <1>12 DEF CJQAbort
<1>13. CASE CHeartbeatCheck
  BY <1>13 DEF CHeartbeatCheck
<1>14. CASE CollectHeartbeats
  BY <1>14 DEF CollectHeartbeats
<1>15. CASE CHeartbeatReset
  BY <1>15 DEF CHeartbeatReset
<1>16. ASSUME NEW n \in Node, NodeFailure(n) PROVE SocketsMatch'
  BY <1>16 DEF NodeFailure
<1>17. CASE OManagerUpdate
  BY <1>17 DEF OManagerUpdate
<1>18. ASSUME NEW r \in cjqRequest, LoseRequest(r) PROVE SocketsMatch'
  BY <1>18 DEF LoseRequest
<1>19. ASSUME NEW p \in cjqResponse, LoseResponse(p) PROVE SocketsMatch'
  BY <1>19 DEF LoseResponse
<1>20. CASE UNCHANGED vars
  BY <1>20 DEF vars
<1>21. QED
  BY <1>1, <1>2, <1>3, <1>4, <1>5, <1>6, <1>7, <1>8, <1>9, <1>10, <1>11, <1>12,
     <1>13, <1>14, <1>15, <1>16, <1>17, <1>18, <1>19, <1>20
     DEF Next, Joiner, LeaderEvent, HeartbeatTask

\* Every step keeps OneJoinAtATime: it makes no claim, or turns the only claim
\* into the next one, or is the acceptance that finds no claim.
LEMMA ExclusionStep ==
  TypeOK /\ SocketsMatch /\ OneJoinAtATime /\ [Next]_vars => OneJoinAtATime'
<1> SUFFICES ASSUME TypeOK, SocketsMatch, OneJoinAtATime, [Next]_vars
             PROVE  OneJoinAtATime'
  OBVIOUS
<1> DEFINE Same == Claim' \subseteq Claim /\ adding_new_node' = adding_new_node
           Only(c) == Claim' \subseteq {c} /\ adding_new_node'
<1> USE MessageFields DEF ctrlVars, checkVars, joinVars, netVars, omanagerVars
<1>a. Same => OneJoinAtATime'
  BY DEF OneJoinAtATime
<1>b. ASSUME NEW c, Only(c) PROVE OneJoinAtATime'
  BY <1>b DEF OneJoinAtATime
<1>c. Claim' = {} => OneJoinAtATime'
  BY DEF OneJoinAtATime
<1>d. ASSUME NEW c \in Claim PROVE Claim = {c} /\ adding_new_node = TRUE
  BY <1>d DEF OneJoinAtATime, TypeOK
<1> HIDE DEF Same, Only
<1>1. ASSUME NEW n \in Node, Start(n) PROVE OneJoinAtATime'
  BY <1>1, <1>a DEF Same, Start, Broadcast, Claim, TypeOK
<1>2. ASSUME NEW n \in Node, CJQRetry(n) PROVE OneJoinAtATime'
  BY <1>2, <1>a DEF Same, CJQRetry, Broadcast, Claim, TypeOK
<1>3. ASSUME NEW n \in Node, NEW p \in cjqResponse, CJQResponse(n, p) PROVE OneJoinAtATime'
  <2>1. CASE p.kind = "Accepted"
    <3>1. <<"accepted", n>> \in Claim
      BY <1>3, <2>1 DEF CJQResponse, Claim
    <3>2. Claim = {<<"accepted", n>>} /\ adding_new_node
      BY <3>1, <1>d
    <3>3. Claim' \subseteq (Claim \cup {<<"joining", n>>}) \ {<<"accepted", n>>}
      BY <1>3, <2>1 DEF CJQResponse, CloseSocket, Claim, TypeOK
    <3> QED
      BY <1>3, <3>2, <3>3, <1>b DEF Only, CJQResponse
  <2>2. CASE p.kind # "Accepted"
    BY <1>3, <2>2, <1>a DEF Same, CJQResponse, CloseSocket, Claim, TypeOK
  <2> QED
    BY <2>1, <2>2
<1>4. ASSUME NEW n \in Node, CGraphGet(n) PROVE OneJoinAtATime'
  BY <1>4, <1>a DEF Same, CGraphGet, Claim, TypeOK
<1>5. ASSUME NEW n \in Node, JoinSucceeds(n) PROVE OneJoinAtATime'
  <2> DEFINE m == [type |-> "Update", from |-> n, graph |-> graph[n] \cup {n}]
  <2>1. <<"joining", n>> \in Claim
    BY <1>5 DEF JoinSucceeds, Claim
  <2>2. Claim = {<<"joining", n>>} /\ adding_new_node
    BY <2>1, <1>d
  <2>3. Claim' \subseteq (Claim \cup {<<"sent", m>>}) \ {<<"joining", n>>}
    BY <1>5 DEF JoinSucceeds, Claim, TypeOK
  <2> QED
    BY <1>5, <2>2, <2>3, <1>b DEF Only, JoinSucceeds
<1>6. ASSUME NEW n \in Node, JoinFails(n) PROVE OneJoinAtATime'
  <2> DEFINE m == [type |-> "Abort", from |-> n]
  <2>1. <<"joining", n>> \in Claim
    BY <1>6 DEF JoinFails, Claim
  <2>2. Claim = {<<"joining", n>>} /\ adding_new_node
    BY <2>1, <1>d
  <2>3. Claim' \subseteq (Claim \cup {<<"sent", m>>}) \ {<<"joining", n>>}
    BY <1>6 DEF JoinFails, Claim, TypeOK
  <2> QED
    BY <1>6, <2>2, <2>3, <1>b DEF Only, JoinFails
<1>7. ASSUME NEW n \in Node, CJQTimeout(n) PROVE OneJoinAtATime'
  BY <1>7, <1>a DEF Same, CJQTimeout, CloseSocket, Claim, TypeOK
<1>8. ASSUME NEW n \in Node, Crash(n) PROVE OneJoinAtATime'
  BY <1>8, <1>a DEF Same, Crash, CloseSocket, Claim, TypeOK
<1>9. ASSUME NEW n \in Node, CHeartbeat(n) PROVE OneJoinAtATime'
  BY <1>9, <1>a DEF Same, CHeartbeat, Claim, TypeOK
<1>10. ASSUME NEW r \in cjqRequest, CJQRequest(r) PROVE OneJoinAtATime'
  <2>1. CASE adding_new_node
    <3>1. Claim' \subseteq Claim
      BY <1>10, <2>1 DEF CJQRequest, Claim
    <3> QED
      BY <1>10, <2>1, <3>1, <1>a DEF Same, CJQRequest, TypeOK
  <2>2. CASE ~adding_new_node
    <3>1. Claim = {}
      BY <2>2 DEF OneJoinAtATime
    <3>2. Claim' \subseteq Claim \cup {<<"accepted", r.from>>}
      BY <1>10, <2>2 DEF CJQRequest, Claim
    <3> QED
      BY <1>10, <3>1, <3>2, <1>b DEF Only, CJQRequest
  <2> QED
    BY <2>1, <2>2
<1>11. ASSUME NEW m \in tcp, CGraphUpdate(m) PROVE OneJoinAtATime'
  <2>1. Claim = {<<"sent", m>>}
    BY <1>d DEF Claim
  <2>2. Claim' \subseteq Claim \ {<<"sent", m>>}
    BY <1>11 DEF CGraphUpdate, Claim, TypeOK
  <2> QED
    BY <2>1, <2>2, <1>c
<1>12. ASSUME NEW m \in tcp, CJQAbort(m) PROVE OneJoinAtATime'
  <2>1. Claim = {<<"sent", m>>}
    BY <1>d DEF Claim
  <2>2. Claim' \subseteq Claim \ {<<"sent", m>>}
    BY <1>12 DEF CJQAbort, Claim, TypeOK
  <2> QED
    BY <2>1, <2>2, <1>c
<1>13. CASE CHeartbeatCheck
  BY <1>13, <1>a DEF Same, CHeartbeatCheck, Claim, TypeOK
<1>14. CASE CollectHeartbeats
  BY <1>14, <1>a DEF Same, CollectHeartbeats, Claim, TypeOK
<1>15. CASE CHeartbeatReset
  BY <1>15, <1>a DEF Same, CHeartbeatReset, Claim, TypeOK
<1>16. ASSUME NEW n \in Node, NodeFailure(n) PROVE OneJoinAtATime'
  BY <1>16, <1>a DEF Same, NodeFailure, Claim, TypeOK
<1>17. CASE OManagerUpdate
  BY <1>17, <1>a DEF Same, OManagerUpdate, Claim, TypeOK
<1>18. ASSUME NEW r \in cjqRequest, LoseRequest(r) PROVE OneJoinAtATime'
  BY <1>18, <1>a DEF Same, LoseRequest, Claim, TypeOK
<1>19. ASSUME NEW p \in cjqResponse, LoseResponse(p) PROVE OneJoinAtATime'
  BY <1>19, <1>a DEF Same, LoseResponse, Claim, TypeOK
<1>20. CASE UNCHANGED vars
  BY <1>20, <1>a DEF Same, vars, Claim, TypeOK
<1>21. QED
  BY <1>1, <1>2, <1>3, <1>4, <1>5, <1>6, <1>7, <1>8, <1>9, <1>10, <1>11, <1>12,
     <1>13, <1>14, <1>15, <1>16, <1>17, <1>18, <1>19, <1>20
     DEF Next, Joiner, LeaderEvent, HeartbeatTask

-----------------------------------------------------------------------------
(***************************************************************************)
(* Joins and heartbeat checks work on old copies of the graph.              *)
(***************************************************************************)

\* The clone a heartbeat check works on holds members only.
CheckWithin == check \in {"collecting", "reporting"} => remaining \subseteq cgraph

\* The leader's event loop has not panicked.
CtrlRuns == "Ctrl" \notin panicked

\* The leader's graph only grows by an update and only shrinks by a NodeFailure,
\* which takes the node out of the check's clone too.
LEMMA GraphStep ==
  TypeOK /\ OneJoinAtATime /\ JoinKeepsMembers /\ CheckWithin /\ CtrlRuns /\ [Next]_vars
    => JoinKeepsMembers' /\ CheckWithin' /\ CtrlRuns'
<1> SUFFICES ASSUME TypeOK, OneJoinAtATime, JoinKeepsMembers, CheckWithin, CtrlRuns,
                    [Next]_vars
             PROVE  JoinKeepsMembers' /\ CheckWithin' /\ CtrlRuns'
  OBVIOUS
<1> DEFINE Goal == JoinKeepsMembers' /\ CheckWithin' /\ CtrlRuns'
<1> USE DEF TypeOK, JoinKeepsMembers, CheckWithin, CtrlRuns,
            ctrlVars, checkVars, joinVars, netVars, omanagerVars
<1>1. ASSUME NEW n \in Node, Start(n) PROVE Goal
  BY <1>1 DEF Start, Broadcast
<1>2. ASSUME NEW n \in Node, CJQRetry(n) PROVE Goal
  BY <1>2 DEF CJQRetry, Broadcast
<1>3. ASSUME NEW n \in Node, NEW p \in cjqResponse, CJQResponse(n, p) PROVE Goal
  BY <1>3 DEF CJQResponse
<1>4. ASSUME NEW n \in Node, CGraphGet(n) PROVE Goal
  BY <1>4 DEF CGraphGet
<1>5. ASSUME NEW n \in Node, JoinSucceeds(n) PROVE Goal
  BY <1>5 DEF JoinSucceeds
<1>6. ASSUME NEW n \in Node, JoinFails(n) PROVE Goal
  BY <1>6 DEF JoinFails
<1>7. ASSUME NEW n \in Node, CJQTimeout(n) PROVE Goal
  BY <1>7 DEF CJQTimeout
<1>8. ASSUME NEW n \in Node, Crash(n) PROVE Goal
  BY <1>8 DEF Crash
<1>9. ASSUME NEW n \in Node, CHeartbeat(n) PROVE Goal
  BY <1>9 DEF CHeartbeat
<1>10. ASSUME NEW r \in cjqRequest, CJQRequest(r) PROVE Goal
  BY <1>10 DEF CJQRequest
<1>11. ASSUME NEW m \in tcp, CGraphUpdate(m) PROVE Goal
  <2>1. Claim = {<<"sent", m>>}
    <3>1. <<"sent", m>> \in Claim
      BY DEF Claim
    <3> QED
      BY <3>1 DEF OneJoinAtATime
  <2>2. ASSUME NEW n \in Node PROVE phase[n] # "testing"
    <3> SUFFICES ASSUME phase[n] = "testing" PROVE FALSE
      OBVIOUS
    <3>1. <<"joining", n>> \in Claim
      BY DEF Claim
    <3> QED
      BY <3>1, <2>1
  <2>3. tcp' = {}
    <3>1. \A q \in tcp : <<"sent", q>> \in Claim
      BY DEF Claim
    <3>2. tcp = {m}
      BY <3>1, <2>1
    <3> QED
      BY <1>11, <3>2 DEF CGraphUpdate
  <2>4. cgraph \subseteq cgraph'
    BY <1>11 DEF CGraphUpdate
  <2> QED
    BY <1>11, <2>2, <2>3, <2>4 DEF CGraphUpdate
<1>12. ASSUME NEW m \in tcp, CJQAbort(m) PROVE Goal
  BY <1>12 DEF CJQAbort
<1>13. CASE CHeartbeatCheck
  BY <1>13 DEF CHeartbeatCheck
<1>14. CASE CollectHeartbeats
  BY <1>14 DEF CollectHeartbeats
<1>15. CASE CHeartbeatReset
  BY <1>15 DEF CHeartbeatReset
<1>16. ASSUME NEW n \in Node, NodeFailure(n) PROVE Goal
  BY <1>16 DEF NodeFailure, Reported
<1>17. CASE OManagerUpdate
  BY <1>17 DEF OManagerUpdate
<1>18. ASSUME NEW r \in cjqRequest, LoseRequest(r) PROVE Goal
  BY <1>18 DEF LoseRequest
<1>19. ASSUME NEW p \in cjqResponse, LoseResponse(p) PROVE Goal
  BY <1>19 DEF LoseResponse
<1>20. CASE UNCHANGED vars
  BY <1>20 DEF vars
<1>21. QED
  BY <1>1, <1>2, <1>3, <1>4, <1>5, <1>6, <1>7, <1>8, <1>9, <1>10, <1>11, <1>12,
     <1>13, <1>14, <1>15, <1>16, <1>17, <1>18, <1>19, <1>20
     DEF Next, Joiner, LeaderEvent, HeartbeatTask

-----------------------------------------------------------------------------
(***************************************************************************)
(* The OManager follows the leader's graph.                                 *)
(***************************************************************************)

\* A host whose removal waits in the channel will be known when it is handled.
RemovalsKnown ==
  \A i \in 1..Len(updates) :
    updates[i].type = "Remove" => updates[i].node \in HostsAfter(i - 1)

\* What appending an update to the channel does to the hosts it leads to.
LEMMA AppendHosts ==
  ASSUME TypeOK, NEW L \in Nat, L = Len(updates),
         NEW u \in Update, updates' = Append(updates, u), UNCHANGED host_mapping
  PROVE  /\ \A i \in 0..L : HostsAfter(i)' = HostsAfter(i)
         /\ u.type = "New" => HostsAfter(L + 1)' = u.graph
         /\ u.type = "Remove"
              => HostsAfter(L + 1)' = HostsAfter(L) \ {u.node}
<1>0. updates \in Seq(Update) /\ L = Len(updates)
  BY DEF TypeOK
<1>1. /\ Len(updates') = L + 1
      /\ \A k \in 1..L : updates'[k] = updates[k]
      /\ updates'[L + 1] = u
  BY <1>0
<1>2. ASSUME NEW i \in 0..L PROVE HostsAfter(i)' = HostsAfter(i)
  <2>1. \A k \in 1..i : updates'[k] = updates[k]
    BY <1>0, <1>1
  <2> QED
    BY <1>0, <2>1 DEF HostsAfter
<1>3. ASSUME u.type = "New" PROVE HostsAfter(L + 1)' = u.graph
  <2>1. u.graph \in SUBSET Node
    BY <1>3, MessageFields
  <2>2. ASSUME NEW n \in HostsAfter(L + 1)' PROVE n \in u.graph
    <3>1. PICK k \in 0..(L + 1) :
            /\ \/ k = 0 /\ n \in host_mapping'
               \/ k > 0 /\ updates'[k].type = "New" /\ n \in updates'[k].graph
            /\ \A j \in (k + 1)..(L + 1) :
                 updates'[j].type = "Remove" /\ updates'[j].node # n
      BY DEF HostsAfter
    <3>2. k = L + 1
      BY <1>0, <1>1, <1>3, <3>1
    <3> QED
      BY <1>0, <1>1, <3>1, <3>2
  <2>3. ASSUME NEW n \in u.graph PROVE n \in HostsAfter(L + 1)'
    <3>1. L + 1 \in 0..(L + 1)
      BY <1>0
    <3>2. ((L + 1) + 1)..(L + 1) = {}
      BY <1>0
    <3>3. L + 1 > 0
      BY <1>0
    <3> QED
      BY <1>1, <1>3, <2>1, <3>1, <3>2, <3>3 DEF HostsAfter
  <2> QED
    BY <2>2, <2>3
<1>4. ASSUME u.type = "Remove"
      PROVE  HostsAfter(L + 1)' = HostsAfter(L) \ {u.node}
  <2>1. ASSUME NEW n \in HostsAfter(L + 1)' PROVE n \in HostsAfter(L) /\ n # u.node
    <3>1. PICK k \in 0..(L + 1) :
            /\ \/ k = 0 /\ n \in host_mapping'
               \/ k > 0 /\ updates'[k].type = "New" /\ n \in updates'[k].graph
            /\ \A j \in (k + 1)..(L + 1) : updates'[j].type = "Remove" /\ updates'[j].node # n
      BY DEF HostsAfter
    <3>2. k \in 0..L
      BY <1>0, <1>1, <1>4, <3>1
    <3>3. n # u.node
      BY <1>0, <1>1, <3>1, <3>2
    <3>4. /\ \/ k = 0 /\ n \in host_mapping
             \/ k > 0 /\ updates[k].type = "New" /\ n \in updates[k].graph
          /\ \A j \in (k + 1)..L : updates[j].type = "Remove" /\ updates[j].node # n
      BY <1>0, <1>1, <3>1, <3>2
    <3>5. n \in Node
      BY DEF HostsAfter
    <3> QED
      BY <3>2, <3>3, <3>4, <3>5 DEF HostsAfter
  <2>2. ASSUME NEW n \in HostsAfter(L), n # u.node PROVE n \in HostsAfter(L + 1)'
    <3>1. PICK k \in 0..L :
            /\ \/ k = 0 /\ n \in host_mapping
               \/ k > 0 /\ updates[k].type = "New" /\ n \in updates[k].graph
            /\ \A j \in (k + 1)..L : updates[j].type = "Remove" /\ updates[j].node # n
      BY DEF HostsAfter
    <3>2. k \in 0..(L + 1)
      BY <1>0
    <3>3. /\ \/ k = 0 /\ n \in host_mapping'
             \/ k > 0 /\ updates'[k].type = "New" /\ n \in updates'[k].graph
          /\ \A j \in (k + 1)..(L + 1) : updates'[j].type = "Remove" /\ updates'[j].node # n
      BY <1>0, <1>1, <1>4, <2>2, <3>1
    <3>4. n \in Node
      BY DEF HostsAfter
    <3> QED
      BY <3>2, <3>3, <3>4 DEF HostsAfter
  <2> QED
    BY <2>1, <2>2
<1> QED
  BY <1>2, <1>3, <1>4

\* What handling the first update does to the hosts the channel leads to.
LEMMA TailHosts ==
  ASSUME TypeOK, RemovalsKnown, OManagerUpdate
  PROVE  /\ "OManager" \notin panicked'
         /\ \A i \in 0..(Len(updates) - 1) : HostsAfter(i)' = HostsAfter(i + 1)
<1> DEFINE L == Len(updates)
<1>0. updates \in Seq(Update) /\ updates # <<>> /\ L \in Nat \ {0}
  BY DEF TypeOK, OManagerUpdate
<1>1. /\ Head(updates) = updates[1]
      /\ updates[1] \in Update
      /\ Len(updates') = L - 1
      /\ \A k \in 1..(L - 1) : updates'[k] = updates[k + 1]
  BY <1>0 DEF OManagerUpdate
<1>2. updates[1].type = "Remove" => updates[1].node \in host_mapping
  <2> SUFFICES ASSUME updates[1].type = "Remove" PROVE updates[1].node \in host_mapping
    OBVIOUS
  <2>1. updates[1].node \in HostsAfter(0)
    BY <1>0 DEF RemovalsKnown
  <2> QED
    BY <2>1 DEF HostsAfter
<1>3. \/ updates[1].type = "New" /\ host_mapping' = updates[1].graph
      \/ updates[1].type = "Remove" /\ host_mapping' = host_mapping \ {updates[1].node}
  BY <1>1, <1>2 DEF OManagerUpdate
<1>4. "OManager" \notin panicked'
  BY <1>1, <1>2 DEF OManagerUpdate
<1>5. ASSUME NEW i \in 0..(L - 1), NEW n \in HostsAfter(i)' PROVE n \in HostsAfter(i + 1)
  <2>1. PICK k \in 0..i :
          /\ \/ k = 0 /\ n \in host_mapping'
             \/ k > 0 /\ updates'[k].type = "New" /\ n \in updates'[k].graph
          /\ \A j \in (k + 1)..i : updates'[j].type = "Remove" /\ updates'[j].node # n
    BY DEF HostsAfter
  <2>2. n \in Node
    BY DEF HostsAfter
  <2>3. \A j \in (k + 2)..(i + 1) : updates[j].type = "Remove" /\ updates[j].node # n
    <3> SUFFICES ASSUME NEW j \in (k + 2)..(i + 1)
                 PROVE  updates[j].type = "Remove" /\ updates[j].node # n
      OBVIOUS
    <3>1. j - 1 \in (k + 1)..i /\ j - 1 \in 1..(L - 1) /\ (j - 1) + 1 = j
      BY <1>0
    <3> QED
      BY <3>1, <2>1, <1>1
  <2>4. CASE k > 0
    <3>1. k \in 1..(L - 1)
      BY <2>4, <1>0
    <3>2. updates[k + 1].type = "New" /\ n \in updates[k + 1].graph
      BY <2>1, <2>4, <3>1, <1>1
    <3>3. (k + 1) \in 0..(i + 1) /\ k + 1 > 0 /\ (k + 1) + 1 = k + 2
      BY <2>4
    <3> QED
      BY <2>2, <2>3, <3>2, <3>3 DEF HostsAfter
  <2>5. CASE k = 0 /\ updates[1].type = "New"
    <3>1. n \in updates[1].graph
      BY <1>3, <2>1, <2>5
    <3>2. 1 \in 0..(i + 1) /\ 1 > 0 /\ 1 + 1 = k + 2
      BY <2>5
    <3> QED
      BY <2>2, <2>3, <2>5, <3>1, <3>2 DEF HostsAfter
  <2>6. CASE k = 0 /\ updates[1].type = "Remove"
    <3>1. n \in host_mapping /\ n # updates[1].node
      BY <1>3, <2>1, <2>6
    <3>2. ASSUME NEW j \in (0 + 1)..(i + 1)
          PROVE  updates[j].type = "Remove" /\ updates[j].node # n
      <4>1. CASE j = 1
        BY <4>1, <2>6, <3>1
      <4>2. CASE j # 1
        <5>1. j \in (k + 2)..(i + 1)
          BY <4>2, <2>6
        <5> QED
          BY <5>1, <2>3
      <4> QED
        BY <4>1, <4>2
    <3>3. 0 \in 0..(i + 1)
      OBVIOUS
    <3>4. \A j \in (0 + 1)..(i + 1) : updates[j].type = "Remove" /\ updates[j].node # n
      BY <3>2
    <3> QED
      BY <2>2, <3>1, <3>3, <3>4 DEF HostsAfter
  <2> QED
    BY <2>4, <2>5, <2>6, <1>3
<1>6. ASSUME NEW i \in 0..(L - 1), NEW n \in HostsAfter(i + 1) PROVE n \in HostsAfter(i)'
  <2>1. PICK k \in 0..(i + 1) :
          /\ \/ k = 0 /\ n \in host_mapping
             \/ k > 0 /\ updates[k].type = "New" /\ n \in updates[k].graph
          /\ \A j \in (k + 1)..(i + 1) : updates[j].type = "Remove" /\ updates[j].node # n
    BY DEF HostsAfter
  <2>2. n \in Node
    BY DEF HostsAfter
  <2>3. \A j \in 1..i : j + 1 \in (k + 1)..(i + 1) =>
          updates'[j].type = "Remove" /\ updates'[j].node # n
    <3> SUFFICES ASSUME NEW j \in 1..i, j + 1 \in (k + 1)..(i + 1)
                 PROVE  updates'[j].type = "Remove" /\ updates'[j].node # n
      OBVIOUS
    <3>1. j \in 1..(L - 1)
      BY <1>0
    <3> QED
      BY <3>1, <2>1, <1>1
  <2>4. CASE k > 1
    <3>1. k - 1 \in 1..(L - 1) /\ (k - 1) + 1 = k /\ k > 0 /\ k # 0
      BY <2>4, <1>0
    <3>2. updates'[k - 1].type = "New" /\ n \in updates'[k - 1].graph
      BY <2>1, <3>1, <1>1
    <3>3. k - 1 \in 0..i /\ k - 1 > 0
      BY <2>4
    <3>4. \A j \in ((k - 1) + 1)..i : updates'[j].type = "Remove" /\ updates'[j].node # n
      BY <2>3, <2>4
    <3> QED
      BY <2>2, <3>2, <3>3, <3>4 DEF HostsAfter
  <2>5. CASE k \in {0, 1}
    <3>1. n \in host_mapping'
      <4>1. CASE k = 1
        BY <2>1, <4>1, <1>3
      <4>2. CASE k = 0
        <5>1. 1 \in (k + 1)..(i + 1)
          BY <4>2
        <5> QED
          BY <2>1, <4>2, <5>1, <1>3
      <4> QED
        BY <2>5, <4>1, <4>2
    <3>2. \A j \in (0 + 1)..i : updates'[j].type = "Remove" /\ updates'[j].node # n
      BY <2>3, <2>5
    <3>3. 0 \in 0..i
      OBVIOUS
    <3> QED
      BY <2>2, <3>1, <3>2, <3>3 DEF HostsAfter
  <2> QED
    BY <2>4, <2>5
<1> QED
  BY <1>4, <1>5, <1>6

\* Every step keeps the hosts the channel leads to equal to the leader's graph,
\* and the OManager alive.
LEMMA QueueStep ==
  TypeOK /\ JoinKeepsMembers /\ CheckWithin /\ CtrlRuns
    /\ OrchestratorFollows /\ RemovalsKnown /\ NoPanic /\ [Next]_vars
    => OrchestratorFollows' /\ RemovalsKnown' /\ NoPanic'
<1> SUFFICES ASSUME TypeOK, JoinKeepsMembers, CheckWithin, CtrlRuns,
                    OrchestratorFollows, RemovalsKnown, NoPanic, [Next]_vars
             PROVE  OrchestratorFollows' /\ RemovalsKnown' /\ NoPanic'
  OBVIOUS
<1> DEFINE Goal == OrchestratorFollows' /\ RemovalsKnown' /\ NoPanic'
<1> USE DEF ctrlVars, checkVars, joinVars, netVars, omanagerVars
<1>t. updates \in Seq(Update) /\ Len(updates) \in Nat
  BY DEF TypeOK
\* A step that leaves the channel, its ends and the graph alone.
<1>h. ASSUME UNCHANGED <<cgraph, updates, host_mapping>>, NoPanic' PROVE Goal
  <2>1. \A i : HostsAfter(i)' = HostsAfter(i)
    BY <1>h DEF HostsAfter
  <2>2. Len(updates)' = Len(updates)
    BY <1>h
  <2> QED
    BY <1>h, <2>1, <2>2 DEF OrchestratorFollows, RemovalsKnown
<1>a. ASSUME UNCHANGED <<cgraph, omanagerVars>> PROVE Goal
  BY <1>a, <1>h DEF NoPanic
\* A step that changes the graph and says so.
<1>b. ASSUME NEW u \in Update, updates' = Append(updates, u),
             UNCHANGED <<host_mapping, panicked>>,
             \/ u.type = "New" /\ cgraph' = u.graph
             \/ u.type = "Remove" /\ u.node \in cgraph /\ cgraph' = cgraph \ {u.node}
      PROVE  Goal
  <2>0. PICK L \in Nat : L = Len(updates)
    BY <1>t
  <2>1. /\ \A i \in 0..L : HostsAfter(i)' = HostsAfter(i)
        /\ u.type = "New" => HostsAfter(L + 1)' = u.graph
        /\ u.type = "Remove" => HostsAfter(L + 1)' = HostsAfter(L) \ {u.node}
    BY <1>b, <2>0, AppendHosts
  <2>2. /\ Len(updates') = L + 1
        /\ \A k \in 1..L : updates'[k] = updates[k]
        /\ updates'[L + 1] = u
    BY <1>b, <1>t, <2>0
  <2>3. HostsAfter(L) = cgraph
    BY <2>0 DEF OrchestratorFollows
  <2>4. OrchestratorFollows'
    <3>1. HostsAfter(L + 1)' = cgraph'
      BY <1>b, <2>1, <2>3
    <3> QED
      BY <3>1, <2>2 DEF OrchestratorFollows
  <2>5. RemovalsKnown'
    <3> SUFFICES ASSUME NEW i \in 1..(L + 1), updates'[i].type = "Remove"
                 PROVE  updates'[i].node \in HostsAfter(i - 1)'
      BY <2>2 DEF RemovalsKnown
    <3>1. CASE i \in 1..L
      <4>1. updates[i].node \in HostsAfter(i - 1)
        BY <3>1, <2>0, <2>2 DEF RemovalsKnown
      <4>2. i - 1 \in 0..L
        BY <3>1
      <4> QED
        BY <3>1, <4>1, <4>2, <2>1, <2>2
    <3>2. CASE i = L + 1
      <4>1. u.node \in HostsAfter(L)
        BY <1>b, <2>2, <2>3, <3>2
      <4>2. i - 1 = L /\ L \in 0..L
        BY <3>2
      <4> QED
        BY <4>1, <4>2, <2>1, <2>2, <3>2
    <3> QED
      BY <3>1, <3>2
  <2> QED
    BY <1>b, <2>4, <2>5 DEF NoPanic
<1>11. ASSUME NEW m \in tcp, CGraphUpdate(m) PROVE Goal
  <2>1. m.graph \in SUBSET Node
    BY <1>11, MessageFields DEF CGraphUpdate, TypeOK
  <2> DEFINE u == [type |-> "New", graph |-> m.graph]
  <2>2. u \in Update /\ u.type = "New" /\ u.graph = m.graph
    BY <2>1 DEF Update
  <2>3. updates' = Append(updates, u) /\ cgraph' = m.graph /\ UNCHANGED <<host_mapping, panicked>>
    BY <1>11 DEF CGraphUpdate, Notify, NoPanic
  <2> HIDE DEF u
  <2> QED
    BY <2>2, <2>3, <1>b
<1>16. ASSUME NEW n \in Node, NodeFailure(n) PROVE Goal
  <2>1. n \in cgraph
    BY <1>16 DEF NodeFailure, CheckWithin
  <2> DEFINE u == [type |-> "Remove", node |-> n]
  <2>2. u \in Update /\ u.type = "Remove" /\ u.node = n
    BY DEF Update
  <2>3. \/ /\ updates' = Append(updates, u)
           /\ cgraph' = cgraph \ {n}
           /\ UNCHANGED <<host_mapping, panicked>>
        \/ UNCHANGED <<cgraph, omanagerVars>>
    BY <1>16, <2>1 DEF NodeFailure, Notify, NoPanic
  <2> HIDE DEF u
  <2> QED
    BY <2>1, <2>2, <2>3, <1>a, <1>b
<1>17. CASE OManagerUpdate
  <2>0. PICK L \in Nat \ {0} : L = Len(updates)
    BY <1>17, <1>t DEF OManagerUpdate
  <2>1. /\ "OManager" \notin panicked'
        /\ \A i \in 0..(L - 1) : HostsAfter(i)' = HostsAfter(i + 1)
    BY <1>17, <2>0, TailHosts
  <2>2. /\ Len(updates') = L - 1
        /\ \A k \in 1..(L - 1) : updates'[k] = updates[k + 1]
        /\ UNCHANGED cgraph
    BY <1>17, <1>t, <2>0 DEF OManagerUpdate
  <2>3. OrchestratorFollows'
    <3>1. L - 1 \in 0..(L - 1) /\ (L - 1) + 1 = L
      OBVIOUS
    <3>2. HostsAfter(L - 1)' = HostsAfter(L)
      BY <3>1, <2>1
    <3> QED
      BY <3>2, <2>0, <2>2 DEF OrchestratorFollows
  <2>4. RemovalsKnown'
    <3> SUFFICES ASSUME NEW i \in 1..(L - 1), updates'[i].type = "Remove"
                 PROVE  updates'[i].node \in HostsAfter(i - 1)'
      BY <2>2 DEF RemovalsKnown
    <3>1. i + 1 \in 1..L /\ (i + 1) - 1 = i /\ i - 1 \in 0..(L - 1) /\ (i - 1) + 1 = i
      OBVIOUS
    <3>2. updates[i + 1].node \in HostsAfter(i)
      BY <2>0, <2>2, <3>1 DEF RemovalsKnown
    <3> QED
      BY <2>1, <2>2, <3>1, <3>2
  <2>5. NoPanic'
    BY <1>17, <2>1 DEF OManagerUpdate, NoPanic
  <2> QED
    BY <2>3, <2>4, <2>5
<1>18. ASSUME NEW n \in Node, Start(n) \/ Joiner(n) \/ Crash(n) \/ CHeartbeat(n) PROVE Goal
  BY <1>18, <1>a DEF Start, Joiner, Crash, CHeartbeat, CJQRetry, CJQResponse, CGraphGet,
                     JoinSucceeds, JoinFails, CJQTimeout
<1>19. ASSUME NEW r \in cjqRequest, CJQRequest(r) \/ LoseRequest(r) PROVE Goal
  BY <1>19, <1>a DEF CJQRequest, LoseRequest
<1>20. ASSUME NEW m \in tcp, CJQAbort(m) PROVE Goal
  BY <1>20, <1>a DEF CJQAbort
<1>21. ASSUME NEW p \in cjqResponse, LoseResponse(p) PROVE Goal
  BY <1>21, <1>a DEF LoseResponse
<1>22. CASE CollectHeartbeats \/ CHeartbeatReset
  BY <1>22, <1>a DEF CollectHeartbeats, CHeartbeatReset
\* The heartbeat task may end, which is nothing to the channel and its ends.
<1>24. CASE CHeartbeatCheck
  <2>1. UNCHANGED <<cgraph, updates, host_mapping>>
    BY <1>24 DEF CHeartbeatCheck
  <2>2. NoPanic'
    BY <1>24 DEF CHeartbeatCheck, NoPanic
  <2> QED
    BY <2>1, <2>2, <1>h
<1>23. CASE UNCHANGED vars
  BY <1>23, <1>a DEF vars
<1> QED
  BY <1>11, <1>16, <1>17, <1>18, <1>19, <1>20, <1>21, <1>22, <1>23, <1>24
     DEF Next, LeaderEvent, HeartbeatTask

-----------------------------------------------------------------------------
(***************************************************************************)
(* The inductive invariant and the theorems.                                *)
(***************************************************************************)
IInv ==
  /\ TypeOK
  /\ SocketsMatch
  /\ OneJoinAtATime
  /\ JoinKeepsMembers
  /\ CheckWithin
  /\ CtrlRuns
  /\ OrchestratorFollows
  /\ RemovalsKnown
  /\ NoPanic

\* The inductive invariant holds at the start.
LEMMA InitIInv == Init => IInv
<1> SUFFICES ASSUME Init PROVE IInv
  OBVIOUS
<1>1. TypeOK
  BY InitTypeOK
<1>2. SocketsMatch /\ JoinKeepsMembers /\ CheckWithin /\ CtrlRuns /\ NoPanic
  BY DEF Init, SocketsMatch, JoinKeepsMembers, CheckWithin, CtrlRuns, NoPanic
<1>3. OneJoinAtATime
  BY DEF Init, OneJoinAtATime, Claim
<1>4. Len(updates) = 0 /\ host_mapping = cgraph /\ cgraph \subseteq Node
  BY LeaderAssumption DEF Init
<1>5. HostsAfter(0) = cgraph
  BY <1>4 DEF HostsAfter
<1>6. OrchestratorFollows /\ RemovalsKnown
  BY <1>4, <1>5 DEF OrchestratorFollows, RemovalsKnown
<1> QED
  BY <1>1, <1>2, <1>3, <1>6 DEF IInv

\* Every behaviour of the cluster manager satisfies the inductive invariant.
THEOREM Invariance == Spec => []IInv
<1>1. IInv /\ [Next]_vars => IInv'
  BY TypeStep, SocketsStep, ExclusionStep, GraphStep, QueueStep DEF IInv
<1> QED
  BY InitIInv, <1>1, PTL DEF Spec

\* At most one node at a time is adding itself to the cluster, whatever the
\* network, the timeouts and the crashes do.
THEOREM JoinExclusion == Spec => []OneJoinAtATime
<1>1. IInv => OneJoinAtATime
  BY DEF IInv
<1> QED
  BY Invariance, <1>1, PTL

\* The graph a joining node sends back holds every member of the leader's.
THEOREM MembersKept == Spec => []JoinKeepsMembers
<1>1. IInv => JoinKeepsMembers
  BY DEF IInv
<1> QED
  BY Invariance, <1>1, PTL

\* No unwrap or assertion ends the leader's event loop or its OManager.
THEOREM NeverPanics == Spec => []NoPanic
<1>1. IInv => NoPanic
  BY DEF IInv
<1> QED
  BY Invariance, <1>1, PTL

\* The updates on their way bring the orchestrator's hosts to the leader's graph.
THEOREM HostsFollow == Spec => []OrchestratorFollows
<1>1. IInv => OrchestratorFollows
  BY DEF IInv
<1> QED
  BY Invariance, <1>1, PTL

\* A node leaves the graph only by a NodeFailure at the limit of its misses.
THEOREM LeavingIsEarned == Spec => LeavesOnlyWhenLost
<1> DEFINE Earned == \A n \in cgraph \ cgraph' :
                       /\ check = "reporting"
                       /\ n \in remaining
                       /\ heartbeat_misses[n] + 1 >= HeartbeatMisses
<1>1. IInv /\ [Next]_vars => [Earned]_vars
  <2> SUFFICES ASSUME IInv, Next PROVE Earned
    OBVIOUS
  <2> USE DEF ctrlVars, checkVars, joinVars, netVars, omanagerVars
  <2>a. UNCHANGED cgraph => Earned
    OBVIOUS
  <2>1. ASSUME NEW m \in tcp, CGraphUpdate(m) PROVE Earned
    BY <2>1 DEF CGraphUpdate, IInv, JoinKeepsMembers
  <2>2. ASSUME NEW n \in Node, NodeFailure(n) PROVE Earned
    BY <2>2 DEF NodeFailure, Lost
  <2>3. ASSUME NEW n \in Node, Start(n) \/ Joiner(n) \/ Crash(n) \/ CHeartbeat(n)
        PROVE  UNCHANGED cgraph
    BY <2>3 DEF Start, Joiner, Crash, CHeartbeat, CJQRetry, CJQResponse, CGraphGet,
                JoinSucceeds, JoinFails, CJQTimeout
  <2>4. ASSUME NEW r \in cjqRequest, CJQRequest(r) \/ LoseRequest(r) PROVE UNCHANGED cgraph
    BY <2>4 DEF CJQRequest, LoseRequest
  <2>5. ASSUME NEW m \in tcp, CJQAbort(m) PROVE UNCHANGED cgraph
    BY <2>5 DEF CJQAbort
  <2>6. ASSUME NEW p \in cjqResponse, LoseResponse(p) PROVE UNCHANGED cgraph
    BY <2>6 DEF LoseResponse
  <2>7. CHeartbeatCheck \/ CollectHeartbeats \/ CHeartbeatReset \/ OManagerUpdate
          => UNCHANGED cgraph
    BY DEF CHeartbeatCheck, CollectHeartbeats, CHeartbeatReset, OManagerUpdate
  <2> HIDE DEF Earned
  <2> QED
    BY <2>a, <2>1, <2>2, <2>3, <2>4, <2>5, <2>6, <2>7 DEF Next, LeaderEvent, HeartbeatTask
<1> QED
  BY Invariance, <1>1, PTL DEF Spec, LeavesOnlyWhenLost
=============================================================================
