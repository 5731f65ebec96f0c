--------------------------- MODULE StartSyncProofs ---------------------------
(***************************************************************************)
(* Proofs about StartSync: for any number of hosts, any delays and any      *)
(* clock skews, the cores that begin agree on the begin time, and the ring  *)
(* implements CommonStart.                                                  *)
(***************************************************************************)
EXTENDS StartSync, TLAPS

\* A proposal in flight is the leader's current one, nothing has been validated
\* and nobody has committed; the cores it has passed have registered it.
ProposalOpen ==
  token.kind = "EmulStart" =>
    /\ validated = {}
    /\ token.time = begin_time[0]
    /\ \A c \in Core : c < token.to \/ token.to = 0 => begin_time[c] = begin_time[0]

\* Once a proposal is validated all the cores hold the leader's begin time.
ValidatedHeld ==
  validated # {} => \A c \in Core : begin_time[c] = begin_time[0]

\* A core commits only after the validation.
CommittedValidated ==
  /\ token.kind = "EmulStartOk" => validated # {}
  /\ \A c \in Core : Committed(c) => validated # {}

IInv == TypeOK /\ ProposalOpen /\ ValidatedHeld /\ CommittedValidated

-----------------------------------------------------------------------------
\* The cores form a ring with the first core in it.
LEMMA CoreFacts ==
  /\ Core \subseteq Nat
  /\ 0 \in Core /\ 1 \in Core
  /\ \A c \in Core : Next_host(c) \in Core
BY NAssumption DEF Core, Next_host

\* TypeOK holds initially.
LEMMA TypeInit == Init => TypeOK
BY CoreFacts, TimeAssumption
   DEF Init, TypeOK, Phase, Kind

\* Every step keeps TypeOK.
LEMMA TypeNext == TypeOK /\ [Next]_vars => TypeOK'
<1> SUFFICES ASSUME TypeOK, [Next]_vars PROVE TypeOK'
  OBVIOUS
<1> USE CoreFacts, TimeAssumption DEF TypeOK, Kind, Phase
<1>1. CASE LeaderEmulStart
  <2>1. CASE validated' = {now} /\ Send(0, "EmulStartOk", 0) /\ UNCHANGED <<time, begin_time>>
    BY <1>1, <2>1 DEF LeaderEmulStart, Send
  <2>2. CASE /\ begin_time' = [begin_time EXCEPT ![0] = Wall(0) + 2 * (now - time) + Extra]
             /\ Send(0, "EmulStart", Wall(0) + 2 * (now - time) + Extra)
             /\ time' = now
             /\ UNCHANGED validated
    <3>1. Wall(0) + 2 * (now - time) + Extra \in Nat
      BY DEF Wall
    <3> QED
      BY <1>1, <2>2, <3>1 DEF LeaderEmulStart, Send
  <2> QED
    BY <1>1, <2>1, <2>2 DEF LeaderEmulStart
<1>2. ASSUME NEW c \in Core, EmulStart(c) PROVE TypeOK'
  <2>1. token.time \in Nat /\ Next_host(c) \in Core
    BY <1>2 DEF EmulStart
  <2> QED
    BY <1>2, <2>1 DEF EmulStart, Send
<1>3. ASSUME NEW c \in Core, EmulStartOk(c) PROVE TypeOK'
  BY <1>3 DEF EmulStartOk, Receive, Send, NoToken
<1>4. ASSUME NEW c \in Core, SendFails(c) PROVE TypeOK'
  BY <1>4 DEF SendFails, NoToken
<1>5. ASSUME NEW c \in Core, Begin(c) PROVE TypeOK'
  BY <1>5 DEF Begin
<1>6. ASSUME NEW c \in Core, Crash(c) \/ Reboot(c) PROVE TypeOK'
  BY <1>6 DEF Crash, Reboot
<1>7. CASE Drop
  BY <1>7 DEF Drop, NoToken
<1>8. CASE Tick
  BY <1>8 DEF Tick
<1>9. CASE UNCHANGED vars
  BY <1>9 DEF vars
<1> QED
  BY <1>1, <1>2, <1>3, <1>4, <1>5, <1>6, <1>7, <1>8, <1>9
     DEF Next, Deliver, Abort

\* TypeCorrect: synchronize keeps its state well-typed, whatever the delays: TypeOK
\* is an invariant for every number of hosts.
THEOREM TypeCorrect == Spec => []TypeOK
BY TypeInit, TypeNext, PTL DEF Spec

-----------------------------------------------------------------------------
\* The inductive invariant holds initially.
LEMMA InvInit == Init => IInv
<1> SUFFICES ASSUME Init PROVE IInv
  OBVIOUS
<1>1. TypeOK
  BY TypeInit
<1>2. ProposalOpen
  BY CoreFacts DEF Init, ProposalOpen, Core
<1>3. ValidatedHeld /\ CommittedValidated
  BY DEF Init, ValidatedHeld, CommittedValidated, Committed
<1> QED
  BY <1>1, <1>2, <1>3 DEF IInv

\* What a leader that handles its own proposal knows: it has passed every core.
LEMMA ProposalBack ==
  ASSUME IInv, Receive(0, "EmulStart")
  PROVE  /\ validated = {}
         /\ token.time = begin_time[0]
         /\ \A c \in Core : begin_time[c] = begin_time[0]
         /\ \A c \in Core : ~Committed(c)
BY DEF IInv, ProposalOpen, Receive, CommittedValidated

\* Every step keeps the inductive invariant.
LEMMA InvNext == IInv /\ [Next]_vars => IInv'
<1> SUFFICES ASSUME IInv, [Next]_vars PROVE IInv'
  OBVIOUS
<1>t. TypeOK'
  BY TypeNext DEF IInv
<1>u. TypeOK
  BY DEF IInv
<1> USE CoreFacts
<1>1. CASE LeaderEmulStart
  <2>1. Receive(0, "EmulStart")
    BY <1>1 DEF LeaderEmulStart
  <2>2. CASE validated' = {now}
    <3>1. /\ begin_time' = begin_time /\ phase' = phase
          /\ token'.kind = "EmulStartOk"
      BY <1>1, <2>1, <2>2, ProposalBack DEF LeaderEmulStart, Send
    <3> QED
      BY <1>t, <2>1, <2>2, <3>1, ProposalBack
         DEF IInv, ProposalOpen, ValidatedHeld, CommittedValidated, Committed
  <2>3. CASE UNCHANGED validated
    <3>1. /\ validated' = {} /\ phase' = phase
          /\ token'.kind = "EmulStart" /\ token'.to = 1 /\ token'.time = begin_time'[0]
      <4>1. CASE ~EnoughTime /\ begin_time' = [begin_time EXCEPT
                   ![0] = Wall(0) + 2 * (now - time) + Extra]
                 /\ Send(0, "EmulStart", Wall(0) + 2 * (now - time) + Extra)
        BY <1>1, <2>1, <2>3, <4>1, <1>u, ProposalBack, NAssumption
           DEF LeaderEmulStart, Send, Next_host, TypeOK
      <4> QED
        BY <1>1, <2>1, <2>3, <4>1, ProposalBack DEF LeaderEmulStart
    <3>2. \A c \in Core : c < 1 => c = 0
      BY DEF Core
    <3> QED
      BY <1>t, <2>1, <3>1, <3>2, ProposalBack
         DEF IInv, ProposalOpen, ValidatedHeld, CommittedValidated, Committed
  <2> QED
    BY <1>1, <2>2, <2>3 DEF LeaderEmulStart
<1>2. ASSUME NEW c \in Core, EmulStart(c) PROVE IInv'
  <2>1. /\ token.kind = "EmulStart" /\ token.to = c /\ c # 0
        /\ begin_time' = [begin_time EXCEPT ![c] = begin_time[0]]
        /\ validated' = {} /\ validated = {} /\ phase' = phase
        /\ token'.kind = "EmulStart" /\ token'.to = Next_host(c)
        /\ token'.time = begin_time[0]
    BY <1>2 DEF EmulStart, Receive, Send, IInv, ProposalOpen
  <2>2. begin_time'[0] = begin_time[0]
    BY <2>1, <1>u DEF TypeOK
  <2>3. ASSUME NEW d \in Core, d < Next_host(c) \/ Next_host(c) = 0
        PROVE  begin_time'[d] = begin_time[0]
    <3>1. d = c \/ d < c
      BY <2>3, NAssumption DEF Next_host, Core
    <3> QED
      BY <3>1, <2>1, <1>u DEF IInv, ProposalOpen, TypeOK
  <2> QED
    BY <1>t, <2>1, <2>2, <2>3
       DEF IInv, ProposalOpen, ValidatedHeld, CommittedValidated, Committed
<1>3. ASSUME NEW c \in Core, EmulStartOk(c) PROVE IInv'
  <2>1. /\ begin_time' = begin_time /\ validated' = validated /\ validated # {}
        /\ token'.kind # "EmulStart"
    BY <1>3 DEF EmulStartOk, Receive, Send, NoToken, IInv, CommittedValidated
  <2> QED
    BY <1>t, <2>1 DEF IInv, ProposalOpen, ValidatedHeld, CommittedValidated
<1>4. ASSUME NEW c \in Core, NEW gone \in {"failed", "rebooted"},
             phase' = [phase EXCEPT ![c] = gone],
             token' = token \/ token' = NoToken,
             begin_time' = begin_time, validated' = validated
      PROVE  IInv'
  <2>1. \A d \in Core : Committed(d)' => Committed(d)
    BY <1>4, <1>u DEF Committed, TypeOK
  <2> QED
    BY <1>4, <1>t, <2>1
       DEF IInv, ProposalOpen, ValidatedHeld, CommittedValidated, NoToken
<1>5. ASSUME NEW c \in Core, Begin(c) PROVE IInv'
  <2>1. \A d \in Core : Committed(d)' => Committed(d)
    BY <1>5, <1>u DEF Begin, Committed, TypeOK
  <2> QED
    BY <1>5, <1>t, <2>1
       DEF Begin, IInv, ProposalOpen, ValidatedHeld, CommittedValidated
<1>6. ASSUME phase' = phase, begin_time' = begin_time, validated' = validated,
             token' = token \/ token' = NoToken
      PROVE  IInv'
  BY <1>6, <1>t
     DEF IInv, ProposalOpen, ValidatedHeld, CommittedValidated, Committed, NoToken
<1>7. CASE Next
  <2>1. ASSUME NEW c \in Core, SendFails(c) \/ Crash(c) \/ Reboot(c) PROVE IInv'
    BY <1>4, <2>1 DEF SendFails, Crash, Reboot
  <2>2. CASE Drop \/ Tick
    BY <1>6, <2>2 DEF Drop, Tick
  <2> QED
    BY <1>7, <1>1, <1>2, <1>3, <1>5, <2>1, <2>2 DEF Next, Deliver, Abort
<1>8. CASE UNCHANGED vars
  BY <1>6, <1>8 DEF vars
<1> QED
  BY <1>7, <1>8

\* The ring of cores always satisfies IInv, whatever datagrams are lost or late.
THEOREM Invariance == Spec => []IInv
BY InvInit, InvNext, PTL DEF Spec

\* SameBeginTime: two cores that have committed wait for the same begin time: Agreement
\* is an invariant, however often the leader replaced its proposal.
THEOREM SameBeginTime == Spec => []Agreement
<1>1. IInv => Agreement
  BY DEF IInv, ValidatedHeld, CommittedValidated, Agreement
<1> QED
  BY <1>1, Invariance, PTL
-----------------------------------------------------------------------------
\* What the leader knew when it validated still holds: its begin time lies more
\* than the round it measured and Margin after the validation.
ValidatedInTime ==
  \A t \in validated :
    /\ time <= t
    /\ begin_time[0] > t + skew[0] + (t - time) + Margin

\* Every step keeps ValidatedInTime.
LEMMA InTimeNext == IInv /\ ValidatedInTime /\ [Next]_vars => ValidatedInTime'
<1> SUFFICES ASSUME IInv, ValidatedInTime, [Next]_vars PROVE ValidatedInTime'
  OBVIOUS
<1>u. TypeOK
  BY DEF IInv
<1>1. CASE LeaderEmulStart
  <2>1. Receive(0, "EmulStart")
    BY <1>1 DEF LeaderEmulStart
  <2>2. validated = {} /\ token.time = begin_time[0]
    BY <2>1, ProposalBack
  <2>3. CASE EnoughTime
    <3>1. validated' = {now} /\ UNCHANGED <<time, begin_time, skew>>
      BY <1>1, <2>3 DEF LeaderEmulStart
    <3>2. begin_time[0] > now + skew[0] + (now - time) + Margin
      BY <2>2, <2>3 DEF EnoughTime, Wall
    <3> QED
      BY <3>1, <3>2, <1>u DEF ValidatedInTime, TypeOK
  <2>4. CASE ~EnoughTime
    BY <1>1, <2>2, <2>4 DEF LeaderEmulStart, ValidatedInTime
  <2> QED
    BY <2>3, <2>4
<1>2. ASSUME NEW c \in Core, EmulStart(c) PROVE ValidatedInTime'
  BY <1>2 DEF EmulStart, Receive, IInv, ProposalOpen, ValidatedInTime
<1>3. CASE UNCHANGED <<time, begin_time, skew, validated>>
  BY <1>3 DEF ValidatedInTime
<1> QED
  BY <1>1, <1>2, <1>3
     DEF Next, Deliver, Abort, EmulStartOk, SendFails, Begin, Crash, Reboot, Drop, Tick, vars

\* MarginSuffices: the second the leader allows on top of a round is enough: a
\* validation no slower than that finds the begin time ahead (ValidationFits),
\* whatever the number of hosts and the delays.
THEOREM MarginSuffices == Spec => []ValidationFits
<1>1. Init => ValidatedInTime
  BY DEF Init, ValidatedInTime
<1>2. ASSUME IInv, ValidatedInTime PROVE ValidationFits
  <2> SUFFICES ASSUME token.kind = "EmulStartOk",
                      NEW t \in validated, now <= t + (t - time) + Margin
               PROVE  begin_time[token.to] > Wall(0)
    BY DEF ValidationFits
  <2>1. begin_time[token.to] = begin_time[0]
    BY <1>2 DEF IInv, TypeOK, ValidatedHeld
  <2>2. begin_time[0] > t + skew[0] + (t - time) + Margin
    BY <1>2 DEF ValidatedInTime
  <2>3. /\ begin_time[0] \in Nat /\ t \in Nat /\ now \in Nat
        /\ time \in Nat /\ skew[0] \in Nat /\ Margin \in Nat
    BY <1>2, CoreFacts, TimeAssumption DEF IInv, TypeOK
  <2> QED
    BY <2>1, <2>2, <2>3 DEF Wall
<1> QED
  BY <1>1, <1>2, InTimeNext, Invariance, PTL DEF Spec

-----------------------------------------------------------------------------
\* A step of the ring is a step of CommonStart or leaves its variables alone.
LEMMA StepSimulation ==
  IInv /\ IInv' /\ [Next]_vars => [Abstract!Next]_(Abstract!vars)
<1> SUFFICES ASSUME IInv, IInv', [Next]_vars
             PROVE  [Abstract!Next]_(Abstract!vars)
  OBVIOUS
<1> DEFINE decision == {begin_time[0] : t \in validated}
           committed == [c \in Core |-> IF Committed(c) THEN {begin_time[c]} ELSE {}]
<1>u. TypeOK /\ TypeOK'
  BY DEF IInv
<1>s. ASSUME decision' = decision, committed' = committed
      PROVE  UNCHANGED Abstract!vars
  BY <1>s DEF Abstract!vars
<1>f. ASSUME NEW c \in Core, decision' = decision,
             committed' = [committed EXCEPT ![c] = {}]
      PROVE  Abstract!Next
  BY <1>f DEF Abstract!Next, Abstract!Fail
<1>1. CASE LeaderEmulStart
  <2>1. Receive(0, "EmulStart")
    BY <1>1 DEF LeaderEmulStart
  <2>2. /\ validated = {} /\ phase' = phase
        /\ \A c \in Core : ~Committed(c) /\ ~Committed(c)'
    BY <1>1, <2>1, ProposalBack DEF LeaderEmulStart, Committed
  <2>3. committed' = committed
    BY <2>2
  <2>4. CASE EnoughTime
    <3>1. decision = {} /\ decision' = {begin_time[0]} /\ begin_time[0] \in Nat
      BY <1>1, <1>u, <2>2, <2>4, CoreFacts DEF LeaderEmulStart, TypeOK
    <3>2. Abstract!Decide
      BY <2>3, <3>1 DEF Abstract!Decide, Abstract!Single
    <3> QED
      BY <3>1, <3>2 DEF Abstract!Next
  <2>5. CASE ~EnoughTime
    <3>1. decision' = decision
      BY <1>1, <2>2, <2>5 DEF LeaderEmulStart
    <3> QED
      BY <2>3, <3>1, <1>s
  <2> QED
    BY <2>4, <2>5
<1>2. ASSUME NEW c \in Core, EmulStart(c) PROVE UNCHANGED Abstract!vars
  <2>1. validated = {} /\ validated' = {} /\ phase' = phase
    BY <1>2 DEF EmulStart, Receive, IInv, ProposalOpen
  <2>2. \A d \in Core : ~Committed(d) /\ ~Committed(d)'
    BY <2>1 DEF IInv, CommittedValidated, Committed
  <2> QED
    BY <2>1, <2>2, <1>s
<1>3. ASSUME NEW c \in Core, EmulStartOk(c) PROVE [Abstract!Next]_(Abstract!vars)
  <2>1. /\ decision' = decision /\ begin_time' = begin_time /\ ~Committed(c)
        /\ validated # {} /\ begin_time[c] = begin_time[0]
    BY <1>3 DEF EmulStartOk, Receive, IInv, CommittedValidated, ValidatedHeld, Committed
  <2>2. CASE phase' = [phase EXCEPT ![c] = "sleeping"]
    <3>1. \A d \in Core : Committed(d)' <=> (d = c \/ Committed(d))
      BY <2>2, <1>u DEF Committed, TypeOK
    <3>2. decision = {begin_time[0]}
      BY <2>1
    <3>3. committed' = [committed EXCEPT ![c] = decision]
      BY <2>1, <3>1, <3>2
    <3>4. Abstract!Commit(c)
      BY <2>1, <3>2, <3>3 DEF Abstract!Commit
    <3> QED
      BY <3>4 DEF Abstract!Next
  <2>3. CASE phase' = [phase EXCEPT ![c] = "failed"]
    <3>1. \A d \in Core : Committed(d)' <=> Committed(d)
      BY <2>1, <2>3, <1>u DEF Committed, TypeOK
    <3> QED
      BY <2>1, <3>1, <1>s
  <2> QED
    BY <1>3, <2>2, <2>3 DEF EmulStartOk
<1>4. ASSUME NEW c \in Core, SendFails(c) \/ Crash(c) \/ Reboot(c) PROVE Abstract!Next
  <2>1. /\ decision' = decision /\ begin_time' = begin_time
        /\ \E gone \in {"failed", "rebooted"} : phase' = [phase EXCEPT ![c] = gone]
    BY <1>4 DEF SendFails, Crash, Reboot
  <2>2. \A d \in Core : Committed(d)' <=> (d # c /\ Committed(d))
    BY <2>1, <1>u DEF Committed, TypeOK
  <2>3. committed' = [committed EXCEPT ![c] = {}]
    BY <2>1, <2>2
  <2> QED
    BY <2>1, <2>3, <1>f
<1>5. ASSUME NEW c \in Core, Begin(c) PROVE UNCHANGED Abstract!vars
  <2>1. \A d \in Core : Committed(d)' <=> Committed(d)
    BY <1>5, <1>u DEF Begin, Committed, TypeOK
  <2> QED
    BY <1>5, <2>1, <1>s DEF Begin
<1>6. CASE UNCHANGED <<phase, begin_time, validated>>
  BY <1>6, <1>s DEF Committed
<1> QED
  BY <1>1, <1>2, <1>3, <1>4, <1>5, <1>6
     DEF Next, Deliver, Abort, Drop, Tick, vars

\* CommonStartImplemented: every behaviour of the ring is a behaviour of
\* CommonStart under the refinement mapping of ImplementsCommonStart.
THEOREM CommonStartImplemented == Spec => ImplementsCommonStart
<1>1. Init => Abstract!Init
  BY DEF Init, Abstract!Init, Committed
<1> QED
  BY <1>1, StepSimulation, Invariance, PTL DEF Spec, ImplementsCommonStart, Abstract!Spec
=============================================================================
