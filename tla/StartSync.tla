------------------------------ MODULE StartSync ------------------------------
(***************************************************************************)
(* EmulCore::synchronize (emulation/src/emulcore.rs 392-511): the cores of  *)
(* one emulation, ordered by IP address, pass a token around a ring.  The   *)
(* core with the smallest address leads: it proposes a begin time, and when *)
(* the proposal is back in time sends a validation around; a core that gets *)
(* the validation sleeps until the begin time.                              *)
(*                                                                         *)
(* Time is counted in seconds.  An Instant travels as a wall clock time     *)
(* (serde_millis), so every core reads it with the skew of its own clock:   *)
(* begin times are kept here as wall clock times.                           *)
(***************************************************************************)
EXTENDS Naturals

CONSTANTS
  N,           \* number of hosts of the emulation
  FirstDelay,  \* the first begin time is so far ahead (5 s)
  Margin,      \* time left over for the validation round (1 s)
  Extra,       \* added to two rounds in a new proposal (2 s)
  MaxDelay,    \* bound on the time a message takes from core to core
  MaxSkew      \* bound on the skew of the hosts' wall clocks

ASSUME NAssumption == N \in Nat \ {0, 1}
ASSUME TimeAssumption ==
  {FirstDelay, Margin, Extra, MaxDelay, MaxSkew} \subseteq Nat

Core == 0..(N - 1)
Next_host(c) == IF c = N - 1 THEN 0 ELSE c + 1

VARIABLES
  now,        \* real time
  skew,       \* wall clock of a host minus real time
  phase,      \* what each core is doing
  begin_time, \* begin_time of each core, as a wall clock time
  time,       \* the leader's time: when it sent the current proposal
  token,      \* the message in flight
  age,        \* how long it has been in flight
  validated   \* {} or {t}: when the leader sent EmulStartOk

vars == <<now, skew, phase, begin_time, time, token, age, validated>>

Kind == {"EmulStart", "EmulStartOk", "none"}
Phase == {"syncing", "sleeping", "started",
          "failed",    \* gone, as the OManager learns
          "rebooted"}  \* its host is back and nobody has missed it
Gone(c) == phase[c] \in {"failed", "rebooted"}
Wall(c) == now + skew[c]
NoToken == [kind |-> "none", to |-> 0, time |-> 0]

-----------------------------------------------------------------------------
\* Every core listens and has been told ExperimentReady; the leader has sent
\* its first proposal, the others have only initialised begin_time.
Init ==
  /\ now = 0
  /\ skew \in [Core -> 0..MaxSkew]
  /\ phase = [c \in Core |-> "syncing"]
  /\ begin_time = [c \in Core |-> IF c = 0 THEN skew[0] + FirstDelay ELSE skew[c]]
  /\ time = 0
  /\ token = [kind |-> "EmulStart", to |-> 1, time |-> skew[0] + FirstDelay]
  /\ age = 0
  /\ validated = {}

Receive(c, kind) ==
  /\ token.kind = kind
  /\ token.to = c
  /\ phase[c] = "syncing"

Send(c, kind, t) ==
  /\ token' = [kind |-> kind, to |-> Next_host(c), time |-> t]
  /\ age' = 0

\* Mutant: no time is set aside for the validation round.
EnoughMargin == token.time > Wall(0) + Margin

\* A proposal is back: validate it if there is time for another round.
EnoughTime == token.time > Wall(0) + (now - time) + Margin

\* Mutant: the first proposal that is back is validated together with a new one.
LeaderEmulStartHasty ==
  /\ Receive(0, "EmulStart")
  /\ begin_time' = [begin_time EXCEPT ![0] = Wall(0) + 2 * (now - time) + Extra]
  /\ Send(0, "EmulStartOk", 0)
  /\ validated' = {now}
  /\ time' = now
  /\ UNCHANGED <<now, skew, phase>>

\* Mutant: the round is timed from the new begin time.
LeaderEmulStartBackwards ==
  /\ Receive(0, "EmulStart")
  /\ begin_time' = [begin_time EXCEPT ![0] = Wall(0) + 2 * (now - time) + Extra]
  /\ Send(0, "EmulStart", begin_time'[0])
  /\ time' = begin_time'[0]
  /\ UNCHANGED <<now, skew, phase, validated>>

LeaderEmulStart ==
  /\ Receive(0, "EmulStart")
  /\ \/ /\ EnoughTime
        /\ Send(0, "EmulStartOk", 0)
        /\ validated' = {now}
        /\ UNCHANGED <<time, begin_time>>
     \/ /\ ~EnoughTime
        /\ LET begin == Wall(0) + 2 * (now - time) + Extra
           IN  /\ begin_time' = [begin_time EXCEPT ![0] = begin]
               /\ Send(0, "EmulStart", begin)
        /\ time' = now
        /\ UNCHANGED validated
  /\ UNCHANGED <<now, skew, phase>>

\* Mutant: a core keeps the first begin time it was told.
EmulStartFirst(c) ==
  /\ c # 0
  /\ Receive(c, "EmulStart")
  /\ begin_time' = [begin_time EXCEPT ![c] = IF @ = skew[c] THEN token.time ELSE @]
  /\ Send(c, "EmulStart", token.time)
  /\ UNCHANGED <<now, skew, phase, time, validated>>

\* The others register a proposal and pass it on.
EmulStart(c) ==
  /\ c # 0
  /\ Receive(c, "EmulStart")
  /\ begin_time' = [begin_time EXCEPT ![c] = token.time]
  /\ Send(c, "EmulStart", token.time)
  /\ UNCHANGED <<now, skew, phase, time, validated>>

\* The validation arrived in time: pass it on (the leader ends the round) and
\* sleep.  Otherwise synchronize returns an error.
EmulStartOk(c) ==
  /\ Receive(c, "EmulStartOk")
  /\ \/ /\ begin_time[c] > Wall(c)
        /\ phase' = [phase EXCEPT ![c] = "sleeping"]
        /\ IF c = 0 THEN token' = NoToken /\ age' = 0 ELSE Send(c, "EmulStartOk", 0)
     \/ /\ begin_time[c] <= Wall(c)
        /\ phase' = [phase EXCEPT ![c] = "failed"]
        /\ token' = NoToken
        /\ age' = 0
  /\ UNCHANGED <<now, skew, begin_time, time, validated>>

\* The connection to the next core is gone and sending to it fails, so that
\* synchronize returns an error.  (The leader sends nothing on EmulStartOk.)
SendFails(c) ==
  /\ Receive(c, "EmulStart") \/ (c # 0 /\ Receive(c, "EmulStartOk"))
  /\ Gone(Next_host(c))
  /\ phase' = [phase EXCEPT ![c] = "failed"]
  /\ token' = NoToken
  /\ age' = 0
  /\ UNCHANGED <<now, skew, begin_time, time, validated>>

\* sleep_until is over: flow_loop begins.
Begin(c) ==
  /\ phase[c] = "sleeping"
  /\ Wall(c) >= begin_time[c]
  /\ phase' = [phase EXCEPT ![c] = "started"]
  /\ UNCHANGED <<now, skew, begin_time, time, token, age, validated>>

\* The host of a core crashes and stays away until it is removed.
Crash(c) ==
  /\ ~Gone(c)
  /\ phase' = [phase EXCEPT ![c] = "failed"]
  /\ UNCHANGED <<now, skew, begin_time, time, token, age, validated>>

\* The host of a core crashes and joins again before its missed heartbeats add
\* up: the leader clears them (controller.rs 212-215), so that neither the
\* OManager nor, without traffic, the other cores learn of it.
Reboot(c) ==
  /\ ~Gone(c)
  /\ phase' = [phase EXCEPT ![c] = "rebooted"]
  /\ UNCHANGED <<now, skew, begin_time, time, token, age, validated>>

\* Mutant: only cores that still synchronize are aborted.
AbortSyncing(c) ==
  /\ \E d \in Core : phase[d] = "failed"
  /\ phase[c] = "syncing"
  /\ Crash(c)

\* start_emulation's select: the OManager has learnt of the failure of one core
\* (its Abort message, or the loss of its host) and has every other core
\* dropped, in whatever phase it is.  A reboot is no such failure.
Abort(c) ==
  /\ \E d \in Core : phase[d] = "failed"
  /\ Crash(c)

\* A message that was sent to a core that is gone is lost.
Drop ==
  /\ token.kind # "none"
  /\ Gone(token.to)
  /\ token' = NoToken
  /\ age' = 0
  /\ UNCHANGED <<now, skew, phase, begin_time, time, validated>>

\* A timer that is due is served before time goes on.
Tick ==
  /\ \A c \in Core : ~(phase[c] = "sleeping" /\ Wall(c) >= begin_time[c])
  /\ \/ /\ token.kind # "none"
        /\ age < MaxDelay
        /\ age' = age + 1
     \/ /\ token.kind = "none"
        /\ \E c \in Core : phase[c] = "sleeping"
        /\ UNCHANGED age
  /\ now' = now + 1
  /\ UNCHANGED <<skew, phase, begin_time, time, token, validated>>

Deliver(c) == EmulStart(c) \/ EmulStartOk(c) \/ SendFails(c)

Next ==
  \/ LeaderEmulStart
  \/ \E c \in Core : Deliver(c) \/ Begin(c) \/ Abort(c) \/ Crash(c) \/ Reboot(c)
  \/ Drop
  \/ Tick

Spec == Init /\ [][Next]_vars

\* The runtime schedules every task that can run, the network delivers within
\* MaxDelay, and the OManager's host stays up to pass on a failure it has
\* learnt of; nothing is assumed to report a reboot.
Fairness ==
  /\ WF_vars(LeaderEmulStart)
  /\ \A c \in Core : WF_vars(Deliver(c)) /\ WF_vars(Begin(c)) /\ WF_vars(Abort(c))
  /\ WF_vars(Drop)
  /\ WF_vars(Tick)

FairSpec == Spec /\ Fairness

-----------------------------------------------------------------------------
\* TypeOK: the state of synchronize is well-typed; no begin time, round or
\* deadline the Instant arithmetic computes is negative.
TypeOK ==
  /\ now \in Nat
  /\ skew \in [Core -> Nat]
  /\ phase \in [Core -> Phase]
  /\ begin_time \in [Core -> Nat]
  /\ time \in Nat /\ time <= now
  /\ token \in [kind : Kind, to : Core, time : Nat]
  /\ age \in 0..MaxDelay
  /\ validated \in SUBSET Nat

Committed(c) == phase[c] \in {"sleeping", "started"}

\* Agreement: all the cores that have accepted a validation wait for, or began
\* at, the same begin time, though the leader may have replaced its proposal
\* several times while earlier ones travelled around the ring.
Agreement ==
  \A c, d \in Core : Committed(c) /\ Committed(d) => begin_time[c] = begin_time[d]

\* ValidationFits: the margin of the leader is enough.  As long as the validation
\* has not travelled longer than the proposal's whole round and the second
\* the leader allows on top, the begin time is still ahead of the leader's
\* clock when a core (with a clock in step) handles it.
ValidationFits ==
  token.kind = "EmulStartOk" =>
    \A t \in validated :
      now <= t + (t - time) + Margin => begin_time[token.to] > Wall(0)

\* EndsTogether: the cores do not wait for each other forever.  Either all of
\* them begin the emulation, or, once the OManager learns of one that failed,
\* all of them are given up: the leader's new proposals converge, since a round
\* within the last one's duration is validated.  Only while nothing but
\* unnoticed reboots has happened may the others wait, for a token that nobody
\* holds: the recv has no timeout (emulcore.rs 435, 479), whatever the comment
\* on connections that crash says (emulcore.rs 422).
EndsTogether ==
  \/ <>[](\A c \in Core : phase[c] = "started")
  \/ <>(\A c \in Core : Gone(c))
  \/ <>(\E c \in Core : phase[c] = "rebooted") /\ [](\A c \in Core : phase[c] # "failed")

\* ImplementsCommonStart: the ring implements CommonStart.  The begin time is decided
\* when the leader sends EmulStartOk, and a core commits when it accepts it.
Abstract == INSTANCE CommonStart WITH
  Time <- Nat,
  decision <- {begin_time[0] : t \in validated},
  committed <- [c \in Core |-> IF Committed(c) THEN {begin_time[c]} ELSE {}]
ImplementsCommonStart == Abstract!Spec
=============================================================================
