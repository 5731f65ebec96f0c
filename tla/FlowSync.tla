------------------------------ MODULE FlowSync ------------------------------
(***************************************************************************)
(* The flow loops of the cores of one emulation, after they started         *)
(* together: EmulCore::flow_loop (emulation/src/emulcore.rs), the events of *)
(* scheduler.rs, the reporters' TCHandler (reporter/src/lib.rs) and the     *)
(* EManagers that hand broadcast updates to their core (emanager.rs).       *)
(*                                                                         *)
(* A loop handles one message at a time, so each message is one step; the   *)
(* messages of reporters, scheduler and other cores come in any order:      *)
(* every broadcast has its own connection, and the scheduler's tasks block  *)
(* their threads (std::thread::sleep), so that events may wait for others.  *)
(* A step may also break off, at any of its awaits: a send failed, or the   *)
(* EManager was told to abort the emulation.                                *)
(***************************************************************************)
EXTENDS BwSync

CONSTANTS
  App,         \* applications of the topology
  Host,        \* hosts, each with one core of the emulation
  host,        \* application -> the host it runs on
  Schedules,   \* what a topology may schedule: sets of events [app, action]
  Throughput,  \* what a reporter may measure; all above its ignore_threshold
  MaxReports   \* bound on the reports

ASSUME Places == host \in [App -> Host] /\ Flow \subseteq App \X App

ASSUME Inputs ==
  /\ \A schedule \in Schedules :
       schedule \subseteq [app : App, action : {"Join", "Quit", "Crash"}]
  /\ Throughput \subseteq Nat

VARIABLES
  active_flows,   \* core -> its active flows
  status,         \* application -> AppStatus
  core,           \* core -> "running", "ended", "failed": its loop broke off
                  \* and its entry is still there, or "dropped"
  emanager,       \* host -> FALSE once its EManager's task panicked
  rate,           \* flow -> bandwidth its reporter lets through, None: no path
  tc_handler,     \* application -> FALSE once its reporter's handler panicked
  events,         \* events not yet sent by the scheduler
  net,            \* FlowUpdates on their way: [to, flow, throughput, n]
  reports,        \* reports made by the reporters
  sent,           \* history: flow -> updates broadcast so far
  overtaken,      \* history: flows of which a newer update came before an older
  kept,           \* history: flows put back while their application was leaving
  early,          \* history: applications with data or an end before their start
  shared          \* history: core -> the flow whose path was last shared

loops   == <<active_flows, status, core, emanager>>
outside == <<rate, tc_handler, events, net, reports>>
history == <<sent, overtaken, kept, early, shared>>
vars    == <<loops, outside, history>>

Source(f) == host[f[1]]
AppsOn(c) == {a \in App : host[a] = c}
FlowsFrom(a) == {f \in Flow : f[1] = a}
Active(c) == DOMAIN active_flows[c]
NoFlow == <<>>

Init ==
  /\ active_flows = [c \in Host |-> << >>]
  /\ status = [a \in App |-> "NotInit"]
  /\ core = [c \in Host |-> "running"]
  /\ emanager = [c \in Host |-> TRUE]
  /\ rate = [f \in Flow |-> None]
  /\ tc_handler = [a \in App |-> TRUE]
  /\ events \in Schedules
  /\ net = {}
  /\ reports = 0
  /\ sent = [f \in Flow |-> 0]
  /\ overtaken = {}
  /\ kept = {}
  /\ early = {}
  /\ shared = [c \in Host |-> NoFlow]

-----------------------------------------------------------------------------
(***************************************************************************)
(* Traffic control.  A TCUpdate with all properties initialises a path; one *)
(* with a bandwidth alone makes the handler of a reporter without that path *)
(* panic, and whatever is sent to it afterwards is lost.                    *)
(***************************************************************************)
TCUpdate(r, f, bandwidth) ==
  IF tc_handler[f[1]] THEN [r EXCEPT ![f] = bandwidth] ELSE r

\* Mutant: an application that starts gets only the paths it already uses.
TCInitUsed(a) ==
  [f \in Flow |-> IF f[1] = a /\ f \in Active(host[a])
                  THEN TCUpdate(rate, f, MaxBandwidth[f])[f] ELSE rate[f]]

\* The paths of an application that starts.
TCInitAll(a) ==
  [f \in Flow |-> IF f[1] = a THEN TCUpdate(rate, f, MaxBandwidth[f])[f] ELSE rate[f]]

\* Mutant: a flow that may use all its path allows is not sent again.
LocalThrottled(c, active) ==
  {f \in DOMAIN active : Source(f) = c /\ active[f].authorized < MaxBandwidth[f]}

Local(c, active) == {f \in DOMAIN active : Source(f) = c}

\* The end of an iteration: the authorized bandwidth of every local flow.
UpdateRates(c, active, r) ==
  LET local == Local(c, active)
  IN  /\ rate' = [f \in Flow |-> IF f \in local /\ tc_handler[f[1]] /\ r[f] # None
                                 THEN active[f].authorized ELSE r[f]]
      /\ tc_handler' = [a \in App |-> tc_handler[a] /\ \A f \in local : f[1] = a => r[f] # None]

-----------------------------------------------------------------------------
\* Flow updates

Others(c) == Host \ {c}

\* Mutant: the others are told of flows and not of their ends.
broadcast_flow_alive(told, throughput) ==
  /\ sent' = [f \in Flow |-> IF f \in DOMAIN told THEN sent[f] + 1 ELSE sent[f]]
  /\ net' = net \cup UNION {{[to |-> c, flow |-> f, throughput |-> throughput, n |-> sent'[f]] :
                              c \in {h \in told[f] : throughput # None}} : f \in DOMAIN told}

\* told: the flows that are broadcast and, of each, the hosts that are reached.
broadcast_flow(told, throughput) ==
  /\ sent' = [f \in Flow |-> IF f \in DOMAIN told THEN sent[f] + 1 ELSE sent[f]]
  /\ net' = net \cup UNION {{[to |-> c, flow |-> f, throughput |-> throughput, n |-> sent'[f]] :
                              c \in told[f]} : f \in DOMAIN told}

\* Every send succeeds.
ToAll(flows) == [f \in flows |-> Others(Source(f))]

\* The flows are broadcast one after the other, each to the hosts in the order
\* of a HashSet, until a send fails or the core is aborted.
ToSome(c, flows) ==
  {told \in [flows -> SUBSET Others(c)] :
     Cardinality({f \in flows : told[f] \notin {{}, Others(c)}}) <= 1}

\* The loop of core c is left in the middle of an iteration: its flows are gone
\* with it, its entry in emul_id_to_channel is not.  The rates an iteration
\* sent before it broke off are left out.
BreakOff(c) ==
  /\ core[c] = "running"
  /\ core' = [core EXCEPT ![c] = "failed"]
  /\ active_flows' = [active_flows EXCEPT ![c] = << >>]
  /\ shared' = [shared EXCEPT ![c] = NoFlow]
  /\ UNCHANGED <<status, emanager, rate, tc_handler>>

UsedBandwidth(f, throughput) ==
  IF throughput = None THEN 0 ELSE Lesser(throughput, MaxBandwidth[f])

\* A message FlowUpdate at core c, up to the broadcast.
FlowUpdate(c, f, throughput) ==
  LET used == UsedBandwidth(f, throughput)
      old  == active_flows[c]
      new  == IF used # 0 THEN update_flows(old, f, build(used))
              ELSE IF f \in DOMAIN old THEN remove_flow(old, f, build(0)) ELSE old
      back == used = 0 /\ Source(f) = c
  IN  /\ active_flows' = [active_flows EXCEPT ![c] = new]
      /\ shared' = IF used # 0 \/ f \in DOMAIN old THEN [shared EXCEPT ![c] = f] ELSE shared
      /\ UpdateRates(c, new, IF back THEN TCUpdate(rate, f, MaxBandwidth[f]) ELSE rate)

\* The reporter of a local application measured a flow, or its end (None).
Measured(f, throughput) ==
  /\ reports < MaxReports
  /\ reports' = reports + 1
  /\ kept' = kept \ {f}
  /\ early' = IF throughput # None /\ status[f[1]] = "NotInit" THEN early \cup {f[1]} ELSE early
  /\ UNCHANGED <<events, overtaken>>

Report(f, throughput) ==
  LET c == Source(f)
  IN  /\ core[c] = "running"
      /\ Measured(f, throughput)
      /\ FlowUpdate(c, f, throughput)
      /\ broadcast_flow(ToAll({f}), throughput)
      /\ UNCHANGED <<status, core, emanager>>

ReportFails(f, throughput) ==
  LET c == Source(f)
  IN  /\ Measured(f, throughput)
      /\ BreakOff(c)
      /\ \E told \in ToSome(c, {f}) : broadcast_flow(told, throughput)

\* EmulCoreInterchange: the EManager passes an update on to its core.
Receive(m) ==
  /\ core[m.to] = "running"
  /\ net' = net \ {m}
  /\ FlowUpdate(m.to, m.flow, m.throughput)
  /\ overtaken' = IF \E o \in net : o.to = m.to /\ o.flow = m.flow /\ o.n < m.n
                  THEN overtaken \cup {m.flow} ELSE overtaken
  /\ UNCHANGED <<status, core, emanager, events, reports, sent, kept, early>>

(***************************************************************************)
(* A core that ended left emul_id_to_channel first.  One whose loop broke   *)
(* off is there until its Drop has run: the EManager unwraps a failed send. *)
(***************************************************************************)
ReceiveLate(m) ==
  /\ core[m.to] # "running"
  /\ net' = net \ {m}
  /\ emanager' = [emanager EXCEPT ![m.to] = @ /\ core[m.to] # "failed"]
  /\ UNCHANGED <<active_flows, status, core, rate, tc_handler, events, reports, history>>

-----------------------------------------------------------------------------
\* Scheduled events

Join(e) ==
  LET a == e.app
      c == host[a]
  IN  /\ core[c] = "running"
      /\ e.action = "Join"
      /\ events' = events \ {e}
      /\ status' = [status EXCEPT ![a] = IF @ \in {"NotInit", "Stopped"} THEN "Running" ELSE @]
      /\ UpdateRates(c, active_flows[c], IF status[a] = "NotInit" THEN TCInitAll(a) ELSE rate)
      /\ UNCHANGED <<active_flows, core, emanager, net, reports, history>>

\* The flows are removed in the order of a HashSet, each with the state it
\* had at first: with a bandwidth, and so remove_flow puts it back.
remove_all_flows_from(active, order) ==
  LET removed(acc, f) == IF f \in DOMAIN acc THEN remove_flow(acc, f, active[f]) ELSE acc
  IN  FoldLeft(removed, active, order)

\* Quit and Crash: the flows from the application end, its network is cut.
Leave(e, order) ==
  LET a == e.app
      c == host[a]
      new == remove_all_flows_from(active_flows[c], order)
  IN  /\ active_flows' = [active_flows EXCEPT ![c] = new]
      /\ shared' = IF order = << >> THEN shared ELSE [shared EXCEPT ![c] = Last(order)]
      /\ broadcast_flow(ToAll(ToSet(order)), None)
      /\ kept' = kept \cup (ToSet(order) \cap DOMAIN new)
      /\ UpdateRates(c, new, rate)

\* What an application that quits or crashes adds to early.
TooEarly(e) == IF status[e.app] = "NotInit" THEN early \cup {e.app} ELSE early

QuitOrCrash(e) ==
  LET a == e.app
      c == host[a]
      left == IF e.action = "Quit" THEN "Stopped" ELSE "Crashed"
  IN  /\ core[c] = "running"
      /\ e.action \in {"Quit", "Crash"}
      /\ events' = events \ {e}
      /\ status' = [status EXCEPT ![a] = left]
      /\ \E order \in SetToSeqs(Active(c) \cap FlowsFrom(a)) : Leave(e, order)
      /\ core' = IF \A b \in AppsOn(c) : status'[b] = "Crashed"
                 THEN [core EXCEPT ![c] = "ended"] ELSE core
      /\ early' = TooEarly(e)
      /\ UNCHANGED <<emanager, reports, overtaken>>

\* A broadcast fails, or what comes after it: the disconnection, the end of the
\* container, the CleanStop to the orchestrator.
QuitOrCrashFails(e) ==
  LET c == host[e.app]
  IN  /\ e.action \in {"Quit", "Crash"}
      /\ events' = events \ {e}
      /\ BreakOff(c)
      /\ \E told \in ToSome(c, Active(c) \cap FlowsFrom(e.app)) : broadcast_flow(told, None)
      /\ early' = TooEarly(e)
      /\ UNCHANGED <<reports, overtaken, kept>>

-----------------------------------------------------------------------------
\* The abort, while the loop waits, or a message for a reporter that fails: its
\* handler panicked, or its socket is gone.
Fail(c) ==
  /\ BreakOff(c)
  /\ UNCHANGED <<events, net, reports, sent, overtaken, kept, early>>

\* A task of EmulCore's Drop takes the core's entry away.
Drop(c) ==
  /\ core[c] = "failed"
  /\ core' = [core EXCEPT ![c] = "dropped"]
  /\ UNCHANGED <<active_flows, status, emanager, outside, history>>

Next ==
  \/ \E f \in Flow, throughput \in Throughput \cup {None} :
       Report(f, throughput) \/ ReportFails(f, throughput)
  \/ \E m \in net : Receive(m) \/ ReceiveLate(m)
  \/ \E e \in events : Join(e) \/ QuitOrCrash(e) \/ QuitOrCrashFails(e)
  \/ \E c \in Host : Fail(c) \/ Drop(c)

Spec == Init /\ [][Next]_vars

-----------------------------------------------------------------------------
\* Properties

\* No flow is counted or let through above what its path allows, whatever its
\* reporter measured (emulcore.rs, min(bw, max_bandwidth); bwsync.rs).
TypeOK ==
  /\ \A c \in Host :
       /\ Active(c) \subseteq Flow
       /\ \A f \in Active(c) :
            /\ active_flows[c][f] \in FlowState
            /\ active_flows[c][f].used <= MaxBandwidth[f]
            /\ active_flows[c][f].authorized <= MaxBandwidth[f]
  /\ status \in [App -> {"NotInit", "Running", "Stopped", "Crashed"}]
  /\ core \in [Host -> {"running", "ended", "failed", "dropped"}]
  /\ emanager \in [Host -> BOOLEAN]
  /\ \A f \in Flow : rate[f] \in {None} \cup 0..MaxBandwidth[f]
  /\ tc_handler \in [App -> BOOLEAN]
  /\ events \subseteq UNION Schedules
  /\ \A m \in net : /\ m.to \in Host \ {Source(m.flow)}
                    /\ m.throughput \in Throughput \cup {None}
                    /\ m.n \in 1..sent[m.flow]

\* On every link of the path that was shared last the flows fit: there the
\* subtractions of calculate_bandwidth_graph do not go below zero, although
\* each link is shared alone and flows cross several (bwsync.rs).
SharesFit ==
  \A c \in Host : shared[c] # NoFlow =>
    \A l \in Path[shared[c]] : remaining_bandwidth(l, active_flows[c]) >= 0

\* Nobody is throttled below an equal part of the narrowest link it has on the
\* path shared last, however hungry the others are (bwsync.rs).
FairShare ==
  \A c \in Host : shared[c] # NoFlow =>
    \A g \in Active(c) :
      LET links == Path[g] \cap Path[shared[c]]
          part(l) == Bandwidth[l] \div Cardinality({h \in Active(c) : l \in Path[h]})
      IN  links # {} => active_flows[c][g].authorized >=
                           Min({MaxBandwidth[g]} \cup {part(l) : l \in links})

\* When no update of a flow is under way all running cores agree with its
\* source's on whether it is active, unless two updates were swapped on the
\* way, the flow was put back while its application left, or its source's loop
\* broke off, in a broadcast even (emulcore.rs, flow_loop,
\* remove_all_flows_from and broadcast_flow).
AgreeAtRest ==
  \A f \in Flow \ (overtaken \cup kept) :
    core[Source(f)] \in {"running", "ended"} /\ (\A m \in net : m.flow # f) =>
      \A c \in Host : core[c] = "running" =>
        (f \in Active(c) <=> f \in Active(Source(f)))

\* Every link is wide enough for one unit of each flow: no share is 0.
WideLinks ==
  \A f \in Flow : /\ MaxBandwidth[f] > 0
                  /\ \A l \in Path[f] : Bandwidth[l] >= Cardinality(Flow)

\* What a reporter lets through is what its core last decided: the share of an
\* active flow, also when another core's flow changed it, and all the path
\* allows once the flow ended (emulcore.rs, end of flow_loop's iteration).  A
\* flow with a share of 0 is the exception: Quit and Crash remove it for good
\* and leave its reporter at 0.
RatesFollow ==
  WideLinks => \A f \in Flow :
    LET c == Source(f)
    IN  core[c] = "running" /\ tc_handler[f[1]] /\ rate[f] # None =>
          rate[f] = IF f \in Active(c) THEN active_flows[c][f].authorized
                                       ELSE MaxBandwidth[f]

\* As long as every application starts before it sends data or ends, no
\* reporter is told the bandwidth of a path it does not have, and so no handler
\* panics (reporter lib.rs TCHandler, emulcore.rs).
OrderlyStart == early = {} => \A a \in App : tc_handler[a]

=============================================================================
