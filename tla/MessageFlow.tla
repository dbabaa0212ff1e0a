---------------------------- MODULE MessageFlow ----------------------------
(***************************************************************************)
(* The loop that every AFSIM message is part of.  The extension asks the   *)
(* message gate about each delivery (MessageDeliveryAttempt), observes how *)
(* AFSIM ends it (MessageReceived, MessageDiscarded), and on every tick    *)
(* (CollectState) reports the devices with the loss rate it observed.  The *)
(* service turns the report into links and flow metrics, from which the    *)
(* gate makes the profiles of its next decisions.                          *)
(*                                                                         *)
(* The way to the service and back is abstracted to what StateSync,        *)
(* BridgeService and MetricsGates establish while the service runs:        *)
(* reports and results stay in order, older ones may be skipped, the       *)
(* newest one arrives.  Delays and rates are left out; a loss rate is      *)
(* none, some or all.                                                      *)
(***************************************************************************)
EXTENDS Naturals, Sequences, FiniteSets

CONSTANTS
  Platforms,
  Comms,
  Devices,          \* the devices in the order of the report: see below
  MaxSerial,        \* bound: messages AFSIM is busy with at a time
  None,
  DefaultLoss,      \* AFSIM_NS3_LOSS_RATE
  LossOverride,     \* is it set?
  MaxWindow,        \* bound: messages completed between ticks
  MaxReports,       \* bound: reports under way
  MaxFailures,      \* bound: messages AFSIM itself loses
  MaxChanges,       \* bound: devices switched, platforms broken
  MaxGone,          \* bound: discards without a known receiver
  MaxFaults         \* bound: all three together

(* CollectState makes a device of every comm (sender) and every platform   *)
(* that its links, or those of its network, lead to; receivers are the     *)
(* comms there, in the order in which it meets them.                       *)
Rates == {"none", "some", "all"}
Ids == 1 .. Len(Devices)

(* Serial numbers.  AFSIM counts on; here the least one that is free is    *)
(* taken again.                                                            *)
Serials == 1 .. MaxSerial

ASSUME FlowConstants ==
  /\ Devices \in Seq([source : Platforms, target : Platforms, sender : Comms,
                      receivers : Seq(Comms) \ {<<>>}])
  /\ \A d \in Ids : Devices[d].source # Devices[d].target
  /\ None \notin Ids
  /\ DefaultLoss \in Rates
  /\ LossOverride \in BOOLEAN
  /\ MaxSerial \in Nat
  /\ MaxWindow \in Nat \ {0}
  /\ MaxReports \in Nat \ {0}
  /\ MaxFailures \in Nat
  /\ MaxChanges \in Nat
  /\ MaxGone \in Nat
  /\ MaxFaults \in Nat

VARIABLES
  alive,       \* platforms that are not broken
  on,          \* comms that are switched on
  stage,       \* where AFSIM is with each message
  device,      \* the device each message is sent on
  mGated,      \* mExternallyGatedMessages
  mDropped,    \* mExternallyDroppedMessages
  mTransmit,   \* the keys of mTransmitTimes
  mLinks,      \* mLinkObservations of each device's first receiver: the window
               \* and its last rate (CollectState looks at no other receiver's)
  mFlows,      \* mObservedFlows: source and target
  reports,     \* reports whose results have not arrived
  baseline,    \* the last report
  mProfiles,   \* MessageTransportGate::mProfiles
  failed,      \* history: messages AFSIM itself lost
  changes, gone

worldVars == <<alive, on, changes>>
bookVars == <<mGated, mDropped, mTransmit, mLinks, mFlows>>
loopVars == <<reports, baseline, mProfiles>>
vars == <<worldVars, stage, device, bookVars, loopVars, failed, gone>>

Faults == failed + changes + gone
Pair(d) == <<Devices[d].source, Devices[d].target>>
Pairs == {Pair(d) : d \in Ids}
Receivers(d) == 1 .. Len(Devices[d].receivers)
Places == UNION {Receivers(d) : d \in Ids}
Observation == [completed : 0 .. MaxWindow, failures : 0 .. MaxWindow, lastLossRate : Rates \cup {None}]
Profile == [connected : BOOLEAN, lossRate : Rates]
Report == [loss : [Ids -> Rates], up : [Ids -> BOOLEAN], flows : SUBSET Pairs]

TypeOK ==
  /\ alive \subseteq Platforms
  /\ on \subseteq Comms
  /\ stage \in [Serials -> {"idle", "refused", "passed", "gone"}]
  /\ device \in [Serials -> Ids \cup {None}]
  /\ mGated \subseteq Serials /\ mDropped \subseteq Serials /\ mTransmit \subseteq Serials
  /\ mLinks \in [Ids -> Observation]
  /\ \A d \in Ids : mLinks[d].failures <= mLinks[d].completed
  /\ mFlows \subseteq Pairs
  /\ reports \in Seq(Report) /\ Len(reports) <= MaxReports
  /\ baseline \in Report \cup {None}
  /\ DOMAIN mProfiles \subseteq Pairs /\ \A p \in DOMAIN mProfiles : mProfiles[p] \in Profile
  /\ failed \in 0 .. MaxFailures /\ changes \in 0 .. MaxChanges /\ gone \in 0 .. MaxGone

Init ==
  /\ alive = Platforms
  /\ on = Comms
  /\ stage = [s \in Serials |-> "idle"]
  /\ device = [s \in Serials |-> None]
  /\ mGated = {} /\ mDropped = {} /\ mTransmit = {}
  /\ mLinks = [d \in Ids |-> [completed |-> 0, failures |-> 0, lastLossRate |-> None]]
  /\ mFlows = {}
  /\ reports = <<>>
  /\ baseline = None
  /\ mProfiles = <<>>
  /\ failed = 0 /\ changes = 0 /\ gone = 0

-----------------------------------------------------------------------------
(* The simulated world.                                                    *)

Switch(c) ==
  /\ changes < MaxChanges /\ Faults < MaxFaults
  /\ changes' = changes + 1
  /\ on' = IF c \in on THEN on \ {c} ELSE on \cup {c}
  /\ UNCHANGED <<alive, stage, device, bookVars, loopVars, failed, gone>>

PlatformBreaks(p) ==
  /\ changes < MaxChanges /\ Faults < MaxFaults
  /\ p \in alive
  /\ changes' = changes + 1
  /\ alive' = alive \ {p}
  /\ UNCHANGED <<on, stage, device, bookVars, loopVars, failed, gone>>

-----------------------------------------------------------------------------
(* The service and the gate, as functions of a report.                     *)

(* Ns3Runner._links: CollectState has already looked at both platforms.    *)
LinkState(report, d) == report.up[d]

(* HasActivePath: the target is in every set of platforms that contains    *)
(* the source and that no working link, in either direction, leaves.       *)
HasActivePath(report, p) ==
  \A S \in SUBSET Platforms :
    /\ p[1] \in S
    /\ \A d \in Ids : LinkState(report, d) => (Devices[d].source \in S <=> Devices[d].target \in S)
    => p[2] \in S

(* A flow is enabled if some device from source to target is up.           *)
Connected(report, p) ==
  /\ \E d \in Ids : Pair(d) = p /\ report.up[d]
  /\ HasActivePath(report, p)

LastOf(p) == CHOOSE d \in Ids : Pair(d) = p /\ \A e \in Ids : Pair(e) = p => e <= d

(* Mutant: the metrics of the flows are not looked at.                     *)
ProfilesOfLinks(report) ==
  [p \in Pairs |-> [connected |-> LinkState(report, LastOf(p)),
                    lossRate  |-> report.loss[LastOf(p)]]]

(* MessageTransportGate::UpdateFromMetricsJson: the last link of a pair    *)
(* stands, and the metric of its flow says whether it is connected.        *)
Profiles(report) ==
  [p \in Pairs |-> [connected |-> IF p \in report.flows THEN Connected(report, p)
                                  ELSE LinkState(report, LastOf(p)),
                    lossRate  |-> report.loss[LastOf(p)]]]

(* MessageTransportGate::Decide: may it end like this?  The draw decides   *)
(* only when the loss rate is neither zero nor one.                        *)
Decide(p, disposition) ==
  IF p \notin DOMAIN mProfiles \/ ~mProfiles[p].connected
  THEN disposition = "NoLink"
  ELSE \/ disposition = "Drop" /\ mProfiles[p].lossRate # "none"
       \/ disposition = "Deliver" /\ mProfiles[p].lossRate # "all"

-----------------------------------------------------------------------------
(* The callbacks of the extension, all on the simulation thread.           *)

RecordFlow(d) == mFlows' = mFlows \cup {Pair(d)}

(* MessageDeliveryAttempt, and the MessageTransmitted that the patched     *)
(* AFSIM sends after it for a message that was not dropped.  Every comm is *)
(* on a platform here.                                                     *)
MessageDeliveryAttempt(s, d, disposition) ==
  /\ stage[s] = "idle"
  /\ \A t \in Serials : t < s => stage[t] # "idle"
  /\ Devices[d].sender \in on /\ Devices[d].source \in alive
  /\ Decide(Pair(d), disposition)
  /\ RecordFlow(d)
  /\ mGated' = mGated \cup {s}
  /\ device' = [device EXCEPT ![s] = d]
  /\ IF disposition = "Deliver"
     THEN /\ mDropped' = mDropped \ {s}
          /\ mTransmit' = mTransmit \cup {s}
          /\ stage' = [stage EXCEPT ![s] = "passed"]
     ELSE /\ mDropped' = mDropped \cup {s}
          /\ stage' = [stage EXCEPT ![s] = "refused"]
          /\ UNCHANGED mTransmit
  /\ UNCHANGED <<worldVars, mLinks, loopVars, failed, gone>>

WindowOpen == Cardinality(UNION {{d} \X (1 .. mLinks[d].completed) : d \in Ids}) < MaxWindow

(* A message on device d for its i-th receiver ends; f is 1 if it failed.  *)
(* Which receiver it is for makes no difference before.                    *)
Completed(d, i, f) ==
  /\ f = 1 => failed < MaxFailures /\ Faults < MaxFaults
  /\ failed' = failed + f
  /\ IF i = 1
     THEN /\ WindowOpen
          /\ mLinks' = [mLinks EXCEPT ![d].completed = @ + 1, ![d].failures = @ + f]
     ELSE UNCHANGED mLinks

Ended(s) ==
  /\ stage' = [stage EXCEPT ![s] = "idle"]
  /\ device' = [device EXCEPT ![s] = None]

(* Mutant: a message that was received stays among the gated ones.         *)
ReceivedStaysGated(s, i, f) ==
  /\ stage[s] = "passed"
  /\ i \in Receivers(device[s])
  /\ Completed(device[s], i, f)
  /\ mTransmit' = mTransmit \ {s}
  /\ RecordFlow(device[s])
  /\ Ended(s)
  /\ UNCHANGED <<worldVars, mGated, mDropped, loopVars, gone>>

(* f is 1 if the result it carries has a failed status.                    *)
MessageReceived(s, i, f) ==
  /\ stage[s] = "passed"
  /\ i \in Receivers(device[s])
  /\ Completed(device[s], i, f)
  /\ mGated' = mGated \ {s}
  /\ mTransmit' = mTransmit \ {s}
  /\ RecordFlow(device[s])
  /\ Ended(s)
  /\ UNCHANGED <<worldVars, mDropped, loopVars, gone>>

(* Mutant: what the gate dropped counts as a failure of the link.          *)
DiscardedCountsDrops(s, i) ==
  /\ stage[s] \in {"refused", "passed"}
  /\ i \in Receivers(device[s])
  /\ mDropped' = mDropped \ {s}
  /\ mGated' = mGated \ {s}
  /\ mTransmit' = mTransmit \ {s}
  /\ WindowOpen
  /\ mLinks' = [mLinks EXCEPT ![device[s]].completed = @ + 1, ![device[s]].failures = @ + 1]
  /\ IF s \in mDropped THEN UNCHANGED failed
     ELSE failed < MaxFailures /\ Faults < MaxFaults /\ failed' = failed + 1
  /\ RecordFlow(device[s])
  /\ Ended(s)
  /\ UNCHANGED <<worldVars, loopVars, gone>>

(* What the gate dropped is no observation of the link.                    *)
MessageDiscarded(s, i) ==
  /\ stage[s] \in {"refused", "passed"}
  /\ i \in Receivers(device[s])
  /\ mDropped' = mDropped \ {s}
  /\ mGated' = mGated \ {s}
  /\ IF s \in mDropped
     THEN UNCHANGED <<mLinks, mTransmit, failed>>
     ELSE Completed(device[s], i, 1) /\ mTransmit' = mTransmit \ {s}
  /\ RecordFlow(device[s])
  /\ Ended(s)
  /\ UNCHANGED <<worldVars, loopVars, gone>>

(* AFSIM gives up a message before it attempts a delivery.                 *)
DiscardedUnattempted(d, i) ==
  /\ Completed(d, i, 1)
  /\ RecordFlow(d)
  /\ UNCHANGED <<worldVars, stage, device, mGated, mDropped, mTransmit, loopVars, gone>>

(* The address of the message has no receiver any more: an early return.   *)
DiscardedUnheard(s) ==
  /\ stage[s] \in {"refused", "passed"}
  /\ gone < MaxGone /\ Faults < MaxFaults
  /\ gone' = gone + 1
  /\ stage' = [stage EXCEPT ![s] = "gone"]
  /\ device' = [device EXCEPT ![s] = None]
  /\ UNCHANGED <<worldVars, bookVars, loopVars, failed>>

(* Mutant: the ratio is that of the messages that arrived.                 *)
RateOfSuccess(failures, completed) ==
  IF failures = completed THEN "none" ELSE IF failures = 0 THEN "all" ELSE "some"

Rate(failures, completed) ==
  IF failures = 0 THEN "none" ELSE IF failures = completed THEN "all" ELSE "some"

(* Mutant: only the completed messages are counted anew.                   *)
RolledHalf(o) ==
  IF o.completed = 0 THEN o
  ELSE [completed |-> 0, failures |-> o.failures, lastLossRate |-> Rate(o.failures, o.completed)]

(* A window in which messages ended gives a new rate and starts again.     *)
Rolled(o) ==
  IF o.completed = 0 THEN o
  ELSE [completed |-> 0, failures |-> 0, lastLossRate |-> Rate(o.failures, o.completed)]

LossRate(o) ==
  IF o.lastLossRate # None /\ ~LossOverride THEN o.lastLossRate ELSE DefaultLoss

(* A device is up if one of its receivers is ready.                        *)
IsUp(d) ==
  /\ {Devices[d].source, Devices[d].target} \subseteq alive
  /\ Devices[d].sender \in on
  /\ \E i \in Receivers(d) : Devices[d].receivers[i] \in on

(* CollectState and SubmitCurrentState; old transmit times are dropped.    *)
CollectState(links) ==
  [loss  |-> [d \in Ids |-> LossRate(links[d])],
   up    |-> [d \in Ids |-> IsUp(d)],
   flows |-> mFlows]

Tick ==
  LET links == [d \in Ids |-> Rolled(mLinks[d])]
      report == CollectState(links)
  IN  /\ mLinks' = links
      /\ \E old \in SUBSET mTransmit : mTransmit' = mTransmit \ old
      /\ baseline' = report
      /\ reports' = IF report = baseline THEN reports
                    ELSE IF Len(reports) = MaxReports THEN [reports EXCEPT ![MaxReports] = report]
                    ELSE Append(reports, report)
      /\ UNCHANGED <<worldVars, stage, device, mGated, mDropped, mFlows, mProfiles, failed, gone>>

(* A result reaches the gate; results of reports before it will not.       *)
ResultArrives(i) ==
  /\ i \in 1 .. Len(reports)
  /\ mProfiles' = Profiles(reports[i])
  /\ reports' = SubSeq(reports, i + 1, Len(reports))
  /\ UNCHANGED <<worldVars, stage, device, bookVars, baseline, failed, gone>>

Next ==
  \/ \E c \in Comms : Switch(c)
  \/ \E d \in Ids : \E i \in Receivers(d) : DiscardedUnattempted(d, i)
  \/ \E p \in Platforms : PlatformBreaks(p)
  \/ \E s \in Serials :
       \/ \E d \in Ids, disposition \in {"NoLink", "Drop", "Deliver"} :
            MessageDeliveryAttempt(s, d, disposition)
       \/ \E i \in Places, f \in {0, 1} : MessageReceived(s, i, f)
       \/ \E i \in Places : MessageDiscarded(s, i)
       \/ DiscardedUnheard(s)
  \/ Tick
  \/ \E i \in 1 .. MaxReports : ResultArrives(i)

(* The simulation ticks, results arrive, AFSIM ends the messages it took   *)
(* on, and the scenario goes on to send over every pair that is up.        *)
Fairness ==
  /\ WF_vars(Tick)
  /\ WF_vars(\E i \in 1 .. MaxReports : ResultArrives(i))
  /\ \A s \in Serials :
       WF_vars(\E i \in Places : MessageReceived(s, i, 0) \/ MessageDiscarded(s, i))
  /\ \A p \in Pairs :
       WF_vars(\E s \in Serials, d \in Ids, disposition \in {"NoLink", "Drop", "Deliver"} :
                 Pair(d) = p /\ MessageDeliveryAttempt(s, d, disposition))

Spec == Init /\ [][Next]_vars
FairSpec == Spec /\ Fairness

-----------------------------------------------------------------------------
(* Properties.                                                             *)

(* The loss that is reported is AFSIM's own: however many messages the     *)
(* gate refuses, it never reads them back as the loss of the link.         *)
GateDropsAreNotMeasured ==
  failed = 0 =>
    \A d \in Ids : mLinks[d].failures = 0 /\ mLinks[d].lastLossRate \in {"none", None}

(* The extension's sets hold the messages AFSIM is busy with and no        *)
(* others, except those whose receiver was gone when they were discarded:  *)
(* the callbacks leave nothing behind over any sequence of messages.       *)
BooksFollowMessages ==
  /\ {s \in mGated : stage[s] # "gone"} = {s \in Serials : stage[s] \in {"refused", "passed"}}
  /\ {s \in mDropped : stage[s] # "gone"} = {s \in Serials : stage[s] = "refused"}
  /\ {s \in mTransmit : stage[s] # "gone"} \subseteq {s \in Serials : stage[s] = "passed"}

Settled == reports = <<>> /\ baseline # None /\ baseline = CollectState(mLinks)

(* Once a pair has sent a message and the report of it is answered, the    *)
(* gate's view of the pair is the topology's: it is open exactly if a comm *)
(* of the one platform and a comm it leads to on the other are switched    *)
(* on, whatever was lost and whichever of several comms they are.          *)
UsedPairsFollowTopology ==
  Settled =>
    \A p \in mFlows :
      mProfiles[p].connected <=>
        /\ {p[1], p[2]} \subseteq alive
        /\ \E d \in Ids : \E i \in Receivers(d) :
             Pair(d) = p /\ {Devices[d].sender, Devices[d].receivers[i]} \subseteq on

AllUp == \A d \in Ids : IsUp(d)
Through(p) == \E s \in Serials : stage[s] = "passed" /\ Pair(device[s]) = p

(* If AFSIM itself loses nothing, the devices stay up and the scenario     *)
(* goes on sending, messages get through: the gate, which starts closed    *)
(* and refuses the first messages, does not keep itself closed.            *)
OpensWithoutLoss ==
  <>[](AllUp /\ failed = 0 /\ gone = 0) => \A p \in Pairs : []<>Through(p)

(* "A single sampled packet that is lost counts as loss and is not taken   *)
(* for a broken link": on devices that stay up messages get through again, *)
(* however AFSIM lost some before.                                         *)
LossIsNotAnOutage ==
  <>[](AllUp /\ gone = 0) => \A p \in Pairs : []<>Through(p)

=============================================================================
