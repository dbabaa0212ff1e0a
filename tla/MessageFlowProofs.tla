------------------------- MODULE MessageFlowProofs -------------------------
(***************************************************************************)
(* Proofs about MessageFlow, for any platforms, comms and devices and any  *)
(* number of messages at a time.                                           *)
(*                                                                         *)
(*   BookInv    the extension's sets follow the messages, and the windows  *)
(*              count what AFSIM itself lost;                              *)
(*   ReportInv  the newest report is the last one under way, or the one    *)
(*              the gate's profiles are made of.                           *)
(***************************************************************************)
EXTENDS MessageFlow, CommonFacts, FiniteSetTheorems

-----------------------------------------------------------------------------
(* The invariants.                                                         *)

(* A message that AFSIM is busy with is on a device.                       *)
DeviceKnown ==
  \A s \in Serials : stage[s] \in {"refused", "passed"} => device[s] \in Ids

BookInv ==
  /\ DeviceKnown
  /\ BooksFollowMessages
  /\ GateDropsAreNotMeasured

ReportInv ==
  baseline # None =>
    IF reports = <<>> THEN mProfiles = Profiles(baseline)
    ELSE reports[Len(reports)] = baseline

-----------------------------------------------------------------------------
(* Devices, windows and reports.                                           *)

(* The parts of a device.                                                  *)
LEMMA DeviceFacts ==
  ASSUME NEW d \in Ids
  PROVE  /\ Devices[d] \in [source : Platforms, target : Platforms, sender : Comms,
                            receivers : Seq(Comms) \ {<<>>}]
         /\ Pair(d) \in Pairs
         /\ Pair(d) = <<Devices[d].source, Devices[d].target>>
         /\ d # None
PROOF
  <1>1. Devices[d] \in [source : Platforms, target : Platforms, sender : Comms,
                        receivers : Seq(Comms) \ {<<>>}]
    <2> DEFINE D == [source : Platforms, target : Platforms, sender : Comms,
                     receivers : Seq(Comms) \ {<<>>}]
    <2>1. Devices \in Seq(D) /\ d \in 1 .. Len(Devices)
      BY FlowConstants DEF Ids
    <2> HIDE DEF D
    <2>2. Devices[d] \in D
      BY <2>1
    <2> QED
      BY <2>2 DEF D
  <1>2. d # None
    BY FlowConstants
  <1> QED
    BY <1>1, <1>2 DEF Pair, Pairs

(* An open window has room for one more of every device.                   *)
LEMMA WindowRoom ==
  ASSUME TypeOK, WindowOpen, NEW d \in Ids
  PROVE  mLinks[d].completed < MaxWindow
PROOF
  <1> DEFINE n == mLinks[d].completed
             Box(e) == {e} \X (1 .. mLinks[e].completed)
             U == UNION {Box(e) : e \in Ids}
  <1>1. /\ MaxWindow \in Nat /\ Len(Devices) \in Nat
        /\ \A e \in Ids : mLinks[e].completed \in 0 .. MaxWindow
    BY FlowConstants DEF TypeOK, Observation
  <1>2. Cardinality(U) < MaxWindow
    BY DEF WindowOpen
  <1>3. IsFiniteSet(U)
    <2>1. IsFiniteSet(Ids) /\ IsFiniteSet(1 .. MaxWindow)
      BY <1>1, FS_Interval DEF Ids
    <2>2. IsFiniteSet(Ids \X (1 .. MaxWindow))
      BY <2>1, FS_Product
    <2>3. U \in SUBSET (Ids \X (1 .. MaxWindow))
      <3>1. ASSUME NEW e \in Ids PROVE Box(e) \subseteq Ids \X (1 .. MaxWindow)
        BY <1>1
      <3> QED
        BY <3>1
    <2> HIDE DEF U
    <2> QED
      BY <2>2, <2>3, FS_Subset
  <1>4. Box(d) \in SUBSET U
    OBVIOUS
  <1>5. Cardinality(Box(d)) = n
    <2>1. IsFiniteSet({d}) /\ Cardinality({d}) = 1
      BY FS_Singleton
    <2>2. n \in Nat /\ IsFiniteSet(1 .. n) /\ Cardinality(1 .. n) = n
      <3>1. n \in Nat /\ n \in Int /\ 1 \in Int
        BY <1>1
      <3> HIDE DEF n
      <3>2. IsFiniteSet(1 .. n) /\ Cardinality(1 .. n) = IF 1 > n THEN 0 ELSE n - 1 + 1
        BY <3>1, FS_Interval
      <3> QED
        BY <3>1, <3>2
    <2>3. Cardinality({d} \X (1 .. n)) = Cardinality({d}) * Cardinality(1 .. n)
      <3> HIDE DEF n
      <3> QED
        BY <2>1, <2>2, FS_Product
    <2> QED
      BY <2>1, <2>2, <2>3
  <1>6. Cardinality(Box(d)) <= Cardinality(U)
    <2> HIDE DEF U, Box
    <2> QED
      BY <1>3, <1>4, FS_Subset
  <1>7. Cardinality(U) \in Nat /\ n \in Nat
    <2> HIDE DEF U
    <2> QED
      BY <1>1, <1>3, FS_CardinalityType
  <1> HIDE DEF U, Box, n
  <1>8. n < MaxWindow
    BY <1>1, <1>2, <1>5, <1>6, <1>7
  <1> QED
    BY <1>8 DEF n

(* An observation whose window has room, with one message more.            *)
LEMMA Counted ==
  ASSUME NEW o \in Observation, NEW f \in {0, 1},
         o.completed < MaxWindow, o.failures <= o.completed
  PROVE  LET new == [o EXCEPT !.completed = @ + 1, !.failures = @ + f]
         IN  /\ new \in Observation
             /\ new.failures <= new.completed
             /\ new.failures = o.failures + f
             /\ new.lastLossRate = o.lastLossRate
PROOF
  <1> DEFINE new == [o EXCEPT !.completed = @ + 1, !.failures = @ + f]
  <1>1. MaxWindow \in Nat
    BY FlowConstants
  <1>2. o.completed \in Nat /\ o.failures \in Nat
    BY <1>1 DEF Observation
  <1>3. o.completed + 1 \in 0 .. MaxWindow /\ o.failures + f \in 0 .. MaxWindow
        /\ o.failures + f <= o.completed + 1
    BY <1>1, <1>2
  <1>4. /\ new.completed = o.completed + 1
        /\ new.failures = o.failures + f
        /\ new.lastLossRate = o.lastLossRate
    BY DEF Observation
  <1>5. [o EXCEPT !.completed = o.completed + 1] \in Observation
    BY <1>3 DEF Observation
  <1>6. new = [[o EXCEPT !.completed = o.completed + 1] EXCEPT !.failures = o.failures + f]
    BY DEF Observation
  <1>7. new \in Observation
    BY <1>3, <1>5, <1>6 DEF Observation
  <1> QED
    BY <1>3, <1>4, <1>7

(* A window that starts again.                                             *)
LEMMA RolledFacts ==
  ASSUME NEW o \in Observation, o.failures <= o.completed
  PROVE  /\ Rolled(o) \in Observation
         /\ Rolled(o).failures <= Rolled(o).completed
         /\ o.failures = 0 /\ o.lastLossRate \in {"none", None} =>
              Rolled(o).failures = 0 /\ Rolled(o).lastLossRate \in {"none", None}
  BY FlowConstants DEF Observation, Rolled, Rate, Rates

(* What CollectState reports is a report.                                  *)
LEMMA CollectFacts ==
  ASSUME TypeOK, NEW links \in [Ids -> Observation]
  PROVE  /\ CollectState(links) \in Report
         /\ CollectState(links).up = [d \in Ids |-> IsUp(d)]
         /\ CollectState(links).flows = mFlows
PROOF
  <1>1. \A d \in Ids : LossRate(links[d]) \in Rates
    BY FlowConstants DEF LossRate, Observation
  <1>2. \A d \in Ids : IsUp(d) \in BOOLEAN
    BY DEF IsUp
  <1>3. mFlows \in SUBSET Pairs
    BY DEF TypeOK
  <1> QED
    BY <1>1, <1>2, <1>3 DEF CollectState, Report

(* The profiles the gate makes of a report.                                *)
LEMMA ProfilesFacts ==
  ASSUME NEW r \in Report
  PROVE  /\ DOMAIN Profiles(r) = Pairs
         /\ \A p \in Pairs : Profiles(r)[p] \in Profile
PROOF
  <1>1. DOMAIN Profiles(r) = Pairs
    BY DEF Profiles
  <1>2. ASSUME NEW p \in Pairs PROVE Profiles(r)[p] \in Profile
    <2>1. r.up \in [Ids -> BOOLEAN] /\ r.loss \in [Ids -> Rates]
      BY DEF Report
    <2>2. LastOf(p) \in Ids
      <3> DEFINE S == {d \in Ids : Pair(d) = p}
      <3>1. S \in SUBSET (1 .. Len(Devices)) /\ S # {} /\ Len(Devices) \in Nat
        BY FlowConstants DEF Ids, Pairs
      <3>2. \E d \in S : \A e \in S : e <= d
        <4> HIDE DEF S
        <4> QED
          BY <3>1, GreatestElement
      <3>3. \E d \in Ids : Pair(d) = p /\ \A e \in Ids : Pair(e) = p => e <= d
        BY <3>2
      <3> QED
        BY <3>3 DEF LastOf
    <2>3. Connected(r, p) \in BOOLEAN
      BY DEF Connected
    <2>4. LinkState(r, LastOf(p)) \in BOOLEAN /\ r.loss[LastOf(p)] \in Rates
      BY <2>1, <2>2 DEF LinkState
    <2> QED
      BY <2>3, <2>4 DEF Profiles, Profile
  <1> QED
    BY <1>1, <1>2

(* A message that ends changes one window at most, and failures are        *)
(* AFSIM's.                                                                *)
LEMMA CompletedFacts ==
  ASSUME TypeOK, NEW d \in Ids, NEW i, NEW f \in {0, 1}, Completed(d, i, f)
  PROVE  /\ mLinks' \in [Ids -> Observation]
         /\ \A e \in Ids : mLinks'[e].failures <= mLinks'[e].completed
         /\ failed' \in 0 .. MaxFailures
         /\ failed' = 0 =>
              /\ failed = 0
              /\ \A e \in Ids : /\ mLinks'[e].failures = mLinks[e].failures
                                /\ mLinks'[e].lastLossRate = mLinks[e].lastLossRate
PROOF
  <1>1. /\ failed \in 0 .. MaxFailures /\ MaxFailures \in Nat
        /\ mLinks \in [Ids -> Observation]
        /\ \A e \in Ids : /\ mLinks[e] \in Observation
                          /\ mLinks[e].failures \in Nat
                          /\ mLinks[e].failures <= mLinks[e].completed
    BY FlowConstants DEF TypeOK, Observation
  <1>2. /\ failed' \in 0 .. MaxFailures
        /\ failed' = 0 => failed = 0 /\ f = 0
    BY <1>1 DEF Completed
  <1>3. CASE i = 1
    <2> DEFINE new == [mLinks[d] EXCEPT !.completed = @ + 1, !.failures = @ + f]
    <2>1. WindowOpen /\ mLinks' = [mLinks EXCEPT ![d].completed = @ + 1, ![d].failures = @ + f]
      BY <1>3 DEF Completed
    <2>2. mLinks[d].completed < MaxWindow
      BY <2>1, WindowRoom
    <2>3. /\ new \in Observation
          /\ new.failures <= new.completed
          /\ new.failures = mLinks[d].failures + f
          /\ new.lastLossRate = mLinks[d].lastLossRate
      BY <1>1, <2>2, Counted
    <2>4. mLinks' = [mLinks EXCEPT ![d] = new]
      BY <1>1, <2>1
    <2> HIDE DEF new
    <2>5. mLinks' \in [Ids -> Observation]
      BY <1>1, <2>3, <2>4
    <2>6. mLinks'[d] = new /\ \A e \in Ids \ {d} : mLinks'[e] = mLinks[e]
      BY <1>1, <2>4
    <2>7. ASSUME f = 0 PROVE new.failures = mLinks[d].failures
      BY <1>1, <2>3, <2>7
    <2> QED
      BY <1>1, <1>2, <2>3, <2>5, <2>6, <2>7
  <1>4. CASE i # 1
    <2>1. mLinks' = mLinks
      BY <1>4 DEF Completed
    <2> QED
      BY <1>1, <1>2, <2>1
  <1> QED
    BY <1>3, <1>4

-----------------------------------------------------------------------------
(* Types, and the extension's books.                                       *)

(* Initially nothing is known and nothing was sent.                        *)
LEMMA FlowInitially ==
  Init => TypeOK /\ BookInv /\ ReportInv
PROOF
  <1> SUFFICES ASSUME Init PROVE TypeOK /\ BookInv /\ ReportInv
    OBVIOUS
  <1>1. mLinks \in [Ids -> Observation]
        /\ \A d \in Ids : /\ mLinks[d].failures = 0 /\ mLinks[d].completed = 0
                          /\ mLinks[d].lastLossRate = None
    BY FlowConstants DEF Init, Observation
  <1>2. reports \in Seq(Report) /\ Len(reports) = 0 /\ DOMAIN mProfiles = {}
    BY DEF Init
  <1>3. TypeOK
    BY <1>1, <1>2, FlowConstants DEF Init, TypeOK
  <1>4. BookInv
    BY <1>1 DEF Init, BookInv, DeviceKnown, BooksFollowMessages, GateDropsAreNotMeasured
  <1>5. ReportInv
    BY DEF Init, ReportInv
  <1> QED
    BY <1>3, <1>4, <1>5

(* The parts of TypeOK: the messages, the windows and the reports.         *)
MessageTypeOK ==
  /\ stage \in [Serials -> {"idle", "refused", "passed", "gone"}]
  /\ device \in [Serials -> Ids \cup {None}]
  /\ mGated \subseteq Serials /\ mDropped \subseteq Serials /\ mTransmit \subseteq Serials
  /\ gone \in 0 .. MaxGone
LinkTypeOK ==
  /\ mLinks \in [Ids -> Observation]
  /\ \A d \in Ids : mLinks[d].failures <= mLinks[d].completed
  /\ mFlows \subseteq Pairs
  /\ failed \in 0 .. MaxFailures
ReportTypeOK ==
  /\ reports \in Seq(Report) /\ Len(reports) <= MaxReports
  /\ baseline \in Report \cup {None}
  /\ DOMAIN mProfiles \subseteq Pairs /\ \A p \in DOMAIN mProfiles : mProfiles[p] \in Profile

(* A step of the world, which touches nothing of the extension.            *)
LEMMA WorldKeeps ==
  ASSUME TypeOK, BookInv, ReportInv,
         (\E c \in Comms : Switch(c)) \/ (\E p \in Platforms : PlatformBreaks(p))
  PROVE  TypeOK' /\ BookInv' /\ ReportInv'
PROOF
  <1>1. /\ alive' \subseteq Platforms /\ on' \subseteq Comms
        /\ changes' \in 0 .. MaxChanges
        /\ UNCHANGED <<stage, device, bookVars, loopVars, failed, gone>>
    BY FlowConstants DEF TypeOK, Switch, PlatformBreaks
  <1>2. TypeOK'
    BY <1>1 DEF TypeOK, bookVars, loopVars
  <1>3. BookInv'
    BY <1>1 DEF BookInv, DeviceKnown, BooksFollowMessages, GateDropsAreNotMeasured, bookVars
  <1>4. ReportInv'
    BY <1>1 DEF ReportInv, Profiles, Connected, HasActivePath, LinkState, loopVars
  <1> QED
    BY <1>2, <1>3, <1>4

(* A step of a message: it leaves the world and the reports alone.         *)
LEMMA MessageFrame ==
  ASSUME TypeOK, ReportInv, UNCHANGED <<worldVars, loopVars>>
  PROVE  /\ ReportInv'
         /\ MessageTypeOK' /\ LinkTypeOK' => TypeOK'
PROOF
  <1>1. ReportInv'
    BY DEF ReportInv, Profiles, Connected, HasActivePath, LinkState, loopVars
  <1>2. ASSUME MessageTypeOK', LinkTypeOK' PROVE TypeOK'
    BY <1>2 DEF TypeOK, MessageTypeOK, LinkTypeOK, worldVars, loopVars
  <1> QED
    BY <1>1, <1>2

(* Steps that do not touch the windows keep what they say.                 *)
LEMMA WindowFrame ==
  ASSUME TypeOK, BookInv, UNCHANGED <<mLinks, failed>>, mFlows' \in SUBSET Pairs
  PROVE  LinkTypeOK' /\ GateDropsAreNotMeasured'
  BY DEF TypeOK, LinkTypeOK, BookInv, GateDropsAreNotMeasured

(* Neither does the end of a message make a failure of the gate's drops.   *)
LEMMA CompletedWindow ==
  ASSUME TypeOK, BookInv, NEW d \in Ids, NEW i, NEW f \in {0, 1}, Completed(d, i, f),
         mFlows' \in SUBSET Pairs
  PROVE  LinkTypeOK' /\ GateDropsAreNotMeasured'
  BY CompletedFacts DEF LinkTypeOK, BookInv, GateDropsAreNotMeasured

(* The flow of a device that is known is a pair.                           *)
LEMMA FlowFacts ==
  ASSUME TypeOK, NEW d \in Ids, RecordFlow(d)
  PROVE  mFlows' \in SUBSET Pairs
  BY DeviceFacts DEF TypeOK, RecordFlow

(* A message that the gate is asked about.                                 *)
LEMMA AttemptKeeps ==
  ASSUME TypeOK, BookInv, NEW s \in Serials, NEW d \in Ids, NEW disposition,
         MessageDeliveryAttempt(s, d, disposition)
  PROVE  MessageTypeOK' /\ LinkTypeOK' /\ BookInv'
PROOF
  <1>1. /\ stage[s] = "idle"
        /\ RecordFlow(d)
        /\ mGated' = mGated \cup {s}
        /\ device' = [device EXCEPT ![s] = d]
        /\ UNCHANGED <<mLinks, failed, gone>>
    BY DEF MessageDeliveryAttempt
  <1>2. /\ stage \in [Serials -> {"idle", "refused", "passed", "gone"}]
        /\ device \in [Serials -> Ids \cup {None}]
        /\ mGated \subseteq Serials /\ mDropped \subseteq Serials /\ mTransmit \subseteq Serials
        /\ gone \in 0 .. MaxGone
    BY DEF TypeOK
  <1>3. LinkTypeOK' /\ GateDropsAreNotMeasured'
    BY <1>1, FlowFacts, WindowFrame
  <1>4. CASE disposition = "Deliver"
    <2>1. /\ mDropped' = mDropped \ {s}
          /\ mTransmit' = mTransmit \cup {s}
          /\ stage' = [stage EXCEPT ![s] = "passed"]
      BY <1>4 DEF MessageDeliveryAttempt
    <2>2. MessageTypeOK' /\ DeviceKnown'
      BY <1>1, <1>2, <2>1 DEF MessageTypeOK, DeviceKnown, BookInv
    <2>3. BooksFollowMessages'
      BY <1>1, <1>2, <2>1 DEF BooksFollowMessages, BookInv
    <2> QED
      BY <1>3, <2>2, <2>3 DEF BookInv
  <1>5. CASE disposition # "Deliver"
    <2>1. /\ mDropped' = mDropped \cup {s}
          /\ mTransmit' = mTransmit
          /\ stage' = [stage EXCEPT ![s] = "refused"]
      BY <1>5 DEF MessageDeliveryAttempt
    <2>2. MessageTypeOK' /\ DeviceKnown'
      BY <1>1, <1>2, <2>1 DEF MessageTypeOK, DeviceKnown, BookInv
    <2>3. BooksFollowMessages'
      BY <1>1, <1>2, <2>1 DEF BooksFollowMessages, BookInv
    <2> QED
      BY <1>3, <2>2, <2>3 DEF BookInv
  <1> QED
    BY <1>4, <1>5

(* A message that is no longer AFSIM's business leaves all the sets.       *)
LEMMA EndKeeps ==
  ASSUME TypeOK, BookInv, NEW s \in Serials,
         stage[s] \in {"refused", "passed"}, Ended(s),
         mGated' = mGated \ {s}, mDropped' = mDropped \ {s}, mTransmit' = mTransmit \ {s},
         gone' = gone
  PROVE  MessageTypeOK' /\ DeviceKnown' /\ BooksFollowMessages'
PROOF
  <1>1. /\ stage \in [Serials -> {"idle", "refused", "passed", "gone"}]
        /\ device \in [Serials -> Ids \cup {None}]
        /\ mGated \subseteq Serials /\ mDropped \subseteq Serials /\ mTransmit \subseteq Serials
        /\ gone \in 0 .. MaxGone
    BY DEF TypeOK
  <1>2. MessageTypeOK' /\ DeviceKnown'
    BY <1>1 DEF Ended, MessageTypeOK, DeviceKnown, BookInv
  <1>3. BooksFollowMessages'
    BY <1>1 DEF Ended, BooksFollowMessages, BookInv
  <1> QED
    BY <1>2, <1>3

(* A message that is received leaves the sets and counts in a window ...   *)
LEMMA ReceivedKeeps ==
  ASSUME TypeOK, BookInv, NEW s \in Serials, NEW i, NEW f \in {0, 1}, MessageReceived(s, i, f)
  PROVE  MessageTypeOK' /\ LinkTypeOK' /\ BookInv'
PROOF
  <1>1. /\ stage[s] = "passed" /\ Completed(device[s], i, f) /\ RecordFlow(device[s])
        /\ Ended(s) /\ gone' = gone
        /\ mGated' = mGated \ {s} /\ mTransmit' = mTransmit \ {s} /\ mDropped' = mDropped
    BY DEF MessageReceived
  <1>2. device[s] \in Ids
    BY <1>1 DEF BookInv, DeviceKnown
  <1>3. s \notin mDropped
    BY <1>1 DEF BookInv, BooksFollowMessages
  <1>4. mDropped' = mDropped \ {s}
    BY <1>1, <1>3
  <1>5. MessageTypeOK' /\ DeviceKnown' /\ BooksFollowMessages'
    BY <1>1, <1>4, EndKeeps
  <1>6. LinkTypeOK' /\ GateDropsAreNotMeasured'
    BY <1>1, <1>2, FlowFacts, CompletedWindow
  <1> QED
    BY <1>5, <1>6 DEF BookInv

(* ... so does one that AFSIM discards, unless the gate had dropped it.    *)
LEMMA DiscardedKeeps ==
  ASSUME TypeOK, BookInv, NEW s \in Serials, NEW i, MessageDiscarded(s, i)
  PROVE  MessageTypeOK' /\ LinkTypeOK' /\ BookInv'
PROOF
  <1>1. /\ stage[s] \in {"refused", "passed"} /\ RecordFlow(device[s])
        /\ Ended(s) /\ gone' = gone
        /\ mGated' = mGated \ {s} /\ mDropped' = mDropped \ {s}
    BY DEF MessageDiscarded
  <1>2. device[s] \in Ids
    BY <1>1 DEF BookInv, DeviceKnown
  <1>3. mFlows' \in SUBSET Pairs
    BY <1>1, <1>2, FlowFacts
  <1>4. CASE s \in mDropped
    <2>1. UNCHANGED <<mLinks, mTransmit, failed>>
      BY <1>4 DEF MessageDiscarded
    <2>2. s \notin mTransmit
      BY <1>1, <1>4 DEF BookInv, BooksFollowMessages
    <2>3. mTransmit' = mTransmit \ {s}
      BY <2>1, <2>2
    <2>4. LinkTypeOK' /\ GateDropsAreNotMeasured'
      BY <1>3, <2>1, WindowFrame
    <2> QED
      BY <1>1, <2>3, <2>4, EndKeeps DEF BookInv
  <1>5. CASE s \notin mDropped
    <2>1. Completed(device[s], i, 1) /\ mTransmit' = mTransmit \ {s}
      BY <1>5 DEF MessageDiscarded
    <2>2. LinkTypeOK' /\ GateDropsAreNotMeasured'
      BY <1>2, <1>3, <2>1, CompletedWindow
    <2> QED
      BY <1>1, <2>1, <2>2, EndKeeps DEF BookInv
  <1> QED
    BY <1>4, <1>5

(* A discard that the extension does not hear of leaves the message in its *)
(* sets, and nobody busy with it.                                          *)
LEMMA UnheardKeeps ==
  ASSUME TypeOK, BookInv, NEW s \in Serials, DiscardedUnheard(s)
  PROVE  MessageTypeOK' /\ LinkTypeOK' /\ BookInv'
PROOF
  <1>1. /\ stage[s] \in {"refused", "passed"}
        /\ gone' \in 0 .. MaxGone
        /\ stage' = [stage EXCEPT ![s] = "gone"]
        /\ device' = [device EXCEPT ![s] = None]
        /\ UNCHANGED <<mGated, mDropped, mTransmit, mLinks, mFlows, failed>>
    BY FlowConstants DEF DiscardedUnheard, TypeOK, bookVars
  <1>2. /\ stage \in [Serials -> {"idle", "refused", "passed", "gone"}]
        /\ device \in [Serials -> Ids \cup {None}]
        /\ mGated \subseteq Serials /\ mDropped \subseteq Serials /\ mTransmit \subseteq Serials
        /\ mFlows \subseteq Pairs
    BY DEF TypeOK
  <1>3. MessageTypeOK' /\ DeviceKnown'
    BY <1>1, <1>2 DEF MessageTypeOK, DeviceKnown, BookInv
  <1>4. BooksFollowMessages'
    BY <1>1, <1>2 DEF BooksFollowMessages, BookInv
  <1>5. LinkTypeOK' /\ GateDropsAreNotMeasured'
    BY <1>1, <1>2, WindowFrame
  <1> QED
    BY <1>3, <1>4, <1>5 DEF BookInv

(* A discard without an attempt only counts in a window.                   *)
LEMMA UnattemptedKeeps ==
  ASSUME TypeOK, BookInv, NEW d \in Ids, NEW i, DiscardedUnattempted(d, i)
  PROVE  MessageTypeOK' /\ LinkTypeOK' /\ BookInv'
PROOF
  <1>1. /\ Completed(d, i, 1) /\ RecordFlow(d)
        /\ UNCHANGED <<stage, device, mGated, mDropped, mTransmit, gone>>
    BY DEF DiscardedUnattempted
  <1>2. LinkTypeOK' /\ GateDropsAreNotMeasured'
    BY <1>1, FlowFacts, CompletedWindow
  <1>3. MessageTypeOK' /\ DeviceKnown' /\ BooksFollowMessages'
    BY <1>1 DEF TypeOK, MessageTypeOK, BookInv, DeviceKnown, BooksFollowMessages
  <1> QED
    BY <1>2, <1>3 DEF BookInv

-----------------------------------------------------------------------------
(* Reports and results.                                                    *)

(* A tick reports what is new; the last report under way is the newest.    *)
LEMMA TickKeeps ==
  ASSUME TypeOK, BookInv, ReportInv, Tick
  PROVE  TypeOK' /\ BookInv' /\ ReportInv'
PROOF
  <1> DEFINE links == [d \in Ids |-> Rolled(mLinks[d])]
             report == CollectState(links)
  <1>1. /\ mLinks' = links
        /\ mTransmit' \subseteq mTransmit
        /\ baseline' = report
        /\ reports' = IF report = baseline THEN reports
                      ELSE IF Len(reports) = MaxReports THEN [reports EXCEPT ![MaxReports] = report]
                      ELSE Append(reports, report)
        /\ UNCHANGED <<worldVars, stage, device, mGated, mDropped, mFlows, mProfiles, failed, gone>>
    BY DEF Tick
  <1>2. /\ mLinks \in [Ids -> Observation]
        /\ \A d \in Ids : mLinks[d] \in Observation /\ mLinks[d].failures <= mLinks[d].completed
        /\ mTransmit \subseteq Serials
        /\ reports \in Seq(Report) /\ Len(reports) <= MaxReports
    BY DEF TypeOK
  <1>3. /\ links \in [Ids -> Observation]
        /\ \A d \in Ids : links[d].failures <= links[d].completed
        /\ failed = 0 =>
             \A d \in Ids : links[d].failures = 0 /\ links[d].lastLossRate \in {"none", None}
    BY <1>2, RolledFacts DEF BookInv, GateDropsAreNotMeasured
  <1>4. report \in Report
    <2> HIDE DEF links
    <2> QED
      BY <1>3, CollectFacts
  <1>5. MaxReports \in Nat \ {0} /\ Len(reports) \in Nat
    BY <1>2, FlowConstants
  <1> HIDE DEF links, report
  <1>6. BookInv'
    <2>1. BooksFollowMessages'
      BY <1>1 DEF BookInv, BooksFollowMessages
    <2>2. DeviceKnown' /\ GateDropsAreNotMeasured'
      BY <1>1, <1>3 DEF BookInv, DeviceKnown, GateDropsAreNotMeasured
    <2> QED
      BY <2>1, <2>2 DEF BookInv
  <1>7. SUFFICES /\ reports' \in Seq(Report) /\ Len(reports') <= MaxReports
                 /\ ReportInv'
    BY <1>1, <1>2, <1>3, <1>4, <1>6 DEF TypeOK, worldVars
  <1>8. CASE report = baseline
    <2>1. reports' = reports /\ baseline' = baseline /\ mProfiles' = mProfiles
      BY <1>1, <1>8
    <2> QED
      BY <1>2, <2>1 DEF ReportInv, Profiles, Connected, HasActivePath, LinkState
  <1>9. CASE report # baseline /\ Len(reports) = MaxReports
    <2>1. reports' = [reports EXCEPT ![MaxReports] = report]
      BY <1>1, <1>9
    <2>2. MaxReports \in 1 .. Len(reports)
      BY <1>5, <1>9
    <2>3. /\ reports' \in Seq(Report)
          /\ Len(reports') = Len(reports)
          /\ reports'[MaxReports] = report
      BY <1>2, <1>4, <2>1, <2>2, ExceptSeq
    <2>4. reports' # <<>>
      BY <1>5, <1>9, <2>3
    <2> QED
      BY <1>1, <1>5, <1>9, <2>3, <2>4 DEF ReportInv
  <1>10. CASE report # baseline /\ Len(reports) # MaxReports
    <2>1. reports' = Append(reports, report)
      BY <1>1, <1>10
    <2>2. /\ reports' \in Seq(Report)
          /\ Len(reports') = Len(reports) + 1
          /\ reports'[Len(reports) + 1] = report
      BY <1>2, <1>4, <2>1, AppendFacts
    <2>3. reports' # <<>> /\ Len(reports') <= MaxReports
      BY <1>2, <1>5, <1>10, <2>2
    <2>4. reports'[Len(reports')] = baseline'
      BY <1>1, <2>2
    <2> QED
      BY <2>2, <2>3, <2>4 DEF ReportInv
  <1> QED
    BY <1>8, <1>9, <1>10

(* A result is of a report, and the newest report is still to come or this *)
(* one.                                                                    *)
LEMMA ResultKeeps ==
  ASSUME TypeOK, BookInv, ReportInv, NEW i \in 1 .. MaxReports, ResultArrives(i)
  PROVE  TypeOK' /\ BookInv' /\ ReportInv'
PROOF
  <1> DEFINE n == Len(reports)
  <1>1. /\ i \in 1 .. n
        /\ mProfiles' = Profiles(reports[i])
        /\ reports' = SubSeq(reports, i + 1, n)
        /\ UNCHANGED <<worldVars, stage, device, bookVars, baseline, failed, gone>>
    BY DEF ResultArrives
  <1>2. /\ reports \in Seq(Report) /\ n \in Nat /\ n <= MaxReports /\ MaxReports \in Nat
        /\ \A k \in 1 .. n : reports[k] \in Report
        /\ i \in Nat
    BY <1>1, FlowConstants DEF TypeOK
  <1> HIDE DEF n
  <1>3. /\ reports' \in Seq(Report)
        /\ Len(reports') = IF i + 1 <= n THEN n - (i + 1) + 1 ELSE 0
        /\ \A k \in 1 .. n - (i + 1) + 1 : reports'[k] = reports[i + 1 + k - 1]
    <2>1. \A k \in i + 1 .. n : reports[k] \in Report
      BY <1>1, <1>2
    <2>2. i + 1 \in Int /\ n \in Int
      BY <1>2
    <2> QED
      BY <1>1, <2>1, <2>2, SubSeqProperties
  <1>4. Len(reports') <= MaxReports
    BY <1>1, <1>2, <1>3
  <1>5. DOMAIN mProfiles' = Pairs /\ \A p \in Pairs : mProfiles'[p] \in Profile
    BY <1>1, <1>2, ProfilesFacts
  <1>6. TypeOK'
    BY <1>1, <1>3, <1>4, <1>5 DEF TypeOK, worldVars, bookVars
  <1>7. BookInv'
    BY <1>1 DEF BookInv, DeviceKnown, BooksFollowMessages, GateDropsAreNotMeasured, bookVars
  <1>8. ReportInv'
    <2> SUFFICES ASSUME baseline # None
                 PROVE  IF reports' = <<>> THEN mProfiles' = Profiles(baseline)
                        ELSE reports'[Len(reports')] = baseline
      BY <1>1 DEF ReportInv, Profiles, Connected, HasActivePath, LinkState
    <2>1. n > 0 /\ reports # <<>>
      BY <1>1, <1>2 DEF n
    <2>2. reports[n] = baseline
      BY <2>1 DEF ReportInv, n
    <2>3. CASE i = n
      <3>1. Len(reports') = 0
        BY <1>2, <1>3, <2>3
      <3>2. reports' = <<>>
        BY <1>3, <3>1
      <3> QED
        BY <1>1, <2>2, <2>3, <3>2
    <2>4. CASE i # n
      <3>1. Len(reports') = n - i /\ n - i > 0 /\ n - i \in 1 .. n - (i + 1) + 1
        BY <1>1, <1>2, <1>3, <2>4
      <3>2. reports' # <<>>
        BY <1>3, <3>1
      <3>3. i + 1 + (n - i) - 1 = n
        BY <1>2
      <3>4. reports'[n - i] = reports[i + 1 + (n - i) - 1]
        BY <1>3, <3>1
      <3> QED
        BY <2>2, <3>1, <3>2, <3>3, <3>4
    <2> QED
      BY <2>3, <2>4
  <1> QED
    BY <1>6, <1>7, <1>8

(* Every step keeps the invariant.                                         *)
LEMMA FlowInductive ==
  TypeOK /\ BookInv /\ ReportInv /\ [Next]_vars => (TypeOK /\ BookInv /\ ReportInv)'
PROOF
  <1> SUFFICES ASSUME TypeOK, BookInv, ReportInv, [Next]_vars
               PROVE  TypeOK' /\ BookInv' /\ ReportInv'
    OBVIOUS
  <1>1. ASSUME NEW s \in Serials, NEW d \in Ids, NEW disposition,
               MessageDeliveryAttempt(s, d, disposition)
        PROVE  TypeOK' /\ BookInv' /\ ReportInv'
    <2>1. UNCHANGED <<worldVars, loopVars>>
      BY <1>1 DEF MessageDeliveryAttempt
    <2> QED
      BY <1>1, <2>1, AttemptKeeps, MessageFrame
  <1>2. ASSUME NEW s \in Serials, NEW i, NEW f \in {0, 1}, MessageReceived(s, i, f)
        PROVE  TypeOK' /\ BookInv' /\ ReportInv'
    <2>1. UNCHANGED <<worldVars, loopVars>>
      BY <1>2 DEF MessageReceived
    <2> QED
      BY <1>2, <2>1, ReceivedKeeps, MessageFrame
  <1>3. ASSUME NEW s \in Serials, NEW i, MessageDiscarded(s, i)
        PROVE  TypeOK' /\ BookInv' /\ ReportInv'
    <2>1. UNCHANGED <<worldVars, loopVars>>
      BY <1>3 DEF MessageDiscarded
    <2> QED
      BY <1>3, <2>1, DiscardedKeeps, MessageFrame
  <1>4. ASSUME NEW s \in Serials, DiscardedUnheard(s)
        PROVE  TypeOK' /\ BookInv' /\ ReportInv'
    <2>1. UNCHANGED <<worldVars, loopVars>>
      BY <1>4 DEF DiscardedUnheard
    <2> QED
      BY <1>4, <2>1, UnheardKeeps, MessageFrame
  <1>5. ASSUME NEW d \in Ids, NEW i, DiscardedUnattempted(d, i)
        PROVE  TypeOK' /\ BookInv' /\ ReportInv'
    <2>1. UNCHANGED <<worldVars, loopVars>>
      BY <1>5 DEF DiscardedUnattempted
    <2> QED
      BY <1>5, <2>1, UnattemptedKeeps, MessageFrame
  <1>6. CASE UNCHANGED vars
    <2>1. TypeOK' /\ BookInv'
      BY <1>6 DEF vars, worldVars, bookVars, loopVars, TypeOK, BookInv, DeviceKnown,
                  BooksFollowMessages, GateDropsAreNotMeasured
    <2>2. ReportInv'
      BY <1>6 DEF vars, loopVars, ReportInv, Profiles, Connected, HasActivePath, LinkState
    <2> QED
      BY <2>1, <2>2
  <1>7. CASE Next
    BY <1>1, <1>2, <1>3, <1>4, <1>5, <1>7, WorldKeeps, TickKeeps, ResultKeeps DEF Next
  <1> QED
    BY <1>6, <1>7

(* The invariant holds of every reachable state.                           *)
LEMMA FlowInvariant ==
  Spec => [](TypeOK /\ BookInv /\ ReportInv)
  BY FlowInitially, FlowInductive, PTL DEF Spec

-----------------------------------------------------------------------------
(* The properties.                                                         *)

(* Every variable keeps its type; in particular no window ever counts more *)
(* failures than messages, so that the loss rate it gives is a rate.       *)
THEOREM FlowTypeCorrect ==
  Spec => []TypeOK
  BY FlowInvariant, PTL

(* However AFSIM ends messages, in whatever order, the callbacks leave     *)
(* nothing behind in the extension's sets but the messages that ended      *)
(* unheard.                                                                *)
THEOREM BooksAlwaysFollowMessages ==
  Spec => []BooksFollowMessages
PROOF
  <1>1. BookInv => BooksFollowMessages
    BY DEF BookInv
  <1> QED
    BY <1>1, FlowInvariant, PTL

(* The gate's own drops never come back to it as measured loss.            *)
THEOREM GateNeverMeasuresItself ==
  Spec => []GateDropsAreNotMeasured
PROOF
  <1>1. BookInv => GateDropsAreNotMeasured
    BY DEF BookInv
  <1> QED
    BY <1>1, FlowInvariant, PTL

(* Once the newest report is answered, the gate is open for a pair that    *)
(* was used exactly if the pair is up.  A flow's path over several         *)
(* platforms adds nothing: a device of the pair that is up is such a path. *)
THEOREM UsedPairsAlwaysFollowTopology ==
  Spec => []UsedPairsFollowTopology
PROOF
  <1>1. ASSUME TypeOK, ReportInv PROVE UsedPairsFollowTopology
    <2> SUFFICES ASSUME Settled, NEW p \in mFlows
                 PROVE  mProfiles[p].connected <=>
                          /\ {p[1], p[2]} \subseteq alive
                          /\ \E d \in Ids : \E i \in Receivers(d) :
                               /\ Pair(d) = p
                               /\ {Devices[d].sender, Devices[d].receivers[i]} \subseteq on
      BY DEF UsedPairsFollowTopology
    <2>1. mProfiles = Profiles(baseline) /\ baseline = CollectState(mLinks)
      BY <1>1 DEF Settled, ReportInv
    <2>2. p \in Pairs /\ mLinks \in [Ids -> Observation]
      BY <1>1 DEF TypeOK
    <2>3. baseline.up = [d \in Ids |-> IsUp(d)] /\ p \in baseline.flows
      BY <1>1, <2>1, <2>2, CollectFacts
    <2>4. mProfiles[p].connected = Connected(baseline, p)
      BY <2>1, <2>2, <2>3 DEF Profiles
    <2>5. ASSUME NEW d \in Ids, Pair(d) = p, baseline.up[d]
          PROVE  HasActivePath(baseline, p)
      <3>1. p[1] = Devices[d].source /\ p[2] = Devices[d].target
        BY <2>5 DEF Pair
      <3> QED
        BY <2>5, <3>1 DEF HasActivePath, LinkState
    <2>6. Connected(baseline, p) <=> \E d \in Ids : Pair(d) = p /\ IsUp(d)
      BY <2>3, <2>5 DEF Connected
    <2>7. ASSUME NEW d \in Ids, Pair(d) = p
          PROVE  IsUp(d) <=>
                   /\ {p[1], p[2]} \subseteq alive
                   /\ \E i \in Receivers(d) :
                        {Devices[d].sender, Devices[d].receivers[i]} \subseteq on
      <3>1. p[1] = Devices[d].source /\ p[2] = Devices[d].target
        BY <2>7 DEF Pair
      <3>2. ASSUME IsUp(d)
            PROVE  /\ {p[1], p[2]} \subseteq alive
                   /\ \E i \in Receivers(d) :
                        {Devices[d].sender, Devices[d].receivers[i]} \subseteq on
        BY <3>1, <3>2 DEF IsUp
      <3>3. ASSUME {p[1], p[2]} \subseteq alive,
                   NEW i \in Receivers(d),
                   {Devices[d].sender, Devices[d].receivers[i]} \subseteq on
            PROVE  IsUp(d)
        BY <3>1, <3>3 DEF IsUp
      <3> QED
        BY <3>2, <3>3
    <2> QED
      BY <2>4, <2>6, <2>7
  <1> QED
    BY <1>1, FlowInvariant, PTL

=============================================================================
