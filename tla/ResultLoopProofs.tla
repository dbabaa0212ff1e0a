-------------------------- MODULE ResultLoopProofs --------------------------
(***************************************************************************)
(* Proofs about ResultLoop: client and service are an environment that     *)
(* MetricsGates allows, so that its theorems hold in the loop, and the     *)
(* gates follow AFSIM's newest report.                                     *)
(***************************************************************************)
EXTENDS ResultLoop, MetricsGatesProofs, FiniteSetTheorems

-----------------------------------------------------------------------------
(* Requests and jobs.                                                      *)

(* The report of a request, and its place in the identifier.               *)
LEMMA RequestFacts ==
  ASSUME NEW r \in Requests
  PROVE  /\ r.report \in 1 .. MaxReports
         /\ r.id[1] = r.report
<1>1. CASE \E n \in 1 .. MaxReports : r = Delta(n)
  BY <1>1 DEF Delta
<1>2. CASE \E n \in 1 .. MaxReports : r = Full(n)
  BY <1>2 DEF Full
<1> QED
  BY <1>1, <1>2 DEF Requests

(* The requests that the client makes of a report.                         *)
LEMMA NewRequests ==
  ASSUME NEW n \in 1 .. MaxReports
  PROVE  /\ Delta(n) \in Requests
         /\ Full(n) \in Requests
         /\ Delta(n).report = n
         /\ Full(n).report = n
BY DEF Requests, Delta, Full

(* The parts of a job.                                                     *)
LEMMA JobFacts ==
  ASSUME NEW j \in Jobs
  PROVE  /\ j.revision \in 1 .. MaxRevision
         /\ j.report \in 1 .. MaxReports
         /\ j # None
BY NoneIsNoJob DEF Jobs

-----------------------------------------------------------------------------
(* The service: revisions.                                                 *)

(* The slot holds the newest state, the worker an older one; results that  *)
(* are out are older still.  The newest state is in the slot, being        *)
(* computed, failed or published; a result that was lost with its          *)
(* connection is out of date as soon as the next connection has brought    *)
(* something new.                                                          *)
ServiceInv ==
  /\ revision <= stateRevision
  /\ stateRevision = 0 <=> stateReport = 0
  /\ pending # None => pending.revision = stateRevision /\ revision < stateRevision
  /\ job # None => /\ revision < job.revision
                   /\ job.revision <= stateRevision
                   /\ pending # None => job.revision < stateRevision
  /\ stateRevision > 0 => \/ pending # None
                          \/ job # None /\ job.revision = stateRevision
                          \/ failed
                          \/ revision = stateRevision
  /\ lost = "connection" /\ acceptedHere => revision < stateRevision

(* Every step of the loop is a step of MetricsGates, or leaves it alone.   *)
LEMMA GateStep ==
  ASSUME LoopTypeOK, ServiceInv, [LoopNext]_allVars
  PROVE  [Next]_vars
<1>1. CASE Report \/ Connect \/ Send \/ TakeJob \/ ResultIsStale \/ UNCHANGED allVars
  BY <1>1 DEF Report, Connect, Send, TakeJob, ResultIsStale, allVars
<1>2. CASE LoseConnection
  BY <1>2 DEF LoseConnection, Next
<1>3. CASE Process
  BY <1>3 DEF Process, Next
<1>4. CASE ComputeFails
  BY <1>4 DEF ComputeFails, Next
<1>5. ASSUME NEW effects \in EffectLists, NEW damage \in Damages, Publish(effects, damage)
      PROVE  Next
  <2>1. /\ job # None
        /\ job \in Jobs
        /\ up \in BOOLEAN
    BY <1>5 DEF Publish, LoopTypeOK
  <2>2. job.revision \in 1 .. MaxRevision /\ job.revision > revision
    BY <2>1, JobFacts DEF ServiceInv, LoopTypeOK, TypeOK
  <2>3. Broadcast(job.revision, effects, damage, up)
    BY <1>5, <2>2 DEF Publish, Broadcast
  <2> QED
    BY <2>1, <2>2, <2>3 DEF Next
<1>6. CASE Restart
  BY <1>6 DEF Restart, Next
<1>7. CASE Gates
  BY <1>7 DEF Gates, Next
<1>8. CASE SimulationApplies
  BY <1>8 DEF SimulationApplies, Next
<1> QED
  BY <1>1, <1>2, <1>3, <1>4, <1>5, <1>6, <1>7, <1>8 DEF LoopNext

-----------------------------------------------------------------------------
(* Types.                                                                  *)

(* Initially everything has its type.                                      *)
LEMMA LoopTypeInit == LoopInit => LoopTypeOK
<1> SUFFICES ASSUME LoopInit PROVE LoopTypeOK
  OBVIOUS
<1>1. TypeOK
  BY GateTypeInit DEF LoopInit
<1>2. IsFiniteSet(remembered) /\ stateRevision = Cardinality(remembered)
  BY FS_EmptySet DEF LoopInit
<1>3. /\ report \in 0 .. MaxReports
      /\ stateReport \in 0 .. report
      /\ queue \in Seq(Requests)
      /\ Len(queue) <= MaxPending
      /\ sent \in Seq(Requests)
      /\ remembered \subseteq {r.id : r \in Requests}
      /\ stateRevision <= MaxRevision
  BY LoopConstants, GateConstants DEF LoopInit
<1> QED
  BY <1>1, <1>2, <1>3 DEF LoopInit, LoopTypeOK

(* The state takes the first request, which was not remembered.            *)
LEMMA AcceptFacts ==
  ASSUME LoopTypeOK, sent # <<>>, stateRevision < MaxRevision,
         Head(sent).id \notin remembered, Accept(Head(sent))
  PROVE  /\ stateRevision' = stateRevision + 1
         /\ stateRevision' = Cardinality(remembered')
         /\ IsFiniteSet(remembered')
         /\ remembered' \subseteq {r.id : r \in Requests}
         /\ pending' = [revision |-> stateRevision + 1, report |-> Head(sent).report]
         /\ pending' \in Jobs
         /\ stateReport' = Head(sent).report
         /\ acceptedHere' = TRUE
         /\ failed' = FALSE
<1>1. Head(sent) \in Requests
  BY TailFacts DEF LoopTypeOK
<1>2. /\ remembered' = remembered \cup {Head(sent).id}
      /\ stateRevision' = stateRevision + 1
      /\ pending' = [revision |-> stateRevision + 1, report |-> Head(sent).report]
      /\ stateReport' = Head(sent).report
      /\ acceptedHere' = TRUE
      /\ failed' = FALSE
  BY DEF Accept
<1>3. Head(sent).report \in 1 .. MaxReports
  BY <1>1, RequestFacts
<1>4. /\ IsFiniteSet(remembered')
      /\ Cardinality(remembered') = Cardinality(remembered) + 1
  BY <1>2, FS_AddElement DEF LoopTypeOK
<1>5. stateRevision \in Nat
  BY FS_CardinalityType DEF LoopTypeOK
<1>6. pending' \in Jobs
  BY <1>2, <1>3, <1>5, GateConstants DEF Jobs
<1>7. remembered' \subseteq {r.id : r \in Requests}
  BY <1>1, <1>2 DEF LoopTypeOK
<1> QED
  BY <1>2, <1>4, <1>6, <1>7 DEF LoopTypeOK

(* The client's and the service's part of the type.                        *)
ClientTypeOK ==
  /\ report \in 0 .. MaxReports
  /\ up \in BOOLEAN
  /\ queue \in Seq(Requests)
  /\ Len(queue) <= MaxPending
  /\ sent \in Seq(Requests)

StoreTypeOK ==
  /\ remembered \subseteq {r.id : r \in Requests}
  /\ IsFiniteSet(remembered)
  /\ stateRevision = Cardinality(remembered)
  /\ stateRevision <= MaxRevision
  /\ stateReport \in 0 .. report

WorkTypeOK ==
  /\ pending \in Jobs \cup {None}
  /\ job \in Jobs \cup {None}
  /\ acceptedHere \in BOOLEAN
  /\ acceptedHere => up
  /\ failed \in BOOLEAN

(* And every step keeps it, if the gates keep theirs and the client sends  *)
(* nothing it has not.                                                     *)
LEMMA LoopTypeStep ==
  ASSUME LoopTypeOK, [LoopNext]_allVars, TypeOK',
         \A i \in 1 .. Len(sent) : sent[i].report <= report, ~up => sent = <<>>
  PROVE  LoopTypeOK'
<1> SUFFICES ASSUME ClientTypeOK, StoreTypeOK, WorkTypeOK
             PROVE  (ClientTypeOK /\ StoreTypeOK /\ WorkTypeOK)'
  BY DEF LoopTypeOK, ClientTypeOK, StoreTypeOK, WorkTypeOK
<1>0. stateRevision \in Nat /\ MaxPending \in Nat \ {0} /\ MaxReports \in Nat
  BY FS_CardinalityType, LoopConstants DEF StoreTypeOK
<1>1. CASE Report
  <2>1. report + 1 \in 1 .. MaxReports
    BY <1>0, <1>1 DEF Report, ClientTypeOK
  <2>2. queue' \in Seq(Requests) /\ Len(queue') <= MaxPending
    <3>1. CASE queue' = <<>>
      BY <1>0, <3>1
    <3>2. CASE queue' = <<Full(report + 1)>>
      BY <1>0, <2>1, <3>2, NewRequests, SingleFacts
    <3>3. CASE queue' = Append(queue, Delta(report + 1)) /\ ~(Len(queue) >= MaxPending)
      BY <1>0, <2>1, <3>3, NewRequests, AppendFacts DEF ClientTypeOK
    <3> QED
      BY <1>1, <3>1, <3>2, <3>3 DEF Report
  <2>3. ClientTypeOK'
    BY <1>1, <2>1, <2>2 DEF Report, ClientTypeOK
  <2>4. StoreTypeOK'
    BY <1>0, <1>1 DEF Report, StoreTypeOK, ClientTypeOK, storeVars
  <2>5. WorkTypeOK'
    BY <1>1 DEF Report, WorkTypeOK
  <2> QED
    BY <2>3, <2>4, <2>5
<1>2. CASE Connect
  <2>1. queue' \in Seq(Requests) /\ Len(queue') <= MaxPending
    <3>1. CASE report = 0
      BY <1>0, <1>2, <3>1 DEF Connect
    <3>2. CASE report # 0
      <4>1. report \in 1 .. MaxReports
        BY <1>0, <3>2 DEF ClientTypeOK
      <4> QED
        BY <1>0, <1>2, <3>2, <4>1, NewRequests, SingleFacts DEF Connect
    <3> QED
      BY <3>1, <3>2
  <2> QED
    BY <1>2, <2>1 DEF Connect, ClientTypeOK, StoreTypeOK, WorkTypeOK, storeVars
<1>3. CASE Send
  <2>1. /\ queue # <<>>
        /\ queue' = Tail(queue)
        /\ sent' = Append(sent, Head(queue))
        /\ UNCHANGED <<report, up>>
    BY <1>3 DEF Send
  <2>2. /\ queue' \in Seq(Requests)
        /\ Len(queue') <= MaxPending
        /\ sent' \in Seq(Requests)
    BY <1>0, <2>1, TailFacts, AppendFacts DEF ClientTypeOK
  <2> QED
    BY <1>3, <2>1, <2>2 DEF Send, ClientTypeOK, StoreTypeOK, WorkTypeOK, storeVars
<1>4. CASE LoseConnection
  <2>1. ClientTypeOK'
    <3>1. queue' = <<>> /\ sent' = <<>> /\ up' = FALSE /\ report' = report
      BY <1>4 DEF LoseConnection, Disconnected
    <3>2. queue' \in Seq(Requests) /\ Len(queue') <= MaxPending /\ sent' \in Seq(Requests)
      BY <1>0, <3>1
    <3> QED
      BY <3>1, <3>2 DEF ClientTypeOK
  <2>2. StoreTypeOK'
    BY <1>4 DEF LoseConnection, StoreTypeOK, storeVars
  <2>3. WorkTypeOK'
    BY <1>4 DEF LoseConnection, Disconnected, WorkTypeOK
  <2> QED
    BY <2>1, <2>2, <2>3
<1>5. CASE Process
  <2>1. /\ sent # <<>>
        /\ stateRevision < MaxRevision
        /\ sent' = Tail(sent)
        /\ UNCHANGED <<report, up, queue, job>>
    BY <1>5 DEF Process
  <2>2. /\ sent' \in Seq(Requests)
        /\ Head(sent) \in Requests
        /\ Head(sent) = sent[1]
        /\ 1 \in 1 .. Len(sent)
    BY <2>1, TailFacts DEF ClientTypeOK
  <2>3. ClientTypeOK'
    BY <2>1, <2>2 DEF ClientTypeOK
  <2>4. CASE Head(sent).id \in remembered
    BY <1>5, <2>1, <2>3, <2>4 DEF Process, StoreTypeOK, WorkTypeOK, storeVars
  <2>5. CASE Head(sent).id \notin remembered
    <3>1. Accept(Head(sent))
      BY <1>5, <2>5 DEF Process
    <3>2. Head(sent).report \in 0 .. report
      BY <2>2, RequestFacts DEF ClientTypeOK
    <3>3. StoreTypeOK'
      BY <1>0, <2>1, <2>5, <3>1, <3>2, AcceptFacts, GateConstants DEF StoreTypeOK
    <3>4. up
      BY <2>1 DEF ClientTypeOK
    <3> QED
      BY <2>1, <2>3, <2>5, <3>1, <3>3, AcceptFacts DEF WorkTypeOK
  <2> QED
    BY <2>4, <2>5
<1>6. CASE TakeJob
  BY <1>6 DEF TakeJob, ClientTypeOK, StoreTypeOK, WorkTypeOK, clientVars, storeVars
<1>7. CASE ComputeFails
  BY <1>7 DEF ComputeFails, ClientTypeOK, StoreTypeOK, WorkTypeOK, clientVars, storeVars
<1>8. CASE ResultIsStale
  BY <1>8 DEF ResultIsStale, ClientTypeOK, StoreTypeOK, WorkTypeOK, clientVars, storeVars
<1>9. ASSUME NEW effects \in EffectLists, NEW damage \in Damages, Publish(effects, damage)
      PROVE  (ClientTypeOK /\ StoreTypeOK /\ WorkTypeOK)'
  BY <1>9 DEF Publish, ClientTypeOK, StoreTypeOK, WorkTypeOK, clientVars, storeVars
<1>10. CASE Restart
  <2>1. StoreTypeOK'
    BY <1>10, FS_EmptySet, GateConstants DEF Restart, StoreTypeOK, ClientTypeOK
  <2>2. ClientTypeOK'
    <3>1. queue' = <<>> /\ sent' = <<>> /\ up' = FALSE /\ report' = report
      BY <1>10 DEF Restart, Disconnected
    <3>2. queue' \in Seq(Requests) /\ Len(queue') <= MaxPending /\ sent' \in Seq(Requests)
      BY <1>0, <3>1
    <3> QED
      BY <3>1, <3>2 DEF ClientTypeOK
  <2>3. WorkTypeOK'
    BY <1>10 DEF Restart, Disconnected, WorkTypeOK
  <2> QED
    BY <2>1, <2>2, <2>3
<1>11. CASE Gates \/ SimulationApplies \/ UNCHANGED allVars
  BY <1>11 DEF Gates, SimulationApplies, allVars, loopVars, ClientTypeOK, StoreTypeOK,
               WorkTypeOK, clientVars, storeVars
<1> QED
  BY <1>1, <1>2, <1>3, <1>4, <1>5, <1>6, <1>7, <1>8, <1>9, <1>10, <1>11 DEF LoopNext

-----------------------------------------------------------------------------
(* The client: requests are on their way in the order of their reports,    *)
(* and the last one, or the store if there is none, has the newest report. *)

LastReport ==
  IF queue # <<>> THEN queue[Len(queue)].report
  ELSE IF sent # <<>> THEN sent[Len(sent)].report ELSE stateReport

ClientInv ==
  /\ ~up => queue = <<>> /\ sent = <<>>
  /\ \A i, j \in 1 .. Len(sent) : i <= j => sent[i].report <= sent[j].report
  /\ \A i, j \in 1 .. Len(queue) : i <= j => queue[i].report <= queue[j].report
  /\ \A i \in 1 .. Len(sent), j \in 1 .. Len(queue) : sent[i].report <= queue[j].report
  /\ \A i \in 1 .. Len(sent) : stateReport <= sent[i].report /\ sent[i].report <= report
  /\ \A i \in 1 .. Len(queue) : stateReport <= queue[i].report /\ queue[i].report <= report
  /\ up => LastReport = report
  /\ \A x \in remembered : x[1] <= stateReport

(* Initially the client has no report.                                     *)
LEMMA ClientInit == LoopInit => ClientInv
BY DEF LoopInit, ClientInv, LastReport

(* The numbers that the next lemmas compare.                               *)
LEMMA ReportNumbers ==
  ASSUME LoopTypeOK
  PROVE  /\ report \in Nat
         /\ stateReport \in Nat
         /\ stateReport <= report
         /\ \A i \in 1 .. Len(sent) : sent[i] \in Requests /\ sent[i].report \in Nat
         /\ \A i \in 1 .. Len(queue) : queue[i] \in Requests /\ queue[i].report \in Nat
         /\ Len(queue) \in Nat
         /\ Len(sent) \in Nat
         /\ queue # <<>> => Len(queue) \in 1 .. Len(queue)
         /\ sent # <<>> => Len(sent) \in 1 .. Len(sent)
         /\ \A x \in remembered : x[1] \in Nat
<1>1. /\ \A i \in 1 .. Len(sent) : sent[i] \in Requests
      /\ \A i \in 1 .. Len(queue) : queue[i] \in Requests
      /\ Len(queue) \in Nat
      /\ Len(sent) \in Nat
      /\ queue # <<>> => Len(queue) # 0
      /\ sent # <<>> => Len(sent) # 0
  BY DEF LoopTypeOK
<1>2. \A r \in Requests : r.report \in Nat /\ r.id[1] \in Nat
  BY RequestFacts
<1>3. \A x \in remembered : x[1] \in Nat
  BY <1>2 DEF LoopTypeOK
<1> QED
  BY <1>1, <1>2, <1>3 DEF LoopTypeOK

(* A new report is queued, or a full state in place of the queue.          *)
LEMMA ReportClient ==
  ASSUME LoopTypeOK, ClientInv, Report
  PROVE  ClientInv'
<1> USE ReportNumbers
<1>1. /\ report' = report + 1
      /\ UNCHANGED <<up, sent, stateReport, remembered>>
      /\ queue' = IF ~up THEN <<>>
                  ELSE IF report = 0 \/ Len(queue) >= MaxPending THEN <<Full(report + 1)>>
                  ELSE Append(queue, Delta(report + 1))
  BY DEF Report, storeVars
<1>2. report + 1 \in 1 .. MaxReports
  BY LoopConstants DEF Report, LoopTypeOK
<1>3. CASE ~up
  BY <1>1, <1>3 DEF ClientInv
<1>4. CASE up /\ queue' = <<Full(report + 1)>>
  <2>1. /\ Len(queue') = 1
        /\ queue' # <<>>
        /\ \A i \in 1 .. Len(queue') : queue'[i].report = report + 1
    BY <1>2, <1>4, NewRequests
  <2>2. LastReport' = report'
    BY <1>1, <2>1 DEF LastReport
  <2> QED
    BY <1>1, <1>4, <2>1, <2>2 DEF ClientInv
<1>5. CASE up /\ queue' = Append(queue, Delta(report + 1))
  <2>1. /\ Len(queue') = Len(queue) + 1
        /\ queue' # <<>>
        /\ queue'[Len(queue) + 1].report = report + 1
        /\ \A i \in 1 .. Len(queue) : queue'[i] = queue[i]
    BY <1>2, <1>5, NewRequests, AppendFacts DEF LoopTypeOK
  <2>2. LastReport' = report'
    BY <1>1, <2>1 DEF LastReport
  <2>3. \A i \in 1 .. Len(queue') :
          queue'[i].report <= report + 1 /\ stateReport <= queue'[i].report
    BY <2>1 DEF ClientInv
  <2>4. ASSUME NEW i \in 1 .. Len(queue'), NEW j \in 1 .. Len(queue'), i <= j
        PROVE  queue'[i].report <= queue'[j].report
    <3>1. CASE j = Len(queue) + 1
      BY <2>1, <2>3, <3>1
    <3>2. CASE j \in 1 .. Len(queue)
      <4>1. i \in 1 .. Len(queue) /\ queue'[i] = queue[i] /\ queue'[j] = queue[j]
        BY <2>1, <2>4, <3>2
      <4> QED
        BY <2>4, <3>2, <4>1 DEF ClientInv
    <3> QED
      BY <2>1, <3>1, <3>2
  <2>5. ASSUME NEW i \in 1 .. Len(sent), NEW j \in 1 .. Len(queue')
        PROVE  sent[i].report <= queue'[j].report
    <3>1. CASE j = Len(queue) + 1
      BY <2>1, <3>1 DEF ClientInv
    <3>2. CASE j \in 1 .. Len(queue)
      BY <2>1, <3>2 DEF ClientInv
    <3> QED
      BY <2>1, <3>1, <3>2
  <2>6. \A i \in 1 .. Len(sent) : sent[i].report <= report + 1
    BY DEF ClientInv
  <2> QED
    BY <1>1, <1>5, <2>2, <2>3, <2>4, <2>5, <2>6 DEF ClientInv
<1> QED
  BY <1>1, <1>3, <1>4, <1>5 DEF LoopTypeOK

(* A new connection starts with the last report in full.                   *)
LEMMA ConnectClient ==
  ASSUME LoopTypeOK, ClientInv, Connect
  PROVE  ClientInv'
<1> USE ReportNumbers
<1>1. /\ ~up
      /\ sent = <<>>
      /\ queue' = IF report = 0 THEN <<>> ELSE <<Full(report)>>
      /\ UNCHANGED <<report, sent, stateReport, remembered>>
  BY DEF Connect, storeVars, ClientInv
<1>2. CASE report = 0
  BY <1>1, <1>2 DEF ClientInv, LastReport
<1>3. CASE report # 0
  <2>1. report \in 1 .. MaxReports
    BY <1>3 DEF LoopTypeOK
  <2>2. /\ Len(queue') = 1
        /\ queue' # <<>>
        /\ \A i \in 1 .. Len(queue') : queue'[i].report = report
    BY <1>1, <1>3, <2>1, NewRequests
  <2>3. LastReport' = report
    BY <2>2 DEF LastReport
  <2>4. \A i \in 1 .. Len(sent') : FALSE
    BY <1>1
  <2>5. \A i \in 1 .. Len(queue') : stateReport' <= queue'[i].report /\ queue'[i].report <= report'
    BY <1>1, <2>2
  <2>6. \A i, j \in 1 .. Len(queue') : queue'[i].report <= queue'[j].report
    BY <2>2
  <2>7. \A x \in remembered' : x[1] <= stateReport'
    BY <1>1 DEF ClientInv
  <2>8. up' /\ report' = report
    BY <1>1 DEF Connect
  <2> QED
    BY <2>3, <2>4, <2>5, <2>6, <2>7, <2>8 DEF ClientInv
<1> QED
  BY <1>2, <1>3

(* What is sent is the oldest in the queue.                                *)
LEMMA SendClient ==
  ASSUME LoopTypeOK, ClientInv, Send
  PROVE  ClientInv'
<1> USE ReportNumbers
<1>1. /\ up
      /\ queue # <<>>
      /\ queue' = Tail(queue)
      /\ sent' = Append(sent, Head(queue))
      /\ UNCHANGED <<report, up, stateReport, remembered>>
  BY DEF Send, storeVars
<1>2. /\ Head(queue) = queue[1]
      /\ queue[1] \in Requests
      /\ Len(queue') = Len(queue) - 1
      /\ 1 \in 1 .. Len(queue)
      /\ \A i \in 1 .. Len(queue') : queue'[i] = queue[i + 1] /\ i + 1 \in 1 .. Len(queue)
      /\ queue' \in Seq(Requests)
  BY <1>1, TailFacts DEF LoopTypeOK
<1>3. /\ Len(sent') = Len(sent) + 1
      /\ sent'[Len(sent) + 1] = queue[1]
      /\ \A i \in 1 .. Len(sent) : sent'[i] = sent[i]
      /\ sent' # <<>>
  BY <1>1, <1>2, AppendFacts DEF LoopTypeOK
<1>4. ASSUME NEW i \in 1 .. Len(sent'), NEW j \in 1 .. Len(sent'), i <= j
      PROVE  sent'[i].report <= sent'[j].report
  <2>1. CASE j \in 1 .. Len(sent)
    <3>1. i \in 1 .. Len(sent) /\ sent'[i] = sent[i] /\ sent'[j] = sent[j]
      BY <1>3, <1>4, <2>1
    <3> QED
      BY <1>4, <2>1, <3>1 DEF ClientInv
  <2>2. CASE j = Len(sent) + 1 /\ i \in 1 .. Len(sent)
    BY <1>2, <1>3, <2>2 DEF ClientInv
  <2>3. CASE j = Len(sent) + 1 /\ i = Len(sent) + 1
    <3>1. sent'[i].report \in Nat
      BY <1>2, <1>3, <2>3 DEF Requests, Delta, Full
    <3> QED
      BY <2>3, <3>1
  <2> QED
    BY <1>3, <1>4, <2>1, <2>2, <2>3
<1>5. ASSUME NEW i \in 1 .. Len(queue'), NEW j \in 1 .. Len(queue'), i <= j
      PROVE  queue'[i].report <= queue'[j].report
  <2>1. /\ queue'[i] = queue[i + 1] /\ i + 1 \in 1 .. Len(queue)
        /\ queue'[j] = queue[j + 1] /\ j + 1 \in 1 .. Len(queue)
        /\ i + 1 <= j + 1
    BY <1>2, <1>5
  <2> QED
    BY <2>1 DEF ClientInv
<1>6. ASSUME NEW i \in 1 .. Len(sent'), NEW j \in 1 .. Len(queue')
      PROVE  sent'[i].report <= queue'[j].report
  <2>1. queue'[j] = queue[j + 1] /\ j + 1 \in 1 .. Len(queue) /\ 1 <= j + 1
    BY <1>2
  <2>2. CASE i = Len(sent) + 1
    BY <1>2, <1>3, <2>1, <2>2 DEF ClientInv
  <2>3. CASE i \in 1 .. Len(sent)
    BY <1>3, <2>1, <2>3 DEF ClientInv
  <2> QED
    BY <1>3, <2>2, <2>3
<1>7. ASSUME NEW i \in 1 .. Len(sent')
      PROVE  stateReport <= sent'[i].report /\ sent'[i].report <= report
  <2>1. CASE i = Len(sent) + 1
    BY <1>2, <1>3, <2>1 DEF ClientInv
  <2>2. CASE i \in 1 .. Len(sent)
    BY <1>3, <2>2 DEF ClientInv
  <2> QED
    BY <1>3, <2>1, <2>2
<1>8. \A i \in 1 .. Len(queue') : stateReport <= queue'[i].report /\ queue'[i].report <= report
  BY <1>2 DEF ClientInv
<1>9. LastReport' = report
  <2>1. LastReport = report /\ LastReport = queue[Len(queue)].report
    BY <1>1 DEF ClientInv, LastReport
  <2>2. CASE queue' = <<>>
    <3>1. Len(queue) = 1
      BY <1>2, <2>2
    <3> QED
      BY <1>3, <2>1, <2>2, <3>1 DEF LastReport
  <2>3. CASE queue' # <<>>
    <3>1. Len(queue') \in 1 .. Len(queue')
      BY <1>2, <2>3
    <3>2. queue'[Len(queue')] = queue[Len(queue)]
      BY <1>2, <3>1
    <3> QED
      BY <2>1, <2>3, <3>2 DEF LastReport
  <2> QED
    BY <2>2, <2>3
<1> QED
  BY <1>1, <1>4, <1>5, <1>6, <1>7, <1>8, <1>9 DEF ClientInv

(* The service reads a request: if it is remembered, the store is at its   *)
(* report already.                                                         *)
LEMMA ProcessClient ==
  ASSUME LoopTypeOK, ClientInv, Process
  PROVE  /\ ClientInv'
         /\ stateReport' = Head(sent).report
<1> USE ReportNumbers
<1>1. /\ sent # <<>>
      /\ up
      /\ stateRevision < MaxRevision
      /\ sent' = Tail(sent)
      /\ UNCHANGED <<report, up, queue>>
  BY DEF Process, ClientInv
<1>2. /\ Head(sent) = sent[1]
      /\ sent[1] \in Requests
      /\ Len(sent') = Len(sent) - 1
      /\ 1 \in 1 .. Len(sent)
      /\ \A i \in 1 .. Len(sent') : sent'[i] = sent[i + 1] /\ i + 1 \in 1 .. Len(sent)
      /\ sent' \in Seq(Requests)
  BY <1>1, TailFacts DEF LoopTypeOK
<1>3. /\ stateReport' = sent[1].report
      /\ \A x \in remembered' : x[1] <= stateReport'
  <2>1. CASE sent[1].id \in remembered
    <3>1. UNCHANGED <<stateReport, remembered>>
      BY <1>2, <2>1 DEF Process, storeVars
    <3>2. sent[1].id[1] <= stateReport
      BY <2>1 DEF ClientInv
    <3>3. sent[1].report <= stateReport /\ stateReport <= sent[1].report
      BY <1>2, <3>2, RequestFacts DEF ClientInv
    <3>4. sent[1].report = stateReport
      BY <1>2, <3>3
    <3> QED
      BY <3>1, <3>4 DEF ClientInv
  <2>2. CASE sent[1].id \notin remembered
    <3>1. remembered' = remembered \cup {sent[1].id} /\ stateReport' = sent[1].report
      BY <1>2, <2>2 DEF Process, Accept
    <3>2. sent[1].id[1] = sent[1].report /\ stateReport <= sent[1].report
      BY <1>2, RequestFacts DEF ClientInv
    <3>3. \A x \in remembered : x[1] <= sent[1].report
      BY <1>2, <3>2 DEF ClientInv
    <3> QED
      BY <1>2, <3>1, <3>2, <3>3
  <2> QED
    BY <2>1, <2>2
<1>4. ASSUME NEW i \in 1 .. Len(sent'), NEW j \in 1 .. Len(sent'), i <= j
      PROVE  sent'[i].report <= sent'[j].report
  <2>1. i + 1 <= j + 1 /\ i + 1 \in 1 .. Len(sent) /\ j + 1 \in 1 .. Len(sent)
    BY <1>2, <1>4
  <2> QED
    BY <1>2, <2>1 DEF ClientInv
<1>5. \A i \in 1 .. Len(sent'), j \in 1 .. Len(queue) : sent'[i].report <= queue[j].report
  BY <1>2 DEF ClientInv
<1>6. ASSUME NEW i \in 1 .. Len(sent')
      PROVE  stateReport' <= sent'[i].report /\ sent'[i].report <= report
  <2>1. sent'[i] = sent[i + 1] /\ i + 1 \in 1 .. Len(sent) /\ 1 <= i + 1
    BY <1>2
  <2> QED
    BY <1>2, <1>3, <2>1 DEF ClientInv
<1>7. \A i \in 1 .. Len(queue) : stateReport' <= queue[i].report /\ queue[i].report <= report
  BY <1>2, <1>3 DEF ClientInv
<1>8. LastReport' = report
  <2>1. LastReport = report
    BY <1>1 DEF ClientInv
  <2>2. CASE queue # <<>>
    BY <1>1, <2>1, <2>2 DEF LastReport
  <2>3. CASE queue = <<>> /\ sent' = <<>>
    <3>1. Len(sent) = 1
      BY <1>2, <2>3
    <3> QED
      BY <1>1, <1>3, <2>1, <2>3, <3>1 DEF LastReport
  <2>4. CASE queue = <<>> /\ sent' # <<>>
    <3>1. Len(sent') \in 1 .. Len(sent')
      BY <1>2, <2>4
    <3>2. sent'[Len(sent')] = sent[Len(sent)]
      BY <1>2, <3>1
    <3> QED
      BY <1>1, <2>1, <2>4, <3>2 DEF LastReport
  <2> QED
    BY <2>2, <2>3, <2>4
<1> QED
  BY <1>1, <1>2, <1>3, <1>4, <1>5, <1>6, <1>7, <1>8 DEF ClientInv

(* Every step keeps ClientInv.                                             *)
LEMMA ClientStep ==
  ASSUME LoopTypeOK, ClientInv, [LoopNext]_allVars
  PROVE  ClientInv'
<1>1. CASE LoseConnection
  BY <1>1 DEF LoseConnection, Disconnected, ClientInv, storeVars
<1>2. CASE Restart
  BY <1>2 DEF Restart, Disconnected, ClientInv
<1>3. CASE TakeJob \/ ComputeFails \/ ResultIsStale \/ Gates \/ SimulationApplies
           \/ (\E effects \in EffectLists, damage \in Damages : Publish(effects, damage))
           \/ UNCHANGED allVars
  <2>1. UNCHANGED <<report, up, queue, sent, stateReport, remembered>>
    BY <1>3 DEF TakeJob, ComputeFails, ResultIsStale, Gates, SimulationApplies, Publish,
                allVars, loopVars, clientVars, storeVars
  <2> QED
    BY <2>1 DEF ClientInv, LastReport
<1> QED
  BY <1>1, <1>2, <1>3, ReportClient, ConnectClient, SendClient, ProcessClient DEF LoopNext

-----------------------------------------------------------------------------
(* The service: jobs and results.                                          *)

(* Initially the service has no state.                                     *)
LEMMA ServiceInit == LoopInit => ServiceInv
BY DEF LoopInit, Init, ServiceInv

(* The numbers that the next lemmas compare.                               *)
LEMMA RevisionNumbers ==
  ASSUME LoopTypeOK
  PROVE  /\ revision \in Nat
         /\ stateRevision \in Nat
         /\ pending # None => pending \in Jobs /\ pending.revision \in Nat
         /\ job # None => job \in Jobs /\ job.revision \in Nat
BY FS_CardinalityType, JobFacts DEF LoopTypeOK, TypeOK

(* A request that is accepted becomes the job in the slot.                 *)
LEMMA ProcessService ==
  ASSUME LoopTypeOK, ClientInv, ServiceInv, Process
  PROVE  ServiceInv'
<1> USE RevisionNumbers
<1>1. UNCHANGED <<revision, lost, job>>
  BY DEF Process, SendOther, serviceVars
<1>2. CASE Head(sent).id \in remembered
  BY <1>1, <1>2 DEF Process, storeVars, ServiceInv
<1>3. CASE Head(sent).id \notin remembered
  <2>1. sent # <<>> /\ stateRevision < MaxRevision /\ Accept(Head(sent))
    BY <1>3 DEF Process
  <2>2. /\ stateRevision' = stateRevision + 1
        /\ pending' # None
        /\ pending'.revision = stateRevision + 1
        /\ stateReport' = Head(sent).report
    BY <1>3, <2>1, AcceptFacts, JobFacts
  <2>3. Head(sent) \in Requests
    BY <2>1, TailFacts DEF LoopTypeOK
  <2>4. stateReport' # 0
    BY <2>2, <2>3, RequestFacts
  <2> QED
    BY <1>1, <2>2, <2>4 DEF ServiceInv
<1> QED
  BY <1>2, <1>3

(* The steps of the worker.                                                *)
LEMMA WorkerService ==
  ASSUME LoopTypeOK, ServiceInv
  PROVE  /\ TakeJob => ServiceInv'
         /\ ComputeFails => ServiceInv'
         /\ ResultIsStale => ServiceInv'
         /\ \A effects \in EffectLists, damage \in Damages : Publish(effects, damage) => ServiceInv'
<1> USE RevisionNumbers
<1>1. ASSUME TakeJob PROVE ServiceInv'
  BY <1>1 DEF TakeJob, vars, serviceVars, storeVars, ServiceInv
<1>2. ASSUME ComputeFails PROVE ServiceInv'
  <2>1. UNCHANGED <<revision, lost>>
    BY <1>2 DEF ComputeFails, SendOther, vars, serviceVars
  <2> QED
    BY <1>2, <2>1 DEF ComputeFails, storeVars, ServiceInv
<1>3. ASSUME ResultIsStale PROVE ServiceInv'
  BY <1>3 DEF ResultIsStale, vars, serviceVars, storeVars, ServiceInv
<1>4. ASSUME NEW effects \in EffectLists, NEW damage \in Damages, Publish(effects, damage)
      PROVE  ServiceInv'
  <2>1. /\ job # None
        /\ job.revision = stateRevision
        /\ pending = None
    BY <1>4 DEF Publish, ServiceInv
  <2>2. /\ revision' = stateRevision
        /\ job' = None
        /\ UNCHANGED <<stateRevision, stateReport, pending, acceptedHere, failed>>
    BY <1>4, <2>1 DEF Publish, storeVars
  <2>3. lost' = "connection" => ~acceptedHere
    BY <1>4 DEF Publish, LoopTypeOK
  <2> QED
    BY <2>1, <2>2, <2>3 DEF ServiceInv
<1> QED
  BY <1>1, <1>2, <1>3, <1>4

(* Every step keeps ServiceInv.                                            *)
LEMMA ServiceStep ==
  ASSUME LoopTypeOK, ClientInv, ServiceInv, [LoopNext]_allVars
  PROVE  ServiceInv'
<1>1. CASE LoseConnection
  <2>1. /\ acceptedHere' = FALSE
        /\ UNCHANGED <<revision, stateRevision, stateReport, pending, job, failed>>
    BY <1>1 DEF LoseConnection, ConnectionBreaks, BufferOverflows, Disconnected, serviceVars,
                storeVars
  <2> QED
    BY <2>1 DEF ServiceInv
<1>2. CASE Restart
  BY <1>2 DEF Restart, ServiceRestarts, Disconnected, ServiceInv
<1>3. CASE Report \/ Connect \/ Send \/ Gates \/ SimulationApplies \/ UNCHANGED allVars
  <2>1. UNCHANGED <<revision, stateRevision, stateReport, pending, job, failed, acceptedHere>>
    BY <1>3 DEF Report, Connect, Send, Gates, SimulationApplies, UpdateProfiles, DispatchLine,
                UpdateEffects, MergeEffects, MergeFor, TakeEffects, ApplyEffect, allVars, vars,
                loopVars, serviceVars, storeVars
  <2>2. lost' = "connection" => lost = "connection"
    BY <1>3 DEF Report, Connect, Send, Gates, SimulationApplies, UpdateProfiles, DispatchLine,
                UpdateEffects, MergeEffects, MergeFor, TakeEffects, ApplyEffect, allVars, vars
  <2> QED
    BY <2>1, <2>2 DEF ServiceInv
<1> QED
  BY <1>1, <1>2, <1>3, ProcessService, WorkerService DEF LoopNext

-----------------------------------------------------------------------------
(* The results.                                                            *)

LoopInv == LoopTypeOK /\ ClientInv /\ ServiceInv

(* LoopInv holds of every reachable state.                                 *)
LEMMA LoopInvariant == LoopSpec => []LoopInv
<1>1. LoopInit => LoopInv
  BY LoopTypeInit, ClientInit, ServiceInit DEF LoopInv
<1>2. LoopInv /\ [LoopNext]_allVars => LoopInv'
  <2> SUFFICES ASSUME LoopInv, [LoopNext]_allVars PROVE LoopInv'
    OBVIOUS
  <2>1. [Next]_vars
    BY GateStep DEF LoopInv
  <2>2. TypeOK'
    BY <2>1, GateTypeStep DEF LoopInv, LoopTypeOK
  <2>3. LoopTypeOK'
    BY <2>2, LoopTypeStep DEF LoopInv, ClientInv
  <2> QED
    BY <2>3, ClientStep, ServiceStep DEF LoopInv
<1> QED
  BY <1>1, <1>2, PTL DEF LoopSpec

(* Queue, cache, slot and worker keep their shape: the queue within its    *)
(* limit, one revision for each request that is remembered.                *)
THEOREM LoopTypeCorrect == LoopSpec => []LoopTypeOK
<1>1. LoopInv => LoopTypeOK
  BY DEF LoopInv
<1> QED
  BY <1>1, LoopInvariant, PTL

(* Client and service together are an environment that MetricsGates        *)
(* allows: no revision of a run is published twice or after a larger one,  *)
(* so that every theorem about MetricsGates holds in the loop.             *)
THEOREM LoopRefinesGates == LoopSpec => ImplementsGates
<1>1. LoopInit => Init
  BY DEF LoopInit
<1>2. LoopInv /\ [LoopNext]_allVars => [Next]_vars
  BY GateStep DEF LoopInv
<1> QED
  BY <1>1, <1>2, LoopInvariant, PTL DEF LoopSpec, ImplementsGates, Spec

(* When the loop is at rest, the gates stand on the result of AFSIM's      *)
(* newest report, or for a reason that Current names they cannot.          *)
THEOREM GatesAlwaysFollowReports == LoopSpec => []GatesFollowReports
<1>1. LoopInv /\ NewestInForce => GatesFollowReports
  <2> SUFFICES ASSUME LoopInv, NewestInForce, LoopSettled, report > 0 PROVE Current
    BY DEF GatesFollowReports
  <2> USE DEF LoopInv
  <2>1. stateReport = report
    BY DEF LoopSettled, ClientInv, LastReport
  <2>2. stateRevision \in Nat /\ stateRevision > 0
    BY <2>1, RevisionNumbers, ReportNumbers DEF ServiceInv
  <2>3. failed \/ revision = stateRevision
    BY <2>2 DEF LoopSettled, ServiceInv
  <2>4. CASE failed \/ lost = "unreadable"
    BY <2>4 DEF Current
  <2>5. CASE revision = stateRevision /\ lost = "connection"
    <3>1. ~(revision < stateRevision)
      BY <2>2, <2>5
    <3> QED
      BY <2>5, <3>1 DEF ServiceInv, Current
  <2>6. CASE revision = stateRevision /\ lost = "no"
    <3>1. \/ mProfiles = Newest
          \/ mProfiles.epoch < epoch /\ mProfiles.revision >= revision
      BY <2>2, <2>6 DEF NewestInForce, LoopSettled
    <3> QED
      BY <2>1, <2>6, <3>1 DEF Current, Newest
  <2> QED
    BY <2>3, <2>4, <2>5, <2>6 DEF LoopTypeOK, TypeOK
<1>2. LoopSpec => []NewestInForce
  BY LoopRefinesGates, NewestAlwaysInForce, PTL DEF ImplementsGates
<1> QED
  BY <1>1, <1>2, LoopInvariant, PTL

=============================================================================
