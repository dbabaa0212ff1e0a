----------------------------- MODULE ResultLoop -----------------------------
(***************************************************************************)
(* The loop from AFSIM's reports to the results that its gates stand on:   *)
(* MetricsGates with the client that sends the reports and the service     *)
(* that computes the results.                                              *)
(*                                                                         *)
(* StateSync has the details of the way out and BridgeService those of the *)
(* service; here the way out is one sequence of requests per connection,   *)
(* and a state is known by the number of the report it is.  What this      *)
(* module is about is what only the whole loop shows: a request that is    *)
(* sent again is answered from the idempotency cache and not computed, so  *)
(* that a result that was lost with its connection may not come again.     *)
(***************************************************************************)
EXTENDS MetricsGates, FiniteSets

CONSTANTS
  MaxPending,   \* TcpClientConfig::maxPendingMessages
  MaxReports    \* bound: states AFSIM reports

ASSUME LoopConstants ==
  /\ MaxPending \in Nat \ {0}
  /\ MaxReports \in Nat

VARIABLES
  report,       \* number of the newest report; mResync is its full state
  up,           \* is the client connected?
  queue,        \* requests of this connection that the client has not sent
  sent,         \* requests sent and not read by the service
  remembered,   \* the identifiers in the idempotency cache
  stateRevision, \* StateStore._revision
  stateReport,  \* the report that the store holds
  pending,      \* the slot: [revision, report] or None
  job,          \* what the worker computes
  acceptedHere, \* history: has this connection carried a request that was new?
  failed        \* history: the computation of the newest revision failed

clientVars == <<report, up, queue, sent>>
storeVars == <<remembered, stateRevision, stateReport>>
loopVars == <<clientVars, storeVars, pending, job, acceptedHere, failed>>
allVars == <<vars, loopVars>>

(* Requests.  The first report has the identifier of its tick; a later one *)
(* has two, one for the delta and one for the full state.                  *)
Delta(n) == [id |-> <<n, "delta">>, report |-> n]
Full(n) == [id |-> IF n = 1 THEN <<1, "init">> ELSE <<n, "resync">>, report |-> n]

Requests == {Delta(n) : n \in 1 .. MaxReports} \cup {Full(n) : n \in 1 .. MaxReports}

Jobs == [revision : 1 .. MaxRevision, report : 1 .. MaxReports]

ASSUME NoneIsNoJob == None \notin Jobs

LoopTypeOK ==
  /\ TypeOK
  /\ report \in 0 .. MaxReports
  /\ up \in BOOLEAN
  /\ queue \in Seq(Requests)
  /\ Len(queue) <= MaxPending
  /\ sent \in Seq(Requests)
  /\ remembered \subseteq {r.id : r \in Requests}
  /\ IsFiniteSet(remembered)
  /\ stateRevision = Cardinality(remembered)
  /\ stateRevision <= MaxRevision
  /\ stateReport \in 0 .. report
  /\ pending \in Jobs \cup {None}
  /\ job \in Jobs \cup {None}
  /\ acceptedHere \in BOOLEAN
  /\ acceptedHere => up
  /\ failed \in BOOLEAN

LoopInit ==
  /\ Init
  /\ report = 0
  /\ up = FALSE
  /\ queue = <<>>
  /\ sent = <<>>
  /\ remembered = {}
  /\ stateRevision = 0
  /\ stateReport = 0
  /\ pending = None
  /\ job = None
  /\ acceptedHere = FALSE
  /\ failed = FALSE

-----------------------------------------------------------------------------
(* The client.                                                             *)

(* Mutant: a full queue refuses the delta and asks for no full state.      *)
ReportDroppedWhenFull ==
  /\ report < MaxReports
  /\ report' = report + 1
  /\ queue' = IF ~up THEN <<>>
              ELSE IF report = 0 THEN <<Full(report + 1)>>
              ELSE IF Len(queue) >= MaxPending THEN queue
              ELSE Append(queue, Delta(report + 1))
  /\ UNCHANGED <<vars, up, sent, storeVars, pending, job, acceptedHere, failed>>

(* SubmitCurrentState: what is queued while there is no connection is      *)
(* dropped by the next one, and is left out.                               *)
Report ==
  /\ report < MaxReports
  /\ report' = report + 1
  /\ queue' = IF ~up THEN <<>>
              ELSE IF report = 0 \/ Len(queue) >= MaxPending THEN <<Full(report + 1)>>
              ELSE Append(queue, Delta(report + 1))
  /\ UNCHANGED <<vars, up, sent, storeVars, pending, job, acceptedHere, failed>>

(* The network thread connects, sends, and dispatches what it reads, one   *)
(* after the other.                                                        *)
Connect ==
  /\ ~up
  /\ phase = "idle"
  /\ up' = TRUE
  /\ queue' = IF report = 0 THEN <<>> ELSE <<Full(report)>>
  /\ UNCHANGED <<vars, report, sent, storeVars, pending, job, acceptedHere, failed>>

Send ==
  /\ up
  /\ phase = "idle"
  /\ queue # <<>>
  /\ queue' = Tail(queue)
  /\ sent' = Append(sent, Head(queue))
  /\ UNCHANGED <<vars, report, up, storeVars, pending, job, acceptedHere, failed>>

Disconnected ==
  /\ up' = FALSE
  /\ queue' = <<>>
  /\ sent' = <<>>
  /\ acceptedHere' = FALSE

(* The connection breaks, or the client gives it up.                       *)
LoseConnection ==
  /\ up
  /\ ConnectionBreaks \/ BufferOverflows
  /\ Disconnected
  /\ UNCHANGED <<report, storeVars, pending, job, failed>>

-----------------------------------------------------------------------------
(* The service.                                                            *)

(* Mutant: the slot keeps the older job.                                   *)
AcceptKeepsJob(r) ==
  /\ remembered' = remembered \cup {r.id}
  /\ stateRevision' = stateRevision + 1
  /\ stateReport' = r.report
  /\ pending' = IF pending = None THEN [revision |-> stateRevision + 1, report |-> r.report]
                ELSE pending
  /\ acceptedHere' = TRUE
  /\ failed' = FALSE

(* The store takes the state, and its job replaces the one in the slot.    *)
Accept(r) ==
  /\ remembered' = remembered \cup {r.id}
  /\ stateRevision' = stateRevision + 1
  /\ stateReport' = r.report
  /\ pending' = [revision |-> stateRevision + 1, report |-> r.report]
  /\ acceptedHere' = TRUE
  /\ failed' = FALSE

(* BridgeService.process and the answer; a request that is remembered only *)
(* gets the answer.  Refused states are left to StateSync.                 *)
Process ==
  /\ sent # <<>>
  /\ stateRevision < MaxRevision
  /\ sent' = Tail(sent)
  /\ SendOther
  /\ IF Head(sent).id \in remembered
     THEN UNCHANGED <<storeVars, pending, acceptedHere, failed>>
     ELSE Accept(Head(sent))
  /\ UNCHANGED <<report, up, queue, job>>

(* Mutant: the slot is not emptied.                                        *)
TakeJobAgain ==
  /\ job = None
  /\ pending # None
  /\ job' = pending
  /\ UNCHANGED <<vars, clientVars, storeVars, pending, acceptedHere, failed>>

TakeJob ==
  /\ job = None
  /\ pending # None
  /\ job' = pending
  /\ pending' = None
  /\ UNCHANGED <<vars, clientVars, storeVars, acceptedHere, failed>>

(* The computation raises; who is connected gets the error.                *)
ComputeFails ==
  /\ job # None
  /\ IF up THEN SendOther ELSE UNCHANGED vars
  /\ job' = None
  /\ failed' = (failed \/ job.revision = stateRevision)
  /\ UNCHANGED <<clientVars, storeVars, pending, acceptedHere>>

ResultIsStale ==
  /\ job # None
  /\ job.revision < stateRevision
  /\ job' = None
  /\ UNCHANGED <<vars, clientVars, storeVars, pending, acceptedHere, failed>>

(* The result goes to the client if it is connected, and to nobody else.   *)
Publish(effects, damage) ==
  /\ job # None
  /\ job.revision >= stateRevision
  /\ revision' = job.revision
  /\ wire' = IF up THEN Append(wire, Metrics(job.revision, effects, damage)) ELSE wire
  /\ lost' = IF up THEN "no" ELSE "connection"
  /\ job' = None
  /\ UNCHANGED <<epoch, line, phase, gateVars, mPendingEffects, tickVars, breaks, clientVars,
                 storeVars, pending, acceptedHere, failed>>

(* The process ends, its connections with it, and a new one listens.       *)
Restart ==
  /\ ServiceRestarts
  /\ Disconnected
  /\ remembered' = {}
  /\ stateRevision' = 0
  /\ stateReport' = 0
  /\ pending' = None
  /\ job' = None
  /\ failed' = FALSE
  /\ UNCHANGED report

-----------------------------------------------------------------------------
(* The gates.                                                              *)

Gates ==
  /\ UpdateProfiles \/ UpdateEffects \/ MergeEffects
  /\ UNCHANGED loopVars

SimulationApplies ==
  /\ TakeEffects \/ \E k \in Keys : ApplyEffect(k)
  /\ UNCHANGED loopVars

LoopNext ==
  \/ Report
  \/ Connect
  \/ Send
  \/ LoseConnection
  \/ Process
  \/ TakeJob
  \/ ComputeFails
  \/ ResultIsStale
  \/ \E effects \in EffectLists, damage \in Damages : Publish(effects, damage)
  \/ Restart
  \/ Gates
  \/ SimulationApplies

(* The client connects and sends, the service reads and computes, the      *)
(* network thread dispatches and the simulation ticks.  Reports and faults *)
(* may come or not.                                                        *)
Fairness ==
  /\ WF_allVars(Connect)
  /\ WF_allVars(Send)
  /\ WF_allVars(Process)
  /\ WF_allVars(TakeJob)
  /\ WF_allVars(\/ ComputeFails
                \/ ResultIsStale
                \/ \E effects \in EffectLists, damage \in Damages : Publish(effects, damage))
  /\ WF_allVars(Gates \/ (BufferOverflows /\ LoseConnection))
  /\ WF_allVars(SimulationApplies)

LoopSpec == LoopInit /\ [][LoopNext]_allVars
FairLoop == LoopSpec /\ Fairness

-----------------------------------------------------------------------------
(* Properties.                                                             *)

(* The client and the service are an environment that MetricsGates allows: *)
(* in a run of the service the revisions of the results grow.              *)
ImplementsGates == Spec

Current ==
  \/ mProfiles = [epoch |-> epoch, revision |-> stateRevision] /\ stateReport = report
  \/ stateReport = report /\ mProfiles.epoch < epoch /\ mProfiles.revision >= stateRevision
  \/ failed
  \/ lost = "unreadable"
  \/ lost = "connection" /\ ~acceptedHere

LoopSettled == up /\ queue = <<>> /\ sent = <<>> /\ pending = None /\ job = None /\ Quiet

(* When all is sent, computed and read, the gates stand on the result of   *)
(* AFSIM's newest report, but for these cases: its revision does not       *)
(* exceed one of an earlier run of the service, it could not be computed   *)
(* or read, or it was lost with a connection and the present connection    *)
(* has only repeated requests the service knew.                            *)
GatesFollowReports == LoopSettled /\ report > 0 => Current

(* And that is where the loop gets to once reports and faults cease: a     *)
(* result that was lost is made up for by the first new request.           *)
EventuallyCurrent == <>[](report > 0 => Current)

=============================================================================
