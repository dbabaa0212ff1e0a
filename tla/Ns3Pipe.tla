------------------------------ MODULE Ns3Pipe ------------------------------
(***************************************************************************)
(* Ns3Runner of engine.py and the ns-3 runner process it keeps: compute    *)
(* writes a scenario line by line into the process's standard input and    *)
(* reads lines from its standard output until the calculation is DONE or   *)
(* an ERROR comes.  Both pipes hold a bounded number of lines.             *)
(*                                                                         *)
(* A job is known by its number, which stands for the scenario_id made of  *)
(* the revision (each revision is computed at most once).  What the lines  *)
(* say and what is calculated from them is in Scenario.                    *)
(***************************************************************************)
EXTENDS Scenario

CONSTANTS
  Snapshots,    \* the snapshots that compute is called with: see Scenario
  PipeLines,    \* lines a pipe holds
  MaxJobs,      \* bound: calls of compute
  MaxCrashes    \* bound: deaths of the process

ASSUME PipeConstants ==
  /\ \A s \in Snapshots : IsSnapshot(s)
  /\ PipeLines \in Nat \ {0}
  /\ MaxJobs \in Nat
  /\ MaxCrashes \in Nat

(* AFSIM reports no flow of an entity to itself: the extension skips those *)
(* messages.                                                               *)
ASSUME FlowsLeaveTheirSource ==
  \A s \in Snapshots : \A i \in 1 .. Len(s.flows) : s.flows[i].source # s.flows[i].target

VARIABLES
  handle,     \* Ns3Runner._process is not None
  alive,      \* the process runs
  stdin,      \* lines in the pipe to the process
  stdout,     \* lines in the pipe from the process
  scenario,   \* the runner's Scenario
  printing,   \* output the runner has not got into the pipe yet
  caller,     \* where the holder of Ns3Runner._lock is
  unsent,     \* lines compute has still to write
  measured,   \* what compute has read for each index of a flow
  job,        \* the number of the job
  snapshot,   \* its snapshot
  outcome,    \* history: what compute returned or raised for it, while idle
  disturbed,  \* history: the process died during the current job
  tainted,    \* history: the process was given a record it cannot parse
  crashes     \* number of deaths so far

procVars == <<handle, alive, stdin, stdout, scenario, printing>>
callVars == <<caller, unsent, measured>>
history == <<job, snapshot, outcome, disturbed, tainted, crashes>>
vars == <<procVars, callVars, history>>

(* Scenario{} of the runner: no name, nothing expected.                    *)
Blank == [id |-> 0, expected |-> <<0, 0, 0>>, nodes |-> <<>>, links |-> <<>>, flows |-> <<>>,
          throws |-> FALSE]

(* The lines compute writes for job n.                                     *)
Command(type) == [type |-> type, odd |-> FALSE]
ScenarioLines(n, s) ==
  <<[type |-> "SCENARIO", odd |-> FALSE,
     value |-> [Blank EXCEPT !.id = n, !.throws = s.throws,
                             !.expected = <<Len(s.entities), Len(Links(s)), Len(s.flows)>>]]>>
    \o Records(s)
    \o <<Command("RUN")>>

(* Before the first job, and for one that did not start.                   *)
Nothing == [entities |-> <<>>, flows |-> <<>>, throws |-> FALSE]
NoOutcome == [ok |-> FALSE, metrics |-> <<>>, excused |-> TRUE]

ErrorLine == [type |-> "ERROR", id |-> 0]

TypeOK ==
  /\ handle \in BOOLEAN
  /\ alive \in BOOLEAN
  /\ alive => handle
  /\ Len(stdin) <= PipeLines
  /\ Len(stdout) <= PipeLines
  /\ scenario.id \in 0 .. job
  /\ \A i \in 1 .. 3 : Counts(scenario)[i] <= scenario.expected[i] \/ scenario.id = 0
  /\ caller \in {"idle", "writing", "reading", "closing", "closed"}
  /\ caller \in {"idle", "closing", "closed"} => unsent = <<>>
  /\ job \in 0 .. MaxJobs
  /\ snapshot \in Snapshots \cup {Nothing}
  /\ crashes \in 0 .. MaxCrashes

Init ==
  /\ handle = FALSE
  /\ alive = FALSE
  /\ stdin = <<>>
  /\ stdout = <<>>
  /\ scenario = Blank
  /\ printing = <<>>
  /\ caller = "idle"
  /\ unsent = <<>>
  /\ measured = <<>>
  /\ job = 0
  /\ snapshot = Nothing
  /\ outcome = NoOutcome
  /\ disturbed = FALSE
  /\ tainted = FALSE
  /\ crashes = 0

-----------------------------------------------------------------------------
(* Ns3Runner.compute.                                                      *)

HasOddRecord(s) == \E i \in 1 .. Len(Records(s)) : Records(s)[i].odd

(* _ensure_process keeps a process that runs and starts another otherwise. *)
EnsureProcess ==
  IF handle /\ alive
  THEN UNCHANGED procVars
  ELSE /\ handle' = TRUE
       /\ alive' = TRUE
       /\ stdin' = <<>>
       /\ stdout' = <<>>
       /\ scenario' = Blank
       /\ printing' = <<>>

StartCompute(s) ==
  /\ caller = "idle"
  /\ job < MaxJobs
  /\ EnsureProcess
  /\ caller' = "writing"
  /\ unsent' = ScenarioLines(job + 1, s)
  /\ measured' = <<>>
  /\ job' = job + 1
  /\ snapshot' = s
  /\ outcome' = NoOutcome
  /\ disturbed' = FALSE
  /\ tainted' = IF handle /\ alive THEN tainted ELSE FALSE
  /\ UNCHANGED crashes

(* A process is needed and the executable is not there.                    *)
NoExecutable ==
  /\ caller = "idle"
  /\ job < MaxJobs
  /\ ~(handle /\ alive)
  /\ job' = job + 1
  /\ snapshot' = Nothing
  /\ outcome' = NoOutcome
  /\ UNCHANGED <<procVars, callVars, disturbed, tainted, crashes>>

WriteLine ==
  /\ caller = "writing"
  /\ alive
  /\ Len(stdin) < PipeLines
  /\ stdin' = Append(stdin, Head(unsent))
  /\ unsent' = Tail(unsent)
  /\ caller' = IF Len(unsent) = 1 THEN "reading" ELSE "writing"
  /\ tainted' = (tainted \/ Head(unsent).odd)
  /\ UNCHANGED <<handle, alive, stdout, scenario, printing, measured, job, snapshot, outcome,
                 disturbed, crashes>>

(* What compute returns: the metrics of all flows, with defaults for those *)
(* of which it has read nothing.                                           *)
MetricsOf(s) ==
  [i \in 1 .. Len(s.flows) |-> IF i \in DOMAIN measured THEN measured[i]
                               ELSE [from |-> 0, values |-> Unmeasured]]

Return ==
  /\ caller' = "idle"
  /\ measured' = <<>>
  /\ outcome' = [ok |-> TRUE, metrics |-> MetricsOf(snapshot), excused |-> FALSE]

(* The RESULT line replaces what was read for its index.                   *)
Measure(line) ==
  measured' = [i \in DOMAIN measured \cup {line.index} |->
                 IF i = line.index THEN [from |-> line.id, values |-> line.values]
                 ELSE measured[i]]

(* compute raises; disturbed and tainted say what could excuse it.         *)
Raise ==
  /\ caller' = "idle"
  /\ unsent' = <<>>
  /\ measured' = <<>>
  /\ outcome' = [ok |-> FALSE, metrics |-> <<>>, excused |-> disturbed]
  /\ UNCHANGED <<job, snapshot, disturbed, tainted, crashes>>

(* BrokenPipeError: the process died while compute was writing.            *)
WriteFails ==
  /\ caller = "writing"
  /\ ~alive
  /\ Raise
  /\ UNCHANGED procVars

(* Mutant: after an ERROR the process is forgotten and not ended.          *)
ErrorForgetsProcess ==
  /\ caller = "reading"
  /\ stdout # <<>>
  /\ Head(stdout).type = "ERROR"
  /\ stdout' = Tail(stdout)
  /\ handle' = FALSE
  /\ Raise
  /\ UNCHANGED <<alive, stdin, scenario, printing>>

(* The line is of no use to this job: an ERROR, or the DONE of another     *)
(* scenario.  compute raises and leaves the process as it is.              *)
ReadRaises ==
  /\ caller = "reading"
  /\ stdout # <<>>
  /\ \/ Head(stdout).type = "ERROR"
     \/ Head(stdout).type = "DONE" /\ Head(stdout).id # job
  /\ stdout' = Tail(stdout)
  /\ Raise
  /\ UNCHANGED <<handle, alive, stdin, scenario, printing>>

(* Mutant: compute returns with the last RESULT it expects.                *)
ReturnBeforeDone ==
  /\ caller = "reading"
  /\ stdout # <<>>
  /\ Head(stdout).type = "RESULT"
  /\ stdout' = Tail(stdout)
  /\ IF Head(stdout).index < Len(snapshot.flows)
     THEN Measure(Head(stdout)) /\ UNCHANGED <<caller, outcome>>
     ELSE Return
  /\ UNCHANGED <<handle, alive, stdin, scenario, printing, unsent, job, snapshot, disturbed, tainted,
                 crashes>>

ReadResult ==
  /\ caller = "reading"
  /\ stdout # <<>>
  /\ Head(stdout).type = "RESULT"
  /\ stdout' = Tail(stdout)
  /\ Measure(Head(stdout))
  /\ UNCHANGED <<handle, alive, stdin, scenario, printing, caller, unsent, history>>

(* Mutant: any DONE ends the calculation.                                  *)
AnyDone ==
  /\ caller = "reading"
  /\ stdout # <<>>
  /\ Head(stdout).type = "DONE"
  /\ stdout' = Tail(stdout)
  /\ Return
  /\ UNCHANGED <<handle, alive, stdin, scenario, printing, unsent, job, snapshot, disturbed, tainted,
                 crashes>>

ReadDone ==
  /\ caller = "reading"
  /\ stdout # <<>>
  /\ Head(stdout).type = "DONE"
  /\ Head(stdout).id = job
  /\ stdout' = Tail(stdout)
  /\ Return
  /\ UNCHANGED <<handle, alive, stdin, scenario, printing, unsent, job, snapshot, disturbed, tainted,
                 crashes>>

(* Mutant: an empty read is skipped like an empty line.                    *)
EofIsSkipped ==
  /\ caller = "reading"
  /\ stdout = <<>>
  /\ ~alive
  /\ UNCHANGED vars

(* End of file: the process is forgotten.                                  *)
ReadEof ==
  /\ caller = "reading"
  /\ stdout = <<>>
  /\ ~alive
  /\ handle' = FALSE
  /\ Raise
  /\ UNCHANGED <<alive, stdin, stdout, scenario, printing>>

(* close: QUIT, and the process is terminated if it does not leave within  *)
(* three seconds; its pipes are closed.                                    *)
Close ==
  /\ caller = "idle"
  /\ \/ ~handle /\ caller' = "closed" /\ UNCHANGED stdin
     \/ /\ handle
        /\ alive => Len(stdin) < PipeLines
        /\ stdin' = IF alive THEN Append(stdin, Command("QUIT")) ELSE stdin
        /\ caller' = "closing"
  /\ UNCHANGED <<handle, alive, stdout, scenario, printing, unsent, measured, history>>

CloseEnds ==
  /\ caller = "closing"
  /\ caller' = "closed"
  /\ handle' = FALSE
  /\ alive' = FALSE
  /\ stdin' = <<>>
  /\ stdout' = <<>>
  /\ scenario' = Blank
  /\ printing' = <<>>
  /\ UNCHANGED <<unsent, measured, history>>

-----------------------------------------------------------------------------
(* The runner process.                                                     *)

(* RunScenario: what it can print; nothing if it throws.                   *)
RunOutputs ==
  IF ~ValidateScenario(scenario) \/ scenario.throws THEN {}
  ELSE {[i \in 1 .. Len(values) |->
           [type |-> "RESULT", id |-> scenario.id, index |-> i, values |-> values[i]]]
          \o <<[type |-> "DONE", id |-> scenario.id]>> : values \in Outcomes(scenario)}

(* One turn of main's loop.  Whatever throws makes an ERROR line and       *)
(* blanks the scenario, and the lines that follow still count.  A scenario *)
(* that is calculated is kept.                                             *)
Throw ==
  /\ scenario' = Blank
  /\ printing' = <<ErrorLine>>

Execute(line) ==
  \/ line.odd /\ Throw
  \/ /\ ~line.odd
     /\ \/ line.type = "SCENARIO" /\ scenario' = line.value
        \/ line.type = "NODE" /\ scenario' = [scenario EXCEPT !.nodes = Append(@, line.value)]
        \/ line.type = "LINK" /\ scenario' = [scenario EXCEPT !.links = Append(@, line.value)]
        \/ line.type = "FLOW" /\ scenario' = [scenario EXCEPT !.flows = Append(@, line.value)]
     /\ UNCHANGED printing
  \/ line.type = "RUN" /\ RunOutputs = {} /\ Throw
  \/ line.type = "RUN" /\ printing' \in RunOutputs /\ UNCHANGED scenario

RunnerReads ==
  /\ alive
  /\ printing = <<>>
  /\ stdin # <<>>
  /\ stdin' = Tail(stdin)
  /\ IF Head(stdin).type = "QUIT"
     THEN alive' = FALSE /\ UNCHANGED <<scenario, printing>>
     ELSE UNCHANGED alive /\ Execute(Head(stdin))
  /\ UNCHANGED <<handle, stdout, callVars, history>>

RunnerPrints ==
  /\ alive
  /\ printing # <<>>
  /\ Len(stdout) < PipeLines
  /\ stdout' = Append(stdout, Head(printing))
  /\ printing' = Tail(printing)
  /\ UNCHANGED <<handle, alive, stdin, scenario, callVars, history>>

(* ns-3 aborts, or the process is killed.                                  *)
Crash ==
  /\ alive
  /\ crashes < MaxCrashes
  /\ alive' = FALSE
  /\ printing' = <<>>
  /\ disturbed' = TRUE
  /\ crashes' = crashes + 1
  /\ UNCHANGED <<handle, stdin, stdout, scenario, callVars, job, snapshot, outcome, tainted>>

Next ==
  \/ \E s \in Snapshots : StartCompute(s)
  \/ NoExecutable
  \/ WriteLine
  \/ WriteFails
  \/ ReadRaises
  \/ ReadResult
  \/ ReadDone
  \/ ReadEof
  \/ Close
  \/ CloseEnds
  \/ RunnerReads
  \/ RunnerPrints
  \/ Crash

(* Both processes run on; nobody is obliged to call or to crash.           *)
Fairness ==
  /\ WF_vars(WriteLine \/ WriteFails)
  /\ WF_vars(ReadRaises \/ ReadResult \/ ReadDone \/ ReadEof)
  /\ WF_vars(RunnerReads \/ RunnerPrints)
  /\ WF_vars(CloseEnds)

Spec == Init /\ [][Next]_vars
FairSpec == Spec /\ Fairness

-----------------------------------------------------------------------------
(* Properties.                                                             *)

(* What compute returns was measured in its own snapshot, all of it, in a  *)
(* calculation that did not fail, whatever was left in the pipe by the     *)
(* jobs before.                                                            *)
ResultsAreOwn ==
  outcome.ok =>
    /\ ~snapshot.throws
    /\ ~HasOddRecord(snapshot)
    /\ Len(outcome.metrics) = Len(snapshot.flows)
    /\ \A i \in 1 .. Len(snapshot.flows) : outcome.metrics[i].from = job

(* "Persistent ns-3 worker; Simulator::Destroy resets each calculation": a *)
(* sound scenario is calculated, whatever the process was given before.    *)
EachCalculationIsReset ==
  caller = "idle" /\ ~snapshot.throws /\ ~HasOddRecord(snapshot) =>
    outcome.ok \/ outcome.excused

Values == [i \in 1 .. Len(outcome.metrics) |-> outcome.metrics[i].values]

(* A flow is reported as connected exactly if it is active and living      *)
(* entities with devices that are up join its ends; if it is not, nothing  *)
(* of it arrived.                                                          *)
ConnectedByTopology ==
  \A i \in 1 .. Len(Values) :
    LET flow == snapshot.flows[i]
    IN  /\ Values[i].connected <=> flow.active /\ Joined(snapshot, flow.source, flow.target)
        /\ Values[i].quality # "lost" => Values[i].connected

(* The readers of one result agree: an effect that is not blocked stands   *)
(* for a direction that the message gate has as connected, and for two     *)
(* ends that the views show as connected.                                  *)
ReadersAgree ==
  outcome.ok =>
    \A i \in 1 .. Len(snapshot.entities) :
      LET e == snapshot.entities[i]
      IN  \A j \in 1 .. Len(e.policies) :
            Effect(snapshot, Values, e.id, e.policies[j]) # "BLOCKED" =>
              /\ Profile(snapshot, Values, e.id, e.policies[j].peer).connected
              /\ NodeConnected(snapshot, e.id)
              /\ NodeConnected(snapshot, e.policies[j].peer)

(* Where an effect is available messages can be delivered, if there is a   *)
(* device for the peer that does not lose all of them, up or down.  Over   *)
(* relays alone every message is dropped although the effect is available: *)
(* no link gives their profile a loss rate.                                *)
AvailableIsDeliverable ==
  outcome.ok =>
    \A i \in 1 .. Len(snapshot.entities) :
      LET e == snapshot.entities[i]
      IN  \A j \in 1 .. Len(e.policies) :
            LET peer == e.policies[j].peer
                direct == SelectLastInSeq(e.devices, LAMBDA d : d.peer = peer)
            IN  Effect(snapshot, Values, e.id, e.policies[j]) = "AVAILABLE" =>
                  (Deliverable(snapshot, Values, e.id, peer)
                     <=> direct # 0 /\ ~e.devices[direct].total)

(* Between two jobs of a process that could parse every line so far,       *)
(* nothing is left in its pipes: the next job starts in step.              *)
InStepWhileParsable ==
  caller = "idle" /\ alive /\ ~tainted =>
    stdin = <<>> /\ stdout = <<>> /\ printing = <<>>

(* compute comes to an end: its writing and the runner's printing never    *)
(* wait for each other, unless the process was given a line that it cannot *)
(* parse.                                                                  *)
ComputeEnds == [](caller \in {"writing", "reading"} => <>(caller = "idle" \/ tainted))

=============================================================================
