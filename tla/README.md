# Verification of the AFSIM / ns-3 bridge

TLA+ models of the bridge that couples the AFSIM simulation with ns-3, TLC
configurations that check them on small instances, and TLAPS proofs of the
safety properties for every instance. Source paths below are relative to the
repository's `src/` directory.

## 1. The system

AFSIM runs a scenario of platforms with comm devices. A plugin
(`afsim_extension/`) collects the platforms' state on every tick and hands it to
an asynchronous C++ adapter (`windows_adapter/`), which sends it over TCP to a
Python service (`afsim_ns3_bridge/`): once in full, then as increments. The
service keeps a copy of the state, has an ns-3 process (`ns3_runner/`) calculate
the network for it, and broadcasts the result. The adapter keeps the newest
result in two gates: one decides for every AFSIM message whether it is
delivered, the other says which subsystems may operate.

```
 simulation thread                 network thread             service (asyncio)          ns-3 process
 Tick -> CollectState
      -> SubmitCurrentState --> queue, cached state
                                 connect, full state first,
                                 then the queue      --TCP-->  process -> StateStore
                                                               one-job slot -> worker --pipe--> RunScenario
                                                                               worker <--pipe-- RESULT, DONE
                                 OnJsonLine          <--TCP--  broadcast
      gates <--------------------
 MessageDeliveryAttempt -> Decide
 ApplyPendingEffects <- pending effects
```

### Inventory

| Component | State | Operations | Hard behaviour | What makes it correct |
|---|---|---|---|---|
| State delta (`StateDeltaTracker.cpp`, `state.py`) | the tracker's last state | `Update`, `Empty`; `apply_delta`, `_validate_references` | two independent implementations, in two languages, of one difference | merging the delta into the old state gives the new one; an empty delta means no change |
| TCP client, controller (`TcpJsonlClient.cpp`, `AfsimBridgeController.cpp`) | queue, cached full state, connection | `QueueInitial`, `QueueDelta`, `Run`, `ProcessConnection`, `SendAll`, `Stop` | two threads, failed sends, reconnects, a full queue | nothing is merged into the wrong base; after any failure the service gets the current state |
| State store (`state.py`) | entities, flows, revision, timestamp | `initialize`, `apply_delta` | all-or-nothing updates, restarts, connections read out of order | the copy is a state AFSIM reported |
| Service (`server.py`) | idempotency cache, job slot, worker, clients, write locks | `process`, `_compute_loop`, `_broadcast`, `send`, `_handle_client`, `close` | coroutines interleave at every `await`; jobs are coalesced, results go stale, peers vanish | order of answers and results; the newest state is computed; retries have no effect |
| Metrics store (`metrics_store.py`) | latest result, CSV file | `record`, `latest` | the file cannot be written | a failed export does not stop the computation |
| Runner protocol (`engine.py`, `main` of `afsim-ns3-runner.cc`) | process, pipes, half-read scenario | `compute`, `_ensure_process`, `close`; the command loop | bounded pipes, crashes, errors in the middle of a scenario | a result belongs to the scenario it is returned for; nobody waits on a full pipe |
| Scenario evaluation (`engine.py`, `RunScenario`, `HasActivePath`) | none | `_links`, the records of a scenario, `ValidateScenario`, the search for a path, the metrics | links reported from one end only, cycles, dead relays, flows without a measurement | connection follows topology |
| Effects (`effects.py`) | none | `evaluate_effects` | several flows of one direction | effects, message gate and views read the same result alike |
| Loop from reports to gates (client, service and gates together) | all of theirs | report, reconnect, accept, compute, publish, dispatch | a repeated request is answered and not computed, so a lost result may not come again | the gates follow the newest report |
| Gates (`MessageTransportGate.cpp`, `NetworkEffectGate.cpp`, `OnJsonLine`, `ApplyPendingEffects`) | profiles, effect states, revisions, pending effects | `UpdateFromMetricsJson`, `Decide`, merge, apply | two threads; lost, damaged and renumbered results | decisions move forward, none is forgotten, the newest is in force |
| Extension (`AfsimNs3Extension.cpp`) | books of messages, loss windows, observed flows | the message callbacks, `Tick`, `CollectState` | a feedback loop through the whole system | the gate's refusals are not measured as loss; a closed gate can open |
| Wire format, HTTP views, start-up, geodesy, AFSIM patch | | | | not modelled, see section 8 |

`PROJECT.json` lists the hazards, each at its line with the properties aimed at
it.

## 2. Modules

| Module | Models | Checked by | Proved in |
|---|---|---|---|
| `StateDelta` | the difference of two states and its merge, reference validation (operators) | `MCStateSync` | `StateSyncProofs` |
| `ReplicatedState` | what the state protocol promises, without messages | (implemented by `StateSync`) | |
| `StateSync` | simulation thread, network thread, connections, state store | `MCStateSync` | `StateSyncProofs` |
| `BridgeService` | handlers, job slot, worker, broadcast, metrics store | `MCBridgeService` | `BridgeServiceProofs` |
| `Scenario` | what one calculation says: links, records, validation, paths, outcomes, effects, profiles (operators) | `MCNs3Pipe` | `ScenarioProofs`, `Ns3PipeProofs` |
| `Ns3Pipe` | `Ns3Runner` and the runner's command loop over bounded pipes, on the scenarios of `Scenario` | `MCNs3Pipe` | `Ns3PipeProofs` |
| `MetricsGates` | results on their way through the gates to the simulation | `MCMetricsGates` | `MetricsGatesProofs` |
| `ResultLoop` | `MetricsGates` composed with the client that reports and the service that computes | `MCMetricsGates` | `ResultLoopProofs` |
| `MessageFlow` | the message callbacks, the loss windows, the report, comms and devices, profiles, `Decide` | `MCMessageFlow` | `MessageFlowProofs` |

`Ns3Pipe` extends `Scenario`, `ResultLoop` extends `MetricsGates`, `StateSync`
uses `StateDelta` and implements `ReplicatedState`. Each `...Proofs` module extends
the module it is about; `ResultLoopProofs` also extends `MetricsGatesProofs` and
`Ns3PipeProofs` also `ScenarioProofs`, and `CommonFacts` has the lemmas about numbers,
sequences and iterations that several of them cite.

Definitions are named after the functions and members they stand for;
`PROJECT.json` maps each of them to its lines. A definition whose comment begins
with *Mutant:* is no part of the model: it is the definition that follows it with
a plausible bug, and is used to show that a property can fail.

### How state and actions correspond to the code

**StateSync.** `mBaseline` is the tracker's maps, `mPending` and `mResync` the
queue and the cached full state under `mQueueMutex`. `SubmitCurrentState` is one
action because the simulation thread holds its locks for the parts that the
other threads see. `Connect` is the successful `Connect` of `Run` with the
beginning of `ProcessConnection` (the queue is replaced by the cached state).
`TakePending` takes a message under the lock; `SendSucceeds` and `SendFails` are
the two ends of `SendAll`, without the lock, so reports come in between.
`LinkBreaks` and `LoseTail` are TCP: a broken connection loses a suffix of what
`SendAll` reported as sent. `ReadLine` is a handler that reads a line and applies
it; `ServiceRestarts` forgets state and identifiers. Reports that are sent are
numbered, and the number is both timestamp and tick counter. With the constant
`Lingering`, lines of an abandoned connection may be read after those of its
successor, as separate handler coroutines allow.

**BridgeService.** `handler[c]` is the program counter of `_handle_client`: reading,
blocked on the write lock, draining, closing, gone. `worker` is that of
`_compute_loop`. Code between two awaits is one action; the asyncio lock is
first come, first served, hence `HandlerDrained` and `WorkerSent` give it to the
one who waits. `pending` is the one-job slot. `RecordFails` is the `OSError` of
the CSV append, which nothing in the loop catches. Error codes 1001 to 1004 are
one value, as no property tells them apart; code 1005 closes the connection.

**Scenario.** A snapshot lists entities with their devices and policies, and
flows; `IsSnapshot` is what `_validate_references` and the parsers let through.
`Records` are the lines `compute` writes for it, and `ValidateScenario`,
`HasActivePath` (the search as it is written, one node expanded in each turn) and
`Outcomes` are what the runner makes of them. `Joined` is the reference it is compared
with, which knows no search: every set of living entities that is closed under devices
that are up. What packets meet inside ns-3 is a choice among
`Qualities` where a route exists; a flow that is not set up has the values of a
lost one. The thresholds of a policy are the set of qualities it tolerates.
`Effect`, `Profile` and `NodeConnected` are the three readers of a result: the
effects, the message gate and the views.

**Ns3Pipe.** `unsent` is what `compute` has not written yet; `stdin` and `stdout`
hold at most `PipeLines` lines. `Execute` is the command loop's reaction to a
line, including that it goes on after a line it cannot parse. `alive` and
`handle` differ: the process may be dead while `_process` still points to it.
`outcome` is what the last `compute` returned, each metric with the job whose
calculation it was measured in.

**MetricsGates.** `OnJsonLine` is three actions, one per lock it takes; the
simulation thread's swap and its applications come in between. A result is
known by the run of the service and its revision; the gates see the revision. A
line may be unreadable for one gate or the other, or longer than the receive
buffer, in which case the client gives up the connection (`BufferOverflows`).

**ResultLoop.** The way out is one sequence of requests per connection, and a
state is the number of its report; `StateSync` has the details. `Connect`
replaces the queue by the newest full state, `Process` answers a request it
remembers without computing it, `Publish` writes to the client if it is connected
and to nobody otherwise. `Connect` and `Send` wait until no line is being
dispatched: one network thread does all three.

**MessageFlow.** `stage[s]` is where AFSIM is with a message: refused by the gate
and to be discarded, or passed and under way. `Devices` is what `CollectState`
makes of AFSIM's comms: one for each comm and each platform it leads to, with the
comms there in the order it meets them; a device is up if any of them is ready,
and only what the first one observes counts as its loss. A loss rate is none,
some or all: only these decide whether `Decide` draws. The path to the service
and back is one sequence of reports: in order, older ones may be skipped, the
newest arrives. That is what the other modules show of a service that runs.

## 3. Runs

| Run | Expected | Properties | What it shows |
|---|---|---|---|
| `sync` | pass | `TypeOK`, `CopyWasReported`, `SyncedWhenDrained`, `QueueBounded`, `DeliveryChain`, `ImplementsReplica`, `EventuallySynced` | Reconnects, losses, overflow and restarts leave the service on a whole reported state and in the end on the current one. |
| `sync_lingering` | violation | `SyncedWhenDrained` | A full state of an abandoned connection, read late, replaces a newer one: `initialize` does not compare timestamps. |
| `sync_orphan` | violation | `SyncedWhenDrained` | The flow of a platform that is gone makes the service refuse every further state. |
| `service` | pass | `TypeOK`, `ResultsInOrder`, `AckBeforeResult`, `NewestIsSettled`, `RetryHasNoEffect`, `LatestIsDealtWith` | Two connections and the worker, at every await. |
| `service_stale` | violation | `NoResultAfterNewerAck` | The staleness check comes before the awaits of the broadcast. |
| `service_csv` | violation | `LatestIsComputed` | A failed CSV append ends the worker; later states are acknowledged, never computed. |
| `pipe` | pass | `TypeOK`, `ResultsAreOwn`, `ConnectedByTopology`, `ReadersAgree`, `AvailableIsDeliverable`, `InStepWhileParsable`, `ComputeEnds` | Whatever failed jobs and crashes leave in the pipes, no job returns another's result, and both sides go on; a result follows the topology of its snapshot, and its readers agree. |
| `pipe_desync` | violation | `EachCalculationIsReset` | After a record that cannot be parsed the next, sound scenario reads a leftover response and fails. |
| `gates` | pass | `LoopTypeOK`, `NewestOnItsWay`, `EffectsNotAhead`, `NewestInForce`, `GatesFollowReports`, `EffectsMoveForward`, `ImplementsGates`, `EventuallyCurrent`, `EffectsGetApplied` | Decisions are applied in order, none is forgotten, the newest is in force, and the gates come to stand on AFSIM's newest report, but for the cases below. |
| `gates_restart` | violation | `LatestResultIsUsed` | Revisions start again with a new run of the service, and the gates ignore them. |
| `messages` | pass | `TypeOK`, `GateDropsAreNotMeasured`, `BooksFollowMessages`, `UsedPairsFollowTopology`, `OpensWithoutLoss` | The feedback loop keeps the gate's refusals out of the measured loss; a gate that starts closed opens. |
| `messages_loss` | violation | `LossIsNotAnOutage` | One lost message, alone between two ticks, closes a link for good. |

The violations are disagreements between the code and what the repository says
of it; the findings in `PROJECT.json` quote both. In short:

* *Lossless reconnect recovery* (`TcpJsonlClient.hpp`) needs lines to be read in
  the order of their connections and states with valid references. The passing
  run and the proofs assume exactly these two, the two violations drop one each.
* *A result for an old revision must never re-enable a subsystem* (`server.py`)
  holds of the moment of the check, not of the moment of writing.
* The compute worker survives compute errors, not errors of the export.
* The runner answers a scenario with a broken record twice, `compute` reads one
  answer.
* The gates cannot tell a restarted service from an old result.
* A loss rate that closes the gate stops the measurements that could open it.

Two passing properties state limits of the code that no document denies, with the
exceptions in the formula:

* `Current`, in `GatesFollowReports` and `EventuallyCurrent`, lists when the gates
  do not stand on the newest report: its revision does not exceed one of an
  earlier run of the service; its computation failed; its line could not be read;
  or it was lost with a connection, and the connection that followed has only
  repeated requests the service remembered, which it answers and does not compute
  (`server.py:93`). The next new request ends each of these but the first.
* `AvailableIsDeliverable` says that an available effect means deliverable
  messages exactly if there is a device for the peer that does not lose all of
  them. Over relays alone the metric makes a profile that no link gives a loss
  rate: it keeps the 1.0 of a new `Profile` (`MessageTransportGate.cpp:286`), and
  every message is dropped while the effect is `AVAILABLE`.

### Bounds, and why they are enough

* `sync`: a queue of 2, 4 reports, 3 connections. The fourth report overflows a
  full queue while a message is being sent; three connections allow a failure
  during the recovery from a failure. Worlds: one platform; two linked; two with
  a flow, so that additions, changes and removals of entities and flows occur.
  The proofs hold for any bounds.
* `service`: 2 connections, 3 lines, a cache of one request. One connection can
  be slow while the other moves the revision twice; with one cache entry the
  second request evicts the first and the third retries it. Requests: an init, a
  delta, one that reuses an identifier, a query, an oversized and a malformed line.
  The two violating runs use the same instance or one connection.
* `pipe`: pipes of 2 lines, shorter than a scenario of 4, so writing blocks;
  3 jobs, so that a leftover of the first meets the second and the third; 1 crash.
  25 snapshots: a triangle with every choice of links and a platform that lives or
  not (cycles, detours, links reported from the far end), a relay, a pair with two
  flows of one direction, nothing at all, a calculation that throws, and records
  that cannot be parsed in the first or a later place. 92,938 states.
* `gates`: 2 runs of the service with up to 3 revisions, 2 reports, a queue of 1,
  1 lost connection, two policies of one subsystem. A second report can be
  refused by a full queue and become a full state; a connection can be lost before
  the request, between request and result, and after the result; a result of the
  new run has the same, a smaller or a larger revision than the old one. 116,082
  states.
* `messages`: 2 messages at a time over 2 radios of one platform, the first of
  which leads to two of the other (so one profile stands for several devices and
  one device for several receivers), windows of 2 messages, so that all three loss
  rates occur; 1 native loss, 1 change of the world and 1 discard without receiver,
  of which 2 in a behaviour. Serial numbers are used again, so behaviours are
  infinite and liveness is not cut short. One report under way: a second one
  would be superseded by a third. 147,824 states.

Runs say `CHECK_DEADLOCK FALSE` because the bounded environments run out of
reports, lines and jobs; that nothing hangs is stated by the liveness properties.

### Fairness

Weak fairness only, of what the code's own loops do.

* `StateSync`: the network thread's loop reconnects, takes, sends and notices a
  broken connection (`Run` ends only on `Stop`), and the service reads what came.
  The last of the `MaxConns` connections does not fail: recovery needs a network
  that works in the end.
* `BridgeService`: the event loop runs what is ready; a computation ends (the
  `pipe` run); a drain ends because the peer reads or is gone. A peer that stays
  and never reads blocks the worker for ever; there is no write timeout, and this
  hazard is listed as not covered.
* `Ns3Pipe`: both processes run on. Nobody is obliged to call or to crash.
* `ResultLoop`: the client connects and sends, the service reads and computes, the
  network thread dispatches and the simulation ticks. A computation may end in
  each way it can end. Nobody is obliged to report, to break or to restart.
* `MessageFlow`: ticks come, results arrive, AFSIM ends each message, and the
  scenario keeps sending over each pair that is up. The last is an assumption on the
  scenario: without messages neither property says anything.

## 4. Abstract specification and refinement

`ReplicatedState` has three steps: AFSIM reports, the copy jumps to a later
report, the service forgets. `StateSync` implements it with the store's timestamp
as the position of the copy (`ImplementsReplica`), checked in `sync` and proved as
`RefinesReplica`. It says what a reader of the copy may rely on: no mixture of
two states and no step back except to nothing.

`MetricsGates` is the second one. Its environment may send any results whose
revisions grow within a run of the service; `ResultLoop` produces them with a
client, a cache, a job slot and a worker. `ImplementsGates` (the variables have the
same names), checked in `gates` and proved as `LoopRefinesGates`, says that it is
such an environment, so that what is shown of `MetricsGates` holds in the loop. Its mutant, a job slot that is not emptied, shows
that this is not for free: a revision would be published twice.

## 5. Proofs

`StateSyncProofs` begins with the delta, from `ContentsAreTotal` (every written object
has all its fields: the writer has no optional ones) and for all states:

* `DeltaRoundTrip`: `ApplyDelta(old, Update(old, new)) = new`. The merge of
  `state.py` keeps fields that an update lacks, so this needs totality.
* `EmptyDeltaMeansNoChange`: a tick that sends nothing has nothing to send.

and goes on with the protocol, for every value of the constants:

* `TypeCorrect` and `QueueIsBounded`, without hypotheses. The second needs the
  strengthening that while connected, the queue is within the limit: only a
  message put back by a failed send, which ends the connection, may exceed it.
* `ChainInvariant`, `CopyIsAlwaysReported`, `RecoveryIsLossless`,
  `RefinesReplica`, under `Orderly`: lines of different connections are read in
  order, and reported states have valid references. `sync_lingering` and
  `sync_orphan` show that neither hypothesis can be dropped.

The properties themselves are not inductive: that the copy is a reported state
says nothing about the delta that is read next. The inductive invariant is
`DeliveryChain`. It says that store, wire, message being sent and queue form one
chain: every message is genuine (a whole report, or the difference of two
consecutive ones), each may follow the one before (a full state of the same or a
later report, or the next difference), a delta is never the first line of a
connection, the chain begins at the store's timestamp and ends at the tracker's
baseline. Each action has a lemma that it preserves the chain: `SubmitChained`
extends its end, `ConnectChained` replaces the queue by the full state,
`SendFailsChained` puts a message back in front of its successor,
`LoseTailChained` cuts the wire where only a full state may follow, and
`ReadFirst` applies `DeltaRoundTrip` to the first line. Losslessness follows since
a drained chain is the store and the baseline alone.

`MetricsGatesProofs`, for any number of runs of the service, revisions, lines and
policies:

* `GatesTypeCorrect`.
* `NoDecisionIsForgotten`, `EffectsNeverAhead` and `EffectsAlwaysMoveForward`, from
  `EffectInv`. Where a decision is says nothing of its age, so it is strengthened by
  an order for each key (`EffectsInOrder`): what is applied is older than what is in
  the batch, that is older than what is pending, and while a line is merged what is
  pending is older than the line. `InHand` ties the line in the network thread's
  hands to the revisions the two gates have taken.
* `NewestAlwaysInForce`, from `ForceInv`: every line under way is of the present run
  of the service and not newer than its newest result, and unless that one was lost
  it is under way or in force.

`ResultLoopProofs`, from `LoopInv`, which has a part for each side:

* `ClientInv`: the reports of queue, wire and store are in order and the last one is
  AFSIM's newest while connected; what the service remembers it has received.
* `ServiceInv`: published revision < job < slot, and the newest state is in the slot,
  being computed, failed or published. This is what makes a revision come out once.
* `LoopTypeCorrect`, `LoopRefinesGates` and `GatesAlwaysFollowReports`. The
  refinement needs `ServiceInv` in one step only: `Publish` sends a revision that is
  larger than any of the run.

`BridgeServiceProofs`, for any number of connections, any requests and any size of
the cache:

* `ServiceTypeCorrect`.
* `RetriesHaveNoEffect` and `NewestAlwaysSettled`, from `RequestInv`. The first needs
  `CacheIsRecent`: the cache holds the identifiers of the last revisions, as many as
  it has room for. The second needs that the slot holds the newest state and that a
  worker that is done has noted the outcome of its job.
* `ResultsAlwaysInOrder` and `AckAlwaysBeforeResult`, from `WriteInv`. It relates
  each connection's output to the worker's job: while a connection is still to be
  served it has no broadcast of the job, the lock is held by whoever is in the middle
  of a send, and a handler that waits for it holds an answer that stays true while it
  waits: an acknowledgement of a revision later than the worker's job, or the latest
  result.

`MessageFlowProofs`, for any devices, serial numbers and windows:

* `FlowTypeCorrect`.
* `BooksAlwaysFollowMessages` and `GateNeverMeasuresItself`, from `BookInv`, which is
  the two of them and that every busy message is on a known device: with the books in
  place, a failure can only be counted for a message that passed the gate.
* `UsedPairsAlwaysFollowTopology`, from `ReportInv`: the last report under way is the
  tracker's baseline, and with none under way the profiles are those of the baseline.

`ScenarioProofs`, for any snapshot and any scenario of the runner:

* `SearchIsExact`: the nodes that the search of `HasActivePath` has visited after as
  many turns as there are nodes are those that every set with the source has that is
  closed under neighbours. `TurnStep` is what one turn does: the visited nodes stay
  within every such set, all neighbours of expanded nodes are visited, and either
  nothing is pending or one node more is expanded than before. A node is expanded once,
  so that with a turn for each node nothing is pending at the end. No turn's choice
  matters, which is why the model may leave it open.
* `PathsAreJoined`: for a scenario that holds the records of a snapshot (`Describes`),
  the runner has a path exactly if the snapshot has its ends `Joined`. Closed sets of
  nodes and closed sets of entities correspond: `NodeIndex` numbers the entities, and
  the links of the records are, in order, those of the devices (`LinksFacts`, from
  `FlattenFacts`), of which the runner builds exactly the ones between living ends.
* `OutcomesAgree`, `EffectReaders` and `DeliverableFacts` say what follows for a result
  and its readers. In the last, the last link of a direction is that of the entity's
  last device for the peer (`LastLink`), since a direction's links all come from one
  entity and the flattening keeps their order.

`Ns3PipeProofs`, for any snapshots, pipes of any size, any number of jobs and crashes.
It speaks of two sequences: `In`, every line that is still to be written or is in the
pipe to the runner, and `Out`, every line in the pipe from the runner or still to be
printed. Writing and printing leave them alone.

* `ResultsAlwaysOwn`, from `OwnInv`. `ResultsAreOwn` is about what `compute` returns,
  long after lines of older jobs were mixed in. `StreamInv` says that the current job's
  lines come last in `In`, its name only in the first of them, and that a runner that
  has this name has read its first lines, none of them broken. `AnswerInv` says that
  answers with the job's number exist only when `In` is empty, that after the first
  of them every `RESULT` is the job's, and that the job's `DONE` comes after, or with,
  all its results.
* `StaysInStep`, from `StreamInv` and `InStep`: while a job runs, there is output only
  when all its lines are read, and then `DONE` or `ERROR` is the last of it.
* `PipeTypeCorrect`, which has a safety property in it: the runner's scenario never
  has more records than its name said. This is not inductive at all: after an `ERROR`
  the lines that follow are appended to a blank scenario. `CountInv` says that the
  scenarios in `In` are whole (`WholeJobs`) and that a named scenario has exactly the
  records of the lines before the place it has been read to (`InPosition`).
* `ConnectedAlwaysByTopology`, `ReadersAlwaysAgree` and `AvailableAlwaysDeliverable`,
  from `ComputeInv`, which adds `TopologyInv` to the stream and the answers. The three
  are about what `compute` returns, and a result alone does not say what it was
  calculated from. `OwnContent` says that a scenario with the job's name holds the
  first records of its snapshot, value by value, as many as have left `In`; with
  `ValidateScenario` in front of every calculation, what is calculated is the whole
  snapshot, and `OutcomesAgree` applies. `OwnAnswersAgree` carries this along the pipe
  (a `RESULT` of the job agrees with the topology), `OwnMeasuresAgree` into what
  `compute` has read, and `DoneCompletes` says that nothing is missing when it returns.
  That the blank scenario left by an `ERROR` may collect records of any job does no
  harm: it has no job's name.

The named assumptions of the modules are all that the proofs take for granted, but for
`Orderly` above.
Besides bounds being numbers, they say that a value that stands for nothing is not one
of the values it stands beside (`NoneIsNoValue`, `NoneIsNoJob`, `ServiceConstants`,
`FlowConstants`), that a device leads to another platform and has a receiver
(`FlowConstants`), that a snapshot is one that the store lets through (`PipeConstants`:
entities with identifiers of their own, devices, policies and flows that refer to them),
and that no flow leads back to its source (`FlowsLeaveTheirSource`, which the extension
sees to, `AfsimNs3Extension.cpp:580`; only `ReadersAlwaysAgree` needs it: such a flow
would be connected while no device of its entity is up). TLC evaluates them in the runs.

Each inductive invariant was checked by TLC before it was proved. In every proof that
a step keeps an invariant there is a lemma, or a step, for each action.

### Only model-checked

* Liveness (`EventuallySynced`, `LatestIsDealtWith`, `ComputeEnds`,
  `EventuallyCurrent`, `EffectsGetApplied`, `OpensWithoutLoss`), which needs fairness
  and `ENABLED`, out of the prover's reach.

Every invariant and every action property of the passing runs is a theorem, and so are
the two refinements. Where a proof needs induction over data (the turns of the search,
the flattening of the devices), it is by `SetInduction` of `CommonFacts`, which speaks of
the set of numbers for which something holds: the library's induction theorems have an
operator as parameter and cannot be instantiated here. `IterationExists` gives the
functions that such recursive definitions stand for.

## 6. Mutations

Every property of a passing run has an entry under `mutants`: a definition of the
model, replaced by its *Mutant:* variant, makes that property fail in that run.
They are bugs one could write: a queue kept across a reconnect, a cached state
that is not refreshed, a job slot that is not emptied, an acknowledgement that
waits while the worker writes, a search that follows links in one direction only, a report
dropped by a full queue, a `DONE` accepted without its identifier, a loss
window half reset, a refusal counted as a loss.

## 7. Plan

Done: the delta algorithm, the state protocol, the service, the runner protocol, the
evaluation of a scenario and its effects, the gates, the loop from reports to gates,
the message loop; and the proofs of all their safety properties and of both refinements.
The model could be carried further in these directions:

1. Write timeouts, and a timeout on reading from the runner, once the code has them:
   the hazards without a property (`server.py:230`, `engine.py:123`) are about their lack.
2. The losses that receivers other than a peer's first comm observe
   (`AfsimNs3Extension.cpp:917`), once a document says what should become of them.
3. Delays: a delivered message arrives later by the latency that ns-3 measured
   (`README.md:14`), which needs time in `MessageFlow` and numbers in `Scenario`.

## 8. Not modelled

* The JSON text: writing and field validation (`AfsimNs3Protocol.cpp`,
  `models.py`) have no state. What matters of them, that every field is written
  and that identifiers are distinct, is an assumption or a definition of
  `StateDelta` and `StateSync`. The gates' parsers appear as whether they get
  through a line.
* The packet simulation inside ns-3, and its measured numbers: a choice in
  `Scenario`. Subnets and ports (`RunScenario` numbers them within fixed ranges),
  the simulated times, and the positions of nodes.
* Delays, data rates, packet sizes and intervals in the gates and in `MessageFlow`;
  comm devices without a platform; messages that are forwarded over several
  devices.
* Positions and the conversion of coordinates (`GeoCoordinates.cpp`): floating
  point.
* The HTTP server (read-only views of `latest`), argument parsing and signals, the script
  that patches AFSIM (its order of callbacks is in `MessageFlow`), the CSV text.
* Peers that stay connected and never read, and a runner that hangs: the code has
  no timeout for either, so the models would only repeat the assumption.
