---------------------------- MODULE MetricsGates ----------------------------
(***************************************************************************)
(* What AFSIM does with the results that the service broadcasts.  The      *)
(* network thread hands each line to AfsimBridgeController::OnJsonLine,    *)
(* which updates the gate that decides about messages, then the gate of    *)
(* the subsystems' effects, and then merges the effects into a map that    *)
(* waits for the simulation thread; that thread takes the map on its next  *)
(* tick and applies the effects one by one.                                *)
(*                                                                         *)
(* A result is known by the run of the service that made it and by its     *)
(* revision; the gates only see the revision.  Profiles, and the decisions *)
(* about effects, are known by the result they come from.                  *)
(*                                                                         *)
(* The service is left open here: it may publish any newer revision at any *)
(* time.  ResultLoop closes the loop.                                      *)
(***************************************************************************)
EXTENDS Naturals, Sequences

CONSTANTS
  Keys,          \* EffectKey: entity, subsystem and peer
  Subsystems,    \* what NetworkEffectGate::mStates is keyed by
  SubsystemOf(_),
  EffectLists,   \* the effects a result can list, in its order
  Damages,       \* what can be wrong with a line: see Metrics
  None,
  MaxEpochs,     \* bound: runs of the service
  MaxRevision,   \* bound: results of a run
  MaxBreaks      \* bound: connections lost

ASSUME GateConstants ==
  /\ \A k \in Keys : SubsystemOf(k) \in Subsystems
  /\ EffectLists \subseteq Seq(Keys)
  /\ Damages \subseteq {"none", "links", "effects", "oversized"}
  /\ MaxEpochs \in Nat \ {0}
  /\ MaxRevision \in Nat
  /\ MaxBreaks \in Nat

VARIABLES
  epoch,            \* the run of the service
  revision,         \* its newest result, 0 for none
  wire,             \* lines sent to the client and not yet read
  line,             \* the line OnJsonLine works on
  phase,            \* how far it is
  mProfiles,        \* the result the profiles come from
  mLatestProfiles,  \* MessageTransportGate::mLatestRevision
  mStates,          \* the decision that stands for each subsystem
  mLatestEffects,   \* NetworkEffectGate::mLatestRevision
  mPendingEffects,  \* decisions that wait for a tick
  batch,            \* what ApplyPendingEffects took and has not applied yet
  applied,          \* history: the last decision given to the sink, or reported
  decided,          \* history: the last result the effect gate took for each key
  lost,             \* history: why the gates have not got the newest result
  breaks            \* number of connections lost

serviceVars == <<epoch, revision>>
gateVars == <<mProfiles, mLatestProfiles, mStates, mLatestEffects, decided>>
tickVars == <<batch, applied>>
vars == <<serviceVars, wire, line, phase, gateVars, mPendingEffects, tickVars, lost, breaks>>

NoResult == [epoch |-> 0, revision |-> 0]
Result(l) == [epoch |-> l.epoch, revision |-> l.revision]
Results == [epoch : 0 .. MaxEpochs, revision : 0 .. MaxRevision]
Newest == [epoch |-> epoch, revision |-> revision]

(* Lines: results with the effects they list, and answers and errors,      *)
(* which the gates skip.  damage says where the text has something that a  *)
(* gate's parser refuses, or that it is longer than the client's buffer.   *)
Metrics(r, effects, damage) ==
  [type |-> "ns3_metrics", epoch |-> epoch, revision |-> r, effects |-> effects,
   damage |-> damage]
Other == [type |-> "other", epoch |-> 0, revision |-> 0, effects |-> <<>>, damage |-> "none"]

Lines ==
  {Other} \cup [type : {"ns3_metrics"}, epoch : 1 .. MaxEpochs, revision : 1 .. MaxRevision,
                effects : EffectLists, damage : Damages]

ASSUME NoneIsNoValue == None \notin Lines \cup Results

Listed(l) == {l.effects[i] : i \in 1 .. Len(l.effects)}

TypeOK ==
  /\ epoch \in 1 .. MaxEpochs
  /\ revision \in 0 .. MaxRevision
  /\ wire \in Seq(Lines)
  /\ line \in Lines \cup {None}
  /\ phase \in {"idle", "effects", "merge"}
  /\ phase = "idle" <=> line = None
  /\ mProfiles \in Results
  /\ mLatestProfiles = mProfiles.revision
  /\ mStates \in [Subsystems -> [key : Keys \cup {None}, result : Results]]
  /\ mLatestEffects \in 0 .. MaxRevision
  /\ decided \in [Keys -> Results]
  /\ mPendingEffects \in [Keys -> Results \cup {None}]
  /\ batch \in [Keys -> Results \cup {None}]
  /\ applied \in [Keys -> Results]
  /\ lost \in {"no", "connection", "unreadable"}
  /\ breaks \in 0 .. MaxBreaks

Init ==
  /\ epoch = 1
  /\ revision = 0
  /\ wire = <<>>
  /\ line = None
  /\ phase = "idle"
  /\ mProfiles = NoResult
  /\ mLatestProfiles = 0
  /\ mStates = [s \in Subsystems |-> [key |-> None, result |-> NoResult]]
  /\ mLatestEffects = 0
  /\ decided = [k \in Keys |-> NoResult]
  /\ mPendingEffects = [k \in Keys |-> None]
  /\ batch = [k \in Keys |-> None]
  /\ applied = [k \in Keys |-> NoResult]
  /\ lost = "no"
  /\ breaks = 0

-----------------------------------------------------------------------------
(* The service and the connection.                                         *)

(* A result with a larger revision is published; sent says whether the     *)
(* client is connected.  A client that is not never gets it.               *)
Broadcast(r, effects, damage, sent) ==
  /\ r > revision
  /\ revision' = r
  /\ wire' = IF sent THEN Append(wire, Metrics(r, effects, damage)) ELSE wire
  /\ lost' = IF sent THEN "no" ELSE "connection"
  /\ UNCHANGED <<epoch, line, phase, gateVars, mPendingEffects, tickVars, breaks>>

(* An answer to a request, or the error of a computation.                  *)
SendOther ==
  /\ wire' = Append(wire, Other)
  /\ UNCHANGED <<serviceVars, line, phase, gateVars, mPendingEffects, tickVars, lost, breaks>>

IsNewest(l) == l # Other /\ Result(l) = Newest

(* What was on its way is not sent again.                                  *)
ConnectionBreaks ==
  /\ breaks < MaxBreaks
  /\ breaks' = breaks + 1
  /\ wire' = <<>>
  /\ lost' = IF \E i \in 1 .. Len(wire) : IsNewest(wire[i]) THEN "connection" ELSE lost
  /\ UNCHANGED <<serviceVars, line, phase, gateVars, mPendingEffects, tickVars>>

(* A new run of the service counts revisions from the start.               *)
ServiceRestarts ==
  /\ epoch < MaxEpochs
  /\ epoch' = epoch + 1
  /\ revision' = 0
  /\ wire' = <<>>
  /\ lost' = "no"
  /\ UNCHANGED <<line, phase, gateVars, mPendingEffects, tickVars, breaks>>

-----------------------------------------------------------------------------
(* The network thread: ProcessConnection, DispatchLines and OnJsonLine.    *)

(* Whether the gates' parsers get through what they look for in the line.  *)
LinksReadable(l) == l.type = "ns3_metrics" /\ l.damage # "links"
EffectsReadable(l) == l.damage # "effects"

(* More than the buffer holds arrives before a newline: ProcessConnection  *)
(* returns, and the connection is given up with what it still carries.     *)
BufferOverflows ==
  /\ phase = "idle"
  /\ wire # <<>>
  /\ Head(wire).damage = "oversized"
  /\ wire' = <<>>
  /\ lost' = IF IsNewest(Head(wire)) THEN "unreadable"
             ELSE IF \E i \in 1 .. Len(wire) : IsNewest(wire[i]) THEN "connection"
             ELSE lost
  /\ UNCHANGED <<serviceVars, line, phase, gateVars, mPendingEffects, tickVars, breaks>>

(* A line is taken.  take: its profiles replace the ones in force, with    *)
(* rev as their revision.  goesOn: the effect gate gets the line too; a    *)
(* handler that throws gives the line up.                                  *)
DispatchLine(take, rev, goesOn) ==
  LET l == Head(wire)
  IN  /\ wire' = Tail(wire)
      /\ IF take THEN mProfiles' = Result(l) /\ mLatestProfiles' = rev
                 ELSE UNCHANGED <<mProfiles, mLatestProfiles>>
      /\ IF goesOn THEN line' = l /\ phase' = "effects" ELSE UNCHANGED <<line, phase>>
      /\ lost' = IF IsNewest(l) /\ ~LinksReadable(l) THEN "unreadable" ELSE lost
      /\ UNCHANGED <<serviceVars, mStates, mLatestEffects, decided, mPendingEffects, tickVars,
                     breaks>>

LineReady == phase = "idle" /\ wire # <<>> /\ Head(wire).damage # "oversized"

(* Mutant: the revision of the profiles is not kept.                       *)
ProfilesWithoutRevision ==
  LET l == Head(wire)
  IN  LineReady /\ DispatchLine(LinksReadable(l) /\ l.revision > mLatestProfiles,
                                mLatestProfiles, LinksReadable(l))

(* Mutant: a gap of one revision is taken for no progress.                 *)
ProfilesOffByOne ==
  LET l == Head(wire)
  IN  LineReady /\ DispatchLine(LinksReadable(l) /\ l.revision > mLatestProfiles + 1,
                                l.revision, LinksReadable(l))

(* Mutant: the effects are read although the links could not be.           *)
EffectsWithoutProfiles ==
  LET l == Head(wire)
  IN  LineReady /\ DispatchLine(LinksReadable(l) /\ l.revision > mLatestProfiles,
                                l.revision, l.type = "ns3_metrics")

(* DispatchLines takes a line, and MessageTransportGate takes its profiles *)
(* if its revision is larger.                                              *)
UpdateProfiles ==
  LET l == Head(wire)
  IN  LineReady /\ DispatchLine(LinksReadable(l) /\ l.revision > mLatestProfiles,
                                l.revision, LinksReadable(l))

(* The states after the decisions of l: a subsystem with several peers     *)
(* stands with the last decision that the line lists for it.               *)
StatesAfter(l) ==
  [s \in Subsystems |->
     LET of == {i \in 1 .. Len(l.effects) : SubsystemOf(l.effects[i]) = s}
     IN  IF of = {} THEN mStates[s]
         ELSE LET last == CHOOSE i \in of : \A j \in of : j <= i
              IN  [key |-> l.effects[last], result |-> Result(l)]]

DecidedAfter(l) == [k \in Keys |-> IF k \in Listed(l) THEN Result(l) ELSE decided[k]]

(* Mutant: effects are taken from any result.                              *)
EffectsOfAnyRevision ==
  /\ phase = "effects"
  /\ mStates' = StatesAfter(line)
  /\ decided' = DecidedAfter(line)
  /\ mLatestEffects' = line.revision
  /\ phase' = "merge"
  /\ UNCHANGED <<serviceVars, wire, line, mProfiles, mLatestProfiles, mPendingEffects,
                 tickVars, lost, breaks>>

(* NetworkEffectGate reads the line, and may throw.                        *)
UpdateEffects ==
  /\ phase = "effects"
  /\ IF EffectsReadable(line) /\ line.revision > mLatestEffects
     THEN /\ mStates' = StatesAfter(line)
          /\ decided' = DecidedAfter(line)
          /\ mLatestEffects' = line.revision
          /\ IF line.effects = <<>>
             THEN phase' = "idle" /\ line' = None
             ELSE phase' = "merge" /\ UNCHANGED line
     ELSE /\ phase' = "idle"
          /\ line' = None
          /\ UNCHANGED <<mStates, mLatestEffects, decided>>
  /\ UNCHANGED <<serviceVars, wire, mProfiles, mLatestProfiles, mPendingEffects, tickVars,
                 lost, breaks>>

(* The decisions of the line for these keys replace those that wait.       *)
MergeFor(keys) ==
  /\ phase = "merge"
  /\ mPendingEffects' = [k \in Keys |-> IF k \in Listed(line) \cap keys THEN Result(line)
                                        ELSE mPendingEffects[k]]
  /\ phase' = "idle"
  /\ line' = None
  /\ UNCHANGED <<serviceVars, wire, gateVars, tickVars, lost, breaks>>

(* Mutant: a decision that waits is not replaced.                          *)
MergeKeepsOlder == MergeFor({k \in Keys : mPendingEffects[k] = None})

(* Mutant: decisions that come while others are applied are skipped.       *)
MergeUnlessBusy == MergeFor({k \in Keys : \A j \in Keys : batch[j] = None})

(* The newest decision for each key replaces the one that waits.           *)
MergeEffects == MergeFor(Keys)

-----------------------------------------------------------------------------
(* The simulation thread: ApplyPendingEffects.                             *)

TakeEffects ==
  /\ \A k \in Keys : batch[k] = None
  /\ \E k \in Keys : mPendingEffects[k] # None
  /\ batch' = mPendingEffects
  /\ mPendingEffects' = [k \in Keys |-> None]
  /\ UNCHANGED <<serviceVars, wire, line, phase, gateVars, applied, lost, breaks>>

(* The sink gets the decision; if it throws the error is reported, and     *)
(* either way the next decision follows.                                   *)
ApplyEffect(k) ==
  /\ batch[k] # None
  /\ applied' = [applied EXCEPT ![k] = batch[k]]
  /\ batch' = [batch EXCEPT ![k] = None]
  /\ UNCHANGED <<serviceVars, wire, line, phase, gateVars, mPendingEffects, lost, breaks>>

Next ==
  \/ \E r \in 1 .. MaxRevision, effects \in EffectLists, damage \in Damages, sent \in BOOLEAN :
       Broadcast(r, effects, damage, sent)
  \/ SendOther
  \/ ConnectionBreaks
  \/ ServiceRestarts
  \/ BufferOverflows
  \/ UpdateProfiles
  \/ UpdateEffects
  \/ MergeEffects
  \/ TakeEffects
  \/ \E k \in Keys : ApplyEffect(k)

Spec == Init /\ [][Next]_vars

-----------------------------------------------------------------------------
(* Properties.                                                             *)

Forward == \A k \in Keys : applied'[k] = applied[k] \/ applied'[k].revision > applied[k].revision

(* The sink gets the decisions for a link and subsystem in the order of    *)
(* their revisions, each at most once, although two threads work on them   *)
(* and newer ones replace those that wait.                                 *)
EffectsMoveForward == [][Forward]_vars

(* The decision that the effect gate took last for a key is never          *)
(* forgotten on its way to the simulation: it is being merged, waits, is   *)
(* in the batch that is applied, or was applied.                           *)
NewestOnItsWay ==
  \A k \in Keys :
    \/ phase = "merge" /\ k \in Listed(line)
    \/ decided[k] = mPendingEffects[k]
    \/ decided[k] = batch[k] /\ mPendingEffects[k] = None
    \/ decided[k] = applied[k] /\ mPendingEffects[k] = None /\ batch[k] = None

(* No effect is applied before the message gate uses the same or a newer   *)
(* result: the two gates are updated one after the other.                  *)
EffectsNotAhead ==
  /\ mLatestEffects <= mLatestProfiles
  /\ \A k \in Keys : applied[k].revision <= mLatestProfiles

Quiet == wire = <<>> /\ phase = "idle"

(* Messages are decided by the newest result once the lines are read,      *)
(* after a restart of the service as soon as its revisions exceed those of *)
(* the run before.                                                         *)
NewestInForce ==
  Quiet /\ lost = "no" /\ revision > 0 =>
    \/ mProfiles = Newest
    \/ mProfiles.epoch < epoch /\ mProfiles.revision >= revision

(* "AFSIM reads the newest ns-3 result whenever it delivers a message."    *)
LatestResultIsUsed ==
  Quiet /\ lost = "no" /\ revision > 0 => mProfiles = Newest

(* Every decision of the effect gate reaches the simulation, or a newer    *)
(* one does.                                                               *)
EffectsGetApplied ==
  \A k \in Keys : <>[](applied[k] = decided[k])

=============================================================================
