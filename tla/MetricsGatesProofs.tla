------------------------- MODULE MetricsGatesProofs -------------------------
(***************************************************************************)
(* Proofs about MetricsGates: however results are lost, damaged, repeated  *)
(* or renumbered, and however the two threads interleave, effects are      *)
(* applied in order, none is forgotten, and the newest result is in force. *)
(***************************************************************************)
EXTENDS MetricsGates, CommonFacts

-----------------------------------------------------------------------------
(* Lines and results.                                                      *)

(* The parts of a line, and the result it carries.                         *)
LEMMA LineFacts ==
  ASSUME NEW l \in Lines
  PROVE  /\ l.epoch \in 0 .. MaxEpochs
         /\ l.revision \in 0 .. MaxRevision
         /\ l.effects \in Seq(Keys)
         /\ Result(l) \in Results
         /\ Result(l).epoch = l.epoch
         /\ Result(l).revision = l.revision
         /\ l.type = "ns3_metrics" <=> l # Other
         /\ l # Other => l.epoch >= 1
         /\ l # None
<1>1. l # None
  BY NoneIsNoValue
<1>2. CASE l = Other
  BY <1>1, <1>2, GateConstants DEF Other, Result, Results
<1>3. CASE l # Other
  <2>1. /\ l.type = "ns3_metrics"
        /\ l.epoch \in 1 .. MaxEpochs
        /\ l.revision \in 1 .. MaxRevision
        /\ l.effects \in EffectLists
    BY <1>3 DEF Lines
  <2> QED
    BY <1>1, <1>3, <2>1, GateConstants DEF Result, Results
<1> QED
  BY <1>2, <1>3

(* The parts of a result.                                                  *)
LEMMA ResultFacts ==
  ASSUME NEW r \in Results
  PROVE  /\ r.epoch \in Nat
         /\ r.revision \in Nat
         /\ r # None
         /\ r = [epoch |-> r.epoch, revision |-> r.revision]
         /\ NoResult \in Results
         /\ NoResult.revision = 0
BY GateConstants, NoneIsNoValue DEF Results, NoResult

(* What the service broadcasts is a line with its epoch and revision.      *)
LEMMA MetricsIsLine ==
  ASSUME epoch \in 1 .. MaxEpochs, NEW r \in 1 .. MaxRevision,
         NEW effects \in EffectLists, NEW damage \in Damages
  PROVE  /\ Metrics(r, effects, damage) \in Lines
         /\ Metrics(r, effects, damage) # Other
         /\ Metrics(r, effects, damage).epoch = epoch
         /\ Metrics(r, effects, damage).revision = r
BY DEF Metrics, Lines, Other

(* So are the lines that carry no result.                                  *)
LEMMA OtherIsLine == Other \in Lines
BY DEF Lines

(* The states of the subsystems stay decisions about their keys.           *)
LEMMA StatesAfterType ==
  ASSUME TypeOK, NEW l \in Lines
  PROVE  StatesAfter(l) \in [Subsystems -> [key : Keys \cup {None}, result : Results]]
<1> SUFFICES ASSUME NEW s \in Subsystems
             PROVE  StatesAfter(l)[s] \in [key : Keys \cup {None}, result : Results]
  BY DEF StatesAfter
<1> DEFINE of == {i \in 1 .. Len(l.effects) : SubsystemOf(l.effects[i]) = s}
           last == CHOOSE i \in of : \A j \in of : j <= i
<1>1. l.effects \in Seq(Keys) /\ Result(l) \in Results
  BY LineFacts
<1>2. CASE of = {}
  <2>1. StatesAfter(l)[s] = mStates[s]
    BY <1>2 DEF StatesAfter
  <2> QED
    BY <2>1 DEF TypeOK
<1>3. CASE of # {}
  <2>1. StatesAfter(l)[s] = [key |-> l.effects[last], result |-> Result(l)]
    BY <1>3 DEF StatesAfter
  <2>2. of \in SUBSET (1 .. Len(l.effects)) /\ Len(l.effects) \in Nat
    BY <1>1
  <2>3. \E i \in of : \A j \in of : j <= i
    <3> HIDE DEF of
    <3> QED
      BY <1>3, <2>2, GreatestElement
  <2>4. last \in of
    <3> HIDE DEF of
    <3> QED
      BY <2>3
  <2>5. last \in 1 .. Len(l.effects)
    <3> HIDE DEF last
    <3> QED
      BY <2>4
  <2>6. l.effects[last] \in Keys
    <3> HIDE DEF last
    <3> QED
      BY <1>1, <2>5
  <2> HIDE DEF last, of
  <2> QED
    BY <1>1, <2>1, <2>6
<1> QED
  BY <1>2, <1>3

(* The decisions that a line leads to are results.                         *)
LEMMA DecidedAfterType ==
  ASSUME TypeOK, NEW l \in Lines
  PROVE  DecidedAfter(l) \in [Keys -> Results]
BY LineFacts DEF TypeOK, DecidedAfter

-----------------------------------------------------------------------------
(* Types.                                                                  *)

(* Initially everything has its type.                                      *)
LEMMA GateTypeInit == Init => TypeOK
BY GateConstants, NoneIsNoValue
   DEF Init, TypeOK, NoResult, Results, Lines

(* And every step keeps it.                                                *)
LEMMA GateTypeStep == TypeOK /\ [Next]_vars => TypeOK'
<1> SUFFICES ASSUME TypeOK, [Next]_vars PROVE TypeOK'
  OBVIOUS
<1> USE DEF TypeOK
<1>1. ASSUME NEW r \in 1 .. MaxRevision, NEW effects \in EffectLists, NEW damage \in Damages,
             NEW sent \in BOOLEAN, Broadcast(r, effects, damage, sent)
      PROVE  TypeOK'
  <2>1. wire' \in Seq(Lines)
    BY <1>1, MetricsIsLine DEF Broadcast
  <2> QED
    BY <1>1, <2>1 DEF Broadcast, gateVars, tickVars
<1>2. CASE SendOther
  BY <1>2, OtherIsLine DEF SendOther, serviceVars, gateVars, tickVars
<1>3. CASE ConnectionBreaks
  BY <1>3, GateConstants DEF ConnectionBreaks, serviceVars, gateVars, tickVars
<1>4. CASE ServiceRestarts
  BY <1>4, GateConstants DEF ServiceRestarts, serviceVars, gateVars, tickVars
<1>5. CASE BufferOverflows
  BY <1>5 DEF BufferOverflows, serviceVars, gateVars, tickVars
<1>6. CASE UpdateProfiles
  <2> DEFINE l == Head(wire)
             take == LinksReadable(l) /\ l.revision > mLatestProfiles
  <2>1. LineReady /\ DispatchLine(take, l.revision, LinksReadable(l))
    BY <1>6 DEF UpdateProfiles
  <2>2. wire # <<>> /\ l \in Lines /\ Tail(wire) \in Seq(Lines)
    BY <2>1 DEF LineReady
  <2> HIDE DEF l, take
  <2>3. /\ wire' = Tail(wire)
        /\ IF take THEN mProfiles' = Result(l) /\ mLatestProfiles' = l.revision
                   ELSE UNCHANGED <<mProfiles, mLatestProfiles>>
        /\ IF LinksReadable(l) THEN line' = l /\ phase' = "effects" ELSE UNCHANGED <<line, phase>>
        /\ lost' = IF IsNewest(l) /\ ~LinksReadable(l) THEN "unreadable" ELSE lost
        /\ UNCHANGED <<epoch, revision, mStates, mLatestEffects, decided, mPendingEffects,
                       batch, applied, breaks>>
    BY <2>1 DEF DispatchLine, serviceVars, tickVars, l
  <2>4. mProfiles' \in Results /\ mLatestProfiles' = mProfiles'.revision
    BY <2>2, <2>3, LineFacts
  <2>5. /\ line' \in Lines \cup {None}
        /\ phase' \in {"idle", "effects", "merge"}
        /\ phase' = "idle" <=> line' = None
    BY <2>2, <2>3, LineFacts
  <2> QED
    BY <2>2, <2>3, <2>4, <2>5
<1>7. CASE UpdateEffects
  <2>1. line \in Lines
    BY <1>7 DEF UpdateEffects
  <2>2. StatesAfter(line) \in [Subsystems -> [key : Keys \cup {None}, result : Results]]
    BY <2>1, StatesAfterType
  <2>3. DecidedAfter(line) \in [Keys -> Results] /\ line.revision \in 0 .. MaxRevision
    BY <2>1, DecidedAfterType, LineFacts
  <2>4. /\ mStates' \in [Subsystems -> [key : Keys \cup {None}, result : Results]]
        /\ decided' \in [Keys -> Results]
        /\ mLatestEffects' \in 0 .. MaxRevision
    BY <1>7, <2>2, <2>3 DEF UpdateEffects
  <2>5. /\ line' \in Lines \cup {None}
        /\ phase' \in {"idle", "effects", "merge"}
        /\ phase' = "idle" <=> line' = None
    BY <1>7, <2>1 DEF UpdateEffects
  <2>6. UNCHANGED <<epoch, revision, wire, mProfiles, mLatestProfiles, mPendingEffects, batch,
                    applied, lost, breaks>>
    BY <1>7 DEF UpdateEffects, serviceVars, tickVars
  <2> QED
    BY <2>4, <2>5, <2>6
<1>8. CASE MergeEffects
  <2>1. line \in Lines
    BY <1>8 DEF MergeEffects, MergeFor
  <2>2. mPendingEffects' \in [Keys -> Results \cup {None}]
    BY <1>8, <2>1, LineFacts DEF MergeEffects, MergeFor
  <2> QED
    BY <1>8, <2>2 DEF MergeEffects, MergeFor, serviceVars, gateVars, tickVars
<1>9. CASE TakeEffects
  BY <1>9 DEF TakeEffects, serviceVars, gateVars
<1>10. ASSUME NEW k \in Keys, ApplyEffect(k)
       PROVE  TypeOK'
  BY <1>10 DEF ApplyEffect, serviceVars, gateVars
<1>11. CASE UNCHANGED vars
  BY <1>11 DEF vars, serviceVars, gateVars, tickVars
<1> QED
  BY <1>1, <1>2, <1>3, <1>4, <1>5, <1>6, <1>7, <1>8, <1>9, <1>10, <1>11 DEF Next

(* Whatever comes over the connection, the gates hold results, and the     *)
(* message gate's revision is that of its profiles.                        *)
THEOREM GatesTypeCorrect == Spec => []TypeOK
BY GateTypeInit, GateTypeStep, PTL DEF Spec

-----------------------------------------------------------------------------
(* Effects on their way to the simulation.                                 *)

(* The line that OnJsonLine works on: the message gate is at its revision  *)
(* or beyond, and once the effect gate has taken it, that gate is at it.   *)
InHand ==
  /\ phase # "idle" => line \in Lines \ {Other}
  /\ phase = "effects" => line.revision <= mLatestProfiles
  /\ phase = "merge" => /\ line.revision = mLatestEffects
                        /\ \A k \in Listed(line) \cap Keys : decided[k] = Result(line)

(* Decisions for a key that are applied, in the batch, waiting and in hand *)
(* have increasing revisions, up to that of the effect gate.               *)
Ordered(k) ==
  /\ applied[k].revision <= mLatestEffects
  /\ phase = "merge" => applied[k].revision < mLatestEffects
  /\ batch[k] # None =>
       /\ applied[k].revision < batch[k].revision
       /\ batch[k].revision <= mLatestEffects
       /\ phase = "merge" => batch[k].revision < mLatestEffects
  /\ mPendingEffects[k] # None =>
       /\ applied[k].revision < mPendingEffects[k].revision
       /\ batch[k] # None => batch[k].revision < mPendingEffects[k].revision
       /\ mPendingEffects[k].revision <= mLatestEffects
       /\ phase = "merge" => mPendingEffects[k].revision < mLatestEffects

EffectsInOrder == \A k \in Keys : Ordered(k)

EffectInv == InHand /\ EffectsInOrder /\ NewestOnItsWay /\ mLatestEffects <= mLatestProfiles

(* Initially nothing is decided.                                           *)
LEMMA EffectInit == Init => EffectInv
BY DEF Init, EffectInv, InHand, EffectsInOrder, Ordered, NewestOnItsWay, NoResult

(* Steps that leave the effects and the line in hand alone.                *)
LEMMA EffectFrame ==
  ASSUME EffectInv, UNCHANGED <<line, phase, gateVars, mPendingEffects, tickVars>>
  PROVE  EffectInv'
BY DEF EffectInv, InHand, EffectsInOrder, Ordered, NewestOnItsWay, gateVars, tickVars, Listed,
       Result

(* The message gate moves first.                                           *)
LEMMA ProfilesStep ==
  ASSUME TypeOK, EffectInv, UpdateProfiles
  PROVE  EffectInv'
<1> DEFINE l == Head(wire)
           take == LinksReadable(l) /\ l.revision > mLatestProfiles
<1>1. LineReady /\ DispatchLine(take, l.revision, LinksReadable(l))
  BY DEF UpdateProfiles
<1>2. l \in Lines /\ phase = "idle"
  BY <1>1 DEF LineReady, TypeOK
<1>3. /\ IF take THEN mLatestProfiles' = l.revision ELSE UNCHANGED mLatestProfiles
      /\ IF LinksReadable(l) THEN line' = l /\ phase' = "effects" ELSE UNCHANGED <<line, phase>>
      /\ UNCHANGED <<mLatestEffects, decided, mPendingEffects, batch, applied>>
  BY <1>1 DEF DispatchLine, tickVars
<1> HIDE DEF l
<1>4. /\ l.revision \in Nat
      /\ LinksReadable(l) => l # Other
      /\ mLatestProfiles \in Nat
      /\ mLatestEffects \in Nat
  BY <1>2, LineFacts, ResultFacts DEF TypeOK, LinksReadable
<1>5. mLatestProfiles' >= mLatestProfiles
  BY <1>3, <1>4
<1>6. mLatestEffects' <= mLatestProfiles'
  BY <1>3, <1>4, <1>5 DEF EffectInv
<1>7. InHand'
  BY <1>2, <1>3, <1>4 DEF InHand
<1>8. EffectsInOrder'
  BY <1>2, <1>3 DEF EffectInv, EffectsInOrder, Ordered
<1>9. NewestOnItsWay'
  BY <1>2, <1>3 DEF EffectInv, NewestOnItsWay
<1> QED
  BY <1>6, <1>7, <1>8, <1>9 DEF EffectInv

(* The effect gate takes a line of a larger revision: the decisions that   *)
(* are anywhere on their way are older.                                    *)
LEMMA EffectsStep ==
  ASSUME TypeOK, EffectInv, UpdateEffects
  PROVE  EffectInv'
<1> USE DEF EffectInv
<1>1. /\ phase = "effects"
      /\ line \in Lines
      /\ line # Other
      /\ line.revision <= mLatestProfiles
      /\ UNCHANGED <<mLatestProfiles, mPendingEffects, batch, applied>>
  BY DEF UpdateEffects, InHand, tickVars
<1>2. line.revision \in Nat /\ mLatestEffects \in Nat /\ line.effects \in Seq(Keys)
  BY <1>1, LineFacts DEF TypeOK
<1>3. \A k \in Keys : /\ applied[k] \in Results
                      /\ applied[k].revision \in Nat
                      /\ batch[k] # None => batch[k].revision \in Nat
                      /\ mPendingEffects[k] # None => mPendingEffects[k].revision \in Nat
  BY ResultFacts DEF TypeOK
<1>4. CASE ~(EffectsReadable(line) /\ line.revision > mLatestEffects)
  <2>1. phase' = "idle" /\ UNCHANGED <<mLatestEffects, decided>>
    BY <1>4 DEF UpdateEffects
  <2> QED
    BY <1>1, <2>1 DEF InHand, EffectsInOrder, Ordered, NewestOnItsWay
<1>5. CASE EffectsReadable(line) /\ line.revision > mLatestEffects
  <2>1. /\ decided' = DecidedAfter(line)
        /\ mLatestEffects' = line.revision
        /\ IF line.effects = <<>> THEN phase' = "idle" /\ line' = None
                                  ELSE phase' = "merge" /\ line' = line
    BY <1>5 DEF UpdateEffects
  <2>2. EffectsInOrder'
    BY <1>1, <1>2, <1>3, <1>5, <2>1 DEF EffectsInOrder, Ordered
  <2>3. InHand'
    BY <1>1, <2>1 DEF InHand, DecidedAfter, Result
  <2>4. ASSUME NEW k \in Keys
        PROVE  \/ phase' = "merge" /\ k \in Listed(line)
               \/ decided'[k] = mPendingEffects[k]
               \/ decided'[k] = batch[k] /\ mPendingEffects[k] = None
               \/ decided'[k] = applied[k] /\ mPendingEffects[k] = None /\ batch[k] = None
    <3>1. CASE k \in Listed(line)
      <4>1. line.effects # <<>>
        BY <1>2, <3>1 DEF Listed
      <4> QED
        BY <2>1, <3>1, <4>1
    <3>2. CASE k \notin Listed(line)
      <4>1. decided'[k] = decided[k]
        BY <2>1, <3>2 DEF DecidedAfter
      <4> QED
        BY <1>1, <4>1 DEF NewestOnItsWay
    <3> QED
      BY <3>1, <3>2
  <2>5. phase' = "merge" => line' = line
    BY <2>1
  <2>6. NewestOnItsWay'
    BY <1>1, <2>4, <2>5 DEF NewestOnItsWay, Listed
  <2> QED
    BY <1>1, <2>1, <2>2, <2>3, <2>6
<1> QED
  BY <1>4, <1>5

(* The decisions of a line wait for the tick; a newer one replaces an      *)
(* older one.                                                              *)
LEMMA MergeStep ==
  ASSUME TypeOK, EffectInv, MergeEffects
  PROVE  EffectInv'
<1> USE DEF EffectInv
<1>1. /\ phase = "merge"
      /\ line \in Lines
      /\ line.revision = mLatestEffects
      /\ phase' = "idle"
      /\ mPendingEffects' = [k \in Keys |-> IF k \in Listed(line) \cap Keys THEN Result(line)
                                            ELSE mPendingEffects[k]]
      /\ UNCHANGED <<mLatestProfiles, mLatestEffects, decided, batch, applied>>
  BY DEF MergeEffects, MergeFor, InHand, gateVars, tickVars
<1>2. /\ Result(line).revision = mLatestEffects
      /\ Result(line) # None
      /\ mLatestEffects \in Nat
  BY <1>1, LineFacts, ResultFacts DEF TypeOK
<1>3. ASSUME NEW k \in Keys
      PROVE  Ordered(k)'
  <2>1. Ordered(k)
    BY DEF EffectsInOrder
  <2>2. CASE k \in Listed(line)
    BY <1>1, <1>2, <2>1, <2>2 DEF Ordered
  <2>3. CASE k \notin Listed(line)
    BY <1>1, <2>1, <2>3 DEF Ordered
  <2> QED
    BY <2>2, <2>3
<1>4. ASSUME NEW k \in Keys
      PROVE  \/ decided'[k] = mPendingEffects'[k]
             \/ decided'[k] = batch'[k] /\ mPendingEffects'[k] = None
             \/ decided'[k] = applied'[k] /\ mPendingEffects'[k] = None /\ batch'[k] = None
  <2>1. CASE k \in Listed(line)
    BY <1>1, <2>1 DEF InHand
  <2>2. CASE k \notin Listed(line)
    BY <1>1, <2>2 DEF NewestOnItsWay
  <2> QED
    BY <2>1, <2>2
<1>5. InHand'
  BY <1>1 DEF InHand
<1> QED
  BY <1>1, <1>3, <1>4, <1>5 DEF EffectsInOrder, NewestOnItsWay

(* The tick takes the decisions that wait.                                 *)
LEMMA TakeStep ==
  ASSUME TypeOK, EffectInv, TakeEffects
  PROVE  EffectInv'
<1> USE DEF EffectInv
<1>1. /\ \A k \in Keys : batch[k] = None
      /\ batch' = mPendingEffects
      /\ mPendingEffects' = [k \in Keys |-> None]
      /\ UNCHANGED <<line, phase, mLatestProfiles, mLatestEffects, decided, applied>>
  BY DEF TakeEffects, gateVars
<1>2. InHand'
  BY <1>1 DEF InHand, Listed, Result
<1>3. EffectsInOrder'
  BY <1>1 DEF EffectsInOrder, Ordered
<1>4. \A k \in Keys : decided[k] # None
  BY ResultFacts DEF TypeOK
<1>5. NewestOnItsWay'
  BY <1>1, <1>4 DEF NewestOnItsWay, Listed
<1> QED
  BY <1>1, <1>2, <1>3, <1>5

(* An effect that is applied is newer than the one before.                 *)
LEMMA ApplyStep ==
  ASSUME TypeOK, EffectInv, NEW k \in Keys, ApplyEffect(k)
  PROVE  /\ EffectInv'
         /\ applied'[k].revision > applied[k].revision
         /\ \A j \in Keys \ {k} : applied'[j] = applied[j]
<1> USE DEF EffectInv
<1>1. /\ batch[k] # None
      /\ applied' = [applied EXCEPT ![k] = batch[k]]
      /\ batch' = [batch EXCEPT ![k] = None]
      /\ UNCHANGED <<line, phase, mLatestProfiles, mLatestEffects, decided, mPendingEffects>>
  BY DEF ApplyEffect, gateVars
<1>2. /\ applied'[k] = batch[k]
      /\ batch'[k] = None
      /\ \A j \in Keys \ {k} : applied'[j] = applied[j] /\ batch'[j] = batch[j]
  BY <1>1 DEF TypeOK
<1>3. applied'[k].revision > applied[k].revision
  BY <1>1, <1>2, ResultFacts DEF EffectsInOrder, Ordered, TypeOK
<1>4. InHand'
  BY <1>1 DEF InHand, Listed, Result
<1>5. ASSUME NEW j \in Keys
      PROVE  Ordered(j)'
  <2>1. Ordered(j)
    BY DEF EffectsInOrder
  <2>2. CASE j = k
    BY <1>1, <1>2, <2>1, <2>2 DEF Ordered
  <2>3. CASE j # k
    BY <1>1, <1>2, <2>1, <2>3 DEF Ordered
  <2> QED
    BY <2>2, <2>3
<1>6. NewestOnItsWay'
  BY <1>1, <1>2 DEF NewestOnItsWay, Listed
<1> QED
  BY <1>1, <1>2, <1>3, <1>4, <1>5, <1>6 DEF EffectsInOrder

(* Every step keeps EffectInv.                                             *)
LEMMA EffectStep == TypeOK /\ EffectInv /\ [Next]_vars => EffectInv'
<1> SUFFICES ASSUME TypeOK, EffectInv, [Next]_vars PROVE EffectInv'
  OBVIOUS
<1>1. ASSUME NEW r \in 1 .. MaxRevision, NEW effects \in EffectLists, NEW damage \in Damages,
             NEW sent \in BOOLEAN, Broadcast(r, effects, damage, sent)
      PROVE  EffectInv'
  BY <1>1, EffectFrame DEF Broadcast
<1>2. CASE SendOther \/ ConnectionBreaks \/ ServiceRestarts \/ BufferOverflows \/ UNCHANGED vars
  BY <1>2, EffectFrame DEF SendOther, ConnectionBreaks, ServiceRestarts, BufferOverflows, vars
<1> QED
  BY <1>1, <1>2, ProfilesStep, EffectsStep, MergeStep, TakeStep, ApplyStep DEF Next

(* EffectInv holds of every reachable state.                               *)
LEMMA EffectInvariant == Spec => [](TypeOK /\ EffectInv)
BY GateTypeInit, GateTypeStep, EffectInit, EffectStep, PTL DEF Spec

(* A decision that the effect gate took reaches the simulation or is       *)
(* replaced by a newer one, in every interleaving of the threads.          *)
THEOREM NoDecisionIsForgotten == Spec => []NewestOnItsWay
<1>1. EffectInv => NewestOnItsWay
  BY DEF EffectInv
<1> QED
  BY <1>1, EffectInvariant, PTL

(* The message gate is at the result of every applied effect, or beyond.   *)
THEOREM EffectsNeverAhead == Spec => []EffectsNotAhead
<1>1. TypeOK /\ EffectInv => EffectsNotAhead
  <2> SUFFICES ASSUME TypeOK, EffectInv PROVE EffectsNotAhead
    OBVIOUS
  <2>1. /\ mLatestEffects <= mLatestProfiles
        /\ \A k \in Keys : applied[k].revision <= mLatestEffects
    BY DEF EffectInv, EffectsInOrder, Ordered
  <2>2. /\ mLatestEffects \in Nat
        /\ mLatestProfiles \in Nat
        /\ \A k \in Keys : applied[k].revision \in Nat
    BY ResultFacts DEF TypeOK
  <2> QED
    BY <2>1, <2>2 DEF EffectsNotAhead
<1> QED
  BY <1>1, EffectInvariant, PTL

(* The sink never gets a decision of the same or an older revision than    *)
(* the last one it got for the same link and subsystem.                    *)
THEOREM EffectsAlwaysMoveForward == Spec => EffectsMoveForward
<1>1. TypeOK /\ EffectInv /\ [Next]_vars => [Forward]_vars
  <2> SUFFICES ASSUME TypeOK, EffectInv, Next PROVE Forward
    OBVIOUS
  <2>1. ASSUME NEW k \in Keys, ApplyEffect(k) PROVE Forward
    BY <2>1, ApplyStep DEF Forward
  <2>2. ASSUME NEW r \in 1 .. MaxRevision, NEW effects \in EffectLists, NEW damage \in Damages,
               NEW sent \in BOOLEAN, Broadcast(r, effects, damage, sent)
        PROVE  UNCHANGED applied
    BY <2>2 DEF Broadcast, tickVars
  <2>3. CASE \/ SendOther \/ ConnectionBreaks \/ ServiceRestarts \/ BufferOverflows
             \/ UpdateProfiles \/ UpdateEffects \/ MergeEffects \/ TakeEffects
    <3>1. UNCHANGED applied
      BY <2>3 DEF SendOther, ConnectionBreaks, ServiceRestarts, BufferOverflows, UpdateProfiles,
                  DispatchLine, UpdateEffects, MergeEffects, MergeFor, TakeEffects, tickVars
    <3> QED
      BY <3>1 DEF Forward
  <2> QED
    BY <2>1, <2>2, <2>3 DEF Next, Forward
<1> QED
  BY <1>1, EffectInvariant, PTL DEF Spec, EffectsMoveForward

-----------------------------------------------------------------------------
(* The newest result.                                                      *)

InForce ==
  \/ mProfiles = Newest
  \/ mProfiles.epoch < epoch /\ mProfiles.revision >= revision

(* Lines that are under way come from the present run of the service and   *)
(* are not newer than its newest result, nor are the profiles.  Unless the *)
(* newest result was lost, it is under way or in force.                    *)
ForceInv ==
  /\ \A i \in 1 .. Len(wire) :
       wire[i] # Other => wire[i].epoch = epoch /\ wire[i].revision <= revision
  /\ mProfiles.epoch <= epoch
  /\ mProfiles.epoch = epoch => mProfiles.revision <= revision
  /\ lost = "no" /\ revision > 0 => (\E i \in 1 .. Len(wire) : IsNewest(wire[i])) \/ InForce

(* Initially there is no result.                                           *)
LEMMA ForceInit == Init => ForceInv
BY DEF Init, ForceInv, NoResult

(* A new result is on the wire, or is lost with its connection.            *)
LEMMA BroadcastForce ==
  ASSUME TypeOK, ForceInv, NEW r \in 1 .. MaxRevision, NEW effects \in EffectLists,
         NEW damage \in Damages, NEW sent \in BOOLEAN, Broadcast(r, effects, damage, sent)
  PROVE  ForceInv'
<1> DEFINE m == Metrics(r, effects, damage)
<1>1. /\ m \in Lines
      /\ m # Other
      /\ m.epoch = epoch
      /\ m.revision = r
  BY MetricsIsLine DEF TypeOK
<1> HIDE DEF m
<1>2. /\ r > revision
      /\ revision' = r
      /\ wire' = IF sent THEN Append(wire, m) ELSE wire
      /\ lost' = IF sent THEN "no" ELSE "connection"
      /\ UNCHANGED <<epoch, mProfiles>>
  BY DEF Broadcast, m, gateVars
<1>3. r \in Nat /\ revision \in Nat /\ wire \in Seq(Lines)
  BY DEF TypeOK
<1>4. mProfiles.revision \in Nat /\ \A i \in 1 .. Len(wire) : wire[i].revision \in Nat
  <2>1. mProfiles.revision \in Nat
    BY ResultFacts DEF TypeOK
  <2>2. ASSUME NEW i \in 1 .. Len(wire) PROVE wire[i].revision \in Nat
    <3>1. wire[i] \in Lines
      BY <1>3
    <3> QED
      BY <3>1, LineFacts
  <2> QED
    BY <2>1, <2>2
<1>5. \A i \in 1 .. Len(wire) : wire[i] # Other => wire[i].epoch = epoch /\ wire[i].revision <= r
  BY <1>2, <1>3, <1>4 DEF ForceInv
<1>6. mProfiles.epoch <= epoch /\ (mProfiles.epoch = epoch => mProfiles.revision <= r)
  BY <1>2, <1>3, <1>4 DEF ForceInv
<1>7. CASE ~sent
  BY <1>2, <1>5, <1>6, <1>7 DEF ForceInv
<1>8. CASE sent
  <2>1. /\ Len(wire') = Len(wire) + 1
        /\ wire'[Len(wire) + 1] = m
        /\ \A i \in 1 .. Len(wire) : wire'[i] = wire[i]
        /\ Len(wire) \in Nat
    BY <1>1, <1>2, <1>3, <1>8
  <2>2. m # Other /\ Result(m) = Newest'
    BY <1>1, <1>2 DEF Result, Newest
  <2>3. (\E i \in 1 .. Len(wire) : IsNewest(wire[i]))'
    BY <2>1, <2>2 DEF IsNewest
  <2>4. \A i \in 1 .. Len(wire') :
          wire'[i] # Other => wire'[i].epoch = epoch /\ wire'[i].revision <= r
    BY <1>1, <1>3, <1>5, <2>1
  <2> QED
    BY <1>2, <1>6, <2>3, <2>4 DEF ForceInv
<1> QED
  BY <1>7, <1>8

(* A line is dispatched: if it was the newest result, it is in force now   *)
(* or could not be read.                                                   *)
LEMMA ProfilesForce ==
  ASSUME TypeOK, ForceInv, UpdateProfiles
  PROVE  ForceInv'
<1> DEFINE l == Head(wire)
           take == LinksReadable(l) /\ l.revision > mLatestProfiles
<1>1. LineReady /\ DispatchLine(take, l.revision, LinksReadable(l))
  BY DEF UpdateProfiles
<1>2. /\ wire \in Seq(Lines)
      /\ wire # <<>>
      /\ l \in Lines
      /\ l = wire[1]
      /\ Len(wire) \in Nat \ {0}
  BY <1>1 DEF LineReady, TypeOK
<1>3. /\ wire' = Tail(wire)
      /\ IF take THEN mProfiles' = Result(l) ELSE UNCHANGED mProfiles
      /\ lost' = IF IsNewest(l) /\ ~LinksReadable(l) THEN "unreadable" ELSE lost
      /\ UNCHANGED <<epoch, revision>>
  BY <1>1 DEF DispatchLine, serviceVars
<1> HIDE DEF l
<1>4. /\ Len(wire') = Len(wire) - 1
      /\ \A i \in 1 .. Len(wire') : wire'[i] = wire[i + 1] /\ i + 1 \in 1 .. Len(wire)
  BY <1>2, <1>3, HeadTailProperties
<1>5. /\ l.revision \in Nat
      /\ l.epoch \in Nat
      /\ Result(l).epoch = l.epoch
      /\ Result(l).revision = l.revision
      /\ LinksReadable(l) => l # Other
      /\ l # Other => l.epoch = epoch /\ l.revision <= revision
  BY <1>2, LineFacts DEF ForceInv, LinksReadable
<1>6. /\ mProfiles.revision \in Nat
      /\ mProfiles.epoch \in Nat
      /\ mLatestProfiles = mProfiles.revision
      /\ mProfiles = [epoch |-> mProfiles.epoch, revision |-> mProfiles.revision]
      /\ revision \in Nat
      /\ epoch \in Nat
  BY ResultFacts DEF TypeOK
<1>7. /\ mProfiles'.epoch <= epoch
      /\ mProfiles'.epoch = epoch => mProfiles'.revision <= revision
  BY <1>3, <1>5, <1>6 DEF ForceInv
<1>8. \A i \in 1 .. Len(wire') :
        wire'[i] # Other => wire'[i].epoch = epoch /\ wire'[i].revision <= revision
  BY <1>4 DEF ForceInv
<1>9. ASSUME lost' = "no", revision > 0, ~ \E i \in 1 .. Len(wire') : IsNewest(wire'[i])
      PROVE  InForce'
  <2>1. lost = "no" /\ ~(IsNewest(l) /\ ~LinksReadable(l))
    BY <1>3, <1>9
  <2>2. CASE IsNewest(l)
    <3>1. LinksReadable(l) /\ Result(l) = Newest /\ l.revision = revision /\ l.epoch = epoch
      BY <1>5, <2>1, <2>2 DEF IsNewest, Newest
    <3>2. CASE take
      BY <1>3, <3>1, <3>2 DEF InForce, Newest
    <3>3. CASE ~take
      <4>1. mProfiles.revision >= revision /\ mProfiles' = mProfiles
        BY <1>3, <1>6, <3>1, <3>3, <1>5
      <4>2. CASE mProfiles.epoch = epoch
        <5>1. mProfiles.revision = revision
          BY <1>6, <4>1, <4>2 DEF ForceInv
        <5> QED
          BY <1>3, <1>6, <4>1, <4>2, <5>1 DEF InForce, Newest
      <4>3. CASE mProfiles.epoch # epoch
        BY <1>3, <1>6, <4>1, <4>3 DEF ForceInv, InForce
      <4> QED
        BY <4>2, <4>3
    <3> QED
      BY <3>2, <3>3
  <2>3. CASE ~IsNewest(l)
    <3>1. ASSUME NEW i \in 1 .. Len(wire), IsNewest(wire[i]) PROVE FALSE
      <4>1. i # 1
        BY <1>2, <2>3, <3>1
      <4>2. i - 1 \in 1 .. Len(wire') /\ (i - 1) + 1 = i
        BY <1>2, <1>4, <4>1
      <4>3. wire'[i - 1] = wire[i]
        BY <1>4, <4>2
      <4> QED
        BY <1>9, <3>1, <4>2, <4>3
    <3>2. InForce
      BY <1>9, <2>1, <3>1 DEF ForceInv
    <3>3. mProfiles.revision >= revision
      BY <1>6, <3>2 DEF InForce, Newest
    <3>4. ~take
      BY <1>5, <1>6, <3>3
    <3> QED
      BY <1>3, <3>2, <3>4 DEF InForce, Newest
  <2> QED
    BY <2>2, <2>3
<1>10. (\E i \in 1 .. Len(wire) : IsNewest(wire[i]))'
         <=> \E i \in 1 .. Len(wire') : IsNewest(wire'[i])
  BY <1>3 DEF IsNewest, Newest
<1> QED
  BY <1>3, <1>7, <1>8, <1>9, <1>10 DEF ForceInv

(* Every step keeps ForceInv.                                              *)
LEMMA ForceStep == TypeOK /\ ForceInv /\ [Next]_vars => ForceInv'
<1> SUFFICES ASSUME TypeOK, ForceInv, [Next]_vars PROVE ForceInv'
  OBVIOUS
<1>1. CASE SendOther
  <2>1. /\ wire' = Append(wire, Other)
        /\ UNCHANGED <<epoch, revision, mProfiles, lost>>
    BY <1>1 DEF SendOther, serviceVars, gateVars
  <2>2. /\ Len(wire') = Len(wire) + 1
        /\ wire'[Len(wire) + 1] = Other
        /\ \A i \in 1 .. Len(wire) : wire'[i] = wire[i]
        /\ Len(wire) \in Nat
    BY <2>1, OtherIsLine DEF TypeOK
  <2>3. \A i \in 1 .. Len(wire') :
          wire'[i] # Other => wire'[i].epoch = epoch /\ wire'[i].revision <= revision
    BY <2>2 DEF ForceInv
  <2>4. (\E i \in 1 .. Len(wire) : IsNewest(wire[i]))
          => (\E i \in 1 .. Len(wire) : IsNewest(wire[i]))'
    BY <2>1, <2>2 DEF IsNewest, Newest
  <2> QED
    BY <2>1, <2>3, <2>4 DEF ForceInv, InForce, Newest
<1>2. CASE ConnectionBreaks
  BY <1>2 DEF ConnectionBreaks, serviceVars, gateVars, ForceInv, InForce, Newest
<1>3. CASE ServiceRestarts
  BY <1>3, ResultFacts DEF ServiceRestarts, gateVars, ForceInv, TypeOK
<1>4. CASE BufferOverflows
  <2>1. Head(wire) = wire[1] /\ 1 \in 1 .. Len(wire)
    BY <1>4 DEF BufferOverflows, TypeOK
  <2> QED
    BY <1>4, <2>1 DEF BufferOverflows, serviceVars, gateVars, ForceInv, InForce, Newest
<1>5. CASE UpdateEffects \/ MergeEffects \/ TakeEffects \/ (\E k \in Keys : ApplyEffect(k))
           \/ UNCHANGED vars
  <2>1. UNCHANGED <<epoch, revision, wire, mProfiles, lost>>
    BY <1>5 DEF UpdateEffects, MergeEffects, MergeFor, TakeEffects, ApplyEffect, vars,
                serviceVars, gateVars
  <2> QED
    BY <2>1 DEF ForceInv, InForce, Newest, IsNewest, Result
<1> QED
  BY <1>1, <1>2, <1>3, <1>4, <1>5, ProfilesForce, BroadcastForce DEF Next

(* Once the lines are read, messages are decided by the newest result that *)
(* was not lost, or by one of an earlier run that has a larger revision.   *)
THEOREM NewestAlwaysInForce == Spec => []NewestInForce
<1>1. ForceInv => NewestInForce
  BY DEF ForceInv, NewestInForce, Quiet, InForce
<1> QED
  BY <1>1, ForceInit, ForceStep, GatesTypeCorrect, PTL DEF Spec

=============================================================================
