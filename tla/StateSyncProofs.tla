-------------------------- MODULE StateSyncProofs --------------------------
(***************************************************************************)
(* Proofs about StateDelta and StateSync: that the delta is lossless; the  *)
(* types of the protocol for every behaviour; and, when every stream of    *)
(* lines has one reader at a time and every reported state has its         *)
(* references, the delivery chain and what follows from it.                *)
(***************************************************************************)
EXTENDS StateSync, SequenceTheorems, TLAPS

-----------------------------------------------------------------------------
(* The delta computed by StateDeltaTracker::Update and merged by           *)
(* StateStore.apply_delta is lossless, for every pair of states.           *)

(* A partial map is a function on its domain, with keys and values in the  *)
(* given sets.                                                             *)
LEMMA PartialMapFacts ==
  ASSUME NEW S, NEW T, NEW m \in PartialMap(S, T)
  PROVE  /\ DOMAIN m \subseteq S
         /\ m = [id \in DOMAIN m |-> m[id]]
         /\ \A id \in DOMAIN m : m[id] \in T
<1>1. PICK D \in SUBSET S : m \in [D -> T]
  BY DEF PartialMap
<1>2. DOMAIN m = D
  BY <1>1
<1> QED
  BY <1>1, <1>2

(* A function on a subset of S with values in T is a partial map.          *)
LEMMA PartialMapIntro ==
  ASSUME NEW S, NEW T, NEW D \in SUBSET S, NEW m \in [D -> T]
  PROVE  m \in PartialMap(S, T)
BY DEF PartialMap

(* Merging total contents replaces the old one (state.py _merge_entity     *)
(* applied to what WriteEntity writes).                                    *)
LEMMA MergeReplaces ==
  ASSUME NEW F, NEW c, NEW u,
         c = [f \in F |-> c[f]], u = [f \in F |-> u[f]]
  PROVE  MergeFields(c, u) = u
<1>1. DOMAIN c = F /\ DOMAIN u = F
  OBVIOUS
<1>2. MergeFields(c, u) = [f \in F |-> u[f]]
  BY <1>1 DEF MergeFields
<1> QED
  BY <1>2

(* Every content in T has exactly the fields F.                            *)
Total(T, F) == \A c \in T : c = [f \in F |-> c[f]]

(* Removals and upserts of one map, merged, give the new map.              *)
LEMMA PatchRoundTrip ==
  ASSUME NEW S, NEW T, NEW F,
         NEW old \in PartialMap(S, T), NEW new \in PartialMap(S, T),
         Total(T, F)
  PROVE  Patch(old, Removals(old, new), Upserts(old, new)) = new
<1> DEFINE changed == {i \in DOMAIN new : i \notin DOMAIN old \/ old[i] # new[i]}
           kept == DOMAIN old \ Removals(old, new)
           ups == Upserts(old, new)
<1>1. /\ new = [id \in DOMAIN new |-> new[id]]
      /\ \A id \in DOMAIN new : new[id] \in T
      /\ \A id \in DOMAIN old : old[id] \in T
  BY PartialMapFacts
<1>2. DOMAIN ups = changed /\ \A id \in changed : ups[id] = new[id]
  BY DEF Upserts, Same
<1>3. kept = DOMAIN old \cap DOMAIN new
  BY DEF Removals
<1>4. kept \cup DOMAIN ups = DOMAIN new
  BY <1>2, <1>3
<1>5. \A id \in DOMAIN new :
        (IF id \notin DOMAIN ups THEN old[id]
         ELSE IF id \in kept THEN MergeFields(old[id], ups[id])
         ELSE ups[id]) = new[id]
  <2> TAKE id \in DOMAIN new
  <2>1. CASE id \notin changed
    BY <2>1, <1>2
  <2>2. CASE id \in changed /\ id \in kept
    <3>1. old[id] \in T /\ new[id] \in T
      BY <1>1, <1>3, <2>2
    <3>2. MergeFields(old[id], new[id]) = new[id]
      BY <3>1, MergeReplaces DEF Total
    <3> QED
      BY <2>2, <3>2, <1>2
  <2>3. CASE id \in changed /\ id \notin kept
    BY <2>3, <1>2
  <2> QED
    BY <2>1, <2>2, <2>3
<1>6. Patch(old, Removals(old, new), ups)
        = [id \in kept \cup DOMAIN ups |->
             IF id \notin DOMAIN ups THEN old[id]
             ELSE IF id \in kept THEN MergeFields(old[id], ups[id])
             ELSE ups[id]]
  BY DEF Patch
<1>7. Patch(old, Removals(old, new), ups) = [id \in DOMAIN new |-> new[id]]
  BY <1>4, <1>5, <1>6
<1> QED
  BY <1>1, <1>7

(* For any two states AFSIM can report, merging the tracker's delta into   *)
(* the older one gives exactly the newer one: nothing removed survives,    *)
(* nothing unchanged is lost, nothing changed keeps an old field.          *)
THEOREM DeltaRoundTrip ==
  ASSUME NEW old \in State, NEW new \in State
  PROVE  ApplyDelta(old, Update(old, new)) = new
<1>1. /\ old.entities \in PartialMap(EntityIds, EntityStates)
      /\ new.entities \in PartialMap(EntityIds, EntityStates)
      /\ old.flows \in PartialMap(FlowIds, FlowConfigs)
      /\ new.flows \in PartialMap(FlowIds, FlowConfigs)
      /\ new = [entities |-> new.entities, flows |-> new.flows]
  BY DEF State
<1>0. Total(EntityStates, EntityFields) /\ Total(FlowConfigs, FlowFields)
  BY ContentsAreTotal DEF Total
<1>2. Patch(old.entities, Removals(old.entities, new.entities),
            Upserts(old.entities, new.entities)) = new.entities
  BY <1>0, <1>1, PatchRoundTrip
<1>3. Patch(old.flows, Removals(old.flows, new.flows),
            Upserts(old.flows, new.flows)) = new.flows
  BY <1>0, <1>1, PatchRoundTrip
<1> QED
  BY <1>1, <1>2, <1>3 DEF ApplyDelta, Update

(* The tracker's delta is one that the wire can carry.                     *)
LEMMA UpdateType ==
  ASSUME NEW old \in State, NEW new \in State
  PROVE  Update(old, new) \in Deltas
<1>1. ASSUME NEW S, NEW T, NEW o \in PartialMap(S, T), NEW n \in PartialMap(S, T)
      PROVE  Upserts(o, n) \in PartialMap(S, T) /\ Removals(o, n) \in SUBSET S
  <2> DEFINE D == {i \in DOMAIN n : i \notin DOMAIN o \/ o[i] # n[i]}
  <2>1. /\ DOMAIN n \subseteq S
        /\ DOMAIN o \subseteq S
        /\ \A id \in DOMAIN n : n[id] \in T
    BY PartialMapFacts
  <2>2. D \in SUBSET S /\ Upserts(o, n) \in [D -> T]
    BY <2>1 DEF Upserts, Same
  <2>3. Upserts(o, n) \in PartialMap(S, T)
    BY <2>2, PartialMapIntro
  <2> QED
    BY <2>1, <2>3 DEF Removals
<1>2. /\ old.entities \in PartialMap(EntityIds, EntityStates)
      /\ new.entities \in PartialMap(EntityIds, EntityStates)
      /\ old.flows \in PartialMap(FlowIds, FlowConfigs)
      /\ new.flows \in PartialMap(FlowIds, FlowConfigs)
  BY DEF State
<1>3. /\ Upserts(old.entities, new.entities) \in PartialMap(EntityIds, EntityStates)
      /\ Removals(old.entities, new.entities) \in SUBSET EntityIds
  BY <1>1, <1>2
<1>4. /\ Upserts(old.flows, new.flows) \in PartialMap(FlowIds, FlowConfigs)
      /\ Removals(old.flows, new.flows) \in SUBSET FlowIds
  BY <1>1, <1>2
<1> QED
  BY <1>3, <1>4 DEF Update, Deltas

(* A tick reports NoChange exactly when nothing changed: an empty delta    *)
(* is never sent and a change is never swallowed.                          *)
THEOREM EmptyDeltaMeansNoChange ==
  ASSUME NEW old \in State, NEW new \in State
  PROVE  Empty(Update(old, new)) <=> old = new
<1>1. /\ old.entities \in PartialMap(EntityIds, EntityStates)
      /\ new.entities \in PartialMap(EntityIds, EntityStates)
      /\ old.flows \in PartialMap(FlowIds, FlowConfigs)
      /\ new.flows \in PartialMap(FlowIds, FlowConfigs)
      /\ new = [entities |-> new.entities, flows |-> new.flows]
      /\ old = [entities |-> old.entities, flows |-> old.flows]
  BY DEF State
<1>2. ASSUME NEW S, NEW T, NEW o \in PartialMap(S, T), NEW n \in PartialMap(S, T)
      PROVE  (DOMAIN Upserts(o, n) = {} /\ Removals(o, n) = {}) <=> o = n
  <2>1. /\ o = [id \in DOMAIN o |-> o[id]]
        /\ n = [id \in DOMAIN n |-> n[id]]
    BY PartialMapFacts
  <2>2. DOMAIN Upserts(o, n) = {i \in DOMAIN n : i \notin DOMAIN o \/ o[i] # n[i]}
    BY DEF Upserts, Same
  <2>3. ASSUME DOMAIN Upserts(o, n) = {}, Removals(o, n) = {}
        PROVE  o = n
    <3>1. DOMAIN o = DOMAIN n /\ \A i \in DOMAIN n : o[i] = n[i]
      BY <2>2, <2>3 DEF Removals
    <3> QED
      BY <2>1, <3>1
  <2>4. o = n => DOMAIN Upserts(o, n) = {} /\ Removals(o, n) = {}
    BY <2>2 DEF Removals
  <2> QED
    BY <2>3, <2>4
<1>3. (DOMAIN Upserts(old.entities, new.entities) = {}
         /\ Removals(old.entities, new.entities) = {}) <=> old.entities = new.entities
  BY <1>1, <1>2
<1>4. (DOMAIN Upserts(old.flows, new.flows) = {}
         /\ Removals(old.flows, new.flows) = {}) <=> old.flows = new.flows
  BY <1>1, <1>2
<1>5. old = new <=> old.entities = new.entities /\ old.flows = new.flows
  BY <1>1
<1> QED
  BY <1>3, <1>4, <1>5 DEF Empty, Update

-----------------------------------------------------------------------------
(* Lemmas about the operators.                                             *)

(* A message with a whole state, and what it says.                         *)
LEMMA InitMsgType ==
  ASSUME NEW t \in Nat, NEW w \in State
  PROVE  /\ InitMsg(t, w) \in Messages
         /\ InitMsg(t, w).type = "afsim_init"
         /\ InitMsg(t, w).time = t
         /\ InitMsg(t, w).body = w
BY DEF InitMsg, Messages

(* A message with a delta, and what it says.                               *)
LEMMA DeltaMsgType ==
  ASSUME NEW t \in Nat, NEW d \in Deltas
  PROVE  /\ DeltaMsg(t, d) \in Messages
         /\ DeltaMsg(t, d).type = "afsim_delta"
         /\ DeltaMsg(t, d).time = t
         /\ DeltaMsg(t, d).body = d
BY DEF DeltaMsg, Messages

(* A message carries a whole state or a delta, with the time of its        *)
(* report.                                                                 *)
LEMMA MessageFacts ==
  ASSUME NEW m \in Messages
  PROVE  /\ m.type \in {"afsim_init", "afsim_delta"}
         /\ m.time \in Nat
         /\ m.type = "afsim_init" => m.body \in State
         /\ m.type = "afsim_delta" => m.body \in Deltas
BY DEF Messages

(* A line is a message on one connection.                                  *)
LEMMA LineType ==
  /\ \A c \in Nat, m \in Messages : /\ [conn |-> c, msg |-> m] \in Lines
                                   /\ [conn |-> c, msg |-> m].conn = c
                                   /\ [conn |-> c, msg |-> m].msg = m
  /\ \A x \in Lines : x.conn \in Nat /\ x.msg \in Messages
BY DEF Lines

(* Two intervals that begin at 1 and are equal end at the same number.     *)
LEMMA IntervalsEqual ==
  ASSUME NEW n \in Nat, NEW k \in Nat, 1 .. n = 1 .. k
  PROVE  n = k
<1>1. \A j \in Nat : j \in 1 .. n <=> j \in 1 .. k
  OBVIOUS
<1>2. n \in 1 .. n => n <= k
  BY <1>1
<1>3. k \in 1 .. k => k <= n
  BY <1>1
<1> QED
  BY <1>2, <1>3

(* What DropAt leaves, and where.                                          *)
LEMMA DropAtFacts ==
  ASSUME NEW S, NEW s \in Seq(S), NEW i \in 1 .. Len(s)
  PROVE  /\ DropAt(s, i) \in Seq(S)
         /\ Len(DropAt(s, i)) = Len(s) - 1
         /\ \A j \in 1 .. Len(s) - 1 :
              DropAt(s, i)[j] = IF j < i THEN s[j] ELSE s[j + 1]
<1> DEFINE n == Len(s) - 1
           d == DropAt(s, i)
<1>1. Len(s) \in Nat /\ n \in Nat /\ n + 1 = Len(s)
  OBVIOUS
<1>2. \A j \in 1 .. n : s[j] \in S /\ s[j + 1] \in S
  BY <1>1
<1>3. d \in [1 .. n -> S]
  BY <1>2 DEF DropAt
<1>4. d \in Seq(S)
  BY <1>1, <1>3, SeqDef
<1>5. Len(d) \in Nat /\ DOMAIN d = 1 .. Len(d)
  BY <1>4, LenProperties
<1>6. DOMAIN d = 1 .. n
  BY <1>3
<1>7. Len(d) = n
  BY <1>1, <1>5, <1>6, IntervalsEqual
<1> QED
  BY <1>4, <1>7 DEF DropAt

(* Merging a delta into a state gives a state.                             *)
LEMMA ApplyDeltaType ==
  ASSUME NEW s \in State, NEW d \in Deltas
  PROVE  ApplyDelta(s, d) \in State
<1>1. ASSUME NEW S, NEW T, NEW F, Total(T, F),
             NEW c \in PartialMap(S, T), NEW u \in PartialMap(S, T),
             NEW r \in SUBSET S
      PROVE  Patch(c, r, u) \in PartialMap(S, T)
  <2> DEFINE kept == DOMAIN c \ r
             D == kept \cup DOMAIN u
  <2>1. /\ DOMAIN c \subseteq S
        /\ DOMAIN u \subseteq S
        /\ \A id \in DOMAIN c : c[id] \in T
        /\ \A id \in DOMAIN u : u[id] \in T
    BY PartialMapFacts
  <2>2. \A id \in DOMAIN c \cap DOMAIN u : MergeFields(c[id], u[id]) = u[id]
    <3> TAKE id \in DOMAIN c \cap DOMAIN u
    <3>1. c[id] \in T /\ u[id] \in T
      BY <2>1
    <3>2. c[id] = [f \in F |-> c[id][f]] /\ u[id] = [f \in F |-> u[id][f]]
      BY <1>1, <3>1 DEF Total
    <3> QED
      BY <3>2, MergeReplaces
  <2>3. D \in SUBSET S /\ Patch(c, r, u) \in [D -> T]
    BY <2>1, <2>2 DEF Patch
  <2> QED
    BY <2>3, PartialMapIntro
<1>2. Total(EntityStates, EntityFields) /\ Total(FlowConfigs, FlowFields)
  BY ContentsAreTotal DEF Total
<1>3. /\ s.entities \in PartialMap(EntityIds, EntityStates)
      /\ s.flows \in PartialMap(FlowIds, FlowConfigs)
      /\ d.entityUpserts \in PartialMap(EntityIds, EntityStates)
      /\ d.flowUpserts \in PartialMap(FlowIds, FlowConfigs)
      /\ d.entityRemovals \in SUBSET EntityIds
      /\ d.flowRemovals \in SUBSET FlowIds
  BY DEF State, Deltas
<1>4. Patch(s.entities, d.entityRemovals, d.entityUpserts)
        \in PartialMap(EntityIds, EntityStates)
  BY <1>1, <1>2, <1>3
<1>5. Patch(s.flows, d.flowRemovals, d.flowUpserts) \in PartialMap(FlowIds, FlowConfigs)
  BY <1>1, <1>2, <1>3
<1> QED
  BY <1>4, <1>5 DEF ApplyDelta, State

-----------------------------------------------------------------------------
(* Type correctness.                                                       *)

(* Every step keeps the types.                                             *)
LEMMA TypeStep ==
  ASSUME TypeOK, [Next]_vars
  PROVE  TypeOK'
<1> USE SyncConstants
<1>1. ASSUME NEW w \in Worlds, SubmitCurrentState(w) PROVE TypeOK'
  <2> DEFINE t == Len(reported) + 1
  <2>1. t \in Nat /\ w \in State /\ InitMsg(t, w) \in Messages
    BY InitMsgType DEF TypeOK
  <2>2. CASE mBaseline = Nothing /\ SubmitInitial(w)
    BY <1>1, <2>1, <2>2 DEF TypeOK, SubmitCurrentState, SubmitInitial,
         threadVars, netVars, storeVars
  <2>3. CASE mBaseline # Nothing /\ SubmitDelta(w, Update(mBaseline, w))
    <3>1. DeltaMsg(t, Update(mBaseline, w)) \in Messages
      BY <2>1, <2>3, UpdateType, DeltaMsgType DEF TypeOK
    <3>2. mPending' \in Seq(Messages)
      BY <2>1, <2>3, <3>1 DEF SubmitDelta, TypeOK
    <3> QED
      BY <1>1, <2>1, <2>3, <3>2 DEF TypeOK, SubmitCurrentState, SubmitDelta,
           threadVars, netVars, storeVars
  <2> QED
    BY <1>1, <2>2, <2>3 DEF SubmitCurrentState
<1>2. CASE Stop
  BY <1>2 DEF Stop, TypeOK, simVars, queueVars, netVars, storeVars
<1>3. CASE Connect
  BY <1>3 DEF Connect, TypeOK, simVars, storeVars
<1>4. CASE TakePending
  BY <1>4 DEF TakePending, TypeOK, simVars, netVars, storeVars
<1>5. CASE SendSucceeds
  <2>1. wire' \in Seq(Lines)
    BY <1>5, LineType DEF SendSucceeds, TypeOK
  <2> QED
    BY <1>5, <2>1 DEF SendSucceeds, TypeOK, simVars, queueVars, storeVars
<1>6. CASE SendFails
  <2>1. wire' \in Seq(Lines)
    <3>1. CASE wire' = wire
      BY <3>1 DEF TypeOK
    <3>2. CASE wire' = Append(wire, [conn |-> conn, msg |-> current])
      <4>1. [conn |-> conn, msg |-> current] \in Lines
        BY <1>6, LineType DEF SendFails, TypeOK
      <4> QED
        BY <3>2, <4>1 DEF TypeOK
    <3> QED
      BY <1>6, <3>1, <3>2 DEF SendFails
  <2>2. mPending' \in Seq(Messages)
    BY <1>6 DEF SendFails, TypeOK
  <2> QED
    BY <1>6, <2>1, <2>2 DEF SendFails, TypeOK, simVars, storeVars
<1>7. CASE Hangup
  BY <1>7 DEF Hangup, TypeOK, simVars, queueVars, storeVars
<1>8. CASE LinkBreaks
  BY <1>8 DEF LinkBreaks, TypeOK, simVars, queueVars, threadVars, storeVars
<1>9. CASE LoseTail
  <2>1. PICK i \in 1 .. Len(wire) : wire' = DropAt(wire, i)
    BY <1>9 DEF LoseTail
  <2>2. wire' \in Seq(Lines)
    BY <2>1, DropAtFacts DEF TypeOK
  <2> QED
    BY <1>9, <2>2 DEF LoseTail, TypeOK, simVars, queueVars, threadVars, storeVars
<1>10. CASE ReadLine
  <2>1. PICK i \in 1 .. Len(wire) : /\ Process(wire[i].msg)
                                    /\ wire' = DropAt(wire, i)
    BY <1>10 DEF ReadLine
  <2> DEFINE m == wire[i].msg
  <2>2. wire' \in Seq(Lines)
    BY <2>1, DropAtFacts DEF TypeOK
  <2>3. m \in Messages
    BY LineType DEF TypeOK
  <2>4. /\ copy' \in State \cup {Nothing}
        /\ storeTime' \in Nat
        /\ remembered' \subseteq RequestIds
    <3>1. CASE ~Accepts(m)
      BY <2>1, <3>1 DEF Process, storeVars, TypeOK
    <3>2. CASE Accepts(m)
      <4>1. copy' \in State
        BY <2>1, <2>3, <3>2, MessageFacts, ApplyDeltaType DEF Process, Accepts, TypeOK
      <4> QED
        BY <2>1, <2>3, <3>2, <4>1, MessageFacts DEF Process, RequestId, RequestIds, TypeOK
    <3> QED
      BY <3>1, <3>2
  <2> QED
    BY <1>10, <2>2, <2>4 DEF ReadLine, TypeOK, simVars, queueVars, threadVars
<1>11. CASE ServiceRestarts
  <2>1. (remembered \subseteq RequestIds)'
    BY <1>11 DEF ServiceRestarts
  <2>2. /\ copy' \in State \cup {Nothing}
        /\ storeTime' \in Nat
        /\ link' \in BOOLEAN
    BY <1>11 DEF ServiceRestarts
  <2>4. wire' \in Seq(Lines)
    BY <1>11 DEF ServiceRestarts
  <2>3. UNCHANGED <<mBaseline, reported, mPending, mResync, mRunning, connected,
                    current, conn>>
    BY <1>11 DEF ServiceRestarts, simVars, queueVars, threadVars
  <2> QED
    BY <2>1, <2>2, <2>3, <2>4 DEF TypeOK
<1>12. CASE UNCHANGED vars
  BY <1>12 DEF vars, TypeOK, simVars, queueVars, threadVars, netVars, storeVars
<1> QED
  BY <1>1, <1>2, <1>3, <1>4, <1>5, <1>6, <1>7, <1>8, <1>9, <1>10, <1>11, <1>12
     DEF Next

(* Every behaviour of the protocol, lingering lines and dangling           *)
(* references included, keeps queue, wire and store well formed: what the  *)
(* service stores is always a state, however it was patched together.      *)
THEOREM TypeCorrect == Spec => []TypeOK
<1>1. Init => TypeOK
  <2> SUFFICES ASSUME Init PROVE TypeOK
    OBVIOUS
  <2>1. remembered \subseteq RequestIds
    BY DEF Init
  <2>2. /\ reported \in Seq(Worlds)
        /\ mPending \in Seq(Messages)
        /\ wire \in Seq(Lines)
    BY DEF Init
  <2>3. /\ mBaseline \in Worlds \cup {Nothing}
        /\ mResync \in Messages \cup {Nothing}
        /\ current \in Messages \cup {Nothing}
        /\ copy \in State \cup {Nothing}
    BY DEF Init
  <2>4. /\ mRunning \in BOOLEAN
        /\ connected \in BOOLEAN
        /\ link \in BOOLEAN
        /\ conn \in Nat
        /\ storeTime \in Nat
    BY DEF Init
  <2> QED
    BY <2>1, <2>2, <2>3, <2>4 DEF TypeOK
<1>2. TypeOK /\ [Next]_vars => TypeOK'
  BY TypeStep
<1> QED
  BY <1>1, <1>2, PTL DEF Spec

-----------------------------------------------------------------------------
(* The delivery chain.                                                     *)

(* A message that was made from the reports so far stays so with one more  *)
(* report.                                                                 *)
LEMMA GenuineAppend ==
  ASSUME NEW r \in Seq(Worlds), NEW w \in Worlds, NEW m \in Messages, Genuine(m, r)
  PROVE  Genuine(m, Append(r, w))
<1>1. Len(Append(r, w)) = Len(r) + 1 /\ \A k \in 1 .. Len(r) : Append(r, w)[k] = r[k]
  OBVIOUS
<1>2. m.time \in 1 .. Len(r) /\ (m.time > 1 => m.time - 1 \in 1 .. Len(r))
  BY DEF Genuine
<1> QED
  BY <1>1, <1>2 DEF Genuine

(* Nothing on the wire or in the store is newer than the last report.      *)
LEMMA TipBound ==
  ASSUME TypeOK, WireChained, StoreChained
  PROVE  Tip \in 0 .. Len(reported)
<1>1. CASE wire = <<>>
  BY <1>1 DEF Tip, StoreChained, CopyWasReported, TypeOK
<1>2. CASE wire # <<>>
  <2>1. Len(wire) \in 1 .. Len(wire)
    BY <1>2 DEF TypeOK
  <2>2. Genuine(wire[Len(wire)].msg, reported)
    BY <2>1 DEF WireChained
  <2> QED
    BY <1>2, <2>2 DEF Tip, Genuine, TypeOK
<1> QED
  BY <1>1, <1>2

(* A report extends the chain at its end, or replaces the queue by a full  *)
(* state.                                                                  *)
LEMMA SubmitChained ==
  ASSUME TypeOK, DeliveryChain, NEW w \in Worlds, SubmitCurrentState(w)
  PROVE  DeliveryChain'
<1> DEFINE L == Len(reported)
           full == InitMsg(L + 1, w)
           step == DeltaMsg(L + 1, Update(mBaseline, w))
<1> USE SyncConstants
<1>1. /\ reported \in Seq(Worlds)
      /\ L \in Nat
      /\ reported' = Append(reported, w)
      /\ Len(reported') = L + 1
      /\ reported'[L + 1] = w
      /\ \A k \in 1 .. L : reported'[k] = reported[k]
      /\ mBaseline' = w
      /\ mResync' = full
      /\ UNCHANGED <<connected, current, conn, link, wire, copy, storeTime, remembered>>
  <2>1. /\ reported' = Append(reported, w)
        /\ mBaseline' = w
        /\ mResync' = full
    BY DEF SubmitCurrentState, SubmitInitial, SubmitDelta
  <2>2. UNCHANGED <<connected, current, conn, link, wire, copy, storeTime, remembered>>
    BY DEF SubmitCurrentState, threadVars, netVars, storeVars
  <2>3. /\ reported \in Seq(Worlds)
        /\ L \in Nat
        /\ Len(Append(reported, w)) = L + 1
        /\ Append(reported, w)[L + 1] = w
        /\ \A k \in 1 .. L : Append(reported, w)[k] = reported[k]
    BY DEF TypeOK
  <2> QED
    BY <2>1, <2>2, <2>3
<1>2. /\ full \in Messages
      /\ full.type = "afsim_init"
      /\ full.time = L + 1
      /\ Genuine(full, reported')
  <2>1. w \in State
    OBVIOUS
  <2> QED
    BY <1>1, <2>1, InitMsgType DEF Genuine
<1>3. \/ mPending' = <<full>>
      \/ /\ reported # <<>>
         /\ mPending' = Append(mPending, step)
  BY DEF SubmitCurrentState, SubmitInitial, SubmitDelta, DeliveryChain, BaselineIsLast
<1>4. ASSUME reported # <<>>
      PROVE  /\ step \in Messages
             /\ step.type = "afsim_delta"
             /\ step.time = L + 1
             /\ Genuine(step, reported')
  <2>1. L >= 1 /\ mBaseline = reported[L] /\ mBaseline \in Worlds
    BY <1>1, <1>4 DEF DeliveryChain, BaselineIsLast
  <2>2. Update(mBaseline, w) \in Deltas
    BY <2>1, UpdateType
  <2>3. /\ step \in Messages
        /\ step.type = "afsim_delta"
        /\ step.time = L + 1
        /\ step.body = Update(mBaseline, w)
    BY <1>1, <2>2, DeltaMsgType
  <2>4. reported'[L] = mBaseline
    BY <1>1, <2>1
  <2> QED
    BY <1>1, <2>1, <2>3, <2>4 DEF Genuine
<1>5. BaselineIsLast'
  BY <1>1 DEF BaselineIsLast
<1>6. QueueChained'
  <2>1. CASE mPending' = <<full>>
    BY <1>1, <1>2, <2>1 DEF QueueChained
  <2>2. CASE reported # <<>> /\ mPending' = Append(mPending, step)
    <3> DEFINE n == Len(mPending)
    <3>1. /\ mPending \in Seq(Messages)
          /\ n \in Nat
          /\ Len(mPending') = n + 1
          /\ mPending'[n + 1] = step
          /\ \A i \in 1 .. n : mPending'[i] = mPending[i] /\ mPending[i] \in Messages
      BY <1>4, <2>2 DEF TypeOK
    <3>2. \A i \in 1 .. n : Genuine(mPending[i], reported')
      BY <1>1, <3>1, GenuineAppend DEF DeliveryChain, QueueChained
    <3>3. \A i \in 1 .. n + 1 : Genuine(mPending'[i], reported')
      BY <1>4, <2>2, <3>1, <3>2
    <3>4. \A i \in 1 .. n : Follows(mPending'[i + 1], mPending'[i].time)
      <4> TAKE i \in 1 .. n
      <4>1. CASE i = n
        <5>1. mPending[n].time = L
          BY <3>1, <4>1 DEF DeliveryChain, QueueChained
        <5> QED
          BY <1>4, <2>2, <3>1, <4>1, <5>1 DEF Follows
      <4>2. CASE i # n
        <5>1. i \in 1 .. n - 1 /\ i + 1 \in 1 .. n
          BY <3>1, <4>2
        <5>2. Follows(mPending[i + 1], mPending[i].time)
          BY <5>1 DEF DeliveryChain, QueueChained
        <5> QED
          BY <3>1, <5>1, <5>2
      <4> QED
        BY <4>1, <4>2
    <3>5. mPending'[Len(mPending')].time = L + 1
      BY <1>4, <2>2, <3>1
    <3>6. Len(mPending') - 1 = n
      BY <3>1
    <3> QED
      BY <1>1, <3>1, <3>3, <3>4, <3>5, <3>6 DEF QueueChained
  <2> QED
    BY <1>3, <2>1, <2>2
<1>7. CurrentChained'
  <2>1. ~connected' => current' = Nothing
    BY <1>1 DEF DeliveryChain, CurrentChained
  <2>2. ASSUME current # Nothing
        PROVE  /\ Genuine(current, reported')
               /\ mPending' # <<>>
               /\ Follows(mPending'[1], current.time)
    <3>1. current \in Messages /\ Genuine(current, reported)
      BY <2>2 DEF TypeOK, DeliveryChain, CurrentChained
    <3>2. current.time \in Nat /\ current.time <= L
      BY <1>1, <3>1 DEF Genuine
    <3>3. Genuine(current, reported')
      BY <1>1, <3>1, GenuineAppend
    <3>4. CASE mPending' = <<full>>
      BY <1>1, <1>2, <3>2, <3>3, <3>4 DEF Follows
    <3>5. CASE reported # <<>> /\ mPending' = Append(mPending, step)
      <4>1. mPending \in Seq(Messages) /\ mPending' # <<>>
        BY <1>4, <3>5 DEF TypeOK
      <4>2. CASE mPending = <<>>
        <5>1. current.time = L
          BY <2>2, <4>2 DEF DeliveryChain, CurrentChained
        <5>2. mPending'[1] = step
          BY <3>5, <4>2
        <5> QED
          BY <1>4, <3>3, <3>5, <4>1, <5>1, <5>2 DEF Follows
      <4>3. CASE mPending # <<>>
        <5>1. Follows(mPending[1], current.time)
          BY <2>2, <4>3 DEF DeliveryChain, CurrentChained
        <5>2. mPending'[1] = mPending[1]
          BY <1>4, <3>5, <4>1, <4>3
        <5> QED
          BY <3>3, <4>1, <5>1, <5>2
      <4> QED
        BY <4>2, <4>3
    <3> QED
      BY <1>3, <3>4, <3>5
  <2> QED
    BY <1>1, <2>1, <2>2 DEF CurrentChained
<1>8. WireChained'
  <2>1. \A i \in 1 .. Len(wire) : wire[i].msg \in Messages
    BY LineType DEF TypeOK
  <2>2. \A i \in 1 .. Len(wire) : Genuine(wire[i].msg, reported')
    BY <1>1, <2>1, GenuineAppend DEF DeliveryChain, WireChained
  <2> QED
    BY <1>1, <2>2 DEF DeliveryChain, WireChained
<1>9. StoreChained'
  <2>1. CopyWasReported'
    BY <1>1 DEF DeliveryChain, StoreChained, CopyWasReported
  <2> QED
    BY <1>1, <2>1 DEF DeliveryChain, StoreChained
<1>10. NextChained'
  <2> SUFFICES ASSUME connected, link PROVE NextChained'
    BY <1>1 DEF NextChained
  <2>1. Tip' = Tip /\ Fed' = Fed
    BY <1>1 DEF Tip, Fed
  <2>2. Tip \in 0 .. L
    BY TipBound DEF DeliveryChain
  <2>3. mPending' # <<>>
    <3>1. CASE mPending' = <<full>>
      BY <3>1
    <3>2. CASE reported # <<>> /\ mPending' = Append(mPending, step)
      BY <1>4, <3>2 DEF TypeOK
    <3> QED
      BY <1>3, <3>1, <3>2
  <2>4. CASE current # Nothing
    <3>1. Follows(current, Tip) /\ (current.type = "afsim_delta" => Fed)
      BY <2>4 DEF DeliveryChain, NextChained
    <3> QED
      BY <1>1, <2>1, <2>4, <3>1 DEF NextChained
  <2>5. CASE current = Nothing
    <3>1. Follows(mPending'[1], Tip) /\ (mPending'[1].type = "afsim_delta" => Fed)
      <4>1. CASE mPending' = <<full>>
        BY <1>1, <1>2, <2>2, <4>1 DEF Follows
      <4>2. CASE reported # <<>> /\ mPending' = Append(mPending, step)
        <5>1. CASE mPending = <<>>
          <6>1. Tip = L /\ Fed
            BY <2>5, <4>2, <5>1 DEF DeliveryChain, NextChained
          <6>2. mPending'[1] = step
            BY <4>2, <5>1
          <6> QED
            BY <1>4, <4>2, <6>1, <6>2 DEF Follows
        <5>2. CASE mPending # <<>>
          <6>1. Follows(mPending[1], Tip) /\ (mPending[1].type = "afsim_delta" => Fed)
            BY <2>5, <5>2 DEF DeliveryChain, NextChained
          <6>2. mPending'[1] = mPending[1]
            BY <1>4, <4>2, <5>2 DEF TypeOK
          <6> QED
            BY <6>1, <6>2
        <5> QED
          BY <5>1, <5>2
      <4> QED
        BY <1>3, <4>1, <4>2
    <3> QED
      BY <1>1, <2>1, <2>3, <2>5, <3>1 DEF NextChained
  <2> QED
    BY <2>4, <2>5
<1> QED
  BY <1>5, <1>6, <1>7, <1>8, <1>9, <1>10 DEF DeliveryChain

(* Connecting starts the chain over from the cached full state.            *)
LEMMA ConnectChained ==
  ASSUME TypeOK, DeliveryChain, Connect
  PROVE  DeliveryChain'
<1>1. /\ connected'
      /\ current' = mResync
      /\ mPending' = <<>>
      /\ conn' = conn + 1
      /\ UNCHANGED <<mBaseline, reported, mResync, wire, copy, storeTime, remembered>>
  BY DEF Connect, simVars, storeVars
<1> DEFINE L == Len(reported)
<1>2. reported \in Seq(Worlds) /\ L \in Nat /\ conn \in Nat
  BY DEF TypeOK
<1>3. ASSUME reported # <<>>
      PROVE  /\ mResync # Nothing
             /\ mResync.type = "afsim_init"
             /\ mResync.time = L
             /\ Genuine(mResync, reported)
  <2>1. L \in 1 .. L /\ reported[L] \in State
    BY <1>2, <1>3, SyncConstants
  <2>2. mResync = InitMsg(L, reported[L])
    BY <1>3 DEF DeliveryChain, BaselineIsLast
  <2>3. /\ mResync \in Messages
        /\ mResync.type = "afsim_init"
        /\ mResync.time = L
        /\ mResync.body = reported[L]
    BY <1>2, <2>1, <2>2, InitMsgType
  <2> QED
    BY <2>1, <2>3, NothingIsNoMessage DEF Genuine
<1>4. BaselineIsLast'
  BY <1>1 DEF DeliveryChain, BaselineIsLast
<1>5. QueueChained'
  BY <1>1 DEF QueueChained
<1>6. CurrentChained'
  <2>1. current' # Nothing => reported # <<>>
    BY <1>1 DEF DeliveryChain, BaselineIsLast
  <2> QED
    BY <1>1, <1>3, <2>1 DEF CurrentChained
<1>7. WireChained'
  <2>1. \A i \in 1 .. Len(wire) : wire[i].conn \in Nat
    BY LineType DEF TypeOK
  <2>2. \A i \in 1 .. Len(wire) : wire[i].conn <= conn + 1
    BY <1>2, <2>1 DEF DeliveryChain, WireChained
  <2> QED
    BY <1>1, <2>2 DEF DeliveryChain, WireChained
<1>8. StoreChained'
  BY <1>1 DEF DeliveryChain, StoreChained, CopyWasReported
<1>9. NextChained'
  <2>1. Tip' = Tip /\ Tip \in 0 .. L
    BY <1>1, TipBound DEF DeliveryChain, Tip
  <2>2. CASE reported = <<>>
    <3>1. current' = Nothing
      BY <1>1, <2>2 DEF DeliveryChain, BaselineIsLast
    <3> QED
      BY <1>1, <2>2, <3>1 DEF NextChained
  <2>3. CASE reported # <<>>
    BY <1>1, <1>2, <1>3, <2>1, <2>3 DEF NextChained, Follows
  <2> QED
    BY <2>2, <2>3
<1> QED
  BY <1>4, <1>5, <1>6, <1>7, <1>8, <1>9 DEF DeliveryChain

(* The head of the queue moves to current.                                 *)
LEMMA TakeChained ==
  ASSUME TypeOK, DeliveryChain, TakePending
  PROVE  DeliveryChain'
<1> DEFINE n == Len(mPending)
<1>1. /\ connected /\ connected'
      /\ current = Nothing
      /\ mPending # <<>>
      /\ current' = mPending[1]
      /\ mPending' = Tail(mPending)
      /\ UNCHANGED <<mBaseline, reported, mResync, conn, link, wire, copy, storeTime,
                     remembered>>
  BY DEF TakePending, simVars, netVars, storeVars
<1>2. /\ mPending \in Seq(Messages)
      /\ n \in Nat \ {0}
      /\ mPending' \in Seq(Messages)
      /\ Len(mPending') = n - 1
      /\ \A i \in 1 .. n - 1 : mPending'[i] = mPending[i + 1]
      /\ \A i \in 1 .. n : mPending[i] \in Messages
  BY <1>1 DEF TypeOK
<1>3. current' \in Messages /\ current' # Nothing /\ Genuine(current', reported)
  BY <1>1, <1>2, NothingIsNoMessage DEF DeliveryChain, QueueChained
<1>4. BaselineIsLast'
  BY <1>1 DEF DeliveryChain, BaselineIsLast
<1>5. QueueChained'
  <2>1. \A i \in 1 .. n - 1 : Genuine(mPending'[i], reported)
    <3> TAKE i \in 1 .. n - 1
    <3>1. i + 1 \in 1 .. n
      BY <1>2
    <3> QED
      BY <1>2, <3>1 DEF DeliveryChain, QueueChained
  <2>2. \A i \in 1 .. n - 2 : Follows(mPending'[i + 1], mPending'[i].time)
    <3> TAKE i \in 1 .. n - 2
    <3>1. i \in 1 .. n - 1 /\ i + 1 \in 1 .. n - 1
      BY <1>2
    <3> QED
      BY <1>2, <3>1 DEF DeliveryChain, QueueChained
  <2>3. mPending' # <<>> => mPending'[n - 1].time = Len(reported)
    <3> SUFFICES ASSUME mPending' # <<>> PROVE mPending'[n - 1].time = Len(reported)
      OBVIOUS
    <3>1. n - 1 \in 1 .. n - 1 /\ (n - 1) + 1 = n
      BY <1>2
    <3> QED
      BY <1>1, <1>2, <3>1 DEF DeliveryChain, QueueChained
  <2>4. Len(mPending') - 1 = n - 2
    BY <1>2
  <2> QED
    BY <1>1, <1>2, <2>1, <2>2, <2>3, <2>4 DEF QueueChained
<1>6. CurrentChained'
  <2>1. CASE n = 1
    <3>1. mPending' = <<>> /\ mPending[1].time = Len(reported)
      BY <1>1, <1>2, <2>1 DEF DeliveryChain, QueueChained
    <3> QED
      BY <1>1, <1>3, <3>1 DEF CurrentChained
  <2>2. CASE n > 1
    <3>1. 1 \in 1 .. n - 1
      BY <1>2, <2>2
    <3>2. mPending' # <<>> /\ mPending'[1] = mPending[2]
      BY <1>2, <2>2, <3>1
    <3>3. Follows(mPending[2], mPending[1].time)
      BY <3>1 DEF DeliveryChain, QueueChained
    <3> QED
      BY <1>1, <1>3, <3>2, <3>3 DEF CurrentChained
  <2> QED
    BY <1>2, <2>1, <2>2
<1>7. WireChained'
  BY <1>1 DEF DeliveryChain, WireChained
<1>8. StoreChained'
  BY <1>1 DEF DeliveryChain, StoreChained, CopyWasReported
<1>9. NextChained'
  <2>1. Tip' = Tip /\ Fed' = Fed
    BY <1>1 DEF Tip, Fed
  <2>2. connected /\ link => Follows(mPending[1], Tip)
                             /\ (mPending[1].type = "afsim_delta" => Fed)
    BY <1>1 DEF DeliveryChain, NextChained
  <2> QED
    BY <1>1, <1>3, <2>1, <2>2 DEF NextChained
<1> QED
  BY <1>4, <1>5, <1>6, <1>7, <1>8, <1>9 DEF DeliveryChain

(* A line written to a working connection extends the chain of the wire.   *)
LEMMA WireAppend ==
  ASSUME TypeOK, DeliveryChain, connected, link, current # Nothing,
         wire' = Append(wire, [conn |-> conn, msg |-> current]),
         UNCHANGED <<reported, conn, copy, storeTime, remembered>>
  PROVE  WireChained' /\ StoreChained'
<1> DEFINE n == Len(wire)
           line == [conn |-> conn, msg |-> current]
<1>1. /\ line \in Lines
      /\ line.conn = conn
      /\ line.msg = current
      /\ current \in Messages
      /\ conn \in Nat
  BY LineType DEF TypeOK
<1>2. /\ wire \in Seq(Lines)
      /\ n \in Nat
      /\ Len(wire') = n + 1
      /\ wire'[n + 1] = line
      /\ \A i \in 1 .. n : wire'[i] = wire[i]
  BY <1>1 DEF TypeOK
<1>3. /\ Genuine(current, reported)
      /\ Follows(current, Tip)
      /\ current.type = "afsim_delta" => Fed
  BY DEF DeliveryChain, CurrentChained, NextChained
<1>4. WireChained'
  <2>1. \A i \in 1 .. n + 1 : Genuine(wire'[i].msg, reported) /\ wire'[i].conn <= conn
    BY <1>1, <1>2, <1>3 DEF DeliveryChain, WireChained
  <2>2. \A i \in 1 .. n :
          /\ wire'[i].conn <= wire'[i + 1].conn
          /\ Follows(wire'[i + 1].msg, wire'[i].msg.time)
          /\ wire'[i + 1].msg.type = "afsim_delta" => wire'[i].conn = wire'[i + 1].conn
    <3> TAKE i \in 1 .. n
    <3>1. CASE i = n
      <4>1. wire # <<>>
        BY <1>2, <3>1
      <4>2. Tip = wire[n].msg.time /\ (Fed <=> wire[n].conn = conn)
        BY <4>1 DEF Tip, Fed
      <4>3. wire[n].conn <= conn
        BY <1>2, <3>1 DEF DeliveryChain, WireChained
      <4> QED
        BY <1>1, <1>2, <1>3, <3>1, <4>2, <4>3
    <3>2. CASE i # n
      <4>1. i \in 1 .. n - 1 /\ i + 1 \in 1 .. n
        BY <1>2, <3>2
      <4> QED
        BY <1>2, <4>1 DEF DeliveryChain, WireChained
    <3> QED
      BY <3>1, <3>2
  <2>3. Len(wire') - 1 = n
    BY <1>2
  <2> QED
    BY <1>2, <2>1, <2>2, <2>3 DEF WireChained
<1>5. StoreChained'
  <2>1. CASE wire = <<>>
    <3>1. Tip = storeTime /\ (Fed <=> copy # Nothing) /\ wire'[1] = line
      BY <1>2, <2>1 DEF Tip, Fed
    <3> QED
      BY <1>1, <1>3, <3>1 DEF DeliveryChain, StoreChained, CopyWasReported
  <2>2. CASE wire # <<>>
    <3>1. wire'[1] = wire[1]
      BY <1>2, <2>2
    <3> QED
      BY <2>2, <3>1 DEF DeliveryChain, StoreChained, CopyWasReported
  <2> QED
    BY <2>1, <2>2
<1> QED
  BY <1>4, <1>5

(* A message that is sent goes behind those on their way.                  *)
LEMMA SendSucceedsChained ==
  ASSUME TypeOK, DeliveryChain, SendSucceeds
  PROVE  DeliveryChain'
<1>1. /\ connected /\ connected'
      /\ current # Nothing
      /\ current' = Nothing
      /\ wire' = IF link THEN Append(wire, [conn |-> conn, msg |-> current]) ELSE wire
      /\ UNCHANGED <<mBaseline, reported, mPending, mResync, conn, link, copy, storeTime,
                     remembered>>
  BY DEF SendSucceeds, simVars, queueVars, storeVars
<1>2. BaselineIsLast' /\ QueueChained' /\ CurrentChained'
  BY <1>1 DEF DeliveryChain, BaselineIsLast, QueueChained, CurrentChained
<1>3. CASE ~link
  <2>1. wire' = wire /\ ~link'
    BY <1>1, <1>3
  <2>2. WireChained' /\ StoreChained'
    BY <1>1, <2>1 DEF DeliveryChain, WireChained, StoreChained, CopyWasReported
  <2>3. NextChained'
    BY <2>1 DEF NextChained
  <2> QED
    BY <1>2, <2>2, <2>3 DEF DeliveryChain
<1>4. CASE link
  <2>1. wire' = Append(wire, [conn |-> conn, msg |-> current])
    BY <1>1, <1>4
  <2>2. WireChained' /\ StoreChained'
    BY <1>1, <1>4, <2>1, WireAppend
  <2>3. Tip' = current.time /\ Fed'
    <3> DEFINE line == [conn |-> conn, msg |-> current]
    <3>1. line \in Lines /\ line.conn = conn /\ line.msg = current
      BY <1>1, LineType DEF TypeOK
    <3>2. wire' # <<>> /\ wire'[Len(wire')] = line
      BY <2>1, <3>1 DEF TypeOK
    <3> QED
      BY <1>1, <3>1, <3>2 DEF Tip, Fed
  <2>4. NextChained'
    BY <1>1, <2>3 DEF DeliveryChain, CurrentChained, NextChained
  <2> QED
    BY <1>2, <2>2, <2>4 DEF DeliveryChain
<1> QED
  BY <1>3, <1>4

(* The message that could not be sent is put back in front of the queue.   *)
LEMMA SendFailsChained ==
  ASSUME TypeOK, DeliveryChain, SendFails
  PROVE  DeliveryChain'
<1> DEFINE n == Len(mPending)
<1>1. /\ connected /\ ~connected'
      /\ current # Nothing
      /\ current' = Nothing
      /\ mPending' = <<current>> \o mPending
      /\ \/ wire' = wire
         \/ link /\ wire' = Append(wire, [conn |-> conn, msg |-> current])
      /\ UNCHANGED <<mBaseline, reported, mResync, conn, copy, storeTime, remembered>>
  BY DEF SendFails, simVars, storeVars
<1>2. BaselineIsLast' /\ CurrentChained' /\ NextChained'
  BY <1>1 DEF DeliveryChain, BaselineIsLast, CurrentChained, NextChained
<1>3. QueueChained'
  <2>1. /\ mPending \in Seq(Messages)
        /\ current \in Messages
        /\ n \in Nat
        /\ Len(mPending') = n + 1
        /\ mPending'[1] = current
        /\ \A i \in 1 .. n : mPending'[i + 1] = mPending[i]
    BY <1>1 DEF TypeOK
  <2>2. \A i \in 1 .. n + 1 : Genuine(mPending'[i], reported)
    <3> TAKE i \in 1 .. n + 1
    <3>1. CASE i = 1
      BY <1>1, <2>1, <3>1 DEF DeliveryChain, CurrentChained
    <3>2. CASE i # 1
      <4>1. i - 1 \in 1 .. n /\ (i - 1) + 1 = i
        BY <2>1, <3>2
      <4> QED
        BY <2>1, <4>1 DEF DeliveryChain, QueueChained
    <3> QED
      BY <3>1, <3>2
  <2>3. \A i \in 1 .. n : Follows(mPending'[i + 1], mPending'[i].time)
    <3> TAKE i \in 1 .. n
    <3>1. CASE i = 1
      <4>1. mPending # <<>>
        BY <2>1
      <4> QED
        BY <1>1, <2>1, <3>1, <4>1 DEF DeliveryChain, CurrentChained
    <3>2. CASE i # 1
      <4>1. /\ i - 1 \in 1 .. n - 1
            /\ i - 1 \in 1 .. n
            /\ (i - 1) + 1 = i
        BY <2>1, <3>2
      <4>2. Follows(mPending[i], mPending[i - 1].time)
        BY <4>1 DEF DeliveryChain, QueueChained
      <4> QED
        BY <2>1, <4>1, <4>2
    <3> QED
      BY <3>1, <3>2
  <2>4. mPending'[n + 1].time = Len(reported)
    <3>1. CASE n = 0
      <4>1. mPending = <<>>
        BY <2>1, <3>1
      <4> QED
        BY <1>1, <2>1, <3>1, <4>1 DEF DeliveryChain, CurrentChained
    <3>2. CASE n # 0
      <4>1. n \in 1 .. n /\ mPending # <<>>
        BY <2>1, <3>2
      <4> QED
        BY <2>1, <4>1 DEF DeliveryChain, QueueChained
    <3> QED
      BY <3>1, <3>2
  <2>5. Len(mPending') - 1 = n
    BY <2>1
  <2> QED
    BY <1>1, <2>1, <2>2, <2>3, <2>4, <2>5 DEF QueueChained
<1>4. WireChained' /\ StoreChained'
  <2>1. CASE wire' = wire
    BY <1>1, <2>1 DEF DeliveryChain, WireChained, StoreChained, CopyWasReported
  <2>2. CASE link /\ wire' = Append(wire, [conn |-> conn, msg |-> current])
    BY <1>1, <2>2, WireAppend
  <2> QED
    BY <1>1, <2>1, <2>2
<1> QED
  BY <1>2, <1>3, <1>4 DEF DeliveryChain

(* Losing the last line of a broken connection leaves the chain: what      *)
(* follows it is the full state that opens a later connection.             *)
LEMMA LoseTailChained ==
  ASSUME TypeOK, DeliveryChain, LoseTail
  PROVE  DeliveryChain'
<1> DEFINE n == Len(wire)
<1>1. PICK i \in 1 .. n : /\ wire[i].conn # conn \/ ~link
                          /\ \A j \in (i + 1) .. n : wire[j].conn # wire[i].conn
                          /\ wire' = DropAt(wire, i)
  BY DEF LoseTail
<1>2. UNCHANGED <<mBaseline, reported, mPending, mResync, connected, current, conn, link,
                  copy, storeTime, remembered>>
  BY DEF LoseTail, simVars, queueVars, threadVars, storeVars
<1>3. /\ wire \in Seq(Lines)
      /\ n \in Nat
      /\ Len(wire') = n - 1
      /\ \A j \in 1 .. n - 1 : wire'[j] = IF j < i THEN wire[j] ELSE wire[j + 1]
  <2>1. wire \in Seq(Lines) /\ n \in Nat
    BY DEF TypeOK
  <2>2. /\ Len(DropAt(wire, i)) = n - 1
        /\ \A j \in 1 .. n - 1 :
             DropAt(wire, i)[j] = IF j < i THEN wire[j] ELSE wire[j + 1]
    BY <2>1, DropAtFacts
  <2> QED
    BY <1>1, <2>1, <2>2
<1>4. \A j \in 1 .. n : /\ wire[j].conn \in Nat
                        /\ wire[j].msg \in Messages
                        /\ wire[j].msg.time \in Nat
                        /\ wire[j].msg.type \in {"afsim_init", "afsim_delta"}
  BY <1>3, LineType, MessageFacts
<1>5. \A j \in 1 .. n - 1 : wire[j].msg.time <= wire[j + 1].msg.time
  <2> TAKE j \in 1 .. n - 1
  <2>1. j \in 1 .. n /\ j + 1 \in 1 .. n
    BY <1>3
  <2>2. Follows(wire[j + 1].msg, wire[j].msg.time)
    BY DEF DeliveryChain, WireChained
  <2> QED
    BY <1>4, <2>1, <2>2 DEF Follows
<1>6. i < n => /\ wire[i + 1].msg.type = "afsim_init"
               /\ wire[i + 1].msg.time >= wire[i].msg.time
               /\ wire[i].conn <= wire[i + 1].conn
  <2> SUFFICES ASSUME i < n PROVE /\ wire[i + 1].msg.type = "afsim_init"
                                  /\ wire[i + 1].msg.time >= wire[i].msg.time
                                  /\ wire[i].conn <= wire[i + 1].conn
    OBVIOUS
  <2>1. i \in 1 .. n - 1 /\ i + 1 \in (i + 1) .. n /\ i + 1 \in 1 .. n
    BY <1>3
  <2>2. wire[i + 1].conn # wire[i].conn
    BY <1>1, <2>1
  <2>3. /\ wire[i + 1].msg.type = "afsim_delta" => wire[i].conn = wire[i + 1].conn
        /\ wire[i].conn <= wire[i + 1].conn
    BY <2>1 DEF DeliveryChain, WireChained
  <2> QED
    BY <1>4, <1>5, <2>1, <2>2, <2>3
<1>7. BaselineIsLast' /\ QueueChained' /\ CurrentChained'
  BY <1>2 DEF DeliveryChain, BaselineIsLast, QueueChained, CurrentChained
<1>8. WireChained'
  <2>1. \A j \in 1 .. n - 1 : Genuine(wire'[j].msg, reported) /\ wire'[j].conn <= conn
    <3> TAKE j \in 1 .. n - 1
    <3>1. j \in 1 .. n /\ j + 1 \in 1 .. n
      BY <1>3
    <3> QED
      BY <1>3, <3>1 DEF DeliveryChain, WireChained
  <2>2. \A j \in 1 .. n - 2 :
          /\ wire'[j].conn <= wire'[j + 1].conn
          /\ Follows(wire'[j + 1].msg, wire'[j].msg.time)
          /\ wire'[j + 1].msg.type = "afsim_delta" => wire'[j].conn = wire'[j + 1].conn
    <3> TAKE j \in 1 .. n - 2
    <3>1. /\ j \in 1 .. n - 1
          /\ j + 1 \in 1 .. n - 1
          /\ (j + 1) + 1 \in 1 .. n
          /\ j \in 1 .. n
      BY <1>3
    <3>2. /\ wire'[j] = IF j < i THEN wire[j] ELSE wire[j + 1]
          /\ wire'[j + 1] = IF j + 1 < i THEN wire[j + 1] ELSE wire[(j + 1) + 1]
      BY <1>3, <3>1
    <3>3. CASE j + 1 < i
      BY <3>1, <3>2, <3>3 DEF DeliveryChain, WireChained
    <3>4. CASE j >= i
      BY <3>1, <3>2, <3>4 DEF DeliveryChain, WireChained
    <3>5. CASE j + 1 = i
      <4>1. wire'[j] = wire[j] /\ wire'[j + 1] = wire[i + 1] /\ i < n
        BY <3>1, <3>2, <3>5
      <4>2. wire[j].msg.time <= wire[i].msg.time
        BY <1>5, <3>1, <3>5
      <4>3. wire[j].conn <= wire[i].conn
        BY <3>1, <3>5 DEF DeliveryChain, WireChained
      <4> QED
        BY <1>4, <1>6, <3>1, <3>5, <4>1, <4>2, <4>3 DEF Follows
    <3> QED
      BY <3>1, <3>3, <3>4, <3>5
  <2>3. Len(wire') - 1 = n - 2
    BY <1>3
  <2> QED
    BY <1>2, <1>3, <2>1, <2>2, <2>3 DEF WireChained
<1>9. storeTime <= wire[1].msg.time
  <2>1. wire # <<>> /\ 1 \in 1 .. n
    BY <1>1, <1>3
  <2>2. Follows(wire[1].msg, storeTime)
    BY <2>1 DEF DeliveryChain, StoreChained
  <2> QED
    BY <1>4, <2>1, <2>2 DEF Follows, TypeOK
<1>10. StoreChained'
  <2>1. CASE n = 1
    <3>1. wire' = <<>>
      BY <1>3, <2>1
    <3> QED
      BY <1>2, <3>1 DEF DeliveryChain, StoreChained, CopyWasReported
  <2>2. CASE n > 1 /\ i > 1
    <3>1. wire # <<>> /\ wire'[1] = wire[1]
      BY <1>3, <2>2
    <3> QED
      BY <1>2, <3>1 DEF DeliveryChain, StoreChained, CopyWasReported
  <2>3. CASE n > 1 /\ i = 1
    <3>1. wire'[1] = wire[2] /\ 1 \in 1 .. n /\ 2 \in 1 .. n
      BY <1>3, <2>3
    <3>2. /\ wire[2].msg.type = "afsim_init"
          /\ wire[2].msg.time >= storeTime
      BY <1>4, <1>6, <1>9, <2>3, <3>1 DEF TypeOK
    <3> QED
      BY <1>2, <3>1, <3>2 DEF DeliveryChain, StoreChained, CopyWasReported, Follows
  <2> QED
    BY <1>3, <2>1, <2>2, <2>3
<1>11. NextChained'
  <2> SUFFICES ASSUME connected, link PROVE NextChained'
    BY <1>2 DEF NextChained
  <2>1. CASE i < n
    <3>1. wire # <<>> /\ wire' # <<>> /\ wire'[Len(wire')] = wire[n]
      BY <1>3, <2>1
    <3>2. Tip' = Tip /\ Fed' = Fed
      BY <1>2, <3>1 DEF Tip, Fed
    <3> QED
      BY <1>2, <3>2 DEF DeliveryChain, NextChained
  <2>2. CASE i = n
    <3>1. wire # <<>> /\ n \in 1 .. n /\ wire[n].conn # conn
      BY <1>1, <1>3, <2>2
    <3>2. ~Fed /\ Tip = wire[n].msg.time
      BY <3>1 DEF Tip, Fed
    <3>3. Genuine(wire[n].msg, reported)
      BY <3>1 DEF DeliveryChain, WireChained
    <3>4. reported # <<>>
      BY <3>3 DEF Genuine, TypeOK
    <3> DEFINE m == IF current # Nothing THEN current ELSE mPending[1]
    <3>5. /\ ~(current = Nothing /\ mPending = <<>>)
          /\ Follows(m, Tip)
          /\ m.type # "afsim_delta"
      BY <3>2, <3>4 DEF DeliveryChain, NextChained
    <3>6. m \in Messages
      BY <3>5 DEF TypeOK
    <3>7. m.type = "afsim_init" /\ m.time \in Nat /\ m.time >= Tip
      BY <3>5, <3>6, MessageFacts DEF Follows
    <3>8. Tip' \in Nat /\ Tip' <= Tip
      <4>1. CASE n = 1
        <5>1. wire' = <<>>
          BY <1>3, <4>1
        <5> QED
          BY <1>2, <1>9, <3>2, <4>1, <5>1 DEF Tip, TypeOK
      <4>2. CASE n > 1
        <5>1. wire' # <<>> /\ wire'[Len(wire')] = wire[n - 1] /\ n - 1 \in 1 .. n - 1
          BY <1>3, <2>2, <4>2
        <5> QED
          BY <1>3, <1>4, <1>5, <3>2, <5>1 DEF Tip
      <4> QED
        BY <1>3, <4>1, <4>2
    <3>9. m.time >= Tip'
      BY <1>4, <3>1, <3>2, <3>7, <3>8
    <3> QED
      BY <1>2, <3>5, <3>7, <3>9 DEF NextChained, Follows
  <2> QED
    BY <1>3, <2>1, <2>2
<1> QED
  BY <1>7, <1>8, <1>10, <1>11 DEF DeliveryChain

(* Assumed of the environment: a connection's lines are read or lost       *)
(* before those of its successor, and every state AFSIM reports has its    *)
(* references.                                                             *)
Orderly == ~Lingering /\ \A w \in Worlds : ValidReferences(w)

(* Reading the first line of the chain leaves the store in the state of    *)
(* that line's report, whether the line is new or already remembered.      *)
LEMMA ReadFirst ==
  ASSUME Orderly, TypeOK, DeliveryChain, wire # <<>>, Process(wire[1].msg)
  PROVE  /\ copy' # Nothing
         /\ storeTime' = wire[1].msg.time
         /\ storeTime' \in 1 .. Len(reported)
         /\ storeTime' >= storeTime
         /\ copy' = reported[storeTime']
         /\ \A id \in remembered' : id[2] <= storeTime'
         /\ storeTime' = storeTime => copy # Nothing /\ copy' = copy
<1> DEFINE m == wire[1].msg
<1>1. /\ m \in Messages
      /\ m.time \in Nat
      /\ m.type \in {"afsim_init", "afsim_delta"}
  BY LineType, MessageFacts DEF TypeOK
<1>2. /\ Genuine(m, reported)
      /\ Follows(m, storeTime)
      /\ m.type = "afsim_delta" => copy # Nothing
  BY DEF DeliveryChain, WireChained, StoreChained, TypeOK
<1>3. /\ m.time \in 1 .. Len(reported)
      /\ m.time >= storeTime
      /\ storeTime \in Nat
      /\ reported \in Seq(Worlds)
      /\ Len(reported) \in Nat
  BY <1>1, <1>2 DEF Genuine, Follows, TypeOK
<1>4. /\ copy # Nothing => /\ storeTime \in 1 .. Len(reported)
                           /\ copy = reported[storeTime]
      /\ copy = Nothing => storeTime = 0
      /\ \A id \in remembered : id[2] <= storeTime
  BY DEF DeliveryChain, StoreChained, CopyWasReported
<1>5. \A k \in 1 .. Len(reported) : /\ reported[k] \in State
                                    /\ ValidReferences(reported[k])
  BY <1>3, SyncConstants DEF Orderly
<1>6. CASE RequestId(m) \in remembered
  <2>1. m.time <= storeTime
    BY <1>4, <1>6 DEF RequestId
  <2>2. m.time = storeTime /\ copy # Nothing
    BY <1>1, <1>3, <1>4, <2>1
  <2>3. UNCHANGED <<copy, storeTime, remembered>>
    BY <1>6 DEF Process, Accepts, storeVars
  <2> QED
    BY <1>3, <1>4, <2>2, <2>3
<1>7. CASE RequestId(m) \notin remembered
  <2> DEFINE next == IF m.type = "afsim_init" THEN m.body ELSE ApplyDelta(copy, m.body)
  <2>1. next = reported[m.time]
    <3>1. CASE m.type = "afsim_init"
      BY <1>2, <3>1 DEF Genuine
    <3>2. CASE m.type = "afsim_delta"
      <4>1. /\ storeTime \in 1 .. Len(reported)
            /\ copy = reported[storeTime]
            /\ m.time = storeTime + 1
            /\ m.body = Update(reported[m.time - 1], reported[m.time])
        BY <1>2, <1>4, <3>2 DEF Genuine, Follows
      <4>2. m.body = Update(copy, reported[m.time])
        BY <1>3, <4>1
      <4>3. copy \in State /\ reported[m.time] \in State
        BY <1>3, <1>5, <4>1
      <4> QED
        BY <3>2, <4>2, <4>3, DeltaRoundTrip
    <3> QED
      BY <1>1, <3>1, <3>2
  <2>2. Accepts(m)
    BY <1>1, <1>2, <1>3, <1>5, <1>7, <2>1 DEF Accepts
  <2>3. /\ copy' = next
        /\ storeTime' = m.time
        /\ remembered' = remembered \cup {RequestId(m)}
    BY <2>2 DEF Process
  <2>4. \A id \in remembered' : id[2] <= m.time
    <3> TAKE id \in remembered'
    <3>1. CASE id \in remembered
      <4>1. id[2] \in Nat
        BY <3>1 DEF TypeOK, RequestIds
      <4> QED
        BY <1>3, <1>4, <3>1, <4>1
    <3>2. CASE id = RequestId(m)
      BY <1>1, <3>2 DEF RequestId
    <3> QED
      BY <2>3, <3>1, <3>2
  <2>5. copy' # Nothing
    BY <1>3, <1>5, <2>1, <2>3, SyncConstants
  <2>6. m.time = storeTime => copy # Nothing /\ reported[m.time] = copy
    BY <1>3, <1>4
  <2> QED
    BY <1>3, <2>1, <2>3, <2>4, <2>5, <2>6
<1> QED
  BY <1>6, <1>7

(* The service reads the first message on its way: with one reader there   *)
(* is no other.                                                            *)
LEMMA ReadLineChained ==
  ASSUME Orderly, TypeOK, DeliveryChain, ReadLine
  PROVE  DeliveryChain'
<1> DEFINE n == Len(wire)
<1>1. /\ 1 \in 1 .. n
      /\ Process(wire[1].msg)
      /\ wire' = DropAt(wire, 1)
      /\ UNCHANGED <<mBaseline, reported, mPending, mResync, connected, current, conn,
                     link>>
  BY DEF ReadLine, Orderly, simVars, queueVars, threadVars
<1>2. /\ wire \in Seq(Lines)
      /\ n \in Nat
      /\ wire # <<>>
      /\ Len(wire') = n - 1
      /\ \A j \in 1 .. n - 1 : wire'[j] = wire[j + 1]
  <2>1. wire \in Seq(Lines) /\ n \in Nat /\ wire # <<>>
    BY <1>1 DEF TypeOK
  <2>2. /\ Len(DropAt(wire, 1)) = n - 1
        /\ \A j \in 1 .. n - 1 :
             DropAt(wire, 1)[j] = IF j < 1 THEN wire[j] ELSE wire[j + 1]
    BY <1>1, <2>1, DropAtFacts
  <2> QED
    BY <1>1, <2>1, <2>2
<1>3. /\ copy' # Nothing
      /\ storeTime' = wire[1].msg.time
      /\ storeTime' \in 1 .. Len(reported)
      /\ copy' = reported[storeTime']
      /\ \A id \in remembered' : id[2] <= storeTime'
  BY <1>1, <1>2, ReadFirst
<1>4. BaselineIsLast' /\ QueueChained' /\ CurrentChained'
  BY <1>1 DEF DeliveryChain, BaselineIsLast, QueueChained, CurrentChained
<1>5. WireChained'
  <2>1. \A j \in 1 .. n - 1 : Genuine(wire'[j].msg, reported) /\ wire'[j].conn <= conn
    <3> TAKE j \in 1 .. n - 1
    <3>1. j + 1 \in 1 .. n
      BY <1>2
    <3> QED
      BY <1>2, <3>1 DEF DeliveryChain, WireChained
  <2>2. \A j \in 1 .. n - 2 :
          /\ wire'[j].conn <= wire'[j + 1].conn
          /\ Follows(wire'[j + 1].msg, wire'[j].msg.time)
          /\ wire'[j + 1].msg.type = "afsim_delta" => wire'[j].conn = wire'[j + 1].conn
    <3> TAKE j \in 1 .. n - 2
    <3>1. j \in 1 .. n - 1 /\ j + 1 \in 1 .. n - 1
      BY <1>2
    <3> QED
      BY <1>2, <3>1 DEF DeliveryChain, WireChained
  <2>3. Len(wire') - 1 = n - 2
    BY <1>2
  <2> QED
    BY <1>1, <1>2, <2>1, <2>2, <2>3 DEF WireChained
<1>6. StoreChained'
  <2>1. CopyWasReported'
    BY <1>1, <1>3 DEF CopyWasReported
  <2>2. wire' # <<>> => Follows(wire'[1].msg, storeTime')
    <3> SUFFICES ASSUME wire' # <<>> PROVE Follows(wire'[1].msg, storeTime')
      OBVIOUS
    <3>1. wire' \in Seq(Lines)
      BY <1>1, <1>2, DropAtFacts
    <3>2. Len(wire') # 0
      BY <3>1
    <3>3. 1 \in 1 .. n - 1
      BY <1>2, <3>2
    <3> QED
      BY <1>2, <1>3, <3>3 DEF DeliveryChain, WireChained
  <2> QED
    BY <1>3, <2>1, <2>2 DEF StoreChained
<1>7. Tip' = Tip /\ (Fed => Fed')
  <2>1. CASE n = 1
    <3>1. wire' = <<>>
      <4>1. wire' \in Seq(Lines) /\ Len(wire') = 0
        BY <1>1, <1>2, <2>1, DropAtFacts
      <4> QED
        BY <4>1
    <3> QED
      BY <1>2, <1>3, <2>1, <3>1 DEF Tip, Fed
  <2>2. CASE n > 1
    <3>1. wire' # <<>> /\ wire'[Len(wire')] = wire[n]
      BY <1>2, <2>2
    <3> QED
      BY <1>1, <1>2, <3>1 DEF Tip, Fed
  <2> QED
    BY <1>1, <1>2, <2>1, <2>2
<1>8. NextChained'
  BY <1>1, <1>7 DEF DeliveryChain, NextChained
<1> QED
  BY <1>4, <1>5, <1>6, <1>8 DEF DeliveryChain

(* Steps that leave the chain as it is, or cut it off.                     *)
LEMMA OtherChained ==
  ASSUME TypeOK, DeliveryChain,
         Stop \/ Hangup \/ LinkBreaks \/ ServiceRestarts \/ UNCHANGED vars
  PROVE  DeliveryChain'
<1>1. CASE Stop \/ UNCHANGED vars
  <2>1. UNCHANGED <<mBaseline, reported, mPending, mResync, connected, current, conn, link,
                    wire, copy, storeTime, remembered>>
    BY <1>1 DEF Stop, vars, simVars, queueVars, threadVars, netVars, storeVars
  <2> QED
    BY <2>1 DEF DeliveryChain, BaselineIsLast, QueueChained, CurrentChained, WireChained,
         StoreChained, CopyWasReported, NextChained, Tip, Fed
<1>2. CASE Hangup \/ LinkBreaks
  <2>1. /\ ~link'
        /\ ~connected' => current' = Nothing
        /\ UNCHANGED <<mBaseline, reported, mPending, mResync, current, conn,
                       wire, copy, storeTime, remembered>>
    BY <1>2 DEF Hangup, LinkBreaks, simVars, queueVars, threadVars, storeVars,
         DeliveryChain, CurrentChained
  <2> QED
    BY <2>1 DEF DeliveryChain, BaselineIsLast, QueueChained, CurrentChained, WireChained,
         StoreChained, CopyWasReported, NextChained
<1>3. CASE ServiceRestarts
  <2>1. /\ ~link' /\ wire' = <<>> /\ copy' = Nothing /\ storeTime' = 0
        /\ UNCHANGED <<mBaseline, reported, mPending, mResync, connected, current, conn>>
    BY <1>3 DEF ServiceRestarts, simVars, queueVars, threadVars
  <2>2. \A id \in remembered' : id[2] <= storeTime'
    BY <1>3 DEF ServiceRestarts
  <2>3. BaselineIsLast' /\ QueueChained' /\ CurrentChained' /\ NextChained'
    BY <2>1 DEF DeliveryChain, BaselineIsLast, QueueChained, CurrentChained, NextChained
  <2>4. WireChained' /\ StoreChained'
    BY <2>1, <2>2 DEF WireChained, StoreChained, CopyWasReported
  <2> QED
    BY <2>3, <2>4 DEF DeliveryChain
<1> QED
  BY <1>1, <1>2, <1>3

(* The inductive invariant: store, wire, message being sent and queue are  *)
(* one chain of reports, through every interleaving of ticks, overflows,   *)
(* reconnects, losses and restarts.                                        *)
THEOREM ChainInvariant == ASSUME Orderly PROVE Spec => [](TypeOK /\ DeliveryChain)
<1>1. Init => DeliveryChain
  <2> SUFFICES ASSUME Init PROVE DeliveryChain
    OBVIOUS
  <2>1. /\ mBaseline = Nothing /\ reported = <<>> /\ mPending = <<>> /\ mResync = Nothing
        /\ ~connected /\ current = Nothing /\ wire = <<>> /\ copy = Nothing
        /\ storeTime = 0
    BY DEF Init
  <2>2. \A id \in remembered : id[2] <= storeTime
    BY DEF Init
  <2>3. BaselineIsLast /\ QueueChained /\ CurrentChained /\ NextChained
    BY <2>1 DEF BaselineIsLast, QueueChained, CurrentChained, NextChained
  <2>4. WireChained /\ StoreChained
    BY <2>1, <2>2 DEF WireChained, StoreChained, CopyWasReported
  <2> QED
    BY <2>3, <2>4 DEF DeliveryChain
<1>2. TypeOK /\ DeliveryChain /\ [Next]_vars => DeliveryChain'
  <2> SUFFICES ASSUME TypeOK, DeliveryChain, [Next]_vars PROVE DeliveryChain'
    OBVIOUS
  <2>1. ASSUME NEW w \in Worlds, SubmitCurrentState(w) PROVE DeliveryChain'
    BY <2>1, SubmitChained
  <2>2. CASE Connect
    BY <2>2, ConnectChained
  <2>3. CASE TakePending
    BY <2>3, TakeChained
  <2>4. CASE SendSucceeds
    BY <2>4, SendSucceedsChained
  <2>5. CASE SendFails
    BY <2>5, SendFailsChained
  <2>6. CASE LoseTail
    BY <2>6, LoseTailChained
  <2>7. CASE ReadLine
    BY <2>7, ReadLineChained
  <2>8. CASE Stop \/ Hangup \/ LinkBreaks \/ ServiceRestarts \/ UNCHANGED vars
    BY <2>8, OtherChained
  <2> QED
    BY <2>1, <2>2, <2>3, <2>4, <2>5, <2>6, <2>7, <2>8 DEF Next
<1> QED
  BY <1>1, <1>2, TypeCorrect, PTL DEF Spec

(* The service's copy is always, whole, the state AFSIM reported at the    *)
(* copy's timestamp: StateStore.apply_delta never merges a delta into      *)
(* another state than the tracker's old baseline.                          *)
THEOREM CopyIsAlwaysReported == ASSUME Orderly PROVE Spec => []CopyWasReported
<1>1. DeliveryChain => CopyWasReported
  BY DEF DeliveryChain, StoreChained
<1> QED
  BY <1>1, ChainInvariant, PTL

(* The reconnect recovery of TcpJsonlClient is lossless: a connection that *)
(* is up and has nothing in flight has brought the service to the          *)
(* tracker's baseline.                                                     *)
THEOREM RecoveryIsLossless == ASSUME Orderly PROVE Spec => []SyncedWhenDrained
<1>1. TypeOK /\ DeliveryChain => SyncedWhenDrained
  <2> SUFFICES ASSUME TypeOK, DeliveryChain, Drained PROVE copy = mBaseline
    BY DEF SyncedWhenDrained
  <2>1. CASE reported = <<>>
    BY <2>1 DEF DeliveryChain, BaselineIsLast, StoreChained, CopyWasReported
  <2>2. CASE reported # <<>>
    <3>1. Tip = Len(reported) /\ Fed
      BY <2>2 DEF DeliveryChain, NextChained, Drained
    <3>2. storeTime = Len(reported) /\ copy # Nothing
      BY <3>1 DEF Drained, Tip, Fed
    <3> QED
      BY <2>2, <3>2 DEF DeliveryChain, BaselineIsLast, StoreChained, CopyWasReported
  <2> QED
    BY <2>1, <2>2
<1> QED
  BY <1>1, ChainInvariant, PTL

QueueInv == QueueBounded /\ (connected => Len(mPending) <= MaxPending)

(* The queue of TcpJsonlClient is bounded by its limit plus the message    *)
(* put back by a failed send, whatever the network does.                   *)
THEOREM QueueIsBounded == Spec => []QueueBounded
<1> USE SyncConstants
<1>1. Init => QueueInv
  BY DEF Init, QueueInv, QueueBounded
<1>2. TypeOK /\ QueueInv /\ [Next]_vars => QueueInv'
  <2> SUFFICES ASSUME TypeOK, QueueInv, [Next]_vars PROVE QueueInv'
    OBVIOUS
  <2>1. mPending \in Seq(Messages) /\ Len(mPending) \in Nat
    BY DEF TypeOK
  <2>2. ASSUME NEW w \in Worlds, SubmitCurrentState(w) PROVE QueueInv'
    <3>1. connected' = connected
      BY <2>2 DEF SubmitCurrentState, threadVars
    <3>2. Len(mPending') <= MaxPending
      <4>1. CASE SubmitInitial(w)
        BY <4>1 DEF SubmitInitial
      <4>2. CASE mBaseline # Nothing /\ SubmitDelta(w, Update(mBaseline, w))
        <5> DEFINE d == DeltaMsg(Len(reported) + 1, Update(mBaseline, w))
        <5>1. CASE Len(mPending) >= MaxPending
          BY <4>2, <5>1 DEF SubmitDelta
        <5>2. CASE ~(Len(mPending) >= MaxPending)
          <6>1. d \in Messages
            BY <4>2, UpdateType, DeltaMsgType DEF TypeOK
          <6>2. mPending' = Append(mPending, d)
            BY <4>2, <5>2 DEF SubmitDelta
          <6>3. Len(mPending') = Len(mPending) + 1
            BY <2>1, <6>1, <6>2
          <6> QED
            BY <2>1, <5>2, <6>3
        <5> QED
          BY <5>1, <5>2
      <4> QED
        BY <2>2, <4>1, <4>2 DEF SubmitCurrentState
    <3>3. Len(mPending') \in Nat
      BY <2>2, TypeStep DEF TypeOK, Next
    <3> QED
      BY <3>1, <3>2, <3>3 DEF QueueInv, QueueBounded
  <2>3. CASE Connect
    BY <2>3 DEF Connect, QueueInv, QueueBounded
  <2>4. CASE TakePending
    BY <2>1, <2>4 DEF TakePending, QueueInv, QueueBounded
  <2>5. CASE SendFails
    <3>1. Len(mPending') = Len(mPending) + 1 /\ ~connected' /\ connected
      BY <2>1, <2>5 DEF SendFails, TypeOK
    <3> QED
      BY <2>1, <3>1 DEF QueueInv, QueueBounded
  <2>6. CASE \/ Stop \/ SendSucceeds \/ Hangup \/ LinkBreaks \/ LoseTail \/ ReadLine
             \/ ServiceRestarts \/ UNCHANGED vars
    <3>1. mPending' = mPending /\ (connected' => connected)
      BY <2>6 DEF Stop, SendSucceeds, Hangup, LinkBreaks, LoseTail, ReadLine,
           ServiceRestarts, vars, queueVars, threadVars
    <3> QED
      BY <3>1 DEF QueueInv, QueueBounded
  <2> QED
    BY <2>2, <2>3, <2>4, <2>5, <2>6 DEF Next
<1>3. QueueInv => QueueBounded
  BY DEF QueueInv
<1> QED
  BY <1>1, <1>2, <1>3, TypeCorrect, PTL DEF Spec

(* Every step of the protocol is a step of the abstract replica: the copy  *)
(* jumps to a later report, is forgotten by a restart, or stays.           *)
THEOREM RefinesReplica == ASSUME Orderly PROVE Spec => ImplementsReplica
<1> USE DEF Replica!AbsInit, Replica!AbsNext, Replica!absVars, Replica!Report,
            Replica!CatchUp, Replica!Forget
<1>1. Init => Replica!AbsInit
  BY DEF Init
<1>2. TypeOK /\ DeliveryChain /\ [Next]_vars => [Replica!AbsNext]_(Replica!absVars)
  <2> SUFFICES ASSUME TypeOK, DeliveryChain, [Next]_vars
               PROVE  [Replica!AbsNext]_(Replica!absVars)
    OBVIOUS
  <2>1. ASSUME NEW w \in Worlds, SubmitCurrentState(w) PROVE Replica!Report
    BY <2>1 DEF SubmitCurrentState, SubmitInitial, SubmitDelta, storeVars
  <2>2. CASE ReadLine
    <3>1. /\ Process(wire[1].msg)
          /\ wire # <<>>
          /\ UNCHANGED reported
      BY <2>2 DEF ReadLine, Orderly, simVars, TypeOK
    <3>2. /\ storeTime' \in 1 .. Len(reported)
          /\ storeTime' >= storeTime
          /\ copy' = reported[storeTime']
          /\ storeTime' = storeTime => copy' = copy
      BY <3>1, ReadFirst
    <3>3. storeTime \in Nat /\ Len(reported) \in Nat
      BY DEF TypeOK
    <3>4. CASE storeTime' = storeTime
      BY <3>1, <3>2, <3>4
    <3>5. CASE storeTime' # storeTime
      <4>1. storeTime' \in (storeTime + 1) .. Len(reported)
        BY <3>2, <3>3, <3>5
      <4> QED
        BY <3>1, <3>2, <4>1
    <3> QED
      BY <3>4, <3>5
  <2>3. CASE ServiceRestarts
    BY <2>3 DEF ServiceRestarts, simVars
  <2>4. CASE \/ Stop \/ Connect \/ TakePending \/ SendSucceeds \/ SendFails \/ Hangup
             \/ LinkBreaks \/ LoseTail \/ UNCHANGED vars
    <3>1. UNCHANGED <<reported, storeTime, copy>>
      BY <2>4 DEF Stop, Connect, TakePending, SendSucceeds, SendFails, Hangup, LinkBreaks,
           LoseTail, vars, simVars, storeVars
    <3> QED
      BY <3>1
  <2> QED
    BY <2>1, <2>2, <2>3, <2>4 DEF Next
<1> QED
  BY <1>1, <1>2, ChainInvariant, PTL DEF Spec, ImplementsReplica, Replica!AbsSpec

=============================================================================
