---------------------------- MODULE StateDelta ----------------------------
(***************************************************************************)
(* The state that AFSIM reports and the two algorithms that carry it over  *)
(* the wire as increments: StateDeltaTracker.cpp computes the delta on the *)
(* AFSIM side, state.py merges it into the service's copy.                 *)
(*                                                                         *)
(* A state maps the identifiers of the entities and of the flows that      *)
(* exist to their contents.  A content is a function from field names to   *)
(* values; a nested object (position, velocity) is represented by its leaf *)
(* fields, so that the nested dictionary merge of state.py is the same     *)
(* override as the flat one.                                               *)
(***************************************************************************)

CONSTANTS
  EntityIds,     \* identifiers of platforms
  FlowIds,       \* identifiers of observed message flows
  EntityFields,  \* the leaf fields WriteEntity puts in every entity
  FlowFields,    \* the fields WriteFlow puts in every flow
  EntityStates,  \* the contents an entity can have
  FlowConfigs,   \* the contents a flow can have
  PeersOf(_),    \* entities an entity names: parent, device and policy peers
  EndsOf(_)      \* entities a flow names: source and target

(* WriteEntity and WriteFlow write every field of the structure, always.   *)
ASSUME ContentsAreTotal ==
  /\ \A e \in EntityStates : e = [f \in EntityFields |-> e[f]]
  /\ \A w \in FlowConfigs : w = [f \in FlowFields |-> w[f]]

-----------------------------------------------------------------------------

(* A map with some of the keys in S, as std::map and dict are.             *)
PartialMap(S, T) == UNION {[D -> T] : D \in SUBSET S}

State == [entities : PartialMap(EntityIds, EntityStates),
          flows    : PartialMap(FlowIds, FlowConfigs)]

(* The overloads of Same compare field by field, all fields.               *)
Same(left, right) == left = right

(* A key is sent when it is new or its content is not the Same.            *)
Upserts(old, new) ==
  [id \in {i \in DOMAIN new : i \notin DOMAIN old \/ ~Same(old[i], new[i])} |-> new[id]]

Removals(old, new) == DOMAIN old \ DOMAIN new

(* StateDeltaTracker::Update (the baseline it stores is its argument new). *)
Update(old, new) ==
  [entityUpserts  |-> Upserts(old.entities, new.entities),
   entityRemovals |-> Removals(old.entities, new.entities),
   flowUpserts    |-> Upserts(old.flows, new.flows),
   flowRemovals   |-> Removals(old.flows, new.flows)]

Empty(delta) ==
  /\ DOMAIN delta.entityUpserts = {}
  /\ delta.entityRemovals = {}
  /\ DOMAIN delta.flowUpserts = {}
  /\ delta.flowRemovals = {}

Deltas == [entityUpserts  : PartialMap(EntityIds, EntityStates),
           entityRemovals : SUBSET EntityIds,
           flowUpserts    : PartialMap(FlowIds, FlowConfigs),
           flowRemovals   : SUBSET FlowIds]

-----------------------------------------------------------------------------

(* {**current, **update}: the update's fields win, the others are kept.    *)
MergeFields(current, update) ==
  [f \in DOMAIN current \cup DOMAIN update |->
     IF f \in DOMAIN update THEN update[f] ELSE current[f]]

(* Removals first, then each upsert merged into what is left.              *)
Patch(current, removals, upserts) ==
  LET kept == DOMAIN current \ removals
  IN  [id \in kept \cup DOMAIN upserts |->
         IF id \notin DOMAIN upserts THEN current[id]
         ELSE IF id \in kept THEN MergeFields(current[id], upserts[id])
         ELSE upserts[id]]

(* The copy of the state that StateStore.apply_delta builds.               *)
ApplyDelta(s, delta) ==
  [entities |-> Patch(s.entities, delta.entityRemovals, delta.entityUpserts),
   flows    |-> Patch(s.flows, delta.flowRemovals, delta.flowUpserts)]

(* StateStore._validate_references.                                        *)
ValidReferences(s) ==
  /\ \A id \in DOMAIN s.entities : PeersOf(s.entities[id]) \subseteq DOMAIN s.entities
  /\ \A id \in DOMAIN s.flows : EndsOf(s.flows[id]) \subseteq DOMAIN s.entities

=============================================================================
