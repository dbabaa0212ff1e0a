------------------------------ MODULE Scenario ------------------------------
(***************************************************************************)
(* What a calculation says about a snapshot: how engine.py turns it into   *)
(* nodes, links and flows, what the runner makes of them, and how the      *)
(* service and AFSIM read the result.                                      *)
(*                                                                         *)
(* A snapshot is [entities, flows, throws].  An entity is [id, alive, odd, *)
(* devices, policies], a device [peer, up, total, odd], a policy [peer,    *)
(* tolerates, violation], a flow [source, target, active, odd].  odd says  *)
(* that a number of the record is one that the runner cannot parse         *)
(* (nothing keeps it below 2^32, or above the least double), throws that   *)
(* ns-3 throws during the calculation, total that the configured loss rate *)
(* is one.  What the packets of a flow met is one of Qualities, which      *)
(* stands for latency, loss and throughput; "lost" is the one of a flow of *)
(* which no packet arrives.                                                *)
(***************************************************************************)
EXTENDS Naturals, Sequences, SequencesExt

CONSTANT Qualities

ASSUME QualityConstants == "lost" \in Qualities

-----------------------------------------------------------------------------
(* The snapshots of state.py.                                              *)

Ids(s) == {s.entities[i].id : i \in 1 .. Len(s.entities)}

(* StateStore.snapshot: entities with identifiers of their own, and only   *)
(* references that _validate_references lets pass.                         *)
IsSnapshot(s) ==
  /\ s.throws \in BOOLEAN
  /\ s.entities \in
       Seq([id : Ids(s), alive : BOOLEAN, odd : BOOLEAN,
            devices : Seq([peer : Ids(s), up : BOOLEAN, total : BOOLEAN, odd : BOOLEAN]),
            policies : Seq([peer : Ids(s), tolerates : SUBSET Qualities,
                            violation : {"DEGRADED", "BLOCKED"}])])
  /\ s.flows \in Seq([source : Ids(s), target : Ids(s), active : BOOLEAN, odd : BOOLEAN])
  /\ \A i, j \in 1 .. Len(s.entities) : s.entities[i].id = s.entities[j].id => i = j

-----------------------------------------------------------------------------
(* engine.py: the records of a scenario.                                   *)

NodeIndex(s, id) == CHOOSE i \in 1 .. Len(s.entities) : s.entities[i].id = id
Alive(s, id) == \E i \in 1 .. Len(s.entities) : s.entities[i].id = id /\ s.entities[i].alive

(* _links: one link for each device, which is up if both ends are alive.   *)
Links(s) ==
  FlattenSeq([i \in 1 .. Len(s.entities) |->
    [j \in 1 .. Len(s.entities[i].devices) |->
       LET e == s.entities[i]
           d == e.devices[j]
       IN  [source |-> e.id, target |-> d.peer, total |-> d.total, odd |-> d.odd,
            up |-> d.up /\ e.alive /\ Alive(s, d.peer)]]])

Enabled(s, flow) == flow.active /\ Alive(s, flow.source) /\ Alive(s, flow.target)

NodeRecords(s) ==
  [i \in 1 .. Len(s.entities) |->
     [type |-> "NODE", odd |-> s.entities[i].odd,
      value |-> [index |-> i, alive |-> s.entities[i].alive]]]

LinkRecords(s) ==
  LET links == Links(s)
  IN  [i \in 1 .. Len(links) |->
         [type |-> "LINK", odd |-> links[i].odd,
          value |-> [source |-> NodeIndex(s, links[i].source),
                     target |-> NodeIndex(s, links[i].target), up |-> links[i].up]]]

FlowRecords(s) ==
  [i \in 1 .. Len(s.flows) |->
     [type |-> "FLOW", odd |-> s.flows[i].odd,
      value |-> [source |-> NodeIndex(s, s.flows[i].source),
                 target |-> NodeIndex(s, s.flows[i].target),
                 enabled |-> Enabled(s, s.flows[i])]]]

Records(s) == NodeRecords(s) \o LinkRecords(s) \o FlowRecords(s)

-----------------------------------------------------------------------------
(* The runner: a scenario is [id, expected, nodes, links, flows, throws],  *)
(* with expected the number of records of each type.                       *)

Counts(sc) == <<Len(sc.nodes), Len(sc.links), Len(sc.flows)>>

ValidateScenario(sc) ==
  /\ Counts(sc) = sc.expected
  /\ \A i \in 1 .. Len(sc.nodes) : sc.nodes[i].index = i
  /\ \A i \in 1 .. Len(sc.links) : {sc.links[i].source, sc.links[i].target} \subseteq 1 .. Len(sc.nodes)
  /\ \A i \in 1 .. Len(sc.flows) : {sc.flows[i].source, sc.flows[i].target} \subseteq 1 .. Len(sc.nodes)

(* Links that the runner builds, and the nodes they join to n.             *)
Built(sc, link) == link.up /\ sc.nodes[link.source].alive /\ sc.nodes[link.target].alive

(* Mutant: a link leads only from its source to its target.                *)
OneWayNeighbours(sc, n) ==
  {sc.links[i].target : i \in {j \in 1 .. Len(sc.links) :
                                 sc.links[j].source = n /\ Built(sc, sc.links[j])}}

Neighbours(sc, n) ==
  UNION {{sc.links[i].source, sc.links[i].target} :
           i \in {j \in 1 .. Len(sc.links) : /\ n \in {sc.links[j].source, sc.links[j].target}
                                             /\ Built(sc, sc.links[j])}}

(* The search of HasActivePath, turn by turn: pending are the nodes that   *)
(* are visited and not expanded.  Which of them is next makes no odds.     *)
Expand(sc, before) ==
  IF before.pending = {} THEN before
  ELSE LET current == CHOOSE n \in before.pending : TRUE
           found == Neighbours(sc, current) \ before.visited
       IN  [visited |-> before.visited \cup found,
            pending |-> (before.pending \ {current}) \cup found]

Turns(sc, source) ==
  LET turn[k \in 0 .. Len(sc.nodes)] ==
        IF k = 0 THEN [visited |-> {source}, pending |-> {source}] ELSE Expand(sc, turn[k - 1])
  IN  turn

Search(sc, source) == Turns(sc, source)[Len(sc.nodes)].visited

HasActivePath(sc, source, target) ==
  /\ sc.nodes[source].alive
  /\ sc.nodes[target].alive
  /\ target \in Search(sc, source)

(* What ns-3 can measure of a flow: a flow that is not set up, because it  *)
(* is disabled or its target has no address, or that has no route, has no  *)
(* packets that arrive.                                                    *)
Measurable(sc, flow) ==
  IF /\ flow.enabled
     /\ Neighbours(sc, flow.target) # {}
     /\ HasActivePath(sc, flow.source, flow.target)
  THEN Qualities ELSE {"lost"}

(* RunScenario, if it does not throw: the RESULT of each flow.             *)
Outcomes(sc) ==
  {[i \in 1 .. Len(sc.flows) |->
      [connected |-> /\ sc.flows[i].enabled
                     /\ HasActivePath(sc, sc.flows[i].source, sc.flows[i].target),
       quality |-> q[i]]] :
     q \in {r \in [1 .. Len(sc.flows) -> Qualities] :
              \A i \in 1 .. Len(sc.flows) : r[i] \in Measurable(sc, sc.flows[i])}}

-----------------------------------------------------------------------------
(* Readers of a result.  metrics has an element for each flow.             *)

Unmeasured == [connected |-> FALSE, quality |-> "lost"]

MetricFor(s, metrics, source, target) ==
  LET i == SelectLastInSeq(s.flows, LAMBDA f : f.source = source /\ f.target = target)
  IN  IF i = 0 THEN <<>> ELSE <<metrics[i]>>

(* Mutant: a policy's own violation state also stands for a lost link.     *)
EffectIgnoringConnection(s, metrics, id, policy) ==
  LET metric == MetricFor(s, metrics, id, policy.peer)
  IN  IF metric = <<>> THEN "BLOCKED"
      ELSE IF metric[1].quality \notin policy.tolerates THEN policy.violation
      ELSE "AVAILABLE"

(* evaluate_effects for one policy: the last metric of the direction.      *)
Effect(s, metrics, id, policy) ==
  LET metric == MetricFor(s, metrics, id, policy.peer)
  IN  IF metric = <<>> \/ ~metric[1].connected THEN "BLOCKED"
      ELSE IF metric[1].quality \notin policy.tolerates THEN policy.violation
      ELSE "AVAILABLE"

(* The nodes of the result: which are connected.                           *)
NodeConnected(s, id) ==
  Alive(s, id) /\ \E i \in 1 .. Len(Links(s)) :
                     Links(s)[i].up /\ id \in {Links(s)[i].source, Links(s)[i].target}

(* Mutant: a metric cannot open a direction whose link is down.            *)
ProfileNeedsLink(s, metrics, source, target) ==
  LET link == SelectLastInSeq(Links(s), LAMBDA l : l.source = source /\ l.target = target)
      metric == MetricFor(s, metrics, source, target)
      up == link # 0 /\ Links(s)[link].up
  IN  [connected |-> up /\ (metric # <<>> => metric[1].connected),
       total |-> link = 0 \/ Links(s)[link].total]

(* MessageTransportGate: the profile of a direction comes from the last    *)
(* link, and the last metric decides whether it is connected.  A profile   *)
(* that only metrics make has the loss rate of a new Profile, which is one.*)
Profile(s, metrics, source, target) ==
  LET link == SelectLastInSeq(Links(s), LAMBDA l : l.source = source /\ l.target = target)
      metric == MetricFor(s, metrics, source, target)
  IN  [connected |-> IF metric # <<>> THEN metric[1].connected
                     ELSE link # 0 /\ Links(s)[link].up,
       total |-> link = 0 \/ Links(s)[link].total]

(* Decide, but for its draw: can a message of this direction be delivered? *)
Deliverable(s, metrics, source, target) ==
  LET profile == Profile(s, metrics, source, target)
  IN  profile.connected /\ ~profile.total

-----------------------------------------------------------------------------
(* What all of them should agree with.                                     *)

(* A and B are joined: every set of living entities that has A and is      *)
(* closed under the devices that are up, in either direction, has B.       *)
Living(s) == {id \in Ids(s) : Alive(s, id)}

ClosedUnderDevices(s, C) ==
  \A i \in 1 .. Len(s.entities) :
    LET e == s.entities[i]
    IN  \A j \in 1 .. Len(e.devices) :
          e.devices[j].up /\ {e.id, e.devices[j].peer} \subseteq Living(s)
            => (e.id \in C <=> e.devices[j].peer \in C)

Joined(s, a, b) ==
  /\ {a, b} \subseteq Living(s)
  /\ \A C \in SUBSET Living(s) : a \in C /\ ClosedUnderDevices(s, C) => b \in C

=============================================================================
