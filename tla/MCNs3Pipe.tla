----------------------------- MODULE MCNs3Pipe -----------------------------
(***************************************************************************)
(* Ns3Pipe with the snapshots that tell its cases apart.                   *)
(***************************************************************************)
EXTENDS Ns3Pipe

Device(peer, up, total) == [peer |-> peer, up |-> up, total |-> total, odd |-> FALSE]
Policy(peer) == [peer |-> peer, tolerates |-> {"good"}, violation |-> "DEGRADED"]
Entity(id, living, devices, policies) ==
  [id |-> id, alive |-> living, odd |-> FALSE, devices |-> devices, policies |-> policies]
Flow(source, target, active) ==
  [source |-> source, target |-> target, active |-> active, odd |-> FALSE]
Snapshot(entities, flows) == [entities |-> entities, flows |-> flows, throws |-> FALSE]

(* a and c reach each other through b, which lives or not.                 *)
Relay(living) ==
  Snapshot(<<Entity("a", TRUE, <<Device("b", TRUE, FALSE)>>, <<Policy("c")>>),
             Entity("b", living, <<>>, <<>>),
             Entity("c", TRUE, <<Device("b", TRUE, FALSE)>>, <<>>)>>,
           <<Flow("a", "c", TRUE)>>)

(* A triangle with some of its links up.                                   *)
Triangle(living, ab, bc, ac) ==
  Snapshot(<<Entity("a", TRUE, <<Device("b", ab, FALSE), Device("c", ac, FALSE)>>,
                    <<Policy("c")>>),
             Entity("b", living, <<Device("c", bc, FALSE)>>, <<>>),
             Entity("c", TRUE, <<>>, <<>>)>>,
           <<Flow("a", "c", TRUE)>>)

(* A pair whose flow is joined by one more of the same direction.          *)
Pair(up, total, active) ==
  Snapshot(<<Entity("a", TRUE, <<Device("b", up, total)>>, <<Policy("b")>>),
             Entity("b", TRUE, <<>>, <<>>)>>,
           <<Flow("a", "b", TRUE), Flow("a", "b", active)>>)

Single == Snapshot(<<Entity("a", TRUE, <<>>, <<>>)>>, <<>>)

(* A record that cannot be parsed comes first or last, the calculation     *)
(* throws, there is nothing to calculate.                                  *)
MCSnapshots ==
  {Triangle(living, ab, bc, ac) : living, ab, bc, ac \in BOOLEAN} \cup
  { Relay(TRUE), Relay(FALSE), Pair(TRUE, FALSE, FALSE), Pair(TRUE, TRUE, TRUE),
    Pair(FALSE, FALSE, TRUE), Snapshot(<<>>, <<>>),
    [Single EXCEPT !.throws = TRUE],
    [Single EXCEPT !.entities[1].odd = TRUE],
    [Pair(TRUE, FALSE, TRUE) EXCEPT !.entities[1].odd = TRUE] }

=============================================================================
