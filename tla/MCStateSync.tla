---------------------------- MODULE MCStateSync ----------------------------
(***************************************************************************)
(* StateSync on small worlds: platforms a and b, with a link from a to b   *)
(* and one flow between them.                                              *)
(***************************************************************************)
EXTENDS StateSync, TLC

CONSTANTS a, b, f

MCEntityIds == {a, b}
MCFlowIds == {f}
MCEntityFields == {"alive", "peer"}
MCFlowFields == {"ends"}
MCEntityStates == [MCEntityFields -> BOOLEAN \cup {a, b, Nothing}]
MCFlowConfigs == {[ends |-> {a, b}]}
MCPeersOf(e) == {e.peer} \ {Nothing}
MCEndsOf(w) == w.ends

Plane(alive, peer) == [alive |-> alive, peer |-> peer]
TheFlow == f :> [ends |-> {a, b}]
NoFlow == [id \in {} |-> {}]

Alone == [entities |-> a :> Plane(TRUE, Nothing), flows |-> NoFlow]
Linked == [entities |-> a :> Plane(TRUE, b) @@ b :> Plane(TRUE, Nothing),
           flows    |-> NoFlow]
Talking == [entities |-> a :> Plane(TRUE, b) @@ b :> Plane(FALSE, Nothing),
            flows    |-> TheFlow]

(* What CollectState also reports, after Talking: the observed flow of a   *)
(* platform that no longer exists.                                         *)
Orphaned == [entities |-> a :> Plane(TRUE, Nothing), flows |-> TheFlow]

MCFirstWorlds == {Alone, Linked}
MCWorlds == {Alone, Linked, Talking}
MCWorldsWithOrphan == {Linked, Talking, Orphaned}
MCFirstWorldsWithOrphan == {Linked}

=============================================================================
