--------------------------- MODULE MCMessageFlow ---------------------------
(***************************************************************************)
(* MessageFlow with two platforms: two radios of one that lead to two of   *)
(* the other, the first to both, or one radio only.                        *)
(***************************************************************************)
EXTENDS MessageFlow

CONSTANTS a, b, t1, t2, r1, r2

MCPlatforms == {a, b}
MCComms == {t1, t2, r1, r2}
MCTwoRadios ==
  <<[source |-> a, target |-> b, sender |-> t1, receivers |-> <<r1, r2>>],
    [source |-> a, target |-> b, sender |-> t2, receivers |-> <<r2>>]>>
MCOneRadio == <<[source |-> a, target |-> b, sender |-> t1, receivers |-> <<r1>>]>>

=============================================================================
