--------------------------- MODULE MCMetricsGates ---------------------------
(***************************************************************************)
(* ResultLoop with a radar whose policies name two peers.                  *)
(***************************************************************************)
EXTENDS ResultLoop

CONSTANTS radar, near, far

MCKeys == {near, far}
MCSubsystems == {radar}
MCSubsystemOf(k) == radar
MCEffectLists == {<<>>, <<far>>, <<near, far>>}
MCDamages == {"none", "links", "effects", "oversized"}

=============================================================================
