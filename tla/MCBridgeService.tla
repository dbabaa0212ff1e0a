-------------------------- MODULE MCBridgeService --------------------------
(***************************************************************************)
(* BridgeService with two connections, one identifier reused with other    *)
(* content, a retry, an old timestamp, a query and lines that are refused. *)
(***************************************************************************)
EXTENDS BridgeService

CONSTANTS c1, c2

MCClients == {c1, c2}

MCRequests ==
  { [id |-> "i", digest |-> "a", type |-> "afsim_init", time |-> 1],
    [id |-> "i", digest |-> "b", type |-> "afsim_delta", time |-> 1],
    [id |-> "d", digest |-> "a", type |-> "afsim_delta", time |-> 2],
    [id |-> "q", digest |-> "a", type |-> "metrics_query", time |-> 0],
    [id |-> "o", digest |-> "a", type |-> "oversized", time |-> 0],
    [id |-> "m", digest |-> "a", type |-> "malformed", time |-> 0] }

MCOneClient == {c1}

=============================================================================
