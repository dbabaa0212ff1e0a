-------------------------- MODULE ReplicatedState --------------------------
(***************************************************************************)
(* What the state protocol promises, without its messages.  AFSIM reports  *)
(* a sequence of states.  The service's copy is always one of them, whole; *)
(* it only ever moves to a later one, possibly skipping some; and it may   *)
(* be emptied by a restart of the service.                                 *)
(***************************************************************************)
EXTENDS Naturals, Sequences

CONSTANTS Worlds,   \* the states AFSIM can report
          Nothing   \* the content of a service that has no state

VARIABLES reported, \* the states reported so far
          at,       \* how many of them the copy stands for, 0 for none
          copy      \* the content of the service's copy

absVars == <<reported, at, copy>>

AbsInit == /\ reported = <<>>
           /\ at = 0
           /\ copy = Nothing

(* AFSIM reports one more state.                                           *)
Report == /\ \E w \in Worlds : reported' = Append(reported, w)
          /\ UNCHANGED <<at, copy>>

(* The copy becomes a later state than the one it stands for.              *)
CatchUp == /\ \E k \in (at + 1) .. Len(reported) :
                /\ at' = k
                /\ copy' = reported[k]
           /\ UNCHANGED reported

(* The service restarts with no state.                                     *)
Forget == /\ at' = 0
          /\ copy' = Nothing
          /\ UNCHANGED reported

AbsNext == Report \/ CatchUp \/ Forget

AbsSpec == AbsInit /\ [][AbsNext]_absVars

=============================================================================
