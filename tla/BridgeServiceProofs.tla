------------------------ MODULE BridgeServiceProofs ------------------------
(***************************************************************************)
(* Proofs about BridgeService, for any number of connections, requests and *)
(* cache entries.                                                          *)
(*                                                                         *)
(*   RequestInv  what the handlers do to the store, the idempotency cache  *)
(*               and the slot, and what the worker makes of the slot;      *)
(*   WriteInv    what handler and worker, which share a connection's write *)
(*               lock, have written to it and may write next.              *)
(*                                                                         *)
(* WriteInv needs that jobs only grow and are never ahead of the store,    *)
(* which is part of RequestInv; RequestInv stands on its own.              *)
(***************************************************************************)
EXTENDS BridgeService, CommonFacts

-----------------------------------------------------------------------------
(* The invariants.                                                         *)

(* The part of TypeOK that says nothing of connections.                    *)
RequestTypeOK ==
  /\ revision \in Nat /\ revision <= lines
  /\ lines \in 0 .. MaxLines
  /\ storeTime \in Nat
  /\ idempotency \in Seq(Entries)
  /\ accepted \in Seq(RequestIds) /\ Len(accepted) = revision
  /\ pending \in Nat \cup {Nothing}
  /\ worker \in {"wait", "computing", "broadcast", "dead", "closed"}
  /\ job \in 0 .. revision
  /\ lastError \in BOOLEAN
  /\ computed \in 0 .. revision
  /\ latest \in 0 .. revision

(* The cache holds the last requests that were accepted, as many as it can *)
(* hold, in order.                                                         *)
CacheIsRecent ==
  /\ Len(idempotency) <= CacheSize
  /\ Len(idempotency) <= Len(accepted)
  /\ Len(idempotency) < CacheSize => Len(idempotency) = Len(accepted)
  /\ \A k \in 1 .. Len(idempotency) :
       idempotency[k].id = accepted[Len(accepted) - Len(idempotency) + k]

(* A job in the slot is the newest state, which the worker has not seen;   *)
(* if there is none, the worker has taken it.                              *)
SlotHoldsNewest ==
  IF pending = Nothing THEN job = revision ELSE pending = revision /\ job < revision

(* A worker that is done with the newest state has an outcome of it.       *)
NewestHasOutcome ==
  worker \in {"wait", "broadcast"} /\ job = revision /\ job > 0 =>
    computed = job \/ lastError

SendsInBroadcast == sending # Nothing => worker = "broadcast"

RequestInv ==
  /\ RequestTypeOK
  /\ SendsInBroadcast
  /\ CacheIsRecent
  /\ RetryHasNoEffect
  /\ SlotHoldsNewest
  /\ NewestHasOutcome

(* The kinds of message the properties tell apart.                         *)
IsBroadcast(m) ==
  \/ m.type = "ns3_metrics" /\ ~m.query
  \/ m.type = "ns3_error" /\ m.code = 2001
IsResult(m) == m.type = "ns3_metrics"
IsFreshAck(m) == m.type = "ns3_ack" /\ ~m.duplicate

(* What the properties say of one connection, whose messages are s.        *)
Ordered(s) ==
  \A i, j \in 1 .. Len(s) :
    /\ i < j /\ IsBroadcast(s[i]) /\ IsBroadcast(s[j]) => s[i].revision < s[j].revision
    /\ i < j /\ IsResult(s[i]) /\ IsResult(s[j]) => s[i].revision <= s[j].revision
    /\ IsFreshAck(s[i]) /\ IsBroadcast(s[j]) /\ s[i].revision = s[j].revision => i < j

BroadcastsBelow(s, n) ==
  \A i \in 1 .. Len(s) : IsBroadcast(s[i]) => s[i].revision < n
ResultsUpTo(s, n) ==
  \A i \in 1 .. Len(s) : IsResult(s[i]) => s[i].revision <= n

(* The part of TypeOK that is about connections and the broadcast.         *)
WriteTypeOK ==
  /\ todo \subseteq Clients
  /\ sending \in Clients \cup {Nothing}
  /\ failed \subseteq Clients
  /\ message \in Messages \cup {Nothing}
  /\ clients \subseteq Clients
  /\ handler \in [Clients -> {"absent", "reading", "blocked", "draining", "closing", "gone"}]
  /\ reply \in [Clients -> Messages \cup {Nothing}]
  /\ lock \in [Clients -> {"free", "handler", "worker"}]
  /\ broken \subseteq Clients
  /\ out \in [Clients -> Seq(Messages)]

(* What was written to a connection while the worker was at job j and the  *)
(* newest result was l.                                                    *)
Tidy(s, j, l) == Ordered(s) /\ BroadcastsBelow(s, j + 1) /\ ResultsUpTo(s, l)

(* What the worker may broadcast, and what a handler may answer, then: an  *)
(* answer has the newest result and a new acknowledgement is of a later    *)
(* request than the worker's job.                                          *)
IsOutcome(m, j, l) ==
  /\ m \in {Metrics(j), ComputeError(j)}
  /\ m = Metrics(j) => l = j
IsResponse(m, j, l) ==
  /\ m \in Messages
  /\ ~IsBroadcast(m)
  /\ IsResult(m) => m.revision = l
  /\ IsFreshAck(m) => m.revision > j

(* The worker broadcasts the outcome of its job, to one connection at a    *)
(* time.                                                                   *)
BroadcastInv ==
  /\ worker = "broadcast" <=> sending # Nothing
  /\ sending = Nothing => todo = {}
  /\ sending \notin todo
  /\ worker = "broadcast" => IsOutcome(message, job, latest)

(* The write lock: who holds it is in the middle of a send, and a handler  *)
(* that waits for it waits for the worker.                                 *)
LockInv(c) ==
  /\ lock[c] = "worker" => sending = c
  /\ sending = c => lock[c] # "free"
  /\ lock[c] = "handler" <=> handler[c] \in {"draining", "closing"}
  /\ handler[c] = "blocked" => lock[c] = "worker"

(* What a handler that waits will write is still in order then.            *)
ReplyInv(c) == handler[c] = "blocked" => IsResponse(reply[c], job, latest)

(* What was written is in order, and the outcome of the worker's job was   *)
(* not yet written to the connections it has still to serve.               *)
OutInv(c) ==
  /\ Tidy(out[c], job, latest)
  /\ (worker = "computing" \/ c \in todo \/ (sending = c /\ lock[c] = "handler")) =>
       BroadcastsBelow(out[c], job)

ConnectionInv == \A c \in Clients : LockInv(c) /\ ReplyInv(c) /\ OutInv(c)

WriteInv == WriteTypeOK /\ BroadcastInv /\ ConnectionInv

-----------------------------------------------------------------------------
(* Requests, the cache and the slot.                                       *)

(* _remember_request keeps at most CacheSize entries, the newest last.     *)
LEMMA RememberFacts ==
  ASSUME NEW r \in Requests, idempotency \in Seq(Entries), revision \in Nat,
         Len(idempotency) <= CacheSize
  PROVE  /\ Remember(r) \in Seq(Entries)
         /\ Len(Remember(r)) <= CacheSize
         /\ Len(Remember(r)) = IF Len(idempotency) = CacheSize THEN CacheSize
                               ELSE Len(idempotency) + 1
         /\ \A k \in 1 .. Len(Remember(r)) :
              Remember(r)[k].id =
                IF k = Len(Remember(r)) THEN r.id
                ELSE idempotency[IF Len(idempotency) = CacheSize THEN k + 1 ELSE k].id
PROOF
  <1> DEFINE e == [id |-> r.id, digest |-> r.digest, revision |-> revision + 1]
             longer == Append(idempotency, e)
  <1>0. CacheSize \in Nat \ {0}
    BY ServiceConstants
  <1>1. e \in Entries /\ e.id = r.id
    BY DEF Entries, RequestIds, Digests
  <1>2. /\ longer \in Seq(Entries)
        /\ Len(longer) = Len(idempotency) + 1
        /\ longer[Len(idempotency) + 1] = e
        /\ \A i \in 1 .. Len(idempotency) : longer[i] = idempotency[i]
        /\ Len(idempotency) \in Nat
    BY <1>1, AppendFacts
  <1>3. Remember(r) = IF Len(longer) > CacheSize THEN Tail(longer) ELSE longer
    BY DEF Remember
  <1> HIDE DEF e, longer
  <1>4. CASE Len(idempotency) = CacheSize
    <2>1. Remember(r) = Tail(longer)
      BY <1>0, <1>2, <1>3, <1>4
    <2>2. longer # <<>>
      BY <1>2
    <2>3. /\ Tail(longer) \in Seq(Entries)
          /\ Len(Tail(longer)) = Len(longer) - 1
          /\ \A k \in 1 .. Len(Tail(longer)) : Tail(longer)[k] = longer[k + 1]
      BY <1>2, <2>2, HeadTailProperties
    <2> QED
      BY <1>0, <1>1, <1>2, <1>4, <2>1, <2>3
  <1>5. CASE Len(idempotency) # CacheSize
    <2>1. Remember(r) = longer
      BY <1>0, <1>2, <1>3, <1>5
    <2> QED
      BY <1>0, <1>1, <1>2, <1>5, <2>1
  <1> QED
    BY <1>4, <1>5

(* An update that is accepted, apart from its response.                    *)
Accepts(r) ==
  /\ Cached(r.id) = {}
  /\ revision' = revision + 1
  /\ storeTime' = r.time
  /\ idempotency' = Remember(r)
  /\ accepted' = Append(accepted, r.id)
  /\ pending' = revision + 1

(* A line either changes nothing in the store and the slot, or is an       *)
(* update that is accepted.                                                *)
LEMMA ProcessCases ==
  ASSUME NEW r \in Requests, NEW valid \in BOOLEAN, NEW response,
         Process(r, valid, response)
  PROVE  \/ UNCHANGED <<stateVars, pending>>
         \/ Accepts(r) /\ response = Ack(revision + 1, FALSE)
  BY DEF Process, Accepts

(* Initially the store, the cache and the slot are empty.                  *)
LEMMA RequestsInitially ==
  Init => RequestInv
PROOF
  <1> SUFFICES ASSUME Init PROVE RequestInv
    OBVIOUS
  <1>1. Len(idempotency) = 0 /\ Len(accepted) = 0
    BY DEF Init
  <1>2. RequestTypeOK
    <2>1. idempotency \in Seq(Entries) /\ accepted \in Seq(RequestIds)
      BY DEF Init
    <2>2. lastError \in BOOLEAN
      BY DEF Init
    <2> QED
      BY <1>1, <2>1, <2>2, ServiceConstants DEF Init, RequestTypeOK
  <1>3. CacheIsRecent /\ RetryHasNoEffect
    BY <1>1, ServiceConstants DEF CacheIsRecent, RetryHasNoEffect
  <1>4. SlotHoldsNewest /\ NewestHasOutcome /\ SendsInBroadcast
    BY DEF Init, SendsInBroadcast, SlotHoldsNewest, NewestHasOutcome
  <1> QED
    BY <1>2, <1>3, <1>4 DEF RequestInv

(* Accepting an update keeps the cache and the slot right.                 *)
LEMMA AcceptKeeps ==
  ASSUME RequestInv, NEW r \in Requests, Accepts(r),
         lines < MaxLines, lines' = lines + 1,
         UNCHANGED <<worker, job, sending, resultVars>>
  PROVE  RequestInv'
PROOF
  <1> USE DEF RequestInv
  <1> DEFINE n == Len(idempotency)
             R == Remember(r)
  <1>0. CacheSize \in Nat \ {0} /\ MaxLines \in Nat /\ r.time \in Nat /\ Nothing \notin Nat
    BY ServiceConstants
  <1>1. r.id \in RequestIds
    BY DEF RequestIds
  <1>2. /\ accepted \in Seq(RequestIds) /\ Len(accepted) = revision
        /\ idempotency \in Seq(Entries) /\ revision \in Nat /\ n <= CacheSize
        /\ n <= Len(accepted) /\ n \in Nat
    BY DEF RequestTypeOK, CacheIsRecent
  <1>3. /\ accepted' \in Seq(RequestIds)
        /\ Len(accepted') = revision + 1
        /\ accepted'[revision + 1] = r.id
        /\ \A i \in 1 .. revision : accepted'[i] = accepted[i]
    BY <1>1, <1>2, AppendFacts DEF Accepts
  <1>4. /\ R \in Seq(Entries)
        /\ Len(R) <= CacheSize
        /\ Len(R) = IF n = CacheSize THEN CacheSize ELSE n + 1
        /\ \A k \in 1 .. Len(R) :
             R[k].id = IF k = Len(R) THEN r.id
                       ELSE idempotency[IF n = CacheSize THEN k + 1 ELSE k].id
    BY <1>2, RememberFacts
  <1>5. idempotency' = R
    BY DEF Accepts
  <1>6. \A k \in 1 .. n : idempotency[k].id # r.id
    BY DEF Accepts, Cached
  <1>7. \A k \in 1 .. n : idempotency[k].id = accepted[revision - n + k]
    BY <1>2 DEF CacheIsRecent
  <1> HIDE DEF n, R
  <1>8. RequestTypeOK'
    BY <1>0, <1>3, <1>4, <1>5 DEF RequestTypeOK, Accepts, resultVars
  <1>9. CacheIsRecent'
    <2>1. /\ Len(R) <= CacheSize /\ Len(R) <= revision + 1
          /\ Len(R) < CacheSize => Len(R) = revision + 1
      BY <1>0, <1>2, <1>4 DEF CacheIsRecent, n
    <2>2. ASSUME NEW k \in 1 .. Len(R)
          PROVE  R[k].id = accepted'[revision + 1 - Len(R) + k]
      <3>1. CASE k = Len(R)
        <4>1. R[k].id = r.id
          BY <1>4, <3>1
        <4>2. revision + 1 - Len(R) + k = revision + 1
          BY <1>2, <1>4, <3>1
        <4> QED
          BY <1>3, <4>1, <4>2
      <3>2. CASE k # Len(R) /\ n = CacheSize
        <4>1. k + 1 \in 1 .. n /\ R[k].id = idempotency[k + 1].id
          BY <1>0, <1>2, <1>4, <3>2
        <4>2. revision - n + (k + 1) \in 1 .. revision
          BY <1>2, <4>1
        <4>3. revision - n + (k + 1) = revision + 1 - Len(R) + k
          BY <1>0, <1>2, <1>4, <3>2
        <4> QED
          BY <1>3, <1>7, <4>1, <4>2, <4>3
      <3>3. CASE k # Len(R) /\ n # CacheSize
        <4>1. k \in 1 .. n /\ R[k].id = idempotency[k].id
          BY <1>0, <1>2, <1>4, <3>3
        <4>2. revision - n + k \in 1 .. revision
          BY <1>2, <4>1
        <4>3. revision - n + k = revision + 1 - Len(R) + k
          BY <1>0, <1>2, <1>4, <3>3
        <4> QED
          BY <1>3, <1>7, <4>1, <4>2, <4>3
      <3> QED
        BY <3>1, <3>2, <3>3
    <2> QED
      <3>1. Len(idempotency') = Len(R) /\ Len(accepted') = revision + 1
        BY <1>3, <1>5
      <3>2. \A k \in 1 .. Len(idempotency') :
              idempotency'[k].id = accepted'[Len(accepted') - Len(idempotency') + k]
        <4> SUFFICES ASSUME NEW k \in 1 .. Len(R)
                     PROVE  idempotency'[k].id = accepted'[Len(accepted') - Len(idempotency') + k]
          BY <3>1
        <4>1. idempotency'[k].id = R[k].id
          BY <1>5
        <4>2. Len(accepted') - Len(idempotency') + k = revision + 1 - Len(R) + k
          <5>1. Len(R) \in Nat /\ revision \in Nat /\ k \in Nat
            BY <1>2, <1>4
          <5> QED
            BY <3>1, <5>1
        <4>3. R[k].id = accepted'[revision + 1 - Len(R) + k]
          BY <2>2
        <4> QED
          BY <4>1, <4>2, <4>3
      <3> QED
        BY <2>1, <3>1, <3>2 DEF CacheIsRecent
  <1>10. RetryHasNoEffect'
    <2> SUFFICES ASSUME NEW i \in 1 .. revision + 1, NEW j \in 1 .. revision + 1,
                        i < j, accepted'[i] = accepted'[j]
                 PROVE  j - i > CacheSize
      BY <1>3 DEF RetryHasNoEffect
    <2>1. CASE j # revision + 1
      BY <1>2, <1>3, <2>1 DEF RetryHasNoEffect
    <2>2. CASE j = revision + 1
      <3>1. i \in 1 .. revision /\ accepted[i] = r.id
        BY <1>2, <1>3, <2>2
      <3>2. i <= revision - n
        <4>1. SUFFICES ASSUME i > revision - n PROVE FALSE
          BY <1>2
        <4>2. i - (revision - n) \in 1 .. n
          BY <1>2, <3>1, <4>1
        <4>3. revision - n + (i - (revision - n)) = i
          BY <1>2, <3>1
        <4> QED
          BY <1>6, <1>7, <3>1, <4>2, <4>3
      <3>3. n = CacheSize
        BY <1>0, <1>2, <3>1, <3>2 DEF CacheIsRecent, n
      <3> QED
        BY <1>0, <1>2, <2>2, <3>1, <3>2, <3>3
    <2> QED
      BY <2>1, <2>2
  <1>11. SlotHoldsNewest' /\ NewestHasOutcome' /\ SendsInBroadcast'
    BY <1>0, <1>2 DEF SendsInBroadcast, Accepts, RequestTypeOK, SlotHoldsNewest,
                      NewestHasOutcome, resultVars
  <1> QED
    BY <1>8, <1>9, <1>10, <1>11

(* The variables RequestInv is about.                                      *)
requestVars == <<stateVars, pending, worker, job, sending, resultVars, lines>>

(* What a broadcast step does to the worker.                               *)
LEMMA BroadcastWorker ==
  ASSUME NEW m, NEW rest, NEW bad, NEW now, NEW locks,
         BroadcastTo(m, rest, bad, now, locks)
  PROVE  /\ worker' \in {"wait", "broadcast"}
         /\ sending' # Nothing => worker' = "broadcast"
  BY DEF BroadcastTo

(* Every step keeps RequestInv.                                            *)
LEMMA RequestsInductive ==
  RequestInv /\ [Next]_vars => RequestInv'
PROOF
  <1> SUFFICES ASSUME RequestInv, [Next]_vars PROVE RequestInv'
    OBVIOUS
  <1>0. Nothing \notin Nat
    BY ServiceConstants
  <1>1. ASSUME UNCHANGED requestVars PROVE RequestInv'
    BY <1>1 DEF requestVars, stateVars, resultVars, RequestInv, RequestTypeOK, CacheIsRecent,
                RetryHasNoEffect, SendsInBroadcast, SlotHoldsNewest, NewestHasOutcome
  \* steps of the worker leave the store alone
  <1>2. ASSUME UNCHANGED <<stateVars, lines>>,
               RequestTypeOK', SendsInBroadcast', SlotHoldsNewest', NewestHasOutcome'
        PROVE  RequestInv'
    BY <1>2 DEF stateVars, RequestInv, CacheIsRecent, RetryHasNoEffect
  <1>3. ASSUME NEW c \in Clients, NEW r \in Requests, NEW valid \in BOOLEAN,
               HandleLine(c, r, valid)
        PROVE  RequestInv'
    <2>1. PICK response \in Responses : Process(r, valid, response)
      BY <1>3 DEF HandleLine
    <2>2. CASE Accepts(r)
      BY <1>3, <2>2, AcceptKeeps DEF HandleLine, workVars
    <2>3. CASE UNCHANGED <<stateVars, pending>>
      <3>1. /\ lines < MaxLines /\ lines' = lines + 1
            /\ UNCHANGED <<worker, job, sending, resultVars>>
        BY <1>3 DEF HandleLine, workVars
      <3>2. RequestTypeOK'
        BY <2>3, <3>1, ServiceConstants DEF RequestInv, RequestTypeOK, stateVars, resultVars
      <3> QED
        BY <2>3, <3>1, <3>2 DEF RequestInv, CacheIsRecent, RetryHasNoEffect, SendsInBroadcast,
                                SlotHoldsNewest, NewestHasOutcome, stateVars, resultVars
    <2> QED
      BY <2>1, <2>2, <2>3, ProcessCases
  <1>4. CASE TakeJob
    <2>1. UNCHANGED <<stateVars, lines>>
      BY <1>4 DEF TakeJob
    <2> QED
      BY <1>0, <1>2, <1>4, <2>1
      DEF TakeJob, RequestInv, RequestTypeOK, SendsInBroadcast, SlotHoldsNewest,
          NewestHasOutcome, stateVars,
          resultVars
  <1>5. CASE ComputeFails
    <2>1. /\ worker' \in {"wait", "broadcast"}
          /\ SendsInBroadcast'
          /\ UNCHANGED <<stateVars, lines>>
      BY <1>5, BroadcastWorker DEF SendsInBroadcast, ComputeFails
    <2> QED
      BY <1>2, <1>5, <2>1
      DEF ComputeFails, RequestInv, RequestTypeOK, SendsInBroadcast, SlotHoldsNewest,
          NewestHasOutcome, stateVars
  <1>6. CASE ResultIsStale
    <2>1. lastError' \in BOOLEAN
      BY <1>6 DEF ResultIsStale
    <2>2. RequestTypeOK'
      BY <1>6, <2>1 DEF ResultIsStale, RequestInv, RequestTypeOK, stateVars
    <2>3. SendsInBroadcast' /\ SlotHoldsNewest' /\ NewestHasOutcome'
      BY <1>6 DEF ResultIsStale, RequestInv, RequestTypeOK, SendsInBroadcast, SlotHoldsNewest,
                  NewestHasOutcome, stateVars
    <2> QED
      BY <1>2, <1>6, <2>2, <2>3 DEF ResultIsStale
  <1>7. CASE Publish
    <2>1. /\ worker' \in {"wait", "broadcast"}
          /\ SendsInBroadcast'
          /\ UNCHANGED <<stateVars, lines>>
      BY <1>7, BroadcastWorker DEF SendsInBroadcast, Publish
    <2> QED
      BY <1>2, <1>7, <2>1
      DEF Publish, RequestInv, RequestTypeOK, SendsInBroadcast, SlotHoldsNewest,
          NewestHasOutcome, stateVars
  <1>8. CASE RecordFails
    BY <1>2, <1>8
    DEF RecordFails, RequestInv, RequestTypeOK, SendsInBroadcast, SlotHoldsNewest,
        NewestHasOutcome, stateVars
  <1>9. CASE Close
    BY <1>2, <1>9
    DEF Close, RequestInv, RequestTypeOK, SendsInBroadcast, SlotHoldsNewest,
        NewestHasOutcome, stateVars,
        resultVars
  <1>10. ASSUME NEW c \in Clients, WorkerSent(c) PROVE RequestInv'
    <2>0. worker = "broadcast"
      BY <1>10, ServiceConstants DEF WorkerSent, RequestInv, SendsInBroadcast
    <2>1. /\ worker' \in {"wait", "broadcast"}
          /\ SendsInBroadcast'
          /\ UNCHANGED <<stateVars, lines, pending, job, resultVars>>
      BY <1>10, BroadcastWorker DEF SendsInBroadcast, WorkerSent
    <2> QED
      BY <1>2, <2>0, <2>1
      DEF RequestInv, RequestTypeOK, SendsInBroadcast, SlotHoldsNewest,
          NewestHasOutcome, stateVars, resultVars
  <1>11. ASSUME NEW c \in Clients, Accept(c) \/ HandlerDrained(c) \/ Break(c) \/ HandlerEnds(c)
         PROVE  RequestInv'
    BY <1>1, <1>11 DEF Accept, HandlerDrained, Break, HandlerEnds, requestVars, workVars
  <1>12. CASE UNCHANGED vars
    BY <1>1, <1>12 DEF vars, requestVars, workVars
  <1> QED
    BY <1>3, <1>4, <1>5, <1>6, <1>7, <1>8, <1>9, <1>10, <1>11, <1>12 DEF Next

-----------------------------------------------------------------------------
(* Messages and sequences of messages.                                     *)

(* Which kind of message an acknowledgement is ...                         *)
LEMMA AckFacts ==
  ASSUME NEW n \in Nat, NEW dup \in BOOLEAN
  PROVE  /\ Ack(n, dup) \in Messages /\ Ack(n, dup).revision = n
         /\ ~IsBroadcast(Ack(n, dup)) /\ ~IsResult(Ack(n, dup))
         /\ IsFreshAck(Ack(n, dup)) <=> ~dup
  BY DEF Ack, Messages, Acks, IsBroadcast, IsResult, IsFreshAck

(* ... a refusal ...                                                       *)
LEMMA RefusalFacts ==
  ASSUME NEW code \in {1000, 1005}
  PROVE  /\ Refusal(code) \in Messages
         /\ ~IsBroadcast(Refusal(code)) /\ ~IsResult(Refusal(code)) /\ ~IsFreshAck(Refusal(code))
  BY DEF Refusal, Messages, Refusals, IsBroadcast, IsResult, IsFreshAck

(* ... the answer to a query ...                                           *)
LEMMA AnswerFacts ==
  ASSUME NEW n \in Nat
  PROVE  /\ Answer(n) \in Messages /\ Answer(n).revision = n
         /\ ~IsBroadcast(Answer(n)) /\ IsResult(Answer(n)) /\ ~IsFreshAck(Answer(n))
  BY DEF Answer, Messages, Results, IsBroadcast, IsResult, IsFreshAck

(* ... a result that is broadcast ...                                      *)
LEMMA MetricsFacts ==
  ASSUME NEW n \in Nat
  PROVE  /\ Metrics(n) \in Messages /\ Metrics(n).revision = n
         /\ IsBroadcast(Metrics(n)) /\ IsResult(Metrics(n)) /\ ~IsFreshAck(Metrics(n))
  BY DEF Metrics, Messages, Results, IsBroadcast, IsResult, IsFreshAck

(* ... and an error that is broadcast.                                     *)
LEMMA ComputeErrorFacts ==
  ASSUME NEW n \in Nat
  PROVE  /\ ComputeError(n) \in Messages /\ ComputeError(n).revision = n
         /\ IsBroadcast(ComputeError(n)) /\ ~IsResult(ComputeError(n))
         /\ ~IsFreshAck(ComputeError(n))
         /\ ComputeError(n) # Metrics(n)
  BY DEF ComputeError, Metrics, Messages, ComputeErrors, IsBroadcast, IsResult, IsFreshAck

(* Messages of the kinds that have a revision have a number for it.        *)
LEMMA RevisionIsNat ==
  ASSUME NEW m \in Messages, IsBroadcast(m) \/ IsResult(m) \/ IsFreshAck(m)
  PROVE  m.revision \in Nat
PROOF
  <1>1. CASE m \in Acks
    BY <1>1 DEF Acks
  <1>2. CASE m \in Refusals
    BY <1>2 DEF Refusals, IsBroadcast, IsResult, IsFreshAck
  <1>3. CASE m \in Results
    BY <1>3 DEF Results
  <1>4. CASE m \in ComputeErrors
    BY <1>4 DEF ComputeErrors
  <1> QED
    BY <1>1, <1>2, <1>3, <1>4 DEF Messages

(* A message may follow what was written to a connection.                  *)
MayFollow(s, m) ==
  \A i \in 1 .. Len(s) :
    /\ IsBroadcast(m) /\ IsBroadcast(s[i]) => s[i].revision < m.revision
    /\ IsResult(m) /\ IsResult(s[i]) => s[i].revision <= m.revision
    /\ IsFreshAck(m) /\ IsBroadcast(s[i]) => s[i].revision # m.revision

(* A message that may follow keeps the order.                              *)
LEMMA AppendOrdered ==
  ASSUME NEW s \in Seq(Messages), NEW m \in Messages, Ordered(s), MayFollow(s, m),
         IsBroadcast(m) => ~IsFreshAck(m)
  PROVE  Ordered(Append(s, m))
PROOF
  <1> DEFINE t == Append(s, m)
  <1>1. /\ Len(t) = Len(s) + 1 /\ t[Len(s) + 1] = m /\ Len(s) \in Nat
        /\ \A i \in 1 .. Len(s) : t[i] = s[i]
    BY AppendFacts
  <1> HIDE DEF t
  <1> SUFFICES ASSUME NEW i \in 1 .. Len(t), NEW j \in 1 .. Len(t)
               PROVE  /\ i < j /\ IsBroadcast(t[i]) /\ IsBroadcast(t[j])
                           => t[i].revision < t[j].revision
                      /\ i < j /\ IsResult(t[i]) /\ IsResult(t[j])
                           => t[i].revision <= t[j].revision
                      /\ IsFreshAck(t[i]) /\ IsBroadcast(t[j]) /\ t[i].revision = t[j].revision
                           => i < j
    BY DEF Ordered, t
  <1>2. CASE i \in 1 .. Len(s) /\ j \in 1 .. Len(s)
    BY <1>1, <1>2 DEF Ordered
  <1>3. CASE i \in 1 .. Len(s) /\ j = Len(s) + 1
    BY <1>1, <1>3 DEF MayFollow
  <1>4. CASE i = Len(s) + 1 /\ j \in 1 .. Len(s)
    BY <1>1, <1>4 DEF MayFollow
  <1>5. CASE i = Len(s) + 1 /\ j = Len(s) + 1
    BY <1>1, <1>5
  <1> QED
    BY <1>1, <1>2, <1>3, <1>4, <1>5

(* A message within the bounds keeps them.                                 *)
LEMMA AppendBounded ==
  ASSUME NEW s \in Seq(Messages), NEW m \in Messages, NEW n \in Nat
  PROVE  /\ BroadcastsBelow(s, n) /\ (IsBroadcast(m) => m.revision < n)
              => BroadcastsBelow(Append(s, m), n)
         /\ ResultsUpTo(s, n) /\ (IsResult(m) => m.revision <= n)
              => ResultsUpTo(Append(s, m), n)
PROOF
  <1> DEFINE t == Append(s, m)
  <1>1. /\ Len(t) = Len(s) + 1 /\ t[Len(s) + 1] = m /\ Len(s) \in Nat
        /\ \A i \in 1 .. Len(s) : t[i] = s[i]
    BY AppendFacts
  <1> HIDE DEF t
  <1>2. \A i \in 1 .. Len(t) : i \in 1 .. Len(s) \/ i = Len(s) + 1
    BY <1>1
  <1>3. ASSUME BroadcastsBelow(s, n), IsBroadcast(m) => m.revision < n
        PROVE  BroadcastsBelow(t, n)
    BY <1>1, <1>2, <1>3 DEF BroadcastsBelow
  <1>4. ASSUME ResultsUpTo(s, n), IsResult(m) => m.revision <= n
        PROVE  ResultsUpTo(t, n)
    BY <1>1, <1>2, <1>4 DEF ResultsUpTo
  <1> QED
    BY <1>3, <1>4 DEF t

(* The bounds grow.                                                        *)
LEMMA BoundsGrow ==
  ASSUME NEW s \in Seq(Messages), NEW n \in Nat, NEW k \in Nat, n <= k
  PROVE  /\ BroadcastsBelow(s, n) => BroadcastsBelow(s, k)
         /\ ResultsUpTo(s, n) => ResultsUpTo(s, k)
PROOF
  <1>1. \A i \in 1 .. Len(s) : s[i] \in Messages
    OBVIOUS
  <1>2. \A i \in 1 .. Len(s) : IsBroadcast(s[i]) \/ IsResult(s[i]) => s[i].revision \in Nat
    BY <1>1, RevisionIsNat
  <1> QED
    BY <1>2 DEF BroadcastsBelow, ResultsUpTo

(* Nothing was written.                                                    *)
LEMMA NothingWritten ==
  ASSUME NEW n
  PROVE  Ordered(<<>>) /\ BroadcastsBelow(<<>>, n) /\ ResultsUpTo(<<>>, n)
PROOF
  <1>1. Len(<<>>) = 0
    OBVIOUS
  <1> QED
    BY <1>1 DEF Ordered, BroadcastsBelow, ResultsUpTo

(* An outcome that was not yet written keeps a connection tidy.            *)
LEMMA WriteOutcome ==
  ASSUME NEW s \in Seq(Messages), NEW m, NEW j \in Nat, NEW l \in Nat,
         Tidy(s, j, l), BroadcastsBelow(s, j), IsOutcome(m, j, l)
  PROVE  m \in Messages /\ Tidy(Append(s, m), j, l)
PROOF
  <1>1. /\ m \in Messages /\ m.revision = j /\ ~IsFreshAck(m)
        /\ IsResult(m) => l = j
    <2>1. CASE m = Metrics(j)
      BY <2>1, MetricsFacts DEF IsOutcome
    <2>2. CASE m = ComputeError(j)
      BY <2>2, ComputeErrorFacts
    <2> QED
      BY <2>1, <2>2 DEF IsOutcome
  <1>2. MayFollow(s, m)
    BY <1>1 DEF MayFollow, Tidy, BroadcastsBelow, ResultsUpTo
  <1>3. Ordered(Append(s, m))
    BY <1>1, <1>2, AppendOrdered DEF Tidy
  <1>4. BroadcastsBelow(Append(s, m), j + 1) /\ ResultsUpTo(Append(s, m), l)
    BY <1>1, AppendBounded DEF Tidy
  <1> QED
    BY <1>1, <1>3, <1>4 DEF Tidy

(* So does a response.                                                     *)
LEMMA WriteResponse ==
  ASSUME NEW s \in Seq(Messages), NEW m, NEW j \in Nat, NEW l \in Nat,
         Tidy(s, j, l), IsResponse(m, j, l)
  PROVE  /\ m \in Messages /\ Tidy(Append(s, m), j, l)
         /\ BroadcastsBelow(s, j) => BroadcastsBelow(Append(s, m), j)
PROOF
  <1>0. \A i \in 1 .. Len(s) : IsBroadcast(s[i]) => s[i].revision \in Nat
    <2>1. \A i \in 1 .. Len(s) : s[i] \in Messages
      OBVIOUS
    <2> QED
      BY <2>1, RevisionIsNat
  <1>1. m \in Messages /\ ~IsBroadcast(m) /\ (IsFreshAck(m) => m.revision \in Nat)
    BY RevisionIsNat DEF IsResponse
  <1>2. MayFollow(s, m)
    BY <1>0, <1>1 DEF MayFollow, Tidy, BroadcastsBelow, ResultsUpTo, IsResponse
  <1>3. Ordered(Append(s, m))
    BY <1>1, <1>2, AppendOrdered DEF Tidy
  <1>4. /\ BroadcastsBelow(Append(s, m), j + 1) /\ ResultsUpTo(Append(s, m), l)
        /\ BroadcastsBelow(s, j) => BroadcastsBelow(Append(s, m), j)
    BY <1>1, AppendBounded DEF Tidy, IsResponse
  <1> QED
    BY <1>1, <1>3, <1>4 DEF Tidy

(* What process returns is a response.                                     *)
LEMMA ResponseFacts ==
  ASSUME RequestTypeOK, NEW r \in Requests, NEW valid \in BOOLEAN, NEW response,
         Process(r, valid, response)
  PROVE  IsResponse(response, job, latest)
PROOF
  <1>0. /\ revision \in Nat /\ latest \in Nat /\ job \in Nat /\ job <= revision
        /\ \A k \in 1 .. Len(idempotency) : idempotency[k].revision \in Nat
    <2>1. \A k \in 1 .. Len(idempotency) : idempotency[k] \in Entries
      BY DEF RequestTypeOK
    <2> QED
      BY <2>1 DEF RequestTypeOK, Entries
  <1>1. CASE response = Answer(latest)
    BY <1>0, <1>1, AnswerFacts DEF IsResponse
  <1>2. CASE response \in {Refused, Refusal(1005)}
    BY <1>2, RefusalFacts DEF IsResponse, Refused
  <1>3. CASE \E k \in 1 .. Len(idempotency) : response = Ack(idempotency[k].revision, TRUE)
    <2>1. PICK k \in 1 .. Len(idempotency) : response = Ack(idempotency[k].revision, TRUE)
      BY <1>3
    <2>2. idempotency[k].revision \in Nat
      BY <1>0
    <2>3. response \in Messages /\ ~IsBroadcast(response) /\ ~IsResult(response)
      BY <2>1, <2>2, AckFacts
    <2>4. ~IsFreshAck(response)
      BY <2>1 DEF IsFreshAck, Ack
    <2> QED
      BY <2>3, <2>4 DEF IsResponse
  <1>4. CASE response = Ack(revision + 1, FALSE)
    <2>1. /\ response \in Messages /\ ~IsBroadcast(response) /\ ~IsResult(response)
          /\ response.revision = revision + 1
      <3>1. revision + 1 \in Nat
        BY <1>0
      <3> QED
        BY <1>4, <3>1, AckFacts
    <2> QED
      BY <1>0, <2>1 DEF IsResponse
  <1>5. CASE r.type \notin Updates
    <2>1. r.type \in {"metrics_query", "malformed", "oversized"}
      BY <1>5, ServiceConstants DEF Updates
    <2>2. response = CASE r.type = "metrics_query" -> Answer(latest)
                     [] r.type = "malformed" -> Refused
                     [] r.type = "oversized" -> Refusal(1005)
      BY <1>5 DEF Process
    <2> QED
      BY <1>1, <1>2, <2>1, <2>2
  <1>6. CASE r.type \in Updates
    <2>1. \/ \E k \in Cached(r.id) : response = IF idempotency[k].digest = r.digest
                                              THEN Ack(idempotency[k].revision, TRUE)
                                              ELSE Refused
          \/ response = Refused
          \/ response = Ack(revision + 1, FALSE)
      BY <1>6 DEF Process
    <2>2. CASE \E k \in Cached(r.id) : response = IF idempotency[k].digest = r.digest
                                               THEN Ack(idempotency[k].revision, TRUE)
                                               ELSE Refused
      <3>1. PICK k \in Cached(r.id) : \/ response = Ack(idempotency[k].revision, TRUE)
                                     \/ response = Refused
        BY <2>2
      <3>2. k \in 1 .. Len(idempotency)
        BY DEF Cached
      <3>3. CASE response = Ack(idempotency[k].revision, TRUE)
        BY <1>3, <3>2, <3>3
      <3>4. CASE response = Refused
        BY <1>2, <3>4
      <3> QED
        BY <3>1, <3>3, <3>4
    <2>3. CASE response = Refused
      BY <1>2, <2>3
    <2> QED
      BY <1>4, <2>1, <2>2, <2>3
  <1> QED
    BY <1>5, <1>6

-----------------------------------------------------------------------------
(* Handlers, the worker and the write locks.                               *)

(* Initially nothing was written and no lock is taken.                     *)
LEMMA WritesInitially ==
  Init => WriteInv
PROOF
  <1> SUFFICES ASSUME Init PROVE WriteInv
    OBVIOUS
  <1>1. WriteTypeOK
    BY DEF Init, WriteTypeOK
  <1>2. BroadcastInv
    BY DEF Init, BroadcastInv
  <1>3. ASSUME NEW c \in Clients PROVE LockInv(c) /\ ReplyInv(c) /\ OutInv(c)
    <2>1. LockInv(c) /\ ReplyInv(c)
      BY ServiceConstants DEF Init, LockInv, ReplyInv
    <2>2. out[c] = <<>>
      BY DEF Init
    <2>3. OutInv(c)
      BY <2>2, NothingWritten DEF OutInv, Tidy
    <2> QED
      BY <2>1, <2>3
  <1> QED
    BY <1>1, <1>2, <1>3 DEF WriteInv, ConnectionInv

Handlers == {"absent", "reading", "blocked", "draining", "closing", "gone"}

(* BroadcastTo keeps the invariant if before it no connection is locked by *)
(* the worker or waited for, and the message may be written to every       *)
(* connection that is left.                                                *)
LEMMA BroadcastGoesOn ==
  ASSUME NEW m, NEW rest, NEW bad, NEW now, NEW locks,
         BroadcastTo(m, rest, bad, now, locks),
         job \in Nat, job' = job, latest' \in Nat,
         IsOutcome(m, job, latest'),
         rest \in SUBSET Clients, bad \in SUBSET Clients,
         now \in [Clients -> Seq(Messages)],
         locks \in [Clients -> {"free", "handler"}],
         \A c \in Clients : Tidy(now[c], job, latest'),
         \A c \in rest : BroadcastsBelow(now[c], job),
         \A c \in Clients : /\ handler'[c] # "blocked"
                            /\ locks[c] = "handler" <=> handler'[c] \in {"draining", "closing"},
         clients \in SUBSET Clients, broken' \in SUBSET Clients,
         handler' \in [Clients -> Handlers],
         reply' \in [Clients -> Messages \cup {Nothing}]
  PROVE  WriteInv'
PROOF
  <1>0. Nothing \notin Clients
    BY ServiceConstants
  <1>1. m \in Messages
    BY MetricsFacts, ComputeErrorFacts DEF IsOutcome
  <1>2. SUFFICES WriteTypeOK' /\ BroadcastInv' /\ ConnectionInv'
    BY DEF WriteInv
  <1>3. CASE /\ rest = {}
             /\ worker' = "wait"
             /\ message' = Nothing
             /\ todo' = {}
             /\ sending' = Nothing
             /\ failed' = {}
             /\ clients' = clients \ bad
             /\ out' = now
             /\ lock' = locks
    <2>1. WriteTypeOK'
      BY <1>3 DEF WriteTypeOK, Handlers
    <2>2. BroadcastInv'
      BY <1>3 DEF BroadcastInv
    <2>3. ASSUME NEW x \in Clients PROVE (LockInv(x) /\ ReplyInv(x) /\ OutInv(x))'
      BY <1>0, <1>3 DEF LockInv, ReplyInv, OutInv
    <2> QED
      BY <2>1, <2>2, <2>3 DEF ConnectionInv
  <1>4. ASSUME NEW c \in rest,
               worker' = "broadcast",
               message' = m,
               failed' = bad,
               clients' = clients,
               sending' = c,
               todo' = rest \ {c},
               IF locks[c] = "free"
               THEN /\ lock' = [locks EXCEPT ![c] = "worker"]
                    /\ out' = IF handler[c] = "gone" THEN now ELSE Write(now, c, m)
               ELSE lock' = locks /\ out' = now
        PROVE  WriteTypeOK' /\ BroadcastInv' /\ ConnectionInv'
    <2>0. c \in Clients /\ c # Nothing
      BY <1>0
    <2>1. BroadcastInv'
      BY <1>4, <2>0 DEF BroadcastInv
    <2>2. /\ now[c] \in Seq(Messages) /\ Append(now[c], m) \in Seq(Messages)
          /\ Tidy(Append(now[c], m), job, latest')
      BY <1>1, <2>0, WriteOutcome
    <2>3. CASE locks[c] = "free"
      <3>1. /\ out' \in [Clients -> Seq(Messages)]
            /\ out'[c] \in {now[c], Append(now[c], m)}
            /\ \A x \in Clients : x # c => out'[x] = now[x]
        <4>1. CASE out' = now
          BY <2>0, <4>1
        <4>2. CASE out' = [now EXCEPT ![c] = Append(now[c], m)]
          BY <2>0, <2>2, <4>2
        <4>3. out' = now \/ out' = [now EXCEPT ![c] = Append(now[c], m)]
          BY <1>4, <2>3 DEF Write
        <4> QED
          BY <4>1, <4>2, <4>3
      <3>2. /\ lock' \in [Clients -> {"free", "handler", "worker"}]
            /\ lock'[c] = "worker"
            /\ \A x \in Clients : x # c => lock'[x] = locks[x]
        <4>1. lock' = [locks EXCEPT ![c] = "worker"]
          BY <1>4, <2>3
        <4>2. \A x \in Clients : locks[x] \in {"free", "handler", "worker"}
          OBVIOUS
        <4> QED
          BY <2>0, <4>1, <4>2
      <3>3. WriteTypeOK'
        BY <1>1, <1>4, <2>0, <3>1, <3>2 DEF WriteTypeOK, Handlers
      <3>4. ASSUME NEW x \in Clients PROVE (LockInv(x) /\ ReplyInv(x) /\ OutInv(x))'
        <4>1. CASE x = c
          BY <1>4, <2>2, <2>3, <3>1, <3>2, <4>1 DEF LockInv, ReplyInv, OutInv
        <4>2. CASE x # c
          <5>1. out'[x] = now[x] /\ lock'[x] = locks[x] /\ lock'[x] # "worker"
            BY <3>1, <3>2, <4>2
          <5> QED
            BY <1>4, <4>2, <5>1 DEF LockInv, ReplyInv, OutInv
        <4> QED
          BY <4>1, <4>2
      <3> QED
        BY <2>1, <3>3, <3>4 DEF ConnectionInv
    <2>4. CASE locks[c] # "free"
      <3>1. lock' = locks /\ out' = now /\ locks[c] = "handler"
        BY <1>4, <2>0, <2>4
      <3>3. WriteTypeOK'
        BY <1>1, <1>4, <2>0, <3>1 DEF WriteTypeOK, Handlers
      <3>4. ASSUME NEW x \in Clients PROVE (LockInv(x) /\ ReplyInv(x) /\ OutInv(x))'
        BY <1>4, <3>1 DEF LockInv, ReplyInv, OutInv
      <3> QED
        BY <2>1, <3>3, <3>4 DEF ConnectionInv
    <2> QED
      BY <2>3, <2>4
  <1> QED
    BY <1>3, <1>4 DEF BroadcastTo

(* While the worker does not broadcast, it holds no lock and no handler    *)
(* waits for one.                                                          *)
LEMMA NobodyWaits ==
  ASSUME WriteInv, worker # "broadcast"
  PROVE  /\ sending = Nothing /\ todo = {}
         /\ \A c \in Clients : lock[c] # "worker" /\ handler[c] # "blocked"
  BY ServiceConstants DEF WriteInv, ConnectionInv, LockInv, BroadcastInv

(* The handler that waits for c's lock gets it from the worker.            *)
LEMMA ResumeFacts ==
  ASSUME WriteInv, job \in Nat, latest \in Nat,
         NEW c \in Clients, sending = c, lock[c] = "worker", ResumeHandler(c)
  PROVE  /\ OutAfter(c) \in [Clients -> Seq(Messages)]
         /\ LockAfter(c) \in [Clients -> {"free", "handler"}]
         /\ handler' \in [Clients -> Handlers]
         /\ reply' \in [Clients -> Messages \cup {Nothing}]
         /\ \A x \in Clients :
              /\ Tidy(OutAfter(c)[x], job, latest)
              /\ x # c => OutAfter(c)[x] = out[x]
              /\ handler'[x] # "blocked"
              /\ LockAfter(c)[x] = "handler" <=> handler'[x] \in {"draining", "closing"}
PROOF
  <1>1. /\ handler \in [Clients -> Handlers] /\ reply \in [Clients -> Messages \cup {Nothing}]
        /\ lock \in [Clients -> {"free", "handler", "worker"}]
        /\ out \in [Clients -> Seq(Messages)]
    BY DEF WriteInv, WriteTypeOK, Handlers
  <1>2. \A x \in Clients : /\ Tidy(out[x], job, latest)
                           /\ lock[x] = "handler" <=> handler[x] \in {"draining", "closing"}
                           /\ x # c => lock[x] # "worker" /\ handler[x] # "blocked"
    BY DEF WriteInv, ConnectionInv, LockInv, OutInv
  <1>3. CASE handler[c] = "blocked"
    <2>1. IsResponse(reply[c], job, latest)
      BY <1>3 DEF WriteInv, ConnectionInv, ReplyInv
    <2>2. reply[c] \in Messages /\ Tidy(Append(out[c], reply[c]), job, latest)
      BY <1>1, <1>2, <2>1, WriteResponse
    <2>3. /\ OutAfter(c) = [out EXCEPT ![c] = Append(out[c], reply[c])]
          /\ LockAfter(c) = [lock EXCEPT ![c] = "handler"]
          /\ reply' = [reply EXCEPT ![c] = Nothing]
          /\ handler' = [handler EXCEPT ![c] = Written(reply[c])]
          /\ Written(reply[c]) \in {"draining", "closing"}
      BY <1>3 DEF OutAfter, LockAfter, ResumeHandler, Write, Written
    <2>4. Append(out[c], reply[c]) \in Seq(Messages)
      BY <1>1, <2>2
    <2>5. OutAfter(c) \in [Clients -> Seq(Messages)]
      BY <1>1, <2>3, <2>4
    <2>6. /\ LockAfter(c) \in [Clients -> {"free", "handler"}]
          /\ handler' \in [Clients -> Handlers]
          /\ reply' \in [Clients -> Messages \cup {Nothing}]
      BY <1>1, <1>2, <2>3 DEF Handlers
    <2> QED
      BY <1>1, <1>2, <2>2, <2>3, <2>5, <2>6
  <1>4. CASE handler[c] # "blocked"
    <2>1. /\ OutAfter(c) = out /\ LockAfter(c) = [lock EXCEPT ![c] = "free"]
          /\ reply' = reply /\ handler' = handler
      BY <1>4 DEF OutAfter, LockAfter, ResumeHandler
    <2> QED
      BY <1>1, <1>2, <1>4, <2>1
  <1> QED
    BY <1>3, <1>4

(* A line that is handled: the response follows what was written, or waits *)
(* for the worker's lock.                                                  *)
LEMMA HandleLineKeepsWrites ==
  ASSUME RequestInv, WriteInv, NEW c \in Clients, NEW r \in Requests, NEW valid \in BOOLEAN,
         HandleLine(c, r, valid)
  PROVE  WriteInv'
PROOF
  <1>0. job \in Nat /\ latest \in Nat /\ c # Nothing
    BY ServiceConstants DEF RequestInv, RequestTypeOK
  <1>1. /\ handler \in [Clients -> Handlers] /\ reply \in [Clients -> Messages \cup {Nothing}]
        /\ lock \in [Clients -> {"free", "handler", "worker"}]
        /\ out \in [Clients -> Seq(Messages)]
    BY DEF WriteInv, WriteTypeOK, Handlers
  <1>2. \A x \in Clients : LockInv(x) /\ ReplyInv(x) /\ OutInv(x)
    BY DEF WriteInv, ConnectionInv
  <1>3. PICK response \in Responses :
          /\ Process(r, valid, response)
          /\ IF lock[c] = "free"
             THEN /\ out' = Write(out, c, response)
                  /\ lock' = [lock EXCEPT ![c] = "handler"]
                  /\ handler' = [handler EXCEPT ![c] = Written(response)]
                  /\ UNCHANGED reply
             ELSE /\ reply' = [reply EXCEPT ![c] = response]
                  /\ handler' = [handler EXCEPT ![c] = "blocked"]
                  /\ UNCHANGED <<out, lock>>
    BY DEF HandleLine
  <1>4. /\ handler[c] = "reading"
        /\ UNCHANGED <<worker, job, todo, sending, failed, message, latest, clients, broken>>
    BY DEF HandleLine, workVars, resultVars
  <1>5. IsResponse(response, job, latest) /\ response \in Messages
    BY <1>3, ResponseFacts DEF RequestInv, IsResponse
  <1>6. BroadcastInv'
    BY <1>4 DEF WriteInv, BroadcastInv
  <1>7. CASE lock[c] = "free"
    <2>1. /\ Append(out[c], response) \in Seq(Messages)
          /\ Tidy(Append(out[c], response), job, latest)
          /\ BroadcastsBelow(out[c], job) => BroadcastsBelow(Append(out[c], response), job)
      BY <1>0, <1>1, <1>2, <1>5, WriteResponse DEF OutInv
    <2>2. Written(response) \in {"draining", "closing"}
      BY DEF Written
    <2>3. /\ out' = [out EXCEPT ![c] = Append(out[c], response)]
          /\ lock' = [lock EXCEPT ![c] = "handler"]
          /\ handler' = [handler EXCEPT ![c] = Written(response)]
          /\ reply' = reply
      BY <1>3, <1>7 DEF Write
    <2>4. out' \in [Clients -> Seq(Messages)]
      BY <1>1, <2>1, <2>3
    <2>5. WriteTypeOK'
      BY <1>1, <1>4, <2>2, <2>3, <2>4 DEF WriteInv, WriteTypeOK, Handlers
    <2>6. ASSUME NEW x \in Clients PROVE (LockInv(x) /\ ReplyInv(x) /\ OutInv(x))'
      <3>1. CASE x = c
        <4>1. sending # c
          BY <1>2, <1>7 DEF LockInv
        <4>2. out'[c] = Append(out[c], response) /\ lock'[c] = "handler"
              /\ handler'[c] \in {"draining", "closing"}
          BY <1>1, <2>2, <2>3
        <4> QED
          BY <1>2, <1>4, <2>1, <3>1, <4>1, <4>2 DEF LockInv, ReplyInv, OutInv
      <3>2. CASE x # c
        BY <1>1, <1>2, <1>4, <2>3, <3>2 DEF LockInv, ReplyInv, OutInv
      <3> QED
        BY <3>1, <3>2
    <2> QED
      BY <1>6, <2>5, <2>6 DEF WriteInv, ConnectionInv
  <1>8. CASE lock[c] # "free"
    <2>1. lock[c] = "worker"
      BY <1>1, <1>2, <1>4, <1>8 DEF LockInv
    <2>2. /\ reply' = [reply EXCEPT ![c] = response]
          /\ handler' = [handler EXCEPT ![c] = "blocked"]
          /\ out' = out /\ lock' = lock
      BY <1>3, <1>8
    <2>3. WriteTypeOK'
      BY <1>1, <1>4, <1>5, <2>2 DEF WriteInv, WriteTypeOK, Handlers
    <2>4. ASSUME NEW x \in Clients PROVE (LockInv(x) /\ ReplyInv(x) /\ OutInv(x))'
      BY <1>1, <1>2, <1>4, <1>5, <2>1, <2>2 DEF LockInv, ReplyInv, OutInv
    <2> QED
      BY <1>6, <2>3, <2>4 DEF WriteInv, ConnectionInv
  <1> QED
    BY <1>7, <1>8

(* The other steps of a handler.                                           *)
LEMMA HandlerKeepsWrites ==
  ASSUME RequestInv, WriteInv, NEW c \in Clients,
         Accept(c) \/ HandlerDrained(c) \/ Break(c) \/ HandlerEnds(c)
  PROVE  WriteInv'
PROOF
  <1>0. job \in Nat /\ latest \in Nat /\ c # Nothing
    BY ServiceConstants DEF RequestInv, RequestTypeOK
  <1>1. /\ handler \in [Clients -> Handlers] /\ reply \in [Clients -> Messages \cup {Nothing}]
        /\ lock \in [Clients -> {"free", "handler", "worker"}]
        /\ out \in [Clients -> Seq(Messages)]
    BY DEF WriteInv, WriteTypeOK, Handlers
  <1>2. \A x \in Clients : LockInv(x) /\ ReplyInv(x) /\ OutInv(x)
    BY DEF WriteInv, ConnectionInv
  <1>3. UNCHANGED <<worker, job, todo, sending, failed, message, latest>>
    BY DEF Accept, HandlerDrained, Break, HandlerEnds, workVars, resultVars
  <1>4. BroadcastInv'
    BY <1>3 DEF WriteInv, BroadcastInv
  <1>5. SUFFICES WriteTypeOK' /\ ConnectionInv'
    BY <1>4 DEF WriteInv
  <1>6. CASE Accept(c)
    <2>1. WriteTypeOK'
      BY <1>1, <1>3, <1>6 DEF Accept, WriteInv, WriteTypeOK, Handlers
    <2>2. ASSUME NEW x \in Clients PROVE (LockInv(x) /\ ReplyInv(x) /\ OutInv(x))'
      BY <1>1, <1>2, <1>3, <1>6 DEF Accept, LockInv, ReplyInv, OutInv
    <2> QED
      BY <2>1, <2>2 DEF ConnectionInv
  <1>7. CASE Break(c)
    <2>1. WriteTypeOK'
      BY <1>1, <1>3, <1>7 DEF Break, WriteInv, WriteTypeOK, Handlers
    <2>2. ASSUME NEW x \in Clients PROVE (LockInv(x) /\ ReplyInv(x) /\ OutInv(x))'
      BY <1>2, <1>3, <1>7 DEF Break, LockInv, ReplyInv, OutInv
    <2> QED
      BY <2>1, <2>2 DEF ConnectionInv
  <1>8. CASE HandlerEnds(c)
    <2>1. /\ handler[c] # "blocked"
          /\ handler' = [handler EXCEPT ![c] = "gone"]
          /\ clients' = clients \ {c} /\ broken' = broken \cup {c}
          /\ reply' = [reply EXCEPT ![c] = Nothing]
          /\ lock' = [lock EXCEPT ![c] = IF sending = c THEN "worker" ELSE "free"]
          /\ out' = [out EXCEPT ![c] = <<>>]
      BY <1>8 DEF HandlerEnds
    <2>2. WriteTypeOK'
      BY <1>1, <1>3, <2>1 DEF WriteInv, WriteTypeOK, Handlers
    <2>3. ASSUME NEW x \in Clients PROVE (LockInv(x) /\ ReplyInv(x) /\ OutInv(x))'
      <3>1. CASE x = c
        <4>1. /\ out'[c] = <<>> /\ handler'[c] = "gone"
              /\ lock'[c] = IF sending = c THEN "worker" ELSE "free"
          BY <1>1, <2>1
        <4>2. Tidy(<<>>, job, latest) /\ BroadcastsBelow(<<>>, job)
          BY NothingWritten DEF Tidy
        <4> QED
          BY <1>3, <3>1, <4>1, <4>2 DEF LockInv, ReplyInv, OutInv
      <3>2. CASE x # c
        BY <1>1, <1>2, <1>3, <2>1, <3>2 DEF LockInv, ReplyInv, OutInv
      <3> QED
        BY <3>1, <3>2
    <2> QED
      BY <2>2, <2>3 DEF ConnectionInv
  <1>9. CASE HandlerDrained(c) /\ sending = c
    <2>1. /\ handler[c] = "draining"
          /\ handler' = [handler EXCEPT ![c] = "reading"]
          /\ lock' = [lock EXCEPT ![c] = "worker"]
          /\ out' = [out EXCEPT ![c] = Append(out[c], message)]
          /\ UNCHANGED <<clients, reply, broken>>
      BY <1>9 DEF HandlerDrained, Write
    <2>2. /\ worker = "broadcast" /\ IsOutcome(message, job, latest) /\ c \notin todo
      BY <1>0, <1>9 DEF WriteInv, BroadcastInv
    <2>3. Tidy(out[c], job, latest) /\ BroadcastsBelow(out[c], job)
      BY <1>2, <1>9, <2>1 DEF LockInv, OutInv
    <2>4. message \in Messages /\ Tidy(Append(out[c], message), job, latest)
      BY <1>0, <1>1, <2>2, <2>3, WriteOutcome
    <2>5. out' \in [Clients -> Seq(Messages)]
      <3>1. Append(out[c], message) \in Seq(Messages)
        BY <1>1, <2>4
      <3> QED
        BY <1>1, <2>1, <3>1
    <2>6. WriteTypeOK'
      BY <1>1, <1>3, <2>1, <2>5 DEF WriteInv, WriteTypeOK, Handlers
    <2>7. ASSUME NEW x \in Clients PROVE (LockInv(x) /\ ReplyInv(x) /\ OutInv(x))'
      <3>1. CASE x = c
        <4>1. /\ out'[c] = Append(out[c], message) /\ handler'[c] = "reading"
              /\ lock'[c] = "worker"
          BY <1>1, <2>1
        <4> QED
          BY <1>3, <1>9, <2>2, <2>4, <3>1, <4>1 DEF LockInv, ReplyInv, OutInv
      <3>2. CASE x # c
        BY <1>1, <1>2, <1>3, <2>1, <3>2 DEF LockInv, ReplyInv, OutInv
      <3> QED
        BY <3>1, <3>2
    <2> QED
      BY <2>6, <2>7 DEF ConnectionInv
  <1>10. CASE HandlerDrained(c) /\ sending # c
    <2>1. /\ handler[c] = "draining"
          /\ handler' = [handler EXCEPT ![c] = "reading"]
          /\ lock' = [lock EXCEPT ![c] = "free"]
          /\ UNCHANGED <<clients, reply, broken, out>>
      BY <1>10 DEF HandlerDrained
    <2>2. WriteTypeOK'
      BY <1>1, <1>3, <2>1 DEF WriteInv, WriteTypeOK, Handlers
    <2>3. ASSUME NEW x \in Clients PROVE (LockInv(x) /\ ReplyInv(x) /\ OutInv(x))'
      BY <1>1, <1>2, <1>3, <1>10, <2>1 DEF LockInv, ReplyInv, OutInv
    <2> QED
      BY <2>2, <2>3 DEF ConnectionInv
  <1> QED
    BY <1>6, <1>7, <1>8, <1>9, <1>10

(* The steps of the worker before a broadcast, and its first write.        *)
LEMMA WorkerKeepsWrites ==
  ASSUME RequestInv, WriteInv,
         TakeJob \/ ComputeFails \/ ResultIsStale \/ Publish \/ RecordFails
  PROVE  WriteInv'
PROOF
  <1>0. /\ job \in Nat /\ latest \in Nat /\ job + 1 \in Nat
        /\ job <= revision /\ latest <= revision /\ revision \in Nat
    BY DEF RequestInv, RequestTypeOK
  <1>1. /\ handler \in [Clients -> Handlers] /\ reply \in [Clients -> Messages \cup {Nothing}]
        /\ lock \in [Clients -> {"free", "handler", "worker"}]
        /\ out \in [Clients -> Seq(Messages)]
        /\ clients \in SUBSET Clients /\ broken \in SUBSET Clients
    BY DEF WriteInv, WriteTypeOK, Handlers
  <1>2. \A x \in Clients : LockInv(x) /\ ReplyInv(x) /\ OutInv(x)
    BY DEF WriteInv, ConnectionInv
  <1>3. worker # "broadcast"
    BY DEF TakeJob, ComputeFails, ResultIsStale, Publish, RecordFails
  <1>4. /\ sending = Nothing /\ todo = {}
        /\ \A x \in Clients : lock[x] # "worker" /\ handler[x] # "blocked"
    BY <1>3, NobodyWaits
  <1>5. lock \in [Clients -> {"free", "handler"}]
    BY <1>1, <1>4
  \* the steps that write nothing
  <1>6. ASSUME UNCHANGED <<todo, sending, failed, message, connVars>>,
               worker' \in {"wait", "computing", "dead"},
               job' \in Nat, latest' \in Nat,
               \A x \in Clients : Tidy(out[x], job', latest'),
               worker' = "computing" => \A x \in Clients : BroadcastsBelow(out[x], job')
        PROVE  WriteInv'
    <2>1. WriteTypeOK'
      BY <1>6 DEF WriteInv, WriteTypeOK, connVars
    <2>2. BroadcastInv'
      BY <1>4, <1>6 DEF BroadcastInv
    <2>3. ASSUME NEW x \in Clients PROVE (LockInv(x) /\ ReplyInv(x) /\ OutInv(x))'
      <3>1. x # Nothing
        BY ServiceConstants
      <3> QED
        BY <1>2, <1>4, <1>6, <3>1 DEF LockInv, ReplyInv, OutInv, connVars
    <2> QED
      BY <2>1, <2>2, <2>3 DEF WriteInv, ConnectionInv
  <1>7. CASE TakeJob
    <2>1. /\ job' = revision /\ job < revision /\ latest' = latest /\ worker' = "computing"
          /\ UNCHANGED <<todo, sending, failed, message, connVars>>
      BY <1>7 DEF TakeJob, RequestInv, SlotHoldsNewest, resultVars
    <2>2. ASSUME NEW x \in Clients
          PROVE  Tidy(out[x], job', latest') /\ BroadcastsBelow(out[x], job')
      <3>1. out[x] \in Seq(Messages) /\ Tidy(out[x], job, latest)
        BY <1>1, <1>2 DEF OutInv
      <3>2. job + 1 <= revision /\ job + 1 <= revision + 1 /\ revision + 1 \in Nat
        BY <1>0, <2>1
      <3>3. BroadcastsBelow(out[x], revision) /\ BroadcastsBelow(out[x], revision + 1)
        BY <1>0, <3>1, <3>2, BoundsGrow DEF Tidy
      <3> QED
        BY <2>1, <3>1, <3>3 DEF Tidy
    <2> QED
      BY <1>0, <1>6, <2>1, <2>2
  <1>8. CASE ResultIsStale
    <2>1. /\ job' = job /\ latest' = latest /\ worker' = "wait"
          /\ UNCHANGED <<todo, sending, failed, message, connVars>>
      BY <1>8 DEF ResultIsStale
    <2> QED
      BY <1>0, <1>2, <1>6, <2>1 DEF OutInv
  \* while the worker computes, its outcome was written to nobody
  <1>9. ASSUME worker = "computing", NEW l \in Nat, latest <= l
        PROVE  \A x \in Clients : Tidy(out[x], job, l) /\ BroadcastsBelow(out[x], job)
    BY <1>0, <1>1, <1>2, <1>9, BoundsGrow DEF OutInv, Tidy
  <1>10. CASE RecordFails
    <2>1. /\ job' = job /\ latest' = job /\ worker' = "dead" /\ worker = "computing"
          /\ latest <= job
          /\ UNCHANGED <<todo, sending, failed, message, connVars>>
      BY <1>0, <1>10 DEF RecordFails
    <2> QED
      BY <1>0, <1>6, <1>9, <2>1
  <1>11. CASE ComputeFails
    <2>1. /\ worker = "computing" /\ job' = job /\ latest' = latest
          /\ UNCHANGED <<handler, reply, broken>>
          /\ BroadcastTo(ComputeError(job), clients, {}, out, lock)
      BY <1>11 DEF ComputeFails
    <2>2. IsOutcome(ComputeError(job), job, latest')
      BY <1>0, <2>1, ComputeErrorFacts DEF IsOutcome
    <2>3. /\ \A x \in Clients : Tidy(out[x], job, latest')
          /\ \A x \in clients : BroadcastsBelow(out[x], job)
      <3>1. latest' \in Nat /\ latest <= latest'
        BY <1>0, <2>1
      <3>2. \A x \in Clients : Tidy(out[x], job, latest') /\ BroadcastsBelow(out[x], job)
        BY <1>9, <2>1, <3>1
      <3> QED
        BY <1>1, <3>2
    <2>4. \A x \in Clients : /\ handler'[x] # "blocked"
                             /\ lock[x] = "handler" <=> handler'[x] \in {"draining", "closing"}
      BY <1>2, <1>4, <2>1 DEF LockInv
    <2>5. handler' \in [Clients -> Handlers] /\ reply' \in [Clients -> Messages \cup {Nothing}]
          /\ broken' \in SUBSET Clients /\ {} \in SUBSET Clients
      BY <1>1, <2>1
    <2> QED
      BY <1>0, <1>1, <1>5, <2>1, <2>2, <2>3, <2>4, <2>5, BroadcastGoesOn
  <1>12. CASE Publish
    <2>1. /\ worker = "computing" /\ job' = job /\ latest' = job /\ latest <= job
          /\ UNCHANGED <<handler, reply, broken>>
          /\ BroadcastTo(Metrics(job), clients, {}, out, lock)
      BY <1>0, <1>12 DEF Publish
    <2>2. IsOutcome(Metrics(job), job, latest')
      BY <2>1 DEF IsOutcome
    <2>3. /\ \A x \in Clients : Tidy(out[x], job, latest')
          /\ \A x \in clients : BroadcastsBelow(out[x], job)
      <3>1. latest' \in Nat /\ latest <= latest'
        BY <1>0, <2>1
      <3>2. \A x \in Clients : Tidy(out[x], job, latest') /\ BroadcastsBelow(out[x], job)
        BY <1>9, <2>1, <3>1
      <3> QED
        BY <1>1, <3>2
    <2>4. \A x \in Clients : /\ handler'[x] # "blocked"
                             /\ lock[x] = "handler" <=> handler'[x] \in {"draining", "closing"}
      BY <1>2, <1>4, <2>1 DEF LockInv
    <2>5. handler' \in [Clients -> Handlers] /\ reply' \in [Clients -> Messages \cup {Nothing}]
          /\ broken' \in SUBSET Clients /\ {} \in SUBSET Clients
      BY <1>1, <2>1
    <2> QED
      BY <1>0, <1>1, <1>5, <2>1, <2>2, <2>3, <2>4, <2>5, BroadcastGoesOn
  <1> QED
    BY <1>7, <1>8, <1>10, <1>11, <1>12

(* The worker goes on to the next connection.                              *)
LEMMA WorkerSentKeepsWrites ==
  ASSUME RequestInv, WriteInv, NEW c \in Clients, WorkerSent(c)
  PROVE  WriteInv'
PROOF
  <1> DEFINE bad == IF c \in broken THEN failed \cup {c} ELSE failed
  <1>0. job \in Nat /\ latest \in Nat /\ c # Nothing
    BY ServiceConstants DEF RequestInv, RequestTypeOK
  <1>1. /\ sending = c /\ lock[c] = "worker" /\ ResumeHandler(c)
        /\ BroadcastTo(message, todo, bad, OutAfter(c), LockAfter(c))
        /\ job' = job /\ latest' = latest /\ broken' = broken
    BY DEF WorkerSent, resultVars
  <1>2. /\ todo \in SUBSET Clients /\ bad \in SUBSET Clients
        /\ clients \in SUBSET Clients /\ broken' \in SUBSET Clients
    BY <1>1 DEF WriteInv, WriteTypeOK
  <1>3. IsOutcome(message, job, latest') /\ c \notin todo
    BY <1>0, <1>1 DEF WriteInv, BroadcastInv
  <1>4. /\ OutAfter(c) \in [Clients -> Seq(Messages)]
        /\ LockAfter(c) \in [Clients -> {"free", "handler"}]
        /\ handler' \in [Clients -> Handlers]
        /\ reply' \in [Clients -> Messages \cup {Nothing}]
        /\ \A x \in Clients :
             /\ Tidy(OutAfter(c)[x], job, latest')
             /\ x # c => OutAfter(c)[x] = out[x]
             /\ handler'[x] # "blocked"
             /\ LockAfter(c)[x] = "handler" <=> handler'[x] \in {"draining", "closing"}
    BY <1>0, <1>1, ResumeFacts
  <1>5. \A x \in todo : BroadcastsBelow(OutAfter(c)[x], job)
    BY <1>2, <1>3, <1>4 DEF WriteInv, ConnectionInv, OutInv
  <1> HIDE DEF bad
  <1>6. latest' \in Nat
    BY <1>0, <1>1
  <1>7. \A x \in Clients : Tidy(OutAfter(c)[x], job, latest')
    BY <1>4
  <1>8. \A x \in Clients :
          /\ handler'[x] # "blocked"
          /\ LockAfter(c)[x] = "handler" <=> handler'[x] \in {"draining", "closing"}
    BY <1>4
  <1>9. /\ OutAfter(c) \in [Clients -> Seq(Messages)]
        /\ LockAfter(c) \in [Clients -> {"free", "handler"}]
        /\ handler' \in [Clients -> Handlers]
        /\ reply' \in [Clients -> Messages \cup {Nothing}]
    BY <1>4
  <1>10. BroadcastTo(message, todo, bad, OutAfter(c), LockAfter(c)) /\ job' = job
    BY <1>1
  <1>11. job \in Nat
    BY <1>0
  <1>12. IsOutcome(message, job, latest')
    BY <1>3
  <1> QED
    BY <1>2, <1>5, <1>6, <1>7, <1>8, <1>9, <1>10, <1>11, <1>12, BroadcastGoesOn

(* The service is closed in the middle of anything.                        *)
LEMMA CloseKeepsWrites ==
  ASSUME RequestInv, WriteInv, Close
  PROVE  WriteInv'
PROOF
  <1>0. job \in Nat /\ latest \in Nat /\ Nothing \notin Clients
    BY ServiceConstants DEF RequestInv, RequestTypeOK
  <1>1. /\ worker' = "closed" /\ todo' = {} /\ sending' = Nothing
        /\ UNCHANGED <<job, latest, failed, message, clients, broken>>
    BY DEF Close, resultVars
  <1>2. BroadcastInv'
    BY <1>1 DEF BroadcastInv
  \* afterwards the worker holds no lock
  <1>3. ASSUME handler' \in [Clients -> Handlers],
               reply' \in [Clients -> Messages \cup {Nothing}],
               lock' \in [Clients -> {"free", "handler"}],
               out' \in [Clients -> Seq(Messages)],
               \A x \in Clients :
                 /\ Tidy(out'[x], job, latest)
                 /\ handler'[x] # "blocked"
                 /\ lock'[x] = "handler" <=> handler'[x] \in {"draining", "closing"}
        PROVE  WriteInv'
    <2>1. WriteTypeOK'
      BY <1>1, <1>3 DEF WriteInv, WriteTypeOK, Handlers
    <2>2. ASSUME NEW x \in Clients PROVE (LockInv(x) /\ ReplyInv(x) /\ OutInv(x))'
      BY <1>0, <1>1, <1>3 DEF LockInv, ReplyInv, OutInv
    <2> QED
      BY <1>2, <2>1, <2>2 DEF WriteInv, ConnectionInv
  <1>4. CASE sending # Nothing /\ lock[sending] = "worker"
    <2>1. PICK c \in Clients : sending = c
      BY <1>4 DEF WriteInv, WriteTypeOK
    <2>2. /\ lock[c] = "worker" /\ ResumeHandler(c)
          /\ out' = OutAfter(c) /\ lock' = LockAfter(c)
      BY <1>4, <2>1 DEF Close
    <2> QED
      BY <1>0, <1>3, <2>1, <2>2, ResumeFacts
  <1>5. CASE ~(sending # Nothing /\ lock[sending] = "worker")
    <2>1. UNCHANGED <<lock, out, reply, handler>>
      BY <1>5 DEF Close
    <2>2. \A x \in Clients : /\ lock[x] # "worker" /\ handler[x] # "blocked"
                             /\ Tidy(out[x], job, latest)
                             /\ lock[x] = "handler" <=> handler[x] \in {"draining", "closing"}
      BY <1>0, <1>5 DEF WriteInv, ConnectionInv, LockInv, OutInv
    <2>3. /\ handler \in [Clients -> Handlers] /\ reply \in [Clients -> Messages \cup {Nothing}]
          /\ lock \in [Clients -> {"free", "handler"}]
          /\ out \in [Clients -> Seq(Messages)]
      BY <2>2 DEF WriteInv, WriteTypeOK, Handlers
    <2> QED
      BY <1>3, <2>1, <2>2, <2>3
  <1> QED
    BY <1>4, <1>5

(* Every step keeps WriteInv.                                              *)
LEMMA WritesInductive ==
  RequestInv /\ WriteInv /\ [Next]_vars => WriteInv'
PROOF
  <1> SUFFICES ASSUME RequestInv, WriteInv, [Next]_vars PROVE WriteInv'
    OBVIOUS
  <1>1. CASE UNCHANGED vars
    BY <1>1 DEF vars, workVars, resultVars, connVars, WriteInv, WriteTypeOK, BroadcastInv,
                ConnectionInv, LockInv, ReplyInv, OutInv
  <1>2. CASE Next
    BY <1>2, HandleLineKeepsWrites, HandlerKeepsWrites, WorkerKeepsWrites,
       WorkerSentKeepsWrites, CloseKeepsWrites DEF Next
  <1> QED
    BY <1>1, <1>2

-----------------------------------------------------------------------------
(* The properties.                                                         *)

(* RequestInv holds of every reachable state.                              *)
LEMMA RequestsSafe ==
  Spec => []RequestInv
  BY RequestsInitially, RequestsInductive, PTL DEF Spec

(* WriteInv holds of every reachable state.                                *)
LEMMA WritesSafe ==
  Spec => []WriteInv
  BY WritesInitially, WritesInductive, RequestsSafe, PTL DEF Spec

(* Every variable of the service keeps its type; the cache stays within    *)
(* its size, and the slot, the worker and the results never run ahead of   *)
(* the store.                                                              *)
THEOREM ServiceTypeCorrect ==
  Spec => []TypeOK
PROOF
  <1>1. ASSUME RequestInv, WriteInv PROVE TypeOK
    <2>1. revision \in 0 .. MaxLines
      BY <1>1, ServiceConstants DEF RequestInv, RequestTypeOK
    <2>2. Len(idempotency) <= CacheSize
      BY <1>1 DEF RequestInv, CacheIsRecent
    <2>3. pending \in (1 .. revision) \cup {Nothing}
      BY <1>1 DEF RequestInv, RequestTypeOK, SlotHoldsNewest
    <2> QED
      BY <1>1, <2>1, <2>2, <2>3
      DEF RequestInv, RequestTypeOK, WriteInv, WriteTypeOK, TypeOK
  <1> QED
    BY <1>1, RequestsSafe, WritesSafe, PTL

(* The idempotency cache keeps its promise for any size: a request         *)
(* identifier is applied twice only if more than CacheSize updates lie     *)
(* between, so a retry within that window changes nothing.                 *)
THEOREM RetriesHaveNoEffect ==
  Spec => []RetryHasNoEffect
PROOF
  <1>1. RequestInv => RetryHasNoEffect
    BY DEF RequestInv
  <1> QED
    BY <1>1, RequestsSafe, PTL

(* Coalescing never loses the newest state: a worker at rest with an empty *)
(* slot has computed it, or its computation failed.                        *)
THEOREM NewestAlwaysSettled ==
  Spec => []NewestIsSettled
PROOF
  <1>1. RequestInv => NewestIsSettled
    BY DEF RequestInv, RequestTypeOK, SlotHoldsNewest, NewestHasOutcome, NewestIsSettled
  <1> QED
    BY <1>1, RequestsSafe, PTL

(* Handlers and the worker write to a connection independently, and still  *)
(* results come in the order of their revisions on every connection.       *)
THEOREM ResultsAlwaysInOrder ==
  Spec => []ResultsInOrder
PROOF
  <1>1. ASSUME WriteInv PROVE ResultsInOrder
    <2>1. \A c \in Clients : Ordered(out[c])
      BY <1>1 DEF WriteInv, ConnectionInv, OutInv, Tidy
    <2> QED
      BY <2>1 DEF ResultsInOrder, Broadcasts, Carried, Ordered, IsBroadcast, IsResult
  <1> QED
    BY <1>1, WritesSafe, PTL

(* And a connection is told that its request was accepted before it gets   *)
(* the result of it.                                                       *)
THEOREM AckAlwaysBeforeResult ==
  Spec => []AckBeforeResult
PROOF
  <1>1. ASSUME WriteInv PROVE AckBeforeResult
    <2>1. \A c \in Clients : Ordered(out[c])
      BY <1>1 DEF WriteInv, ConnectionInv, OutInv, Tidy
    <2> QED
      BY <2>1 DEF AckBeforeResult, Broadcasts, Ordered, IsBroadcast, IsFreshAck
  <1> QED
    BY <1>1, WritesSafe, PTL

=============================================================================
