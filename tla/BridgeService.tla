--------------------------- MODULE BridgeService ---------------------------
(***************************************************************************)
(* The service of server.py: the handlers of the TCP connections accept    *)
(* requests and hand the newest state to one compute worker through a slot *)
(* that holds one job; the worker broadcasts its results to every          *)
(* connection.                                                             *)
(*                                                                         *)
(* Everything runs on one asyncio event loop, so a step is what happens    *)
(* between two awaits that can really suspend: reading a line, waiting for *)
(* the ns-3 computation in its thread, waiting for a connection's write    *)
(* lock, and draining its socket.  The state and pending locks are never   *)
(* held across such an await and never contended.                          *)
(*                                                                         *)
(* The contents of states and metrics are left out: a state is known by    *)
(* its revision, and whether its references are valid is a free choice.    *)
(***************************************************************************)
EXTENDS Naturals, Sequences, FiniteSets

CONSTANTS
  Clients,        \* TCP connections
  Requests,       \* lines clients may send: [id, digest, type, time]
  CacheSize,      \* IDEMPOTENCY_CACHE_SIZE
  Nothing,
  ComputeMayFail, \* does Ns3Runner.compute raise?
  CsvMayFail,     \* does appending to the CSV file raise OSError?
  MaxLines        \* bound: lines handled

(* What the service writes to a connection.                                *)
Acks == [type : {"ns3_ack"}, revision : Nat, duplicate : BOOLEAN]
Refusals == [type : {"ns3_error"}, code : {1000, 1005}]
Results == [type : {"ns3_metrics"}, revision : Nat, query : BOOLEAN]
ComputeErrors == [type : {"ns3_error"}, code : {2001}, revision : Nat]
Messages == Acks \cup Refusals \cup Results \cup ComputeErrors

Ack(r, dup) == [type |-> "ns3_ack", revision |-> r, duplicate |-> dup]
Refusal(code) == [type |-> "ns3_error", code |-> code]
Refused == Refusal(1000)   \* one of 1001 to 1004: clients treat them alike
Metrics(r) == [type |-> "ns3_metrics", revision |-> r, query |-> FALSE]
Answer(r) == [type |-> "ns3_metrics", revision |-> r, query |-> TRUE]
ComputeError(r) == [type |-> "ns3_error", code |-> 2001, revision |-> r]

RequestIds == {r.id : r \in Requests}
Digests == {r.digest : r \in Requests}
Entries == [id : RequestIds, digest : Digests, revision : Nat]

ASSUME ServiceConstants ==
  /\ \A r \in Requests : /\ r.type \in {"afsim_init", "afsim_delta", "metrics_query",
                                        "malformed", "oversized"}
                         /\ r.time \in Nat
  /\ CacheSize \in Nat \ {0}
  /\ Nothing \notin Clients \cup Nat \cup Messages
  /\ ComputeMayFail \in BOOLEAN
  /\ CsvMayFail \in BOOLEAN
  /\ MaxLines \in Nat

VARIABLES
  revision,     \* StateStore._revision, 0 while not initialized
  storeTime,    \* StateStore._timestamp_ms
  idempotency,  \* the OrderedDict, oldest first: [id, digest, revision]
  accepted,     \* history: the identifier of the request of each revision
  pending,      \* the slot: a revision or Nothing
  worker,       \* where _compute_loop is
  job,          \* the revision it computes
  todo,         \* connections the broadcast has not served yet
  sending,      \* the connection it is sending to
  failed,       \* connections it could not send to
  message,      \* what it broadcasts
  lastError,    \* _last_error is not None
  computed,     \* _computed_revision
  latest,       \* revision of MetricsStore._latest, 0 for none
  clients,      \* _clients: the subscribers of broadcasts
  handler,      \* where _handle_client is, for each connection
  reply,        \* the response it waits to write
  lock,         \* who holds the connection's write lock
  broken,       \* connections whose peer is gone
  out,          \* what was written to each connection
  lines         \* number of lines handled so far

stateVars == <<revision, storeTime, idempotency, accepted>>
workVars == <<worker, job, todo, sending, failed, message>>
resultVars == <<lastError, computed, latest>>
connVars == <<clients, handler, reply, lock, broken, out>>
vars == <<stateVars, pending, workVars, resultVars, connVars, lines>>

TypeOK ==
  /\ revision \in 0 .. MaxLines
  /\ storeTime \in Nat
  /\ idempotency \in Seq(Entries) /\ Len(idempotency) <= CacheSize
  /\ accepted \in Seq(RequestIds) /\ Len(accepted) = revision
  /\ pending \in (1 .. revision) \cup {Nothing}
  /\ worker \in {"wait", "computing", "broadcast", "dead", "closed"}
  /\ job \in 0 .. revision
  /\ todo \subseteq Clients
  /\ sending \in Clients \cup {Nothing}
  /\ failed \subseteq Clients
  /\ message \in Messages \cup {Nothing}
  /\ lastError \in BOOLEAN
  /\ computed \in 0 .. revision
  /\ latest \in 0 .. revision
  /\ clients \subseteq Clients
  /\ handler \in [Clients -> {"absent", "reading", "blocked", "draining", "closing", "gone"}]
  /\ reply \in [Clients -> Messages \cup {Nothing}]
  /\ lock \in [Clients -> {"free", "handler", "worker"}]
  /\ broken \subseteq Clients
  /\ out \in [Clients -> Seq(Messages)]
  /\ lines \in 0 .. MaxLines

Init ==
  /\ revision = 0
  /\ storeTime = 0
  /\ idempotency = <<>>
  /\ accepted = <<>>
  /\ pending = Nothing
  /\ worker = "wait"
  /\ job = 0
  /\ todo = {}
  /\ sending = Nothing
  /\ failed = {}
  /\ message = Nothing
  /\ lastError = FALSE
  /\ computed = 0
  /\ latest = 0
  /\ clients = {}
  /\ handler = [c \in Clients |-> "absent"]
  /\ reply = [c \in Clients |-> Nothing]
  /\ lock = [c \in Clients |-> "free"]
  /\ broken = {}
  /\ out = [c \in Clients |-> <<>>]
  /\ lines = 0

-----------------------------------------------------------------------------
(* Handling of a connection.                                               *)

(* _handle_client starts: add_client.                                      *)
Accept(c) ==
  /\ handler[c] = "absent"
  /\ worker # "closed"
  /\ handler' = [handler EXCEPT ![c] = "reading"]
  /\ clients' = clients \cup {c}
  /\ UNCHANGED <<stateVars, pending, workVars, resultVars, reply, lock, broken, out, lines>>

Cached(id) == {k \in 1 .. Len(idempotency) : idempotency[k].id = id}

(* StateStore accepts an init whose references are valid, and a delta that *)
(* also finds a state and does not move the time backwards.                *)
Acceptable(r, valid) ==
  /\ valid
  /\ r.type = "afsim_delta" => revision > 0 /\ r.time >= storeTime

(* Mutant: nothing is dropped.                                             *)
RememberAll(r) ==
  Append(idempotency, [id |-> r.id, digest |-> r.digest, revision |-> revision + 1])

(* Mutant: the newest is dropped.                                          *)
RememberOldest(r) ==
  IF Len(idempotency) >= CacheSize THEN idempotency ELSE RememberAll(r)

(* _remember_request: at the end, and the oldest is dropped.               *)
Remember(r) ==
  LET longer == Append(idempotency, [id |-> r.id, digest |-> r.digest,
                                     revision |-> revision + 1])
  IN  IF Len(longer) > CacheSize THEN Tail(longer) ELSE longer

Updates == {"afsim_init", "afsim_delta"}

(* Mutant: a job that is in the slot stays there.                          *)
ProcessKeepsOldJob(r, valid, response) ==
  /\ r.type \in Updates
  /\ Cached(r.id) = {}
  /\ Acceptable(r, valid)
  /\ response = Ack(revision + 1, FALSE)
  /\ revision' = revision + 1
  /\ storeTime' = r.time
  /\ idempotency' = Remember(r)
  /\ accepted' = Append(accepted, r.id)
  /\ pending' = IF pending = Nothing THEN revision + 1 ELSE pending

(* BridgeService.process, with the response it returns or the error the    *)
(* handler makes of what it raises.  An accepted state replaces the job    *)
(* that is still in the slot.                                              *)
Process(r, valid, response) ==
  \/ /\ r.type \notin Updates
     /\ response = CASE r.type = "metrics_query" -> Answer(latest)
                     [] r.type = "malformed" -> Refused
                     [] r.type = "oversized" -> Refusal(1005)
     /\ UNCHANGED <<stateVars, pending>>
  \/ /\ r.type \in Updates
     /\ \E k \in Cached(r.id) :
          response = IF idempotency[k].digest = r.digest
                     THEN Ack(idempotency[k].revision, TRUE)
                     ELSE Refused
     /\ UNCHANGED <<stateVars, pending>>
  \/ /\ r.type \in Updates
     /\ Cached(r.id) = {}
     /\ ~Acceptable(r, valid)
     /\ response = Refused
     /\ UNCHANGED <<stateVars, pending>>
  \/ /\ r.type \in Updates
     /\ Cached(r.id) = {}
     /\ Acceptable(r, valid)
     /\ response = Ack(revision + 1, FALSE)
     /\ revision' = revision + 1
     /\ storeTime' = r.time
     /\ idempotency' = Remember(r)
     /\ accepted' = Append(accepted, r.id)
     /\ pending' = revision + 1

Responses ==
  {Answer(latest), Ack(revision + 1, FALSE), Refused, Refusal(1005)}
    \cup {Ack(idempotency[k].revision, TRUE) : k \in 1 .. Len(idempotency)}

Write(to, c, m) == [to EXCEPT ![c] = Append(@, m)]

(* The handler reads on after a response, and leaves after a line that was *)
(* too long.                                                               *)
Written(response) == IF response = Refusal(1005) THEN "closing" ELSE "draining"

(* A line is read and processed, and send starts: the response is written  *)
(* at once if the write lock is free, otherwise the handler waits for it.  *)
HandleLine(c, r, valid) ==
  /\ handler[c] = "reading"
  /\ lines < MaxLines
  /\ \E response \in Responses :
       /\ Process(r, valid, response)
       /\ IF lock[c] = "free"
          THEN /\ out' = Write(out, c, response)
               /\ lock' = [lock EXCEPT ![c] = "handler"]
               /\ handler' = [handler EXCEPT ![c] = Written(response)]
               /\ UNCHANGED reply
          ELSE /\ reply' = [reply EXCEPT ![c] = response]
               /\ handler' = [handler EXCEPT ![c] = "blocked"]
               /\ UNCHANGED <<out, lock>>
  /\ lines' = lines + 1
  /\ UNCHANGED <<workVars, resultVars, clients, broken>>

(* The drain of the handler ends; the lock goes to the worker if it waits  *)
(* for it, which then writes.                                              *)
HandlerDrained(c) ==
  /\ handler[c] = "draining"
  /\ handler' = [handler EXCEPT ![c] = "reading"]
  /\ IF sending = c
     THEN /\ lock' = [lock EXCEPT ![c] = "worker"]
          /\ out' = Write(out, c, message)
     ELSE /\ lock' = [lock EXCEPT ![c] = "free"]
          /\ UNCHANGED out
  /\ UNCHANGED <<stateVars, pending, workVars, resultVars, clients, reply, broken, lines>>

(* The peer goes away.                                                     *)
Break(c) ==
  /\ handler[c] \in {"reading", "blocked", "draining", "closing"}
  /\ c \notin broken
  /\ broken' = broken \cup {c}
  /\ UNCHANGED <<stateVars, pending, workVars, resultVars, clients, handler, reply, lock,
                 out, lines>>

(* The handler notices, or is done with the line that was too long:        *)
(* remove_client, and the connection is closed.  The history of what was   *)
(* written to it is forgotten.                                             *)
HandlerEnds(c) ==
  /\ \/ handler[c] = "closing"
     \/ handler[c] \in {"reading", "draining"} /\ c \in broken
  /\ handler' = [handler EXCEPT ![c] = "gone"]
  /\ clients' = clients \ {c}
  /\ reply' = [reply EXCEPT ![c] = Nothing]
  /\ lock' = [lock EXCEPT ![c] = IF sending = c THEN "worker" ELSE "free"]
  /\ broken' = broken \cup {c}
  /\ out' = [out EXCEPT ![c] = <<>>]
  /\ UNCHANGED <<stateVars, pending, workVars, resultVars, lines>>

-----------------------------------------------------------------------------
(* The compute worker.                                                     *)

(* Mutant: the slot is not emptied when its job is taken.                  *)
TakeJobAgain ==
  /\ worker = "wait"
  /\ pending # Nothing
  /\ job' = pending
  /\ worker' = "computing"
  /\ UNCHANGED <<stateVars, pending, todo, sending, failed, message, resultVars, connVars,
                 lines>>

TakeJob ==
  /\ worker = "wait"
  /\ pending # Nothing
  /\ job' = pending
  /\ pending' = Nothing
  /\ worker' = "computing"
  /\ UNCHANGED <<stateVars, todo, sending, failed, message, resultVars, connVars, lines>>

(* The broadcast of m goes on with one of the connections in rest (they    *)
(* come from a set: any order), or ends, when those in bad, which could    *)
(* not be served, are no longer subscribers.  send writes at once if the   *)
(* connection's lock is free and waits for the lock otherwise.  now and    *)
(* locks are out and lock after what the step did before.                  *)
BroadcastTo(m, rest, bad, now, locks) ==
  \/ /\ rest = {}
     /\ worker' = "wait"
     /\ message' = Nothing
     /\ todo' = {}
     /\ sending' = Nothing
     /\ failed' = {}
     /\ clients' = clients \ bad
     /\ out' = now
     /\ lock' = locks
  \/ /\ worker' = "broadcast"
     /\ message' = m
     /\ failed' = bad
     /\ UNCHANGED clients
     /\ \E c \in rest :
          /\ sending' = c
          /\ todo' = rest \ {c}
          /\ IF locks[c] = "free"
             THEN /\ lock' = [locks EXCEPT ![c] = "worker"]
                  /\ out' = IF handler[c] = "gone" THEN now ELSE Write(now, c, m)
             ELSE lock' = locks /\ out' = now

(* The computation raised: the error is kept and broadcast, and the job is *)
(* not tried again.                                                        *)
ComputeFails ==
  /\ ComputeMayFail
  /\ worker = "computing"
  /\ lastError' = TRUE
  /\ BroadcastTo(ComputeError(job), clients, {}, out, lock)
  /\ UNCHANGED <<stateVars, pending, job, computed, latest, handler, reply, broken, lines>>

(* Mutant: a stale result takes the job in the slot with it.               *)
StaleEmptiesSlot ==
  /\ worker = "computing"
  /\ job < revision
  /\ lastError' = FALSE
  /\ worker' = "wait"
  /\ pending' = Nothing
  /\ UNCHANGED <<stateVars, job, todo, sending, failed, message, computed, latest, connVars,
                 lines>>

(* The result is dropped because a newer revision was accepted meanwhile.  *)
ResultIsStale ==
  /\ worker = "computing"
  /\ job < revision
  /\ lastError' = FALSE
  /\ worker' = "wait"
  /\ UNCHANGED <<stateVars, pending, job, todo, sending, failed, message, computed, latest,
                 connVars, lines>>

(* The result is recorded, and its broadcast to a copy of the set of       *)
(* subscribers starts.                                                     *)
Publish ==
  /\ worker = "computing"
  /\ job >= revision
  /\ lastError' = FALSE
  /\ latest' = job
  /\ computed' = job
  /\ BroadcastTo(Metrics(job), clients, {}, out, lock)
  /\ UNCHANGED <<stateVars, pending, job, handler, reply, broken, lines>>

(* MetricsStore.record raises after it replaced the latest result; nothing *)
(* catches it and the worker's task ends.                                  *)
RecordFails ==
  /\ CsvMayFail
  /\ worker = "computing"
  /\ job >= revision
  /\ lastError' = FALSE
  /\ latest' = job
  /\ worker' = "dead"
  /\ UNCHANGED <<stateVars, pending, job, todo, sending, failed, message, computed,
                 connVars, lines>>

(* The worker releases c's lock; a handler that waits for it writes.       *)
OutAfter(c) == IF handler[c] = "blocked" THEN Write(out, c, reply[c]) ELSE out
LockAfter(c) ==
  [lock EXCEPT ![c] = IF handler[c] = "blocked" THEN "handler" ELSE "free"]
ResumeHandler(c) ==
  IF handler[c] = "blocked"
  THEN /\ reply' = [reply EXCEPT ![c] = Nothing]
       /\ handler' = [handler EXCEPT ![c] = Written(reply[c])]
  ELSE UNCHANGED <<reply, handler>>

(* Mutant: the lock is not fair; as long as there is a job for the worker, *)
(* a handler that waits for the lock does not get it.                      *)
WorkerBarges(c) ==
  /\ sending = c
  /\ lock[c] = "worker"
  /\ IF pending # Nothing
     THEN /\ UNCHANGED <<reply, handler>>
          /\ BroadcastTo(message, todo, failed, out, [lock EXCEPT ![c] = "free"])
     ELSE /\ ResumeHandler(c)
          /\ BroadcastTo(message, todo, failed, OutAfter(c), LockAfter(c))
  /\ UNCHANGED <<stateVars, pending, job, resultVars, broken, lines>>

(* The drain of the worker ends, or raises because the peer is gone, and   *)
(* the broadcast goes on.                                                  *)
WorkerSent(c) ==
  /\ sending = c
  /\ lock[c] = "worker"
  /\ ResumeHandler(c)
  /\ BroadcastTo(message, todo, IF c \in broken THEN failed \cup {c} ELSE failed,
                 OutAfter(c), LockAfter(c))
  /\ UNCHANGED <<stateVars, pending, job, resultVars, broken, lines>>

(* close cancels the worker wherever it waits.                             *)
Close ==
  /\ worker # "closed"
  /\ worker' = "closed"
  /\ todo' = {}
  /\ sending' = Nothing
  /\ IF sending # Nothing /\ lock[sending] = "worker"
     THEN /\ ResumeHandler(sending)
          /\ out' = OutAfter(sending)
          /\ lock' = LockAfter(sending)
     ELSE UNCHANGED <<lock, out, reply, handler>>
  /\ UNCHANGED <<stateVars, pending, job, failed, message, resultVars, clients, broken, lines>>

Next ==
  \/ \E c \in Clients : \/ Accept(c)
                        \/ \E r \in Requests, valid \in BOOLEAN : HandleLine(c, r, valid)
                        \/ HandlerDrained(c)
                        \/ Break(c)
                        \/ HandlerEnds(c)
                        \/ WorkerSent(c)
  \/ TakeJob
  \/ ComputeFails
  \/ ResultIsStale
  \/ Publish
  \/ RecordFails
  \/ Close

(* The event loop runs what is ready, a computation ends, and a drain ends *)
(* because the peer reads or because it is gone.  Clients owe nothing.     *)
Fairness ==
  /\ WF_vars(TakeJob)
  /\ WF_vars(ComputeFails \/ ResultIsStale \/ Publish \/ RecordFails)
  /\ \A c \in Clients : /\ WF_vars(HandlerDrained(c))
                        /\ WF_vars(HandlerEnds(c))
                        /\ WF_vars(WorkerSent(c))

Spec == Init /\ [][Next]_vars
FairSpec == Spec /\ Fairness

-----------------------------------------------------------------------------
(* Properties.                                                             *)

Carried(c) == {i \in 1 .. Len(out[c]) : out[c][i].type = "ns3_metrics"}
Broadcasts(c) ==
  {i \in 1 .. Len(out[c]) : \/ out[c][i].type = "ns3_metrics" /\ ~out[c][i].query
                            \/ out[c][i].type = "ns3_error" /\ out[c][i].code = 2001}

(* On every connection the broadcast outcomes (results and compute errors) *)
(* come in strictly increasing order of revision, and results that answer  *)
(* queries never go back: the gates in AFSIM, which only take a larger     *)
(* revision, lose nothing.                                                 *)
ResultsInOrder ==
  \A c \in Clients :
    /\ \A i, j \in Broadcasts(c) : i < j => out[c][i].revision < out[c][j].revision
    /\ \A i, j \in Carried(c) : i < j => out[c][i].revision <= out[c][j].revision

(* A connection learns that its request was accepted before it gets the    *)
(* result of that request, although handler and worker write to it         *)
(* independently.                                                          *)
AckBeforeResult ==
  \A c \in Clients :
    \A i \in 1 .. Len(out[c]), j \in Broadcasts(c) :
      out[c][i].type = "ns3_ack" /\ ~out[c][i].duplicate =>
        (out[c][i].revision = out[c][j].revision => i < j)

(* A worker at rest with an empty slot has dealt with the newest state:    *)
(* coalescing and the dropping of stale results never lose the last one.   *)
NewestIsSettled ==
  worker = "wait" /\ pending = Nothing /\ revision > 0 =>
    computed = revision \/ (job = revision /\ lastError)

(* A request identifier is applied again only after the cache has moved on *)
(* by its whole size: a retry within that window has no effect.            *)
RetryHasNoEffect ==
  \A i, j \in 1 .. Len(accepted) :
    i < j /\ accepted[i] = accepted[j] => j - i > CacheSize

(* "A result for an old revision must never re-enable a subsystem": no     *)
(* connection gets a result older than a request it was told is accepted.  *)
NoResultAfterNewerAck ==
  \A c \in Clients :
    \A i \in 1 .. Len(out[c]), j \in Broadcasts(c) :
      out[c][i].type = "ns3_ack" /\ out[c][j].type = "ns3_metrics" /\ i < j =>
        out[c][j].revision >= out[c][i].revision

(* The newest accepted state is eventually computed, unless its            *)
(* computation fails or the service is closed.                             *)
LatestIsComputed ==
  [](revision > 0 => <>(\/ latest = revision
                        \/ job = revision /\ lastError
                        \/ worker = "closed"))

(* The same as long as the worker lives: however handlers replace the job, *)
(* results go stale and connections break, the newest accepted state is    *)
(* not left without a result.                                              *)
LatestIsDealtWith ==
  [](revision > 0 => <>(\/ latest = revision
                        \/ job = revision /\ lastError
                        \/ worker \in {"closed", "dead"}))

=============================================================================
