----------------------------- MODULE StateSync -----------------------------
(***************************************************************************)
(* The path of AFSIM's state to the service's copy of it.                  *)
(*                                                                         *)
(* Three actors.  The simulation thread reports a state on every tick      *)
(* (AfsimBridgeController::SubmitCurrentState), which queues a delta, or a *)
(* full state when the queue is at its limit.  The network thread of       *)
(* TcpJsonlClient connects, sends the cached full state first and then the *)
(* queue, and reconnects when the connection fails.  The service reads the *)
(* lines of its connections and applies them to its StateStore.            *)
(*                                                                         *)
(* Connections break, losing the tail of what they carried; the service    *)
(* restarts and forgets its state and its request identifiers.  TCP orders *)
(* the lines of one connection only: with Lingering, lines of an abandoned *)
(* connection may still be read after those of its successor.              *)
(***************************************************************************)
EXTENDS StateDelta, Naturals, Sequences

CONSTANTS
  Worlds,      \* the states CollectState can report
  FirstWorlds, \* those it can report on the first tick
  Nothing,     \* no message, no state
  MaxPending,  \* TcpClientConfig::maxPendingMessages
  Lingering,   \* do lines of an old connection outlive the reconnect?
  MaxReports,  \* bound: states reported
  MaxConns     \* bound: connections; the last one does not fail

ASSUME SyncConstants ==
  /\ Worlds \subseteq State
  /\ FirstWorlds \subseteq Worlds
  /\ Nothing \notin State
  /\ MaxPending \in Nat \ {0}
  /\ Lingering \in BOOLEAN
  /\ MaxReports \in Nat
  /\ MaxConns \in Nat

VARIABLES
  \* the simulation thread
  mBaseline,   \* the tracker's maps; Nothing while it is not initialized
  reported,    \* history: the states queued so far; its length is the clock
  \* the client's queue, shared by its two threads under mQueueMutex
  mPending,
  mResync,     \* the cached full state
  \* the network thread
  mRunning,
  connected,   \* inside ProcessConnection
  current,     \* the message being sent
  \* the network
  conn,        \* number of the latest connection
  link,        \* is the latest connection intact?
  wire,        \* lines sent and not yet read, with their connection
  \* the service's StateStore and idempotency cache
  copy,        \* entities and flows; Nothing while not initialized
  storeTime,   \* timestamp of the last accepted message
  remembered   \* request identifiers of the accepted messages

simVars == <<mBaseline, reported>>
queueVars == <<mPending, mResync>>
threadVars == <<mRunning, connected, current>>
netVars == <<conn, link, wire>>
storeVars == <<copy, storeTime, remembered>>
vars == <<simVars, queueVars, threadVars, netVars, storeVars>>

-----------------------------------------------------------------------------

(* Messages.  A tick that finds no change sends nothing, so ticks are      *)
(* numbered by the reports that are sent; the number stands for both the   *)
(* timestamp, which grows by at least 50 ms per tick, and the tick counter *)
(* in the request identifier.                                              *)
InitMsg(t, w) == [type |-> "afsim_init", time |-> t, body |-> w]
DeltaMsg(t, d) == [type |-> "afsim_delta", time |-> t, body |-> d]

(* "<run>-<tick>" and "<run>-<tick>-resync" are distinct identifiers, and  *)
(* only the first report is an init without the suffix.                    *)
RequestId(m) == <<m.type, m.time>>

Messages == [type : {"afsim_init"}, time : Nat, body : State]
              \cup [type : {"afsim_delta"}, time : Nat, body : Deltas]

RequestIds == {"afsim_init", "afsim_delta"} \X Nat

(* A line on the wire, with the connection that carries it.                *)
Lines == [conn : Nat, msg : Messages]

ASSUME NothingIsNoMessage == Nothing \notin Messages

(* The sequence without its i-th element.                                  *)
DropAt(s, i) == [j \in 1 .. Len(s) - 1 |-> IF j < i THEN s[j] ELSE s[j + 1]]

TypeOK ==
  /\ mBaseline \in Worlds \cup {Nothing}
  /\ reported \in Seq(Worlds)
  /\ mPending \in Seq(Messages)
  /\ mResync \in Messages \cup {Nothing}
  /\ mRunning \in BOOLEAN
  /\ connected \in BOOLEAN
  /\ current \in Messages \cup {Nothing}
  /\ conn \in Nat
  /\ link \in BOOLEAN
  /\ wire \in Seq(Lines)
  /\ copy \in State \cup {Nothing}
  /\ storeTime \in Nat
  /\ remembered \subseteq RequestIds

Init ==
  /\ mBaseline = Nothing
  /\ reported = <<>>
  /\ mPending = <<>>
  /\ mResync = Nothing
  /\ mRunning = TRUE
  /\ connected = FALSE
  /\ current = Nothing
  /\ conn = 0
  /\ link = FALSE
  /\ wire = <<>>
  /\ copy = Nothing
  /\ storeTime = 0
  /\ remembered = {}

-----------------------------------------------------------------------------
(* The simulation thread.                                                  *)

(* SubmitInitial and QueueInitial: a full state supersedes the queue.      *)
SubmitInitial(w) ==
  LET m == InitMsg(Len(reported) + 1, w)
  IN  /\ mBaseline' = w
      /\ reported' = Append(reported, w)
      /\ mResync' = m
      /\ mPending' = <<m>>

(* Mutant: QueueDelta does not look at the limit.                          *)
SubmitDeltaUnbounded(w, delta) ==
  LET t == Len(reported) + 1
  IN  /\ mBaseline' = w
      /\ reported' = Append(reported, w)
      /\ mResync' = InitMsg(t, w)
      /\ mPending' = Append(mPending, DeltaMsg(t, delta))

(* Mutant: QueueDelta caches the full state only when it queues it.        *)
SubmitDeltaStaleCache(w, delta) ==
  LET t == Len(reported) + 1
      full == Len(mPending) >= MaxPending
  IN  /\ mBaseline' = w
      /\ reported' = Append(reported, w)
      /\ mResync' = IF full THEN InitMsg(t, w) ELSE mResync
      /\ mPending' = IF full THEN <<InitMsg(t, w)>>
                     ELSE Append(mPending, DeltaMsg(t, delta))

(* SubmitDelta and QueueDelta: the full state is cached, and replaces the  *)
(* queue when the queue is at its limit.                                   *)
SubmitDelta(w, delta) ==
  LET t == Len(reported) + 1
  IN  /\ mBaseline' = w
      /\ reported' = Append(reported, w)
      /\ mResync' = InitMsg(t, w)
      /\ mPending' = IF Len(mPending) >= MaxPending
                     THEN <<InitMsg(t, w)>>
                     ELSE Append(mPending, DeltaMsg(t, delta))

(* A tick that has something to send; one that does not changes nothing.   *)
SubmitCurrentState(w) ==
  /\ mRunning
  /\ Len(reported) < MaxReports
  /\ \/ /\ mBaseline = Nothing
        /\ w \in FirstWorlds
        /\ SubmitInitial(w)
     \/ /\ mBaseline # Nothing
        /\ ~Empty(Update(mBaseline, w))
        /\ SubmitDelta(w, Update(mBaseline, w))
  /\ UNCHANGED <<threadVars, netVars, storeVars>>

(* Complete stops the client; nothing is flushed.                          *)
Stop ==
  /\ mRunning
  /\ mRunning' = FALSE
  /\ UNCHANGED <<simVars, queueVars, connected, current, netVars, storeVars>>

-----------------------------------------------------------------------------
(* The network thread.                                                     *)

(* Mutant: a reconnect goes on with the queue as it is.                    *)
ConnectResumesQueue ==
  /\ mRunning
  /\ ~connected
  /\ conn < MaxConns
  /\ connected' = TRUE
  /\ conn' = conn + 1
  /\ link' = TRUE
  /\ UNCHANGED <<simVars, queueVars, current, mRunning, wire, storeVars>>

(* Mutant: a reconnect sends the cached state and keeps the queue.         *)
ConnectKeepsQueue ==
  /\ mRunning
  /\ ~connected
  /\ conn < MaxConns
  /\ connected' = TRUE
  /\ current' = mResync
  /\ conn' = conn + 1
  /\ link' = TRUE
  /\ UNCHANGED <<simVars, queueVars, mRunning, wire, storeVars>>

(* Connect succeeds and ProcessConnection starts from the cached state.    *)
Connect ==
  /\ mRunning
  /\ ~connected
  /\ conn < MaxConns
  /\ connected' = TRUE
  /\ current' = mResync
  /\ mPending' = <<>>
  /\ conn' = conn + 1
  /\ link' = TRUE
  /\ UNCHANGED <<simVars, mResync, mRunning, wire, storeVars>>

TakePending ==
  /\ mRunning
  /\ connected
  /\ current = Nothing
  /\ mPending # <<>>
  /\ current' = Head(mPending)
  /\ mPending' = Tail(mPending)
  /\ UNCHANGED <<simVars, mResync, mRunning, connected, netVars, storeVars>>

(* SendAll returns true: the kernel has the line, and delivers it only if  *)
(* the connection still works.                                             *)
SendSucceeds ==
  /\ connected
  /\ current # Nothing
  /\ current' = Nothing
  /\ wire' = IF link THEN Append(wire, [conn |-> conn, msg |-> current]) ELSE wire
  /\ UNCHANGED <<simVars, queueVars, mRunning, connected, conn, link, storeVars>>

(* SendAll returns false: the message goes back to the front of the queue  *)
(* and the socket is closed.  When only the newline was missing the        *)
(* service still reads a complete line.                                    *)
SendFails ==
  /\ connected
  /\ current # Nothing
  /\ ~link \/ conn < MaxConns
  /\ mPending' = <<current>> \o mPending
  /\ current' = Nothing
  /\ connected' = FALSE
  /\ link' = FALSE
  /\ \/ wire' = wire
     \/ link /\ wire' = Append(wire, [conn |-> conn, msg |-> current])
  /\ UNCHANGED <<simVars, mResync, mRunning, conn, storeVars>>

(* Mutant: the end of the stream is not noticed by the receiving side.     *)
HangupOnStop ==
  /\ connected
  /\ current = Nothing
  /\ ~mRunning
  /\ connected' = FALSE
  /\ link' = FALSE
  /\ UNCHANGED <<simVars, queueVars, mRunning, current, conn, wire, storeVars>>

(* recv reports the end of the stream or an error, the receive buffer is   *)
(* over its limit, or the client was stopped: ProcessConnection returns.   *)
Hangup ==
  /\ connected
  /\ current = Nothing
  /\ ~link \/ conn < MaxConns \/ ~mRunning
  /\ connected' = FALSE
  /\ link' = FALSE
  /\ UNCHANGED <<simVars, queueVars, mRunning, current, conn, wire, storeVars>>

-----------------------------------------------------------------------------
(* The network and the service.                                            *)

(* The connection breaks; the client finds out by SendFails or Hangup.     *)
LinkBreaks ==
  /\ link
  /\ conn < MaxConns
  /\ link' = FALSE
  /\ UNCHANGED <<simVars, queueVars, threadVars, conn, wire, storeVars>>

(* A broken connection loses the last line it still carries.               *)
LoseTail ==
  \E i \in 1 .. Len(wire) :
    /\ wire[i].conn # conn \/ ~link
    /\ \A j \in (i + 1) .. Len(wire) : wire[j].conn # wire[i].conn
    /\ wire' = DropAt(wire, i)
    /\ UNCHANGED <<simVars, queueVars, threadVars, conn, link, storeVars>>

(* BridgeService.process.  A remembered request is answered from the       *)
(* cache; initialize checks the references; apply_delta also requires a    *)
(* state and a timestamp that does not move backwards.  A rejected message *)
(* changes nothing, and the client ignores the error response.             *)
Accepts(m) ==
  /\ RequestId(m) \notin remembered
  /\ \/ m.type = "afsim_init" /\ ValidReferences(m.body)
     \/ /\ m.type = "afsim_delta"
        /\ copy # Nothing
        /\ m.time >= storeTime
        /\ ValidReferences(ApplyDelta(copy, m.body))

(* Mutant: a delta replaces the state.                                     *)
ProcessWithoutMerge(m) ==
  IF Accepts(m)
  THEN /\ copy' = m.body
       /\ storeTime' = m.time
       /\ remembered' = remembered \cup {RequestId(m)}
  ELSE UNCHANGED storeVars

(* Mutant: a full state is merged into the one that is there.              *)
ProcessMergesInit(m) ==
  IF Accepts(m)
  THEN /\ copy' = IF m.type = "afsim_delta" THEN ApplyDelta(copy, m.body)
                  ELSE IF copy = Nothing THEN m.body
                  ELSE [entities |-> Patch(copy.entities, {}, m.body.entities),
                        flows |-> Patch(copy.flows, {}, m.body.flows)]
       /\ storeTime' = m.time
       /\ remembered' = remembered \cup {RequestId(m)}
  ELSE UNCHANGED storeVars

Process(m) ==
  IF Accepts(m)
  THEN /\ copy' = IF m.type = "afsim_init" THEN m.body ELSE ApplyDelta(copy, m.body)
       /\ storeTime' = m.time
       /\ remembered' = remembered \cup {RequestId(m)}
  ELSE UNCHANGED storeVars

(* _handle_client reads the next line of one of the connections.           *)
ReadLine ==
  \E i \in 1 .. Len(wire) :
    /\ i = 1 \/ Lingering
    /\ \A j \in 1 .. (i - 1) : wire[j].conn # wire[i].conn
    /\ Process(wire[i].msg)
    /\ wire' = DropAt(wire, i)
    /\ UNCHANGED <<simVars, queueVars, threadVars, conn, link>>

(* The service process ends and a new one listens.                         *)
ServiceRestarts ==
  /\ conn < MaxConns
  /\ copy' = Nothing
  /\ storeTime' = 0
  /\ remembered' = {}
  /\ wire' = <<>>
  /\ link' = FALSE
  /\ UNCHANGED <<simVars, queueVars, threadVars, conn>>

Next ==
  \/ \E w \in Worlds : SubmitCurrentState(w)
  \/ Stop
  \/ Connect
  \/ TakePending
  \/ SendSucceeds
  \/ SendFails
  \/ Hangup
  \/ LinkBreaks
  \/ LoseTail
  \/ ReadLine
  \/ ServiceRestarts

(* The loops of the network thread and of the service run on; the          *)
(* simulation, the network's faults and Stop owe nothing.                  *)
Fairness ==
  /\ WF_vars(Connect)
  /\ WF_vars(TakePending)
  /\ WF_vars(SendSucceeds)
  /\ WF_vars(Hangup /\ ~link)
  /\ WF_vars(ReadLine)

Spec == Init /\ [][Next]_vars
FairSpec == Spec /\ Fairness

-----------------------------------------------------------------------------
(* Properties.                                                             *)

(* Whatever was lost, resent, superseded or cut short by a reconnect, the  *)
(* service's copy (StateStore._entities and _flows) is exactly one of the  *)
(* states AFSIM reported: the one with the copy's timestamp.  A delta is   *)
(* never merged into another base than the one it was computed from.       *)
CopyWasReported ==
  copy # Nothing => /\ storeTime \in 1 .. Len(reported)
                    /\ copy = reported[storeTime]

(* "Lossless reconnect recovery": when a working connection has nothing    *)
(* left to send or to read, the service has the state AFSIM is in.         *)
Drained ==
  /\ connected
  /\ link
  /\ current = Nothing
  /\ mPending = <<>>
  /\ wire = <<>>

SyncedWhenDrained == Drained => copy = mBaseline

(* The queue never holds more than the limit and the one message that a    *)
(* failed SendAll puts back in front of it.                                *)
QueueBounded == Len(mPending) <= MaxPending + 1

(* The messages of the client and of the network are a chain.  These are   *)
(* the parts of the inductive invariant.                                   *)

(* A message stands for one of the reports r: its whole state, or the      *)
(* change that led to it.                                                  *)
Genuine(m, r) ==
  /\ m.time \in 1 .. Len(r)
  /\ \/ m.type = "afsim_init" /\ m.body = r[m.time]
     \/ /\ m.type = "afsim_delta"
        /\ m.time > 1
        /\ m.body = Update(r[m.time - 1], r[m.time])

(* m may be read right after a message, or a store, of time t: a full      *)
(* state of the same or a later report, or the change that follows t.      *)
Follows(m, t) ==
  IF m.type = "afsim_init" THEN m.time >= t ELSE m.time = t + 1

BaselineIsLast ==
  /\ mBaseline = IF reported = <<>> THEN Nothing ELSE reported[Len(reported)]
  /\ mResync = IF reported = <<>> THEN Nothing
               ELSE InitMsg(Len(reported), reported[Len(reported)])

QueueChained ==
  /\ \A i \in 1 .. Len(mPending) : Genuine(mPending[i], reported)
  /\ \A i \in 1 .. Len(mPending) - 1 : Follows(mPending[i + 1], mPending[i].time)
  /\ mPending # <<>> => mPending[Len(mPending)].time = Len(reported)

CurrentChained ==
  /\ ~connected => current = Nothing
  /\ current # Nothing =>
       /\ Genuine(current, reported)
       /\ IF mPending = <<>> THEN current.time = Len(reported)
          ELSE Follows(mPending[1], current.time)

(* Connections follow each other, and a delta is never the first line of   *)
(* one.                                                                    *)
WireChained ==
  /\ \A i \in 1 .. Len(wire) : Genuine(wire[i].msg, reported) /\ wire[i].conn <= conn
  /\ \A i \in 1 .. Len(wire) - 1 :
       /\ wire[i].conn <= wire[i + 1].conn
       /\ Follows(wire[i + 1].msg, wire[i].msg.time)
       /\ wire[i + 1].msg.type = "afsim_delta" => wire[i].conn = wire[i + 1].conn

StoreChained ==
  /\ CopyWasReported
  /\ copy = Nothing => storeTime = 0
  /\ \A id \in remembered : id[2] <= storeTime
  /\ wire # <<>> => /\ Follows(wire[1].msg, storeTime)
                    /\ wire[1].msg.type = "afsim_delta" => copy # Nothing

(* The time up to which the latest connection has been fed, and whether a  *)
(* delta may be its next line.                                             *)
Tip == IF wire = <<>> THEN storeTime ELSE wire[Len(wire)].msg.time
Fed == IF wire = <<>> THEN copy # Nothing ELSE wire[Len(wire)].conn = conn

NextChained ==
  connected /\ link =>
    LET m == IF current # Nothing THEN current ELSE mPending[1]
    IN  IF current = Nothing /\ mPending = <<>>
        THEN reported # <<>> => Tip = Len(reported) /\ Fed
        ELSE Follows(m, Tip) /\ (m.type = "afsim_delta" => Fed)

(* With one reader per stream of lines, the store, the wire, the message   *)
(* being sent and the queue are one chain of reports that ends in the      *)
(* tracker's baseline.                                                     *)
DeliveryChain ==
  /\ BaselineIsLast
  /\ QueueChained
  /\ CurrentChained
  /\ WireChained
  /\ StoreChained
  /\ NextChained

(* The protocol implements its abstract specification.                     *)
Replica == INSTANCE ReplicatedState WITH at <- storeTime
ImplementsReplica == Replica!AbsSpec

(* Once AFSIM's state and the network settle, the service gets that state, *)
(* unless the client was stopped first.                                    *)
EventuallySynced == <>[](mRunning => copy = mBaseline)

=============================================================================
