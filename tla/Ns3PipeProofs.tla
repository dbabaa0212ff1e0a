--------------------------- MODULE Ns3PipeProofs ---------------------------
(***************************************************************************)
(* Proofs about Ns3Pipe: its types, with the counts of the runner's        *)
(* scenario; that compute returns only what was measured for its own call; *)
(* that the two sides stay in step while every line can be parsed; and     *)
(* that what is returned, and what its readers make of it, agrees with the *)
(* topology of the snapshot it was calculated from.                        *)
(*                                                                         *)
(* All of it is said of two sequences.  In is every line that compute has  *)
(* still to write or that is in the pipe to the runner; Out is every line  *)
(* in the pipe from the runner or still to be printed.  Writing and        *)
(* printing change neither, so that the size of the pipes does not matter. *)
(***************************************************************************)
EXTENDS Ns3Pipe, ScenarioProofs

(* The lines on their way to the runner, written or not, and those on      *)
(* their way back, in a pipe or not.                                       *)
In == stdin \o unsent
Out == stdout \o printing

Busy == caller \in {"writing", "reading"}
JobLines == ScenarioLines(job, snapshot)

(* What can be in the pipes, and what the runner can have read.            *)
LinesOf(n, s) == {ScenarioLines(n, s)[k] : k \in 1 .. Len(ScenarioLines(n, s))}
ScenarioInput == UNION {LinesOf(n, s) : n \in 1 .. MaxJobs, s \in Snapshots}
InputLines == ScenarioInput \cup {Command("QUIT")}
OutputLines ==
  {ErrorLine}
    \cup [type : {"DONE"}, id : 0 .. MaxJobs]
    \cup [type : {"RESULT"}, id : 0 .. MaxJobs, index : Nat,
          values : [connected : BOOLEAN, quality : Qualities]]
Data == {line.value : line \in {l \in InputLines : l.type \in {"NODE", "LINK", "FLOW"}}}
Scenarios ==
  [id : 0 .. MaxJobs, expected : Nat \X Nat \X Nat, nodes : Seq(Data), links : Seq(Data),
   flows : Seq(Data), throws : BOOLEAN]

ProcTypeOK ==
  /\ handle \in BOOLEAN
  /\ alive \in BOOLEAN
  /\ alive => handle
  /\ stdin \in Seq(InputLines) /\ Len(stdin) <= PipeLines
  /\ stdout \in Seq(OutputLines) /\ Len(stdout) <= PipeLines
  /\ scenario \in Scenarios
  /\ printing \in Seq(OutputLines)

CallTypeOK ==
  /\ caller \in {"idle", "writing", "reading", "closing", "closed"}
  /\ unsent \in Seq(InputLines)
  /\ unsent # <<>> <=> caller = "writing"
  /\ job \in 0 .. MaxJobs
  /\ snapshot \in Snapshots \cup {Nothing}
  /\ Busy => job # 0 /\ snapshot \in Snapshots
  /\ crashes \in 0 .. MaxCrashes

Answers(k) == Out[k].type \in {"RESULT", "DONE"}

(* Nothing on its way is of a job that has not been called.                *)
NothingFromTheFuture ==
  /\ scenario.id <= job
  /\ \A k \in 1 .. Len(In) : In[k].type = "SCENARIO" => In[k].value.id <= job
  /\ \A k \in 1 .. Len(Out) : Answers(k) => Out[k].id <= job

(* The last lines on their way are the ones of the job, whose name is only *)
(* in the first of these.                                                  *)
JobComesLast ==
  Busy => \A k \in 1 .. Len(In) :
            /\ Len(In) - k < Len(JobLines) => In[k] = JobLines[Len(JobLines) - (Len(In) - k)]
            /\ In[k].type = "SCENARIO" /\ In[k].value.id = job => Len(In) - k = Len(JobLines) - 1

(* What the runner has if its scenario is the job's.                       *)
OwnScenario ==
  Busy /\ scenario.id = job =>
    /\ Len(In) < Len(JobLines)
    /\ scenario.throws = snapshot.throws
    /\ scenario.expected[3] = Len(snapshot.flows)
    /\ \A k \in 1 .. Len(JobLines) - Len(In) : ~JobLines[k].odd

OwnAnswer(k) == Answers(k) /\ Out[k].id = job
OwnMeasure(i) == i \in DOMAIN measured /\ measured[i].from = job

AnswersComeLast ==
  Busy => /\ (\E k \in 1 .. Len(Out) : OwnAnswer(k)) => In = <<>>
          /\ (\E i \in DOMAIN measured : OwnMeasure(i)) => In = <<>>

OwnResultsOnly ==
  Busy => \A k \in 1 .. Len(Out) :
            Out[k].type = "RESULT"
              /\ (\/ \E j \in 1 .. k - 1 : OwnAnswer(j)
                  \/ \E i \in DOMAIN measured : OwnMeasure(i))
            => Out[k].id = job

DoneCompletes ==
  Busy => \A k \in 1 .. Len(Out) :
            Out[k].type = "DONE" /\ Out[k].id = job =>
              /\ ~snapshot.throws
              /\ ~HasOddRecord(snapshot)
              /\ \A i \in 1 .. Len(snapshot.flows) :
                   \/ OwnMeasure(i)
                   \/ \E j \in 1 .. k - 1 : /\ Out[j].type = "RESULT"
                                            /\ Out[j].id = job
                                            /\ Out[j].index = i

InStep ==
  alive /\ ~tainted =>
    /\ caller = "idle" => In = <<>> /\ Out = <<>>
    /\ Busy =>
         /\ Len(In) <= Len(JobLines)
         /\ In # <<>> => Out = <<>>
         /\ In = <<>> => /\ Out # <<>>
                         /\ \A k \in 1 .. Len(Out) :
                              Out[k].type \in {"ERROR", "DONE"} <=> k = Len(Out)
         /\ \A k \in 1 .. Len(stdin) : ~stdin[k].odd

-----------------------------------------------------------------------------
(* What a scenario of the runner holds after p lines of a snapshot.        *)
Cap(r, n) == IF r < 0 THEN 0 ELSE IF r < n THEN r ELSE n
Expected(s) == <<Len(s.entities), Len(Links(s)), Len(s.flows)>>
CountsAfter(s, p) ==
  <<Cap(p - 1, Len(s.entities)),
    Cap(p - 1 - Len(s.entities), Len(Links(s))),
    Cap(p - 1 - Len(s.entities) - Len(Links(s)), Len(s.flows))>>

(* The first p lines of the scenario being read, its others come next in V *)
(* after place o, and then another scenario.                               *)
Continues(V, o, n, s, p) ==
  LET L == ScenarioLines(n, s)
      left == Len(L) - p
  IN  /\ o + left <= Len(V)
      /\ \A k \in 1 .. left : V[o + k] = L[p + k]
      /\ o + left < Len(V) => V[o + left + 1].type \in {"SCENARIO", "QUIT"}

(* The runner has all the lines of a scenario before the ones of the next. *)
WholeJobs ==
  alive => \A k \in 1 .. Len(In) :
    In[k].type = "SCENARIO" =>
      \E s \in Snapshots : /\ In[k].value.expected = Expected(s)
                           /\ Continues(In, k, In[k].value.id, s, 1)

(* What a named scenario holds is what its lines so far say.               *)
InPosition ==
  alive /\ scenario.id # 0 =>
    \E s \in Snapshots :
      \E p \in 1 .. Len(ScenarioLines(scenario.id, s)) :
         /\ scenario.expected = Expected(s)
         /\ Counts(scenario) = CountsAfter(s, p)
         /\ Continues(In, 0, scenario.id, s, p)

CountBound ==
  scenario.id # 0 => \A i \in 1 .. 3 : Counts(scenario)[i] <= scenario.expected[i]

-----------------------------------------------------------------------------
(* Lemmas about the lines of a scenario.                                   *)

(* What of a snapshot says how many lines its scenario has.                *)
LEMMA SnapshotSizes ==
  ASSUME NEW s \in Snapshots
  PROVE  /\ IsSnapshot(s)
         /\ s.throws \in BOOLEAN
         /\ Len(s.entities) \in Nat /\ Len(Links(s)) \in Nat /\ Len(s.flows) \in Nat
<1>1. IsSnapshot(s)
  BY PipeConstants
<1> QED
  BY <1>1, SnapshotFacts, LinksFacts

(* The records of a snapshot: its nodes, then its links, then its flows.   *)
InOrder(r, e, l, f) ==
  /\ {e, l, f} \subseteq Nat
  /\ Len(r) = e + l + f
  /\ \E R : r \in Seq(R)
  /\ \A k \in 1 .. e : r[k].type = "NODE"
  /\ \A k \in 1 .. l : r[e + k].type = "LINK"
  /\ \A k \in 1 .. f : r[e + l + k].type = "FLOW"

SaysRecords(r, s, e, l, f) ==
  /\ \A k \in 1 .. e : r[k] = NodeRecords(s)[k]
  /\ \A k \in 1 .. l : r[e + k] = LinkRecords(s)[k]
  /\ \A k \in 1 .. f : r[e + l + k] = FlowRecords(s)[k]

(* compute writes the records of a snapshot in the order nodes, links,     *)
(* flows.                                                                  *)
LEMMA RecordFacts ==
  ASSUME NEW s \in Snapshots
  PROVE  /\ InOrder(Records(s), Len(s.entities), Len(Links(s)), Len(s.flows))
         /\ SaysRecords(Records(s), s, Len(s.entities), Len(Links(s)), Len(s.flows))
<1> DEFINE e == Len(s.entities)
           l == Len(Links(s))
           f == Len(s.flows)
<1> SUFFICES InOrder(Records(s), e, l, f) /\ SaysRecords(Records(s), s, e, l, f)
  OBVIOUS
<1> DEFINE N == NodeRecords(s)
           K == LinkRecords(s)
           F == FlowRecords(s)
           R == {N[i] : i \in 1 .. e} \cup {K[i] : i \in 1 .. l} \cup {F[i] : i \in 1 .. f}
<1>1. e \in Nat /\ l \in Nat /\ f \in Nat
  BY SnapshotSizes
<1>2. N = [i \in 1 .. e |-> N[i]] /\ \A i \in 1 .. e : N[i].type = "NODE"
  BY DEF NodeRecords
<1>3. K = [i \in 1 .. l |-> K[i]] /\ \A i \in 1 .. l : K[i].type = "LINK"
  BY DEF LinkRecords
<1>4. F = [i \in 1 .. f |-> F[i]] /\ \A i \in 1 .. f : F[i].type = "FLOW"
  BY DEF FlowRecords
<1>5. Records(s) = (N \o K) \o F
  BY DEF Records
<1> HIDE DEF N, K, F, e, l, f
<1>0. N \in [1 .. e -> R] /\ K \in [1 .. l -> R] /\ F \in [1 .. f -> R]
  BY <1>2, <1>3, <1>4
<1> HIDE DEF R
<1>a. N \in Seq(R) /\ Len(N) = e /\ K \in Seq(R) /\ Len(K) = l /\ F \in Seq(R) /\ Len(F) = f
  BY <1>0, <1>1, FunctionIsSequence
<1>b. N \in Seq(R) /\ K \in Seq(R) /\ F \in Seq(R)
  BY <1>a
<1> DEFINE P == N \o K
<1>6. /\ P \in Seq(R) /\ Len(P) = e + l
      /\ \A i \in 1 .. e : P[i] = N[i]
      /\ \A i \in 1 .. l : P[e + i] = K[i]
  <2>1. /\ N \o K \in Seq(R) /\ Len(N \o K) = Len(N) + Len(K)
        /\ \A i \in 1 .. Len(N) : (N \o K)[i] = N[i]
        /\ \A i \in 1 .. Len(K) : (N \o K)[Len(N) + i] = K[i]
    BY <1>b
  <2> QED
    BY <1>a, <2>1
<1> HIDE DEF P
<1>c. P \in Seq(R)
  BY <1>6
<1>7. /\ Records(s) \in Seq(R) /\ Len(Records(s)) = e + l + f
      /\ \A i \in 1 .. e + l : Records(s)[i] = P[i]
      /\ \A i \in 1 .. f : Records(s)[e + l + i] = F[i]
  <2>1. /\ P \o F \in Seq(R) /\ Len(P \o F) = Len(P) + Len(F)
        /\ \A i \in 1 .. Len(P) : (P \o F)[i] = P[i]
        /\ \A i \in 1 .. Len(F) : (P \o F)[Len(P) + i] = F[i]
    BY <1>b, <1>c
  <2>2. Records(s) = P \o F
    BY <1>5 DEF P
  <2> QED
    BY <1>a, <1>6, <2>1, <2>2
<1>8. ASSUME NEW k \in 1 .. e PROVE Records(s)[k].type = "NODE" /\ Records(s)[k] = N[k]
  <2>1. k \in 1 .. e + l
    BY <1>1
  <2>2. Records(s)[k] = P[k] /\ P[k] = N[k]
    BY <2>1, <1>6, <1>7
  <2> QED
    BY <2>2, <1>2
<1>9. ASSUME NEW k \in 1 .. l PROVE Records(s)[e + k].type = "LINK" /\ Records(s)[e + k] = K[k]
  <2>1. e + k \in 1 .. e + l
    BY <1>1
  <2>2. Records(s)[e + k] = P[e + k] /\ P[e + k] = K[k]
    BY <2>1, <1>6, <1>7
  <2> QED
    BY <2>2, <1>3
<1>10. \A k \in 1 .. f : Records(s)[e + l + k].type = "FLOW"
  BY <1>4, <1>7
<1>11. InOrder(Records(s), e, l, f)
  BY <1>1, <1>7, <1>8, <1>9, <1>10 DEF InOrder
<1>12. SaysRecords(Records(s), s, e, l, f)
  BY <1>7, <1>8, <1>9 DEF SaysRecords, N, K, F
<1> QED
  BY <1>11, <1>12

(* What the runner takes from a SCENARIO line.                             *)
Named(n, s) ==
  [Blank EXCEPT !.id = n, !.throws = s.throws,
                !.expected = <<Len(s.entities), Len(Links(s)), Len(s.flows)>>]

(* A SCENARIO line gives the number of the job, what to expect and no      *)
(* record yet.                                                             *)
LEMMA NamedFacts ==
  ASSUME NEW n \in 1 .. MaxJobs, NEW s \in Snapshots
  PROVE  /\ Named(n, s) \in Scenarios
         /\ Named(n, s).id = n
         /\ Named(n, s).throws = s.throws
         /\ Named(n, s).expected = Expected(s)
         /\ Counts(Named(n, s)) = <<0, 0, 0>>
<1> DEFINE A == [Blank EXCEPT !.id = n]
           B == [A EXCEPT !.throws = s.throws]
           C == [B EXCEPT !.expected = Expected(s)]
<1>1. Expected(s) \in Nat \X Nat \X Nat
  BY SnapshotSizes DEF Expected
<1>2. <<>> \in Seq(Data) /\ s.throws \in BOOLEAN /\ n \in 0 .. MaxJobs
  BY SnapshotSizes, PipeConstants
<1>0. 0 \in 0 .. MaxJobs /\ <<0, 0, 0>> \in Nat \X Nat \X Nat /\ FALSE \in BOOLEAN
  BY PipeConstants
<1>3. /\ Blank \in Scenarios
      /\ Blank.nodes = <<>> /\ Blank.links = <<>> /\ Blank.flows = <<>>
  BY <1>0, <1>2 DEF Blank, Scenarios
<1>4. /\ A \in Scenarios /\ A.id = n
      /\ A.nodes = <<>> /\ A.links = <<>> /\ A.flows = <<>>
  BY <1>2, <1>3 DEF Scenarios
<1> HIDE DEF A
<1>5. /\ B \in Scenarios /\ B.id = n /\ B.throws = s.throws
      /\ B.nodes = <<>> /\ B.links = <<>> /\ B.flows = <<>>
  BY <1>2, <1>4 DEF Scenarios
<1> HIDE DEF B
<1>6. /\ C \in Scenarios /\ C.id = n /\ C.throws = s.throws /\ C.expected = Expected(s)
      /\ C.nodes = <<>> /\ C.links = <<>> /\ C.flows = <<>>
  BY <1>1, <1>5 DEF Scenarios
<1>7. Named(n, s) = C
  BY DEF Named, Expected, A, B
<1> HIDE DEF C
<1>8. Counts(C) = <<0, 0, 0>>
  BY <1>6 DEF Counts
<1> QED
  BY <1>6, <1>7, <1>8

(* The lines of a scenario: its name, its records and RUN.                 *)
SaysScenario(L, n, s) ==
  /\ L \in Seq(InputLines)
  /\ Len(L) \in Nat
  /\ Len(L) = Len(Records(s)) + 2
  /\ Len(Records(s)) \in Nat
  /\ L[1] = [type |-> "SCENARIO", odd |-> FALSE, value |-> Named(n, s)]
  /\ L[Len(L)] = Command("RUN")
  /\ \A k \in 1 .. Len(L) - 2 : L[k + 1] = Records(s)[k]

(* What compute writes for a job is its name, its records in order, and    *)
(* RUN.                                                                    *)
LEMMA LinesFacts ==
  ASSUME NEW n \in 1 .. MaxJobs, NEW s \in Snapshots
  PROVE  SaysScenario(ScenarioLines(n, s), n, s)
<1> DEFINE L == ScenarioLines(n, s)
           N == Len(L)
<1> SUFFICES SaysScenario(L, n, s)
  OBVIOUS
<1> DEFINE h == [type |-> "SCENARIO", odd |-> FALSE, value |-> Named(n, s)]
           c == Command("RUN")
           T == Records(s)
<1>1. PICK R : T \in Seq(R)
  BY RecordFacts DEF InOrder
<1>2. L = (<<h>> \o T) \o <<c>>
  BY DEF ScenarioLines, Named
<1> DEFINE U == R \cup {h, c}
<1>3. T \in Seq(U)
  <2> HIDE DEF T, h, c
  <2> QED
    BY <1>1
<1> HIDE DEF T, h, c
<1>4. h \in U /\ c \in U
  OBVIOUS
<1> HIDE DEF U
<1>5. <<h>> \in Seq(U) /\ Len(<<h>>) = 1 /\ <<h>>[1] = h
  BY <1>4
<1>6. <<c>> \in Seq(U) /\ Len(<<c>>) = 1 /\ <<c>>[1] = c
  BY <1>4
<1> DEFINE P == <<h>> \o T
<1>7. P \in Seq(U) /\ Len(P) = 1 + Len(T) /\ P[1] = h /\ Len(T) \in Nat
      /\ \A k \in 1 .. Len(T) : P[1 + k] = T[k]
  BY <1>3, <1>4
<1>8. P \in Seq(U)
  BY <1>7
<1> HIDE DEF P
<1>9. /\ P \o <<c>> \in Seq(U)
      /\ Len(P \o <<c>>) = Len(P) + 1
      /\ (P \o <<c>>)[Len(P) + 1] = c
      /\ \A k \in 1 .. Len(P) : (P \o <<c>>)[k] = P[k]
  BY <1>4, <1>8
<1>10. L = P \o <<c>>
  BY <1>2 DEF P
<1>11. L \in Seq(U) /\ N = Len(T) + 2 /\ N \in Nat /\ Len(T) \in Nat
  BY <1>7, <1>9, <1>10
<1>12. L[1] = h /\ L[N] = c
  BY <1>7, <1>9, <1>10, <1>11
<1>13. ASSUME NEW k \in 1 .. N - 2 PROVE L[k + 1] = T[k]
  <2>1. k \in 1 .. Len(T) /\ k + 1 = 1 + k /\ k + 1 \in 1 .. Len(P)
    BY <1>7, <1>11
  <2> QED
    BY <2>1, <1>7, <1>9, <1>10
<1>14. L \in Seq(InputLines)
  <2>1. ASSUME NEW k \in 1 .. N PROVE L[k] \in LinesOf(n, s)
    BY DEF LinesOf
  <2>2. LinesOf(n, s) \in {LinesOf(a, b) : a \in 1 .. MaxJobs, b \in Snapshots}
    OBVIOUS
  <2>3. LinesOf(n, s) \subseteq InputLines
    BY <2>2 DEF InputLines, ScenarioInput
  <2>4. L = [k \in 1 .. N |-> L[k]]
    BY <1>11, LenProperties
  <2>5. L \in [1 .. N -> InputLines]
    BY <2>1, <2>3, <2>4
  <2> QED
    BY <1>11, <2>5, FunctionIsSequence
<1> QED
  BY <1>11, <1>12, <1>13, <1>14 DEF T, h, c, SaysScenario

RecordTypes == {"NODE", "LINK", "FLOW"}

(* Every record of a snapshot is a node, a link or a flow.                 *)
LEMMA RecordTypesFacts ==
  ASSUME NEW s \in Snapshots, NEW k \in 1 .. Len(Records(s))
  PROVE  Records(s)[k].type \in RecordTypes
<1> DEFINE e == Len(s.entities)
           l == Len(Links(s))
           f == Len(s.flows)
<1>0. e = Len(s.entities) /\ l = Len(Links(s)) /\ f = Len(s.flows)
  OBVIOUS
<1> HIDE DEF e, l, f
<1>1. /\ {e, l, f} \subseteq Nat
      /\ Len(Records(s)) = e + l + f
      /\ \A j \in 1 .. e : Records(s)[j].type = "NODE"
      /\ \A j \in 1 .. l : Records(s)[e + j].type = "LINK"
      /\ \A j \in 1 .. f : Records(s)[e + l + j].type = "FLOW"
  BY <1>0, RecordFacts DEF InOrder
<1>2. e \in Nat /\ l \in Nat /\ f \in Nat /\ k \in Nat
  BY <1>1
<1>3. CASE k \in 1 .. e
  BY <1>1, <1>3 DEF RecordTypes
<1>4. CASE k - e \in 1 .. l
  <2>1. k = e + (k - e)
    BY <1>2
  <2> QED
    BY <1>1, <1>4, <2>1 DEF RecordTypes
<1>5. CASE k - e - l \in 1 .. f
  <2>1. k = e + l + (k - e - l)
    BY <1>2
  <2> QED
    BY <1>1, <1>5, <2>1 DEF RecordTypes
<1>6. k \in 1 .. e \/ k - e \in 1 .. l \/ k - e - l \in 1 .. f
  BY <1>1, <1>2
<1> QED
  BY <1>3, <1>4, <1>5, <1>6

(* What the lines of a scenario are, by their places.                      *)
Place(L, n, s, k) ==
  /\ Len(L) \in Nat /\ Len(L) >= 2
  /\ L[k] \in InputLines
  /\ k = 1 => L[k] = [type |-> "SCENARIO", odd |-> FALSE, value |-> Named(n, s)]
  /\ k = Len(L) => L[k] = Command("RUN")
  /\ k # 1 /\ k # Len(L) => L[k].type \in RecordTypes

(* Of the lines of a job the first is its name, the last is RUN, and       *)
(* records are between.                                                    *)
LEMMA PlacesFacts ==
  ASSUME NEW n \in 1 .. MaxJobs, NEW s \in Snapshots,
         NEW k \in 1 .. Len(ScenarioLines(n, s))
  PROVE  Place(ScenarioLines(n, s), n, s, k)
<1> DEFINE L == ScenarioLines(n, s)
           N == Len(L)
<1> SUFFICES Place(L, n, s, k)
  OBVIOUS
<1>0. k \in 1 .. N /\ SaysScenario(L, n, s)
  BY LinesFacts
<1> HIDE DEF L
<1>1. /\ L \in Seq(InputLines)
      /\ N \in Nat /\ Len(Records(s)) \in Nat
      /\ N = Len(Records(s)) + 2
      /\ L[1] = [type |-> "SCENARIO", odd |-> FALSE, value |-> Named(n, s)]
      /\ L[N] = Command("RUN")
      /\ \A j \in 1 .. N - 2 : L[j + 1] = Records(s)[j]
  BY <1>0 DEF SaysScenario
<1>2. L[k] \in InputLines
  <2>1. L \in Seq(InputLines) /\ k \in 1 .. Len(L)
    BY <1>0, <1>1
  <2> QED
    BY <2>1
<1>3. ASSUME k # 1, k # N PROVE L[k].type \in RecordTypes
  <2>1. k - 1 \in 1 .. N - 2 /\ (k - 1) + 1 = k /\ k - 1 \in 1 .. Len(Records(s))
    BY <1>0, <1>1, <1>3
  <2>2. L[k] = Records(s)[k - 1]
    BY <1>1, <2>1
  <2>3. Records(s)[k - 1].type \in RecordTypes
    BY <2>1, RecordTypesFacts
  <2> QED
    BY <2>2, <2>3
<1> QED
  BY <1>1, <1>2, <1>3 DEF Place

(* What the runner can meet in its standard input.                         *)
LEMMA InputFacts ==
  ASSUME NEW l \in InputLines
  PROVE  /\ l.type \in {"SCENARIO", "RUN", "QUIT"} \cup RecordTypes
         /\ l.type \notin RecordTypes => ~ l.odd
         /\ l.type \in RecordTypes => l.value \in Data
         /\ l.type = "SCENARIO" =>
              \E n \in 1 .. MaxJobs, s \in Snapshots : l.value = Named(n, s)
<1>1. CASE l = Command("QUIT")
  BY <1>1 DEF Command, RecordTypes
<1>2. CASE \E n \in 1 .. MaxJobs, s \in Snapshots :
             \E k \in 1 .. Len(ScenarioLines(n, s)) : l = ScenarioLines(n, s)[k]
  <2>1. PICK n \in 1 .. MaxJobs, s \in Snapshots :
               \E k \in 1 .. Len(ScenarioLines(n, s)) : l = ScenarioLines(n, s)[k]
    BY <1>2
  <2> DEFINE L == ScenarioLines(n, s)
             N == Len(L)
  <2>2. PICK k \in 1 .. N : l = L[k]
    BY <2>1
  <2>3. /\ k = 1 => l = [type |-> "SCENARIO", odd |-> FALSE, value |-> Named(n, s)]
        /\ k = N => l = Command("RUN")
        /\ k # 1 /\ k # N => l.type \in RecordTypes
    BY <2>2, PlacesFacts DEF Place
  <2> HIDE DEF L, N
  <2>4. CASE k = 1
    <3>1. l.type = "SCENARIO" /\ l.odd = FALSE /\ l.value = Named(n, s)
      BY <2>3, <2>4
    <3> QED
      BY <3>1 DEF RecordTypes
  <2>5. CASE k = N
    BY <2>3, <2>5 DEF Command, RecordTypes
  <2>6. CASE k # 1 /\ k # N
    <3>1. l.type \in RecordTypes
      BY <2>3, <2>6
    <3>2. l.value \in Data
      BY <3>1 DEF Data, RecordTypes
    <3> QED
      BY <3>1, <3>2 DEF RecordTypes
  <2> QED
    BY <2>4, <2>5, <2>6
<1>3. l = Command("QUIT") \/ \E n \in 1 .. MaxJobs, s \in Snapshots :
             \E k \in 1 .. Len(ScenarioLines(n, s)) : l = ScenarioLines(n, s)[k]
  <2>1. CASE l \in ScenarioInput
    <3>1. PICK n \in 1 .. MaxJobs, s \in Snapshots : l \in LinesOf(n, s)
      BY <2>1 DEF ScenarioInput
    <3> QED
      BY <3>1 DEF LinesOf
  <2> QED
    BY <2>1 DEF InputLines
<1> QED
  BY <1>1, <1>2, <1>3

(* What the runner prints of a calculation: the results and DONE.          *)
DoneOf(id) == [type |-> "DONE", id |-> id]
CarriesOutcome(out, sc) ==
  /\ ValidateScenario(sc)
  /\ \E values \in Outcomes(sc) : \A k \in 1 .. sc.expected[3] : out[k].values = values[k]
Calculated(out, sc) ==
  LET f == sc.expected[3]
  IN  /\ f \in Nat
      /\ ~ sc.throws
      /\ out \in Seq(OutputLines)
      /\ Len(out) = f + 1
      /\ \A k \in 1 .. f : out[k].type = "RESULT" /\ out[k].id = sc.id /\ out[k].index = k
      /\ out[f + 1] = DoneOf(sc.id)
      /\ CarriesOutcome(out, sc)

(* Outcomes has a connection and a quality for each flow of the scenario.  *)
LEMMA OutcomesFacts ==
  ASSUME NEW sc, Len(sc.flows) \in Nat, NEW values \in Outcomes(sc)
  PROVE  values \in [1 .. Len(sc.flows) -> [connected : BOOLEAN, quality : Qualities]]
<1> DEFINE f == Len(sc.flows)
           Connected(i) == /\ sc.flows[i].enabled
                           /\ HasActivePath(sc, sc.flows[i].source, sc.flows[i].target)
<1>1. PICK q \in [1 .. f -> Qualities] :
        values = [i \in 1 .. f |-> [connected |-> Connected(i), quality |-> q[i]]]
  BY DEF Outcomes
<1>2. ASSUME NEW i \in 1 .. f
      PROVE  [connected |-> Connected(i), quality |-> q[i]]
               \in [connected : BOOLEAN, quality : Qualities]
  <2>1. Connected(i) \in BOOLEAN
    OBVIOUS
  <2> HIDE DEF Connected
  <2>2. q[i] \in Qualities
    OBVIOUS
  <2> QED
    BY <2>1, <2>2
<1> HIDE DEF f, Connected
<1>3. values \in [1 .. f -> [connected : BOOLEAN, quality : Qualities]]
  BY <1>1, <1>2
<1> QED
  BY <1>3 DEF f

(* RUN of a valid scenario that does not throw prints a RESULT for each    *)
(* flow, and DONE.                                                         *)
LEMMA RunFacts ==
  ASSUME scenario \in Scenarios, NEW out \in RunOutputs
  PROVE  Calculated(out, scenario)
<1> DEFINE f == scenario.expected[3]
           id == scenario.id
           Result(k, values) ==
             [type |-> "RESULT", id |-> id, index |-> k, values |-> values[k]]
<1>1. ValidateScenario(scenario) /\ ~ scenario.throws
  BY DEF RunOutputs
<1>2. id \in 0 .. MaxJobs /\ scenario.expected \in Nat \X Nat \X Nat
  BY DEF Scenarios
<1>3. Len(scenario.flows) = f
  BY <1>1 DEF ValidateScenario, Counts
<1>4. f \in Nat
  BY <1>2
<1>5. PICK values \in Outcomes(scenario) :
        out = [i \in 1 .. Len(values) |-> Result(i, values)] \o <<DoneOf(id)>>
  BY <1>1 DEF RunOutputs, DoneOf
<1>6. values \in [1 .. f -> [connected : BOOLEAN, quality : Qualities]]
  BY <1>3, <1>4, OutcomesFacts
<1>7. Len(values) = f
  BY <1>4, <1>6, FunctionIsSequence
<1> DEFINE results == [i \in 1 .. f |-> Result(i, values)]
<1>8. ASSUME NEW i \in 1 .. f
      PROVE  /\ Result(i, values) \in OutputLines
             /\ Result(i, values).type = "RESULT"
             /\ Result(i, values).id = id
             /\ Result(i, values).index = i
             /\ Result(i, values).values = values[i]
  <2>1. values[i] \in [connected : BOOLEAN, quality : Qualities] /\ i \in Nat
    BY <1>4, <1>6
  <2> QED
    BY <1>2, <2>1 DEF OutputLines
<1>9. DoneOf(id) \in OutputLines
  BY <1>2 DEF OutputLines, DoneOf
<1>10. out = results \o <<DoneOf(id)>>
  BY <1>5, <1>7
<1> HIDE DEF f, id, Result
<1>11. results \in [1 .. f -> OutputLines]
  BY <1>8
<1>12. \A i \in 1 .. f : results[i] = Result(i, values)
  OBVIOUS
<1> HIDE DEF results
<1>13. results \in Seq(OutputLines) /\ Len(results) = f
  BY <1>4, <1>11, FunctionIsSequence
<1>14. results \in Seq(OutputLines)
  BY <1>13
<1>15. /\ results \o <<DoneOf(id)>> \in Seq(OutputLines)
       /\ Len(results \o <<DoneOf(id)>>) = Len(results) + 1
       /\ (results \o <<DoneOf(id)>>)[Len(results) + 1] = DoneOf(id)
       /\ \A i \in 1 .. Len(results) : (results \o <<DoneOf(id)>>)[i] = results[i]
  BY <1>9, <1>14
<1>16. /\ out \in Seq(OutputLines)
       /\ Len(out) = f + 1
       /\ out[f + 1] = DoneOf(id)
       /\ \A i \in 1 .. f : out[i] = Result(i, values)
  BY <1>10, <1>12, <1>13, <1>15
<1>17. \A k \in 1 .. f : out[k].type = "RESULT" /\ out[k].id = id /\ out[k].index = k
  BY <1>8, <1>16
<1>18. \A k \in 1 .. f : out[k].values = values[k]
  BY <1>8, <1>16
<1>19. CarriesOutcome(out, scenario)
  BY <1>1, <1>5, <1>18 DEF CarriesOutcome, f
<1> QED
  BY <1>1, <1>4, <1>16, <1>17, <1>19 DEF Calculated, f, id

-----------------------------------------------------------------------------
(* Types.                                                                  *)

PipeTypes == ProcTypeOK /\ CallTypeOK

(* One turn of the runner: it throws, takes a name, takes a record or      *)
(* calculates.                                                             *)
Threw(line) ==
  /\ line.odd \/ line.type = "RUN"
  /\ scenario' = Blank
  /\ printing' = <<ErrorLine>>
TookName(line) ==
  /\ ~ line.odd
  /\ line.type = "SCENARIO"
  /\ scenario' = line.value
  /\ printing' = printing
Appended(line) ==
  /\ scenario'.nodes = IF line.type = "NODE" THEN Append(scenario.nodes, line.value)
                       ELSE scenario.nodes
  /\ scenario'.links = IF line.type = "LINK" THEN Append(scenario.links, line.value)
                       ELSE scenario.links
  /\ scenario'.flows = IF line.type = "FLOW" THEN Append(scenario.flows, line.value)
                       ELSE scenario.flows
TookRecord(line) ==
  /\ ~ line.odd
  /\ line.type \in RecordTypes
  /\ scenario'.id = scenario.id
  /\ scenario'.expected = scenario.expected
  /\ scenario'.throws = scenario.throws
  /\ Len(scenario'.nodes) = Len(scenario.nodes) + (IF line.type = "NODE" THEN 1 ELSE 0)
  /\ Len(scenario'.links) = Len(scenario.links) + (IF line.type = "LINK" THEN 1 ELSE 0)
  /\ Len(scenario'.flows) = Len(scenario.flows) + (IF line.type = "FLOW" THEN 1 ELSE 0)
  /\ printing' = printing
  /\ Appended(line)
CalculatedIt(line) ==
  /\ line.type = "RUN"
  /\ scenario' = scenario
  /\ Calculated(printing', scenario)

(* The blank scenario and a scenario of which only the name is known are   *)
(* scenarios.                                                              *)
LEMMA ScenarioTypes ==
  /\ Blank \in Scenarios
  /\ \A n \in 1 .. MaxJobs, s \in Snapshots : Named(n, s) \in Scenarios
<1>1. 0 \in 0 .. MaxJobs /\ <<0, 0, 0>> \in Nat \X Nat \X Nat /\ FALSE \in BOOLEAN
  BY PipeConstants
<1>2. <<>> \in Seq(Data)
  OBVIOUS
<1>3. Blank \in Scenarios
  BY <1>1, <1>2 DEF Blank, Scenarios
<1> QED
  BY <1>3, NamedFacts

(* One turn of the runner's loop throws, takes a name, takes a record or   *)
(* calculates.                                                             *)
LEMMA ExecuteFacts ==
  ASSUME scenario \in Scenarios, NEW line \in InputLines, line.type # "QUIT", Execute(line)
  PROVE  /\ Threw(line) \/ TookName(line) \/ TookRecord(line) \/ CalculatedIt(line)
         /\ scenario' \in Scenarios
         /\ printing' = printing \/ (printing' \in Seq(OutputLines) /\ printing' # <<>>)
<1>1. CASE Throw /\ (line.odd \/ line.type = "RUN")
  <2>1. Threw(line)
    BY <1>1 DEF Throw, Threw
  <2>2. ErrorLine \in OutputLines
    BY DEF OutputLines
  <2>3. <<ErrorLine>> \in Seq(OutputLines) /\ <<ErrorLine>> # <<>>
    BY <2>2
  <2> QED
    BY <1>1, <2>1, <2>3, ScenarioTypes DEF Throw
<1>2. CASE ~ line.odd /\ line.type = "SCENARIO" /\ scenario' = line.value /\ UNCHANGED printing
  <2>1. PICK n \in 1 .. MaxJobs, s \in Snapshots : line.value = Named(n, s)
    BY <1>2, InputFacts
  <2>2. scenario' \in Scenarios
    BY <1>2, <2>1, ScenarioTypes
  <2>3. printing' = printing
    BY <1>2
  <2>4. TookName(line)
    BY <1>2 DEF TookName
  <2> QED
    BY <2>2, <2>3, <2>4
<1>3. CASE /\ ~ line.odd /\ line.type = "NODE" /\ UNCHANGED printing
           /\ scenario' = [scenario EXCEPT !.nodes = Append(@, line.value)]
  <2>1. line.type \in RecordTypes /\ line.type = "NODE"
    BY <1>3 DEF RecordTypes
  <2>2. line.value \in Data
    BY <2>1, InputFacts
  <2>3. Append(scenario.nodes, line.value) \in Seq(Data)
        /\ Len(Append(scenario.nodes, line.value)) = Len(scenario.nodes) + 1
    BY <2>2 DEF Scenarios
  <2>4. /\ scenario' \in Scenarios
        /\ scenario'.nodes = Append(scenario.nodes, line.value)
        /\ scenario'.links = scenario.links /\ scenario'.flows = scenario.flows
        /\ scenario'.id = scenario.id /\ scenario'.expected = scenario.expected
        /\ scenario'.throws = scenario.throws
    BY <1>3, <2>3 DEF Scenarios
  <2>5. Len(scenario.links) \in Nat /\ Len(scenario.flows) \in Nat
    BY DEF Scenarios
  <2>6. TookRecord(line)
    <3>1. Appended(line)
      BY <2>1, <2>4 DEF Appended
    <3> QED
      BY <1>3, <2>1, <2>3, <2>4, <2>5, <3>1 DEF TookRecord
  <2>7. scenario' \in Scenarios /\ printing' = printing
    BY <1>3, <2>4
  <2> QED
    BY <2>6, <2>7
<1>4. CASE /\ ~ line.odd /\ line.type = "LINK" /\ UNCHANGED printing
           /\ scenario' = [scenario EXCEPT !.links = Append(@, line.value)]
  <2>1. line.type \in RecordTypes /\ line.type = "LINK"
    BY <1>4 DEF RecordTypes
  <2>2. line.value \in Data
    BY <2>1, InputFacts
  <2>3. Append(scenario.links, line.value) \in Seq(Data)
        /\ Len(Append(scenario.links, line.value)) = Len(scenario.links) + 1
    BY <2>2 DEF Scenarios
  <2>4. /\ scenario' \in Scenarios
        /\ scenario'.links = Append(scenario.links, line.value)
        /\ scenario'.nodes = scenario.nodes /\ scenario'.flows = scenario.flows
        /\ scenario'.id = scenario.id /\ scenario'.expected = scenario.expected
        /\ scenario'.throws = scenario.throws
    BY <1>4, <2>3 DEF Scenarios
  <2>5. Len(scenario.nodes) \in Nat /\ Len(scenario.flows) \in Nat
    BY DEF Scenarios
  <2>6. TookRecord(line)
    <3>1. Appended(line)
      BY <2>1, <2>4 DEF Appended
    <3> QED
      BY <1>4, <2>1, <2>3, <2>4, <2>5, <3>1 DEF TookRecord
  <2>7. scenario' \in Scenarios /\ printing' = printing
    BY <1>4, <2>4
  <2> QED
    BY <2>6, <2>7
<1>5. CASE /\ ~ line.odd /\ line.type = "FLOW" /\ UNCHANGED printing
           /\ scenario' = [scenario EXCEPT !.flows = Append(@, line.value)]
  <2>1. line.type \in RecordTypes /\ line.type = "FLOW"
    BY <1>5 DEF RecordTypes
  <2>2. line.value \in Data
    BY <2>1, InputFacts
  <2>3. Append(scenario.flows, line.value) \in Seq(Data)
        /\ Len(Append(scenario.flows, line.value)) = Len(scenario.flows) + 1
    BY <2>2 DEF Scenarios
  <2>4. /\ scenario' \in Scenarios
        /\ scenario'.flows = Append(scenario.flows, line.value)
        /\ scenario'.nodes = scenario.nodes /\ scenario'.links = scenario.links
        /\ scenario'.id = scenario.id /\ scenario'.expected = scenario.expected
        /\ scenario'.throws = scenario.throws
    BY <1>5, <2>3 DEF Scenarios
  <2>5. Len(scenario.nodes) \in Nat /\ Len(scenario.links) \in Nat
    BY DEF Scenarios
  <2>6. TookRecord(line)
    <3>1. Appended(line)
      BY <2>1, <2>4 DEF Appended
    <3> QED
      BY <1>5, <2>1, <2>3, <2>4, <2>5, <3>1 DEF TookRecord
  <2>7. scenario' \in Scenarios /\ printing' = printing
    BY <1>5, <2>4
  <2> QED
    BY <2>6, <2>7
<1>6. CASE line.type = "RUN" /\ printing' \in RunOutputs /\ UNCHANGED scenario
  <2>1. Calculated(printing', scenario)
    BY <1>6, RunFacts
  <2>2. printing' \in Seq(OutputLines) /\ printing' # <<>>
    BY <2>1 DEF Calculated
  <2>3. CalculatedIt(line)
    BY <1>6, <2>1 DEF CalculatedIt
  <2> QED
    BY <1>6, <2>2, <2>3
<1> QED
  BY <1>1, <1>2, <1>3, <1>4, <1>5, <1>6 DEF Execute

(* At the start there is no process and nobody calls.                      *)
LEMMA TypesInitially == Init => PipeTypes
<1> SUFFICES ASSUME Init PROVE PipeTypes
  OBVIOUS
<1>1. <<>> \in Seq(InputLines) /\ <<>> \in Seq(OutputLines) /\ Len(<<>>) = 0
  OBVIOUS
<1>2. PipeLines \in Nat /\ 0 <= PipeLines /\ 0 \in 0 .. MaxJobs /\ 0 \in 0 .. MaxCrashes
  BY PipeConstants
<1>3. FALSE \in BOOLEAN
  OBVIOUS
<1>4. ProcTypeOK
  BY <1>1, <1>2, <1>3, ScenarioTypes DEF Init, ProcTypeOK
<1>5. CallTypeOK
  BY <1>1, <1>2 DEF Init, CallTypeOK, Busy
<1> QED
  BY <1>4, <1>5 DEF PipeTypes

(* compute starts: a process that does not run is replaced by a new one.   *)
LEMMA StartTypes ==
  ASSUME PipeTypes, NEW s \in Snapshots, StartCompute(s)
  PROVE  PipeTypes'
<1>1. <<>> \in Seq(InputLines) /\ <<>> \in Seq(OutputLines) /\ Len(<<>>) = 0
      /\ PipeLines \in Nat /\ 0 <= PipeLines /\ TRUE \in BOOLEAN
  BY PipeConstants
<1>2. ProcTypeOK'
  <2>1. CASE handle /\ alive
    BY <2>1 DEF StartCompute, EnsureProcess, procVars, PipeTypes, ProcTypeOK
  <2>2. CASE ~ (handle /\ alive)
    BY <1>1, <2>2, ScenarioTypes DEF StartCompute, EnsureProcess, ProcTypeOK
  <2> QED
    BY <2>1, <2>2
<1>3. job + 1 \in 1 .. MaxJobs /\ job + 1 \in 0 .. MaxJobs /\ job + 1 # 0
  BY PipeConstants DEF StartCompute, PipeTypes, CallTypeOK
<1>4. SaysScenario(ScenarioLines(job + 1, s), job + 1, s)
  BY <1>3, LinesFacts
<1>5. unsent' \in Seq(InputLines) /\ unsent' # <<>>
  <2>1. unsent' = ScenarioLines(job + 1, s)
    BY DEF StartCompute
  <2>2. unsent' \in Seq(InputLines) /\ Len(unsent') >= 2
    BY <1>4, <2>1 DEF SaysScenario
  <2> QED
    BY <2>2
<1>6. caller' = "writing" /\ job' = job + 1 /\ snapshot' = s /\ crashes' = crashes
  BY DEF StartCompute
<1>7. CallTypeOK'
  BY <1>3, <1>5, <1>6 DEF PipeTypes, CallTypeOK, Busy
<1> QED
  BY <1>2, <1>7 DEF PipeTypes

(* Writing a line moves it from what is unsent into the pipe: the order    *)
(* stays.                                                                  *)
LEMMA WriteTypes ==
  ASSUME PipeTypes, WriteLine
  PROVE  /\ PipeTypes'
         /\ In' = In
         /\ Out' = Out
<1>1. unsent \in Seq(InputLines) /\ unsent # <<>> /\ stdin \in Seq(InputLines)
      /\ Len(stdin) < PipeLines /\ PipeLines \in Nat
  BY PipeConstants DEF WriteLine, PipeTypes, CallTypeOK, ProcTypeOK
<1>2. /\ stdin' \in Seq(InputLines) /\ Len(stdin') <= PipeLines
      /\ unsent' \in Seq(InputLines) /\ (unsent' = <<>> <=> Len(unsent) = 1)
  <2>1. unsent' = Tail(unsent) /\ stdin' = Append(stdin, Head(unsent))
    BY DEF WriteLine
  <2>2. /\ Head(unsent) \in InputLines /\ Len(unsent) \in Nat /\ Len(unsent) # 0
        /\ Tail(unsent) \in Seq(InputLines) /\ Len(Tail(unsent)) = Len(unsent) - 1
    BY <1>1
  <2>3. stdin' \in Seq(InputLines) /\ Len(stdin') = Len(stdin) + 1 /\ Len(stdin) \in Nat
    BY <1>1, <2>1, <2>2
  <2>4. unsent' = <<>> <=> Len(unsent') = 0
    BY <2>1, <2>2
  <2> QED
    BY <1>1, <2>1, <2>2, <2>3, <2>4
<1>3. In' = In
  BY <1>1 DEF WriteLine, In
<1>4. Out' = Out
  BY DEF WriteLine, Out
<1>5. ProcTypeOK'
  BY <1>2 DEF WriteLine, PipeTypes, ProcTypeOK
<1>6. caller' \in {"writing", "reading"} /\ (caller' = "writing" <=> Len(unsent) # 1)
  BY DEF WriteLine
<1>7. CallTypeOK'
  BY <1>2, <1>6 DEF WriteLine, PipeTypes, CallTypeOK, Busy
<1> QED
  BY <1>3, <1>4, <1>5, <1>7 DEF PipeTypes

(* Raising leaves nothing to be written.                                   *)
LEMMA RaiseTypes ==
  ASSUME PipeTypes, Raise
  PROVE  CallTypeOK'
<1>1. <<>> \in Seq(InputLines)
  OBVIOUS
<1> QED
  BY <1>1 DEF Raise, PipeTypes, CallTypeOK, Busy

(* A line is taken from the standard output.                               *)
Took == /\ stdout # <<>>
        /\ stdout' = Tail(stdout)
        /\ UNCHANGED <<alive, stdin, scenario, printing>>

(* Reading a line takes the first of all lines that the runner put out.    *)
LEMMA TookFacts ==
  ASSUME PipeTypes, Took, handle' = handle
  PROVE  /\ ProcTypeOK'
         /\ Out # <<>>
         /\ Out \in Seq(OutputLines)
         /\ Out' = Tail(Out)
         /\ Head(stdout) = Out[1]
<1>1. /\ stdout \in Seq(OutputLines) /\ stdout # <<>> /\ Len(stdout) <= PipeLines
      /\ PipeLines \in Nat /\ printing \in Seq(OutputLines)
  BY PipeConstants DEF Took, PipeTypes, ProcTypeOK
<1>2. /\ Out \in Seq(OutputLines) /\ Out # <<>>
      /\ Head(stdout) = Out[1]
  BY SMTT(30), <1>1 DEF Out
<1>3. Out' = Tail(Out)
  BY <1>1 DEF Out, Took
<1>4. stdout' \in Seq(OutputLines) /\ Len(stdout') <= PipeLines
  BY <1>1 DEF Took
<1>5. ProcTypeOK'
  BY <1>4 DEF Took, PipeTypes, ProcTypeOK
<1> QED
  BY <1>2, <1>3, <1>5

(* The runner takes the first of all lines on their way to it.             *)
LEMMA ReaderTypes ==
  ASSUME PipeTypes, RunnerReads
  PROVE  /\ PipeTypes'
         /\ In # <<>>
         /\ In \in Seq(InputLines)
         /\ In' = Tail(In)
         /\ Head(stdin) = In[1]
         /\ Out' = Out \o printing'
         /\ IF In[1].type = "QUIT"
            THEN ~ alive' /\ UNCHANGED <<scenario, printing>>
            ELSE /\ alive' = alive
                 /\ \/ Threw(In[1]) \/ TookName(In[1])
                    \/ TookRecord(In[1]) \/ CalculatedIt(In[1])
<1>1. /\ stdin \in Seq(InputLines) /\ stdin # <<>> /\ Len(stdin) <= PipeLines
      /\ unsent \in Seq(InputLines) /\ PipeLines \in Nat /\ stdout \in Seq(OutputLines)
      /\ printing = <<>>
  BY PipeConstants DEF RunnerReads, PipeTypes, ProcTypeOK, CallTypeOK
<1>2. In \in Seq(InputLines) /\ In # <<>> /\ Head(stdin) = In[1] /\ Head(stdin) \in InputLines
  BY <1>1 DEF In
<1>3. stdin' = Tail(stdin) /\ unsent' = unsent
  BY DEF RunnerReads, callVars
<1>4. In' = Tail(In)
  BY <1>1, <1>3 DEF In
<1>5. stdin' \in Seq(InputLines) /\ Len(stdin') <= PipeLines
  BY <1>1, <1>3
<1>6. IF In[1].type = "QUIT"
      THEN ~ alive' /\ UNCHANGED <<scenario, printing>>
      ELSE alive' = alive /\ Execute(In[1])
  BY <1>2 DEF RunnerReads
<1>7. IF In[1].type = "QUIT"
      THEN ~ alive' /\ UNCHANGED <<scenario, printing>>
      ELSE /\ alive' = alive
           /\ \/ Threw(In[1]) \/ TookName(In[1])
              \/ TookRecord(In[1]) \/ CalculatedIt(In[1])
  BY <1>2, <1>6, ExecuteFacts DEF PipeTypes, ProcTypeOK
<1>8. scenario' \in Scenarios /\ printing' \in Seq(OutputLines)
  BY <1>2, <1>6, ExecuteFacts DEF PipeTypes, ProcTypeOK
<1>9. Out' = Out \o printing'
  <2>1. Out = stdout
    BY <1>1 DEF Out
  <2>2. stdout' = stdout
    BY DEF RunnerReads
  <2> QED
    BY <2>1, <2>2 DEF Out
<1>10. alive' \in BOOLEAN /\ (alive' => handle')
  BY <1>6 DEF RunnerReads, PipeTypes, ProcTypeOK
<1>11. ProcTypeOK'
  BY <1>5, <1>8, <1>10 DEF RunnerReads, PipeTypes, ProcTypeOK
<1>12. CallTypeOK'
  BY DEF RunnerReads, PipeTypes, CallTypeOK, Busy, callVars, history
<1> QED
  BY <1>2, <1>4, <1>7, <1>9, <1>11, <1>12 DEF PipeTypes

(* Printing a line moves it into the pipe: the order stays.                *)
LEMMA PrinterTypes ==
  ASSUME PipeTypes, RunnerPrints
  PROVE  PipeTypes' /\ In' = In /\ Out' = Out
<1>1. /\ stdout \in Seq(OutputLines) /\ Len(stdout) < PipeLines
      /\ printing \in Seq(OutputLines) /\ printing # <<>> /\ PipeLines \in Nat
  BY PipeConstants DEF RunnerPrints, PipeTypes, ProcTypeOK
<1>2. stdout' = Append(stdout, Head(printing)) /\ printing' = Tail(printing)
  BY DEF RunnerPrints
<1>3. /\ stdout' \in Seq(OutputLines) /\ Len(stdout') <= PipeLines
      /\ printing' \in Seq(OutputLines)
  <2>1. Head(printing) \in OutputLines /\ Tail(printing) \in Seq(OutputLines)
    BY <1>1
  <2>2. Len(stdout) \in Nat /\ Len(stdout') = Len(stdout) + 1 /\ stdout' \in Seq(OutputLines)
    BY <1>1, <1>2, <2>1
  <2> QED
    BY <1>1, <1>2, <2>1, <2>2
<1>4. Out' = Out
  BY <1>1, <1>2 DEF Out
<1>5. In' = In
  BY DEF RunnerPrints, In, callVars
<1>6. ProcTypeOK'
  BY <1>3 DEF RunnerPrints, PipeTypes, ProcTypeOK
<1>7. CallTypeOK'
  BY DEF RunnerPrints, PipeTypes, CallTypeOK, Busy, callVars, history
<1> QED
  BY <1>4, <1>5, <1>6, <1>7 DEF PipeTypes

(* A death loses what was not in the pipe yet.                             *)
LEMMA CrashTypes ==
  ASSUME PipeTypes, Crash
  PROVE  PipeTypes' /\ In' = In /\ Out' = stdout /\ stdout \in Seq(OutputLines)
<1>1. stdout \in Seq(OutputLines) /\ <<>> \in Seq(OutputLines)
  BY DEF PipeTypes, ProcTypeOK
<1>2. Out' = stdout
  BY <1>1 DEF Crash, Out
<1>3. In' = In
  BY DEF Crash, In, callVars
<1>4. ProcTypeOK'
  BY <1>1 DEF Crash, PipeTypes, ProcTypeOK
<1>5. crashes' \in 0 .. MaxCrashes
  BY PipeConstants DEF Crash, PipeTypes, CallTypeOK
<1>6. CallTypeOK'
  BY <1>5 DEF Crash, PipeTypes, CallTypeOK, Busy, callVars
<1> QED
  BY <1>1, <1>2, <1>3, <1>4, <1>6 DEF PipeTypes

(* Closing leaves the pipes in order, and empties them at its end.         *)
LEMMA CloseTypes ==
  ASSUME PipeTypes, Close \/ CloseEnds
  PROVE  PipeTypes'
<1>1. <<>> \in Seq(InputLines) /\ <<>> \in Seq(OutputLines) /\ Len(<<>>) = 0
      /\ PipeLines \in Nat /\ 0 <= PipeLines /\ FALSE \in BOOLEAN
  BY PipeConstants
<1>2. CASE CloseEnds
  <2>1. ProcTypeOK'
    BY <1>1, <1>2, ScenarioTypes DEF CloseEnds, ProcTypeOK
  <2>2. CallTypeOK'
    BY <1>2 DEF CloseEnds, PipeTypes, CallTypeOK, Busy, history
  <2> QED
    BY <2>1, <2>2 DEF PipeTypes
<1>3. CASE Close
  <2>1. stdin' \in Seq(InputLines) /\ Len(stdin') <= PipeLines
    <3>1. CASE stdin' = stdin
      BY <3>1 DEF PipeTypes, ProcTypeOK
    <3>2. CASE stdin' = Append(stdin, Command("QUIT")) /\ Len(stdin) < PipeLines
      <4>1. Command("QUIT") \in InputLines /\ stdin \in Seq(InputLines)
        BY DEF InputLines, PipeTypes, ProcTypeOK
      <4>2. stdin' \in Seq(InputLines) /\ Len(stdin') = Len(stdin) + 1 /\ Len(stdin) \in Nat
        BY <3>2, <4>1
      <4> QED
        BY <1>1, <3>2, <4>2
    <3> QED
      BY <1>3, <3>1, <3>2 DEF Close
  <2>2. ProcTypeOK'
    BY <1>3, <2>1 DEF Close, PipeTypes, ProcTypeOK
  <2>3. caller = "idle" /\ caller' \in {"closing", "closed"}
    BY <1>3 DEF Close
  <2>4. CallTypeOK'
    BY <1>3, <2>3 DEF Close, PipeTypes, CallTypeOK, Busy, history
  <2> QED
    BY <2>2, <2>4 DEF PipeTypes
<1> QED
  BY <1>2, <1>3

(* compute reads, raises or finds the end of file.                         *)
LEMMA ReadTypes ==
  ASSUME PipeTypes, ReadRaises \/ ReadResult \/ ReadDone \/ ReadEof
  PROVE  /\ PipeTypes'
         /\ caller = "reading"
         /\ In' = In
         /\ ~ ReadEof =>
              /\ Out # <<>> /\ Out \in Seq(OutputLines)
              /\ Out' = Tail(Out)
              /\ Head(stdout) = Out[1]
         /\ ReadEof => ~ alive /\ Out' = Out
<1>1. caller = "reading" /\ unsent = <<>> /\ unsent' = <<>> /\ stdin' = stdin
  BY DEF ReadRaises, ReadResult, ReadDone, ReadEof, Raise, Return, PipeTypes, CallTypeOK
<1>2. In' = In
  BY <1>1 DEF In
<1>3. CASE ReadRaises
  <2>1. Took /\ handle' = handle /\ Raise
    BY <1>3 DEF ReadRaises, Took
  <2> QED
    BY <1>1, <1>2, <1>3, <2>1, TookFacts, RaiseTypes DEF PipeTypes, ReadRaises, ReadEof
<1>4. CASE ReadResult
  <2>1. Took /\ handle' = handle
    BY <1>4 DEF ReadResult, Took
  <2>2. CallTypeOK'
    BY <1>4 DEF ReadResult, PipeTypes, CallTypeOK, Busy, history
  <2> QED
    BY <1>1, <1>2, <1>4, <2>1, <2>2, TookFacts DEF PipeTypes, ReadResult, ReadEof
<1>5. CASE ReadDone
  <2>1. Took /\ handle' = handle
    BY <1>5 DEF ReadDone, Took
  <2>2. CallTypeOK'
    BY <1>1, <1>5 DEF ReadDone, Return, PipeTypes, CallTypeOK, Busy
  <2> QED
    BY <1>1, <1>2, <1>5, <2>1, <2>2, TookFacts DEF PipeTypes, ReadDone, ReadEof
<1>6. CASE ReadEof
  <2>1. /\ ~ alive /\ handle' = FALSE /\ Raise
        /\ UNCHANGED <<alive, stdin, stdout, scenario, printing>>
    BY <1>6 DEF ReadEof
  <2>2. FALSE \in BOOLEAN
    OBVIOUS
  <2>3. ProcTypeOK'
    BY <2>1, <2>2 DEF PipeTypes, ProcTypeOK
  <2>4. CallTypeOK'
    BY <2>1, RaiseTypes
  <2>5. Out' = Out
    BY <2>1 DEF Out
  <2> QED
    BY <1>1, <1>2, <1>6, <2>1, <2>3, <2>4, <2>5 DEF PipeTypes
<1> QED
  BY <1>3, <1>4, <1>5, <1>6

(* Where compute cannot write, or finds no executable, no process is       *)
(* running.                                                                *)
LEMMA QuietTypes ==
  ASSUME PipeTypes, WriteFails \/ NoExecutable
  PROVE  PipeTypes' /\ ~ (handle /\ alive) /\ UNCHANGED procVars
<1>1. CASE WriteFails
  <2>1. CallTypeOK'
    BY <1>1, RaiseTypes DEF WriteFails
  <2>2. ProcTypeOK'
    BY <1>1 DEF WriteFails, procVars, PipeTypes, ProcTypeOK
  <2> QED
    BY <1>1, <2>1, <2>2 DEF WriteFails, PipeTypes
<1>2. CASE NoExecutable
  <2>1. ProcTypeOK'
    BY <1>2 DEF NoExecutable, procVars, PipeTypes, ProcTypeOK
  <2>2. job' \in 0 .. MaxJobs
    BY <1>2, PipeConstants DEF NoExecutable, PipeTypes, CallTypeOK
  <2>3. caller = "idle" /\ caller' = "idle" /\ unsent' = unsent /\ snapshot' = Nothing
        /\ crashes' = crashes
    BY <1>2 DEF NoExecutable, callVars
  <2>4. CallTypeOK'
    BY <2>2, <2>3 DEF PipeTypes, CallTypeOK, Busy
  <2> QED
    BY <1>2, <2>1, <2>4 DEF NoExecutable, PipeTypes
<1> QED
  BY <1>1, <1>2

(* Every step keeps the types.                                             *)
LEMMA TypesInductive ==
  ASSUME PipeTypes, [Next]_vars
  PROVE  PipeTypes'
<1>1. CASE UNCHANGED vars
  BY <1>1 DEF vars, procVars, callVars, history, PipeTypes, ProcTypeOK, CallTypeOK, Busy
<1>2. CASE Next
  BY <1>2, StartTypes, WriteTypes, ReadTypes, QuietTypes, CloseTypes, ReaderTypes, PrinterTypes,
     CrashTypes DEF Next
<1> QED
  BY <1>1, <1>2

-----------------------------------------------------------------------------
(* The lines on their way to the runner.                                   *)

StreamInv == NothingFromTheFuture /\ JobComesLast /\ OwnScenario

(* The lines on their way are lines that the two sides know.               *)
LEMMA SequenceTypes ==
  ASSUME PipeTypes
  PROVE  In \in Seq(InputLines) /\ Out \in Seq(OutputLines)
<1>1. /\ stdin \in Seq(InputLines) /\ unsent \in Seq(InputLines)
      /\ stdout \in Seq(OutputLines) /\ printing \in Seq(OutputLines)
  BY DEF PipeTypes, ProcTypeOK, CallTypeOK
<1> QED
  BY <1>1 DEF In, Out

(* A job's lines come after what is there already.                         *)
LEMMA StartFacts ==
  ASSUME PipeTypes, NEW s \in Snapshots, StartCompute(s),
         NEW base, base = IF handle /\ alive THEN Len(In) ELSE 0
  PROVE  /\ job + 1 \in 1 .. MaxJobs /\ job' = job + 1 /\ snapshot' = s
         /\ caller = "idle" /\ caller' = "writing"
         /\ SaysScenario(JobLines', job', s)
         /\ base \in Nat
         /\ Len(In') = base + Len(JobLines')
         /\ \A k \in 1 .. Len(JobLines') : In'[base + k] = JobLines'[k]
         /\ \A k \in 1 .. base : In'[k] = In[k] /\ k \in 1 .. Len(In)
         /\ scenario' = scenario \/ scenario' = Blank
         /\ Out' = <<>> \/ (Out' = Out /\ handle /\ alive)
<1> DEFINE L == ScenarioLines(job + 1, s)
<1>1. job + 1 \in 1 .. MaxJobs /\ job' = job + 1 /\ snapshot' = s /\ JobLines' = L
      /\ caller = "idle" /\ caller' = "writing"
  BY PipeConstants DEF StartCompute, JobLines, PipeTypes, CallTypeOK
<1>2. SaysScenario(L, job + 1, s)
  BY <1>1, LinesFacts
<1>3. L \in Seq(InputLines) /\ Len(L) \in Nat
  BY <1>2 DEF SaysScenario
<1>4. unsent = <<>> /\ unsent' = L /\ stdin \in Seq(InputLines) /\ stdout \in Seq(OutputLines)
  BY DEF StartCompute, PipeTypes, CallTypeOK, ProcTypeOK
<1> HIDE DEF L
<1>5. In = stdin /\ Len(stdin) \in Nat
  BY <1>4 DEF In
<1>6. CASE handle /\ alive
  <2>1. UNCHANGED <<stdin, stdout, scenario, printing>> /\ base = Len(stdin)
    BY <1>5, <1>6 DEF StartCompute, EnsureProcess, procVars
  <2>2. In' = stdin \o L /\ Out' = Out
    BY <1>4, <2>1 DEF In, Out
  <2>3. /\ stdin \o L \in Seq(InputLines)
        /\ Len(stdin \o L) = Len(stdin) + Len(L)
        /\ \A k \in 1 .. Len(stdin) : (stdin \o L)[k] = stdin[k]
        /\ \A k \in 1 .. Len(L) : (stdin \o L)[Len(stdin) + k] = L[k]
    BY <1>3, <1>4
  <2> QED
    BY <1>1, <1>2, <1>3, <1>5, <1>6, <2>1, <2>2, <2>3
<1>7. CASE ~ (handle /\ alive)
  <2>1. stdin' = <<>> /\ stdout' = <<>> /\ printing' = <<>> /\ scenario' = Blank /\ base = 0
    BY <1>7 DEF StartCompute, EnsureProcess
  <2>2. <<>> \o L = L
    BY <1>3
  <2>3. In' = L
    BY <1>4, <2>1, <2>2 DEF In
  <2>4. Out' = <<>>
    BY <2>1 DEF Out
  <2>5. \A k \in 1 .. Len(L) : base + k = k
    BY <1>3, <2>1
  <2> QED
    BY <1>1, <1>2, <1>3, <2>1, <2>3, <2>4, <2>5
<1> QED
  BY <1>6, <1>7

(* A new job's lines come last, and its number is a new one.               *)
LEMMA StartStream ==
  ASSUME PipeTypes, StreamInv, NEW s \in Snapshots, StartCompute(s)
  PROVE  StreamInv'
<1> DEFINE base == IF handle /\ alive THEN Len(In) ELSE 0
           L == JobLines'
           V == In'
<1>0. base = IF handle /\ alive THEN Len(In) ELSE 0
  OBVIOUS
<1> HIDE DEF base
<1>1. /\ job + 1 \in 1 .. MaxJobs /\ job' = job + 1 /\ snapshot' = s
      /\ SaysScenario(L, job', s)
      /\ base \in Nat
      /\ Len(V) = base + Len(L)
      /\ \A k \in 1 .. Len(L) : V[base + k] = L[k]
      /\ \A k \in 1 .. base : V[k] = In[k] /\ k \in 1 .. Len(In)
      /\ scenario' = scenario \/ scenario' = Blank
      /\ Out' = <<>> \/ Out' = Out
  BY <1>0, StartFacts
<1>2. job \in Nat /\ Len(L) \in Nat /\ L = ScenarioLines(job + 1, s)
  BY <1>1 DEF PipeTypes, CallTypeOK, SaysScenario, JobLines
<1>3. \A k \in 1 .. Len(L) : Place(L, job + 1, s, k)
  BY <1>1, <1>2, PlacesFacts
<1> HIDE DEF L
<1>4. ASSUME NEW k \in 1 .. Len(L), L[k].type = "SCENARIO"
      PROVE  k = 1 /\ L[k].value.id = job + 1
  <2>1. Place(L, job + 1, s, k)
    BY <1>3
  <2>2. k # Len(L)
    BY <1>4, <2>1 DEF Place, Command
  <2>3. k = 1
    BY <1>4, <2>1, <2>2 DEF Place, RecordTypes
  <2>4. L[k].value = Named(job + 1, s)
    BY <2>1, <2>3 DEF Place
  <2> QED
    BY <1>1, <2>3, <2>4, NamedFacts
<1>5. /\ scenario.id <= job
      /\ \A k \in 1 .. Len(In) : In[k].type = "SCENARIO" => In[k].value.id <= job
      /\ \A k \in 1 .. Len(Out) : Answers(k) => Out[k].id <= job
  BY DEF StreamInv, NothingFromTheFuture
<1>a. ASSUME NEW k \in 1 .. Len(In), In[k].type = "SCENARIO"
      PROVE  In[k].value.id \in 0 .. MaxJobs
  <2>1. In[k] \in InputLines
    BY SequenceTypes
  <2>2. PICK n \in 1 .. MaxJobs, t \in Snapshots : In[k].value = Named(n, t)
    BY <1>a, <2>1, InputFacts
  <2> QED
    BY <2>2, NamedFacts
<1>6. scenario'.id <= job /\ scenario'.id \in Nat
  <2>1. scenario.id \in Nat /\ Blank.id = 0
    BY DEF PipeTypes, ProcTypeOK, Scenarios, Blank
  <2> QED
    BY <1>1, <1>2, <1>5, <2>1
<1>7. ASSUME NEW k \in 1 .. Len(V), V[k].type = "SCENARIO"
      PROVE  IF k = base + 1 THEN V[k].value.id = job + 1
             ELSE V[k].value.id <= job /\ V[k].value.id \in Nat
  <2>1. CASE k \in 1 .. base
    BY <1>1, <1>5, <1>7, <1>a, <2>1
  <2>2. CASE k - base \in 1 .. Len(L)
    <3>1. k = base + (k - base)
      BY <1>1
    <3>2. V[k] = L[k - base]
      BY <1>1, <2>2, <3>1
    <3>3. k - base = 1 /\ L[k - base].value.id = job + 1
      BY <1>4, <1>7, <2>2, <3>2
    <3> QED
      BY <1>1, <3>2, <3>3
  <2> QED
    BY <1>1, <1>2, <2>1, <2>2
<1>8. NothingFromTheFuture'
  <2>1. scenario'.id <= job'
    BY <1>1, <1>2, <1>6
  <2>2. ASSUME NEW k \in 1 .. Len(V), V[k].type = "SCENARIO"
        PROVE  V[k].value.id <= job + 1
    BY <1>2, <1>7, <2>2
  <2>3. ASSUME NEW k \in 1 .. Len(Out'), Answers(k)'
        PROVE  Out'[k].id <= job'
    <3>1. Out' = Out
      BY <1>1, <2>3
    <3>2. k \in 1 .. Len(Out) /\ Answers(k) /\ Out[k] \in OutputLines
      BY <2>3, <3>1, SequenceTypes DEF Answers
    <3>3. Out[k].id \in Nat
      BY <3>2 DEF OutputLines, ErrorLine, Answers
    <3>6. \A j \in 1 .. Len(Out) : Answers(j) => Out[j].id <= job
      BY DEF StreamInv, NothingFromTheFuture
    <3>4. Out[k].id <= job
      BY <3>6, <3>2
    <3>5. Out[k].id <= job + 1
      BY <1>2, <3>3, <3>4
    <3> QED
      BY <1>1, <3>1, <3>5
  <2> QED
    BY <1>1, <2>1, <2>2, <2>3 DEF NothingFromTheFuture
<1>9. JobComesLast'
  <2>1. ASSUME NEW k \in 1 .. Len(V), Len(V) - k < Len(L)
        PROVE  V[k] = L[Len(L) - (Len(V) - k)]
    <3>1. k - base \in 1 .. Len(L) /\ k = base + (k - base) /\ Len(L) - (Len(V) - k) = k - base
      BY <1>1, <1>2, <2>1
    <3> QED
      BY <1>1, <3>1
  <2>2. ASSUME NEW k \in 1 .. Len(V), V[k].type = "SCENARIO", V[k].value.id = job'
        PROVE  Len(V) - k = Len(L) - 1
    <3>1. k = base + 1
      BY <1>1, <1>2, <1>7, <2>2
    <3> QED
      BY <1>1, <1>2, <3>1
  <2> QED
    BY <2>1, <2>2 DEF JobComesLast, L
<1>10. OwnScenario'
  BY <1>1, <1>2, <1>6 DEF OwnScenario
<1> QED
  BY <1>8, <1>9, <1>10 DEF StreamInv

(* A step that leaves the runner's input alone.                            *)
LEMMA SettledStream ==
  ASSUME PipeTypes, StreamInv, In' = In, scenario' = scenario, job' = job, snapshot' = snapshot,
         Busy' => Busy,
         \A k \in 1 .. Len(Out') : \E j \in 1 .. Len(Out) : Out'[k] = Out[j]
  PROVE  StreamInv'
<1>1. ASSUME NEW k \in 1 .. Len(Out'), Answers(k)'
      PROVE  Out'[k].id <= job
  <2>1. PICK j \in 1 .. Len(Out) : Out'[k] = Out[j]
    OBVIOUS
  <2>2. Answers(j)
    BY <1>1, <2>1 DEF Answers
  <2>3. \A i \in 1 .. Len(Out) : Answers(i) => Out[i].id <= job
    BY DEF StreamInv, NothingFromTheFuture
  <2> QED
    BY <2>1, <2>2, <2>3
<1>2. JobLines' = JobLines
  BY DEF JobLines
<1>3. NothingFromTheFuture'
  BY <1>1 DEF StreamInv, NothingFromTheFuture
<1>4. JobComesLast'
  BY <1>2 DEF StreamInv, JobComesLast
<1>5. OwnScenario'
  BY <1>2 DEF StreamInv, OwnScenario
<1> QED
  BY <1>3, <1>4, <1>5 DEF StreamInv

(* A job that does not start leaves what is on its way alone.              *)
LEMMA NoExecutableStream ==
  ASSUME PipeTypes, StreamInv, NoExecutable
  PROVE  StreamInv'
<1>1. /\ In' = In /\ Out' = Out /\ scenario' = scenario
      /\ job' = job + 1 /\ job \in Nat /\ ~ Busy'
  BY DEF NoExecutable, procVars, callVars, In, Out, Busy, PipeTypes, CallTypeOK
<1>2. scenario.id <= job'
  BY <1>1 DEF StreamInv, NothingFromTheFuture, PipeTypes, ProcTypeOK, Scenarios
<1>3. ASSUME NEW k \in 1 .. Len(In), In[k].type = "SCENARIO"
      PROVE  In[k].value.id <= job'
  <2>1. In[k] \in InputLines
    BY SequenceTypes
  <2>2. PICK n \in 1 .. MaxJobs, t \in Snapshots : In[k].value = Named(n, t)
    BY <1>3, <2>1, InputFacts
  <2>3. In[k].value.id \in Nat
    BY <2>2, NamedFacts
  <2>4. In[k].value.id <= job
    BY <1>3 DEF StreamInv, NothingFromTheFuture
  <2> QED
    BY <1>1, <2>3, <2>4
<1>4. ASSUME NEW k \in 1 .. Len(Out), Answers(k)
      PROVE  Out[k].id <= job'
  <2>1. Out[k] \in OutputLines
    BY SequenceTypes
  <2>2. Out[k].id \in Nat
    BY <1>4, <2>1 DEF OutputLines, ErrorLine, Answers
  <2>3. \A i \in 1 .. Len(Out) : Answers(i) => Out[i].id <= job
    BY DEF StreamInv, NothingFromTheFuture
  <2>4. Out[k].id <= job
    BY <1>4, <2>3
  <2> QED
    BY <1>1, <2>2, <2>4
<1>5. NothingFromTheFuture'
  BY <1>1, <1>2, <1>3, <1>4 DEF NothingFromTheFuture, Answers
<1> QED
  BY <1>1, <1>5 DEF StreamInv, JobComesLast, OwnScenario

(* QUIT names no job.                                                      *)
LEMMA CloseStream ==
  ASSUME PipeTypes, StreamInv, Close \/ CloseEnds
  PROVE  StreamInv'
<1>1. ~ Busy'
  BY DEF Close, CloseEnds, Busy
<1>2. unsent = <<>> /\ stdin \in Seq(InputLines) /\ In = stdin
  BY DEF Close, CloseEnds, PipeTypes, ProcTypeOK, CallTypeOK, In
<1>3. CASE Close
  <2>1. /\ Out' = Out /\ scenario' = scenario /\ job' = job
    BY <1>3 DEF Close, Out, history
  <2>2. In' = stdin'
    <3>1. unsent' = <<>> /\ stdin' \in Seq(InputLines)
      BY <1>2, <1>3, CloseTypes DEF Close, PipeTypes, ProcTypeOK
    <3> QED
      BY <3>1 DEF In
  <2>3. stdin' = stdin \/ stdin' = Append(stdin, Command("QUIT"))
    BY <1>3 DEF Close
  <2>4. ASSUME NEW k \in 1 .. Len(In'), In'[k].type = "SCENARIO"
        PROVE  k \in 1 .. Len(In) /\ In'[k] = In[k]
    <3>1. CASE stdin' = stdin
      BY <1>2, <2>2, <2>4, <3>1
    <3>2. CASE stdin' = Append(stdin, Command("QUIT"))
      <4>1. Len(stdin') = Len(stdin) + 1 /\ Len(stdin) \in Nat
            /\ stdin'[Len(stdin) + 1] = Command("QUIT")
            /\ \A i \in 1 .. Len(stdin) : stdin'[i] = stdin[i]
        BY <1>2, <3>2
      <4>2. k # Len(stdin) + 1
        BY <2>2, <2>4, <4>1 DEF Command
      <4> QED
        BY <1>2, <2>2, <2>4, <4>1, <4>2
    <3> QED
      BY <2>3, <3>1, <3>2
  <2>5. NothingFromTheFuture'
    BY <2>1, <2>4 DEF StreamInv, NothingFromTheFuture, Answers
  <2> QED
    BY <1>1, <2>5 DEF StreamInv, JobComesLast, OwnScenario
<1>4. CASE CloseEnds
  <2>1. unsent' = <<>> /\ stdin' = <<>> /\ stdout' = <<>> /\ printing' = <<>>
        /\ scenario' = Blank /\ job' = job
    BY <1>2, <1>4 DEF CloseEnds, history
  <2>2. In' = <<>> /\ Out' = <<>>
    BY <2>1 DEF In, Out
  <2>3. scenario'.id = 0 /\ job \in Nat
    BY <2>1 DEF Blank, PipeTypes, CallTypeOK
  <2>4. NothingFromTheFuture'
    BY <2>1, <2>2, <2>3 DEF NothingFromTheFuture
  <2> QED
    BY <1>1, <2>4 DEF StreamInv, JobComesLast, OwnScenario
<1> QED
  BY <1>3, <1>4

(* During a job its number and its lines are those of compute's call.      *)
LEMMA OwnPlaces ==
  ASSUME PipeTypes, Busy
  PROVE  /\ job \in 1 .. MaxJobs /\ snapshot \in Snapshots
         /\ SaysScenario(JobLines, job, snapshot)
         /\ Len(JobLines) \in Nat
         /\ \A k \in 1 .. Len(JobLines) : Place(JobLines, job, snapshot, k)
<1>1. job \in 1 .. MaxJobs /\ snapshot \in Snapshots
  BY PipeConstants DEF PipeTypes, CallTypeOK
<1> QED
  BY <1>1, LinesFacts, PlacesFacts DEF JobLines, SaysScenario

(* The next line of the runner, if it is of the current job.               *)
LEMMA NextOwnLine ==
  ASSUME PipeTypes, StreamInv, Busy, In # <<>>, Len(In) <= Len(JobLines)
  PROVE  /\ Len(In) \in Nat \ {0}
         /\ Len(JobLines) - Len(In) + 1 \in 1 .. Len(JobLines)
         /\ In[1] = JobLines[Len(JobLines) - Len(In) + 1]
         /\ Place(JobLines, job, snapshot, Len(JobLines) - Len(In) + 1)
<1> DEFINE m == Len(In)
           N == Len(JobLines)
<1>1. m \in Nat \ {0}
  BY SequenceTypes
<1>2. N \in Nat
  BY OwnPlaces
<1>3. \A k \in 1 .. m : m - k < N => In[k] = JobLines[N - (m - k)]
  BY DEF StreamInv, JobComesLast
<1> HIDE DEF m, N
<1>a. m <= N
  BY DEF m, N
<1>4. 1 \in 1 .. m /\ m - 1 < N /\ N - (m - 1) = N - m + 1 /\ N - m + 1 \in 1 .. N
  BY <1>1, <1>2, <1>a
<1>5. In[1] = JobLines[N - m + 1]
  BY <1>3, <1>4
<1> QED
  BY <1>1, <1>4, <1>5, OwnPlaces DEF m, N

(* What the runner prints in one turn.                                     *)
LEMMA PrintedFacts ==
  ASSUME PipeTypes, RunnerReads
  PROVE  /\ Out = stdout
         /\ printing' \in Seq(OutputLines)
         /\ \/ printing' = <<>>
            \/ Threw(In[1]) /\ printing' = <<ErrorLine>>
            \/ CalculatedIt(In[1]) /\ Calculated(printing', scenario)
<1>1. printing = <<>> /\ stdout \in Seq(OutputLines)
  BY DEF RunnerReads, PipeTypes, ProcTypeOK
<1>2. Out = stdout
  BY <1>1 DEF Out
<1>3. printing' \in Seq(OutputLines)
  BY ReaderTypes DEF PipeTypes, ProcTypeOK
<1>4. \/ printing' = printing
      \/ Threw(In[1]) \/ TookName(In[1]) \/ TookRecord(In[1]) \/ CalculatedIt(In[1])
  BY ReaderTypes
<1>5. Threw(In[1]) => printing' = <<ErrorLine>>
  BY DEF Threw
<1>6. TookName(In[1]) \/ TookRecord(In[1]) => printing' = printing
  BY DEF TookName, TookRecord
<1>7. CalculatedIt(In[1]) => Calculated(printing', scenario)
  BY DEF CalculatedIt
<1> QED
  BY <1>1, <1>2, <1>3, <1>4, <1>5, <1>6, <1>7

(* The runner reads on: what it has of the current job are the job's first *)
(* lines.                                                                  *)
LEMMA ReaderStream ==
  ASSUME PipeTypes, StreamInv, RunnerReads
  PROVE  StreamInv'
<1>1. /\ In # <<>>
      /\ In \in Seq(InputLines)
      /\ In' = Tail(In)
      /\ Out' = Out \o printing'
      /\ IF In[1].type = "QUIT"
         THEN scenario' = scenario
         ELSE Threw(In[1]) \/ TookName(In[1]) \/ TookRecord(In[1]) \/ CalculatedIt(In[1])
  BY ReaderTypes
<1>2. /\ In[1] \in InputLines /\ Len(In) \in Nat \ {0} /\ Len(In') = Len(In) - 1
      /\ \A k \in 1 .. Len(In') : In'[k] = In[k + 1] /\ k + 1 \in 1 .. Len(In)
  BY <1>1
<1>3. /\ job' = job /\ JobLines' = JobLines /\ snapshot' = snapshot /\ (Busy' <=> Busy)
  BY DEF RunnerReads, callVars, history, JobLines, Busy
<1>4. scenario.id <= job
      /\ \A k \in 1 .. Len(In) : In[k].type = "SCENARIO" => In[k].value.id <= job
  BY DEF StreamInv, NothingFromTheFuture
<1>5. \A k \in 1 .. Len(Out) : Answers(k) => Out[k].id <= job
  BY DEF StreamInv, NothingFromTheFuture
<1>6. scenario'.id <= job
  <2>1. CASE Threw(In[1])
    BY <2>1 DEF Threw, Blank, PipeTypes, CallTypeOK
  <2>2. CASE TookName(In[1])
    BY <1>2, <1>4, <2>2 DEF TookName
  <2>3. CASE TookRecord(In[1])
    BY <1>4, <2>3 DEF TookRecord
  <2>4. CASE CalculatedIt(In[1])
    BY <1>4, <2>4 DEF CalculatedIt
  <2> QED
    BY <1>1, <1>4, <2>1, <2>2, <2>3, <2>4
<1>7. ASSUME NEW k \in 1 .. Len(Out'), Out'[k].type \in {"RESULT", "DONE"}
      PROVE  Out'[k].id <= job
  <2>1. Out \in Seq(OutputLines) /\ printing' \in Seq(OutputLines)
    BY SequenceTypes, PrintedFacts
  <2>2. /\ Len(Out \o printing') = Len(Out) + Len(printing')
        /\ Len(Out) \in Nat /\ Len(printing') \in Nat
        /\ \A i \in 1 .. Len(Out) : (Out \o printing')[i] = Out[i]
        /\ \A i \in 1 .. Len(printing') : (Out \o printing')[Len(Out) + i] = printing'[i]
    BY <2>1
  <2>3. CASE k \in 1 .. Len(Out)
    <3>1. Out'[k] = Out[k]
      BY <1>1, <2>2, <2>3
    <3>2. Answers(k)
      BY <1>7, <3>1 DEF Answers
    <3> QED
      BY <1>5, <2>3, <3>1, <3>2
  <2>4. CASE k - Len(Out) \in 1 .. Len(printing')
    <3> DEFINE i == k - Len(Out)
    <3>1. i \in 1 .. Len(printing') /\ k = Len(Out) + i
      BY <2>2, <2>4
    <3> HIDE DEF i
    <3>2. Out'[k] = printing'[i]
      BY <1>1, <2>2, <3>1
    <3>3. printing' # <<>>
      BY <2>1, <3>1
    <3>4. CASE printing' = <<ErrorLine>>
      <4>1. i = 1 /\ printing'[i] = ErrorLine
        BY <3>1, <3>4
      <4> QED
        BY <1>7, <3>2, <4>1 DEF ErrorLine
    <3>5. CASE Calculated(printing', scenario)
      <4>1. printing'[i].id = scenario.id
        <5>1. /\ scenario.expected[3] \in Nat /\ Len(printing') = scenario.expected[3] + 1
              /\ \A j \in 1 .. scenario.expected[3] : printing'[j].id = scenario.id
              /\ printing'[scenario.expected[3] + 1].id = scenario.id
          BY <3>5 DEF Calculated, DoneOf
        <5> HIDE DEF Calculated
        <5>2. i \in 1 .. scenario.expected[3] \/ i = scenario.expected[3] + 1
          BY <3>1, <5>1
        <5> QED
          BY <5>1, <5>2
      <4> QED
        BY <1>4, <3>2, <4>1
    <3> QED
      BY <3>3, <3>4, <3>5, PrintedFacts
  <2> QED
    BY <1>1, <2>2, <2>3, <2>4
<1>8. NothingFromTheFuture'
  <2>1. ASSUME NEW k \in 1 .. Len(In'), In'[k].type = "SCENARIO"
        PROVE  In'[k].value.id <= job
    BY <1>2, <1>4, <2>1
  <2>2. scenario'.id <= job'
    BY <1>3, <1>6
  <2>3. \A k \in 1 .. Len(In') : In'[k].type = "SCENARIO" => In'[k].value.id <= job'
    BY <1>3, <2>1
  <2>4. \A k \in 1 .. Len(Out') : Answers(k)' => Out'[k].id <= job'
    BY <1>3, <1>7 DEF Answers
  <2> QED
    BY <2>2, <2>3, <2>4 DEF NothingFromTheFuture
<1>9. JobComesLast'
  <2> SUFFICES ASSUME Busy', NEW k \in 1 .. Len(In')
               PROVE  /\ Len(In') - k < Len(JobLines')
                           => In'[k] = JobLines'[Len(JobLines') - (Len(In') - k)]
                      /\ (In'[k].type = "SCENARIO" /\ In'[k].value.id = job')
                           => Len(In') - k = Len(JobLines') - 1
    BY DEF JobComesLast
  <2>1. In'[k] = In[k + 1] /\ k + 1 \in 1 .. Len(In) /\ Len(In) - (k + 1) = Len(In') - k
    BY <1>2
  <2>2. /\ Len(In) - (k + 1) < Len(JobLines)
             => In[k + 1] = JobLines[Len(JobLines) - (Len(In) - (k + 1))]
        /\ In[k + 1].type = "SCENARIO" /\ In[k + 1].value.id = job
             => Len(In) - (k + 1) = Len(JobLines) - 1
    BY <1>3, <2>1 DEF StreamInv, JobComesLast
  <2> QED
    BY <1>3, <2>1, <2>2
<1>10. OwnScenario'
  <2> DEFINE m == Len(In)
             N == Len(JobLines)
  <2> SUFFICES ASSUME Busy, scenario'.id = job
               PROVE  /\ m - 1 < N
                      /\ scenario'.throws = snapshot.throws
                      /\ scenario'.expected[3] = Len(snapshot.flows)
                      /\ \A k \in 1 .. N - (m - 1) : ~ JobLines[k].odd
    <3> HIDE DEF m, N
    <3>1. Len(In') = m - 1 /\ Len(JobLines') = N
      BY <1>2, <1>3 DEF m, N
    <3> QED
      BY <1>3, <3>1 DEF OwnScenario
  <2>1. job \in 1 .. MaxJobs /\ snapshot \in Snapshots /\ N \in Nat
        /\ \A k \in 1 .. N : Place(JobLines, job, snapshot, k)
    BY OwnPlaces
  <2>2. CASE TookName(In[1])
    <3>1. In[1].type = "SCENARIO" /\ In[1].value.id = job /\ scenario' = In[1].value
      BY <2>2 DEF TookName
    <3>2. m - 1 = N - 1
      BY <1>2, <3>1 DEF StreamInv, JobComesLast
    <3>3. m = N /\ N - m + 1 = 1
      BY <1>2, <2>1, <3>2
    <3>4. In[1] = JobLines[1] /\ 1 \in 1 .. N
      BY <1>1, <3>3, NextOwnLine
    <3>5. JobLines[1] = [type |-> "SCENARIO", odd |-> FALSE, value |-> Named(job, snapshot)]
      BY <2>1, <3>4 DEF Place
    <3>6. scenario' = Named(job, snapshot) /\ ~ JobLines[1].odd
      BY <3>1, <3>4, <3>5
    <3>7. scenario'.throws = snapshot.throws /\ scenario'.expected = Expected(snapshot)
      BY <2>1, <3>6, NamedFacts
    <3>8. scenario'.expected[3] = Len(snapshot.flows)
      BY <3>7 DEF Expected
    <3>9. \A k \in 1 .. N - (m - 1) : k = 1
      BY <1>2, <2>1, <3>3
    <3> QED
      BY <1>2, <2>1, <3>3, <3>6, <3>7, <3>8, <3>9
  <2>3. CASE scenario.id = job /\ scenario'.throws = scenario.throws
             /\ scenario'.expected = scenario.expected
             /\ (TookRecord(In[1]) \/ CalculatedIt(In[1]) \/ In[1].type = "QUIT")
    <3>1. /\ m < N
          /\ scenario.throws = snapshot.throws
          /\ scenario.expected[3] = Len(snapshot.flows)
          /\ \A k \in 1 .. N - m : ~ JobLines[k].odd
      BY <2>3 DEF StreamInv, OwnScenario
    <3>2. m <= N
      BY <1>2, <2>1, <3>1
    <3>3. N - m + 1 \in 1 .. N /\ In[1] = JobLines[N - m + 1]
      BY <1>1, <3>2, NextOwnLine
    <3>4. ~ In[1].odd
      <4>1. TookRecord(In[1]) => ~ In[1].odd
        BY DEF TookRecord
      <4>2. CalculatedIt(In[1]) => In[1].type = "RUN"
        BY DEF CalculatedIt
      <4> QED
        BY <1>2, <2>3, <4>1, <4>2, InputFacts DEF RecordTypes
    <3>8. m \in Nat /\ N \in Nat
      BY <1>2, <2>1
    <3> HIDE DEF m, N
    <3>5. \A k \in 1 .. N - (m - 1) : k \in 1 .. N - m \/ k = N - m + 1
      BY <3>8
    <3>6. \A k \in 1 .. N - (m - 1) : ~ JobLines[k].odd
      BY <3>1, <3>3, <3>4, <3>5
    <3>7. m - 1 < N
      BY <3>1, <3>8
    <3> QED
      BY <2>3, <3>1, <3>6, <3>7
  <2>4. ~ Threw(In[1])
    BY <2>1 DEF Threw, Blank
  <2>5. TookRecord(In[1]) => /\ scenario.id = job /\ scenario'.throws = scenario.throws
                             /\ scenario'.expected = scenario.expected
    BY DEF TookRecord
  <2>6. CalculatedIt(In[1]) => scenario' = scenario
    BY DEF CalculatedIt
  <2> QED
    BY <1>1, <2>2, <2>3, <2>4, <2>5, <2>6
<1> QED
  BY <1>8, <1>9, <1>10 DEF StreamInv

-----------------------------------------------------------------------------
(* The lines on their way back.                                            *)

AnswerInv == AnswersComeLast /\ OwnResultsOnly /\ DoneCompletes

(* No job is being calculated any more.                                    *)
LEMMA IdleAnswers ==
  ASSUME ~ Busy'
  PROVE  AnswerInv'
BY DEF AnswerInv, AnswersComeLast, OwnResultsOnly, DoneCompletes

(* Nothing is measured or printed, at most what was not in the pipe yet is *)
(* lost.                                                                   *)
LEMMA SettledAnswers ==
  ASSUME AnswerInv, Busy' => Busy, In' = In, UNCHANGED <<measured, job, snapshot>>,
         Len(Out) \in Nat, Len(Out') \in Nat, Len(Out') <= Len(Out),
         \A k \in 1 .. Len(Out') : Out'[k] = Out[k]
  PROVE  AnswerInv'
<1>1. ASSUME NEW k \in 1 .. Len(Out') PROVE Out'[k] = Out[k] /\ k \in 1 .. Len(Out)
  OBVIOUS
<1>2. \A k \in 1 .. Len(Out') : \A j \in 1 .. k - 1 : j \in 1 .. Len(Out')
  OBVIOUS
<1>3. \A k \in 1 .. Len(Out') : OwnAnswer(k)' <=> OwnAnswer(k)
  BY <1>1 DEF OwnAnswer, Answers
<1>4. \A i : OwnMeasure(i)' <=> OwnMeasure(i)
  BY DEF OwnMeasure
<1>5. AnswersComeLast'
  BY <1>1, <1>3, <1>4 DEF AnswerInv, AnswersComeLast
<1>6. OwnResultsOnly'
  BY <1>1, <1>2, <1>3, <1>4 DEF AnswerInv, OwnResultsOnly
<1>7. DoneCompletes'
  <2> SUFFICES ASSUME Busy', NEW k \in 1 .. Len(Out'), Out'[k].type = "DONE", Out'[k].id = job'
               PROVE  /\ ~ snapshot'.throws
                      /\ ~ HasOddRecord(snapshot')
                      /\ \A i \in 1 .. Len(snapshot'.flows) :
                           \/ OwnMeasure(i)'
                           \/ \E j \in 1 .. k - 1 : /\ Out'[j].type = "RESULT"
                                                    /\ Out'[j].id = job'
                                                    /\ Out'[j].index = i
    BY DEF DoneCompletes
  <2>1. /\ ~ snapshot.throws
        /\ ~ HasOddRecord(snapshot)
        /\ \A i \in 1 .. Len(snapshot.flows) :
             \/ OwnMeasure(i)
             \/ \E j \in 1 .. k - 1 : /\ Out[j].type = "RESULT"
                                      /\ Out[j].id = job
                                      /\ Out[j].index = i
    BY <1>1 DEF AnswerInv, DoneCompletes
  <2>2. \A j \in 1 .. k - 1 : Out'[j] = Out[j]
    BY <1>1, <1>2
  <2> QED
    BY <1>4, <2>1, <2>2
<1> QED
  BY <1>5, <1>6, <1>7 DEF AnswerInv

(* A new job: what is on its way is not its own.                           *)
LEMMA StartAnswers ==
  ASSUME PipeTypes, StreamInv, NEW s \in Snapshots, StartCompute(s)
  PROVE  AnswerInv'
<1>1. job' = job + 1 /\ job \in Nat /\ measured' = <<>>
  BY DEF StartCompute, PipeTypes, CallTypeOK
<1>2. Out' = <<>> \/ Out' = Out
  BY StartFacts
<1>3. ASSUME NEW k \in 1 .. Len(Out') PROVE ~ OwnAnswer(k)'
  <2>1. CASE Out' = <<>>
    BY <2>1
  <2>2. CASE Out' = Out
    <3>1. \A i \in 1 .. Len(Out) : Answers(i) => Out[i].id <= job
      BY DEF StreamInv, NothingFromTheFuture
    <3>2. Answers(k) => Out[k].id <= job
      BY <2>2, <3>1
    <3>3. Out'[k].id # job' \/ ~ Answers(k)
      BY <1>1, <2>2, <3>2
    <3> QED
      BY <2>2, <3>3 DEF OwnAnswer, Answers
  <2> QED
    BY <1>2, <2>1, <2>2
<1>4. \A i : ~ OwnMeasure(i)'
  BY <1>1 DEF OwnMeasure
<1>5. \A k \in 1 .. Len(Out') : \A j \in 1 .. k - 1 : j \in 1 .. Len(Out')
  BY <1>2, SequenceTypes
<1>6. AnswersComeLast'
  BY <1>3, <1>4 DEF AnswersComeLast
<1>7. OwnResultsOnly'
  BY <1>3, <1>4, <1>5 DEF OwnResultsOnly
<1>8. DoneCompletes'
  BY <1>3 DEF DoneCompletes, OwnAnswer, Answers
<1> QED
  BY <1>6, <1>7, <1>8 DEF AnswerInv

(* What has been measured after a line was read.                           *)
LEMMA MeasureFacts ==
  ASSUME PipeTypes, ReadResult
  PROVE  /\ \A i : OwnMeasure(i)' <=> \/ i = Out[1].index /\ Out[1].id = job
                                      \/ i # Out[1].index /\ OwnMeasure(i)
         /\ \A i \in DOMAIN measured' :
              measured'[i].values = IF i = Out[1].index THEN Out[1].values ELSE measured[i].values
         /\ Out[1].type = "RESULT"
         /\ Out \in Seq(OutputLines) /\ Out # <<>>
         /\ Out' = Tail(Out) /\ In' = In
         /\ job' = job /\ snapshot' = snapshot /\ Busy /\ Busy'
<1>1. /\ Out \in Seq(OutputLines) /\ Out # <<>> /\ Out' = Tail(Out) /\ In' = In
      /\ Head(stdout) = Out[1]
  BY ReadTypes DEF ReadResult, ReadEof
<1>2. /\ Out[1].type = "RESULT" /\ Measure(Out[1]) /\ job' = job /\ snapshot' = snapshot
      /\ Busy /\ Busy'
  BY <1>1 DEF ReadResult, history, Busy
<1> DEFINE x == Out[1].index
           new == [from |-> Out[1].id, values |-> Out[1].values]
<1>3. measured' = [i \in DOMAIN measured \cup {x} |-> IF i = x THEN new ELSE measured[i]]
  BY <1>2 DEF Measure
<1>4. new.from = Out[1].id /\ new.values = Out[1].values
  OBVIOUS
<1> HIDE DEF new, x
<1>5. ASSUME NEW i
      PROVE  OwnMeasure(i)' <=> \/ i = x /\ Out[1].id = job
                                \/ i # x /\ OwnMeasure(i)
  <2>1. CASE i = x
    <3>1. i \in DOMAIN measured' /\ measured'[i] = new
      BY <1>3, <2>1
    <3> QED
      BY <1>2, <1>4, <2>1, <3>1 DEF OwnMeasure
  <2>2. CASE i # x
    <3>1. i \in DOMAIN measured' <=> i \in DOMAIN measured
      BY <1>3, <2>2
    <3>2. i \in DOMAIN measured => measured'[i] = measured[i]
      BY <1>3, <2>2
    <3> QED
      BY <1>2, <2>2, <3>1, <3>2 DEF OwnMeasure
  <2> QED
    BY <2>1, <2>2
<1>6. ASSUME NEW i \in DOMAIN measured'
      PROVE  measured'[i].values = IF i = x THEN Out[1].values ELSE measured[i].values
  <2>1. measured'[i] = IF i = x THEN new ELSE measured[i]
    BY <1>3
  <2> QED
    BY <1>4, <2>1
<1> QED
  BY <1>1, <1>2, <1>5, <1>6 DEF x

(* A RESULT that compute has read still counts for the DONE after it.      *)
LEMMA ReadResultAnswers ==
  ASSUME PipeTypes, AnswerInv, ReadResult
  PROVE  AnswerInv'
<1> DEFINE line == Out[1]
<1>1. /\ \A i : OwnMeasure(i)' <=> \/ i = line.index /\ line.id = job
                                   \/ i # line.index /\ OwnMeasure(i)
      /\ line.type = "RESULT"
      /\ Out \in Seq(OutputLines) /\ Out # <<>>
      /\ Out' = Tail(Out) /\ In' = In
      /\ job' = job /\ snapshot' = snapshot /\ Busy /\ Busy'
  BY MeasureFacts
<1>2. /\ Len(Out) \in Nat \ {0} /\ Len(Out') = Len(Out) - 1
      /\ \A k \in 1 .. Len(Out') : Out'[k] = Out[k + 1] /\ k + 1 \in 1 .. Len(Out)
  BY <1>1
<1>3. ASSUME NEW k \in 1 .. Len(Out')
      PROVE  OwnAnswer(k)' <=> OwnAnswer(k + 1)
  BY <1>1, <1>2 DEF OwnAnswer, Answers
<1>4. /\ 1 \in 1 .. Len(Out)
      /\ OwnAnswer(1) <=> line.id = job
  BY <1>1, <1>2 DEF OwnAnswer, Answers
<1>5. \A i : OwnMeasure(i)' => OwnAnswer(1) \/ (i \in DOMAIN measured /\ OwnMeasure(i))
  BY <1>1, <1>4 DEF OwnMeasure
<1>6. AnswersComeLast'
  <2>1. ASSUME NEW k \in 1 .. Len(Out'), OwnAnswer(k)' PROVE In = <<>>
    BY <1>1, <1>2, <1>3, <2>1 DEF AnswerInv, AnswersComeLast
  <2>2. ASSUME NEW i, OwnMeasure(i)' PROVE In = <<>>
    BY <1>1, <1>4, <1>5, <2>2 DEF AnswerInv, AnswersComeLast
  <2> QED
    BY <1>1, <2>1, <2>2 DEF AnswersComeLast
<1>7. OwnResultsOnly'
  <2> SUFFICES ASSUME NEW k \in 1 .. Len(Out'), Out'[k].type = "RESULT",
                      \/ \E j \in 1 .. k - 1 : OwnAnswer(j)'
                      \/ \E i \in DOMAIN measured' : OwnMeasure(i)'
               PROVE  Out'[k].id = job'
    BY DEF OwnResultsOnly
  <2>1. k + 1 \in 1 .. Len(Out) /\ Out'[k] = Out[k + 1] /\ (k + 1) - 1 = k
        /\ 1 \in 1 .. k
    BY <1>2
  <2>2. \/ \E j \in 1 .. (k + 1) - 1 : OwnAnswer(j)
        \/ \E i \in DOMAIN measured : OwnMeasure(i)
    <3>1. ASSUME NEW j \in 1 .. k - 1, OwnAnswer(j)'
          PROVE  \E i \in 1 .. k : OwnAnswer(i)
      <4>1. j \in 1 .. Len(Out') /\ j + 1 \in 1 .. k
        BY <1>2
      <4>2. OwnAnswer(j + 1)
        BY <1>3, <3>1, <4>1
      <4> QED
        BY <4>1, <4>2
    <3>2. ASSUME NEW i, OwnMeasure(i)'
          PROVE  OwnAnswer(1) \/ (i \in DOMAIN measured /\ OwnMeasure(i))
      BY <1>5, <3>2
    <3> QED
      BY <2>1, <3>1, <3>2
  <2>3. Out[k + 1].id = job
    BY <1>1, <2>1, <2>2 DEF AnswerInv, OwnResultsOnly
  <2> QED
    BY <1>1, <2>1, <2>3
<1>8. DoneCompletes'
  <2> SUFFICES ASSUME NEW k \in 1 .. Len(Out'), Out'[k].type = "DONE", Out'[k].id = job'
               PROVE  /\ ~ snapshot'.throws
                      /\ ~ HasOddRecord(snapshot')
                      /\ \A i \in 1 .. Len(snapshot'.flows) :
                           \/ OwnMeasure(i)'
                           \/ \E j \in 1 .. k - 1 : /\ Out'[j].type = "RESULT"
                                                    /\ Out'[j].id = job'
                                                    /\ Out'[j].index = i
    BY DEF DoneCompletes
  <2>1. k + 1 \in 1 .. Len(Out) /\ Out'[k] = Out[k + 1] /\ (k + 1) - 1 = k
    BY <1>2
  <2>2. /\ ~ snapshot.throws
        /\ ~ HasOddRecord(snapshot)
        /\ \A i \in 1 .. Len(snapshot.flows) :
             \/ OwnMeasure(i)
             \/ \E j \in 1 .. (k + 1) - 1 : /\ Out[j].type = "RESULT"
                                            /\ Out[j].id = job
                                            /\ Out[j].index = i
    BY <1>1, <2>1 DEF AnswerInv, DoneCompletes
  <2>3. ASSUME NEW i \in 1 .. Len(snapshot.flows), ~ OwnMeasure(i)'
        PROVE  \E j \in 1 .. k - 1 : /\ Out'[j].type = "RESULT"
                                     /\ Out'[j].id = job
                                     /\ Out'[j].index = i
    <3>1. ~ OwnMeasure(i)
      <4>1. OwnMeasure(i) => line.id = job
        <5>1. OwnMeasure(i) => i \in DOMAIN measured
          BY DEF OwnMeasure
        <5> QED
          BY <1>1, <1>4, <5>1 DEF AnswerInv, OwnResultsOnly
      <4> QED
        BY <1>1, <2>3, <4>1
    <3>2. PICK j \in 1 .. k : /\ Out[j].type = "RESULT"
                              /\ Out[j].id = job
                              /\ Out[j].index = i
      BY <2>1, <2>2, <3>1
    <3>3. j # 1
      BY <1>1, <2>3, <3>2
    <3>4. j - 1 \in 1 .. k - 1 /\ j - 1 \in 1 .. Len(Out') /\ (j - 1) + 1 = j
      BY <1>2, <3>3
    <3>5. Out'[j - 1] = Out[j]
      BY <1>2, <3>4
    <3> QED
      BY <3>2, <3>4, <3>5
  <2> QED
    BY <1>1, <2>2, <2>3
<1> QED
  BY <1>6, <1>7, <1>8 DEF AnswerInv

(* The runner answers the job only when it has read all of its lines.      *)
LEMMA ReaderAnswers ==
  ASSUME PipeTypes, StreamInv, AnswerInv, RunnerReads, Busy
  PROVE  AnswerInv'
<1> DEFINE new == printing'
           f == scenario.expected[3]
<1>1. /\ In # <<>> /\ In \in Seq(InputLines) /\ In' = Tail(In)
      /\ Out \in Seq(OutputLines) /\ new \in Seq(OutputLines)
      /\ Out' = Out \o new
  BY ReaderTypes, SequenceTypes, PrintedFacts
<1>2. job' = job /\ snapshot' = snapshot /\ measured' = measured
  BY DEF RunnerReads, callVars, history
<1>3. /\ \A k \in 1 .. Len(Out) : ~ OwnAnswer(k)
      /\ \A i : ~ OwnMeasure(i)
  <2>1. \A i : OwnMeasure(i) => i \in DOMAIN measured
    BY DEF OwnMeasure
  <2> QED
    BY <1>1, <2>1 DEF AnswerInv, AnswersComeLast
<1>4. \A i : ~ OwnMeasure(i)'
  BY <1>2, <1>3 DEF OwnMeasure
<1>5. /\ Len(Out') = Len(Out) + Len(new)
      /\ Len(Out) \in Nat /\ Len(new) \in Nat
      /\ \A k \in 1 .. Len(Out) : Out'[k] = Out[k]
      /\ \A k \in 1 .. Len(new) : Out'[Len(Out) + k] = new[k]
  <2>1. Out \in Seq(OutputLines) /\ new \in Seq(OutputLines)
    BY <1>1
  <2> HIDE DEF new
  <2>2. /\ Len(Out \o new) = Len(Out) + Len(new)
        /\ Len(Out) \in Nat /\ Len(new) \in Nat
        /\ \A k \in 1 .. Len(Out) : (Out \o new)[k] = Out[k]
        /\ \A k \in 1 .. Len(new) : (Out \o new)[Len(Out) + k] = new[k]
    BY <2>1
  <2> QED
    BY <1>1, <2>2
<1>6. ASSUME NEW k \in 1 .. Len(Out) PROVE ~ OwnAnswer(k)'
  BY <1>2, <1>3, <1>5 DEF OwnAnswer, Answers
<1>7. ASSUME NEW k \in 1 .. Len(Out'), k \notin 1 .. Len(Out)
      PROVE  k - Len(Out) \in 1 .. Len(new) /\ Out'[k] = new[k - Len(Out)]
  <2> HIDE DEF new
  <2>1. k - Len(Out) \in 1 .. Len(new) /\ Len(Out) + (k - Len(Out)) = k
    BY <1>5, <1>7
  <2> QED
    BY <1>5, <2>1
<1>8. CASE Calculated(new, scenario) /\ CalculatedIt(In[1]) /\ scenario.id = job
  <2>1. /\ f \in Nat
        /\ ~ scenario.throws
        /\ Len(new) = f + 1
        /\ \A k \in 1 .. f : new[k].type = "RESULT" /\ new[k].id = job /\ new[k].index = k
        /\ new[f + 1] = DoneOf(job)
    BY <1>8 DEF Calculated
  <2>2. /\ Len(In) < Len(JobLines)
        /\ scenario.throws = snapshot.throws
        /\ f = Len(snapshot.flows)
        /\ \A k \in 1 .. Len(JobLines) - Len(In) : ~ JobLines[k].odd
    BY <1>8 DEF StreamInv, OwnScenario
  <2>3. Len(In) = 1 /\ Len(JobLines) \in Nat
    <3> DEFINE m == Len(In)
               N == Len(JobLines)
    <3>1. m \in Nat /\ N \in Nat
      BY <1>1, OwnPlaces
    <3>2. m <= N
      BY <2>2, <3>1
    <3>3. /\ In[1] = JobLines[N - m + 1] /\ m \in Nat \ {0} /\ N - m + 1 \in 1 .. N
          /\ Place(JobLines, job, snapshot, N - m + 1)
      BY <1>1, <3>2, NextOwnLine
    <3>4. In[1].type = "RUN"
      BY <1>8 DEF CalculatedIt
    <3>5. N - m + 1 # 1
      BY <2>2, <3>1
    <3>6. ~ (N - m + 1 # 1 /\ N - m + 1 # N)
      BY <3>3, <3>4 DEF Place, RecordTypes
    <3>7. N - m + 1 = N
      BY <3>5, <3>6
    <3> HIDE DEF m, N
    <3>8. m = 1
      BY <3>1, <3>7
    <3> QED
      BY <3>1, <3>8 DEF m, N
  <2> HIDE DEF f, new
  <2>4. In' = <<>>
    BY <1>1, <2>3
  <2>5. ~ HasOddRecord(snapshot)
    <3>1. SaysScenario(JobLines, job, snapshot)
      BY OwnPlaces
    <3>2. ASSUME NEW k \in 1 .. Len(Records(snapshot))
          PROVE  ~ Records(snapshot)[k].odd
      <4>1. k + 1 \in 1 .. Len(JobLines) - 1 /\ k \in 1 .. Len(JobLines) - 2
        BY <3>1 DEF SaysScenario
      <4>2. JobLines[k + 1] = Records(snapshot)[k]
        BY <3>1, <4>1 DEF SaysScenario
      <4> QED
        BY <2>2, <2>3, <4>1, <4>2
    <3> QED
      BY <3>2 DEF HasOddRecord
  <2>6. AnswersComeLast'
    BY <2>4 DEF AnswersComeLast
  <2>7. OwnResultsOnly'
    <3> SUFFICES ASSUME NEW k \in 1 .. Len(Out'), Out'[k].type = "RESULT",
                        \/ \E j \in 1 .. k - 1 : OwnAnswer(j)'
                        \/ \E i \in DOMAIN measured' : OwnMeasure(i)'
                 PROVE  Out'[k].id = job'
      BY DEF OwnResultsOnly
    <3>1. PICK j \in 1 .. k - 1 : OwnAnswer(j)'
      BY <1>4
    <3>2. j \notin 1 .. Len(Out)
      BY <1>6, <3>1
    <3>3. k \notin 1 .. Len(Out)
      BY <1>5, <3>2
    <3>4. k - Len(Out) \in 1 .. Len(new) /\ Out'[k] = new[k - Len(Out)]
      BY <1>7, <3>3
    <3>5. k - Len(Out) \in 1 .. f
      <4>1. new[f + 1].type # "RESULT"
        BY <2>1 DEF DoneOf
      <4>2. k - Len(Out) # f + 1
        BY <3>4, <4>1
      <4> QED
        BY <2>1, <3>4, <4>2
    <3> QED
      BY <1>2, <2>1, <3>4, <3>5
  <2>8. DoneCompletes'
    <3> SUFFICES ASSUME NEW k \in 1 .. Len(Out'), Out'[k].type = "DONE", Out'[k].id = job'
                 PROVE  /\ ~ snapshot'.throws
                        /\ ~ HasOddRecord(snapshot')
                        /\ \A i \in 1 .. Len(snapshot'.flows) :
                             \/ OwnMeasure(i)'
                             \/ \E j \in 1 .. k - 1 : /\ Out'[j].type = "RESULT"
                                                      /\ Out'[j].id = job'
                                                      /\ Out'[j].index = i
      BY DEF DoneCompletes
    <3>1. OwnAnswer(k)'
      BY DEF OwnAnswer, Answers
    <3>2. k \notin 1 .. Len(Out)
      BY <1>6, <3>1
    <3>3. k - Len(Out) \in 1 .. Len(new) /\ Out'[k] = new[k - Len(Out)]
      BY <1>7, <3>2
    <3>4. k - Len(Out) \notin 1 .. f
      BY <2>1, <3>3
    <3>5. k = Len(Out) + f + 1
      BY <1>5, <2>1, <3>3, <3>4
    <3>6. ASSUME NEW i \in 1 .. Len(snapshot.flows)
          PROVE  \E j \in 1 .. k - 1 : /\ Out'[j].type = "RESULT"
                                       /\ Out'[j].id = job
                                       /\ Out'[j].index = i
      <4>1. i \in 1 .. f /\ i \in 1 .. Len(new)
        BY <2>1, <2>2
      <4>2. Out'[Len(Out) + i] = new[i]
        BY <1>5, <4>1
      <4>3. Len(Out) + i \in 1 .. k - 1
        BY <1>5, <2>1, <3>5, <4>1
      <4>4. new[i].type = "RESULT" /\ new[i].id = job /\ new[i].index = i
        BY <2>1, <4>1
      <4> QED
        BY <4>2, <4>3, <4>4
    <3> QED
      BY <1>2, <2>1, <2>2, <2>5, <3>6
  <2> QED
    BY <2>6, <2>7, <2>8 DEF AnswerInv
<1>9. CASE \A k \in 1 .. Len(Out') : ~ OwnAnswer(k)'
  <2>1. \A k \in 1 .. Len(Out') : \A j \in 1 .. k - 1 : j \in 1 .. Len(Out')
    BY <1>5
  <2>2. AnswersComeLast'
    BY <1>4, <1>9 DEF AnswersComeLast
  <2>3. OwnResultsOnly'
    BY <1>4, <1>9, <2>1 DEF OwnResultsOnly
  <2>4. DoneCompletes'
    BY <1>9 DEF DoneCompletes, OwnAnswer, Answers
  <2> QED
    BY <2>2, <2>3, <2>4 DEF AnswerInv
<1>10. ASSUME ~ (Calculated(new, scenario) /\ CalculatedIt(In[1]) /\ scenario.id = job)
       PROVE  \A k \in 1 .. Len(Out') : ~ OwnAnswer(k)'
  <2> SUFFICES ASSUME NEW k \in 1 .. Len(Out'), OwnAnswer(k)' PROVE FALSE
    OBVIOUS
  <2> DEFINE i == k - Len(Out)
  <2>1. i \in 1 .. Len(new) /\ Out'[k] = new[i]
    BY <1>6, <1>7
  <2>2. new[i].type \in {"RESULT", "DONE"} /\ new[i].id = job
    BY <1>2, <2>1 DEF OwnAnswer, Answers
  <2> HIDE DEF i
  <2>3. CASE new = <<>>
    BY <2>1, <2>3
  <2>4. CASE new = <<ErrorLine>>
    <3>1. i = 1 /\ new[i] = ErrorLine
      BY <2>1, <2>4
    <3> QED
      BY <2>2, <3>1 DEF ErrorLine
  <2>5. CASE Calculated(new, scenario) /\ CalculatedIt(In[1])
    <3>1. /\ f \in Nat /\ Len(new) = f + 1
          /\ \A j \in 1 .. f : new[j].id = scenario.id
          /\ new[f + 1].id = scenario.id
      BY <2>5 DEF Calculated, DoneOf
    <3>2. i \in 1 .. f \/ i = f + 1
      BY <2>1, <3>1
    <3>3. new[i].id = scenario.id
      BY <3>1, <3>2
    <3> QED
      BY <1>10, <2>2, <2>5, <3>3
  <2> QED
    BY <2>3, <2>4, <2>5, PrintedFacts
<1> QED
  BY <1>8, <1>9, <1>10

-----------------------------------------------------------------------------
(* The results of a job are its own.                                       *)

OwnInv == PipeTypes /\ StreamInv /\ AnswerInv /\ ResultsAreOwn

(* Every step keeps the lines on their way to the runner in order.         *)
LEMMA StreamStep ==
  ASSUME PipeTypes, StreamInv, Next
  PROVE  StreamInv'
<1>1. ASSUME NEW s \in Snapshots, StartCompute(s) PROVE StreamInv'
  BY <1>1, StartStream
<1>2. CASE NoExecutable
  BY <1>2, NoExecutableStream
<1>3. CASE WriteLine
  <2>1. /\ In' = In /\ Out' = Out /\ scenario' = scenario /\ job' = job
        /\ snapshot' = snapshot /\ Busy
    BY <1>3, WriteTypes DEF WriteLine, Busy
  <2> QED
    BY <2>1, SettledStream
<1>4. CASE WriteFails
  <2>1. /\ UNCHANGED procVars /\ ~ Busy' /\ job' = job /\ snapshot' = snapshot
        /\ scenario' = scenario /\ stdin' = stdin /\ unsent' = <<>>
    BY <1>4 DEF WriteFails, Raise, procVars, Busy
  <2>2. Out' = Out
    BY <2>1 DEF procVars, Out
  <2>3. ASSUME NEW k \in 1 .. Len(In') PROVE k \in 1 .. Len(In) /\ In'[k] = In[k]
    <3>1. stdin \in Seq(InputLines) /\ unsent \in Seq(InputLines)
      BY DEF PipeTypes, ProcTypeOK, CallTypeOK
    <3>2. In' = stdin
      BY <2>1, <3>1 DEF In
    <3>3. Len(stdin \o unsent) = Len(stdin) + Len(unsent) /\ Len(stdin) \in Nat
          /\ Len(unsent) \in Nat /\ \A i \in 1 .. Len(stdin) : (stdin \o unsent)[i] = stdin[i]
      BY <3>1
    <3> QED
      BY <3>2, <3>3 DEF In
  <2>4. NothingFromTheFuture'
    BY <2>1, <2>2, <2>3 DEF StreamInv, NothingFromTheFuture, Answers
  <2> QED
    BY <2>1, <2>4 DEF StreamInv, JobComesLast, OwnScenario
<1>5. CASE ReadRaises \/ ReadResult \/ ReadDone \/ ReadEof
  <2>1. In' = In /\ caller = "reading"
    BY <1>5, ReadTypes
  <2>2. scenario' = scenario /\ job' = job /\ snapshot' = snapshot /\ Busy
    BY <1>5, <2>1 DEF ReadRaises, ReadResult, ReadDone, ReadEof, Raise, history, Busy
  <2>3. \A k \in 1 .. Len(Out') : \E j \in 1 .. Len(Out) : Out'[k] = Out[j]
    <3>1. CASE Out' = Out
      BY <3>1
    <3>2. CASE Out' = Tail(Out) /\ Out \in Seq(OutputLines) /\ Out # <<>>
      <4>1. \A k \in 1 .. Len(Tail(Out)) : Tail(Out)[k] = Out[k + 1] /\ k + 1 \in 1 .. Len(Out)
        BY <3>2
      <4> QED
        BY <3>2, <4>1
    <3> QED
      BY <1>5, <3>1, <3>2, ReadTypes
  <2> QED
    BY <2>1, <2>2, <2>3, SettledStream
<1>6. CASE Close \/ CloseEnds
  BY <1>6, CloseStream
<1>7. CASE RunnerReads
  BY <1>7, ReaderStream
<1>8. CASE RunnerPrints
  <2>1. In' = In /\ Out' = Out
    BY <1>8, PrinterTypes
  <2>2. scenario' = scenario /\ job' = job /\ snapshot' = snapshot /\ (Busy' => Busy)
    BY <1>8 DEF RunnerPrints, callVars, history, Busy
  <2> QED
    BY <2>1, <2>2, SettledStream
<1>9. CASE Crash
  <2>1. In' = In /\ Out' = stdout
    BY <1>9, CrashTypes
  <2>2. scenario' = scenario /\ job' = job /\ snapshot' = snapshot /\ (Busy' => Busy)
    BY <1>9 DEF Crash, callVars, Busy
  <2>3. stdout \in Seq(OutputLines) /\ printing \in Seq(OutputLines)
    BY DEF PipeTypes, ProcTypeOK
  <2>4. \A k \in 1 .. Len(stdout) : k \in 1 .. Len(Out) /\ stdout[k] = Out[k]
    BY <2>3 DEF Out
  <2>5. \A k \in 1 .. Len(Out') : \E j \in 1 .. Len(Out) : Out'[k] = Out[j]
    BY <2>1, <2>4
  <2> QED
    BY <2>1, <2>2, <2>5, SettledStream
<1> QED
  BY <1>1, <1>2, <1>3, <1>4, <1>5, <1>6, <1>7, <1>8, <1>9 DEF Next

(* Every step keeps the answers to the current job apart from those to     *)
(* others.                                                                 *)
LEMMA AnswerStep ==
  ASSUME PipeTypes, StreamInv, AnswerInv, Next
  PROVE  AnswerInv'
<1>1. ASSUME NEW s \in Snapshots, StartCompute(s) PROVE AnswerInv'
  BY <1>1, StartAnswers
<1>2. CASE NoExecutable \/ WriteFails \/ ReadRaises \/ ReadDone \/ ReadEof \/ Close \/ CloseEnds
  <2>1. ~ Busy'
    BY <1>2 DEF NoExecutable, WriteFails, ReadRaises, ReadDone, ReadEof, Close, CloseEnds, Raise,
       Return, Busy, callVars
  <2> QED
    BY <2>1, IdleAnswers
<1>3. Out \in Seq(OutputLines) /\ Len(Out) \in Nat /\ Len(Out) <= Len(Out)
  BY SequenceTypes
<1>4. CASE WriteLine
  <2>1. In' = In /\ Out' = Out
    BY <1>4, WriteTypes
  <2>2. UNCHANGED <<measured, job, snapshot>> /\ (Busy' => Busy)
    BY <1>4 DEF WriteLine, Busy
  <2> QED
    BY <1>3, <2>1, <2>2, SettledAnswers
<1>5. CASE ReadResult
  BY <1>5, ReadResultAnswers
<1>6. CASE RunnerReads
  <2>1. CASE Busy
    BY <1>6, <2>1, ReaderAnswers
  <2>2. CASE ~ Busy
    <3>1. ~ Busy'
      BY <1>6, <2>2 DEF RunnerReads, callVars, Busy
    <3> QED
      BY <3>1, IdleAnswers
  <2> QED
    BY <2>1, <2>2
<1>7. CASE RunnerPrints
  <2>1. In' = In /\ Out' = Out
    BY <1>7, PrinterTypes
  <2>2. UNCHANGED <<measured, job, snapshot>> /\ (Busy' => Busy)
    BY <1>7 DEF RunnerPrints, callVars, history, Busy
  <2> QED
    BY <1>3, <2>1, <2>2, SettledAnswers
<1>8. CASE Crash
  <2>1. In' = In /\ Out' = stdout
    BY <1>8, CrashTypes
  <2>2. UNCHANGED <<measured, job, snapshot>> /\ (Busy' => Busy)
    BY <1>8 DEF Crash, callVars, Busy
  <2>3. stdout \in Seq(OutputLines) /\ printing \in Seq(OutputLines)
    BY DEF PipeTypes, ProcTypeOK
  <2>4. /\ Len(stdout) \in Nat /\ Len(Out) \in Nat /\ Len(stdout) <= Len(Out)
        /\ \A k \in 1 .. Len(stdout) : stdout[k] = Out[k]
    BY <2>3 DEF Out
  <2>5. /\ Len(Out') \in Nat /\ Len(Out') <= Len(Out)
        /\ \A k \in 1 .. Len(Out') : Out'[k] = Out[k]
    BY <2>1, <2>4
  <2> QED
    BY <1>3, <2>1, <2>2, <2>5, SettledAnswers
<1> QED
  BY <1>1, <1>2, <1>4, <1>5, <1>6, <1>7, <1>8 DEF Next

(* compute returns what it has read, and has read all of it.               *)
LEMMA ReturnsOwn ==
  ASSUME PipeTypes, AnswerInv, ReadDone
  PROVE  ResultsAreOwn'
<1>1. /\ Out \in Seq(OutputLines) /\ Out # <<>>
      /\ Out[1].type = "DONE" /\ Out[1].id = job /\ Busy
  BY ReadTypes DEF ReadDone, ReadEof, Busy
<1>2. 1 \in 1 .. Len(Out)
  BY <1>1
<1>3. /\ ~ snapshot.throws
      /\ ~ HasOddRecord(snapshot)
      /\ \A i \in 1 .. Len(snapshot.flows) : OwnMeasure(i)
  BY <1>1, <1>2 DEF AnswerInv, DoneCompletes
<1>4. job' = job /\ snapshot' = snapshot /\ outcome'.metrics = MetricsOf(snapshot)
  BY DEF ReadDone, Return
<1>5. snapshot \in Snapshots
  BY <1>1 DEF PipeTypes, CallTypeOK
<1>6. Len(snapshot.flows) \in Nat
  BY <1>5, SnapshotSizes
<1>7. /\ Len(MetricsOf(snapshot)) = Len(snapshot.flows)
      /\ \A i \in 1 .. Len(snapshot.flows) :
           i \in DOMAIN measured => MetricsOf(snapshot)[i] = measured[i]
  BY <1>6 DEF MetricsOf
<1> QED
  BY <1>3, <1>4, <1>7 DEF ResultsAreOwn, OwnMeasure

(* What compute returns was measured in its own snapshot, all of it, and   *)
(* in a calculation that did not fail: whatever jobs before have left in   *)
(* the pipes, lines of theirs are told from the job's by its number.       *)
THEOREM ResultsAlwaysOwn == Spec => []ResultsAreOwn
<1>1. Init => OwnInv
  <2> SUFFICES ASSUME Init PROVE OwnInv
    OBVIOUS
  <2>1. PipeTypes
    BY TypesInitially
  <2>2. ~ Busy /\ scenario.id = 0 /\ job = 0 /\ ~ outcome.ok
    BY DEF Init, Busy, Blank, NoOutcome
  <2>3. In = <<>> /\ Out = <<>>
    BY DEF Init, In, Out
  <2>4. StreamInv
    BY <2>2, <2>3 DEF StreamInv, NothingFromTheFuture, JobComesLast, OwnScenario
  <2>5. AnswerInv
    BY <2>2 DEF AnswerInv, AnswersComeLast, OwnResultsOnly, DoneCompletes
  <2> QED
    BY <2>1, <2>2, <2>4, <2>5 DEF OwnInv, ResultsAreOwn
<1>2. OwnInv /\ [Next]_vars => OwnInv'
  <2> SUFFICES ASSUME OwnInv, [Next]_vars PROVE OwnInv'
    OBVIOUS
  <2>1. PipeTypes /\ StreamInv /\ AnswerInv /\ ResultsAreOwn
    BY DEF OwnInv
  <2>2. PipeTypes'
    BY <2>1, TypesInductive
  <2>3. CASE UNCHANGED vars
    <3>1. In' = In /\ Out' = Out /\ Busy' = Busy /\ JobLines' = JobLines
      BY <2>3 DEF vars, procVars, callVars, history, In, Out, Busy, JobLines
    <3>2. UNCHANGED <<scenario, job, snapshot, measured, outcome>>
      BY <2>3 DEF vars, procVars, callVars, history
    <3>3. StreamInv'
      BY <2>1, <3>1, <3>2, SettledStream
    <3>4. AnswerInv'
      <4>1. Len(Out) \in Nat /\ Len(Out) <= Len(Out)
        BY <2>1, SequenceTypes
      <4> QED
        BY <2>1, <3>1, <3>2, <4>1, SettledAnswers
    <3>5. ResultsAreOwn'
      BY <2>1, <3>2 DEF ResultsAreOwn
    <3> QED
      BY <2>2, <3>3, <3>4, <3>5 DEF OwnInv
  <2>4. CASE Next
    <3>1. StreamInv' /\ AnswerInv'
      BY <2>1, <2>4, StreamStep, AnswerStep
    <3>2. ResultsAreOwn'
      <4>1. CASE ReadDone
        BY <2>1, <4>1, ReturnsOwn
      <4>2. CASE UNCHANGED <<outcome, job, snapshot>>
        BY <2>1, <4>2 DEF ResultsAreOwn
      <4>3. CASE ~ outcome'.ok
        BY <4>3 DEF ResultsAreOwn
      <4>4. ReadDone \/ UNCHANGED <<outcome, job, snapshot>> \/ ~ outcome'.ok
        <5>1. ASSUME NEW s \in Snapshots, StartCompute(s) PROVE ~ outcome'.ok
          BY <5>1 DEF StartCompute, NoOutcome
        <5>2. NoExecutable => ~ outcome'.ok
          BY DEF NoExecutable, NoOutcome
        <5>3. WriteFails \/ ReadRaises \/ ReadEof => ~ outcome'.ok
          BY DEF WriteFails, ReadRaises, ReadEof, Raise
        <5>4. WriteLine \/ ReadResult \/ Close \/ CloseEnds \/ RunnerReads \/ RunnerPrints \/ Crash
                => UNCHANGED <<outcome, job, snapshot>>
          BY DEF WriteLine, ReadResult, Close, CloseEnds, RunnerReads, RunnerPrints, Crash, history
        <5> QED
          BY <2>4, <5>1, <5>2, <5>3, <5>4 DEF Next
      <4> QED
        BY <4>1, <4>2, <4>3, <4>4
    <3> QED
      BY <2>2, <3>1, <3>2 DEF OwnInv
  <2> QED
    BY <2>3, <2>4
<1>3. OwnInv => ResultsAreOwn
  BY DEF OwnInv
<1> QED
  BY <1>1, <1>2, <1>3, PTL DEF Spec

-----------------------------------------------------------------------------
(* The pipes are in step.                                                  *)

Ends(line) == line.type \in {"ERROR", "DONE"}

(* Starting finds the pipes empty.                                         *)
LEMMA StartInStep ==
  ASSUME PipeTypes, InStep, NEW s \in Snapshots, StartCompute(s)
  PROVE  InStep'
<1> SUFFICES ASSUME ~ tainted' PROVE InStep'
  BY DEF InStep
<1> DEFINE base == IF handle /\ alive THEN Len(In) ELSE 0
<1>0. base = IF handle /\ alive THEN Len(In) ELSE 0
  OBVIOUS
<1>1. handle /\ alive => ~ tainted /\ In = <<>> /\ Out = <<>> /\ stdin = <<>>
  <2>1. handle /\ alive => ~ tainted
    BY DEF StartCompute
  <2>2. caller = "idle" /\ unsent = <<>> /\ stdin \in Seq(InputLines)
    BY DEF StartCompute, PipeTypes, CallTypeOK, ProcTypeOK
  <2>3. In = stdin
    BY <2>2 DEF In
  <2> QED
    BY <2>1, <2>2, <2>3 DEF InStep
<1>2. base = 0 /\ stdin' = <<>>
  <2>1. CASE handle /\ alive
    <3>1. stdin' = stdin
      BY <2>1 DEF StartCompute, EnsureProcess, procVars
    <3> QED
      BY <1>1, <2>1, <3>1
  <2>2. CASE ~ (handle /\ alive)
    BY <2>2 DEF StartCompute, EnsureProcess
  <2> QED
    BY <2>1, <2>2
<1> HIDE DEF base
<1>3. /\ caller' = "writing"
      /\ SaysScenario(JobLines', job', s)
      /\ Len(In') = base + Len(JobLines')
      /\ Out' = <<>> \/ (Out' = Out /\ handle /\ alive)
  BY <1>0, StartFacts
<1>4. Len(JobLines') \in Nat /\ Len(JobLines') >= 2
  BY <1>3 DEF SaysScenario
<1>5. Len(In') = Len(JobLines') /\ In' # <<>>
  BY <1>2, <1>3, <1>4
<1>6. Out' = <<>>
  BY <1>1, <1>3
<1> QED
  BY <1>2, <1>3, <1>4, <1>5, <1>6 DEF InStep, Busy

(* A process in step that is given a sound line stays in step.             *)
LEMMA WriteInStep ==
  ASSUME PipeTypes, InStep, WriteLine
  PROVE  InStep'
<1> SUFFICES ASSUME ~ tainted' PROVE InStep'
  BY DEF InStep
<1>1. In' = In /\ Out' = Out
  BY WriteTypes
<1>2. /\ alive /\ ~ tainted /\ ~ Head(unsent).odd /\ Busy /\ Busy' /\ caller' # "idle"
      /\ stdin' = Append(stdin, Head(unsent)) /\ JobLines' = JobLines
  BY DEF WriteLine, Busy, JobLines
<1>3. /\ Len(In) <= Len(JobLines)
      /\ In # <<>> => Out = <<>>
      /\ In = <<>> => /\ Out # <<>>
                      /\ \A k \in 1 .. Len(Out) :
                           Out[k].type \in {"ERROR", "DONE"} <=> k = Len(Out)
      /\ \A k \in 1 .. Len(stdin) : ~ stdin[k].odd
  BY <1>2 DEF InStep
<1>4. stdin \in Seq(InputLines) /\ Head(unsent) \in InputLines
  <2>1. unsent \in Seq(InputLines) /\ unsent # <<>> /\ stdin \in Seq(InputLines)
    BY DEF WriteLine, PipeTypes, CallTypeOK, ProcTypeOK
  <2> QED
    BY <2>1
<1>5. /\ Len(stdin') = Len(stdin) + 1 /\ Len(stdin) \in Nat
      /\ stdin'[Len(stdin) + 1] = Head(unsent)
      /\ \A k \in 1 .. Len(stdin) : stdin'[k] = stdin[k]
  BY <1>2, <1>4
<1>6. ASSUME NEW k \in 1 .. Len(stdin') PROVE ~ stdin'[k].odd
  <2>1. k \in 1 .. Len(stdin) \/ k = Len(stdin) + 1
    BY <1>5
  <2> QED
    BY <1>2, <1>3, <1>5, <2>1
<1> QED
  BY <1>1, <1>2, <1>3, <1>6 DEF InStep

(* compute stops reading with the last line of the answer: DONE or ERROR.  *)
LEMMA ReadInStep ==
  ASSUME PipeTypes, InStep, ReadRaises \/ ReadResult \/ ReadDone
  PROVE  InStep'
<1>0. alive' = alive /\ tainted' = tainted
  BY DEF ReadRaises, ReadResult, ReadDone, Raise, history
<1> SUFFICES ASSUME alive, ~ tainted PROVE InStep'
  BY <1>0 DEF InStep
<1>1. /\ Out # <<>> /\ Out \in Seq(OutputLines) /\ Out' = Tail(Out) /\ In' = In
      /\ Head(stdout) = Out[1] /\ caller = "reading"
  BY ReadTypes DEF ReadRaises, ReadResult, ReadDone, ReadEof
<1>2. Busy
  BY <1>1 DEF Busy
<1>3. /\ In = <<>>
      /\ \A k \in 1 .. Len(Out) : Out[k].type \in {"ERROR", "DONE"} <=> k = Len(Out)
      /\ \A k \in 1 .. Len(stdin) : ~ stdin[k].odd
      /\ Len(In) <= Len(JobLines)
  BY <1>1, <1>2 DEF InStep
<1>4. /\ Len(Out) \in Nat \ {0} /\ Len(Out') = Len(Out) - 1 /\ Out' \in Seq(OutputLines)
      /\ \A k \in 1 .. Len(Out') : Out'[k] = Out[k + 1] /\ k + 1 \in 1 .. Len(Out)
  BY <1>1
<1>5. CASE ReadRaises \/ ReadDone
  <2>1. Out[1].type \in {"ERROR", "DONE"} /\ caller' = "idle"
    BY <1>1, <1>5 DEF ReadRaises, ReadDone, Raise, Return
  <2>2. Len(Out) = 1
    BY <1>3, <1>4, <2>1
  <2>3. Out' = <<>>
    BY <1>4, <2>2
  <2> QED
    BY <1>1, <1>3, <2>1, <2>3 DEF InStep, Busy
<1>6. CASE ReadResult
  <2>1. /\ Out[1].type = "RESULT" /\ caller' = "reading" /\ stdin' = stdin
        /\ JobLines' = JobLines
    BY <1>1, <1>6 DEF ReadResult, history, JobLines
  <2>2. Len(Out) # 1
    BY <1>3, <1>4, <2>1
  <2>3. Out' # <<>>
    BY <1>4, <2>2
  <2>4. ASSUME NEW k \in 1 .. Len(Out')
        PROVE  Out'[k].type \in {"ERROR", "DONE"} <=> k = Len(Out')
    <3>1. k + 1 = Len(Out) <=> k = Len(Out')
      BY <1>4
    <3> QED
      BY <1>3, <1>4, <3>1
  <2> QED
    BY <1>1, <1>3, <2>1, <2>3, <2>4 DEF InStep
<1> QED
  BY <1>5, <1>6

(* Of a job's sound lines only RUN, the last one, makes the runner print.  *)
LEMMA ReaderInStep ==
  ASSUME PipeTypes, StreamInv, InStep, RunnerReads
  PROVE  InStep'
<1> DEFINE m == Len(In)
           N == Len(JobLines)
           new == printing'
<1>1. /\ In # <<>> /\ In \in Seq(InputLines) /\ In' = Tail(In)
      /\ Head(stdin) = In[1]
      /\ Out' = Out \o new
  BY ReaderTypes
<1>2. alive /\ tainted' = tainted /\ caller' = caller /\ JobLines' = JobLines
      /\ stdin' = Tail(stdin) /\ stdin # <<>> /\ stdin \in Seq(InputLines) /\ printing = <<>>
  BY DEF RunnerReads, callVars, history, JobLines, PipeTypes, ProcTypeOK
<1>3. CASE In[1].type = "QUIT"
  <2>1. ~ alive'
    BY <1>3, ReaderTypes
  <2> QED
    BY <2>1 DEF InStep
<1>4. CASE tainted \/ ~ Busy
  <2>1. tainted' \/ (caller' # "idle" /\ ~ Busy')
    BY <1>1, <1>2, <1>4 DEF InStep, Busy
  <2> QED
    BY <2>1 DEF InStep
<1>5. CASE In[1].type # "QUIT" /\ ~ tainted /\ Busy
  <2>1. /\ m <= N
        /\ Out = <<>>
        /\ \A k \in 1 .. Len(stdin) : ~ stdin[k].odd
    BY <1>1, <1>2, <1>5 DEF InStep
  <2>2. 1 \in 1 .. Len(stdin) /\ Head(stdin) = stdin[1] /\ ~ In[1].odd
    BY <1>1, <1>2, <2>1
  <2>3. /\ m \in Nat \ {0} /\ N - m + 1 \in 1 .. N
        /\ In[1] = JobLines[N - m + 1]
        /\ Place(JobLines, job, snapshot, N - m + 1)
    BY <1>1, <1>5, <2>1, NextOwnLine
  <2>4. N \in Nat
    BY <1>5, OwnPlaces
  <2>5. Len(In') = m - 1
    BY <1>1
  <2>6. In[1].type = "RUN" <=> m = 1
    <3> HIDE DEF m
    <3>1. m = 1 <=> N - m + 1 = N
      BY <2>3, <2>4
    <3>2. N - m + 1 = N => In[1].type = "RUN"
      BY <2>3 DEF Place, Command
    <3>3. N - m + 1 # N => In[1].type # "RUN"
      BY <2>3 DEF Place, RecordTypes
    <3> QED
      BY <3>1, <3>2, <3>3
  <2>7. \A k \in 1 .. Len(stdin') : ~ stdin'[k].odd
    <3>1. \A k \in 1 .. Len(Tail(stdin)) :
             Tail(stdin)[k] = stdin[k + 1] /\ k + 1 \in 1 .. Len(stdin)
      BY <1>2
    <3> QED
      BY <1>2, <2>1, <3>1
  <2>8. new \in Seq(OutputLines)
    BY PrintedFacts
  <2>9. Out' = new
    <3> HIDE DEF new
    <3>1. <<>> \o new = new
      BY <2>8
    <3> QED
      BY <1>1, <2>1, <3>1
  <2>10. \/ Threw(In[1]) \/ TookName(In[1]) \/ TookRecord(In[1]) \/ CalculatedIt(In[1])
    BY <1>5, ReaderTypes
  <2>11. Len(In') <= Len(JobLines')
    <3> HIDE DEF m, N
    <3>1. m - 1 <= N
      BY <2>1, <2>3, <2>4
    <3> QED
      BY <1>2, <2>5, <3>1 DEF N
  <2>12. caller' # "idle" /\ Busy'
    BY <1>2, <1>5 DEF Busy
  <2>13. CASE TookName(In[1]) \/ TookRecord(In[1])
    <3>1. new = <<>> /\ In[1].type # "RUN"
      BY <1>2, <2>13 DEF TookName, TookRecord, RecordTypes
    <3>2. In' # <<>>
      <4>1. m # 1
        BY <2>6, <3>1
      <4>2. m - 1 # 0
        BY <2>3, <4>1
      <4> QED
        BY <2>5, <4>2
    <3> QED
      BY <2>7, <2>9, <2>11, <2>12, <3>1, <3>2 DEF InStep
  <2>14. CASE Threw(In[1]) \/ CalculatedIt(In[1])
    <3>1. In[1].type = "RUN"
      BY <2>2, <2>14 DEF Threw, CalculatedIt
    <3>2. In' = <<>>
      BY <1>1, <2>6, <3>1
    <3>3. new # <<>> /\ \A k \in 1 .. Len(new) : new[k].type \in {"ERROR", "DONE"} <=> k = Len(new)
      <4>1. CASE new = <<ErrorLine>>
        <5>1. Len(new) = 1 /\ new[1] = ErrorLine
          BY <4>1
        <5> QED
          BY <4>1, <5>1 DEF ErrorLine
      <4>2. CASE Calculated(new, scenario)
        <5> DEFINE f == scenario.expected[3]
        <5>1. /\ f \in Nat /\ Len(new) = f + 1
              /\ \A k \in 1 .. f : new[k].type = "RESULT"
              /\ new[f + 1].type = "DONE"
          BY <4>2 DEF Calculated, DoneOf
        <5> HIDE DEF f, new
        <5>2. \A k \in 1 .. Len(new) : k \in 1 .. f \/ k = f + 1
          BY <5>1
        <5>3. \A k \in 1 .. f : k # f + 1
          BY <5>1
        <5>4. new # <<>>
          BY <2>8, <5>1
        <5> QED
          BY <5>1, <5>2, <5>3, <5>4
      <4>3. Threw(In[1]) => new = <<ErrorLine>>
        BY DEF Threw
      <4>4. CalculatedIt(In[1]) => Calculated(new, scenario)
        BY DEF CalculatedIt
      <4> QED
        BY <2>14, <4>1, <4>2, <4>3, <4>4
    <3> HIDE DEF new
    <3> QED
      BY <2>7, <2>9, <2>11, <2>12, <3>2, <3>3 DEF InStep
  <2> QED
    BY <2>10, <2>13, <2>14
<1> QED
  BY <1>3, <1>4, <1>5

(* Between two jobs of a process that could parse every line so far,       *)
(* nothing is left in its pipes: the next job starts in step.              *)
THEOREM StaysInStep == Spec => []InStepWhileParsable
<1> DEFINE Inv == PipeTypes /\ StreamInv /\ InStep
<1>1. Init => Inv
  <2> SUFFICES ASSUME Init PROVE Inv
    OBVIOUS
  <2>1. PipeTypes
    BY TypesInitially
  <2>2. ~ Busy /\ scenario.id = 0 /\ job = 0 /\ ~ alive
    BY DEF Init, Busy, Blank
  <2>3. In = <<>> /\ Out = <<>>
    BY DEF Init, In, Out
  <2>4. StreamInv
    BY <2>2, <2>3 DEF StreamInv, NothingFromTheFuture, JobComesLast, OwnScenario
  <2> QED
    BY <2>1, <2>2, <2>4 DEF InStep
<1>2. Inv /\ [Next]_vars => Inv'
  <2> SUFFICES ASSUME PipeTypes, StreamInv, InStep, [Next]_vars PROVE Inv'
    OBVIOUS
  <2>1. PipeTypes'
    BY TypesInductive
  <2>2. CASE UNCHANGED vars
    <3>1. /\ In' = In /\ Out' = Out /\ Busy' = Busy /\ JobLines' = JobLines
          /\ UNCHANGED <<alive, tainted, caller, stdin, scenario, job, snapshot>>
      BY <2>2 DEF vars, procVars, callVars, history, In, Out, Busy, JobLines
    <3>2. StreamInv'
      BY <3>1, SettledStream
    <3>3. InStep'
      BY <3>1 DEF InStep
    <3> QED
      BY <2>1, <3>2, <3>3
  <2>3. CASE Next
    <3>1. StreamInv'
      BY <2>3, StreamStep
    <3>2. InStep'
      <4>1. ASSUME NEW s \in Snapshots, StartCompute(s) PROVE InStep'
        BY <4>1, StartInStep
      <4>2. CASE NoExecutable \/ WriteFails \/ ReadEof \/ CloseEnds \/ Crash
        <5>1. NoExecutable \/ WriteFails => ~ alive'
          <6>1. alive => handle
            BY DEF PipeTypes, ProcTypeOK
          <6> QED
            BY <6>1, QuietTypes DEF procVars
        <5>2. ReadEof \/ CloseEnds \/ Crash => ~ alive'
          BY DEF ReadEof, CloseEnds, Crash
        <5>3. ~ alive'
          BY <4>2, <5>1, <5>2
        <5> QED
          BY <5>3 DEF InStep
      <4>3. CASE Close
        <5>1. caller' # "idle" /\ ~ Busy'
          BY <4>3 DEF Close, Busy
        <5> QED
          BY <5>1 DEF InStep
      <4>4. CASE RunnerPrints
        <5>1. In' = In /\ Out' = Out
          BY <4>4, PrinterTypes
        <5>2. /\ alive' = alive /\ tainted' = tainted /\ caller' = caller /\ stdin' = stdin
              /\ JobLines' = JobLines /\ (Busy' <=> Busy)
          BY <4>4 DEF RunnerPrints, callVars, history, JobLines, Busy
        <5> QED
          BY <5>1, <5>2 DEF InStep
      <4> QED
        BY <2>3, <4>1, <4>2, <4>3, <4>4, WriteInStep, ReadInStep, ReaderInStep DEF Next
    <3> QED
      BY <2>1, <3>1, <3>2
  <2> QED
    BY <2>2, <2>3
<1>3. Inv => InStepWhileParsable
  <2> SUFFICES ASSUME Inv, caller = "idle", alive, ~ tainted
               PROVE  stdin = <<>> /\ stdout = <<>> /\ printing = <<>>
    BY DEF InStepWhileParsable
  <2>1. In = <<>> /\ Out = <<>>
    BY DEF InStep
  <2>2. /\ stdin \in Seq(InputLines) /\ unsent \in Seq(InputLines)
        /\ stdout \in Seq(OutputLines) /\ printing \in Seq(OutputLines)
    BY DEF PipeTypes, ProcTypeOK, CallTypeOK
  <2> QED
    BY <2>1, <2>2 DEF In, Out
<1> QED
  BY <1>1, <1>2, <1>3, PTL DEF Spec

-----------------------------------------------------------------------------
(* No scenario has more records than it names.                             *)

CountInv == WholeJobs /\ InPosition /\ CountBound

(* One more line, one more record of its type.                             *)
LEMMA CountsStep ==
  ASSUME NEW n \in 1 .. MaxJobs, NEW s \in Snapshots, NEW p \in Nat \ {0},
         p < Len(ScenarioLines(n, s)),
         NEW type, type = ScenarioLines(n, s)[p + 1].type
  PROVE  /\ CountsAfter(s, p + 1)[1] = CountsAfter(s, p)[1] + (IF type = "NODE" THEN 1 ELSE 0)
         /\ CountsAfter(s, p + 1)[2] = CountsAfter(s, p)[2] + (IF type = "LINK" THEN 1 ELSE 0)
         /\ CountsAfter(s, p + 1)[3] = CountsAfter(s, p)[3] + (IF type = "FLOW" THEN 1 ELSE 0)
<1> DEFINE e == Len(s.entities)
           l == Len(Links(s))
           f == Len(s.flows)
           L == ScenarioLines(n, s)
           N == Len(L)
           C(q) == <<Cap(q - 1, e), Cap(q - 1 - e, l), Cap(q - 1 - e - l, f)>>
<1> SUFFICES /\ C(p + 1)[1] = C(p)[1] + (IF type = "NODE" THEN 1 ELSE 0)
             /\ C(p + 1)[2] = C(p)[2] + (IF type = "LINK" THEN 1 ELSE 0)
             /\ C(p + 1)[3] = C(p)[3] + (IF type = "FLOW" THEN 1 ELSE 0)
  BY DEF CountsAfter
<1>1. SaysScenario(L, n, s) /\ InOrder(Records(s), e, l, f)
  BY LinesFacts, RecordFacts
<1>2. p < N /\ type = L[p + 1].type
  OBVIOUS
<1> HIDE DEF e, l, f, L
<1>3. /\ e \in Nat /\ l \in Nat /\ f \in Nat
      /\ Len(Records(s)) = e + l + f
      /\ N = e + l + f + 2
      /\ L[N] = Command("RUN")
      /\ \A k \in 1 .. N - 2 : L[k + 1] = Records(s)[k]
      /\ \A k \in 1 .. e : Records(s)[k].type = "NODE"
      /\ \A k \in 1 .. l : Records(s)[e + k].type = "LINK"
      /\ \A k \in 1 .. f : Records(s)[e + l + k].type = "FLOW"
  BY <1>1 DEF SaysScenario, InOrder
<1>0. e \in Nat /\ l \in Nat /\ f \in Nat /\ N = e + l + f + 2 /\ p \in Nat \ {0}
  BY <1>3
<1> HIDE DEF N
<1>4. CASE p + 1 = N
  <2>1. type = "RUN"
    BY <1>2, <1>3, <1>4 DEF Command
  <2>2. p = e + l + f + 1
    BY <1>0, <1>4
  <2>3. Cap(p, e) = e /\ Cap(p - 1, e) = e
    BY <1>0, <2>2 DEF Cap
  <2>4. Cap(p - e, l) = l /\ Cap(p - 1 - e, l) = l
    BY <1>0, <2>2 DEF Cap
  <2>5. Cap(p - e - l, f) = f /\ Cap(p - 1 - e - l, f) = f
    BY <1>0, <2>2 DEF Cap
  <2> QED
    BY SMTT(30), <1>0, <2>1, <2>3, <2>4, <2>5
<1>5. CASE p \in 1 .. e
  <2>1. type = "NODE"
    <3>1. p \in 1 .. N - 2
      BY <1>0, <1>5
    <3>2. L[p + 1] = Records(s)[p] /\ Records(s)[p].type = "NODE"
      BY <1>3, <1>5, <3>1
    <3> QED
      BY <1>2, <3>2
  <2>2. Cap(p, e) = Cap(p - 1, e) + 1 /\ Cap(p - 1, e) \in Nat
    BY <1>0, <1>5 DEF Cap
  <2>3. Cap(p - e, l) = 0 /\ Cap(p - 1 - e, l) = 0
    BY <1>0, <1>5 DEF Cap
  <2>4. Cap(p - e - l, f) = 0 /\ Cap(p - 1 - e - l, f) = 0
    BY <1>0, <1>5 DEF Cap
  <2> QED
    BY <1>0, <2>1, <2>2, <2>3, <2>4
<1>6. CASE p - e \in 1 .. l
  <2>1. type = "LINK"
    <3>1. p = e + (p - e) /\ p \in 1 .. N - 2
      BY <1>0, <1>6
    <3>2. L[p + 1] = Records(s)[p]
      BY <1>3, <3>1
    <3>3. Records(s)[e + (p - e)].type = "LINK"
      BY <1>3, <1>6
    <3> QED
      BY <1>2, <3>1, <3>2, <3>3
  <2>2. Cap(p, e) = e /\ Cap(p - 1, e) = e
    BY <1>0, <1>6 DEF Cap
  <2>3. Cap(p - e, l) = Cap(p - 1 - e, l) + 1 /\ Cap(p - 1 - e, l) \in Nat
    BY <1>0, <1>6 DEF Cap
  <2>4. Cap(p - e - l, f) = 0 /\ Cap(p - 1 - e - l, f) = 0
    BY <1>0, <1>6 DEF Cap
  <2> QED
    BY <1>0, <2>1, <2>2, <2>3, <2>4
<1>7. CASE p - e - l \in 1 .. f
  <2>1. type = "FLOW"
    <3>1. p = e + l + (p - e - l) /\ p \in 1 .. N - 2
      BY <1>0, <1>7
    <3>2. L[p + 1] = Records(s)[p]
      BY <1>3, <3>1
    <3>3. Records(s)[e + l + (p - e - l)].type = "FLOW"
      BY <1>3, <1>7
    <3> QED
      BY <1>2, <3>1, <3>2, <3>3
  <2>2. Cap(p, e) = e /\ Cap(p - 1, e) = e
    BY <1>0, <1>7 DEF Cap
  <2>3. Cap(p - e, l) = l /\ Cap(p - 1 - e, l) = l
    BY <1>0, <1>7 DEF Cap
  <2>4. Cap(p - e - l, f) = Cap(p - 1 - e - l, f) + 1 /\ Cap(p - 1 - e - l, f) \in Nat
    BY <1>0, <1>7 DEF Cap
  <2> QED
    BY <1>0, <2>1, <2>2, <2>3, <2>4
<1>8. p + 1 = N \/ p \in 1 .. e \/ p - e \in 1 .. l \/ p - e - l \in 1 .. f
  BY <1>0, <1>2
<1> QED
  BY <1>4, <1>5, <1>6, <1>7, <1>8

(* More lines after a whole scenario leave it whole.                       *)
LEMMA ExtendContinues ==
  ASSUME NEW V, NEW W, Len(V) \in Nat, Len(W) \in Nat, Len(V) <= Len(W),
         \A k \in 1 .. Len(V) : W[k] = V[k],
         Len(V) < Len(W) => W[Len(V) + 1].type \in {"SCENARIO", "QUIT"},
         NEW n \in 1 .. MaxJobs, NEW s \in Snapshots,
         NEW o \in Nat, NEW p \in 1 .. Len(ScenarioLines(n, s)), Continues(V, o, n, s, p)
  PROVE  Continues(W, o, n, s, p)
<1> DEFINE L == ScenarioLines(n, s)
           left == Len(L) - p
<1>1. Len(L) \in Nat
  BY LinesFacts DEF SaysScenario
<1>2. /\ o + left <= Len(V)
      /\ \A k \in 1 .. left : V[o + k] = L[p + k]
      /\ o + left < Len(V) => V[o + left + 1].type \in {"SCENARIO", "QUIT"}
  BY DEF Continues
<1>3. left \in Nat
  BY <1>1
<1> SUFFICES /\ o + left <= Len(W)
             /\ \A k \in 1 .. left : W[o + k] = L[p + k]
             /\ o + left < Len(W) => W[o + left + 1].type \in {"SCENARIO", "QUIT"}
  BY DEF Continues
<1> HIDE DEF L, left
<1>4. o + left <= Len(W)
  BY <1>2, <1>3
<1>5. ASSUME NEW k \in 1 .. left PROVE W[o + k] = L[p + k]
  <2>1. o + k \in 1 .. Len(V)
    BY <1>2, <1>3
  <2> QED
    BY <1>2, <2>1
<1>6. ASSUME o + left < Len(W) PROVE W[o + left + 1].type \in {"SCENARIO", "QUIT"}
  <2>1. CASE o + left < Len(V)
    <3>1. o + left + 1 \in 1 .. Len(V)
      BY <1>3, <2>1
    <3> QED
      BY <1>2, <2>1, <3>1
  <2>2. CASE o + left = Len(V)
    BY <1>6, <2>2
  <2> QED
    BY <1>2, <1>3, <2>1, <2>2
<1> QED
  BY <1>4, <1>5, <1>6

(* The runner takes the first line: of a whole scenario further on, and of *)
(* the one that comes first.                                               *)
LEMMA ShiftContinues ==
  ASSUME NEW V, NEW W, Len(V) \in Nat \ {0}, Len(W) = Len(V) - 1,
         \A k \in 1 .. Len(W) : W[k] = V[k + 1],
         NEW n \in 1 .. MaxJobs, NEW s \in Snapshots,
         NEW o \in Nat \ {0}, NEW p \in 1 .. Len(ScenarioLines(n, s)), Continues(V, o, n, s, p)
  PROVE  Continues(W, o - 1, n, s, p)
<1> DEFINE L == ScenarioLines(n, s)
           left == Len(L) - p
<1>1. Len(L) \in Nat
  BY LinesFacts DEF SaysScenario
<1>2. /\ o + left <= Len(V)
      /\ \A k \in 1 .. left : V[o + k] = L[p + k]
      /\ o + left < Len(V) => V[o + left + 1].type \in {"SCENARIO", "QUIT"}
  BY DEF Continues
<1>3. left \in Nat
  BY <1>1
<1> SUFFICES /\ (o - 1) + left <= Len(W)
             /\ \A k \in 1 .. left : W[(o - 1) + k] = L[p + k]
             /\ (o - 1) + left < Len(W) => W[(o - 1) + left + 1].type \in {"SCENARIO", "QUIT"}
  BY DEF Continues
<1> HIDE DEF L, left
<1>4. (o - 1) + left <= Len(W)
  BY <1>2, <1>3
<1>5. ASSUME NEW k \in 1 .. left PROVE W[(o - 1) + k] = L[p + k]
  <2>1. (o - 1) + k \in 1 .. Len(W) /\ ((o - 1) + k) + 1 = o + k
    BY <1>2, <1>3
  <2> QED
    BY <1>2, <2>1
<1>6. ASSUME (o - 1) + left < Len(W)
      PROVE  W[(o - 1) + left + 1].type \in {"SCENARIO", "QUIT"}
  <2>1. /\ (o - 1) + left + 1 \in 1 .. Len(W)
        /\ ((o - 1) + left + 1) + 1 = o + left + 1
        /\ o + left < Len(V)
    BY <1>3, <1>6
  <2> QED
    BY <1>2, <2>1
<1> QED
  BY <1>4, <1>5, <1>6

(* The runner takes the first line after p lines of a scenario: it is the  *)
(* next one of the scenario, or the scenario was whole.                    *)
LEMMA NextContinues ==
  ASSUME NEW V, NEW W, Len(V) \in Nat \ {0}, Len(W) = Len(V) - 1,
         \A k \in 1 .. Len(W) : W[k] = V[k + 1],
         NEW n \in 1 .. MaxJobs, NEW s \in Snapshots,
         NEW p \in 1 .. Len(ScenarioLines(n, s)), Continues(V, 0, n, s, p)
  PROVE  \/ V[1].type \in {"SCENARIO", "QUIT"}
         \/ /\ p < Len(ScenarioLines(n, s))
            /\ V[1] = ScenarioLines(n, s)[p + 1]
            /\ Continues(W, 0, n, s, p + 1)
<1> DEFINE L == ScenarioLines(n, s)
           N == Len(L)
<1>1. N \in Nat
  BY LinesFacts DEF SaysScenario
<1>2. /\ 0 + (N - p) <= Len(V)
      /\ \A k \in 1 .. N - p : V[0 + k] = L[p + k]
      /\ 0 + (N - p) < Len(V) => V[0 + (N - p) + 1].type \in {"SCENARIO", "QUIT"}
  BY DEF Continues
<1>3. Continues(W, 0, n, s, p + 1) <=>
        /\ 0 + (N - (p + 1)) <= Len(W)
        /\ \A k \in 1 .. N - (p + 1) : W[0 + k] = L[p + 1 + k]
        /\ 0 + (N - (p + 1)) < Len(W)
             => W[0 + (N - (p + 1)) + 1].type \in {"SCENARIO", "QUIT"}
  BY DEF Continues
<1>4. p \in 1 .. N
  OBVIOUS
<1> HIDE DEF L, N
<1>5. CASE p = N
  <2>1. 0 + (N - p) < Len(V) /\ 0 + (N - p) + 1 = 1
    BY <1>1, <1>5
  <2> QED
    BY <1>2, <2>1
<1>6. CASE p < N
  <2>1. V[1] = L[p + 1]
    <3>1. 1 \in 1 .. N - p /\ 0 + 1 = 1
      BY <1>1, <1>4, <1>6
    <3> QED
      BY <1>2, <3>1
  <2>2. 0 + (N - (p + 1)) <= Len(W)
    BY <1>1, <1>2, <1>4
  <2>3. ASSUME NEW k \in 1 .. N - (p + 1) PROVE W[0 + k] = L[p + 1 + k]
    <3>1. /\ 0 + k \in 1 .. Len(W) /\ (0 + k) + 1 = 0 + (k + 1)
          /\ k + 1 \in 1 .. N - p /\ p + 1 + k = p + (k + 1)
      BY <1>1, <1>2, <1>4
    <3> QED
      BY <1>2, <3>1
  <2>4. ASSUME 0 + (N - (p + 1)) < Len(W)
        PROVE  W[0 + (N - (p + 1)) + 1].type \in {"SCENARIO", "QUIT"}
    <3>1. /\ 0 + (N - (p + 1)) + 1 \in 1 .. Len(W)
          /\ (0 + (N - (p + 1)) + 1) + 1 = 0 + (N - p) + 1
          /\ 0 + (N - p) < Len(V)
      BY <1>1, <1>4, <1>6, <2>4
    <3> QED
      BY <1>2, <3>1
  <2>5. Continues(W, 0, n, s, p + 1)
    BY <1>3, <2>2, <2>3, <2>4
  <2> QED
    BY <1>6, <2>1, <2>5 DEF L, N
<1> QED
  BY <1>1, <1>4, <1>5, <1>6

(* A scenario has at most the records it names.                            *)
LEMMA CountsBounded ==
  ASSUME NEW s \in Snapshots, NEW p \in Nat
  PROVE  \A i \in 1 .. 3 : CountsAfter(s, p)[i] <= Expected(s)[i]
<1> DEFINE e == Len(s.entities)
           l == Len(Links(s))
           f == Len(s.flows)
<1>1. e \in Nat /\ l \in Nat /\ f \in Nat
  BY SnapshotSizes
<1>2. /\ CountsAfter(s, p)[1] = Cap(p - 1, e) /\ Expected(s)[1] = e
      /\ CountsAfter(s, p)[2] = Cap(p - 1 - e, l) /\ Expected(s)[2] = l
      /\ CountsAfter(s, p)[3] = Cap(p - 1 - e - l, f) /\ Expected(s)[3] = f
  BY DEF CountsAfter, Expected
<1> HIDE DEF e, l, f
<1>3. Cap(p - 1, e) <= e /\ Cap(p - 1 - e, l) <= l /\ Cap(p - 1 - e - l, f) <= f
  BY <1>1 DEF Cap
<1>4. 1 .. 3 = {1, 2, 3}
  OBVIOUS
<1> QED
  BY <1>2, <1>3, <1>4

(* A scenario of which only the name has been read has no records.         *)
LEMMA CountsOfName ==
  ASSUME NEW s \in Snapshots
  PROVE  CountsAfter(s, 1) = <<0, 0, 0>>
<1> DEFINE e == Len(s.entities)
           l == Len(Links(s))
           f == Len(s.flows)
<1>1. e \in Nat /\ l \in Nat /\ f \in Nat
  BY SnapshotSizes
<1>2. CountsAfter(s, 1) = <<Cap(1 - 1, e), Cap(1 - 1 - e, l), Cap(1 - 1 - e - l, f)>>
  BY DEF CountsAfter
<1> HIDE DEF e, l, f
<1>3. Cap(1 - 1, e) = 0 /\ Cap(1 - 1 - e, l) = 0 /\ Cap(1 - 1 - e - l, f) = 0
  BY <1>1 DEF Cap
<1> QED
  BY <1>2, <1>3

(* The name in a SCENARIO line, which at least RUN comes after.            *)
LEMMA NameFacts ==
  ASSUME PipeTypes, NEW k \in 1 .. Len(In), In[k].type = "SCENARIO"
  PROVE  /\ In[k].value.id \in 1 .. MaxJobs
         /\ Counts(In[k].value) = <<0, 0, 0>>
         /\ \A s \in Snapshots : 1 \in 1 .. Len(ScenarioLines(In[k].value.id, s))
<1>1. In[k] \in InputLines
  BY SequenceTypes
<1>2. PICK n \in 1 .. MaxJobs, t \in Snapshots : In[k].value = Named(n, t)
  BY <1>1, InputFacts
<1>3. In[k].value.id = n /\ Counts(In[k].value) = <<0, 0, 0>>
  BY <1>2, NamedFacts
<1>4. ASSUME NEW s \in Snapshots
      PROVE  1 \in 1 .. Len(ScenarioLines(n, s))
  <2>1. SaysScenario(ScenarioLines(n, s), n, s)
    BY LinesFacts
  <2>2. /\ Len(ScenarioLines(n, s)) = Len(Records(s)) + 2
        /\ Len(Records(s)) \in Nat
    BY <2>1 DEF SaysScenario
  <2> QED
    BY <2>2
<1> QED
  BY <1>3, <1>4

(* A step after which the process is dead, or that leaves its input and    *)
(* its scenario alone.                                                     *)
LEMMA SettledCounts ==
  ASSUME CountInv, scenario' = scenario \/ scenario' = Blank,
         alive' => alive /\ In' = In /\ scenario' = scenario
  PROVE  CountInv'
<1>1. WholeJobs'
  BY DEF CountInv, WholeJobs
<1>2. InPosition'
  BY DEF CountInv, InPosition
<1>3. CountBound'
  BY DEF CountInv, CountBound, Blank
<1> QED
  BY <1>1, <1>2, <1>3 DEF CountInv

(* The input of a process grows by what can come after a whole scenario.   *)
LEMMA GrownCounts ==
  ASSUME PipeTypes, CountInv, alive, scenario' = scenario,
         Len(In') \in Nat, Len(In) <= Len(In'),
         \A k \in 1 .. Len(In) : In'[k] = In[k],
         Len(In) < Len(In') => In'[Len(In) + 1].type \in {"SCENARIO", "QUIT"}
  PROVE  /\ InPosition'
         /\ CountBound'
         /\ \A k \in 1 .. Len(In) : In'[k].type = "SCENARIO" =>
              \E s \in Snapshots : /\ In'[k].value.expected = Expected(s)
                                   /\ Continues(In', k, In'[k].value.id, s, 1)
<1>1. Len(In) \in Nat
  BY SequenceTypes
<1>2. CountBound'
  BY DEF CountInv, CountBound
<1>3. ASSUME scenario.id # 0 PROVE InPosition'
  <2>1. scenario.id \in 1 .. MaxJobs
    BY <1>3 DEF PipeTypes, ProcTypeOK, Scenarios
  <2>a. PICK s \in Snapshots :
           \E p \in 1 .. Len(ScenarioLines(scenario.id, s)) :
              /\ scenario.expected = Expected(s)
              /\ Counts(scenario) = CountsAfter(s, p)
              /\ Continues(In, 0, scenario.id, s, p)
    BY <1>3 DEF CountInv, InPosition
  <2>2. PICK p \in 1 .. Len(ScenarioLines(scenario.id, s)) :
           /\ scenario.expected = Expected(s)
           /\ Counts(scenario) = CountsAfter(s, p)
           /\ Continues(In, 0, scenario.id, s, p)
    BY <2>a
  <2>3. Continues(In', 0, scenario.id, s, p)
    BY <1>1, <2>1, <2>2, ExtendContinues
  <2> QED
    BY <2>2, <2>3 DEF InPosition
<1>4. ASSUME NEW k \in 1 .. Len(In), In'[k].type = "SCENARIO"
      PROVE  \E s \in Snapshots : /\ In'[k].value.expected = Expected(s)
                                  /\ Continues(In', k, In'[k].value.id, s, 1)
  <2>1. In'[k] = In[k] /\ In[k].type = "SCENARIO"
    BY <1>4
  <2>2. PICK s \in Snapshots : /\ In[k].value.expected = Expected(s)
                               /\ Continues(In, k, In[k].value.id, s, 1)
    BY <2>1 DEF CountInv, WholeJobs
  <2>3. /\ In[k].value.id \in 1 .. MaxJobs
        /\ 1 \in 1 .. Len(ScenarioLines(In[k].value.id, s))
    BY <2>1, NameFacts
  <2>4. k \in Nat
    BY <1>1
  <2>5. Continues(In', k, In[k].value.id, s, 1)
    BY <1>1, <2>2, <2>3, <2>4, ExtendContinues
  <2> QED
    BY <2>1, <2>2, <2>5
<1> QED
  BY <1>2, <1>3, <1>4 DEF InPosition

(* A job names its scenario and brings all its lines.                      *)
LEMMA StartCounts ==
  ASSUME PipeTypes, CountInv, NEW s \in Snapshots, StartCompute(s)
  PROVE  CountInv'
<1> DEFINE base == IF handle /\ alive THEN Len(In) ELSE 0
           L == JobLines'
           V == In'
<1>0. base = IF handle /\ alive THEN Len(In) ELSE 0
  OBVIOUS
<1> HIDE DEF base
<1>1. /\ job + 1 \in 1 .. MaxJobs /\ job' = job + 1 /\ snapshot' = s
      /\ SaysScenario(L, job', s)
      /\ base \in Nat
      /\ Len(V) = base + Len(L)
      /\ \A k \in 1 .. Len(L) : V[base + k] = L[k]
      /\ \A k \in 1 .. base : V[k] = In[k] /\ k \in 1 .. Len(In)
  BY <1>0, StartFacts
<1>2. L = ScenarioLines(job + 1, s) /\ Len(L) \in Nat /\ Len(L) >= 2
  <2>1. L = ScenarioLines(job + 1, s)
    BY <1>1 DEF JobLines
  <2>2. Len(L) = Len(Records(s)) + 2 /\ Len(Records(s)) \in Nat
    BY <1>1 DEF SaysScenario
  <2> QED
    BY <2>1, <2>2
<1>3. \A k \in 1 .. Len(L) : Place(L, job + 1, s, k)
  BY <1>1, <1>2, PlacesFacts
<1> HIDE DEF L
<1>4. V[base + 1] = [type |-> "SCENARIO", odd |-> FALSE, value |-> Named(job + 1, s)]
  <2>1. 1 \in 1 .. Len(L) /\ Place(L, job + 1, s, 1)
    BY <1>2, <1>3
  <2> QED
    BY <1>1, <2>1 DEF Place
<1>5. /\ InPosition' /\ CountBound'
      /\ \A k \in 1 .. base : V[k].type = "SCENARIO" =>
           \E t \in Snapshots : /\ V[k].value.expected = Expected(t)
                                /\ Continues(V, k, V[k].value.id, t, 1)
  <2>1. CASE handle /\ alive
    <3>1. alive /\ base = Len(In) /\ scenario' = scenario
      BY <1>0, <2>1 DEF StartCompute, EnsureProcess, procVars
    <3>2. /\ Len(V) \in Nat /\ Len(In) <= Len(V)
          /\ \A k \in 1 .. Len(In) : V[k] = In[k]
          /\ V[Len(In) + 1].type \in {"SCENARIO", "QUIT"}
      BY <1>1, <1>2, <1>4, <3>1
    <3> QED
      BY <3>1, <3>2, GrownCounts
  <2>2. CASE ~ (handle /\ alive)
    <3>1. scenario'.id = 0
      BY <2>2 DEF StartCompute, EnsureProcess, Blank
    <3>2. 1 .. base = {}
      BY <1>0, <2>2
    <3> QED
      BY <3>1, <3>2 DEF InPosition, CountBound
  <2> QED
    BY <2>1, <2>2
<1>6. Continues(V, base + 1, job + 1, s, 1)
  <2>1. Continues(V, base + 1, job + 1, s, 1) <=>
          /\ base + 1 + (Len(L) - 1) <= Len(V)
          /\ \A k \in 1 .. Len(L) - 1 : V[base + 1 + k] = L[1 + k]
          /\ base + 1 + (Len(L) - 1) < Len(V)
               => V[base + 1 + (Len(L) - 1) + 1].type \in {"SCENARIO", "QUIT"}
    BY <1>2 DEF Continues
  <2>2. base + 1 + (Len(L) - 1) = Len(V)
    BY <1>1, <1>2
  <2>3. ASSUME NEW k \in 1 .. Len(L) - 1 PROVE V[base + 1 + k] = L[1 + k]
    <3>1. 1 + k \in 1 .. Len(L) /\ base + 1 + k = base + (1 + k)
      BY <1>1, <1>2
    <3> QED
      BY <1>1, <3>1
  <2>4. Len(V) \in Nat
    BY <1>1, <1>2
  <2> QED
    BY <2>1, <2>2, <2>3, <2>4
<1>7. ASSUME NEW k \in 1 .. Len(V), V[k].type = "SCENARIO"
      PROVE  \E t \in Snapshots : /\ V[k].value.expected = Expected(t)
                                  /\ Continues(V, k, V[k].value.id, t, 1)
  <2>1. CASE k \in 1 .. base
    BY <1>5, <1>7, <2>1
  <2>2. CASE k = base + 1
    <3>1. V[k].value = Named(job + 1, s)
      BY <1>4, <2>2
    <3>2. V[k].value.expected = Expected(s) /\ V[k].value.id = job + 1
      BY <1>1, <3>1, NamedFacts
    <3> QED
      BY <1>6, <2>2, <3>2
  <2>3. CASE k - base \in 2 .. Len(L)
    <3>1. k = base + (k - base) /\ k - base \in 1 .. Len(L) /\ k - base # 1
      BY <1>1, <1>2, <2>3
    <3>2. V[k] = L[k - base] /\ Place(L, job + 1, s, k - base)
      BY <1>1, <1>3, <3>1
    <3>3. V[k].type # "SCENARIO"
      BY <3>1, <3>2 DEF Place, Command, RecordTypes
    <3> QED
      BY <1>7, <3>3
  <2>4. k \in 1 .. base \/ k = base + 1 \/ k - base \in 2 .. Len(L)
    BY <1>1, <1>2
  <2> QED
    BY <2>1, <2>2, <2>3, <2>4
<1>8. WholeJobs'
  BY <1>7 DEF WholeJobs
<1> QED
  BY <1>5, <1>8 DEF CountInv

(* QUIT comes after what has been written.                                 *)
LEMMA CloseCounts ==
  ASSUME PipeTypes, CountInv, Close
  PROVE  CountInv'
<1>1. scenario' = scenario /\ alive' = alive /\ unsent = <<>> /\ unsent' = <<>>
  BY DEF Close, PipeTypes, CallTypeOK
<1>2. stdin \in Seq(InputLines) /\ stdin' \in Seq(InputLines)
  BY CloseTypes DEF PipeTypes, ProcTypeOK
<1>3. In = stdin /\ In' = stdin'
  BY <1>1, <1>2 DEF In
<1>4. CASE ~ alive
  BY <1>1, <1>4, SettledCounts
<1>5. CASE stdin' = stdin
  BY <1>1, <1>3, <1>5, SettledCounts
<1>6. CASE alive /\ stdin' = Append(stdin, Command("QUIT"))
  <2>1. /\ Len(In) \in Nat /\ Len(In') = Len(In) + 1
        /\ In'[Len(In) + 1] = Command("QUIT")
        /\ \A k \in 1 .. Len(In) : In'[k] = In[k]
    <3>1. Command("QUIT") \in InputLines /\ stdin \in Seq(InputLines)
      BY <1>2 DEF InputLines
    <3> HIDE DEF InputLines
    <3>2. /\ Len(stdin) \in Nat
          /\ Len(Append(stdin, Command("QUIT"))) = Len(stdin) + 1
          /\ Append(stdin, Command("QUIT"))[Len(stdin) + 1] = Command("QUIT")
          /\ \A k \in 1 .. Len(stdin) : Append(stdin, Command("QUIT"))[k] = stdin[k]
      BY <3>1, AppendFacts
    <3> QED
      BY <1>3, <1>6, <3>2
  <2>2. In'[Len(In) + 1].type = "QUIT"
    BY <2>1 DEF Command
  <2>3. Len(In') \in Nat /\ Len(In) <= Len(In')
    BY <2>1
  <2>4. /\ InPosition' /\ CountBound'
        /\ \A k \in 1 .. Len(In) : In'[k].type = "SCENARIO" =>
             \E s \in Snapshots : /\ In'[k].value.expected = Expected(s)
                                  /\ Continues(In', k, In'[k].value.id, s, 1)
    BY <1>1, <1>6, <2>1, <2>2, <2>3, GrownCounts
  <2>5. ASSUME NEW k \in 1 .. Len(In'), In'[k].type = "SCENARIO"
        PROVE  k \in 1 .. Len(In)
    BY <2>1, <2>2, <2>5
  <2>6. WholeJobs'
    BY <2>4, <2>5 DEF WholeJobs
  <2> QED
    BY <2>4, <2>6 DEF CountInv
<1> QED
  BY <1>4, <1>5, <1>6 DEF Close

(* The runner takes the first line of its input: the other lines move up,  *)
(* and the scenario is one line further.                                   *)
LEMMA ReaderCounts ==
  ASSUME PipeTypes, CountInv, RunnerReads
  PROVE  CountInv'
<1> DEFINE line == In[1]
<1>1. /\ In # <<>> /\ In \in Seq(InputLines) /\ In' = Tail(In)
      /\ IF line.type = "QUIT"
         THEN ~ alive' /\ UNCHANGED <<scenario, printing>>
         ELSE /\ alive' = alive
              /\ Threw(line) \/ TookName(line) \/ TookRecord(line) \/ CalculatedIt(line)
  BY ReaderTypes
<1>2. /\ Len(In) \in Nat \ {0} /\ Len(In') = Len(In) - 1
      /\ \A k \in 1 .. Len(In') : In'[k] = In[k + 1] /\ k + 1 \in 1 .. Len(In)
  BY <1>1, TailFacts
<1>3. alive /\ 1 \in 1 .. Len(In)
  BY <1>2 DEF RunnerReads
<1> HIDE DEF line
<1>4. CASE line.type = "QUIT"
  BY <1>1, <1>4, SettledCounts
<1>5. CASE line.type # "QUIT"
  <2>1. ASSUME NEW k \in 1 .. Len(In), In[k].type = "SCENARIO"
        PROVE  \E s \in Snapshots : /\ In[k].value.expected = Expected(s)
                                    /\ Continues(In', k - 1, In[k].value.id, s, 1)
    <3>1. PICK s \in Snapshots : /\ In[k].value.expected = Expected(s)
                                 /\ Continues(In, k, In[k].value.id, s, 1)
      BY <1>3, <2>1 DEF CountInv, WholeJobs
    <3>2. /\ In[k].value.id \in 1 .. MaxJobs
          /\ 1 \in 1 .. Len(ScenarioLines(In[k].value.id, s))
      BY <2>1, NameFacts
    <3>3. k \in Nat \ {0}
      BY <1>2
    <3>4. Continues(In', k - 1, In[k].value.id, s, 1)
      BY <1>2, <3>1, <3>2, <3>3, ShiftContinues
    <3> QED
      BY <3>1, <3>4
  <2>2. WholeJobs'
    <3>1. ASSUME NEW k \in 1 .. Len(In'), In'[k].type = "SCENARIO"
          PROVE  \E s \in Snapshots : /\ In'[k].value.expected = Expected(s)
                                      /\ Continues(In', k, In'[k].value.id, s, 1)
      <4>1. In'[k] = In[k + 1] /\ k + 1 \in 1 .. Len(In) /\ (k + 1) - 1 = k
        BY <1>2
      <4>2. In[k + 1].type = "SCENARIO"
        BY <3>1, <4>1
      <4>3. \E s \in Snapshots : /\ In[k + 1].value.expected = Expected(s)
                                 /\ Continues(In', (k + 1) - 1, In[k + 1].value.id, s, 1)
        BY <2>1, <4>1, <4>2
      <4> QED
        BY <4>1, <4>3
    <3> QED
      BY <3>1 DEF WholeJobs
  <2>3. ASSUME scenario'.id # 0, NEW s \in Snapshots,
               NEW p \in 1 .. Len(ScenarioLines(scenario'.id, s)),
               scenario'.expected = Expected(s), Counts(scenario)' = CountsAfter(s, p),
               Continues(In', 0, scenario'.id, s, p)
        PROVE  CountInv'
    <3>1. InPosition'
      BY <2>3 DEF InPosition
    <3>2. p \in Nat
      <4>1. scenario'.id \in 1 .. MaxJobs
        <5>1. PipeTypes'
          BY ReaderTypes
        <5>2. scenario' \in Scenarios
          BY <5>1 DEF PipeTypes, ProcTypeOK
        <5>3. scenario'.id \in 0 .. MaxJobs /\ MaxJobs \in Nat
          BY <5>2, PipeConstants DEF Scenarios
        <5> QED
          BY <2>3, <5>3
      <4>2. Len(ScenarioLines(scenario'.id, s)) \in Nat
        BY <4>1, LinesFacts DEF SaysScenario
      <4> QED
        BY <4>2
    <3>3. CountBound'
      BY <2>3, <3>2, CountsBounded DEF CountBound
    <3> QED
      BY <2>2, <3>1, <3>3 DEF CountInv
  <2>4. ASSUME scenario'.id = 0 PROVE CountInv'
    BY <2>2, <2>4 DEF CountInv, InPosition, CountBound
  <2>5. ASSUME scenario'.id = scenario.id, scenario'.expected = scenario.expected,
               scenario.id # 0, line.type # "SCENARIO"
        PROVE  \E s \in Snapshots :
                 \E p \in 1 .. Len(ScenarioLines(scenario.id, s)) :
                   /\ p < Len(ScenarioLines(scenario.id, s))
                   /\ scenario.expected = Expected(s)
                   /\ Counts(scenario) = CountsAfter(s, p)
                   /\ line = ScenarioLines(scenario.id, s)[p + 1]
                   /\ Continues(In', 0, scenario.id, s, p + 1)
    <3>1. scenario.id \in 1 .. MaxJobs
      BY <2>5 DEF PipeTypes, ProcTypeOK, Scenarios
    <3>2. PICK s \in Snapshots :
             \E p \in 1 .. Len(ScenarioLines(scenario.id, s)) :
                /\ scenario.expected = Expected(s)
                /\ Counts(scenario) = CountsAfter(s, p)
                /\ Continues(In, 0, scenario.id, s, p)
      BY <1>3, <2>5 DEF CountInv, InPosition
    <3>3. PICK p \in 1 .. Len(ScenarioLines(scenario.id, s)) :
             /\ scenario.expected = Expected(s)
             /\ Counts(scenario) = CountsAfter(s, p)
             /\ Continues(In, 0, scenario.id, s, p)
      BY <3>2
    <3>4. \/ line.type \in {"SCENARIO", "QUIT"}
          \/ /\ p < Len(ScenarioLines(scenario.id, s))
             /\ line = ScenarioLines(scenario.id, s)[p + 1]
             /\ Continues(In', 0, scenario.id, s, p + 1)
      BY <1>2, <3>1, <3>3, NextContinues DEF line
    <3> QED
      BY <1>5, <2>5, <3>3, <3>4
  <2>6. CASE Threw(line)
    BY <2>4, <2>6 DEF Threw, Blank
  <2>7. CASE TookName(line)
    <3>1. line.type = "SCENARIO" /\ scenario' = line.value
      BY <2>7 DEF TookName
    <3>2. PICK s \in Snapshots : /\ line.value.expected = Expected(s)
                                 /\ Continues(In', 1 - 1, line.value.id, s, 1)
      BY <1>3, <2>1, <3>1 DEF line
    <3>3. /\ line.value.id \in 1 .. MaxJobs
          /\ Counts(line.value) = <<0, 0, 0>>
          /\ 1 \in 1 .. Len(ScenarioLines(line.value.id, s))
      BY <1>3, <3>1, NameFacts DEF line
    <3>4. Counts(scenario)' = CountsAfter(s, 1)
      BY <3>1, <3>3, CountsOfName DEF Counts
    <3>5. Continues(In', 0, scenario'.id, s, 1) /\ scenario'.id # 0
      BY <3>1, <3>2, <3>3
    <3> QED
      BY <2>3, <3>1, <3>2, <3>3, <3>4, <3>5
  <2>8. CASE TookRecord(line)
    <3>1. CASE scenario.id = 0
      BY <2>4, <2>8, <3>1 DEF TookRecord
    <3>2. CASE scenario.id # 0
      <4>1. scenario'.id = scenario.id /\ scenario'.expected = scenario.expected
            /\ line.type # "SCENARIO"
        BY <2>8 DEF TookRecord, RecordTypes
      <4>2. PICK s \in Snapshots :
               \E p \in 1 .. Len(ScenarioLines(scenario.id, s)) :
                 /\ p < Len(ScenarioLines(scenario.id, s))
                 /\ scenario.expected = Expected(s)
                 /\ Counts(scenario) = CountsAfter(s, p)
                 /\ line = ScenarioLines(scenario.id, s)[p + 1]
                 /\ Continues(In', 0, scenario.id, s, p + 1)
        BY <2>5, <3>2, <4>1
      <4>3. PICK p \in 1 .. Len(ScenarioLines(scenario.id, s)) :
               /\ p < Len(ScenarioLines(scenario.id, s))
               /\ scenario.expected = Expected(s)
               /\ Counts(scenario) = CountsAfter(s, p)
               /\ line = ScenarioLines(scenario.id, s)[p + 1]
               /\ Continues(In', 0, scenario.id, s, p + 1)
        BY <4>2
      <4>4. scenario.id \in 1 .. MaxJobs
        BY <3>2 DEF PipeTypes, ProcTypeOK, Scenarios
      <4>5. p \in Nat \ {0} /\ p + 1 \in 1 .. Len(ScenarioLines(scenario.id, s))
        <5>1. Len(ScenarioLines(scenario.id, s)) \in Nat
          BY <4>4, LinesFacts DEF SaysScenario
        <5> HIDE DEF line
        <5> QED
          BY <4>3, <5>1
      <4>6. /\ CountsAfter(s, p + 1)[1]
                 = CountsAfter(s, p)[1] + (IF line.type = "NODE" THEN 1 ELSE 0)
            /\ CountsAfter(s, p + 1)[2]
                 = CountsAfter(s, p)[2] + (IF line.type = "LINK" THEN 1 ELSE 0)
            /\ CountsAfter(s, p + 1)[3]
                 = CountsAfter(s, p)[3] + (IF line.type = "FLOW" THEN 1 ELSE 0)
        BY <4>3, <4>4, <4>5, CountsStep
      <4>7. Counts(scenario)' = <<CountsAfter(s, p + 1)[1], CountsAfter(s, p + 1)[2],
                                  CountsAfter(s, p + 1)[3]>>
        <5>1. /\ CountsAfter(s, p)[1] = Len(scenario.nodes)
              /\ CountsAfter(s, p)[2] = Len(scenario.links)
              /\ CountsAfter(s, p)[3] = Len(scenario.flows)
          BY <4>3 DEF Counts
        <5> QED
          BY <2>8, <4>6, <5>1 DEF TookRecord, Counts
      <4>8. Counts(scenario)' = CountsAfter(s, p + 1)
        BY <4>7 DEF CountsAfter
      <4> QED
        BY <2>3, <3>2, <4>1, <4>3, <4>5, <4>8
    <3> QED
      BY <3>1, <3>2
  <2>9. CASE CalculatedIt(line)
    <3>1. CASE scenario.id = 0
      BY <2>4, <2>9, <3>1 DEF CalculatedIt
    <3>2. CASE scenario.id # 0
      <4>1. scenario' = scenario /\ line.type = "RUN"
        BY <2>9 DEF CalculatedIt
      <4>2. PICK s \in Snapshots :
               \E p \in 1 .. Len(ScenarioLines(scenario.id, s)) :
                 /\ p < Len(ScenarioLines(scenario.id, s))
                 /\ scenario.expected = Expected(s)
                 /\ Counts(scenario) = CountsAfter(s, p)
                 /\ line = ScenarioLines(scenario.id, s)[p + 1]
                 /\ Continues(In', 0, scenario.id, s, p + 1)
        BY <2>5, <3>2, <4>1
      <4>3. PICK p \in 1 .. Len(ScenarioLines(scenario.id, s)) :
               /\ p < Len(ScenarioLines(scenario.id, s))
               /\ scenario.expected = Expected(s)
               /\ Counts(scenario) = CountsAfter(s, p)
               /\ line = ScenarioLines(scenario.id, s)[p + 1]
               /\ Continues(In', 0, scenario.id, s, p + 1)
        BY <4>2
      <4>4. scenario.id \in 1 .. MaxJobs
        BY <3>2 DEF PipeTypes, ProcTypeOK, Scenarios
      <4>5. p \in Nat \ {0} /\ p + 1 \in 1 .. Len(ScenarioLines(scenario.id, s))
        <5>1. Len(ScenarioLines(scenario.id, s)) \in Nat
          BY <4>4, LinesFacts DEF SaysScenario
        <5> QED
          BY <4>3, <5>1
      <4>6. /\ CountsAfter(s, p + 1)[1] = CountsAfter(s, p)[1] + 0
            /\ CountsAfter(s, p + 1)[2] = CountsAfter(s, p)[2] + 0
            /\ CountsAfter(s, p + 1)[3] = CountsAfter(s, p)[3] + 0
        BY <4>1, <4>3, <4>4, <4>5, CountsStep
      <4>7. /\ CountsAfter(s, p)[1] = Len(scenario.nodes)
            /\ CountsAfter(s, p)[2] = Len(scenario.links)
            /\ CountsAfter(s, p)[3] = Len(scenario.flows)
            /\ Len(scenario.nodes) \in Nat /\ Len(scenario.links) \in Nat
            /\ Len(scenario.flows) \in Nat
        <5>1. /\ Len(scenario.nodes) \in Nat /\ Len(scenario.links) \in Nat
              /\ Len(scenario.flows) \in Nat
          BY DEF PipeTypes, ProcTypeOK, Scenarios
        <5> QED
          BY <4>3, <5>1 DEF Counts
      <4>8. Counts(scenario)' = CountsAfter(s, p + 1)
        <5>1. Counts(scenario)' = <<CountsAfter(s, p + 1)[1], CountsAfter(s, p + 1)[2],
                                    CountsAfter(s, p + 1)[3]>>
          BY <4>1, <4>6, <4>7 DEF Counts
        <5> QED
          BY <5>1 DEF CountsAfter
      <4> QED
        BY <2>3, <3>2, <4>1, <4>3, <4>5, <4>8
    <3> QED
      BY <3>1, <3>2
  <2> QED
    BY <1>1, <1>5, <2>6, <2>7, <2>8, <2>9
<1> QED
  BY <1>4, <1>5

(* Every step keeps the counts of the runner's scenario in place.          *)
LEMMA CountsInductive ==
  ASSUME PipeTypes, CountInv, [Next]_vars
  PROVE  CountInv'
<1>1. ASSUME NEW s \in Snapshots, StartCompute(s) PROVE CountInv'
  BY <1>1, StartCounts
<1>2. CASE UNCHANGED vars
  <2>1. UNCHANGED <<alive, scenario>> /\ In' = In
    BY <1>2 DEF vars, procVars, callVars, In
  <2> QED
    BY <2>1, SettledCounts
<1>3. CASE NoExecutable \/ WriteFails
  <2>1. UNCHANGED procVars /\ ~ alive
    BY <1>3, QuietTypes DEF PipeTypes, ProcTypeOK
  <2>2. scenario' = scenario /\ ~ alive'
    BY <2>1 DEF procVars
  <2> QED
    BY <2>2, SettledCounts
<1>4. CASE WriteLine
  <2>1. UNCHANGED <<alive, scenario>>
    BY <1>4 DEF WriteLine
  <2> QED
    BY <1>4, <2>1, SettledCounts, WriteTypes
<1>5. CASE ReadRaises \/ ReadResult \/ ReadDone \/ ReadEof
  <2>1. UNCHANGED <<alive, scenario>>
    BY <1>5 DEF ReadRaises, ReadResult, ReadDone, ReadEof
  <2> QED
    BY <1>5, <2>1, SettledCounts, ReadTypes
<1>6. CASE CloseEnds \/ Crash
  <2>1. ~ alive' /\ (scenario' = scenario \/ scenario' = Blank)
    BY <1>6 DEF CloseEnds, Crash
  <2> QED
    BY <2>1, SettledCounts
<1>7. CASE RunnerPrints
  <2>1. UNCHANGED <<alive, scenario>>
    BY <1>7 DEF RunnerPrints
  <2> QED
    BY <1>7, <2>1, SettledCounts, PrinterTypes
<1>8. Next => \/ \E s \in Snapshots : StartCompute(s)
              \/ NoExecutable \/ WriteFails
              \/ WriteLine
              \/ ReadRaises \/ ReadResult \/ ReadDone \/ ReadEof
              \/ Close
              \/ CloseEnds \/ Crash
              \/ RunnerPrints
              \/ RunnerReads
  BY DEF Next
<1> QED
  BY <1>1, <1>2, <1>3, <1>4, <1>5, <1>6, <1>7, <1>8, CloseCounts, ReaderCounts

(* The types of the pipes and of the call; above all, that the runner's    *)
(* scenario never has more nodes, links or flows than its name said, and   *)
(* never is one of a job that has not been called.                         *)
THEOREM PipeTypeCorrect == Spec => []TypeOK
<1> DEFINE Inv == PipeTypes /\ StreamInv /\ CountInv
<1>1. Init => Inv
  <2> SUFFICES ASSUME Init PROVE Inv
    OBVIOUS
  <2>1. PipeTypes
    BY TypesInitially
  <2>2. ~ Busy /\ scenario.id = 0 /\ job = 0 /\ ~ alive
    BY DEF Init, Busy, Blank
  <2>3. In = <<>> /\ Out = <<>>
    BY DEF Init, In, Out
  <2>4. StreamInv
    BY <2>2, <2>3 DEF StreamInv, NothingFromTheFuture, JobComesLast, OwnScenario
  <2>5. CountInv
    BY <2>2 DEF CountInv, WholeJobs, InPosition, CountBound
  <2> QED
    BY <2>1, <2>4, <2>5
<1>2. Inv /\ [Next]_vars => Inv'
  <2> SUFFICES ASSUME PipeTypes, StreamInv, CountInv, [Next]_vars PROVE Inv'
    OBVIOUS
  <2>1. PipeTypes' /\ CountInv'
    BY TypesInductive, CountsInductive
  <2>2. CASE UNCHANGED vars
    <3>1. /\ In' = In /\ Out' = Out /\ Busy' = Busy
          /\ UNCHANGED <<scenario, job, snapshot>>
      BY <2>2 DEF vars, procVars, callVars, history, In, Out, Busy
    <3>2. StreamInv'
      BY <3>1, SettledStream
    <3> QED
      BY <2>1, <3>2
  <2>3. CASE Next
    BY <2>1, <2>3, StreamStep
  <2> QED
    BY <2>2, <2>3
<1>3. Inv => TypeOK
  <2> SUFFICES ASSUME PipeTypes, StreamInv, CountInv PROVE TypeOK
    OBVIOUS
  <2>1. /\ handle \in BOOLEAN /\ alive \in BOOLEAN /\ (alive => handle)
        /\ Len(stdin) <= PipeLines /\ Len(stdout) <= PipeLines
    BY DEF PipeTypes, ProcTypeOK
  <2>2. scenario.id \in 0 .. job
    <3>1. scenario.id \in Nat /\ job \in Nat
      BY DEF PipeTypes, ProcTypeOK, CallTypeOK, Scenarios
    <3>2. scenario.id <= job
      BY DEF StreamInv, NothingFromTheFuture
    <3> QED
      BY <3>1, <3>2
  <2>3. \A i \in 1 .. 3 : Counts(scenario)[i] <= scenario.expected[i] \/ scenario.id = 0
    BY DEF CountInv, CountBound
  <2>4. /\ caller \in {"idle", "writing", "reading", "closing", "closed"}
        /\ caller \in {"idle", "closing", "closed"} => unsent = <<>>
        /\ job \in 0 .. MaxJobs
        /\ snapshot \in Snapshots \cup {Nothing}
        /\ crashes \in 0 .. MaxCrashes
    BY DEF PipeTypes, CallTypeOK
  <2> QED
    BY <2>1, <2>2, <2>3, <2>4 DEF TypeOK
<1> QED
  BY <1>1, <1>2, <1>3, PTL DEF Spec

-----------------------------------------------------------------------------
(* What compute returns agrees with the topology of its snapshot.          *)

(* A scenario has the first records of a snapshot, as many as its first p  *)
(* lines have.                                                             *)
Content(sc, s, p) ==
  /\ sc.expected = Expected(s)
  /\ Counts(sc) = CountsAfter(s, p)
  /\ \A i \in 1 .. Len(sc.nodes) : sc.nodes[i] = NodeRecords(s)[i].value
  /\ \A i \in 1 .. Len(sc.links) : sc.links[i] = LinkRecords(s)[i].value
  /\ \A i \in 1 .. Len(sc.flows) : sc.flows[i] = FlowRecords(s)[i].value

(* The runner's scenario, if it is the job's, says what compute has sent.  *)
OwnContent ==
  Busy /\ scenario.id = job => Content(scenario, snapshot, Len(JobLines) - Len(In))

(* The results of the job agree with its topology: those on their way and  *)
(* those that compute has read.                                            *)
OwnAnswersAgree ==
  Busy => \A k \in 1 .. Len(Out) :
            Out[k].type = "RESULT" /\ Out[k].id = job /\ Out[k].index \in 1 .. Len(snapshot.flows) =>
              AgreesWithTopology(snapshot, Out[k].index, Out[k].values)
OwnMeasuresAgree ==
  Busy => \A i \in 1 .. Len(snapshot.flows) :
            OwnMeasure(i) => AgreesWithTopology(snapshot, i, measured[i].values)

(* What compute has returned agrees with the topology of its snapshot.     *)
ReturnedAgrees ==
  /\ ~ outcome.ok => outcome.metrics = <<>>
  /\ outcome.ok =>
       /\ snapshot \in Snapshots
       /\ Len(outcome.metrics) = Len(snapshot.flows)
       /\ \A i \in 1 .. Len(snapshot.flows) :
            AgreesWithTopology(snapshot, i, outcome.metrics[i].values)

TopologyInv == OwnContent /\ OwnAnswersAgree /\ OwnMeasuresAgree

(* A record of a snapshot is the next one of its type.                     *)
LEMMA NextRecord ==
  ASSUME NEW s \in Snapshots, NEW p \in 1 .. Len(Records(s))
  PROVE  LET r == Records(s)[p]
             c == CountsAfter(s, p)
         IN  /\ r.type = "NODE" => r = NodeRecords(s)[c[1] + 1]
             /\ r.type = "LINK" => r = LinkRecords(s)[c[2] + 1]
             /\ r.type = "FLOW" => r = FlowRecords(s)[c[3] + 1]
<1> DEFINE e == Len(s.entities)
           l == Len(Links(s))
           f == Len(s.flows)
           r == Records(s)[p]
           c == CountsAfter(s, p)
<1>0. e = Len(s.entities) /\ l = Len(Links(s)) /\ f = Len(s.flows)
  OBVIOUS
<1>a. c = <<Cap(p - 1, e), Cap(p - 1 - e, l), Cap(p - 1 - e - l, f)>>
  BY DEF CountsAfter
<1> HIDE DEF e, l, f, c
<1>1. /\ e \in Nat /\ l \in Nat /\ f \in Nat
      /\ Len(Records(s)) = e + l + f
      /\ \A k \in 1 .. e : Records(s)[k].type = "NODE" /\ Records(s)[k] = NodeRecords(s)[k]
      /\ \A k \in 1 .. l : Records(s)[e + k].type = "LINK" /\ Records(s)[e + k] = LinkRecords(s)[k]
      /\ \A k \in 1 .. f : /\ Records(s)[e + l + k].type = "FLOW"
                           /\ Records(s)[e + l + k] = FlowRecords(s)[k]
  <2>1. InOrder(Records(s), e, l, f) /\ SaysRecords(Records(s), s, e, l, f)
    BY <1>0, RecordFacts
  <2>2. /\ e \in Nat /\ l \in Nat /\ f \in Nat
        /\ Len(Records(s)) = e + l + f
        /\ \A k \in 1 .. e : Records(s)[k].type = "NODE"
        /\ \A k \in 1 .. l : Records(s)[e + k].type = "LINK"
        /\ \A k \in 1 .. f : Records(s)[e + l + k].type = "FLOW"
    BY <2>1 DEF InOrder
  <2>3. /\ \A k \in 1 .. e : Records(s)[k] = NodeRecords(s)[k]
        /\ \A k \in 1 .. l : Records(s)[e + k] = LinkRecords(s)[k]
        /\ \A k \in 1 .. f : Records(s)[e + l + k] = FlowRecords(s)[k]
    BY <2>1 DEF SaysRecords
  <2> QED
    BY <2>2, <2>3
<1>2. p \in Nat \ {0}
  BY <1>1
<1>3. CASE p \in 1 .. e
  <2>1. c[1] + 1 = p
    BY <1>a, <1>1, <1>2, <1>3 DEF Cap
  <2>2. r.type = "NODE" /\ r = NodeRecords(s)[p]
    BY <1>1, <1>3
  <2> QED
    BY <2>1, <2>2 DEF c
<1>4. CASE p - e \in 1 .. l
  <2>1. c[2] + 1 = p - e
    BY <1>a, <1>1, <1>2, <1>4 DEF Cap
  <2>2. p = e + (p - e)
    BY <1>1, <1>2
  <2>3. r.type = "LINK" /\ r = LinkRecords(s)[p - e]
    BY <1>1, <1>4, <2>2
  <2> QED
    BY <2>1, <2>3 DEF c
<1>5. CASE p - e - l \in 1 .. f
  <2>1. c[3] + 1 = p - e - l
    BY <1>a, <1>1, <1>2, <1>5 DEF Cap
  <2>2. p = e + l + (p - e - l)
    BY <1>1, <1>2
  <2>3. r.type = "FLOW" /\ r = FlowRecords(s)[p - e - l]
    BY <1>1, <1>5, <2>2
  <2> QED
    BY <2>1, <2>3 DEF c
<1>6. p \in 1 .. e \/ p - e \in 1 .. l \/ p - e - l \in 1 .. f
  BY <1>1, <1>2
<1> QED
  BY <1>3, <1>4, <1>5, <1>6

(* One record more: what is appended is what the snapshot says next.       *)
LEMMA AppendContent ==
  ASSUME NEW T, NEW q \in Seq(T), NEW r, NEW x \in T,
         \A i \in 1 .. Len(q) : q[i] = r[i].value, x = r[Len(q) + 1].value
  PROVE  \A i \in 1 .. Len(Append(q, x)) : Append(q, x)[i] = r[i].value
<1>1. /\ Len(Append(q, x)) = Len(q) + 1 /\ Len(q) \in Nat
      /\ \A i \in 1 .. Len(q) : Append(q, x)[i] = q[i]
      /\ Append(q, x)[Len(q) + 1] = x
  OBVIOUS
<1>2. \A i \in 1 .. Len(q) + 1 : i \in 1 .. Len(q) \/ i = Len(q) + 1
  BY <1>1
<1> QED
  BY <1>1, <1>2

(* The runner takes a record of the job.                                   *)
LEMMA RecordContent ==
  ASSUME PipeTypes, Busy, NEW p \in Nat \ {0}, p < Len(JobLines),
         NEW line \in InputLines, line = JobLines[p + 1], TookRecord(line),
         Content(scenario, snapshot, p)
  PROVE  Content(scenario', snapshot, p + 1)
<1> DEFINE N == Len(JobLines)
           c == CountsAfter(snapshot, p)
           d == CountsAfter(snapshot, p + 1)
<1>1. /\ job \in 1 .. MaxJobs /\ snapshot \in Snapshots
      /\ SaysScenario(JobLines, job, snapshot)
      /\ N \in Nat
      /\ \A k \in 1 .. N : Place(JobLines, job, snapshot, k)
  BY OwnPlaces
<1>2. p + 1 \in 1 .. N /\ p + 1 # 1
  BY <1>1
<1>3. line.type \in RecordTypes
  BY DEF TookRecord
<1>4. p + 1 # N
  BY <1>2, <1>3, <1>1 DEF Place, RecordTypes, Command
<1>5. p \in 1 .. Len(Records(snapshot)) /\ line = Records(snapshot)[p]
  BY <1>1, <1>2, <1>4 DEF SaysScenario
<1>6. /\ line.type = "NODE" => line = NodeRecords(snapshot)[c[1] + 1]
      /\ line.type = "LINK" => line = LinkRecords(snapshot)[c[2] + 1]
      /\ line.type = "FLOW" => line = FlowRecords(snapshot)[c[3] + 1]
  BY <1>1, <1>5, NextRecord
<1>7. /\ d[1] = c[1] + (IF line.type = "NODE" THEN 1 ELSE 0)
      /\ d[2] = c[2] + (IF line.type = "LINK" THEN 1 ELSE 0)
      /\ d[3] = c[3] + (IF line.type = "FLOW" THEN 1 ELSE 0)
  BY <1>1, CountsStep DEF JobLines
<1>a. d = <<d[1], d[2], d[3]>>
  BY DEF CountsAfter
<1>b. c[1] = Len(scenario.nodes) /\ c[2] = Len(scenario.links) /\ c[3] = Len(scenario.flows)
  BY DEF Content, Counts
<1> HIDE DEF c, d, N
<1>8. Counts(scenario)' = d
  <2>1. /\ Len(scenario'.nodes) = d[1] /\ Len(scenario'.links) = d[2]
        /\ Len(scenario'.flows) = d[3]
    BY <1>7, <1>b DEF TookRecord
  <2> QED
    BY <1>a, <2>1 DEF Counts
<1>9. /\ scenario.nodes \in Seq(Data) /\ scenario.links \in Seq(Data)
      /\ scenario.flows \in Seq(Data) /\ line.value \in Data
  BY <1>3, InputFacts DEF PipeTypes, ProcTypeOK, Scenarios
<1>10. /\ \A i \in 1 .. Len(scenario.nodes) : scenario.nodes[i] = NodeRecords(snapshot)[i].value
       /\ \A i \in 1 .. Len(scenario.links) : scenario.links[i] = LinkRecords(snapshot)[i].value
       /\ \A i \in 1 .. Len(scenario.flows) : scenario.flows[i] = FlowRecords(snapshot)[i].value
  BY DEF Content
<1>c. Appended(line) /\ scenario'.expected = scenario.expected
  BY DEF TookRecord
<1>11. \A i \in 1 .. Len(scenario'.nodes) : scenario'.nodes[i] = NodeRecords(snapshot)[i].value
  <2>1. CASE line.type = "NODE"
    <3>1. scenario'.nodes = Append(scenario.nodes, line.value)
      BY <1>c, <2>1 DEF Appended
    <3>2. line.value = NodeRecords(snapshot)[Len(scenario.nodes) + 1].value
      BY <1>6, <1>b, <2>1
    <3> QED
      BY <1>9, <1>10, <3>1, <3>2, AppendContent
  <2>2. CASE line.type # "NODE"
    BY <1>10, <1>c, <2>2 DEF Appended
  <2> QED
    BY <2>1, <2>2
<1>12. \A i \in 1 .. Len(scenario'.links) : scenario'.links[i] = LinkRecords(snapshot)[i].value
  <2>1. CASE line.type = "LINK"
    <3>1. scenario'.links = Append(scenario.links, line.value)
      BY <1>c, <2>1 DEF Appended
    <3>2. line.value = LinkRecords(snapshot)[Len(scenario.links) + 1].value
      BY <1>6, <1>b, <2>1
    <3> QED
      BY <1>9, <1>10, <3>1, <3>2, AppendContent
  <2>2. CASE line.type # "LINK"
    BY <1>10, <1>c, <2>2 DEF Appended
  <2> QED
    BY <2>1, <2>2
<1>13. \A i \in 1 .. Len(scenario'.flows) : scenario'.flows[i] = FlowRecords(snapshot)[i].value
  <2>1. CASE line.type = "FLOW"
    <3>1. scenario'.flows = Append(scenario.flows, line.value)
      BY <1>c, <2>1 DEF Appended
    <3>2. line.value = FlowRecords(snapshot)[Len(scenario.flows) + 1].value
      BY <1>6, <1>b, <2>1
    <3> QED
      BY <1>9, <1>10, <3>1, <3>2, AppendContent
  <2>2. CASE line.type # "FLOW"
    BY <1>10, <1>c, <2>2 DEF Appended
  <2> QED
    BY <2>1, <2>2
<1>14. scenario'.expected = Expected(snapshot)
  BY <1>c DEF Content
<1> QED
  BY <1>8, <1>11, <1>12, <1>13, <1>14 DEF Content, d, Counts

(* The runner reads on: its scenario still says what compute has sent.     *)
LEMMA ReaderContent ==
  ASSUME PipeTypes, StreamInv, OwnContent, RunnerReads
  PROVE  OwnContent'
<1> DEFINE m == Len(In)
           N == Len(JobLines)
<1>1. /\ In # <<>> /\ In \in Seq(InputLines) /\ In' = Tail(In)
      /\ IF In[1].type = "QUIT"
         THEN scenario' = scenario
         ELSE Threw(In[1]) \/ TookName(In[1]) \/ TookRecord(In[1]) \/ CalculatedIt(In[1])
  BY ReaderTypes
<1>2. In[1] \in InputLines /\ m \in Nat \ {0} /\ Len(In') = m - 1
  BY <1>1, TailFacts
<1>3. /\ job' = job /\ JobLines' = JobLines /\ snapshot' = snapshot /\ (Busy' <=> Busy)
  BY DEF RunnerReads, callVars, history, JobLines, Busy
<1> SUFFICES ASSUME Busy, scenario'.id = job
             PROVE  Content(scenario', snapshot, N - (m - 1))
  <2> HIDE DEF m, N
  <2>1. Len(JobLines') - Len(In') = N - (m - 1)
    BY <1>2, <1>3 DEF N
  <2> QED
    BY <1>3, <2>1 DEF OwnContent
<1>4. /\ job \in 1 .. MaxJobs /\ snapshot \in Snapshots /\ N \in Nat
      /\ \A k \in 1 .. N : Place(JobLines, job, snapshot, k)
  BY OwnPlaces
<1>5. CASE TookName(In[1])
  <2>1. In[1].type = "SCENARIO" /\ In[1].value.id = job /\ scenario' = In[1].value
    BY <1>5 DEF TookName
  <2>2. m - 1 = N - 1
    BY <1>2, <2>1 DEF StreamInv, JobComesLast
  <2>3. m = N /\ N - m + 1 = 1
    BY <1>2, <1>4, <2>2
  <2>4. In[1] = JobLines[1] /\ 1 \in 1 .. N
    BY <1>1, <2>3, NextOwnLine
  <2>5. JobLines[1] = [type |-> "SCENARIO", odd |-> FALSE, value |-> Named(job, snapshot)]
    BY <1>4, <2>4 DEF Place
  <2>6. scenario' = Named(job, snapshot)
    BY <2>1, <2>4, <2>5
  <2>7. scenario'.expected = Expected(snapshot) /\ Counts(scenario') = <<0, 0, 0>>
    BY <1>4, <2>6, NamedFacts
  <2>8. Counts(scenario') = CountsAfter(snapshot, 1)
    BY <1>4, <2>7, CountsOfName
  <2>9. Len(scenario'.nodes) = 0 /\ Len(scenario'.links) = 0 /\ Len(scenario'.flows) = 0
    BY <2>7 DEF Counts
  <2>10. N - (m - 1) = 1
    BY <1>2, <1>4, <2>3
  <2> QED
    BY <2>7, <2>8, <2>9, <2>10 DEF Content
<1>6. CASE scenario.id = job /\ (TookRecord(In[1]) \/ CalculatedIt(In[1]) \/ In[1].type = "QUIT")
  <2> DEFINE p == N - m
  <2>1. m < N
    BY <1>6 DEF StreamInv, OwnScenario
  <2>2. m <= N
    BY <1>2, <1>4, <2>1
  <2>3. N - m + 1 \in 1 .. N /\ In[1] = JobLines[N - m + 1]
    BY <1>1, <2>2, NextOwnLine
  <2>4. Content(scenario, snapshot, p)
    BY <1>6 DEF OwnContent
  <2>5. p \in Nat \ {0} /\ p < N /\ N - (m - 1) = p + 1 /\ N - m + 1 = p + 1
    BY <1>2, <1>4, <2>1
  <2>6. In[1] = JobLines[p + 1] /\ p + 1 \in 1 .. N /\ p + 1 # 1
    BY <2>3, <2>5
  <2>7. Content(scenario', snapshot, p + 1)
    <3> HIDE DEF p
    <3>1. CASE TookRecord(In[1])
      BY <1>2, <2>4, <2>5, <2>6, <3>1, RecordContent
    <3>2. CASE CalculatedIt(In[1])
      <4>1. scenario' = scenario /\ In[1].type = "RUN"
        BY <3>2 DEF CalculatedIt
      <4>2. /\ CountsAfter(snapshot, p + 1)[1] = CountsAfter(snapshot, p)[1] + 0
            /\ CountsAfter(snapshot, p + 1)[2] = CountsAfter(snapshot, p)[2] + 0
            /\ CountsAfter(snapshot, p + 1)[3] = CountsAfter(snapshot, p)[3] + 0
        BY <1>4, <2>5, <2>6, <4>1, CountsStep DEF JobLines
      <4>3. /\ CountsAfter(snapshot, p)[1] = Len(scenario.nodes)
            /\ CountsAfter(snapshot, p)[2] = Len(scenario.links)
            /\ CountsAfter(snapshot, p)[3] = Len(scenario.flows)
        BY <2>4 DEF Content, Counts
      <4>4. /\ Len(scenario.nodes) \in Nat /\ Len(scenario.links) \in Nat
            /\ Len(scenario.flows) \in Nat
        BY DEF PipeTypes, ProcTypeOK, Scenarios
      <4>5. CountsAfter(snapshot, p + 1) = <<CountsAfter(snapshot, p + 1)[1],
                                             CountsAfter(snapshot, p + 1)[2],
                                             CountsAfter(snapshot, p + 1)[3]>>
        BY DEF CountsAfter
      <4>6. Counts(scenario) = CountsAfter(snapshot, p + 1)
        BY <4>2, <4>3, <4>4, <4>5 DEF Counts
      <4> QED
        BY <2>4, <4>1, <4>6 DEF Content
    <3>3. In[1].type # "QUIT"
      BY <1>4, <2>6 DEF Place, RecordTypes, Command
    <3> QED
      BY <1>6, <3>1, <3>2, <3>3
  <2> QED
    BY <2>5, <2>7
<1>7. ~ Threw(In[1])
  BY <1>4 DEF Threw, Blank
<1>8. TookRecord(In[1]) \/ CalculatedIt(In[1]) => scenario.id = job
  BY DEF TookRecord, CalculatedIt
<1> QED
  BY <1>1, <1>5, <1>6, <1>7, <1>8

(* The scenario of which the runner has every line describes the snapshot. *)
LEMMA CompleteContent ==
  ASSUME NEW s, NEW p, NEW sc, Content(sc, s, p), ValidateScenario(sc)
  PROVE  Describes(sc, s) /\ sc.expected[3] = Len(s.flows)
<1>1. Counts(sc) = Expected(s) /\ sc.expected = Expected(s)
  BY DEF Content, ValidateScenario
<1>2. /\ Len(sc.nodes) = Len(s.entities) /\ Len(sc.links) = Len(Links(s))
      /\ Len(sc.flows) = Len(s.flows) /\ sc.expected[3] = Len(s.flows)
  BY <1>1 DEF Counts, Expected
<1> QED
  BY <1>2 DEF Content, Describes

(* The results that the runner prints of the job agree with its topology.  *)
LEMMA PrintedAgrees ==
  ASSUME PipeTypes, OwnContent, Busy, scenario.id = job,
         NEW out, Calculated(out, scenario), NEW i \in 1 .. Len(snapshot.flows)
  PROVE  AgreesWithTopology(snapshot, i, out[i].values)
<1>1. snapshot \in Snapshots
  BY OwnPlaces
<1>2. IsSnapshot(snapshot)
  BY <1>1, SnapshotSizes
<1>3. Content(scenario, snapshot, Len(JobLines) - Len(In))
  BY DEF OwnContent
<1>4. CarriesOutcome(out, scenario)
  BY DEF Calculated
<1>5. Describes(scenario, snapshot) /\ scenario.expected[3] = Len(snapshot.flows)
  BY <1>3, <1>4, CompleteContent DEF CarriesOutcome
<1>6. PICK values \in Outcomes(scenario) :
        \A k \in 1 .. scenario.expected[3] : out[k].values = values[k]
  BY <1>4 DEF CarriesOutcome
<1>7. out[i].values = values[i]
  BY <1>5, <1>6
<1> QED
  BY <1>2, <1>5, <1>7, OutcomesAgree

(* No job is being calculated any more.                                    *)
LEMMA IdleTopology ==
  ASSUME ~ Busy'
  PROVE  TopologyInv'
BY DEF TopologyInv, OwnContent, OwnAnswersAgree, OwnMeasuresAgree

(* Nothing is read, measured or printed.                                   *)
LEMMA SettledTopology ==
  ASSUME TopologyInv, Busy' => Busy, In' = In, UNCHANGED <<scenario, job, snapshot, measured>>,
         \A k \in 1 .. Len(Out') : \E j \in 1 .. Len(Out) : Out'[k] = Out[j]
  PROVE  TopologyInv'
<1>1. JobLines' = JobLines
  BY DEF JobLines
<1>2. OwnContent'
  BY <1>1 DEF TopologyInv, OwnContent
<1>3. OwnAnswersAgree'
  <2> SUFFICES ASSUME Busy', NEW k \in 1 .. Len(Out'), Out'[k].type = "RESULT",
                      Out'[k].id = job', Out'[k].index \in 1 .. Len(snapshot'.flows)
               PROVE  AgreesWithTopology(snapshot', Out'[k].index, Out'[k].values)
    BY DEF OwnAnswersAgree
  <2>1. PICK j \in 1 .. Len(Out) : Out'[k] = Out[j]
    OBVIOUS
  <2> QED
    BY <2>1 DEF TopologyInv, OwnAnswersAgree
<1>4. \A i : OwnMeasure(i)' <=> OwnMeasure(i)
  BY DEF OwnMeasure
<1>5. OwnMeasuresAgree'
  BY <1>4 DEF TopologyInv, OwnMeasuresAgree
<1> QED
  BY <1>2, <1>3, <1>5 DEF TopologyInv

(* A new job: the runner has not read its name, and nothing that is on its *)
(* way or measured is its own.                                             *)
LEMMA StartTopology ==
  ASSUME PipeTypes, StreamInv, NEW s \in Snapshots, StartCompute(s)
  PROVE  TopologyInv'
<1>1. job' = job + 1 /\ job \in Nat /\ caller' = "writing"
  BY DEF StartCompute, PipeTypes, CallTypeOK
<1>2. PipeTypes' /\ AnswerInv'
  BY StartTypes, StartAnswers
<1>3. In' # <<>>
  <2>1. unsent' # <<>> /\ unsent' \in Seq(InputLines) /\ stdin' \in Seq(InputLines)
    BY <1>1, <1>2 DEF PipeTypes, ProcTypeOK, CallTypeOK
  <2>2. stdin' \o unsent' # <<>>
    BY <2>1
  <2> QED
    BY <2>2 DEF In
<1>4. Busy'
  BY <1>1 DEF Busy
<1>5. \A k \in 1 .. Len(Out') : ~ OwnAnswer(k)'
  BY <1>2, <1>3, <1>4 DEF AnswerInv, AnswersComeLast
<1>6. \A i : ~ OwnMeasure(i)'
  <2>1. \A i : OwnMeasure(i)' => i \in DOMAIN measured'
    BY DEF OwnMeasure
  <2> QED
    BY <1>2, <1>3, <1>4, <2>1 DEF AnswerInv, AnswersComeLast
<1>7. scenario'.id # job'
  <2>1. scenario.id <= job /\ scenario.id \in Nat
    BY DEF StreamInv, NothingFromTheFuture, PipeTypes, ProcTypeOK, Scenarios
  <2>2. scenario' = scenario \/ scenario' = Blank
    BY DEF StartCompute, EnsureProcess, procVars
  <2> QED
    BY <1>1, <2>1, <2>2 DEF Blank
<1>8. OwnContent'
  BY <1>7 DEF OwnContent
<1>9. OwnAnswersAgree'
  BY <1>5 DEF OwnAnswersAgree, OwnAnswer, Answers
<1>10. OwnMeasuresAgree'
  BY <1>6 DEF OwnMeasuresAgree
<1> QED
  BY <1>8, <1>9, <1>10 DEF TopologyInv

(* compute keeps what a RESULT says under the index of its flow.           *)
LEMMA ReadResultTopology ==
  ASSUME PipeTypes, TopologyInv, ReadResult
  PROVE  TopologyInv'
<1> DEFINE x == Out[1].index
<1>1. /\ \A i : OwnMeasure(i)' <=> \/ i = x /\ Out[1].id = job
                                   \/ i # x /\ OwnMeasure(i)
      /\ \A i \in DOMAIN measured' :
           measured'[i].values = IF i = x THEN Out[1].values ELSE measured[i].values
      /\ Out[1].type = "RESULT"
      /\ Out \in Seq(OutputLines) /\ Out # <<>>
      /\ Out' = Tail(Out) /\ In' = In
      /\ job' = job /\ snapshot' = snapshot /\ Busy /\ Busy'
  BY MeasureFacts
<1>2. scenario' = scenario /\ JobLines' = JobLines
  BY <1>1 DEF ReadResult, JobLines
<1>3. OwnContent'
  BY <1>1, <1>2 DEF TopologyInv, OwnContent
<1>4. /\ 1 \in 1 .. Len(Out)
      /\ \A k \in 1 .. Len(Out') : k + 1 \in 1 .. Len(Out) /\ Out'[k] = Out[k + 1]
  BY <1>1
<1>5. OwnAnswersAgree'
  <2> SUFFICES ASSUME NEW k \in 1 .. Len(Out'), Out'[k].type = "RESULT",
                      Out'[k].id = job', Out'[k].index \in 1 .. Len(snapshot'.flows)
               PROVE  AgreesWithTopology(snapshot', Out'[k].index, Out'[k].values)
    BY DEF OwnAnswersAgree
  <2>1. k + 1 \in 1 .. Len(Out) /\ Out'[k] = Out[k + 1]
    BY <1>4
  <2> QED
    BY <1>1, <2>1 DEF TopologyInv, OwnAnswersAgree
<1>6. OwnMeasuresAgree'
  <2> SUFFICES ASSUME NEW i \in 1 .. Len(snapshot'.flows), OwnMeasure(i)'
               PROVE  AgreesWithTopology(snapshot', i, measured'[i].values)
    BY DEF OwnMeasuresAgree
  <2>1. i \in DOMAIN measured'
    BY DEF OwnMeasure
  <2> HIDE DEF x
  <2>2. CASE i = x
    <3>1. Out[1].id = job /\ measured'[i].values = Out[1].values
      BY <1>1, <2>1, <2>2
    <3>2. Out[1].index = i
      BY <2>2 DEF x
    <3> QED
      BY <1>1, <1>4, <3>1, <3>2 DEF TopologyInv, OwnAnswersAgree
  <2>3. CASE i # x
    <3>1. OwnMeasure(i) /\ measured'[i].values = measured[i].values
      BY <1>1, <2>1, <2>3
    <3> QED
      BY <1>1, <3>1 DEF TopologyInv, OwnMeasuresAgree
  <2> QED
    BY <2>2, <2>3
<1> QED
  BY <1>3, <1>5, <1>6 DEF TopologyInv

(* The runner reads on: what it prints of the job is calculated from all   *)
(* that the snapshot says.                                                 *)
LEMMA ReaderTopology ==
  ASSUME PipeTypes, StreamInv, TopologyInv, RunnerReads, Busy
  PROVE  TopologyInv'
<1> DEFINE new == printing'
           f == scenario.expected[3]
<1>1. /\ Out \in Seq(OutputLines) /\ new \in Seq(OutputLines)
      /\ Out' = Out \o new
  BY ReaderTypes, SequenceTypes, PrintedFacts
<1>2. job' = job /\ snapshot' = snapshot /\ measured' = measured /\ Busy'
  BY DEF RunnerReads, callVars, history, Busy
<1>3. OwnContent'
  BY ReaderContent DEF TopologyInv
<1>4. \A i : OwnMeasure(i)' <=> OwnMeasure(i)
  BY <1>2 DEF OwnMeasure
<1>5. OwnMeasuresAgree'
  BY <1>2, <1>4 DEF TopologyInv, OwnMeasuresAgree
<1>6. OwnAnswersAgree'
  <2> SUFFICES ASSUME NEW k \in 1 .. Len(Out'), Out'[k].type = "RESULT",
                      Out'[k].id = job', Out'[k].index \in 1 .. Len(snapshot'.flows)
               PROVE  AgreesWithTopology(snapshot', Out'[k].index, Out'[k].values)
    BY DEF OwnAnswersAgree
  <2> HIDE DEF new, f
  <2>1. CASE k \in 1 .. Len(Out) /\ Out'[k] = Out[k]
    BY <1>2, <2>1 DEF TopologyInv, OwnAnswersAgree
  <2>2. ASSUME NEW i \in 1 .. Len(new), Out'[k] = new[i]
        PROVE  AgreesWithTopology(snapshot', Out'[k].index, Out'[k].values)
    <3>1. new[i].type = "RESULT" /\ new[i].id = job /\ new[i].index \in 1 .. Len(snapshot.flows)
      BY <1>2, <2>2
    <3>2. new # <<>>
      BY <2>2
    <3>3. new # <<ErrorLine>>
      BY <2>2, <3>1 DEF ErrorLine
    <3>4. Calculated(new, scenario)
      BY <3>2, <3>3, PrintedFacts DEF new
    <3>5. /\ f \in Nat /\ Len(new) = f + 1 /\ new[f + 1].type = "DONE"
          /\ \A j \in 1 .. f : new[j].id = scenario.id /\ new[j].index = j
      BY <3>4 DEF Calculated, DoneOf, f
    <3>6. i \in 1 .. f
      BY <2>2, <3>1, <3>5
    <3>7. scenario.id = job /\ new[i].index = i
      BY <3>1, <3>5, <3>6
    <3>8. AgreesWithTopology(snapshot, i, new[i].values)
      BY <3>1, <3>4, <3>7, PrintedAgrees DEF TopologyInv
    <3> QED
      BY <1>2, <2>2, <3>7, <3>8
  <2>3. \/ k \in 1 .. Len(Out) /\ Out'[k] = Out[k]
        \/ \E i \in 1 .. Len(new) : Out'[k] = new[i]
    <3>1. /\ Len(Out \o new) = Len(Out) + Len(new)
          /\ Len(Out) \in Nat /\ Len(new) \in Nat
          /\ \A j \in 1 .. Len(Out) : (Out \o new)[j] = Out[j]
          /\ \A j \in 1 .. Len(new) : (Out \o new)[Len(Out) + j] = new[j]
      BY <1>1
    <3>2. CASE k \in 1 .. Len(Out)
      BY <1>1, <3>1, <3>2
    <3>3. CASE k \notin 1 .. Len(Out)
      <4>1. k - Len(Out) \in 1 .. Len(new) /\ Len(Out) + (k - Len(Out)) = k
        BY <1>1, <3>1, <3>3
      <4> QED
        BY <1>1, <3>1, <4>1
    <3> QED
      BY <3>2, <3>3
  <2> QED
    BY <2>1, <2>2, <2>3
<1> QED
  BY <1>3, <1>5, <1>6 DEF TopologyInv

(* Every step keeps the job in agreement with its topology.                *)
LEMMA TopologyStep ==
  ASSUME PipeTypes, StreamInv, TopologyInv, Next
  PROVE  TopologyInv'
<1>1. ASSUME NEW s \in Snapshots, StartCompute(s) PROVE TopologyInv'
  BY <1>1, StartTopology
<1>2. CASE NoExecutable \/ WriteFails \/ ReadRaises \/ ReadDone \/ ReadEof \/ Close \/ CloseEnds
  <2>1. ~ Busy'
    BY <1>2 DEF NoExecutable, WriteFails, ReadRaises, ReadDone, ReadEof, Close, CloseEnds, Raise,
       Return, Busy, callVars
  <2> QED
    BY <2>1, IdleTopology
<1>3. CASE WriteLine
  <2>1. In' = In /\ Out' = Out
    BY <1>3, WriteTypes
  <2>2. UNCHANGED <<scenario, job, snapshot, measured>> /\ (Busy' => Busy)
    BY <1>3 DEF WriteLine, Busy
  <2> QED
    BY <2>1, <2>2, SettledTopology
<1>4. CASE ReadResult
  BY <1>4, ReadResultTopology
<1>5. CASE RunnerReads
  <2>1. CASE Busy
    BY <1>5, <2>1, ReaderTopology
  <2>2. CASE ~ Busy
    <3>1. ~ Busy'
      BY <1>5, <2>2 DEF RunnerReads, callVars, Busy
    <3> QED
      BY <3>1, IdleTopology
  <2> QED
    BY <2>1, <2>2
<1>6. CASE RunnerPrints
  <2>1. In' = In /\ Out' = Out
    BY <1>6, PrinterTypes
  <2>2. UNCHANGED <<scenario, job, snapshot, measured>> /\ (Busy' => Busy)
    BY <1>6 DEF RunnerPrints, callVars, history, Busy
  <2> QED
    BY <2>1, <2>2, SettledTopology
<1>7. CASE Crash
  <2>1. In' = In /\ Out' = stdout
    BY <1>7, CrashTypes
  <2>2. UNCHANGED <<scenario, job, snapshot, measured>> /\ (Busy' => Busy)
    BY <1>7 DEF Crash, callVars, Busy
  <2>3. stdout \in Seq(OutputLines) /\ printing \in Seq(OutputLines)
    BY DEF PipeTypes, ProcTypeOK
  <2>4. \A k \in 1 .. Len(stdout) : k \in 1 .. Len(Out) /\ stdout[k] = Out[k]
    BY <2>3 DEF Out
  <2>5. \A k \in 1 .. Len(Out') : \E j \in 1 .. Len(Out) : Out'[k] = Out[j]
    BY <2>1, <2>4
  <2> QED
    BY <2>1, <2>2, <2>5, SettledTopology
<1> QED
  BY <1>1, <1>2, <1>3, <1>4, <1>5, <1>6, <1>7 DEF Next

(* compute returns what it has read, which agrees with the topology.       *)
LEMMA ReturnsAgreeing ==
  ASSUME PipeTypes, AnswerInv, TopologyInv, ReadDone
  PROVE  ReturnedAgrees'
<1>1. /\ Out \in Seq(OutputLines) /\ Out # <<>>
      /\ Out[1].type = "DONE" /\ Out[1].id = job /\ Busy
  BY ReadTypes DEF ReadDone, ReadEof, Busy
<1>2. 1 \in 1 .. Len(Out)
  BY <1>1
<1>3. \A i \in 1 .. Len(snapshot.flows) : OwnMeasure(i)
  BY <1>1, <1>2 DEF AnswerInv, DoneCompletes
<1>4. \A i \in 1 .. Len(snapshot.flows) : AgreesWithTopology(snapshot, i, measured[i].values)
  BY <1>1, <1>3 DEF TopologyInv, OwnMeasuresAgree
<1>5. snapshot' = snapshot /\ outcome'.ok /\ outcome'.metrics = MetricsOf(snapshot)
  BY DEF ReadDone, Return
<1>6. snapshot \in Snapshots
  BY <1>1 DEF PipeTypes, CallTypeOK
<1>7. Len(snapshot.flows) \in Nat
  BY <1>6, SnapshotSizes
<1>8. /\ Len(MetricsOf(snapshot)) = Len(snapshot.flows)
      /\ \A i \in 1 .. Len(snapshot.flows) :
           i \in DOMAIN measured => MetricsOf(snapshot)[i] = measured[i]
  BY <1>7 DEF MetricsOf
<1>9. \A i \in 1 .. Len(snapshot.flows) : MetricsOf(snapshot)[i] = measured[i]
  BY <1>3, <1>8 DEF OwnMeasure
<1> QED
  BY <1>4, <1>5, <1>6, <1>8, <1>9 DEF ReturnedAgrees

(* The inductive invariant: what is on its way and what is returned.       *)
ComputeInv == PipeTypes /\ StreamInv /\ AnswerInv /\ TopologyInv /\ ReturnedAgrees

(* What compute returns agrees with the topology of its snapshot: the      *)
(* runner calculates a job only from a scenario that holds all the records *)
(* of its snapshot.                                                        *)
LEMMA ComputesAgreeing == Spec => []ReturnedAgrees
<1>1. Init => ComputeInv
  <2> SUFFICES ASSUME Init PROVE ComputeInv
    OBVIOUS
  <2>1. PipeTypes
    BY TypesInitially
  <2>2. ~ Busy /\ scenario.id = 0 /\ job = 0 /\ ~ outcome.ok /\ outcome.metrics = <<>>
    BY DEF Init, Busy, Blank, NoOutcome
  <2>3. In = <<>> /\ Out = <<>>
    BY DEF Init, In, Out
  <2>4. StreamInv
    BY <2>2, <2>3 DEF StreamInv, NothingFromTheFuture, JobComesLast, OwnScenario
  <2>5. AnswerInv
    BY <2>2 DEF AnswerInv, AnswersComeLast, OwnResultsOnly, DoneCompletes
  <2>6. TopologyInv
    BY <2>2 DEF TopologyInv, OwnContent, OwnAnswersAgree, OwnMeasuresAgree
  <2> QED
    BY <2>1, <2>2, <2>4, <2>5, <2>6 DEF ComputeInv, ReturnedAgrees
<1>2. ComputeInv /\ [Next]_vars => ComputeInv'
  <2> SUFFICES ASSUME ComputeInv, [Next]_vars PROVE ComputeInv'
    OBVIOUS
  <2>1. PipeTypes /\ StreamInv /\ AnswerInv /\ TopologyInv /\ ReturnedAgrees
    BY DEF ComputeInv
  <2>2. PipeTypes'
    BY <2>1, TypesInductive
  <2>3. CASE UNCHANGED vars
    <3>1. In' = In /\ Out' = Out /\ Busy' = Busy
      BY <2>3 DEF vars, procVars, callVars, history, In, Out, Busy
    <3>2. UNCHANGED <<scenario, job, snapshot, measured, outcome>>
      BY <2>3 DEF vars, procVars, callVars, history
    <3>3. StreamInv'
      BY <2>1, <3>1, <3>2, SettledStream
    <3>4. AnswerInv'
      <4>1. Len(Out) \in Nat /\ Len(Out) <= Len(Out)
        BY <2>1, SequenceTypes
      <4> QED
        BY <2>1, <3>1, <3>2, <4>1, SettledAnswers
    <3>5. TopologyInv'
      BY <2>1, <3>1, <3>2, SettledTopology
    <3>6. ReturnedAgrees'
      BY <2>1, <3>2 DEF ReturnedAgrees
    <3> QED
      BY <2>2, <3>3, <3>4, <3>5, <3>6 DEF ComputeInv
  <2>4. CASE Next
    <3>1. StreamInv' /\ AnswerInv' /\ TopologyInv'
      BY <2>1, <2>4, StreamStep, AnswerStep, TopologyStep
    <3>2. ReturnedAgrees'
      <4>1. CASE ReadDone
        BY <2>1, <4>1, ReturnsAgreeing
      <4>2. CASE UNCHANGED <<outcome, snapshot>>
        BY <2>1, <4>2 DEF ReturnedAgrees
      <4>3. CASE ~ outcome'.ok /\ outcome'.metrics = <<>>
        BY <4>3 DEF ReturnedAgrees
      <4>4. \/ ReadDone
            \/ UNCHANGED <<outcome, snapshot>>
            \/ ~ outcome'.ok /\ outcome'.metrics = <<>>
        <5>1. ASSUME NEW s \in Snapshots, StartCompute(s)
              PROVE  ~ outcome'.ok /\ outcome'.metrics = <<>>
          BY <5>1 DEF StartCompute, NoOutcome
        <5>2. NoExecutable => ~ outcome'.ok /\ outcome'.metrics = <<>>
          BY DEF NoExecutable, NoOutcome
        <5>3. WriteFails \/ ReadRaises \/ ReadEof => ~ outcome'.ok /\ outcome'.metrics = <<>>
          BY DEF WriteFails, ReadRaises, ReadEof, Raise
        <5>4. WriteLine \/ ReadResult \/ Close \/ CloseEnds \/ RunnerReads \/ RunnerPrints \/ Crash
                => UNCHANGED <<outcome, snapshot>>
          BY DEF WriteLine, ReadResult, Close, CloseEnds, RunnerReads, RunnerPrints, Crash, history
        <5> QED
          BY <2>4, <5>1, <5>2, <5>3, <5>4 DEF Next
      <4> QED
        BY <4>1, <4>2, <4>3, <4>4
    <3> QED
      BY <2>2, <3>1, <3>2 DEF ComputeInv
  <2> QED
    BY <2>3, <2>4
<1>3. ComputeInv => ReturnedAgrees
  BY DEF ComputeInv
<1> QED
  BY <1>1, <1>2, <1>3, PTL DEF Spec

(* A returned calculation is of a snapshot, with a metric for each flow.   *)
LEMMA ReturnedFacts ==
  ASSUME ReturnedAgrees, outcome.ok
  PROVE  /\ snapshot \in Snapshots /\ IsSnapshot(snapshot)
         /\ Len(Values) = Len(snapshot.flows)
         /\ Agree(snapshot, Values)
<1>1. /\ snapshot \in Snapshots
      /\ Len(outcome.metrics) = Len(snapshot.flows)
      /\ \A i \in 1 .. Len(snapshot.flows) :
           AgreesWithTopology(snapshot, i, outcome.metrics[i].values)
  BY DEF ReturnedAgrees
<1>2. IsSnapshot(snapshot) /\ Len(snapshot.flows) \in Nat
  BY <1>1, SnapshotSizes
<1>3. /\ Len(Values) = Len(snapshot.flows)
      /\ \A i \in 1 .. Len(snapshot.flows) : Values[i] = outcome.metrics[i].values
  BY <1>1, <1>2 DEF Values
<1> QED
  BY <1>1, <1>2, <1>3 DEF Agree

(* A flow is reported as connected exactly if it is active and living      *)
(* entities with devices that are up join its ends, however many of them   *)
(* there are and whatever calculations came before: the search of          *)
(* RunScenario, over the links of the records that engine.py writes, finds *)
(* what the topology joins, and nothing of another flow arrives.           *)
THEOREM ConnectedAlwaysByTopology == Spec => []ConnectedByTopology
<1>1. ReturnedAgrees => ConnectedByTopology
  <2> SUFFICES ASSUME ReturnedAgrees PROVE ConnectedByTopology
    OBVIOUS
  <2>1. CASE outcome.ok
    <3> SUFFICES ASSUME NEW i \in 1 .. Len(Values)
                 PROVE  LET flow == snapshot.flows[i]
                        IN  /\ Values[i].connected
                                 <=> flow.active /\ Joined(snapshot, flow.source, flow.target)
                            /\ Values[i].quality # "lost" => Values[i].connected
      BY DEF ConnectedByTopology
    <3>1. AgreesWithTopology(snapshot, i, Values[i])
      BY <2>1, ReturnedFacts DEF Agree
    <3> QED
      BY <3>1 DEF AgreesWithTopology
  <2>2. CASE ~ outcome.ok
    <3>1. Len(Values) = 0
      BY <2>2 DEF ReturnedAgrees, Values
    <3> QED
      BY <3>1 DEF ConnectedByTopology
  <2> QED
    BY <2>1, <2>2
<1> QED
  BY <1>1, ComputesAgreeing, PTL

(* The readers of one result agree: an effect that the service does not    *)
(* report as blocked stands for a direction that AFSIM's message gate has  *)
(* as connected, and for two ends that the views show as connected.  For a *)
(* flow of an entity to itself that would not hold: it is connected while  *)
(* no device of its entity is up.                                          *)
THEOREM ReadersAlwaysAgree == Spec => []ReadersAgree
<1>1. ReturnedAgrees => ReadersAgree
  <2> SUFFICES ASSUME ReturnedAgrees, outcome.ok,
                      NEW i \in 1 .. Len(snapshot.entities),
                      NEW j \in 1 .. Len(snapshot.entities[i].policies),
                      Effect(snapshot, Values, snapshot.entities[i].id,
                             snapshot.entities[i].policies[j]) # "BLOCKED"
               PROVE  /\ Profile(snapshot, Values, snapshot.entities[i].id,
                                 snapshot.entities[i].policies[j].peer).connected
                      /\ NodeConnected(snapshot, snapshot.entities[i].id)
                      /\ NodeConnected(snapshot, snapshot.entities[i].policies[j].peer)
    BY DEF ReadersAgree
  <2>1. /\ snapshot \in Snapshots /\ IsSnapshot(snapshot)
        /\ Agree(snapshot, Values)
    BY ReturnedFacts
  <2>2. \A k \in 1 .. Len(snapshot.flows) : snapshot.flows[k].source # snapshot.flows[k].target
    BY <2>1, FlowsLeaveTheirSource
  <2> QED
    BY <2>1, <2>2, EffectReaders
<1> QED
  BY <1>1, ComputesAgreeing, PTL

(* Where the service reports an effect as available, AFSIM can deliver     *)
(* messages in its direction exactly if the last device for the peer does  *)
(* not lose all of them: over relays alone every message is dropped.       *)
THEOREM AvailableAlwaysDeliverable == Spec => []AvailableIsDeliverable
<1>1. ReturnedAgrees => AvailableIsDeliverable
  <2> SUFFICES ASSUME ReturnedAgrees, outcome.ok PROVE AvailableIsDeliverable
    BY DEF AvailableIsDeliverable
  <2>1. IsSnapshot(snapshot)
    BY ReturnedFacts
  <2>2. ASSUME NEW i \in 1 .. Len(snapshot.entities),
               NEW j \in 1 .. Len(snapshot.entities[i].policies),
               Effect(snapshot, Values, snapshot.entities[i].id,
                      snapshot.entities[i].policies[j]) = "AVAILABLE"
        PROVE  DeviceDecides(snapshot, Values, i, j)
    BY <2>1, <2>2, DeliverableFacts
  <2> QED
    BY <2>2 DEF AvailableIsDeliverable, DeviceDecides
<1> QED
  BY <1>1, ComputesAgreeing, PTL

=============================================================================
