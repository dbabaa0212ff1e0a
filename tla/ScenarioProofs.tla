--------------------------- MODULE ScenarioProofs ---------------------------
(***************************************************************************)
(* Proofs about Scenario, for every snapshot: the search for a path visits *)
(* exactly the nodes that its source is joined to, the links are those of  *)
(* the devices in their order, and the readers of a result agree with the  *)
(* devices and with each other.                                            *)
(***************************************************************************)
EXTENDS Scenario, CommonFacts, FiniteSetTheorems

-----------------------------------------------------------------------------
(* The search for a path.                                                  *)

(* The links of a scenario lead between its nodes, as ValidateScenario     *)
(* makes sure.                                                             *)
WellLinked(sc) ==
  /\ Len(sc.nodes) \in Nat
  /\ \A i \in 1 .. Len(sc.links) : /\ sc.links[i].source \in 1 .. Len(sc.nodes)
                                   /\ sc.links[i].target \in 1 .. Len(sc.nodes)

Nodes(sc) == 1 .. Len(sc.nodes)
Stages(sc) == [visited : SUBSET Nodes(sc), pending : SUBSET Nodes(sc)]
Start(source) == [visited |-> {source}, pending |-> {source}]

(* Neighbours are nodes.                                                   *)
LEMMA NeighboursFacts ==
  ASSUME NEW sc, WellLinked(sc), NEW n
  PROVE  Neighbours(sc, n) \subseteq Nodes(sc)
BY DEF WellLinked, Neighbours, Nodes

(* One turn of the search: a pending node is expanded, if there is one.    *)
LEMMA ExpandFacts ==
  ASSUME NEW sc, WellLinked(sc), NEW b \in Stages(sc)
  PROVE  /\ Expand(sc, b) \in Stages(sc)
         /\ b.pending = {} => Expand(sc, b) = b
         /\ b.pending # {} =>
              \E n \in b.pending :
                /\ Expand(sc, b).visited = b.visited \cup Neighbours(sc, n)
                /\ Expand(sc, b).pending
                     = (b.pending \ {n}) \cup (Neighbours(sc, n) \ b.visited)
<1>1. CASE b.pending = {}
  BY <1>1 DEF Expand
<1>2. CASE b.pending # {}
  <2> DEFINE n == CHOOSE x \in b.pending : TRUE
             found == Neighbours(sc, n) \ b.visited
  <2>1. n \in b.pending
    BY <1>2
  <2>2. Expand(sc, b) = [visited |-> b.visited \cup found,
                         pending |-> (b.pending \ {n}) \cup found]
    BY <1>2 DEF Expand
  <2>3. found \subseteq Nodes(sc) /\ b.visited \cup found = b.visited \cup Neighbours(sc, n)
    BY NeighboursFacts
  <2> HIDE DEF n
  <2>4. b.visited \subseteq Nodes(sc) /\ b.pending \subseteq Nodes(sc)
    BY DEF Stages
  <2>5. Expand(sc, b) \in Stages(sc)
    <3> HIDE DEF found
    <3> QED
      BY <2>2, <2>3, <2>4 DEF Stages
  <2> QED
    BY <1>2, <2>1, <2>2, <2>3, <2>5
<1> QED
  BY <1>1, <1>2

(* The turns are what their definition says.                               *)
LEMMA TurnsFacts ==
  ASSUME NEW sc, WellLinked(sc), NEW source \in Nodes(sc)
  PROVE  /\ Turns(sc, source)[0] = Start(source)
         /\ \A k \in 1 .. Len(sc.nodes) :
              Turns(sc, source)[k] = Expand(sc, Turns(sc, source)[k - 1])
<1> DEFINE N == Len(sc.nodes)
           IsTurns(f) == f = [k \in 0 .. N |-> IF k = 0
                                               THEN [visited |-> {source}, pending |-> {source}]
                                               ELSE Expand(sc, f[k - 1])]
<1>1. N \in Nat
  BY DEF WellLinked
<1>2. \E f : IsTurns(f)
  <2> DEFINE F == [x \in (1 .. N) \X Stages(sc) |-> Expand(sc, x[2])]
  <2>1. F \in [(1 .. N) \X Stages(sc) -> Stages(sc)]
    BY ExpandFacts
  <2>2. Start(source) \in Stages(sc)
    BY DEF Start, Stages
  <2>3. \A k \in 1 .. N, b \in Stages(sc) : F[<<k, b>>] = Expand(sc, b)
    OBVIOUS
  <2> HIDE DEF F, N
  <2>a. IsSuccession(F, N, Stages(sc))
    BY <2>1 DEF IsSuccession
  <2>b. PICK f : Iterates(f, Start(source), N, F, Stages(sc))
    BY <1>1, <2>2, <2>a, IterationExists
  <2>4. /\ f \in [0 .. N -> Stages(sc)] /\ f[0] = Start(source)
        /\ \A k \in 1 .. N : f[k] = F[<<k, f[k - 1]>>]
    BY <2>b DEF Iterates
  <2>5. ASSUME NEW k \in 1 .. N PROVE f[k] = Expand(sc, f[k - 1])
    <3>1. k - 1 \in 0 .. N
      BY <1>1
    <3>2. f[k - 1] \in Stages(sc)
      BY <2>4, <3>1
    <3>3. F[<<k, f[k - 1]>>] = Expand(sc, f[k - 1])
      BY <2>3, <3>2
    <3> QED
      BY <2>4, <3>3
  <2>6. IsTurns(f)
    <3>1. \A k \in 0 .. N : k = 0 \/ k \in 1 .. N
      BY <1>1
    <3> QED
      BY <2>4, <2>5, <3>1 DEF Start
  <2> QED
    BY <2>6
<1>3. Turns(sc, source) = CHOOSE f : IsTurns(f)
  BY DEF Turns
<1>4. IsTurns(Turns(sc, source))
  <2> HIDE DEF IsTurns
  <2> QED
    BY <1>2, <1>3
<1> HIDE DEF N
<1>5. ASSUME NEW k \in 1 .. N
      PROVE  Turns(sc, source)[k] = Expand(sc, Turns(sc, source)[k - 1])
  <2>1. k \in 0 .. N /\ k # 0
    BY <1>1
  <2> QED
    BY <1>4, <2>1, Zenon
<1>6. Turns(sc, source)[0] = Start(source)
  BY <1>1, <1>4 DEF Start
<1> QED
  BY <1>5, <1>6 DEF N

(* A set of nodes that no built link leaves.                               *)
ClosedUnderLinks(sc, C) == \A n \in C : Neighbours(sc, n) \subseteq C

(* After k turns: what is expanded, and is not pending any more, has its   *)
(* neighbours visited; nothing is visited that has not to be; and there    *)
(* are k expanded nodes as long as one is pending.                         *)
Expanded(b) == b.visited \ b.pending
InTurn(sc, source, b, k) ==
  /\ b \in Stages(sc)
  /\ b.pending \subseteq b.visited
  /\ source \in b.visited
  /\ \A n \in Expanded(b) : Neighbours(sc, n) \subseteq b.visited
  /\ \A C : source \in C /\ ClosedUnderLinks(sc, C) => b.visited \subseteq C
  /\ b.pending = {} \/ Cardinality(Expanded(b)) = k

(* The search starts in turn, and each turn leads to the next.             *)
LEMMA TurnStep ==
  ASSUME NEW sc, WellLinked(sc), NEW source, NEW b, NEW k \in Nat, InTurn(sc, source, b, k)
  PROVE  InTurn(sc, source, Expand(sc, b), k + 1)
<1> DEFINE c == Expand(sc, b)
<1> SUFFICES InTurn(sc, source, c, k + 1)
  OBVIOUS
<1>0. b \in Stages(sc) /\ b.visited \subseteq Nodes(sc) /\ b.pending \subseteq b.visited
  BY DEF InTurn, Stages
<1>1. c \in Stages(sc) /\ (b.pending = {} => c = b)
  BY <1>0, ExpandFacts
<1>2. CASE b.pending = {}
  BY <1>1, <1>2 DEF InTurn
<1>3. CASE b.pending # {}
  <2>1. PICK n \in b.pending :
           /\ c.visited = b.visited \cup Neighbours(sc, n)
           /\ c.pending = (b.pending \ {n}) \cup (Neighbours(sc, n) \ b.visited)
    BY <1>0, <1>3, ExpandFacts
  <2> HIDE DEF c
  <2>2. c.pending \subseteq c.visited /\ source \in c.visited
    BY <1>0, <2>1 DEF InTurn
  <2>3. Expanded(c) = Expanded(b) \cup {n} /\ n \notin Expanded(b)
    BY <1>0, <2>1 DEF Expanded
  <2>4. ASSUME NEW m \in Expanded(c) PROVE Neighbours(sc, m) \subseteq c.visited
    BY <2>1, <2>3 DEF InTurn
  <2>5. ASSUME NEW C, source \in C, ClosedUnderLinks(sc, C) PROVE c.visited \subseteq C
    <3>1. b.visited \subseteq C
      BY <2>5 DEF InTurn
    <3>2. Neighbours(sc, n) \subseteq C
      BY <1>0, <2>5, <3>1 DEF ClosedUnderLinks
    <3> QED
      BY <2>1, <3>1, <3>2
  <2>6. Cardinality(Expanded(c)) = k + 1
    <3>1. IsFiniteSet(Nodes(sc))
      BY FS_Interval DEF WellLinked, Nodes
    <3>2. Expanded(b) \subseteq Nodes(sc)
      BY <1>0 DEF Expanded
    <3>3. IsFiniteSet(Expanded(b))
      BY <3>1, <3>2, FS_Subset
    <3>4. Cardinality(Expanded(b)) = k
      BY <1>3 DEF InTurn
    <3> QED
      BY <2>3, <3>3, <3>4, FS_AddElement
  <2> QED
    BY <1>1, <2>2, <2>4, <2>5, <2>6 DEF InTurn
<1> QED
  BY <1>2, <1>3

(* Every turn of the search is in turn.                                    *)
LEMMA AllInTurn ==
  ASSUME NEW sc, WellLinked(sc), NEW source \in Nodes(sc)
  PROVE  InTurn(sc, source, Turns(sc, source)[Len(sc.nodes)], Len(sc.nodes))
<1> DEFINE N == Len(sc.nodes)
           turn == Turns(sc, source)
           S == {k \in Nat : k <= N => InTurn(sc, source, turn[k], k)}
<1>1. N \in Nat
  BY DEF WellLinked
<1>2. turn[0] = Start(source) /\ \A k \in 1 .. N : turn[k] = Expand(sc, turn[k - 1])
  BY TurnsFacts
<1> HIDE DEF turn, N
<1>3. InTurn(sc, source, turn[0], 0)
  <2>1. Expanded(Start(source)) = {}
    BY DEF Expanded, Start
  <2>2. Cardinality(Expanded(Start(source))) = 0
    BY <2>1, FS_EmptySet
  <2> QED
    BY <1>2, <2>1, <2>2 DEF InTurn, Start, Stages
<1>4. ASSUME NEW k \in Nat, k \in S PROVE k + 1 \in S
  <2> SUFFICES ASSUME k + 1 <= N PROVE InTurn(sc, source, turn[k + 1], k + 1)
    OBVIOUS
  <2>1. InTurn(sc, source, turn[k], k)
    BY <1>1, <1>4
  <2>2. k + 1 \in 1 .. N /\ (k + 1) - 1 = k
    BY <1>1
  <2>3. turn[k + 1] = Expand(sc, turn[k])
    BY <1>2, <2>2
  <2> QED
    BY <2>1, <2>3, TurnStep
<1>5. 0 \in S
  BY <1>3
<1>6. \A k \in Nat : k \in S
  <2> HIDE DEF S
  <2> QED
    BY <1>4, <1>5, SetInduction
<1>7. InTurn(sc, source, turn[N], N)
  BY <1>1, <1>6
<1> QED
  BY <1>7 DEF turn, N

(* HasActivePath's search ends within as many turns as there are nodes,    *)
(* and what it has visited then is the least set of nodes that has its     *)
(* source and that no built link leaves.                                   *)
THEOREM SearchIsExact ==
  ASSUME NEW sc, WellLinked(sc), NEW source \in Nodes(sc)
  PROVE  /\ source \in Search(sc, source)
         /\ Search(sc, source) \subseteq Nodes(sc)
         /\ ClosedUnderLinks(sc, Search(sc, source))
         /\ \A C : source \in C /\ ClosedUnderLinks(sc, C) => Search(sc, source) \subseteq C
<1> DEFINE N == Len(sc.nodes)
           b == Turns(sc, source)[N]
<1>1. InTurn(sc, source, b, N)
  BY AllInTurn
<1>2. Search(sc, source) = b.visited
  BY DEF Search
<1> HIDE DEF b
<1>3. b.pending = {}
  <2> SUFFICES ASSUME b.pending # {} PROVE FALSE
    OBVIOUS
  <2>1. Cardinality(Expanded(b)) = N /\ N \in Nat
    BY <1>1 DEF InTurn, WellLinked
  <2>2. b.visited \subseteq Nodes(sc) /\ b.pending \subseteq Nodes(sc)
    BY <1>1 DEF InTurn, Stages
  <2>3. IsFiniteSet(Nodes(sc)) /\ Cardinality(Nodes(sc)) = N
    <3>1. 1 \in Int /\ N \in Int /\ (IF 1 > N THEN 0 ELSE N - 1 + 1) = N
      BY <2>1
    <3> HIDE DEF N
    <3>2. IsFiniteSet(1 .. N) /\ Cardinality(1 .. N) = N
      BY <3>1, FS_Interval
    <3> QED
      BY <3>2 DEF Nodes, N
  <2>4. Expanded(b) \subseteq Nodes(sc)
    BY <2>2 DEF Expanded
  <2>5. Expanded(b) = Nodes(sc)
    BY <2>1, <2>3, <2>4, FS_Subset
  <2> QED
    BY <2>2, <2>5 DEF Expanded
<1>4. ClosedUnderLinks(sc, b.visited)
  BY <1>1, <1>3 DEF InTurn, Expanded, ClosedUnderLinks
<1> QED
  BY <1>1, <1>2, <1>4 DEF InTurn, Stages

-----------------------------------------------------------------------------
(* The links.                                                              *)

(* The elements of L are those of the sequences in seqs, in their order:   *)
(* before those of the i-th come before[i] elements.                       *)
Joins(L, seqs, before) ==
  /\ \A k \in 1 .. Len(L) :
       \E i \in 1 .. Len(seqs) : \E j \in 1 .. Len(seqs[i]) : k = before[i] + j
  /\ \A i \in 1 .. Len(seqs) : \A j \in 1 .. Len(seqs[i]) :
       before[i] + j \in 1 .. Len(L) /\ L[before[i] + j] = seqs[i][j]

(* What is joined by the first n of some sequences, and the next.          *)
JoinsFirst(L, seqs, before, n) ==
  /\ \A k \in 1 .. Len(L) :
       \E i \in 1 .. n : \E j \in 1 .. Len(seqs[i]) : k = before[i] + j
  /\ \A i \in 1 .. n : \A j \in 1 .. Len(seqs[i]) :
       before[i] + j \in 1 .. Len(L) /\ L[before[i] + j] = seqs[i][j]

(* One more sequence is put behind what is joined already.                 *)
LEMMA JoinStep ==
  ASSUME NEW T, NEW seqs, NEW n \in Nat, NEW before \in [1 .. n + 1 -> Nat],
         NEW L \in Seq(T), seqs[n + 1] \in Seq(T), \A i \in 1 .. n : Len(seqs[i]) \in Nat,
         JoinsFirst(L, seqs, before, n), before[n + 1] = Len(L)
  PROVE  JoinsFirst(L \o seqs[n + 1], seqs, before, n + 1)
<1> DEFINE s == seqs[n + 1]
           M == L \o s
<1>1. /\ Len(M) = Len(L) + Len(s) /\ Len(L) \in Nat /\ Len(s) \in Nat
      /\ \A k \in 1 .. Len(L) : M[k] = L[k]
      /\ \A k \in 1 .. Len(s) : M[Len(L) + k] = s[k]
  <2>1. s \in Seq(T)
    OBVIOUS
  <2> HIDE DEF s
  <2> QED
    BY <2>1
<1> HIDE DEF M
<1>2. ASSUME NEW k \in 1 .. Len(M)
      PROVE  \E i \in 1 .. n + 1 : \E j \in 1 .. Len(seqs[i]) : k = before[i] + j
  <2>1. CASE k \in 1 .. Len(L)
    <3>1. PICK i \in 1 .. n : \E j \in 1 .. Len(seqs[i]) : k = before[i] + j
      BY <2>1 DEF JoinsFirst
    <3>2. i \in 1 .. n + 1
      OBVIOUS
    <3> QED
      BY <3>1, <3>2
  <2>2. CASE k \notin 1 .. Len(L)
    <3>1. k - Len(L) \in 1 .. Len(s) /\ k = before[n + 1] + (k - Len(L)) /\ n + 1 \in 1 .. n + 1
      BY <1>1, <2>2
    <3> QED
      BY <3>1
  <2> QED
    BY <2>1, <2>2
<1>3. ASSUME NEW i \in 1 .. n + 1, NEW j \in 1 .. Len(seqs[i])
      PROVE  before[i] + j \in 1 .. Len(M) /\ M[before[i] + j] = seqs[i][j]
  <2>1. CASE i = n + 1
    <3>1. j \in 1 .. Len(s) /\ before[i] + j = Len(L) + j
      BY <2>1
    <3>2. Len(L) + j \in 1 .. Len(M) /\ M[Len(L) + j] = s[j]
      BY SMTT(30), <1>1, <3>1
    <3> QED
      BY <2>1, <3>1, <3>2
  <2>2. CASE i # n + 1
    <3>1. i \in 1 .. n
      BY <2>2
    <3>2. before[i] + j \in 1 .. Len(L) /\ L[before[i] + j] = seqs[i][j]
      BY <3>1 DEF JoinsFirst
    <3>3. before[i] + j \in 1 .. Len(M)
      BY SMTT(30), <1>1, <3>2
    <3> QED
      BY <1>1, <3>2, <3>3
  <2> QED
    BY <2>1, <2>2
<1>4. JoinsFirst(M, seqs, before, n + 1)
  BY <1>2, <1>3 DEF JoinsFirst
<1> QED
  BY <1>4 DEF M

(* FlattenSeq joins sequences.                                             *)
LEMMA FlattenFacts ==
  ASSUME NEW T, NEW seqs \in Seq(Seq(T))
  PROVE  /\ FlattenSeq(seqs) \in Seq(T)
         /\ \E before \in [1 .. Len(seqs) -> Nat] : Joins(FlattenSeq(seqs), seqs, before)
<1> DEFINE N == Len(seqs)
           IsFlatten(f) == f = [i \in 1 .. N |-> IF i = 1 THEN seqs[i] ELSE f[i - 1] \o seqs[i]]
           F == [x \in (1 .. N) \X Seq(T) |-> x[2] \o seqs[x[1]]]
<1>1. N \in Nat /\ \A i \in 1 .. N : seqs[i] \in Seq(T)
  OBVIOUS
<1>2. CASE N = 0
  <2>1. FlattenSeq(seqs) = seqs /\ seqs = <<>>
    BY <1>2 DEF FlattenSeq
  <2>2. <<>> \in Seq(T) /\ Len(<<>>) = 0
    OBVIOUS
  <2> DEFINE before == [i \in 1 .. 0 |-> 0]
  <2>3. before \in [1 .. 0 -> Nat] /\ Joins(<<>>, <<>>, before)
    BY <2>2 DEF Joins
  <2> QED
    BY <1>2, <2>1, <2>2, <2>3
<1>3. CASE N # 0
  <2>1. IsSuccession(F, N, Seq(T))
    <3>1. ASSUME NEW x \in (1 .. N) \X Seq(T) PROVE x[2] \o seqs[x[1]] \in Seq(T)
      <4>1. x[2] \in Seq(T) /\ seqs[x[1]] \in Seq(T)
        OBVIOUS
      <4> QED
        BY <4>1
    <3> HIDE DEF N
    <3> QED
      BY <3>1 DEF IsSuccession
  <2>2. \A k \in 1 .. N, v \in Seq(T) : F[<<k, v>>] = v \o seqs[k]
    OBVIOUS
  <2> HIDE DEF F
  <2>3. PICK f : Iterates(f, <<>>, N, F, Seq(T))
    <3>1. <<>> \in Seq(T)
      OBVIOUS
    <3> QED
      BY <1>1, <2>1, <3>1, IterationExists
  <2>4. /\ \A k \in 0 .. N : f[k] \in Seq(T)
        /\ f[0] = <<>>
        /\ \A k \in 1 .. N : f[k] = F[<<k, f[k - 1]>>]
    <3> HIDE DEF N
    <3> QED
      BY <2>3 DEF Iterates
  <2>5. ASSUME NEW k \in 1 .. N
        PROVE  k - 1 \in 0 .. N /\ f[k - 1] \in Seq(T) /\ f[k] = f[k - 1] \o seqs[k]
    <3>1. k - 1 \in 0 .. N
      BY <1>1
    <3>2. f[k - 1] \in Seq(T)
      BY <2>4, <3>1
    <3> HIDE DEF N
    <3>3. F[<<k, f[k - 1]>>] = f[k - 1] \o seqs[k]
      BY <2>2, <3>2
    <3> QED
      BY <2>4, <3>1, <3>2, <3>3
  <2>6. f[1] = seqs[1] /\ 1 \in 1 .. N
    <3>1. 1 \in 1 .. N /\ seqs[1] \in Seq(T) /\ 1 - 1 = 0
      BY <1>1, <1>3
    <3>2. <<>> \o seqs[1] = seqs[1]
      BY <3>1
    <3> HIDE DEF N
    <3>3. f[1] = f[0] \o seqs[1]
      BY <2>5, <3>1
    <3> QED
      BY <2>4, <3>1, <3>2, <3>3
  <2>7. \E g : IsFlatten(g)
    <3> DEFINE g == [i \in 1 .. N |-> f[i]]
    <3>1. ASSUME NEW i \in 1 .. N
          PROVE  f[i] = IF i = 1 THEN seqs[i] ELSE g[i - 1] \o seqs[i]
      <4>1. CASE i = 1
        BY <2>6, <4>1
      <4>2. CASE i # 1
        <5>1. i - 1 \in 1 .. N
          BY <1>1, <4>2
        <5>2. g[i - 1] = f[i - 1]
          BY <5>1
        <5> QED
          BY <2>5, <4>2, <5>2
      <4> QED
        BY <4>1, <4>2
    <3>2. IsFlatten(g)
      <4> HIDE DEF N
      <4> QED
        BY <3>1, Zenon
    <3> QED
      BY <3>2
  <2> DEFINE h == CHOOSE g : IsFlatten(g)
  <2>8. FlattenSeq(seqs) = h[N]
    BY <1>3 DEF FlattenSeq
  <2>9. IsFlatten(h)
    <3> HIDE DEF IsFlatten
    <3> QED
      BY <2>7
  <2> HIDE DEF h
  <2>10. \A i \in 1 .. N : h[i] = IF i = 1 THEN seqs[i] ELSE h[i - 1] \o seqs[i]
    <3> HIDE DEF N
    <3> QED
      BY <2>9, Zenon
  <2> DEFINE before == [i \in 1 .. N |-> Len(f[i - 1])]
             S == {k \in Nat : k <= N => /\ JoinsFirst(f[k], seqs, before, k)
                                         /\ k # 0 => h[k] = f[k]}
  <2>11. before \in [1 .. N -> Nat]
    BY <2>5
  <2>12. 0 \in S
    <3>1. Len(f[0]) = 0
      BY <2>4
    <3> HIDE DEF before, N
    <3>2. JoinsFirst(f[0], seqs, before, 0)
      BY <3>1 DEF JoinsFirst
    <3> QED
      BY <3>2
  <2>13. ASSUME NEW k \in Nat, k \in S PROVE k + 1 \in S
    <3> SUFFICES ASSUME k + 1 <= N
                 PROVE  JoinsFirst(f[k + 1], seqs, before, k + 1) /\ h[k + 1] = f[k + 1]
      OBVIOUS
    <3>1. JoinsFirst(f[k], seqs, before, k) /\ (k # 0 => h[k] = f[k])
      BY <1>1, <2>13
    <3>2. /\ k + 1 \in 1 .. N /\ (k + 1) - 1 = k /\ k \in 0 .. N /\ k + 1 \in Nat
          /\ \A i \in 1 .. k + 1 : i \in 1 .. N
      BY <1>1
    <3>3. f[k + 1] = f[k] \o seqs[k + 1] /\ f[k] \in Seq(T)
      BY <2>5, <3>2
    <3> DEFINE upto == [i \in 1 .. k + 1 |-> before[i]]
    <3>4. upto \in [1 .. k + 1 -> Nat] /\ upto[k + 1] = Len(f[k])
          /\ \A i \in 1 .. k + 1 : upto[i] = before[i]
      BY <2>11, <3>2
    <3> HIDE DEF before, upto, N
    <3>5. JoinsFirst(f[k], seqs, upto, k)
      <4>1. \A i \in 1 .. k : upto[i] = before[i]
        BY <3>4
      <4> QED
        BY ZenonT(30), <3>1, <4>1 DEF JoinsFirst
    <3>6. seqs[k + 1] \in Seq(T) /\ \A i \in 1 .. k : Len(seqs[i]) \in Nat
      <4>1. \A i \in 1 .. k : i \in 1 .. N
        BY <3>2
      <4> QED
        BY <1>1, <3>2, <4>1
    <3>7. JoinsFirst(f[k + 1], seqs, upto, k + 1)
      BY <3>3, <3>4, <3>5, <3>6, JoinStep
    <3>8. JoinsFirst(f[k + 1], seqs, before, k + 1)
      BY ZenonT(30), <3>4, <3>7 DEF JoinsFirst
    <3>9. h[k + 1] = f[k + 1]
      <4>1. CASE k = 0
        BY <2>6, <2>10, <4>1
      <4>2. CASE k # 0
        <5>1. h[k + 1] = h[k] \o seqs[k + 1]
          <6>1. k + 1 # 1
            BY <4>2
          <6> QED
            BY <2>10, <3>2, <6>1
        <5> QED
          BY <3>1, <3>3, <4>2, <5>1
      <4> QED
        BY <4>1, <4>2
    <3> QED
      BY <3>8, <3>9
  <2>14. \A k \in Nat : k \in S
    <3> HIDE DEF S
    <3> QED
      BY <2>12, <2>13, SetInduction
  <2>15. JoinsFirst(f[N], seqs, before, N) /\ h[N] = f[N]
    BY <1>1, <1>3, <2>14
  <2>16. f[N] \in Seq(T)
    BY <1>1, <2>4
  <2>17. Joins(f[N], seqs, before)
    <3> HIDE DEF before
    <3> QED
      BY <2>15 DEF Joins, JoinsFirst
  <2> HIDE DEF before, N
  <2>18. \E b \in [1 .. N -> Nat] : Joins(f[N], seqs, b)
    BY <2>11, <2>17
  <2> QED
    BY <2>8, <2>15, <2>16, <2>18 DEF N
<1> QED
  BY <1>2, <1>3

(* What a snapshot is made of.                                             *)
LEMMA SnapshotFacts ==
  ASSUME NEW s, IsSnapshot(s)
  PROVE  /\ s.throws \in BOOLEAN
         /\ Len(s.entities) \in Nat /\ Len(s.flows) \in Nat
         /\ \A i \in 1 .. Len(s.entities) :
              /\ s.entities[i].id \in Ids(s)
              /\ s.entities[i].alive \in BOOLEAN
              /\ Len(s.entities[i].devices) \in Nat
              /\ \A j \in 1 .. Len(s.entities[i].devices) :
                   /\ s.entities[i].devices[j].peer \in Ids(s)
                   /\ s.entities[i].devices[j].up \in BOOLEAN
                   /\ s.entities[i].devices[j].total \in BOOLEAN
              /\ \A j \in 1 .. Len(s.entities[i].policies) :
                   /\ s.entities[i].policies[j].peer \in Ids(s)
                   /\ s.entities[i].policies[j].violation # "AVAILABLE"
         /\ \A i \in 1 .. Len(s.flows) :
              /\ s.flows[i].source \in Ids(s)
              /\ s.flows[i].target \in Ids(s)
              /\ s.flows[i].active \in BOOLEAN
<1> DEFINE Device == [peer : Ids(s), up : BOOLEAN, total : BOOLEAN, odd : BOOLEAN]
           Policy == [peer : Ids(s), tolerates : SUBSET Qualities,
                      violation : {"DEGRADED", "BLOCKED"}]
           Entity == [id : Ids(s), alive : BOOLEAN, odd : BOOLEAN,
                      devices : Seq(Device), policies : Seq(Policy)]
<1>1. /\ s.throws \in BOOLEAN
      /\ s.entities \in Seq(Entity)
      /\ s.flows \in Seq([source : Ids(s), target : Ids(s), active : BOOLEAN, odd : BOOLEAN])
  BY DEF IsSnapshot
<1>2. Len(s.entities) \in Nat /\ \A i \in 1 .. Len(s.entities) : s.entities[i] \in Entity
  <2> HIDE DEF Entity
  <2> QED
    BY <1>1
<1>3. ASSUME NEW i \in 1 .. Len(s.entities)
      PROVE  /\ s.entities[i].id \in Ids(s)
             /\ s.entities[i].alive \in BOOLEAN
             /\ s.entities[i].devices \in Seq(Device)
             /\ s.entities[i].policies \in Seq(Policy)
  <2>1. s.entities[i] \in Entity
    BY <1>2
  <2> HIDE DEF Device, Policy
  <2> QED
    BY <2>1
<1>4. ASSUME NEW i \in 1 .. Len(s.entities)
      PROVE  /\ Len(s.entities[i].devices) \in Nat
             /\ \A j \in 1 .. Len(s.entities[i].devices) :
                  /\ s.entities[i].devices[j].peer \in Ids(s)
                  /\ s.entities[i].devices[j].up \in BOOLEAN
                  /\ s.entities[i].devices[j].total \in BOOLEAN
  <2>1. s.entities[i].devices \in Seq(Device)
    BY <1>3
  <2>2. /\ Len(s.entities[i].devices) \in Nat
        /\ \A j \in 1 .. Len(s.entities[i].devices) : s.entities[i].devices[j] \in Device
    <3> HIDE DEF Device
    <3> QED
      BY <2>1
  <2> QED
    BY <2>2
<1>5. ASSUME NEW i \in 1 .. Len(s.entities), NEW j \in 1 .. Len(s.entities[i].policies)
      PROVE  /\ s.entities[i].policies[j].peer \in Ids(s)
             /\ s.entities[i].policies[j].violation # "AVAILABLE"
  <2>1. s.entities[i].policies \in Seq(Policy)
    BY <1>3
  <2>2. s.entities[i].policies[j] \in Policy
    <3> HIDE DEF Policy
    <3> QED
      BY <2>1
  <2> QED
    BY <2>2
<1>6. /\ Len(s.flows) \in Nat
      /\ \A i \in 1 .. Len(s.flows) : /\ s.flows[i].source \in Ids(s)
                                      /\ s.flows[i].target \in Ids(s)
                                      /\ s.flows[i].active \in BOOLEAN
  <2> DEFINE Flow == [source : Ids(s), target : Ids(s), active : BOOLEAN, odd : BOOLEAN]
  <2>1. s.flows \in Seq(Flow)
    BY <1>1
  <2>2. Len(s.flows) \in Nat /\ \A i \in 1 .. Len(s.flows) : s.flows[i] \in Flow
    <3> HIDE DEF Flow
    <3> QED
      BY <2>1
  <2> QED
    BY <2>2
<1> HIDE DEF Device, Policy, Entity
<1> QED
  BY <1>1, <1>2, <1>3, <1>4, <1>5, <1>6

(* An identifier stands for one entity.                                    *)
LEMMA IndexFacts ==
  ASSUME NEW s, IsSnapshot(s)
  PROVE  /\ \A id \in Ids(s) : /\ NodeIndex(s, id) \in 1 .. Len(s.entities)
                               /\ s.entities[NodeIndex(s, id)].id = id
         /\ \A i \in 1 .. Len(s.entities) :
              /\ NodeIndex(s, s.entities[i].id) = i
              /\ Alive(s, s.entities[i].id) <=> s.entities[i].alive
<1>1. ASSUME NEW id \in Ids(s)
      PROVE  /\ NodeIndex(s, id) \in 1 .. Len(s.entities)
             /\ s.entities[NodeIndex(s, id)].id = id
  <2>1. \E i \in 1 .. Len(s.entities) : s.entities[i].id = id
    BY DEF Ids
  <2> QED
    BY <2>1, Zenon DEF NodeIndex
<1>2. \A i, j \in 1 .. Len(s.entities) : s.entities[i].id = s.entities[j].id => i = j
  BY DEF IsSnapshot
<1>3. ASSUME NEW i \in 1 .. Len(s.entities)
      PROVE  /\ NodeIndex(s, s.entities[i].id) = i
             /\ Alive(s, s.entities[i].id) <=> s.entities[i].alive
  <2>1. s.entities[i].id \in Ids(s)
    BY DEF Ids
  <2>2. NodeIndex(s, s.entities[i].id) = i
    BY <1>1, <1>2, <2>1
  <2>3. Alive(s, s.entities[i].id) <=> s.entities[i].alive
    BY <1>2 DEF Alive
  <2> QED
    BY <2>2, <2>3
<1> QED
  BY <1>1, <1>3

(* The link of a device, and of all of them in their order.                *)
LinkOf(s, i, j) ==
  LET e == s.entities[i]
      d == e.devices[j]
  IN  [source |-> e.id, target |-> d.peer, total |-> d.total, odd |-> d.odd,
       up |-> d.up /\ e.alive /\ Alive(s, d.peer)]

LinksAre(s, before) ==
  /\ \A k \in 1 .. Len(Links(s)) :
       \E i \in 1 .. Len(s.entities) : \E j \in 1 .. Len(s.entities[i].devices) : k = before[i] + j
  /\ \A i \in 1 .. Len(s.entities) : \A j \in 1 .. Len(s.entities[i].devices) :
       before[i] + j \in 1 .. Len(Links(s)) /\ Links(s)[before[i] + j] = LinkOf(s, i, j)

(* engine.py makes one link for each device, entity by entity.             *)
LEMMA LinksFacts ==
  ASSUME NEW s, IsSnapshot(s)
  PROVE  /\ Len(Links(s)) \in Nat
         /\ \E before \in [1 .. Len(s.entities) -> Nat] : LinksAre(s, before)
<1> DEFINE n == Len(s.entities)
           D(i) == Len(s.entities[i].devices)
           seqs == [i \in 1 .. n |-> [j \in 1 .. D(i) |-> LinkOf(s, i, j)]]
           T == UNION {{LinkOf(s, i, j) : j \in 1 .. D(i)} : i \in 1 .. n}
<1>1. n \in Nat /\ \A i \in 1 .. n : D(i) \in Nat
  BY SnapshotFacts
<1>2. Links(s) = FlattenSeq(seqs)
  BY Zenon DEF Links, LinkOf
<1>3. ASSUME NEW i \in 1 .. n
      PROVE  /\ seqs[i] \in Seq(T) /\ Len(seqs[i]) = D(i)
             /\ \A j \in 1 .. D(i) : seqs[i][j] = LinkOf(s, i, j)
  <2> HIDE DEF n
  <2>1. seqs[i] = [j \in 1 .. D(i) |-> LinkOf(s, i, j)]
    OBVIOUS
  <2>2. D(i) \in Nat
    BY <1>1
  <2> HIDE DEF seqs, D
  <2>3. \A j \in 1 .. D(i) : LinkOf(s, i, j) \in T
    OBVIOUS
  <2> HIDE DEF T
  <2>4. seqs[i] \in [1 .. D(i) -> T]
    BY <2>1, <2>3
  <2>5. seqs[i] \in Seq(T) /\ Len(seqs[i]) = D(i)
    BY <2>2, <2>4, FunctionIsSequence
  <2> QED
    BY <2>1, <2>5
<1>4. seqs = [i \in 1 .. n |-> seqs[i]]
  OBVIOUS
<1> HIDE DEF seqs, T, n, D
<1>5. seqs \in Seq(Seq(T)) /\ Len(seqs) = n
  <2>1. seqs \in [1 .. n -> Seq(T)]
    BY <1>3, <1>4
  <2> QED
    BY <1>1, <2>1, FunctionIsSequence
<1>6. Links(s) \in Seq(T)
  BY <1>2, <1>5, FlattenFacts
<1>7. PICK before \in [1 .. n -> Nat] : Joins(Links(s), seqs, before)
  BY <1>2, <1>5, FlattenFacts
<1>8. LinksAre(s, before)
  <2>1. ASSUME NEW k \in 1 .. Len(Links(s))
        PROVE  \E i \in 1 .. n : \E j \in 1 .. D(i) : k = before[i] + j
    <3>1. PICK i \in 1 .. n : \E j \in 1 .. Len(seqs[i]) : k = before[i] + j
      BY <1>5, <1>7 DEF Joins
    <3> QED
      BY <1>3, <3>1
  <2>2. ASSUME NEW i \in 1 .. n, NEW j \in 1 .. D(i)
        PROVE  before[i] + j \in 1 .. Len(Links(s)) /\ Links(s)[before[i] + j] = LinkOf(s, i, j)
    BY ZenonT(30), <1>3, <1>5, <1>7 DEF Joins
  <2> QED
    BY <2>1, <2>2 DEF LinksAre, n, D
<1>9. \E b \in [1 .. n -> Nat] : LinksAre(s, b)
  BY <1>8
<1> QED
  BY <1>6, <1>9, LenProperties DEF n

-----------------------------------------------------------------------------
(* The runner and the topology.                                            *)

(* A scenario that has all the records of a snapshot.                      *)
Describes(sc, s) ==
  /\ Len(sc.nodes) = Len(s.entities)
  /\ Len(sc.links) = Len(Links(s))
  /\ Len(sc.flows) = Len(s.flows)
  /\ \A i \in 1 .. Len(s.entities) : sc.nodes[i] = NodeRecords(s)[i].value
  /\ \A k \in 1 .. Len(Links(s)) : sc.links[k] = LinkRecords(s)[k].value
  /\ \A i \in 1 .. Len(s.flows) : sc.flows[i] = FlowRecords(s)[i].value

(* What such a scenario says of its nodes, its links and its flows.        *)
LEMMA DescribedFacts ==
  ASSUME NEW s, IsSnapshot(s), NEW sc, Describes(sc, s),
         NEW before \in [1 .. Len(s.entities) -> Nat], LinksAre(s, before)
  PROVE  /\ WellLinked(sc)
         /\ \A i \in 1 .. Len(s.entities) : sc.nodes[i].alive = s.entities[i].alive
         /\ \A k \in 1 .. Len(sc.links) :
              \E i \in 1 .. Len(s.entities) : \E j \in 1 .. Len(s.entities[i].devices) : k = before[i] + j
         /\ \A i \in 1 .. Len(s.entities) : \A j \in 1 .. Len(s.entities[i].devices) :
              LET e == s.entities[i]
                  link == sc.links[before[i] + j]
              IN  /\ before[i] + j \in 1 .. Len(sc.links)
                  /\ link.source = i
                  /\ link.target = NodeIndex(s, e.devices[j].peer)
                  /\ Built(sc, link) <=> /\ e.devices[j].up
                                         /\ {e.id, e.devices[j].peer} \subseteq Living(s)
<1>1. Len(s.entities) \in Nat /\ Len(Links(s)) \in Nat
  BY SnapshotFacts, LinksFacts
<1>2. \A i \in 1 .. Len(s.entities) : sc.nodes[i].alive = s.entities[i].alive
  <2> SUFFICES ASSUME NEW i \in 1 .. Len(s.entities)
               PROVE  sc.nodes[i].alive = s.entities[i].alive
    OBVIOUS
  <2>1. NodeRecords(s)[i] = [type |-> "NODE", odd |-> s.entities[i].odd,
                             value |-> [index |-> i, alive |-> s.entities[i].alive]]
    BY Zenon DEF NodeRecords
  <2>2. sc.nodes[i] = NodeRecords(s)[i].value
    BY DEF Describes
  <2>3. sc.nodes[i] = [index |-> i, alive |-> s.entities[i].alive]
    BY <2>1, <2>2
  <2> QED
    BY <2>3
<1>3. ASSUME NEW k \in 1 .. Len(sc.links)
      PROVE  \E i \in 1 .. Len(s.entities) : \E j \in 1 .. Len(s.entities[i].devices) : k = before[i] + j
  BY DEF Describes, LinksAre
<1>4. ASSUME NEW i \in 1 .. Len(s.entities), NEW j \in 1 .. Len(s.entities[i].devices)
      PROVE  /\ before[i] + j \in 1 .. Len(sc.links)
             /\ sc.links[before[i] + j].source = i
             /\ sc.links[before[i] + j].target = NodeIndex(s, s.entities[i].devices[j].peer)
             /\ NodeIndex(s, s.entities[i].devices[j].peer) \in 1 .. Len(s.entities)
             /\ Built(sc, sc.links[before[i] + j])
                  <=> /\ s.entities[i].devices[j].up
                      /\ {s.entities[i].id, s.entities[i].devices[j].peer} \subseteq Living(s)
  <2> DEFINE k == before[i] + j
             e == s.entities[i]
             d == e.devices[j]
             t == NodeIndex(s, d.peer)
  <2>1. k \in 1 .. Len(Links(s)) /\ Links(s)[k] = LinkOf(s, i, j)
    BY DEF LinksAre
  <2>2. sc.links[k] = LinkRecords(s)[k].value /\ k \in 1 .. Len(sc.links)
    BY <2>1 DEF Describes
  <2>3. e.id \in Ids(s) /\ d.peer \in Ids(s)
    BY SnapshotFacts
  <2>4. NodeIndex(s, e.id) = i /\ (Alive(s, e.id) <=> e.alive)
    BY IndexFacts
  <2>5. t \in 1 .. Len(s.entities) /\ s.entities[t].id = d.peer
    BY <2>3, IndexFacts
  <2>6. Alive(s, d.peer) <=> s.entities[t].alive
    BY <2>5, IndexFacts
  <2>7. /\ Links(s)[k].source = e.id /\ Links(s)[k].target = d.peer
        /\ Links(s)[k].up <=> d.up /\ e.alive /\ Alive(s, d.peer)
    <3> DEFINE u == d.up /\ e.alive /\ Alive(s, d.peer)
    <3>1. Links(s)[k] = [source |-> e.id, target |-> d.peer, total |-> d.total, odd |-> d.odd,
                         up |-> u]
      BY <2>1, Zenon DEF LinkOf
    <3> HIDE DEF u, k, d, e
    <3>2. Links(s)[k].source = e.id /\ Links(s)[k].target = d.peer /\ Links(s)[k].up = u
      BY <3>1
    <3> QED
      BY <3>2 DEF u
  <2> HIDE DEF k, t, d, e
  <2>8. /\ sc.links[k].source = i /\ sc.links[k].target = t
        /\ sc.links[k].up <=> Links(s)[k].up
    BY <2>1, <2>2, <2>4, <2>7 DEF LinkRecords, t
  <2>9. Built(sc, sc.links[k]) <=> d.up /\ e.alive /\ Alive(s, d.peer)
    BY <1>2, <2>5, <2>6, <2>7, <2>8 DEF Built, e
  <2>10. {e.id, d.peer} \subseteq Living(s) <=> e.alive /\ Alive(s, d.peer)
    BY <2>3, <2>4 DEF Living
  <2> QED
    BY <2>2, <2>5, <2>8, <2>9, <2>10 DEF k, t, d, e
<1>5. WellLinked(sc)
  <2>1. Len(sc.nodes) = Len(s.entities)
    BY DEF Describes
  <2>2. ASSUME NEW k \in 1 .. Len(sc.links)
        PROVE  sc.links[k].source \in 1 .. Len(sc.nodes) /\ sc.links[k].target \in 1 .. Len(sc.nodes)
    <3>1. PICK i \in 1 .. Len(s.entities) : \E j \in 1 .. Len(s.entities[i].devices) : k = before[i] + j
      BY <1>3
    <3>2. PICK j \in 1 .. Len(s.entities[i].devices) : k = before[i] + j
      BY <3>1
    <3> QED
      BY ZenonT(30), <1>4, <2>1, <3>2
  <2> QED
    BY <1>1, <2>1, <2>2 DEF WellLinked
<1> QED
  BY <1>2, <1>3, <1>4, <1>5

(* The neighbours of a node of such a scenario: what a device that is up   *)
(* joins it to, in either direction.                                       *)
LEMMA DescribedNeighbours ==
  ASSUME NEW s, IsSnapshot(s), NEW sc, Describes(sc, s)
  PROVE  /\ \A n : \A m \in Neighbours(sc, n) :
              \E i \in 1 .. Len(s.entities) : \E j \in 1 .. Len(s.entities[i].devices) :
                 LET e == s.entities[i]
                     d == e.devices[j]
                 IN  /\ d.up /\ {e.id, d.peer} \subseteq Living(s)
                     /\ n \in {i, NodeIndex(s, d.peer)}
                     /\ m \in {i, NodeIndex(s, d.peer)}
         /\ \A i \in 1 .. Len(s.entities) : \A j \in 1 .. Len(s.entities[i].devices) :
              LET e == s.entities[i]
                  d == e.devices[j]
              IN  d.up /\ {e.id, d.peer} \subseteq Living(s) =>
                    /\ NodeIndex(s, d.peer) \in Neighbours(sc, i)
                    /\ i \in Neighbours(sc, NodeIndex(s, d.peer))
<1>1. PICK before \in [1 .. Len(s.entities) -> Nat] : LinksAre(s, before)
  BY LinksFacts
<1> DEFINE P(i, j) == NodeIndex(s, s.entities[i].devices[j].peer)
           Up(i, j) == /\ s.entities[i].devices[j].up
                       /\ {s.entities[i].id, s.entities[i].devices[j].peer} \subseteq Living(s)
<1>2. /\ \A k \in 1 .. Len(sc.links) :
           \E i \in 1 .. Len(s.entities) : \E j \in 1 .. Len(s.entities[i].devices) : k = before[i] + j
      /\ \A i \in 1 .. Len(s.entities) : \A j \in 1 .. Len(s.entities[i].devices) :
           /\ before[i] + j \in 1 .. Len(sc.links)
           /\ sc.links[before[i] + j].source = i
           /\ sc.links[before[i] + j].target = P(i, j)
           /\ Built(sc, sc.links[before[i] + j]) <=> Up(i, j)
  BY SMTT(30), <1>1, DescribedFacts
<1>3. ASSUME NEW n, NEW m \in Neighbours(sc, n)
      PROVE  \E i \in 1 .. Len(s.entities) : \E j \in 1 .. Len(s.entities[i].devices) :
                Up(i, j) /\ n \in {i, P(i, j)} /\ m \in {i, P(i, j)}
  <2>1. PICK k \in 1 .. Len(sc.links) : /\ n \in {sc.links[k].source, sc.links[k].target}
                                        /\ Built(sc, sc.links[k])
                                        /\ m \in {sc.links[k].source, sc.links[k].target}
    BY DEF Neighbours
  <2>2. PICK i \in 1 .. Len(s.entities) : \E j \in 1 .. Len(s.entities[i].devices) : k = before[i] + j
    BY <1>2
  <2>3. PICK j \in 1 .. Len(s.entities[i].devices) : k = before[i] + j
    BY <2>2
  <2> HIDE DEF P, Up
  <2>4. Up(i, j) /\ n \in {i, P(i, j)} /\ m \in {i, P(i, j)}
    BY <1>2, <2>1, <2>3
  <2> QED
    BY <2>4
<1>4. ASSUME NEW i \in 1 .. Len(s.entities), NEW j \in 1 .. Len(s.entities[i].devices), Up(i, j)
      PROVE  P(i, j) \in Neighbours(sc, i) /\ i \in Neighbours(sc, P(i, j))
  <2> HIDE DEF P, Up
  <2> DEFINE k == before[i] + j
  <2>1. /\ k \in 1 .. Len(sc.links) /\ sc.links[k].source = i /\ sc.links[k].target = P(i, j)
        /\ Built(sc, sc.links[k])
    BY <1>2, <1>4
  <2> HIDE DEF k
  <2> QED
    BY <2>1 DEF Neighbours
<1> QED
  BY SMTT(30), <1>3, <1>4

(* The runner finds a path in such a scenario exactly between entities     *)
(* that living entities and devices that are up join.                      *)
THEOREM PathsAreJoined ==
  ASSUME NEW s, IsSnapshot(s), NEW sc, Describes(sc, s), NEW a \in Ids(s), NEW b \in Ids(s)
  PROVE  HasActivePath(sc, NodeIndex(s, a), NodeIndex(s, b)) <=> Joined(s, a, b)
<1> DEFINE I(id) == NodeIndex(s, id)
           found == Search(sc, I(a))
<1>1. \A id \in Ids(s) : /\ I(id) \in 1 .. Len(s.entities)
                         /\ s.entities[I(id)].id = id
                         /\ sc.nodes[I(id)].alive <=> id \in Living(s)
  <2>1. PICK before \in [1 .. Len(s.entities) -> Nat] : LinksAre(s, before)
    BY LinksFacts
  <2>2. \A i \in 1 .. Len(s.entities) : sc.nodes[i].alive = s.entities[i].alive
    BY <2>1, DescribedFacts
  <2>3. ASSUME NEW id \in Ids(s)
        PROVE  /\ I(id) \in 1 .. Len(s.entities)
               /\ s.entities[I(id)].id = id
               /\ sc.nodes[I(id)].alive <=> id \in Living(s)
    <3>1. I(id) \in 1 .. Len(s.entities) /\ s.entities[I(id)].id = id
      BY IndexFacts
    <3> HIDE DEF I
    <3>2. Alive(s, id) <=> s.entities[I(id)].alive
      BY <3>1, IndexFacts
    <3> QED
      BY <2>2, <3>1, <3>2 DEF Living
  <2> QED
    BY <2>3
<1>2. \A i \in 1 .. Len(s.entities) : I(s.entities[i].id) = i
  BY IndexFacts
<1>3. WellLinked(sc) /\ Nodes(sc) = 1 .. Len(s.entities)
  <2>1. PICK before \in [1 .. Len(s.entities) -> Nat] : LinksAre(s, before)
    BY LinksFacts
  <2> QED
    BY <2>1, DescribedFacts DEF Nodes, Describes
<1>4. /\ I(a) \in found
      /\ \A n \in found : Neighbours(sc, n) \subseteq found
      /\ \A C : I(a) \in C /\ ClosedUnderLinks(sc, C) => found \subseteq C
  BY <1>1, <1>3, SearchIsExact DEF ClosedUnderLinks
<1> DEFINE Up(i, j) == /\ s.entities[i].devices[j].up
                       /\ {s.entities[i].id, s.entities[i].devices[j].peer} \subseteq Living(s)
<1>5. \A i \in 1 .. Len(s.entities) : \A j \in 1 .. Len(s.entities[i].devices) :
        Up(i, j) => /\ I(s.entities[i].devices[j].peer) \in Neighbours(sc, i)
                    /\ i \in Neighbours(sc, I(s.entities[i].devices[j].peer))
  BY DescribedNeighbours
<1>6. \A n : \A m \in Neighbours(sc, n) :
        \E i \in 1 .. Len(s.entities) : \E j \in 1 .. Len(s.entities[i].devices) :
           /\ Up(i, j)
           /\ n \in {i, I(s.entities[i].devices[j].peer)}
           /\ m \in {i, I(s.entities[i].devices[j].peer)}
  BY DescribedNeighbours
<1>7. HasActivePath(sc, I(a), I(b)) <=> {a, b} \subseteq Living(s) /\ I(b) \in found
  BY <1>1 DEF HasActivePath
<1> HIDE DEF I, found
<1>8. ASSUME Joined(s, a, b) PROVE I(b) \in found
  <2> DEFINE C == {c \in Living(s) : I(c) \in found}
  <2>1. a \in C
    BY <1>4, <1>8 DEF Joined
  <2>2. ClosedUnderDevices(s, C)
    <3>1. ASSUME NEW i \in 1 .. Len(s.entities), NEW j \in 1 .. Len(s.entities[i].devices), Up(i, j)
          PROVE  s.entities[i].id \in C <=> s.entities[i].devices[j].peer \in C
      <4> DEFINE p == I(s.entities[i].devices[j].peer)
      <4>1. p \in Neighbours(sc, i) /\ i \in Neighbours(sc, p)
        BY <1>5, <3>1
      <4> HIDE DEF p
      <4>2. i \in found <=> p \in found
        BY <1>4, <4>1
      <4> QED
        BY <1>2, <3>1, <4>2 DEF p
    <3> HIDE DEF C
    <3> QED
      BY <3>1 DEF ClosedUnderDevices
  <2>3. C \in SUBSET Living(s)
    OBVIOUS
  <2> HIDE DEF C
  <2>4. b \in C
    BY <1>8, <2>1, <2>2, <2>3 DEF Joined
  <2> QED
    BY <2>4 DEF C
<1>9. ASSUME {a, b} \subseteq Living(s), I(b) \in found PROVE Joined(s, a, b)
  <2> SUFFICES ASSUME NEW C \in SUBSET Living(s), a \in C, ClosedUnderDevices(s, C) PROVE b \in C
    BY <1>9 DEF Joined
  <2> DEFINE D == {I(c) : c \in C}
  <2>1. ASSUME NEW n \in D, NEW m \in Neighbours(sc, n) PROVE m \in D
    <3>1. PICK i \in 1 .. Len(s.entities) : \E j \in 1 .. Len(s.entities[i].devices) :
             /\ Up(i, j)
             /\ n \in {i, I(s.entities[i].devices[j].peer)}
             /\ m \in {i, I(s.entities[i].devices[j].peer)}
      BY <1>6
    <3>2. PICK j \in 1 .. Len(s.entities[i].devices) :
             /\ Up(i, j)
             /\ n \in {i, I(s.entities[i].devices[j].peer)}
             /\ m \in {i, I(s.entities[i].devices[j].peer)}
      BY <3>1
    <3> DEFINE e == s.entities[i].id
               p == s.entities[i].devices[j].peer
    <3>3. e \in C <=> p \in C
      BY <3>2 DEF ClosedUnderDevices
    <3>4. I(e) = i
      BY <1>2
    <3>5. {e, p} \subseteq Ids(s)
      BY <3>2 DEF Living
    <3> HIDE DEF e
    <3>6. PICK c \in C : n = I(c)
      BY <2>1
    <3>7. c \in Ids(s) /\ s.entities[I(c)].id = c
      BY <1>1 DEF Living
    <3>8. s.entities[I(e)].id = e /\ s.entities[I(p)].id = p
      BY <1>1, <3>5
    <3>9. n \in {I(e), I(p)} /\ m \in {I(e), I(p)}
      BY <3>2, <3>4
    <3> HIDE DEF p
    <3>10. c = e \/ c = p
      BY <3>6, <3>7, <3>8, <3>9
    <3> QED
      BY <3>3, <3>9, <3>10
  <2>2. I(a) \in D
    OBVIOUS
  <2> HIDE DEF D
  <2>3. found \subseteq D
    BY <1>4, <2>1, <2>2 DEF ClosedUnderLinks
  <2>4. PICK c \in C : I(b) = I(c)
    BY <1>9, <2>3 DEF D
  <2>5. c \in Ids(s)
    BY DEF Living
  <2> QED
    BY <1>1, <2>4, <2>5
<1>10. Joined(s, a, b) => {a, b} \subseteq Living(s)
  BY DEF Joined
<1>11. HasActivePath(sc, I(a), I(b)) <=> Joined(s, a, b)
  BY <1>7, <1>8, <1>9, <1>10
<1> QED
  BY <1>11 DEF I

-----------------------------------------------------------------------------
(* The outcomes of a calculation.                                          *)

(* What is measured of flow i agrees with the topology.                    *)
AgreesWithTopology(s, i, v) ==
  /\ v.connected <=> s.flows[i].active /\ Joined(s, s.flows[i].source, s.flows[i].target)
  /\ v.quality # "lost" => v.connected

(* RunScenario reports a flow as connected exactly if it is active and the *)
(* topology joins its ends, and measures packets only of such a flow.      *)
LEMMA OutcomesAgree ==
  ASSUME NEW s, IsSnapshot(s), NEW sc, Describes(sc, s),
         NEW values \in Outcomes(sc), NEW i \in 1 .. Len(s.flows)
  PROVE  AgreesWithTopology(s, i, values[i])
<1> DEFINE a == s.flows[i].source
           b == s.flows[i].target
           flow == sc.flows[i]
           path == HasActivePath(sc, NodeIndex(s, a), NodeIndex(s, b))
<1>1. a \in Ids(s) /\ b \in Ids(s) /\ s.flows[i].active \in BOOLEAN
  BY SnapshotFacts
<1>2. /\ flow.source = NodeIndex(s, a) /\ flow.target = NodeIndex(s, b)
      /\ flow.enabled <=> s.flows[i].active /\ Alive(s, a) /\ Alive(s, b)
  <2> DEFINE u == Enabled(s, s.flows[i])
  <2>1. flow = FlowRecords(s)[i].value
    BY DEF Describes
  <2>2. FlowRecords(s)[i] = [type |-> "FLOW", odd |-> s.flows[i].odd,
                             value |-> [source |-> NodeIndex(s, a), target |-> NodeIndex(s, b),
                                        enabled |-> u]]
    BY Zenon DEF FlowRecords
  <2> HIDE DEF u, flow, a, b
  <2>3. flow.source = NodeIndex(s, a) /\ flow.target = NodeIndex(s, b) /\ flow.enabled = u
    BY <2>1, <2>2
  <2> QED
    BY <2>3 DEF u, Enabled, a, b
<1>3. path <=> Joined(s, a, b)
  BY <1>1, PathsAreJoined
<1>4. Joined(s, a, b) => Alive(s, a) /\ Alive(s, b)
  BY DEF Joined, Living
<1>5. PICK q \in [1 .. Len(sc.flows) -> Qualities] :
         /\ \A k \in 1 .. Len(sc.flows) : q[k] \in Measurable(sc, sc.flows[k])
         /\ values = [k \in 1 .. Len(sc.flows) |->
                        [connected |-> /\ sc.flows[k].enabled
                                       /\ HasActivePath(sc, sc.flows[k].source, sc.flows[k].target),
                         quality |-> q[k]]]
  BY Zenon DEF Outcomes
<1>6. i \in 1 .. Len(sc.flows)
  BY DEF Describes
<1> DEFINE c == flow.enabled /\ HasActivePath(sc, flow.source, flow.target)
<1>7. values[i] = [connected |-> c, quality |-> q[i]]
  BY <1>5, <1>6, Zenon
<1>8. q[i] \in Measurable(sc, flow)
  BY <1>5, <1>6
<1> HIDE DEF c, flow, a, b, path
<1>9. values[i].connected = c /\ values[i].quality = q[i]
  BY <1>7
<1>10. c <=> flow.enabled /\ path
  BY <1>2, Zenon DEF c, path
<1>11. c <=> s.flows[i].active /\ Joined(s, a, b)
  BY <1>2, <1>3, <1>4, <1>10
<1>12. q[i] # "lost" => c
  BY <1>8 DEF Measurable, c
<1> QED
  BY <1>9, <1>11, <1>12 DEF AgreesWithTopology, a, b

-----------------------------------------------------------------------------
(* The readers.                                                            *)

(* SelectLastInSeq: the last place that has a property, or none.           *)
Greatest(I) == IF I # {} THEN Max(I) ELSE 0

(* It is the greatest of the places.                                       *)
LEMMA GreatestFacts ==
  ASSUME NEW n \in Nat, NEW I \in SUBSET (1 .. n)
  PROVE  /\ I = {} => Greatest(I) = 0
         /\ I # {} => Greatest(I) \in I /\ Greatest(I) # 0 /\ \A k \in I : k <= Greatest(I)
<1>1. CASE I = {}
  BY <1>1 DEF Greatest
<1>2. CASE I # {}
  <2>1. PICK m \in I : \A k \in I : k <= m
    BY <1>2, GreatestElement
  <2>2. \A k \in I : k \in 1 .. n
    OBVIOUS
  <2>3. \A k \in I : m >= k
    BY <2>1, <2>2
  <2>4. Max(I) \in I /\ \A k \in I : Max(I) >= k
    BY <2>3, Zenon DEF Max
  <2>5. Greatest(I) = Max(I)
    BY <1>2 DEF Greatest
  <2> QED
    BY <1>2, <2>2, <2>4, <2>5
<1> QED
  BY <1>1, <1>2

(* The metric of a direction is that of a flow in this direction.          *)
LEMMA MetricFacts ==
  ASSUME NEW s, IsSnapshot(s), NEW metrics, NEW a, NEW b,
         MetricFor(s, metrics, a, b) # <<>>
  PROVE  \E i \in 1 .. Len(s.flows) : /\ s.flows[i].source = a
                                      /\ s.flows[i].target = b
                                      /\ MetricFor(s, metrics, a, b) = <<metrics[i]>>
<1> DEFINE I == {i \in 1 .. Len(s.flows) : s.flows[i].source = a /\ s.flows[i].target = b}
<1>1. MetricFor(s, metrics, a, b) = IF Greatest(I) = 0 THEN <<>> ELSE <<metrics[Greatest(I)]>>
  BY Zenon DEF MetricFor, SelectLastInSeq, Greatest
<1>2. Len(s.flows) \in Nat /\ I \in SUBSET (1 .. Len(s.flows))
  BY SnapshotFacts
<1> HIDE DEF I
<1>3. Greatest(I) # 0 /\ Greatest(I) \in I
  BY <1>1, <1>2, GreatestFacts
<1> QED
  BY <1>1, <1>3 DEF I

(* An effect that is not blocked comes from a metric of its direction that *)
(* is connected.                                                           *)
LEMMA EffectFacts ==
  ASSUME NEW s, IsSnapshot(s), NEW metrics, NEW a, NEW policy,
         Effect(s, metrics, a, policy) # "BLOCKED"
  PROVE  \E i \in 1 .. Len(s.flows) :
           /\ s.flows[i].source = a
           /\ s.flows[i].target = policy.peer
           /\ MetricFor(s, metrics, a, policy.peer) = <<metrics[i]>>
           /\ metrics[i].connected
<1> DEFINE metric == MetricFor(s, metrics, a, policy.peer)
<1>1. metric # <<>> /\ metric[1].connected
  BY DEF Effect
<1>2. PICK i \in 1 .. Len(s.flows) : /\ s.flows[i].source = a
                                     /\ s.flows[i].target = policy.peer
                                     /\ metric = <<metrics[i]>>
  BY <1>1, MetricFacts
<1> HIDE DEF metric
<1>3. metric[1] = metrics[i]
  BY <1>2
<1>4. metrics[i].connected
  BY <1>1, <1>3
<1> QED
  BY <1>2, <1>4 DEF metric

(* An end of a connection of two entities has a link that is up: without   *)
(* one, the end alone, or all but the end, would be closed.                *)
LEMMA JoinedEnds ==
  ASSUME NEW s, IsSnapshot(s), NEW a \in Ids(s), NEW b \in Ids(s), Joined(s, a, b), a # b
  PROVE  NodeConnected(s, a) /\ NodeConnected(s, b)
<1>1. PICK before \in [1 .. Len(s.entities) -> Nat] : LinksAre(s, before)
  BY LinksFacts
<1>2. a \in Living(s) /\ b \in Living(s) /\ Alive(s, a) /\ Alive(s, b)
  BY DEF Joined, Living
<1>3. ASSUME NEW c \in Ids(s), Alive(s, c), ~ NodeConnected(s, c),
             NEW i \in 1 .. Len(s.entities), NEW j \in 1 .. Len(s.entities[i].devices),
             s.entities[i].devices[j].up,
             {s.entities[i].id, s.entities[i].devices[j].peer} \subseteq Living(s)
      PROVE  c # s.entities[i].id /\ c # s.entities[i].devices[j].peer
  <2> DEFINE k == before[i] + j
             e == s.entities[i]
             d == e.devices[j]
             u == d.up /\ e.alive /\ Alive(s, d.peer)
  <2>1. k \in 1 .. Len(Links(s)) /\ Links(s)[k] = LinkOf(s, i, j)
    BY <1>1 DEF LinksAre
  <2>2. Links(s)[k] = [source |-> e.id, target |-> d.peer, total |-> d.total, odd |-> d.odd,
                       up |-> u]
    BY <2>1, Zenon DEF LinkOf
  <2>3. u
    BY <1>3, IndexFacts DEF Living
  <2> HIDE DEF u, k, d, e
  <2>4. Links(s)[k].source = e.id /\ Links(s)[k].target = d.peer /\ Links(s)[k].up = u
    BY <2>2
  <2>5. Links(s)[k].up
    BY <2>3, <2>4
  <2>6. c \notin {e.id, d.peer}
    BY <1>3, <2>1, <2>4, <2>5 DEF NodeConnected
  <2> QED
    BY <2>6 DEF d, e
<1>4. ASSUME ~ NodeConnected(s, a) PROVE FALSE
  <2>1. ClosedUnderDevices(s, {a})
    BY <1>2, <1>3, <1>4 DEF ClosedUnderDevices
  <2> QED
    BY <1>2, <2>1 DEF Joined
<1>5. ASSUME ~ NodeConnected(s, b) PROVE FALSE
  <2> DEFINE C == Living(s) \ {b}
  <2>1. ClosedUnderDevices(s, C)
    BY <1>2, <1>3, <1>5 DEF ClosedUnderDevices
  <2>2. C \in SUBSET Living(s) /\ a \in C /\ b \notin C
    BY <1>2
  <2> HIDE DEF C
  <2> QED
    BY <2>1, <2>2 DEF Joined
<1> QED
  BY <1>4, <1>5

(* Metrics that agree with the topology.                                   *)
Agree(s, metrics) == \A i \in 1 .. Len(s.flows) : AgreesWithTopology(s, i, metrics[i])

(* With such metrics, an effect that is not blocked stands for a direction *)
(* that the message gate has as connected, and for ends that the views     *)
(* show as connected.                                                      *)
LEMMA EffectReaders ==
  ASSUME NEW s, IsSnapshot(s), NEW metrics, Agree(s, metrics),
         \A i \in 1 .. Len(s.flows) : s.flows[i].source # s.flows[i].target,
         NEW a, NEW policy, Effect(s, metrics, a, policy) # "BLOCKED"
  PROVE  /\ Profile(s, metrics, a, policy.peer).connected
         /\ NodeConnected(s, a)
         /\ NodeConnected(s, policy.peer)
<1>1. PICK i \in 1 .. Len(s.flows) :
         /\ s.flows[i].source = a
         /\ s.flows[i].target = policy.peer
         /\ MetricFor(s, metrics, a, policy.peer) = <<metrics[i]>>
         /\ metrics[i].connected
  BY EffectFacts
<1>2. Joined(s, a, policy.peer)
  BY <1>1 DEF Agree, AgreesWithTopology
<1>3. a \in Ids(s) /\ policy.peer \in Ids(s) /\ a # policy.peer
  BY <1>1, SnapshotFacts
<1>4. NodeConnected(s, a) /\ NodeConnected(s, policy.peer)
  BY <1>2, <1>3, JoinedEnds
<1>5. Profile(s, metrics, a, policy.peer).connected
  <2> DEFINE metric == MetricFor(s, metrics, a, policy.peer)
             K == {k \in 1 .. Len(Links(s)) : /\ Links(s)[k].source = a
                                              /\ Links(s)[k].target = policy.peer}
             c == IF metric # <<>> THEN metric[1].connected
                  ELSE Greatest(K) # 0 /\ Links(s)[Greatest(K)].up
             t == Greatest(K) = 0 \/ Links(s)[Greatest(K)].total
  <2>1. Profile(s, metrics, a, policy.peer) = [connected |-> c, total |-> t]
    BY Zenon DEF Profile, SelectLastInSeq, Greatest
  <2>2. metric = <<metrics[i]>>
    BY <1>1
  <2> HIDE DEF t, metric, K
  <2>3. metric # <<>> /\ metric[1] = metrics[i]
    BY <2>2
  <2>4. c
    BY <1>1, <2>3
  <2> HIDE DEF c
  <2>5. Profile(s, metrics, a, policy.peer).connected = c
    BY <2>1
  <2> QED
    BY <2>4, <2>5
<1> QED
  BY <1>4, <1>5

(* The links of a direction, and the devices of an entity for a peer.      *)
LinksFrom(s, a, b) == {k \in 1 .. Len(Links(s)) : Links(s)[k].source = a /\ Links(s)[k].target = b}
DevicesFor(e, b) == {j \in 1 .. Len(e.devices) : e.devices[j].peer = b}

LastOnesMatch(s, e, b) ==
  LET K == LinksFrom(s, e.id, b)
      J == DevicesFor(e, b)
  IN  /\ Greatest(K) = 0 <=> Greatest(J) = 0
      /\ Greatest(J) # 0 => Links(s)[Greatest(K)].total = e.devices[Greatest(J)].total

(* The last link of a direction is the one of the last device of its       *)
(* source for its target.                                                  *)
LEMMA LastLink ==
  ASSUME NEW s, IsSnapshot(s), NEW i \in 1 .. Len(s.entities), NEW peer
  PROVE  LastOnesMatch(s, s.entities[i], peer)
<1> DEFINE K == LinksFrom(s, s.entities[i].id, peer)
           D == Len(s.entities[i].devices)
           J == DevicesFor(s.entities[i], peer)
<1> SUFFICES /\ Greatest(K) = 0 <=> Greatest(J) = 0
             /\ Greatest(J) # 0 => Links(s)[Greatest(K)].total = s.entities[i].devices[Greatest(J)].total
  BY DEF LastOnesMatch
<1>1. PICK before \in [1 .. Len(s.entities) -> Nat] : LinksAre(s, before)
  BY LinksFacts
<1>2. ASSUME NEW h \in 1 .. Len(s.entities), NEW j \in 1 .. Len(s.entities[h].devices)
      PROVE  /\ before[h] + j \in 1 .. Len(Links(s))
             /\ Links(s)[before[h] + j].source = s.entities[h].id
             /\ Links(s)[before[h] + j].target = s.entities[h].devices[j].peer
             /\ Links(s)[before[h] + j].total = s.entities[h].devices[j].total
  <2> DEFINE e == s.entities[h]
             d == e.devices[j]
             u == d.up /\ e.alive /\ Alive(s, d.peer)
             k == before[h] + j
  <2>1. k \in 1 .. Len(Links(s)) /\ Links(s)[k] = LinkOf(s, h, j)
    BY <1>1 DEF LinksAre
  <2>2. Links(s)[k] = [source |-> e.id, target |-> d.peer, total |-> d.total, odd |-> d.odd,
                       up |-> u]
    BY <2>1, Zenon DEF LinkOf
  <2> HIDE DEF u, k, d, e
  <2>3. Links(s)[k].source = e.id /\ Links(s)[k].target = d.peer /\ Links(s)[k].total = d.total
    BY <2>2
  <2> QED
    BY <2>1, <2>3 DEF k, d, e
<1>3. \A h \in 1 .. Len(s.entities) : s.entities[h].id = s.entities[i].id => h = i
  BY DEF IsSnapshot
<1>4. D \in Nat /\ Len(Links(s)) \in Nat /\ before[i] \in Nat
  BY SnapshotFacts, LinksFacts
<1>5. \A j \in J : before[i] + j \in K
  BY <1>2 DEF LinksFrom, DevicesFor
<1>6. ASSUME NEW k \in K PROVE \E j \in J : k = before[i] + j
  <2>0. /\ k \in 1 .. Len(Links(s)) /\ Links(s)[k].source = s.entities[i].id
        /\ Links(s)[k].target = peer
    BY DEF LinksFrom
  <2>1. PICK h \in 1 .. Len(s.entities) : \E j \in 1 .. Len(s.entities[h].devices) : k = before[h] + j
    BY <1>1, <2>0 DEF LinksAre
  <2>2. PICK j \in 1 .. Len(s.entities[h].devices) : k = before[h] + j
    BY <2>1
  <2>3. s.entities[h].id = s.entities[i].id /\ s.entities[h].devices[j].peer = peer
    BY <1>2, <2>0, <2>2
  <2>4. h = i
    BY <1>3, <2>3
  <2> QED
    BY <2>2, <2>3, <2>4 DEF DevicesFor
<1>7. /\ K = {} => Greatest(K) = 0
      /\ K # {} => Greatest(K) \in K /\ Greatest(K) # 0 /\ \A k \in K : k <= Greatest(K)
  <2>1. K \in SUBSET (1 .. Len(Links(s)))
    BY DEF LinksFrom
  <2> HIDE DEF K
  <2> QED
    BY <1>4, <2>1, GreatestFacts
<1>8. /\ J = {} => Greatest(J) = 0
      /\ J # {} => Greatest(J) \in J /\ Greatest(J) # 0 /\ \A j \in J : j <= Greatest(J)
  <2>1. J \in SUBSET (1 .. D)
    BY DEF DevicesFor
  <2> HIDE DEF J, D
  <2> QED
    BY <1>4, <2>1, GreatestFacts
<1>9. \A j \in J : j \in Nat /\ j \in 1 .. D
  BY <1>4 DEF DevicesFor
<1>10. \A j \in J : Links(s)[before[i] + j].total = s.entities[i].devices[j].total
  BY <1>2, <1>9
<1> HIDE DEF K, J, D
<1>11. CASE J = {}
  BY <1>6, <1>7, <1>8, <1>11
<1>12. CASE J # {}
  <2>1. Greatest(J) \in J /\ Greatest(J) # 0 /\ K # {}
    BY <1>5, <1>8, <1>12
  <2>2. PICK j \in J : Greatest(K) = before[i] + j
    BY <1>6, <1>7, <2>1
  <2>3. before[i] + Greatest(J) <= before[i] + j /\ j <= Greatest(J)
    BY <1>5, <1>7, <1>8, <1>12, <2>1, <2>2
  <2>4. j = Greatest(J)
    BY <1>4, <1>9, <2>1, <2>3
  <2> QED
    BY <1>7, <1>10, <2>1, <2>2, <2>4
<1> QED
  BY <1>11, <1>12

(* A message can be delivered from entity i to the peer of its policy j    *)
(* exactly if the last device of i for that peer does not lose everything. *)
DeviceDecides(s, metrics, i, j) ==
  LET e == s.entities[i]
      peer == e.policies[j].peer
      direct == SelectLastInSeq(e.devices, LAMBDA d : d.peer = peer)
  IN  Deliverable(s, metrics, e.id, peer) <=> direct # 0 /\ ~ e.devices[direct].total

(* That is so in a direction with an available effect.                     *)
LEMMA DeliverableFacts ==
  ASSUME NEW s, IsSnapshot(s), NEW metrics, NEW i \in 1 .. Len(s.entities),
         NEW j \in 1 .. Len(s.entities[i].policies),
         Effect(s, metrics, s.entities[i].id, s.entities[i].policies[j]) = "AVAILABLE"
  PROVE  DeviceDecides(s, metrics, i, j)
<1> DEFINE a == s.entities[i].id
           peer == s.entities[i].policies[j].peer
           K == LinksFrom(s, a, peer)
           J == DevicesFor(s.entities[i], peer)
           direct == SelectLastInSeq(s.entities[i].devices, LAMBDA d : d.peer = peer)
           metric == MetricFor(s, metrics, a, peer)
           c == IF metric # <<>> THEN metric[1].connected
                ELSE Greatest(K) # 0 /\ Links(s)[Greatest(K)].up
           t == Greatest(K) = 0 \/ Links(s)[Greatest(K)].total
<1>1. direct = Greatest(J)
  BY Zenon DEF SelectLastInSeq, Greatest, DevicesFor
<1> HIDE DEF direct
<1>2. Profile(s, metrics, a, peer) = [connected |-> c, total |-> t]
  BY Zenon DEF Profile, SelectLastInSeq, Greatest, LinksFrom
<1>3. metric # <<>> /\ metric[1].connected
  <2>1. Effect(s, metrics, a, s.entities[i].policies[j]) # "BLOCKED"
    OBVIOUS
  <2>2. PICK m \in 1 .. Len(s.flows) : metric = <<metrics[m]>> /\ metrics[m].connected
    BY <2>1, EffectFacts
  <2> HIDE DEF metric
  <2>3. metric # <<>> /\ metric[1] = metrics[m]
    BY <2>2
  <2> QED
    BY <2>2, <2>3
<1>4. /\ Greatest(K) = 0 <=> Greatest(J) = 0
      /\ Greatest(J) # 0 => Links(s)[Greatest(K)].total = s.entities[i].devices[Greatest(J)].total
  BY LastLink DEF LastOnesMatch
<1>5. c
  <2> HIDE DEF metric, K
  <2> QED
    BY <1>3
<1>6. t <=> Greatest(J) = 0 \/ s.entities[i].devices[Greatest(J)].total
  <2> HIDE DEF K, J
  <2> QED
    BY <1>4
<1> HIDE DEF c, t
<1>7. Profile(s, metrics, a, peer).connected = c /\ Profile(s, metrics, a, peer).total = t
  BY <1>2
<1>8. Deliverable(s, metrics, a, peer) <=> ~ t
  BY <1>5, <1>7 DEF Deliverable
<1> HIDE DEF J
<1>9. Deliverable(s, metrics, a, peer) <=> direct # 0 /\ ~ s.entities[i].devices[direct].total
  BY <1>1, <1>6, <1>8
<1> QED
  BY <1>9 DEF direct, DeviceDecides

=============================================================================
