-------------------------- MODULE GraphExecutorProofs --------------------------
(***************************************************************************)
(* Proofs about GraphExecutor for any graph, any number of workers and any *)
(* number of calls.                                                        *)
(***************************************************************************)
EXTENDS GraphExecutor, FiniteSetTheorems, SequenceTheorems, TLAPS

(* The types the proof uses: the two counters need not be natural numbers. *)
StateType ==
  /\ owner \in [Slots -> Nodes] /\ reads \in [Slots -> Values]
  /\ producer \in [Values -> Nodes \cup {None}]
  /\ workers \in 1..N
  /\ pc \in {"idle", "serial", "round", "join", "result"}
  /\ pending \in [Nodes -> Int] /\ uses \in [Values -> Int]
  /\ ready \in Seq(Nodes) /\ pool \in Seq(Nodes)
  /\ phase \in [Nodes -> Phases]
  /\ finished \subseteq Nodes /\ ended \subseteq Nodes /\ released \subseteq Values
  /\ count \in [Nodes -> Nat] /\ completed \in Int
  /\ status \in {"none", "ok", "error"}

IInv == StateType /\ SchedulerInv

-------------------------------------------------------------------------------
(* Nodes and slots are finite, and so is every set of them. *)
LEMMA Finite ==
  /\ \A S \in SUBSET Nodes : IsFiniteSet(S) /\ Cardinality(S) \in Nat
  /\ \A S \in SUBSET Slots : IsFiniteSet(S) /\ Cardinality(S) \in Nat
<1>1. IsFiniteSet(Nodes)
  BY FS_Interval, ExecutorAssumption DEF ExecutorAssumption, Nodes
<1>2. IsFiniteSet(Slots)
  BY ExecutorAssumption DEF ExecutorAssumption
<1> QED
  BY <1>1, <1>2, FS_Subset, FS_CardinalityType

(* The ascending enumeration of a set of nodes has its elements, once each. *)
LEMMA AscendingProperties ==
  ASSUME NEW S \in SUBSET Nodes, NEW q \in Ascending(S)
  PROVE  /\ q \in Seq(Nodes) /\ Len(q) = Cardinality(S) /\ Cardinality(S) \in Nat
         /\ \A i \in 1..Len(q) : q[i] \in S
         /\ \A i, j \in 1..Len(q) : q[i] = q[j] => i = j
<1> DEFINE k == Cardinality(S)
<1>1. k \in Nat
  BY Finite
<1>2. q \in [1..k -> S] /\ \A i, j \in 1..k : i < j => q[i] < q[j]
  BY DEF Ascending
<1>3. q \in Seq(Nodes) /\ Len(q) = k
  BY <1>1, <1>2
<1>4. ASSUME NEW i \in 1..k, NEW j \in 1..k, q[i] = q[j] PROVE i = j
  <2>1. q[i] \in Int /\ i \in Int /\ j \in Int
    <3>1. q[i] \in Nodes
      BY <1>2
    <3>2. q[i] \in Int
      BY <3>1, ExecutorAssumption DEF Nodes, ExecutorAssumption
    <3>3. i \in Int /\ j \in Int
      BY <1>1
    <3> QED
      BY <3>2, <3>3
  <2>2. i < j => q[i] < q[j]
    BY <1>2
  <2>3. j < i => q[j] < q[i]
    BY <1>2
  <2> QED
    BY <1>4, <2>1, <2>2, <2>3
<1> QED
  BY <1>1, <1>2, <1>3, <1>4

(* The place of an element behind the one that is taken out. *)
LEMMA BehindTheHole ==
  ASSUME NEW m \in Nat, NEW i \in 1..m, NEW j \in 1..(m - 1), ~(j < i)
  PROVE  j - (i - 1) \in 1..(m - i) /\ i + (j - (i - 1)) = j + 1 /\ ~(j <= i - 1)
OBVIOUS

(* The place of an element before it. *)
LEMMA BeforeTheHole ==
  ASSUME NEW m \in Nat, NEW i \in 1..m, NEW j \in 1..(m - 1), j < i
  PROVE  j \in 1..(i - 1) /\ j <= i - 1
OBVIOUS

(* Taking one element out of a sequence leaves the others, in order. *)
LEMMA RemoveProperties ==
  ASSUME NEW s \in Seq(Nodes), NEW i \in DOMAIN s, NEW t,
         t = SubSeq(s, 1, i - 1) \o SubSeq(s, i + 1, Len(s))
  PROVE  /\ t \in Seq(Nodes) /\ Len(t) = Len(s) - 1
         /\ \A j \in 1..Len(t) : t[j] = IF j < i THEN s[j] ELSE s[j + 1]
<1> DEFINE a == SubSeq(s, 1, i - 1)  b == SubSeq(s, i + 1, Len(s))
<1>1. Len(s) \in Nat /\ i \in 1..Len(s) /\ \A j \in 1..Len(s) : s[j] \in Nodes
  OBVIOUS
<1>2. a \in Seq(Nodes) /\ Len(a) = i - 1 /\ \A j \in 1..(i - 1) : a[j] = s[j]
  <2>1. i - 1 \in Int /\ \A j \in 1..(i - 1) : s[j] \in Nodes
    BY <1>1
  <2>2. /\ SubSeq(s, 1, i - 1) \in Seq(Nodes) /\ Len(SubSeq(s, 1, i - 1)) = IF 1 <= i - 1 THEN (i - 1) - 1 + 1 ELSE 0
        /\ \A j \in 1..((i - 1) - 1 + 1) : SubSeq(s, 1, i - 1)[j] = s[1 + j - 1]
    BY <2>1, SubSeqProperties
  <2> QED BY <1>1, <2>2
<1>3. b \in Seq(Nodes) /\ Len(b) = Len(s) - i /\ \A j \in 1..(Len(s) - i) : b[j] = s[i + j]
  <2>1. i + 1 \in Int /\ Len(s) \in Int /\ \A j \in (i + 1)..Len(s) : s[j] \in Nodes
    BY <1>1
  <2>2. /\ SubSeq(s, i + 1, Len(s)) \in Seq(Nodes)
        /\ Len(SubSeq(s, i + 1, Len(s))) = IF i + 1 <= Len(s) THEN Len(s) - (i + 1) + 1 ELSE 0
        /\ \A j \in 1..(Len(s) - (i + 1) + 1) : SubSeq(s, i + 1, Len(s))[j] = s[(i + 1) + j - 1]
    BY <2>1, SubSeqProperties
  <2> QED BY <1>1, <2>2
<1>4. t = a \o b
  OBVIOUS
<1> HIDE DEF a, b
<1>5. /\ a \o b \in Seq(Nodes) /\ Len(a \o b) = Len(a) + Len(b)
      /\ \A j \in 1..(Len(a) + Len(b)) : (a \o b)[j] = IF j <= Len(a) THEN a[j] ELSE b[j - Len(a)]
  <2>1. a \in Seq(Nodes) /\ b \in Seq(Nodes)
    BY <1>2, <1>3
  <2>2. a \o b \in Seq(Nodes)
    BY <2>1
  <2>3. Len(a \o b) = Len(a) + Len(b)
    BY <2>1
  <2>4. \A j \in 1..(Len(a) + Len(b)) : (a \o b)[j] = IF j <= Len(a) THEN a[j] ELSE b[j - Len(a)]
    BY <2>1
  <2> QED
    BY <2>2, <2>3, <2>4
<1>6. Len(a) + Len(b) = Len(s) - 1
  BY <1>1, <1>2, <1>3
<1>7. ASSUME NEW j \in 1..(Len(s) - 1) PROVE t[j] = IF j < i THEN s[j] ELSE s[j + 1]
  <2> Len(s) \in Nat /\ i \in 1..Len(s) /\ Len(a) = i - 1
    BY <1>1, <1>2
  <2>1. CASE j < i
    <3>1. j \in 1..(i - 1) /\ j \in 1..(Len(a) + Len(b)) /\ j <= Len(a)
      <4>1. j \in 1..(Len(a) + Len(b))
        BY <1>6
      <4> QED
        BY <2>1, <4>1, BeforeTheHole
    <3>2. t[j] = a[j]
      BY <1>4, <1>5, <3>1
    <3> QED
      BY <1>2, <2>1, <3>1, <3>2
  <2>2. CASE ~(j < i)
    <3>1. /\ j - (i - 1) \in 1..(Len(s) - i) /\ i + (j - (i - 1)) = j + 1 /\ ~(j <= i - 1)
          /\ j \in 1..(Len(a) + Len(b))
      <4>1. j \in 1..(Len(a) + Len(b))
        BY <1>6
      <4> QED
        BY <2>2, <4>1, BehindTheHole
    <3>2. t[j] = b[j - (i - 1)]
      BY <1>2, <1>4, <1>5, <3>1
    <3>3. b[j - (i - 1)] = s[j + 1]
      BY <1>3, <3>1
    <3> QED
      BY <2>2, <3>2, <3>3
  <2> QED
    BY <2>1, <2>2
<1> QED
  BY <1>4, <1>5, <1>6, <1>7

-------------------------------------------------------------------------------
(* What the steps that move nodes between the sequences do to them. *)

LEMMA PickMoves ==
  ASSUME StateType, NEW n \in Nodes, Pick(n)
  PROVE  \E i \in 1..Len(ready) :
           /\ ready[i] = n
           /\ ready' \in Seq(Nodes) /\ Len(ready') = Len(ready) - 1 /\ Len(ready) \in Nat
           /\ \A j \in 1..Len(ready') : ready'[j] = IF j < i THEN ready[j] ELSE ready[j + 1]
<1>1. ready \in Seq(Nodes) /\ Len(ready) \in Nat
  BY DEF StateType
<1>2. PICK i \in 1..Len(ready) :
        ready[i] = n /\ ready' = SubSeq(ready, 1, i - 1) \o SubSeq(ready, i + 1, Len(ready))
  BY <1>1 DEF Pick
<1>3. i \in DOMAIN ready
  BY <1>1, <1>2
<1>4. /\ ready' \in Seq(Nodes) /\ Len(ready') = Len(ready) - 1
      /\ \A j \in 1..Len(ready') : ready'[j] = IF j < i THEN ready[j] ELSE ready[j + 1]
  BY <1>1, <1>2, <1>3, RemoveProperties
<1> QED
  BY <1>1, <1>2, <1>4

LEMMA StartMoves ==
  ASSUME StateType, NEW n \in Nodes, Start(n)
  PROVE  /\ Len(pool) \in Nat /\ Len(pool) >= 1 /\ pool[1] = n
         /\ pool' \in Seq(Nodes) /\ Len(pool') = Len(pool) - 1
         /\ \A i \in 1..Len(pool') : pool'[i] = pool[i + 1]
<1>1. pool \in Seq(Nodes) /\ pool # <<>> /\ Head(pool) = n /\ pool' = Tail(pool)
  BY DEF StateType, Start
<1> QED
  BY <1>1

LEMMA LaunchMoves ==
  ASSUME StateType, Launch
  PROVE  \E k \in 1..Len(ready) :
           /\ Len(ready) \in Nat /\ Len(pool) \in Nat
           /\ ready' \in Seq(Nodes) /\ Len(ready') = Len(ready) - k
           /\ \A i \in 1..Len(ready') : ready'[i] = ready[k + i]
           /\ pool' \in Seq(Nodes) /\ Len(pool') = Len(pool) + k
           /\ \A i \in 1..Len(pool) : pool'[i] = pool[i]
           /\ \A i \in 1..k : pool'[Len(pool) + i] = ready[i]
           /\ phase' = [n \in Nodes |-> IF \E i \in 1..k : ready[i] = n THEN "queued" ELSE phase[n]]
<1>1. /\ ready \in Seq(Nodes) /\ Len(ready) \in Nat /\ ready # <<>>
      /\ pool \in Seq(Nodes) /\ Len(pool) \in Nat /\ workers \in Nat /\ workers >= 1
  BY ExecutorAssumption DEF StateType, Launch, ExecutorAssumption
<1> DEFINE k == IF Len(ready) < workers THEN Len(ready) ELSE workers
           batch == SubSeq(ready, 1, k)
<1>2. k \in 1..Len(ready)
  BY <1>1
<1>3. /\ ready' = SubSeq(ready, k + 1, Len(ready)) /\ pool' = pool \o batch
      /\ phase' = [n \in Nodes |-> IF \E i \in 1..k : batch[i] = n THEN "queued" ELSE phase[n]]
  BY DEF Launch
<1> HIDE DEF k
<1>4. batch \in Seq(Nodes) /\ Len(batch) = k /\ \A i \in 1..k : batch[i] = ready[i]
  <2>1. 1 \in Int /\ k \in Int /\ \A i \in 1..k : ready[i] \in Nodes
    BY <1>1, <1>2
  <2>2. /\ batch \in Seq(Nodes) /\ Len(batch) = IF 1 <= k THEN k - 1 + 1 ELSE 0
        /\ \A i \in 1..(k - 1 + 1) : batch[i] = ready[1 + i - 1]
    BY <2>1, SubSeqProperties
  <2> QED
    BY <1>2, <2>1, <2>2
<1>5. /\ ready' \in Seq(Nodes) /\ Len(ready') = Len(ready) - k
      /\ \A i \in 1..Len(ready') : ready'[i] = ready[k + i]
  <2>1. k + 1 \in Int /\ Len(ready) \in Int /\ \A i \in (k + 1)..Len(ready) : ready[i] \in Nodes
    BY <1>1, <1>2
  <2>2. /\ ready' \in Seq(Nodes)
        /\ Len(ready') = IF k + 1 <= Len(ready) THEN Len(ready) - (k + 1) + 1 ELSE 0
        /\ \A i \in 1..(Len(ready) - (k + 1) + 1) : ready'[i] = ready[k + 1 + i - 1]
    BY <1>3, <2>1, SubSeqProperties
  <2> QED
    BY <1>1, <1>2, <2>1, <2>2
<1> HIDE DEF batch
<1>6. /\ pool' \in Seq(Nodes) /\ Len(pool') = Len(pool) + k
      /\ \A i \in 1..(Len(pool) + k) : pool'[i] = IF i <= Len(pool) THEN pool[i] ELSE batch[i - Len(pool)]
  <2>1. /\ pool \o batch \in Seq(Nodes) /\ Len(pool \o batch) = Len(pool) + Len(batch)
        /\ \A i \in 1..(Len(pool) + Len(batch)) :
             (pool \o batch)[i] = IF i <= Len(pool) THEN pool[i] ELSE batch[i - Len(pool)]
    BY <1>1, <1>4, ConcatProperties
  <2> QED
    BY <1>3, <1>4, <2>1, Zenon
<1>7. ASSUME NEW i \in 1..k PROVE pool'[Len(pool) + i] = ready[i]
  <2>1. Len(pool) + i \in 1..(Len(pool) + k) /\ ~(Len(pool) + i <= Len(pool)) /\ Len(pool) + i - Len(pool) = i
    BY <1>1, <1>2
  <2> QED
    BY <1>4, <1>6, <2>1
<1>8. ASSUME NEW i \in 1..Len(pool) PROVE pool'[i] = pool[i]
  BY <1>1, <1>2, <1>6
<1>9. phase' = [n \in Nodes |-> IF \E i \in 1..k : ready[i] = n THEN "queued" ELSE phase[n]]
  BY <1>3, <1>4
<1> QED
  BY <1>1, <1>2, <1>5, <1>6, <1>7, <1>8, <1>9, Zenon

LEMMA EndMoves ==
  ASSUME StateType, NEW n \in Nodes, EndNode(n)
  PROVE  /\ Len(ready) \in Nat /\ ready' \in Seq(Nodes) /\ Len(ready') >= Len(ready)
         /\ \A i \in 1..Len(ready) : ready'[i] = ready[i]
         /\ \A i \in 1..Len(ready') : i > Len(ready) =>
              Feeds(n, ready'[i]) # {} /\ pending'[ready'[i]] = 0
         /\ \A i, j \in 1..Len(ready') :
              i > Len(ready) /\ j > Len(ready) /\ ready'[i] = ready'[j] => i = j
<1> DEFINE S == {m \in Nodes : Feeds(n, m) # {} /\ pending'[m] = 0}
<1>1. PICK q \in Ascending(S) : ready' = ready \o q
  BY DEF EndNode
<1>2. S \in SUBSET Nodes
  OBVIOUS
<1>3. \A m \in S : m \in Nodes /\ Feeds(n, m) # {} /\ pending'[m] = 0
  OBVIOUS
<1> HIDE DEF S
<1>4. /\ q \in Seq(Nodes) /\ Len(q) \in Nat
      /\ \A i \in 1..Len(q) : q[i] \in S
      /\ \A i, j \in 1..Len(q) : q[i] = q[j] => i = j
  BY <1>2, AscendingProperties
<1>5. ready \in Seq(Nodes) /\ Len(ready) \in Nat
  BY DEF StateType
<1>6. /\ ready' \in Seq(Nodes) /\ Len(ready') = Len(ready) + Len(q)
      /\ \A i \in 1..(Len(ready) + Len(q)) :
           ready'[i] = IF i <= Len(ready) THEN ready[i] ELSE q[i - Len(ready)]
  <2>1. /\ ready \o q \in Seq(Nodes) /\ Len(ready \o q) = Len(ready) + Len(q)
        /\ \A i \in 1..(Len(ready) + Len(q)) :
             (ready \o q)[i] = IF i <= Len(ready) THEN ready[i] ELSE q[i - Len(ready)]
    BY <1>4, <1>5, ConcatProperties
  <2> QED
    BY <1>1, <2>1, Zenon
<1>7. ASSUME NEW i \in 1..Len(ready'), i > Len(ready)
      PROVE  i - Len(ready) \in 1..Len(q) /\ ready'[i] = q[i - Len(ready)]
  BY <1>4, <1>5, <1>6, <1>7
<1>8. ASSUME NEW i \in 1..Len(ready'), NEW j \in 1..Len(ready'),
             i > Len(ready), j > Len(ready), ready'[i] = ready'[j]
      PROVE  i = j
  <2>1. i - Len(ready) = j - Len(ready)
    BY <1>4, <1>7, <1>8
  <2> QED
    BY <1>5, <1>6, <2>1
<1>9. Len(ready') >= Len(ready) /\ \A i \in 1..Len(ready) : ready'[i] = ready[i]
  BY <1>4, <1>5, <1>6
<1>10. ASSUME NEW i \in 1..Len(ready'), i > Len(ready)
       PROVE  Feeds(n, ready'[i]) # {} /\ pending'[ready'[i]] = 0
  <2>1. ready'[i] \in S
    BY <1>4, <1>7, <1>10
  <2> QED
    BY <1>3, <2>1
<1> QED
  BY <1>5, <1>6, <1>8, <1>9, <1>10, Zenon

-------------------------------------------------------------------------------
(* The slots of a node, and of a pair of nodes, can be counted. *)
LEMMA SlotCounts ==
  /\ \A n \in Nodes : Cardinality(Deps(n)) \in Nat
  /\ \A n, m \in Nodes : Cardinality(Feeds(n, m)) \in Nat
  /\ \A n \in Nodes : \A v \in Values : Cardinality(Reads(n, v)) \in Nat
  /\ \A v \in Values : Cardinality({s \in Slots : reads[s] = v}) \in Nat
<1>1. \A n \in Nodes : Deps(n) \in SUBSET Slots
  BY DEF Deps, Inputs
<1>2. \A n, m \in Nodes : Feeds(n, m) \in SUBSET Slots
  BY DEF Feeds, Inputs
<1>3. \A n \in Nodes : \A v \in Values : Reads(n, v) \in SUBSET Slots
  BY DEF Reads, Inputs
<1>4. \A v \in Values : {s \in Slots : reads[s] = v} \in SUBSET Slots
  OBVIOUS
<1> QED
  BY <1>1, <1>2, <1>3, <1>4, Finite

LEMMA TypeStep == StateType /\ [Next]_vars => StateType'
<1> SUFFICES ASSUME StateType, [Next]_vars PROVE StateType'
  OBVIOUS
<1> USE DEF graphVars, setupVars, schedVars, callVars, history
<1>1. ASSUME Finalize PROVE StateType'
  <2>1. workers' \in 1..N
    BY <1>1, ExecutorAssumption DEF Finalize, ExecutorAssumption
  <2>2. pending' \in [Nodes -> Int]
    BY <1>1, SlotCounts DEF Finalize
  <2> QED
    BY <1>1, <2>1, <2>2 DEF Finalize, StateType
<1>2. ASSUME Run PROVE StateType'
  <2>1. pending' \in [Nodes -> Int] /\ uses' \in [Values -> Int]
    BY <1>2, SlotCounts DEF Run
  <2>2. PICK S \in SUBSET Nodes : ready' \in Ascending(S)
    BY <1>2 DEF Run
  <2>3. ready' \in Seq(Nodes)
    BY <2>2, AscendingProperties
  <2> QED
    BY <1>2, <2>1, <2>3 DEF Run, StateType
<1>3. ASSUME SerialEnd \/ Join \/ Leave \/ Return PROVE StateType'
  BY <1>3 DEF SerialEnd, Join, Leave, Return, StateType
<1>4. ASSUME Launch PROVE StateType'
  <2>1. ready' \in Seq(Nodes) /\ pool' \in Seq(Nodes)
    BY <1>4, LaunchMoves
  <2>2. phase' \in [Nodes -> Phases] /\ pc' = "join"
    BY <1>4 DEF Launch, StateType, Phases
  <2> QED
    BY <1>4, <2>1, <2>2 DEF Launch, StateType
<1>5. ASSUME NEW n \in Nodes, NodeStep(n) PROVE StateType'
  <2>1. CASE KernelRuns(n) BY <2>1 DEF KernelRuns, StateType, Phases
  <2>2. CASE KernelFails(n) BY <2>2 DEF KernelFails, StateType, Phases
  <2>3. CASE ReleaseInputs(n)
    <3>1. uses' \in [Values -> Int]
      BY <2>3, SlotCounts DEF ReleaseInputs, StateType
    <3> QED
      BY <2>3, <3>1 DEF ReleaseInputs, StateType, Phases
  <2>4. CASE EndNode(n)
    <3>1. pending' \in [Nodes -> Int]
      BY <2>4, SlotCounts DEF EndNode, StateType
    <3>2. ready' \in Seq(Nodes)
      BY <2>4, EndMoves
    <3> QED
      BY <2>4, <3>1, <3>2 DEF EndNode, StateType, Phases
  <2>5. CASE EndFailed(n) BY <2>5 DEF EndFailed, StateType, Phases
  <2>6. CASE Pick(n)
    <3>1. ready' \in Seq(Nodes)
      BY <2>6, PickMoves
    <3>2. phase' \in [Nodes -> Phases]
      BY <2>6 DEF Pick, StateType, Phases
    <3>3. count' \in [Nodes -> Nat]
      <4>1. count' = [count EXCEPT ![n] = @ + 1] /\ count \in [Nodes -> Nat]
        BY <2>6 DEF Pick, StateType
      <4> QED
        BY <4>1
    <3>4. UNCHANGED <<owner, reads, producer, workers, pc, status, pending, uses, pool, finished, ended,
                    released, completed>>
      BY <2>6 DEF Pick
    <3> QED
      BY <3>1, <3>2, <3>3, <3>4 DEF StateType
  <2>7. CASE Start(n)
    <3>1. pool' \in Seq(Nodes)
      BY <2>7, StartMoves
    <3> QED
      BY <2>7, <3>1 DEF Start, StateType, Phases
  <2> QED
    BY <1>5, <2>1, <2>2, <2>3, <2>4, <2>5, <2>6, <2>7 DEF NodeStep
<1>6. ASSUME Reject \/ Rest \/ UNCHANGED vars PROVE StateType'
  BY <1>6 DEF Reject, Rest, vars, StateType
<1> QED
  BY <1>1, <1>2, <1>3, <1>4, <1>5, <1>6 DEF Next, CallerStep

(* The graph never changes, so neither do its slots and predecessors. *)
LEMMA GraphFixed ==
  ASSUME [Next]_vars
  PROVE  /\ UNCHANGED <<owner, reads, producer, kept>>
         /\ \A n \in Nodes : Predecessors(n)' = Predecessors(n) /\ Deps(n)' = Deps(n)
<1>1. UNCHANGED <<owner, reads, producer, kept>>
  <2> USE DEF graphVars
  <2>1. ASSUME NEW n \in Nodes, NodeStep(n) PROVE UNCHANGED <<owner, reads, producer, kept>>
    BY <2>1 DEF NodeStep, KernelRuns, KernelFails, ReleaseInputs, EndNode, EndFailed, Pick, Start
  <2> QED
    BY <2>1 DEF Next, Finalize, Run, CallerStep, SerialEnd, Launch, Join, Leave, Return, Reject, Rest, vars
<1> QED
  BY <1>1 DEF Predecessors, Deps, Inputs

-------------------------------------------------------------------------------
(* What each step does to the places of the nodes, in one place. *)
LEMMA NodeFrames ==
  ASSUME StateType, QueueInv, NEW n \in Nodes, NodeStep(n)
  PROVE  /\ \A m \in Nodes : m # n => phase'[m] = phase[m] /\ count'[m] = count[m]
         /\ ended' = IF phase[n] = "released" THEN ended \cup {n} ELSE ended
         /\ finished' = IF phase[n] = "running" /\ phase'[n] = "ran" THEN finished \cup {n} ELSE finished
         /\ \/ phase[n] = "running" /\ phase'[n] \in {"ran", "failed"} /\ count'[n] = count[n]
            \/ phase[n] = "ran" /\ phase'[n] = "released" /\ count'[n] = count[n]
            \/ phase[n] = "released" /\ phase'[n] = "out" /\ count'[n] = count[n]
            \/ phase[n] = "failed" /\ phase'[n] = "out" /\ count'[n] = count[n]
            \/ phase[n] = "out" /\ phase'[n] = "running" /\ count'[n] = count[n] + 1 /\ Pick(n)
            \/ phase[n] = "queued" /\ phase'[n] = "running" /\ count'[n] = count[n] + 1 /\ Start(n)
<1> USE DEF schedVars, callVars, history, StateType, NodeStep
<1>1. CASE KernelRuns(n) BY <1>1 DEF KernelRuns
<1>2. CASE KernelFails(n) BY <1>2 DEF KernelFails
<1>3. CASE ReleaseInputs(n) BY <1>3 DEF ReleaseInputs
<1>4. CASE EndNode(n) BY <1>4 DEF EndNode
<1>5. CASE EndFailed(n) BY <1>5 DEF EndFailed
<1>6. CASE Pick(n)
  <2>1. phase[n] = "out"
    BY <1>6 DEF Pick
  <2> QED
    BY <1>6, <2>1 DEF Pick
<1>7. CASE Start(n)
  <2>1. phase[n] = "queued"
    <3>1. 1 \in 1..Len(pool) /\ pool[1] = n
      BY <1>7, StartMoves
    <3>2. \A i \in 1..Len(pool) : phase[pool[i]] = "queued"
      BY DEF QueueInv
    <3> QED
      BY <3>1, <3>2, Zenon
  <2> QED
    BY <1>7, <2>1 DEF Start
<1> QED
  BY <1>1, <1>2, <1>3, <1>4, <1>5, <1>6, <1>7

LEMMA PhaseInvStep == StateType /\ SchedulerInv /\ [Next]_vars => PhaseInv'
<1> SUFFICES ASSUME StateType, SchedulerInv, [Next]_vars PROVE PhaseInv'
  OBVIOUS
<1> USE DEF graphVars, setupVars, schedVars, callVars, history
<1>1. ASSUME Run PROVE PhaseInv'
  <2>1. \A n \in Nodes : phase'[n] = "out" /\ count'[n] = 0
    BY <1>1 DEF Run, SchedulerInv, CallerInv, Busy
  <2> QED
    BY <1>1, <2>1 DEF Run, PhaseInv, Busy
<1>2. ASSUME Launch PROVE PhaseInv'
  <2>1. PICK k \in 1..Len(ready) :
          phase' = [n \in Nodes |-> IF \E i \in 1..k : ready[i] = n THEN "queued" ELSE phase[n]]
    BY <1>2, LaunchMoves
  <2>2. Len(ready) \in Nat /\ UNCHANGED <<finished, ended, count>>
    BY <1>2 DEF Launch, StateType
  <2>3. ASSUME NEW n \in Nodes PROVE phase'[n] = phase[n] \/ (phase'[n] = "queued" /\ count[n] = 0)
    <3>0. phase'[n] = IF \E i \in 1..k : ready[i] = n THEN "queued" ELSE phase[n]
      BY <2>1, Zenon
    <3>1. CASE \E i \in 1..k : ready[i] = n
      <4>1. PICK i \in 1..Len(ready) : ready[i] = n
        BY <2>2, <3>1
      <4>2. phase'[n] = "queued"
        BY <2>1, <3>1
      <4>3. count[n] = 0
        BY <4>1 DEF SchedulerInv, ReadyInv
      <4> QED
        BY <4>2, <4>3
    <3>2. CASE ~ \E i \in 1..k : ready[i] = n
      BY <3>0, <3>2
    <3> QED
      BY <3>1, <3>2
  <2> QED
    BY <2>2, <2>3 DEF SchedulerInv, PhaseInv, Busy
<1>3. ASSUME NEW n \in Nodes, NodeStep(n) PROVE PhaseInv'
  <2>0. SchedulerInv /\ PhaseInv /\ QueueInv /\ ended \subseteq finished
    BY DEF SchedulerInv, PhaseInv
  <2>1. ASSUME NEW m \in Nodes, m # n
        PROVE  /\ phase'[m] = phase[m] /\ count'[m] = count[m]
               /\ (m \in ended' <=> m \in ended) /\ (m \in finished' <=> m \in finished)
    BY <1>3, <2>0, <2>1, NodeFrames
  <2>2. Pick(n) => count[n] = 0
    BY PickMoves DEF SchedulerInv, ReadyInv
  <2>3. phase[n] = "queued" => count[n] = 0
    BY <2>0 DEF PhaseInv
  <2>4. ended' \subseteq finished'
    BY <1>3, <2>0, NodeFrames DEF PhaseInv
  <2>5. /\ n \in finished' => count'[n] = 1
        /\ count'[n] \in {0, 1}
        /\ phase'[n] = "queued" => count'[n] = 0
        /\ phase'[n] \notin {"out", "queued"} => count'[n] = 1
        /\ phase'[n] # "out" => n \notin ended'
        /\ phase'[n] \in {"ran", "released"} => n \in finished'
        /\ phase'[n] \in {"queued", "running", "failed"} => n \notin finished'
    BY <1>3, <2>0, <2>2, <2>3, NodeFrames DEF PhaseInv, Busy
  <2> QED
    BY <2>0, <2>1, <2>4, <2>5 DEF PhaseInv, Busy
<1>4. ASSUME Finalize \/ SerialEnd \/ Join \/ Leave \/ Return \/ Reject \/ Rest \/ UNCHANGED vars PROVE PhaseInv'
  <2>1. UNCHANGED <<phase, finished, ended, count>>
    BY <1>4 DEF Finalize, SerialEnd, Join, Leave, Return, Reject, Rest, vars
  <2> QED
    BY <2>1 DEF SchedulerInv, PhaseInv, Busy
<1> QED
  BY <1>1, <1>2, <1>3, <1>4 DEF Next, CallerStep

LEMMA QueueInvStep == StateType /\ SchedulerInv /\ [Next]_vars => QueueInv'
<1> SUFFICES ASSUME StateType, SchedulerInv, [Next]_vars PROVE QueueInv'
  OBVIOUS
<1> USE DEF graphVars, setupVars, schedVars, callVars, history
<1>0. pool \in Seq(Nodes) /\ ready \in Seq(Nodes) /\ Len(pool) \in Nat /\ Len(ready) \in Nat
  BY DEF StateType
<1>1. QueueInv /\ ReadyInv
  BY DEF SchedulerInv
<1>2. ASSUME Launch PROVE QueueInv'
  <2>1. PICK k \in 1..Len(ready) :
           /\ Len(pool') = Len(pool) + k
           /\ \A i \in 1..Len(pool) : pool'[i] = pool[i]
           /\ \A i \in 1..k : pool'[Len(pool) + i] = ready[i]
           /\ phase' = [n \in Nodes |-> IF \E i \in 1..k : ready[i] = n THEN "queued" ELSE phase[n]]
    BY <1>2, LaunchMoves
  <2>2. ASSUME NEW i \in 1..Len(pool')
        PROVE  \/ i \in 1..Len(pool) /\ pool'[i] = pool[i] /\ phase[pool'[i]] = "queued"
               \/ i - Len(pool) \in 1..k /\ pool'[i] = ready[i - Len(pool)] /\ phase[pool'[i]] = "out"
    <3>1. CASE i <= Len(pool)
      BY <1>0, <1>1, <2>1, <3>1 DEF QueueInv
    <3>2. CASE i > Len(pool)
      <4>1. i - Len(pool) \in 1..k /\ Len(pool) + (i - Len(pool)) = i /\ i - Len(pool) \in 1..Len(ready)
        BY <1>0, <2>1, <3>2
      <4>2. pool'[Len(pool) + (i - Len(pool))] = ready[i - Len(pool)]
        BY <2>1, <4>1
      <4>3. phase[ready[i - Len(pool)]] = "out"
        BY <1>1, <4>1 DEF ReadyInv
      <4> QED
        BY <4>1, <4>2, <4>3
    <3> QED
      BY <1>0, <2>1, <3>1, <3>2
  <2>3. ASSUME NEW i \in 1..Len(pool') PROVE phase'[pool'[i]] = "queued"
    <3>1. pool'[i] \in Nodes
      BY <1>0, <2>1, <2>2
    <3> QED
      BY <2>1, <2>2, <3>1
  <2>4. ASSUME NEW i \in 1..Len(pool'), NEW j \in 1..Len(pool'), pool'[i] = pool'[j] PROVE i = j
    <3>1. CASE phase[pool'[i]] = "queued"
      BY <1>1, <2>2, <2>4, <3>1 DEF QueueInv
    <3>2. CASE phase[pool'[i]] = "out"
      <4>1. i - Len(pool) \in 1..k /\ pool'[i] = ready[i - Len(pool)]
        BY <2>2, <3>2
      <4>2. j - Len(pool) \in 1..k /\ pool'[j] = ready[j - Len(pool)]
        BY <2>2, <2>4, <3>2
      <4>3. i - Len(pool) \in 1..Len(ready) /\ j - Len(pool) \in 1..Len(ready)
        BY <1>0, <4>1, <4>2
      <4>4. i - Len(pool) = j - Len(pool)
        BY <1>1, <2>4, <4>1, <4>2, <4>3 DEF ReadyInv
      <4> QED
        BY <1>0, <2>1, <4>4
    <3> QED
      BY <2>2, <3>1, <3>2
  <2> QED
    BY <2>3, <2>4 DEF QueueInv
<1>3. ASSUME NEW n \in Nodes, NodeStep(n) PROVE QueueInv'
  <2>1. CASE Start(n)
    <3>1. /\ Len(pool) >= 1 /\ pool[1] = n /\ Len(pool') = Len(pool) - 1
          /\ \A i \in 1..Len(pool') : pool'[i] = pool[i + 1]
      BY <2>1, StartMoves
    <3>2. ASSUME NEW i \in 1..Len(pool') PROVE i + 1 \in 1..Len(pool) /\ i + 1 # 1
      BY <1>0, <3>1
    <3>3. ASSUME NEW i \in 1..Len(pool') PROVE phase'[pool'[i]] = "queued"
      <4>1. pool[i + 1] \in Nodes /\ pool[i + 1] # n /\ phase[pool[i + 1]] = "queued"
        BY <1>0, <1>1, <3>1, <3>2 DEF QueueInv
      <4>2. phase'[pool[i + 1]] = phase[pool[i + 1]]
        BY <1>1, <1>3, <4>1, NodeFrames
      <4> QED
        BY <3>1, <4>1, <4>2
    <3>4. ASSUME NEW i \in 1..Len(pool'), NEW j \in 1..Len(pool'), pool'[i] = pool'[j] PROVE i = j
      <4>1. pool[i + 1] = pool[j + 1] /\ i + 1 \in 1..Len(pool) /\ j + 1 \in 1..Len(pool)
        BY <3>1, <3>2, <3>4
      <4>2. i + 1 = j + 1
        BY <1>1, <4>1 DEF QueueInv
      <4> QED
        BY <1>0, <3>1, <4>2
    <3> QED
      BY <3>3, <3>4 DEF QueueInv
  <2>2. CASE ~Start(n)
    <3>1. pool' = pool
      BY <1>3, <2>2 DEF NodeStep, KernelRuns, KernelFails, ReleaseInputs, EndNode, EndFailed, Pick
    <3>2. phase[n] # "queued"
      BY <1>1, <1>3, <2>2, NodeFrames
    <3>3. ASSUME NEW i \in 1..Len(pool) PROVE phase'[pool[i]] = "queued"
      BY <1>0, <1>1, <1>3, <3>2, NodeFrames DEF QueueInv
    <3> QED
      BY <1>1, <3>1, <3>3 DEF QueueInv
  <2> QED
    BY <2>1, <2>2
<1>4. ASSUME Finalize \/ Run \/ SerialEnd \/ Join \/ Leave \/ Return \/ Reject \/ Rest \/ UNCHANGED vars
      PROVE  QueueInv'
  <2>1. UNCHANGED <<phase, pool>>
    BY <1>4 DEF Finalize, Run, SerialEnd, Join, Leave, Return, Reject, Rest, vars
  <2> QED
    BY <1>1, <2>1 DEF QueueInv
<1> QED
  BY <1>2, <1>3, <1>4 DEF Next, CallerStep

LEMMA CallerInvStep == StateType /\ SchedulerInv /\ [Next]_vars => CallerInv'
<1> SUFFICES ASSUME StateType, SchedulerInv, [Next]_vars PROVE CallerInv'
  OBVIOUS
<1> USE DEF graphVars, setupVars, schedVars, callVars, history, Busy
<1>1. CallerInv /\ QueueInv
  BY DEF SchedulerInv
<1>2. ASSUME NEW n \in Nodes, NodeStep(n) PROVE CallerInv'
  <2>1. CASE Pick(n)
    <3>1. pc = "serial" /\ pc' = "serial" /\ \A m \in Nodes : phase[m] = "out"
      BY <2>1 DEF Pick
    <3>2. \A m \in Nodes : m # n => phase'[m] = "out"
      BY <1>1, <1>2, <3>1, NodeFrames
    <3>3. phase'[n] = "running"
      BY <2>1, <3>1 DEF Pick, StateType
    <3> QED
      BY <3>1, <3>2, <3>3 DEF CallerInv
  <2>2. CASE Start(n)
    <3>1. phase[n] = "queued"
      BY <2>2, StartMoves, <1>1 DEF QueueInv
    <3>2. pc = "join" /\ pc' = pc
      BY <1>1, <2>2, <3>1 DEF CallerInv, Start, StateType
    <3> QED
      BY <3>2 DEF CallerInv
  <2>3. CASE ~Pick(n) /\ ~Start(n)
    <3>1. phase[n] \notin {"out", "queued"} /\ phase'[n] # "queued"
      BY <1>1, <1>2, <2>3, NodeFrames
    <3>2. pc \in {"serial", "join"}
      BY <1>1, <3>1 DEF CallerInv, StateType
    <3>3. pc' = pc \/ (pc = "serial" /\ pc' = "result" /\ phase'[n] = "out")
      BY <1>2, <2>3, <3>2 DEF NodeStep, KernelRuns, KernelFails, ReleaseInputs, EndNode, EndFailed, StateType
    <3>4. \A m \in Nodes : m # n => phase'[m] = phase[m]
      BY <1>1, <1>2, NodeFrames
    <3> QED
      BY <1>1, <3>1, <3>2, <3>3, <3>4 DEF CallerInv
  <2> QED
    BY <2>1, <2>2, <2>3
<1>3. ASSUME Launch \/ Join \/ Leave \/ SerialEnd \/ Return \/ Run \/ Finalize \/ Reject \/ Rest \/ UNCHANGED vars
      PROVE  CallerInv'
  <2>1. CASE Launch BY <2>1 DEF Launch, CallerInv
  <2>2. CASE Join BY <2>2 DEF Join, CallerInv
  <2>3. CASE Leave BY <1>1, <2>3 DEF Leave, CallerInv
  <2>4. CASE SerialEnd BY <2>4 DEF SerialEnd, CallerInv
  <2>5. CASE Return BY <1>1, <2>5 DEF Return, CallerInv
  <2>6. CASE Run BY <1>1, <2>6 DEF Run, CallerInv
  <2>7. CASE Finalize BY <1>1, <2>7 DEF Finalize, CallerInv
  <2>8. CASE Reject \/ Rest \/ UNCHANGED vars BY <1>1, <2>8 DEF Reject, Rest, vars, CallerInv
  <2> QED
    BY <1>3, <2>1, <2>2, <2>3, <2>4, <2>5, <2>6, <2>7, <2>8
<1> QED
  BY <1>2, <1>3 DEF Next, CallerStep

-------------------------------------------------------------------------------
(* Taking away a subset takes away its size. *)
LEMMA SlotsMinus ==
  ASSUME NEW S \in SUBSET Slots, NEW T \in SUBSET S
  PROVE  Cardinality(S \ T) = Cardinality(S) - Cardinality(T)
<1>1. IsFiniteSet(S) /\ IsFiniteSet(T) /\ Cardinality(S) \in Nat /\ Cardinality(T) \in Nat
  BY Finite
<1>2. S \cap T = T
  OBVIOUS
<1> QED
  BY <1>1, <1>2, FS_Difference

LEMMA DependencyInvStep == StateType /\ SchedulerInv /\ [Next]_vars => DependencyInv'
<1> SUFFICES ASSUME StateType, SchedulerInv, [Next]_vars PROVE DependencyInv'
  OBVIOUS
<1> USE DEF graphVars, setupVars, schedVars, callVars, history
<1>1. DependencyInv /\ QueueInv /\ UNCHANGED <<owner, reads, producer>>
      /\ \A n \in Nodes : Deps(n)' = Deps(n)
  BY GraphFixed DEF SchedulerInv
<1>2. ASSUME Run PROVE DependencyInv'
  <2>1. ASSUME NEW m \in Nodes PROVE pending'[m] = Cardinality(Awaited(m)')
    <3>1. ended' = {} /\ pending'[m] = Cardinality(Deps(m))
      BY <1>2 DEF Run
    <3>2. Awaited(m)' = Deps(m)
      BY <1>1, <3>1 DEF Awaited
    <3> QED
      BY <3>1, <3>2
  <2> QED
    BY <2>1 DEF DependencyInv
<1>3. ASSUME NEW n \in Nodes, EndNode(n) PROVE DependencyInv'
  <2>1. phase[n] = "released" /\ n \notin ended /\ ended' = ended \cup {n} /\ pc # "idle"
    BY <1>3 DEF EndNode, SchedulerInv, PhaseInv, CallerInv, Busy
  <2>2. ASSUME NEW m \in Nodes PROVE pending'[m] = Cardinality(Awaited(m)')
    <3>1. pending'[m] = pending[m] - Cardinality(Feeds(n, m)) /\ pending[m] = Cardinality(Awaited(m))
      BY <1>1, <1>3, <2>1 DEF EndNode, StateType, DependencyInv
    <3>2. Awaited(m) \in SUBSET Slots
      BY DEF Awaited, Deps, Inputs
    <3>3. Feeds(n, m) \in SUBSET Awaited(m)
      BY <2>1, ExecutorAssumption DEF Feeds, Awaited, Deps, ExecutorAssumption
    <3>4. Awaited(m)' = Awaited(m) \ Feeds(n, m)
      BY <1>1, <2>1 DEF Awaited, Feeds, Deps
    <3> QED
      BY <3>1, <3>2, <3>3, <3>4, SlotsMinus
  <2> QED
    BY <2>2 DEF DependencyInv
<1>4. ASSUME UNCHANGED <<pending, ended>>, pc' # "idle" => pc # "idle" PROVE DependencyInv'
  <2>1. \A m \in Nodes : Awaited(m)' = Awaited(m)
    BY <1>1, <1>4 DEF Awaited
  <2> QED
    BY <1>1, <1>4, <2>1 DEF DependencyInv
<1>5. ASSUME NEW n \in Nodes, NodeStep(n), ~EndNode(n) PROVE DependencyInv'
  <2>1. UNCHANGED <<pending, ended>>
    BY <1>5 DEF NodeStep, KernelRuns, KernelFails, ReleaseInputs, EndFailed, Pick, Start
  <2>2. pc' # "idle" => pc # "idle"
    BY <1>5 DEF NodeStep, KernelRuns, KernelFails, ReleaseInputs, EndFailed, Pick, Start,
                SchedulerInv, CallerInv, Busy
  <2> QED
    BY <1>4, <2>1, <2>2
<1>6. ASSUME Finalize PROVE DependencyInv'
  BY <1>6 DEF Finalize, DependencyInv
<1>7. ASSUME CallerStep \/ Reject \/ Rest \/ UNCHANGED vars PROVE DependencyInv'
  BY <1>4, <1>7 DEF CallerStep, SerialEnd, Launch, Join, Leave, Return, Reject, Rest, vars
<1> QED
  BY <1>2, <1>3, <1>5, <1>6, <1>7 DEF Next

(* A node becomes ready when the last of its predecessors ends, and never again. *)
LEMMA ReadyInvStep == StateType /\ SchedulerInv /\ [Next]_vars => ReadyInv'
<1> SUFFICES ASSUME StateType, SchedulerInv, [Next]_vars PROVE ReadyInv'
  OBVIOUS
<1> USE DEF graphVars, setupVars, schedVars, callVars, history
<1>0. ready \in Seq(Nodes) /\ Len(ready) \in Nat /\ \A i \in 1..Len(ready) : ready[i] \in Nodes
  BY DEF StateType
<1>1. /\ ReadyInv /\ QueueInv /\ CallerInv /\ PhaseInv /\ DependencyInv /\ DependencyInv'
      /\ StateType' /\ \A n \in Nodes : Predecessors(n)' = Predecessors(n)
  BY GraphFixed, DependencyInvStep, TypeStep DEF SchedulerInv
<1>2. ASSUME Run PROVE ReadyInv'
  <2>1. \A n \in Nodes : phase'[n] = "out" /\ count'[n] = 0
    BY <1>1, <1>2 DEF Run, CallerInv, Busy
  <2> DEFINE S == {n \in Nodes : pending'[n] = 0}
  <2>2. ready' \in Ascending(S)
    BY <1>2 DEF Run
  <2>3. S \in SUBSET Nodes /\ \A n \in S : pending'[n] = 0
    OBVIOUS
  <2> HIDE DEF S
  <2>4. /\ \A i \in 1..Len(ready') : ready'[i] \in S
        /\ \A i, j \in 1..Len(ready') : ready'[i] = ready'[j] => i = j
    BY <2>2, <2>3, AscendingProperties
  <2>5. ASSUME NEW m \in Nodes, pending'[m] = 0 PROVE Predecessors(m) \subseteq ended'
    <3>1. pending'[m] = Cardinality(Deps(m))
      BY <1>2 DEF Run
    <3>2. Deps(m) \in SUBSET Slots
      BY DEF Deps, Inputs
    <3>3. Deps(m) = {}
      BY <2>5, <3>1, <3>2, Finite, FS_EmptySet
    <3> QED
      BY <3>3 DEF Predecessors
  <2> QED
    BY <1>1, <2>1, <2>3, <2>4, <2>5 DEF ReadyInv, Busy
<1>3. ASSUME NEW n \in Nodes, EndNode(n) PROVE ReadyInv'
  <2>1. /\ phase[n] = "released" /\ n \notin ended /\ ended' = ended \cup {n}
        /\ phase' = [phase EXCEPT ![n] = "out"] /\ UNCHANGED count /\ pc' # "idle"
    BY <1>1, <1>3 DEF EndNode, PhaseInv, CallerInv, Busy
  <2>2. ASSUME NEW m \in Nodes, Feeds(n, m) # {}
        PROVE  m # n /\ phase'[m] = "out" /\ count'[m] = 0 /\ ~(Predecessors(m) \subseteq ended)
    <3>1. n \in Predecessors(m)
      BY <2>2, ExecutorAssumption DEF Feeds, Predecessors, Deps, ExecutorAssumption
    <3>2. ~(Busy(m) \/ count[m] > 0) /\ count[m] \in Nat
      BY <1>1, <2>1, <3>1 DEF ReadyInv, StateType
    <3> QED
      BY <2>1, <3>1, <3>2 DEF Busy, StateType
  <2>3. ASSUME NEW i \in 1..Len(ready'), i > Len(ready)
        PROVE  /\ ready'[i] \in Nodes /\ Feeds(n, ready'[i]) # {} /\ pending'[ready'[i]] = 0
               /\ phase'[ready'[i]] = "out" /\ count'[ready'[i]] = 0
               /\ ~(Predecessors(ready'[i]) \subseteq ended) /\ Predecessors(ready'[i]) \subseteq ended'
    <3>1. ready'[i] \in Nodes
      BY <1>1 DEF StateType
    <3>2. Feeds(n, ready'[i]) # {} /\ pending'[ready'[i]] = 0
      BY <1>3, <2>3, EndMoves
    <3>4. PICK m \in Nodes : m = ready'[i]
      BY <3>1
    <3>5. Cardinality(Awaited(m)') = 0
      BY <1>1, <2>1, <3>2, <3>4 DEF DependencyInv
    <3>6. Awaited(m)' \in SUBSET Slots
      BY DEF Awaited, Deps, Inputs
    <3>7. Awaited(m)' = {}
      BY <3>5, <3>6, Finite, FS_EmptySet
    <3>8. Predecessors(m)' \subseteq ended'
      BY <3>7 DEF Awaited, Predecessors
    <3> QED
      BY <1>1, <2>2, <3>1, <3>2, <3>4, <3>8
  <2>4. ASSUME NEW i \in 1..Len(ready')
        PROVE  i > Len(ready) \/ (i \in 1..Len(ready) /\ ready'[i] = ready[i])
    BY <1>0, <1>3, EndMoves
  <2>5. ASSUME NEW i \in 1..Len(ready), ready'[i] = ready[i]
        PROVE  /\ phase'[ready'[i]] = "out" /\ count'[ready'[i]] = 0
               /\ Predecessors(ready'[i]) \subseteq ended /\ Predecessors(ready'[i]) \subseteq ended'
    BY <1>0, <1>1, <2>1, <2>5 DEF ReadyInv, StateType
  <2>6. ASSUME NEW i \in 1..Len(ready'), NEW j \in 1..Len(ready'), ready'[i] = ready'[j] PROVE i = j
    <3>1. CASE i > Len(ready) /\ j > Len(ready)
      BY <1>3, <2>6, <3>1, EndMoves
    <3>2. CASE ~(i > Len(ready)) /\ ~(j > Len(ready))
      BY <1>1, <2>4, <2>6, <3>2 DEF ReadyInv
    <3>3. CASE i > Len(ready) /\ ~(j > Len(ready))
      BY <2>3, <2>4, <2>5, <2>6, <3>3
    <3>4. CASE ~(i > Len(ready)) /\ j > Len(ready)
      BY <2>3, <2>4, <2>5, <2>6, <3>4
    <3> QED
      BY <3>1, <3>2, <3>3, <3>4
  <2>7. ASSUME NEW i \in 1..Len(ready')
        PROVE phase'[ready'[i]] = "out" /\ count'[ready'[i]] = 0 /\ Predecessors(ready'[i]) \subseteq ended'
    BY <2>3, <2>4, <2>5
  <2>8. ASSUME NEW m \in Nodes, NEW i \in 1..Len(ready'), ready'[i] = m PROVE Predecessors(m)' \subseteq ended'
    BY <1>1, <2>7, <2>8
  <2>9. ASSUME NEW m \in Nodes, phase'[m] # "out" \/ count'[m] > 0 PROVE Predecessors(m)' \subseteq ended'
    <3>1. Busy(m) \/ count[m] > 0
      BY <2>1, <2>9 DEF Busy, StateType
    <3> QED
      BY <1>1, <2>1, <3>1 DEF ReadyInv
  <2> QED
    BY <2>6, <2>7, <2>8, <2>9 DEF ReadyInv, Busy
<1>4. ASSUME NEW n \in Nodes, Pick(n) PROVE ReadyInv'
  <2>1. PICK i \in 1..Len(ready) :
           /\ ready[i] = n
           /\ ready' \in Seq(Nodes) /\ Len(ready') = Len(ready) - 1
           /\ \A j \in 1..Len(ready') : ready'[j] = IF j < i THEN ready[j] ELSE ready[j + 1]
    BY <1>4, PickMoves
  <2>2. /\ \A m \in Nodes : m # n => phase'[m] = phase[m] /\ count'[m] = count[m]
        /\ ended' = ended
    BY <1>4 DEF Pick, StateType
  <2>3. ASSUME NEW j \in 1..Len(ready')
        PROVE  \E l \in 1..Len(ready) : l # i /\ ready'[j] = ready[l] /\ l = IF j < i THEN j ELSE j + 1
    BY <1>0, <2>1
  <2>4. ASSUME NEW j \in 1..Len(ready')
        PROVE  /\ phase'[ready'[j]] = "out" /\ count'[ready'[j]] = 0
               /\ \A m \in Nodes : m = ready'[j] => Predecessors(m)' \subseteq ended'
    <3>1. PICK l \in 1..Len(ready) : l # i /\ ready'[j] = ready[l]
      BY <2>3
    <3>2. PICK m \in Nodes : m = ready[l]
      BY <1>0, <3>1
    <3>3. m # n /\ phase[m] = "out" /\ count[m] = 0 /\ Predecessors(m) \subseteq ended
      BY <1>1, <2>1, <3>1, <3>2 DEF ReadyInv
    <3>4. phase'[m] = "out" /\ count'[m] = 0 /\ Predecessors(m)' \subseteq ended'
      BY <1>1, <2>2, <3>3
    <3>5. m = ready'[j]
      BY <3>1, <3>2
    <3> QED
      BY <3>4, <3>5
  <2>5. ASSUME NEW j \in 1..Len(ready'), NEW h \in 1..Len(ready'), ready'[j] = ready'[h] PROVE j = h
    <3>1. PICK l \in 1..Len(ready) : ready'[j] = ready[l] /\ l = IF j < i THEN j ELSE j + 1
      BY <2>3
    <3>2. PICK r \in 1..Len(ready) : ready'[h] = ready[r] /\ r = IF h < i THEN h ELSE h + 1
      BY <2>3
    <3>3. l = r
      BY <1>1, <2>5, <3>1, <3>2 DEF ReadyInv
    <3>4. j \in Int /\ h \in Int /\ i \in Int
      BY <1>0, <2>1
    <3> QED
      BY <3>1, <3>2, <3>3, <3>4
  <2>6. ASSUME NEW m \in Nodes, phase'[m] # "out" \/ count'[m] > 0 PROVE Predecessors(m)' \subseteq ended'
    <3>1. CASE m = n
      BY <1>1, <2>1, <2>2, <3>1 DEF ReadyInv
    <3>2. CASE m # n
      BY <1>1, <2>2, <2>6, <3>2 DEF ReadyInv, Busy
    <3> QED
      BY <3>1, <3>2
  <2> QED
    BY <2>4, <2>5, <2>6 DEF ReadyInv, Busy
<1>5. ASSUME Launch PROVE ReadyInv'
  <2>1. PICK k \in 1..Len(ready) :
           /\ ready' \in Seq(Nodes) /\ Len(ready') = Len(ready) - k
           /\ \A i \in 1..Len(ready') : ready'[i] = ready[k + i]
           /\ phase' = [n \in Nodes |-> IF \E i \in 1..k : ready[i] = n THEN "queued" ELSE phase[n]]
    BY <1>5, LaunchMoves
  <2>2. ended' = ended /\ count' = count
    BY <1>5 DEF Launch
  <2>3. ASSUME NEW j \in 1..Len(ready') PROVE k + j \in 1..Len(ready) /\ ready'[j] = ready[k + j]
    BY <1>0, <2>1
  <2>4. ASSUME NEW j \in 1..Len(ready')
        PROVE  /\ phase'[ready'[j]] = "out" /\ count'[ready'[j]] = 0
               /\ \A m \in Nodes : m = ready'[j] => Predecessors(m)' \subseteq ended'
    <3>1. PICK m \in Nodes : m = ready[k + j]
      BY <1>0, <2>3
    <3>2. phase[m] = "out" /\ count[m] = 0 /\ Predecessors(m) \subseteq ended
      BY <1>1, <2>3, <3>1 DEF ReadyInv
    <3>3. ASSUME NEW i \in 1..k PROVE ready[i] # m
      <4>1. i \in 1..Len(ready) /\ i # k + j
        BY <1>0, <2>1
      <4> QED
        BY <1>1, <2>3, <3>1, <4>1 DEF ReadyInv
    <3>4. phase'[m] = "out"
      BY <2>1, <3>2, <3>3
    <3>5. m = ready'[j]
      BY <2>3, <3>1
    <3> QED
      BY <1>1, <2>2, <3>2, <3>4, <3>5
  <2>5. ASSUME NEW j \in 1..Len(ready'), NEW h \in 1..Len(ready'), ready'[j] = ready'[h] PROVE j = h
    <3>1. k + j = k + h
      <4>1. \A a, b \in 1..Len(ready) : ready[a] = ready[b] => a = b
        BY <1>1 DEF ReadyInv
      <4>2. ready[k + j] = ready[k + h] /\ k + j \in 1..Len(ready) /\ k + h \in 1..Len(ready)
        BY <2>3, <2>5
      <4> QED
        BY <4>1, <4>2, Zenon
    <3>2. j \in Int /\ h \in Int /\ k \in Int
      BY <1>0, <2>1
    <3> QED
      BY <3>1, <3>2
  <2>6. ASSUME NEW m \in Nodes, phase'[m] # "out" \/ count'[m] > 0 PROVE Predecessors(m)' \subseteq ended'
    <3>1. CASE \E i \in 1..k : ready[i] = m
      <4>1. PICK i \in 1..Len(ready) : ready[i] = m
        BY <1>0, <2>1, <3>1
      <4> QED
        BY <1>1, <2>2, <4>1 DEF ReadyInv
    <3>2. CASE ~ \E i \in 1..k : ready[i] = m
      <4>1. phase'[m] = phase[m]
        BY <2>1, <3>2
      <4> QED
        BY <1>1, <2>2, <2>6, <4>1 DEF ReadyInv, Busy
    <3> QED
      BY <3>1, <3>2
  <2> QED
    BY <2>4, <2>5, <2>6 DEF ReadyInv, Busy
<1>6. ASSUME NEW n \in Nodes, NodeStep(n), ~EndNode(n), ~Pick(n) PROVE ReadyInv'
  <2>1. ready' = ready /\ ended' = ended
    BY <1>6 DEF NodeStep, KernelRuns, KernelFails, ReleaseInputs, EndFailed, Start
  <2>2. Busy(n) /\ \A m \in Nodes : m # n => phase'[m] = phase[m] /\ count'[m] = count[m]
    BY <1>1, <1>6, NodeFrames DEF Busy
  <2>3. \A i \in 1..Len(ready) : ready[i] \in Nodes /\ ready[i] # n
    BY <1>0, <1>1, <2>2 DEF ReadyInv, Busy
  <2>4. \A m \in Nodes : phase'[m] # "out" \/ count'[m] > 0 => Predecessors(m) \subseteq ended
    BY <1>1, <2>2 DEF ReadyInv, Busy
  <2>5. \A m \in Nodes : (\E i \in 1..Len(ready) : ready[i] = m) => Predecessors(m)' \subseteq ended
    BY <1>1 DEF ReadyInv
  <2> QED
    BY <1>1, <2>1, <2>2, <2>3, <2>4, <2>5 DEF ReadyInv, Busy
<1>7. ASSUME Finalize \/ SerialEnd \/ Join \/ Leave \/ Return \/ Reject \/ Rest \/ UNCHANGED vars PROVE ReadyInv'
  <2>1. UNCHANGED <<phase, count, ready, ended>>
    BY <1>7 DEF Finalize, SerialEnd, Join, Leave, Return, Reject, Rest, vars
  <2>2. \A m \in Nodes : (\E i \in 1..Len(ready) : ready[i] = m) => Predecessors(m)' \subseteq ended
    BY <1>1 DEF ReadyInv
  <2> QED
    BY <1>1, <2>1, <2>2 DEF ReadyInv, Busy
<1> QED
  BY <1>2, <1>3, <1>4, <1>5, <1>6, <1>7 DEF Next, CallerStep, NodeStep

(* Only the start of a call and the release of inputs change who reads what. *)
LEMMA ReadersFixed ==
  ASSUME StateType, SchedulerInv, [Next]_vars,
         \/ \E n \in Nodes : NodeStep(n) /\ ~ReleaseInputs(n)
         \/ CallerStep \/ Finalize \/ Reject \/ Rest \/ UNCHANGED vars
  PROVE  \A v \in Values : Readers(v)' = Readers(v)
<1> USE DEF graphVars, setupVars, schedVars, callVars, history
<1>1. QueueInv /\ CallerInv /\ UNCHANGED <<owner, reads>> /\ owner \in [Slots -> Nodes]
  BY GraphFixed DEF SchedulerInv, StateType
<1>2. ASSUME \A m \in Nodes : m \notin ended' /\ phase'[m] # "released" <=> m \notin ended /\ phase[m] # "released"
      PROVE  \A v \in Values : Readers(v)' = Readers(v)
  BY <1>1, <1>2 DEF Readers
<1>3. ASSUME NEW n \in Nodes, NodeStep(n), ~ReleaseInputs(n) PROVE \A v \in Values : Readers(v)' = Readers(v)
  <2>1. phase[n] # "ran" /\ phase'[n] # "released"
    <3>1. ~Start(n) => phase[n] # "ran"
      BY <1>3 DEF NodeStep, KernelRuns, KernelFails, EndNode, EndFailed, Pick
    <3>2. Start(n) => phase[n] = "queued"
      BY StartMoves, <1>1 DEF QueueInv
    <3> QED
      BY <1>1, <1>3, <3>1, <3>2, NodeFrames
  <2>2. /\ \A m \in Nodes : m # n => phase'[m] = phase[m]
        /\ ended' = IF phase[n] = "released" THEN ended \cup {n} ELSE ended
    BY <1>1, <1>3, NodeFrames
  <2>3. \A m \in Nodes : m \notin ended' /\ phase'[m] # "released" <=> m \notin ended /\ phase[m] # "released"
    BY <2>1, <2>2
  <2> QED
    BY <1>2, <2>3
<1>4. ASSUME CallerStep \/ Finalize \/ Reject \/ Rest \/ UNCHANGED vars PROVE \A v \in Values : Readers(v)' = Readers(v)
  <2>1. ended' = ended
    BY <1>4 DEF CallerStep, SerialEnd, Launch, Join, Leave, Return, Finalize, Reject, Rest, vars
  <2>2. \A m \in Nodes : phase'[m] = phase[m] \/ (phase'[m] = "queued" /\ phase[m] = "out")
    <3>1. CASE Launch
      <4>1. PICK k \in 1..Len(ready) :
              phase' = [n \in Nodes |-> IF \E i \in 1..k : ready[i] = n THEN "queued" ELSE phase[n]]
        BY <3>1, LaunchMoves
      <4>2. pc = "round"
        BY <3>1 DEF Launch
      <4> QED
        BY <1>1, <4>1, <4>2 DEF CallerInv, Busy
    <3>2. CASE ~Launch
      BY <1>4, <3>2 DEF CallerStep, SerialEnd, Join, Leave, Return, Finalize, Reject, Rest, vars
    <3> QED
      BY <3>1, <3>2
  <2> QED
    BY <1>2, <2>1, <2>2
<1> QED
  BY <1>3, <1>4

(* The release of a node's inputs takes its own slots from the readers. *)
LEMMA ReadersMove ==
  ASSUME StateType, SchedulerInv, NEW n \in Nodes, ReleaseInputs(n), NEW v \in Values
  PROVE  /\ Reads(n, v) \in SUBSET Readers(v) /\ Readers(v) \in SUBSET Slots
         /\ Readers(v)' = Readers(v) \ Reads(n, v)
<1>1. /\ phase[n] = "ran" /\ n \notin ended /\ UNCHANGED <<owner, reads, ended>>
      /\ phase' = [phase EXCEPT ![n] = "released"] /\ phase \in [Nodes -> Phases]
      /\ owner \in [Slots -> Nodes]
  BY DEF ReleaseInputs, SchedulerInv, PhaseInv, Busy, StateType, history, graphVars
<1> QED
  BY <1>1 DEF Reads, Inputs, Readers

LEMMA UseInvStep == StateType /\ SchedulerInv /\ [Next]_vars => UseInv'
<1> SUFFICES ASSUME StateType, SchedulerInv, [Next]_vars PROVE UseInv'
  OBVIOUS
<1> USE DEF graphVars, setupVars, schedVars, callVars, history
<1>1. UseInv /\ QueueInv /\ PhaseInv /\ CallerInv /\ UNCHANGED <<owner, reads, producer, kept>>
  BY GraphFixed DEF SchedulerInv
<1>2. \A v \in Values : Readers(v) \in SUBSET Slots
  BY DEF Readers
<1>3. owner \in [Slots -> Nodes] /\ ended \subseteq Nodes
  BY DEF StateType
<1>4. ASSUME Run PROVE UseInv'
  <2>1. \A n \in Nodes : phase'[n] = "out"
    BY <1>1, <1>4 DEF Run, CallerInv, Busy
  <2>2. ended' = {} /\ released' = {}
    BY <1>4 DEF Run
  <2>3. ASSUME NEW v \in Values PROVE uses'[v] = Cardinality(Readers(v)')
    <3>1. Readers(v)' = {s \in Slots : reads[s] = v}
      BY <1>1, <1>3, <2>1, <2>2 DEF Readers
    <3> QED
      BY <1>4, <3>1 DEF Run
  <2> QED
    BY <2>2, <2>3 DEF UseInv
<1>5. ASSUME NEW n \in Nodes, ReleaseInputs(n) PROVE UseInv'
  <2>1. /\ phase[n] = "ran" /\ n \notin ended /\ pc # "idle" /\ UNCHANGED <<ended, pc>>
        /\ phase' = [phase EXCEPT ![n] = "released"] /\ phase \in [Nodes -> Phases]
        /\ released' = released \cup {v \in Values \ kept : uses[v] # 0 /\ uses'[v] = 0}
        /\ released \subseteq Values
    BY <1>1, <1>5 DEF ReleaseInputs, PhaseInv, CallerInv, Busy, StateType
  <2>2. ASSUME NEW v \in Values
        PROVE  /\ uses'[v] = Cardinality(Readers(v)') /\ Readers(v)' \subseteq Readers(v)
               /\ Readers(v)' \in SUBSET Slots
    <3>1. uses'[v] = uses[v] - Cardinality(Reads(n, v)) /\ uses[v] = Cardinality(Readers(v))
      BY <1>1, <1>5, <2>1 DEF ReleaseInputs, UseInv
    <3> QED
      BY <1>5, <3>1, ReadersMove, SlotsMinus
  <2>3. ASSUME NEW v \in Values, uses'[v] = 0 PROVE Readers(v)' = {}
    BY <2>2, <2>3, Finite, FS_EmptySet
  <2>4. ASSUME NEW v \in Values, v \in released' PROVE Readers(v)' = {}
    <3>1. CASE v \in released
      BY <1>1, <2>1, <2>2, <3>1 DEF UseInv
    <3>2. CASE v \notin released
      BY <2>1, <2>3, <2>4, <3>2
    <3> QED
      BY <3>1, <3>2
  <2>5. released' \cap kept' = {} /\ released' \subseteq Values
    BY <1>1, <2>1 DEF UseInv
  <2> QED
    BY <2>2, <2>4, <2>5 DEF UseInv
<1>6. ASSUME UNCHANGED <<uses, released>>, pc' # "idle" => pc # "idle",
             \A v \in Values : Readers(v)' = Readers(v)
      PROVE  UseInv'
  <2>1. released \subseteq Values
    BY DEF StateType
  <2> QED
    BY <1>1, <1>6, <2>1 DEF UseInv
<1>7. ASSUME NEW n \in Nodes, NodeStep(n), ~ReleaseInputs(n) PROVE UseInv'
  <2>1. UNCHANGED <<uses, released>>
    BY <1>7 DEF NodeStep, KernelRuns, KernelFails, EndNode, EndFailed, Pick, Start
  <2>2. pc' # "idle" => pc # "idle"
    BY <1>1, <1>7 DEF NodeStep, KernelRuns, KernelFails, EndNode, EndFailed, Pick, Start, CallerInv, Busy
  <2>3. \A v \in Values : Readers(v)' = Readers(v)
    BY <1>7, ReadersFixed
  <2> QED
    BY <1>6, <2>1, <2>2, <2>3
<1>8. ASSUME Finalize PROVE UseInv'
  BY <1>1, <1>8 DEF Finalize, UseInv
<1>9. ASSUME CallerStep \/ Reject \/ Rest \/ UNCHANGED vars PROVE UseInv'
  <2>1. UNCHANGED <<uses, released, ended>> /\ (pc' # "idle" => pc # "idle")
    BY <1>9 DEF CallerStep, SerialEnd, Launch, Join, Leave, Return, Reject, Rest, vars
  <2>2. \A v \in Values : Readers(v)' = Readers(v)
    BY <1>9, ReadersFixed
  <2> QED
    BY <1>6, <2>1, <2>2
<1> QED
  BY <1>4, <1>5, <1>7, <1>8, <1>9 DEF Next, NodeStep

LEMMA CompletionInvStep == StateType /\ SchedulerInv /\ [Next]_vars => CompletionInv'
<1> SUFFICES ASSUME StateType, SchedulerInv, [Next]_vars PROVE CompletionInv'
  OBVIOUS
<1> USE DEF graphVars, setupVars, schedVars, callVars, history
<1>1. /\ CompletionInv /\ UseInv /\ UseInv' /\ QueueInv /\ PhaseInv /\ CallerInv
      /\ UNCHANGED <<owner, reads, producer, kept>>
  BY GraphFixed, UseInvStep DEF SchedulerInv
<1>2. /\ owner \in [Slots -> Nodes] /\ reads \in [Slots -> Values] /\ ended \subseteq Nodes
      /\ phase \in [Nodes -> Phases] /\ completed \in Int
  BY DEF StateType
<1>3. ASSUME Run PROVE CompletionInv'
  <2>1. \A n \in Nodes : phase'[n] = "out"
    BY <1>1, <1>3 DEF Run, CallerInv, Busy
  <2>2. ended' = {} /\ completed' = 0
    BY <1>3 DEF Run
  <2>3. ASSUME NEW v \in Values, NEW s \in Slots, reads'[s] = v PROVE s \in Readers(v)'
    BY <1>1, <1>2, <2>1, <2>2, <2>3 DEF Readers
  <2> QED
    BY <2>2, <2>3, FS_EmptySet DEF CompletionInv
<1>4. ASSUME NEW n \in Nodes, ReleaseInputs(n) PROVE CompletionInv'
  <2>1. /\ UNCHANGED <<completed, ended>> /\ pc # "idle" /\ pc' # "idle"
        /\ released' = released \cup {v \in Values \ kept : uses[v] # 0 /\ uses'[v] = 0}
    BY <1>1, <1>4 DEF ReleaseInputs, PhaseInv, CallerInv, Busy
  <2>2. ASSUME NEW v \in Values, v \notin released', v \notin kept, Readers(v)' = {} PROVE Readers(v) = {}
    <3>1. uses[v] = Cardinality(Readers(v)) /\ uses'[v] = Cardinality(Readers(v)')
      BY <1>1, <2>1 DEF UseInv
    <3>2. uses'[v] = 0
      BY <2>2, <3>1, FS_EmptySet
    <3>3. uses[v] = 0
      BY <2>1, <2>2, <3>2
    <3> QED
      BY <1>4, <3>1, <3>3, ReadersMove, Finite, FS_EmptySet
  <2> QED
    BY <1>1, <2>1, <2>2 DEF CompletionInv
<1>5. ASSUME NEW n \in Nodes, EndNode(n) PROVE CompletionInv'
  <2>1. /\ n \notin ended /\ ended' = ended \cup {n} /\ completed' = completed + 1
        /\ pc # "idle" /\ UNCHANGED <<released, pc>> /\ ~ReleaseInputs(n)
    BY <1>1, <1>5 DEF EndNode, ReleaseInputs, PhaseInv, CallerInv, Busy
  <2>2. Cardinality(ended') = Cardinality(ended) + 1
    BY <1>2, <2>1, Finite, FS_AddElement
  <2>3. \A v \in Values : Readers(v)' = Readers(v)
    BY <1>5, <2>1, ReadersFixed DEF NodeStep
  <2> QED
    BY <1>1, <2>1, <2>2, <2>3 DEF CompletionInv
<1>6. ASSUME UNCHANGED <<released, ended, completed>>, pc' # "idle" => pc # "idle",
             \A v \in Values : Readers(v)' = Readers(v)
      PROVE  CompletionInv'
  BY <1>1, <1>6 DEF CompletionInv
<1>7. ASSUME NEW n \in Nodes, NodeStep(n), ~ReleaseInputs(n), ~EndNode(n) PROVE CompletionInv'
  <2>1. UNCHANGED <<released, ended, completed>>
    BY <1>7 DEF NodeStep, KernelRuns, KernelFails, EndFailed, Pick, Start
  <2>2. pc' # "idle" => pc # "idle"
    BY <1>1, <1>7 DEF NodeStep, KernelRuns, KernelFails, EndFailed, Pick, Start, CallerInv, Busy
  <2>3. \A v \in Values : Readers(v)' = Readers(v)
    BY <1>7, ReadersFixed
  <2> QED
    BY <1>6, <2>1, <2>2, <2>3
<1>8. ASSUME CallerStep \/ Finalize \/ Reject \/ Rest \/ UNCHANGED vars PROVE CompletionInv'
  <2>1. UNCHANGED <<released, ended, completed>> /\ (pc' # "idle" => pc # "idle")
    BY <1>8 DEF CallerStep, SerialEnd, Launch, Join, Leave, Return, Finalize, Reject, Rest, vars
  <2>2. \A v \in Values : Readers(v)' = Readers(v)
    BY <1>8, ReadersFixed
  <2> QED
    BY <1>6, <2>1, <2>2
<1> QED
  BY <1>3, <1>4, <1>5, <1>7, <1>8 DEF Next, NodeStep

-------------------------------------------------------------------------------
LEMMA InitIInv == Init => IInv
<1> SUFFICES ASSUME Init PROVE IInv
  OBVIOUS
<1>1. StateType
  <2>1. PICK g \in Graphs : owner = g.owner /\ reads = g.reads /\ producer = g.producer /\ kept = g.kept
    BY DEF Init
  <2>2. g \in GraphType
    BY ExecutorAssumption DEF ExecutorAssumption
  <2> QED
    BY <2>1, <2>2, ExecutorAssumption DEF Init, StateType, GraphType, Phases, ExecutorAssumption
<1>2. SchedulerInv
  BY DEF Init, SchedulerInv, ReadyInv, PhaseInv, QueueInv, CallerInv, DependencyInv, UseInv,
         CompletionInv, Busy
<1> QED
  BY <1>1, <1>2 DEF IInv

LEMMA StepIInv == IInv /\ [Next]_vars => IInv'
BY TypeStep, ReadyInvStep, PhaseInvStep, QueueInvStep, CallerInvStep, DependencyInvStep, UseInvStep,
   CompletionInvStep
   DEF IInv, SchedulerInv

(* The counters of dependencies and uses are the sizes of the sets they stand
   for, and the sequences hold exactly the nodes they should. *)
THEOREM ExecutorInvariant == Spec => []IInv
BY InitIInv, StepIInv, PTL DEF Spec

(* A node starts only when all it reads was computed in the same call. *)
THEOREM NodesFollowPredecessors == Spec => []PredecessorsFirst
<1>1. IInv => PredecessorsFirst
  BY DEF IInv, SchedulerInv, ReadyInv, PhaseInv, PredecessorsFirst, Busy
<1> QED
  BY <1>1, ExecutorInvariant, PTL

(* No node is started twice in a call. *)
THEOREM NodesRunOnce == Spec => []RunsOnce
<1>1. IInv => RunsOnce
  BY DEF IInv, SchedulerInv, PhaseInv, RunsOnce
<1> QED
  BY <1>1, ExecutorInvariant, PTL

(* A value is released only when its last reader ran, and never if it is kept. *)
THEOREM ReleasedValuesAreDead == Spec => []ReleasedIsDead
<1>1. ASSUME IInv PROVE ReleasedIsDead
  <2>1. released \cap kept = {} /\ PhaseInv
    BY <1>1 DEF IInv, SchedulerInv, UseInv
  <2>2. ASSUME NEW s \in Slots, pc \in {"serial", "round", "join"}, reads[s] \in released
        PROVE  owner[s] \in finished /\ phase[owner[s]] # "running"
    <3>1. owner[s] \in Nodes /\ reads[s] \in Values
      BY <1>1 DEF IInv, StateType
    <3>2. s \notin Readers(reads[s])
      BY <1>1, <2>2 DEF IInv, SchedulerInv, UseInv
    <3>3. owner[s] \in ended \/ phase[owner[s]] = "released"
      BY <3>2 DEF Readers
    <3> QED
      BY <2>1, <3>1, <3>3 DEF PhaseInv, Busy
  <2> QED
    BY <2>1, <2>2 DEF ReleasedIsDead
<1> QED
  BY <1>1, ExecutorInvariant, PTL

(* The call returns, also after a failure, with no node queued or running. *)
THEOREM ReturnsQuiet == Spec => []QuietOnReturn
<1>1. ASSUME IInv, pc \in {"idle", "result"} PROVE pool = <<>> /\ \A n \in Nodes : phase[n] = "out"
  <2>1. \A n \in Nodes : phase[n] = "out"
    BY <1>1 DEF IInv, SchedulerInv, CallerInv, Busy
  <2>2. pool \in Seq(Nodes) /\ \A i \in 1..Len(pool) : phase[pool[i]] = "queued"
    BY <1>1 DEF IInv, StateType, SchedulerInv, QueueInv
  <2>3. ASSUME pool # <<>> PROVE FALSE
    <3>1. 1 \in 1..Len(pool) /\ pool[1] \in Nodes
      BY <2>2, <2>3
    <3> QED
      BY <2>1, <2>2, <3>1
  <2> QED
    BY <2>1, <2>3
<1>2. IInv => QuietOnReturn
  BY <1>1 DEF QuietOnReturn
<1> QED
  BY <1>2, ExecutorInvariant, PTL

-------------------------------------------------------------------------------
(* When all nodes are counted, all of them ended and nobody reads any more. *)
LEMMA AllEnded ==
  ASSUME IInv, pc # "idle", completed = N
  PROVE  /\ finished = Nodes /\ ended = Nodes
         /\ \A s \in Slots : reads[s] \in released \cup kept
<1>1. /\ completed = Cardinality(ended) /\ ended \subseteq finished /\ finished \subseteq Nodes
      /\ \A v \in Values \ (released \cup kept) : Readers(v) = {} => \A s \in Slots : reads[s] # v
  BY DEF IInv, SchedulerInv, CompletionInv, PhaseInv, StateType
<1>2. IsFiniteSet(Nodes) /\ Cardinality(Nodes) = N
  <2>1. N \in Nat /\ N > 0 /\ 0 \in Int /\ N - 1 \in Int
    BY ExecutorAssumption DEF ExecutorAssumption
  <2>2. IsFiniteSet(0..(N - 1)) /\ Cardinality(0..(N - 1)) = IF 0 > N - 1 THEN 0 ELSE (N - 1) - 0 + 1
    BY <2>1, FS_Interval
  <2> QED
    BY <2>1, <2>2 DEF Nodes
<1>3. ended = Nodes
  BY <1>1, <1>2, FS_Subset
<1>4. \A v \in Values : Readers(v) = {}
  BY <1>3 DEF Readers, IInv, StateType
<1> QED
  BY <1>1, <1>3, <1>4 DEF IInv, StateType

(* A step that leaves the caller idle neither evaluates nor releases anything,
   except the return of a call. *)
LEMMA IdleSteps ==
  ASSUME IInv, [Next]_vars, pc' = "idle"
  PROVE  (pc = "idle" /\ UNCHANGED <<status, nRuns, finished, released>>) \/ Return \/ Reject
<1>1. ASSUME NEW n \in Nodes, NodeStep(n) PROVE FALSE
  <2>1. pc = "idle"
    BY <1>1 DEF NodeStep, KernelRuns, KernelFails, ReleaseInputs, EndNode, EndFailed, Pick, Start, callVars
  <2>2. phase[n] = "out"
    BY <2>1 DEF IInv, SchedulerInv, CallerInv, Busy
  <2> QED
    BY <1>1, <2>1, <2>2, NodeFrames DEF IInv, SchedulerInv, Pick
<1> QED
  BY <1>1 DEF Next, Finalize, Run, CallerStep, SerialEnd, Launch, Join, Leave, Rest, vars, callVars, history

(* A call that reports success has evaluated every node, and released what was
   read and is not kept. *)
THEOREM SuccessMeansComplete == Spec => []SuccessIsComplete
<1>1. Init => SuccessIsComplete
  BY DEF Init, SuccessIsComplete
<1>2. ASSUME IInv, SuccessIsComplete, [Next]_vars PROVE SuccessIsComplete'
  <2>1. UNCHANGED <<reads, kept>>
    BY <1>2, GraphFixed
  <2>2. CASE pc' # "idle"
    BY <2>2 DEF SuccessIsComplete
  <2>3. CASE pc = "idle" /\ UNCHANGED <<status, nRuns, finished, released, pc>>
    BY <1>2, <2>1, <2>3 DEF SuccessIsComplete
  <2>4. CASE Return
    <3>1. UNCHANGED <<finished, released>> /\ pc # "idle"
      BY <2>4 DEF Return, history
    <3>2. CASE failed \/ completed # N
      BY <2>4, <3>2 DEF Return, SuccessIsComplete
    <3>3. CASE completed = N
      BY <1>2, <2>1, <3>1, <3>3, AllEnded DEF SuccessIsComplete
    <3> QED
      BY <3>2, <3>3
  <2>5. CASE Reject
    BY <2>5 DEF Reject, SuccessIsComplete
  <2> QED
    BY <1>2, <2>2, <2>3, <2>4, <2>5, IdleSteps
<1> QED
  BY <1>1, <1>2, ExecutorInvariant, PTL DEF Spec

(* The scheduler, serial or in rounds, implements the abstract dataflow run. *)
THEOREM ImplementsDataflowRun == Spec => ImplementsDataflow
<1>1. Init => Dataflow!Init
  <2> SUFFICES ASSUME Init PROVE Dataflow!Init
    OBVIOUS
  <2>1. PICK g \in Graphs : owner = g.owner /\ reads = g.reads /\ producer = g.producer
    BY DEF Init
  <2>2. [n \in Nodes |-> Predecessors(n)] =
          [n \in Nodes |-> {g.producer[g.reads[s]] :
             s \in {t \in Slots : g.owner[t] = n /\ g.producer[g.reads[t]] # None}}]
    BY <2>1 DEF Predecessors, Deps, Inputs
  <2> QED
    BY <2>1, <2>2 DEF Init, Dataflow!Init
<1>2. ASSUME IInv, [Next]_vars PROVE [Dataflow!Next]_(Dataflow!vars)
  <2> USE DEF graphVars, setupVars, callVars, schedVars, history
  <2>1. UNCHANGED [n \in Nodes |-> Predecessors(n)]
    BY <1>2, GraphFixed
  <2>2. CASE Run
    <3>1. pc = "idle" /\ pc' \in {"serial", "round"} /\ finished' = {}
      BY <2>2 DEF Run
    <3>2. status \in {"none", "ok", "error"}
      BY <1>2 DEF IInv, StateType
    <3> QED
      BY <2>1, <3>1, <3>2 DEF Dataflow!Next, Dataflow!Begin
  <2>3. ASSUME NEW n \in Nodes, NodeStep(n) PROVE [Dataflow!Next]_(Dataflow!vars)
    <3>1. pc # "idle" /\ pc' # "idle"
      <4>1. phase[n] # "out" \/ Pick(n)
        BY <1>2, <2>3, NodeFrames DEF IInv, SchedulerInv
      <4>2. pc # "idle"
        BY <1>2, <4>1 DEF IInv, SchedulerInv, CallerInv, Busy, Pick
      <4>3. UNCHANGED pc \/ pc' = "result"
        BY <2>3 DEF NodeStep, KernelRuns, KernelFails, ReleaseInputs, EndNode, EndFailed, Pick, Start
      <4> QED
        BY <4>2, <4>3
    <3>2. CASE finished' = finished
      BY <2>1, <3>1, <3>2 DEF Dataflow!vars
    <3>3. CASE finished' # finished
      <4>1. phase[n] = "running" /\ finished' = finished \cup {n}
        BY <1>2, <2>3, <3>3, NodeFrames DEF IInv, SchedulerInv
      <4>2. n \notin finished /\ Predecessors(n) \subseteq finished
        BY <1>2, <4>1 DEF IInv, SchedulerInv, PhaseInv, ReadyInv, Busy
      <4> QED
        BY <2>1, <3>1, <4>1, <4>2 DEF Dataflow!Next, Dataflow!Evaluate
    <3> QED
      BY <3>2, <3>3
  <2>4. CASE Return
    <3>1. UNCHANGED finished /\ pc = "result" /\ pc' = "idle"
      BY <2>4 DEF Return
    <3>2. CASE failed \/ completed # N
      <4>1. status' = "error"
        BY <2>4, <3>2 DEF Return
      <4> QED
        BY <2>1, <3>1, <4>1 DEF Dataflow!Next, Dataflow!Fail
    <3>3. CASE ~failed /\ completed = N
      <4>1. finished = Nodes /\ status' = "ok"
        BY <1>2, <2>4, <3>1, <3>3, AllEnded DEF Return
      <4> QED
        BY <2>1, <3>1, <4>1 DEF Dataflow!Next, Dataflow!Succeed
    <3> QED
      BY <3>2, <3>3
  <2>5. CASE Finalize \/ SerialEnd \/ Launch \/ Join \/ Leave \/ Rest \/ UNCHANGED vars
    <3>1. UNCHANGED <<finished, status>> /\ (pc = "idle" <=> pc' = "idle")
      BY <2>5 DEF Finalize, SerialEnd, Launch, Join, Leave, Rest, vars
    <3> QED
      BY <2>1, <3>1 DEF Dataflow!vars
  <2>6. CASE Reject
    <3>1. status \in {"none", "ok", "error"}
      BY <1>2 DEF IInv, StateType
    <3> QED
      BY <2>1, <2>6, <3>1 DEF Reject, Dataflow!Next, Dataflow!Refuse
  <2> QED
    BY <1>2, <2>2, <2>3, <2>4, <2>5, <2>6 DEF Next, CallerStep
<1> QED
  BY <1>1, <1>2, ExecutorInvariant, PTL DEF Spec, ImplementsDataflow, Dataflow!Spec

-------------------------------------------------------------------------------
(* Types. While a call is going on the counters are sizes of sets; between calls they
   keep what the last one left; in_flight covers the busy nodes. *)
BusyNodes == {n \in Nodes : Busy(n)}

Counters == pending \in [Nodes -> Nat] /\ uses \in [Values -> Nat] /\ completed \in 0..N

CounterInv ==
  /\ kept \subseteq Values /\ finalized \in {"no", "yes", "rejected"}
  /\ nRuns \in 0..MaxRuns /\ failed \in BOOLEAN
  /\ pc = "idle" => Counters
  /\ inFlight \in Int /\ inFlight >= Cardinality(BusyNodes)

LEMMA CountersAreSizes ==
  ASSUME IInv, pc # "idle"
  PROVE  Counters
<1>1. StateType /\ DependencyInv /\ UseInv /\ CompletionInv
  BY DEF IInv, SchedulerInv
<1>2. \A m \in Nodes : Cardinality(Awaited(m)) \in Nat
  <2>1. \A m \in Nodes : Awaited(m) \in SUBSET Slots
    BY DEF Awaited, Deps, Inputs
  <2> QED
    BY <2>1, Finite
<1>3. \A v \in Values : Cardinality(Readers(v)) \in Nat
  <2>1. \A v \in Values : Readers(v) \in SUBSET Slots
    BY DEF Readers
  <2> QED
    BY <2>1, Finite
<1>4. pending \in [Nodes -> Nat]
  BY <1>1, <1>2 DEF StateType, DependencyInv
<1>5. uses \in [Values -> Nat]
  BY <1>1, <1>3 DEF StateType, UseInv
<1>6. completed \in 0..N
  <2>1. N \in Nat /\ N > 0 /\ 0 \in Int /\ N - 1 \in Int
    BY ExecutorAssumption DEF ExecutorAssumption
  <2>2. IsFiniteSet(Nodes) /\ Cardinality(Nodes) = N
    BY <2>1, FS_Interval DEF Nodes
  <2>3. ended \subseteq Nodes /\ completed = Cardinality(ended)
    BY <1>1 DEF StateType, CompletionInv
  <2>4. Cardinality(ended) <= N /\ Cardinality(ended) \in Nat
    BY <2>2, <2>3, FS_Subset, FS_CardinalityType
  <2> QED
    BY <2>1, <2>3, <2>4
<1> QED
  BY <1>4, <1>5, <1>6 DEF Counters

LEMMA BusyIsFinite ==
  /\ IsFiniteSet(BusyNodes) /\ Cardinality(BusyNodes) \in Nat
  /\ \A n \in Nodes : /\ Cardinality(BusyNodes \cup {n}) <= Cardinality(BusyNodes) + 1
                      /\ n \in BusyNodes => Cardinality(BusyNodes \ {n}) = Cardinality(BusyNodes) - 1
<1>1. BusyNodes \in SUBSET Nodes
  BY DEF BusyNodes
<1>2. IsFiniteSet(BusyNodes) /\ Cardinality(BusyNodes) \in Nat
  BY <1>1, Finite
<1>3. ASSUME NEW n \in Nodes
      PROVE  /\ Cardinality(BusyNodes \cup {n}) <= Cardinality(BusyNodes) + 1
             /\ n \in BusyNodes => Cardinality(BusyNodes \ {n}) = Cardinality(BusyNodes) - 1
  <2>1. CASE n \in BusyNodes
    <3>1. BusyNodes \cup {n} = BusyNodes
      BY <2>1
    <3>2. Cardinality(BusyNodes \ {n}) = Cardinality(BusyNodes) - 1
      BY <1>2, <2>1, FS_RemoveElement
    <3>3. Cardinality(BusyNodes) <= Cardinality(BusyNodes) + 1
      BY <1>2
    <3> QED
      BY <3>1, <3>2, <3>3
  <2>2. CASE n \notin BusyNodes
    <3>1. Cardinality(BusyNodes \cup {n}) = Cardinality(BusyNodes) + 1
      BY <1>2, <2>2, FS_AddElement
    <3> QED
      BY <1>2, <2>2, <3>1
  <2> QED
    BY <2>1, <2>2
<1> QED
  BY <1>2, <1>3

(* A round makes at most as many nodes busy as it adds to in_flight. *)
LEMMA LaunchCounts ==
  ASSUME IInv, CounterInv, Launch
  PROVE  inFlight' \in Int /\ inFlight' >= Cardinality(BusyNodes')
<1> DEFINE k == IF Len(ready) < workers THEN Len(ready) ELSE workers
           batch == SubSeq(ready, 1, k)
           new == {batch[i] : i \in 1..k}
<1>1. /\ phase' = [n \in Nodes |-> IF \E i \in 1..k : batch[i] = n THEN "queued" ELSE phase[n]]
      /\ inFlight' = inFlight + k
  BY DEF Launch
<1>2. ready \in Seq(Nodes) /\ workers \in 1..N /\ phase \in [Nodes -> Phases]
  BY DEF IInv, StateType
<1>3. Len(ready) \in Nat /\ k \in Nat /\ k <= Len(ready)
  BY <1>2, LenProperties, ExecutorAssumption DEF ExecutorAssumption
<1>4. \A i \in 1..k : batch[i] = ready[i] /\ ready[i] \in Nodes
  BY <1>2, <1>3, SubSeqProperties, LenProperties
<1> HIDE DEF k, batch
<1>5. IsFiniteSet(1..k) /\ Cardinality(1..k) = k
  BY <1>3, FS_Interval
<1>6. IsFiniteSet(new) /\ Cardinality(new) <= k /\ Cardinality(new) \in Nat
  <2>1. [i \in 1..k |-> batch[i]] \in Surjection(1..k, new)
    BY DEF Surjection
  <2> QED
    BY <1>3, <1>5, <2>1, FS_Surjection, FS_CardinalityType
<1>7. BusyNodes' \subseteq BusyNodes \cup new
  BY <1>1, <1>4 DEF BusyNodes, Busy
<1> HIDE DEF new
<1>8. /\ IsFiniteSet(BusyNodes \cup new)
      /\ Cardinality(BusyNodes \cup new) = Cardinality(BusyNodes) + Cardinality(new) - Cardinality(BusyNodes \cap new)
  BY <1>6, BusyIsFinite, FS_Union
<1>9. Cardinality(BusyNodes \cap new) \in Nat
  BY BusyIsFinite, FS_Intersection, FS_CardinalityType
<1>10. /\ Cardinality(BusyNodes') <= Cardinality(BusyNodes \cup new)
       /\ Cardinality(BusyNodes') \in Nat /\ Cardinality(BusyNodes \cup new) \in Nat
  BY <1>7, <1>8, FS_Subset, FS_CardinalityType
<1>11. inFlight \in Int /\ inFlight >= Cardinality(BusyNodes) /\ Cardinality(BusyNodes) \in Nat
  BY BusyIsFinite DEF CounterInv
<1> QED
  BY <1>1, <1>3, <1>6, <1>8, <1>9, <1>10, <1>11

LEMMA InFlightStep == IInv /\ CounterInv /\ [Next]_vars => inFlight' \in Int /\ inFlight' >= Cardinality(BusyNodes')
<1> SUFFICES ASSUME IInv, CounterInv, [Next]_vars
             PROVE  inFlight' \in Int /\ inFlight' >= Cardinality(BusyNodes')
  OBVIOUS
<1>1. /\ inFlight \in Int /\ inFlight >= Cardinality(BusyNodes) /\ Cardinality(BusyNodes) \in Nat
      /\ phase \in [Nodes -> Phases]
  BY BusyIsFinite DEF CounterInv, IInv, StateType
<1>2. CASE BusyNodes' = BusyNodes /\ inFlight' = inFlight
  BY <1>1, <1>2
<1>3. CASE Run
  <2>1. BusyNodes = {} /\ phase' = phase /\ inFlight' = 0
    BY <1>3 DEF Run, IInv, SchedulerInv, CallerInv, BusyNodes
  <2>2. BusyNodes' = {}
    BY <2>1 DEF BusyNodes, Busy
  <2> QED
    BY <2>1, <2>2, FS_EmptySet
<1>4. CASE Launch
  BY <1>4, LaunchCounts
<1>5. ASSUME NEW n \in Nodes, EndNode(n) \/ EndFailed(n)
      PROVE  inFlight' \in Int /\ inFlight' >= Cardinality(BusyNodes')
  <2>1. inFlight' = inFlight - 1 /\ phase' = [phase EXCEPT ![n] = "out"] /\ phase[n] # "out"
    BY <1>5 DEF EndNode, EndFailed
  <2>2. n \in BusyNodes /\ BusyNodes' = BusyNodes \ {n}
    BY <1>1, <2>1 DEF BusyNodes, Busy
  <2> QED
    BY <1>1, <2>1, <2>2, BusyIsFinite
<1>6. ASSUME NEW n \in Nodes, Pick(n)
      PROVE  inFlight' \in Int /\ inFlight' >= Cardinality(BusyNodes')
  <2>1. inFlight' = inFlight + 1 /\ phase' = [phase EXCEPT ![n] = "running"]
    BY <1>6 DEF Pick
  <2>2. BusyNodes' = BusyNodes \cup {n}
    BY <1>1, <2>1 DEF BusyNodes, Busy
  <2>3. Cardinality(BusyNodes \cup {n}) <= Cardinality(BusyNodes) + 1 /\ Cardinality(BusyNodes \cup {n}) \in Nat
    BY BusyIsFinite, FS_AddElement, FS_CardinalityType
  <2> QED
    BY <1>1, <2>1, <2>2, <2>3
<1>7. ASSUME NEW n \in Nodes, KernelRuns(n) \/ KernelFails(n) \/ ReleaseInputs(n) \/ Start(n)
      PROVE  BusyNodes' = BusyNodes /\ inFlight' = inFlight
  <2>1. CASE KernelRuns(n) \/ KernelFails(n) \/ ReleaseInputs(n)
    BY <1>1, <2>1 DEF KernelRuns, KernelFails, ReleaseInputs, schedVars, BusyNodes, Busy
  <2>2. CASE Start(n)
    <3>1. Len(pool) >= 1 /\ Len(pool) \in Nat /\ pool[1] = n
      BY <2>2, StartMoves DEF IInv
    <3>2. phase[n] = "queued"
      BY <3>1 DEF IInv, SchedulerInv, QueueInv
    <3>3. phase' = [phase EXCEPT ![n] = "running"] /\ inFlight' = inFlight
      BY <2>2 DEF Start, schedVars
    <3> QED
      BY <1>1, <3>2, <3>3 DEF BusyNodes, Busy
  <2> QED
    BY <1>7, <2>1, <2>2
<1>8. CASE Finalize \/ Reject \/ SerialEnd \/ Join \/ Leave \/ Return \/ Rest \/ UNCHANGED vars
  <2>1. phase' = phase /\ inFlight' = inFlight
    BY <1>8 DEF Finalize, Reject, SerialEnd, Join, Leave, Return, Rest, vars, schedVars
  <2> QED
    BY <1>1, <2>1 DEF BusyNodes, Busy
<1> QED
  BY <1>2, <1>3, <1>4, <1>5, <1>6, <1>7, <1>8 DEF Next, CallerStep, NodeStep

LEMMA CounterStep == IInv /\ CounterInv /\ [Next]_vars => CounterInv'
<1> SUFFICES ASSUME IInv, CounterInv, [Next]_vars PROVE CounterInv'
  OBVIOUS
<1> USE DEF graphVars, setupVars, schedVars, callVars, history
<1>1. inFlight' \in Int /\ inFlight' >= Cardinality(BusyNodes')
  BY InFlightStep
<1>2. kept' \subseteq Values
  BY GraphFixed DEF CounterInv
<1>3. finalized' \in {"no", "yes", "rejected"}
  BY DEF Next, CallerStep, NodeStep, Finalize, Run, Reject, SerialEnd, Launch, Join, Leave, Return, Rest,
     KernelRuns, KernelFails, ReleaseInputs, EndNode, EndFailed, Pick, Start, vars, CounterInv
<1>4. failed' \in BOOLEAN
  BY DEF Next, CallerStep, NodeStep, Finalize, Run, Reject, SerialEnd, Launch, Join, Leave, Return, Rest,
     KernelRuns, KernelFails, ReleaseInputs, EndNode, EndFailed, Pick, Start, vars, CounterInv
<1>5. nRuns' \in 0..MaxRuns
  <2>1. nRuns' = nRuns \/ (nRuns < MaxRuns /\ nRuns' = nRuns + 1)
    BY DEF Next, CallerStep, NodeStep, Finalize, Run, Reject, SerialEnd, Launch, Join, Leave, Return, Rest,
       KernelRuns, KernelFails, ReleaseInputs, EndNode, EndFailed, Pick, Start, vars
  <2> QED
    BY <2>1, ExecutorAssumption DEF CounterInv, ExecutorAssumption
<1>6. pc' = "idle" => Counters'
  <2> SUFFICES ASSUME pc' = "idle" PROVE Counters'
    OBVIOUS
  <2>1. Counters
    BY CountersAreSizes DEF CounterInv
  <2>2. UNCHANGED <<uses, completed>> /\ (UNCHANGED pending \/ pending' = [n \in Nodes |-> Cardinality(Deps(n))])
    <3>1. \A n \in Nodes : ~NodeStep(n)
      <4>1. ASSUME NEW n \in Nodes, NodeStep(n) PROVE FALSE
        <5>1. pc = "idle"
          BY <4>1 DEF NodeStep, KernelRuns, KernelFails, ReleaseInputs, EndNode, EndFailed, Pick, Start
        <5>2. phase[n] = "out"
          BY <5>1 DEF IInv, SchedulerInv, CallerInv, Busy
        <5> QED
          BY <4>1, <5>1, <5>2, NodeFrames DEF IInv, SchedulerInv, Pick
      <4> QED
        BY <4>1
    <3> QED
      BY <3>1 DEF Next, CallerStep, Finalize, Run, Reject, SerialEnd, Launch, Join, Leave, Return, Rest, vars
  <2>3. pending' \in [Nodes -> Nat]
    BY <2>1, <2>2, SlotCounts DEF Counters
  <2> QED
    BY <2>1, <2>2, <2>3 DEF Counters
<1> QED
  BY <1>1, <1>2, <1>3, <1>4, <1>5, <1>6 DEF CounterInv

(* Every field of the graph keeps its type, and no counter drops below zero. *)
THEOREM ExecutorTypes == Spec => []TypeOK
<1>1. Init => CounterInv
  <2> SUFFICES ASSUME Init PROVE CounterInv
    OBVIOUS
  <2>1. PICK g \in Graphs : kept = g.kept
    BY DEF Init
  <2>2. kept \subseteq Values
    BY <2>1, ExecutorAssumption DEF ExecutorAssumption, GraphType
  <2>3. BusyNodes = {} /\ Cardinality({}) = 0
    BY FS_EmptySet DEF Init, BusyNodes, Busy
  <2>4. Counters
    BY ExecutorAssumption DEF Init, Counters, ExecutorAssumption
  <2>5. finalized = "no" /\ nRuns = 0 /\ failed = FALSE /\ inFlight = 0
    BY DEF Init
  <2>6. nRuns \in 0..MaxRuns
    BY <2>5, ExecutorAssumption DEF ExecutorAssumption
  <2>7. inFlight \in Int /\ inFlight >= Cardinality(BusyNodes)
    BY <2>3, <2>5
  <2> QED
    BY <2>2, <2>4, <2>5, <2>6, <2>7 DEF CounterInv
<1>2. ASSUME IInv, CounterInv PROVE TypeOK
  <2>1. Counters
    BY <1>2, CountersAreSizes DEF CounterInv
  <2>2. inFlight \in Nat
    BY <1>2, BusyIsFinite DEF CounterInv
  <2> QED
    BY <1>2, <2>1, <2>2 DEF TypeOK, IInv, StateType, CounterInv, Counters
<1>3. Spec => []CounterInv
  BY <1>1, CounterStep, ExecutorInvariant, PTL DEF Spec
<1> QED
  BY <1>2, <1>3, ExecutorInvariant, PTL
===============================================================================
