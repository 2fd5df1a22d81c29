--------------------------- MODULE MemoryPlanProofs ---------------------------
(***************************************************************************)
(* What the memory plan promises, for every graph, every alignment and     *)
(* every size: groups that share bytes of the arena never live at the same *)
(* node, so no kernel of a run finds an input overwritten and the outputs  *)
(* of the graph outlive the run.                                           *)
(*                                                                         *)
(* The argument goes in three layers.  Shape gives every variable its type.*)
(* Plan says what compilation built: ranks follow the edges, slots do not  *)
(* overlap, the groups of one slot live one after the other.  Progress ties*)
(* a run to the plan: a serial run takes the ranks in order, so what is    *)
(* written over a value belongs to a group that starts after it died.      *)
(***************************************************************************)
EXTENDS MemoryPlan, FiniteSetTheorems, WellFoundedInduction, TLAPS

GoodGraph ==
  /\ \A m, n \in Nodes : m # n => outs[m] \cap outs[n] = {}
  /\ \A v \in Values : Producers(v) = {} =>
       \/ \E w \in seeds : group[w] = group[v]
       \/ \A n \in Nodes : \A w \in outs[n] : group[w] # group[v]

Shape == TypeOK /\ GoodGraph

Slots ==
  /\ \A s \in slots : slotOf[s] = s /\ slotAt[s] + slotBytes[s] <= arena
  /\ \A s, t \in slots : s # t => \/ slotAt[s] + slotBytes[s] <= slotAt[t]
                                  \/ slotAt[t] + slotBytes[t] <= slotAt[s]

Lives ==
  \A k \in Placed :
    /\ Planned(k)
    /\ \A i \in Nodes : first[k] = i => IsFirst(k, i)
    /\ \A j \in 0..N : last[k] = j => IsLast(k, j)
    /\ first[k] <= last[k] /\ last[k] <= slotLast[slotOf[k]]

Fitting == \A k \in Placed : \A v \in Members(k) : Extent(v) <= slotBytes[slotOf[k]]

Turns ==
  \A h, k \in Placed : h # k /\ slotOf[h] = slotOf[k] => last[h] < first[k] \/ last[k] < first[h]

Budget == arena <= unshared /\ unshared <= SizeMax

Ranks ==
  /\ \A m, n \in Ordered : m # n => rank[m] # rank[n]
  /\ \A n \in Ordered : rank[n] < Cardinality(Ordered) /\ \A m \in Preds(n) : rank[m] < rank[n]
  /\ pc \notin {"order", "refused"} => Ordered = Nodes
  /\ pc = "order" => Placed = {} /\ slots = {}

(* A run: nothing is left of it before it begins, nodes follow their producers, and
   a serial one takes the ranks in order. *)
Quiet == pc \notin {"idle", "run"} => running = {} /\ done = {} /\ written = {} /\ nRuns = 0

Flow ==
  /\ running # {} => pc = "run"
  /\ running \cap done = {}
  /\ \A n \in done \cup running : Preds(n) \subseteq done
  /\ \A n \in done : outs[n] \subseteq written
  /\ \A v \in written : \E m \in Nodes : v \in outs[m] /\ (ok => m \in done \cup running)
  /\ pc = "idle" /\ nRuns > 0 /\ ok => done = Nodes

Serially ==
  /\ shared => serial
  /\ serial => /\ \A m, n \in running : m = n
               /\ running # {} => ok
               /\ \A m \in done \cup running, n \in Nodes : rank[n] < rank[m] => n \in done

(* A written value outside the arena is intact; in the arena it is, as long as every
   node begun so far lies within its life. *)
Alive(w) == ok /\ \A n \in done \cup running : rank[n] <= last[group[w]]

Intact ==
  \A w \in written : ~InArena(group[w]) \/ Alive(w) => \A c \in Cells(w) : mem[c] = group[w]

Progress == Quiet /\ Flow /\ Serially /\ Intact

Plan == Slots /\ Lives /\ Fitting /\ Turns /\ Budget /\ Ranks

-------------------------------------------------------------------------------
LEMMA ConstantFacts ==
  /\ N \in Nat \ {0} /\ K \in Nat \ {0} /\ Align \in Nat \ {0} /\ SizeMax \in Nat /\ MaxRuns \in Nat
  /\ \A g \in Graphs : g \in GraphType /\ WellFormed(g)
  BY PlanAssumption

LEMMA InitShape == Init => Shape
<1> SUFFICES ASSUME Init PROVE Shape
  OBVIOUS
<1>1. PICK g \in Graphs :
        /\ ins = g.ins /\ outs = g.outs /\ group = g.group /\ at = g.at /\ size = g.size
        /\ seeds = g.seeds /\ results = g.results
  BY DEF Init
<1>2. g \in GraphType /\ WellFormed(g)
  BY ConstantFacts
<1>3. /\ ins \in [Nodes -> SUBSET Values] /\ outs \in [Nodes -> SUBSET Values]
      /\ group \in [Values -> Groups] /\ at \in [Values -> Sizes] /\ size \in [Values -> Sizes]
      /\ seeds \subseteq Values /\ results \subseteq Values
  BY <1>1, <1>2 DEF GraphType
<1>4. GoodGraph
  <2>1. \A m, n \in Nodes : m # n => outs[m] \cap outs[n] = {}
    BY <1>1, <1>2 DEF WellFormed
  <2>2. ASSUME NEW v \in Values, Producers(v) = {}
        PROVE  \/ \E w \in seeds : group[w] = group[v]
               \/ \A n \in Nodes : \A w \in outs[n] : group[w] # group[v]
    <3>1. \A n \in Nodes : v \notin g.outs[n]
      BY <1>1, <2>2 DEF Producers
    <3> DEFINE Bound(u) == \/ \E w \in g.seeds : g.group[w] = g.group[u]
                           \/ \A n \in Nodes : \A w \in g.outs[n] : g.group[w] # g.group[u]
    <3>2. Bound(v)
      <4>1. \A u \in Values : (\A n \in Nodes : u \notin g.outs[n]) => Bound(u)
        BY <1>2, Zenon DEF WellFormed
      <4> QED
        BY <3>1, <4>1
    <3> QED
      BY <1>1, <3>2, Zenon
  <2> QED
    BY <2>1, <2>2 DEF GoodGraph
<1>5. TypeOK
  <2>1. 0 \in Nodes /\ 0 \in Sizes /\ 0 \in 0..N /\ N \in 0..N /\ 0 \in 0..MaxRuns /\ 0 \in 0..K
    BY ConstantFacts DEF Nodes, Sizes
  <2>2. rank \in [Nodes -> 0..N] /\ slotLast \in [Groups -> 0..N] /\ last \in [Groups -> 0..N]
    BY <2>1 DEF Init
  <2>3. slotAt \in [Groups -> Sizes] /\ slotBytes \in [Groups -> Sizes] /\ first \in [Groups -> Nodes]
    BY <2>1 DEF Init
  <2>4. mem \in [Bytes -> 0..K] /\ slotOf \in [Groups -> {0} \cup slots]
    BY <2>1 DEF Init
  <2>5. /\ pc \in {"order", "plan", "compiled", "idle", "run", "refused"} /\ slots \subseteq Groups
        /\ arena \in Sizes /\ unshared \in Sizes /\ serial \in BOOLEAN /\ shared \in BOOLEAN
        /\ nRuns \in 0..MaxRuns /\ ok \in BOOLEAN
        /\ running \subseteq Nodes /\ done \subseteq Nodes /\ written \subseteq Values
    BY <2>1 DEF Init
  <2> QED
    BY <1>3, <2>2, <2>3, <2>4, <2>5 DEF TypeOK
<1> QED
  BY <1>4, <1>5 DEF Shape

LEMMA InitPlan == Init => Plan
<1> SUFFICES ASSUME Init PROVE Plan
  OBVIOUS
<1>1. Placed = {} /\ slots = {} /\ pc = "order" /\ arena = 0 /\ unshared = 0
  BY DEF Init, Placed
<1>2. Ordered = {}
  BY ConstantFacts DEF Init, Ordered, Nodes
<1>3. Slots /\ Lives /\ Fitting /\ Turns
  BY <1>1 DEF Slots, Lives, Fitting, Turns
<1>4. Budget
  BY <1>1, ConstantFacts DEF Budget
<1>5. Ranks
  BY <1>1, <1>2 DEF Ranks
<1> QED
  BY <1>3, <1>4, <1>5 DEF Plan

-------------------------------------------------------------------------------
(* The nodes placed so far are finitely many, and fewer than N while one is missing. *)
LEMMA OrderedCount ==
  ASSUME TypeOK
  PROVE  /\ IsFiniteSet(Nodes) /\ IsFiniteSet(Ordered) /\ Cardinality(Ordered) \in 0..N
         /\ \A n \in Nodes : n \notin Ordered => Cardinality(Ordered) < N
<1>1. IsFiniteSet(Nodes) /\ Cardinality(Nodes) = N
  <2>1. 0 \in Int /\ N - 1 \in Int /\ N \in Nat \ {0}
    BY ConstantFacts
  <2>2. IsFiniteSet(0..(N - 1)) /\ Cardinality(0..(N - 1)) = IF 0 > N - 1 THEN 0 ELSE (N - 1) - 0 + 1
    BY <2>1, FS_Interval
  <2>3. ~(0 > N - 1) /\ (N - 1) - 0 + 1 = N
    BY <2>1
  <2> QED
    BY <2>2, <2>3 DEF Nodes
<1>2. Ordered \subseteq Nodes
  BY DEF Ordered
<1>3. IsFiniteSet(Ordered) /\ Cardinality(Ordered) <= N /\ (Cardinality(Ordered) = N => Ordered = Nodes)
  BY <1>1, <1>2, FS_Subset
<1>4. Cardinality(Ordered) \in Nat
  BY <1>3, FS_CardinalityType
<1>5. ASSUME NEW n \in Nodes, n \notin Ordered PROVE Cardinality(Ordered) < N
  <2>1. Cardinality(Ordered) # N
    BY <1>3, <1>5
  <2> QED
    BY <2>1, <1>3, <1>4, ConstantFacts
<1> QED
  BY <1>1, <1>3, <1>4, <1>5, ConstantFacts

LEMMA OrderPlan ==
  ASSUME Shape, Plan, NEW n \in Nodes, Order(n)
  PROVE  Shape' /\ Plan'
<1> DEFINE c == Cardinality(Ordered)
<1>1. c \in 0..N /\ c < N /\ n \notin Ordered /\ IsFiniteSet(Ordered)
  BY OrderedCount, ConstantFacts DEF Shape, Order, Ordered
<1> HIDE DEF c
<1>2. TypeOK /\ rank \in [Nodes -> 0..N]
  BY DEF Shape, TypeOK
<1>3. rank' = [rank EXCEPT ![n] = c]
  BY DEF Order, c
<1>4. rank'[n] = c /\ \A m \in Nodes : m # n => rank'[m] = rank[m]
  BY <1>2, <1>3
<1>5. UNCHANGED <<graphVars, pc, planVars, modeVars, runVars>>
  BY DEF Order
<1>6. TypeOK'
  BY <1>1, <1>2, <1>3, <1>5 DEF TypeOK, graphVars, planVars, modeVars, runVars
<1>7. GoodGraph'
  BY <1>5 DEF Shape, GoodGraph, Producers, graphVars
<1>8. Ordered' = Ordered \cup {n}
  <2>1. \A m \in Nodes : rank'[m] < N <=> m \in Ordered \cup {n}
    BY <1>1, <1>4 DEF Ordered
  <2> QED
    BY <2>1 DEF Ordered
<1>9. Cardinality(Ordered') = c + 1
  BY <1>1, <1>8, FS_AddElement DEF c
<1>10. pc = "order" /\ Placed = {} /\ slots = {} /\ pc' = "order"
  BY <1>5 DEF Plan, Ranks, Order
<1>11. Placed' = {} /\ slots' = {}
  BY <1>5, <1>10 DEF Placed, planVars
<1>12. (Slots /\ Lives /\ Fitting /\ Turns)'
  BY <1>11 DEF Slots, Lives, Fitting, Turns
<1>13. Budget'
  BY <1>5 DEF Plan, Budget, planVars
<1>14. Ranks'
  <2>1. \A m \in Nodes : Preds(m)' = Preds(m)
    BY <1>5 DEF Preds, Producers, graphVars
  <2>2. Preds(n) \subseteq Ordered
    BY DEF Order
  <2>3. \A m \in Ordered : m \in Nodes /\ m # n /\ rank'[m] = rank[m] /\ rank[m] < c /\ rank[m] \in 0..N
    BY <1>1, <1>2, <1>4 DEF Ordered, Plan, Ranks, c
  <2>4. \A l, m \in Ordered' : l # m => rank'[l] # rank'[m]
    BY <1>1, <1>4, <1>8, <2>3 DEF Plan, Ranks
  <2>5. \A m \in Ordered' : rank'[m] < c + 1
    BY <1>1, <1>4, <1>8, <2>3
  <2>6. \A m \in Ordered : Preds(m) \subseteq Ordered /\ \A l \in Preds(m) : rank[l] < rank[m]
    <3>1. \A m \in Ordered : \A l \in Preds(m) : l \in Nodes /\ rank[l] < rank[m] /\ rank[m] < N
      BY DEF Plan, Ranks, Preds, Producers, Ordered
    <3> QED
      BY <3>1, <1>2, ConstantFacts DEF Ordered
  <2>7. ASSUME NEW m \in Ordered', NEW l \in Preds(m) PROVE rank'[l] < rank'[m]
    <3>1. CASE m = n
      BY <3>1, <2>2, <2>3, <2>7, <1>4
    <3>2. CASE m # n
      <4>1. m \in Ordered
        BY <3>2, <1>8
      <4>2. l \in Ordered /\ rank[l] < rank[m]
        BY <4>1, <2>6, <2>7
      <4> QED
        BY <4>1, <4>2, <2>3
    <3> QED
      BY <3>1, <3>2
  <2>8. \A m \in Ordered' : \A l \in Preds(m)' : rank'[l] < rank'[m]
    <3>1. Ordered' \subseteq Nodes
      BY DEF Ordered
    <3> QED
      BY <2>1, <2>7, <3>1
  <2> QED
    BY <1>9, <1>10, <1>11, <2>4, <2>5, <2>8 DEF Ranks
<1> QED
  BY <1>6, <1>7, <1>12, <1>13, <1>14 DEF Shape, Plan

(* A step that keeps the graph, the ranks and the plan keeps what is known of them. *)
LEMMA KeepPlan ==
  ASSUME Shape, Plan, UNCHANGED <<graphVars, rank, planVars>>,
         pc' \in {"order", "refused"} => pc \in {"order", "refused"} \/ pc' = "refused",
         pc' = "order" => pc = "order",
         pc' \notin {"order", "refused"} => Ordered = Nodes
  PROVE  GoodGraph' /\ Plan'
<1>1. Ordered' = Ordered /\ Placed' = Placed
  BY DEF Ordered, Placed, planVars
<1>2. /\ ins' = ins /\ outs' = outs /\ group' = group /\ at' = at /\ size' = size
      /\ seeds' = seeds /\ results' = results /\ rank' = rank
      /\ slots' = slots /\ slotAt' = slotAt /\ slotBytes' = slotBytes /\ slotLast' = slotLast
      /\ slotOf' = slotOf /\ first' = first /\ last' = last /\ arena' = arena /\ unshared' = unshared
  BY DEF graphVars, planVars
<1>3. GoodGraph'
  BY <1>2 DEF Shape, GoodGraph, Producers
<1>4. Slots' /\ Turns' /\ Budget'
  BY <1>1, <1>2 DEF Plan, Slots, Turns, Budget
<1>5. Lives'
  BY <1>1, <1>2 DEF Plan, Lives, IsFirst, IsLast, ProducedAt, UsedAt, Members, Planned, Extent
<1>6. Fitting'
  BY <1>1, <1>2 DEF Plan, Fitting, Members, Extent
<1>7. Ranks'
  BY <1>1, <1>2 DEF Plan, Ranks, Preds, Producers
<1> QED
  BY <1>3, <1>4, <1>5, <1>6, <1>7 DEF Plan

LEMMA EndOrderPlan ==
  ASSUME Shape, Plan, EndOrder
  PROVE  Shape' /\ Plan'
<1>1. UNCHANGED <<graphVars, rank, planVars, modeVars, runVars>> /\ pc' \in {"plan", "refused"}
      /\ (pc' = "plan" => Ordered = Nodes)
  BY DEF EndOrder
<1>2. TypeOK'
  BY <1>1 DEF Shape, TypeOK, graphVars, planVars, modeVars, runVars
<1>3. GoodGraph' /\ Plan'
  BY <1>1, KeepPlan
<1> QED
  BY <1>2, <1>3 DEF Shape

-------------------------------------------------------------------------------
(* One group is placed. *)
LEMMA PlaceFacts ==
  ASSUME Shape, Plan, NEW k \in Groups, NEW i \in Nodes, NEW j \in 0..N, NEW b \in Sizes,
         NEW r \in b..(b + Align - 1), pc = "plan", Planned(k), slotOf[k] = 0,
         IsFirst(k, i), IsLast(k, j), IsBytes(k, b)
  PROVE  /\ i <= j /\ b <= r /\ r \in Nat /\ k \notin Placed /\ k \notin slots /\ k # 0
         /\ \A v \in Members(k) : Extent(v) \in Nat /\ Extent(v) <= r
<1>1. b <= r /\ r \in Nat /\ b \in Nat /\ k # 0
  BY ConstantFacts DEF Sizes, Groups
<1>2. i <= j
  BY DEF IsFirst, IsLast, ProducedAt, UsedAt
<1>3. k \notin Placed /\ k \notin slots
  BY <1>1 DEF Placed, Plan, Slots
<1>4. \A v \in Members(k) : Extent(v) \in Nat
  BY ConstantFacts DEF Shape, TypeOK, Members, Extent, Sizes
<1>5. \A v \in Members(k) : Extent(v) <= b
  BY DEF IsBytes
<1> QED
  BY <1>1, <1>2, <1>3, <1>4, <1>5

LEMMA ReusePlan ==
  ASSUME Shape, Plan, NEW k \in Groups, NEW i \in Nodes, NEW j \in 0..N, NEW b \in Sizes,
         NEW r \in b..(b + Align - 1), pc = "plan", Planned(k), slotOf[k] = 0,
         IsFirst(k, i), IsLast(k, j), IsBytes(k, b), unshared + r <= SizeMax,
         NEW s \in Fits(i, r), Reuse(k, s, j),
         unshared' = unshared + r, first' = [first EXCEPT ![k] = i], last' = [last EXCEPT ![k] = j],
         UNCHANGED pc, UNCHANGED <<graphVars, rank, modeVars, runVars>>
  PROVE  Shape' /\ Plan'
<1>1. /\ i <= j /\ b <= r /\ r \in Nat /\ k \notin Placed /\ k \notin slots /\ k # 0
      /\ \A v \in Members(k) : Extent(v) \in Nat /\ Extent(v) <= r
  BY PlaceFacts
<1>2. s \in slots /\ slotLast[s] < i /\ r <= slotBytes[s] /\ s \in Groups /\ s # 0
  BY ConstantFacts DEF Fits, Shape, TypeOK, Sizes, Groups
<1>3. /\ slotOf' = [slotOf EXCEPT ![k] = s] /\ slotLast' = [slotLast EXCEPT ![s] = j]
      /\ slots' = slots /\ slotAt' = slotAt /\ slotBytes' = slotBytes /\ arena' = arena
  BY DEF Reuse
<1>4. /\ slotOf \in [Groups -> {0} \cup slots] /\ slotLast \in [Groups -> 0..N]
      /\ first \in [Groups -> Nodes] /\ last \in [Groups -> 0..N] /\ slots \subseteq Groups
      /\ slotAt \in [Groups -> Nat] /\ slotBytes \in [Groups -> Nat] /\ arena \in Nat /\ unshared \in Nat
  BY ConstantFacts DEF Shape, TypeOK, Sizes
<1>5. /\ slotOf'[k] = s /\ first'[k] = i /\ last'[k] = j /\ slotLast'[s] = j
      /\ \A h \in Groups : h # k => slotOf'[h] = slotOf[h] /\ first'[h] = first[h] /\ last'[h] = last[h]
      /\ \A h \in Groups : h # s => slotLast'[h] = slotLast[h]
  BY <1>2, <1>3, <1>4
<1>6. Placed' = Placed \cup {k}
  BY <1>1, <1>2, <1>5 DEF Placed
<1>7. \A h \in Placed : h \in Groups /\ h # k /\ slotOf[h] \in slots /\ last[h] <= slotLast[slotOf[h]]
                          /\ last[h] \in Nat /\ first[h] \in Nat
  BY <1>1, <1>4, ConstantFacts DEF Placed, Plan, Lives, Nodes
<1>8. \A h \in Placed : slotOf[h] = s => last[h] < i
  BY <1>2, <1>4, <1>7, ConstantFacts DEF Nodes
<1>9. TypeOK'
  <2>1. slotOf' \in [Groups -> {0} \cup slots'] /\ slotLast' \in [Groups -> 0..N]
    BY <1>2, <1>3, <1>4
  <2>2. first' \in [Groups -> Nodes] /\ last' \in [Groups -> 0..N]
    BY <1>4
  <2>3. unshared' \in Sizes
    BY <1>1, <1>4, ConstantFacts DEF Sizes
  <2> QED
    BY <1>3, <2>1, <2>2, <2>3 DEF Shape, TypeOK, graphVars, modeVars, runVars
<1>10. GoodGraph'
  BY DEF Shape, GoodGraph, Producers, graphVars
<1>11. Slots'
  <2>1. \A t \in slots : slotOf'[t] = t
    BY <1>1, <1>4, <1>5 DEF Plan, Slots
  <2> QED
    BY <1>3, <2>1 DEF Plan, Slots
<1>12. Lives'
  <2>1. \A h \in Groups, x \in 0..N : /\ IsFirst(h, x)' = IsFirst(h, x) /\ IsLast(h, x)' = IsLast(h, x)
                                      /\ Planned(h)' = Planned(h)
    BY DEF IsFirst, IsLast, ProducedAt, UsedAt, Members, Planned, Extent, graphVars
  <2>2. \A x \in Nodes : x \in 0..N
    BY ConstantFacts DEF Nodes
  <2>3. ASSUME NEW h \in Placed'
        PROVE  /\ \A x \in Nodes : first'[h] = x => IsFirst(h, x)
               /\ \A x \in 0..N : last'[h] = x => IsLast(h, x)
               /\ Planned(h) /\ first'[h] <= last'[h] /\ last'[h] <= slotLast'[slotOf'[h]]
    <3>1. CASE h = k
      BY <3>1, <1>1, <1>5
    <3>2. CASE h # k
      <4>1. h \in Placed /\ h \in Groups
        BY <3>2, <1>6, <1>7
      <4>2. first'[h] = first[h] /\ last'[h] = last[h] /\ slotOf'[h] = slotOf[h]
        BY <3>2, <4>1, <1>5
      <4>3. last[h] <= slotLast'[slotOf[h]]
        <5>1. CASE slotOf[h] = s
          BY <5>1, <4>1, <1>1, <1>5, <1>7, <1>8, ConstantFacts DEF Nodes
        <5>2. CASE slotOf[h] # s
          BY <5>2, <4>1, <1>4, <1>5, <1>7
        <5> QED
          BY <5>1, <5>2
      <4> QED
        BY <4>1, <4>2, <4>3 DEF Plan, Lives
    <3> QED
      BY <3>1, <3>2
  <2>4. Placed' \subseteq Groups
    BY DEF Placed
  <2> QED
    BY <2>1, <2>2, <2>3, <2>4 DEF Lives
<1>13. Fitting'
  <2>1. \A h \in Groups : Members(h)' = Members(h)
    BY DEF Members, graphVars
  <2>2. \A v : Extent(v)' = Extent(v)
    BY DEF Extent, graphVars
  <2>3. ASSUME NEW h \in Placed', NEW v \in Members(h) PROVE Extent(v) <= slotBytes[slotOf'[h]]
    <3>1. CASE h = k
      BY <3>1, <2>3, <1>1, <1>2, <1>4, <1>5
    <3>2. CASE h # k
      BY <3>2, <2>3, <1>5, <1>6, <1>7 DEF Plan, Fitting
    <3> QED
      BY <3>1, <3>2
  <2>4. Placed' \subseteq Groups
    BY DEF Placed
  <2> QED
    BY <1>3, <2>1, <2>2, <2>3, <2>4 DEF Fitting
<1>14. Turns'
  <2>1. \A h \in Placed : slotOf'[h] = slotOf'[k] => last'[h] < first'[k]
    BY <1>5, <1>7, <1>8
  <2> QED
    BY <1>5, <1>6, <1>7, <2>1 DEF Plan, Turns
<1>15. Budget'
  BY <1>1, <1>3, <1>4 DEF Plan, Budget
<1>16. Ranks'
  <2>1. Ordered' = Ordered /\ \A n \in Nodes : Preds(n)' = Preds(n)
    BY DEF Ordered, Preds, Producers, graphVars
  <2>2. Ordered \subseteq Nodes
    BY DEF Ordered
  <2> QED
    BY <2>1, <2>2 DEF Plan, Ranks
<1> QED
  BY <1>9, <1>10, <1>11, <1>12, <1>13, <1>14, <1>15, <1>16 DEF Shape, Plan

LEMMA ExtendPlan ==
  ASSUME Shape, Plan, NEW k \in Groups, NEW i \in Nodes, NEW j \in 0..N, NEW b \in Sizes,
         NEW r \in b..(b + Align - 1), pc = "plan", Planned(k), slotOf[k] = 0,
         IsFirst(k, i), IsLast(k, j), IsBytes(k, b), unshared + r <= SizeMax, arena + r <= SizeMax,
         Extend(k, r, j),
         unshared' = unshared + r, first' = [first EXCEPT ![k] = i], last' = [last EXCEPT ![k] = j],
         UNCHANGED pc, UNCHANGED <<graphVars, rank, modeVars, runVars>>
  PROVE  Shape' /\ Plan'
<1>1. /\ i <= j /\ b <= r /\ r \in Nat /\ k \notin Placed /\ k \notin slots /\ k # 0
      /\ \A v \in Members(k) : Extent(v) \in Nat /\ Extent(v) <= r
  BY PlaceFacts
<1>3. /\ slotOf' = [slotOf EXCEPT ![k] = k] /\ slotLast' = [slotLast EXCEPT ![k] = j]
      /\ slots' = slots \cup {k} /\ slotAt' = [slotAt EXCEPT ![k] = arena]
      /\ slotBytes' = [slotBytes EXCEPT ![k] = r] /\ arena' = arena + r
  BY DEF Extend
<1>4. /\ slotOf \in [Groups -> {0} \cup slots] /\ slotLast \in [Groups -> 0..N]
      /\ first \in [Groups -> Nodes] /\ last \in [Groups -> 0..N] /\ slots \subseteq Groups
      /\ slotAt \in [Groups -> Nat] /\ slotBytes \in [Groups -> Nat] /\ arena \in Nat /\ unshared \in Nat
  BY ConstantFacts DEF Shape, TypeOK, Sizes
<1>5. /\ slotOf'[k] = k /\ first'[k] = i /\ last'[k] = j /\ slotLast'[k] = j
      /\ slotAt'[k] = arena /\ slotBytes'[k] = r
      /\ \A h \in Groups : h # k => /\ slotOf'[h] = slotOf[h] /\ first'[h] = first[h] /\ last'[h] = last[h]
                                    /\ slotLast'[h] = slotLast[h] /\ slotAt'[h] = slotAt[h]
                                    /\ slotBytes'[h] = slotBytes[h]
  BY <1>3, <1>4
<1>6. Placed' = Placed \cup {k}
  BY <1>1, <1>5 DEF Placed
<1>7. \A h \in Placed : h \in Groups /\ h # k /\ slotOf[h] \in slots /\ slotOf[h] # k
                          /\ slotOf[h] \in Groups /\ last[h] \in Nat /\ first[h] \in Nat
  BY <1>1, <1>4, ConstantFacts DEF Placed, Nodes
<1>9. TypeOK'
  <2>1. slotOf' \in [Groups -> {0} \cup slots'] /\ slotLast' \in [Groups -> 0..N] /\ slots' \subseteq Groups
    BY <1>3, <1>4
  <2>2. first' \in [Groups -> Nodes] /\ last' \in [Groups -> 0..N]
    BY <1>4
  <2>3. unshared' \in Sizes /\ arena' \in Sizes /\ r \in Sizes /\ arena \in Sizes
    BY <1>1, <1>3, <1>4, ConstantFacts DEF Sizes
  <2>4. slotAt' \in [Groups -> Sizes] /\ slotBytes' \in [Groups -> Sizes]
    BY <1>3, <2>3 DEF Shape, TypeOK
  <2> QED
    BY <2>1, <2>2, <2>3, <2>4 DEF Shape, TypeOK, graphVars, modeVars, runVars
<1>10. GoodGraph'
  BY DEF Shape, GoodGraph, Producers, graphVars
<1>11. Slots'
  <2>1. \A t \in slots : t \in Groups /\ t # k /\ slotOf'[t] = t /\ slotAt'[t] = slotAt[t] /\ slotBytes'[t] = slotBytes[t]
                          /\ slotAt[t] + slotBytes[t] <= arena /\ slotAt[t] \in Nat /\ slotBytes[t] \in Nat
    BY <1>1, <1>4, <1>5 DEF Plan, Slots
  <2>2. \A t \in slots' : slotOf'[t] = t /\ slotAt'[t] + slotBytes'[t] <= arena'
    BY <2>1, <1>1, <1>3, <1>4, <1>5
  <2>3. \A s, t \in slots : s # t => \/ slotAt[s] + slotBytes[s] <= slotAt[t]
                                     \/ slotAt[t] + slotBytes[t] <= slotAt[s]
    BY DEF Plan, Slots
  <2>4. ASSUME NEW s \in slots', NEW t \in slots', s # t
        PROVE  \/ slotAt'[s] + slotBytes'[s] <= slotAt'[t]
               \/ slotAt'[t] + slotBytes'[t] <= slotAt'[s]
    <3>1. CASE s = k
      BY <3>1, <2>1, <2>4, <1>3, <1>5
    <3>2. CASE t = k
      BY <3>2, <2>1, <2>4, <1>3, <1>5
    <3>3. CASE s # k /\ t # k
      BY <3>3, <2>1, <2>3, <2>4, <1>3
    <3> QED
      BY <3>1, <3>2, <3>3
  <2> QED
    BY <2>2, <2>4 DEF Slots
<1>12. Lives'
  <2>1. \A h \in Groups, x \in 0..N : /\ IsFirst(h, x)' = IsFirst(h, x) /\ IsLast(h, x)' = IsLast(h, x)
                                      /\ Planned(h)' = Planned(h)
    BY DEF IsFirst, IsLast, ProducedAt, UsedAt, Members, Planned, Extent, graphVars
  <2>2. \A x \in Nodes : x \in 0..N
    BY ConstantFacts DEF Nodes
  <2>3. ASSUME NEW h \in Placed'
        PROVE  /\ \A x \in Nodes : first'[h] = x => IsFirst(h, x)
               /\ \A x \in 0..N : last'[h] = x => IsLast(h, x)
               /\ Planned(h) /\ first'[h] <= last'[h] /\ last'[h] <= slotLast'[slotOf'[h]]
    <3>1. CASE h = k
      BY <3>1, <1>1, <1>5
    <3>2. CASE h # k
      <4>1. h \in Placed /\ h \in Groups
        BY <3>2, <1>6, <1>7
      <4>2. first'[h] = first[h] /\ last'[h] = last[h] /\ slotOf'[h] = slotOf[h]
            /\ slotLast'[slotOf[h]] = slotLast[slotOf[h]]
        BY <3>2, <4>1, <1>5, <1>7
      <4> QED
        BY <4>1, <4>2 DEF Plan, Lives
    <3> QED
      BY <3>1, <3>2
  <2>4. Placed' \subseteq Groups
    BY DEF Placed
  <2> QED
    BY <2>1, <2>2, <2>3, <2>4 DEF Lives
<1>13. Fitting'
  <2>1. \A h \in Groups : Members(h)' = Members(h)
    BY DEF Members, graphVars
  <2>2. \A v : Extent(v)' = Extent(v)
    BY DEF Extent, graphVars
  <2>3. ASSUME NEW h \in Placed', NEW v \in Members(h) PROVE Extent(v) <= slotBytes'[slotOf'[h]]
    <3>1. CASE h = k
      BY <3>1, <2>3, <1>1, <1>5
    <3>2. CASE h # k
      BY <3>2, <2>3, <1>5, <1>6, <1>7 DEF Plan, Fitting
    <3> QED
      BY <3>1, <3>2
  <2>4. Placed' \subseteq Groups
    BY DEF Placed
  <2> QED
    BY <2>1, <2>2, <2>3, <2>4 DEF Fitting
<1>14. Turns'
  <2>1. \A h \in Placed : slotOf'[h] # slotOf'[k] /\ slotOf'[h] = slotOf[h] /\ first'[h] = first[h] /\ last'[h] = last[h]
    BY <1>5, <1>7
  <2> QED
    BY <1>6, <2>1 DEF Plan, Turns
<1>15. Budget'
  BY <1>1, <1>3, <1>4 DEF Plan, Budget
<1>16. Ranks'
  <2>1. Ordered' = Ordered /\ \A n \in Nodes : Preds(n)' = Preds(n)
    BY DEF Ordered, Preds, Producers, graphVars
  <2>2. Ordered \subseteq Nodes
    BY DEF Ordered
  <2> QED
    BY <2>1, <2>2 DEF Plan, Ranks
<1> QED
  BY <1>9, <1>10, <1>11, <1>12, <1>13, <1>14, <1>15, <1>16 DEF Shape, Plan

LEMMA PlacePlan ==
  ASSUME Shape, Plan, NEW k \in Groups, Place(k)
  PROVE  Shape' /\ Plan'
<1>1. /\ pc = "plan" /\ Planned(k) /\ slotOf[k] = 0
  BY DEF Place
<1>5. PICK i \in Nodes, j \in 0..N, b \in Sizes : IsFirst(k, i) /\ IsLast(k, j) /\ IsBytes(k, b) /\
        \E r \in b..(b + Align - 1) : Allocate(k, i, j, b, r)
  BY DEF Place
<1>2. PICK r \in b..(b + Align - 1) :
        IsFirst(k, i) /\ IsLast(k, j) /\ IsBytes(k, b) /\ Allocate(k, i, j, b, r)
  BY <1>5
<1>3. CASE TooLarge(i, b, r)
  <2>1. pc' = "refused" /\ UNCHANGED <<graphVars, rank, planVars, modeVars, runVars>>
    BY <1>2, <1>3 DEF Allocate
  <2>2. TypeOK'
    BY <2>1 DEF Shape, TypeOK, graphVars, planVars, modeVars, runVars
  <2>3. GoodGraph' /\ Plan'
    BY <2>1, KeepPlan
  <2> QED
    BY <2>2, <2>3 DEF Shape
<1>4. CASE ~TooLarge(i, b, r)
  <2>1. /\ \/ \E s \in Best(Fits(i, r)) : Reuse(k, s, j)
           \/ Fits(i, r) = {} /\ Extend(k, r, j)
        /\ unshared' = unshared + r
        /\ first' = [first EXCEPT ![k] = i] /\ last' = [last EXCEPT ![k] = j]
        /\ UNCHANGED pc /\ UNCHANGED <<graphVars, rank, modeVars, runVars>>
    BY <1>2, <1>4 DEF Allocate
  <2>2. unshared \in Nat /\ arena \in Nat /\ r \in Int /\ SizeMax \in Nat
    BY ConstantFacts DEF Shape, TypeOK, Sizes
  <2>3. unshared + r <= SizeMax /\ (Fits(i, r) = {} => arena + r <= SizeMax)
    BY <1>4, <2>2 DEF TooLarge
  <2>4. CASE \E s \in Best(Fits(i, r)) : Reuse(k, s, j)
    <3>1. PICK s \in Fits(i, r) : Reuse(k, s, j)
      BY <2>4 DEF Best
    <3> QED
      BY <1>1, <1>2, <2>1, <2>3, <3>1, ReusePlan
  <2>5. CASE Fits(i, r) = {} /\ Extend(k, r, j)
    BY <1>1, <1>2, <2>1, <2>3, <2>5, ExtendPlan
  <2> QED
    BY <2>1, <2>4, <2>5
<1> QED
  BY <1>3, <1>4

-------------------------------------------------------------------------------
(* Every other step leaves the graph, the ranks and the plan as they are. *)
Still == UNCHANGED <<graphVars, rank, planVars>> /\ pc' # "order" /\ pc # "order" /\ (pc = "refused" <=> pc' = "refused")

LEMMA StillPlan ==
  ASSUME Shape, Plan, Still, TypeOK'
  PROVE  Shape' /\ Plan'
<1>1. pc' \notin {"order", "refused"} => Ordered = Nodes
  BY DEF Still, Plan, Ranks
<1>2. pc' = "order" => pc = "order"
  BY DEF Still
<1>3. UNCHANGED <<graphVars, rank, planVars>>
  BY DEF Still
<1>4. GoodGraph' /\ Plan'
  <2>1. pc' \in {"order", "refused"} => pc \in {"order", "refused"} \/ pc' = "refused"
    BY DEF Still
  <2> QED
    BY <1>1, <1>2, <1>3, <2>1, KeepPlan
<1> QED
  BY <1>4 DEF Shape

LEMMA OtherStill ==
  ASSUME Shape, Plan, running # {} => pc = "run",
         EndPlan \/ CreateSession \/ Run \/ (\E n \in Nodes : NodeStep(n)) \/ EndRun
  PROVE  Still /\ TypeOK'
<1>1. CASE EndPlan
  BY <1>1 DEF EndPlan, Still, Shape, TypeOK, graphVars, planVars, modeVars, runVars
<1>2. CASE CreateSession
  BY <1>2 DEF CreateSession, Still, Shape, TypeOK, graphVars, planVars, runVars
<1>3. CASE Run
  <2>1. nRuns' \in 0..MaxRuns
    BY <1>3, ConstantFacts DEF Run, Shape, TypeOK
  <2>2. mem' \in [Bytes -> 0..K]
    BY <1>3, ConstantFacts DEF Run
  <2> QED
    BY <1>3, <2>1, <2>2 DEF Run, Still, Shape, TypeOK, graphVars, planVars, modeVars
<1>4. ASSUME NEW n \in Nodes, NodeStep(n) PROVE Still /\ TypeOK'
  <2>0. pc = "run"
    BY <1>4 DEF NodeStep, Start, Write, Finish, Fail
  <2>1. CASE Start(n)
    BY <2>1, <2>0 DEF Start, Still, Shape, TypeOK, graphVars, planVars, modeVars
  <2>2. ASSUME NEW v \in Values, Write(n, v) PROVE Still /\ TypeOK'
    <3>1. mem' \in [Bytes -> 0..K]
      <4>1. group[v] \in 0..K
        BY ConstantFacts DEF Shape, TypeOK, Groups
      <4>2. mem \in [Bytes -> 0..K] /\ mem' = [c \in Bytes |-> IF c \in Cells(v) THEN group[v] ELSE mem[c]]
        BY <2>2 DEF Write, Shape, TypeOK
      <4> HIDE DEF Cells, Bytes
      <4> QED
        BY <4>1, <4>2
    <3>2. written' \subseteq Values
      BY <2>2 DEF Write, Shape, TypeOK
    <3> QED
      BY <2>2, <2>0, <3>1, <3>2 DEF Write, Still, Shape, TypeOK, graphVars, planVars, modeVars
  <2>3. CASE Finish(n)
    BY <2>3, <2>0 DEF Finish, Still, Shape, TypeOK, graphVars, planVars, modeVars
  <2>4. CASE Fail(n)
    BY <2>4, <2>0 DEF Fail, Still, Shape, TypeOK, graphVars, planVars, modeVars
  <2> QED
    BY <1>4, <2>1, <2>2, <2>3, <2>4 DEF NodeStep
<1>5. CASE EndRun
  BY <1>5 DEF EndRun, Still, Shape, TypeOK, graphVars, planVars, modeVars, runVars
<1> QED
  BY <1>1, <1>2, <1>3, <1>4, <1>5

-------------------------------------------------------------------------------
(* Until a run begins there is nothing to say of one. *)
LEMMA InitProgress == Init => Progress
<1> SUFFICES ASSUME Init PROVE Progress
  OBVIOUS
<1>1. pc = "order" /\ running = {} /\ done = {} /\ written = {} /\ nRuns = 0 /\ ~shared
  BY DEF Init
<1> QED
  BY <1>1 DEF Progress, Quiet, Flow, Serially, Intact

LEMMA RestProgress ==
  ASSUME Progress, pc \notin {"idle", "run"}, pc' # "idle", UNCHANGED <<modeVars, runVars>>
  PROVE  Progress'
<1>1. running' = {} /\ done' = {} /\ written' = {} /\ nRuns' = 0 /\ (shared' => serial')
  BY DEF Progress, Quiet, Serially, modeVars, runVars
<1>2. (Quiet /\ Intact)'
  BY <1>1 DEF Quiet, Intact
<1>3. Flow'
  BY <1>1 DEF Flow
<1>4. Serially'
  BY <1>1 DEF Serially
<1> QED
  BY <1>2, <1>3, <1>4 DEF Progress

LEMMA CompileProgress ==
  ASSUME Progress, Compile \/ CreateSession
  PROVE  Progress'
<1>1. CASE Compile
  <2>1. CASE \E n \in Nodes : Order(n)
    BY <2>1, RestProgress DEF Order
  <2>2. CASE EndOrder
    BY <2>2, RestProgress DEF EndOrder
  <2>3. CASE \E k \in Groups : Place(k)
    <3>1. PICK k \in Groups : Place(k)
      BY <2>3
    <3>2. pc = "plan"
      BY <3>1 DEF Place
    <3>3. \E i, j, b, r : Allocate(k, i, j, b, r)
      BY <3>1 DEF Place
    <3>4. UNCHANGED <<modeVars, runVars>> /\ pc' \in {pc, "refused"}
      BY <3>3 DEF Allocate
    <3> QED
      BY <3>2, <3>4, RestProgress
  <2>4. CASE EndPlan
    BY <2>4, RestProgress DEF EndPlan
  <2> QED
    BY <1>1, <2>1, <2>2, <2>3, <2>4 DEF Compile
<1>2. CASE CreateSession
  <2>0. shared' => serial'
    <3>1. shared' = FALSE \/ shared' = serial'
      BY <1>2 DEF CreateSession
    <3> QED
      BY <3>1, Zenon
  <2>1. pc = "compiled" /\ pc' = "idle" /\ UNCHANGED runVars /\ (shared' => serial')
    BY <1>2, <2>0, Zenon DEF CreateSession
  <2>2. running' = {} /\ done' = {} /\ written' = {} /\ nRuns' = 0
    BY <2>1 DEF Progress, Quiet, runVars
  <2>3. (Quiet /\ Intact)'
    BY <2>1, <2>2 DEF Quiet, Intact
  <2>4. Flow'
    BY <2>1, <2>2 DEF Flow
  <2>5. Serially'
    BY <2>1, <2>2 DEF Serially
  <2> QED
    BY <2>3, <2>4, <2>5 DEF Progress
<1> QED
  BY <1>1, <1>2

LEMMA RunProgress ==
  ASSUME Shape, Shape', Progress, Run
  PROVE  Progress'
<1>1. pc' = "run" /\ running' = {} /\ done' = {} /\ written' = {} /\ UNCHANGED <<serial, shared>>
  BY DEF Run, modeVars
<1>2. (Quiet /\ Intact)'
  BY <1>1 DEF Quiet, Intact
<1>3. Flow'
  BY <1>1 DEF Flow
<1>4. Serially'
  BY <1>1 DEF Serially, Progress
<1> QED
  BY <1>2, <1>3, <1>4 DEF Progress

-------------------------------------------------------------------------------
(* Some node of a set of nodes has the least rank. *)
LEMMA LeastRank ==
  ASSUME TypeOK, NEW S \in SUBSET Nodes, S # {}
  PROVE  \E n \in S : \A m \in S : rank[n] <= rank[m]
<1> DEFINE T == {rank[n] : n \in S}
<1>1. \A n \in S : rank[n] \in Nat
  BY ConstantFacts DEF TypeOK
<1>2. T \subseteq Nat /\ T # {}
  BY <1>1
<1>3. PICK x \in T : \A y \in T : ~(<<y, x>> \in OpToRel(<, Nat))
  BY <1>2, NatLessThanWellFounded, WFMin
<1>4. \A y \in T : ~(y < x)
  BY <1>2, <1>3 DEF OpToRel
<1>5. PICK n \in S : rank[n] = x
  OBVIOUS
<1>6. ASSUME NEW m \in S PROVE rank[n] <= rank[m]
  BY <1>1, <1>4, <1>5
<1> QED
  BY <1>6

(* In a run the node of least rank not yet done is ready. *)
LEMMA LeastIsReady ==
  ASSUME Shape, Plan, pc = "run", NEW l \in Nodes \ done, \A m \in Nodes \ done : rank[l] <= rank[m]
  PROVE  Preds(l) \subseteq done
<1>1. Ordered = Nodes
  BY DEF Plan, Ranks
<1>2. \A m \in Preds(l) : m \in Nodes /\ rank[m] < rank[l]
  BY <1>1 DEF Plan, Ranks, Preds, Producers
<1>3. \A m \in Nodes : rank[m] \in Nat
  BY ConstantFacts DEF Shape, TypeOK
<1> QED
  BY <1>2, <1>3

LEMMA StartProgress ==
  ASSUME Shape, Shape', Plan, Progress, NEW n \in Nodes, Start(n)
  PROVE  Progress'
<1>1. /\ pc = "run" /\ ok /\ n \notin done \cup running /\ Preds(n) \subseteq done
      /\ running' = running \cup {n} /\ UNCHANGED <<graphVars, pc, rank, planVars, modeVars, nRuns, ok, done, written, mem>>
  BY DEF Start
<1>2. Quiet'
  BY <1>1 DEF Quiet
<1>3. Flow'
  <2>1. \A m : Preds(m)' = Preds(m)
    BY <1>1 DEF Preds, Producers, graphVars
  <2>2. \A m \in done' \cup running' : Preds(m)' \subseteq done'
    BY <1>1, <2>1 DEF Progress, Flow
  <2> QED
    BY <1>1, <2>2 DEF Progress, Flow, graphVars
<1>4. Serially'
  <2>1. CASE ~serial
    BY <1>1, <2>1 DEF Progress, Serially, modeVars
  <2>2. CASE serial
    <3>1. running = {} /\ \A m \in Nodes \ done : Preds(m) \subseteq done => rank[n] <= rank[m]
      BY <2>2 DEF Start
    <3>2. ASSUME NEW x \in Nodes, rank[x] < rank[n] PROVE x \in done
      <4>1. SUFFICES ASSUME x \notin done PROVE FALSE
        OBVIOUS
      <4>2. PICK l \in Nodes \ done : \A m \in Nodes \ done : rank[l] <= rank[m]
        BY <4>1, LeastRank DEF Shape
      <4>3. rank[n] <= rank[l] /\ rank[l] <= rank[x]
        BY <1>1, <3>1, <4>1, <4>2, LeastIsReady
      <4>4. rank[n] \in Nat /\ rank[l] \in Nat /\ rank[x] \in Nat
        BY ConstantFacts DEF Shape, TypeOK
      <4> QED
        BY <3>2, <4>3, <4>4
    <3>3. \A m \in done' \cup running', x \in Nodes : rank'[x] < rank'[m] => x \in done'
      BY <1>1, <3>1, <3>2, <2>2 DEF Progress, Serially
    <3> QED
      BY <1>1, <2>2, <3>1, <3>3 DEF Serially, modeVars
  <2> QED
    BY <2>1, <2>2
<1>5. Intact'
  <2>1. \A w : Cells(w)' = Cells(w) /\ InArena(group[w])' = InArena(group[w]) /\ (Alive(w)' => Alive(w))
    BY <1>1 DEF Cells, InArena, Extent, Alive, graphVars, planVars, modeVars
  <2> QED
    BY <1>1, <2>1 DEF Progress, Intact, graphVars
<1> QED
  BY <1>2, <1>3, <1>4, <1>5 DEF Progress

-------------------------------------------------------------------------------
(* Groups in the arena whose lives touch share no byte of it. *)
LEMMA Disjoint ==
  ASSUME Shape, Plan, NEW h \in Placed, NEW k \in Placed, h # k,
         ~(last[h] < first[k]), ~(last[k] < first[h]),
         NEW v \in Members(h), NEW w \in Members(k)
  PROVE  \/ slotAt[slotOf[h]] + Extent(v) <= slotAt[slotOf[k]] + at[w]
         \/ slotAt[slotOf[k]] + Extent(w) <= slotAt[slotOf[h]] + at[v]
<1>1. slotOf[h] # slotOf[k]
  BY DEF Plan, Turns
<1>2. slotOf[h] \in slots /\ slotOf[k] \in slots
  BY DEF Shape, TypeOK, Placed
<1>3. \/ slotAt[slotOf[h]] + slotBytes[slotOf[h]] <= slotAt[slotOf[k]]
      \/ slotAt[slotOf[k]] + slotBytes[slotOf[k]] <= slotAt[slotOf[h]]
  BY <1>1, <1>2 DEF Plan, Slots
<1>4. Extent(v) <= slotBytes[slotOf[h]] /\ Extent(w) <= slotBytes[slotOf[k]]
  BY DEF Plan, Fitting
<1>5. /\ slotAt[slotOf[h]] \in Nat /\ slotAt[slotOf[k]] \in Nat
      /\ slotBytes[slotOf[h]] \in Nat /\ slotBytes[slotOf[k]] \in Nat
  BY <1>2, ConstantFacts DEF Shape, TypeOK, Sizes
<1>6. at[v] \in Nat /\ at[w] \in Nat /\ Extent(v) \in Nat /\ Extent(w) \in Nat
  BY ConstantFacts DEF Shape, TypeOK, Members, Sizes, Extent
<1> QED
  BY <1>3, <1>4, <1>5, <1>6

(* What a running node writes over belongs to another group only if that one is
   dead. *)
LEMMA WriteSpares ==
  ASSUME Shape, Plan, Progress, NEW n \in running, NEW v \in outs[n], v \in Values,
         NEW w \in written, ~InArena(group[w]) \/ Alive(w),
         NEW c \in Cells(w), c \in Cells(v)
  PROVE  group[v] = group[w]
<1> SUFFICES ASSUME group[v] # group[w] PROVE FALSE
  OBVIOUS
<1> DEFINE h == group[w]
           k == group[v]
<1>1. w \in Values /\ n \in Nodes /\ h \in Groups /\ k \in Groups /\ h # 0 /\ k # 0 /\ v \in Members(k) /\ w \in Members(h)
  BY ConstantFacts DEF Shape, TypeOK, Groups, Members
<1>2. InArena(h) /\ InArena(k)
  <2>1. (InArena(h) => c[1] = 0) /\ (~InArena(h) => c[1] = h)
    BY DEF Cells
  <2>2. (InArena(k) => c[1] = 0) /\ (~InArena(k) => c[1] = k)
    BY DEF Cells
  <2> QED
    BY <2>1, <2>2, <1>1
<1>3. h \in Placed /\ k \in Placed /\ serial /\ Alive(w)
  BY <1>1, <1>2 DEF InArena, Placed, Progress, Serially
<1>4. /\ rank[n] \in Nat /\ first[h] \in Nat /\ first[k] \in Nat /\ last[h] \in Nat /\ last[k] \in Nat
      /\ first[h] \in Nodes /\ first[k] \in Nodes /\ last[k] \in 0..N
      /\ \A m \in Nodes : rank[m] \in Nat
  BY <1>1, ConstantFacts DEF Shape, TypeOK, Nodes
<1>5. first[k] <= rank[n] /\ rank[n] <= last[k]
  <2>1. rank[n] \in ProducedAt(k) /\ rank[n] \in UsedAt(k)
    BY <1>1 DEF ProducedAt, UsedAt
  <2>2. IsFirst(k, first[k]) /\ IsLast(k, last[k])
    BY <1>3, <1>4 DEF Plan, Lives
  <2> QED
    BY <2>1, <2>2 DEF IsFirst, IsLast
<1>6. rank[n] <= last[h]
  BY <1>3 DEF Alive
<1>7. first[h] <= rank[n]
  <2>1. PICK m \in Nodes : w \in outs[m] /\ m \in done \cup running
    BY <1>3 DEF Progress, Flow, Alive
  <2>2. rank[m] \in ProducedAt(h)
    BY <1>1, <2>1 DEF ProducedAt
  <2>3. first[h] <= rank[m]
    BY <1>3, <1>4, <2>2 DEF Plan, Lives, IsFirst
  <2>4. ~(rank[n] < rank[m])
    <3>1. n \notin done
      BY DEF Progress, Flow
    <3> QED
      BY <3>1, <2>1, <1>1, <1>3 DEF Progress, Serially
  <2> QED
    BY <2>1, <2>3, <2>4, <1>4
<1>8. \/ slotAt[slotOf[h]] + Extent(w) <= slotAt[slotOf[k]] + at[v]
      \/ slotAt[slotOf[k]] + Extent(v) <= slotAt[slotOf[h]] + at[w]
  <2>1. ~(last[h] < first[k]) /\ ~(last[k] < first[h])
    BY <1>4, <1>5, <1>6, <1>7
  <2> QED
    BY <2>1, <1>1, <1>3, Disjoint
<1>9. PICK x \in at[w]..(Extent(w) - 1) : c = <<0, slotAt[slotOf[h]] + x>>
  BY <1>2 DEF Cells
<1>10. PICK y \in at[v]..(Extent(v) - 1) : c = <<0, slotAt[slotOf[k]] + y>>
  BY <1>2 DEF Cells
<1>11. slotAt[slotOf[h]] + x = slotAt[slotOf[k]] + y
  BY <1>9, <1>10
<1>12. /\ slotAt[slotOf[h]] \in Nat /\ slotAt[slotOf[k]] \in Nat
       /\ at[v] \in Nat /\ at[w] \in Nat /\ Extent(v) \in Nat /\ Extent(w) \in Nat
  <2>1. slotOf[h] \in Groups /\ slotOf[k] \in Groups
    BY <1>1, <1>3 DEF Placed, Shape, TypeOK
  <2> QED
    BY <1>1, <2>1, ConstantFacts DEF Shape, TypeOK, Sizes, Extent
<1>13. x \in Int /\ at[w] <= x /\ x <= Extent(w) - 1 /\ y \in Int /\ at[v] <= y /\ y <= Extent(v) - 1
  BY <1>9, <1>10, <1>12
<1> HIDE DEF h, k
<1> QED
  BY <1>8, <1>11, <1>12, <1>13

LEMMA CellsAreBytes ==
  ASSUME Shape, Plan, NEW w \in Values
  PROVE  Cells(w) \subseteq Bytes
<1> DEFINE k == group[w]
<1>1. k \in Groups /\ k \in 0..K /\ 0 \in 0..K /\ at[w] \in Nat /\ size[w] \in Nat
      /\ at[w] <= SizeMax /\ size[w] <= SizeMax /\ w \in Members(k) /\ SizeMax \in Nat
  BY ConstantFacts DEF Shape, TypeOK, Groups, Sizes, Members
<1>2. CASE ~InArena(k)
  <2>1. \A i \in at[w]..(Extent(w) - 1) : i \in 0..(2 * SizeMax)
    BY <1>1 DEF Extent
  <2> QED
    BY <1>1, <1>2, <2>1 DEF Cells, Bytes
<1>3. CASE InArena(k)
  <2>1. k \in Placed /\ slotOf[k] \in slots /\ slotOf[k] \in Groups
    BY <1>1, <1>3 DEF InArena, Placed, Shape, TypeOK
  <2>2. /\ slotAt[slotOf[k]] \in Nat /\ slotBytes[slotOf[k]] \in Nat /\ arena \in Nat /\ arena <= SizeMax
    BY <2>1, ConstantFacts DEF Shape, TypeOK, Sizes
  <2>3. slotAt[slotOf[k]] + slotBytes[slotOf[k]] <= arena /\ Extent(w) <= slotBytes[slotOf[k]]
    BY <1>1, <2>1 DEF Plan, Slots, Fitting
  <2>4. \A i \in at[w]..(Extent(w) - 1) : slotAt[slotOf[k]] + i \in 0..(2 * SizeMax)
    BY <1>1, <2>2, <2>3 DEF Extent
  <2> QED
    BY <1>1, <1>3, <2>4 DEF Cells, Bytes
<1> QED
  BY <1>2, <1>3

LEMMA WriteProgress ==
  ASSUME Shape, Shape', Plan, Progress, NEW n \in Nodes, NEW v \in Values, Write(n, v)
  PROVE  Progress'
<1>1. /\ n \in running /\ v \in outs[n] /\ v \notin written /\ written' = written \cup {v}
      /\ mem' = [c \in Bytes |-> IF c \in Cells(v) THEN group[v] ELSE mem[c]]
      /\ UNCHANGED <<graphVars, pc, rank, planVars, modeVars, nRuns, ok, running, done>>
  BY DEF Write
<1>2. Quiet'
  BY <1>1 DEF Progress, Quiet, Flow
<1>3. Flow'
  <2>1. \A m : Preds(m)' = Preds(m)
    BY <1>1 DEF Preds, Producers, graphVars
  <2>2. /\ \A m \in done' \cup running' : Preds(m)' \subseteq done'
        /\ \A m \in done' : outs'[m] \subseteq written'
    BY <1>1, <2>1 DEF Progress, Flow, graphVars
  <2>3. \A w \in written' : \E m \in Nodes : w \in outs'[m] /\ (ok' => m \in done' \cup running')
    BY <1>1 DEF Progress, Flow, graphVars
  <2>4. (running' # {} => pc' = "run") /\ running' \cap done' = {}
        /\ (pc' = "idle" /\ nRuns' > 0 /\ ok' => done' = Nodes)
    BY <1>1 DEF Progress, Flow
  <2> QED
    BY <2>2, <2>3, <2>4 DEF Flow
<1>4. Serially'
  BY <1>1 DEF Progress, Serially, modeVars
<1>5. Intact'
  <2>1. \A w : Cells(w)' = Cells(w) /\ InArena(group[w])' = InArena(group[w]) /\ Alive(w)' = Alive(w)
    BY <1>1 DEF Cells, InArena, Extent, Alive, graphVars, planVars, modeVars
  <2>2. group' = group
    BY <1>1 DEF graphVars
  <2>3. written \subseteq Values
    BY DEF Shape, TypeOK
  <2>4. ASSUME NEW w \in written', ~InArena(group[w]) \/ Alive(w), NEW c \in Cells(w) PROVE mem'[c] = group[w]
    <3>1. c \in Bytes
      BY <1>1, <2>3, <2>4, CellsAreBytes
    <3>2. mem'[c] = IF c \in Cells(v) THEN group[v] ELSE mem[c]
      BY <1>1, <3>1
    <3>3. CASE w = v
      BY <3>2, <3>3, <2>4
    <3>4. CASE w # v
      <4>1. w \in written /\ mem[c] = group[w]
        BY <3>4, <1>1, <2>4 DEF Progress, Intact
      <4>2. c \in Cells(v) => group[v] = group[w]
        BY <4>1, <1>1, <2>4, WriteSpares
      <4> QED
        BY <3>2, <4>1, <4>2
    <3> QED
      BY <3>3, <3>4
  <2> QED
    BY <2>1, <2>2, <2>4 DEF Intact
<1> QED
  BY <1>2, <1>3, <1>4, <1>5 DEF Progress

LEMMA FinishProgress ==
  ASSUME Shape, Shape', Plan, Progress, NEW n \in Nodes, Finish(n)
  PROVE  Progress'
<1>1. /\ n \in running /\ outs[n] \subseteq written /\ running' = running \ {n} /\ done' = done \cup {n}
      /\ UNCHANGED <<graphVars, pc, rank, planVars, modeVars, nRuns, ok, written, mem>>
  BY DEF Finish
<1>2. done' \cup running' = done \cup running
  BY <1>1
<1>3. Quiet'
  BY <1>1 DEF Progress, Quiet, Flow
<1>4. Flow'
  <2>1. \A m : Preds(m)' = Preds(m)
    BY <1>1 DEF Preds, Producers, graphVars
  <2>2. \A m \in done' \cup running' : Preds(m)' \subseteq done'
    BY <1>1, <1>2, <2>1 DEF Progress, Flow
  <2>3. \A w \in written' : \E m \in Nodes : w \in outs'[m] /\ (ok' => m \in done' \cup running')
    BY <1>1, <1>2 DEF Progress, Flow, graphVars
  <2>4. pc = "run"
    BY <1>1 DEF Progress, Flow
  <2> QED
    BY <1>1, <2>2, <2>3, <2>4 DEF Progress, Flow, graphVars
<1>5. Serially'
  BY <1>1, <1>2 DEF Progress, Serially, modeVars
<1>6. Intact'
  <2>1. \A w : Cells(w)' = Cells(w) /\ InArena(group[w])' = InArena(group[w]) /\ Alive(w)' = Alive(w)
    BY <1>1, <1>2 DEF Cells, InArena, Extent, Alive, graphVars, planVars, modeVars
  <2> QED
    BY <1>1, <2>1 DEF Progress, Intact, graphVars
<1> QED
  BY <1>3, <1>4, <1>5, <1>6 DEF Progress

LEMMA FailProgress ==
  ASSUME Shape, Shape', Plan, Progress, NEW n \in Nodes, Fail(n)
  PROVE  Progress'
<1>1. /\ n \in running /\ running' = running \ {n} /\ ok' = FALSE
      /\ UNCHANGED <<graphVars, pc, rank, planVars, modeVars, nRuns, done, written, mem>>
  BY DEF Fail
<1>2. Quiet'
  BY <1>1 DEF Progress, Quiet, Flow
<1>3. Flow'
  <2>1. \A m : Preds(m)' = Preds(m)
    BY <1>1 DEF Preds, Producers, graphVars
  <2>2. \A m \in done' \cup running' : Preds(m)' \subseteq done'
    BY <1>1, <2>1 DEF Progress, Flow
  <2>3. \A w \in written' : \E m \in Nodes : w \in outs'[m] /\ (ok' => m \in done' \cup running')
    BY <1>1 DEF Progress, Flow, graphVars
  <2> QED
    BY <1>1, <2>2, <2>3 DEF Progress, Flow, graphVars
<1>4. Serially'
  <2>1. serial => running' = {}
    BY <1>1 DEF Progress, Serially
  <2> QED
    BY <1>1, <2>1 DEF Progress, Serially, modeVars
<1>5. Intact'
  <2>1. \A w : Cells(w)' = Cells(w) /\ InArena(group[w])' = InArena(group[w]) /\ ~Alive(w)'
    BY <1>1 DEF Cells, InArena, Extent, Alive, graphVars, planVars, modeVars
  <2> QED
    BY <1>1, <2>1 DEF Progress, Intact, graphVars
<1> QED
  BY <1>2, <1>3, <1>4, <1>5 DEF Progress

LEMMA EndRunProgress ==
  ASSUME Shape, Shape', Plan, Progress, EndRun
  PROVE  Progress'
<1>1. pc' = "idle" /\ running = {} /\ (done = Nodes \/ ~ok)
      /\ UNCHANGED <<graphVars, rank, planVars, modeVars, runVars>>
  BY DEF EndRun
<1>2. /\ nRuns' = nRuns /\ ok' = ok /\ running' = running /\ done' = done /\ written' = written /\ mem' = mem
  BY <1>1 DEF runVars
<1>3. Quiet'
  BY <1>1 DEF Quiet
<1>4. Flow'
  BY <1>1, <1>2 DEF Progress, Flow, Preds, Producers, graphVars
<1>5. Serially'
  BY <1>1, <1>2 DEF Progress, Serially, modeVars
<1>6. Intact'
  BY <1>1, <1>2 DEF Progress, Intact, Cells, InArena, Extent, Alive, graphVars, planVars, modeVars
<1> QED
  BY <1>3, <1>4, <1>5, <1>6 DEF Progress

-------------------------------------------------------------------------------
IInv == Shape /\ Plan /\ Progress

LEMMA Inductive == IInv /\ [Next]_vars => IInv'
<1> SUFFICES ASSUME IInv, [Next]_vars PROVE IInv'
  OBVIOUS
<1>1. Shape /\ Plan /\ Progress
  BY DEF IInv
<1>2. CASE Compile \/ CreateSession
  <2>1. Progress'
    BY <1>1, <1>2, CompileProgress
  <2>2. CASE EndPlan \/ CreateSession
    <3>1. (running # {} => pc = "run") 
      BY <1>1 DEF Progress, Flow
    <3>2. Still /\ TypeOK'
      BY <1>1, <2>2, <3>1, OtherStill
    <3> QED
      BY <1>1, <2>1, <3>2, StillPlan DEF IInv
  <2>3. CASE \E n \in Nodes : Order(n)
    BY <1>1, <2>1, <2>3, OrderPlan DEF IInv
  <2>4. CASE EndOrder
    BY <1>1, <2>1, <2>4, EndOrderPlan DEF IInv
  <2>5. CASE \E k \in Groups : Place(k)
    BY <1>1, <2>1, <2>5, PlacePlan DEF IInv
  <2> QED
    BY <1>2, <2>2, <2>3, <2>4, <2>5 DEF Compile
<1>3. CASE Run \/ (\E n \in Nodes : NodeStep(n)) \/ EndRun
  <2>1. running # {} => pc = "run"
    BY <1>1 DEF Progress, Flow
  <2>2. Still /\ TypeOK'
    BY <1>1, <1>3, <2>1, OtherStill
  <2>3. Shape' /\ Plan'
    BY <1>1, <2>2, StillPlan
  <2>4. CASE Run
    BY <1>1, <2>3, <2>4, RunProgress DEF IInv
  <2>5. CASE \E n \in Nodes : NodeStep(n)
    <3>1. PICK n \in Nodes : Start(n) \/ (\E v \in Values : Write(n, v)) \/ Finish(n) \/ Fail(n)
      BY <2>5 DEF NodeStep
    <3> QED
      BY <1>1, <2>3, <3>1, StartProgress, WriteProgress, FinishProgress, FailProgress DEF IInv
  <2>6. CASE EndRun
    BY <1>1, <2>3, <2>6, EndRunProgress DEF IInv
  <2> QED
    BY <1>3, <2>4, <2>5, <2>6
<1>4. CASE Rest \/ UNCHANGED vars
  <2>1. UNCHANGED <<graphVars, rank, planVars, modeVars, runVars, pc>>
    BY <1>4 DEF Rest, vars
  <2>2. TypeOK'
    BY <1>1, <2>1 DEF Shape, TypeOK, graphVars, planVars, modeVars, runVars
  <2>3. GoodGraph' /\ Plan'
    <3>1. pc' \notin {"order", "refused"} => Ordered = Nodes
      BY <1>1, <2>1 DEF Plan, Ranks
    <3> QED
      BY <1>1, <2>1, <3>1, KeepPlan
  <2>4. Progress'
    <3>1. /\ nRuns' = nRuns /\ ok' = ok /\ running' = running /\ done' = done /\ written' = written /\ mem' = mem
      BY <2>1 DEF runVars
    <3>2. Quiet' /\ Flow'
      BY <1>1, <2>1, <3>1 DEF Progress, Quiet, Flow, Preds, Producers, graphVars
    <3>3. Serially'
      BY <1>1, <2>1, <3>1 DEF Progress, Serially, modeVars
    <3>4. Intact'
      BY <1>1, <2>1, <3>1 DEF Progress, Intact, Cells, InArena, Extent, Alive, graphVars, planVars, modeVars
    <3> QED
      BY <3>2, <3>3, <3>4 DEF Progress
  <2> QED
    BY <2>2, <2>3, <2>4 DEF IInv, Shape
<1> QED
  BY <1>2, <1>3, <1>4 DEF Next

(* The inductive invariant holds, whatever the graphs and the sizes. *)
THEOREM PlanInvariant == Spec => []IInv
<1>1. Init => IInv
  BY InitShape, InitPlan, InitProgress DEF IInv
<1> QED
  BY <1>1, Inductive, PTL DEF Spec

(* Every field keeps its type: in particular no size wraps around, since sizes,
   offsets and the arena stay within the largest size_t. *)
THEOREM PlanTypes == Spec => []TypeOK
<1>1. IInv => TypeOK
  BY DEF IInv, Shape
<1> QED
  BY <1>1, PlanInvariant, PTL

(* Groups that share bytes of the arena never live at the same node:
   BuildMemoryPlan reuses a slot only after its last group died. *)
THEOREM LiveGroupsAreDisjoint == Spec => []NoLiveOverlap
<1>1. IInv => NoLiveOverlap
  <2> SUFFICES ASSUME IInv, NEW h \in Placed, NEW k \in Placed, h # k,
                      ~(last[h] < first[k]), ~(last[k] < first[h])
               PROVE  \A v \in Members(h), w \in Members(k) :
                        \/ slotAt[slotOf[h]] + Extent(v) <= slotAt[slotOf[k]] + at[w]
                        \/ slotAt[slotOf[k]] + Extent(w) <= slotAt[slotOf[h]] + at[v]
    BY DEF NoLiveOverlap
  <2> QED
    BY Disjoint DEF IInv
<1> QED
  BY <1>1, PlanInvariant, PTL

(* The arena holds every value placed in it, and no plan takes more than separate
   storages would. *)
THEOREM ArenaIsLargeEnough == Spec => []ArenaHolds
<1>1. IInv => ArenaHolds
  <2> SUFFICES ASSUME IInv PROVE ArenaHolds
    OBVIOUS
  <2>1. arena <= unshared /\ unshared <= SizeMax
    BY DEF IInv, Plan, Budget
  <2>2. ASSUME NEW k \in Placed, NEW v \in Members(k) PROVE slotAt[slotOf[k]] + Extent(v) <= arena
    <3>1. slotOf[k] \in slots /\ slotOf[k] \in Groups
      BY DEF IInv, Shape, TypeOK, Placed
    <3>2. slotAt[slotOf[k]] + slotBytes[slotOf[k]] <= arena /\ Extent(v) <= slotBytes[slotOf[k]]
      BY <3>1 DEF IInv, Plan, Slots, Fitting
    <3>3. /\ slotAt[slotOf[k]] \in Nat /\ slotBytes[slotOf[k]] \in Nat /\ Extent(v) \in Nat /\ arena \in Nat
      BY <3>1, ConstantFacts DEF IInv, Shape, TypeOK, Sizes, Members, Extent
    <3> QED
      BY <3>2, <3>3
  <2> QED
    BY <2>1, <2>2 DEF ArenaHolds
<1> QED
  BY <1>1, PlanInvariant, PTL

(* A serial run takes the nodes in the order the plan was made for. *)
THEOREM SerialRunsFollowThePlan == Spec => []PlanOrderIsRunOrder
<1>1. IInv => PlanOrderIsRunOrder
  BY DEF IInv, Progress, Serially, PlanOrderIsRunOrder
<1> QED
  BY <1>1, PlanInvariant, PTL

(* Only a group with a producer, and no initial contents, is in the arena. *)
LEMMA UnboundIsOutside ==
  ASSUME IInv, NEW v \in Values, Producers(v) = {}
  PROVE  ~InArena(group[v])
<1> SUFFICES ASSUME InArena(group[v]) PROVE FALSE
  OBVIOUS
<1>1. group[v] \in Groups
  BY DEF IInv, Shape, TypeOK
<1>2. group[v] \in Placed
  BY <1>1 DEF InArena, Placed
<1>3. Planned(group[v])
  BY <1>2 DEF IInv, Plan, Lives
<1>4. \A w \in seeds : group[w] # group[v]
  <2>1. seeds \subseteq Values
    BY DEF IInv, Shape, TypeOK
  <2> QED
    BY <1>3, <2>1 DEF Planned, Members
<1>5. \A n \in Nodes : \A w \in outs[n] : group[w] # group[v]
  BY <1>4 DEF IInv, Shape, GoodGraph
<1>6. ProducedAt(group[v]) = {}
  BY <1>5 DEF ProducedAt, Members
<1> QED
  BY <1>3, <1>6 DEF Planned

(* Whatever a running node reads is what its producer wrote in this run: the arena
   never hands a kernel a buffer that holds one of its live inputs. *)
THEOREM InputsStayIntact == Spec => []InputsIntact
<1>1. IInv => InputsIntact
  <2> SUFFICES ASSUME IInv, NEW n \in running, NEW v \in ins[n]
               PROVE  IF Producers(v) = {} THEN ~InArena(group[v])
                      ELSE \A c \in Cells(v) : mem[c] = group[v]
    BY DEF InputsIntact
  <2>1. n \in Nodes /\ v \in Values /\ group[v] \in Groups
    BY DEF IInv, Shape, TypeOK
  <2>2. CASE Producers(v) = {}
    BY <2>1, <2>2, UnboundIsOutside
  <2>3. CASE Producers(v) # {}
    <3>1. PICK p \in Nodes : v \in outs[p]
      BY <2>3 DEF Producers
    <3>2. p \in Preds(n)
      BY <3>1 DEF Preds, Producers
    <3>3. v \in written
      BY <3>1, <3>2 DEF IInv, Progress, Flow
    <3>4. InArena(group[v]) => Alive(v)
      <4> SUFFICES ASSUME InArena(group[v]) PROVE Alive(v)
        OBVIOUS
      <4>1. serial /\ ok /\ group[v] \in Placed
        BY <2>1 DEF InArena, Placed, IInv, Progress, Serially
      <4>2. last[group[v]] \in 0..N /\ \A m \in Nodes : rank[m] \in Nat
        BY <2>1, ConstantFacts DEF IInv, Shape, TypeOK
      <4>3. rank[n] \in UsedAt(group[v])
        BY <2>1 DEF UsedAt, Members
      <4>4. rank[n] <= last[group[v]]
        BY <4>1, <4>2, <4>3 DEF IInv, Plan, Lives, IsLast
      <4>5. \A m \in done \cup running : m \in Nodes /\ ~(rank[n] < rank[m])
        BY <2>1, <4>1 DEF IInv, Shape, TypeOK, Progress, Flow, Serially
      <4>6. \A m \in done \cup running : rank[m] <= last[group[v]]
        BY <2>1, <4>2, <4>4, <4>5, ConstantFacts
      <4> QED
        BY <4>1, <4>6 DEF Alive
    <3> QED
      BY <2>3, <3>3, <3>4 DEF IInv, Progress, Intact
  <2> QED
    BY <2>2, <2>3
<1> QED
  BY <1>1, PlanInvariant, PTL

(* The outputs of the graph survive the run that computed them: their groups live to
   the end of the plan, so no later node is given their bytes. *)
THEOREM ResultsStayIntact == Spec => []ResultsIntact
<1>1. IInv => ResultsIntact
  <2> SUFFICES ASSUME IInv, pc = "idle", nRuns > 0, ok, NEW v \in results, Producers(v) # {}
               PROVE  \A c \in Cells(v) : mem[c] = group[v]
    BY DEF ResultsIntact
  <2>1. v \in Values /\ group[v] \in Groups /\ running \subseteq Nodes
    BY DEF IInv, Shape, TypeOK
  <2>2. done = Nodes
    BY DEF IInv, Progress, Flow
  <2>3. v \in written
    BY <2>2 DEF IInv, Progress, Flow, Producers
  <2>4. InArena(group[v]) => Alive(v)
    <3> SUFFICES ASSUME InArena(group[v]) PROVE Alive(v)
      OBVIOUS
    <3>1. group[v] \in Placed
      BY <2>1 DEF InArena, Placed
    <3>2. last[group[v]] \in 0..N /\ \A m \in Nodes : rank[m] \in 0..N
      BY <2>1, ConstantFacts DEF IInv, Shape, TypeOK
    <3>3. N \in UsedAt(group[v])
      BY <2>1 DEF UsedAt, Members
    <3>4. N <= last[group[v]]
      BY <3>1, <3>2, <3>3 DEF IInv, Plan, Lives, IsLast
    <3>5. \A m \in done \cup running : rank[m] <= last[group[v]]
      BY <2>1, <2>2, <3>2, <3>4, ConstantFacts
    <3> QED
      BY <3>5 DEF Alive
  <2> QED
    BY <2>3, <2>4 DEF IInv, Progress, Intact
<1> QED
  BY <1>1, PlanInvariant, PTL
===============================================================================
