------------------------------ MODULE MemoryPlan -------------------------------
(***************************************************************************)
(* CompiledGraph and ExecutionSession (src/core/execution_plan.cc): the    *)
(* order of the nodes, the memory plan made for that order, and runs of a  *)
(* session, with the plan or without.                                      *)
(*                                                                         *)
(* Values that are views of one Storage form a group, and the plan gives a *)
(* group a slot of the arena.  Memory is kept byte by byte: what the model *)
(* records of a byte is the group whose value this run wrote there.  Region*)
(* 0 is the arena; a group outside the arena is a region of its own.       *)
(***************************************************************************)
EXTENDS Integers, FiniteSets

CONSTANTS
  N,           \* number of nodes
  Values,      \* names of values
  K,           \* number of groups
  Align,       \* slot sizes are multiples of it: 64
  SizeMax,     \* the largest size_t
  Graphs,      \* records of ins, outs, group, at, size, seeds and results
  MaxRuns      \* bound on the calls of Run

Nodes == 0..(N - 1)
Groups == 1..K
Sizes == 0..SizeMax
Bytes == (0..K) \X (0..(2 * SizeMax))

GraphType == [ins : [Nodes -> SUBSET Values], outs : [Nodes -> SUBSET Values],
              group : [Values -> Groups], at : [Values -> Sizes], size : [Values -> Sizes],
              seeds : SUBSET Values, results : SUBSET Values]

(* ValidateAndOrderGraph refuses a second producer.  A value that nobody produces
   is bound by the caller, which makes it a seed; external state, the exception,
   may share its storage with no produced value. *)
WellFormed(g) ==
  /\ \A m, n \in Nodes : m # n => g.outs[m] \cap g.outs[n] = {}
  /\ \A v \in Values : (\A n \in Nodes : v \notin g.outs[n]) =>
       \/ \E w \in g.seeds : g.group[w] = g.group[v]
       \/ \A n \in Nodes : \A w \in g.outs[n] : g.group[w] # g.group[v]

ASSUME PlanAssumption ==
  /\ N \in Nat \ {0} /\ K \in Nat \ {0} /\ Align \in Nat \ {0} /\ SizeMax \in Nat /\ MaxRuns \in Nat
  /\ Graphs \subseteq GraphType /\ \A g \in Graphs : WellFormed(g)

VARIABLES
  ins, outs, group, at, size,  \* inputs and outputs of nodes; storage, offset, bytes of values
  seeds, results,              \* values with initial contents; graph outputs
  pc,                          \* "order", "plan", "compiled", "idle", "run" or "refused"
  rank,                        \* position of a node in the plan; N before it has one
  slots,                       \* the slots, each named after the group it was made for
  slotAt, slotBytes, slotLast, \* Slot: offset, bytes, last
  slotOf, first, last,         \* PlannedAllocation of a group; slot 0 before it has one
  arena, unshared,             \* memory_plan_.arena_bytes and unshared_bytes
  serial, shared,              \* kSerialGraph; reuses_memory_
  nRuns, ok,                   \* runs begun; no node of the last one failed
  running, done, written,      \* nodes running and done, outputs written, in this run
  mem                          \* the group this run last wrote in a byte, or 0

graphVars == <<ins, outs, group, at, size, seeds, results>>
planVars == <<slots, slotAt, slotBytes, slotLast, slotOf, first, last, arena, unshared>>
modeVars == <<serial, shared>>
runVars == <<nRuns, ok, running, done, written, mem>>
vars == <<graphVars, pc, rank, planVars, modeVars, runVars>>

Producers(v) == {n \in Nodes : v \in outs[n]}
Preds(n) == UNION {Producers(v) : v \in ins[n]}
Members(k) == {v \in Values : group[v] = k}
Extent(v) == at[v] + size[v]

(* Lifetime of a group: the positions that produce it and those that use it. *)
ProducedAt(k) == {rank[n] : n \in {m \in Nodes : outs[m] \cap Members(k) # {}}}
UsedAt(k) == {rank[n] : n \in {m \in Nodes : (ins[m] \cup outs[m]) \cap Members(k) # {}}}
             \cup {i \in {N} : results \cap Members(k) # {}}

IsFirst(k, i) == i \in ProducedAt(k) /\ \A j \in ProducedAt(k) : i <= j
BugIsLast(k, j) ==          \* a graph output dies with its last reader
  j \in UsedAt(k) \ {N} /\ \A i \in UsedAt(k) \ {N} : i <= j
IsLast(k, j) == j \in UsedAt(k) /\ \A i \in UsedAt(k) : i <= j

IsBytes(k, b) == b \in {Extent(v) : v \in Members(k)} /\ \A v \in Members(k) : Extent(v) <= b

Planned(k) ==
  /\ ProducedAt(k) # {} /\ Members(k) \cap seeds = {}
  /\ \E v \in Members(k) : Extent(v) > 0

IsRounded(b, r) == b <= r /\ r < b + Align /\ \E q \in 0..r : r = q * Align

(* Where the bytes of a value are. *)
InArena(k) == shared /\ slotOf[k] # 0
Cells(v) == IF InArena(group[v])
            THEN {<<0, slotAt[slotOf[group[v]]] + i>> : i \in at[v]..(Extent(v) - 1)}
            ELSE {<<group[v], i>> : i \in at[v]..(Extent(v) - 1)}

Init ==
  /\ \E g \in Graphs :
       /\ ins = g.ins /\ outs = g.outs /\ group = g.group /\ at = g.at /\ size = g.size
       /\ seeds = g.seeds /\ results = g.results
  /\ pc = "order" /\ rank = [n \in Nodes |-> N]
  /\ slots = {} /\ slotAt = [s \in Groups |-> 0] /\ slotBytes = [s \in Groups |-> 0]
  /\ slotLast = [s \in Groups |-> 0]
  /\ slotOf = [k \in Groups |-> 0] /\ first = [k \in Groups |-> 0] /\ last = [k \in Groups |-> 0]
  /\ arena = 0 /\ unshared = 0
  /\ serial = TRUE /\ shared = FALSE
  /\ nRuns = 0 /\ ok = FALSE /\ running = {} /\ done = {} /\ written = {}
  /\ mem = [c \in Bytes |-> 0]

-------------------------------------------------------------------------------
(* CompiledGraph::Compile *)

Ordered == {n \in Nodes : rank[n] < N}

(* A node whose producers are all placed is appended, the lowest index first. *)
Order(n) ==
  /\ pc = "order" /\ rank[n] = N /\ Preds(n) \subseteq Ordered
  /\ \A m \in Nodes \ Ordered : Preds(m) \subseteq Ordered => n <= m
  /\ rank' = [rank EXCEPT ![n] = Cardinality(Ordered)]
  /\ UNCHANGED <<graphVars, pc, planVars, modeVars, runVars>>

(* All nodes are placed, or what is left is a cycle.  A view that ends past the
   largest size is refused before anything is placed. *)
EndOrder ==
  /\ pc = "order" /\ \A n \in Nodes \ Ordered : ~(Preds(n) \subseteq Ordered)
  /\ pc' = IF Ordered = Nodes /\ (\A v \in Values : Extent(v) <= SizeMax) THEN "plan" ELSE "refused"
  /\ UNCHANGED <<graphVars, rank, planVars, modeVars, runVars>>

(* BuildMemoryPlan takes the groups by first node and number. *)
Turn(k, i) ==
  \A h \in Groups : Planned(h) /\ slotOf[h] = 0 =>
    \A j \in Nodes : IsFirst(h, j) => i < j \/ (i = j /\ k <= h)

Fits(i, r) == {s \in slots : slotLast[s] < i /\ slotBytes[s] >= r}
Best(S) == {s \in S : \A t \in S : slotBytes[s] < slotBytes[t]
                                   \/ (slotBytes[s] = slotBytes[t] /\ slotAt[s] <= slotAt[t])}

BugReuse(k, s, j) ==        \* a slot that is taken again keeps its old end
  /\ slotOf' = [slotOf EXCEPT ![k] = s]
  /\ UNCHANGED <<slots, slotAt, slotBytes, slotLast, arena>>

(* A free slot is taken again ... *)
Reuse(k, s, j) ==
  /\ slotOf' = [slotOf EXCEPT ![k] = s]
  /\ slotLast' = [slotLast EXCEPT ![s] = j]
  /\ UNCHANGED <<slots, slotAt, slotBytes, arena>>

BugExtend(k, r, j) ==       \* the arena is not enlarged
  /\ slots' = slots \cup {k}
  /\ slotOf' = [slotOf EXCEPT ![k] = k]
  /\ slotAt' = [slotAt EXCEPT ![k] = arena]
  /\ slotBytes' = [slotBytes EXCEPT ![k] = r]
  /\ slotLast' = [slotLast EXCEPT ![k] = j]
  /\ UNCHANGED arena

(* ... or one is made at the end of the arena. *)
Extend(k, r, j) ==
  /\ slots' = slots \cup {k}
  /\ slotOf' = [slotOf EXCEPT ![k] = k]
  /\ slotAt' = [slotAt EXCEPT ![k] = arena]
  /\ slotBytes' = [slotBytes EXCEPT ![k] = r]
  /\ slotLast' = [slotLast EXCEPT ![k] = j]
  /\ arena' = arena + r

BugTooLarge(i, b, r) ==     \* only the arena is bounded
  b + Align - 1 > SizeMax \/ (Fits(i, r) = {} /\ arena + r > SizeMax)
TooLarge(i, b, r) ==
  b + Align - 1 > SizeMax \/ (Fits(i, r) = {} /\ arena + r > SizeMax) \/ unshared + r > SizeMax

(* A group that lives from i to j and needs r bytes gets its slot, or the plan
   overflows and Compile fails. *)
Allocate(k, i, j, b, r) ==
  /\ \/ /\ ~TooLarge(i, b, r)
        /\ \/ \E s \in Best(Fits(i, r)) : Reuse(k, s, j)
           \/ Fits(i, r) = {} /\ Extend(k, r, j)
        /\ unshared' = unshared + r
        /\ first' = [first EXCEPT ![k] = i] /\ last' = [last EXCEPT ![k] = j]
        /\ UNCHANGED pc
     \/ /\ TooLarge(i, b, r) /\ pc' = "refused"
        /\ UNCHANGED planVars
  /\ UNCHANGED <<graphVars, rank, modeVars, runVars>>

(* The next group is placed. *)
Place(k) ==
  /\ pc = "plan" /\ Planned(k) /\ slotOf[k] = 0
  /\ \E i \in Nodes : IsFirst(k, i) /\ Turn(k, i) /\
       \E j \in 0..N : IsLast(k, j) /\
         \E b \in Sizes : IsBytes(k, b) /\
           \E r \in b..(b + Align - 1) : IsRounded(b, r) /\ Allocate(k, i, j, b, r)

EndPlan ==
  /\ pc = "plan" /\ \A k \in Groups : Planned(k) => slotOf[k] # 0
  /\ pc' = "compiled"
  /\ UNCHANGED <<graphVars, rank, planVars, modeVars, runVars>>

-------------------------------------------------------------------------------
(* CreateSession and Run *)

BugCreateSession ==         \* the plan is used whatever the thread mode
  /\ pc = "compiled"
  /\ serial' \in BOOLEAN /\ shared' \in BOOLEAN
  /\ pc' = "idle"
  /\ UNCHANGED <<graphVars, rank, planVars, runVars>>

(* The plan is used when the session asks for it, its backends allow it and the
   graph runs serially. *)
CreateSession ==
  /\ pc = "compiled"
  /\ serial' \in BOOLEAN /\ shared' \in {FALSE, serial'}
  /\ pc' = "idle"
  /\ UNCHANGED <<graphVars, rank, planVars, runVars>>

(* What earlier runs left in memory counts for nothing. *)
Run ==
  /\ pc = "idle" /\ nRuns < MaxRuns
  /\ pc' = "run" /\ nRuns' = nRuns + 1 /\ ok' = TRUE
  /\ running' = {} /\ done' = {} /\ written' = {} /\ mem' = [c \in Bytes |-> 0]
  /\ UNCHANGED <<graphVars, rank, planVars, modeVars>>

(* The serial loop starts the first ready node when none runs; the parallel one
   starts any ready node. *)
Start(n) ==
  /\ pc = "run" /\ ok /\ n \notin done \cup running /\ Preds(n) \subseteq done
  /\ serial => /\ running = {}
               /\ \A m \in Nodes \ done : Preds(m) \subseteq done => rank[n] <= rank[m]
  /\ running' = running \cup {n}
  /\ UNCHANGED <<graphVars, pc, rank, planVars, modeVars, nRuns, ok, done, written, mem>>

(* A kernel writes its outputs one by one, while it reads its inputs. *)
Write(n, v) ==
  /\ n \in running /\ v \in outs[n] \ written
  /\ written' = written \cup {v}
  /\ mem' = [c \in Bytes |-> IF c \in Cells(v) THEN group[v] ELSE mem[c]]
  /\ UNCHANGED <<graphVars, pc, rank, planVars, modeVars, nRuns, ok, running, done>>

Finish(n) ==
  /\ n \in running /\ outs[n] \subseteq written
  /\ running' = running \ {n} /\ done' = done \cup {n}
  /\ UNCHANGED <<graphVars, pc, rank, planVars, modeVars, nRuns, ok, written, mem>>

Fail(n) ==
  /\ n \in running
  /\ running' = running \ {n} /\ ok' = FALSE
  /\ UNCHANGED <<graphVars, pc, rank, planVars, modeVars, nRuns, done, written, mem>>

EndRun ==
  /\ pc = "run" /\ running = {} /\ (done = Nodes \/ ~ok)
  /\ pc' = "idle"
  /\ UNCHANGED <<graphVars, rank, planVars, modeVars, runVars>>

(* Nothing is left to do. *)
Rest ==
  /\ pc = "refused" \/ (pc = "idle" /\ nRuns = MaxRuns)
  /\ UNCHANGED vars

Compile == (\E n \in Nodes : Order(n)) \/ EndOrder \/ (\E k \in Groups : Place(k)) \/ EndPlan

NodeStep(n) == Start(n) \/ (\E v \in Values : Write(n, v)) \/ Finish(n) \/ Fail(n)

Next == Compile \/ CreateSession \/ Run \/ (\E n \in Nodes : NodeStep(n)) \/ EndRun \/ Rest

Spec == Init /\ [][Next]_vars

-------------------------------------------------------------------------------
Placed == {k \in Groups : slotOf[k] # 0}

TypeOK ==
  /\ ins \in [Nodes -> SUBSET Values] /\ outs \in [Nodes -> SUBSET Values]
  /\ group \in [Values -> Groups] /\ at \in [Values -> Sizes] /\ size \in [Values -> Sizes]
  /\ seeds \subseteq Values /\ results \subseteq Values
  /\ pc \in {"order", "plan", "compiled", "idle", "run", "refused"}
  /\ rank \in [Nodes -> 0..N]
  /\ slots \subseteq Groups /\ slotOf \in [Groups -> {0} \cup slots]
  /\ slotAt \in [Groups -> Sizes] /\ slotBytes \in [Groups -> Sizes] /\ slotLast \in [Groups -> 0..N]
  /\ first \in [Groups -> Nodes] /\ last \in [Groups -> 0..N]
  /\ arena \in Sizes /\ unshared \in Sizes
  /\ serial \in BOOLEAN /\ shared \in BOOLEAN /\ nRuns \in 0..MaxRuns /\ ok \in BOOLEAN
  /\ running \subseteq Nodes /\ done \subseteq Nodes /\ written \subseteq Values
  /\ mem \in [Bytes -> 0..K]

(* Two groups whose places in the arena overlap are never live at the same node. *)
NoLiveOverlap ==
  \A h, k \in Placed : h # k =>
    \/ last[h] < first[k] \/ last[k] < first[h]
    \/ \A v \in Members(h), w \in Members(k) :
         \/ slotAt[slotOf[h]] + Extent(v) <= slotAt[slotOf[k]] + at[w]
         \/ slotAt[slotOf[k]] + Extent(w) <= slotAt[slotOf[h]] + at[v]

(* The arena holds every placed value, and is no larger than separate storages. *)
ArenaHolds ==
  /\ arena <= unshared /\ unshared <= SizeMax
  /\ \A k \in Placed : \A v \in Members(k) : slotAt[slotOf[k]] + Extent(v) <= arena

(* Until a node ends, whatever it reads is what its producer wrote in this run:
   no other node's output, nor its own, has been laid over it. *)
InputsIntact ==
  \A n \in running : \A v \in ins[n] :
    IF Producers(v) = {} THEN ~InArena(group[v]) ELSE \A c \in Cells(v) : mem[c] = group[v]

(* After a run that succeeded the graph's outputs are those the run computed, and
   stay so until the next one. *)
ResultsIntact ==
  pc = "idle" /\ nRuns > 0 /\ ok =>
    \A v \in results : Producers(v) # {} => \A c \in Cells(v) : mem[c] = group[v]

(* A serial run takes the nodes in the order the plan was made for. *)
PlanOrderIsRunOrder ==
  pc = "run" /\ serial => \A m \in done \cup running, n \in Nodes : rank[n] < rank[m] => n \in done
===============================================================================
