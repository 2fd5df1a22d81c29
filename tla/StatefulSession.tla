---------------------------- MODULE StatefulSession ----------------------------
(***************************************************************************)
(* StatefulSession (src/core/stateful_session.cc): the recurrent state of  *)
(* a graph, carried from one run to the next by copying an output into an  *)
(* input, by appending to it, or by exchanging the storages of the two;    *)
(* and the check of storage views that every entry to the graph begins     *)
(* with (src/core/graph.cc).                                               *)
(*                                                                         *)
(* A tensor is a view: a storage and an offset in it.  Storages lie at     *)
(* addresses that may overlap.  A tensor of R rows and C columns holds     *)
(* R * C cells; an append shifts every row and puts a cell at its end.     *)
(* On a device a view may have a replica in a block, which then holds its  *)
(* latest contents; two views share a block when one is an alias of the    *)
(* other (DeviceCache models how replicas come and go).                    *)
(***************************************************************************)
EXTENDS Integers, Sequences, FiniteSets

CONSTANTS
  Tensors, States,   \* tensors, and those that may be bound as states
  Blocks,            \* blocks of device memory, at least one for each tensor
  Cases,             \* records of base, view, space and what stays the same
  MaxRuns            \* bound on the runs

NoBlock == 0
Binding == [input : States, output : Tensors, append : BOOLEAN, stable : BOOLEAN]
CellsAt(address, n) == {address + x : x \in 0..(n - 1)}

\* Every view lies in its storage, and a block has room for any tensor and is apart from all else.
ASSUME SessionAssumption ==
  /\ IsFiniteSet(Tensors) /\ States \subseteq Tensors /\ MaxRuns \in Nat
  /\ IsFiniteSet(Blocks) /\ NoBlock \notin Blocks /\ Cardinality(Tensors) <= Cardinality(Blocks)
  /\ \A c \in Cases :
       /\ c.rows \in [Tensors -> Nat] /\ c.cols \in [Tensors -> Nat] /\ c.calls \in Nat
       /\ c.frozen \cup c.shown \subseteq Tensors /\ {c.plan, c.device} \subseteq BOOLEAN
       /\ c.base \in [DOMAIN c.base -> Nat]
       /\ c.device => Blocks \subseteq DOMAIN c.base
       /\ \A k \in DOMAIN c.binds : c.binds[k] \in Binding
       /\ \A n \in DOMAIN c.nodes : {c.nodes[n].src, c.nodes[n].dst} \subseteq Tensors
       /\ \A t \in Tensors :
            /\ c.view[t][1] \in DOMAIN c.base /\ c.view[t][2] \in Nat
            /\ \A x \in 0..(c.rows[t] * c.cols[t] - 1) :
                 /\ c.base[c.view[t][1]] + c.view[t][2] + x \in c.space
                 /\ c.device => \A b \in Blocks : c.base[b] + x \in c.space
       /\ c.device => \A b \in Blocks, t, u \in Tensors :
            LET block == CellsAt(c.base[b], c.rows[t] * c.cols[t])
            IN  /\ CellsAt(c.base[c.view[u][1]] + c.view[u][2], c.rows[u] * c.cols[u]) \cap block = {}
                /\ \A d \in Blocks \ {b} : CellsAt(c.base[d], c.rows[u] * c.cols[u]) \cap block = {}

VARIABLES
  base,         \* address of a storage or a block
  rows, cols,   \* shape of a tensor
  frozen,       \* immutable tensors
  nodes,        \* the graph in order: [src, dst, kind]; "compute", "view" or "whole"
  binds,        \* bindings the caller may make: [input, output, append, stable]
  plan,         \* uses_memory_plan_
  device,       \* the backend has no host memory
  shown,        \* outputs of the graph
  calls,        \* bound on what the caller does between runs and updates
  st, at,       \* storage and offset of a tensor
  cst, cat,     \* those in binding_contracts_
  replica,      \* of a tensor's view: its block, and whether it has the latest contents
  mem,          \* contents of an address
  bound,        \* bindings_
  pc,           \* "idle", "run" or "apply"
  i,            \* node or update in progress
  updates,      \* the batch: [input, output, append, stable, snapshot, copy]
  held,         \* contents of the states when the batch began
  heldNext,     \* and what their bindings were to make of them
  fresh,        \* a run ended after the last update
  nRuns, nCalls, nResets

counters == <<nRuns, nCalls, nResets>>
caseVars == <<base, rows, cols, frozen, nodes, binds, plan, device, shown, calls>>
viewVars == <<st, at, cst, cat>>
batchVars == <<updates, held, heldNext>>
vars == <<caseVars, viewVars, replica, mem, bound, pc, i, batchVars, fresh, counters>>

Size(t) == rows[t] * cols[t]
HostCells(t) == {base[st[t]] + at[t] + x : x \in 0..(Size(t) - 1)}
SameView(t, u) == st[t] = st[u] /\ at[t] = at[u] /\ Size(t) = Size(u)
Addr(t, x) == (IF replica[t].valid THEN base[replica[t].block] ELSE base[st[t]] + at[t]) + x
Cells(t) == {Addr(t, x) : x \in 0..(Size(t) - 1)}
Value(t) == [x \in 0..(Size(t) - 1) |-> mem[Addr(t, x)]]
Fill(m, address, value) ==
  [a \in DOMAIN m |-> IF a - address \in DOMAIN value THEN value[a - address] ELSE m[a]]
Put(t, value) == Fill(mem, Addr(t, 0), value)
(* Overlaps, and the device storages of a batch. *)
Meet(t, u) ==
  \/ HostCells(t) \cap HostCells(u) # {}
  \/ replica[t].block # NoBlock /\ replica[t].block = replica[u].block

(* Replicas belong to views. *)
With(d, t, r) == [u \in Tensors |-> IF SameView(u, t) THEN r ELSE d[u]]
Latest(d, t) ==                 \* in the block it has, or in a new one
  [block |-> IF d[t].block # NoBlock THEN d[t].block ELSE CHOOSE b \in Blocks : \A u \in Tensors : d[u].block # b,
   valid |-> TRUE]
(* AcquireTensorDevice: t has its latest contents on the device. *)
OnDevice(t) == With(replica, t, Latest(replica, t))
Uploaded(t) == Fill(mem, base[OnDevice(t)[t].block], Value(t))

BugContract == \A t \in States : st[t] = cst[t] /\ at[t] = cat[t]   \* outputs are not checked
Contract == \A t \in Tensors : st[t] = cst[t] /\ at[t] = cat[t]

Init ==
  /\ \E c \in Cases :
       /\ base = c.base /\ rows = c.rows /\ cols = c.cols /\ frozen = c.frozen
       /\ nodes = c.nodes /\ binds = c.binds /\ plan = c.plan /\ calls = c.calls
       /\ device = c.device /\ shown = c.shown
       /\ st = [t \in Tensors |-> c.view[t][1]] /\ at = [t \in Tensors |-> c.view[t][2]]
       /\ mem = [a \in c.space |-> a]
  /\ cst = st /\ cat = at
  /\ replica = [t \in Tensors |-> [block |-> NoBlock, valid |-> FALSE]] /\ fresh = FALSE
  /\ bound = <<>> /\ pc = "idle" /\ i = 0 /\ updates = <<>> /\ held = <<>> /\ heldNext = <<>>
  /\ nRuns = 0 /\ nCalls = 0 /\ nResets = 0

-------------------------------------------------------------------------------
(* ValidateTensors: a mutable input, and an output of its shape or one cell wide. *)
Valid(b, u) ==
  /\ b.input \notin frozen
  /\ rows[b.input] = rows[u]
  /\ IF b.append THEN cols[b.input] > 1 /\ cols[u] = 1 ELSE cols[b.input] = cols[u]

BugBind(k) ==                   \* an input may be bound twice
  /\ pc = "idle" /\ Valid(binds[k], binds[k].output)
  /\ bound' = Append(bound, binds[k])
  /\ UNCHANGED <<caseVars, viewVars, replica, mem, pc, i, batchVars, fresh, counters>>
(* Bind keeps a valid binding whose input has none yet. *)
Bind(k) ==
  /\ pc = "idle" /\ Valid(binds[k], binds[k].output)
  /\ \A l \in DOMAIN bound : bound[l].input # binds[k].input
  /\ bound' = Append(bound, binds[k])
  /\ UNCHANGED <<caseVars, viewVars, replica, mem, pc, i, batchVars, fresh, counters>>

WholeSources(t) == {nodes[n].src : n \in {m \in DOMAIN nodes : nodes[m].dst = t /\ nodes[m].kind = "whole"}}

(* StateOutput: an exchange is made with the tensor of which the output is an alias. *)
Source(b) ==
  LET same == {u \in WholeSources(b.output) : rows[u] = rows[b.input] /\ cols[u] = cols[b.input]}
  IN  IF b.append \/ b.stable \/ same = {} THEN b.output ELSE CHOOSE u \in same : TRUE

(* MarkPersistent: replicas that a run does not release. *)
Persistent ==
  frozen \cup UNION {{bound[k].input, bound[k].output} \cup WholeSources(bound[k].output) : k \in DOMAIN bound}

(* What an update makes of its input: the rows move by one cell, or all is new. *)
Updated(t, append, new) ==
  [x \in 0..(Size(t) - 1) |->
     IF ~append THEN new[x]
     ELSE IF x % cols[t] = cols[t] - 1 THEN new[x \div cols[t]] ELSE mem[Addr(t, x + 1)]]

-------------------------------------------------------------------------------
(* ApplyStateBindings *)

Input(k) == bound[k].input
Output(k) == Source(bound[k])
Others(k) == DOMAIN bound \ {k}

InPlace(t, u, append) == ~append /\ st[t] = st[u] /\ at[t] = at[u]

BugSnapshot(k) ==               \* other updates are not looked at
  Meet(Output(k), Input(k))
(* An output that another update would change first, or its own, is read in advance. *)
Snapshot(k) ==
  \/ (~device \/ bound[k].append) /\ Meet(Output(k), Input(k))
  \/ \E l \in Others(k) : Meet(Output(k), Input(l)) \/ Meet(Output(k), Output(l))

BugStable(k) ==                 \* constants are exchanged like any output
  \/ bound[k].stable \/ Snapshot(k)
  \/ \E l \in Others(k) : Meet(Output(l), Input(k)) \/ Meet(Output(l), Output(k))
(* Storages stay where they are if the binding or another output needs it. *)
Stable(k) ==
  \/ bound[k].stable \/ Snapshot(k) \/ Output(k) \in frozen
  \/ \E l \in Others(k) : Meet(Output(l), Input(k)) \/ Meet(Output(l), Output(k))

(* The batch is refused before anything is written: a view was replaced, a tensor does
   not fit, two states overlap, or a device would have to read an output in advance. *)
Refused ==
  \/ ~Contract
  \/ \E k \in DOMAIN bound :
       \/ ~Valid(bound[k], Output(k))
       \/ \E l \in Others(k) : Meet(Input(k), Input(l))
       \/ device /\ Snapshot(k) /\ ~InPlace(Input(k), Output(k), bound[k].append)

Update(k) ==
  [input |-> Input(k), output |-> Output(k), append |-> bound[k].append, stable |-> Stable(k),
   snapshot |-> Snapshot(k), copy |-> IF Snapshot(k) THEN Value(Output(k)) ELSE <<>>]

(* For the properties only: what the states hold and, with every row as a sequence, what
   their bindings are to make of them.  An exchange that no run precedes hands back what
   the last one took. *)
Contents == [t \in States |-> Value(t)]
Moved(t, r, new) == Append(Tail([c \in 1..cols[t] |-> Value(t)[r * cols[t] + c - 1]]), new)
NextOf(t, b) ==
  IF ~b.append THEN Value(IF fresh THEN b.output ELSE Source(b))
  ELSE [x \in 0..(Size(t) - 1) |->
          LET row == x \div cols[t] IN Moved(t, row, Value(b.output)[row])[(x % cols[t]) + 1]]
NextContents ==
  [t \in States |->
     IF \A k \in DOMAIN bound : Input(k) # t THEN Value(t)
     ELSE NextOf(t, bound[CHOOSE k \in DOMAIN bound : Input(k) = t])]

(* The whole batch is validated, and snapshots are taken. *)
Advance ==
  /\ pc = "idle" /\ bound # <<>> /\ ~Refused
  /\ pc' = "apply" /\ i' = 1
  /\ updates' = [k \in DOMAIN bound |-> Update(k)]
  /\ held' = Contents /\ heldNext' = NextContents /\ fresh' = FALSE
  /\ UNCHANGED <<caseVars, viewVars, replica, mem, bound, counters>>

Write(u) ==
  /\ mem' = Put(u.input, Updated(u.input, u.append, IF u.snapshot THEN u.copy ELSE Value(u.output)))
  /\ UNCHANGED <<viewVars, replica>>

Swapped(f, t, u) == [f EXCEPT ![t] = f[u], ![u] = f[t]]

BugExchange(u) ==               \* the contract of the output is forgotten
  /\ st' = Swapped(st, u.input, u.output) /\ at' = Swapped(at, u.input, u.output)
  /\ cst' = [cst EXCEPT ![u.input] = st'[u.input]] /\ cat' = [cat EXCEPT ![u.input] = at'[u.input]]
  /\ UNCHANGED <<replica, mem>>
(* SwapStorage and RecordStateStorageSwap. *)
Exchange(u) ==
  /\ st' = Swapped(st, u.input, u.output) /\ at' = Swapped(at, u.input, u.output)
  /\ cst' = [cst EXCEPT ![u.input] = st'[u.input], ![u.output] = st'[u.output]]
  /\ cat' = [cat EXCEPT ![u.input] = at'[u.input], ![u.output] = at'[u.output]]
  /\ UNCHANGED <<replica, mem>>

(* CopyState, AppendState and SwapState want the output on the device; the first two
   bring the state there, the last one exchanges the blocks. *)
Copied(u) == u.append \/ u.stable
Ready(u) == replica[u.output].valid /\ (Copied(u) \/ replica[u.input].valid)
DeviceUpdate(u) ==
  /\ Ready(u)
  /\ IF Copied(u)
     THEN /\ replica' = OnDevice(u.input)
          /\ mem' = Fill(mem, base[replica'[u.input].block], Updated(u.input, u.append, Value(u.output)))
     ELSE replica' = With(With(replica, u.input, replica[u.output]), u.output, replica[u.input]) /\ UNCHANGED mem
  /\ UNCHANGED viewVars

Applying == pc = "apply" /\ i \in DOMAIN updates
Nothing(u) == InPlace(u.input, u.output, u.append)

BugApply ==                     \* a planned session exchanges storages
  /\ Applying
  /\ LET u == updates[i] IN IF device THEN DeviceUpdate(u) ELSE IF Copied(u) THEN Write(u) ELSE Exchange(u)
  /\ i' = i + 1
  /\ UNCHANGED <<caseVars, bound, pc, batchVars, fresh, counters>>
(* ApplyValidatedState, for one update after the other. *)
Apply ==
  /\ Applying
  /\ LET u == updates[i] IN
       \/ device /\ Nothing(u) /\ UNCHANGED <<viewVars, replica, mem>>
       \/ device /\ ~Nothing(u) /\ DeviceUpdate(u)
       \/ ~device /\ (plan \/ Copied(u)) /\ Write(u)
       \/ ~device /\ ~plan /\ ~Copied(u) /\ Exchange(u)
  /\ i' = i + 1
  /\ UNCHANGED <<caseVars, bound, pc, batchVars, fresh, counters>>

EndBatch ==
  /\ pc' = "idle" /\ i' = 0 /\ updates' = <<>> /\ held' = <<>> /\ heldNext' = <<>>
  /\ UNCHANGED <<caseVars, viewVars, bound, fresh, counters>>

EndAdvance == pc = "apply" /\ i > Len(updates) /\ EndBatch /\ UNCHANGED <<replica, mem>>

(* An update on a device fails, perhaps after it brought the state there; those before
   it stay, those after it are not made. *)
Fail ==
  /\ Applying /\ device /\ ~Nothing(updates[i])
  /\ \/ UNCHANGED <<replica, mem>>
     \/ /\ Copied(updates[i])
        /\ replica' = OnDevice(updates[i].input) /\ mem' = Uploaded(updates[i].input)
  /\ EndBatch

-------------------------------------------------------------------------------
(* Runs, and what the caller does between them *)

Run ==
  /\ pc = "idle" /\ nRuns < MaxRuns /\ Contract
  /\ pc' = "run" /\ i' = 1 /\ nRuns' = nRuns + 1
  /\ UNCHANGED <<caseVars, viewVars, replica, mem, bound, batchVars, fresh, nCalls, nResets>>

(* A cell written by a kernel tells the node, the run and the cell. *)
Result(t) == [x \in 0..(Size(t) - 1) |-> 1000 * i + 100 * nRuns + x + 1]

Running == pc = "run" /\ i \in DOMAIN nodes
NextNode ==
  /\ i' = i + 1
  /\ UNCHANGED <<caseVars, viewVars, bound, pc, batchVars, fresh, counters>>

(* A kernel writes its output; that of a view copies only if it does not share its
   input's address. *)
Node ==
  /\ Running /\ ~device
  /\ LET n == nodes[i] IN
       mem' = IF n.kind = "compute" THEN Put(n.dst, Result(n.dst))
              ELSE IF Addr(n.src, 0) = Addr(n.dst, 0) THEN mem ELSE Put(n.dst, Value(n.src))
  /\ NextNode /\ UNCHANGED replica

(* ShouldKeepTensorDevice, or a later node reads it. *)
Needed(t) ==
  \/ t \in shown \/ \E n \in DOMAIN nodes : n > i /\ nodes[n].src = t
  \/ \E u \in Persistent : SameView(u, t)

(* On a device the input is brought there; the output of a view shares its block.
   ReleaseUnusedInputs then gives up the input's, unless it is needed. *)
DeviceNode ==
  /\ Running /\ device
  /\ LET n == nodes[i]
         read == OnDevice(n.src)
         done == With(read, n.dst, IF n.kind = "compute" THEN Latest(read, n.dst) ELSE read[n.src])
     IN  /\ replica' = IF Needed(n.src) THEN done ELSE With(done, n.src, [block |-> NoBlock, valid |-> FALSE])
         /\ mem' = IF n.kind = "compute" THEN Fill(Uploaded(n.src), base[done[n.dst].block], Result(n.dst))
                   ELSE Uploaded(n.src)
  /\ NextNode

EndRun ==
  /\ pc = "run" /\ i > Len(nodes)
  /\ pc' = "idle" /\ i' = 0 /\ fresh' = TRUE
  /\ UNCHANGED <<caseVars, viewVars, replica, mem, bound, batchVars, counters>>

Call == pc = "idle" /\ nCalls < calls /\ nCalls' = nCalls + 1
        /\ UNCHANGED <<caseVars, bound, pc, i, batchVars, fresh, nRuns>>
(* HostWritten: replicas of the views of T are behind. *)
Behind(T) == [t \in Tensors |-> [replica[t] EXCEPT !.valid = @ /\ \A u \in T : ~SameView(t, u)]]

(* Every bound state is cleared. *)
Reset ==
  /\ Call /\ Contract /\ bound # <<>> /\ nResets' = nResets + 1
  /\ mem' = [a \in DOMAIN mem |-> IF \E k \in DOMAIN bound : a \in HostCells(Input(k)) THEN 0 ELSE mem[a]]
  /\ replica' = Behind({Input(k) : k \in DOMAIN bound})
  /\ UNCHANGED viewVars

(* ExecutionSession::BindInput copies into the storage the session has. *)
BindInput(t) ==
  /\ Call /\ Contract /\ t \notin frozen /\ UNCHANGED nResets
  /\ mem' = Fill(mem, base[st[t]] + at[t], [x \in 0..(Size(t) - 1) |-> 0 - 100 * nRuns - x - 1])
  /\ replica' = Behind({t})
  /\ UNCHANGED viewVars

(* The caller replaces a view with Tensor::ShareDataWith. *)
Rebind(t, u) ==
  /\ Call /\ rows[t] = rows[u] /\ cols[t] = cols[u]
  /\ st' = [st EXCEPT ![t] = st[u]] /\ at' = [at EXCEPT ![t] = at[u]]
  /\ replica' = [replica EXCEPT ![t] = replica[u]]
  /\ UNCHANGED <<mem, cst, cat, nResets>>

Next ==
  \/ \E k \in DOMAIN binds : Bind(k)
  \/ Advance \/ Apply \/ Fail \/ EndAdvance
  \/ Run \/ Node \/ DeviceNode \/ EndRun
  \/ Reset \/ (\E t \in States : BindInput(t)) \/ (\E t, u \in Tensors : Rebind(t, u))

Spec == Init /\ [][Next]_vars

-------------------------------------------------------------------------------
(* Types; a state has one binding, and every view lies in its storage. *)
TypeOK ==
  /\ \A t \in Tensors : {st[t], cst[t]} \subseteq DOMAIN base /\ Cells(t) \subseteq DOMAIN mem
  /\ at \in [Tensors -> Nat] /\ cat \in [Tensors -> Nat]
  /\ \A k, l \in DOMAIN bound : bound[k].input = bound[l].input => k = l
  /\ replica \in [Tensors -> [block : Blocks \cup {NoBlock}, valid : BOOLEAN]]
  /\ \A t, u \in Tensors : SameView(t, u) => replica[t] = replica[u]
  /\ frozen \cup shown \subseteq Tensors /\ {plan, device, fresh} \subseteq BOOLEAN /\ pc \in {"idle", "run", "apply"}
  /\ i \in Nat /\ (pc = "apply" => Len(updates) = Len(bound))
  /\ nRuns \in 0..MaxRuns /\ nCalls \in 0..calls

IsZero(value) == \A x \in DOMAIN value : value[x] = 0
Promise == INSTANCE StateUpdate WITH
  bound <- {bound[k].input : k \in DOMAIN bound},
  state <- IF pc = "apply" THEN held ELSE Contents,
  next <- IF pc = "apply" THEN heldNext ELSE NextContents,
  update <- IF pc # "apply" THEN "none" ELSE IF i > Len(updates) THEN "done" ELSE "open",
  calls <- nCalls, resets <- nResets
(* ApplyStateBindings: the bound states change at once, to what the outputs held before
   the first of them changed, and on a device, where an update may fail half-way, each
   of them wholly or not at all; runs leave them alone. *)
ImplementsStateUpdate == Promise!Spec

(* RecordStateStorageSwap: the contract follows the session's own exchanges, so only a
   caller who replaces a view makes later calls fail. *)
NeverLocksItselfOut == [][Contract /\ ~Contract' => \E t, u \in Tensors : Rebind(t, u)]_vars

(* CheckTensorBindings: once a view was replaced behind the session's back, neither runs
   nor updates write to memory that the views no longer share. *)
RebindingStopsWrites ==
  [][(\E t \in Tensors : st[t] # cst[t] \/ at[t] # cat[t]) => mem' = mem]_vars

(* ApplyStateBindings: a constant that gives a state its contents keeps its own, and its
   storage, even if the output is an alias of it. *)
ConstantsIntact ==
  [][pc = "apply" => \A t \in frozen : Value(t)' = Value(t) /\ UNCHANGED <<st[t], at[t], replica[t].block>>]_vars

(* StateOutput: while the graph runs the states hold what the last update gave them. *)
RunKeepsStates == [][pc = "run" => \A t \in States : Value(t)' = Value(t)]_vars
===============================================================================
