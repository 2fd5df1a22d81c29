----------------------- MODULE StatefulSessionProofs -----------------------
(***************************************************************************)
(* The contract of storage views follows a session's own exchanges, and    *)
(* guards everything that writes; every view, replica and binding stays    *)
(* well-formed; the updates of a batch, made one by one, amount to one     *)
(* assignment: for any graph, bindings and backend.  On a host, a graph    *)
(* that keeps its states apart from what its nodes write makes the session *)
(* implement StateUpdate.                                                  *)
(***************************************************************************)
EXTENDS StatefulSession, FiniteSetTheorems, TLAPS

OnTensors(f) == f = [t \in Tensors |-> f[t]]
ViewsTyped == OnTensors(st) /\ OnTensors(at) /\ OnTensors(cst) /\ OnTensors(cat)
(* A call that has begun was let in by the contract, and nothing but the call itself has
   moved a view since. *)
ContractInv == ViewsTyped /\ pc \in {"idle", "run", "apply"} /\ (pc # "idle" => Contract)

ByCaller == \E t, u \in Tensors : Rebind(t, u)

(* The new contract of two exchanged tensors is their new views. *)
LEMMA ExchangeMovesContract ==
  ASSUME NEW u, ViewsTyped, Exchange(u)
  PROVE  ViewsTyped' /\ (Contract => Contract')
<1>1. /\ st' = [t \in Tensors |-> st'[t]] /\ at' = [t \in Tensors |-> at'[t]]
      /\ cst' = [t \in Tensors |-> cst'[t]] /\ cat' = [t \in Tensors |-> cat'[t]]
  BY DEF Exchange, Swapped, ViewsTyped, OnTensors
<1>2. ASSUME Contract, NEW t \in Tensors PROVE st'[t] = cst'[t] /\ at'[t] = cat'[t]
  <2>1. DOMAIN st = Tensors /\ DOMAIN at = Tensors /\ DOMAIN cst = Tensors /\ DOMAIN cat = Tensors
    BY DEF ViewsTyped, OnTensors
  <2>2. CASE t = u.output
    BY <2>1, <2>2 DEF Exchange
  <2>3. CASE t = u.input /\ t # u.output
    BY <2>1, <2>3 DEF Exchange
  <2>4. CASE t # u.input /\ t # u.output
    <3>1. cst'[t] = cst[t] /\ cat'[t] = cat[t] /\ st'[t] = st[t] /\ at'[t] = at[t]
      BY <2>1, <2>4 DEF Exchange, Swapped
    <3> QED BY <1>2, <3>1 DEF Contract
  <2> QED BY <2>2, <2>3, <2>4
<1> QED BY <1>1, <1>2 DEF ViewsTyped, OnTensors, Contract

LEMMA SameViews == ASSUME UNCHANGED viewVars PROVE (ViewsTyped <=> ViewsTyped') /\ (Contract <=> Contract')
  BY DEF viewVars, ViewsTyped, OnTensors, Contract

(* One update of a batch: it writes contents, or exchanges two storages. *)
LEMMA ApplyKeeps ==
  ASSUME ViewsTyped, Apply
  PROVE  ViewsTyped' /\ (Contract => Contract') /\ pc = "apply" /\ pc' = "apply"
<1>1. pc = "apply" /\ pc' = "apply"
  BY DEF Apply, Applying
<1>2. CASE UNCHANGED viewVars
  BY <1>1, <1>2, SameViews
<1>3. CASE Exchange(updates[i])
  BY <1>1, <1>3, ExchangeMovesContract
<1>4. UNCHANGED viewVars \/ Exchange(updates[i])
  BY DEF Apply, DeviceUpdate, Write, viewVars
<1> QED BY <1>2, <1>3, <1>4

(* A caller's replacement of a view happens between calls and writes no memory. *)
LEMMA RebindKeeps ==
  ASSUME ViewsTyped, ByCaller
  PROVE  ViewsTyped' /\ pc = "idle" /\ pc' = "idle" /\ UNCHANGED mem
<1>1. PICK t \in Tensors, u \in Tensors : Rebind(t, u)
  BY DEF ByCaller
<1>2. /\ st' = [st EXCEPT ![t] = st[u]] /\ at' = [at EXCEPT ![t] = at[u]]
      /\ cst' = cst /\ cat' = cat /\ mem' = mem /\ pc' = pc /\ pc = "idle"
  BY <1>1 DEF Rebind, Call
<1> QED BY <1>2 DEF ViewsTyped, OnTensors

(* Every other step leaves the views alone.  It is inside a call, or it begins one and then
   asks for the contract, or it writes no memory. *)
LEMMA OtherSteps ==
  ASSUME Next, ~Apply, ~ByCaller
  PROVE  /\ UNCHANGED viewVars
         /\ pc' \in {"idle", "run", "apply"}
         /\ pc' # "idle" => Contract \/ pc = pc'
         /\ Contract \/ pc # "idle" \/ UNCHANGED mem
<1>1. ASSUME NEW k \in DOMAIN binds, Bind(k) PROVE UNCHANGED <<viewVars, mem, pc>> /\ pc = "idle"
  BY <1>1 DEF Bind
<1>2. CASE Advance
  BY <1>2 DEF Advance, Refused
<1>3. CASE Fail
  BY <1>3 DEF Fail, EndBatch, Applying
<1>4. CASE EndAdvance
  BY <1>4 DEF EndAdvance, EndBatch
<1>5. CASE Run
  BY <1>5 DEF Run
<1>6. CASE Node
  BY <1>6 DEF Node, Running, NextNode
<1>7. CASE DeviceNode
  BY <1>7 DEF DeviceNode, Running, NextNode
<1>8. CASE EndRun
  BY <1>8 DEF EndRun
<1>9. CASE Reset
  BY <1>9 DEF Reset, Call
<1>10. ASSUME NEW t \in States, BindInput(t) PROVE UNCHANGED <<viewVars, pc>> /\ pc = "idle" /\ Contract
  BY <1>10 DEF BindInput, Call, viewVars
<1>11. (\E k \in DOMAIN binds : Bind(k)) \/ Advance \/ Fail \/ EndAdvance \/ Run \/ Node \/ DeviceNode \/ EndRun
        \/ Reset \/ \E t \in States : BindInput(t)
  BY DEF Next, ByCaller
<1> QED BY <1>1, <1>2, <1>3, <1>4, <1>5, <1>6, <1>7, <1>8, <1>9, <1>10, <1>11

LEMMA InitContract == Init => ContractInv
  BY DEF Init, ContractInv, ViewsTyped, OnTensors, Contract

LEMMA StepContract ==
  ASSUME ContractInv, [Next]_vars
  PROVE  /\ ContractInv'
         /\ Contract /\ ~Contract' => ByCaller
         /\ ~Contract => UNCHANGED mem
<1>1. CASE UNCHANGED vars
  BY <1>1, SameViews DEF vars, ContractInv, viewVars
<1>2. CASE Apply
  BY <1>2, ApplyKeeps DEF ContractInv
<1>3. CASE ByCaller
  BY <1>3, RebindKeeps DEF ContractInv
<1>4. CASE Next /\ ~Apply /\ ~ByCaller
  BY <1>4, OtherSteps, SameViews DEF ContractInv
<1> QED BY <1>1, <1>2, <1>3, <1>4

LEMMA ContractAlways == Spec => []ContractInv
<1>1. ContractInv /\ [Next]_vars => ContractInv'
  BY StepContract
<1> QED BY InitContract, <1>1, PTL DEF Spec

(* RecordStateStorageSwap: whatever a session copies, appends or exchanges, on a host or a
   device, its contract follows; only a caller who replaces a view breaks it. *)
THEOREM SessionKeepsItsContract == Spec => NeverLocksItselfOut
<1>1. ContractInv /\ [Next]_vars => [Contract /\ ~Contract' => ByCaller]_vars
  BY StepContract
<1>2. ContractInv /\ [Next]_vars => [Contract /\ ~Contract' => \E t, u \in Tensors : Rebind(t, u)]_vars
  BY <1>1 DEF ByCaller
<1> QED BY ContractAlways, <1>2, PTL DEF Spec, NeverLocksItselfOut

(* CheckTensorBindings: no run, update, reset or input writes once a view was replaced
   behind the session's back, and none of them was under way when it was. *)
THEOREM ReplacedViewsAreNotWritten == Spec => RebindingStopsWrites
<1>1. (\E t \in Tensors : st[t] # cst[t] \/ at[t] # cat[t]) => ~Contract
  BY DEF Contract
<1>2. ContractInv /\ [Next]_vars => [(\E t \in Tensors : st[t] # cst[t] \/ at[t] # cat[t]) => mem' = mem]_vars
  BY <1>1, StepContract
<1> QED BY ContractAlways, <1>2, PTL DEF Spec, RebindingStopsWrites

-------------------------------------------------------------------------------
(* Types.  What never changes: shapes, addresses, the graph and the bindings on offer. *)
CaseTypes ==
  /\ rows \in [Tensors -> Nat] /\ cols \in [Tensors -> Nat] /\ calls \in Nat
  /\ frozen \cup shown \subseteq Tensors /\ {plan, device} \subseteq BOOLEAN
  /\ base \in [DOMAIN base -> Nat]
  /\ \A k \in DOMAIN binds : binds[k] \in Binding
  /\ \A n \in DOMAIN nodes : {nodes[n].src, nodes[n].dst} \subseteq Tensors

(* A view lies in its storage, a block has room for any tensor. *)
ViewTypes ==
  /\ st \in [Tensors -> DOMAIN base] /\ cst \in [Tensors -> DOMAIN base]
  /\ at \in [Tensors -> Nat] /\ cat \in [Tensors -> Nat]
  /\ \A t \in Tensors : \A x \in 0..(Size(t) - 1) : base[st[t]] + at[t] + x \in DOMAIN mem
BlockTypes ==
  device => /\ Blocks \subseteq DOMAIN base
            /\ \A b \in Blocks, t \in Tensors : \A x \in 0..(Size(t) - 1) : base[b] + x \in DOMAIN mem

(* Replicas belong to views, a valid one has a block, and a host has none. *)
Replica == [block : Blocks \cup {NoBlock}, valid : BOOLEAN]
Replicas(d) ==
  /\ d \in [Tensors -> Replica]
  /\ \A t \in Tensors : d[t].valid => d[t].block # NoBlock
  /\ \A t, u \in Tensors : SameView(t, u) => d[t] = d[u]
ReplicaTypes == Replicas(replica) /\ (~device => \A t \in Tensors : replica[t] = [block |-> NoBlock, valid |-> FALSE])

BatchTypes ==
  /\ bound \in Seq(Binding) /\ \A k, l \in DOMAIN bound : bound[k].input = bound[l].input => k = l
  /\ pc = "apply" => /\ Len(updates) = Len(bound)
                     /\ \A k \in DOMAIN updates :
                          /\ updates[k].input \in Tensors /\ updates[k].output \in Tensors
                          /\ updates[k].append \in BOOLEAN /\ updates[k].stable \in BOOLEAN
                          /\ ~updates[k].append => /\ rows[updates[k].input] = rows[updates[k].output]
                                                   /\ cols[updates[k].input] = cols[updates[k].output]
CountTypes ==
  /\ pc \in {"idle", "run", "apply"} /\ i \in Nat /\ fresh \in BOOLEAN
  /\ nRuns \in 0..MaxRuns /\ nCalls \in 0..calls
SessionTypes == CaseTypes /\ ViewTypes /\ BlockTypes /\ ReplicaTypes /\ BatchTypes /\ CountTypes

LEMMA TypesInitially == Init => SessionTypes
<1> SUFFICES ASSUME Init PROVE SessionTypes
  OBVIOUS
<1>1. PICK c \in Cases :
        /\ base = c.base /\ rows = c.rows /\ cols = c.cols /\ frozen = c.frozen
        /\ nodes = c.nodes /\ binds = c.binds /\ plan = c.plan /\ calls = c.calls
        /\ device = c.device /\ shown = c.shown
        /\ st = [t \in Tensors |-> c.view[t][1]] /\ at = [t \in Tensors |-> c.view[t][2]]
        /\ mem = [a \in c.space |-> a]
  BY DEF Init
<1>2. CaseTypes
  BY <1>1, SessionAssumption DEF CaseTypes
<1>3. st \in [Tensors -> DOMAIN base] /\ at \in [Tensors -> Nat] /\ DOMAIN mem = c.space
  BY <1>1, SessionAssumption
<1>4. \A t \in Tensors : \A x \in 0..(Size(t) - 1) :
         base[st[t]] + at[t] + x \in DOMAIN mem /\ (device => \A b \in Blocks : base[b] + x \in DOMAIN mem)
  BY <1>1, <1>3, SessionAssumption DEF Size
<1>5. ViewTypes /\ BlockTypes
  BY <1>1, <1>3, <1>4, SessionAssumption DEF ViewTypes, BlockTypes, Init
<1>6. ReplicaTypes
  BY DEF Init, ReplicaTypes, Replicas, Replica
<1>7. BatchTypes /\ CountTypes
  <2>1. bound = <<>> /\ pc = "idle" /\ i = 0 /\ fresh = FALSE /\ nRuns = 0 /\ nCalls = 0
    BY DEF Init
  <2>2. BatchTypes
    BY <2>1 DEF BatchTypes
  <2>3. MaxRuns \in Nat /\ calls \in Nat
    BY <1>2, SessionAssumption DEF CaseTypes
  <2>4. fresh \in BOOLEAN
    BY <2>1
  <2>5. 0 \in 0..MaxRuns /\ 0 \in 0..calls
    BY <2>3
  <2> QED BY <2>1, <2>2, <2>4, <2>5 DEF CountTypes
<1> QED BY <1>2, <1>5, <1>6, <1>7 DEF SessionTypes

LEMMA CellsTyped ==
  ASSUME SessionTypes, NEW t \in Tensors
  PROVE  Cells(t) \subseteq DOMAIN mem
<1>1. Size(t) \in Nat
  BY DEF SessionTypes, CaseTypes, Size
<1>2. CASE replica[t].valid
  <2>1. device /\ replica[t].block \in Blocks
    BY <1>2 DEF SessionTypes, ReplicaTypes, Replicas, Replica, CaseTypes
  <2> QED BY <1>1, <1>2, <2>1 DEF SessionTypes, BlockTypes, Cells, Addr
<1>3. CASE ~replica[t].valid
  BY <1>1, <1>3 DEF SessionTypes, ViewTypes, Cells, Addr
<1> QED BY <1>2, <1>3

(* The lemmas on replicas. *)
LEMMA WithTyped ==
  ASSUME CaseTypes, NEW d, Replicas(d), NEW t \in Tensors, NEW r \in Replica, r.valid => r.block # NoBlock
  PROVE  Replicas(With(d, t, r)) /\ With(d, t, r)[t] = r
  BY DEF Replicas, With, SameView

(* There is a block for a view that has none: fewer than all are taken. *)
LEMMA BlockFree ==
  ASSUME NEW d, d \in [Tensors -> Replica], NEW t \in Tensors, d[t].block = NoBlock
  PROVE  \E b \in Blocks : \A u \in Tensors : d[u].block # b
<1>1. PICK f : f = [u \in Tensors |-> d[u].block]
  OBVIOUS
<1>2. PICK T : T = Tensors \ {t}
  OBVIOUS
<1>3. PICK taken : taken = {d[u].block : u \in T}
  OBVIOUS
<1>4. IsFiniteSet(T) /\ Cardinality(T) = Cardinality(Tensors) - 1 /\ Cardinality(Tensors) \in Nat
  BY <1>2, SessionAssumption, FS_RemoveElement, FS_CardinalityType
<1>5. IsFiniteSet(taken) /\ Cardinality(taken) <= Cardinality(T) /\ Cardinality(taken) \in Nat
  <2>1. PICK g : g = [u \in T |-> d[u].block]
    OBVIOUS
  <2>2. g \in Surjection(T, taken)
    BY <1>3, <2>1 DEF Surjection
  <2> QED BY <1>4, <2>2, FS_Surjection, FS_CardinalityType
<1>6. ~(Blocks \subseteq taken)
  <2>1. ASSUME Blocks \subseteq taken PROVE Cardinality(Blocks) <= Cardinality(taken)
    BY <1>5, <2>1, FS_Subset
  <2>2. Cardinality(Blocks) \in Nat
    BY SessionAssumption, FS_CardinalityType
  <2> QED BY <1>4, <1>5, <2>1, <2>2, SessionAssumption
<1>7. PICK b \in Blocks : b \notin taken
  BY <1>6
<1>8. \A u \in Tensors : d[u].block # b
  BY <1>2, <1>3, <1>7, SessionAssumption
<1> QED BY <1>8

LEMMA LatestTyped ==
  ASSUME NEW d, Replicas(d), NEW t \in Tensors
  PROVE  Latest(d, t) \in Replica /\ Latest(d, t).valid /\ Latest(d, t).block \in Blocks
<1>1. CASE d[t].block # NoBlock
  BY <1>1 DEF Latest, Replicas, Replica
<1>2. CASE d[t].block = NoBlock
  <2>1. \E b \in Blocks : \A u \in Tensors : d[u].block # b
    BY <1>2, BlockFree DEF Replicas
  <2>2. PICK b : b = CHOOSE x \in Blocks : \A u \in Tensors : d[u].block # x
    OBVIOUS
  <2>3. b \in Blocks
    BY <2>1, <2>2
  <2>4. Latest(d, t) = [block |-> b, valid |-> TRUE]
    BY <1>2, <2>2 DEF Latest
  <2> QED BY <2>3, <2>4 DEF Replica
<1> QED BY <1>1, <1>2

LEMMA OnDeviceTyped ==
  ASSUME SessionTypes, NEW t \in Tensors
  PROVE  Replicas(OnDevice(t))
<1>1. PICK r : r = Latest(replica, t)
  OBVIOUS
<1>2. Replicas(replica) /\ CaseTypes
  BY DEF SessionTypes, ReplicaTypes
<1>3. r \in Replica /\ (r.valid => r.block # NoBlock)
  BY <1>1, <1>2, LatestTyped, SessionAssumption
<1>4. OnDevice(t) = With(replica, t, r)
  BY <1>1 DEF OnDevice
<1> QED BY <1>2, <1>3, <1>4, WithTyped

(* What a step leaves alone. *)
LEMMA SameCase ==
  ASSUME CaseTypes, UNCHANGED caseVars
  PROVE  CaseTypes' /\ \A t : Size(t)' = Size(t)
  BY DEF CaseTypes, caseVars, Size

LEMMA SamePlaces ==
  ASSUME SessionTypes, UNCHANGED <<caseVars, viewVars>>, DOMAIN mem' = DOMAIN mem
  PROVE  ViewTypes' /\ BlockTypes' /\ \A d : Replicas(d)' <=> Replicas(d)
<1>1. /\ base' = base /\ rows' = rows /\ cols' = cols /\ device' = device
      /\ st' = st /\ at' = at /\ cst' = cst /\ cat' = cat
  BY DEF caseVars, viewVars
<1>2. (\A t : Size(t)' = Size(t)) /\ (\A t, u : SameView(t, u)' <=> SameView(t, u))
  BY <1>1 DEF Size, SameView
<1> QED BY <1>1, <1>2 DEF SessionTypes, ViewTypes, BlockTypes, Replicas

LEMMA SameBatch ==
  ASSUME SessionTypes, UNCHANGED <<caseVars, bound, pc, updates>>
  PROVE  BatchTypes'
  BY DEF SessionTypes, BatchTypes, caseVars

(* A step that neither moves views nor changes the batch, and gives views replicas. *)
LEMMA ReplicasLater ==
  ASSUME SessionTypes, UNCHANGED <<caseVars, viewVars>>, DOMAIN mem' = DOMAIN mem,
         NEW d, replica' = d, Replicas(d), device \/ d = replica
  PROVE  CaseTypes' /\ ViewTypes' /\ BlockTypes' /\ ReplicaTypes'
<1>1. CaseTypes' /\ device' = device
  BY SameCase DEF SessionTypes, caseVars
<1>2. ViewTypes' /\ BlockTypes' /\ Replicas(d)'
  BY SamePlaces
<1>3. ReplicaTypes'
  BY <1>1, <1>2 DEF SessionTypes, ReplicaTypes
<1> QED BY <1>1, <1>2, <1>3

LEMMA FillDomain == \A m, a, v : DOMAIN Fill(m, a, v) = DOMAIN m
  BY DEF Fill

LEMMA SourceTyped ==
  ASSUME CaseTypes, NEW b \in Binding
  PROVE  Source(b) \in Tensors
<1>1. PICK same : same = {u \in WholeSources(b.output) : rows[u] = rows[b.input] /\ cols[u] = cols[b.input]}
  OBVIOUS
<1>2. same \subseteq Tensors
  BY <1>1 DEF WholeSources, CaseTypes
<1>3. Source(b) = IF b.append \/ b.stable \/ same = {} THEN b.output ELSE CHOOSE u \in same : TRUE
  BY <1>1 DEF Source
<1> QED BY <1>2, <1>3 DEF Binding

LEMMA BindTypes == ASSUME SessionTypes, NEW k \in DOMAIN binds, Bind(k) PROVE SessionTypes'
<1>1. /\ UNCHANGED <<caseVars, viewVars, replica, mem, pc, i, updates, fresh, nRuns, nCalls>>
      /\ pc = "idle" /\ bound' = Append(bound, binds[k]) /\ \A l \in DOMAIN bound : bound[l].input # binds[k].input
  BY DEF Bind, batchVars, counters
<1>2. CaseTypes' /\ ViewTypes' /\ BlockTypes' /\ ReplicaTypes'
  BY <1>1, ReplicasLater DEF SessionTypes, ReplicaTypes
<1>3. BatchTypes'
  <2>1. binds[k] \in Binding /\ bound \in Seq(Binding)
    BY DEF SessionTypes, CaseTypes, BatchTypes
  <2>2. \A a, c \in DOMAIN bound : bound[a].input = bound[c].input => a = c
    BY DEF SessionTypes, BatchTypes
  <2> QED BY <1>1, <2>1, <2>2 DEF BatchTypes
<1>4. CountTypes'
  BY <1>1 DEF SessionTypes, CountTypes, caseVars
<1> QED BY <1>2, <1>3, <1>4 DEF SessionTypes

LEMMA AdvanceTypes == ASSUME SessionTypes, Advance PROVE SessionTypes'
<1>1. /\ UNCHANGED <<caseVars, viewVars, replica, mem, bound, nRuns, nCalls>>
      /\ pc' = "apply" /\ i' = 1 /\ fresh' = FALSE
      /\ updates' = [k \in DOMAIN bound |-> Update(k)] /\ ~Refused
  BY DEF Advance, counters
<1>2. CaseTypes' /\ ViewTypes' /\ BlockTypes' /\ ReplicaTypes'
  BY <1>1, ReplicasLater DEF SessionTypes, ReplicaTypes
<1>3. bound \in Seq(Binding) /\ CaseTypes
  BY DEF SessionTypes, BatchTypes
<1>4. ASSUME NEW k \in DOMAIN bound
      PROVE  /\ Update(k).input \in Tensors /\ Update(k).output \in Tensors
             /\ Update(k).append \in BOOLEAN /\ Update(k).stable \in BOOLEAN
             /\ ~Update(k).append => /\ rows[Update(k).input] = rows[Update(k).output]
                                     /\ cols[Update(k).input] = cols[Update(k).output]
  <2>1. bound[k] \in Binding
    BY <1>3
  <2>2. Output(k) \in Tensors /\ Input(k) \in Tensors
    BY <1>3, <2>1, SourceTyped, SessionAssumption DEF Output, Input, Binding
  <2>3. Valid(bound[k], Output(k))
    BY <1>1 DEF Refused
  <2>4. /\ Update(k).input = bound[k].input /\ Update(k).output = Output(k)
        /\ Update(k).append = bound[k].append /\ Update(k).stable = Stable(k)
    BY DEF Update, Input
  <2>5. Stable(k) \in BOOLEAN
    BY <2>1 DEF Stable, Snapshot, Binding
  <2> QED BY <2>1, <2>2, <2>3, <2>4, <2>5 DEF Valid, Binding, Input
<1>5. Len(updates') = Len(bound') /\ DOMAIN updates' = DOMAIN bound
  BY <1>1, <1>3
<1>6. BatchTypes'
  BY <1>1, <1>4, <1>5 DEF SessionTypes, BatchTypes, caseVars
<1>7. CountTypes'
  BY <1>1 DEF SessionTypes, CountTypes, caseVars
<1> QED BY <1>2, <1>6, <1>7 DEF SessionTypes

LEMMA RunTypes == ASSUME SessionTypes, Run PROVE SessionTypes'
<1>1. /\ UNCHANGED <<caseVars, viewVars, replica, mem, bound, updates, fresh, nCalls>>
      /\ pc = "idle" /\ pc' = "run" /\ i' = 1 /\ nRuns' = nRuns + 1 /\ nRuns < MaxRuns
  BY DEF Run, batchVars
<1>2. CaseTypes' /\ ViewTypes' /\ BlockTypes' /\ ReplicaTypes'
  BY <1>1, ReplicasLater DEF SessionTypes, ReplicaTypes
<1>3. BatchTypes'
  BY <1>1 DEF SessionTypes, BatchTypes
<1>4. CountTypes'
  BY <1>1, SessionAssumption DEF SessionTypes, CountTypes, caseVars
<1> QED BY <1>2, <1>3, <1>4 DEF SessionTypes

LEMMA EndRunTypes == ASSUME SessionTypes, EndRun PROVE SessionTypes'
<1>1. /\ UNCHANGED <<caseVars, viewVars, replica, mem, bound, updates, nRuns, nCalls>>
      /\ pc' = "idle" /\ i' = 0 /\ fresh' = TRUE
  BY DEF EndRun, batchVars, counters
<1>2. CaseTypes' /\ ViewTypes' /\ BlockTypes' /\ ReplicaTypes'
  BY <1>1, ReplicasLater DEF SessionTypes, ReplicaTypes
<1>3. BatchTypes'
  BY <1>1 DEF SessionTypes, BatchTypes
<1>4. CountTypes'
  BY <1>1 DEF SessionTypes, CountTypes, caseVars
<1> QED BY <1>2, <1>3, <1>4 DEF SessionTypes

(* The end of a batch, complete or not. *)
LEMMA EndBatchTypes ==
  ASSUME SessionTypes, EndBatch, DOMAIN mem' = DOMAIN mem, NEW d, replica' = d, Replicas(d), device \/ d = replica
  PROVE  SessionTypes'
<1>1. UNCHANGED <<caseVars, viewVars, bound, fresh, nRuns, nCalls>> /\ pc' = "idle" /\ i' = 0
  BY DEF EndBatch, counters
<1>2. CaseTypes' /\ ViewTypes' /\ BlockTypes' /\ ReplicaTypes'
  BY <1>1, ReplicasLater
<1>3. BatchTypes'
  BY <1>1 DEF SessionTypes, BatchTypes
<1>4. CountTypes'
  BY <1>1 DEF SessionTypes, CountTypes, caseVars
<1> QED BY <1>2, <1>3, <1>4 DEF SessionTypes

LEMMA EndAdvanceTypes == ASSUME SessionTypes, EndAdvance PROVE SessionTypes'
  BY EndBatchTypes DEF EndAdvance, SessionTypes, ReplicaTypes

LEMMA UpdateTyped ==
  ASSUME SessionTypes, Applying, NEW u, u = updates[i]
  PROVE  /\ u.input \in Tensors /\ u.output \in Tensors
         /\ ~u.append => rows[u.input] = rows[u.output] /\ cols[u.input] = cols[u.output]
  BY DEF SessionTypes, BatchTypes, Applying

LEMMA FailTypes == ASSUME SessionTypes, Fail PROVE SessionTypes'
<1>1. PICK u : u = updates[i]
  OBVIOUS
<1>2. u.input \in Tensors
  BY <1>1, UpdateTyped DEF Fail
<1>3. PICK d : d = replica'
  OBVIOUS
<1>4. Replicas(d) /\ DOMAIN mem' = DOMAIN mem
  <2>1. CASE UNCHANGED <<replica, mem>>
    BY <1>3, <2>1 DEF SessionTypes, ReplicaTypes
  <2>2. CASE replica' = OnDevice(u.input) /\ mem' = Uploaded(u.input)
    BY <1>2, <1>3, <2>2, OnDeviceTyped, FillDomain DEF Uploaded
  <2> QED BY <1>1, <2>1, <2>2 DEF Fail
<1> QED BY <1>3, <1>4, EndBatchTypes DEF Fail

(* A node of the graph, and a call of the caller. *)
LEMMA NextNodeTypes ==
  ASSUME SessionTypes, NextNode, DOMAIN mem' = DOMAIN mem, NEW d, replica' = d, Replicas(d), device \/ d = replica
  PROVE  SessionTypes'
<1>1. UNCHANGED <<caseVars, viewVars, bound, pc, updates, fresh, nRuns, nCalls>> /\ i' = i + 1
  BY DEF NextNode, counters, batchVars
<1>2. CaseTypes' /\ ViewTypes' /\ BlockTypes' /\ ReplicaTypes'
  BY <1>1, ReplicasLater
<1>3. BatchTypes'
  BY <1>1, SameBatch
<1>4. CountTypes'
  BY <1>1 DEF SessionTypes, CountTypes, caseVars
<1> QED BY <1>2, <1>3, <1>4 DEF SessionTypes

LEMMA NodeTypes == ASSUME SessionTypes, Node PROVE SessionTypes'
<1>1. DOMAIN mem' = DOMAIN mem
  BY FillDomain DEF Node, Put
<1>2. NextNode /\ replica' = replica /\ Replicas(replica)
  BY DEF Node, SessionTypes, ReplicaTypes
<1> QED BY <1>1, <1>2, NextNodeTypes

LEMMA DeviceNodeTypes == ASSUME SessionTypes, DeviceNode PROVE SessionTypes'
<1>1. PICK n : n = nodes[i]
  OBVIOUS
<1>2. n.src \in Tensors /\ n.dst \in Tensors /\ CaseTypes
  BY <1>1 DEF DeviceNode, Running, SessionTypes, CaseTypes
<1>3. PICK read : read = OnDevice(n.src)
  OBVIOUS
<1>4. Replicas(read)
  BY <1>2, <1>3, OnDeviceTyped
<1>5. PICK r : r = IF n.kind = "compute" THEN Latest(read, n.dst) ELSE read[n.src]
  OBVIOUS
<1>6. r \in Replica /\ (r.valid => r.block # NoBlock)
  <2>1. CASE n.kind = "compute"
    <3>1. r = Latest(read, n.dst)
      BY <1>5, <2>1
    <3>2. r \in Replica /\ r.block \in Blocks
      BY <1>2, <1>4, <3>1, LatestTyped
    <3> QED BY <3>2, SessionAssumption
  <2>2. CASE n.kind # "compute"
    BY <1>2, <1>4, <1>5, <2>2 DEF Replicas
  <2> QED BY <2>1, <2>2
<1>7. PICK done : done = With(read, n.dst, r)
  OBVIOUS
<1>8. Replicas(done)
  BY <1>2, <1>4, <1>6, <1>7, WithTyped
<1>9. PICK e : e = [block |-> NoBlock, valid |-> FALSE]
  OBVIOUS
<1>10. e \in Replica /\ ~e.valid
  BY <1>9 DEF Replica
<1>11. PICK d : d = replica'
  OBVIOUS
<1>12. d = done \/ d = With(done, n.src, e)
  BY <1>1, <1>3, <1>5, <1>7, <1>9, <1>11 DEF DeviceNode
<1>13. Replicas(d)
  BY <1>2, <1>8, <1>10, <1>12, WithTyped
<1>14. DOMAIN mem' = DOMAIN mem /\ NextNode /\ device
  BY FillDomain DEF DeviceNode, Uploaded
<1> QED BY <1>11, <1>13, <1>14, NextNodeTypes

LEMMA CallTypes ==
  ASSUME SessionTypes, Call, UNCHANGED viewVars, DOMAIN mem' = DOMAIN mem, NEW T, replica' = Behind(T)
  PROVE  SessionTypes'
<1>1. /\ UNCHANGED <<caseVars, viewVars, bound, pc, i, updates, fresh, nRuns>>
      /\ nCalls' = nCalls + 1 /\ nCalls < calls
  BY DEF Call, batchVars
<1>2. PICK d : d = Behind(T)
  OBVIOUS
<1>3. Replicas(d) /\ (device \/ d = replica)
  <2>1. replica \in [Tensors -> Replica] /\ Replicas(replica)
    BY DEF SessionTypes, ReplicaTypes, Replicas
  <2>2. PICK stale : stale = [t \in Tensors |-> \E u \in T : SameView(t, u)]
    OBVIOUS
  <2>3. \A t \in Tensors : stale[t] \in BOOLEAN /\ \A u \in Tensors : SameView(t, u) => stale[t] = stale[u]
    BY <2>2 DEF SameView
  <2>4. d = [t \in Tensors |-> [block |-> replica[t].block, valid |-> replica[t].valid /\ ~stale[t]]]
    <3>1. ASSUME NEW t \in Tensors
          PROVE  d[t] = [block |-> replica[t].block, valid |-> replica[t].valid /\ ~stale[t]]
      <4>1. replica[t] \in Replica
        BY <2>1
      <4>2. d[t] = [replica[t] EXCEPT !.valid = replica[t].valid /\ \A u \in T : ~SameView(t, u)]
        BY <1>2 DEF Behind
      <4>3. (\A u \in T : ~SameView(t, u)) = ~stale[t]
        BY <2>2
      <4> QED BY <4>1, <4>2, <4>3 DEF Replica
    <3> QED BY <1>2, <3>1 DEF Behind
  <2>5. Replicas(d)
    BY <2>1, <2>3, <2>4 DEF Replicas, Replica
  <2>6. ASSUME ~device PROVE d = replica
    <3>1. ASSUME NEW t \in Tensors PROVE d[t] = replica[t]
      <4>1. replica[t] = [block |-> NoBlock, valid |-> FALSE]
        BY <2>6 DEF SessionTypes, ReplicaTypes
      <4>2. replica[t].block = NoBlock /\ ~replica[t].valid
        BY <4>1
      <4>3. (replica[t].valid /\ ~stale[t]) = FALSE
        BY <4>2
      <4> QED BY <2>4, <4>1, <4>2, <4>3
    <3> QED BY <2>1, <2>4, <3>1
  <2> QED BY <2>5, <2>6
<1>4. CaseTypes' /\ ViewTypes' /\ BlockTypes' /\ ReplicaTypes'
  BY <1>1, <1>2, <1>3, ReplicasLater
<1>5. BatchTypes'
  BY <1>1, SameBatch
<1>6. CountTypes'
  BY <1>1 DEF SessionTypes, CountTypes, CaseTypes, caseVars
<1> QED BY <1>4, <1>5, <1>6 DEF SessionTypes

LEMMA ResetTypes == ASSUME SessionTypes, Reset PROVE SessionTypes'
  BY CallTypes DEF Reset

LEMMA BindInputTypes == ASSUME SessionTypes, NEW t, BindInput(t) PROVE SessionTypes'
  BY CallTypes, FillDomain DEF BindInput

(* A caller's replacement of a view takes the other view's place and replica. *)
LEMMA RebindTypes == ASSUME SessionTypes, NEW t \in Tensors, NEW u \in Tensors, Rebind(t, u) PROVE SessionTypes'
<1>1. /\ UNCHANGED <<caseVars, mem, cst, cat, bound, pc, i, updates, fresh, nRuns>>
      /\ nCalls' = nCalls + 1 /\ nCalls < calls /\ rows[t] = rows[u] /\ cols[t] = cols[u]
      /\ st' = [st EXCEPT ![t] = st[u]] /\ at' = [at EXCEPT ![t] = at[u]] /\ replica' = [replica EXCEPT ![t] = replica[u]]
  BY DEF Rebind, Call, batchVars
<1>2. CaseTypes' /\ base' = base /\ device' = device /\ \A x : Size(x)' = Size(x)
  BY <1>1, SameCase DEF SessionTypes, caseVars
<1>3. Size(t) = Size(u)
  BY <1>1 DEF Size
<1>4. PICK whose : whose = [x \in Tensors |-> IF x = t THEN u ELSE x]
  OBVIOUS
<1>5. \A x \in Tensors : /\ whose[x] \in Tensors /\ Size(whose[x]) = Size(x)
                         /\ st'[x] = st[whose[x]] /\ at'[x] = at[whose[x]] /\ replica'[x] = replica[whose[x]]
  BY <1>1, <1>3, <1>4 DEF SessionTypes, ViewTypes, ReplicaTypes, Replicas
<1>6. ViewTypes'
  <2>1. /\ st' \in [Tensors -> DOMAIN base'] /\ cst' \in [Tensors -> DOMAIN base']
        /\ at' \in [Tensors -> Nat] /\ cat' \in [Tensors -> Nat]
    BY <1>1, <1>2 DEF SessionTypes, ViewTypes
  <2>2. ASSUME NEW x \in Tensors, NEW y \in 0..(Size(x) - 1) PROVE base[st'[x]] + at'[x] + y \in DOMAIN mem
    BY <1>5 DEF SessionTypes, ViewTypes
  <2> QED BY <1>1, <1>2, <2>1, <2>2 DEF ViewTypes
<1>7. BlockTypes'
  BY <1>1, <1>2 DEF SessionTypes, BlockTypes
<1>8. ReplicaTypes'
  <2>1. replica' \in [Tensors -> Replica]
    BY <1>1 DEF SessionTypes, ReplicaTypes, Replicas
  <2>2. ASSUME NEW x \in Tensors, NEW y \in Tensors, SameView(x, y)' PROVE replica'[x] = replica'[y]
    <3>1. SameView(whose[x], whose[y])
      BY <1>2, <1>5, <2>2 DEF SameView
    <3> QED BY <1>5, <3>1 DEF SessionTypes, ReplicaTypes, Replicas
  <2>3. \A x \in Tensors : replica'[x].valid => replica'[x].block # NoBlock
    BY <1>5 DEF SessionTypes, ReplicaTypes, Replicas
  <2>4. ~device => \A x \in Tensors : replica'[x] = [block |-> NoBlock, valid |-> FALSE]
    BY <1>5 DEF SessionTypes, ReplicaTypes
  <2> QED BY <1>2, <2>1, <2>2, <2>3, <2>4 DEF ReplicaTypes, Replicas
<1>9. BatchTypes'
  BY <1>1, SameBatch
<1>10. CountTypes'
  BY <1>1 DEF SessionTypes, CountTypes, CaseTypes, caseVars
<1> QED BY <1>2, <1>6, <1>7, <1>8, <1>9, <1>10 DEF SessionTypes

(* The steps of an update. *)
LEMMA AppliedTypes ==
  ASSUME SessionTypes, Apply, ViewTypes', BlockTypes', ReplicaTypes'
  PROVE  SessionTypes'
<1>1. UNCHANGED <<caseVars, bound, pc, updates, fresh, nRuns, nCalls>> /\ i' = i + 1
  BY DEF Apply, batchVars, counters
<1>2. CaseTypes'
  BY <1>1, SameCase DEF SessionTypes
<1>3. BatchTypes'
  BY <1>1, SameBatch
<1>4. CountTypes'
  BY <1>1 DEF SessionTypes, CountTypes, caseVars
<1> QED BY <1>2, <1>3, <1>4 DEF SessionTypes

LEMMA DeviceUpdateTypes ==
  ASSUME SessionTypes, NEW u, u.input \in Tensors, u.output \in Tensors, DeviceUpdate(u)
  PROVE  DOMAIN mem' = DOMAIN mem /\ UNCHANGED viewVars /\ \E d : replica' = d /\ Replicas(d)
<1>1. PICK d : d = replica'
  OBVIOUS
<1>2. UNCHANGED viewVars /\ Replicas(replica) /\ CaseTypes
  BY DEF DeviceUpdate, SessionTypes, ReplicaTypes
<1>3. CASE Copied(u)
  <2>1. d = OnDevice(u.input) /\ DOMAIN mem' = DOMAIN mem
    BY <1>1, <1>3, FillDomain DEF DeviceUpdate
  <2> QED BY <1>1, <1>2, <2>1, OnDeviceTyped
<1>4. CASE ~Copied(u)
  <2>1. PICK r, s : r = replica[u.output] /\ s = replica[u.input]
    OBVIOUS
  <2>2. r \in Replica /\ s \in Replica /\ (r.valid => r.block # NoBlock) /\ (s.valid => s.block # NoBlock)
    BY <1>2, <2>1 DEF Replicas
  <2>3. PICK a : a = With(replica, u.input, r)
    OBVIOUS
  <2>4. d = With(a, u.output, s) /\ mem' = mem
    BY <1>1, <1>4, <2>1, <2>3 DEF DeviceUpdate
  <2>5. Replicas(a)
    BY <1>2, <2>2, <2>3, WithTyped
  <2>6. Replicas(d)
    BY <1>2, <2>2, <2>4, <2>5, WithTyped
  <2> QED BY <1>1, <1>2, <2>4, <2>6
<1> QED BY <1>3, <1>4

LEMMA ExchangeTypes ==
  ASSUME SessionTypes, UNCHANGED caseVars, ~device, NEW u, u.input \in Tensors, u.output \in Tensors,
         rows[u.input] = rows[u.output], cols[u.input] = cols[u.output], Exchange(u)
  PROVE  ViewTypes' /\ BlockTypes' /\ ReplicaTypes'
<1>1. PICK s, o : s = u.input /\ o = u.output
  OBVIOUS
<1>2. /\ base' = base /\ device' = device /\ mem' = mem /\ replica' = replica /\ \A x : Size(x)' = Size(x)
      /\ Size(s) = Size(o)
  BY <1>1, SameCase DEF Exchange, caseVars, SessionTypes, Size
<1>3. PICK whose : whose = [x \in Tensors |-> IF x = o THEN s ELSE IF x = s THEN o ELSE x]
  OBVIOUS
<1>4. /\ DOMAIN st = Tensors /\ DOMAIN at = Tensors /\ DOMAIN cst = Tensors /\ DOMAIN cat = Tensors
      /\ s \in Tensors /\ o \in Tensors
  BY <1>1 DEF SessionTypes, ViewTypes
<1>5. \A x \in Tensors : whose[x] \in Tensors /\ Size(whose[x]) = Size(x) /\ st'[x] = st[whose[x]] /\ at'[x] = at[whose[x]]
  BY <1>1, <1>2, <1>3, <1>4 DEF Exchange, Swapped
<1>6. /\ st' \in [Tensors -> DOMAIN base] /\ at' \in [Tensors -> Nat]
      /\ cst' \in [Tensors -> DOMAIN base] /\ cat' \in [Tensors -> Nat]
  BY <1>1, <1>4 DEF SessionTypes, ViewTypes, Exchange, Swapped
<1>7. ASSUME NEW x \in Tensors, NEW y \in 0..(Size(x) - 1) PROVE base[st'[x]] + at'[x] + y \in DOMAIN mem
  BY <1>5 DEF SessionTypes, ViewTypes
<1>8. ViewTypes'
  BY <1>2, <1>6, <1>7 DEF ViewTypes
<1>9. BlockTypes'
  BY <1>2 DEF BlockTypes
<1>10. ReplicaTypes'
  <2>1. PICK e : e = [block |-> NoBlock, valid |-> FALSE]
    OBVIOUS
  <2>2. replica \in [Tensors -> Replica] /\ \A t \in Tensors : replica[t] = e
    BY <2>1 DEF SessionTypes, ReplicaTypes, Replicas
  <2>3. ~e.valid
    BY <2>1
  <2>4. Replicas(replica)'
    BY <1>2, <2>2, <2>3 DEF Replicas
  <2> QED BY <1>2, <2>1, <2>2, <2>4 DEF ReplicaTypes
<1> QED BY <1>8, <1>9, <1>10

LEMMA ApplyTypes == ASSUME SessionTypes, Apply PROVE SessionTypes'
<1>1. PICK u : u = updates[i]
  OBVIOUS
<1>2. /\ u.input \in Tensors /\ u.output \in Tensors
      /\ ~u.append => rows[u.input] = rows[u.output] /\ cols[u.input] = cols[u.output]
  BY <1>1, UpdateTyped DEF Apply
<1>3. UNCHANGED caseVars
  BY DEF Apply
<1>4. CASE device /\ DeviceUpdate(u)
  BY <1>2, <1>3, <1>4, DeviceUpdateTypes, ReplicasLater, AppliedTypes
<1>5. CASE ~device /\ ~Copied(u) /\ Exchange(u)
  <2>1. ~u.append
    BY <1>5 DEF Copied
  <2> QED BY <1>2, <1>3, <1>5, <2>1, ExchangeTypes, AppliedTypes
<1>6. CASE UNCHANGED <<viewVars, replica>> /\ DOMAIN mem' = DOMAIN mem
  <2>1. Replicas(replica)
    BY DEF SessionTypes, ReplicaTypes
  <2> QED BY <1>3, <1>6, <2>1, ReplicasLater, AppliedTypes
<1>7. \/ device /\ DeviceUpdate(u)
      \/ ~device /\ ~Copied(u) /\ Exchange(u)
      \/ UNCHANGED <<viewVars, replica>> /\ DOMAIN mem' = DOMAIN mem
  BY <1>1, FillDomain DEF Apply, Write, Put
<1> QED BY <1>4, <1>5, <1>6, <1>7

LEMMA TypesPreserved == SessionTypes /\ [Next]_vars => SessionTypes'
<1> SUFFICES ASSUME SessionTypes, [Next]_vars PROVE SessionTypes'
  OBVIOUS
<1>1. ASSUME NEW k \in DOMAIN binds, Bind(k) PROVE SessionTypes'
  BY <1>1, BindTypes
<1>2. CASE Advance \/ Apply \/ Fail \/ EndAdvance
  BY <1>2, AdvanceTypes, ApplyTypes, FailTypes, EndAdvanceTypes
<1>3. CASE Run \/ Node \/ DeviceNode \/ EndRun
  BY <1>3, RunTypes, NodeTypes, DeviceNodeTypes, EndRunTypes
<1>4. CASE Reset
  BY <1>4, ResetTypes
<1>5. ASSUME NEW t \in States, BindInput(t) PROVE SessionTypes'
  BY <1>5, BindInputTypes
<1>6. ASSUME NEW t \in Tensors, NEW u \in Tensors, Rebind(t, u) PROVE SessionTypes'
  BY <1>6, RebindTypes
<1>7. CASE UNCHANGED vars
  <2>1. UNCHANGED <<caseVars, viewVars, replica, mem, bound, pc, i, updates, fresh, nRuns, nCalls>>
    BY <1>7 DEF vars, batchVars, counters
  <2>2. CaseTypes' /\ ViewTypes' /\ BlockTypes' /\ ReplicaTypes'
    BY <2>1, ReplicasLater DEF SessionTypes, ReplicaTypes
  <2>3. CountTypes'
    BY <2>1 DEF SessionTypes, CountTypes, caseVars
  <2> QED BY <2>1, <2>2, <2>3, SameBatch DEF SessionTypes
<1> QED BY <1>1, <1>2, <1>3, <1>4, <1>5, <1>6, <1>7 DEF Next

(* CheckTensorBindings and SwapStorage: whatever is copied, appended, exchanged or replaced, a
   state keeps its one binding, and every view lies in the memory of its storage or block, also
   when a run or an update on a device fails. *)
THEOREM SessionTypesHold == Spec => []TypeOK
<1>1. SessionTypes => TypeOK
  <2> SUFFICES ASSUME SessionTypes PROVE TypeOK
    OBVIOUS
  <2>1. \A t \in Tensors : {st[t], cst[t]} \subseteq DOMAIN base /\ Cells(t) \subseteq DOMAIN mem
    BY CellsTyped DEF SessionTypes, ViewTypes
  <2>2. at \in [Tensors -> Nat] /\ cat \in [Tensors -> Nat]
    BY DEF SessionTypes, ViewTypes
  <2>3. /\ \A k, l \in DOMAIN bound : bound[k].input = bound[l].input => k = l
        /\ pc = "apply" => Len(updates) = Len(bound)
    BY DEF SessionTypes, BatchTypes
  <2>4. /\ replica \in [Tensors -> [block : Blocks \cup {NoBlock}, valid : BOOLEAN]]
        /\ \A t, u \in Tensors : SameView(t, u) => replica[t] = replica[u]
    BY DEF SessionTypes, ReplicaTypes, Replicas, Replica
  <2>5. frozen \cup shown \subseteq Tensors /\ {plan, device, fresh} \subseteq BOOLEAN
    BY DEF SessionTypes, CaseTypes, CountTypes
  <2>6. pc \in {"idle", "run", "apply"} /\ i \in Nat /\ nRuns \in 0..MaxRuns /\ nCalls \in 0..calls
    BY DEF SessionTypes, CountTypes
  <2> QED BY <2>1, <2>2, <2>3, <2>4, <2>5, <2>6 DEF TypeOK
<1> QED BY <1>1, TypesInitially, TypesPreserved, PTL DEF Spec

-------------------------------------------------------------------------------
(* A batch on a host is one simultaneous assignment.  Updates are made one after the other, so
   those still to come must find what they are to read, and those made must not be touched. *)
Free(t, u) == HostCells(t) \cap HostCells(u) = {}
Rest(k) == DOMAIN updates \ {k}
New(u) == Updated(u.input, u.append, IF u.snapshot THEN u.copy ELSE Value(u.output))

(* Two states have no cell in common. *)
Distinct == \A k \in DOMAIN updates : \A l \in Rest(k) : Free(updates[k].input, updates[l].input)
(* An output not read in advance is not written by another update, nor moved by one. *)
ReadLater ==
  \A k \in DOMAIN updates : k >= i /\ ~updates[k].snapshot =>
    /\ Free(updates[k].output, updates[k].input)
    /\ \A l \in Rest(k) : Free(updates[k].output, updates[l].input) /\ Free(updates[k].output, updates[l].output)
(* Storages are exchanged only if nobody else reads them. *)
MovedLater ==
  \A k \in DOMAIN updates : k >= i /\ ~updates[k].stable =>
    ~updates[k].snapshot /\ \A l \in Rest(k) : Free(updates[l].output, updates[k].input)
(* An update is as its binding says, and gives, or gave, its state what that was to become. *)
Outcome(u, k) == IF k < i THEN Value(u.input) ELSE New(u)
Promised ==
  /\ DOMAIN updates = DOMAIN bound
  /\ \A k \in DOMAIN updates :
       /\ updates[k].input = bound[k].input
       /\ Source(bound[k]) = bound[k].output =>
            heldNext[updates[k].input] = Outcome(updates[k], k)
HostBatch == pc = "apply" /\ ~device => Distinct /\ ReadLater /\ MovedLater /\ Promised

LEMMA FreeBoth == \A t, u : Free(t, u) <=> Free(u, t)
  BY DEF Free

(* A host has no replicas. *)
LEMMA HostAddr ==
  ASSUME SessionTypes, ~device
  PROVE  \A t \in Tensors : /\ \A x : Addr(t, x) = base[st[t]] + at[t] + x
                            /\ base[st[t]] + at[t] \in Int /\ Size(t) \in Nat
                            /\ \A u \in Tensors : Meet(t, u) <=> ~Free(t, u)
<1> TAKE t \in Tensors
<1>1. replica[t] = [block |-> NoBlock, valid |-> FALSE]
  BY DEF SessionTypes, ReplicaTypes
<1>2. ~replica[t].valid /\ replica[t].block = NoBlock
  BY <1>1
<1>3. \A x : Addr(t, x) = base[st[t]] + at[t] + x
  BY <1>2 DEF Addr
<1>4. base[st[t]] + at[t] \in Int
  BY DEF SessionTypes, ViewTypes, CaseTypes
<1>5. Size(t) \in Nat
  BY DEF SessionTypes, CaseTypes, Size
<1>6. \A u \in Tensors : Meet(t, u) <=> ~Free(t, u)
  BY <1>2 DEF Meet, Free
<1> QED BY <1>3, <1>4, <1>5, <1>6

LEMMA Division ==
  \A x, r \in Nat, n \in Nat \ {0} :
    /\ x \div n \in Nat /\ x % n \in 0..(n - 1) /\ x = (x \div n) * n + (x % n)
    /\ x < r * n => x \div n < r
<1> TAKE x \in Nat, r \in Nat, n \in Nat \ {0}
<1>1. x \div n \in Nat /\ x % n \in 0..(n - 1) /\ x = n * (x \div n) + (x % n)
  BY SMT
<1>2. ASSUME x < r * n, x \div n >= r PROVE FALSE
  <2>1. PICK q \in Nat : q = x \div n
    BY <1>1
  <2>2. n * q >= n * r
    BY <2>1, <1>2
  <2> QED BY <2>1, <2>2, <1>1, <1>2
<1> QED BY <1>1, <1>2

(* The cell after one that does not end its row. *)
LEMMA NextCell ==
  ASSUME NEW r \in Nat, NEW n \in Nat, NEW x \in 0..(r * n - 1)
  PROVE  /\ n > 0 /\ x \div n \in 0..(r - 1) /\ x % n \in 0..(n - 1) /\ x = (x \div n) * n + (x % n)
         /\ x % n # n - 1 => x + 1 \in 0..(r * n - 1)
<1>1. n > 0
  <2> SUFFICES ASSUME n = 0 PROVE FALSE
    OBVIOUS
  <2>1. r * n = 0
    OBVIOUS
  <2> QED BY <2>1
<1>2. r * n \in Nat /\ x \in Nat /\ x < r * n
  OBVIOUS
<1>3. x \div n \in Nat /\ x % n \in 0..(n - 1) /\ x = (x \div n) * n + (x % n) /\ x \div n < r
  BY <1>1, <1>2, Division
<1>4. ASSUME x % n # n - 1 PROVE x + 1 \in 0..(r * n - 1)
  <2>1. PICK q \in Nat : q = x \div n
    BY <1>3
  <2>2. PICK m \in 0..(n - 1) : m = x % n
    BY <1>3
  <2>3. x = q * n + m /\ q + 1 <= r /\ m + 1 < n
    BY <2>1, <2>2, <1>3, <1>4
  <2>4. (q + 1) * n <= r * n
    BY <2>3
  <2>5. (q + 1) * n = q * n + n
    OBVIOUS
  <2>6. q * n \in Nat
    OBVIOUS
  <2> QED BY <1>2, <2>3, <2>4, <2>5, <2>6
<1> QED BY <1>1, <1>3, <1>4

(* What an update computes depends on two values only. *)
Computed(v, size, width, append, new) ==
  [x \in 0..(size - 1) |->
     IF ~append THEN new[x] ELSE IF x % width = width - 1 THEN new[x \div width] ELSE v[x + 1]]
LEMMA UpdatedIsComputed ==
  ASSUME SessionTypes, NEW t \in Tensors, NEW append, NEW new
  PROVE  Updated(t, append, new) = Computed(Value(t), Size(t), cols[t], append, new)
<1>1. rows[t] \in Nat /\ cols[t] \in Nat /\ Size(t) = rows[t] * cols[t]
  BY DEF SessionTypes, CaseTypes, Size
<1>2. ASSUME NEW x \in 0..(Size(t) - 1), x % cols[t] # cols[t] - 1 PROVE Value(t)[x + 1] = mem[Addr(t, x + 1)]
  <2>1. x + 1 \in 0..(Size(t) - 1)
    BY <1>1, <1>2, NextCell
  <2> QED BY <2>1 DEF Value
<1> QED BY <1>2 DEF Updated, Computed

LEMMA SameNew ==
  ASSUME SessionTypes, SessionTypes', UNCHANGED caseVars, NEW u, u.input \in Tensors,
         Value(u.input)' = Value(u.input), ~u.snapshot => Value(u.output)' = Value(u.output)
  PROVE  New(u)' = New(u)
<1>1. Size(u.input)' = Size(u.input) /\ cols'[u.input] = cols[u.input]
  BY DEF Size, caseVars
<1>2. PICK n : n = IF u.snapshot THEN u.copy ELSE Value(u.output)
  OBVIOUS
<1>3. (IF u.snapshot THEN u.copy ELSE Value(u.output))' = n
  BY <1>2
<1>4. New(u) = Computed(Value(u.input), Size(u.input), cols[u.input], u.append, n)
  BY <1>2, UpdatedIsComputed DEF New
<1>5. Updated(u.input, u.append, n)' = Computed(Value(u.input)', Size(u.input)', cols'[u.input], u.append, n)
  <2>1. rows'[u.input] \in Nat /\ cols'[u.input] \in Nat /\ Size(u.input)' = rows'[u.input] * cols'[u.input]
    BY DEF SessionTypes, CaseTypes, Size
  <2>2. ASSUME NEW x \in 0..(Size(u.input)' - 1), x % cols'[u.input] # cols'[u.input] - 1
        PROVE  Value(u.input)'[x + 1] = mem'[Addr(u.input, x + 1)']
    <3>1. x + 1 \in 0..(Size(u.input)' - 1)
      BY <2>1, <2>2, NextCell
    <3> QED BY <3>1 DEF Value
  <2> QED BY <2>2 DEF Updated, Computed
<1> QED BY <1>1, <1>3, <1>4, <1>5 DEF New

(* What a binding is to make of its state, with rows as sequences, is what its update computes. *)
LEMMA RowsMove ==
  ASSUME SessionTypes, NEW t \in Tensors, NEW x \in 0..(Size(t) - 1), NEW new
  PROVE  Moved(t, x \div cols[t], new)[(x % cols[t]) + 1] = IF x % cols[t] = cols[t] - 1 THEN new ELSE Value(t)[x + 1]
<1>1. rows[t] \in Nat /\ cols[t] \in Nat /\ Size(t) = rows[t] * cols[t]
  BY DEF SessionTypes, CaseTypes, Size
<1>2. PICK n : n = cols[t]
  OBVIOUS
<1>3. PICK q : q = x \div n
  OBVIOUS
<1>4. PICK m : m = x % n
  OBVIOUS
<1>5. n \in Nat /\ n > 0 /\ q \in Nat /\ m \in 0..(n - 1) /\ x = q * n + m /\ q * n \in Nat
  <2>1. PICK r \in Nat : r = rows[t]
    BY <1>1
  <2>2. n \in Nat /\ x \in 0..(r * n - 1)
    BY <1>1, <1>2, <2>1
  <2>3. n > 0 /\ q \in 0..(r - 1) /\ m \in 0..(n - 1) /\ x = q * n + m
    BY <1>3, <1>4, <2>2, NextCell
  <2> QED BY <2>2, <2>3
<1>6. PICK row : row = [c \in 1..n |-> Value(t)[q * n + c - 1]]
  OBVIOUS
<1>7. PICK V : V = {Value(t)[q * n + c - 1] : c \in 1..n}
  OBVIOUS
<1>8. row \in Seq(V) /\ Len(row) = n
  <2>1. row \in [1..n -> V]
    BY <1>6, <1>7
  <2> QED BY <2>1, <1>5
<1>9. PICK rest : rest = Tail(row)
  OBVIOUS
<1>10. rest \in Seq(V) /\ Len(rest) = n - 1 /\ \A c \in 1..(n - 1) : rest[c] = row[c + 1]
  BY <1>5, <1>8, <1>9
<1>11. Moved(t, x \div cols[t], new) = Append(rest, new)
  BY <1>2, <1>3, <1>6, <1>9 DEF Moved
<1>12. CASE m = n - 1
  <2>1. PICK W : W = V \cup {new}
    OBVIOUS
  <2>2. rest \in Seq(W) /\ new \in W
    BY <2>1, <1>10
  <2>3. Append(rest, new)[m + 1] = new
    BY <2>2, <1>5, <1>10, <1>12
  <2> QED BY <2>3, <1>2, <1>4, <1>11, <1>12
<1>13. CASE m # n - 1
  <2>1. PICK W : W = V \cup {new}
    OBVIOUS
  <2>2. rest \in Seq(W) /\ new \in W /\ m + 1 \in 1..(n - 1)
    BY <2>1, <1>5, <1>10, <1>13
  <2>3. Append(rest, new)[m + 1] = rest[m + 1]
    BY <2>2, <1>10
  <2>4. rest[m + 1] = row[m + 1 + 1]
    BY <2>2, <1>10
  <2>5. m + 1 + 1 \in 1..n /\ q * n + (m + 1 + 1) - 1 = x + 1
    BY <2>2, <1>5
  <2>6. row[m + 1 + 1] = Value(t)[x + 1]
    BY <2>5, <1>6
  <2> QED BY <2>3, <2>4, <2>6, <1>2, <1>4, <1>11, <1>13
<1> QED BY <1>12, <1>13

LEMMA ComputedIsNext ==
  ASSUME SessionTypes, NEW b \in Binding, Source(b) = b.output, Valid(b, b.output)
  PROVE  NextOf(b.input, b) = Updated(b.input, b.append, Value(b.output))
<1>1. b.input \in Tensors /\ b.output \in Tensors
  BY SessionAssumption DEF Binding
<1>2. CASE ~b.append
  <2>1. Size(b.output) = Size(b.input)
    BY <1>2 DEF Size, Valid
  <2>2. NextOf(b.input, b) = Value(b.output)
    BY <1>2 DEF NextOf
  <2>3. Updated(b.input, b.append, Value(b.output)) = [x \in 0..(Size(b.input) - 1) |-> Value(b.output)[x]]
    BY <1>2 DEF Updated
  <2> QED BY <2>1, <2>2, <2>3 DEF Value
<1>3. CASE b.append
  <2>1. Updated(b.input, b.append, Value(b.output)) = Computed(Value(b.input), Size(b.input), cols[b.input], b.append, Value(b.output))
    BY <1>1, UpdatedIsComputed
  <2>2. \A x \in 0..(Size(b.input) - 1) :
           Moved(b.input, x \div cols[b.input], Value(b.output)[x \div cols[b.input]])[(x % cols[b.input]) + 1]
             = IF x % cols[b.input] = cols[b.input] - 1 THEN Value(b.output)[x \div cols[b.input]] ELSE Value(b.input)[x + 1]
    BY <1>1, RowsMove
  <2> QED BY <1>3, <2>1, <2>2 DEF NextOf, Computed
<1> QED BY <1>2, <1>3

(* The updates of a batch; nothing has moved yet. *)
BatchBegun(D, U) ==
  /\ UNCHANGED <<caseVars, viewVars, replica, mem, bound>> /\ i' = 1 /\ pc' = "apply"
  /\ \A t, u : Free(t, u)' <=> Free(t, u)
  /\ \A t : HostCells(t)' = HostCells(t) /\ Value(t)' = Value(t) /\ Size(t)' = Size(t)
  /\ \A k \in D : bound[k] \in Binding /\ Input(k) \in Tensors /\ Input(k) \in States /\ Output(k) \in Tensors
  /\ DOMAIN U = D
  /\ \A k \in D :
       /\ U[k].input = Input(k) /\ U[k].output = Output(k) /\ U[k].append = bound[k].append
       /\ U[k].stable = Stable(k) /\ U[k].snapshot = Snapshot(k)
       /\ Snapshot(k) => U[k].copy = Value(Output(k))
LEMMA AdvanceUpdates ==
  ASSUME SessionTypes, Advance, NEW D, D = DOMAIN bound, NEW U, U = updates'
  PROVE  BatchBegun(D, U)
<1>0. UNCHANGED <<caseVars, viewVars, replica, mem, bound>> /\ i' = 1 /\ pc' = "apply"
  BY DEF Advance
<1>1. UNCHANGED <<base, rows, cols, st, at, replica, mem>>
  BY <1>0 DEF caseVars, viewVars
<1>2. /\ \A t, u : Free(t, u)' <=> Free(t, u)
      /\ \A t : HostCells(t)' = HostCells(t) /\ Value(t)' = Value(t) /\ Size(t)' = Size(t)
  <2>1. \A t : Size(t)' = Size(t) /\ \A x : Addr(t, x)' = Addr(t, x)
    BY <1>1 DEF Size, Addr
  <2>2. \A t : HostCells(t)' = HostCells(t)
    BY <1>1, <2>1 DEF HostCells
  <2> QED BY <1>1, <2>1, <2>2 DEF Value, Free
<1>3. updates' = [k \in DOMAIN bound |-> Update(k)]
  BY DEF Advance
<1>4. \A k \in DOMAIN bound : bound[k] \in Binding /\ Input(k) \in Tensors /\ Input(k) \in States /\ Output(k) \in Tensors
  <2> TAKE k \in DOMAIN bound
  <2>1. bound[k] \in Binding
    BY DEF SessionTypes, BatchTypes
  <2>2. bound[k].input \in States /\ bound[k].input \in Tensors
    BY <2>1, SessionAssumption DEF Binding
  <2>3. Source(bound[k]) \in Tensors
    BY <2>1, SourceTyped DEF SessionTypes
  <2> QED BY <2>1, <2>2, <2>3 DEF Input, Output
<1>5. /\ DOMAIN U = D
      /\ \A k \in D :
           /\ U[k].input = Input(k) /\ U[k].output = Output(k) /\ U[k].append = bound[k].append
           /\ U[k].stable = Stable(k) /\ U[k].snapshot = Snapshot(k)
           /\ Snapshot(k) => U[k].copy = Value(Output(k))
  BY <1>3 DEF Update
<1> QED BY <1>0, <1>2, <1>4, <1>5 DEF BatchBegun

LEMMA UpdatesBegin ==
  ASSUME SessionTypes, Advance, NEW U, U = updates', NEW k \in DOMAIN bound
  PROVE  /\ heldNext'[Input(k)] = NextOf(Input(k), bound[k])
         /\ Outcome(U[k], k)' = Updated(Input(k), bound[k].append, Value(Output(k)))
<1>1. PICK D : D = DOMAIN bound
  OBVIOUS
<1>2. BatchBegun(D, U)
  BY <1>1, AdvanceUpdates
<1> USE DEF BatchBegun
<1>3. k \in 1..Len(bound) /\ ~(k < i')
  BY <1>2 DEF SessionTypes, BatchTypes
<1>4. heldNext'[Input(k)] = NextOf(Input(k), bound[k])
  <2>1. (CHOOSE l \in DOMAIN bound : Input(l) = Input(k)) = k
    BY DEF SessionTypes, BatchTypes, Input
  <2>2. heldNext' = NextContents
    BY DEF Advance
  <2> QED BY <2>1, <2>2, <1>1, <1>2 DEF NextContents
<1>5. PICK u : u = U[k]
  OBVIOUS
<1>6. (IF u.snapshot THEN u.copy ELSE Value(u.output)) = Value(Output(k))
  BY <1>1, <1>2, <1>5
<1>7. New(u) = Updated(Input(k), bound[k].append, Value(Output(k)))
  BY <1>1, <1>2, <1>5, <1>6 DEF New
<1>8. New(u)' = New(u)
  <2>1. u.input \in Tensors
    BY <1>1, <1>2, <1>5
  <2> QED BY <2>1, <1>2, SameNew, AdvanceTypes
<1>9. Outcome(u, k)' = New(u)
  BY <1>3, <1>8 DEF Outcome
<1> QED BY <1>4, <1>5, <1>7, <1>9

LEMMA BatchPromised == ASSUME SessionTypes, Advance PROVE Promised'
<1>1. PICK D, U : D = DOMAIN bound /\ U = updates'
  OBVIOUS
<1>2. BatchBegun(D, U) /\ D = DOMAIN bound /\ U = updates' /\ ~Refused /\ updates' = U
  BY <1>1, AdvanceUpdates DEF Advance
<1> USE DEF BatchBegun
<1> SUFFICES ASSUME NEW k \in D, Source(bound[k]) = bound[k].output
             PROVE  heldNext'[Input(k)] = Outcome(U[k], k)'
  <2>1. PICK b : b = bound
    OBVIOUS
  <2>2. \A k \in D : U[k].input = b[k].input
    BY <1>2, <2>1 DEF Input
  <2>3. \A k \in D : Source(b[k])' = Source(b[k])
    BY <1>2 DEF Source, WholeSources, caseVars
  <2> QED BY <2>1, <2>2, <2>3, <1>2 DEF Promised, Input
<1>3. Output(k) = bound[k].output /\ Valid(bound[k], bound[k].output)
  BY <1>2 DEF Output, Refused
<1>4. NextOf(bound[k].input, bound[k]) = Updated(bound[k].input, bound[k].append, Value(bound[k].output))
  BY <1>2, <1>3, ComputedIsNext
<1>5. /\ heldNext'[Input(k)] = NextOf(Input(k), bound[k])
      /\ Outcome(U[k], k)' = Updated(Input(k), bound[k].append, Value(Output(k)))
  BY <1>2, UpdatesBegin
<1> QED BY <1>3, <1>4, <1>5 DEF Input

LEMMA BatchBegins == ASSUME SessionTypes, Advance PROVE HostBatch'
<1>1. PICK D, U : D = DOMAIN bound /\ U = updates'
  OBVIOUS
<1>2. BatchBegun(D, U) /\ ~Refused /\ updates' = U
  BY <1>1, AdvanceUpdates DEF Advance
<1> SUFFICES ASSUME ~device PROVE Distinct' /\ ReadLater' /\ MovedLater'
  BY <1>2, BatchPromised DEF HostBatch, BatchBegun, caseVars
<1> USE DEF BatchBegun
<1>3. \A k, l \in D : /\ Meet(Input(k), Input(l)) <=> ~Free(U[k].input, U[l].input)
                      /\ Meet(Output(k), Input(l)) <=> ~Free(U[k].output, U[l].input)
                      /\ Meet(Output(k), Output(l)) <=> ~Free(U[k].output, U[l].output)
  BY <1>1, <1>2, HostAddr
<1>4. Distinct'
  <2>1. \A k \in D : \A l \in D \ {k} : Free(U[k].input, U[l].input)
    BY <1>1, <1>2, <1>3 DEF Refused, Others
  <2> QED BY <1>1, <1>2, <2>1 DEF Distinct, Rest
<1>5. ReadLater'
  <2>1. \A k \in D : ~U[k].snapshot => \A l \in D \ {k} : Free(U[k].output, U[l].input) /\ Free(U[k].output, U[l].output)
    BY <1>1, <1>2, <1>3 DEF Snapshot, Others
  <2>2. \A k \in D : ~U[k].snapshot => Free(U[k].output, U[k].input)
    BY <1>1, <1>2, <1>3 DEF Snapshot
  <2> QED BY <1>1, <1>2, <2>1, <2>2 DEF ReadLater, Rest
<1>6. MovedLater'
  <2>1. \A k \in D : ~U[k].stable => ~U[k].snapshot
    BY <1>1, <1>2 DEF Stable
  <2>2. \A k \in D : ~U[k].stable => \A l \in D \ {k} : Free(U[l].output, U[k].input)
    BY <1>1, <1>2, <1>3 DEF Stable, Others
  <2> QED BY <1>1, <1>2, <2>1, <2>2 DEF MovedLater, Rest
<1> QED BY <1>4, <1>5, <1>6

(* An update that writes changes no tensor it does not meet. *)
LEMMA HostWrite ==
  ASSUME SessionTypes, ~device, NEW t \in Tensors, NEW v, v = [x \in 0..(Size(t) - 1) |-> v[x]],
         mem' = Put(t, v), UNCHANGED <<caseVars, viewVars, replica>>
  PROVE  /\ Value(t)' = v
         /\ \A u \in Tensors : HostCells(u)' = HostCells(u) /\ (Free(u, t) => Value(u)' = Value(u))
<1>1. \A u : Size(u)' = Size(u) /\ \A x : Addr(u, x)' = Addr(u, x)
  BY DEF Size, Addr, caseVars, viewVars
<1>2. \A u : HostCells(u)' = HostCells(u)
  BY <1>1 DEF HostCells, caseVars, viewVars
<1>3. PICK s : s = [u \in Tensors |-> base[st[u]] + at[u]]
  OBVIOUS
<1>4. \A u \in Tensors : s[u] \in Int /\ Size(u) \in Nat /\ \A x : Addr(u, x) = s[u] + x
  BY <1>3, HostAddr
<1>5. \A u \in Tensors : HostCells(u) = {s[u] + x : x \in 0..(Size(u) - 1)}
  BY <1>3 DEF HostCells
<1>6. \A u \in Tensors : \A x \in 0..(Size(u) - 1) : s[u] + x \in DOMAIN mem
  BY <1>3 DEF SessionTypes, ViewTypes
<1>7. mem' = [a \in DOMAIN mem |-> IF a - s[t] \in 0..(Size(t) - 1) THEN v[a - s[t]] ELSE mem[a]]
  <2>1. Addr(t, 0) = s[t] /\ DOMAIN v = 0..(Size(t) - 1)
    BY <1>4
  <2> QED BY <2>1 DEF Put, Fill
<1>8. \A u \in Tensors : Value(u) = [x \in 0..(Size(u) - 1) |-> mem[s[u] + x]]
  BY <1>4 DEF Value
<1>9. \A u \in Tensors : Value(u)' = [x \in 0..(Size(u) - 1) |-> mem'[s[u] + x]]
  <2> TAKE u \in Tensors
  <2>1. Value(u)' = [x \in 0..(Size(u) - 1) |-> mem'[Addr(u, x)]]
    BY <1>1 DEF Value
  <2> QED BY <1>4, <2>1
<1>10. Value(t)' = v
  <2>1. \A x \in 0..(Size(t) - 1) : mem'[s[t] + x] = v[x]
    <3> TAKE x \in 0..(Size(t) - 1)
    <3>1. s[t] + x \in DOMAIN mem /\ (s[t] + x) - s[t] = x
      BY <1>4, <1>6
    <3> QED BY <3>1, <1>7
  <2> QED BY <2>1, <1>9
<1>11. ASSUME NEW u \in Tensors, Free(u, t) PROVE Value(u)' = Value(u)
  <2>1. \A x \in 0..(Size(u) - 1) : mem'[s[u] + x] = mem[s[u] + x]
    <3> TAKE x \in 0..(Size(u) - 1)
    <3>1. s[u] + x \in DOMAIN mem /\ s[u] + x \in HostCells(u)
      BY <1>5, <1>6
    <3>2. (s[u] + x) - s[t] \notin 0..(Size(t) - 1)
      <4> SUFFICES ASSUME NEW y \in 0..(Size(t) - 1), (s[u] + x) - s[t] = y PROVE FALSE
        OBVIOUS
      <4>1. s[u] + x = s[t] + y
        BY <1>4
      <4>2. s[t] + y \in HostCells(t)
        BY <1>5
      <4> QED BY <4>1, <4>2, <3>1, <1>11 DEF Free
    <3> QED BY <3>1, <3>2, <1>7
  <2>2. [x \in 0..(Size(u) - 1) |-> mem'[s[u] + x]] = [x \in 0..(Size(u) - 1) |-> mem[s[u] + x]]
    BY <2>1
  <2>3. Value(u) = [x \in 0..(Size(u) - 1) |-> mem[s[u] + x]] /\ Value(u)' = [x \in 0..(Size(u) - 1) |-> mem'[s[u] + x]]
    BY <1>8, <1>9
  <2> QED BY <2>2, <2>3
<1> QED BY <1>2, <1>10, <1>11

ValueAt(m, p, n) == [x \in 0..(n - 1) |-> m[p + x]]
LEMMA WithoutCells ==
  \A n \in Nat : \A p, q \in Int : \A m :
    /\ CellsAt(p, n) = {} => n = 0
    /\ n = 0 => CellsAt(p, n) = CellsAt(q, n) /\ ValueAt(m, p, n) = ValueAt(m, q, n)
<1> TAKE n \in Nat
<1> TAKE p \in Int, q \in Int
<1> TAKE m
<1>1. ASSUME n # 0 PROVE CellsAt(p, n) # {}
  <2>1. 0 \in 0..(n - 1)
    BY <1>1
  <2> QED BY <2>1 DEF CellsAt
<1>2. ASSUME n = 0 PROVE CellsAt(p, n) = CellsAt(q, n) /\ ValueAt(m, p, n) = ValueAt(m, q, n)
  <2>1. 0..(n - 1) = {}
    BY <1>2
  <2> QED BY <2>1 DEF CellsAt, ValueAt
<1> QED BY <1>1, <1>2

(* An exchange of storages moves two tensors and leaves every other alone; a tensor without
   cells does not count. *)
LEMMA HostExchange ==
  ASSUME SessionTypes, ~device, NEW u, u.input \in Tensors, u.output \in Tensors,
         Size(u.input) = Size(u.output), Exchange(u), UNCHANGED caseVars
  PROVE  /\ HostCells(u.input)' = HostCells(u.output) /\ HostCells(u.output)' = HostCells(u.input)
         /\ Value(u.input)' = Value(u.output)
         /\ \A t \in Tensors : t \notin {u.input, u.output} \/ HostCells(t) = {} =>
              HostCells(t)' = HostCells(t) /\ Value(t)' = Value(t)
<1>1. PICK a \in Tensors, b \in Tensors : a = u.input /\ b = u.output
  OBVIOUS
<1>2. st \in [Tensors -> DOMAIN base] /\ at \in [Tensors -> Nat]
  BY DEF SessionTypes, ViewTypes
<1>3. /\ st'[a] = st[b] /\ at'[a] = at[b] /\ st'[b] = st[a] /\ at'[b] = at[a]
      /\ \A t \in Tensors \ {a, b} : st'[t] = st[t] /\ at'[t] = at[t]
  BY <1>1, <1>2 DEF Exchange, Swapped
<1>4. /\ UNCHANGED <<base, replica, mem>> /\ \A t : Size(t)' = Size(t)
      /\ Size(a) = Size(b)
  BY <1>1 DEF Exchange, caseVars, Size
<1>5. PICK S : S = [t \in Tensors |-> Size(t)]
  OBVIOUS
<1>6. PICK p : p = [t \in Tensors |-> base[st[t]] + at[t]]
  OBVIOUS
<1>7. PICK q : q = [t \in Tensors |-> base[st'[t]] + at'[t]]
  OBVIOUS
<1>8. \A t \in Tensors : ~replica[t].valid
  BY DEF SessionTypes, ReplicaTypes
<1>9. \A t \in Tensors : /\ HostCells(t) = CellsAt(p[t], S[t])
                         /\ Value(t) = ValueAt(mem, p[t], S[t])
                         /\ S[t] \in Nat /\ p[t] \in Int
  BY <1>5, <1>6, HostAddr DEF HostCells, Value, CellsAt, ValueAt
<1>10. \A t \in Tensors : HostCells(t)' = CellsAt(q[t], S[t])
  BY <1>4, <1>5, <1>7 DEF HostCells, CellsAt
<1>11. \A t \in Tensors : Value(t)' = ValueAt(mem, q[t], S[t])
  <2> TAKE t \in Tensors
  <2>1. \A x : Addr(t, x)' = q[t] + x
    BY <1>4, <1>7, <1>8 DEF Addr
  <2> QED BY <2>1, <1>4, <1>5 DEF Value, ValueAt
<1>12. q[a] = p[b] /\ q[b] = p[a] /\ S[a] = S[b] /\ \A t \in Tensors \ {a, b} : q[t] = p[t]
  BY <1>3, <1>4, <1>5, <1>6, <1>7
<1>13. \A t \in Tensors : q[t] \in Int
  <2> TAKE t \in Tensors
  <2>1. t = a \/ t = b \/ t \in Tensors \ {a, b}
    OBVIOUS
  <2> QED BY <2>1, <1>9, <1>12
<1>14. ASSUME NEW t \in Tensors, HostCells(t) = {} PROVE HostCells(t)' = HostCells(t) /\ Value(t)' = Value(t)
  <2>1. S[t] = 0
    BY <1>9, <1>14, WithoutCells
  <2>2. CellsAt(p[t], S[t]) = CellsAt(q[t], S[t]) /\ ValueAt(mem, p[t], S[t]) = ValueAt(mem, q[t], S[t])
    BY <2>1, <1>9, <1>13, WithoutCells
  <2> QED BY <2>2, <1>9, <1>10, <1>11
<1>15. ASSUME NEW t \in Tensors, t \notin {a, b} PROVE HostCells(t)' = HostCells(t) /\ Value(t)' = Value(t)
  <2>1. q[t] = p[t]
    BY <1>12, <1>15
  <2> QED BY <2>1, <1>9, <1>10, <1>11
<1>16. HostCells(a)' = HostCells(b) /\ HostCells(b)' = HostCells(a) /\ Value(a)' = Value(b)
  BY <1>9, <1>10, <1>11, <1>12
<1> QED BY <1>1, <1>14, <1>15, <1>16

LEMMA FreeSelf == \A t : Free(t, t) => HostCells(t) = {}
  BY DEF Free

LEMMA HostUpdate ==
  ASSUME Apply, ~device, NEW u, u = updates[i]
  PROVE  \/ (plan \/ Copied(u)) /\ Write(u)
         \/ ~plan /\ ~Copied(u) /\ Exchange(u)
<1>1. CASE (plan \/ Copied(updates[i])) /\ Write(updates[i])
  BY <1>1 DEF Write, Copied
<1>2. CASE ~plan /\ ~Copied(updates[i]) /\ Exchange(updates[i])
  BY <1>2 DEF Exchange, Copied
<1> QED BY <1>1, <1>2 DEF Apply

(* One update leaves the tensors of all others where they are, and those it should not touch
   with their values. *)
UpdateMoved(U, j) ==
  /\ Value(U[j].input)' = New(U[j])
  /\ \A l \in DOMAIN U \ {j} :
       /\ HostCells(U[l].input)' = HostCells(U[l].input) /\ HostCells(U[l].output)' = HostCells(U[l].output)
       /\ Value(U[l].input)' = Value(U[l].input)
       /\ l >= j /\ ~U[l].snapshot => Value(U[l].output)' = Value(U[l].output)
  /\ \/ HostCells(U[j].input)' = HostCells(U[j].input) /\ HostCells(U[j].output)' = HostCells(U[j].output)
     \/ /\ HostCells(U[j].input)' = HostCells(U[j].output) /\ HostCells(U[j].output)' = HostCells(U[j].input)
        /\ ~U[j].stable
LEMMA UpdateMoves ==
  ASSUME SessionTypes, HostBatch, ~device, Apply, NEW U, U = updates, NEW j, j = i
  PROVE  UpdateMoved(U, j)
<1> USE DEF UpdateMoved
<1>0. PICK u : u = U[j]
  OBVIOUS
<1>6. /\ i \in DOMAIN updates /\ UNCHANGED caseVars /\ pc = "apply"
      /\ \/ (plan \/ Copied(u)) /\ Write(u)
         \/ ~plan /\ ~Copied(u) /\ Exchange(u)
  <2>1. u = updates[i]
    BY <1>0
  <2> QED BY <2>1, HostUpdate DEF Apply, Applying
<1>1. \A k \in DOMAIN U :
        /\ U[k].input \in Tensors /\ U[k].output \in Tensors
        /\ U[k].append \in BOOLEAN /\ U[k].stable \in BOOLEAN
        /\ ~U[k].append => Size(U[k].input) = Size(U[k].output)
  BY <1>6 DEF SessionTypes, BatchTypes, Size
<1>2. Distinct /\ ReadLater /\ MovedLater /\ i \in Nat
  BY <1>6 DEF HostBatch, SessionTypes, CountTypes
<1>3. \A l \in DOMAIN U \ {j} : l \in DOMAIN updates /\ l \in Rest(j) /\ j \in Rest(l)
  BY <1>6 DEF Rest
<1>4. CASE Write(u)
  <2>1. PICK v : v = New(u)
    OBVIOUS
  <2>2. v = [x \in 0..(Size(u.input) - 1) |-> v[x]]
    BY <2>1 DEF New, Updated
  <2>3. mem' = Put(u.input, v) /\ UNCHANGED <<viewVars, replica>>
    BY <1>4, <2>1 DEF Write, New
  <2>4. /\ Value(u.input)' = v
        /\ \A t \in Tensors : HostCells(t)' = HostCells(t) /\ (Free(t, u.input) => Value(t)' = Value(t))
    BY <1>0, <1>1, <1>6, <2>2, <2>3, HostWrite
  <2>5. \A l \in DOMAIN U \ {j} : Free(U[l].input, u.input)
    BY <1>0, <1>2, <1>3, <1>6 DEF Distinct
  <2>6. \A l \in DOMAIN U \ {j} : l >= j /\ ~U[l].snapshot => Free(U[l].output, u.input)
    BY <1>0, <1>2, <1>3, <1>6 DEF ReadLater
  <2>7. ASSUME NEW l \in DOMAIN U \ {j}
        PROVE  /\ HostCells(U[l].input)' = HostCells(U[l].input) /\ HostCells(U[l].output)' = HostCells(U[l].output)
               /\ Value(U[l].input)' = Value(U[l].input)
               /\ l >= j /\ ~U[l].snapshot => Value(U[l].output)' = Value(U[l].output)
    BY <2>7, <1>1, <2>4, <2>5, <2>6
  <2>8. HostCells(u.input)' = HostCells(u.input) /\ HostCells(u.output)' = HostCells(u.output) /\ Value(u.input)' = New(u)
    BY <1>0, <1>1, <1>6, <2>1, <2>4
  <2> QED BY <1>0, <2>7, <2>8
<1>5. CASE ~Copied(u) /\ Exchange(u)
  <2>1. ~u.append /\ ~u.stable
    BY <1>5 DEF Copied
  <2>2. ~u.snapshot /\ \A l \in DOMAIN U \ {j} : Free(U[l].output, u.input)
    BY <1>0, <1>2, <1>3, <1>6, <2>1 DEF MovedLater
  <2>3. \A l \in DOMAIN U \ {j} : Free(u.output, U[l].input) /\ Free(u.output, U[l].output)
    BY <1>0, <1>2, <1>3, <1>6, <2>2 DEF ReadLater
  <2>4. \A l \in DOMAIN U \ {j} : Free(u.input, U[l].input)
    BY <1>0, <1>2, <1>3, <1>6 DEF Distinct
  <2>5. /\ HostCells(u.input)' = HostCells(u.output) /\ HostCells(u.output)' = HostCells(u.input)
        /\ Value(u.input)' = Value(u.output)
        /\ \A t \in Tensors : t \notin {u.input, u.output} \/ HostCells(t) = {} =>
             HostCells(t)' = HostCells(t) /\ Value(t)' = Value(t)
    BY <1>0, <1>1, <1>5, <1>6, <2>1, HostExchange
  <2>6. \A l \in DOMAIN U \ {j} : U[l].input \notin {u.input, u.output} \/ HostCells(U[l].input) = {}
    BY <2>3, <2>4, FreeSelf
  <2>7. \A l \in DOMAIN U \ {j} : U[l].output \notin {u.input, u.output} \/ HostCells(U[l].output) = {}
    BY <2>2, <2>3, FreeSelf
  <2>8. New(u) = Value(u.output)
    <3>1. New(u) = [x \in 0..(Size(u.output) - 1) |-> Value(u.output)[x]]
      BY <1>0, <1>1, <1>6, <2>1, <2>2 DEF New, Updated
    <3> QED BY <3>1 DEF Value
  <2> QED BY <1>0, <1>1, <1>3, <2>1, <2>5, <2>6, <2>7, <2>8
<1> QED BY <1>4, <1>5, <1>6

(* An update makes of its state what the next one will still find, and what all others were to
   make of theirs they will still make. *)
LEMMA OutcomesStay ==
  ASSUME SessionTypes, HostBatch, ~device, Apply, NEW U, U = updates, NEW k \in DOMAIN U
  PROVE  Outcome(U[k], k)' = Outcome(U[k], k)
<1>1. PICK j : j = i
  OBVIOUS
<1>2. UNCHANGED caseVars /\ pc = "apply" /\ j \in DOMAIN U /\ i' = j + 1
  BY <1>1 DEF Apply, Applying
<1>3. j \in Nat /\ k \in Nat
  <2>1. j \in Nat /\ DOMAIN bound = 1..Len(bound) /\ Len(bound) \in Nat /\ DOMAIN U = DOMAIN bound
    BY <1>1, <1>2 DEF SessionTypes, CountTypes, BatchTypes, HostBatch, Promised
  <2> QED BY <2>1
<1>4. SessionTypes' /\ UpdateMoved(U, j)
  BY <1>1, ApplyTypes, UpdateMoves
<1>5. CASE k = j
  BY <1>2, <1>3, <1>4, <1>5, <1>1 DEF Outcome, UpdateMoved
<1>6. CASE k < j
  BY <1>2, <1>3, <1>4, <1>6, <1>1 DEF Outcome, UpdateMoved
<1>7. CASE k # j /\ ~(k < j)
  <2>1. k >= j /\ ~(k < j + 1)
    BY <1>3, <1>7
  <2>2. PICK w : w = U[k]
    OBVIOUS
  <2>3. w.input \in Tensors /\ Value(w.input)' = Value(w.input) /\ (~w.snapshot => Value(w.output)' = Value(w.output))
    BY <1>2, <1>4, <1>7, <2>1, <2>2 DEF SessionTypes, BatchTypes, UpdateMoved
  <2>4. New(w)' = New(w)
    BY <2>3, <1>2, <1>4, SameNew
  <2> QED BY <1>1, <1>2, <1>7, <2>1, <2>2, <2>4 DEF Outcome
<1> QED BY <1>5, <1>6, <1>7

LEMMA BatchContinues == ASSUME SessionTypes, HostBatch, Apply PROVE HostBatch'
<1> SUFFICES ASSUME ~device PROVE Distinct' /\ ReadLater' /\ MovedLater' /\ Promised'
  BY DEF HostBatch, Apply, caseVars
<1>1. PICK U, D, j : U = updates /\ D = DOMAIN U /\ j = i
  OBVIOUS
<1>2. /\ UNCHANGED <<caseVars, bound, heldNext>> /\ pc = "apply" /\ j \in D /\ updates' = U /\ i' = j + 1
  BY <1>1 DEF Apply, Applying, batchVars
<1>3. Distinct /\ ReadLater /\ MovedLater /\ Promised /\ j \in Nat /\ D = DOMAIN bound /\ D \subseteq Nat
  <2>1. Distinct /\ ReadLater /\ MovedLater /\ Promised /\ D = DOMAIN bound
    BY <1>1, <1>2 DEF HostBatch, Promised
  <2>2. j \in Nat /\ DOMAIN bound = 1..Len(bound) /\ Len(bound) \in Nat
    BY <1>1 DEF SessionTypes, CountTypes, BatchTypes
  <2> QED BY <2>1, <2>2
<1>4. SessionTypes'
  BY ApplyTypes
<1>5. \A k \in D : (k < j + 1 <=> k < j \/ k = j) /\ (k >= j + 1 => k >= j /\ k # j) /\ (k # j => (k < j + 1 <=> k < j))
  BY <1>2, <1>3
<1>6. \A k \in D : U[k].input \in Tensors /\ U[k].output \in Tensors
  BY <1>1, <1>2 DEF SessionTypes, BatchTypes
<1>7. PICK u : u = U[j]
  OBVIOUS
<1>8. /\ Value(u.input)' = New(u)
      /\ \A l \in D \ {j} :
           /\ HostCells(U[l].input)' = HostCells(U[l].input) /\ HostCells(U[l].output)' = HostCells(U[l].output)
           /\ Value(U[l].input)' = Value(U[l].input)
           /\ l >= j /\ ~U[l].snapshot => Value(U[l].output)' = Value(U[l].output)
      /\ \/ HostCells(u.input)' = HostCells(u.input) /\ HostCells(u.output)' = HostCells(u.output)
         \/ /\ HostCells(u.input)' = HostCells(u.output) /\ HostCells(u.output)' = HostCells(u.input)
            /\ ~u.stable
  <2>1. UpdateMoved(U, j)
    BY <1>1, UpdateMoves
  <2> QED BY <2>1, <1>1, <1>7 DEF UpdateMoved
(* The invariant's parts, for the batch as it was and as it is. *)
<1>9. PICK I, O, In, On :
        /\ I = [k \in D |-> HostCells(U[k].input)] /\ O = [k \in D |-> HostCells(U[k].output)]
        /\ In = [k \in D |-> HostCells(U[k].input)'] /\ On = [k \in D |-> HostCells(U[k].output)']
  OBVIOUS
<1>10. \A k \in D \ {j} : In[k] = I[k] /\ On[k] = O[k]
  BY <1>8, <1>9
<1>11. (In[j] = I[j] /\ On[j] = O[j]) \/ (In[j] = O[j] /\ On[j] = I[j] /\ ~U[j].stable)
  <2>1. In[j] = HostCells(u.input)' /\ On[j] = HostCells(u.output)' /\ I[j] = HostCells(u.input) /\ O[j] = HostCells(u.output)
    BY <1>2, <1>7, <1>9
  <2>2. CASE HostCells(u.input)' = HostCells(u.input) /\ HostCells(u.output)' = HostCells(u.output)
    BY <2>1, <2>2
  <2>3. CASE HostCells(u.input)' = HostCells(u.output) /\ HostCells(u.output)' = HostCells(u.input) /\ ~u.stable
    <3>1. ~U[j].stable
      BY <2>3, <1>7
    <3> QED BY <2>1, <2>3, <3>1
  <2> QED BY <2>2, <2>3, <1>8
<1>12. \A k \in D : \A l \in D \ {k} : I[k] \cap I[l] = {}
  BY <1>1, <1>3, <1>9 DEF Distinct, Rest, Free
<1>13. \A k \in D : k >= j /\ ~U[k].snapshot =>
         O[k] \cap I[k] = {} /\ \A l \in D \ {k} : O[k] \cap I[l] = {} /\ O[k] \cap O[l] = {}
  BY <1>1, <1>3, <1>9 DEF ReadLater, Rest, Free
<1>14. \A k \in D : k >= j /\ ~U[k].stable => ~U[k].snapshot /\ \A l \in D \ {k} : O[l] \cap I[k] = {}
  BY <1>1, <1>3, <1>9 DEF MovedLater, Rest, Free
<1>15. Distinct'
  <2>1. \A k \in D : \A l \in D \ {k} : In[k] \cap In[l] = {}
    <3> SUFFICES ASSUME NEW k \in D, NEW l \in D \ {k} PROVE In[k] \cap In[l] = {}
      OBVIOUS
    <3>1. CASE k # j /\ l # j
      BY <3>1, <1>10, <1>12
    <3>2. CASE k = j
      BY <3>2, <1>2, <1>3, <1>10, <1>11, <1>12, <1>13, <1>14
    <3>3. CASE l = j
      BY <3>3, <1>2, <1>3, <1>10, <1>11, <1>12, <1>13, <1>14
    <3> QED BY <3>1, <3>2, <3>3
  <2> QED BY <2>1, <1>1, <1>2, <1>9 DEF Distinct, Rest, Free
<1>16. ReadLater'
  <2>1. ASSUME NEW k \in D, k >= j + 1, ~U[k].snapshot
        PROVE  On[k] \cap In[k] = {} /\ \A l \in D \ {k} : On[k] \cap In[l] = {} /\ On[k] \cap On[l] = {}
    <3>1. k >= j /\ k # j
      BY <2>1, <1>5
    <3>2. On[k] = O[k] /\ In[k] = I[k]
      BY <3>1, <1>10
    <3>3. \A l \in D : (In[l] = I[l] /\ On[l] = O[l]) \/ (In[l] = O[l] /\ On[l] = I[l])
      BY <1>10, <1>11
    <3>4. O[k] \cap I[k] = {} /\ \A l \in D \ {k} : O[k] \cap I[l] = {} /\ O[k] \cap O[l] = {}
      BY <2>1, <3>1, <1>13
    <3>5. ASSUME NEW l \in D \ {k} PROVE On[k] \cap In[l] = {} /\ On[k] \cap On[l] = {}
      <4>1. CASE In[l] = I[l] /\ On[l] = O[l]
        BY <4>1, <3>2, <3>4
      <4>2. CASE In[l] = O[l] /\ On[l] = I[l]
        BY <4>2, <3>2, <3>4
      <4> QED BY <4>1, <4>2, <3>3
    <3> QED BY <3>2, <3>4, <3>5
  <2>2. ASSUME NEW k \in D, k >= j + 1, ~U[k].snapshot
        PROVE  /\ Free(U[k].output, U[k].input)'
               /\ \A l \in D \ {k} : Free(U[k].output, U[l].input)' /\ Free(U[k].output, U[l].output)'
    BY <2>1, <2>2, <1>2, <1>9 DEF Free
  <2> QED BY <2>2, <1>1, <1>2 DEF ReadLater, Rest
<1>17. MovedLater'
  <2>1. ASSUME NEW k \in D, k >= j + 1, ~U[k].stable
        PROVE  ~U[k].snapshot /\ \A l \in D \ {k} : On[l] \cap In[k] = {}
    <3>1. k >= j /\ k # j
      BY <2>1, <1>5
    <3>2. In[k] = I[k]
      BY <3>1, <1>10
    <3>3. \A l \in D : On[l] = O[l] \/ On[l] = I[l]
      BY <1>10, <1>11
    <3> QED BY <2>1, <3>1, <3>2, <3>3, <1>12, <1>14
  <2> QED BY <2>1, <1>1, <1>2, <1>9 DEF MovedLater, Rest, Free
<1>18. Promised'
  <2>1. PICK b : b = bound
    OBVIOUS
  <2>2. \A k \in D : Source(b[k])' = Source(b[k]) /\ U[k].input = b[k].input
    BY <1>1, <1>2, <1>3, <2>1 DEF Source, WholeSources, Promised, caseVars
  <2>3. \A k \in D : Outcome(U[k], k)' = Outcome(U[k], k)
    BY <1>1, OutcomesStay
  <2> QED BY <2>1, <2>2, <2>3, <1>1, <1>2, <1>3 DEF Promised
<1> QED BY <1>15, <1>16, <1>17, <1>18

LEMMA BatchStays == ASSUME HostBatch, UNCHANGED vars PROVE HostBatch'
<1>1. /\ UNCHANGED <<base, rows, cols, nodes, device, st, at, replica, mem, bound, pc, i, updates, heldNext>>
  BY DEF vars, caseVars, viewVars, batchVars
<1>2. \A t : Size(t)' = Size(t) /\ (\A x : Addr(t, x)' = Addr(t, x)) /\ HostCells(t)' = HostCells(t)
  BY <1>1 DEF Size, Addr, HostCells
<1>3. PICK U : U = updates
  OBVIOUS
<1>4. \A t, v : Free(t, v)' <=> Free(t, v)
  BY <1>2 DEF Free
<1>5. \A t : Value(t)' = Value(t)
  BY <1>1, <1>2 DEF Value
<1>6. \A u : New(u)' = New(u)
  <2>1. \A t, a, n : Updated(t, a, n)' = Updated(t, a, n)
    BY <1>1, <1>2 DEF Updated
  <2>2. \A u : (IF u.snapshot THEN u.copy ELSE Value(u.output))' = IF u.snapshot THEN u.copy ELSE Value(u.output)
    BY <1>5
  <2> QED BY <2>1, <2>2 DEF New
<1>7. (Distinct => Distinct') /\ (ReadLater => ReadLater') /\ (MovedLater => MovedLater')
  BY <1>1, <1>3, <1>4 DEF Distinct, ReadLater, MovedLater, Rest
<1>8. Promised => Promised'
  <2>1. PICK b : b = bound
    OBVIOUS
  <2>2. \A k : Source(b[k])' = Source(b[k])
    BY <1>1 DEF Source, WholeSources
  <2> QED BY <2>1, <2>2, <1>1, <1>3, <1>5, <1>6 DEF Promised, Outcome
<1> QED BY <1>1, <1>7, <1>8 DEF HostBatch

LEMMA BatchPreserved == SessionTypes /\ HostBatch /\ [Next]_vars => HostBatch'
<1> SUFFICES ASSUME SessionTypes, HostBatch, [Next]_vars PROVE HostBatch'
  OBVIOUS
<1>1. CASE UNCHANGED vars
  BY <1>1, BatchStays
<1>2. CASE Advance
  BY <1>2, BatchBegins
<1>3. CASE Apply
  BY <1>3, BatchContinues
<1>4. CASE \E k \in DOMAIN binds : Bind(k)
  BY <1>4 DEF Bind, HostBatch
<1>5. CASE Fail \/ EndAdvance
  BY <1>5 DEF Fail, EndAdvance, EndBatch, HostBatch
<1>6. CASE Run \/ EndRun
  BY <1>6 DEF Run, EndRun, HostBatch
<1>7. CASE Node \/ DeviceNode
  BY <1>7 DEF Node, DeviceNode, Running, NextNode, HostBatch
<1>8. CASE Reset \/ (\E t \in States : BindInput(t)) \/ (\E t, u \in Tensors : Rebind(t, u))
  BY <1>8 DEF Reset, BindInput, Rebind, Call, HostBatch
<1> QED BY <1>1, <1>2, <1>3, <1>4, <1>5, <1>6, <1>7, <1>8 DEF Next

-------------------------------------------------------------------------------
(* The same on a device.  Blocks are apart from each other and from host memory. *)
MemoryApart ==
  device => \A t, u \in Tensors, b \in Blocks :
    /\ HostCells(t) \cap CellsAt(base[b], Size(u)) = {}
    /\ \A d \in Blocks \ {b} : CellsAt(base[d], Size(t)) \cap CellsAt(base[b], Size(u)) = {}

LEMMA ApartInitially == Init => MemoryApart
<1> SUFFICES ASSUME Init, device, NEW t \in Tensors, NEW u \in Tensors, NEW b \in Blocks
             PROVE  /\ HostCells(t) \cap CellsAt(base[b], Size(u)) = {}
                    /\ \A d \in Blocks \ {b} : CellsAt(base[d], Size(t)) \cap CellsAt(base[b], Size(u)) = {}
  BY DEF MemoryApart
<1>1. PICK c \in Cases :
        /\ base = c.base /\ rows = c.rows /\ cols = c.cols /\ device = c.device
        /\ st = [x \in Tensors |-> c.view[x][1]] /\ at = [x \in Tensors |-> c.view[x][2]]
  BY DEF Init
<1>2. HostCells(t) = CellsAt(c.base[c.view[t][1]] + c.view[t][2], c.rows[t] * c.cols[t])
  BY <1>1 DEF HostCells, CellsAt, Size
<1>3. Size(t) = c.rows[t] * c.cols[t] /\ Size(u) = c.rows[u] * c.cols[u]
  BY <1>1 DEF Size
<1>4. PICK B : B = CellsAt(c.base[b], c.rows[u] * c.cols[u])
  OBVIOUS
<1>5. /\ CellsAt(c.base[c.view[t][1]] + c.view[t][2], c.rows[t] * c.cols[t]) \cap B = {}
      /\ \A d \in Blocks \ {b} : CellsAt(c.base[d], c.rows[t] * c.cols[t]) \cap B = {}
  BY <1>1, <1>4, SessionAssumption
<1> QED BY <1>1, <1>2, <1>3, <1>4, <1>5

LEMMA ViewsStay ==
  ASSUME [Next]_vars
  PROVE  UNCHANGED caseVars /\ (UNCHANGED viewVars \/ ~device \/ \E t, u \in Tensors : Rebind(t, u))
<1>1. CASE UNCHANGED vars
  BY <1>1 DEF vars
<1>2. CASE \E k \in DOMAIN binds : Bind(k)
  BY <1>2 DEF Bind
<1>3. CASE Advance \/ Fail \/ EndAdvance \/ Run \/ EndRun
  BY <1>3 DEF Advance, Fail, EndAdvance, EndBatch, Run, EndRun
<1>4. CASE Apply
  BY <1>4 DEF Apply, DeviceUpdate
<1>5. CASE Node \/ DeviceNode
  BY <1>5 DEF Node, DeviceNode, NextNode
<1>6. CASE Reset \/ \E t \in States : BindInput(t)
  BY <1>6 DEF Reset, BindInput, Call
<1>7. CASE \E t, u \in Tensors : Rebind(t, u)
  BY <1>7 DEF Rebind, Call
<1> QED BY <1>1, <1>2, <1>3, <1>4, <1>5, <1>6, <1>7 DEF Next

LEMMA ApartPreserved == ASSUME SessionTypes, MemoryApart, [Next]_vars PROVE MemoryApart'
<1>1. UNCHANGED <<base, rows, cols, device>> /\ \A t : Size(t)' = Size(t)
  BY ViewsStay DEF caseVars, Size
<1> SUFFICES ASSUME device PROVE MemoryApart'
  BY <1>1 DEF MemoryApart
<1>2. \A t \in Tensors : \E u \in Tensors : HostCells(t)' = HostCells(u)
  <2>1. CASE UNCHANGED viewVars
    BY <1>1, <2>1 DEF HostCells, viewVars
  <2>2. CASE \E t, u \in Tensors : Rebind(t, u)
    <3>1. PICK t \in Tensors, u \in Tensors : Rebind(t, u)
      BY <2>2
    <3>2. st' = [st EXCEPT ![t] = st[u]] /\ at' = [at EXCEPT ![t] = at[u]] /\ Size(t) = Size(u)
      BY <3>1 DEF Rebind, Size
    <3>3. st \in [Tensors -> DOMAIN base] /\ at \in [Tensors -> Nat]
      BY DEF SessionTypes, ViewTypes
    <3>4. HostCells(t)' = HostCells(u)
      BY <1>1, <3>2, <3>3 DEF HostCells
    <3>5. \A x \in Tensors \ {t} : HostCells(x)' = HostCells(x)
      BY <1>1, <3>2, <3>3 DEF HostCells
    <3> QED BY <3>4, <3>5
  <2> QED BY <2>1, <2>2, ViewsStay
<1>3. \A p, n : CellsAt(p, n)' = CellsAt(p, n)
  BY DEF CellsAt
<1> QED BY <1>1, <1>2, <1>3 DEF MemoryApart

(* Neither place of a tensor, host or block, has a cell of the other's. *)
Sole(t, u) ==
  HostCells(t) = {} \/ HostCells(u) = {} \/ replica[t].block = NoBlock \/ replica[t].block # replica[u].block
Clear(t, u) == Free(t, u) /\ Sole(t, u)

LEMMA MeetOrClear == \A t, u : ~Meet(t, u) => Clear(t, u)
  BY DEF Meet, Clear, Free, Sole

Place(t) == IF replica[t].valid THEN base[replica[t].block] ELSE base[st[t]] + at[t]
LEMMA PlaceTyped ==
  ASSUME SessionTypes
  PROVE  \A t \in Tensors :
           /\ Place(t) \in Int /\ Size(t) \in Nat /\ Value(t) = ValueAt(mem, Place(t), Size(t))
           /\ HostCells(t) = CellsAt(base[st[t]] + at[t], Size(t)) /\ base[st[t]] + at[t] \in Int
           /\ replica[t].valid => device /\ replica[t].block \in Blocks
           /\ device => \A b \in Blocks : base[b] \in Int /\ CellsAt(base[b], Size(t)) \subseteq DOMAIN mem
           /\ HostCells(t) = {} <=> Size(t) = 0
<1> TAKE t \in Tensors
<1>1. Size(t) \in Nat /\ base[st[t]] + at[t] \in Int
  BY DEF SessionTypes, CaseTypes, ViewTypes, Size
<1>2. device => \A b \in Blocks : base[b] \in Int /\ CellsAt(base[b], Size(t)) \subseteq DOMAIN mem
  BY DEF SessionTypes, CaseTypes, BlockTypes, CellsAt
<1>3. replica[t].valid => device /\ replica[t].block \in Blocks
  BY DEF SessionTypes, ReplicaTypes, Replicas, Replica
<1>4. Place(t) \in Int
  BY <1>1, <1>2, <1>3 DEF Place
<1>5. Value(t) = ValueAt(mem, Place(t), Size(t))
  BY DEF Value, ValueAt, Addr, Place
<1>6. HostCells(t) = CellsAt(base[st[t]] + at[t], Size(t))
  BY DEF HostCells, CellsAt
<1>7. Size(t) = 0 => HostCells(t) = {}
  <2>1. Size(t) = 0 => 0..(Size(t) - 1) = {}
    OBVIOUS
  <2> QED BY <2>1 DEF HostCells
<1>8. HostCells(t) = {} => Size(t) = 0
  BY <1>1, <1>6, WithoutCells
<1> QED BY <1>1, <1>2, <1>3, <1>4, <1>5, <1>6, <1>7, <1>8

(* A write to a place changes only the cells of the place. *)
LEMMA FillElsewhere ==
  ASSUME NEW m, NEW p \in Int, NEW n \in Nat, NEW v, v = [x \in 0..(n - 1) |-> v[x]], NEW q \in Int, NEW l \in Nat
  PROVE  /\ CellsAt(p, n) \subseteq DOMAIN m => ValueAt(Fill(m, p, v), p, n) = v
         /\ CellsAt(q, l) \subseteq DOMAIN m /\ CellsAt(q, l) \cap CellsAt(p, n) = {} =>
              ValueAt(Fill(m, p, v), q, l) = ValueAt(m, q, l)
<1>1. Fill(m, p, v) = [a \in DOMAIN m |-> IF a - p \in 0..(n - 1) THEN v[a - p] ELSE m[a]]
  BY DEF Fill
<1>2. ASSUME CellsAt(p, n) \subseteq DOMAIN m PROVE ValueAt(Fill(m, p, v), p, n) = v
  <2>1. \A x \in 0..(n - 1) : p + x \in DOMAIN m /\ (p + x) - p = x
    BY <1>2 DEF CellsAt
  <2>2. \A x \in 0..(n - 1) : Fill(m, p, v)[p + x] = v[x]
    BY <1>1, <2>1
  <2> QED BY <2>2 DEF ValueAt
<1>3. ASSUME CellsAt(q, l) \subseteq DOMAIN m, CellsAt(q, l) \cap CellsAt(p, n) = {}
      PROVE  ValueAt(Fill(m, p, v), q, l) = ValueAt(m, q, l)
  <2>1. \A x \in 0..(l - 1) : Fill(m, p, v)[q + x] = m[q + x]
    <3> TAKE x \in 0..(l - 1)
    <3>1. q + x \in DOMAIN m /\ q + x \in CellsAt(q, l)
      BY <1>3 DEF CellsAt
    <3>2. (q + x) - p \notin 0..(n - 1)
      <4> SUFFICES ASSUME NEW y \in 0..(n - 1), (q + x) - p = y PROVE FALSE
        OBVIOUS
      <4>1. q + x = p + y
        OBVIOUS
      <4>2. p + y \in CellsAt(p, n)
        BY DEF CellsAt
      <4> QED BY <4>1, <4>2, <3>1, <1>3
    <3> QED BY <3>1, <3>2, <1>1
  <2> QED BY <2>1 DEF ValueAt
<1> QED BY <1>2, <1>3

(* Bringing a tensor to the device, and writing it there, changes nobody clear of it. *)
LEMMA CopyOnDevice ==
  ASSUME SessionTypes, MemoryApart, device, NEW s \in Tensors, NEW v, v = [x \in 0..(Size(s) - 1) |-> v[x]],
         UNCHANGED <<caseVars, viewVars>>, replica' = OnDevice(s), mem' = Fill(mem, base[OnDevice(s)[s].block], v)
  PROVE  /\ Value(s)' = v
         /\ \A t \in Tensors : Clear(t, s) =>
              Value(t)' = Value(t) /\ \A u \in Tensors : Clear(t, u) => Clear(t, u)'
<1>1. PICK r : r = Latest(replica, s)
  OBVIOUS
<1>2. PICK b : b = r.block
  OBVIOUS
<1>3. Replicas(replica) /\ CaseTypes /\ replica \in [Tensors -> Replica]
  BY DEF SessionTypes, ReplicaTypes, Replicas
<1>4. r \in Replica /\ r.valid /\ b \in Blocks /\ b # NoBlock
  BY <1>1, <1>2, <1>3, LatestTyped, SessionAssumption
<1>5. /\ replica[s].block # NoBlock => b = replica[s].block
      /\ replica[s].block = NoBlock => \A u \in Tensors : replica[u].block # b
  <2>1. CASE replica[s].block # NoBlock
    BY <2>1, <1>1, <1>2 DEF Latest
  <2>2. CASE replica[s].block = NoBlock
    <3>1. PICK c : c = CHOOSE x \in Blocks : \A u \in Tensors : replica[u].block # x
      OBVIOUS
    <3>2. \A u \in Tensors : replica[u].block # c
      BY <3>1, <2>2, <1>3, BlockFree
    <3>3. r = [block |-> c, valid |-> TRUE]
      BY <3>1, <2>2, <1>1 DEF Latest
    <3> QED BY <3>2, <3>3, <1>2, <2>2
  <2> QED BY <2>1, <2>2
<1>6. \A t \in Tensors : replica'[t] = IF SameView(t, s) THEN r ELSE replica[t]
  BY <1>1 DEF OnDevice, With
<1>7. SameView(s, s) /\ OnDevice(s)[s] = r
  BY <1>1 DEF SameView, OnDevice, With
<1>8. mem' = Fill(mem, base[b], v)
  BY <1>2, <1>7
<1>9. \A t : Size(t)' = Size(t) /\ HostCells(t)' = HostCells(t)
  BY DEF Size, HostCells, caseVars, viewVars
<1>10. UNCHANGED <<base, st, at>>
  BY DEF caseVars, viewVars
<1>11. \A t \in Tensors : Value(t)' = ValueAt(mem', Place(t)', Size(t))
  BY <1>9 DEF Value, ValueAt, Addr, Place
<1>12. Place(s)' = base[b] /\ base[b] \in Int /\ Size(s) \in Nat /\ CellsAt(base[b], Size(s)) \subseteq DOMAIN mem
  <2>1. replica'[s] = r
    BY <1>6, <1>7
  <2> QED BY <2>1, <1>2, <1>4, <1>10, PlaceTyped DEF Place
<1>13. Value(s)' = v
  BY <1>8, <1>11, <1>12, FillElsewhere
<1>14. ASSUME NEW t \in Tensors, HostCells(t) = {}
       PROVE  Value(t)' = Value(t) /\ \A u \in Tensors : Clear(t, u)'
  <2>1. Size(t) = 0 /\ 0..(Size(t) - 1) = {}
    BY <1>14, PlaceTyped
  <2>2. Value(t)' = Value(t)
    BY <2>1, <1>9 DEF Value
  <2> QED BY <2>2, <1>9, <1>14 DEF Clear, Free, Sole
<1>15. ASSUME NEW t \in Tensors, HostCells(t) # {}, Clear(t, s)
       PROVE  Value(t)' = Value(t) /\ \A u \in Tensors : Clear(t, u) => Clear(t, u)'
  <2>1. ~SameView(t, s)
    <3>1. SameView(t, s) => HostCells(t) = HostCells(s)
      BY DEF SameView, HostCells
    <3> QED BY <3>1, <1>15 DEF Clear, Free
  <2>2. replica'[t] = replica[t] /\ Place(t)' = Place(t)
    BY <2>1, <1>6, <1>10 DEF Place
  <2>3. HostCells(s) # {} => replica[t].block # b
    BY <1>4, <1>5, <1>15 DEF Clear, Sole
  <2>4. Value(t)' = Value(t)
    <3>1. PICK p : p = Place(t)
      OBVIOUS
    <3>2. CellsAt(p, Size(t)) \subseteq DOMAIN mem
      BY <3>1 DEF SessionTypes, ViewTypes, BlockTypes, CellsAt, Place, ReplicaTypes, Replicas, Replica
    <3>3. CellsAt(p, Size(t)) \cap CellsAt(base[b], Size(s)) = {}
      <4>1. CASE HostCells(s) = {}
        <5>1. 0..(Size(s) - 1) = {}
          BY <4>1, PlaceTyped
        <5> QED BY <5>1 DEF CellsAt
      <4>2. CASE HostCells(s) # {} /\ replica[t].valid
        <5>1. p = base[replica[t].block] /\ replica[t].block \in Blocks /\ replica[t].block # b
          BY <4>2, <3>1, <2>3, PlaceTyped DEF Place
        <5> QED BY <5>1, <1>4 DEF MemoryApart
      <4>3. CASE ~replica[t].valid
        <5>1. CellsAt(p, Size(t)) = HostCells(t)
          BY <4>3, <3>1, PlaceTyped DEF Place
        <5> QED BY <5>1, <1>4 DEF MemoryApart
      <4> QED BY <4>1, <4>2, <4>3
    <3>4. p \in Int /\ Size(t) \in Nat /\ Value(t) = ValueAt(mem, p, Size(t))
      BY <3>1, PlaceTyped
    <3>5. ValueAt(Fill(mem, base[b], v), p, Size(t)) = ValueAt(mem, p, Size(t))
      <4>1. PICK a, n, l : a = base[b] /\ n = Size(s) /\ l = Size(t)
        OBVIOUS
      <4>2. a \in Int /\ n \in Nat /\ l \in Nat /\ v = [x \in 0..(n - 1) |-> v[x]]
        BY <3>4, <4>1, <1>12
      <4>3. CellsAt(p, l) \subseteq DOMAIN mem /\ CellsAt(p, l) \cap CellsAt(a, n) = {}
        BY <3>2, <3>3, <4>1
      <4>4. ValueAt(Fill(mem, a, v), p, l) = ValueAt(mem, p, l)
        BY <3>4, <4>2, <4>3, FillElsewhere
      <4> QED BY <4>1, <4>4
    <3> QED BY <3>1, <3>4, <3>5, <2>2, <1>8, <1>11
  <2>5. ASSUME NEW u \in Tensors, Clear(t, u) PROVE Clear(t, u)'
    <3>1. Free(t, u)'
      BY <2>5, <1>9 DEF Clear, Free
    <3>2. CASE ~SameView(u, s)
      BY <3>1, <3>2, <2>2, <2>5, <1>6, <1>9 DEF Clear, Sole
    <3>3. CASE SameView(u, s)
      <4>1. HostCells(u) = HostCells(s) /\ replica'[u].block = b
        BY <3>3, <1>2, <1>6 DEF SameView, HostCells
      <4> QED BY <3>1, <4>1, <2>2, <2>3, <1>9 DEF Clear, Sole
    <3> QED BY <3>2, <3>3
  <2> QED BY <2>4, <2>5
<1> QED BY <1>13, <1>14, <1>15

(* An exchange of blocks moves two tensors, and changes nobody clear of both. *)
LEMMA SwapOnDevice ==
  ASSUME SessionTypes, NEW s \in Tensors, NEW o \in Tensors, ~SameView(s, o), Size(s) = Size(o),
         replica[s].valid, replica[o].valid,
         UNCHANGED <<caseVars, viewVars, mem>>, replica' = With(With(replica, s, replica[o]), o, replica[s])
  PROVE  /\ Value(s)' = Value(o)
         /\ \A t \in Tensors : Clear(t, s) /\ Clear(t, o) =>
              Value(t)' = Value(t) /\ \A u \in Tensors : Clear(t, u) => Clear(t, u)'
<1>1. PICK r, q : r = replica[s] /\ q = replica[o]
  OBVIOUS
<1>2. \A t \in Tensors : replica'[t] = IF SameView(t, o) THEN r ELSE IF SameView(t, s) THEN q ELSE replica[t]
  BY <1>1 DEF With
<1>3. SameView(s, s) /\ r.valid /\ q.valid
  BY <1>1 DEF SameView
<1>4. UNCHANGED <<base, st, at>> /\ \A t : Size(t)' = Size(t) /\ HostCells(t)' = HostCells(t)
  BY DEF Size, HostCells, caseVars, viewVars
<1>5. \A t \in Tensors : Value(t) = ValueAt(mem, Place(t), Size(t)) /\ Value(t)' = ValueAt(mem, Place(t)', Size(t))
  BY <1>4 DEF Value, ValueAt, Addr, Place
<1>6. Value(s)' = Value(o)
  <2>1. replica'[s] = q
    BY <1>2, <1>3
  <2>2. Place(s)' = base[q.block] /\ Place(o) = base[q.block]
    BY <2>1, <1>1, <1>3, <1>4 DEF Place
  <2> QED BY <2>2, <1>5
<1>7. ASSUME NEW t \in Tensors, HostCells(t) = {}
      PROVE  Value(t)' = Value(t) /\ \A u \in Tensors : Clear(t, u)'
  <2>1. Size(t) = 0 /\ 0..(Size(t) - 1) = {}
    BY <1>7, PlaceTyped
  <2>2. Value(t)' = Value(t)
    BY <2>1, <1>4 DEF Value
  <2> QED BY <2>2, <1>4, <1>7 DEF Clear, Free, Sole
<1>8. ASSUME NEW t \in Tensors, HostCells(t) # {}, Clear(t, s), Clear(t, o)
      PROVE  Value(t)' = Value(t) /\ \A u \in Tensors : Clear(t, u) => Clear(t, u)'
  <2>1. \A u : SameView(u, s) => HostCells(u) = HostCells(s)
    BY DEF SameView, HostCells
  <2>2. \A u : SameView(u, o) => HostCells(u) = HostCells(o)
    BY DEF SameView, HostCells
  <2>3. replica'[t] = replica[t]
    <3>1. ~SameView(t, s) /\ ~SameView(t, o)
      BY <2>1, <2>2, <1>8 DEF Clear, Free
    <3> QED BY <3>1, <1>2
  <2>4. Value(t)' = Value(t)
    BY <2>3, <1>4, <1>5 DEF Place
  <2>5. HostCells(s) = {} <=> HostCells(o) = {}
    BY PlaceTyped
  <2>6. ASSUME NEW u \in Tensors, Clear(t, u) PROVE Clear(t, u)'
    <3>1. Free(t, u)'
      BY <2>6, <1>4 DEF Clear, Free
    <3>2. CASE SameView(u, o)
      <4>1. HostCells(u) = HostCells(o) /\ replica'[u] = r
        BY <3>2, <2>2, <1>2
      <4> QED BY <3>1, <4>1, <2>3, <2>5, <1>1, <1>4, <1>8 DEF Clear, Sole
    <3>3. CASE ~SameView(u, o) /\ SameView(u, s)
      <4>1. HostCells(u) = HostCells(s) /\ replica'[u] = q
        BY <3>3, <2>1, <1>2
      <4> QED BY <3>1, <4>1, <2>3, <2>5, <1>1, <1>4, <1>8 DEF Clear, Sole
    <3>4. CASE ~SameView(u, o) /\ ~SameView(u, s)
      <4>1. replica'[u] = replica[u]
        BY <3>4, <1>2
      <4> QED BY <3>1, <4>1, <2>3, <2>6, <1>4 DEF Clear, Sole
    <3> QED BY <3>2, <3>3, <3>4
  <2> QED BY <2>4, <2>6
<1> QED BY <1>6, <1>7, <1>8

(* The batch on a device: a state that is its own output stays as it is; an update that does
   something is clear of all others, and of its own state if it appends. *)
Separate == \A k \in DOMAIN updates : \A l \in Rest(k) : Clear(updates[k].input, updates[l].input)
ReadOnDevice ==
  \A k \in DOMAIN updates : k >= i /\ ~Nothing(updates[k]) =>
    /\ ~updates[k].snapshot
    /\ updates[k].append => Clear(updates[k].output, updates[k].input)
    /\ \A l \in Rest(k) : Clear(updates[k].output, updates[l].input) /\ Clear(updates[k].output, updates[l].output)
(* An update not yet made finds its state as it was, so a failure leaves it so. *)
Kept ==
  \A k \in DOMAIN updates : k >= i =>
    /\ Value(updates[k].input) = held[updates[k].input]
    /\ Nothing(updates[k]) => New(updates[k]) = Value(updates[k].input)
DeviceBatch == pc = "apply" /\ device => Separate /\ ReadOnDevice /\ Promised /\ Kept

LEMMA SameViewSameValue ==
  ASSUME SessionTypes, NEW t \in Tensors, NEW u \in Tensors, SameView(t, u)
  PROVE  Value(t) = Value(u)
<1>1. replica[t] = replica[u] /\ st[t] = st[u] /\ at[t] = at[u] /\ Size(t) = Size(u)
  BY DEF SessionTypes, ReplicaTypes, Replicas, SameView
<1>2. \A x : Addr(t, x) = Addr(u, x)
  BY <1>1 DEF Addr
<1> QED BY <1>1, <1>2 DEF Value

LEMMA NewInPlace ==
  ASSUME SessionTypes, NEW u, u.input \in Tensors, u.output \in Tensors, Nothing(u), Size(u.input) = Size(u.output),
         ~u.snapshot \/ u.copy = Value(u.output)
  PROVE  New(u) = Value(u.input)
<1>1. ~u.append /\ SameView(u.input, u.output)
  BY DEF Nothing, InPlace, SameView
<1>2. Value(u.input) = Value(u.output)
  BY <1>1, SameViewSameValue
<1>3. New(u) = [x \in 0..(Size(u.input) - 1) |-> Value(u.input)[x]]
  BY <1>1, <1>2 DEF New, Updated
<1> QED BY <1>3 DEF Value

LEMMA ClearBoth == \A t, u : (Clear(t, u) <=> Clear(u, t)) /\ (Clear(t, u)' <=> Clear(u, t)')
  BY DEF Clear, Free, Sole

LEMMA DeviceBegins == ASSUME SessionTypes, Advance PROVE DeviceBatch'
<1>1. PICK D, U : D = DOMAIN bound /\ U = updates'
  OBVIOUS
<1>2. BatchBegun(D, U) /\ ~Refused /\ updates' = U /\ held' = Contents
  BY <1>1, AdvanceUpdates DEF Advance
<1> SUFFICES ASSUME device PROVE Separate' /\ ReadOnDevice' /\ Kept'
  BY <1>2, BatchPromised DEF DeviceBatch, BatchBegun, caseVars
<1> USE DEF BatchBegun
<1>3. (\A t, u : Clear(t, u)' <=> Clear(t, u)) /\ \A u : Nothing(u)' <=> Nothing(u)
  <2>1. replica' = replica /\ st' = st /\ at' = at
    BY <1>2 DEF viewVars
  <2> QED BY <1>2, <2>1 DEF Clear, Sole, Nothing, InPlace
<1>4. \A k, l \in D : /\ ~Meet(Input(k), Input(l)) => Clear(U[k].input, U[l].input)
                      /\ ~Meet(Output(k), Input(l)) => Clear(U[k].output, U[l].input)
                      /\ ~Meet(Output(k), Output(l)) => Clear(U[k].output, U[l].output)
  BY <1>1, <1>2, MeetOrClear
<1>5. \A k \in D : ~Nothing(U[k]) => ~Snapshot(k)
  BY <1>1, <1>2 DEF Nothing, Refused
<1>6. Separate'
  <2>1. \A k \in D : \A l \in D \ {k} : Clear(U[k].input, U[l].input)
    BY <1>1, <1>2, <1>4 DEF Refused, Others
  <2> QED BY <1>1, <1>2, <1>3, <2>1 DEF Separate, Rest
<1>7. ReadOnDevice'
  <2>1. \A k \in D : ~Snapshot(k) => \A l \in D \ {k} : Clear(U[k].output, U[l].input) /\ Clear(U[k].output, U[l].output)
    BY <1>1, <1>2, <1>4 DEF Snapshot, Others
  <2>2. \A k \in D : ~Snapshot(k) /\ U[k].append => Clear(U[k].output, U[k].input)
    BY <1>1, <1>2, <1>4 DEF Snapshot
  <2>3. \A k \in D : ~Nothing(U[k]) => ~U[k].snapshot
    BY <1>2, <1>5
  <2> QED BY <1>1, <1>2, <1>3, <1>5, <2>1, <2>2, <2>3 DEF ReadOnDevice, Rest
<1>8. Kept'
  <2>1. ASSUME NEW k \in D PROVE Value(U[k].input)' = held'[U[k].input]
    BY <2>1, <1>2 DEF Contents
  <2>2. ASSUME NEW k \in D, Nothing(U[k]) PROVE New(U[k])' = Value(U[k].input)'
    <3>1. PICK u : u = U[k]
      OBVIOUS
    <3>2. u.input \in Tensors /\ u.output \in Tensors /\ (~u.snapshot \/ u.copy = Value(u.output)) /\ Nothing(u)
      BY <2>2, <3>1, <1>2
    <3>3. Size(u.input) = Size(u.output)
      <4>1. Valid(bound[k], Output(k)) /\ ~u.append /\ bound[k].append = u.append /\ Input(k) = bound[k].input
        BY <1>1, <1>2, <3>1, <3>2 DEF Refused, Nothing, InPlace, Input
      <4> QED BY <4>1, <3>1, <1>2 DEF Valid, Size, Input
    <3>4. New(u) = Value(u.input)
      BY <3>2, <3>3, NewInPlace
    <3>5. New(u)' = New(u)
      BY <3>2, <1>2, SameNew, AdvanceTypes
    <3> QED BY <3>1, <3>4, <3>5, <1>2
  <2> QED BY <1>1, <1>2, <1>3, <2>1, <2>2 DEF Kept
<1> QED BY <1>6, <1>7, <1>8

(* What an update leaves alone: everything if it has nothing to do, else all that is clear of its
   two tensors. *)
Undisturbed(t) == Value(t)' = Value(t) /\ \A w \in Tensors : Clear(t, w) => Clear(t, w)'
DeviceMoved(u) ==
  /\ Value(u.input)' = New(u)
  /\ \A t \in Tensors : Nothing(u) \/ (Clear(t, u.input) /\ Clear(t, u.output)) => Undisturbed(t)

LEMMA DeviceMoves ==
  ASSUME SessionTypes, MemoryApart, DeviceBatch, device, Apply, NEW u, u = updates[i]
  PROVE  DeviceMoved(u)
<1>1. pc = "apply" /\ i \in DOMAIN updates /\ UNCHANGED <<caseVars, viewVars>>
  BY DEF Apply, Applying, DeviceUpdate
<1>2. /\ u.input \in Tensors /\ u.output \in Tensors /\ u.append \in BOOLEAN /\ u.stable \in BOOLEAN
      /\ ~u.append => Size(u.input) = Size(u.output)
  BY <1>1 DEF SessionTypes, BatchTypes, Size
<1>3. i \in Nat /\ i >= i /\ ReadOnDevice /\ Kept
  BY <1>1 DEF SessionTypes, CountTypes, DeviceBatch
<1>4. CASE UNCHANGED <<replica, mem>> /\ Nothing(u)
  <2>1. (\A t : Value(t)' = Value(t)) /\ (\A t, w : Clear(t, w)' <=> Clear(t, w))
    BY <1>1, <1>4 DEF Value, Addr, Size, Clear, Free, Sole, HostCells, caseVars, viewVars
  <2>2. New(u) = Value(u.input)
    BY <1>1, <1>3, <1>4 DEF Kept
  <2> QED BY <2>1, <2>2 DEF DeviceMoved, Undisturbed
<1>5. CASE DeviceUpdate(u) /\ ~Nothing(u) /\ Copied(u)
  <2>1. ~u.snapshot
    BY <1>1, <1>3, <1>5 DEF ReadOnDevice
  <2>2. PICK v : v = New(u)
    OBVIOUS
  <2>3. v = Updated(u.input, u.append, Value(u.output)) /\ v = [x \in 0..(Size(u.input) - 1) |-> v[x]]
    BY <2>1, <2>2 DEF New, Updated
  <2>4. replica' = OnDevice(u.input) /\ mem' = Fill(mem, base[OnDevice(u.input)[u.input].block], v)
    BY <1>5, <2>3 DEF DeviceUpdate
  <2>5. /\ Value(u.input)' = v
        /\ \A t \in Tensors : Clear(t, u.input) => Undisturbed(t)
    BY <1>1, <1>2, <2>3, <2>4, CopyOnDevice DEF Undisturbed
  <2> QED BY <1>5, <2>2, <2>5 DEF DeviceMoved
<1>6. CASE DeviceUpdate(u) /\ ~Nothing(u) /\ ~Copied(u)
  <2>1. ~u.snapshot /\ ~u.append
    BY <1>1, <1>3, <1>6 DEF ReadOnDevice, Copied
  <2>2. ~SameView(u.input, u.output)
    BY <1>6, <2>1 DEF Nothing, InPlace, SameView
  <2>3. /\ replica[u.input].valid /\ replica[u.output].valid /\ UNCHANGED mem
        /\ replica' = With(With(replica, u.input, replica[u.output]), u.output, replica[u.input])
    BY <1>6 DEF DeviceUpdate, Ready
  <2>4. /\ Value(u.input)' = Value(u.output)
        /\ \A t \in Tensors : Clear(t, u.input) /\ Clear(t, u.output) => Undisturbed(t)
    BY <1>1, <1>2, <2>1, <2>2, <2>3, SwapOnDevice DEF Undisturbed
  <2>5. New(u) = Value(u.output)
    <3>1. New(u) = [x \in 0..(Size(u.output) - 1) |-> Value(u.output)[x]]
      BY <1>2, <2>1 DEF New, Updated
    <3> QED BY <3>1 DEF Value
  <2> QED BY <1>6, <2>4, <2>5 DEF DeviceMoved
<1>7. \/ UNCHANGED <<replica, mem>> /\ Nothing(u)
      \/ DeviceUpdate(u) /\ ~Nothing(u)
  <2>1. \/ UNCHANGED <<replica, mem>> /\ Nothing(updates[i])
        \/ DeviceUpdate(updates[i]) /\ ~Nothing(updates[i])
    BY DEF Apply
  <2> QED BY <2>1 DEF DeviceUpdate, Ready, Copied
<1> QED BY <1>4, <1>5, <1>6, <1>7

LEMMA SameViewLater ==
  ASSUME SessionTypes', NEW t \in Tensors, NEW u \in Tensors, SameView(t, u)'
  PROVE  Value(t)' = Value(u)'
<1>1. replica'[t] = replica'[u] /\ st'[t] = st'[u] /\ at'[t] = at'[u] /\ Size(t)' = Size(u)'
  BY DEF SessionTypes, ReplicaTypes, Replicas, SameView
<1>2. \A x : Addr(t, x)' = Addr(u, x)'
  BY <1>1 DEF Addr
<1> QED BY <1>1, <1>2 DEF Value

LEMMA DeviceContinues == ASSUME SessionTypes, MemoryApart, DeviceBatch, Apply PROVE DeviceBatch'
<1> SUFFICES ASSUME device PROVE Separate' /\ ReadOnDevice' /\ Promised' /\ Kept'
  BY DEF DeviceBatch, Apply, caseVars
<1>1. PICK U, D, j : U = updates /\ D = DOMAIN U /\ j = i
  OBVIOUS
<1>2. /\ UNCHANGED <<caseVars, viewVars, bound, held, heldNext>> /\ pc = "apply"
      /\ j \in D /\ updates' = U /\ i' = j + 1
  BY <1>1 DEF Apply, Applying, DeviceUpdate, batchVars
<1>3. Separate /\ ReadOnDevice /\ Promised /\ Kept /\ j \in Nat /\ D = DOMAIN bound /\ D \subseteq Nat
  <2>1. Separate /\ ReadOnDevice /\ Promised /\ Kept /\ D = DOMAIN bound
    BY <1>1, <1>2 DEF DeviceBatch, Promised
  <2>2. j \in Nat /\ DOMAIN bound = 1..Len(bound) /\ Len(bound) \in Nat
    BY <1>1 DEF SessionTypes, CountTypes, BatchTypes
  <2> QED BY <2>1, <2>2
<1>4. SessionTypes'
  BY ApplyTypes
<1>5. \A k \in D : (k < j + 1 <=> k < j \/ k = j) /\ (k >= j + 1 => k >= j /\ k # j) /\ (k # j => (k < j + 1 <=> k < j))
  BY <1>2, <1>3
<1>6. \A k \in D : U[k].input \in Tensors /\ U[k].output \in Tensors
  BY <1>1, <1>2 DEF SessionTypes, BatchTypes
<1>7. PICK u : u = U[j]
  OBVIOUS
<1>8. DeviceMoved(u)
  <2>1. u = updates[i]
    BY <1>1, <1>7
  <2> QED BY <2>1, DeviceMoves
<1>9. \A w : Nothing(w)' <=> Nothing(w)
  BY <1>2 DEF Nothing, InPlace, viewVars
(* All but the tensors of this update stay as they are. *)
<1>10. \A l \in D \ {j} : Undisturbed(U[l].input)
  <2> TAKE l \in D \ {j}
  <2>1. Clear(U[l].input, u.input)
    BY <1>1, <1>2, <1>3, <1>7 DEF Separate, Rest
  <2>2. ~Nothing(u) => Clear(u.output, U[l].input)
    BY <1>1, <1>2, <1>3, <1>7 DEF ReadOnDevice, Rest
  <2>3. ~Nothing(u) => Clear(U[l].input, u.output)
    BY <2>2, ClearBoth
  <2> QED BY <2>1, <2>3, <1>6, <1>8 DEF DeviceMoved
<1>11. \A l \in D \ {j} : l >= j /\ ~Nothing(U[l]) => Undisturbed(U[l].output)
  <2> SUFFICES ASSUME NEW l \in D \ {j}, l >= j, ~Nothing(U[l]) PROVE Undisturbed(U[l].output)
    OBVIOUS
  <2>1. Clear(U[l].output, u.input) /\ Clear(U[l].output, u.output)
    BY <1>1, <1>2, <1>3, <1>7 DEF ReadOnDevice, Rest
  <2> QED BY <2>1, <1>6, <1>8 DEF DeviceMoved
<1>12. Separate'
  <2>1. ASSUME NEW k \in D, NEW l \in D \ {k} PROVE Clear(U[k].input, U[l].input)'
    <3>1. PICK s, t : s = U[k].input /\ t = U[l].input
      OBVIOUS
    <3>2. Clear(s, t) /\ Clear(t, s) /\ s \in Tensors /\ t \in Tensors
      BY <3>1, <1>1, <1>3, <1>6 DEF Separate, Rest
    <3>3. Undisturbed(s) \/ Undisturbed(t)
      BY <3>1, <1>10
    <3>4. Clear(s, t)' \/ Clear(t, s)'
      BY <3>2, <3>3 DEF Undisturbed
    <3>5. Clear(s, t)'
      BY <3>4, ClearBoth
    <3> QED BY <3>1, <3>5
  <2> QED BY <2>1, <1>1, <1>2 DEF Separate, Rest
<1>13. ReadOnDevice'
  <2>1. ASSUME NEW k \in D, k >= j + 1, ~Nothing(U[k])
        PROVE  /\ ~U[k].snapshot
               /\ U[k].append => Clear(U[k].output, U[k].input)'
               /\ \A l \in D \ {k} : Clear(U[k].output, U[l].input)' /\ Clear(U[k].output, U[l].output)'
    <3>1. k >= j /\ k \in D \ {j}
      BY <2>1, <1>5
    <3>2. PICK o : o = U[k].output
      OBVIOUS
    <3>3. \A w \in Tensors : Clear(o, w) => Clear(o, w)'
      BY <3>1, <3>2, <2>1, <1>11 DEF Undisturbed
    <3>4. /\ ~U[k].snapshot
          /\ U[k].append => Clear(o, U[k].input)
          /\ \A l \in D \ {k} : Clear(o, U[l].input) /\ Clear(o, U[l].output)
      BY <3>1, <3>2, <2>1, <1>1, <1>3 DEF ReadOnDevice, Rest
    <3>5. /\ U[k].append => Clear(o, U[k].input)'
          /\ \A l \in D \ {k} : Clear(o, U[l].input)' /\ Clear(o, U[l].output)'
      BY <3>3, <3>4, <1>6
    <3> QED BY <3>2, <3>4, <3>5
  <2> QED BY <2>1, <1>1, <1>2, <1>9 DEF ReadOnDevice, Rest
<1>14. \A k \in D \ {j} : k >= j => New(U[k])' = New(U[k])
  <2> SUFFICES ASSUME NEW k \in D \ {j}, k >= j PROVE New(U[k])' = New(U[k])
    OBVIOUS
  <2>1. PICK w : w = U[k]
    OBVIOUS
  <2>2. w.input \in Tensors /\ w.output \in Tensors /\ Value(w.input)' = Value(w.input)
    BY <2>1, <1>6, <1>10 DEF Undisturbed
  <2>3. CASE w.snapshot
    BY <2>1, <2>2, <2>3, <1>2, <1>4, SameNew
  <2>4. CASE ~Nothing(w)
    <3>1. Value(w.output)' = Value(w.output)
      BY <2>1, <2>4, <1>11 DEF Undisturbed
    <3> QED BY <2>1, <2>2, <3>1, <1>2, <1>4, SameNew
  <2>5. CASE Nothing(w) /\ ~w.snapshot
    <3>1. st[w.input] = st[w.output] /\ at[w.input] = at[w.output] /\ ~w.append
      BY <2>5 DEF Nothing, InPlace
    <3>2. Size(w.input) = Size(w.output)
      BY <2>1, <3>1, <1>1, <1>2 DEF SessionTypes, BatchTypes, Size
    <3>3. SameView(w.input, w.output) /\ SameView(w.input, w.output)'
      BY <3>1, <3>2, <1>2 DEF SameView, Size, viewVars, caseVars
    <3>4. Value(w.output)' = Value(w.output)
      BY <2>2, <3>3, <1>4, SameViewSameValue, SameViewLater
    <3> QED BY <2>1, <2>2, <3>4, <1>2, <1>4, SameNew
  <2> QED BY <2>3, <2>4, <2>5
<1>15. Promised'
  <2>1. PICK b : b = bound
    OBVIOUS
  <2>2. \A k \in D : Source(b[k])' = Source(b[k]) /\ U[k].input = b[k].input
    BY <1>1, <1>2, <1>3, <2>1 DEF Source, WholeSources, Promised, caseVars
  <2>3. ASSUME NEW k \in D PROVE Outcome(U[k], k)' = Outcome(U[k], k)
    <3>1. CASE k = j
      BY <3>1, <1>1, <1>2, <1>3, <1>5, <1>7, <1>8 DEF DeviceMoved, Outcome
    <3>2. CASE k < j
      BY <3>2, <1>1, <1>2, <1>3, <1>5, <1>10 DEF Undisturbed, Outcome
    <3>3. CASE k # j /\ ~(k < j)
      <4>1. k >= j /\ ~(k < j + 1)
        BY <3>3, <1>3, <1>5
      <4> QED BY <3>3, <4>1, <1>1, <1>2, <1>14 DEF Outcome
    <3> QED BY <3>1, <3>2, <3>3
  <2> QED BY <2>1, <2>2, <2>3, <1>1, <1>2, <1>3 DEF Promised
<1>16. Kept'
  <2>1. ASSUME NEW k \in D, k >= j + 1
        PROVE  /\ Value(U[k].input)' = held'[U[k].input]
               /\ Nothing(U[k]) => New(U[k])' = Value(U[k].input)'
    <3>1. k >= j /\ k \in D \ {j}
      BY <2>1, <1>5
    <3>2. Value(U[k].input)' = Value(U[k].input) /\ New(U[k])' = New(U[k])
      BY <3>1, <1>10, <1>14 DEF Undisturbed
    <3>3. /\ Value(U[k].input) = held[U[k].input]
          /\ Nothing(U[k]) => New(U[k]) = Value(U[k].input)
      BY <3>1, <1>1, <1>3 DEF Kept
    <3> QED BY <3>2, <3>3, <1>2
  <2> QED BY <2>1, <1>1, <1>2, <1>9 DEF Kept
<1> QED BY <1>12, <1>13, <1>15, <1>16

LEMMA DeviceStays == ASSUME DeviceBatch, UNCHANGED vars PROVE DeviceBatch'
<1>1. UNCHANGED <<base, rows, cols, nodes, device, st, at, replica, mem, bound, pc, i, updates, held, heldNext>>
  BY DEF vars, caseVars, viewVars, batchVars
<1>2. \A t : Size(t)' = Size(t) /\ (\A x : Addr(t, x)' = Addr(t, x)) /\ HostCells(t)' = HostCells(t)
  BY <1>1 DEF Size, Addr, HostCells
<1>3. PICK U : U = updates
  OBVIOUS
<1>4. (\A t, w : Clear(t, w)' <=> Clear(t, w)) /\ \A u : Nothing(u)' <=> Nothing(u)
  BY <1>1, <1>2 DEF Clear, Free, Sole, Nothing, InPlace
<1>5. \A t : Value(t)' = Value(t)
  BY <1>1, <1>2 DEF Value
<1>6. \A u : New(u)' = New(u)
  <2>1. \A t, a, n : Updated(t, a, n)' = Updated(t, a, n)
    BY <1>1, <1>2 DEF Updated
  <2>2. \A u : (IF u.snapshot THEN u.copy ELSE Value(u.output))' = IF u.snapshot THEN u.copy ELSE Value(u.output)
    BY <1>5
  <2> QED BY <2>1, <2>2 DEF New
<1>7. (Separate => Separate') /\ (ReadOnDevice => ReadOnDevice')
  BY <1>1, <1>3, <1>4 DEF Separate, ReadOnDevice, Rest
<1>8. Kept => Kept'
  BY <1>1, <1>3, <1>4, <1>5, <1>6 DEF Kept
<1>9. Promised => Promised'
  <2>1. PICK b : b = bound
    OBVIOUS
  <2>2. \A k : Source(b[k])' = Source(b[k])
    BY <1>1 DEF Source, WholeSources
  <2> QED BY <2>1, <2>2, <1>1, <1>3, <1>5, <1>6 DEF Promised, Outcome
<1> QED BY <1>1, <1>7, <1>8, <1>9 DEF DeviceBatch

(* What is known of a batch in progress, on a host and on a device. *)
BatchInv == SessionTypes /\ MemoryApart /\ HostBatch /\ DeviceBatch

LEMMA BatchInvPreserved == BatchInv /\ [Next]_vars => BatchInv'
<1> SUFFICES ASSUME BatchInv, [Next]_vars PROVE DeviceBatch'
  BY TypesPreserved, ApartPreserved, BatchPreserved DEF BatchInv
<1> USE DEF BatchInv
<1>1. CASE UNCHANGED vars
  BY <1>1, DeviceStays
<1>2. CASE Advance
  BY <1>2, DeviceBegins
<1>3. CASE Apply
  BY <1>3, DeviceContinues
<1>4. CASE \E k \in DOMAIN binds : Bind(k)
  BY <1>4 DEF Bind, DeviceBatch
<1>5. CASE Fail \/ EndAdvance
  BY <1>5 DEF Fail, EndAdvance, EndBatch, DeviceBatch
<1>6. CASE Run \/ EndRun
  BY <1>6 DEF Run, EndRun, DeviceBatch
<1>7. CASE Node \/ DeviceNode
  BY <1>7 DEF Node, DeviceNode, Running, NextNode, DeviceBatch
<1>8. CASE Reset \/ (\E t \in States : BindInput(t)) \/ (\E t, u \in Tensors : Rebind(t, u))
  BY <1>8 DEF Reset, BindInput, Rebind, Call, DeviceBatch
<1> QED BY <1>1, <1>2, <1>3, <1>4, <1>5, <1>6, <1>7, <1>8 DEF Next

(* A batch ends when its last update is made, or on a device when one fails. *)
LEMMA BatchEnds ==
  ASSUME [Next]_vars, pc = "apply", pc' # "apply"
  PROVE  Fail \/ EndAdvance
<1>1. ~UNCHANGED vars
  BY DEF vars
<1>2. ~Advance /\ ~Run /\ ~EndRun /\ ~Node /\ ~DeviceNode /\ ~Apply
  BY DEF Advance, Run, EndRun, Node, DeviceNode, Running, Apply, Applying
<1>3. ~Reset /\ ~(\E k \in DOMAIN binds : Bind(k)) /\ ~(\E t \in States : BindInput(t)) /\ ~(\E t, u \in Tensors : Rebind(t, u))
  BY DEF Reset, Bind, BindInput, Rebind, Call
<1> QED BY <1>1, <1>2, <1>3 DEF Next

(* A failed update leaves every bound state with its value. *)
LEMMA FailKeeps ==
  ASSUME BatchInv, Fail, NEW U, U = updates, NEW k \in DOMAIN U
  PROVE  Value(U[k].input)' = Value(U[k].input)
<1>1. PICK j, u, s : j = i /\ u = U[j] /\ s = U[k].input
  OBVIOUS
<1>2. /\ pc = "apply" /\ device /\ j \in DOMAIN U /\ UNCHANGED <<caseVars, viewVars>>
      /\ \/ UNCHANGED <<replica, mem>>
         \/ replica' = OnDevice(u.input) /\ mem' = Uploaded(u.input)
  BY <1>1 DEF Fail, Applying, EndBatch
<1>3. u.input \in Tensors /\ s \in Tensors
  BY <1>1, <1>2 DEF BatchInv, SessionTypes, BatchTypes
<1>4. CASE UNCHANGED <<replica, mem>>
  BY <1>1, <1>2, <1>4 DEF Value, Addr, Size, caseVars, viewVars
<1>5. CASE replica' = OnDevice(u.input) /\ mem' = Uploaded(u.input)
  <2>1. PICK v : v = Value(u.input)
    OBVIOUS
  <2>2. v = [x \in 0..(Size(u.input) - 1) |-> v[x]] /\ mem' = Fill(mem, base[OnDevice(u.input)[u.input].block], v)
    BY <1>5, <2>1 DEF Value, Uploaded
  <2>3. Value(u.input)' = v /\ (Clear(s, u.input) => Value(s)' = Value(s))
    BY <1>2, <1>3, <1>5, <2>2, CopyOnDevice DEF BatchInv
  <2>4. k = j \/ Clear(s, u.input)
    BY <1>1, <1>2 DEF BatchInv, DeviceBatch, Separate, Rest
  <2> QED BY <1>1, <2>1, <2>3, <2>4
<1> QED BY <1>2, <1>4, <1>5

(* When a batch ends, every bound state holds what its binding was to make of the states as they
   were when it began, whatever is exchanged, shared or overlaps; and when an update failed on a
   device, each holds either that or what it held.  Left out are bindings that exchange another
   tensor, of which their output is a whole view. *)
AllOrNothing ==
  pc = "apply" /\ pc' # "apply" =>
    \A k \in DOMAIN bound : Source(bound[k]) = bound[k].output =>
      \/ Value(Input(k))' = heldNext[Input(k)]
      \/ device /\ i <= Len(updates) /\ Value(Input(k))' = held[Input(k)]
UpdatesAreSimultaneous == [][AllOrNothing]_vars

(* ApplyStateBindings: its updates, made one after the other, are one simultaneous assignment. *)
THEOREM BatchesAreSimultaneous == Spec => UpdatesAreSimultaneous
<1>1. Init => BatchInv
  BY TypesInitially, ApartInitially DEF Init, BatchInv, HostBatch, DeviceBatch
<1>2. ASSUME BatchInv, [Next]_vars, pc = "apply", pc' # "apply", NEW k \in DOMAIN bound, Source(bound[k]) = bound[k].output
      PROVE  \/ Value(Input(k))' = heldNext[Input(k)]
             \/ device /\ i <= Len(updates) /\ Value(Input(k))' = held[Input(k)]
  <2>1. PICK U, s : U = updates /\ s = U[k].input
    OBVIOUS
  <2>2. Len(U) = Len(bound) /\ DOMAIN bound = 1..Len(bound) /\ Len(bound) \in Nat /\ i \in Nat
    BY <1>2, <2>1 DEF BatchInv, SessionTypes, BatchTypes, CountTypes
  <2>3. Promised
    BY <1>2 DEF BatchInv, HostBatch, DeviceBatch
  <2>4. k \in DOMAIN U /\ s = bound[k].input /\ (k < i => heldNext[s] = Value(s))
    BY <1>2, <2>1, <2>3 DEF Promised, Outcome
  <2>5. bound[k].input' = s
    BY <1>2, <2>4, BatchEnds DEF Fail, EndAdvance, EndBatch
  <2>6. CASE EndAdvance
    <3>1. Value(s)' = Value(s)
      BY <2>6 DEF EndAdvance, EndBatch, Value, Addr, Size, caseVars, viewVars
    <3>2. k < i
      BY <2>1, <2>2, <2>6 DEF EndAdvance
    <3> QED BY <2>4, <2>5, <3>1, <3>2 DEF Input
  <2>7. CASE Fail
    <3>1. Value(s)' = Value(s)
      BY <1>2, <2>1, <2>4, <2>7, FailKeeps
    <3>2. device /\ i \in DOMAIN U /\ DOMAIN U = DOMAIN bound
      BY <1>2, <2>1, <2>3, <2>7 DEF Fail, Applying, Promised
    <3>3. i <= Len(U) /\ (k >= i \/ k < i)
      BY <2>2, <3>2
    <3>4. k >= i => Value(s) = held[s]
      BY <1>2, <2>1, <2>4, <3>2 DEF BatchInv, DeviceBatch, Kept
    <3> QED BY <2>1, <2>4, <2>5, <3>1, <3>2, <3>3, <3>4 DEF Input
  <2> QED BY <1>2, <2>6, <2>7, BatchEnds
<1>3. BatchInv /\ [Next]_vars => [AllOrNothing]_vars
  BY <1>2 DEF AllOrNothing
<1> QED BY <1>1, <1>3, BatchInvPreserved, PTL DEF Spec, UpdatesAreSimultaneous

-------------------------------------------------------------------------------
(* On a host, the graphs of which the promise holds.  A tensor's home is where its contract says it
   is: there it is whenever the graph runs or an update is made. *)
Home(t) == base[cst[t]] + cat[t]
Disjoint(t, u) == CellsAt(Home(t), Size(t)) \cap CellsAt(Home(u), Size(u)) = {}

(* The tensors that updates exchange, and those that nodes write: the output of a view that shares
   its input's place is not written, unless one of them is exchanged and the other is not. *)
Exchanged(b) == ~plan /\ ~b.stable /\ ~b.append /\ Source(b) \notin frozen
Moving == UNION {{binds[k].input, Source(binds[k])} : k \in {l \in DOMAIN binds : Exchanged(binds[l])}}
Shared(t, u) == Home(t) = Home(u) /\ Size(t) = Size(u) /\ t \notin Moving /\ u \notin Moving
Written ==
  {nodes[n].dst : n \in {m \in DOMAIN nodes : nodes[m].kind = "compute" \/ ~Shared(nodes[m].src, nodes[m].dst)}}

(* Nodes write no states, exchanges share no memory with anybody, states share none with
   constants, nor with each other if the caller sets them, and a whole view shares all of it. *)
KeepsApart ==
  /\ ~device
  /\ \A n \in DOMAIN nodes : nodes[n].kind = "compute" \/ Size(nodes[n].src) = Size(nodes[n].dst)
  /\ \A w \in Written, s \in States : w # s /\ Disjoint(w, s)
  /\ \A m \in Moving : \A t \in (Moving \cup Written \cup States \cup frozen) \ {m} : Disjoint(m, t)
  /\ \A k \in DOMAIN binds : \A t \in frozen \ {binds[k].input} : Disjoint(binds[k].input, t)
  /\ calls = 0 \/ \A s \in States : \A t \in States \ {s} : Disjoint(s, t)
  /\ \A k \in DOMAIN binds : Source(binds[k]) = binds[k].output \/ Shared(Source(binds[k]), binds[k].output)

(* Every update is promised for, and bindings and exchanges are those on offer. *)
AllPromised == pc = "apply" => \A k \in DOMAIN updates : heldNext[updates[k].input] = Outcome(updates[k], k)
Accepted ==
  /\ \A k \in DOMAIN bound : bound[k].input \notin frozen /\ \E m \in DOMAIN binds : bound[k] = binds[m]
  /\ pc = "apply" => \A k \in DOMAIN updates :
       ~plan /\ ~updates[k].append /\ ~updates[k].stable =>
         updates[k].input \in Moving /\ updates[k].output \in Moving /\ updates[k].output \notin frozen

LEMMA AtHome ==
  ASSUME SessionTypes
  PROVE  \A t \in Tensors :
           /\ Home(t) \in Int /\ Size(t) \in Nat
           /\ Contract => Home(t) = base[st[t]] + at[t] /\ HostCells(t) = CellsAt(Home(t), Size(t))
           /\ Contract => \A u \in Tensors : Disjoint(t, u) => Free(t, u)
<1> TAKE t \in Tensors
<1>1. Home(t) \in Int /\ Size(t) \in Nat
  BY DEF SessionTypes, CaseTypes, ViewTypes, Home, Size
<1>2. \A u \in Tensors : Contract => Home(u) = base[st[u]] + at[u] /\ HostCells(u) = CellsAt(Home(u), Size(u))
  BY DEF Contract, Home, HostCells, CellsAt
<1>3. ASSUME Contract, NEW u \in Tensors, Disjoint(t, u) PROVE Free(t, u)
  BY <1>2, <1>3 DEF Disjoint, Free
<1> QED BY <1>1, <1>2, <1>3

LEMMA MovingTyped ==
  ASSUME SessionTypes
  PROVE  Moving \subseteq Tensors /\ Written \subseteq Tensors /\ frozen \subseteq Tensors /\ States \subseteq Tensors
<1>1. \A k \in DOMAIN binds : binds[k].input \in Tensors /\ Source(binds[k]) \in Tensors
  <2> TAKE k \in DOMAIN binds
  <2>1. binds[k] \in Binding
    BY DEF SessionTypes, CaseTypes
  <2> QED BY <2>1, SourceTyped, SessionAssumption DEF SessionTypes, Binding
<1>2. \A n \in DOMAIN nodes : nodes[n].dst \in Tensors
  BY DEF SessionTypes, CaseTypes
<1> QED BY <1>1, <1>2, SessionAssumption DEF Moving, Written, SessionTypes, CaseTypes

LEMMA SameGraph ==
  ASSUME UNCHANGED caseVars
  PROVE  Moving' = Moving /\ (\A t : Size(t)' = Size(t)) /\ \A b : Source(b)' = Source(b)
<1>1. UNCHANGED <<rows, cols, nodes, binds, plan, frozen>>
  BY DEF caseVars
<1>2. \A b : Source(b)' = Source(b)
  BY <1>1 DEF Source, WholeSources
<1>3. \A b : Exchanged(b)' <=> Exchanged(b)
  BY <1>1, <1>2 DEF Exchanged
<1>4. PICK bs : bs = binds
  OBVIOUS
<1>5. \A k : (Exchanged(bs[k])' <=> Exchanged(bs[k])) /\ Source(bs[k])' = Source(bs[k])
  BY <1>2, <1>3
<1>6. Moving' = UNION {{bs[k].input, Source(bs[k])'} : k \in {l \in DOMAIN bs : Exchanged(bs[l])'}}
  BY <1>1, <1>4 DEF Moving
<1>7. Moving = UNION {{bs[k].input, Source(bs[k])} : k \in {l \in DOMAIN bs : Exchanged(bs[l])}}
  BY <1>4 DEF Moving
<1> QED BY <1>1, <1>2, <1>5, <1>6, <1>7 DEF Size

(* What a change of homes must keep for the graph to stay as it has to be. *)
Involved == Moving \cup Written \cup States \cup frozen
LEMMA ApartIfDisjoint ==
  ASSUME SessionTypes, KeepsApart, UNCHANGED caseVars,
         \A t, u \in Tensors : t \notin Moving /\ u \notin Moving => (Home(t)' = Home(u)' <=> Home(t) = Home(u)),
         \A t \in Involved : \A u \in Involved \ {t} : Disjoint(t, u) => Disjoint(t, u)'
  PROVE  KeepsApart'
<1>1. UNCHANGED <<base, rows, cols, frozen, nodes, binds, plan, device, calls>>
  BY DEF caseVars
<1>2. Moving' = Moving /\ (\A t : Size(t)' = Size(t)) /\ \A b : Source(b)' = Source(b)
  BY SameGraph
<1>3. PICK ns, bs : ns = nodes /\ bs = binds
  OBVIOUS
<1>4. \A t, u \in Tensors : Shared(t, u)' <=> Shared(t, u)
  BY <1>2 DEF Shared
<1>5. Written' = Written
  <2>1. \A n \in DOMAIN ns : ns[n].src \in Tensors /\ ns[n].dst \in Tensors
    BY <1>3 DEF SessionTypes, CaseTypes
  <2>2. \A n \in DOMAIN ns : Shared(ns[n].src, ns[n].dst)' <=> Shared(ns[n].src, ns[n].dst)
    BY <1>4, <2>1
  <2> QED BY <1>1, <1>3, <2>2 DEF Written
<1>6. \A k \in DOMAIN bs : \A t \in frozen \ {bs[k].input} : Disjoint(bs[k].input, t)'
  <2>1. \A k \in DOMAIN bs : bs[k].input \in States
    BY <1>3 DEF SessionTypes, CaseTypes, Binding
  <2> QED BY <2>1, <1>3 DEF KeepsApart, Involved
<1>7. \A n \in DOMAIN ns : ns[n].kind = "compute" \/ Size(ns[n].src)' = Size(ns[n].dst)'
  BY <1>2, <1>3 DEF KeepsApart
<1>8. \A w \in Written, s \in States : w # s /\ Disjoint(w, s)'
  BY DEF KeepsApart, Involved
<1>9. \A m \in Moving : \A t \in (Moving \cup Written \cup States \cup frozen) \ {m} : Disjoint(m, t)'
  BY DEF KeepsApart, Involved
<1>10. calls = 0 \/ \A s \in States : \A t \in States \ {s} : Disjoint(s, t)'
  BY DEF KeepsApart, Involved
<1>11. \A k \in DOMAIN bs : (Source(bs[k]) = bs[k].output \/ Shared(Source(bs[k]), bs[k].output))'
  <2> TAKE k \in DOMAIN bs
  <2>1. PICK o, b : o = Source(bs[k]) /\ b = bs[k]
    OBVIOUS
  <2>2. o = b.output \/ Shared(o, b.output)
    BY <2>1, <1>3 DEF KeepsApart
  <2>3. b \in Binding /\ b.output \in Tensors /\ o \in Tensors
    BY <2>1, <1>3, SourceTyped DEF SessionTypes, CaseTypes, Binding
  <2>4. Source(b)' = o
    BY <2>1, <1>2
  <2>5. o = b.output \/ Shared(o, b.output)'
    BY <2>2, <2>3, <1>4
  <2>6. Source(b)' = b.output \/ Shared(Source(b), b.output)'
    BY <2>4, <2>5, <1>2 DEF Shared, Home
  <2> QED BY <2>1, <2>6
<1> QED BY <1>1, <1>2, <1>3, <1>5, <1>6, <1>7, <1>8, <1>9, <1>10, <1>11 DEF KeepsApart

LEMMA ApartWithHomes ==
  ASSUME SessionTypes, KeepsApart, UNCHANGED <<caseVars, cst, cat>>
  PROVE  KeepsApart'
<1>1. \A t : Home(t)' = Home(t) /\ Size(t)' = Size(t)
  BY SameGraph DEF Home, caseVars
<1>2. \A t, u : Disjoint(t, u)' <=> Disjoint(t, u)
  BY <1>1 DEF Disjoint, CellsAt
<1> QED BY <1>1, <1>2, ApartIfDisjoint

(* Exchanged tensors share memory with nobody, so nobody does after the exchange. *)
LEMMA ApartWithExchange ==
  ASSUME SessionTypes, Contract, KeepsApart, UNCHANGED caseVars, NEW u, Exchange(u),
         u.input \in Moving, u.output \in Moving, Size(u.input) = Size(u.output)
  PROVE  KeepsApart'
<1>1. PICK x, y : x = u.input /\ y = u.output
  OBVIOUS
<1>2. x \in Moving /\ y \in Moving /\ x \in Tensors /\ y \in Tensors /\ Size(x) = Size(y)
  BY <1>1, MovingTyped
<1>3. \A t \in Tensors :
        Home(t)' = IF t = x THEN Home(y) ELSE IF t = y THEN Home(x) ELSE Home(t)
  <2> TAKE t \in Tensors
  <2>1. /\ st' = [st EXCEPT ![x] = st[y], ![y] = st[x]] /\ at' = [at EXCEPT ![x] = at[y], ![y] = at[x]]
        /\ cst' = [cst EXCEPT ![x] = st'[x], ![y] = st'[y]] /\ cat' = [cat EXCEPT ![x] = at'[x], ![y] = at'[y]]
    BY <1>1 DEF Exchange, Swapped
  <2>2. DOMAIN st = Tensors /\ DOMAIN at = Tensors /\ DOMAIN cst = Tensors /\ DOMAIN cat = Tensors
    BY DEF SessionTypes, ViewTypes
  <2>3. cst[x] = st[x] /\ cst[y] = st[y] /\ cat[x] = at[x] /\ cat[y] = at[y]
    BY <1>2 DEF Contract
  <2>4. base' = base
    BY DEF caseVars
  <2>5. CASE t = y
    BY <1>2, <2>1, <2>2, <2>3, <2>4, <2>5 DEF Home
  <2>6. CASE t = x /\ t # y
    BY <1>2, <2>1, <2>2, <2>3, <2>4, <2>6 DEF Home
  <2>7. CASE t # x /\ t # y
    BY <1>2, <2>1, <2>2, <2>3, <2>4, <2>7 DEF Home
  <2> QED BY <2>5, <2>6, <2>7
<1>4. \A t : Size(t)' = Size(t)
  BY SameGraph
<1>5. Involved \subseteq Tensors
  BY MovingTyped DEF Involved
<1>6. PICK C, Cn : /\ C = [t \in Tensors |-> CellsAt(Home(t), Size(t))]
                   /\ Cn = [t \in Tensors |-> CellsAt(Home(t)', Size(t)')]
  OBVIOUS
<1>7. \A t, v \in Tensors : (Disjoint(t, v) <=> C[t] \cap C[v] = {}) /\ (Disjoint(t, v)' <=> Cn[t] \cap Cn[v] = {})
  BY <1>6 DEF Disjoint, CellsAt
<1>8. \A t \in Tensors : Cn[t] = IF t = x THEN C[y] ELSE IF t = y THEN C[x] ELSE C[t]
  BY <1>2, <1>3, <1>4, <1>6
<1>9. \A m \in Moving : \A t \in Involved \ {m} : C[m] \cap C[t] = {}
  BY <1>5, <1>7 DEF KeepsApart, Involved
<1>10. ASSUME NEW t \in Involved, NEW v \in Involved \ {t}, Disjoint(t, v) PROVE Disjoint(t, v)'
  <2>1. C[t] \cap C[v] = {} /\ t \in Tensors /\ v \in Tensors
    BY <1>5, <1>7, <1>10
  <2>2. CASE x = y
    BY <1>7, <1>8, <2>1, <2>2
  <2>3. CASE x # y /\ t = x
    BY <1>2, <1>7, <1>8, <1>9, <2>1, <2>3
  <2>4. CASE x # y /\ t = y
    BY <1>2, <1>7, <1>8, <1>9, <2>1, <2>4
  <2>5. CASE t # x /\ t # y
    BY <1>2, <1>7, <1>8, <1>9, <2>1, <2>5
  <2> QED BY <2>2, <2>3, <2>4, <2>5
<1>11. ASSUME NEW t \in Tensors, NEW v \in Tensors, t \notin Moving, v \notin Moving
       PROVE  Home(t)' = Home(v)' <=> Home(t) = Home(v)
  BY <1>2, <1>3, <1>11
<1> QED BY <1>10, <1>11, ApartIfDisjoint

(* A batch and its bindings change only when a binding or a batch is accepted. *)
LEMMA BatchKept ==
  ASSUME [Next]_vars, ~Advance, \A k \in DOMAIN binds : ~Bind(k)
  PROVE  bound' = bound /\ (pc' = "apply" => pc = "apply" /\ UNCHANGED <<updates, held, heldNext>>)
<1>1. CASE UNCHANGED vars
  BY <1>1 DEF vars, batchVars
<1>2. CASE Apply
  BY <1>2 DEF Apply, Applying, batchVars
<1>3. CASE Fail \/ EndAdvance
  BY <1>3 DEF Fail, EndAdvance, EndBatch
<1>4. CASE Run \/ EndRun
  BY <1>4 DEF Run, EndRun, batchVars
<1>5. CASE Node \/ DeviceNode
  BY <1>5 DEF Node, DeviceNode, Running, NextNode, batchVars
<1>6. CASE Reset \/ (\E t \in States : BindInput(t)) \/ \E t, u \in Tensors : Rebind(t, u)
  <2>1. Call
    BY <1>6 DEF Reset, BindInput, Rebind
  <2> QED BY <2>1 DEF Call
<1> QED BY <1>1, <1>2, <1>3, <1>4, <1>5, <1>6 DEF Next

LEMMA AcceptedInitially == Init => Accepted
<1> SUFFICES ASSUME Init PROVE Accepted
  OBVIOUS
<1>1. bound = <<>> /\ pc = "idle"
  BY DEF Init
<1> QED BY <1>1 DEF Accepted

LEMMA AcceptedPreserved ==
  ASSUME SessionTypes, Accepted, [Next]_vars
  PROVE  Accepted'
<1>1. UNCHANGED caseVars
  BY ViewsStay
<1>2. UNCHANGED <<binds, frozen, plan>> /\ Moving' = Moving
  BY <1>1, SameGraph DEF caseVars
<1>3. PICK bs : bs = binds
  OBVIOUS
<1>4. CASE Advance
  <2>1. PICK U, b, D : U = updates' /\ b = bound /\ D = DOMAIN bound
    OBVIOUS
  <2>2. BatchBegun(D, U)
    BY <1>4, <2>1, AdvanceUpdates
  <2>3. b = bound' /\ DOMAIN U = D
    BY <2>1, <2>2 DEF BatchBegun
  <2>4. \A k \in D : b[k].input \notin frozen /\ \E m \in DOMAIN bs : b[k] = bs[m]
    BY <1>3, <2>1 DEF Accepted
  <2>5. ASSUME NEW k \in D, ~plan, ~U[k].append, ~U[k].stable
        PROVE  U[k].input \in Moving /\ U[k].output \in Moving /\ U[k].output \notin frozen
    <3>1. U[k].input = b[k].input /\ U[k].output = Source(b[k]) /\ U[k].append = b[k].append
      BY <2>1, <2>2 DEF BatchBegun, Input, Output
    <3>2. ~b[k].stable /\ Source(b[k]) \notin frozen
      BY <2>1, <2>2, <2>5 DEF BatchBegun, Stable, Output
    <3>3. Exchanged(b[k])
      BY <2>5, <3>1, <3>2 DEF Exchanged
    <3>4. PICK m \in DOMAIN bs : b[k] = bs[m]
      BY <2>4
    <3>5. b[k].input \in Moving /\ Source(b[k]) \in Moving
      BY <1>3, <3>3, <3>4 DEF Moving
    <3> QED BY <3>1, <3>2, <3>5
  <2>6. (\A k \in DOMAIN bound : bound[k].input \notin frozen /\ \E m \in DOMAIN binds : bound[k] = binds[m])'
    BY <1>2, <1>3, <2>1, <2>3, <2>4
  <2>7. (\A k \in DOMAIN updates :
           ~plan /\ ~updates[k].append /\ ~updates[k].stable =>
             updates[k].input \in Moving /\ updates[k].output \in Moving /\ updates[k].output \notin frozen)'
    BY <1>2, <2>1, <2>3, <2>5
  <2> QED BY <2>6, <2>7 DEF Accepted
<1>5. ASSUME NEW k \in DOMAIN binds, Bind(k) PROVE Accepted'
  <2>1. PICK b, x : b = bound /\ x = binds[k]
    OBVIOUS
  <2>2. bound' = Append(b, x) /\ pc' = "idle" /\ x.input \notin frozen
    BY <1>5, <2>1 DEF Bind, Valid
  <2>3. b \in Seq(Binding) /\ x \in Binding
    BY <2>1 DEF SessionTypes, BatchTypes, CaseTypes
  <2>4. \A l \in DOMAIN b : b[l].input \notin frozen /\ \E m \in DOMAIN bs : b[l] = bs[m]
    BY <1>3, <2>1 DEF Accepted
  <2>5. x = bs[k] /\ k \in DOMAIN bs
    BY <1>3, <2>1
  <2>6. \A l \in DOMAIN Append(b, x) : Append(b, x)[l].input \notin frozen /\ \E m \in DOMAIN bs : Append(b, x)[l] = bs[m]
    <3> TAKE l \in DOMAIN Append(b, x)
    <3>1. CASE l \in DOMAIN b
      BY <2>3, <2>4, <3>1
    <3>2. CASE l = Len(b) + 1
      BY <2>2, <2>3, <2>5, <3>2
    <3> QED BY <2>3, <3>1, <3>2
  <2> QED BY <1>2, <1>3, <2>2, <2>6 DEF Accepted
<1>6. CASE ~Advance /\ \A k \in DOMAIN binds : ~Bind(k)
  <2>1. PICK b, U : b = bound /\ U = updates
    OBVIOUS
  <2>2. bound' = b /\ (pc' = "apply" => pc = "apply" /\ updates' = U)
    BY <1>6, <2>1, BatchKept
  <2> QED BY <1>2, <1>3, <2>1, <2>2 DEF Accepted
<1> QED BY <1>4, <1>5, <1>6

(* On a host only an exchange changes where tensors are at home. *)
LEMMA HomesStay ==
  ASSUME [Next]_vars, ~device
  PROVE  \/ UNCHANGED <<cst, cat>>
         \/ pc = "apply" /\ i \in DOMAIN updates /\ ~plan /\ ~Copied(updates[i]) /\ Exchange(updates[i])
<1>1. CASE UNCHANGED vars
  BY <1>1 DEF vars, viewVars
<1>2. CASE Apply
  <2>1. PICK u : u = updates[i]
    OBVIOUS
  <2>2. Applying
    BY <1>2 DEF Apply
  <2> QED BY <1>2, <2>1, <2>2, HostUpdate DEF Write, viewVars, Applying
<1>3. CASE ByCaller
  BY <1>3 DEF ByCaller, Rebind
<1>4. CASE Next /\ ~Apply /\ ~ByCaller
  BY <1>4, OtherSteps DEF viewVars
<1> QED BY <1>1, <1>2, <1>3, <1>4

(* What makes one update of a host's batch an exchange. *)
LEMMA UpdateExchanges ==
  ASSUME SessionTypes, Accepted, pc = "apply", NEW u, NEW k \in DOMAIN updates, u = updates[k], ~plan, ~Copied(u)
  PROVE  /\ u.input \in Moving /\ u.output \in Moving /\ u.output \notin frozen
         /\ u.input \in Tensors /\ u.output \in Tensors /\ Size(u.input) = Size(u.output)
<1>1. u.append \in BOOLEAN /\ u.stable \in BOOLEAN /\ u.input \in Tensors /\ u.output \in Tensors
  BY DEF SessionTypes, BatchTypes
<1>2. ~u.append /\ ~u.stable
  BY <1>1 DEF Copied
<1>3. rows[u.input] = rows[u.output] /\ cols[u.input] = cols[u.output]
  BY <1>2 DEF SessionTypes, BatchTypes
<1> QED BY <1>1, <1>2, <1>3 DEF Accepted, Size

LEMMA KeepsApartPreserved ==
  ASSUME SessionTypes, ContractInv, Accepted, KeepsApart, [Next]_vars
  PROVE  KeepsApart'
<1>1. UNCHANGED caseVars /\ ~device
  BY ViewsStay DEF KeepsApart
<1>2. CASE UNCHANGED <<cst, cat>>
  BY <1>1, <1>2, ApartWithHomes
<1>3. CASE pc = "apply" /\ i \in DOMAIN updates /\ ~plan /\ ~Copied(updates[i]) /\ Exchange(updates[i])
  <2>1. PICK u : u = updates[i]
    OBVIOUS
  <2>2. u.input \in Moving /\ u.output \in Moving /\ Size(u.input) = Size(u.output)
    BY <1>3, <2>1, UpdateExchanges
  <2>3. Contract
    BY <1>3 DEF ContractInv
  <2> QED BY <1>1, <1>3, <2>1, <2>2, <2>3, ApartWithExchange
<1> QED BY <1>1, <1>2, <1>3, HomesStay

(* Tensors with one home have one value. *)
LEMMA SameHomeSameValue ==
  ASSUME SessionTypes, ~device, Contract, NEW t \in Tensors, NEW u \in Tensors, Home(t) = Home(u), Size(t) = Size(u)
  PROVE  Value(t) = Value(u) /\ Addr(t, 0) = Addr(u, 0)
<1>1. Home(t) = base[st[t]] + at[t] /\ Home(u) = base[st[u]] + at[u]
  BY AtHome
<1>2. \A x : Addr(t, x) = Home(t) + x /\ Addr(u, x) = Home(t) + x
  BY <1>1, HostAddr
<1> QED BY <1>2 DEF Value

(* An update reads an output, or what the output is a whole view of. *)
LEMMA UpdateIsNext ==
  ASSUME SessionTypes, KeepsApart, Accepted, NEW k \in DOMAIN bound, Contract, Valid(bound[k], Output(k))
  PROVE  NextOf(Input(k), bound[k]) = Updated(Input(k), bound[k].append, Value(Output(k)))
<1>1. PICK b : b = bound[k]
  OBVIOUS
<1>2. b \in Binding /\ Input(k) = b.input /\ Output(k) = Source(b)
  BY <1>1 DEF SessionTypes, BatchTypes, Input, Output
<1>3. b.input \in Tensors /\ b.output \in Tensors /\ Source(b) \in Tensors /\ b.append \in BOOLEAN
  BY <1>2, SourceTyped, SessionAssumption DEF SessionTypes, Binding
<1>4. CASE Source(b) = b.output
  BY <1>1, <1>2, <1>4, ComputedIsNext
<1>5. CASE Source(b) # b.output
  <2>1. ~b.append
    BY <1>5 DEF Source
  <2>2. PICK m \in DOMAIN binds : b = binds[m]
    BY <1>1 DEF Accepted
  <2>3. Shared(Source(b), b.output)
    BY <1>5, <2>2 DEF KeepsApart
  <2>4. Value(Source(b)) = Value(b.output)
    BY <1>3, <2>3, SameHomeSameValue DEF Shared, KeepsApart
  <2>5. Size(b.input) = Size(Source(b))
    BY <1>1, <1>2, <2>1 DEF Valid, Size
  <2>6. PICK v : v = Value(Source(b))
    OBVIOUS
  <2>7. NextOf(b.input, b) = v
    BY <2>1, <2>4, <2>6 DEF NextOf
  <2>8. v = [x \in 0..(Size(b.input) - 1) |-> v[x]]
    BY <2>5, <2>6 DEF Value
  <2>9. Updated(b.input, b.append, v) = v
    BY <2>1, <2>8 DEF Updated
  <2> QED BY <1>1, <1>2, <2>6, <2>7, <2>9
<1> QED BY <1>4, <1>5

LEMMA AllPromisedPreserved ==
  ASSUME SessionTypes, HostBatch, KeepsApart, Accepted, AllPromised, [Next]_vars
  PROVE  AllPromised'
<1>1. PICK U : U = updates
  OBVIOUS
<1>2. CASE Advance
  <2>1. PICK N, D : N = updates' /\ D = DOMAIN bound
    OBVIOUS
  <2>2. BatchBegun(D, N)
    BY <1>2, <2>1, AdvanceUpdates
  <2>3. Contract /\ \A k \in D : Valid(bound[k], Output(k))
    BY <1>2, <2>1 DEF Advance, Refused
  <2>4. ASSUME NEW k \in D PROVE heldNext'[N[k].input] = Outcome(N[k], k)'
    <3>1. N[k].input = Input(k)
      BY <2>2 DEF BatchBegun
    <3> QED BY <1>2, <2>1, <2>3, <3>1, UpdatesBegin, UpdateIsNext
  <2>5. DOMAIN N = D
    BY <2>2 DEF BatchBegun
  <2> QED BY <2>1, <2>4, <2>5 DEF AllPromised
<1>3. CASE Apply
  <2>1. UNCHANGED <<updates, heldNext>> /\ pc = "apply"
    BY <1>3 DEF Apply, Applying, batchVars
  <2>2. \A k \in DOMAIN U : Outcome(U[k], k)' = Outcome(U[k], k)
    BY <1>1, <1>3, OutcomesStay DEF KeepsApart
  <2> QED BY <1>1, <2>1, <2>2 DEF AllPromised
<1>4. CASE UNCHANGED vars
  <2>1. UNCHANGED <<updates, heldNext, pc, i>>
    BY <1>4 DEF vars, batchVars
  <2>2. \A u, k : Outcome(u, k)' = Outcome(u, k)
    BY <1>4 DEF vars, viewVars, caseVars, Outcome, New, Updated, Value, Size, Addr
  <2> QED BY <1>1, <2>1, <2>2 DEF AllPromised
<1>5. ASSUME ~Advance, ~Apply, ~UNCHANGED vars PROVE AllPromised'
  <2>1. pc' # "apply"
    <3>1. ASSUME NEW k \in DOMAIN binds, Bind(k) PROVE pc' # "apply"
      BY <3>1 DEF Bind
    <3>2. CASE Fail \/ EndAdvance
      BY <3>2 DEF Fail, EndAdvance, EndBatch
    <3>3. CASE Run \/ EndRun
      BY <3>3 DEF Run, EndRun
    <3>4. CASE Node \/ DeviceNode
      BY <3>4 DEF Node, DeviceNode, Running, NextNode
    <3>5. CASE Reset \/ (\E t \in States : BindInput(t)) \/ \E t, u \in Tensors : Rebind(t, u)
      <4>1. Call
        BY <3>5 DEF Reset, BindInput, Rebind
      <4> QED BY <4>1 DEF Call
    <3> QED BY <1>5, <3>1, <3>2, <3>3, <3>4, <3>5 DEF Next
  <2> QED BY <2>1 DEF AllPromised
<1> QED BY <1>2, <1>3, <1>4, <1>5

(* What is known on a host of a graph that keeps its states apart. *)
HostInv == SessionTypes /\ ContractInv /\ HostBatch /\ KeepsApart /\ Accepted /\ AllPromised

LEMMA HostInvInitially == Init /\ KeepsApart => HostInv
<1>1. Init => HostBatch /\ AllPromised
  BY DEF Init, HostBatch, AllPromised
<1> QED BY <1>1, TypesInitially, InitContract, AcceptedInitially DEF HostInv

LEMMA HostInvPreserved == HostInv /\ [Next]_vars => HostInv'
BY TypesPreserved, StepContract, BatchPreserved, KeepsApartPreserved, AcceptedPreserved, AllPromisedPreserved
DEF HostInv

LEMMA SameValues == ASSUME UNCHANGED <<caseVars, viewVars, replica, mem>> PROVE \A t : Value(t)' = Value(t)
<1>1. UNCHANGED <<base, rows, cols, st, at, replica, mem>>
  BY DEF caseVars, viewVars
<1> QED BY <1>1 DEF Value, Size, Addr

(* What a kernel writes is a tensor without cells of states; that of a view that shares its
   input's place writes nothing. *)
LEMMA NodeKeepsStates ==
  ASSUME HostInv, Node
  PROVE  \A t \in States : Value(t)' = Value(t)
<1>1. SessionTypes /\ KeepsApart /\ ~device /\ Contract /\ UNCHANGED <<caseVars, viewVars, replica>>
  BY DEF HostInv, KeepsApart, ContractInv, Node, Running, NextNode
<1>2. PICK n : n = nodes[i]
  OBVIOUS
<1>3. PICK s, d : s = n.src /\ d = n.dst
  OBVIOUS
<1>4. i \in DOMAIN nodes /\ s \in Tensors /\ d \in Tensors
  BY <1>1, <1>2, <1>3 DEF Node, Running, SessionTypes, CaseTypes
<1>5. n.kind = "compute" \/ Size(s) = Size(d)
  BY <1>1, <1>2, <1>3, <1>4 DEF KeepsApart
<1>6. mem' = IF n.kind = "compute" THEN Put(d, Result(d)) ELSE IF Addr(s, 0) = Addr(d, 0) THEN mem ELSE Put(d, Value(s))
  BY <1>2, <1>3 DEF Node
<1>7. CASE d \notin Written
  <2>1. n.kind # "compute" /\ Shared(s, d)
    BY <1>2, <1>3, <1>4, <1>7 DEF Written
  <2>2. Addr(s, 0) = Addr(d, 0)
    BY <1>1, <1>4, <2>1, SameHomeSameValue DEF Shared
  <2>3. mem' = mem
    BY <1>6, <2>1, <2>2
  <2> QED BY <1>1, <2>3, SameValues
<1>8. CASE d \in Written
  <2>1. \A t \in States : t \in Tensors /\ Free(t, d)
    <3> TAKE t \in States
    <3>1. t \in Tensors /\ Disjoint(d, t)
      BY <1>1, <1>8, SessionAssumption DEF KeepsApart
    <3> QED BY <1>1, <1>4, <3>1, AtHome, FreeBoth
  <2>2. CASE mem' = mem
    BY <1>1, <2>2, SameValues
  <2>3. ASSUME NEW v, mem' = Put(d, v), v = [x \in 0..(Size(d) - 1) |-> v[x]]
        PROVE  \A t \in States : Value(t)' = Value(t)
    BY <1>1, <1>4, <2>1, <2>3, HostWrite
  <2>4. Result(d) = [x \in 0..(Size(d) - 1) |-> Result(d)[x]]
    BY DEF Result
  <2>5. n.kind # "compute" => Value(s) = [x \in 0..(Size(d) - 1) |-> Value(s)[x]]
    BY <1>5 DEF Value
  <2> QED BY <1>6, <2>2, <2>3, <2>4, <2>5
<1> QED BY <1>7, <1>8

LEMMA RunStepKeepsStates ==
  ASSUME HostInv, [Next]_vars, pc = "run"
  PROVE  \A t \in States : Value(t)' = Value(t)
<1>1. ~device
  BY DEF HostInv, KeepsApart
<1>2. CASE UNCHANGED vars
  BY <1>2, SameValues DEF vars
<1>3. CASE Node
  BY <1>3, NodeKeepsStates
<1>4. CASE EndRun
  BY <1>4, SameValues DEF EndRun
<1>5. Next => Node \/ EndRun
  BY <1>1 DEF Next, Bind, Advance, Apply, Applying, Fail, EndAdvance, Run, DeviceNode, Reset, BindInput, Rebind, Call
<1> QED BY <1>2, <1>3, <1>4, <1>5

StatesKept == pc = "run" => \A t \in States : Value(t)' = Value(t)
(* StateOutput: on a host the kernels of a graph that keeps its states apart write none of them,
   although exchanges move tensors between runs. *)
THEOREM RunsKeepStates == Spec /\ KeepsApart => RunKeepsStates
<1>1. HostInv /\ [Next]_vars => [StatesKept]_vars
  BY RunStepKeepsStates DEF StatesKept
<1>2. Spec /\ KeepsApart => [][StatesKept]_vars
  BY <1>1, HostInvInitially, HostInvPreserved, PTL DEF Spec
<1>3. StatesKept <=> (pc = "run" => \A t \in States : Value(t)' = Value(t))
  BY DEF StatesKept
<1> QED BY <1>2, <1>3, PTL DEF RunKeepsStates

(* An update writes a state, which shares no memory with a constant, or moves two tensors that
   are none. *)
LEMMA ApplyKeepsConstants ==
  ASSUME HostInv, Apply
  PROVE  \A t \in frozen : Value(t)' = Value(t) /\ st'[t] = st[t] /\ at'[t] = at[t] /\ UNCHANGED replica
<1>1. /\ SessionTypes /\ KeepsApart /\ Accepted /\ ~device /\ Contract
      /\ UNCHANGED caseVars /\ pc = "apply" /\ i \in DOMAIN updates
  BY DEF HostInv, KeepsApart, ContractInv, Apply, Applying
<1>2. PICK u : u = updates[i]
  OBVIOUS
<1>3. frozen \subseteq Tensors /\ u.input \in Tensors /\ u.output \in Tensors
  BY <1>1, <1>2, MovingTyped DEF SessionTypes, BatchTypes
<1>4. u.input \notin frozen /\ \E m \in DOMAIN binds : u.input = binds[m].input
  <2>1. DOMAIN updates = DOMAIN bound /\ u.input = bound[i].input
    BY <1>1, <1>2 DEF HostInv, HostBatch, Promised
  <2> QED BY <1>1, <2>1 DEF Accepted
<1>5. CASE Write(u)
  <2>1. \A t \in frozen : Free(t, u.input)
    <3> TAKE t \in frozen
    <3>1. t \in Tensors /\ Disjoint(u.input, t)
      BY <1>1, <1>3, <1>4 DEF KeepsApart
    <3> QED BY <1>1, <1>3, <3>1, AtHome, FreeBoth
  <2>2. PICK new : new = IF u.snapshot THEN u.copy ELSE Value(u.output)
    OBVIOUS
  <2>3. mem' = Put(u.input, Updated(u.input, u.append, new)) /\ UNCHANGED <<viewVars, replica>>
    BY <1>5, <2>2 DEF Write
  <2>4. Updated(u.input, u.append, new) =
          [x \in 0..(Size(u.input) - 1) |-> Updated(u.input, u.append, new)[x]]
    BY DEF Updated
  <2>5. \A t \in frozen : Value(t)' = Value(t)
    BY <1>1, <1>3, <2>1, <2>3, <2>4, HostWrite
  <2> QED BY <2>3, <2>5 DEF viewVars
<1>6. CASE ~plan /\ ~Copied(u) /\ Exchange(u)
  <2>1. u.output \notin frozen /\ Size(u.input) = Size(u.output)
    BY <1>1, <1>2, <1>6, UpdateExchanges
  <2>2. ASSUME NEW t \in frozen PROVE Value(t)' = Value(t)
    <3>1. t \in Tensors /\ t \notin {u.input, u.output}
      BY <1>3, <1>4, <2>1
    <3> QED BY <1>1, <1>3, <1>6, <2>1, <3>1, HostExchange
  <2>3. ASSUME NEW t \in frozen PROVE st'[t] = st[t] /\ at'[t] = at[t]
    BY <1>1, <1>3, <1>4, <1>6, <2>1 DEF Exchange, Swapped, SessionTypes, ViewTypes
  <2> QED BY <1>6, <2>2, <2>3 DEF Exchange
<1> QED BY <1>1, <1>2, <1>5, <1>6, HostUpdate

LEMMA BatchKeepsConstants ==
  ASSUME HostInv, [Next]_vars, pc = "apply"
  PROVE  \A t \in frozen : Value(t)' = Value(t) /\ UNCHANGED <<st[t], at[t], replica[t].block>>
<1>1. ~device /\ frozen' = frozen
  BY ViewsStay DEF HostInv, KeepsApart, caseVars
<1>2. CASE Apply
  BY <1>2, ApplyKeepsConstants
<1>3. CASE UNCHANGED vars \/ EndAdvance
  <2>1. UNCHANGED <<caseVars, viewVars, replica, mem>>
    BY <1>3 DEF vars, EndAdvance, EndBatch
  <2> QED BY <2>1, SameValues DEF viewVars
<1>4. Next => Apply \/ EndAdvance
  BY <1>1 DEF Next, Bind, Advance, Fail, Applying, Run, Node, DeviceNode, Running, EndRun, Reset, BindInput, Rebind, Call
<1> QED BY <1>2, <1>3, <1>4

ConstantsKept ==
  pc = "apply" => \A t \in frozen : Value(t)' = Value(t) /\ UNCHANGED <<st[t], at[t], replica[t].block>>
(* ApplyStateBindings: on a host a constant keeps its contents and its storage, also one that gives
   a state its contents, and even if the output is a whole view of it. *)
THEOREM ConstantsStayIntact == Spec /\ KeepsApart => ConstantsIntact
<1>1. HostInv /\ [Next]_vars => [ConstantsKept]_vars
  BY BatchKeepsConstants DEF ConstantsKept
<1>2. Spec /\ KeepsApart => [][ConstantsKept]_vars
  BY <1>1, HostInvInitially, HostInvPreserved, PTL DEF Spec
<1>3. ConstantsKept <=>
        (pc = "apply" => \A t \in frozen : Value(t)' = Value(t) /\ UNCHANGED <<st[t], at[t], replica[t].block>>)
  BY DEF ConstantsKept
<1> QED BY <1>2, <1>3, PTL DEF ConstantsIntact

-------------------------------------------------------------------------------
(* The session's states, their next contents and the stage of their update, as the promise sees
   them. *)
BoundStates == {bound[k].input : k \in DOMAIN bound}
StateNow == IF pc = "apply" THEN held ELSE Contents
NextNow == IF pc = "apply" THEN heldNext ELSE NextContents
UpdateNow == IF pc # "apply" THEN "none" ELSE IF i > Len(updates) THEN "done" ELSE "open"

(* What the bindings b make of states that hold v, if binding k makes f[k] of its own. *)
Made(b, f, v) ==
  [t \in States |->
     IF \A k \in DOMAIN b : b[k].input # t THEN v[t] ELSE f[CHOOSE k \in DOMAIN b : b[k].input = t]]
LEMMA ContentsAreMade ==
  NextContents = Made(bound, [k \in DOMAIN bound |-> NextOf(bound[k].input, bound[k])], Contents)
<1>1. PICK b, f : b = bound /\ f = [k \in DOMAIN bound |-> NextOf(bound[k].input, bound[k])]
  OBVIOUS
<1>2. ASSUME NEW t \in States
      PROVE  (IF \A k \in DOMAIN bound : Input(k) # t THEN Value(t)
              ELSE NextOf(t, bound[CHOOSE k \in DOMAIN bound : Input(k) = t])) = Made(b, f, Contents)[t]
  <2>1. CASE \A k \in DOMAIN b : b[k].input # t
    BY <1>1, <2>1 DEF Made, Input, Contents
  <2>2. CASE \E k \in DOMAIN b : b[k].input = t
    <3>1. PICK k : k = CHOOSE x \in DOMAIN b : b[x].input = t
      OBVIOUS
    <3>2. k \in DOMAIN b /\ b[k].input = t
      BY <2>2, <3>1
    <3>3. Made(b, f, Contents)[t] = f[k]
      BY <2>2, <3>1 DEF Made
    <3>4. f[k] = NextOf(t, b[k])
      BY <1>1, <3>2
    <3>5. (CHOOSE x \in DOMAIN bound : Input(x) = t) = k
      BY <1>1, <3>1 DEF Input
    <3> QED BY <1>1, <2>2, <3>3, <3>4, <3>5 DEF Input
  <2> QED BY <2>1, <2>2
<1> QED BY <1>1, <1>2 DEF NextContents, Made

(* A step that leaves memory, views and bindings alone leaves the promise alone. *)
LEMMA SameContents ==
  ASSUME UNCHANGED <<caseVars, viewVars, replica, mem, fresh>>
  PROVE  /\ Contents' = Contents /\ \A t, b : NextOf(t, b)' = NextOf(t, b)
         /\ UNCHANGED bound => NextContents' = NextContents
<1>1. UNCHANGED <<base, rows, cols, nodes, st, at, replica, mem, fresh>>
  BY DEF caseVars, viewVars
<1>2. (\A t : Value(t)' = Value(t)) /\ (\A t : Size(t)' = Size(t)) /\ \A b : Source(b)' = Source(b)
  BY SameValues, SameGraph
<1>3. Contents' = Contents
  BY <1>2 DEF Contents
<1>4. \A t, r, new : Moved(t, r, new)' = Moved(t, r, new)
  BY <1>1, <1>2 DEF Moved
<1>5. ASSUME NEW t, NEW b PROVE NextOf(t, b)' = NextOf(t, b)
  <2>1. CASE ~b.append
    <3>1. PICK s : s = IF fresh THEN b.output ELSE Source(b)
      OBVIOUS
    <3>2. (IF fresh THEN b.output ELSE Source(b))' = s
      BY <1>1, <1>2, <3>1
    <3>3. NextOf(t, b) = Value(s) /\ NextOf(t, b)' = Value(s)'
      BY <2>1, <3>1, <3>2 DEF NextOf
    <3> QED BY <1>2, <3>3
  <2>2. CASE b.append
    <3>1. PICK o, n : o = Value(b.output) /\ n = cols[t]
      OBVIOUS
    <3>2. Value(b.output)' = o /\ cols'[t] = n
      BY <1>1, <1>2, <3>1
    <3>3. NextOf(t, b) = [x \in 0..(Size(t) - 1) |-> Moved(t, x \div n, o[x \div n])[(x % n) + 1]]
      BY <2>2, <3>1 DEF NextOf
    <3>4. NextOf(t, b)' = [x \in 0..(Size(t)' - 1) |-> Moved(t, x \div n, o[x \div n])'[(x % n) + 1]]
      BY <2>2, <3>2 DEF NextOf
    <3> QED BY <1>2, <1>4, <3>3, <3>4
  <2> QED BY <2>1, <2>2
<1>6. UNCHANGED bound => NextContents' = NextContents
  <2> SUFFICES ASSUME bound' = bound PROVE NextContents' = NextContents
    OBVIOUS
  <2>1. PICK b : b = bound
    OBVIOUS
  <2>2. \A t, k : NextOf(t, b[k])' = NextOf(t, b[k])
    BY <1>5
  <2>3. NextContents = [t \in States |-> IF \A k \in DOMAIN b : b[k].input # t THEN Value(t)
                                         ELSE NextOf(t, b[CHOOSE k \in DOMAIN b : b[k].input = t])]
    BY <2>1 DEF NextContents, Input
  <2>4. NextContents' = [t \in States |-> IF \A k \in DOMAIN b : b[k].input # t THEN Value(t)'
                                          ELSE NextOf(t, b[CHOOSE k \in DOMAIN b : b[k].input = t])']
    BY <2>1 DEF NextContents, Input
  <2> QED BY <1>2, <2>2, <2>3, <2>4
<1> QED BY <1>3, <1>5, <1>6

(* Every step is one of the promise, or does not concern it. *)
Stutter == Promise!vars' = Promise!vars

LEMMA StutterSeen ==
  ASSUME UNCHANGED <<device, nCalls, nResets, bound>>, NextNow' = NextNow, StateNow' = StateNow, UpdateNow' = UpdateNow
  PROVE  Stutter
<1>1. BoundStates' = BoundStates
  BY DEF BoundStates
<1> QED BY <1>1 DEF Stutter, Promise!vars, Promise!callVars, NextNow, StateNow, UpdateNow, BoundStates

LEMMA PromiseBinds ==
  ASSUME SessionTypes, NEW k \in DOMAIN binds, Bind(k)
  PROVE  Promise!Bind
<1>1. PICK b, x : b = bound /\ x = binds[k]
  OBVIOUS
<1>2. /\ bound' = Append(b, x) /\ pc = "idle" /\ pc' = "idle"
      /\ \A l \in DOMAIN b : b[l].input # x.input
      /\ UNCHANGED <<caseVars, viewVars, replica, mem, i, batchVars, fresh, counters>>
  BY <1>1 DEF Bind
<1>3. b \in Seq(Binding) /\ x \in Binding /\ x.input \in States
  BY <1>1 DEF SessionTypes, BatchTypes, CaseTypes, Binding
<1>4. PICK c : c = Append(b, x)
  OBVIOUS
<1>5. /\ DOMAIN c = DOMAIN b \cup {Len(b) + 1} /\ c[Len(b) + 1] = x
      /\ \A l \in DOMAIN b : c[l] = b[l]
  BY <1>3, <1>4
<1>6. BoundStates' = BoundStates \cup {x.input} /\ x.input \in States \ BoundStates
  BY <1>1, <1>2, <1>3, <1>4, <1>5 DEF BoundStates
<1>7. Contents' = Contents /\ \A t, d : NextOf(t, d)' = NextOf(t, d)
  BY <1>2, SameContents
<1>8. ASSUME NEW t \in States \ {x.input} PROVE NextContents'[t] = NextContents[t]
  <2>1. NextContents[t] = IF \A l \in DOMAIN b : b[l].input # t THEN Value(t)
                          ELSE NextOf(t, b[CHOOSE l \in DOMAIN b : b[l].input = t])
    BY <1>1 DEF NextContents, Input
  <2>2. NextContents'[t] = IF \A l \in DOMAIN c : c[l].input # t THEN Value(t)'
                           ELSE NextOf(t, c[CHOOSE l \in DOMAIN c : c[l].input = t])'
    <3>1. NextContents' = [y \in States |->
             IF \A l \in DOMAIN c : c[l].input # y THEN Value(y)'
             ELSE NextOf(y, c[CHOOSE l \in DOMAIN c : c[l].input = y])']
      BY <1>2, <1>4 DEF NextContents, Input
    <3> QED BY <3>1
  <2>3. Value(t)' = Value(t)
    BY <1>2, SameValues
  <2>4. CASE \A l \in DOMAIN b : b[l].input # t
    BY <1>5, <2>1, <2>2, <2>3, <2>4
  <2>5. CASE \E l \in DOMAIN b : b[l].input = t
    <3>1. PICK l, m : l = (CHOOSE y \in DOMAIN b : b[y].input = t) /\ m = (CHOOSE y \in DOMAIN c : c[y].input = t)
      OBVIOUS
    <3>2. l \in DOMAIN b /\ b[l].input = t /\ m \in DOMAIN c /\ c[m].input = t
      BY <1>5, <2>5, <3>1
    <3>3. m \in DOMAIN b /\ b[m].input = t
      BY <1>5, <3>2
    <3>4. m = l
      BY <1>1, <3>2, <3>3 DEF SessionTypes, BatchTypes
    <3>5. NextContents[t] = NextOf(t, b[l]) /\ NextContents'[t] = NextOf(t, c[m])'
      BY <2>1, <2>2, <3>1, <3>2
    <3> QED BY <1>5, <1>7, <3>2, <3>4, <3>5
  <2> QED BY <2>4, <2>5
<1>9. UNCHANGED <<device, nCalls, nResets>>
  BY <1>2 DEF caseVars, counters
<1> QED BY <1>2, <1>6, <1>7, <1>8, <1>9 DEF Promise!Bind, Promise!callVars, BoundStates

LEMMA PromiseBegins ==
  ASSUME Advance
  PROVE  Promise!Begin
<1>1. /\ pc = "idle" /\ pc' = "apply" /\ held' = Contents /\ heldNext' = NextContents
      /\ UNCHANGED <<caseVars, bound, counters>>
  BY DEF Advance
<1>2. BoundStates' = BoundStates
  BY <1>1 DEF BoundStates
<1>3. UNCHANGED <<device, nCalls, nResets>>
  BY <1>1 DEF caseVars, counters
<1> QED BY <1>1, <1>2, <1>3 DEF Promise!Begin, Promise!callVars, BoundStates

LEMMA PromiseContinues ==
  ASSUME Apply, HostInv
  PROVE  Stutter \/ Promise!Complete
<1>1. /\ pc = "apply" /\ pc' = "apply" /\ i \in DOMAIN updates /\ i' = i + 1
      /\ UNCHANGED <<caseVars, bound, updates, held, heldNext, counters>>
  BY DEF Apply, Applying, batchVars
<1>2. ~(i > Len(updates))
  <2>1. DOMAIN updates = DOMAIN bound /\ Len(updates) = Len(bound) /\ bound \in Seq(Binding)
    BY <1>1 DEF HostInv, SessionTypes, BatchTypes, HostBatch, Promised, KeepsApart
  <2> QED BY <1>1, <2>1
<1>3. BoundStates' = BoundStates /\ StateNow' = StateNow /\ NextNow' = NextNow
  BY <1>1 DEF BoundStates, StateNow, NextNow
<1>4. UNCHANGED <<device, nCalls, nResets>>
  BY <1>1 DEF caseVars, counters
<1>5. UpdateNow = "open" /\ UpdateNow' \in {"open", "done"}
  BY <1>1, <1>2 DEF UpdateNow
<1>6. CASE UpdateNow' = "open"
  BY <1>1, <1>3, <1>4, <1>5, <1>6, StutterSeen
<1>7. CASE UpdateNow' = "done"
  BY <1>3, <1>4, <1>5, <1>7 DEF Promise!Complete, Promise!callVars, BoundStates, StateNow, NextNow, UpdateNow
<1> QED BY <1>5, <1>6, <1>7

LEMMA BoundTyped == ASSUME SessionTypes PROVE BoundStates \subseteq States
<1>1. \A k \in DOMAIN bound : bound[k] \in Binding
  BY DEF SessionTypes, BatchTypes
<1>2. \A k \in DOMAIN bound : bound[k].input \in States
  BY <1>1 DEF Binding
<1> QED BY <1>2 DEF BoundStates

LEMMA PromiseAdvances ==
  ASSUME HostInv, EndAdvance
  PROVE  Promise!Advance
<1>1. /\ pc = "apply" /\ pc' = "idle" /\ i > Len(updates)
      /\ UNCHANGED <<caseVars, viewVars, replica, mem, bound, counters>>
  BY DEF EndAdvance, EndBatch
<1>2. UpdateNow = "done" /\ UpdateNow' = "none"
  BY <1>1 DEF UpdateNow
<1>3. BoundStates' = BoundStates /\ UNCHANGED <<device, nCalls, nResets>>
  BY <1>1 DEF BoundStates, caseVars, counters
<1>4. ASSUME NEW s \in BoundStates PROVE StateNow'[s] = NextNow[s]
  <2>1. PICK k \in DOMAIN bound : bound[k].input = s
    BY <1>4 DEF BoundStates
  <2>2. /\ DOMAIN updates = DOMAIN bound /\ Len(updates) = Len(bound) /\ bound \in Seq(Binding)
        /\ updates[k].input = s /\ heldNext[s] = Outcome(updates[k], k)
    BY <1>1, <2>1 DEF HostInv, SessionTypes, BatchTypes, HostBatch, Promised, KeepsApart, AllPromised
  <2>3. k < i
    BY <1>1, <2>1, <2>2 DEF HostInv, SessionTypes, CountTypes
  <2>4. heldNext[s] = Value(s) /\ s \in States
    BY <1>4, <2>2, <2>3, BoundTyped DEF Outcome, HostInv
  <2>5. StateNow'[s] = Value(s)'
    BY <1>1, <2>4 DEF StateNow, Contents
  <2>6. Value(s)' = Value(s)
    BY <1>1, SameValues
  <2> QED BY <1>1, <2>4, <2>5, <2>6 DEF NextNow
<1> QED BY <1>2, <1>3, <1>4 DEF Promise!Advance, Promise!callVars, BoundStates, StateNow, NextNow, UpdateNow

LEMMA PromiseSeesNoRun == ASSUME Run PROVE Stutter
<1>1. /\ pc = "idle" /\ pc' = "run"
      /\ UNCHANGED <<caseVars, viewVars, replica, mem, bound, fresh, nCalls, nResets>>
  BY DEF Run
<1>2. Contents' = Contents /\ NextContents' = NextContents
  BY <1>1, SameContents
<1> QED BY <1>1, <1>2, StutterSeen DEF StateNow, NextNow, UpdateNow, caseVars

(* What the promise asks of a step between updates. *)
LEMMA PromiseBetween ==
  ASSUME pc # "apply", pc' # "apply", UNCHANGED <<bound, device>>
  PROVE  /\ UpdateNow = "none" /\ UpdateNow' = "none" /\ BoundStates' = BoundStates
         /\ \A s \in States : StateNow[s] = Value(s) /\ StateNow'[s] = Value(s)'
  BY DEF UpdateNow, BoundStates, StateNow, Contents

LEMMA PromiseComputes ==
  ASSUME HostInv, Node \/ EndRun
  PROVE  Promise!Compute
<1>1. /\ pc = "run" /\ pc' # "apply" /\ UNCHANGED <<bound, device, nCalls, nResets>>
  BY DEF Node, EndRun, Running, NextNode, caseVars, counters
<1>2. \A s \in States : Value(s)' = Value(s)
  BY <1>1, RunStepKeepsStates DEF Next
<1>3. UpdateNow = "none" /\ UpdateNow' = "none" /\ BoundStates' = BoundStates
  BY <1>1, PromiseBetween
<1>4. \A s \in BoundStates : StateNow'[s] = StateNow[s]
  BY <1>1, <1>2, PromiseBetween, BoundTyped DEF HostInv
<1> QED BY <1>1, <1>3, <1>4 DEF Promise!Compute, Promise!Keep, Promise!callVars, BoundStates, StateNow, UpdateNow

(* On a host there are no replicas that could be behind. *)
LEMMA NothingBehind == ASSUME SessionTypes, ~device PROVE \A T : Behind(T) = replica
<1>1. \A t \in Tensors : replica[t] = [block |-> NoBlock, valid |-> FALSE]
  BY DEF SessionTypes, ReplicaTypes
<1>2. replica = [t \in Tensors |-> replica[t]]
  BY DEF SessionTypes, ReplicaTypes, Replicas
<1>3. \A T : \A t \in Tensors : [replica[t] EXCEPT !.valid = @ /\ \A u \in T : ~SameView(t, u)] = replica[t]
  <2>1. ASSUME NEW T, NEW t \in Tensors
        PROVE  [replica[t] EXCEPT !.valid = @ /\ \A u \in T : ~SameView(t, u)] = replica[t]
    <3>1. PICK r, clear : r = replica[t] /\ clear = (\A u \in T : ~SameView(t, u))
      OBVIOUS
    <3>2. r = [block |-> NoBlock, valid |-> FALSE]
      BY <1>1, <3>1
    <3>3. (r.valid /\ clear) = FALSE
      <4>1. r.valid = FALSE
        BY <3>2
      <4> QED BY <4>1
    <3>4. PICK q : q = [r EXCEPT !.valid = FALSE]
      OBVIOUS
    <3>5. q.block = NoBlock /\ q.valid = FALSE
      BY <3>2, <3>4
    <3>6. q = r
      BY <3>2, <3>4, <3>5
    <3> QED BY <3>1, <3>3, <3>4, <3>6
  <2> QED BY <2>1
<1> QED BY <1>2, <1>3 DEF Behind

LEMMA PromiseResets ==
  ASSUME HostInv, Reset
  PROVE  Promise!Reset
<1>1. SessionTypes /\ ~device
  BY DEF HostInv, KeepsApart
<1>2. /\ pc = "idle" /\ pc' = "idle" /\ UNCHANGED <<caseVars, viewVars, bound>>
      /\ nCalls' = nCalls + 1 /\ nResets' = nResets + 1
      /\ mem' = [a \in DOMAIN mem |-> IF \E k \in DOMAIN bound : a \in HostCells(Input(k)) THEN 0 ELSE mem[a]]
  BY DEF Reset, Call
<1>3. replica' = replica
  BY <1>1, NothingBehind DEF Reset
<1>4. ASSUME NEW s \in BoundStates PROVE IsZero(Value(s)')
  <2>1. PICK k \in DOMAIN bound : bound[k].input = s
    BY <1>4 DEF BoundStates
  <2>2. s \in Tensors
    BY <1>1, <1>4, BoundTyped, SessionAssumption
  <2>3. ASSUME NEW x \in 0..(Size(s) - 1) PROVE mem'[Addr(s, x)] = 0
    <3>1. Addr(s, x) \in HostCells(s)
      BY <1>1, <2>2, HostAddr DEF HostCells
    <3>2. Addr(s, x) \in DOMAIN mem
      BY <1>1, <2>2, CellsTyped DEF Cells
    <3> QED BY <1>2, <2>1, <3>1, <3>2 DEF Input
  <2>4. Size(s)' = Size(s) /\ \A x : Addr(s, x)' = Addr(s, x)
    BY <1>2, <1>3, SameGraph DEF Addr, caseVars, viewVars
  <2>5. Value(s)' = [x \in 0..(Size(s) - 1) |-> mem'[Addr(s, x)]]
    BY <2>4 DEF Value
  <2> QED BY <2>3, <2>5 DEF IsZero
<1>5. UNCHANGED device
  BY <1>2 DEF caseVars
<1>6. UpdateNow = "none" /\ UpdateNow' = "none" /\ BoundStates' = BoundStates
  BY <1>2, <1>5, PromiseBetween
<1>7. \A s \in BoundStates : IsZero(StateNow'[s])
  BY <1>1, <1>2, <1>4, <1>5, PromiseBetween, BoundTyped
<1> QED BY <1>2, <1>5, <1>6, <1>7 DEF Promise!Reset, BoundStates, StateNow, UpdateNow

(* A caller that sets one state leaves the others alone: they have no cell in common. *)
LEMMA PromiseSets ==
  ASSUME HostInv, NEW t \in Tensors, UNCHANGED <<caseVars, bound>>, pc = "idle", pc' = "idle",
         nCalls' = nCalls + 1, nResets' = nResets, \A s \in States \ {t} : Value(s)' = Value(s)
  PROVE  Promise!Set
<1>1. UNCHANGED device
  BY DEF caseVars
<1>2. UpdateNow = "none" /\ UpdateNow' = "none" /\ BoundStates' = BoundStates
  BY <1>1, PromiseBetween
<1>3. \A s \in BoundStates \ {t} : StateNow'[s] = StateNow[s]
  BY <1>1, PromiseBetween, BoundTyped DEF HostInv
<1>4. \A s, u \in BoundStates : s = u \/ StateNow'[s] = StateNow[s] \/ StateNow'[u] = StateNow[u]
  BY <1>3
<1> QED BY <1>1, <1>2, <1>4 DEF Promise!Set, Promise!Keep, BoundStates, StateNow, UpdateNow

LEMMA PromiseGetsInput ==
  ASSUME HostInv, NEW t \in States, BindInput(t)
  PROVE  Promise!Set
<1>1. SessionTypes /\ ~device /\ KeepsApart /\ t \in Tensors
  BY SessionAssumption DEF HostInv, KeepsApart
<1>2. /\ pc = "idle" /\ pc' = "idle" /\ UNCHANGED <<caseVars, viewVars, bound>> /\ Contract
      /\ nCalls' = nCalls + 1 /\ nResets' = nResets /\ nCalls < calls
  BY DEF BindInput, Call
<1>3. replica' = replica
  BY <1>1, NothingBehind DEF BindInput
<1>4. PICK v : v = [x \in 0..(Size(t) - 1) |-> 0 - 100 * nRuns - x - 1]
  OBVIOUS
<1>5. v = [x \in 0..(Size(t) - 1) |-> v[x]]
  BY <1>4
<1>6. mem' = Put(t, v)
  <2>1. base[st[t]] + at[t] = Addr(t, 0)
    BY <1>1, HostAddr
  <2> QED BY <1>4, <2>1 DEF BindInput, Put
<1>7. \A s \in States \ {t} : s \in Tensors /\ Free(s, t)
  <2> TAKE s \in States \ {t}
  <2>1. calls # 0
    BY <1>1, <1>2 DEF SessionTypes, CountTypes, CaseTypes
  <2>2. s \in Tensors /\ Disjoint(s, t)
    BY <1>1, <2>1, SessionAssumption DEF KeepsApart
  <2> QED BY <1>1, <1>2, <2>2, AtHome
<1>8. \A s \in States \ {t} : Value(s)' = Value(s)
  BY <1>1, <1>2, <1>3, <1>5, <1>6, <1>7, HostWrite
<1> QED BY <1>1, <1>2, <1>8, PromiseSets

LEMMA PromiseGetsView ==
  ASSUME HostInv, NEW t \in Tensors, NEW u \in Tensors, Rebind(t, u)
  PROVE  Promise!Set
<1>1. /\ pc = "idle" /\ pc' = "idle" /\ UNCHANGED <<caseVars, bound, mem>>
      /\ nCalls' = nCalls + 1 /\ nResets' = nResets
      /\ st' = [st EXCEPT ![t] = st[u]] /\ at' = [at EXCEPT ![t] = at[u]]
      /\ replica' = [replica EXCEPT ![t] = replica[u]]
  BY DEF Rebind, Call
<1>2. DOMAIN st = Tensors /\ DOMAIN at = Tensors /\ DOMAIN replica = Tensors
  BY DEF HostInv, SessionTypes, ViewTypes, ReplicaTypes, Replicas
<1>3. ASSUME NEW s \in States \ {t} PROVE Value(s)' = Value(s)
  <2>1. st'[s] = st[s] /\ at'[s] = at[s] /\ replica'[s] = replica[s]
    BY <1>1, <1>2, SessionAssumption
  <2>2. base' = base /\ Size(s)' = Size(s)
    BY <1>1, SameGraph DEF caseVars
  <2>3. \A x : Addr(s, x)' = Addr(s, x)
    BY <2>1, <2>2 DEF Addr
  <2> QED BY <1>1, <2>2, <2>3 DEF Value
<1> QED BY <1>1, <1>3, PromiseSets

LEMMA PromiseInitially == Init => Promise!Init
<1> SUFFICES ASSUME Init PROVE Promise!Init
  OBVIOUS
<1>1. pc = "idle" /\ bound = <<>> /\ nCalls = 0 /\ nResets = 0
  BY DEF Init
<1>2. BoundStates = {} /\ UpdateNow = "none"
  BY <1>1 DEF BoundStates, UpdateNow
<1>3. DOMAIN StateNow = States /\ DOMAIN NextNow = States
  BY <1>1 DEF StateNow, NextNow, Contents, NextContents
<1> QED BY <1>1, <1>2, <1>3 DEF Promise!Init, BoundStates, UpdateNow, StateNow, NextNow

LEMMA PromiseKept ==
  ASSUME HostInv, [Next]_vars
  PROVE  Promise!Next \/ Stutter
<1>1. CASE UNCHANGED vars
  <2>1. UNCHANGED <<caseVars, viewVars, replica, mem, fresh, bound, pc, i, updates, held, heldNext, nCalls, nResets>>
    BY <1>1 DEF vars, batchVars, counters
  <2>2. Contents' = Contents /\ NextContents' = NextContents
    BY <2>1, SameContents
  <2> QED BY <2>1, <2>2, StutterSeen DEF StateNow, NextNow, UpdateNow, caseVars
<1>2. ASSUME NEW k \in DOMAIN binds, Bind(k) PROVE Promise!Next
  BY <1>2, PromiseBinds DEF HostInv, Promise!Next
<1>3. CASE Advance
  BY <1>3, PromiseBegins DEF Promise!Next
<1>4. CASE Apply
  BY <1>4, PromiseContinues DEF Promise!Next
<1>5. CASE EndAdvance
  BY <1>5, PromiseAdvances DEF Promise!Next
<1>6. CASE Run
  BY <1>6, PromiseSeesNoRun
<1>7. CASE Node \/ EndRun
  BY <1>7, PromiseComputes DEF Promise!Next
<1>8. CASE Reset
  BY <1>8, PromiseResets DEF Promise!Next
<1>9. ASSUME NEW t \in States, BindInput(t) PROVE Promise!Next
  BY <1>9, PromiseGetsInput DEF Promise!Next
<1>10. ASSUME NEW t \in Tensors, NEW u \in Tensors, Rebind(t, u) PROVE Promise!Next
  BY <1>10, PromiseGetsView DEF Promise!Next
<1>11. ~device /\ (Fail \/ DeviceNode => device)
  BY DEF HostInv, KeepsApart, Fail, DeviceNode
<1> QED BY <1>1, <1>2, <1>3, <1>4, <1>5, <1>6, <1>7, <1>8, <1>9, <1>10, <1>11 DEF Next

(* ApplyStateBindings and StatefulSession on a host, for a graph that keeps its states apart:
   whatever is bound, copied, appended or exchanged, the bound states change only by simultaneous
   assignments of what their outputs held, by resets, or one at a time by the caller. *)
THEOREM SessionImplementsStateUpdate == Spec /\ KeepsApart => ImplementsStateUpdate
<1>1. HostInv /\ [Next]_vars => [Promise!Next]_(Promise!vars)
  BY PromiseKept DEF Stutter
<1>2. Init => Promise!Init
  BY PromiseInitially
<1> QED BY <1>1, <1>2, HostInvInitially, HostInvPreserved, PTL DEF Spec, ImplementsStateUpdate, Promise!Spec
=============================================================================
