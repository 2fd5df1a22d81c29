# A verification project for Feather

Feather (`src/`, C++17) is an inference framework: it loads a model file, rewrites
its graph, compiles it to an execution plan and runs the plan, serially or on a
pool of threads, on a host or a CUDA device; on top of it are a stateful session
for recurrent models, a runner and a chat session for Qwen models, and demos.

This directory holds TLA+ modules that model its concurrent and stateful core,
TLC configurations that check them on small instances, and proofs of their main
invariants for every instance. `PROJECT.json` is the index: it maps every
definition to the lines it models, names what each run checks, and pairs every
property with a mutated definition that breaks it (operators named `Bug...`,
which no specification uses).

    tlc -config ThreadPoolSafety.cfg MCThreadPool     # one run
    tlapm ThreadPoolProofs.tla                        # the proofs of a module

## 1. The system

    model file --> StaticGraph --passes--> CompiledGraph (order, memory plan)
                                               |
                                        ExecutionSession --- weights, contracts
                                               |
            caller --Run--> RuntimeGraph ==rounds==> ThreadPoolNv --> kernels
               |                                                        |
       StatefulSession (bind, advance, reset)                     BackendContext
               |                                              device replicas, capture
        QwenRunner --> QwenChatSession

| Component | State it keeps | Operations | Interacts with | What is hard | Correct when |
|---|---|---|---|---|---|
| ThreadPoolNv (`util/thread_pool_nv.h`) | task queue, one active batch with its atomics, `stop`, counters, two mutexes and three condition variables | `enqueue`, `RunBatch`, `wait`, destructor; worker loop | RuntimeGraph enqueues nodes; kernels run batches and chunks | lost wakeups, late workers holding a retired batch, surplus workers, join with work queued | each index runs once before RunBatch returns; calls return; nothing queued is dropped |
| RuntimeGraph (`core/graph.cc`) | nodes, dependency lists, per-run counters, use counts, binding contracts | build, `Finalize`, `Run` (serial loop, rounds), release of inputs | pool, kernels, backends | order of ends in a round, failure in a round, counters left by a failed run | a run is a dataflow evaluation; released values are dead; it returns quiet |
| CompiledGraph, ExecutionSession (`core/execution_plan.cc`) | order, memory plan; arena, bindings | `Compile`, `CreateSession`, `Bind*`, `Run` | StaticGraph, RuntimeGraph | reuse of memory across lifetimes, views, overflow | no live value is overwritten; the arena is big enough |
| StatefulSession (`core/stateful_session.cc`) | bindings of state inputs to outputs | `Bind`, `Advance`, `Reset`, `Run` | ExecutionSession, contracts in `graph.cc` | crossed, shared, aliased and overlapping states; exchanged storages | an update is one simultaneous assignment; only a caller's rebind locks a session |
| Tensor, Storage, Buffer (`core/storage.h`, `core/tensor.cc`) | shared storages, views, host version | copy on write, `ShareDataWith`, `SwapStorage` | everything | siblings detached from each other; exchange of groups | writes reach all views, never a shared source |
| BufferPool (`core/memory.cc`) | free lists by size class, all blocks | allocate, release, deallocate_all | Storage | a block released twice, or while a view is left | a block has one owner |
| x86 packed weights (`kernel/x86/prepared_weight_cache.h`, `linear.cc`) | a packing per kernel, a weak cache of shared ones | acquire, expire | Tensor | addresses that are reused, weights written later | a packing is of the weight's present value |
| Device replicas, CUDA runtime (`core/device_replica.h`, `kernel/cuda/runtime.cu`) | device copies of views, validity, pooled blocks | acquire, release, share, sync, append | kernels, StatefulSession | partly overlapping copies on two sides | a read sees the latest write |
| BackendContext, capture (`kernel/backend.cc`) | captured plan, leases | begin, end, cancel, replay | replicas | rollback of a failed capture; addresses reused before a replay | validity is that of the work really done |
| StaticGraph, passes, PassManager (`core/static_graph.cc`, `pass/`) | values, nodes, producers, use lists | add, remove, replace, absorb; fixed point of passes | CompiledGraph, semantics | half-done rewrites; indexes that disagree | indexes always equal what the nodes say |
| Operator semantics and registry | aliases, effects; builders | lookup; register, create | passes, RuntimeGraph | user code run outside the lock | a builder outlives its calls |
| QwenRunner (`demo/qwen_runner*.cc`) | plans, decode state: tokens processed, revision, `invalid` | load, prompt, step, consume, grow, reset | StatefulSession | a failure or cancellation in the middle; growth that fails | positions match what the caches hold |
| QwenChatSession (`demo/qwen_chat_session.cc`) | history, revision it left the runner at | `GenerateTurn` (plan, trim, prompt, generate, close, recover) | QwenRunner shared by chats | stale live state, provisional trimming | history changes by whole turns only |
| Kernels, operators, model files, quantizer, tokenizer, vision and diffusion runners, exporters | none that outlives a call | pure | | arithmetic, parsing | not modelled, section 8 |

`docs/execution_architecture.md` and `docs/runtime_safety.md` of the repository
describe the same pipeline; every definition here is taken from the code.
The hazards found in reading, each with the line where it bites and the properties
that watch it, are listed in `PROJECT.json`.

## 2. The modules

| Module | Models | Notes |
|---|---|---|
| `ThreadPool` | ThreadPoolNv | threads, critical sections, atomics, condition variables |
| `DataflowRun` | what a run of a graph promises | abstract |
| `GraphExecutor` | RuntimeGraph::Finalize and Run | refines `DataflowRun`; sees the pool as a FIFO |
| `MemoryPlan` | Compile's order and memory plan, CreateSession, runs byte by byte | abstracts the scheduler to "serial order" or "any ready node" |
| `StateUpdate` | what a stateful session promises | abstract |
| `StatefulSession` | StatefulSession on a host and on a device, with binding contracts | refines `StateUpdate` |
| `StaticGraph` | the rewriting primitives and their indexes | proved about on its own |
| `GraphPasses` | PassManager and eight passes over those primitives | EXTENDS `StaticGraph` |
| `GraphMeaning` | what the values of a graph mean | EXTENDS `GraphPasses` |
| `QwenRunner` | the decode state of a runner and the steps its calls are made of | used through `QwenChat` |
| `ChatLog` | what a chat promises | abstract |
| `QwenChat` | QwenChatSession over one runner | EXTENDS `QwenRunner`, refines `ChatLog` |
| `DeviceCache` | a CUDA context: replicas, block pool, captures | against one coherent memory |
| `TensorMemory` | alias groups, buffers, BufferPool and packed weights | against the values written |
| `MC...` | graphs, cases and symmetry for TLC | |
| `ThreadPoolProofs`, `GraphExecutorProofs`, `MemoryPlanProofs`, `GraphPassesProofs`, `TensorMemoryProofs`, `StatefulSessionProofs`, `DeviceCacheProofs`, `QwenChatProofs` | theorems | |

The layers meet at narrow contracts. `GraphExecutor` uses of the pool only that a
queued node is started in order by one of `workers` threads and that its future
is ready once it ended, which is what `ThreadPool`'s `QueuedTaskRuns` and
`CallsReturn` show for pools used with discipline. `MemoryPlan` uses of the
scheduler that a node starts after its producers and, serially, in plan order;
`GraphExecutor` proves the first (`PredecessorsFirst`), `MemoryPlan` proves the
second (`PlanOrderIsRunOrder`) from the loop's choice of the lowest ready index.
`StatefulSession` uses of a run that nodes write their outputs one after the other.
`QwenChat` uses of a session that a step either writes the caches with the tokens it was
given or fails and leaves them unusable; `DeviceCache` and `TensorMemory` are the memory
below all of them, on a device and on the host.

### ThreadPool

Everything guarded by `queue_mutex` is read and written in one action: an iteration of
the worker loop is `Exit`, `Sleep`, `Register`, `Surplus` or `TakeTask`, chosen by the
same tests in the same order. What the code does without the mutex is split: `Claim` is
`fetch_add` on `next_task_index_`, `Execute` the user function, `Count` `fetch_sub` on
`remaining_`, `Signal` the notification of whoever reached zero, and every `notify_one`
after an unlock (`NotifyTarget`, `NotifyEnqueued`) is a step of its own. A sleeping
thread is a pc (`idle`, `parked`, `batchAsleep`, `waitAsleep`) that a notification or a
`SpuriousWakeup` moves back to its predicate; a notification that meets no sleeper is
lost. Sleepers in both waits on `condition` compete for the same `notify_one`, as they
do in the code. `RunBatch` is `StartBatch` (batch_mutex), `Install`, `NotifyTarget`,
`AwaitBatch`, `Retire`, `Rethrow`. Clients are threads outside the pool.
`Disciplined` restricts the calls to those the repository makes: no batch while a queued
task is outstanding or the reverse, and one caller in `wait`. The batch of an empty pool,
which the caller runs alone, and the text of exceptions are left out.

`done`, `runs` and `snapshot` are history variables.

### GraphExecutor and DataflowRun

A graph is a set of input slots, since the code keeps one entry of `input_ids`,
`predecessors` and `successors` per slot and decrements once per entry. A node goes
through the phases `queued`, `running`, `ran`, `released` and out, or `failed`: the start, the
kernel, the release of inputs and the recording of its end are separate steps, as
other workers' steps come between them. The caller is `serial` (the loop over the
lowest ready node), `round` (it launches what is ready), `join` (it waits for the futures
of the round) or `result`. `Finalize` runs Kahn's sweep, refuses cycles, and creates
a pool of min(threads, nodes) workers. The refinement maps a kernel's success to
`Evaluate` and everything else to a call's begin, end or a stutter.
Construction of the graph, checks of shapes and thread affinity are not modelled.

### MemoryPlan

A value has a storage group, an offset and a size; values of one group are views of one
storage. `Order` and `EndOrder` are `ValidateAndOrderGraph`'s topological order with its tie
break and its refusal of cycles; `Place` is one turn of `BuildMemoryPlan`'s
loop over groups by first use, with the best-fit choice of a free slot, the extension of the
arena and its overflow tests; `CreateSession` decides whether memory is reused.
`Align` stands for 64 and `SizeMax` for the largest `size_t`. Runs are modelled byte by
byte: `Write` lays the name of its group over the bytes of a value, so a byte tells who
wrote it last. A node that is running still reads its inputs, so an output laid over an
input of its own would be seen.
`WellFormed` states what `Compile` has checked before the plan is made.

### StatefulSession and StateUpdate

A tensor is a storage, an offset and a shape; storages lie at addresses that may
overlap (wrapped memory). `Refused`, `Snapshot`, `Stable` and `Source` are the tests of
`ApplyStateBindings` and `StateOutput`; `Apply` performs one update (`Write` for copies and
appends, `Exchange` with its change of the contracts), so updates that disturb each other
are seen. `Contract` is `CheckTensorBindings`, which guards runs, updates and resets.
The refinement reads the states at the beginning of a batch while it is applied,
so the batch is one `Advance` of `StateUpdate`; what the bindings are to make of the states
is computed there from their outputs and, for appends, from rows as sequences, apart from the
index arithmetic of the code.
On a device (`device`) a view may have a replica in a block, which then holds its latest
contents: `DeviceNode` brings a kernel's input there, lets a view share its input's block and
gives up what the run no longer needs (`Needed`), `DeviceUpdate` copies, appends or exchanges
blocks, and `Fail` ends a batch at any of its updates. `ImplementsStateUpdate` then says
that each state has its contents from before or after, and that a batch in which no update failed
is complete. This is the user's view of the replicas whose coming and going `DeviceCache` models; a
block is always to be had, reads are deferred, and host memory of different tensors is apart, except
for a state that is its own output, as overlapping replicas are the subject of `DeviceCache`.

### StaticGraph and GraphPasses

`StaticGraph` keeps the node list and, beside it, the three indexes the code maintains by
hand: the producer of a value, the users of a value (each node that reads it once, in however
many slots: `RegisterValueUse` removes duplicates) and the aliases of outputs. A call that returns true is
an action; one that returns false before it changed anything is a stutter. The calls that fail half-way leave what
the code leaves: `CreateFails` the outputs that a builder has resized although no kernel was found;
`ReplaceInputValue` and `ReplaceNodeDesc`, with `taken` short of all outputs, the new inputs, operator and use lists when
`RestoreDeclaredTensorMetadata` stops the loop over the outputs (`static_graph.cc:636`, `:829`); `AbsorbHalf` the same for
`ReplaceNodeDescAndAbsorbNode`. What `OperatorRegistry::Create` answers is a parameter.

`GraphPasses` runs `PassManager::RunStatus` over it. All passes of the repository have one
shape: collect candidates, visit them in node order, match a pattern on the graph as it is
by then, issue a fixed list of calls. `work` is the set of the candidates that are left, visited from
the smallest, and `todo` is what is left of the calls; a step makes one call, so what an earlier pass or call left is what the next one
meets. Modelled are SigmoidMul, MatMulAdd, QwenDepthwiseConv, Identity, ReshapeChain,
NoOp, DeadNode and StateOutputAlias, which between them use every primitive. Tensors
are their dimensions, inferred as the operators do; the models are those that `BuildStatus` can
build, every operator of which can be created (`Sized`). Data types are not modelled: whether a kernel is found, and whether
the metadata an operator infers contradicts the declaration, is a choice at every rewrite. `status` keeps apart why a
pass returned -1: the graph `"refused"` the call, `"no kernel"` or `"metadata"`. In `GraphMeaning` the meaning of a value
is a term over the sources, and a fused node means what the pattern it stands for means.

### QwenRunner, QwenChat and ChatLog

The runner's caches are the sequence of tokens they were written with; `processed`,
`invalid`, `revision` and `capacity` are the code's. `QwenChat` is `GenerateTurn` from plan
to acceptance, one step between any two places where it can fail, be cancelled or call
back: the plan with its dropped turns, the growth, replay or continuation, chunks of the
prompt, each generated token, closure, recovery and the restoration of the history.
`OutsideLoad`, `OutsideReset`, `OutsideReserve`, `OutsideCall` and `NestedTurn` are what else may happen to the
runner: calls from outside (Load, Reset, ReserveContext, Consume), another chat's turn, and a turn
begun inside a callback; failures and cancellations are branches of the steps, bounded together
by `MaxUpsets`. Calls are made one after the other, as the code requires. Only
exports with one plan for prompt and decode are modelled, and a context reserve
above the closure is left out. `ChatLog` is the abstract promise: whole turns are
appended, and only the oldest leave, in the same call.

### DeviceCache

Every call holds the context's mutex, so a call is a step. A place is a cell of a host
storage or of a device block; `copy` says which cells' latest values a place holds, so a write
takes the cell away from all other places. Replicas carry the code's validity bits, and whether
their version is the storage's current one in place of the number. Modelled are acquiring
for read and write, kernels with borrowed scratch blocks, host reads and writes, aliases, `CopyState`,
`SwapState`, `AppendState`, exports, release, and captures with each of their
ends: abandoned, failed, instantiated and retained, with leases. The calls of a capture are
taken as done at once, with the first launch; replays are left out. Host reads are
synchronised on demand (the deferred mode). Not modelled: immediate synchronisation,
`ShareImmutableTensorDevice`, the cache of converted fp8 weights, `ClearTensorCache`, a host write
while another view of the storage has its value on the device only, and binding a
tensor to another view.
`void` are cells the code gives no value: those that another view borrows or has pending when the block is
written, that go with the last replica, or that two views of one block have at different places (`Entangled`); a
later write ends it. `lost` are cells that have a latest value which the cache lost, so that it takes an older copy for
current. There are two ways. A host read inside a capture fails, as nothing can be downloaded while the stream
records, but has already raised the storage's version through `mutable_data` (`runtime.cu:1072`); after the
rollback a value that only the device had is taken for outdated (`FailedRead`). `docs/execution_architecture.md:73` says
of the rollback that the ordinary execution that follows does not mistake writes that never ran for done. And
`SwapTensorDeviceStorage` asks for two valid device copies and not for current ones (`runtime.cu:1225`): if the host has
written to the state or its output since, `SwapState` exchanges the outdated block and marks it current (`Outdated`).
The cells stay `lost` until they are written again, and follow the value when another view takes it over.

### TensorMemory

A tensor is a reference to a Storage and an immutable mark; a Storage has a
Buffer over a block of the pool or of the heap, or none while allocation is deferred.
Reference counts are reachability: `Become` is what every call ends with, namely that storages
nobody refers to are gone, their blocks are returned to the free list, and kernels whose weight is
gone can match nothing. `mutable_data` is the code's two cases, in place or through
`MakeWritable`; `Freeze` is `FrozenBytes`; `Pack` is the two levels of the packed-weight cache, with a
key made of an address and a version. `expected` is the history variable the
properties compare with. Tensors view a whole storage, since ranges are the matter of
`MemoryPlan` and `StatefulSession`; the pool has one size class; failed allocations are left out;
packings are of one format.

## 3. The runs

| Run | Configuration | Shows | Size |
|---|---|---|---|
| `pool_overlap` | 2 workers, 2 clients, one batch of 1 or 2 indices, 2 tasks, 1 wait, any overlap | safety of batches, waits and the destructor | 168k states |
| `pool_live` | the same with 1 task, disciplined, fair threads, deadlock checked | every call returns, every task runs, the destructor joins | 28 s |
| `pool_mixed` | one batch of 1 index and 1 task, overlapping | **violation**: the task may never run (finding 1) | 1 s |
| `graph` | five graphs of 4 nodes and 5 slots; all graphs of 3 nodes and 3 slots beside a fourth node; two runs, up to 3 workers, fair | refinement of `DataflowRun`, release, quiet return; `Run` returns | 252k states |
| `plan` | 3- and 4-node graphs, views, sizes past `SizeMax` = 10, 2 runs | lifetimes, arena, inputs, results | 137k states |
| `state` | two states and three other tensors in 101 cases, 29 of them on a device; 3 runs, a caller's call | refinement of `StateUpdate`; contracts, constants | 1.2M states, 80 s |
| `state_exchange` | a state bound to a view, storages exchanged | **violation**: a run writes to a state (finding 2) | 1 s |
| `chat` | two chats, three turns, two upsets, capacities 4 (growing to 9) and 7, fair steps | answers from own history, trusted state, room, refinement of `ChatLog`, turns end | 1.0M states, 70 s |
| `graph_passes` | eight passes over all chains of 3 nodes on two sources, and the depthwise convolution of the Qwen graphs | indexes agree, meanings and dimensions of outputs, why a pass stops | 219k states, 35 s |
| `graph_passes_copy` | the same with reshape targets that copy (0) or infer (-1) | **violation**: an output changes its dimensions (finding 3) | 1 s |
| `device_cache` | six layouts of 2 or 3 tensors, two blocks, captures of up to 2 calls | one use per block; every read is current, but for `lost` cells | 0.7M states, 110 s |
| `tensor_memory` | 3 tensors, 2 kernels, 2 pool blocks, 2 heap blocks, 2 values | groups, packings, the pool | 178k states, 60 s |

Why these bounds are enough to be interesting.
*Pool*: two workers and a batch of one index give a surplus worker; of two, two workers
in the function; two clients give a batch, a task and a wait at once. The proofs cover any number.
*Graphs*: three slots suffice for a double read, a fork and a cycle;
the larger graphs add a diamond, two outputs, forks and interleaved chains; two runs show what the first, failed or
not, leaves to the second. Graphs with a cycle are refused by `Finalize`, and every later `Run` with them.
*Plan*: four groups, two of which can share a slot while a third is alive; sizes 0 to 6 with
alignment 2 against a largest size of 10 make each of the overflow tests decide.
*State*: two states are the fewest that can be crossed; two rows of two or three columns tell a
row's shift from a copy; three runs let storages that were exchanged come back. The cases on a
device are all kinds of update of what kernels wrote, outputs that share another state's block, an
output behind an alias, a constant, a state that is its own output, and one output for two states.
*Chats*: with prompts of two and one tokens, two turns of one chat fit the larger capacity and two
of the other do not, so trimming, growth and refusal all occur; three turns let a chat come
back after the other has used the runner; two upsets let a recovery fail as well; chunks of two
tokens make a prompt fail half-way.
*Passes*: three nodes are a match with a node before or after it; the weight of the convolution is a
constant or, as in the exported graphs, a reshaped one; inner values may be graph
outputs. Reshape targets with 0 or -1 are kept to `graph_passes_copy`.
*Device*: two blocks for up to three replicas make the pool run dry, blocks be reused and an allocation fail;
the layouts are a tensor and a part of it, both halves, one view twice, a state and its
new row, two views of one storage that overlap at different offsets, and separate storages of equal
size. Captures of two calls are tried in one of them (`Calls`) and exports in two (`Exports`), which keeps the run short.
*Memory*: three tensors make a group of two beside another group; two blocks make the
first one released be the first one reused; two kernels share a packing.
Counters of calls are the only bounds on behaviours (`MaxBatches`, `MaxTasks`, `MaxWaits`,
`MaxSize`, `MaxRuns`, `calls`, `MaxTurns`, `MaxUpsets`, `MaxExports`, `MaxCalls`); `TensorMemory`
and `GraphPasses` have none.

Deadlock is checked except where the system may really stop: in `pool_overlap` and
`pool_mixed` a stranded task leaves its client in `future.get()` (finding 1), and the two
`StatefulSession` runs end when the caller has made its bounded calls, and `chat` when its
turns are used up.
Symmetry is used where all constants are interchangeable and no liveness is checked: threads in
`pool_overlap`, blocks in `device_cache`, tensors, kernels, blocks and values in `tensor_memory`.

Fairness. `ThreadPool`: weak fairness of every worker and of every client that is
inside a call, i.e. the operating system runs threads that can run; no call has to be made
and no spurious wakeup has to happen. `GraphExecutor`: weak fairness of the caller's
steps inside `Run` and of every node's steps, which a worker performs. `QwenChat`: weak
fairness of the step of the turn in progress, as a turn is one thread inside one call. Kernels and
user functions are assumed to return.

## 4. Findings

1. *A queued task can be stranded by a batch* (`pool_mixed`,
   `thread_pool_nv.h:156`). A task is enqueued while no worker waits on `condition`, so its
   `notify_one` reaches nobody, and a batch is installed before a worker takes it. Workers serve
   the batch first: the one that comes too late for it sleeps on `condition` until the batch is
   retired, and so does the one that ran it. `RunBatch` retires the batch and notifies `completed` only:
   both stay asleep while the task is queued, until the next enqueue or batch. The comment at
   `thread_pool_nv.h:211` says that there is no ordinary task to run in the surplus worker's branch.
   The repository's own callers do not let the two overlap, which is what `Disciplined` says.
2. *An exchanged state is overwritten through a view* (`state_exchange`,
   `stateful_session.cc:115`). Without a plan and without `stable_storage` the state and its
   output exchange storages. If the output is a Reshape, Flatten, Squeeze, Unsqueeze or
   Slice of what a kernel writes, the producer's tensor keeps the storage the state now has,
   and the next run writes there while it still reads the state. The comment at
   `stateful_session.cc:72` states the opposite intent. On a device the run gives up the
   producer's replica, and with it the shared block, unless the tensor is an output of the graph as
   well: then the next run writes to the state there too. The device cases of `state` leave
   that combination out.
3. *Eliminating a reshape changes another's result* (`graph_passes_copy`,
   `reshape_chain_elimination_pass.cc:74`). The inner of two reshapes is bypassed whatever the
   outer one's target is. A 0 or a -1 in that target is then resolved against other dimensions,
   and nothing compares the result with the dimensions the value had: for x of [2,2],
   Reshape [4,1] and Reshape [0,-1] give [4,1] before the pass and [2,2] after it.

`StopsForAReason` allows two refusals, which follow from the model that was loaded: a MatMul added to itself, which
becomes the bias of its own Gemm and then cannot be removed, and an inner value of the depthwise convolution that is a
graph output. The refused call changes nothing, but the calls before it have been made: the pipeline returns
an error and the graph is partly rewritten. The same holds when a rewrite finds no kernel or stops at
metadata that contradict the declaration, which the property does not exclude; then even the call itself is
half done. `IndexesAgree` holds of all these graphs but those of a half-done absorption, and `OutputsKeepMeaning` up to the
call that stops for its data types.

## 5. The theorems

All proofs are checked by tlapm to the last leaf, from the constants' named
assumptions only (`PoolAssumption`, `ExecutorAssumption`, `PlanAssumption`, `NoNodeAssumption`,
`NoValueAssumption`, `StoragesAssumption`, `BlocksAssumption`, `ValuesAssumption`, `DeviceAssumption`,
`SessionAssumption`, `LimitAssumption` and `ChatAssumption`).

**ThreadPoolProofs** — any numbers of workers, clients, batches, indices and tasks, with
any overlap. `BatchCompletes`, `RetiredBatchesAreQuiet`, `CountMatchesWork`. That RunBatch
returns only when the work is done is not inductive: one needs that
`remaining_` counts the indices not yet subtracted (`CountInv`), for which no two workers may
hold the same index (`WorkerInv`), for which indices not yet claimed have not run (`RunsInv`) and a
new Batch is untouched (`FreshInv`); that only the active batch is unfinished needs that the
holder of batch_mutex is the one inside RunBatch (`CallerInv`). `PoolInv` is their conjunction.
Each action has a step; the number of indices is handled by lemmas on cardinalities.
The second half is about the task queue. `TrackInv` says that a task
enqueued is queued, in a worker's hands or done, and that in_flight is the number of hands;
so a `wait` that sees an empty queue and no task in flight has seen everything done, and stays
right (`EndInv`), although batches and new tasks come in between. The same invariant, with
"workers leave only when the queue is empty and nobody can enqueue", covers the join.
`WaitCoversTasks`, `JoinLeavesNothing`, and `PoolTypes`, the type invariant.

**GraphExecutorProofs** — any finite graph, any number of workers and runs.
`SchedulerInv` says that ready, queued and started nodes have ended predecessors (`ReadyInv`),
what a phase entails (`PhaseInv`), where the caller is while nodes are busy (`CallerInv`),
and that the two families of counters are the sizes of the sets they stand for
(`DependencyInv`, `UseInv`), from which completion follows (`CompletionInv`). From it:
`NodesFollowPredecessors`, `NodesRunOnce`, `ReleasedValuesAreDead`, `SuccessMeansComplete`,
`ReturnsQuiet`, `ImplementsDataflowRun`, the refinement, and `ExecutorTypes`, for which
in_flight is shown to cover the busy nodes (`CounterInv`).

**MemoryPlanProofs** — any graph, grouping, alignment and sizes. Three layers:
the shape of a plan (types and the order's agreement with dependencies), the plan (slots are
disjoint, a slot's end is the last of its groups, groups are placed in order of their first
node, so groups of one slot live one after the other), and the progress of a run (a byte of a
group that is written and still alive holds that group). From them `LiveGroupsAreDisjoint`,
`ArenaIsLargeEnough`, `SerialRunsFollowThePlan`, `InputsStayIntact`, `ResultsStayIntact` and `PlanTypes`.

**GraphPassesProofs** — any graph, any model that can be built, any list of passes. `GraphIndexesAgree`: whatever sequence of rewriting calls,
successful, refused or failed half-way, the users of a value are exactly the live nodes that read it, each
once, and a value's producer is the live node that lists it, once; the one
exception is an absorption that stopped between its two halves (`torn`), which the code does not
undo. One lemma per way of touching the indexes, with the outputs entered before a call failed as a parameter.
For the pipeline: what each operator infers from known dimensions is known
(`InferType`), and the arguments of the calls that a pattern leads to are of the right kind, which for
a bypass needs that the candidates of NoOp still have one input and one output when they are visited
(`NoOpKeepsSingles`). From this `PipelineTypes`; that every step of the pipeline is a step of
`StaticGraph` or leaves the graph alone (`PassesRewriteTheGraph`); and so `PipelineIndexesAgree`.

`PipelineStopsForAReason` says that the validation never rejects what a pass left and that the graph refuses a call for
the two reasons of section 4 only; it does not say that a rewrite never stops for its data types. It has an invariant of three parts (`IInv`). The structure that the
validation looks at (`Sound`) holds after every single call, not only between the passes: each
primitive, with the arguments a pass gives it, keeps every node sized and the graph acyclic
(`RemoveSound`, `RelaySound`, `RewireSound`, `AbsorbSound`; an edge is only ever replaced by a path
that was there, `Shortcut`, `JoinedNodes`). For the calls that a match has still to make, the graph has
what makes them succeed (`CallsSucceed`, one stage per pattern and call: the removed node has no users
left, the new operator infers the dimensions the value has). The candidates still to be visited are
what they were noted for (`WorkMatches`), although the passes of identities and no-ops note them
before the first is bypassed; for the relays this needs that no value is an alias before that pass
(`NoAliasYet`) and that each pass is added once. `Least`, from `WFMin`, gives the acyclicity of a model that lists its nodes
in order.
The theorem assumes of the models (`PlainModels`, true of all models of `graph_passes`) that the weights of
convolutions are sources, or prepared from sources by nodes that are no join, split or convolution, and
that no reshape target copies a dimension with 0. `tools/export_qwen35_model.py` builds such graphs
(the weight is a reshaped constant, line 927; its reshapes name every dimension); the code checks neither of any
model it loads. `MatchQwenDepthwiseConvPattern`
(`qwen_depthwise_conv_fusion_pass.cc:149`) looks at the type and shape of the weight and not at where it comes from: a
weight computed from the next state would make the joined node wait for itself. That the preparing nodes
stay apart from the joined ones is part of the invariant (`Plain`): a rewiring of one of them reads what a
preparing node read, and a removed one had no users. A target that
copies a dimension lets the bypass of the inner reshape change a value's dimensions, which is finding 3.

**TensorMemoryProofs** — any finite set of tensors and pool blocks, any kernels, heap
blocks and values. `MemoryInv` has two layers. `Sound` is what every call must make: a group's
memory has its value; only read-only memory, which is never the pool's, has two groups;
a shared packing is of read-only memory, so of bytes that cannot change before it is gone; a
version stands for the present value of its storage; a block a storage has is not free.
`Tidy` says that nothing is left of what is gone, so that the block or identity a call is given
is fresh. `BecomeKeeps` shows that the common end of all calls turns a `Sound` state into one
with `MemoryInv`; one lemma per call shows that what it passes there is `Sound`. From it:
`MemoryTypes` (the blocks lent are those reached), `GroupsKeepValues`, `PackedWeightsAreCurrent`.

**StatefulSessionProofs** — any graph, bindings, memory and backend. `ContractInv` says that
inside a call the contract holds: a call begins only if it does, a caller replaces views only
between calls, and an exchange of storages moves the contract along with the views
(`ExchangeMovesContract`). From it `SessionKeepsItsContract` and `ReplacedViewsAreNotWritten`.
`SessionTypes` are the types: `SessionTypesHold`. That every view lies in memory needs that an exchange is
between tensors of equal size, hence that updates come from bindings that were tested (`BatchTypes`), and, on a
device, that a free block is there for a view that needs one (`BlockTypes`, and a count of the blocks in use).
`SessionAssumption` asks of a case what a compiled graph has: views inside their storages, and on a device blocks that hold
any tensor and are apart from each other and from host memory, as allocations are.
The batch of `ApplyStateBindings` is a third layer: from its decisions on snapshots and exchanges, made before the first
write, to the values after the last. On a host `HostBatch` says that states are apart (`Distinct`), that an output
still to be read, unless read in advance, is apart from what other updates write or exchange (`ReadLater`), that storages still to be
exchanged have no other reader (`MovedLater`), and that each update gives, or gave, its state what it was promised
(`Promised`). An exchange permutes the storages, so the first three speak of where tensors are at present. On a device `DeviceBatch` says it of
views and blocks (`Clear`): states are clear of each other (`Separate`), and an update that does anything finds its
output clear of the others (`ReadOnDevice`); since a copy may take a new block, that needs that blocks are apart (`MemoryApart`);
and states still to be updated are as they were (`Kept`), so that a failure leaves them so. `Computed` writes what an
update makes of its state as a function of the values alone, and `RowsMove` shows that shifting the cells is moving each row, as
the property words it. From these: `BatchesAreSimultaneous`, the part of `ImplementsStateUpdate` that concerns updates
(for bindings that exchange their own output).
The fourth layer is a host's graph as a whole. What runs do to the states depends on the graph, so the three last
theorems have the hypothesis `KeepsApart`, on the graph the session starts with: no node writes memory of a state (`Written`; a view that
has its input's place is not written, as long as neither is exchanged), a tensor that updates exchange (`Moving`) shares
memory with no other that is written, exchanged, a state or a constant, states share none with constants, nor with each
other if the caller sets one, and an exchange with the input of a whole view finds the view in its input's place.
It speaks of the places in the contract (`Home`), which exchanges permute among tensors that share with nobody, so it
stays true (`ApartWithExchange`). TLC found it, `Accepted` and `AllPromised` invariant in all 72 host cases of the run `state`; the
graphs of `state_exchange` (finding 2) violate it. With `Accepted` (an exchange is between `Moving` tensors, no constant among
them) and `AllPromised` (the promise is for every binding; that of an exchange with the input of a whole view is what its output holds)
it is the invariant `HostInv`. From it: `RunsKeepStates`, `ConstantsStayIntact`, and `SessionImplementsStateUpdate`, with
one lemma for each action of the session that says which step of `StateUpdate` it is, or that it is none.

**DeviceCacheProofs** — any finite set of blocks, any tensors, layouts, captures and limits.
`CacheInv` says that the cache is `Fit`, and the snapshot of a capture too. `Shape` is that valid
copies have a block, bound handles have a replica, the pool holds a block once and every block in
use is owned, without which a block that the driver allocates need not be new; `Apart` is that the uses are apart.
There is a lemma for each helper of the code (bind, mark, invalidate, outdate, erase, release,
allocate, ensure), and one for each call. The snapshot stays fit while a capture records because outsiders
can only let go of blocks meanwhile and no lease changes. From it `EveryBlockHasOneUse`.
The values are a second layer. `Latest` speaks of three things only: the views usable on the device, those
pending among them, and the block of each. A host cell nobody has pending holds its latest value, and so
does a block for its usable views, save for cells another view has pending. That is not inductive:
what two pending views share, or a pending view and one that shares its block, must have no defined value
(`PendingApart`, `SharersApart`), or a download of one would pass for the value of the other. One lemma for each
operation on the places (upload, device write, host write, download, alias, copy, exchange, fewer views)
shows that it keeps `Latest`; lemmas on the helpers say what becomes of the three things; and each call is a chain of
helpers and one operation. `ValueInv` says it of the present and of the snapshot a capture may return to. From it and
`CacheInv`: `DeviceTypes` and `EveryReadFindsTheLatest`. Cells that have no defined value or whose value was lost are
treated alike (`Gone`); what makes the theorem more than that is where `lost` may grow, in `FailedRead` and
`SwapState` only, and by exactly the cells these calls lose. For an exchange of outdated copies
the invariant says nothing about their blocks, so `LatestOfSwap` has the cells they may be wrong in as a parameter. The proof attempt found two things: that a
cell which two views of one block have at different offsets has two places after an alias or an exchange,
whence `Entangled` in the model and the layout `Shifted` in the run; and that a tensor must fit the block of its
size class, whence the second half of `DeviceAssumption`.

**QwenChatProofs** — any number of chats, tokens, capacities and lengths of prompts and
replies. `IInv` rests on counting: a runner's revision only grows, and grows with every accepted step, so
a chat that remembers a revision remembers a state of the past, and one that finds its revision unchanged finds
the state it left (`Behind`, `Live`). Inside a turn the runner has processed exactly the plan made at its start, or
a prefix that the chunks still to come complete (`Planned`, `Feed`), then the tokens already sampled
(`Reply`), whose number the room found by `PlanTurn` bounds (`Room`); the history is touched at the end
only (`Own`). `ChunkFits` and `DoubledIsEnough` are what the chunk sizes and the growth of the capacity rely on.
Histories are flattened from turns by a fold; that flattening a history with one more turn appends its tokens
(`FlattenAppend`) is an induction on its length. No library theorem on induction can be used with the
installed provers, so it is done by sets: the lengths up to which a fact fails have a least element (`LeastNat`, from
`WFMin`). From `IInv`: `ChatTypesHold`, `AnswersComeFromOwnHistory`, `TrustedStateIsHistory`,
`AcceptedTurnsHaveRoom`, and the refinement `ImplementsChatLog`: the commit of a turn is the log's one step, every
other step leaves the turns alone.

Only model-checked: all liveness (`CallsReturn`, `QueuedTaskRuns`, `DestructorReturns`,
`RunReturns`, `TurnEnds`), as the prover has no ENABLED; the meanings in `GraphPasses`, which are
terms built by recursion; and on a device, `ConstantsIntact`, `RunKeepsStates` and what `ImplementsStateUpdate` says of
runs, resets and inputs (the updates are proved on both), as a run gives out and takes back replicas. The invariants used in the
proofs (`PoolInv`, `TaskInv`, `SchedulerInv`, `MemoryInv`, `IInv`, `KeepsApart`) were checked by TLC before they were proved.

## 6. What a property is worth

Each checked property has a mutant of the code: for instance fetch_sub tested against 0
for `CallsReturn`, dependency counters not reset for `ImplementsDataflow`, a graph output that
dies with its last reader for `ResultsIntact`, a snapshot that looks only at the update's own
input for `ImplementsStateUpdate`. TLC finds each mutant under the run's own configuration.

## 7. Plan

What is left, in order of importance.

1. Proofs about `StatefulSession` on a device: `ConstantsIntact`, `RunKeepsStates` and the runs of `ImplementsStateUpdate`,
   from a condition on views and on the replicas that a run releases.
2. The remaining fusions of `GraphPasses`.
3. OperatorRegistry: builders that are replaced while they run.

Hazards seen that no property covers, beside those of `PROJECT.json`: chunks of
`ParallelForWorkItems` refer to a local function and are joined by `future.get()`, which
rethrows at the first failure (`kernel/x86/conv2d.cc:74`); `Bind` does not ask for the output to be a
graph output, so a planned session may reuse its memory (`stateful_session.cc:239`);
the runner's `OperationGuard` is a plain bool that refuses nested calls and not concurrent ones
(`qwen_runner.h:138`); a builder of the registry may be replaced while it is being called
(`operator_registry.cc`).

## 8. Not modelled

Kernels and shape inference (arithmetic on tensors and pure checks); model files, weight stores,
layout transformations and the quantizer (parsing and numerics of one call); tokenizer, templates
and specialisation (text); vision and diffusion runners and the command lines (callers
with no protocol of their own); exporters (offline scripts); CUDA streams below the
runtime's own bookkeeping; memory-model reordering of the relaxed atomics, as
`ThreadPoolNv`'s atomics are acquire-release where their order is relied on; and the components of
section 7 that wait for their turn. About nine tenths of the repository's lines are kernels, operators,
file formats and offline tools of these kinds, whose calls leave no state behind for a later call
to find; the modules cover the rest, the parts that schedule, own memory and keep protocols.
